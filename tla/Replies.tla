------------------------------- MODULE Replies -------------------------------
(***************************************************************************)
(* The detection probes of an enrolment and the replies of the sensor.     *)
(* gx_fdt_probe sends a request and reads twice, whatever it finds: the    *)
(* acknowledgement, then the measure.  It never drains what is pending, so *)
(* that a reply that comes late is read by the next probe.  Only a capture *)
(* drains.  The waits of the state machine (GX_ST_WAIT_ON, GX_ST_WAIT_OFF) *)
(* and the two probes around a capture are kept; what a capture brings is  *)
(* a choice, and its own replies are all read by its drains.               *)
(*                                                                         *)
(* X_Word after the name of a definition X is a plausible bug in the code  *)
(* X models; Next does not use it.                                         *)
(***************************************************************************)
EXTENDS Integers, Sequences

CONSTANTS
    PollMax,    \* polls that wait for a finger, less one (300)
    OffMax,     \* polls that wait for its release, less one (100)
    Stages,     \* presses of an enrolment
    MaxProbes   \* bound: probes sent between two captures that drain all

ASSUME LimitsAssumption ==
    /\ {PollMax, OffMax, MaxProbes} \subseteq Nat
    /\ Stages \in Nat \ {0}

VARIABLES
    phase,      \* of the operation
    step,       \* of the probe: what it does next
    n,          \* probes sent since the last drain that left nothing due
    due, bus,   \* replies that the sensor has not sent yet; sent and not read
    finger,     \* what the zones see: a light touch is neither on nor off
    polls,      \* done in this state
    view,       \* captures of this press
    stage,      \* usable presses
    read,       \* whether the last probe brought a measure; the probe that the last
                \* measure answers
    missed,     \* history: reads that found nothing, since n was 0
    lost,       \* history: a reply was lost, since n was 0
    held        \* history: each probe of this wait was sent with the finger down

protocol == <<n, due, bus, missed, lost>>
machine == <<phase, polls, view, stage>>
vars == <<protocol, machine, step, finger, read, held>>

Levels == {"none", "light", "down"}
Ack(m) == [kind |-> "ack", probe |-> m, level |-> "none"]
Fdt(m, level) == [kind |-> "fdt", probe |-> m, level |-> level]

NoRead == [ok |-> FALSE, probe |-> 0]

Probing == {"on", "again", "why", "off"}

Init ==
    /\ phase = "on" /\ step = "send" /\ polls = 0 /\ view = 0 /\ stage = 0
    /\ n = 0 /\ due = <<>> /\ bus = <<>> /\ missed = 0 /\ lost = FALSE
    /\ finger = "none" /\ read = NoRead /\ held = TRUE

(***************************************************************************)
(* The sensor and the finger                                               *)
(***************************************************************************)
Touch(level) ==
    /\ finger' = level /\ finger # level
    /\ UNCHANGED <<protocol, machine, step, read, held>>

\* A reply gets to the bus, however late.
Arrive ==
    /\ due # <<>>
    /\ bus' = Append(bus, Head(due)) /\ due' = Tail(due)
    /\ UNCHANGED <<n, missed, lost, machine, step, finger, read, held>>

\* A reply is never sent.
Lose ==
    /\ due # <<>>
    /\ due' = Tail(due) /\ lost' = TRUE
    /\ UNCHANGED <<n, bus, missed, machine, step, finger, read, held>>

(***************************************************************************)
(* The probe                                                               *)
(***************************************************************************)
\* The request: the sensor owes two replies.
SendProbe ==
    /\ phase \in Probing /\ step = "send" /\ n < MaxProbes
    /\ step' = "ack" /\ n' = n + 1
    /\ due' = due \o <<Ack(n'), Fdt(n', finger)>>
    /\ held' = (held /\ (phase = "on" => finger = "down"))
    /\ UNCHANGED <<bus, missed, lost, machine, finger, read>>

ReadAck_Skipped ==
    /\ step = "ack" /\ step' = "payload"
    /\ UNCHANGED <<n, due, bus, missed, lost, machine, finger, read, held>>

\* The first read takes whatever is there, or finds nothing.
ReadAck ==
    /\ step = "ack" /\ step' = "payload"
    /\ IF bus = <<>> THEN missed' = missed + 1 /\ UNCHANGED bus
                     ELSE bus' = Tail(bus) /\ UNCHANGED missed
    /\ UNCHANGED <<n, due, lost, machine, finger, read, held>>

\* The poll of a state, or the probe of a capture, ends with its answer: none, or
\* the level that it read.
WaitOn(level) ==
    /\ phase = "on"
    /\ IF level = "down"
       THEN phase' = "capture" /\ view' = 1 /\ UNCHANGED <<polls, held>>
       ELSE /\ polls' = polls + 1 /\ UNCHANGED <<view, held>>
            /\ phase' = IF polls' > PollMax THEN "failed" ELSE "on"

WaitOff(level) ==
    /\ phase = "off"
    /\ IF level = "none" \/ polls + 1 > OffMax
       THEN /\ phase' = IF stage >= Stages THEN "done" ELSE "on"
            /\ polls' = 0 /\ held' = TRUE
       ELSE polls' = polls + 1 /\ UNCHANGED <<phase, held>>
    /\ UNCHANGED view

\* gx_finger_present: once more the same press, or why it could not be used.
Present(level) ==
    /\ phase \in {"again", "why"}
    /\ IF phase = "again" /\ level = "down"
       THEN phase' = "capture" /\ view' = 2 /\ UNCHANGED polls
       ELSE phase' = "off" /\ polls' = 0 /\ UNCHANGED view
    /\ UNCHANGED held

Handle(level) == WaitOn(level) \/ WaitOff(level) \/ Present(level)

\* The second read finds nothing, ...
Missing ==
    /\ bus = <<>> /\ missed' = missed + 1 /\ read' = [read EXCEPT !.ok = FALSE] /\ UNCHANGED bus
    /\ Handle("unread")

\* ... something too short to be a measure, ...
TooShort ==
    /\ bus # <<>> /\ Head(bus).kind = "ack"
    /\ bus' = Tail(bus) /\ read' = [read EXCEPT !.ok = FALSE] /\ UNCHANGED missed
    /\ Handle("unread")

\* ... or a measure, whichever probe it answers.
Measure ==
    /\ bus # <<>> /\ Head(bus).kind = "fdt"
    /\ bus' = Tail(bus) /\ UNCHANGED missed
    /\ read' = [ok |-> TRUE, probe |-> Head(bus).probe]
    /\ Handle(Head(bus).level)

ReadPayload ==
    /\ step = "payload" /\ step' = "send"
    /\ Missing \/ TooShort \/ Measure
    /\ UNCHANGED <<n, due, lost, stage, finger>>

\* The caller gave up: each poll asks before it probes.
Cancel ==
    /\ phase \in {"on", "off"} /\ step = "send" /\ phase' = "cancelled"
    /\ UNCHANGED <<protocol, polls, view, stage, step, finger, read, held>>

(***************************************************************************)
(* The capture                                                             *)
(***************************************************************************)
Drain_OneFrame ==
    /\ bus' = (IF bus = <<>> THEN bus ELSE Tail(bus)) /\ UNCHANGED due
    /\ IF due' = <<>> THEN n' = 0 /\ missed' = 0 /\ lost' = FALSE
                      ELSE UNCHANGED <<n, missed, lost>>
    /\ read' = NoRead

\* The drains of the sequence read all there is until silence; what is due comes
\* in between, or later still.
Drain ==
    /\ bus' = <<>> /\ due' \in {<<>>, due}
    /\ IF due' = <<>> THEN n' = 0 /\ missed' = 0 /\ lost' = FALSE
                      ELSE UNCHANGED <<n, missed, lost>>
    /\ read' = NoRead

\* A usable first view advances the stage, and a second is tried; an unusable one
\* asks whether the finger has gone.
Capture(usable) ==
    /\ phase = "capture" /\ Drain
    /\ stage' = IF usable /\ view = 1 THEN stage + 1 ELSE stage
    /\ IF view = 1 THEN phase' = (IF usable THEN "again" ELSE "why") /\ UNCHANGED polls
                   ELSE phase' = "off" /\ polls' = 0
    /\ UNCHANGED <<view, step, finger, held>>

Next ==
    \/ \E level \in Levels : Touch(level)
    \/ Arrive \/ Lose
    \/ SendProbe \/ ReadAck \/ ReadPayload
    \/ Cancel
    \/ \E usable \in BOOLEAN : Capture(usable)

Spec == Init /\ [][Next]_vars
-----------------------------------------------------------------------------
Replied == {Ack(m) : m \in 1 .. MaxProbes}
           \cup {Fdt(m, level) : m \in 1 .. MaxProbes, level \in Levels}

\* The types of the variables.
TypeOK ==
    /\ phase \in Probing \cup {"capture", "done", "failed", "cancelled"}
    /\ step \in {"send", "ack", "payload"}
    /\ step # "send" => phase \in Probing
    /\ n \in 0 .. MaxProbes /\ bus \in Seq(Replied) /\ due \in Seq(Replied)
    /\ finger \in Levels /\ polls \in Nat /\ view \in 0 .. 2 /\ stage \in 0 .. Stages
    /\ read \in [ok : BOOLEAN, probe : 0 .. MaxProbes]
    /\ missed \in Nat /\ lost \in BOOLEAN /\ held \in BOOLEAN

\* A measure is never older than the reads that found nothing account for: two of
\* them, and it may be that of the probe before.  None since the last drain, and
\* it is the probe's own.
FreshEnough == read.ok => 2 * (n - read.probe) <= missed + (IF step = "send" THEN 0 ELSE 2)

\* The measures between two drains are read in the order of their probes, each
\* once: a finger whose release was reported is not detected again from an earlier
\* measure.
ReadInOrder ==
    [][step = "payload" /\ step' = "send" /\ read'.ok => read.probe < read'.probe]_vars

-----------------------------------------------------------------------------
\* The place of a reply among all those to the probes sent.
Place(f) == IF f.kind = "ack" THEN 2 * f.probe - 1 ELSE 2 * f.probe

\* The reads that the probes have done so far.
Reads == IF step = "send" THEN 2 * n ELSE IF step = "payload" THEN 2 * n - 1
         ELSE 2 * n - 2

\* The replies not read come in order, after the last measure read.
InOrder(q) ==
    /\ \A i \in DOMAIN q : 2 * read.probe < Place(q[i]) /\ Place(q[i]) <= 2 * n
    /\ \A i, j \in DOMAIN q : i < j => Place(q[i]) < Place(q[j])

\* Each is behind by no more than the reads that found nothing.
Explained(q, ahead) ==
    \A i \in DOMAIN q : Reads + ahead + i <= Place(q[i]) + missed

\* What the replies not read have in common, sent or due.
Queues ==
    /\ read.probe <= n
    /\ InOrder(bus) /\ InOrder(due)
    /\ \A i \in DOMAIN bus, j \in DOMAIN due : Place(bus[i]) < Place(due[j])
    /\ Explained(bus, 0) /\ Explained(due, Len(bus))
    /\ Reads + Len(bus) + Len(due) <= 2 * n + missed

\* The inductive invariant: FreshEnough and ReadInOrder follow.
IInv ==
    /\ TypeOK /\ FreshEnough /\ Queues
    /\ phase = "on" \/ (phase = "capture" /\ view = 1) => stage < Stages
-----------------------------------------------------------------------------
\* A wait for the finger that gives up while the finger was down at each of its
\* probes has lost a reply or read at least twice in vain.
TimeoutMeansNoFinger == phase = "failed" /\ held => lost \/ missed > 1
=============================================================================
