---------------------------- MODULE VerifyClient ----------------------------
(***************************************************************************)
(* The desktop client gx-verify.py: a main loop that starts and stops      *)
(* operations of fprintd by blocking calls, and learns what they do from   *)
(* signals that it handles one by one, later.                              *)
(*                                                                         *)
(* fprintd and the driver are reduced to the phases of an operation and    *)
(* the finger status the driver reports.  fprintd announces a change of    *)
(* the status when it finds time, the last value only.                     *)
(***************************************************************************)
EXTENDS Integers, Sequences

CONSTANTS MaxOps,  \* bound: operations started
          Stages,  \* nstages
          InboxMax \* bound: signals waiting for the client

ASSUME VerifyClientAssumption ==
    MaxOps \in Nat /\ Stages \in Nat \ {0} /\ InboxMax \in Nat \ {0}

VARIABLES
    mode,    \* self.mode, or that the window is starting or closed
    screen,  \* the kind given to the last self.state
    prompt,  \* self.prompt_head: what a "wait" screen says
    stages,  \* self.stages
    timers,  \* pending sync_prompt timeouts
    cache,   \* the proxy's cached finger-needed and finger-present
    inbox,   \* signals received and not yet dispatched
    op,      \* fprintd: the operation started and not stopped
    opid,    \* which one it is
    phase,   \* the driver's part in it
    stage,   \* t->stage
    status,  \* the finger status reported to fprintd
    told,    \* the status last announced
    claim,   \* who has claimed the device
    retried, \* history: fprintd restarted the verification that runs
    overtaken \* history: an operation was stopped with its answer under way

client == <<mode, screen, prompt, stages, timers, cache>>
service == <<op, opid, phase, stage, status, claim>>
hist == <<retried, overtaken>>
vars == <<client, inbox, service, told, hist>>

Status == [need : BOOLEAN, pres : BOOLEAN]
NoFinger == [need |-> FALSE, pres |-> FALSE]
Needed == [need |-> TRUE, pres |-> FALSE]
Both == [need |-> TRUE, pres |-> TRUE]
Present == [need |-> FALSE, pres |-> TRUE]

\* What a prompt says: put your finger down, put it down again, or a zone.
Finger == -1
Again == -2

Results == {"match", "nomatch", "stage", "completed", "retry", "failed"}
Signals == [type : {"status"}, result : Results, op : 1 .. MaxOps]
           \cup [type : {"props"}, status : Status]

Running == mode \in {"verify", "enroll"}

Init ==
    /\ mode = "starting" /\ screen = "idle" /\ prompt = Finger
    /\ stages = 0 /\ timers = 0 /\ cache = NoFinger /\ inbox = <<>>
    /\ op = "none" /\ opid = 0 /\ phase = "none" /\ stage = 0
    /\ status = NoFinger /\ told = NoFinger /\ claim \in {"free", "other"}
    /\ retried = FALSE /\ overtaken = FALSE

-----------------------------------------------------------------------------
(* Calls of the client to fprintd *)

\* Claim; "already claimed" is not an error, whoever claimed it.
Claimed == IF claim = "free" THEN "ours" ELSE claim

\* VerifyStop and EnrollStop, which cancel whatever runs: the driver takes back
\* its request for a finger, unless it never got to it.  fprintd may release
\* the device at the end.
Stopped ==
    /\ op' = "none" /\ phase' = "none"
    /\ status' \in IF phase \in {"none", "calib", "over"} THEN {status, NoFinger} ELSE {NoFinger}
    /\ claim' \in IF op = "none" THEN {claim} ELSE {"ours", "free"}
    /\ UNCHANGED <<opid, stage>>

finish_NoStop(kind) ==
    /\ mode' = "none" /\ screen' = kind
    /\ UNCHANGED <<prompt, stages, service>>

finish(kind) ==
    /\ Stopped
    /\ mode' = "none" /\ screen' = kind
    /\ UNCHANGED <<prompt, stages>>

-----------------------------------------------------------------------------
(* The client: the window, its buttons, its timer *)

\* connect_device.
Activate ==
    /\ mode = "starting"
    /\ \/ mode' = "none" /\ screen' = "idle" /\ claim' = Claimed
       \/ mode' = "closed" /\ screen' = "error" /\ UNCHANGED claim
    /\ UNCHANGED <<prompt, stages, timers, cache, inbox, op, opid, phase, stage, status, told, hist>>

start_NoTimer(m) ==
    /\ mode = "none" /\ opid < MaxOps /\ Claimed = "ours"
    /\ mode' = m /\ screen' = "prep"
    /\ prompt' = IF m = "verify" THEN Finger ELSE 0
    /\ stages' = IF m = "verify" THEN stages ELSE 0
    /\ op' = m /\ opid' = opid + 1 /\ phase' = "calib" /\ stage' = 0 /\ claim' = "ours"
    /\ retried' = FALSE
    /\ UNCHANGED <<timers, cache, inbox, status, told, overtaken>>

\* start: the prompt is prepared, then hidden until the driver asks.
start(m) ==
    /\ mode = "none" /\ opid < MaxOps /\ Claimed = "ours"
    /\ mode' = m /\ screen' = "prep"
    /\ prompt' = IF m = "verify" THEN Finger ELSE 0
    /\ stages' = IF m = "verify" THEN stages ELSE 0
    /\ op' = m /\ opid' = opid + 1 /\ phase' = "calib" /\ stage' = 0 /\ claim' = "ours"
    /\ timers' = timers + 1
    /\ retried' = FALSE
    /\ UNCHANGED <<cache, inbox, status, told, overtaken>>

\* ... and VerifyStart or EnrollStart is refused: the device is another's.
start_refused(m) ==
    /\ mode = "none" /\ Claimed # "ours"
    /\ mode' = "none" /\ screen' = "error"
    /\ prompt' = IF m = "verify" THEN Finger ELSE 0
    /\ stages' = IF m = "verify" THEN stages ELSE 0
    /\ UNCHANGED <<timers, cache, inbox, service, told, hist>>

\* The button Stop.
stop ==
    /\ Running
    /\ finish("idle")
    /\ overtaken' = (overtaken \/ \E i \in DOMAIN inbox : inbox[i].type = "status")
    /\ UNCHANGED <<timers, cache, inbox, told, retried>>

\* The timeout of 300 ms, of this operation or an earlier one.
sync_prompt ==
    /\ timers > 0 /\ timers' = timers - 1
    /\ IF Running /\ cache = Needed
       THEN screen' = "wait"
       ELSE UNCHANGED screen
    /\ UNCHANGED <<mode, prompt, stages, cache, inbox, service, told, hist>>

\* do_shutdown: stop what runs, release the device.
do_shutdown ==
    /\ mode \notin {"starting", "closed"}
    /\ mode' = "closed"
    /\ op' = "none" /\ phase' = "none" /\ status' = NoFinger
    /\ claim' = IF claim = "ours" THEN "free" ELSE claim
    /\ UNCHANGED <<screen, prompt, stages, timers, cache, inbox, opid, stage, told, hist>>

-----------------------------------------------------------------------------
(* The client: the signals it dispatches *)

Signal(type) == inbox # <<>> /\ Head(inbox).type = type /\ mode \notin {"starting", "closed"}

on_props_LiftEarly ==
    /\ Signal("props") /\ inbox' = Tail(inbox)
    /\ cache' = Head(inbox).status
    /\ screen' = CASE ~Running -> screen
                   [] cache'.pres -> "lift"
                   [] cache' = Needed -> "wait"
                   [] OTHER -> screen
    /\ UNCHANGED <<mode, prompt, stages, timers, service, told, hist>>

\* The cache follows before the handler runs; idle, the handler ignores it.
on_props ==
    /\ Signal("props") /\ inbox' = Tail(inbox)
    /\ cache' = Head(inbox).status
    /\ screen' = CASE ~Running -> screen
                   [] cache' = Both -> "hold"
                   [] cache' = Present -> "lift"
                   [] cache' = Needed -> "wait"
                   [] OTHER -> screen
    /\ UNCHANGED <<mode, prompt, stages, timers, service, told, hist>>

\* The result that an end of operation shows.
Shown(result) ==
    CASE result \in {"match", "completed"} -> "match"
      [] result = "nomatch" -> "nomatch"
      [] result = "failed" -> "error"

\* on_verify, on_enroll: the operation is over.
on_result ==
    /\ Signal("status") /\ inbox' = Tail(inbox)
    /\ Head(inbox).result \in {"match", "nomatch", "completed", "failed"}
    /\ Stopped
    /\ mode' = "none" /\ screen' = Shown(Head(inbox).result)
    /\ stages' = IF Head(inbox).result = "completed" THEN Stages ELSE stages
    /\ UNCHANGED <<prompt, timers, cache, told, hist>>

\* ... the press was no use.
on_retry ==
    /\ Signal("status") /\ inbox' = Tail(inbox)
    /\ Head(inbox).result = "retry"
    /\ screen' = "wait" /\ prompt' = Again
    /\ UNCHANGED <<mode, stages, timers, cache, service, told, hist>>

\* read_coverage: the journal tells how many stages there were ...
read_coverage == stages' = stage

\* ... and gain whether this one brought points.
TooClose == stages' > 1

\* say_zone asks for the next zone, or reports that the last was too close,
\* which is no prompt.
say_zone ==
    \/ screen' = "wait" /\ prompt' = stages'
    \/ TooClose /\ screen' = "nomatch" /\ UNCHANGED prompt

\* ... the press was a stage.
on_stage ==
    /\ Signal("status") /\ inbox' = Tail(inbox)
    /\ Head(inbox).result = "stage"
    /\ read_coverage
    /\ say_zone
    /\ UNCHANGED <<mode, timers, cache, service, told, hist>>

-----------------------------------------------------------------------------
(* fprintd and the driver *)

Emits(result) ==
    /\ Len(inbox) < InboxMax
    /\ inbox' = Append(inbox, [type |-> "status", result |-> result, op |-> opid])

Rest == UNCHANGED <<client, op, opid, claim, told>>

\* fprintd announces the status of the finger.
Announce ==
    /\ told # status /\ Len(inbox) < InboxMax
    /\ inbox' = Append(inbox, [type |-> "props", status |-> status])
    /\ told' = status
    /\ UNCHANGED <<client, service, hist>>

\* The session is up, the background taken: GX_ST_WAIT_ON.
Calibrated ==
    /\ phase = "calib" /\ phase' = "asking" /\ status' = Needed
    /\ UNCHANGED <<stage, inbox, hist>> /\ Rest

\* gx_poll_on.
FingerSeen ==
    /\ phase = "asking" /\ phase' = "reading" /\ status' = Both
    /\ UNCHANGED <<stage, inbox, hist>> /\ Rest

\* gx_capture_done of a verification: scored.
Scored ==
    /\ phase = "reading" /\ op = "verify"
    /\ phase' = "lifting" /\ status' = Present
    /\ UNCHANGED <<stage, inbox, hist>> /\ Rest

\* ... unusable, or the background was taken of a finger, or nobody put one down:
\* the operation ends, fprintd reports a retry and starts it anew.  libfprint may
\* or may not reset the status.
Retry ==
    /\ phase \in {"calib", "asking", "reading"} /\ op = "verify"
    /\ Emits("retry")
    /\ phase' = "calib" /\ status' \in {status, NoFinger} /\ retried' = TRUE
    /\ UNCHANGED <<stage, overtaken>> /\ Rest

\* gx_capture_done of an enrolment: a stage, or an unusable press.
Stage ==
    /\ phase = "reading" /\ op = "enroll"
    /\ \/ stage' = stage + 1 /\ Emits("stage")
       \/ stage' = stage /\ Emits("retry")
    /\ phase' = "lifting" /\ status' = Present
    /\ UNCHANGED hist /\ Rest

\* gx_poll_off: the finger has gone, the operation goes on or is complete.
Released ==
    /\ phase = "lifting"
    /\ \/ /\ op = "verify" /\ \E r \in {"match", "nomatch"} : Emits(r)
          /\ phase' = "over" /\ status' = NoFinger
       \/ /\ op = "enroll" /\ stage = Stages /\ Emits("completed")
          /\ phase' = "over" /\ status' = NoFinger
       \/ /\ op = "enroll" /\ stage < Stages
          /\ phase' = "asking" /\ status' = Needed
          /\ UNCHANGED inbox
    /\ UNCHANGED <<stage, hist>> /\ Rest

\* The session fails, or an enrolment finds a finger on its background or none in
\* time, which fprintd does not start anew: the driver leaves the status as it is,
\* libfprint may reset it.
OpFails ==
    /\ phase = "calib" \/ (phase = "asking" /\ op = "enroll")
    /\ Emits("failed")
    /\ phase' = "over" /\ status' \in {status, NoFinger}
    /\ UNCHANGED <<stage, hist>> /\ Rest

\* Another client claims the device, or lets go of it.
OtherClient ==
    /\ \/ claim = "free" /\ claim' = "other"
       \/ claim = "other" /\ claim' = "free"
    /\ UNCHANGED <<client, inbox, op, opid, phase, stage, status, told, hist>>

Dispatch == on_props \/ on_result \/ on_retry \/ on_stage

Service == Announce \/ Calibrated \/ FingerSeen \/ Scored \/ Retry \/ Stage
           \/ Released \/ OpFails \/ OtherClient

Next ==
    \/ Activate \/ stop \/ sync_prompt \/ do_shutdown \/ Dispatch \/ Service
    \/ \E m \in {"verify", "enroll"} : start(m) \/ start_refused(m)

\* The client's main loop runs what is ready, fprintd announces what changed.
Fairness == WF_vars(Dispatch) /\ WF_vars(sync_prompt) /\ WF_vars(Announce)

Spec == Init /\ [][Next]_vars /\ Fairness

-----------------------------------------------------------------------------
\* The types of the variables.
TypeOK ==
    /\ mode \in {"starting", "none", "verify", "enroll", "closed"}
    /\ screen \in {"idle", "prep", "wait", "hold", "lift", "match", "nomatch", "error"}
    /\ prompt \in {Finger, Again} \cup 0 .. Stages
    /\ stages \in 0 .. Stages /\ stage \in 0 .. Stages /\ timers \in 0 .. MaxOps
    /\ cache \in Status /\ status \in Status /\ told \in Status
    /\ inbox \in Seq(Signals) /\ Len(inbox) <= InboxMax
    /\ op \in {"none", "verify", "enroll"} /\ opid \in 0 .. MaxOps
    /\ phase \in {"none", "calib", "asking", "reading", "lifting", "over"}
    /\ claim \in {"free", "ours", "other"}
    /\ retried \in BOOLEAN /\ overtaken \in BOOLEAN

\* No operation runs behind a window that shows none: after a result, a Stop, a
\* refused start or the end of the client the sensor is free (finish stops both
\* kinds, do_shutdown too).
NothingLeftRunning == ~Running => op = "none" /\ phase = "none"

\* The client has handled all there is to know.
Quiet == inbox = <<>> /\ told = status

\* "Hide the prompt until the driver has asked for the finger": once the client
\* knows all there is to know it asks for no finger during a calibration, unless the
\* verification starts over or an earlier operation left its status (hold_prompt).
FirstPromptWaits ==
    Quiet /\ Running /\ screen = "wait" /\ phase = "calib" => retried \/ opid > 1

\* "The only moment at which one can say to lift without being wrong": the client
\* says so only of an image that is taken (on_props).
LiftMeansCaptured == Quiet /\ Running /\ screen = "lift" => phase \in {"lifting", "calib"}

\* Once the client knows all there is to know, what the screen tells the user to
\* do with the finger is what the driver is ready for.
ScreenIsTrue == FirstPromptWaits /\ LiftMeansCaptured

\* A signal that changes the screen is about the operation that runs, unless one
\* was stopped with its answer under way (on_verify and on_enroll do not ask).
AnswersOwnOperation ==
    [][on_result \/ on_retry \/ on_stage =>
         overtaken \/ (Running /\ Head(inbox).op = opid)]_vars

\* The inductive invariant behind the safety properties: an operation that ends
\* says so last, ...
StatusAt(i) == i \in DOMAIN inbox /\ inbox[i].type = "status"
Ends(i) == inbox[i].result \in {"match", "nomatch", "completed", "failed"}
AnswersInOrder ==
    overtaken \/ mode = "closed" \/
        \A i \in DOMAIN inbox : StatusAt(i) =>
            /\ Running /\ inbox[i].op = opid
            /\ Ends(i) => phase = "over" /\ \A j \in DOMAIN inbox : j > i => ~StatusAt(j)

\* ... and the driver only works for an operation that was started.
Working ==
    /\ phase # "none" <=> op # "none"
    /\ op # "none" => op = mode /\ opid > 0
    /\ timers <= opid
    /\ phase = "lifting" /\ op = "enroll" => stage <= Stages
    /\ phase \in {"calib", "asking", "reading"} /\ op = "enroll" => stage < Stages

\* What is announced reaches the cache, in the order of the signals: the last
\* announcement under way, or the cache when there is none, is what was told.
PropsAt(i) == i \in DOMAIN inbox /\ inbox[i].type = "props"
AnnouncedInOrder ==
    /\ \A i \in DOMAIN inbox : PropsAt(i) /\ (\A j \in DOMAIN inbox : j > i => ~PropsAt(j))
                                => inbox[i].status = told
    /\ (\A i \in DOMAIN inbox : ~PropsAt(i)) => cache = told

\* The driver reports the status of the phase it is in, and what is over has its
\* answer under way.
PhaseReported ==
    /\ Running => op = mode
    /\ phase = "asking" => status = Needed
    /\ phase = "reading" => status = Both
    /\ phase = "lifting" => status = Present
    /\ phase = "over" => \E i \in DOMAIN inbox : StatusAt(i) /\ Ends(i)

\* Before the first request for a finger no status has changed.
NothingAsked == opid = 0 \/ (opid = 1 /\ phase = "calib" /\ ~retried)

\* What the screen tells the user to do with the finger follows the cache.
ScreenFollows ==
    /\ Running /\ screen = "lift" => ~cache.need
    /\ NothingAsked => /\ inbox = <<>> /\ screen # "wait"
                       /\ status = NoFinger /\ told = NoFinger /\ cache = NoFinger

IInv ==
    /\ TypeOK /\ NothingLeftRunning /\ Working /\ AnswersInOrder
    /\ AnnouncedInOrder /\ PhaseReported /\ ScreenFollows

\* A driver that waits for the finger is not left waiting behind a screen that
\* says nothing: the property may not have changed since an operation before
\* ("the screen would stay on Preparing"), hence sync_prompt.
PromptShown ==
    (Running /\ phase = "asking") ~> (screen = "wait" \/ phase # "asking" \/ ~Running)

\* "Hide the prompt until the driver has asked for the finger", after a retry:
\* the verification starts over with a calibration.
NoPromptAfterRetry == Quiet /\ Running /\ prompt = Again /\ screen = "wait" => phase # "calib"

\* "If the driver was already asking for the finger": sync_prompt asks for a finger
\* only when the driver does.
SyncInTime == [][sync_prompt /\ screen' = "wait" => phase # "calib"]_vars

\* "Hide the prompt until the driver has asked for the finger", after a Stop:
\* an idle client asks for no finger.
IdleDoesNotPrompt == mode = "none" => screen # "wait"

\* "Announce the zone to place": while the driver waits for the next finger of
\* an enrolment the prompt is of the zone due, or repeats the last press.
NextZonePrompted ==
    Quiet /\ mode = "enroll" /\ phase = "asking" /\ screen = "wait" => prompt \in {stage, Again}
=============================================================================
