------------------------------ MODULE Handshake ------------------------------
(***************************************************************************)
(* The set-up of the TLS channel, frame by frame: gx_tls_session tries the *)
(* upload (gx_upload_config_and_reqtls) and the handshake, OpenSSL reads   *)
(* and writes records through gx_bio_recv and gx_bio_send, and 0xD4 tells  *)
(* the sensor that the channel is up.  The frames of the sensor come late  *)
(* or are lost; the reset is skipped where the GPIO chip cannot be opened. *)
(* Capture has this as one step; here is what it stands on.                *)
(*                                                                         *)
(* OpenSSL and the sensor are external: the library goes by Script and     *)
(* gives up at a record that is not the one it waits for.  The knob        *)
(* GX_FULL_INIT, which only adds drains, is left out.                      *)
(*                                                                         *)
(* X_Word after the name of a definition X is a plausible bug in the code  *)
(* X models; Next does not use it.                                         *)
(***************************************************************************)
EXTENDS Integers, Sequences

CONSTANTS Atts,    \* attempts of gx_tls_session (5)
          WaitMax  \* reads of gx_bio_recv before it gives up (200)

ASSUME LimitsAssumption == {Atts, WaitMax} \subseteq Nat \ {0}

VARIABLES
    pc,     \* "idle", "send", "ack", "accept", "d4", "d4ack", "up" or "failed"
    cmd,    \* the command of the upload being sent
    att,    \* this attempt
    gpio,   \* the reset line can be driven
    script, \* what the library has still to read and to write
    batch,  \* records of the write under way that are not sent yet
    hello,  \* the ClientHello it answers, by attempt
    half,   \* the record whose header the library has read
    stash,  \* tls_rx: what of the last record is not read
    waits,  \* reads of this gx_bio_recv
    bus, due,   \* frames sent and not read; not sent yet
    sensor, \* the attempt the sensor shakes hands for; the records it got; linked
    reason  \* history: what went wrong in this attempt

wire == <<bus, due>>
library == <<script, batch, hello, half, stash, waits>>
vars == <<pc, cmd, att, gpio, library, wire, sensor, reason>>

Upload == <<"config", "enable", "reqtls">>

\* A frame of the sensor, sent in attempt a; its Finished also covers the
\* ClientHello it sent.
Frame(kind, a, h) == [kind |-> kind, att |-> a, hello |-> h]
Nothing == Frame("none", 0, 0)
Plain(f) == f.kind = "ack"

\* The server's side of the handshake: reads of a record, writes of a batch.
Script == <<
    [op |-> "read", recs |-> <<"CH">>],
    [op |-> "write", recs |-> <<"SH", "SKE", "SHD">>],
    [op |-> "read", recs |-> <<"CKE">>],
    [op |-> "read", recs |-> <<"CCS">>],
    [op |-> "read", recs |-> <<"FIN">>],
    [op |-> "write", recs |-> <<"CCS", "FINISHED">>] >>

Idle == [att |-> 0, got |-> <<>>, linked |-> FALSE]

Init ==
    /\ pc = "idle" /\ cmd = 0 /\ att = 0 /\ gpio \in BOOLEAN
    /\ script = <<>> /\ batch = <<>> /\ hello = 0 /\ half = Nothing
    /\ stash = <<>> /\ waits = 0
    /\ bus = <<>> /\ due = <<>> /\ sensor = Idle /\ reason = "none"

(***************************************************************************)
(* The sensor                                                              *)
(***************************************************************************)
Answers(kinds, h) == [i \in DOMAIN kinds |-> Frame(kinds[i], att, h)]

\* A frame with its records: one by one they are answered, two are ignored.
Receives(recs) ==
    IF Len(recs) # 1 THEN UNCHANGED <<sensor, due>>
    ELSE LET got == Append(sensor.got, recs[1]) IN
         /\ sensor' = [sensor EXCEPT !.got = got,
                           !.linked = @ \/ got = <<"SH", "SKE", "SHD", "CCS", "FINISHED">>]
         /\ due' = IF got = <<"SH", "SKE", "SHD">> THEN due \o Answers(<<"CKE", "CCS", "FIN">>, sensor.att)
                   ELSE due

\* A frame gets to the bus, however late.
Arrive ==
    /\ due # <<>>
    /\ bus' = Append(bus, Head(due)) /\ due' = Tail(due)
    /\ UNCHANGED <<pc, cmd, att, gpio, library, sensor, reason>>

\* It is never sent.
Lose ==
    /\ due # <<>>
    /\ due' = Tail(due) /\ reason' = "lost"
    /\ UNCHANGED <<pc, cmd, att, gpio, library, bus, sensor>>

(***************************************************************************)
(* The attempts                                                            *)
(***************************************************************************)
\* The pulse on the reset line, where there is one.
Reset ==
    IF gpio THEN bus' = <<>> /\ due' = <<>> /\ sensor' = Idle
            ELSE UNCHANGED <<wire, sensor>>

\* An attempt begins with a reset.
Attempt(a) ==
    /\ pc' = "send" /\ cmd' = 1 /\ att' = a /\ reason' = "none"
    /\ Reset
    /\ UNCHANGED <<gpio, library>>

Session == pc = "idle" /\ Attempt(1)

\* The attempt has failed: teardown and a reset, before the next one.
GiveUp(why) ==
    /\ reason' = IF reason = "none" THEN why ELSE reason
    /\ pc' = IF att < Atts THEN "retry" ELSE "failed"
    /\ Reset
    /\ UNCHANGED <<cmd, att, gpio, library>>

Retry == pc = "retry" /\ Attempt(att + 1)

\* The caller gave up, before an attempt.
Cancel ==
    /\ pc \in {"idle", "retry"} /\ pc' = "failed"
    /\ UNCHANGED <<cmd, att, gpio, library, wire, sensor, reason>>

(***************************************************************************)
(* The upload                                                              *)
(***************************************************************************)
\* A command is acknowledged; the last one starts the sensor's handshake.
Command ==
    /\ pc = "send" /\ pc' = "ack"
    /\ IF Upload[cmd] = "reqtls"
       THEN due' = due \o Answers(<<"ack", "CH">>, att) /\ sensor' = [Idle EXCEPT !.att = att]
       ELSE due' = due \o Answers(<<"ack">>, 0) /\ UNCHANGED sensor
    /\ UNCHANGED <<cmd, att, gpio, library, bus, reason>>

\* The write fails: only that of the configuration is looked at.
CommandFails ==
    /\ pc = "send"
    /\ IF Upload[cmd] = "config" THEN GiveUp("write")
       ELSE /\ pc' = "ack" /\ reason' = "write"
            /\ UNCHANGED <<cmd, att, gpio, library, wire, sensor>>

\* gx_read_frame, for the acknowledgement: whatever is there, or nothing.
ReadAny == bus' = IF bus = <<>> THEN bus ELSE Tail(bus)

ReadAck ==
    /\ pc = "ack" /\ ReadAny
    /\ IF cmd < Len(Upload)
       THEN /\ pc' = "send" /\ cmd' = cmd + 1
            /\ UNCHANGED library
       ELSE /\ pc' = "accept" /\ UNCHANGED cmd
            /\ script' = Script /\ batch' = <<>> /\ hello' = 0
            /\ half' = Nothing /\ stash' = <<>> /\ waits' = 0
    /\ UNCHANGED <<att, gpio, due, sensor, reason>>

(***************************************************************************)
(* The handshake                                                           *)
(***************************************************************************)
Step(op) == pc = "accept" /\ batch = <<>> /\ script # <<>> /\ Head(script).op = op
Part(f, which) == [rec |-> f, part |-> which]

BioRead_NoSkip ==
    /\ Step("read") /\ stash = <<>> /\ waits < WaitMax
    /\ waits' = waits + 1 /\ ReadAny
    /\ stash' = IF bus # <<>> THEN <<Part(Head(bus), "header"), Part(Head(bus), "body")>>
                ELSE stash
    /\ UNCHANGED <<pc, cmd, att, gpio, script, batch, hello, half, due, sensor, reason>>

BioRead_NoLimit ==
    /\ Step("read") /\ stash = <<>>
    /\ UNCHANGED waits /\ ReadAny
    /\ stash' = IF bus # <<>> /\ ~Plain(Head(bus))
                THEN <<Part(Head(bus), "header"), Part(Head(bus), "body")>> ELSE stash
    /\ UNCHANGED <<pc, cmd, att, gpio, script, batch, hello, half, due, sensor, reason>>

\* gx_bio_recv with an empty stash reads a frame: a record fills the stash, a
\* cleartext frame is skipped.
BioRead ==
    /\ Step("read") /\ stash = <<>> /\ waits < WaitMax
    /\ waits' = waits + 1 /\ ReadAny
    /\ stash' = IF bus # <<>> /\ ~Plain(Head(bus))
                THEN <<Part(Head(bus), "header"), Part(Head(bus), "body")>> ELSE stash
    /\ UNCHANGED <<pc, cmd, att, gpio, script, batch, hello, half, due, sensor, reason>>

\* It finds none in time.
BioTimeout ==
    /\ Step("read") /\ stash = <<>> /\ waits = WaitMax
    /\ GiveUp("timeout")

Rest_DropsTheRest == <<>>

\* What gx_bio_recv leaves in the stash for the next call.
Rest == Tail(stash)

\* The library reads a header, five bytes.
TakeHeader ==
    /\ Step("read") /\ stash # <<>> /\ half = Nothing
    /\ half' = Head(stash).rec /\ stash' = Rest /\ waits' = 0
    /\ UNCHANGED <<pc, cmd, att, gpio, script, batch, hello, wire, sensor, reason>>

\* It reads the body and goes on, if the record is the one it waits for.
TakeBody ==
    /\ Step("read") /\ stash # <<>> /\ half # Nothing
    /\ LET f == Head(stash).rec IN
       IF /\ f.kind = Head(script).recs[1]
          /\ f.kind = "FIN" => f.att = att /\ f.hello = hello
       THEN /\ hello' = (IF f.kind = "CH" THEN f.att ELSE hello)
            /\ script' = Tail(script) /\ half' = Nothing /\ stash' = Rest /\ waits' = 0
            /\ UNCHANGED <<pc, cmd, att, gpio, batch, wire, sensor, reason>>
       ELSE GiveUp("unexpected")

\* It writes a batch of records, ...
Write ==
    /\ Step("write")
    /\ batch' = Head(script).recs /\ script' = Tail(script)
    /\ UNCHANGED <<pc, cmd, att, gpio, hello, half, stash, waits, wire, sensor, reason>>

BioSend_Whole ==
    /\ batch # <<>> /\ pc = "accept"
    /\ Receives(batch) /\ batch' = <<>>
    /\ UNCHANGED <<pc, cmd, att, gpio, script, hello, half, stash, waits, bus, reason>>

\* ... which gx_bio_send splits: one record per frame.
BioSend ==
    /\ batch # <<>> /\ pc = "accept"
    /\ Receives(<<Head(batch)>>) /\ batch' = Tail(batch)
    /\ UNCHANGED <<pc, cmd, att, gpio, script, hello, half, stash, waits, bus, reason>>

BioSendFails_Ignored ==
    /\ batch # <<>> /\ pc = "accept"
    /\ batch' = Tail(batch) /\ reason' = "write"
    /\ UNCHANGED <<pc, cmd, att, gpio, script, hello, half, stash, waits, wire, sensor>>

BioSendFails ==
    /\ batch # <<>> /\ pc = "accept"
    /\ GiveUp("write")

\* SSL_accept is done: tls_up, and 0xD4, acknowledged or not.
Accepted ==
    /\ pc = "accept" /\ script = <<>> /\ batch = <<>>
    /\ pc' = "d4"
    /\ UNCHANGED <<cmd, att, gpio, library, wire, sensor, reason>>

SendD4(delivered) ==
    /\ pc = "d4" /\ pc' = "d4ack"
    /\ due' = IF delivered THEN due \o Answers(<<"ack">>, 0) ELSE due
    /\ UNCHANGED <<cmd, att, gpio, library, bus, sensor, reason>>

ReadD4 ==
    /\ pc = "d4ack" /\ pc' = "up" /\ ReadAny
    /\ UNCHANGED <<cmd, att, gpio, library, due, sensor, reason>>

Host ==
    \/ Session \/ Retry \/ Cancel
    \/ Command \/ CommandFails \/ ReadAck
    \/ BioRead \/ BioTimeout \/ TakeHeader \/ TakeBody
    \/ Write \/ BioSend \/ BioSendFails
    \/ Accepted \/ ReadD4
    \/ \E delivered \in BOOLEAN : SendD4(delivered)

Next == Host \/ Arrive \/ Lose

\* The thread of the driver runs.
Spec == Init /\ [][Next]_vars /\ WF_vars(Host)
-----------------------------------------------------------------------------
Kinds == {"ack", "CH", "CKE", "CCS", "FIN"}
Frames == [kind : Kinds, att : 1 .. Atts, hello : 0 .. Atts]

\* What the library reads after a header is the body of that record: the stash hands
\* a record out in pieces, whatever the frames that come in between.
RecordsWhole ==
    half # Nothing /\ pc = "accept" => stash # <<>> /\ Head(stash) = Part(half, "body")

\* The types of the variables, the pieces in the stash included.
TypeOK ==
    /\ pc \in {"idle", "send", "ack", "accept", "d4", "d4ack", "up", "retry", "failed"}
    /\ cmd \in 0 .. Len(Upload) /\ att \in 0 .. Atts /\ gpio \in BOOLEAN
    /\ script = <<>> \/ \E i \in DOMAIN Script : script = SubSeq(Script, i, Len(Script))
    /\ hello \in 0 .. Atts /\ half \in Frames \cup {Nothing} /\ waits \in 0 .. WaitMax
    /\ \A i \in DOMAIN stash : stash[i].rec \in Frames /\ stash[i].part \in {"header", "body"}
    /\ bus \in Seq(Frames) /\ due \in Seq(Frames)
    /\ sensor.att \in 0 .. Atts /\ sensor.linked \in BOOLEAN
    /\ reason \in {"none", "lost", "write", "timeout", "unexpected"}
    /\ RecordsWhole

\* The channel is up on our side only when it is on the sensor's, for the same
\* handshake: no attempt of before, whose frames were late, stands for this one.
UpOnBothSides ==
    pc \in {"d4", "d4ack", "up"} => sensor.linked /\ sensor.att = hello

\* An acknowledgement that comes late, or a frame of an attempt before, never fails
\* an attempt that a reset began: it fails for a frame that was lost, a write that
\* failed or a wait that ran out, and never for a record it did not wait for.
NoStrayFrames == gpio => reason # "unexpected"

\* A wait for a record runs out, nothing lost and nothing failed, only while a frame
\* is still to come or has just come: the acknowledgements are read without a record being taken for
\* one, and the sensor answers each batch.
TimeoutMeansLate ==
    [][gpio /\ reason = "none" /\ reason' = "timeout" => bus \o due # <<>>]_vars

\* The inductive invariant.  The sensor goes by the records it got, the attempts are
\* numbered, ...
Recs == {"SH", "SKE", "SHD", "CCS", "FINISHED"}

Counted ==
    /\ sensor \in [att : 0 .. Atts, got : Seq(Recs), linked : BOOLEAN]
    /\ pc \notin {"idle", "failed"} => att >= 1
    /\ pc = "idle" => att = 0
    /\ pc = "retry" => att < Atts
    /\ pc \in {"send", "ack"} => cmd >= 1

\* ... the stash holds the two pieces of a record, or what is left of them, ...
Pieces ==
    pc = "accept" =>
        \/ stash = <<>> /\ half = Nothing
        \/ \E f \in Frames : half = Nothing /\ stash = <<Part(f, "header"), Part(f, "body")>>
        \/ half \in Frames /\ stash = <<Part(half, "body")>>

\* ... the library is at the i-th step of its script, and writes only after a step
\* that does, of which the sensor got the records not in the batch any more, ...
Left(i) == SubSeq(Script, i, Len(Script))
At(i) == script = Left(i)
Hellos == {<<"SH", "SKE", "SHD">>, <<"SKE", "SHD">>, <<"SHD">>}
Finisheds == {<<"CCS", "FINISHED">>, <<"FINISHED">>}

InScript ==
    pc = "accept" =>
        /\ \E i \in 1 .. 7 : At(i)
        /\ batch # <<>> => (At(3) /\ batch \in Hellos) \/ (At(7) /\ batch \in Finisheds)

\* ... no frame is of an attempt to come; the Finished of this attempt, if it is on
\* its way, answers the hellos of this attempt, for the ClientHello it names; ...
HelloSent == <<"SH", "SKE", "SHD">>
ThisFinished(f) == f.kind = "FIN" /\ f.att = att
Under(seq) == {seq[i] : i \in DOMAIN seq}
Stashed == {stash[i].rec : i \in DOMAIN stash}

FinishedAnswers ==
    /\ \A f \in Under(bus) \cup Under(due) : f.att <= att
    /\ pc \in {"send", "ack"} => \A f \in Under(bus) \cup Under(due) : ~ThisFinished(f)
    /\ pc = "accept" =>
          \A f \in Under(bus) \cup Under(due) \cup Stashed : ThisFinished(f) =>
              /\ \E i \in 3 .. 7 : At(i)
              /\ batch \notin Hellos
              /\ ~At(6) /\ ~At(7) => sensor.got = HelloSent /\ sensor.att = f.hello

\* ... and once it is read, what is left is to answer it, on which the sensor has
\* its side up.
Finishing ==
    pc = "accept" /\ (At(6) \/ At(7)) =>
        /\ sensor.att = hello
        /\ sensor.linked \/ \/ At(6) /\ sensor.got = HelloSent
                            \/ At(7) /\ <<sensor.got, batch>> \in
                                 {<<HelloSent, <<"CCS", "FINISHED">>>>,
                                  <<Append(HelloSent, "CCS"), <<"FINISHED">>>>}

\* With a reset line and as long as nothing went wrong, the sensor shakes hands for
\* this attempt and has got what was written; what is on its way are acknowledgements,
\* one at least while one is waited for, and then the records that the library has
\* still to read before it writes again.
ToCome == << <<"CH">>, <<>>, <<"CKE", "CCS", "FIN">>, <<"CCS", "FIN">>, <<"FIN">>, <<>>, <<>> >>

Line == bus \o due

Ordered(line, k, kinds, a) ==
    /\ Len(line) = k + Len(kinds)
    /\ \A i \in 1 .. k : Plain(line[i])
    /\ \A j \in DOMAIN kinds : line[k + j] = Frame(kinds[j], a, a)

OnLine(kinds) ==
    \E k \in 0 .. Len(Line) : Ordered(Line, k, kinds, att) /\ (pc = "ack" => k >= 1)

OnScript ==
    /\ sensor.att = att
    /\ At(1) \/ At(2) => sensor.got = <<>>
    /\ At(3) => <<sensor.got, batch>> \in
                  {<<(<<>>), HelloSent>>, <<(<<"SH">>), <<"SKE", "SHD">>>>,
                   <<(<<"SH", "SKE">>), <<"SHD">>>>, <<HelloSent, <<>>>>}
    /\ At(1) \/ hello = att
    /\ \A i \in 1 .. 7 : At(i) =>
          IF batch # <<>> THEN stash = <<>> /\ OnLine(<<>>)
          ELSE IF stash = <<>> THEN OnLine(ToCome[i])
          ELSE /\ ToCome[i] # <<>> /\ OnLine(ToCome[i + 1])
               /\ Head(stash).rec = Frame(ToCome[i][1], att, att)

Orderly ==
    gpio /\ reason = "none" =>
        /\ pc = "send" \/ (pc = "ack" /\ cmd < Len(Upload)) => OnLine(<<>>)
        /\ pc = "ack" /\ cmd = Len(Upload) =>
              OnLine(<<"CH">>) /\ sensor = [Idle EXCEPT !.att = att]
        /\ pc = "accept" => OnScript

IInv ==
    /\ TypeOK /\ Counted /\ Pieces /\ InScript /\ FinishedAnswers /\ Finishing /\ Orderly
    /\ UpOnBothSides /\ NoStrayFrames

\* The call returns.
Returns == <>(pc \in {"up", "failed"})

\* "ACK 0xD0; the ClientHello remains": reading the acknowledgements takes no record.
HelloRemains == [][ReadAck => bus = <<>> \/ Plain(Head(bus))]_vars
=============================================================================
