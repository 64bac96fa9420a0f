-------------------------------- MODULE Capture --------------------------------
(***************************************************************************)
(* The dialogue with the sensor: gx_tls_session sets up the TLS channel,   *)
(* gx_capture_frame runs the capture sequence and finds the image record,  *)
(* which either was stashed while the replies to a command were drained or *)
(* is waited for.  The sensor answers late, loses frames, corrupts         *)
(* records, and may ask for a new TLS session (0xD0) at any time.          *)
(*                                                                         *)
(* A frame on the bus is a record or a 0xD0; the other cleartext replies   *)
(* only pace the reads and are left out.  A frame that a read gives up on  *)
(* is lost whole.  The keys of a session are its number.                   *)
(*                                                                         *)
(* X_Word after the name of a definition X is a plausible bug in the code  *)
(* X models; Next does not use it.                                         *)
(***************************************************************************)
EXTENDS Integers, Sequences

CONSTANTS
    SessionAtts,    \* handshakes tried before giving up (5)
    ImageAtts,      \* rounds of gx_capture_frame (5)
    DrainMax,       \* frames one drain reads (120)
    WaitMax,        \* frames one wait for the image reads (200)
    SeqWindow,      \* how far ahead a sequence number is accepted (32)
    MaxCalls,       \* bound: captures
    Sessions,       \* bound: session numbers, used in turn
    MaxBus          \* bound: frames sent and not read

ASSUME LimitsAssumption ==
    /\ {SessionAtts, ImageAtts, DrainMax, WaitMax} \subseteq Nat \ {0}
    /\ Sessions \in Nat \ {0, 1}
    /\ {SeqWindow, MaxCalls, MaxBus} \subseteq Nat

VARIABLES
    pc,         \* where the thread is, "idle" between two captures
    todo,       \* the commands of the sequence still to send, the current one first
    arm,        \* a finger frame, not a background
    att, hs,    \* rounds done, handshakes tried
    reads,      \* frames read by this drain or wait
    rearmed,    \* inside _gx_tls_reconnect_and_rearm
    tls_up, tls_reconn, stash, read_seq,        \* struct state; stash is tls_rx
    d0_reinit,  \* the knob GX_D0_REINIT
    bus,        \* frames sent by the sensor and not read
    linked,     \* the sensor has a TLS session
    armed,      \* the sensor scans for a finger
    owed,       \* captures asked for whose image is not sent
    wseq,       \* the sensor's next sequence number
    sess,       \* number of the last TLS session
    calls,      \* captures started
    started,    \* the last background succeeded
    image, result,  \* the last image decoded; "none", "ok" or "fail"
    failed      \* history: a capture failed since the last handshake

threadVars == <<todo, arm, att, hs, reads, rearmed>>
tlsVars == <<tls_up, tls_reconn, read_seq>>
sensorVars == <<linked, armed, owed, wseq>>
outcome == <<calls, started, image, result, failed>>
vars == <<pc, threadVars, tlsVars, stash, d0_reinit, bus, sensorVars, sess, outcome>>

Kinds == {"full", "short", "corrupt", "d0", "none"}
Frame(kind, call, session, seq) ==
    [kind |-> kind, call |-> call, sess |-> session, seq |-> seq]
D0 == Frame("d0", 0, 0, 0)
None == Frame("none", 0, 0, 0)
IsRecord(f) == f.kind \in {"full", "short", "corrupt"}

Commands == {"state", "fdt", "nav", "rearm", "arm", "image", "up"}
Opening == <<"state", "fdt">>
\* What follows the first FDT pass, which measured a base (have) or failed.
Rest(have) == IF ~have THEN <<"nav", "image">>
              ELSE IF arm THEN <<"nav", "rearm", "arm", "image">>
              ELSE <<"nav", "rearm", "image">>
-----------------------------------------------------------------------------
Init ==
    /\ pc = "idle" /\ todo = <<>> /\ arm = FALSE
    /\ att = 0 /\ hs = 0 /\ reads = 0 /\ rearmed = FALSE
    /\ tls_up = FALSE /\ tls_reconn = FALSE /\ stash = None /\ read_seq = 0
    /\ d0_reinit \in BOOLEAN
    /\ bus = <<>> /\ linked = FALSE /\ armed = FALSE /\ owed = <<>> /\ wseq = 0
    /\ sess = 0 /\ calls = 0 /\ started = FALSE
    /\ image = None /\ result = "none" /\ failed = FALSE

\* The call returns; its local variables are gone.
Return ==
    /\ pc' = "idle" /\ todo' = <<>> /\ arm' = FALSE
    /\ att' = 0 /\ hs' = 0 /\ reads' = 0 /\ rearmed' = FALSE

Fail ==
    /\ Return
    /\ result' = "fail" /\ failed' = TRUE /\ started' = (arm /\ started)
    /\ UNCHANGED <<calls, image>>

\* The pulse on the reset line restarts the sensor.
Reset ==
    /\ bus' = <<>> /\ linked' = FALSE /\ armed' = FALSE /\ owed' = <<>> /\ wseq' = 0

(***************************************************************************)
(* The TLS session                                                         *)
(***************************************************************************)
StartSession ==
    /\ pc = "idle" /\ ~tls_up
    /\ pc' = "handshake" /\ hs' = 1
    /\ UNCHANGED <<todo, arm, att, reads, rearmed, tlsVars, stash, d0_reinit, bus,
                   sensorVars, sess, outcome>>

\* derive_keys: new keys; the sensor's Finished was its record 0.
NewKeys ==
    /\ sess' = (sess % Sessions) + 1
    /\ read_seq' = 1 /\ wseq' = 1

\* gx_upload_config_and_reqtls, then a handshake that succeeds.  The image
\* sequence follows when it replaces a session in the middle of a capture.
HandshakeUp ==
    /\ pc = "handshake"
    /\ tls_up' = TRUE /\ linked' = TRUE /\ NewKeys /\ stash' = None
    /\ bus' = <<>> /\ armed' = FALSE /\ owed' = <<>> /\ failed' = FALSE
    /\ hs' = 0
    /\ IF rearmed THEN pc' = "send" /\ todo' = Opening
                  ELSE pc' = "idle" /\ UNCHANGED todo
    /\ UNCHANGED <<arm, att, reads, rearmed, tls_reconn, d0_reinit, calls, started,
                   image, result>>

\* The upload fails, leaving the stash, or the handshake, which empties it.
HandshakeFails ==
    /\ pc = "handshake"
    /\ Reset /\ stash' \in {stash, None}
    /\ IF hs < SessionAtts
       THEN /\ hs' = hs + 1
            /\ UNCHANGED <<pc, todo, arm, att, reads, rearmed, outcome>>
       ELSE IF rearmed THEN Fail
       ELSE Return /\ UNCHANGED outcome
    /\ UNCHANGED <<tlsVars, d0_reinit, sess>>

\* gx_tls_session looks at the cancellable before each try; the reconnect does not.
SessionCancelled ==
    /\ pc = "handshake" /\ ~rearmed
    /\ Return
    /\ UNCHANGED <<tlsVars, stash, d0_reinit, bus, sensorVars, sess, outcome>>

\* gx_dev_close, which tears the session down, then gx_dev_open.
Reopen ==
    /\ pc = "idle"
    /\ tls_up' = FALSE /\ started' = FALSE /\ result' = "none" /\ Reset
    /\ UNCHANGED <<pc, threadVars, tls_reconn, read_seq, stash, d0_reinit, sess,
                   calls, image, failed>>

(***************************************************************************)
(* The capture sequence                                                    *)
(***************************************************************************)
\* gx_capture_frame: a background follows gx_tls_session, a finger frame a
\* background, even when a reconnect has lost the session since.
Begin ==
    /\ pc = "idle" /\ calls < MaxCalls
    /\ arm' \in {a \in BOOLEAN : IF a THEN started ELSE tls_up}
    /\ pc' = "send" /\ todo' = Opening
    /\ calls' = calls + 1 /\ result' = "none"
    /\ UNCHANGED <<att, hs, reads, rearmed, tlsVars, stash, d0_reinit, bus,
                   sensorVars, sess, started, image, failed>>

\* The command is written.  The sensor obeys once it has a session.
Send ==
    /\ pc = "send" /\ Head(todo) # "fdt"
    /\ pc' = "drain" /\ reads' = 0
    /\ armed' = IF linked /\ Head(todo) \in {"arm", "up"} THEN Head(todo) = "arm"
                                                          ELSE armed
    /\ owed' = IF linked /\ Head(todo) = "image" THEN Append(owed, calls) ELSE owed
    /\ UNCHANGED <<todo, arm, att, hs, rearmed, tlsVars, stash, d0_reinit, bus,
                   linked, wseq, sess, outcome>>

\* gx_fdt_manual_read reads two frames whatever they are, each too short a
\* buffer for a record; it has a base when they were the two replies.
Eaten == SubSeq(bus, 3, Len(bus))
FdtRead ==
    /\ pc = "send" /\ Head(todo) = "fdt"
    /\ bus' = Eaten
    /\ \E have \in BOOLEAN : /\ have => linked /\ bus = <<>>
                             /\ todo' = Rest(have)
    /\ UNCHANGED <<pc, arm, att, hs, reads, rearmed, tlsVars, stash, d0_reinit,
                   sensorVars, sess, outcome>>

\* The command is over: the next one, or what follows the sequence.
Advance ==
    IF Len(todo) > 1 THEN
        /\ pc' = "send" /\ todo' = Tail(todo)
        /\ UNCHANGED <<arm, att, hs, reads, rearmed>>
    ELSE IF Head(todo) = "up" THEN Return
    ELSE /\ pc' = (IF rearmed THEN "take" ELSE "choose") /\ todo' = <<>>
         /\ UNCHANGED <<arm, att, hs, reads, rearmed>>

\* The drain meets a 0xD0: it notes it and reads on.
DrainD0 ==
    /\ pc = "drain" /\ reads < DrainMax /\ bus # <<>> /\ Head(bus) = D0
    /\ tls_reconn' = TRUE /\ bus' = Tail(bus) /\ reads' = reads + 1
    /\ UNCHANGED <<pc, todo, arm, att, hs, rearmed, tls_up, read_seq, stash,
                   d0_reinit, sensorVars, sess, outcome>>

\* The drain meets a record: it takes the place of the stashed one.
DrainRecord ==
    /\ pc = "drain" /\ reads < DrainMax /\ bus # <<>> /\ IsRecord(Head(bus))
    /\ stash' = Head(bus) /\ bus' = Tail(bus)
    /\ Advance
    /\ UNCHANGED <<tlsVars, d0_reinit, sensorVars, sess, outcome>>

\* Silence, or the loop's last turn.
DrainOver ==
    /\ pc = "drain" /\ (bus = <<>> \/ reads = DrainMax)
    /\ Advance
    /\ UNCHANGED <<tlsVars, stash, d0_reinit, bus, sensorVars, sess, outcome>>

\* A read fails in the middle of a frame.
FrameLost ==
    /\ pc \in {"drain", "wait"} /\ bus # <<>>
    /\ reads < (IF pc = "drain" THEN DrainMax ELSE WaitMax)
    /\ bus' = Tail(bus) /\ reads' = reads + 1
    /\ UNCHANGED <<pc, todo, arm, att, hs, rearmed, tlsVars, stash, d0_reinit,
                   sensorVars, sess, outcome>>

(***************************************************************************)
(* Finding the image record                                                *)
(***************************************************************************)
MustReconnect == pc = "choose" /\ (att > 0 \/ tls_reconn)
Ready == pc = "take" \/ (pc = "choose" /\ ~MustReconnect)

GiveUp ==
    /\ MustReconnect /\ ~d0_reinit
    /\ tls_reconn' = FALSE
    /\ Fail
    /\ UNCHANGED <<tls_up, read_seq, stash, d0_reinit, bus, sensorVars, sess>>

\* The session is torn down and a full init runs in its place.
Reconnect ==
    /\ MustReconnect /\ d0_reinit
    /\ tls_reconn' = FALSE /\ tls_up' = FALSE
    /\ pc' = "handshake" /\ hs' = 1 /\ rearmed' = TRUE
    /\ UNCHANGED <<todo, arm, att, reads, read_seq, stash, d0_reinit, bus,
                   sensorVars, sess, outcome>>

\* Nothing was stashed: _gx_read_image polls the bus.
Wait ==
    /\ Ready /\ stash = None
    /\ pc' = "wait" /\ reads' = 0
    /\ UNCHANGED <<todo, arm, att, hs, rearmed, tlsVars, stash, d0_reinit, bus,
                   sensorVars, sess, outcome>>

WaitOver_AsksAgain ==
    /\ pc = "wait" /\ (bus = <<>> \/ reads = WaitMax)
    /\ \/ Fail /\ UNCHANGED owed
       \/ /\ linked /\ owed' = Append(owed, calls) /\ reads' = 0
          /\ att + 1 < ImageAtts /\ att' = att + 1
          /\ UNCHANGED <<pc, todo, arm, hs, rearmed, outcome>>
    /\ UNCHANGED <<tlsVars, stash, d0_reinit, bus, linked, armed, wseq, sess>>

WaitOver ==
    /\ pc = "wait" /\ (bus = <<>> \/ reads = WaitMax)
    /\ Fail
    /\ UNCHANGED <<tlsVars, stash, d0_reinit, bus, sensorVars, sess>>

NextRound_NotCounted ==
    /\ pc' = "choose"
    /\ UNCHANGED <<todo, arm, att, hs, reads, outcome>>
    /\ rearmed' = FALSE

\* The next round of the loop, at most ImageAtts.
NextRound ==
    IF att + 1 < ImageAtts
    THEN /\ att' = att + 1 /\ pc' = "choose" /\ rearmed' = FALSE
         /\ UNCHANGED <<todo, arm, hs, reads, outcome>>
    ELSE Fail

WaitD0 ==
    /\ pc = "wait" /\ reads < WaitMax /\ bus # <<>> /\ Head(bus) = D0
    /\ tls_reconn' = TRUE /\ bus' = Tail(bus)
    /\ NextRound
    /\ UNCHANGED <<tls_up, read_seq, stash, d0_reinit, sensorVars, sess>>

\* The record to decrypt: the stashed one, or the next on the bus.
Takes(rec) ==
    \/ /\ Ready /\ stash # None /\ rec = stash
       /\ stash' = None /\ UNCHANGED bus
    \/ /\ pc = "wait" /\ reads < WaitMax /\ bus # <<>> /\ rec = Head(bus)
       /\ IsRecord(rec) /\ bus' = Tail(bus) /\ UNCHANGED stash

Decrypts_Exact(rec) ==
    tls_up /\ rec.kind # "corrupt" /\ rec.sess = sess /\ rec.seq = read_seq

\* gx_tls_decrypt_record: the MAC holds for the keys of this session and a
\* number no further than the window.
Decrypts(rec) ==
    /\ tls_up /\ rec.kind # "corrupt" /\ rec.sess = sess
    /\ rec.seq \in read_seq..(read_seq + SeqWindow)

Undecipherable ==
    /\ \E rec \in {stash} \union {bus[i] : i \in DOMAIN bus} :
          Takes(rec) /\ ~Decrypts(rec)
    /\ NextRound
    /\ UNCHANGED <<tlsVars, d0_reinit, sensorVars, sess>>

TooShort ==
    /\ \E rec \in {stash} \union {bus[i] : i \in DOMAIN bus} :
          Takes(rec) /\ Decrypts(rec) /\ rec.kind = "short" /\ read_seq' = rec.seq + 1
    /\ Fail
    /\ UNCHANGED <<tls_up, tls_reconn, d0_reinit, sensorVars, sess>>

Deliver_SkipsUp(rec) ==
    /\ image' = rec /\ result' = "ok" /\ started' = TRUE
    /\ Return
    /\ UNCHANGED <<calls, failed>>

\* The image is decoded; a finger frame then leaves the armed state.
Deliver(rec) ==
    /\ image' = rec /\ result' = "ok" /\ started' = TRUE
    /\ IF arm THEN /\ pc' = "send" /\ todo' = <<"up">>
                   /\ UNCHANGED <<arm, att, hs, reads, rearmed>>
              ELSE Return
    /\ UNCHANGED <<calls, failed>>

Decoded ==
    /\ \E rec \in {stash} \union {bus[i] : i \in DOMAIN bus} :
          /\ Takes(rec) /\ Decrypts(rec) /\ rec.kind = "full"
          /\ read_seq' = rec.seq + 1
          /\ Deliver(rec)
    /\ UNCHANGED <<tls_up, tls_reconn, d0_reinit, sensorVars, sess>>

(***************************************************************************)
(* Between two captures, and the sensor                                    *)
(***************************************************************************)
\* gx_fdt_probe also reads two frames whatever they are.
Probe ==
    /\ pc = "idle" /\ bus # <<>>
    /\ bus' = Eaten
    /\ UNCHANGED <<pc, threadVars, tlsVars, stash, d0_reinit, sensorVars, sess, outcome>>

SensorImage ==
    /\ linked /\ owed # <<>> /\ Len(bus) < MaxBus
    /\ \E kind \in {"full", "short", "corrupt"} :
          bus' = Append(bus, Frame(kind, Head(owed), sess, wseq))
    /\ owed' = Tail(owed) /\ wseq' = wseq + 1
    /\ UNCHANGED <<pc, threadVars, tlsVars, stash, d0_reinit, linked, armed, sess, outcome>>

\* The sensor forgets a request.
SensorForgets ==
    /\ owed # <<>> /\ owed' = Tail(owed)
    /\ UNCHANGED <<pc, threadVars, tlsVars, stash, d0_reinit, bus, linked, armed, wseq,
                   sess, outcome>>

\* The sensor asks for a TLS reconnect; it sends no image until it has one.
SensorAsksReconnect ==
    /\ tls_up /\ Len(bus) < MaxBus
    /\ bus' = Append(bus, D0) /\ linked' = FALSE /\ owed' = <<>>
    /\ UNCHANGED <<pc, threadVars, tlsVars, stash, d0_reinit, armed, wseq, sess, outcome>>

Driver ==
    \/ HandshakeUp \/ HandshakeFails
    \/ Send \/ FdtRead \/ DrainD0 \/ DrainRecord \/ DrainOver \/ FrameLost
    \/ GiveUp \/ Reconnect \/ Wait \/ WaitOver \/ WaitD0
    \/ Undecipherable \/ TooShort \/ Decoded
Next ==
    \/ StartSession \/ SessionCancelled \/ Reopen \/ Begin \/ Probe
    \/ Driver
    \/ SensorImage \/ SensorForgets \/ SensorAsksReconnect

Spec == Init /\ [][Next]_vars
\* The worker thread runs until it returns.
FairSpec == Spec /\ WF_vars(Driver)
-----------------------------------------------------------------------------
Records == [kind : Kinds, call : 0..MaxCalls, sess : 0..Sessions, seq : Nat]
Thread == {"idle", "handshake", "send", "drain", "choose", "take", "wait"}

\* The type of every variable; a command is current exactly when one is being
\* sent or drained, and gx_tls_session runs only without a session.
TypeOK ==
    /\ pc \in Thread /\ todo \in Seq(Commands)
    /\ arm \in BOOLEAN /\ rearmed \in BOOLEAN
    /\ att \in 0..(ImageAtts - 1) /\ hs \in 0..SessionAtts
    /\ reads \in 0..DrainMax \union 0..WaitMax
    /\ tls_up \in BOOLEAN /\ tls_reconn \in BOOLEAN
    /\ stash \in Records /\ read_seq \in Nat /\ d0_reinit \in BOOLEAN
    /\ bus \in Seq(Records) /\ Len(bus) <= MaxBus
    /\ linked \in BOOLEAN /\ armed \in BOOLEAN /\ owed \in Seq(0..MaxCalls)
    /\ wseq \in Nat /\ sess \in 0..Sessions
    /\ calls \in 0..MaxCalls /\ started \in BOOLEAN
    /\ image \in Records /\ result \in {"none", "ok", "fail"} /\ failed \in BOOLEAN
    /\ pc \in {"send", "drain"} <=> todo # <<>>
    /\ pc = "handshake" => ~tls_up /\ hs > 0

\* The sequence number expected never overtakes a record the driver has yet to
\* decrypt, stashed or on the bus, and all of them belong to this session: no
\* record is refused for having been numbered or encrypted before.
InStep ==
    tls_up => /\ wseq >= read_seq
              /\ \A f \in {stash} \union {bus[i] : i \in DOMAIN bus} :
                    IsRecord(f) => f.sess = sess /\ f.seq >= read_seq

\* "Recover from a dropped one": an intact record is refused only after the sensor
\* has sent more records that never were decrypted than the window holds.  Numbers
\* advance on success alone, so captures that keep failing use the window up.
RefusedBeyondWindow ==
    tls_up => \A f \in {stash} \union {bus[i] : i \in DOMAIN bus} :
                 IsRecord(f) /\ f.kind # "corrupt" /\ ~Decrypts(f)
                     => wseq - read_seq > SeqWindow + 1

\* While no capture has failed since the handshake, an image returned is the one
\* this capture asked for, never a record that an earlier capture left behind.
FreshWhileIntact == result = "ok" /\ ~failed => image.call = calls

\* While no capture has failed since the handshake, a background is asked for
\* with the sensor unarmed.
UnarmedWhileIntact ==
    pc = "send" /\ Head(todo) = "image" /\ ~arm /\ ~failed /\ linked => ~armed

\* Every capture and every session set-up returns, whatever the sensor sends.
CaptureEnds == pc # "idle" ~> pc = "idle"

\* The inductive invariant behind the safety properties and the refinement.  Which record may
\* be where: in the order in which they were numbered, and, while no capture has
\* failed, one at most and only once it was asked for.
OnBus == {i \in DOMAIN bus : IsRecord(bus[i])}

ImageLast == \A i \in DOMAIN todo : /\ todo[i] \in {"image", "up"} => i = Len(todo)
                                    /\ todo[i] = "arm" => arm

Shape ==
    /\ stash # None => IsRecord(stash)
    /\ pc = "wait" => stash = None
    /\ pc = "idle" \/ (pc = "handshake" /\ ~rearmed) => ~arm
    /\ result = "ok" => tls_up /\ (pc = "idle" \/ todo = <<"up">>)
    /\ ImageLast

InOrder ==
    tls_up =>
        /\ wseq >= read_seq
        /\ \A i \in OnBus : bus[i].sess = sess /\ bus[i].seq \in read_seq..(wseq - 1)
        /\ \A i, j \in OnBus : i < j => bus[i].seq < bus[j].seq
        /\ stash # None =>
              /\ stash.sess = sess /\ stash.seq \in read_seq..(wseq - 1)
              /\ \A i \in OnBus : stash.seq < bus[i].seq

Asked == \/ pc \in {"choose", "take", "wait"}
         \/ pc = "drain" /\ Head(todo) = "image"
NonePending == owed = <<>> /\ OnBus = {} /\ stash = None
OnePending ==
    /\ owed # <<>> => owed = <<calls>> /\ OnBus = {} /\ stash = None
    /\ \A i, j \in OnBus : i = j
    /\ \A i \in OnBus : bus[i].call = calls /\ stash = None
    /\ stash # None => stash.call = calls
Pending == ~failed /\ tls_up => IF Asked THEN OnePending ELSE NonePending

ArmedForFinger ==
    ~failed /\ linked /\ armed => arm /\ ~(pc = "drain" /\ Head(todo) = "up")

\* gx_capture_frame runs, and its image is not found yet.
Busy == pc # "idle" /\ (pc = "handshake" => rearmed)
Answering ==
    /\ image.call <= calls
    /\ pc = "idle" => ~rearmed
    /\ Busy => result = "ok" \/ (result = "none" /\ image.call < calls)
    /\ \A i \in DOMAIN todo : todo[i] = "up" => result = "ok"

\* The captures whose images are pending come, in the order in which these will be
\* found, after the one of the last image used; this one only once it has asked.
Latest == IF pc \in {"send", "drain"} /\ ~Asked /\ result = "none" THEN calls - 1 ELSE calls
CallsInOrder ==
    /\ \A i \in OnBus : bus[i].call \in (image.call + 1)..Latest
    /\ \A k \in DOMAIN owed : owed[k] \in (image.call + 1)..Latest
    /\ \A i, j \in OnBus : i < j => bus[i].call < bus[j].call
    /\ \A k, l \in DOMAIN owed : k < l => owed[k] < owed[l]
    /\ \A i \in OnBus, k \in DOMAIN owed : bus[i].call < owed[k]
    /\ stash # None =>
          /\ stash.call \in (image.call + 1)..Latest
          /\ \A i \in OnBus : stash.call < bus[i].call
          /\ \A k \in DOMAIN owed : stash.call < owed[k]

IInv ==
    /\ TypeOK /\ Shape /\ InOrder /\ Pending /\ ArmedForFinger /\ FreshWhileIntact
    /\ Answering /\ CallsInOrder

\* gx_capture_frame implements CaptureContract, whatever the sensor sends late, corrupt
\* or never: no image is used twice or after a younger one, and as long as no
\* capture has failed in the session each capture returns its own.
Contract == INSTANCE CaptureContract WITH busy <- Busy, from <- image.call

ImplementsContract == Contract!Spec

\* goodixtls.c:1170: the record found after the sequence is the image that the
\* sequence asked for.
ImageIsFresh == result = "ok" => image.call = calls

\* goodixtls.c:979: "the finger frame arms fdt_down first".
FingerFrameArmed ==
    pc = "send" /\ Head(todo) = "image" /\ arm /\ linked /\ ~failed => armed
================================================================================
