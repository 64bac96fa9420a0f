----------------------------- MODULE CaptureProofs -----------------------------
(***************************************************************************)
(* Proofs about Capture: its types, and the inductive invariant from which *)
(* follow that the sequence numbers stay in step, that an image is the one *)
(* asked for and that a background is taken unarmed, as long as no capture *)
(* has failed since the handshake.                                         *)
(***************************************************************************)
EXTENDS Capture, TLAPS

\* The bounds are naturals.
LEMMA Bounds ==
    /\ SessionAtts \in Nat /\ SessionAtts > 0 /\ ImageAtts \in Nat /\ ImageAtts > 0
    /\ DrainMax \in Nat /\ DrainMax > 0 /\ WaitMax \in Nat /\ WaitMax > 0
    /\ Sessions \in Nat /\ Sessions > 1 /\ SeqWindow \in Nat
    /\ MaxCalls \in Nat /\ MaxBus \in Nat
BY LimitsAssumption

\* The frames that are no records, and the records the sensor makes, are Records.
LEMMA FramesAreRecords ==
    /\ D0 \in Records /\ None \in Records /\ ~IsRecord(D0) /\ ~IsRecord(None)
    /\ \A kind \in Kinds, call \in 0..MaxCalls, s \in 0..Sessions, n \in Nat :
          Frame(kind, call, s, n) \in Records
BY Bounds DEF D0, None, Frame, Records, Kinds, IsRecord

\* A sequence of at most one step shorter, or two, holds the frames it held.
LEMMA Shorter ==
    ASSUME NEW S, NEW s \in Seq(S)
    PROVE  /\ SubSeq(s, 3, Len(s)) \in Seq(S) /\ Len(SubSeq(s, 3, Len(s))) <= Len(s)
           /\ \A i \in DOMAIN SubSeq(s, 3, Len(s)) :
                 i + 2 \in DOMAIN s /\ SubSeq(s, 3, Len(s))[i] = s[i + 2]
           /\ s # <<>> => /\ Head(s) \in S /\ Tail(s) \in Seq(S)
                          /\ Len(Tail(s)) = Len(s) - 1 /\ s[1] = Head(s)
                          /\ \A i \in DOMAIN Tail(s) :
                                i + 1 \in DOMAIN s /\ Tail(s)[i] = s[i + 1]
OBVIOUS

\* The commands that follow the first FDT pass.
LEMMA RestIsSequence ==
    ASSUME arm \in BOOLEAN, NEW have \in BOOLEAN
    PROVE  /\ Rest(have) \in Seq(Commands) /\ Rest(have) # <<>>
           /\ \A i \in DOMAIN Rest(have) :
                 /\ Rest(have)[i] \in {"image", "up"} => i = Len(Rest(have))
                 /\ Rest(have)[i] = "arm" => arm
<1>1. CASE ~have
    <2>1. Rest(have) = <<"nav", "image">>
        BY <1>1 DEF Rest
    <2> QED BY <2>1 DEF Commands
<1>2. CASE have /\ arm
    <2>1. Rest(have) = <<"nav", "rearm", "arm", "image">>
        BY <1>2 DEF Rest
    <2> QED BY <2>1, <1>2 DEF Commands
<1>3. CASE have /\ ~arm
    <2>1. Rest(have) = <<"nav", "rearm", "image">>
        BY <1>3 DEF Rest
    <2> QED BY <2>1 DEF Commands
<1> QED BY <1>1, <1>2, <1>3

\* The opening commands are a sequence without an image request or a release.
LEMMA OpeningIsSequence ==
    /\ Opening \in Seq(Commands) /\ Opening # <<>>
    /\ \A i \in DOMAIN Opening : Opening[i] \notin {"image", "up", "arm"}
    /\ <<"up">> \in Seq(Commands) /\ <<"up">> # <<>> /\ <<>> \in Seq(Commands)
BY DEF Opening, Commands

-----------------------------------------------------------------------------
\* The return of a call and the end of a command keep the thread's types.
LEMMA ReturnType ==
    ASSUME Return
    PROVE  /\ pc' = "idle" /\ todo' = <<>> /\ arm' \in BOOLEAN
           /\ att' \in 0..(ImageAtts - 1) /\ hs' \in 0..SessionAtts
           /\ reads' \in 0..DrainMax \union 0..WaitMax /\ rearmed' \in BOOLEAN
<1>1. 0 \in 0..(ImageAtts - 1) /\ 0 \in 0..SessionAtts /\ 0 \in 0..DrainMax
    BY Bounds
<1> QED BY <1>1 DEF Return

\* The thread's part of the type invariant.
ThreadOK ==
    /\ pc \in Thread /\ todo \in Seq(Commands)
    /\ arm \in BOOLEAN /\ rearmed \in BOOLEAN
    /\ att \in 0..(ImageAtts - 1) /\ hs \in 0..SessionAtts
    /\ reads \in 0..DrainMax \union 0..WaitMax
    /\ pc \in {"send", "drain"} <=> todo # <<>>

\* The end of a command keeps the thread's types.
LEMMA AdvanceType ==
    ASSUME ThreadOK, pc = "drain", Advance
    PROVE  ThreadOK' /\ pc' # "handshake"
<1> HIDE DEF Commands
<1>1. todo # <<>> /\ Len(todo) \in Nat
    BY DEF ThreadOK
<1>2. CASE Len(todo) > 1
    <2>1. Tail(todo) \in Seq(Commands) /\ Len(Tail(todo)) > 0
        BY <1>1, <1>2, Shorter DEF ThreadOK
    <2> QED BY <1>2, <2>1 DEF Advance, ThreadOK, Thread
<1>3. CASE ~(Len(todo) > 1) /\ Head(todo) = "up"
    BY <1>3, ReturnType, OpeningIsSequence DEF Advance, ThreadOK, Thread
<1>4. CASE ~(Len(todo) > 1) /\ Head(todo) # "up"
    BY <1>4 DEF Advance, ThreadOK, Thread
<1> QED BY <1>2, <1>3, <1>4

\* A failure keeps the thread's types.
LEMMA FailType ==
    ASSUME Fail
    PROVE  ThreadOK' /\ pc' # "handshake" /\ result' \in {"none", "ok", "fail"}
           /\ failed' \in BOOLEAN /\ started' \in BOOLEAN /\ calls' = calls /\ image' = image
<1>1. Return /\ result' = "fail" /\ failed' = TRUE /\ calls' = calls /\ image' = image
    BY DEF Fail
<1>2. started' \in BOOLEAN
    BY DEF Fail
<1> QED BY <1>1, <1>2, ReturnType, OpeningIsSequence DEF ThreadOK, Thread

\* So does the next round.
LEMMA NextRoundType ==
    ASSUME TypeOK, pc \in {"choose", "take", "wait"}, NextRound
    PROVE  ThreadOK' /\ pc' # "handshake" /\ result' \in {"none", "ok", "fail"}
           /\ failed' \in BOOLEAN /\ started' \in BOOLEAN /\ calls' = calls /\ image' = image
<1>1. CASE att + 1 < ImageAtts
    <2>1. att + 1 \in 0..(ImageAtts - 1)
        BY <1>1, Bounds DEF TypeOK
    <2> QED BY <1>1, <2>1 DEF NextRound, TypeOK, ThreadOK, Thread, outcome
<1> QED BY <1>1, FailType DEF NextRound

\* The initial states satisfy the type invariant.
LEMMA InitTypeOK == Init => TypeOK
<1> SUFFICES ASSUME Init PROVE TypeOK
    OBVIOUS
<1> HIDE DEF Records, None, IsRecord
<1>1. todo \in Seq(Commands) /\ bus \in Seq(Records) /\ Len(bus) <= MaxBus
      /\ owed \in Seq(0..MaxCalls)
    BY Bounds DEF Init
<1>2. stash \in Records /\ image \in Records
    BY FramesAreRecords DEF Init
<1>3. /\ 0 \in 0..(ImageAtts - 1) /\ 0 \in 0..SessionAtts /\ 0 \in 0..DrainMax
      /\ 0 \in 0..Sessions /\ 0 \in 0..MaxCalls /\ 0 \in Nat
    BY Bounds
<1> QED BY <1>1, <1>2, <1>3 DEF Init, TypeOK, Thread

\* A step keeps the types.
LEMMA NextTypeOK == TypeOK /\ [Next]_vars => TypeOK'
<1> SUFFICES ASSUME TypeOK, [Next]_vars PROVE TypeOK'
    OBVIOUS
<1> USE Bounds
<1> HIDE DEF Records, None, D0, IsRecord, Commands, Opening
<1> DEFINE Tail1 == bus # <<>> => /\ Tail(bus) \in Seq(Records) /\ Head(bus) \in Records
                                  /\ Len(Tail(bus)) <= MaxBus
<1>a. bus \in Seq(Records) /\ Len(bus) <= MaxBus
    BY DEF TypeOK
<1>b. Tail1
    BY <1>a, Shorter
<1>c. Eaten \in Seq(Records) /\ Len(Eaten) <= MaxBus
    BY <1>a, Shorter DEF Eaten
<1>d. <<>> \in Seq(Records) /\ Len(<<>>) <= MaxBus /\ <<>> \in Seq(0..MaxCalls)
      /\ <<>> \in Seq(Commands)
    OBVIOUS
<1>e. None \in Records
    BY FramesAreRecords
<1> HIDE DEF Tail1
<1>1. CASE StartSession
    BY <1>1 DEF StartSession, TypeOK, Thread, tlsVars, sensorVars, outcome
<1>2. CASE SessionCancelled
    BY <1>2, ReturnType, <1>d DEF SessionCancelled, TypeOK, Thread, tlsVars, sensorVars, outcome
<1>3. CASE Reopen
    BY <1>3, <1>d DEF Reopen, Reset, TypeOK, Thread, threadVars
<1>4. CASE Begin
    BY <1>4, OpeningIsSequence DEF Begin, TypeOK, Thread, tlsVars, sensorVars
<1>5. CASE Probe
    BY <1>5, <1>c DEF Probe, TypeOK, threadVars, tlsVars, sensorVars, outcome
<1>6. CASE HandshakeUp
    <2>1. sess' \in 0..Sessions /\ read_seq' \in Nat /\ wseq' \in Nat
        BY <1>6 DEF HandshakeUp, NewKeys, TypeOK
    <2>2. ThreadOK' /\ pc' # "handshake"
        <3>1. 0 \in 0..SessionAtts
            OBVIOUS
        <3> QED BY <1>6, <3>1, OpeningIsSequence DEF HandshakeUp, TypeOK, ThreadOK, Thread
    <2> QED BY <1>6, <2>1, <2>2, <1>d, <1>e DEF HandshakeUp, TypeOK, ThreadOK
<1>7. CASE HandshakeFails
    <2>1. stash' \in Records /\ bus' = <<>> /\ owed' = <<>> /\ wseq' = 0 /\ armed' = FALSE
          /\ linked' = FALSE /\ UNCHANGED <<tlsVars, d0_reinit, sess>>
        BY <1>7, <1>e DEF HandshakeFails, Reset, TypeOK
    <2>2. CASE hs < SessionAtts
        <3>1. hs + 1 \in 0..SessionAtts /\ hs + 1 > 0
            BY <2>2 DEF TypeOK
        <3>2. hs' = hs + 1 /\ UNCHANGED <<pc, todo, arm, att, reads, rearmed, outcome>>
            BY <1>7, <2>2 DEF HandshakeFails
        <3>3. pc = "handshake" /\ ~tls_up /\ ~tls_up'
            BY <1>7, <2>1 DEF HandshakeFails, TypeOK, tlsVars
        <3> QED BY <1>d, <2>1, <3>1, <3>2, <3>3 DEF TypeOK, tlsVars, outcome
    <2>3. CASE ~(hs < SessionAtts) /\ rearmed
        <3>1. Fail
            BY <1>7, <2>3 DEF HandshakeFails
        <3> QED BY <3>1, FailType, <1>d, <2>1 DEF TypeOK, ThreadOK, tlsVars
    <2>4. CASE ~(hs < SessionAtts) /\ ~rearmed
        <3>1. Return /\ UNCHANGED outcome
            BY <1>7, <2>4 DEF HandshakeFails
        <3> QED BY <3>1, ReturnType, <1>d, <2>1 DEF TypeOK, Thread, tlsVars, outcome
    <2> QED BY <2>2, <2>3, <2>4
<1>8. CASE Send
    <2>1. owed' \in Seq(0..MaxCalls)
        <3>1. owed \in Seq(0..MaxCalls) /\ calls \in 0..MaxCalls
            BY DEF TypeOK
        <3>2. owed' = Append(owed, calls) \/ owed' = owed
            BY <1>8 DEF Send
        <3> QED BY <3>1, <3>2
    <2>2. 0 \in 0..DrainMax
        OBVIOUS
    <2>3. armed' \in BOOLEAN
        <3>1. armed \in BOOLEAN
            BY DEF TypeOK
        <3>2. armed' = (IF linked /\ Head(todo) \in {"arm", "up"} THEN Head(todo) = "arm" ELSE armed)
            BY <1>8 DEF Send
        <3> QED BY <3>1, <3>2
    <2> QED BY <1>8, <2>1, <2>2, <2>3 DEF Send, TypeOK, Thread, tlsVars, outcome
<1>9. CASE FdtRead
    BY <1>9, <1>c, RestIsSequence DEF FdtRead, TypeOK, Thread, tlsVars, sensorVars, outcome
<1>10. CASE DrainD0
    BY <1>10, <1>b DEF DrainD0, Tail1, TypeOK, Thread, sensorVars, outcome
<1>11. CASE DrainRecord
    <2>1. ThreadOK' /\ pc' # "handshake"
        BY <1>11, AdvanceType DEF DrainRecord, TypeOK, ThreadOK
    <2> QED BY <1>11, <2>1, <1>b DEF DrainRecord, Tail1, TypeOK, ThreadOK, tlsVars, sensorVars, outcome
<1>12. CASE DrainOver
    <2>1. ThreadOK' /\ pc' # "handshake"
        BY <1>12, AdvanceType DEF DrainOver, TypeOK, ThreadOK
    <2> QED BY <1>12, <2>1 DEF DrainOver, TypeOK, ThreadOK, tlsVars, sensorVars, outcome
<1>13. CASE FrameLost
    BY <1>13, <1>b DEF FrameLost, Tail1, TypeOK, Thread, tlsVars, sensorVars, outcome
<1>14. CASE GiveUp
    BY <1>14, <1>d, ReturnType DEF GiveUp, Fail, TypeOK, Thread, sensorVars
<1>15. CASE Reconnect
    <2>1. 1 \in 0..SessionAtts /\ 1 > 0
        OBVIOUS
    <2> QED BY <1>15, <2>1 DEF Reconnect, MustReconnect, TypeOK, Thread, sensorVars, outcome
<1>16. CASE Wait
    BY <1>16 DEF Wait, Ready, MustReconnect, TypeOK, Thread, tlsVars, sensorVars, outcome
<1>17. CASE WaitOver
    BY <1>17, <1>d, ReturnType DEF WaitOver, Fail, TypeOK, Thread, tlsVars, sensorVars
<1>18. CASE WaitD0
    <2>1. ThreadOK' /\ pc' # "handshake" /\ result' \in {"none", "ok", "fail"}
          /\ failed' \in BOOLEAN /\ started' \in BOOLEAN /\ calls' = calls /\ image' = image
        BY <1>18, NextRoundType DEF WaitD0
    <2> QED BY <1>18, <2>1, <1>b DEF WaitD0, Tail1, TypeOK, ThreadOK, sensorVars
<1>19. CASE Undecipherable
    <2>1. PICK rec : Takes(rec)
        BY <1>19 DEF Undecipherable
    <2>2. stash' \in Records /\ bus' \in Seq(Records) /\ Len(bus') <= MaxBus
        BY <2>1, <1>a, <1>b, <1>e DEF Takes, Tail1, TypeOK
    <2>3. ThreadOK' /\ pc' # "handshake" /\ result' \in {"none", "ok", "fail"}
          /\ failed' \in BOOLEAN /\ started' \in BOOLEAN /\ calls' = calls /\ image' = image
        BY <1>19, <2>1, NextRoundType DEF Undecipherable, Takes, Ready, MustReconnect
    <2> QED BY <1>19, <2>2, <2>3 DEF Undecipherable, TypeOK, ThreadOK, tlsVars, sensorVars
<1>20. CASE TooShort
    <2>1. PICK rec : Takes(rec) /\ Decrypts(rec) /\ read_seq' = rec.seq + 1
        BY <1>20 DEF TooShort
    <2>2. stash' \in Records /\ bus' \in Seq(Records) /\ Len(bus') <= MaxBus
        BY <2>1, <1>a, <1>b, <1>e DEF Takes, Tail1, TypeOK
    <2>3. read_seq' \in Nat
        BY <2>1 DEF Decrypts, TypeOK
    <2>4. Fail
        BY <1>20 DEF TooShort
    <2> QED BY <1>20, <2>2, <2>3, <2>4, FailType DEF TooShort, TypeOK, ThreadOK, sensorVars
<1>21. CASE Decoded
    <2>1. PICK rec : Takes(rec) /\ Decrypts(rec) /\ read_seq' = rec.seq + 1 /\ Deliver(rec)
        BY <1>21 DEF Decoded
    <2>2. stash' \in Records /\ bus' \in Seq(Records) /\ Len(bus') <= MaxBus
        BY <2>1, <1>a, <1>b, <1>e DEF Takes, Tail1, TypeOK
    <2>3. read_seq' \in Nat
        BY <2>1 DEF Decrypts, TypeOK
    <2>4. image' \in Records
        BY <2>1, <1>b DEF Takes, Deliver, Tail1, TypeOK
    <2>5. ThreadOK' /\ pc' # "handshake"
        <3>1. CASE arm
            BY <2>1, <3>1, OpeningIsSequence DEF Deliver, TypeOK, ThreadOK, Thread
        <3>2. CASE ~arm
            <4>1. Return
                BY <2>1, <3>2 DEF Deliver
            <4> QED BY <4>1, ReturnType, OpeningIsSequence DEF ThreadOK, Thread
        <3> QED BY <3>1, <3>2
    <2>6. result' = "ok" /\ started' = TRUE /\ UNCHANGED <<calls, failed>>
        BY <2>1 DEF Deliver
    <2> QED BY <1>21, <2>2, <2>3, <2>4, <2>5, <2>6 DEF Decoded, TypeOK, ThreadOK, sensorVars
<1>22. CASE SensorImage
    <2>1. PICK kind \in {"full", "short", "corrupt"} :
              bus' = Append(bus, Frame(kind, Head(owed), sess, wseq))
        BY <1>22 DEF SensorImage
    <2>2. Head(owed) \in 0..MaxCalls /\ owed' \in Seq(0..MaxCalls)
        BY <1>22, SMTT(20) DEF SensorImage, TypeOK
    <2>3. Frame(kind, Head(owed), sess, wseq) \in Records
        BY <2>2, FramesAreRecords DEF TypeOK, Kinds
    <2>4. bus' \in Seq(Records) /\ Len(bus') <= MaxBus
        BY <1>22, <2>1, <2>3 DEF SensorImage, TypeOK
    <2> QED BY <1>22, <2>2, <2>4 DEF SensorImage, TypeOK, threadVars, tlsVars, outcome
<1>23. CASE SensorForgets
    BY <1>23 DEF SensorForgets, TypeOK, threadVars, tlsVars, outcome
<1>24. CASE SensorAsksReconnect
    <2>1. bus' \in Seq(Records) /\ Len(bus') <= MaxBus
        BY <1>24, FramesAreRecords DEF SensorAsksReconnect, TypeOK
    <2>2. linked' \in BOOLEAN /\ owed' \in Seq(0..MaxCalls)
        BY <1>24, <1>d DEF SensorAsksReconnect
    <2> QED BY <1>24, <2>1, <2>2 DEF SensorAsksReconnect, TypeOK, threadVars, tlsVars, outcome
<1>25. CASE UNCHANGED vars
    BY <1>25 DEF vars, TypeOK, threadVars, tlsVars, sensorVars, outcome
<1> QED
    BY <1>1, <1>2, <1>3, <1>4, <1>5, <1>6, <1>7, <1>8, <1>9, <1>10, <1>11, <1>12, <1>13, <1>14,
       <1>15, <1>16, <1>17, <1>18, <1>19, <1>20, <1>21, <1>22, <1>23, <1>24, <1>25
       DEF Next, Driver

-----------------------------------------------------------------------------
\* What is known of the frames at hand.
LEMMA Frames ==
    ASSUME TypeOK
    PROVE  /\ \A i \in OnBus : i \in Nat /\ i >= 1 /\ i <= Len(bus) /\ bus[i].seq \in Nat
           /\ stash.seq \in Nat /\ read_seq \in Nat /\ wseq \in Nat
<1>1. bus \in Seq(Records) /\ stash \in Records /\ read_seq \in Nat /\ wseq \in Nat
    BY DEF TypeOK
<1>2. \A r \in Records : r.seq \in Nat
    BY DEF Records
<1> HIDE DEF Records
<1>3. \A i \in OnBus : i \in 1..Len(bus) /\ bus[i] \in Records
    BY <1>1 DEF OnBus
<1> QED BY <1>1, <1>2, <1>3

\* Frames leave the bus from its head, at most two at a time, and none that is a
\* record comes.
Dropped == \E k \in 0..2 : \A i \in OnBus' : /\ i \in Nat /\ i + k \in OnBus
                                             /\ bus'[i] = bus[i + k]

LEMMA Drops ==
    ASSUME TypeOK,
           bus' \in {bus, <<>>, Eaten, Append(bus, D0)} \/ (bus # <<>> /\ bus' = Tail(bus))
    PROVE  Dropped
<1> HIDE DEF Records, IsRecord, D0
<1>a. bus \in Seq(Records) /\ ~IsRecord(D0) /\ D0 \in Records
    BY FramesAreRecords DEF TypeOK
<1>1. CASE bus' = bus
    <2>1. \A i \in OnBus' : i \in Nat /\ i + 0 \in OnBus /\ bus'[i] = bus[i + 0]
        BY <1>1, <1>a DEF OnBus
    <2> QED BY <2>1 DEF Dropped
<1>2. CASE bus' = <<>>
    BY <1>2 DEF Dropped, OnBus
<1>3. CASE bus' = Eaten
    <2>1. \A i \in OnBus' : i \in Nat /\ i + 2 \in OnBus /\ bus'[i] = bus[i + 2]
        BY <1>3, <1>a, Shorter DEF Eaten, OnBus
    <2> QED BY <2>1 DEF Dropped
<1>4. CASE bus' = Append(bus, D0)
    <2>1. /\ DOMAIN bus' = 1..(Len(bus) + 1) /\ bus'[Len(bus) + 1] = D0
          /\ \A i \in 1..Len(bus) : bus'[i] = bus[i]
        BY <1>4, <1>a
    <2>2. \A i \in OnBus' : i \in Nat /\ i + 0 \in OnBus /\ bus'[i] = bus[i + 0]
        BY <2>1, <1>a DEF OnBus
    <2> QED BY <2>2 DEF Dropped
<1>5. CASE bus # <<>> /\ bus' = Tail(bus)
    <2>1. \A i \in OnBus' : i \in Nat /\ i + 1 \in OnBus /\ bus'[i] = bus[i + 1]
        BY <1>5, <1>a, Shorter DEF OnBus
    <2> QED BY <2>1 DEF Dropped
<1> QED BY <1>1, <1>2, <1>3, <1>4, <1>5

\* Every step but the arrival of an image takes frames from the bus or leaves it.
LEMMA NextDrops ==
    ASSUME TypeOK, [Next]_vars, ~SensorImage
    PROVE  Dropped
<1>1. CASE StartSession \/ SessionCancelled \/ Reopen \/ Begin \/ Probe
    BY <1>1, Drops DEF StartSession, SessionCancelled, Reopen, Begin, Probe, Reset
<1>2. CASE HandshakeUp \/ HandshakeFails \/ Send \/ FdtRead
    BY <1>2, Drops DEF HandshakeUp, HandshakeFails, Send, FdtRead, Reset
<1>3. CASE DrainD0 \/ DrainRecord \/ DrainOver \/ FrameLost \/ WaitD0
    BY <1>3, Drops DEF DrainD0, DrainRecord, DrainOver, FrameLost, WaitD0
<1>4. CASE GiveUp \/ Reconnect \/ Wait \/ WaitOver
    BY <1>4, Drops DEF GiveUp, Reconnect, Wait, WaitOver
<1>5. CASE Undecipherable \/ TooShort \/ Decoded
    BY <1>5, Drops DEF Undecipherable, TooShort, Decoded, Takes
<1>6. CASE SensorForgets \/ SensorAsksReconnect
    BY <1>6, Drops DEF SensorForgets, SensorAsksReconnect
<1>7. CASE UNCHANGED vars
    BY <1>7, Drops DEF vars
<1> QED BY <1>1, <1>2, <1>3, <1>4, <1>5, <1>6, <1>7 DEF Next, Driver

-----------------------------------------------------------------------------
\* While nothing is decrypted and no session begins, the order stays.
LEMMA OrderKept ==
    ASSUME TypeOK, InOrder, Dropped, tls_up' => tls_up,
           tls_up' => UNCHANGED <<sess, read_seq, wseq>>, stash' \in {stash, None}
    PROVE  InOrder'
<1> HIDE DEF None, Dropped
<1>1. SUFFICES ASSUME tls_up' PROVE InOrder'
    BY DEF InOrder
<1>2. UNCHANGED <<sess, read_seq, wseq>> /\ tls_up
    BY <1>1
<1>3. PICK k \in 0..2 : \A i \in OnBus' : /\ i \in Nat /\ i + k \in OnBus
                                          /\ bus'[i] = bus[i + k]
    BY DEF Dropped
<1>4. \A i, j \in OnBus' : i < j => bus'[i].seq < bus'[j].seq
    <2> SUFFICES ASSUME NEW i \in OnBus', NEW j \in OnBus', i < j
                 PROVE  bus'[i].seq < bus'[j].seq
        OBVIOUS
    <2>1. i \in Nat /\ j \in Nat
        BY <1>3
    <2>2. i + k < j + k
        BY <2>1
    <2> QED BY <1>2, <1>3, <2>2 DEF InOrder
<1>5. \A i \in OnBus' : bus'[i].sess = sess' /\ bus'[i].seq \in read_seq'..(wseq' - 1)
    BY <1>2, <1>3 DEF InOrder
<1>6. stash' # None =>
          /\ stash'.sess = sess' /\ stash'.seq \in read_seq'..(wseq' - 1)
          /\ \A i \in OnBus' : stash'.seq < bus'[i].seq
    BY <1>2, <1>3 DEF InOrder
<1> QED BY <1>2, <1>4, <1>5, <1>6 DEF InOrder

\* The record taken to be decrypted precedes all that stay.
LEMMA TakenFirst ==
    ASSUME TypeOK, Shape, InOrder, tls_up, NEW rec, Takes(rec), Ready \/ pc = "wait"
    PROVE  /\ rec.sess = sess /\ rec.seq \in read_seq..(wseq - 1)
           /\ \A i \in OnBus' : rec.seq < bus'[i].seq
           /\ \A i \in OnBus' : bus'[i].sess = sess /\ bus'[i].seq \in read_seq..(wseq - 1)
           /\ \A i, j \in OnBus' : i < j => bus'[i].seq < bus'[j].seq
           /\ stash' = None
<1> HIDE DEF None, Records, IsRecord
<1>1. CASE Ready /\ stash # None /\ rec = stash /\ stash' = None /\ bus' = bus
    <2>1. OnBus' = OnBus
        BY <1>1 DEF OnBus
    <2> QED BY <1>1, <2>1 DEF InOrder
<1>2. CASE pc = "wait" /\ bus # <<>> /\ rec = Head(bus) /\ IsRecord(rec) /\ bus' = Tail(bus)
           /\ stash' = stash
    <2>1. bus \in Seq(Records)
        BY DEF TypeOK
    <2>2. 1 \in OnBus /\ bus[1] = rec
        BY <1>2, <2>1, Shorter DEF OnBus
    <2>3. \A i \in OnBus' : i + 1 \in OnBus /\ bus'[i] = bus[i + 1] /\ i >= 1 /\ i \in Int
        BY <1>2, <2>1, Shorter DEF OnBus
    <2>4. \A i \in OnBus' : 1 < i + 1
        BY <2>3
    <2>5. \A i, j \in OnBus' : i < j => i + 1 < j + 1
        BY <2>3
    <2> QED BY <1>2, <2>2, <2>3, <2>4, <2>5 DEF InOrder, Shape
<1> QED BY <1>1, <1>2 DEF Takes

-----------------------------------------------------------------------------
\* The order of the numbers, and with it the agreement of the two counters, is kept
\* by every step.
LEMMA NextInOrder ==
    ASSUME TypeOK, Shape, InOrder, [Next]_vars
    PROVE  InOrder'
<1> HIDE DEF None, Records, IsRecord, D0
<1>a. ~SensorImage => Dropped
    BY NextDrops
<1> HIDE DEF Dropped
<1>1. CASE \/ StartSession \/ SessionCancelled \/ Reopen \/ Begin \/ Probe
           \/ Send \/ FdtRead \/ SensorForgets \/ SensorAsksReconnect \/ UNCHANGED vars
    <2>1. Dropped
        BY <1>1, Drops DEF StartSession, SessionCancelled, Reopen, Begin, Probe, Send, FdtRead,
              SensorForgets, SensorAsksReconnect, Reset, vars
    <2>2. stash' = stash /\ (tls_up' => tls_up)
        BY <1>1 DEF StartSession, SessionCancelled, Reopen, Begin, Probe, Send, FdtRead,
              SensorForgets, SensorAsksReconnect, tlsVars, vars, TypeOK
    <2>3. tls_up' => UNCHANGED <<sess, read_seq, wseq>>
        BY <1>1 DEF StartSession, SessionCancelled, Reopen, Begin, Probe, Send, FdtRead,
              SensorForgets, SensorAsksReconnect, tlsVars, vars, sensorVars, Reset
    <2> QED BY <2>1, <2>2, <2>3, OrderKept
<1>2. CASE HandshakeUp
    <2>1. /\ bus' = <<>> /\ stash' = None /\ wseq' = 1 /\ read_seq' = 1
        BY <1>2 DEF HandshakeUp, NewKeys
    <2> QED BY <2>1 DEF InOrder, OnBus
<1>3. CASE HandshakeFails
    <2>1. ~tls_up'
        BY <1>3 DEF HandshakeFails, TypeOK, tlsVars
    <2> QED BY <2>1 DEF InOrder
<1>4. CASE DrainD0 \/ DrainOver \/ FrameLost \/ GiveUp \/ Reconnect \/ Wait \/ WaitOver \/ WaitD0
    <2>1. stash' = stash /\ (tls_up' => tls_up)
        BY <1>4 DEF DrainD0, DrainOver, FrameLost, GiveUp, Reconnect, Wait, WaitOver, WaitD0,
              tlsVars
    <2>2. tls_up' => UNCHANGED <<sess, read_seq, wseq>>
        BY <1>4 DEF DrainD0, DrainOver, FrameLost, GiveUp, Reconnect, Wait, WaitOver, WaitD0,
              tlsVars, sensorVars
    <2>3. Dropped
        BY <1>4, Drops DEF DrainD0, DrainOver, FrameLost, GiveUp, Reconnect, Wait, WaitOver, WaitD0
    <2> QED BY <2>1, <2>2, <2>3, OrderKept
<1>5. CASE DrainRecord
    <2>1. /\ bus # <<>> /\ stash' = bus[1] /\ 1 \in OnBus /\ bus \in Seq(Records)
          /\ bus' = Tail(bus)
        BY <1>5 DEF DrainRecord, TypeOK, OnBus
    <2>2. UNCHANGED <<tls_up, sess, read_seq, wseq>>
        BY <1>5 DEF DrainRecord, tlsVars, sensorVars
    <2>3. \A i \in OnBus' : i + 1 \in OnBus /\ bus'[i] = bus[i + 1] /\ i >= 1 /\ i \in Int
        BY <2>1, Shorter DEF OnBus
    <2>4. /\ \A i \in OnBus' : 1 < i + 1
          /\ \A i, j \in OnBus' : i < j => i + 1 < j + 1
        BY <2>3
    <2> QED BY <2>1, <2>2, <2>3, <2>4 DEF InOrder
<1>6. CASE Undecipherable
    <2>1. PICK rec : Takes(rec)
        BY <1>6 DEF Undecipherable
    <2>2. stash' \in {stash, None}
        BY <2>1 DEF Takes
    <2>3. UNCHANGED <<tls_up, sess, read_seq, wseq>>
        BY <1>6 DEF Undecipherable, tlsVars, sensorVars
    <2>4. Dropped
        BY <2>1, Drops DEF Takes
    <2> QED BY <2>2, <2>3, <2>4, OrderKept
<1>7. CASE TooShort \/ Decoded
    <2>1. PICK rec : Takes(rec) /\ Decrypts(rec) /\ read_seq' = rec.seq + 1
        BY <1>7 DEF TooShort, Decoded
    <2>2. UNCHANGED <<tls_up, sess, wseq>> /\ tls_up
        BY <1>7, <2>1 DEF TooShort, Decoded, sensorVars, Decrypts
    <2>3. Ready \/ pc = "wait"
        BY <2>1 DEF Takes
    <2>4. /\ rec.seq \in read_seq..(wseq - 1) /\ stash' = None
          /\ \A i \in OnBus' : rec.seq < bus'[i].seq
          /\ \A i \in OnBus' : bus'[i].sess = sess /\ bus'[i].seq \in read_seq..(wseq - 1)
          /\ \A i, j \in OnBus' : i < j => bus'[i].seq < bus'[j].seq
        BY <2>1, <2>2, <2>3, TakenFirst
    <2>5. read_seq \in Nat /\ wseq \in Nat
        BY DEF TypeOK
    <2>6. wseq' >= read_seq'
        BY <2>1, <2>2, <2>4, <2>5
    <2>7. \A i \in OnBus' : bus'[i].seq \in read_seq'..(wseq' - 1)
        BY <2>1, <2>2, <2>4, <2>5
    <2> QED BY <2>2, <2>4, <2>6, <2>7 DEF InOrder
<1>8. CASE SensorImage
    <2> DEFINE n == Len(bus) + 1
    <2>1. PICK kind \in {"full", "short", "corrupt"} :
              bus' = Append(bus, Frame(kind, Head(owed), sess, wseq))
        BY <1>8 DEF SensorImage
    <2>2. bus \in Seq(Records) /\ wseq \in Nat /\ read_seq \in Nat
        BY DEF TypeOK
    <2>3. /\ wseq' = wseq + 1 /\ UNCHANGED <<tls_up, sess, read_seq, stash>>
        BY <1>8 DEF SensorImage, tlsVars
    <2>4. /\ DOMAIN bus' = 1..n /\ n \in Nat /\ bus'[n] = Frame(kind, Head(owed), sess, wseq)
          /\ \A i \in 1..(n - 1) : bus'[i] = bus[i]
        BY <2>1, <2>2
    <2>5. bus'[n].sess = sess /\ bus'[n].seq = wseq
        BY <2>4 DEF Frame
    <2> HIDE DEF n
    <2>6. \A i \in OnBus' : i = n \/ (i \in OnBus /\ bus'[i] = bus[i] /\ i < n)
        BY <2>2, <2>4 DEF OnBus, n
    <2>7. \A i \in OnBus : i \in Nat
        BY Frames
    <2> SUFFICES ASSUME tls_up PROVE InOrder'
        BY <2>3 DEF InOrder
    <2>8. \A i \in OnBus : bus[i].sess = sess /\ bus[i].seq \in read_seq..(wseq - 1)
        BY DEF InOrder
    <2>9. \A i \in OnBus' : bus'[i].sess = sess /\ bus'[i].seq \in read_seq..wseq
        BY <2>2, <2>5, <2>6, <2>8 DEF InOrder
    <2>10. \A i, j \in OnBus' : i < j => bus'[i].seq < bus'[j].seq
        <3> SUFFICES ASSUME NEW i \in OnBus', NEW j \in OnBus', i < j
                     PROVE  bus'[i].seq < bus'[j].seq
            OBVIOUS
        <3>1. i \in OnBus /\ bus'[i] = bus[i]
            <4>1. i # n
                BY <2>4, <2>6, <2>7
            <4> QED BY <4>1, <2>6
        <3>2. CASE j = n
            BY <3>1, <3>2, <2>2, <2>5, <2>8
        <3>3. CASE j # n
            BY <3>1, <3>3, <2>6 DEF InOrder
        <3> QED BY <3>2, <3>3
    <2>11. stash # None => /\ stash.sess = sess /\ stash.seq \in read_seq..wseq
                           /\ \A i \in OnBus' : stash.seq < bus'[i].seq
        BY <2>2, <2>5, <2>6 DEF InOrder
    <2>12. wseq >= read_seq
        BY DEF InOrder
    <2> QED BY <2>2, <2>3, <2>9, <2>10, <2>11, <2>12 DEF InOrder
<1> QED BY <1>1, <1>2, <1>3, <1>4, <1>5, <1>6, <1>7, <1>8 DEF Next, Driver

-----------------------------------------------------------------------------
\* What is left of a sequence of commands still ends with the image request.
LEMMA AdvanceShape ==
    ASSUME TypeOK, Shape, pc = "drain", Advance
    PROVE  /\ ImageLast'
           /\ pc' # "wait" /\ pc' # "handshake" /\ (pc' = "idle" => ~arm')
           /\ todo = <<"up">> => pc' = "idle"
<1>1. todo \in Seq(Commands) /\ todo # <<>>
    BY DEF TypeOK
<1> HIDE DEF Commands, IsRecord, None
<1>2. CASE Len(todo) > 1
    <2>1. todo' = Tail(todo) /\ arm' = arm /\ pc' = "send"
        BY <1>2 DEF Advance
    <2>2. \A i \in DOMAIN Tail(todo) : /\ i + 1 \in DOMAIN todo /\ Tail(todo)[i] = todo[i + 1]
                                       /\ i \in Nat
        BY <1>1, Shorter
    <2>3. Len(Tail(todo)) = Len(todo) - 1 /\ Len(todo) \in Nat
        BY <1>1
    <2>4. ImageLast
        BY DEF Shape
    <2>5. ImageLast'
        BY <1>2, <2>1, <2>2, <2>3, <2>4 DEF ImageLast
    <2> QED BY <2>1, <2>5, <1>2
<1>3. CASE ~(Len(todo) > 1) /\ Head(todo) = "up"
    <2>1. Return
        BY <1>3 DEF Advance
    <2> QED BY <2>1 DEF Return, ImageLast
<1>4. CASE ~(Len(todo) > 1) /\ Head(todo) # "up"
    BY <1>4 DEF Advance, ImageLast
<1> QED BY <1>2, <1>3, <1>4

\* A step keeps the shape of the thread.
LEMMA NextShape ==
    ASSUME TypeOK, Shape, [Next]_vars
    PROVE  Shape'
<1> HIDE DEF None, Records, IsRecord, D0, Commands, Opening
<1>a. pc \notin {"send", "drain"} => todo = <<>>
    BY DEF TypeOK
<1>b. todo # <<"up">> /\ pc # "idle" => result # "ok"
    BY DEF Shape, ImageLast
<1>c. <<>> # <<"up">> /\ Opening # <<"up">>
    BY DEF Opening
<1>1. CASE StartSession
    BY <1>1, <1>a DEF StartSession, Shape, ImageLast, tlsVars, outcome
<1>2. CASE SessionCancelled
    BY <1>2, <1>a, <1>b, <1>c DEF SessionCancelled, Return, Shape, ImageLast, tlsVars, outcome
<1>3. CASE Reopen
    BY <1>3 DEF Reopen, Shape, ImageLast, threadVars
<1>4. CASE Begin
    BY <1>4, OpeningIsSequence DEF Begin, Shape, ImageLast
<1>5. CASE Probe
    BY <1>5 DEF Probe, Shape, ImageLast, threadVars, tlsVars, outcome
<1>6. CASE HandshakeUp
    <2>1. stash' = None /\ arm' = arm /\ result' = result /\ rearmed' = rearmed /\ tls_up' = TRUE
        BY <1>6 DEF HandshakeUp
    <2>2. todo = <<>> /\ result # "ok" /\ (~rearmed => ~arm)
        BY <1>6, <1>a, <1>b, <1>c DEF HandshakeUp, Shape, ImageLast
    <2>3. \/ rearmed /\ pc' = "send" /\ todo' = Opening
          \/ ~rearmed /\ pc' = "idle" /\ todo' = todo
        BY <1>6 DEF HandshakeUp
    <2> QED BY <2>1, <2>2, <2>3, OpeningIsSequence DEF Shape, ImageLast
<1>7. CASE HandshakeFails
    <2>1. stash' \in {stash, None} /\ pc = "handshake" /\ todo = <<>> /\ result # "ok"
        BY <1>7, <1>a, <1>b, <1>c DEF HandshakeFails
    <2>2. \/ UNCHANGED <<pc, todo, arm, rearmed, outcome>>
          \/ Return /\ UNCHANGED outcome
          \/ Return /\ result' = "fail"
        BY <1>7 DEF HandshakeFails, Fail
    <2>3. CASE UNCHANGED <<pc, todo, arm, rearmed, outcome>>
        BY <2>1, <2>3 DEF Shape, ImageLast, outcome
    <2>4. CASE Return /\ (UNCHANGED outcome \/ result' = "fail")
        BY <2>1, <2>4 DEF Shape, ImageLast, Return, outcome
    <2> QED BY <2>2, <2>3, <2>4
<1>8. CASE Send
    BY <1>8 DEF Send, Shape, ImageLast, tlsVars, outcome
<1>9. CASE FdtRead
    <2>1. PICK have \in BOOLEAN : todo' = Rest(have)
        BY <1>9 DEF FdtRead
    <2>2. UNCHANGED <<pc, arm, rearmed, tls_up, stash, result>> /\ pc = "send" /\ Head(todo) = "fdt"
        BY <1>9 DEF FdtRead, tlsVars, outcome
    <2>3. result # "ok"
        BY <2>2, <1>b
    <2> QED BY <2>1, <2>2, <2>3, RestIsSequence DEF Shape, ImageLast, TypeOK
<1>10. CASE DrainD0
    BY <1>10 DEF DrainD0, Shape, ImageLast, outcome
<1>11. CASE DrainRecord \/ DrainOver
    <2>1. Advance /\ pc = "drain" /\ UNCHANGED <<tls_up, result>>
        BY <1>11 DEF DrainRecord, DrainOver, tlsVars, outcome
    <2>2. stash' # None => IsRecord(stash')
        BY <1>11 DEF DrainRecord, DrainOver, Shape, ImageLast
    <2> QED BY <2>1, <2>2, <1>b, AdvanceShape DEF Shape, ImageLast
<1>12. CASE FrameLost
    BY <1>12 DEF FrameLost, Shape, ImageLast, tlsVars, outcome
<1>13. CASE GiveUp \/ WaitOver
    BY <1>13 DEF GiveUp, WaitOver, Fail, Return, Shape, ImageLast, tlsVars
<1>14. CASE Reconnect
    BY <1>14, <1>a, <1>b, <1>c DEF Reconnect, MustReconnect, Shape, ImageLast, outcome
<1>15. CASE Wait
    BY <1>15, <1>a, <1>b, <1>c DEF Wait, Ready, MustReconnect, Shape, ImageLast, tlsVars, outcome
<1>16. CASE WaitD0 \/ Undecipherable
    <2>1. /\ NextRound /\ pc \in {"choose", "take", "wait"} /\ stash' \in {stash, None}
          /\ tls_up' = tls_up
        BY <1>16 DEF WaitD0, Undecipherable, Takes, Ready, MustReconnect, tlsVars
    <2>2. result # "ok" /\ todo = <<>>
        BY <2>1, <1>a, <1>b, <1>c
    <2>3. \/ pc' = "choose" /\ UNCHANGED <<todo, arm, result>>
          \/ Return /\ result' = "fail"
        BY <2>1 DEF NextRound, Fail, outcome
    <2> QED BY <2>1, <2>2, <2>3 DEF Return, Shape, ImageLast
<1>17. CASE TooShort
    <2>1. Return /\ result' = "fail" /\ stash' \in {stash, None}
        BY <1>17 DEF TooShort, Fail, Takes
    <2> QED BY <2>1 DEF Return, Shape, ImageLast
<1>18. CASE Decoded
    <2>1. PICK rec : Takes(rec) /\ Decrypts(rec) /\ Deliver(rec)
        BY <1>18 DEF Decoded
    <2>2. tls_up' /\ stash' \in {stash, None}
        BY <1>18, <2>1 DEF Decoded, Takes, Decrypts
    <2>3. \/ pc' = "send" /\ todo' = <<"up">> /\ arm' = arm
          \/ Return
        BY <2>1 DEF Deliver
    <2>4. CASE Return
        BY <2>2, <2>4 DEF Return, Shape, ImageLast
    <2>5. CASE pc' = "send" /\ todo' = <<"up">> /\ arm' = arm
        <3>1. ImageLast'
            BY <2>5 DEF ImageLast
        <3> QED BY <2>2, <2>5, <3>1 DEF Shape
    <2> QED BY <2>3, <2>4, <2>5
<1>19. CASE SensorImage \/ SensorForgets \/ SensorAsksReconnect
    BY <1>19 DEF SensorImage, SensorForgets, SensorAsksReconnect, threadVars, tlsVars, outcome, Shape, ImageLast
<1>20. CASE UNCHANGED vars
    BY <1>20 DEF vars, threadVars, tlsVars, outcome, Shape, ImageLast
<1> QED BY <1>1, <1>2, <1>3, <1>4, <1>5, <1>6, <1>7, <1>8, <1>9, <1>10, <1>11, <1>12, <1>13,
           <1>14, <1>15, <1>16, <1>17, <1>18, <1>19, <1>20 DEF Next, Driver

-----------------------------------------------------------------------------
\* While no image arrives and no request is sent, what is pending does not grow.
LEMMA PendingKept ==
    ASSUME TypeOK, Dropped, owed' \in {owed, <<>>}, stash' \in {stash, None}
    PROVE  /\ NonePending => NonePending'
           /\ OnePending /\ calls' = calls => OnePending'
           /\ NonePending => OnePending'
<1> HIDE DEF None, OnBus, Dropped
<1>1. PICK k \in 0..2 : \A i \in OnBus' : /\ i \in Nat /\ i + k \in OnBus
                                          /\ bus'[i] = bus[i + k]
    BY DEF Dropped
<1>2. NonePending => NonePending'
    BY <1>1 DEF NonePending
<1>3. ASSUME OnePending, calls' = calls PROVE OnePending'
    <2>1. \A i, j \in OnBus' : i = j
        <3> SUFFICES ASSUME NEW i \in OnBus', NEW j \in OnBus' PROVE i = j
            OBVIOUS
        <3>1. i + k = j + k
            BY <1>1, <1>3 DEF OnePending
        <3> QED BY <3>1, <1>1
    <2>2. owed' # <<>> => owed' = <<calls'>> /\ OnBus' = {} /\ stash' = None
        BY <1>1, <1>3 DEF OnePending
    <2>3. \A i \in OnBus' : bus'[i].call = calls' /\ stash' = None
        BY <1>1, <1>3 DEF OnePending
    <2>4. stash' # None => stash'.call = calls'
        BY <1>3 DEF OnePending
    <2> QED BY <2>1, <2>2, <2>3, <2>4 DEF OnePending
<1>4. NonePending' => OnePending'
    BY DEF NonePending, OnePending
<1> QED BY <1>2, <1>3, <1>4

\* The one record pending is the one taken to be decrypted; none is left.
LEMMA TakenIsOwn ==
    ASSUME TypeOK, OnePending, NEW rec, Takes(rec), owed' = owed
    PROVE  NonePending' /\ rec.call = calls
<1> HIDE DEF None, Records, IsRecord
<1>1. CASE stash # None /\ rec = stash /\ stash' = None /\ bus' = bus
    <2>1. OnBus = {} /\ OnBus' = OnBus /\ owed = <<>>
        BY <1>1 DEF OnePending, OnBus
    <2> QED BY <1>1, <2>1 DEF NonePending, OnePending
<1>2. CASE bus # <<>> /\ rec = Head(bus) /\ IsRecord(rec) /\ bus' = Tail(bus) /\ stash' = stash
    <2>1. bus \in Seq(Records)
        BY DEF TypeOK
    <2>2. 1 \in OnBus /\ bus[1] = rec
        BY <1>2, <2>1, Shorter DEF OnBus
    <2>3. \A i \in OnBus' : i + 1 \in OnBus /\ i >= 1 /\ i \in Int
        BY <1>2, <2>1, Shorter DEF OnBus
    <2> HIDE DEF OnBus
    <2>4. \A i \in OnBus' : i + 1 = 1
        BY <2>2, <2>3 DEF OnePending
    <2>5. OnBus' = {}
        BY <2>3, <2>4
    <2> QED BY <1>2, <2>2, <2>5 DEF OnePending, NonePending
<1> QED BY <1>1, <1>2 DEF Takes

\* A step keeps what is pending: one image at most, and only once it was asked for.
LEMMA NextPending ==
    ASSUME TypeOK, Shape, Pending, [Next]_vars
    PROVE  Pending'
<1> HIDE DEF None, Records, IsRecord, D0, Commands, Opening
<1>a. ~SensorImage => Dropped
    BY NextDrops
<1> HIDE DEF Dropped, OnBus
<1>b. /\ pc = "handshake" => ~tls_up
      /\ pc \in {"send", "drain"} <=> todo # <<>>
    BY DEF TypeOK
<1>1. CASE StartSession \/ HandshakeFails \/ SessionCancelled \/ Reopen \/ Reconnect
    BY <1>1, <1>b DEF StartSession, HandshakeFails, SessionCancelled, Reopen, Reconnect, tlsVars,
          Pending
<1>2. CASE GiveUp \/ WaitOver \/ TooShort
    BY <1>2 DEF GiveUp, WaitOver, TooShort, Fail, Pending
<1>3. CASE HandshakeUp
    <2>1. owed' = <<>> /\ bus' = <<>> /\ stash' = None /\ pc' \in {"send", "idle"}
        BY <1>3 DEF HandshakeUp
    <2> QED BY <2>1 DEF Pending, Asked, NonePending, OnBus
<1>4. CASE Begin \/ FdtRead \/ Probe
    <2>1. /\ pc \in {"idle", "send"} /\ pc' \in {"idle", "send"} /\ Dropped
          /\ UNCHANGED <<owed, stash, failed, tls_up>>
        BY <1>4, Drops DEF Begin, FdtRead, Probe, threadVars, tlsVars, sensorVars, outcome
    <2>2. ~Asked /\ ~Asked'
        BY <2>1 DEF Asked
    <2> QED BY <2>1, <2>2, PendingKept DEF Pending
<1>5. CASE Send
    <2>1. /\ pc = "send" /\ pc' = "drain"
          /\ UNCHANGED <<todo, stash, failed, tls_up, bus, calls>>
        BY <1>5 DEF Send, tlsVars, outcome
    <2>2. ~Asked /\ (Asked' <=> Head(todo) = "image") /\ OnBus' = OnBus
        BY <2>1 DEF Asked, OnBus
    <2>3. owed' = IF linked /\ Head(todo) = "image" THEN Append(owed, calls) ELSE owed
        BY <1>5 DEF Send
    <2>4. SUFFICES ASSUME ~failed, tls_up PROVE Pending'
        BY <2>1 DEF Pending
    <2>5. NonePending
        BY <2>2, <2>4 DEF Pending
    <2>6. Append(<<>>, calls) = <<calls>>
        OBVIOUS
    <2> QED BY <2>1, <2>2, <2>3, <2>5, <2>6 DEF Pending, NonePending, OnePending
<1>6. CASE DrainD0 \/ FrameLost \/ Wait \/ SensorAsksReconnect
    <2>1. /\ UNCHANGED <<calls, stash, failed, tls_up>> /\ owed' \in {owed, <<>>}
          /\ (Asked' <=> Asked)
        <3>1. CASE DrainD0 \/ FrameLost
            BY <3>1 DEF DrainD0, FrameLost, tlsVars, sensorVars, outcome, Asked
        <3>2. CASE Wait
            BY <3>2 DEF Wait, Ready, MustReconnect, tlsVars, sensorVars, outcome, Asked
        <3>3. CASE SensorAsksReconnect
            BY <3>3 DEF SensorAsksReconnect, tlsVars, threadVars, outcome, Asked
        <3> QED BY <1>6, <3>1, <3>2, <3>3
    <2>2. Dropped
        BY <1>6, Drops DEF DrainD0, FrameLost, Wait, SensorAsksReconnect
    <2> QED BY <2>1, <2>2, PendingKept DEF Pending
<1>7. CASE DrainRecord \/ DrainOver
    <2>1. /\ pc = "drain" /\ Advance /\ UNCHANGED <<calls, owed, failed, tls_up>>
        BY <1>7 DEF DrainRecord, DrainOver, tlsVars, sensorVars, outcome
    <2> SUFFICES ASSUME ~failed, tls_up PROVE Pending'
        BY <2>1 DEF Pending
    <2>2. Asked => Asked'
        <3>1. ASSUME Asked PROVE Len(todo) <= 1 /\ Head(todo) = "image"
            <4>1. todo \in Seq(Commands) /\ todo # <<>> /\ Head(todo) = "image"
                BY <2>1, <3>1, <1>b DEF Asked, TypeOK
            <4>2. 1 \in DOMAIN todo /\ todo[1] = "image"
                BY <4>1
            <4> QED BY <4>1, <4>2 DEF Shape, ImageLast
        <3>2. todo \in Seq(Commands)
            BY DEF TypeOK
        <3> QED BY <2>1, <3>1, <3>2 DEF Advance, Asked
    <2>3. CASE DrainRecord
        <3>1. bus # <<>> /\ stash' = Head(bus) /\ IsRecord(Head(bus)) /\ bus' = Tail(bus)
            BY <2>3 DEF DrainRecord
        <3>2. bus \in Seq(Records)
            BY DEF TypeOK
        <3>3. 1 \in OnBus /\ bus[1] = Head(bus)
            BY <3>1, <3>2, Shorter DEF OnBus
        <3>4. \A i \in OnBus' : i + 1 \in OnBus /\ i >= 1 /\ i \in Int
            BY <3>1, <3>2, Shorter DEF OnBus
        <3>5. Asked /\ OnePending
            BY <3>3 DEF Pending, NonePending
        <3>6. \A i \in OnBus' : i + 1 = 1
            BY <3>3, <3>4, <3>5 DEF OnePending
        <3>7. OnBus' = {}
            BY <3>4, <3>6
        <3>8. owed = <<>> /\ stash'.call = calls
            BY <3>1, <3>3, <3>5 DEF OnePending
        <3> QED BY <2>1, <2>2, <3>5, <3>7, <3>8 DEF Pending, OnePending
    <2>4. CASE DrainOver
        <3>1. Dropped /\ stash' = stash
            BY <2>4, Drops DEF DrainOver
        <3> QED BY <2>1, <2>2, <3>1, PendingKept DEF Pending
    <2> QED BY <1>7, <2>3, <2>4
<1>8. CASE WaitD0 \/ Undecipherable
    <2>1. /\ Asked /\ NextRound /\ UNCHANGED <<owed, tls_up>> /\ stash' \in {stash, None}
        BY <1>8 DEF WaitD0, Undecipherable, Takes, Ready, MustReconnect, tlsVars, sensorVars, Asked
    <2>2. Dropped
        BY <1>8, Drops DEF WaitD0, Undecipherable, Takes
    <2>3. failed' \/ (pc' = "choose" /\ UNCHANGED <<calls, failed>>)
        BY <2>1 DEF NextRound, Fail, outcome
    <2> QED BY <2>1, <2>2, <2>3, PendingKept DEF Pending, Asked
<1>9. CASE Decoded
    <2>1. PICK rec : Takes(rec) /\ Deliver(rec)
        BY <1>9 DEF Decoded
    <2>2. Asked /\ UNCHANGED <<owed, tls_up, failed>>
        BY <1>9, <2>1 DEF Decoded, Takes, Ready, MustReconnect, sensorVars, Asked, Deliver
    <2>3. ~Asked'
        BY <2>1 DEF Deliver, Return, Asked
    <2> QED BY <2>1, <2>2, <2>3, TakenIsOwn DEF Pending
<1>10. CASE SensorForgets
    <2>1. /\ owed' = Tail(owed) /\ owed # <<>>
          /\ UNCHANGED <<calls, stash, bus, failed, tls_up, pc, todo>>
        BY <1>10 DEF SensorForgets, tlsVars, threadVars, outcome
    <2> SUFFICES ASSUME ~failed, tls_up PROVE Pending'
        BY <2>1 DEF Pending
    <2>2. Asked /\ OnePending
        BY <2>1 DEF Pending, NonePending
    <2>3. owed' = <<>>
        <3>1. owed = <<calls>>
            BY <2>1, <2>2 DEF OnePending
        <3> QED BY <2>1, <3>1
    <2>4. Dropped
        BY <1>10, Drops DEF SensorForgets
    <2> QED BY <2>1, <2>2, <2>3, <2>4, PendingKept DEF Pending, Asked
<1>11. CASE SensorImage
    <2> DEFINE n == Len(bus) + 1
    <2>1. PICK kind \in {"full", "short", "corrupt"} :
              bus' = Append(bus, Frame(kind, Head(owed), sess, wseq))
        BY <1>11 DEF SensorImage
    <2>2. /\ owed' = Tail(owed) /\ owed # <<>>
          /\ UNCHANGED <<calls, stash, failed, tls_up, pc, todo>>
        BY <1>11 DEF SensorImage, tlsVars, threadVars, outcome
    <2> SUFFICES ASSUME ~failed, tls_up PROVE Pending'
        BY <2>2 DEF Pending
    <2>3. Asked /\ OnePending
        BY <2>2 DEF Pending, NonePending
    <2>4. owed = <<calls>> /\ OnBus = {} /\ stash = None /\ owed' = <<>> /\ Head(owed) = calls
        BY <2>2, <2>3 DEF OnePending
    <2>5. bus \in Seq(Records)
        BY DEF TypeOK
    <2>6. /\ DOMAIN bus' = 1..n /\ n \in Nat /\ bus'[n] = Frame(kind, Head(owed), sess, wseq)
          /\ \A i \in 1..(n - 1) : bus'[i] = bus[i] /\ i \in DOMAIN bus
        BY <2>1, <2>5
    <2>7. bus'[n].call = calls
        BY <2>4, <2>6 DEF Frame
    <2>8. \A i \in OnBus' : i = n
        <3> HIDE DEF n
        <3> SUFFICES ASSUME NEW i \in OnBus', i # n PROVE FALSE
            OBVIOUS
        <3>1. i \in 1..(n - 1) /\ IsRecord(bus'[i])
            BY <2>6 DEF OnBus
        <3>2. i \in OnBus
            BY <2>6, <3>1 DEF OnBus
        <3> QED BY <3>2, <2>4
    <2> QED BY <2>2, <2>3, <2>4, <2>7, <2>8 DEF Pending, OnePending, Asked
<1>12. CASE UNCHANGED vars
    BY <1>12, <1>a DEF vars, threadVars, tlsVars, sensorVars, outcome, Pending, OnePending,
          NonePending, Asked, OnBus
<1> QED BY <1>1, <1>2, <1>3, <1>4, <1>5, <1>6, <1>7, <1>8, <1>9, <1>10, <1>11, <1>12
        DEF Next, Driver

-----------------------------------------------------------------------------
\* A step keeps the sensor armed for a finger frame only.
LEMMA NextArmed ==
    ASSUME TypeOK, Shape, ArmedForFinger, [Next]_vars
    PROVE  ArmedForFinger'
<1> HIDE DEF None, Records, IsRecord, D0, Commands, Opening
<1>1. CASE StartSession \/ Begin \/ Probe
    BY <1>1 DEF StartSession, Begin, Probe, Shape, threadVars, sensorVars, outcome, ArmedForFinger
<1>2. CASE SessionCancelled
    BY <1>2 DEF SessionCancelled, Shape, sensorVars, outcome, ArmedForFinger
<1>3. CASE Reopen \/ HandshakeFails
    BY <1>3 DEF Reopen, HandshakeFails, Reset, ArmedForFinger
<1>4. CASE HandshakeUp
    BY <1>4 DEF HandshakeUp, ArmedForFinger
<1>5. CASE Send
    <2>1. /\ pc' = "drain" /\ UNCHANGED <<todo, arm, failed, linked>> /\ pc = "send"
          /\ armed' = IF linked /\ Head(todo) \in {"arm", "up"} THEN Head(todo) = "arm" ELSE armed
        BY <1>5 DEF Send, outcome
    <2>2. todo \in Seq(Commands) /\ todo # <<>>
        BY <2>1 DEF TypeOK
    <2>3. Head(todo) = "arm" => arm
        BY <2>2 DEF Shape, ImageLast
    <2>4. CASE linked /\ Head(todo) = "arm"
        BY <2>1, <2>3, <2>4 DEF ArmedForFinger
    <2>5. CASE linked /\ Head(todo) = "up"
        BY <2>1, <2>5 DEF ArmedForFinger
    <2>6. CASE ~linked
        BY <2>1, <2>6 DEF ArmedForFinger
    <2>7. CASE Head(todo) \notin {"arm", "up"}
        BY <2>1, <2>7 DEF ArmedForFinger
    <2> QED BY <2>4, <2>5, <2>6, <2>7
<1>6. CASE FdtRead \/ DrainD0 \/ FrameLost \/ Reconnect \/ Wait
    BY <1>6 DEF FdtRead, DrainD0, FrameLost, Reconnect, MustReconnect, Wait, Ready, sensorVars,
          outcome, ArmedForFinger
<1>7. CASE DrainRecord \/ DrainOver
    <2>1. /\ pc = "drain" /\ Advance /\ UNCHANGED <<failed, linked, armed>>
        BY <1>7 DEF DrainRecord, DrainOver, sensorVars, outcome
    <2>2. \/ pc' # "drain" /\ arm' = arm
          \/ Head(todo) = "up"
        BY <2>1 DEF Advance
    <2> QED BY <2>1, <2>2 DEF ArmedForFinger, Advance
<1>8. CASE GiveUp \/ WaitOver \/ TooShort
    BY <1>8 DEF GiveUp, WaitOver, TooShort, Fail, ArmedForFinger
<1>9. CASE WaitD0 \/ Undecipherable
    <2>1. NextRound /\ UNCHANGED <<linked, armed>> /\ pc \in {"choose", "take", "wait"}
        BY <1>9 DEF WaitD0, Undecipherable, Takes, Ready, MustReconnect, sensorVars
    <2>2. failed' \/ (pc' = "choose" /\ UNCHANGED <<arm, failed>>)
        BY <2>1 DEF NextRound, Fail, outcome
    <2> QED BY <2>1, <2>2 DEF ArmedForFinger
<1>10. CASE Decoded
    <2>1. PICK rec : Takes(rec) /\ Deliver(rec)
        BY <1>10 DEF Decoded
    <2>2. UNCHANGED <<linked, armed, failed>> /\ pc # "drain"
        BY <1>10, <2>1 DEF Decoded, sensorVars, Deliver, Takes, Ready, MustReconnect
    <2>3. ~arm \/ (pc' = "send" /\ arm' = arm)
        BY <2>1 DEF Deliver
    <2> QED BY <2>2, <2>3 DEF ArmedForFinger
<1>11. CASE SensorImage \/ SensorForgets \/ SensorAsksReconnect
    BY <1>11 DEF SensorImage, SensorForgets, SensorAsksReconnect, threadVars, outcome, ArmedForFinger
<1>12. CASE UNCHANGED vars
    BY <1>12 DEF vars, threadVars, sensorVars, outcome, ArmedForFinger
<1> QED BY <1>1, <1>2, <1>3, <1>4, <1>5, <1>6, <1>7, <1>8, <1>9, <1>10, <1>11, <1>12
        DEF Next, Driver

\* A step that returns an image returns the one this capture asked for.
LEMMA NextFresh ==
    ASSUME TypeOK, Shape, Pending, FreshWhileIntact, [Next]_vars
    PROVE  FreshWhileIntact'
<1> HIDE DEF None, Records, IsRecord, D0, Commands, Opening, OnBus
<1>1. CASE Begin \/ Reopen
    BY <1>1 DEF Begin, Reopen, FreshWhileIntact
<1>2. CASE HandshakeUp
    <2>1. pc = "handshake" /\ result' = result
        BY <1>2 DEF HandshakeUp
    <2>2. todo = <<>>
        BY <2>1 DEF TypeOK
    <2>3. result # "ok"
        BY <2>1, <2>2 DEF Shape
    <2> QED BY <2>1, <2>3 DEF FreshWhileIntact
<1>3. CASE HandshakeFails
    <2>1. result' = "fail" \/ UNCHANGED outcome
        BY <1>3 DEF HandshakeFails, Fail
    <2> QED BY <2>1 DEF outcome, FreshWhileIntact
<1>4. CASE GiveUp \/ WaitOver \/ TooShort
    BY <1>4 DEF GiveUp, WaitOver, TooShort, Fail, FreshWhileIntact
<1>5. CASE WaitD0 \/ Undecipherable
    <2>1. result' = "fail" \/ UNCHANGED outcome
        BY <1>5 DEF WaitD0, Undecipherable, NextRound, Fail
    <2> QED BY <2>1 DEF outcome, FreshWhileIntact
<1>6. CASE Decoded
    <2>1. PICK rec : Takes(rec) /\ Decrypts(rec) /\ Deliver(rec)
        BY <1>6 DEF Decoded
    <2>2. Asked /\ tls_up /\ owed' = owed
        BY <1>6, <2>1 DEF Decoded, Takes, Decrypts, Ready, MustReconnect, Asked, sensorVars
    <2>3. image' = rec /\ calls' = calls /\ failed' = failed
        BY <2>1 DEF Deliver
    <2> QED BY <2>1, <2>2, <2>3, TakenIsOwn DEF Pending, FreshWhileIntact
<1>7. CASE UNCHANGED outcome
    BY <1>7 DEF outcome, FreshWhileIntact
<1>8. CASE \/ StartSession \/ SessionCancelled \/ Probe \/ Send \/ FdtRead \/ DrainD0 \/ DrainRecord
           \/ DrainOver \/ FrameLost \/ Reconnect \/ Wait
    BY <1>7, <1>8 DEF StartSession, SessionCancelled, Probe, Send, FdtRead, DrainD0, DrainRecord,
          DrainOver, FrameLost, Reconnect, Wait
<1>9. CASE SensorImage \/ SensorForgets \/ SensorAsksReconnect \/ UNCHANGED vars
    BY <1>7, <1>9 DEF SensorImage, SensorForgets, SensorAsksReconnect, vars
<1> QED BY <1>1, <1>2, <1>3, <1>4, <1>5, <1>6, <1>8, <1>9 DEF Next, Driver

-----------------------------------------------------------------------------
\* Requests leave the sensor's queue from its head, one at a time or all at once.
LEMMA Forgets ==
    ASSUME TypeOK, owed' \in {owed, <<>>} \/ (owed # <<>> /\ owed' = Tail(owed))
    PROVE  \E k \in 0..1 : \A i \in DOMAIN owed' : /\ i \in Nat /\ i + k \in DOMAIN owed
                                                   /\ owed'[i] = owed[i + k]
<1>a. owed \in Seq(0..MaxCalls)
    BY DEF TypeOK
<1>1. CASE owed' = owed
    <2>1. \A i \in DOMAIN owed' : i \in Nat /\ i + 0 \in DOMAIN owed /\ owed'[i] = owed[i + 0]
        BY <1>1, <1>a
    <2> QED BY <2>1
<1>2. CASE owed' = <<>>
    BY <1>2
<1>3. CASE owed # <<>> /\ owed' = Tail(owed)
    <2>1. \A i \in DOMAIN owed' : i \in Nat /\ i + 1 \in DOMAIN owed /\ owed'[i] = owed[i + 1]
        BY <1>3, <1>a, Shorter
    <2> QED BY <2>1
<1> QED BY <1>1, <1>2, <1>3

\* The calls are numbers.
LEMMA CallNumbers ==
    ASSUME TypeOK
    PROVE  /\ calls \in Nat /\ image.call \in Nat /\ stash.call \in Nat
           /\ Latest \in Int /\ calls - 1 <= Latest /\ Latest <= calls
           /\ \A i \in OnBus : bus[i].call \in Nat
           /\ \A k \in DOMAIN owed : owed[k] \in Nat /\ k \in Nat
<1>1. /\ calls \in Nat /\ image \in Records /\ stash \in Records /\ bus \in Seq(Records)
      /\ owed \in Seq(0..MaxCalls)
    BY Bounds DEF TypeOK
<1>2. \A r \in Records : r.call \in Nat
    BY Bounds DEF Records
<1> HIDE DEF Records
<1>3. \A i \in OnBus : bus[i] \in Records
    BY <1>1 DEF OnBus
<1>4. \A k \in DOMAIN owed : owed[k] \in Nat /\ k \in Nat
    BY <1>1, Bounds
<1> QED BY <1>1, <1>2, <1>3, <1>4 DEF Latest

\* The record taken to be decrypted was asked for before all that stay pending, and
\* after the last image used.
LEMMA TakenIsNext ==
    ASSUME TypeOK, Shape, CallsInOrder, NEW rec, Takes(rec)
    PROVE  /\ rec.call \in (image.call + 1)..calls
           /\ owed' = owed => /\ \A i \in OnBus' : bus'[i].call \in (rec.call + 1)..Latest
                              /\ \A k \in DOMAIN owed' : owed'[k] \in (rec.call + 1)..Latest
           /\ stash' = None
<1> HIDE DEF None, Records, IsRecord
<1>1. CASE stash # None /\ rec = stash /\ stash' = None /\ bus' = bus
    <2>1. OnBus' = OnBus
        BY <1>1 DEF OnBus
    <2>2. rec.call \in (image.call + 1)..Latest
        BY <1>1 DEF CallsInOrder
    <2>3. \A i \in OnBus : bus[i].call \in (rec.call + 1)..Latest
        BY <1>1, CallNumbers DEF CallsInOrder
    <2>4. \A k \in DOMAIN owed : owed[k] \in (rec.call + 1)..Latest
        BY <1>1, CallNumbers DEF CallsInOrder
    <2> QED BY <1>1, <2>1, <2>2, <2>3, <2>4, CallNumbers
<1>2. CASE bus # <<>> /\ rec = Head(bus) /\ IsRecord(rec) /\ bus' = Tail(bus) /\ stash' = stash
           /\ pc = "wait"
    <2>1. bus \in Seq(Records)
        BY DEF TypeOK
    <2>2. 1 \in OnBus /\ bus[1] = rec
        BY <1>2, <2>1, Shorter DEF OnBus
    <2>3. \A i \in OnBus' : i + 1 \in OnBus /\ bus'[i] = bus[i + 1] /\ i >= 1 /\ i \in Int
        BY <1>2, <2>1, Shorter DEF OnBus
    <2>4. \A i \in OnBus' : 1 < i + 1
        BY <2>3
    <2>5. rec.call \in (image.call + 1)..Latest
        BY <2>2 DEF CallsInOrder
    <2>6. \A i \in OnBus' : bus'[i].call \in (rec.call + 1)..Latest
        BY <2>2, <2>3, <2>4, CallNumbers DEF CallsInOrder
    <2>7. \A k \in DOMAIN owed : owed[k] \in (rec.call + 1)..Latest
        BY <2>2, CallNumbers DEF CallsInOrder
    <2>8. stash' = None
        BY <1>2 DEF Shape
    <2>9. rec.call \in (image.call + 1)..calls
        BY <2>5, CallNumbers
    <2> QED BY <2>6, <2>7, <2>8, <2>9
<1> QED BY <1>1, <1>2 DEF Takes

\* The latest call that may be pending goes up, unless a capture begins or a new
\* session asks for the image anew.
LEMMA LatestGrows ==
    ASSUME TypeOK, calls' = calls,
           \/ pc' \notin {"send", "drain"}
           \/ result' # "none"
           \/ pc' = "drain" /\ Head(todo') = "image"
           \/ pc \in {"send", "drain"} /\ ~Asked /\ result = "none"
    PROVE  Latest' \in Int /\ Latest <= Latest'
<1>1. calls \in Nat
    BY Bounds DEF TypeOK
<1> QED BY <1>1 DEF Latest, Asked

\* While no image arrives and no request is sent, the order of the calls stays.
LEMMA CallsKept ==
    ASSUME TypeOK, CallsInOrder, Dropped, stash' \in {stash, None}, image' = image,
           owed' \in {owed, <<>>} \/ (owed # <<>> /\ owed' = Tail(owed)),
           Latest' \in Int, Latest <= Latest'
    PROVE  CallsInOrder'
<1> HIDE DEF None, Dropped, Records, Latest, OnBus
<1>1. PICK k \in 0..2 : \A i \in OnBus' : /\ i \in Nat /\ i + k \in OnBus
                                          /\ bus'[i] = bus[i + k]
    BY DEF Dropped
<1>2. PICK n \in 0..1 : \A i \in DOMAIN owed' : /\ i \in Nat /\ i + n \in DOMAIN owed
                                                /\ owed'[i] = owed[i + n]
    BY Forgets
<1>3. Latest \in Int /\ image.call \in Nat
    BY CallNumbers
<1>4. \A i \in OnBus' : bus'[i].call \in (image'.call + 1)..Latest'
    BY <1>1, <1>3 DEF CallsInOrder
<1>5. \A i \in DOMAIN owed' : owed'[i] \in (image'.call + 1)..Latest'
    BY <1>2, <1>3 DEF CallsInOrder
<1>6. \A i, j \in OnBus' : i < j => bus'[i].call < bus'[j].call
    <2> SUFFICES ASSUME NEW i \in OnBus', NEW j \in OnBus', i < j
                 PROVE  bus'[i].call < bus'[j].call
        OBVIOUS
    <2>1. i + k < j + k /\ i + k \in OnBus /\ j + k \in OnBus
        BY <1>1
    <2> QED BY <1>1, <2>1 DEF CallsInOrder
<1>7. \A i, j \in DOMAIN owed' : i < j => owed'[i] < owed'[j]
    <2> SUFFICES ASSUME NEW i \in DOMAIN owed', NEW j \in DOMAIN owed', i < j
                 PROVE  owed'[i] < owed'[j]
        OBVIOUS
    <2>1. i + n < j + n /\ i + n \in DOMAIN owed /\ j + n \in DOMAIN owed
        BY <1>2
    <2> QED BY <1>2, <2>1 DEF CallsInOrder
<1>8. \A i \in OnBus', j \in DOMAIN owed' : bus'[i].call < owed'[j]
    BY <1>1, <1>2 DEF CallsInOrder
<1>9. stash' # None => /\ stash'.call \in (image'.call + 1)..Latest'
                       /\ \A i \in OnBus' : stash'.call < bus'[i].call
                       /\ \A i \in DOMAIN owed' : stash'.call < owed'[i]
    BY <1>1, <1>2, <1>3 DEF CallsInOrder
<1> QED BY <1>4, <1>5, <1>6, <1>7, <1>8, <1>9 DEF CallsInOrder

\* A step keeps the calls in order.
LEMMA NextCalls ==
    ASSUME TypeOK, Shape, Answering, CallsInOrder, [Next]_vars
    PROVE  CallsInOrder'
<1> HIDE DEF None, Records, IsRecord, D0, Commands, Opening
<1>b. pc \in {"send", "drain"} <=> todo # <<>>
    BY DEF TypeOK
<1>c. calls \in Nat
    BY Bounds DEF TypeOK
<1> HIDE DEF Dropped, OnBus, Latest
<1>1. CASE \/ StartSession \/ SessionCancelled \/ Reopen \/ HandshakeFails \/ GiveUp \/ Reconnect
           \/ Wait \/ WaitOver \/ WaitD0 \/ Undecipherable \/ TooShort
    <2>1. stash' \in {stash, None} /\ owed' \in {owed, <<>>} /\ UNCHANGED <<calls, image>>
        <3>1. CASE StartSession \/ SessionCancelled \/ Reopen
            BY <3>1 DEF StartSession, SessionCancelled, Reopen, Reset, sensorVars, outcome
        <3>2. CASE HandshakeFails
            BY <3>2 DEF HandshakeFails, Reset, outcome, Fail
        <3>3. CASE GiveUp \/ Reconnect \/ Wait \/ WaitOver
            BY <3>3 DEF GiveUp, Reconnect, Wait, WaitOver, Fail, sensorVars, outcome
        <3>4. CASE WaitD0 \/ Undecipherable \/ TooShort
            BY <3>4 DEF WaitD0, Undecipherable, TooShort, Takes, NextRound, Fail, sensorVars, outcome
        <3> QED BY <1>1, <3>1, <3>2, <3>3, <3>4
    <2>2. pc' \notin {"send", "drain"}
        <3>1. CASE StartSession \/ SessionCancelled \/ Reopen
            BY <3>1 DEF StartSession, SessionCancelled, Reopen, Return
        <3>2. CASE HandshakeFails
            BY <3>2 DEF HandshakeFails, Return, Fail
        <3>3. CASE GiveUp \/ Reconnect \/ Wait \/ WaitOver
            BY <3>3 DEF GiveUp, Reconnect, Wait, WaitOver, Fail, Return
        <3>4. CASE WaitD0 \/ Undecipherable \/ TooShort
            BY <3>4 DEF WaitD0, Undecipherable, TooShort, NextRound, Fail, Return
        <3> QED BY <1>1, <3>1, <3>2, <3>3, <3>4
    <2>3. Dropped
        BY <1>1, Drops DEF StartSession, SessionCancelled, Reopen, HandshakeFails, Reset, GiveUp,
              Reconnect, Wait, WaitOver, WaitD0, Undecipherable, TooShort, Takes
    <2> QED BY <2>1, <2>2, <2>3, LatestGrows, CallsKept
<1>2. CASE Begin
    <2>1. /\ calls' = calls + 1 /\ pc = "idle" /\ UNCHANGED <<stash, owed, image, bus>>
          /\ result' = "none"
        BY <1>2 DEF Begin, sensorVars
    <2>2. Latest' \in Int /\ Latest <= Latest'
        BY <2>1, <1>c DEF Latest
    <2>3. Dropped
        BY <2>1, Drops
    <2> QED BY <2>1, <2>2, <2>3, CallsKept
<1>3. CASE HandshakeUp
    <2>1. /\ bus' = <<>> /\ owed' = <<>> /\ stash' = None
        BY <1>3 DEF HandshakeUp
    <2> QED BY <2>1 DEF CallsInOrder, OnBus
<1>4. CASE Send
    <2>1. /\ pc = "send" /\ pc' = "drain"
          /\ UNCHANGED <<todo, stash, bus, calls, image, result>>
        BY <1>4 DEF Send, outcome
    <2>2. owed' = IF linked /\ Head(todo) = "image" THEN Append(owed, calls) ELSE owed
        BY <1>4 DEF Send
    <2>3. ~Asked /\ OnBus' = OnBus
        BY <2>1 DEF Asked, OnBus
    <2>4. Latest' \in Int /\ Latest <= Latest'
        BY <2>1, <2>3, <1>c DEF Latest
    <2>5. CASE owed' = owed
        <3>1. Dropped
            BY <2>1, Drops
        <3> QED BY <2>1, <2>4, <2>5, <3>1, CallsKept
    <2>6. CASE Head(todo) = "image" /\ owed' = Append(owed, calls)
        <3>1. owed \in Seq(0..MaxCalls) /\ todo \in Seq(Commands) /\ todo # <<>>
            BY <2>1, <1>b DEF TypeOK
        <3>2. result = "none" /\ image.call < calls
            <4>1. 1 \in DOMAIN todo /\ todo[1] = "image"
                BY <2>6, <3>1
            <4>2. result # "ok"
                <5>1. todo # <<"up">>
                    BY <4>1
                <5> QED BY <5>1, <2>1 DEF Shape
            <4> QED BY <4>2, <2>1 DEF Answering, Busy
        <3>3. Latest = calls - 1 /\ Latest' = calls
            BY <2>1, <2>3, <2>6, <3>2 DEF Latest, Asked
        <3> DEFINE m == Len(owed) + 1
        <3>4. /\ DOMAIN owed' = 1..m /\ m \in Nat /\ owed'[m] = calls
              /\ \A k \in 1..(m - 1) : owed'[k] = owed[k] /\ k \in DOMAIN owed
            BY <2>6, <3>1
        <3> HIDE DEF m
        <3>5. \A k \in DOMAIN owed' : k = m \/ (k \in DOMAIN owed /\ owed'[k] = owed[k] /\ k < m)
            BY <3>4
        <3>6. image.call \in Nat /\ \A i \in OnBus : bus[i].call \in Nat
            BY CallNumbers
        <3>7. \A k \in DOMAIN owed' : owed'[k] \in (image'.call + 1)..Latest'
            BY <2>1, <3>2, <3>3, <3>4, <3>5, <3>6, <1>c DEF CallsInOrder
        <3>8. \A k, l \in DOMAIN owed' : k < l => owed'[k] < owed'[l]
            <4> SUFFICES ASSUME NEW k \in DOMAIN owed', NEW l \in DOMAIN owed', k < l
                         PROVE  owed'[k] < owed'[l]
                OBVIOUS
            <4>1. k # m
                BY <3>4, <3>5
            <4>2. k \in DOMAIN owed /\ owed'[k] = owed[k] /\ owed[k] < calls
                BY <4>1, <3>5, <3>3, <3>6, <1>c DEF CallsInOrder
            <4> QED BY <4>2, <3>4, <3>5 DEF CallsInOrder
        <3>9. \A i \in OnBus' : /\ bus'[i].call \in (image'.call + 1)..Latest'
                                /\ \A k \in DOMAIN owed' : bus'[i].call < owed'[k]
            BY <2>1, <2>3, <3>3, <3>4, <3>5, <3>6, <1>c DEF CallsInOrder
        <3>10. stash' # None =>
                  /\ stash'.call \in (image'.call + 1)..Latest'
                  /\ \A i \in OnBus' : stash'.call < bus'[i].call
                  /\ \A k \in DOMAIN owed' : stash'.call < owed'[k]
            BY <2>1, <2>3, <3>3, <3>4, <3>5, <3>6, <1>c DEF CallsInOrder
        <3>11. \A i, j \in OnBus' : i < j => bus'[i].call < bus'[j].call
            BY <2>1, <2>3 DEF CallsInOrder
        <3> QED BY <3>7, <3>8, <3>9, <3>10, <3>11 DEF CallsInOrder
    <2> QED BY <2>2, <2>5, <2>6
<1>5. CASE FdtRead \/ DrainD0 \/ FrameLost \/ Probe \/ SensorForgets \/ SensorAsksReconnect
           \/ UNCHANGED vars
    <2>1. /\ UNCHANGED <<stash, calls, image, result, pc>>
          /\ owed' \in {owed, <<>>} \/ (owed # <<>> /\ owed' = Tail(owed))
          /\ pc = "drain" => todo' = todo
        BY <1>5 DEF FdtRead, DrainD0, FrameLost, Probe, SensorForgets, SensorAsksReconnect, vars,
              sensorVars, threadVars, outcome
    <2>2. Latest' = Latest
        BY <2>1 DEF Latest, Asked
    <2>3. Latest \in Int
        BY CallNumbers
    <2>4. Dropped
        BY <1>5, Drops DEF FdtRead, DrainD0, FrameLost, Probe, SensorForgets, SensorAsksReconnect,
              vars
    <2> QED BY <2>1, <2>2, <2>3, <2>4, CallsKept
<1>6. CASE DrainRecord \/ DrainOver
    <2>1. /\ pc = "drain" /\ Advance /\ UNCHANGED <<calls, owed, image, result>>
        BY <1>6 DEF DrainRecord, DrainOver, sensorVars, outcome
    <2>2. todo \in Seq(Commands) /\ todo # <<>>
        BY <2>1, <1>b DEF TypeOK
    <2>3. Head(todo) = "image" => Len(todo) <= 1
        <3>1. 1 \in DOMAIN todo /\ todo[1] = Head(todo)
            BY <2>2
        <3> QED BY <3>1 DEF Shape, ImageLast
    <2>4. Latest' \in Int /\ Latest <= Latest'
        <3>1. CASE result # "none"
            BY <2>1, <3>1, LatestGrows
        <3>2. CASE result = "none" /\ Asked
            <4>1. pc' \notin {"send", "drain"}
                BY <2>1, <2>2, <2>3, <3>2 DEF Advance, Asked, Return
            <4> QED BY <2>1, <4>1, LatestGrows
        <3>3. CASE result = "none" /\ ~Asked
            BY <2>1, <3>3, LatestGrows
        <3> QED BY <3>1, <3>2, <3>3
    <2>5. CASE DrainOver
        <3>1. Dropped /\ stash' = stash
            BY <2>5, Drops DEF DrainOver
        <3> QED BY <2>1, <2>4, <3>1, CallsKept
    <2>6. CASE DrainRecord
        <3>1. /\ bus # <<>> /\ stash' = bus[1] /\ 1 \in OnBus /\ bus \in Seq(Records)
              /\ bus' = Tail(bus)
            BY <2>6 DEF DrainRecord, TypeOK, OnBus
        <3>2. \A i \in OnBus' : i + 1 \in OnBus /\ bus'[i] = bus[i + 1] /\ i >= 1 /\ i \in Int
            BY <3>1, Shorter DEF OnBus
        <3>3. /\ \A i \in OnBus' : 1 < i + 1
              /\ \A i, j \in OnBus' : i < j => i + 1 < j + 1
            BY <3>2
        <3>4. Latest \in Int /\ image.call \in Nat
            BY CallNumbers
        <3>5. \A i \in OnBus : bus[i].call \in (image'.call + 1)..Latest'
            BY <2>1, <2>4, <3>4 DEF CallsInOrder
        <3>6. \A k \in DOMAIN owed' : owed'[k] \in (image'.call + 1)..Latest'
            BY <2>1, <2>4, <3>4 DEF CallsInOrder
        <3>7. \A i \in OnBus' : bus'[i].call \in (image'.call + 1)..Latest'
            BY <3>2, <3>5
        <3>8. \A i, j \in OnBus' : i < j => bus'[i].call < bus'[j].call
            BY <3>2, <3>3 DEF CallsInOrder
        <3>9. /\ stash'.call \in (image'.call + 1)..Latest'
              /\ \A i \in OnBus' : stash'.call < bus'[i].call
              /\ \A k \in DOMAIN owed' : stash'.call < owed'[k]
            BY <2>1, <3>1, <3>2, <3>3, <3>5 DEF CallsInOrder
        <3>10. /\ \A i \in OnBus', k \in DOMAIN owed' : bus'[i].call < owed'[k]
               /\ \A k, l \in DOMAIN owed' : k < l => owed'[k] < owed'[l]
            BY <2>1, <3>2 DEF CallsInOrder
        <3> QED BY <3>6, <3>7, <3>8, <3>9, <3>10 DEF CallsInOrder
    <2> QED BY <1>6, <2>5, <2>6
<1>7. CASE Decoded
    <2>1. PICK rec : Takes(rec) /\ Deliver(rec)
        BY <1>7 DEF Decoded
    <2>2. image' = rec /\ result' = "ok" /\ calls' = calls /\ owed' = owed
        BY <1>7, <2>1 DEF Decoded, Deliver, sensorVars
    <2>3. Latest' \in Int /\ Latest <= Latest'
        BY <2>2, LatestGrows
    <2>4. /\ \A i \in OnBus' : bus'[i].call \in (rec.call + 1)..Latest
          /\ \A k \in DOMAIN owed' : owed'[k] \in (rec.call + 1)..Latest
          /\ stash' = None
        BY <2>1, <2>2, TakenIsNext
    <2>5. Dropped /\ Latest \in Int
        BY <2>1, Drops, CallNumbers DEF Takes
    <2>6. PICK k \in 0..2 : \A i \in OnBus' : /\ i \in Nat /\ i + k \in OnBus
                                              /\ bus'[i] = bus[i + k]
        BY <2>5 DEF Dropped
    <2>7. \A i, j \in OnBus' : i < j => bus'[i].call < bus'[j].call
        <3> SUFFICES ASSUME NEW i \in OnBus', NEW j \in OnBus', i < j
                     PROVE  bus'[i].call < bus'[j].call
            OBVIOUS
        <3>1. i + k < j + k /\ i + k \in OnBus /\ j + k \in OnBus
            BY <2>6
        <3> QED BY <2>6, <3>1 DEF CallsInOrder
    <2>8. /\ \A i \in OnBus', l \in DOMAIN owed' : bus'[i].call < owed'[l]
          /\ \A l, n \in DOMAIN owed' : l < n => owed'[l] < owed'[n]
        BY <2>2, <2>6 DEF CallsInOrder
    <2>9. rec.call \in Nat
        BY <2>1, TakenIsNext, CallNumbers
    <2>10. /\ \A i \in OnBus' : bus'[i].call \in (image'.call + 1)..Latest'
           /\ \A l \in DOMAIN owed' : owed'[l] \in (image'.call + 1)..Latest'
        BY <2>2, <2>3, <2>4, <2>5, <2>9
    <2> QED BY <2>4, <2>7, <2>8, <2>10 DEF CallsInOrder
<1>8. CASE SensorImage
    <2> DEFINE n == Len(bus) + 1
    <2>1. PICK kind \in {"full", "short", "corrupt"} :
              bus' = Append(bus, Frame(kind, Head(owed), sess, wseq))
        BY <1>8 DEF SensorImage
    <2>2. /\ owed' = Tail(owed) /\ owed # <<>>
          /\ UNCHANGED <<calls, stash, image, result, pc, todo>>
        BY <1>8 DEF SensorImage, threadVars, outcome
    <2>3. bus \in Seq(Records) /\ owed \in Seq(0..MaxCalls)
        BY DEF TypeOK
    <2>4. /\ DOMAIN bus' = 1..n /\ n \in Nat /\ bus'[n] = Frame(kind, Head(owed), sess, wseq)
          /\ \A i \in 1..(n - 1) : bus'[i] = bus[i]
        BY <2>1, <2>3
    <2>5. bus'[n].call = owed[1] /\ 1 \in DOMAIN owed
        BY <2>2, <2>3, <2>4 DEF Frame
    <2> HIDE DEF n
    <2>6. \A i \in OnBus' : i = n \/ (i \in OnBus /\ bus'[i] = bus[i] /\ i < n)
        BY <2>3, <2>4 DEF OnBus, n
    <2>7. \A i \in OnBus : i \in Nat
        BY Frames
    <2>8. \A k \in DOMAIN owed' : /\ k + 1 \in DOMAIN owed /\ owed'[k] = owed[k + 1]
                                  /\ 1 < k + 1 /\ k \in Nat
        BY <2>2, <2>3, Shorter
    <2>9. Latest' = Latest
        BY <2>2 DEF Latest, Asked
    <2>10. \A i \in OnBus' : bus'[i].call \in (image.call + 1)..Latest
        BY <2>5, <2>6 DEF CallsInOrder
    <2>11. \A k \in DOMAIN owed' : owed'[k] \in (image.call + 1)..Latest
        BY <2>8 DEF CallsInOrder
    <2>12. \A i, j \in OnBus' : i < j => bus'[i].call < bus'[j].call
        <3> SUFFICES ASSUME NEW i \in OnBus', NEW j \in OnBus', i < j
                     PROVE  bus'[i].call < bus'[j].call
            OBVIOUS
        <3>1. i \in OnBus /\ bus'[i] = bus[i]
            <4>1. i # n
                BY <2>4, <2>6, <2>7
            <4> QED BY <4>1, <2>6
        <3> QED BY <3>1, <2>5, <2>6 DEF CallsInOrder
    <2>13. \A k, l \in DOMAIN owed' : k < l => owed'[k] < owed'[l]
        <3> SUFFICES ASSUME NEW k \in DOMAIN owed', NEW l \in DOMAIN owed', k < l
                     PROVE  owed'[k] < owed'[l]
            OBVIOUS
        <3>1. k + 1 < l + 1
            BY <2>8
        <3> QED BY <3>1, <2>8 DEF CallsInOrder
    <2>14. \A i \in OnBus', k \in DOMAIN owed' : bus'[i].call < owed'[k]
        BY <2>5, <2>6, <2>8 DEF CallsInOrder
    <2>15. stash # None => /\ stash.call \in (image.call + 1)..Latest
                           /\ \A i \in OnBus' : stash.call < bus'[i].call
                           /\ \A k \in DOMAIN owed' : stash.call < owed'[k]
        BY <2>5, <2>6, <2>8 DEF CallsInOrder
    <2> QED BY <2>2, <2>9, <2>10, <2>11, <2>12, <2>13, <2>14, <2>15 DEF CallsInOrder
<1> QED BY <1>1, <1>2, <1>3, <1>4, <1>5, <1>6, <1>7, <1>8 DEF Next, Driver

-----------------------------------------------------------------------------
\* A step keeps what is known of the capture that runs: it has no image yet, or it
\* leaves the armed state with one.
LEMMA NextAnswering ==
    ASSUME TypeOK, Shape, Answering, CallsInOrder, [Next]_vars
    PROVE  Answering'
<1> HIDE DEF None, Records, IsRecord, D0, Commands, Opening, OnBus
<1>a. calls \in Nat /\ (pc \in {"send", "drain"} <=> todo # <<>>)
    BY Bounds DEF TypeOK
<1>1. CASE StartSession
    <2>1. result # "ok"
        BY <1>1 DEF StartSession, Shape
    <2> QED BY <1>1, <2>1 DEF StartSession, Answering, Busy, Shape, outcome
<1>2. CASE SessionCancelled
    BY <1>2 DEF SessionCancelled, Return, Answering, Busy, outcome
<1>3. CASE Reopen
    <2>1. pc' = "idle" /\ todo' = <<>> /\ UNCHANGED <<calls, image, rearmed>> /\ pc = "idle"
        BY <1>3, <1>a DEF Reopen, threadVars
    <2> QED BY <2>1 DEF Answering, Busy
<1>4. CASE Begin
    <2>1. /\ calls' = calls + 1 /\ result' = "none" /\ image' = image
          /\ todo' = Opening /\ pc' = "send"
        BY <1>4 DEF Begin
    <2>2. image'.call < calls' /\ image'.call <= calls'
        BY <2>1, <1>a, CallNumbers DEF Answering
    <2> QED BY <2>1, <2>2, OpeningIsSequence DEF Answering, Busy
<1>5. CASE HandshakeUp
    <2>1. UNCHANGED <<result, image, calls, rearmed>> /\ pc = "handshake"
          /\ \/ rearmed /\ pc' = "send" /\ todo' = Opening
             \/ ~rearmed /\ pc' = "idle" /\ todo' = todo
        BY <1>5 DEF HandshakeUp
    <2> QED BY <2>1, OpeningIsSequence DEF Answering, Busy
<1>6. CASE HandshakeFails
    <2>1. \/ UNCHANGED <<pc, todo, rearmed, outcome>>
          \/ Return /\ UNCHANGED outcome
          \/ Return /\ UNCHANGED <<calls, image>>
        BY <1>6 DEF HandshakeFails, Fail
    <2> QED BY <2>1 DEF Return, Answering, Busy, outcome
<1>7. CASE Send \/ DrainD0 \/ FrameLost
    <2>1. /\ pc \in {"send", "drain", "wait"} /\ pc' # "idle"
          /\ UNCHANGED <<todo, outcome>>
        BY <1>7 DEF Send, DrainD0, FrameLost
    <2> QED BY <2>1 DEF Answering, Busy, outcome
<1>8. CASE FdtRead
    <2>1. PICK have \in BOOLEAN : todo' = Rest(have)
        BY <1>8 DEF FdtRead
    <2>2. UNCHANGED <<pc, outcome>> /\ pc = "send" /\ Head(todo) = "fdt"
        BY <1>8 DEF FdtRead
    <2>3. \A i \in DOMAIN Rest(have) : Rest(have)[i] # "up"
        <3>1. \/ Rest(have) = <<"nav", "image">>
              \/ Rest(have) = <<"nav", "rearm", "arm", "image">>
              \/ Rest(have) = <<"nav", "rearm", "image">>
            BY DEF Rest
        <3> QED BY <3>1
    <2> QED BY <2>1, <2>2, <2>3 DEF Answering, Busy, outcome
<1>9. CASE DrainRecord \/ DrainOver
    <2>1. pc = "drain" /\ Advance /\ UNCHANGED outcome /\ todo # <<>>
        BY <1>9, <1>a DEF DrainRecord, DrainOver
    <2>2. todo \in Seq(Commands)
        BY DEF TypeOK
    <2>3. \/ todo' = Tail(todo) /\ pc' = "send"
          \/ todo' = <<>> /\ pc' = "idle"
          \/ todo' = <<>> /\ pc' \in {"take", "choose"}
        BY <2>1 DEF Advance, Return
    <2>4. \A i \in DOMAIN Tail(todo) : i + 1 \in DOMAIN todo /\ Tail(todo)[i] = todo[i + 1]
        BY <2>1, <2>2, Shorter
    <2>5. \A i \in DOMAIN todo' : todo'[i] = "up" => result = "ok"
        <3>1. CASE todo' = Tail(todo)
            BY <3>1, <2>4 DEF Answering
        <3>2. CASE todo' = <<>>
            BY <3>2
        <3> QED BY <2>3, <3>1, <3>2
    <2>6. pc' = "idle" => ~rearmed'
        BY <2>1 DEF Advance, Return
    <2> QED BY <2>1, <2>5, <2>6 DEF Answering, Busy, outcome
<1>10. CASE GiveUp \/ WaitOver \/ TooShort
    <2>1. Fail
        BY <1>10 DEF GiveUp, WaitOver, TooShort
    <2> QED BY <2>1 DEF Fail, Return, Answering, Busy
<1>11. CASE WaitD0 \/ Undecipherable
    <2>1. NextRound /\ pc \in {"choose", "take", "wait"}
        BY <1>11 DEF WaitD0, Undecipherable, Takes, Ready, MustReconnect
    <2>2. \/ pc' = "choose" /\ UNCHANGED <<todo, outcome>>
          \/ Fail
        BY <2>1 DEF NextRound
    <2>3. CASE pc' = "choose" /\ UNCHANGED <<todo, outcome>>
        BY <2>1, <2>3 DEF Answering, Busy, outcome
    <2>4. CASE Fail
        BY <2>4 DEF Fail, Return, Answering, Busy
    <2> QED BY <2>2, <2>3, <2>4
<1>12. CASE Reconnect \/ Wait
    <2>1. /\ pc \in {"choose", "take"} /\ pc' # "idle" /\ UNCHANGED <<todo, outcome>>
        BY <1>12 DEF Reconnect, Wait, Ready, MustReconnect
    <2> QED BY <2>1 DEF Answering, Busy, outcome
<1>13. CASE Decoded
    <2>1. PICK rec : Takes(rec) /\ Deliver(rec)
        BY <1>13 DEF Decoded
    <2>2. image' = rec /\ result' = "ok" /\ calls' = calls
        BY <2>1 DEF Deliver
    <2>3. rec.call <= calls /\ (pc' = "idle" => ~rearmed')
        BY <2>1, <1>a, TakenIsNext DEF Deliver, Return
    <2> QED BY <2>2, <2>3 DEF Answering
<1>14. CASE Probe \/ SensorImage \/ SensorForgets \/ SensorAsksReconnect \/ UNCHANGED vars
    <2>1. UNCHANGED <<pc, todo, rearmed, outcome>>
        BY <1>14 DEF Probe, SensorImage, SensorForgets, SensorAsksReconnect, vars, threadVars
    <2> QED BY <2>1 DEF Answering, Busy, outcome
<1> QED BY <1>1, <1>2, <1>3, <1>4, <1>5, <1>6, <1>7, <1>8, <1>9, <1>10, <1>11, <1>12, <1>13,
           <1>14 DEF Next, Driver

-----------------------------------------------------------------------------
\* The inductive invariant holds of the initial states.
LEMMA InitIInv == Init => IInv
<1> SUFFICES ASSUME Init PROVE IInv
    OBVIOUS
<1>1. TypeOK
    BY InitTypeOK
<1> HIDE DEF None, Records, IsRecord
<1>2. Shape
    BY DEF Init, Shape, ImageLast
<1>3. ~tls_up /\ ~linked /\ result = "none"
    BY DEF Init
<1>4. Answering /\ CallsInOrder
    <2>1. image.call = 0 /\ calls = 0 /\ pc = "idle" /\ todo = <<>> /\ bus = <<>> /\ owed = <<>>
          /\ stash = None /\ ~rearmed
        BY DEF Init, None, Frame
    <2> QED BY <2>1 DEF Answering, Busy, CallsInOrder, OnBus
<1> QED BY <1>1, <1>2, <1>3, <1>4 DEF IInv, InOrder, Pending, ArmedForFinger, FreshWhileIntact

\* It is an invariant of the capture sequence, whatever the bounds of its loops, the
\* window of sequence numbers, the number of sessions and the room on the bus.
THEOREM Invariance == Spec => []IInv
<1>1. Init => IInv
    BY InitIInv
<1>2. IInv /\ [Next]_vars => IInv'
    BY NextTypeOK, NextShape, NextInOrder, NextPending, NextArmed, NextFresh, NextAnswering, NextCalls
       DEF IInv
<1> QED BY <1>1, <1>2, PTL DEF Spec

\* Every variable has its type; in particular a round of gx_capture_frame never
\* exceeds the attempts, and gx_tls_session runs only without a session.
THEOREM TypeCorrect == Spec => []TypeOK
<1>1. IInv => TypeOK
    BY DEF IInv
<1> QED BY <1>1, Invariance, PTL

\* The sequence number expected never overtakes a record that gx_tls_decrypt_record
\* has yet to see.
THEOREM SequenceInStep == Spec => []InStep
<1>1. IInv => InStep
    <2> SUFFICES ASSUME IInv, tls_up PROVE InStep
        BY DEF InStep
    <2>1. TypeOK /\ InOrder
        BY DEF IInv
    <2>2. ~IsRecord(None)
        BY FramesAreRecords
    <2> HIDE DEF None, Records, IsRecord
    <2>3. wseq >= read_seq /\ read_seq \in Nat /\ wseq \in Nat
        BY <2>1 DEF InOrder, TypeOK
    <2>4. IsRecord(stash) => stash.sess = sess /\ stash.seq >= read_seq
        BY <2>1, <2>2, <2>3 DEF InOrder
    <2>5. \A i \in DOMAIN bus : IsRecord(bus[i]) => bus[i].sess = sess /\ bus[i].seq >= read_seq
        BY <2>1, <2>3 DEF InOrder, OnBus
    <2> QED BY <2>3, <2>4, <2>5 DEF InStep
<1> QED BY <1>1, Invariance, PTL

\* While no capture has failed since the handshake, gx_capture_frame returns the
\* image it asked for.
THEOREM ImageFresh == Spec => []FreshWhileIntact
<1>1. IInv => FreshWhileIntact
    BY DEF IInv
<1> QED BY <1>1, Invariance, PTL

\* Each step of the driver and of the sensor is a step of the contract or leaves it
\* alone.
LEMMA ContractStep == IInv /\ [Next]_vars => [Contract!Next]_(Contract!vars)
<1> SUFFICES ASSUME IInv, [Next]_vars PROVE [Contract!Next]_(Contract!vars)
    OBVIOUS
<1>a. TypeOK /\ Shape /\ Pending /\ Answering /\ CallsInOrder
    BY DEF IInv
<1>b. pc \in {"send", "drain"} <=> todo # <<>>
    BY <1>a DEF TypeOK
<1>c. calls \in Nat
    BY <1>a, CallNumbers
<1>d. Busy /\ todo = <<>> => result = "none"
    BY <1>a DEF Answering, Shape, Busy
<1>g. Busy \in BOOLEAN /\ Busy' \in BOOLEAN
    BY DEF Busy
<1> HIDE DEF None, Records, IsRecord, D0, Commands, Opening, IInv
<1> DEFINE Seen == <<calls, image, result, failed>>
<1>e. ASSUME Busy' = Busy, UNCHANGED Seen PROVE UNCHANGED Contract!vars
    BY <1>e DEF Contract!vars
<1>f. ASSUME Busy, todo = <<>>, Fail PROVE Contract!Fail
    <2>1. ~Busy' /\ result' = "fail" /\ failed' = TRUE /\ UNCHANGED <<calls, image>>
        BY <1>f DEF Fail, Return, Busy
    <2> QED BY <1>d, <1>f, <2>1 DEF Contract!Fail
<1>1. CASE StartSession \/ SessionCancelled
    <2>1. ~Busy /\ ~Busy' /\ UNCHANGED Seen
        BY <1>1, <1>a DEF StartSession, SessionCancelled, Return, Busy, outcome, Answering
    <2>2. Busy' = Busy
        BY <2>1, <1>g
    <2> QED BY <2>1, <2>2, <1>e
<1>2. CASE Reopen
    <2>1. ~Busy /\ ~Busy' /\ result' = "none" /\ UNCHANGED <<calls, image, failed>>
        BY <1>2 DEF Reopen, Busy
    <2>2. Contract!Close
        BY <2>1, <1>g DEF Contract!Close
    <2> QED BY <2>2 DEF Contract!Next
<1>3. CASE Begin
    <2>1. /\ ~Busy /\ Busy' /\ calls' = calls + 1 /\ result' = "none"
          /\ UNCHANGED <<image, failed>>
        BY <1>3 DEF Begin, Busy
    <2>2. Contract!Begin
        BY <2>1 DEF Contract!Begin
    <2> QED BY <2>2 DEF Contract!Next
<1>4. CASE HandshakeUp
    <2>1. /\ failed' = FALSE /\ UNCHANGED <<calls, image, result>> /\ (Busy <=> rearmed)
          /\ (Busy' <=> rearmed) /\ todo = <<>>
        BY <1>4, <1>b DEF HandshakeUp, Busy
    <2>2. Contract!NewSession
        BY <2>1, <1>d, <1>g DEF Contract!NewSession
    <2> QED BY <2>2 DEF Contract!Next
<1>5. CASE HandshakeFails
    <2>1. (Busy <=> rearmed) /\ todo = <<>> /\ pc = "handshake"
        BY <1>5, <1>b DEF HandshakeFails, Busy
    <2>2. \/ UNCHANGED <<pc, rearmed, outcome>>
          \/ rearmed /\ Fail
          \/ ~rearmed /\ Return /\ UNCHANGED outcome
        BY <1>5 DEF HandshakeFails
    <2>3. CASE UNCHANGED <<pc, rearmed, outcome>>
        BY <2>3, <1>e DEF Busy, outcome
    <2>4. CASE rearmed /\ Fail
        BY <2>1, <2>4, <1>f DEF Contract!Next
    <2>5. CASE ~rearmed /\ Return /\ UNCHANGED outcome
        BY <2>1, <2>5, <1>e DEF Return, Busy, outcome
    <2> QED BY <2>2, <2>3, <2>4, <2>5
<1>6. CASE Send \/ FdtRead \/ DrainD0 \/ FrameLost \/ Reconnect \/ Wait
    <2>1. Busy /\ Busy' /\ UNCHANGED Seen
        BY <1>6 DEF Send, FdtRead, DrainD0, FrameLost, Reconnect, Wait, Ready, MustReconnect, Busy,
              outcome
    <2> QED BY <2>1, <1>e
<1>7. CASE DrainRecord \/ DrainOver
    <2>1. pc = "drain" /\ Advance /\ UNCHANGED outcome /\ todo # <<>> /\ todo \in Seq(Commands)
        BY <1>7, <1>a, <1>b DEF DrainRecord, DrainOver, TypeOK
    <2>2. CASE Head(todo) = "up" /\ pc' = "idle"
        <3>1. 1 \in DOMAIN todo /\ todo[1] = "up"
            BY <2>1, <2>2
        <3>2. result = "ok"
            BY <3>1, <1>a DEF Answering
        <3>3. Contract!Return
            BY <2>1, <2>2, <3>2 DEF Contract!Return, Busy, outcome
        <3> QED BY <3>3 DEF Contract!Next
    <2>3. CASE pc' \in {"send", "take", "choose"}
        BY <2>1, <2>3, <1>e DEF Busy, outcome
    <2> QED BY <2>1, <2>2, <2>3 DEF Advance, Return
<1>8. CASE GiveUp \/ WaitOver \/ TooShort
    <2>1. Busy /\ pc \notin {"send", "drain"} /\ Fail
        BY <1>8 DEF GiveUp, WaitOver, TooShort, Takes, Ready, MustReconnect, Busy
    <2> QED BY <2>1, <1>b, <1>f DEF Contract!Next
<1>9. CASE WaitD0 \/ Undecipherable
    <2>1. Busy /\ pc \notin {"send", "drain"} /\ NextRound
        BY <1>9 DEF WaitD0, Undecipherable, Takes, Ready, MustReconnect, Busy
    <2>2. \/ pc' = "choose" /\ UNCHANGED outcome
          \/ Fail
        BY <2>1 DEF NextRound
    <2>3. CASE pc' = "choose" /\ UNCHANGED outcome
        BY <2>1, <2>3, <1>e DEF Busy, outcome
    <2>4. CASE Fail
        BY <2>1, <2>4, <1>b, <1>f DEF Contract!Next
    <2> QED BY <2>2, <2>3, <2>4
<1>10. CASE Decoded
    <2>1. PICK rec : Takes(rec) /\ Decrypts(rec) /\ Deliver(rec)
        BY <1>10 DEF Decoded
    <2>2. Asked /\ tls_up /\ owed' = owed /\ Busy /\ todo = <<>>
        BY <1>10, <2>1, <1>b DEF Decoded, Takes, Decrypts, Ready, MustReconnect, Asked, sensorVars,
              Busy
    <2>3. image' = rec /\ result' = "ok" /\ UNCHANGED <<calls, failed>>
        BY <2>1 DEF Deliver
    <2>4. rec.call \in (image.call + 1)..calls
        BY <2>1, <1>a, TakenIsNext
    <2>5. ~failed => rec.call = calls
        BY <2>1, <2>2, <1>a, TakenIsOwn DEF Pending
    <2>6. Contract!Answer
        BY <2>2, <2>3, <2>4, <2>5, <1>d DEF Contract!Answer, Busy
    <2> QED BY <2>6 DEF Contract!Next
<1>11. CASE Probe \/ SensorImage \/ SensorForgets \/ SensorAsksReconnect \/ UNCHANGED vars
    <2>1. UNCHANGED <<pc, rearmed, outcome>>
        BY <1>11 DEF Probe, SensorImage, SensorForgets, SensorAsksReconnect, vars, threadVars
    <2> QED BY <2>1, <1>e DEF Busy, outcome
<1> QED BY <1>1, <1>2, <1>3, <1>4, <1>5, <1>6, <1>7, <1>8, <1>9, <1>10, <1>11 DEF Next, Driver

\* gx_capture_frame implements CaptureContract, for any number of captures, sessions,
\* rounds and frames: each capture ends in an image or in a failure, and images are
\* used once, in the order in which they were asked for.
THEOREM CaptureImplements == Spec => ImplementsContract
<1>1. Init => Contract!Init
    BY DEF Init, Contract!Init, Busy, None, Frame
<1>2. IInv /\ [Next]_vars => [Contract!Next]_(Contract!vars)
    BY ContractStep
<1> QED BY <1>1, <1>2, Invariance, PTL DEF Spec, ImplementsContract, Contract!Spec

\* While no capture has failed since the handshake, a background is captured with
\* the sensor unarmed.
THEOREM BackgroundUnarmed == Spec => []UnarmedWhileIntact
<1>1. IInv => UnarmedWhileIntact
    BY DEF IInv, ArmedForFinger, UnarmedWhileIntact
<1> QED BY <1>1, Invariance, PTL

\* An intact record is refused only when the sensor has run further ahead than
\* the window, for any window, any losses and any number of captures.
THEOREM RefusalNeedsLosses == Spec => []RefusedBeyondWindow
<1>1. IInv => RefusedBeyondWindow
  <2> SUFFICES ASSUME IInv, tls_up, NEW f \in {stash} \union {bus[i] : i \in DOMAIN bus},
                      IsRecord(f), f.kind # "corrupt", ~Decrypts(f)
               PROVE  wseq - read_seq > SeqWindow + 1
    BY DEF RefusedBeyondWindow
  <2>1. f.sess = sess /\ f.seq \in read_seq..(wseq - 1)
    <3>1. CASE f = stash
      <4>1. stash # None
        BY <3>1 DEF IsRecord, None, Frame
      <4> QED
        BY <3>1, <4>1 DEF IInv, InOrder
    <3>2. CASE \E i \in DOMAIN bus : f = bus[i]
      BY <3>2 DEF IInv, InOrder, OnBus
    <3> QED
      BY <3>1, <3>2
  <2>2. read_seq \in Nat /\ wseq \in Nat /\ SeqWindow \in Nat
    BY LimitsAssumption DEF IInv, TypeOK
  <2>3. ~(f.seq \in read_seq..(read_seq + SeqWindow))
    BY <2>1 DEF Decrypts
  <2> QED
    BY <2>1, <2>2, <2>3
<1> QED
  BY <1>1, Invariance, PTL
================================================================================
