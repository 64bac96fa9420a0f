-------------------------- MODULE VerifyClientProofs --------------------------
(***************************************************************************)
(* Theorems about VerifyClient, for any number of operations, stages and   *)
(* waiting signals.                                                        *)
(***************************************************************************)
EXTENDS VerifyClient, SequenceTheorems, TLAPS

USE VerifyClientAssumption

\* A signal arrives.
LEMMA Arrives ==
    ASSUME inbox \in Seq(Signals), NEW m \in Signals, inbox' = Append(inbox, m)
    PROVE  /\ inbox' \in Seq(Signals) /\ Len(inbox') = Len(inbox) + 1
           /\ Len(inbox) \in Nat
           /\ DOMAIN inbox = 1 .. Len(inbox) /\ DOMAIN inbox' = 1 .. Len(inbox) + 1
           /\ inbox'[Len(inbox) + 1] = m
           /\ \A i \in DOMAIN inbox : inbox'[i] = inbox[i]
<1>1. /\ Append(inbox, m) \in Seq(Signals)
      /\ Len(Append(inbox, m)) = Len(inbox) + 1
      /\ \A i \in 1 .. Len(inbox) : Append(inbox, m)[i] = inbox[i]
      /\ Append(inbox, m)[Len(inbox) + 1] = m
    BY AppendProperties
<1>2. Len(inbox) \in Nat /\ DOMAIN inbox = 1 .. Len(inbox)
    OBVIOUS
<1>3. DOMAIN inbox' = 1 .. Len(inbox')
    BY <1>1
<1> QED
    BY <1>1, <1>2, <1>3

\* A signal is dispatched.
LEMMA Dispatched ==
    ASSUME inbox \in Seq(Signals), inbox # <<>>, inbox' = Tail(inbox)
    PROVE  /\ inbox' \in Seq(Signals) /\ Len(inbox') = Len(inbox) - 1 /\ Len(inbox) \in Nat
           /\ 1 \in DOMAIN inbox /\ Head(inbox) = inbox[1] /\ Head(inbox) \in Signals
           /\ \A i \in DOMAIN inbox' :
                 i \in Nat \ {0} /\ i + 1 \in DOMAIN inbox /\ inbox'[i] = inbox[i + 1]
<1>1. /\ Head(inbox) \in Signals /\ Tail(inbox) \in Seq(Signals)
      /\ Len(Tail(inbox)) = Len(inbox) - 1
      /\ \A i \in 1 .. Len(Tail(inbox)) : Tail(inbox)[i] = inbox[i + 1]
    BY HeadTailProperties
<1>2. Len(inbox) \in Nat /\ Len(inbox) # 0 /\ DOMAIN inbox = 1 .. Len(inbox)
    BY EmptySeq
<1>3. DOMAIN inbox' = 1 .. Len(inbox) - 1
    BY <1>1
<1>4. Head(inbox) = inbox[1]
    OBVIOUS
<1> QED
    BY <1>1, <1>2, <1>3, <1>4

\* What TypeOK says of the signals.
LEMMA SignalsTyped ==
    ASSUME TypeOK
    PROVE  /\ inbox \in Seq(Signals) /\ Len(inbox) <= InboxMax
           /\ \A s \in Signals : /\ s.type \in {"status", "props"}
                                 /\ s.type = "props" => s.status \in Status
                                 /\ s.type = "status" => s.result \in Results
BY DEF TypeOK, Signals

LEMMA InitIInv == Init => IInv
<1> SUFFICES ASSUME Init PROVE IInv
    OBVIOUS
<1>1. inbox = <<>> /\ <<>> \in Seq(Signals) /\ Len(<<>>) = 0
    BY DEF Init
<1>2. NoFinger \in Status
    BY DEF NoFinger, Status
<1>3. TypeOK
    <2>1. 0 \in 0 .. Stages /\ 0 \in 0 .. MaxOps /\ Len(inbox) <= InboxMax
        BY <1>1
    <2>2. /\ mode = "starting" /\ screen = "idle" /\ prompt = Finger /\ op = "none"
          /\ phase = "none" /\ claim \in {"free", "other"} /\ retried = FALSE
          /\ overtaken = FALSE
        BY DEF Init
    <2>3. /\ stages = 0 /\ timers = 0 /\ cache = NoFinger /\ opid = 0 /\ stage = 0
          /\ status = NoFinger /\ told = NoFinger
        BY DEF Init
    <2> QED
        BY <1>1, <1>2, <2>1, <2>2, <2>3 DEF TypeOK
<1>4. NothingLeftRunning /\ Working
    BY DEF Init, NothingLeftRunning, Running, Working
<1>5. AnswersInOrder
    BY <1>1 DEF AnswersInOrder, StatusAt
<1>6. AnnouncedInOrder
    BY <1>1 DEF Init, AnnouncedInOrder, PropsAt
<1>7. PhaseReported
    BY DEF Init, PhaseReported, Running
<1>8. ScreenFollows
    BY <1>1 DEF Init, ScreenFollows, Running, NoFinger
<1> QED
    BY <1>3, <1>4, <1>5, <1>6, <1>7, <1>8 DEF IInv

\* The four statuses the driver reports.
LEMMA StatusValues == {NoFinger, Needed, Both, Present} \subseteq Status
BY DEF NoFinger, Needed, Both, Present, Status

\* Stopping leaves nothing running, and a status of the finger.
LEMMA StoppedEffect ==
    ASSUME TypeOK, Stopped
    PROVE  /\ op' = "none" /\ phase' = "none" /\ opid' = opid /\ stage' = stage
           /\ status' \in Status /\ claim' \in {"free", "ours", "other"}
<1>1. status \in Status /\ claim \in {"free", "ours", "other"} /\ NoFinger \in Status
    BY StatusValues DEF TypeOK
<1> QED
    BY <1>1 DEF Stopped

\* The steps of the client that leave the signals alone.
LEMMA ClientKeepsType ==
    ASSUME TypeOK, timers <= opid,
           \/ Activate \/ stop \/ sync_prompt \/ do_shutdown
           \/ \E m \in {"verify", "enroll"} : start(m) \/ start_refused(m)
    PROVE  TypeOK'
<1> USE DEF TypeOK
<1>1. CASE Activate
    BY <1>1 DEF Activate, Claimed, hist
<1>2. CASE stop
    <2>1. /\ op' = "none" /\ phase' = "none" /\ opid' = opid /\ stage' = stage
          /\ status' \in Status /\ claim' \in {"free", "ours", "other"}
        BY <1>2, StoppedEffect DEF stop, finish
    <2>2. /\ mode' = "none" /\ screen' = "idle"
          /\ UNCHANGED <<prompt, stages, timers, cache, inbox, told, retried>>
        BY <1>2 DEF stop, finish
    <2>3. overtaken' \in BOOLEAN
        BY <1>2 DEF stop
    <2> QED
        BY <2>1, <2>2, <2>3
<1>3. CASE sync_prompt
    BY <1>3 DEF sync_prompt, service, hist
<1>4. CASE do_shutdown
    BY <1>4, StatusValues DEF do_shutdown, hist
<1>5. ASSUME NEW m \in {"verify", "enroll"}, start(m) PROVE TypeOK'
    <2>1. 0 \in 0 .. Stages /\ opid + 1 \in 0 .. MaxOps
        BY <1>5 DEF start
    <2>2. UNCHANGED <<cache, inbox, status, told, overtaken>>
        BY <1>5 DEF start
    <2>3. /\ mode' = m /\ screen' = "prep" /\ op' = m /\ opid' = opid + 1
          /\ phase' = "calib" /\ stage' = 0 /\ claim' = "ours" /\ retried' = FALSE
          /\ timers' = timers + 1
          /\ prompt' \in {Finger, 0} /\ stages' \in {stages, 0}
        BY <1>5 DEF start
    <2>4. timers' \in 0 .. MaxOps
        <3>1. opid < MaxOps /\ timers \in 0 .. MaxOps /\ opid \in 0 .. MaxOps
            BY <1>5 DEF start
        <3> QED
            BY <2>3, <3>1
    <2> QED
        BY <2>1, <2>2, <2>3, <2>4
<1>6. ASSUME NEW m \in {"verify", "enroll"}, start_refused(m) PROVE TypeOK'
    <2>1. 0 \in 0 .. Stages
        OBVIOUS
    <2> QED
        BY <1>6, <2>1 DEF start_refused, service, hist
<1> QED
    BY <1>1, <1>2, <1>3, <1>4, <1>5, <1>6

\* The steps that dispatch a signal.
LEMMA DispatchKeepsType == ASSUME TypeOK, Dispatch PROVE TypeOK'
<1> USE DEF TypeOK
<1>1. inbox # <<>> /\ inbox' = Tail(inbox)
    BY DEF Dispatch, on_props, on_result, on_retry, on_stage, Signal
<1>2. inbox' \in Seq(Signals) /\ Len(inbox') <= InboxMax /\ Head(inbox) \in Signals
    <2>1. inbox \in Seq(Signals) /\ Len(inbox) <= InboxMax
        OBVIOUS
    <2>2. /\ inbox' \in Seq(Signals) /\ Len(inbox') = Len(inbox) - 1 /\ Len(inbox) \in Nat
          /\ Head(inbox) \in Signals
        BY <1>1, <2>1, Dispatched
    <2> QED
        BY <2>1, <2>2
<1>3. CASE on_props
    <2>1. Head(inbox).type = "props" /\ cache' = Head(inbox).status
        BY <1>3 DEF on_props, Signal
    <2>2. cache' \in Status
        BY <1>2, <2>1, SignalsTyped
    <2>3. screen' \in {"idle", "prep", "wait", "hold", "lift", "match", "nomatch", "error"}
        BY <1>3 DEF on_props
    <2>4. UNCHANGED <<mode, prompt, stages, timers, service, told, hist>>
        BY <1>3 DEF on_props
    <2> QED
        BY <1>2, <2>2, <2>3, <2>4 DEF service, hist
<1>4. CASE on_result
    <2>1. /\ op' = "none" /\ phase' = "none" /\ opid' = opid /\ stage' = stage
          /\ status' \in Status /\ claim' \in {"free", "ours", "other"}
        BY <1>4, StoppedEffect DEF on_result
    <2>2. screen' \in {"match", "nomatch", "error"}
        BY <1>4 DEF on_result, Shown
    <2>3. stages' \in 0 .. Stages
        BY <1>4 DEF on_result
    <2>4. mode' = "none" /\ UNCHANGED <<prompt, timers, cache, told, hist>>
        BY <1>4 DEF on_result
    <2> QED
        BY <1>2, <2>1, <2>2, <2>3, <2>4 DEF hist
<1>5. CASE on_retry
    BY <1>2, <1>5 DEF on_retry, service, hist
<1>6. CASE on_stage
    <2>1. stages' = stage /\ stages' \in 0 .. Stages
        BY <1>6 DEF on_stage, read_coverage
    <2>2. screen' \in {"wait", "nomatch"} /\ prompt' \in {prompt, stages'}
        BY <1>6 DEF on_stage, say_zone
    <2>3. UNCHANGED <<mode, timers, cache, service, told, hist>>
        BY <1>6 DEF on_stage
    <2> QED
        BY <1>2, <2>1, <2>2, <2>3 DEF service, hist
<1> QED
    BY <1>3, <1>4, <1>5, <1>6 DEF Dispatch

\* A result that is emitted is a signal of the operation that runs.
LEMMA EmitsEffect ==
    ASSUME TypeOK, Working, phase # "none", NEW r \in Results, Emits(r)
    PROVE  /\ [type |-> "status", result |-> r, op |-> opid] \in Signals
           /\ inbox' = Append(inbox, [type |-> "status", result |-> r, op |-> opid])
           /\ inbox' \in Seq(Signals) /\ Len(inbox') <= InboxMax
<1> DEFINE m == [type |-> "status", result |-> r, op |-> opid]
<1>1. opid \in 1 .. MaxOps
    BY DEF TypeOK, Working
<1>2. m \in Signals
    BY <1>1 DEF Signals
<1>3. inbox \in Seq(Signals) /\ Len(inbox) < InboxMax /\ inbox' = Append(inbox, m)
    BY DEF TypeOK, Emits
<1>4. inbox' \in Seq(Signals) /\ Len(inbox') = Len(inbox) + 1 /\ Len(inbox) \in Nat
    BY <1>2, <1>3, Arrives
<1> QED
    BY <1>2, <1>3, <1>4

\* The steps of fprintd and the driver.
LEMMA ServiceKeepsType == ASSUME TypeOK, Working, Service PROVE TypeOK'
<1> USE DEF TypeOK, client, Rest
<1>1. CASE Announce
    <2> DEFINE m == [type |-> "props", status |-> status]
    <2>1. m \in Signals
        BY DEF Signals
    <2>2. inbox \in Seq(Signals) /\ Len(inbox) < InboxMax /\ inbox' = Append(inbox, m)
        BY <1>1 DEF Announce
    <2>3. inbox' \in Seq(Signals) /\ Len(inbox') = Len(inbox) + 1 /\ Len(inbox) \in Nat
        BY <2>1, <2>2, Arrives
    <2>4. Len(inbox') <= InboxMax
        BY <2>2, <2>3
    <2>5. told' \in Status /\ UNCHANGED <<client, service, hist>>
        BY <1>1 DEF Announce
    <2> QED
        BY <2>3, <2>4, <2>5 DEF service, hist
<1>2. CASE Calibrated \/ FingerSeen \/ Scored
    BY <1>2, StatusValues DEF Calibrated, FingerSeen, Scored, hist
<1>3. CASE Retry
    <2>1. inbox' \in Seq(Signals) /\ Len(inbox') <= InboxMax
        BY <1>3, EmitsEffect DEF Retry, Results
    <2>2. /\ phase' = "calib" /\ status' \in {status, NoFinger} /\ retried' = TRUE
          /\ UNCHANGED <<stage, overtaken>> /\ Rest
        BY <1>3 DEF Retry
    <2> QED
        BY <2>1, <2>2, StatusValues
<1>4. CASE Stage
    <2>1. inbox' \in Seq(Signals) /\ Len(inbox') <= InboxMax
        BY <1>4, EmitsEffect DEF Stage, Results
    <2>2. stage < Stages /\ stage' \in {stage, stage + 1}
        BY <1>4 DEF Stage, Working
    <2>3. stage' \in 0 .. Stages
        BY <2>2
    <2>4. phase' = "lifting" /\ status' = Present /\ UNCHANGED hist /\ Rest
        BY <1>4 DEF Stage
    <2> QED
        BY <2>1, <2>3, <2>4, StatusValues DEF hist
<1>5. CASE Released
    <2>1. inbox' \in Seq(Signals) /\ Len(inbox') <= InboxMax
        BY <1>5, EmitsEffect DEF Released, Results
    <2>2. phase' \in {"over", "asking"} /\ status' \in {NoFinger, Needed}
        BY <1>5 DEF Released
    <2>3. UNCHANGED <<stage, hist>> /\ Rest
        BY <1>5 DEF Released
    <2> QED
        BY <2>1, <2>2, <2>3, StatusValues DEF hist
<1>6. CASE OpFails
    <2>1. inbox' \in Seq(Signals) /\ Len(inbox') <= InboxMax
        BY <1>6, EmitsEffect DEF OpFails, Results
    <2>2. /\ phase' = "over" /\ status' \in {status, NoFinger}
          /\ UNCHANGED <<stage, hist>> /\ Rest
        BY <1>6 DEF OpFails
    <2> QED
        BY <2>1, <2>2, StatusValues DEF hist
<1>7. CASE OtherClient
    BY <1>7 DEF OtherClient, hist
<1> QED
    BY <1>1, <1>2, <1>3, <1>4, <1>5, <1>6, <1>7 DEF Service

\* Only an operation of the client's own choice runs, and none once it says so.
LEMMA NextWorking == IInv /\ TypeOK' /\ Next => NothingLeftRunning' /\ Working'
<1> SUFFICES ASSUME IInv, TypeOK', Next PROVE NothingLeftRunning' /\ Working'
    OBVIOUS
<1>t. TypeOK /\ NothingLeftRunning /\ Working
    BY DEF IInv
<1>n. /\ opid \in 0 .. MaxOps /\ stage \in 0 .. Stages /\ timers \in 0 .. MaxOps
      /\ stage' \in 0 .. Stages
      /\ mode \in {"starting", "none", "verify", "enroll", "closed"}
    BY <1>t DEF TypeOK
<1> USE DEF NothingLeftRunning, Working, Running
<1>1. CASE Activate
    BY <1>t, <1>1 DEF Activate
<1>2. ASSUME NEW m \in {"verify", "enroll"}, start(m)
      PROVE  NothingLeftRunning' /\ Working'
    BY <1>t, <1>n, <1>2 DEF start
<1>3. ASSUME NEW m \in {"verify", "enroll"}, start_refused(m)
      PROVE  NothingLeftRunning' /\ Working'
    BY <1>t, <1>3 DEF start_refused, service
<1>4. CASE stop \/ on_result
    <2>1. Stopped /\ mode' = "none" /\ timers' = timers
        BY <1>4 DEF stop, finish, on_result
    <2> QED
        BY <1>t, <2>1 DEF Stopped
<1>5. CASE sync_prompt
    BY <1>t, <1>n, <1>5 DEF sync_prompt, service
<1>6. CASE do_shutdown
    BY <1>t, <1>6 DEF do_shutdown
<1>7. CASE on_props \/ on_retry \/ on_stage
    BY <1>t, <1>7 DEF on_props, on_retry, on_stage, service
<1>8. CASE Announce \/ OtherClient
    BY <1>t, <1>8 DEF Announce, OtherClient, client, service
<1>9. CASE Calibrated \/ FingerSeen \/ Scored \/ Retry \/ Released \/ OpFails
    BY <1>t, <1>n, <1>9
       DEF Calibrated, FingerSeen, Scored, Retry, Released, OpFails, Rest, client, hist
<1>10. CASE Stage
    BY <1>t, <1>n, <1>10 DEF Stage, Rest, client, hist
<1> QED
    BY <1>1, <1>2, <1>3, <1>4, <1>5, <1>6, <1>7, <1>8, <1>9, <1>10 DEF Next, Dispatch, Service

\* What a driver's step makes of the answers under way.
LEMMA AnswersAfterEmit ==
    ASSUME IInv, NEW r \in Results, Emits(r), phase # "none", phase # "over",
           UNCHANGED <<mode, opid, overtaken>>,
           r \in {"match", "nomatch", "completed", "failed"} => phase' = "over"
    PROVE  AnswersInOrder'
<1> DEFINE m == [type |-> "status", result |-> r, op |-> opid]
<1>t. TypeOK /\ NothingLeftRunning /\ Working /\ AnswersInOrder
    BY DEF IInv
<1>1. m \in Signals /\ inbox' = Append(inbox, m) /\ inbox \in Seq(Signals)
    BY <1>t, EmitsEffect, SignalsTyped
<1>2. /\ Len(inbox) \in Nat
      /\ DOMAIN inbox = 1 .. Len(inbox) /\ DOMAIN inbox' = 1 .. Len(inbox) + 1
      /\ inbox'[Len(inbox) + 1] = m
      /\ \A i \in DOMAIN inbox : inbox'[i] = inbox[i]
    BY <1>1, Arrives
<1> SUFFICES ASSUME ~overtaken, mode # "closed",
                    NEW i \in DOMAIN inbox', StatusAt(i)'
             PROVE  /\ Running' /\ inbox'[i].op = opid
                    /\ Ends(i)' => /\ phase' = "over"
                                   /\ \A j \in DOMAIN inbox' : j > i => ~StatusAt(j)'
    BY DEF AnswersInOrder
<1>3. Running /\ Running'
    BY <1>t DEF NothingLeftRunning, Running
<1>4. CASE i = Len(inbox) + 1
    <2>1. inbox'[i].op = opid /\ inbox'[i].result = r
        BY <1>2, <1>4
    <2>2. \A j \in DOMAIN inbox' : ~(j > i)
        BY <1>2, <1>4
    <2> QED
        BY <1>3, <2>1, <2>2 DEF Ends
<1>5. CASE i \in DOMAIN inbox
    <2>1. StatusAt(i) /\ inbox'[i] = inbox[i]
        BY <1>2, <1>5 DEF StatusAt
    <2>2. inbox[i].op = opid /\ ~Ends(i)
        BY <1>t, <1>5, <2>1 DEF AnswersInOrder
    <2>3. ~Ends(i)'
        BY <2>1, <2>2 DEF Ends
    <2> QED
        BY <1>3, <2>1, <2>2, <2>3
<1> QED
    BY <1>2, <1>4, <1>5

\* A step that leaves the signals, the operation and the client alone.
LEMMA AnswersKept ==
    ASSUME IInv, UNCHANGED <<inbox, opid, overtaken, mode>>,
           phase = "over" => phase' = "over"
    PROVE  AnswersInOrder'
<1>1. AnswersInOrder
    BY DEF IInv
<1> QED
    BY <1>1 DEF AnswersInOrder, StatusAt, Ends, Running

LEMMA NextAnswers == IInv /\ TypeOK' /\ Next => AnswersInOrder'
<1> SUFFICES ASSUME IInv, TypeOK', Next PROVE AnswersInOrder'
    OBVIOUS
<1>t. TypeOK /\ NothingLeftRunning /\ Working /\ AnswersInOrder
    BY DEF IInv
<1>s. inbox \in Seq(Signals)
    BY <1>t, SignalsTyped
\* While the client is idle no answer is under way, unless one was overtaken.
<1>i. ~overtaken /\ mode # "closed" /\ ~Running => \A i \in DOMAIN inbox : ~StatusAt(i)
    BY <1>t DEF AnswersInOrder
<1>1. CASE Activate
    BY <1>i, <1>1 DEF Activate, AnswersInOrder, StatusAt, Running, hist
<1>2. CASE \E m \in {"verify", "enroll"} : start(m)
    BY <1>i, <1>2 DEF start, AnswersInOrder, StatusAt, Running
<1>3. CASE \E m \in {"verify", "enroll"} : start_refused(m)
    BY <1>i, <1>3 DEF start_refused, AnswersInOrder, StatusAt, Running, hist
<1>4. CASE stop
    BY <1>t, <1>4 DEF stop, finish, AnswersInOrder, StatusAt
<1>5. CASE sync_prompt
    BY <1>5, AnswersKept DEF sync_prompt, service, hist
<1>6. CASE do_shutdown
    BY <1>6 DEF do_shutdown, AnswersInOrder
<1>7. CASE Dispatch
    <2>1. inbox # <<>> /\ inbox' = Tail(inbox) /\ mode # "closed"
        BY <1>7 DEF Dispatch, on_props, on_result, on_retry, on_stage, Signal
    <2>2. /\ 1 \in DOMAIN inbox /\ Head(inbox) = inbox[1]
          /\ \A i \in DOMAIN inbox' :
                i \in Nat \ {0} /\ i + 1 \in DOMAIN inbox /\ inbox'[i] = inbox[i + 1]
        BY <1>s, <2>1, Dispatched
    <2>3. opid' = opid /\ overtaken' = overtaken
        BY <1>7, StoppedEffect, <1>t
           DEF Dispatch, on_props, on_result, on_retry, on_stage, service, hist
    <2>4. CASE on_props \/ on_retry \/ on_stage
        <3>1. mode' = mode /\ phase' = phase
            BY <2>4 DEF on_props, on_retry, on_stage, service
        <3> SUFFICES ASSUME ~overtaken, NEW i \in DOMAIN inbox', StatusAt(i)'
                     PROVE  /\ Running /\ inbox'[i].op = opid
                            /\ Ends(i)' => /\ phase = "over"
                                           /\ \A j \in DOMAIN inbox' : j > i => ~StatusAt(j)'
            BY <2>3, <3>1 DEF AnswersInOrder, Running
        <3>2. i + 1 \in DOMAIN inbox /\ inbox'[i] = inbox[i + 1] /\ StatusAt(i + 1)
            BY <2>2 DEF StatusAt
        <3>3. /\ Running /\ inbox[i + 1].op = opid
              /\ Ends(i + 1) => /\ phase = "over"
                                /\ \A j \in DOMAIN inbox : j > i + 1 => ~StatusAt(j)
            BY <1>t, <2>1, <3>2 DEF AnswersInOrder
        <3>4. Ends(i)' => Ends(i + 1)
            BY <3>2 DEF Ends
        <3>5. ASSUME Ends(i)', NEW j \in DOMAIN inbox', j > i
              PROVE  ~StatusAt(j)'
            <4>1. j + 1 \in DOMAIN inbox /\ j + 1 > i + 1 /\ inbox'[j] = inbox[j + 1]
                BY <2>2, <3>5
            <4>2. ~StatusAt(j + 1)
                BY <3>3, <3>4, <3>5, <4>1
            <4> QED
                BY <3>5, <4>1, <4>2 DEF StatusAt
        <3> QED
            BY <3>2, <3>3, <3>4, <3>5
    <2>5. CASE on_result
        <3>1. Head(inbox).type = "status" /\ Ends(1) /\ StatusAt(1)
            BY <2>2, <2>5 DEF on_result, Signal, Ends, StatusAt
        <3>2. ~overtaken => \A j \in DOMAIN inbox : j > 1 => ~StatusAt(j)
            BY <1>t, <2>1, <2>2, <3>1 DEF AnswersInOrder
        <3>3. ASSUME ~overtaken, NEW i \in DOMAIN inbox' PROVE ~StatusAt(i)'
            <4>1. i + 1 \in DOMAIN inbox /\ i + 1 > 1 /\ inbox'[i] = inbox[i + 1]
                BY <2>2
            <4>2. ~StatusAt(i + 1)
                BY <3>2, <3>3, <4>1
            <4> QED
                BY <4>1, <4>2 DEF StatusAt
        <3> QED
            BY <2>3, <3>3 DEF AnswersInOrder
    <2> QED
        BY <1>7, <2>4, <2>5 DEF Dispatch
<1>8. CASE Announce
    <2> DEFINE m == [type |-> "props", status |-> status]
    <2>1. m \in Signals /\ inbox' = Append(inbox, m)
        BY <1>t, <1>8 DEF Announce, Signals, TypeOK
    <2>2. /\ Len(inbox) \in Nat
          /\ DOMAIN inbox = 1 .. Len(inbox) /\ DOMAIN inbox' = 1 .. Len(inbox) + 1
          /\ inbox'[Len(inbox) + 1] = m
          /\ \A i \in DOMAIN inbox : inbox'[i] = inbox[i]
        BY <1>s, <2>1, Arrives
    <2>3. \A i \in DOMAIN inbox' : StatusAt(i)' => i \in DOMAIN inbox /\ StatusAt(i)
        BY <2>2 DEF StatusAt
    <2>4. UNCHANGED <<mode, opid, phase, overtaken>>
        BY <1>8 DEF Announce, client, service, hist
    <2> QED
        BY <1>t, <2>2, <2>3, <2>4 DEF AnswersInOrder, Ends, Running
<1>9. CASE OtherClient
    BY <1>9, AnswersKept DEF OtherClient, client, hist
<1>10. CASE Calibrated \/ FingerSeen \/ Scored
    BY <1>10, AnswersKept DEF Calibrated, FingerSeen, Scored, Rest, client, hist
<1>11. CASE Retry
    BY <1>11, AnswersAfterEmit DEF Retry, Rest, client, Results
<1>12. CASE Stage
    <2>1. \E r \in {"stage", "retry"} : Emits(r)
        BY <1>12 DEF Stage
    <2> QED
        BY <1>12, <2>1, AnswersAfterEmit DEF Stage, Rest, client, hist, Results
<1>13. CASE Released
    <2>1. CASE inbox' = inbox
        BY <1>13, <2>1, AnswersKept DEF Released, Rest, client, hist
    <2>2. CASE \E r \in {"match", "nomatch", "completed"} : Emits(r) /\ phase' = "over"
        BY <1>13, <2>2, AnswersAfterEmit DEF Released, Rest, client, hist, Results
    <2> QED
        BY <1>13, <2>1, <2>2 DEF Released
<1>14. CASE OpFails
    BY <1>14, AnswersAfterEmit DEF OpFails, Rest, client, hist, Results
<1> QED
    BY <1>1, <1>2, <1>3, <1>4, <1>5, <1>6, <1>7, <1>8, <1>9, <1>10, <1>11, <1>12, <1>13, <1>14
       DEF Next, Service

-----------------------------------------------------------------------------
(* What the screen says of the finger. *)

\* A driver's step that emits a result: the signal is the last, the others stay.
LEMMA AfterEmit ==
    ASSUME IInv, phase # "none", NEW r \in Results, Emits(r)
    PROVE  /\ Len(inbox) \in Nat /\ DOMAIN inbox = 1 .. Len(inbox)
           /\ DOMAIN inbox' = 1 .. Len(inbox) + 1
           /\ inbox'[Len(inbox) + 1].type = "status" /\ inbox'[Len(inbox) + 1].result = r
           /\ \A i \in DOMAIN inbox : inbox'[i] = inbox[i]
<1> DEFINE m == [type |-> "status", result |-> r, op |-> opid]
<1>1. m \in Signals /\ inbox' = Append(inbox, m) /\ inbox \in Seq(Signals)
    BY EmitsEffect, SignalsTyped DEF IInv
<1>2. m.type = "status" /\ m.result = r
    OBVIOUS
<1> QED
    BY <1>1, <1>2, Arrives

\* The steps of the driver that emit a result, or none.
Emitters == Retry \/ Stage \/ Released \/ OpFails
LEMMA EmittersEmit ==
    ASSUME IInv, Emitters
    PROVE  \/ inbox' = inbox
           \/ \E r \in Results : Emits(r)
<1>1. CASE Retry
    BY <1>1 DEF Retry, Results
<1>2. CASE Stage
    BY <1>2 DEF Stage, Results
<1>3. CASE Released
    BY <1>3 DEF Released, Results
<1>4. CASE OpFails
    BY <1>4 DEF OpFails, Results
<1> QED
    BY <1>1, <1>2, <1>3, <1>4 DEF Emitters

\* fprintd's announcements reach the cache in their order, so once all of them
\* are dispatched the cache is what was announced last.
LEMMA NextAnnounced == IInv /\ Next => AnnouncedInOrder'
<1> SUFFICES ASSUME IInv, Next PROVE AnnouncedInOrder'
    OBVIOUS
<1>t. TypeOK /\ Working /\ AnnouncedInOrder
    BY DEF IInv
<1>s. inbox \in Seq(Signals)
    BY <1>t, SignalsTyped
<1>1. ASSUME UNCHANGED <<inbox, cache, told>> PROVE AnnouncedInOrder'
    BY <1>t, <1>1 DEF AnnouncedInOrder, PropsAt
<1>2. CASE \/ Activate \/ stop \/ sync_prompt \/ do_shutdown \/ OtherClient
           \/ Calibrated \/ FingerSeen \/ Scored
           \/ \E m \in {"verify", "enroll"} : start(m) \/ start_refused(m)
    BY <1>1, <1>2 DEF Activate, stop, finish, sync_prompt, do_shutdown, OtherClient, Calibrated,
                      FingerSeen, Scored, start, start_refused, Rest, client
<1>3. CASE Dispatch
    <2>1. inbox # <<>> /\ inbox' = Tail(inbox) /\ told' = told
        BY <1>3 DEF Dispatch, on_props, on_result, on_retry, on_stage, Signal
    <2>2. /\ 1 \in DOMAIN inbox /\ Head(inbox) = inbox[1]
          /\ Len(inbox) \in Nat /\ DOMAIN inbox = 1 .. Len(inbox)
          /\ DOMAIN inbox' = 1 .. Len(inbox) - 1
          /\ \A i \in DOMAIN inbox' : i + 1 \in DOMAIN inbox /\ inbox'[i] = inbox[i + 1]
        <3>1. inbox' \in Seq(Signals) /\ Len(inbox') = Len(inbox) - 1
            BY <1>s, <2>1, Dispatched
        <3> QED
            BY <1>s, <2>1, <3>1, Dispatched
    <2>3. \A i \in DOMAIN inbox' : PropsAt(i)' <=> PropsAt(i + 1)
        BY <2>2 DEF PropsAt
    <2>4. ASSUME NEW j \in DOMAIN inbox, j > 1
          PROVE  j - 1 \in DOMAIN inbox' /\ (PropsAt(j) <=> PropsAt(j - 1)')
        <3>1. j - 1 \in DOMAIN inbox' /\ (j - 1) + 1 = j
            BY <2>2, <2>4
        <3> QED
            BY <2>3, <3>1
    <2>5. ASSUME NEW i \in DOMAIN inbox', PropsAt(i)',
                 \A j \in DOMAIN inbox' : j > i => ~PropsAt(j)'
          PROVE  inbox'[i].status = told
        <3>1. i + 1 \in DOMAIN inbox /\ PropsAt(i + 1) /\ inbox'[i] = inbox[i + 1]
            BY <2>2, <2>3, <2>5
        <3>2. ASSUME NEW j \in DOMAIN inbox, j > i + 1 PROVE ~PropsAt(j)
            <4>1. j - 1 \in DOMAIN inbox' /\ j - 1 > i /\ (PropsAt(j) <=> PropsAt(j - 1)')
                BY <2>2, <2>4, <3>2
            <4> QED
                BY <2>5, <4>1
        <3> QED
            BY <1>t, <3>1, <3>2 DEF AnnouncedInOrder
    <2>6. ASSUME \A i \in DOMAIN inbox' : ~PropsAt(i)' PROVE cache' = told
        <3>1. \A j \in DOMAIN inbox : j > 1 => ~PropsAt(j)
            BY <2>4, <2>6
        <3>2. CASE on_props
            <4>1. PropsAt(1) /\ cache' = inbox[1].status
                BY <2>2, <3>2 DEF on_props, Signal, PropsAt
            <4> QED
                BY <1>t, <2>2, <3>1, <4>1 DEF AnnouncedInOrder
        <3>3. CASE on_result \/ on_retry \/ on_stage
            <4>1. ~PropsAt(1) /\ cache' = cache
                BY <2>2, <3>3 DEF on_result, on_retry, on_stage, Signal, PropsAt
            <4>2. \A j \in DOMAIN inbox : ~PropsAt(j)
                BY <2>2, <3>1, <4>1
            <4> QED
                BY <1>t, <4>1, <4>2 DEF AnnouncedInOrder
        <3> QED
            BY <1>3, <3>2, <3>3 DEF Dispatch
    <2> QED
        BY <2>1, <2>5, <2>6 DEF AnnouncedInOrder
<1>4. CASE Emitters
    <2>1. told' = told /\ cache' = cache /\ phase # "none"
        BY <1>4 DEF Emitters, Retry, Stage, Released, OpFails, Rest, client
    <2>2. CASE \E r \in Results : Emits(r)
        <3>1. PICK r \in Results : Emits(r)
            BY <2>2
        <3>2. /\ Len(inbox) \in Nat /\ DOMAIN inbox = 1 .. Len(inbox)
              /\ DOMAIN inbox' = 1 .. Len(inbox) + 1
              /\ inbox'[Len(inbox) + 1].type = "status"
              /\ \A i \in DOMAIN inbox : inbox'[i] = inbox[i]
            BY <2>1, <3>1, AfterEmit
        <3>3. \A i \in DOMAIN inbox : i \in DOMAIN inbox' /\ (PropsAt(i)' <=> PropsAt(i))
            BY <3>2 DEF PropsAt
        <3>4. \A i \in DOMAIN inbox' : PropsAt(i)' => i \in DOMAIN inbox
            BY <3>2 DEF PropsAt
        <3> QED
            BY <1>t, <2>1, <3>2, <3>3, <3>4 DEF AnnouncedInOrder
    <2> QED
        BY <1>1, <1>4, <2>1, <2>2, EmittersEmit
<1>5. CASE Announce
    <2> DEFINE m == [type |-> "props", status |-> status]
    <2>1. m \in Signals /\ inbox' = Append(inbox, m) /\ told' = status
        BY <1>t, <1>5 DEF Announce, Signals, TypeOK
    <2>2. m.type = "props" /\ m.status = status
        OBVIOUS
    <2>3. /\ Len(inbox) \in Nat /\ DOMAIN inbox' = 1 .. Len(inbox) + 1
          /\ inbox'[Len(inbox) + 1] = m
        BY <1>s, <2>1, Arrives
    <2> HIDE DEF m
    <2>k. PICK k \in Nat : k = Len(inbox) + 1
        BY <2>3
    <2>4. k \in DOMAIN inbox' /\ inbox'[k] = m /\ PropsAt(k)'
        BY <2>2, <2>3, <2>k DEF PropsAt
    <2>5. \A i \in DOMAIN inbox' : i = k \/ k > i
        BY <2>3, <2>k
    <2> QED
        BY <2>1, <2>2, <2>4, <2>5 DEF AnnouncedInOrder
<1> QED
    BY <1>2, <1>3, <1>4, <1>5 DEF Next, Service, Emitters

\* The status is that of the driver's phase, and an operation that is over has
\* its answer under way until the client stops it.
LEMMA NextPhase == IInv /\ Next => PhaseReported'
<1> SUFFICES ASSUME IInv, Next PROVE PhaseReported'
    OBVIOUS
<1>t. TypeOK /\ NothingLeftRunning /\ Working /\ PhaseReported
    BY DEF IInv
<1>s. inbox \in Seq(Signals)
    BY <1>t, SignalsTyped
<1>1. CASE Activate \/ do_shutdown
    BY <1>t, <1>1 DEF Activate, do_shutdown, PhaseReported, Running, NothingLeftRunning,
                      StatusAt, Ends
<1>2. CASE stop \/ on_result
    <2>1. Stopped /\ mode' = "none"
        BY <1>2 DEF stop, finish, on_result
    <2> QED
        BY <2>1 DEF Stopped, PhaseReported, Running
<1>3. CASE \E m \in {"verify", "enroll"} : start(m)
    BY <1>3 DEF start, PhaseReported
<1>4. CASE \/ sync_prompt \/ OtherClient \/ \E m \in {"verify", "enroll"} : start_refused(m)
    <2>1. UNCHANGED <<op, phase, status, inbox>> /\ (Running' => Running /\ mode' = mode)
        BY <1>4 DEF sync_prompt, OtherClient, start_refused, service, client, Running
    <2> QED
        BY <1>t, <2>1 DEF PhaseReported, StatusAt, Ends
<1>5. CASE on_props \/ on_retry \/ on_stage
    <2>1. UNCHANGED <<op, mode, phase, status>> /\ inbox # <<>> /\ inbox' = Tail(inbox)
        BY <1>5 DEF on_props, on_retry, on_stage, Signal, service
    <2>2. /\ 1 \in DOMAIN inbox /\ Head(inbox) = inbox[1]
          /\ Len(inbox) \in Nat /\ DOMAIN inbox = 1 .. Len(inbox)
          /\ DOMAIN inbox' = 1 .. Len(inbox) - 1
          /\ \A i \in DOMAIN inbox' : i + 1 \in DOMAIN inbox /\ inbox'[i] = inbox[i + 1]
        <3>1. inbox' \in Seq(Signals) /\ Len(inbox') = Len(inbox) - 1
            BY <1>s, <2>1, Dispatched
        <3> QED
            BY <1>s, <2>1, <3>1, Dispatched
    <2>3. ~(StatusAt(1) /\ Ends(1))
        BY <1>5, <2>2 DEF on_props, on_retry, on_stage, Signal, StatusAt, Ends
    <2>4. ASSUME phase' = "over"
          PROVE  \E i \in DOMAIN inbox' : StatusAt(i)' /\ Ends(i)'
        <3>1. PICK k \in DOMAIN inbox : StatusAt(k) /\ Ends(k)
            BY <1>t, <2>1, <2>4 DEF PhaseReported
        <3>2. k - 1 \in DOMAIN inbox' /\ inbox'[k - 1] = inbox[k]
            <4>1. k # 1
                BY <2>3, <3>1
            <4>2. k - 1 \in DOMAIN inbox' /\ (k - 1) + 1 = k
                BY <2>2, <4>1
            <4> QED
                BY <2>2, <4>2
        <3>3. StatusAt(k - 1)' /\ Ends(k - 1)'
            BY <3>1, <3>2 DEF StatusAt, Ends
        <3> QED
            BY <3>2, <3>3
    <2> QED
        BY <1>t, <2>1, <2>4 DEF PhaseReported, Running
<1>6. CASE Announce
    <2> DEFINE m == [type |-> "props", status |-> status]
    <2>1. m \in Signals /\ inbox' = Append(inbox, m)
        BY <1>t, <1>6 DEF Announce, Signals, TypeOK
    <2>2. \A i \in DOMAIN inbox : i \in DOMAIN inbox' /\ inbox'[i] = inbox[i]
        BY <1>s, <2>1, Arrives
    <2>3. UNCHANGED <<op, mode, phase, status>>
        BY <1>6 DEF Announce, client, service
    <2> QED
        BY <1>t, <2>2, <2>3 DEF PhaseReported, Running, StatusAt, Ends
<1>7. CASE Calibrated \/ FingerSeen \/ Scored
    BY <1>t, <1>7 DEF Calibrated, FingerSeen, Scored, Rest, client, PhaseReported, Running
<1>8. CASE Emitters
    <2>1. UNCHANGED <<op, mode>>
        BY <1>8 DEF Emitters, Retry, Stage, Released, OpFails, Rest, client
    <2>2. /\ phase' = "asking" => status' = Needed
          /\ phase' = "reading" => status' = Both
          /\ phase' = "lifting" => status' = Present
        BY <1>8 DEF Emitters, Retry, Stage, Released, OpFails
    <2>3. ASSUME phase' = "over"
          PROVE  \E i \in DOMAIN inbox' : StatusAt(i)' /\ Ends(i)'
        <3>1. PICK r \in {"match", "nomatch", "completed", "failed"} : Emits(r)
            BY <1>8, <2>3 DEF Emitters, Retry, Stage, Released, OpFails
        <3>2. phase # "none" /\ r \in Results
            BY <1>8 DEF Emitters, Retry, Stage, Released, OpFails, Results
        <3>3. /\ Len(inbox) \in Nat /\ DOMAIN inbox' = 1 .. Len(inbox) + 1
              /\ inbox'[Len(inbox) + 1].type = "status" /\ inbox'[Len(inbox) + 1].result = r
            BY <3>1, <3>2, AfterEmit
        <3>k. PICK k \in Nat : k = Len(inbox) + 1
            BY <3>3
        <3>4. k \in DOMAIN inbox' /\ inbox'[k].type = "status" /\ inbox'[k].result = r
            BY <3>3, <3>k
        <3>5. StatusAt(k)' /\ Ends(k)'
            BY <3>4 DEF StatusAt, Ends
        <3> QED
            BY <3>4, <3>5
    <2> QED
        BY <1>t, <2>1, <2>2, <2>3 DEF PhaseReported, Running
<1> QED
    BY <1>1, <1>2, <1>3, <1>4, <1>5, <1>6, <1>7, <1>8 DEF Next, Dispatch, Service, Emitters

\* The screen follows the cache, and nothing moves before the first request.
LEMMA NextScreen == IInv /\ Next => ScreenFollows'
<1> SUFFICES ASSUME IInv, Next PROVE ScreenFollows'
    OBVIOUS
<1>t. TypeOK /\ NothingLeftRunning /\ Working /\ ScreenFollows
    BY DEF IInv
<1>n. opid \in Nat /\ retried \in BOOLEAN /\ cache \in Status
    BY <1>t DEF TypeOK
<1>q. /\ Both.need /\ Needed.need /\ ~Present.need /\ ~NoFinger.need /\ Needed # NoFinger
      /\ Both # Present /\ Both # Needed /\ Needed # Present
    BY DEF Both, Needed, Present, NoFinger
<1> USE DEF ScreenFollows
<1>1. CASE Activate
    BY <1>t, <1>1 DEF Activate, Running, NothingAsked, hist
<1>2. CASE stop
    <2>1. mode' = "none" /\ screen' = "idle" /\ phase' = "none" /\ opid' = opid
          /\ op # "none"
        BY <1>2 DEF stop, finish, Stopped, IInv, PhaseReported, Running
    <2>2. opid > 0
        BY <1>t, <2>1 DEF Working
    <2>3. ~Running' /\ ~NothingAsked'
        BY <1>n, <2>1, <2>2 DEF Running, NothingAsked
    <2> QED
        BY <2>3
<1>3. CASE sync_prompt
    <2>1. screen' = screen \/ (screen' = "wait" /\ Running /\ cache = Needed)
        BY <1>3 DEF sync_prompt
    <2>2. UNCHANGED <<mode, cache, inbox, opid, phase, retried, status, told>>
        BY <1>3 DEF sync_prompt, service, hist
    <2>3. NothingAsked' <=> NothingAsked
        BY <2>2 DEF NothingAsked
    <2> QED
        BY <1>t, <1>q, <2>1, <2>2, <2>3 DEF Running
<1>4. CASE do_shutdown
    BY <1>t, <1>4 DEF do_shutdown, Running, NothingAsked, hist
<1>5. ASSUME NEW m \in {"verify", "enroll"}, start(m) PROVE ScreenFollows'
    <2>1. screen' = "prep" /\ opid' = opid + 1 /\ UNCHANGED <<cache, inbox, status, told>>
        BY <1>5 DEF start
    <2>2. NothingAsked' => opid = 0
        BY <1>n, <2>1 DEF NothingAsked
    <2> QED
        BY <1>t, <2>1, <2>2 DEF NothingAsked
<1>6. ASSUME NEW m \in {"verify", "enroll"}, start_refused(m) PROVE ScreenFollows'
    BY <1>t, <1>6 DEF start_refused, Running, NothingAsked, service, hist
<1>7. CASE Dispatch
    <2>1. inbox # <<>>
        BY <1>7 DEF Dispatch, on_props, on_result, on_retry, on_stage, Signal
    <2>2. ~NothingAsked
        BY <1>t, <2>1
    <2>3. CASE on_props
        <3>1. UNCHANGED <<opid, phase, retried, mode>>
            BY <2>3 DEF on_props, service, hist
        <3>2. ~NothingAsked'
            BY <2>2, <3>1 DEF NothingAsked
        <3>3. cache' \in Status
            <4>1. Head(inbox) \in Signals /\ Head(inbox).type = "props"
                BY <1>t, <2>1, <2>3, Dispatched, SignalsTyped DEF on_props, Signal
            <4> QED
                BY <1>t, <2>3, <4>1, SignalsTyped DEF on_props
        <3>4. cache'.need => cache' \in {Both, Needed}
            BY <3>3 DEF Status, Both, Needed
        <3>5. Running /\ cache' = Both => screen' = "hold"
            BY <1>q, <2>3, Zenon DEF on_props
        <3>6. Running /\ cache' = Needed => screen' = "wait"
            BY <1>q, <2>3, Zenon DEF on_props
        <3> QED
            BY <3>1, <3>2, <3>4, <3>5, <3>6 DEF Running
    <2>4. CASE on_result
        <3>1. mode' = "none" /\ phase' = "none" /\ opid' = opid
            BY <2>4 DEF on_result, Stopped
        <3>2. opid # 0
            BY <2>2 DEF NothingAsked
        <3> QED
            BY <3>1, <3>2 DEF Running, NothingAsked
    <2>5. CASE on_retry \/ on_stage
        <3>1. UNCHANGED <<opid, phase, retried>> /\ screen' \in {"wait", "nomatch"}
            BY <2>5 DEF on_retry, on_stage, say_zone, service, hist
        <3> QED
            BY <2>2, <3>1 DEF NothingAsked
    <2> QED
        BY <1>7, <2>3, <2>4, <2>5 DEF Dispatch
<1>8. CASE Announce
    <2>1. told # status /\ UNCHANGED <<mode, screen, cache, opid, phase, retried>>
        BY <1>8 DEF Announce, client, service, hist
    <2>2. ~NothingAsked
        BY <1>t, <2>1
    <2> QED
        BY <1>t, <2>1, <2>2 DEF NothingAsked, Running
<1>9. CASE OtherClient
    BY <1>t, <1>9 DEF OtherClient, client, hist, NothingAsked, Running
<1>10. CASE Calibrated \/ FingerSeen \/ Scored \/ Emitters
    <2>1. UNCHANGED <<mode, screen, cache, opid>> /\ phase # "none"
        BY <1>10 DEF Calibrated, FingerSeen, Scored, Emitters, Retry, Stage, Released, OpFails,
                     Rest, client
    <2>2. opid > 0
        BY <1>t, <2>1 DEF Working
    <2>3. phase' # "calib" \/ retried'
        BY <1>10 DEF Calibrated, FingerSeen, Scored, Emitters, Retry, Stage, Released, OpFails
    <2>4. ~NothingAsked'
        BY <1>n, <2>1, <2>2, <2>3 DEF NothingAsked
    <2> QED
        BY <1>t, <2>1, <2>4 DEF Running
<1> QED
    BY <1>1, <1>2, <1>3, <1>4, <1>5, <1>6, <1>7, <1>8, <1>9, <1>10 DEF Next, Service, Emitters

LEMMA NextIInv == IInv /\ [Next]_vars => IInv'
<1> SUFFICES ASSUME IInv, [Next]_vars PROVE IInv'
    OBVIOUS
<1>1. CASE Next
    <2>1. TypeOK'
        BY <1>1, ClientKeepsType, DispatchKeepsType, ServiceKeepsType DEF Next, IInv, Working
    <2>2. NothingLeftRunning' /\ Working' /\ AnswersInOrder'
        BY <1>1, <2>1, NextWorking, NextAnswers
    <2>3. AnnouncedInOrder' /\ PhaseReported' /\ ScreenFollows'
        BY <1>1, NextAnnounced, NextPhase, NextScreen
    <2> QED
        BY <2>1, <2>2, <2>3 DEF IInv
<1>2. CASE UNCHANGED vars
    <2>1. TypeOK'
        BY <1>2 DEF IInv, TypeOK, vars, client, service, hist
    <2>2. NothingLeftRunning' /\ Working'
        BY <1>2 DEF IInv, NothingLeftRunning, Working, Running, vars, client, service
    <2>3. AnswersInOrder'
        BY <1>2, AnswersKept DEF vars, client, service, hist
    <2>4. AnnouncedInOrder'
        BY <1>2 DEF IInv, AnnouncedInOrder, PropsAt, vars, client
    <2>5. PhaseReported'
        BY <1>2 DEF IInv, PhaseReported, StatusAt, Ends, Running, vars, client, service
    <2>6. ScreenFollows'
        BY <1>2 DEF IInv, ScreenFollows, NothingAsked, Running, vars, client, service, hist
    <2> QED
        BY <2>1, <2>2, <2>3, <2>4, <2>5, <2>6 DEF IInv
<1> QED
    BY <1>1, <1>2

\* The inductive invariant.
THEOREM Invariance == Spec => []IInv
<1>1. Init => IInv
    BY InitIInv
<1>2. IInv /\ [Next]_vars => IInv'
    BY NextIInv
<1> QED
    BY <1>1, <1>2, PTL DEF Spec

\* Every variable has its type; in particular the coverage never passes the
\* number of stages, however the signals arrive.
THEOREM TypeCorrect == Spec => []TypeOK
<1>1. IInv => TypeOK
    BY DEF IInv
<1> QED
    BY <1>1, Invariance, PTL

\* A window that shows no operation has none running behind it.
THEOREM SensorReleased == Spec => []NothingLeftRunning
<1>1. IInv => NothingLeftRunning
    BY DEF IInv
<1> QED
    BY <1>1, Invariance, PTL

\* Once the client has handled every signal, its screen asks for no finger before
\* the driver of a first operation does, and tells the user to lift the finger
\* only when an image has been taken: the cache then is the status reported, the
\* status is that of the phase, and the screen follows the cache.
THEOREM ScreenTellsTheTruth == Spec => []ScreenIsTrue
<1>1. IInv => ScreenIsTrue
    <2> SUFFICES ASSUME IInv, Quiet, Running PROVE
                   /\ screen = "wait" /\ phase = "calib" => retried \/ opid > 1
                   /\ screen = "lift" => phase \in {"lifting", "calib"}
        BY DEF ScreenIsTrue, FirstPromptWaits, LiftMeansCaptured
    <2>t. TypeOK /\ Working /\ AnnouncedInOrder /\ PhaseReported /\ ScreenFollows
        BY DEF IInv
    <2>1. DOMAIN inbox = {}
        BY DEF Quiet
    <2>2. cache = status /\ phase # "over"
        BY <2>t, <2>1 DEF Quiet, AnnouncedInOrder, PhaseReported
    <2>3. phase # "none" /\ opid > 0 /\ opid \in Nat
        BY <2>t DEF PhaseReported, Working, Running, TypeOK
    <2>4. ASSUME screen = "wait", phase = "calib" PROVE retried \/ opid > 1
        BY <2>t, <2>3, <2>4 DEF ScreenFollows, NothingAsked
    <2>5. ASSUME screen = "lift" PROVE phase \in {"lifting", "calib"}
        <3>1. ~cache.need
            BY <2>t, <2>5 DEF ScreenFollows
        <3>2. phase \notin {"asking", "reading"}
            BY <2>t, <2>2, <3>1 DEF PhaseReported, Needed, Both
        <3> QED
            BY <2>t, <2>2, <2>3, <3>2 DEF TypeOK
    <2> QED
        BY <2>4, <2>5
<1> QED
    BY <1>1, Invariance, PTL

\* Unless an operation was stopped with its answer under way, every answer that
\* the client acts on is that of the operation it shows: the blocking stop at
\* the end of each operation is what the signals, which carry no name, rely on.
THEOREM AnswersAreOwn == Spec => AnswersOwnOperation
<1> DEFINE Own == on_result \/ on_retry \/ on_stage =>
                     overtaken \/ (Running /\ Head(inbox).op = opid)
<1>1. IInv => Own
    <2> SUFFICES ASSUME IInv, on_result \/ on_retry \/ on_stage, ~overtaken
                 PROVE  Running /\ Head(inbox).op = opid
        OBVIOUS
    <2>1. /\ inbox # <<>> /\ inbox' = Tail(inbox) /\ mode # "closed"
          /\ Head(inbox).type = "status"
        BY DEF on_result, on_retry, on_stage, Signal
    <2>2. inbox \in Seq(Signals)
        BY SignalsTyped DEF IInv
    <2>3. 1 \in DOMAIN inbox /\ Head(inbox) = inbox[1]
        BY <2>1, <2>2, Dispatched
    <2> QED
        BY <2>1, <2>3 DEF IInv, AnswersInOrder, StatusAt
<1>2. IInv => [Own]_vars
    BY <1>1
<1> QED
    BY <1>2, Invariance, PTL DEF AnswersOwnOperation
=============================================================================
