--------------------------- MODULE OperationProofs ---------------------------
(***************************************************************************)
(* Proofs about Operation, for every value of its constants: the inductive *)
(* invariant IInv, the safety properties it implies, the action properties *)
(* and the refinement of OperationContract.                                *)
(***************************************************************************)
EXTENDS Operation, TLAPS

\* While at most one source is armed, g_timeout_add finds a free identifier,
\* so the source it arms is well typed.
LEMMA NewIdIsSourceId ==
    ASSUME TypeOK, ExclusiveSensor
    PROVE  NewId \in SourceIds
<1>1. \E i \in SourceIds : i # poll_id /\ \A s \in sources : s.id # i
  <2>1. CASE sources = {}
    BY <2>1 DEF SourceIds, TypeOK
  <2>2. CASE sources # {}
    <3>1. PICK s \in sources : TRUE
      BY <2>2
    <3>2. \A r \in sources : r = s
      BY <3>1 DEF ExclusiveSensor
    <3>3. \E i \in {1, 2, 3} : i # poll_id /\ i # s.id
      OBVIOUS
    <3> QED
      BY <3>2, <3>3 DEF SourceIds
  <2> QED
    BY <2>1, <2>2
<1> QED
  BY <1>1 DEF NewId

\* A fresh GxWork is well typed.
LEMMA NoWorkIsWork == NoWork \in Work /\ NoWork.extra = 0 /\ NoWork.feat = "none"
BY DEF NoWork, Work

\* The source that g_timeout_add arms carries the current SSM.
LEMMA ArmIsSource ==
    ASSUME TypeOK, ExclusiveSensor, NEW fn \in {"on", "off"}
    PROVE  Arm(fn) \in Source /\ Arm(fn).fn = fn /\ Arm(fn).ssm = ssm
<1>1. NewId \in SourceIds
  BY NewIdIsSourceId
<1> QED
  BY <1>1 DEF Arm, Source, TypeOK

\* A device that was just created satisfies the invariant.
LEMMA InitIInv == Init => IInv
<1> SUFFICES ASSUME Init PROVE IInv
  OBVIOUS
<1>1. TypeOK
  BY NoWorkIsWork DEF Init, TypeOK, States, Outcomes
<1>2. Shape /\ Progress /\ Presses /\ ExclusiveSensor /\ NoDanglingCallback
  BY NoWorkIsWork DEF Init, Shape, Progress, Presses, ExclusiveSensor, NoDanglingCallback, Armed
<1>3. SingleScore /\ TemplateComplete /\ StatusMatchesPhase
  BY DEF Init, SingleScore, TemplateComplete, StatusMatchesPhase, Armed
<1> QED
  BY <1>1, <1>2, <1>3 DEF IInv

\* Every callback keeps every variable in its type.
LEMMA NextTypeOK == TypeOK /\ ExclusiveSensor /\ Shape /\ [Next]_vars => TypeOK'
<1> SUFFICES ASSUME TypeOK, ExclusiveSensor, Shape, [Next]_vars PROVE TypeOK'
  OBVIOUS
<1> USE DEF TypeOK, States, Outcomes, opVars, ssmVars, pollVars, workVars, taskVars, histVars
<1>1. CASE Open
  BY <1>1 DEF Open
<1>2. CASE Close
  <2> HIDE DEF States, Outcomes
  <2>1. sources' \in SUBSET Source /\ opened' \in BOOLEAN
    BY <1>2 DEF Close
  <2>2. poll_id' \in {0} \cup SourceIds
    BY <1>2 DEF Close
  <2> QED
    BY <1>2, <2>1, <2>2 DEF Close
<1>s. ASSUME NEW op \in {"enroll", "verify"}, NEW n \in Nat, Start(op, n)
      PROVE  TypeOK'
  <2>1. ssm' \in {0, 1}
    BY <1>s DEF Start
  <2>2. work' \in Work
    BY <1>s, NoWorkIsWork DEF Start
  <2> QED
    BY <1>s, <2>1, <2>2 DEF Start
<1>3. CASE Enroll
  BY <1>3, <1>s, KeptAssumption DEF Enroll
<1>4. CASE Verify
  BY <1>4, <1>s DEF Verify
<1>5. CASE Cancel
  BY <1>5 DEF Cancel
<1>6. CASE FingerMoves
  BY <1>6 DEF FingerMoves
<1>7. CASE SessionThread
  <2>1. work' \in Work
    <3>1. PICK ok \in BOOLEAN : work' = [NoWork EXCEPT !.ok = ok]
      BY <1>7 DEF SessionThread
    <3> QED
      BY <3>1, NoWorkIsWork DEF Work
  <2> QED
    BY <1>7, <2>1 DEF SessionThread
<1>8. CASE CaptureThread
  <2>1. work' \in Work
    BY <1>8 DEF CaptureThread, Images, Work
  <2> QED
    BY <1>8, <2>1 DEF CaptureThread
<1>9. CASE CaptureExtraThread
  <2>1. work' \in Work
    BY <1>9 DEF CaptureExtraThread, Work
  <2> QED
    BY <1>9, <2>1 DEF CaptureExtraThread
<1>10. CASE SessionFails
  BY <1>10 DEF SessionFails, Complete
<1>11. CASE SessionDone
  BY <1>11, NewIdIsSourceId, ArmIsSource DEF SessionDone, EnterWaitOn
<1>12. CASE CaptureUnusableVerify
  BY <1>12 DEF CaptureUnusableVerify, Complete
<1>13. ASSUME AwaitRelease, views' \in Nat, stage' \in Nat, best' \in Nat,
             tries' \in Nat, probe' \in BOOLEAN, newPress' = newPress, gaveUp' \in BOOLEAN
      PROVE  TypeOK'
  BY <1>13, NewIdIsSourceId, ArmIsSource DEF AwaitRelease
<1>14. work.extra \in Nat
  BY DEF Work
<1>15. CASE CaptureUnusableEnroll
  BY <1>13, <1>14, <1>15 DEF CaptureUnusableEnroll
<1>16. CASE CaptureScored
  BY <1>13, <1>16, ScoresAssumption DEF CaptureScored
<1>17. CASE CaptureStage
  <2>1. views' \in Nat /\ stage' \in Nat
    BY <1>14, <1>17 DEF CaptureStage
  <2> QED
    BY <1>13, <1>17, <2>1 DEF CaptureStage
<1>18. ASSUME NEW s \in Armed("on"), DispatchOn(s) PROVE TypeOK'
  <2>1. CASE PollCancelled(s)
    BY <2>1 DEF PollCancelled, Complete
  <2>2. CASE PollOnDetects(s)
    BY <2>2, NoWorkIsWork DEF PollOnDetects
  <2>3. CASE PollOnAgain
    BY <2>3 DEF PollOnAgain
  <2>4. CASE PollOnTimeout(s)
    BY <2>4 DEF PollOnTimeout, Complete
  <2> QED
    BY <1>18, <2>1, <2>2, <2>3, <2>4 DEF DispatchOn
<1>19. ASSUME NEW s \in Armed("off"), DispatchOff(s) PROVE TypeOK'
  <2>0. CASE PollCancelled(s)
    BY <2>0 DEF PollCancelled, Complete
  <2>1. CASE PollOffAgain
    BY <2>1 DEF PollOffAgain
  <2>2. CASE PollOffDone(s)
    BY <2>2 DEF PollOffDone, Complete, Verdict
  <2>3. CASE PollOffNextPress(s)
    BY <2>3, ArmIsSource DEF PollOffNextPress, EnterWaitOn
  <2> QED
    BY <1>19, <2>0, <2>1, <2>2, <2>3 DEF DispatchOff
<1>20. CASE UNCHANGED vars
  BY <1>20 DEF vars
<1> QED
  BY <1>1, <1>2, <1>3, <1>4, <1>5, <1>6, <1>7, <1>8, <1>9, <1>10, <1>11, <1>12,
     <1>15, <1>16, <1>17, <1>18, <1>19, <1>20
     DEF Next, Client, Worker, WorkerDone, Poll

\* No step but the end of a wait without a release makes one press look like two.
LEMMA NextPresses == IInv /\ TypeOK' /\ Next => Presses'
<1> SUFFICES ASSUME IInv, TypeOK', Next PROVE Presses'
  OBVIOUS
<1>i. TypeOK /\ Shape /\ Presses /\ ExclusiveSensor
  BY DEF IInv
<1> USE DEF Presses, opVars, ssmVars, pollVars, workVars, taskVars, histVars
<1>1. CASE Open \/ Close \/ Cancel \/ FingerMoves
  BY <1>i, <1>1 DEF Open, Close, Cancel, FingerMoves, TypeOK
<1>2. CASE Enroll \/ Verify
  BY <1>2 DEF Enroll, Verify, Start
<1>3. CASE SessionThread
  BY <1>i, <1>3 DEF SessionThread, Shape
<1>4. CASE CaptureThread
  <2>1. PICK f \in Images :
          /\ work' = [ok |-> f # "none", feat |-> f, extra |-> 0,
                      fresh |-> f = "good" /\ newPress]
          /\ worker' \in {"capture_extra", "capture_ret"}
    BY <1>4 DEF CaptureThread
  <2>2. state' = "CAPTURE" /\ UNCHANGED <<finger, gaveUp>>
    BY <1>i, <1>4 DEF CaptureThread, Shape
  <2>3. f = "good" => finger
    BY DEF Images
  <2>4. gaveUp \/ (f = "good" => newPress)
    BY <1>i, <1>4, <2>3 DEF CaptureThread
  <2>5. newPress \in BOOLEAN
    BY <1>i DEF TypeOK
  <2>6. work'.feat = f /\ work'.fresh = (f = "good" /\ newPress)
    BY <2>1
  <2> QED
    BY <2>1, <2>2, <2>4, <2>5, <2>6
<1>5. CASE CaptureExtraThread
  <2>1. work'.feat = work.feat /\ work'.fresh = work.fresh
    BY <1>i, <1>5 DEF CaptureExtraThread, Work, TypeOK
  <2>2. state = "CAPTURE"
    BY <1>i, <1>5 DEF CaptureExtraThread, Shape
  <2> QED
    BY <1>i, <1>5, <2>1, <2>2 DEF CaptureExtraThread
<1>6. CASE SessionFails \/ SessionDone
  BY <1>i, <1>6 DEF SessionFails, SessionDone, EnterWaitOn, Complete, Shape
<1>7. CASE CaptureUnusableVerify \/ CaptureUnusableEnroll \/ CaptureScored \/ CaptureStage
  <2>1. state' \in {"NONE", "CAPTURE"} /\ worker' = "none"
    BY <1>i, <1>7 DEF CaptureUnusableVerify, CaptureUnusableEnroll, CaptureScored, CaptureStage,
                      AwaitRelease, Complete, Shape
  <2> QED
    BY <2>1
<1>8. ASSUME NEW s \in Armed("on"), DispatchOn(s) PROVE Presses'
  <2>1. state = "WAIT_ON" /\ worker = "none"
    BY <1>i, <1>8 DEF Shape, ExclusiveSensor, Armed
  <2> QED
    BY <1>i, <1>8, <2>1
       DEF DispatchOn, PollCancelled, PollOnDetects, PollOnAgain, PollOnTimeout, Complete
<1>9. ASSUME NEW s \in Armed("off"), DispatchOff(s) PROVE Presses'
  <2>1. state = "CAPTURE" /\ worker = "none"
    BY <1>i, <1>9 DEF Shape, ExclusiveSensor, Armed
  <2>2. CASE PollCancelled(s) \/ PollOffAgain \/ PollOffDone(s)
    BY <2>1, <2>2 DEF PollCancelled, PollOffAgain, PollOffDone, Complete
  <2>3. CASE PollOffNextPress(s)
    <3>1. gaveUp' \/ ~finger'
      BY <2>3 DEF PollOffNextPress, PollOffReleased, Readings
    <3>2. worker' = "none"
      BY <2>1, <2>3 DEF PollOffNextPress
    <3> QED
      BY <3>1, <3>2
  <2> QED
    BY <1>9, <2>2, <2>3 DEF DispatchOff
<1> QED
  BY <1>1, <1>2, <1>3, <1>4, <1>5, <1>6, <1>7, <1>8, <1>9
     DEF Next, Client, Worker, WorkerDone, Poll

\* Every callback, step of the worker and move of the finger preserves the
\* invariant.
LEMMA NextIInv == IInv /\ [Next]_vars => IInv'
<1> SUFFICES ASSUME IInv, [Next]_vars PROVE IInv'
  OBVIOUS
<1> USE StagesAssumption, ScoresAssumption, KeptAssumption, PollAssumption
<1>t. TypeOK'
  BY NextTypeOK DEF IInv
<1>p. Presses'
  BY <1>t, NextPresses DEF IInv, Presses, vars, opVars, ssmVars, workVars, histVars
<1> USE <1>t, <1>p DEF IInv, Shape, Progress, ExclusiveSensor, NoDanglingCallback,
       SingleScore, TemplateComplete, StatusMatchesPhase, Armed, ViewsPerStage, MinTemplateViews,
       opVars, ssmVars, pollVars, workVars, taskVars, histVars
<1>1. CASE Open
  BY <1>1 DEF Open
<1>2. CASE Close
  <2>1. sources' = {}
    BY <1>2 DEF Close
  <2> QED
    BY <1>2, <2>1 DEF Close
<1>3. CASE Enroll
  BY <1>3, NoWorkIsWork DEF Enroll, Start
<1>4. CASE Verify
  BY <1>4, NoWorkIsWork DEF Verify, Start
<1>5. CASE Cancel
  BY <1>5 DEF Cancel
<1>6. CASE FingerMoves
  BY <1>6 DEF FingerMoves
<1>7. CASE SessionThread
  BY <1>7 DEF SessionThread
<1>8. CASE CaptureThread
  BY <1>8 DEF CaptureThread, Images, TypeOK
<1>9. CASE CaptureExtraThread
  <2>1. work'.feat = work.feat
    BY <1>9 DEF CaptureExtraThread, Work, TypeOK
  <2> QED
    BY <1>9, <2>1 DEF CaptureExtraThread
<1>10. CASE SessionFails
  BY <1>10 DEF SessionFails, Complete
<1>11. CASE SessionDone
  <2>1. PICK a \in Source : a.fn = "on" /\ a.ssm = ssm /\ sources' = {a}
    BY <1>11, ArmIsSource DEF SessionDone, EnterWaitOn
  <2> QED
    BY <1>11, <2>1 DEF SessionDone, EnterWaitOn
<1>12. CASE CaptureUnusableVerify
  BY <1>12 DEF CaptureUnusableVerify, Complete
<1>13. CASE CaptureUnusableEnroll
  <2>1. PICK a \in Source : a.fn = "off" /\ a.ssm = ssm /\ sources' = {a}
    BY <1>13, ArmIsSource DEF CaptureUnusableEnroll, AwaitRelease
  <2>2. task = "enroll" /\ task' = task /\ Armed("off") = {} /\ stage < EnrollStages
    BY <1>13 DEF CaptureUnusableEnroll, AwaitRelease
  <2>3. TemplateComplete'
    BY <1>13, <2>2 DEF CaptureUnusableEnroll, AwaitRelease, TypeOK, Work
  <2>4. Shape' /\ Progress'
    BY <1>13, <2>1, <2>2 DEF CaptureUnusableEnroll, AwaitRelease
  <2>5. (ExclusiveSensor /\ NoDanglingCallback /\ SingleScore /\ StatusMatchesPhase)'
    BY <1>13, <2>1, <2>2 DEF CaptureUnusableEnroll, AwaitRelease
  <2> QED
    BY <2>3, <2>4, <2>5
<1>14. CASE CaptureScored
  <2>1. PICK a \in Source : a.fn = "off" /\ a.ssm = ssm /\ sources' = {a}
    BY <1>14, ArmIsSource DEF CaptureScored, AwaitRelease
  <2> QED
    BY <1>14, <2>1 DEF CaptureScored, AwaitRelease
<1>15. CASE CaptureStage
  <2>1. PICK a \in Source : a.fn = "off" /\ a.ssm = ssm /\ sources' = {a}
    BY <1>15, ArmIsSource DEF CaptureStage, AwaitRelease
  <2>2. task = "enroll" /\ task' = task /\ Armed("off") = {} /\ stage < EnrollStages
    BY <1>15 DEF CaptureStage, AwaitRelease
  <2>3. TemplateComplete'
    BY <1>15, <2>2 DEF CaptureStage, AwaitRelease, TypeOK, Work
  <2>4. Shape' /\ Progress'
    BY <1>15, <2>1, <2>2 DEF CaptureStage, AwaitRelease
  <2>5. (ExclusiveSensor /\ NoDanglingCallback /\ SingleScore /\ StatusMatchesPhase)'
    BY <1>15, <2>1, <2>2 DEF CaptureStage, AwaitRelease
  <2> QED
    BY <2>3, <2>4, <2>5
<1>16. ASSUME NEW s \in Armed("on"), DispatchOn(s) PROVE IInv'
  <2>1. CASE PollCancelled(s)
    BY <1>16, <2>1 DEF PollCancelled, Complete
  <2>2. CASE PollOnDetects(s)
    BY <1>16, <2>2 DEF PollOnDetects, NoWork
  <2>3. CASE PollOnAgain
    BY <1>16, <2>3 DEF PollOnAgain
  <2>4. CASE PollOnTimeout(s)
    BY <1>16, <2>4 DEF PollOnTimeout, Complete
  <2> QED
    BY <1>16, <2>1, <2>2, <2>3, <2>4 DEF DispatchOn
<1>17. ASSUME NEW s \in Armed("off"), DispatchOff(s) PROVE IInv'
  <2>1. CASE PollCancelled(s)
    BY <1>17, <2>1 DEF PollCancelled, Complete
  <2>2. CASE PollOffAgain
    BY <1>17, <2>2 DEF PollOffAgain
  <2>3. CASE PollOffDone(s)
    <3>1. sources' = {} /\ task' = "none" /\ worker' = "none" /\ state' = "NONE"
      BY <1>17, <2>3 DEF PollOffDone, Complete
    <3>2. (Shape /\ Progress /\ ExclusiveSensor /\ NoDanglingCallback /\ StatusMatchesPhase)'
      BY <1>17, <2>3, <3>1 DEF PollOffDone, Complete
    <3>3. SingleScore'
      BY <1>17, <2>3 DEF PollOffDone, Complete, Verdict, TypeOK
    <3>4. TemplateComplete'
      BY <1>17, <2>3 DEF PollOffDone, Complete, Verdict, PollOffEnds, LastPress, TypeOK
    <3> QED
      BY <3>2, <3>3, <3>4
  <2>4. CASE PollOffNextPress(s)
    <3>1. PICK a \in Source : a.fn = "on" /\ a.ssm = ssm /\ sources' = {a}
      BY <1>17, <2>4, ArmIsSource DEF PollOffNextPress
    <3> QED
      <4>1. (Shape /\ ExclusiveSensor /\ NoDanglingCallback /\ StatusMatchesPhase)'
        BY <1>17, <2>4, <3>1 DEF PollOffNextPress, EnterWaitOn
      <4>2. (Progress /\ SingleScore /\ TemplateComplete)'
        BY <1>17, <2>4, <3>1 DEF PollOffNextPress, EnterWaitOn, LastPress, TypeOK
      <4> QED
        BY <4>1, <4>2
  <2> QED
    BY <1>17, <2>1, <2>2, <2>3, <2>4 DEF DispatchOff
<1>18. CASE UNCHANGED vars
  BY <1>18 DEF vars
<1> QED
  BY <1>1, <1>2, <1>3, <1>4, <1>5, <1>6, <1>7, <1>8, <1>9, <1>10, <1>11, <1>12,
     <1>13, <1>14, <1>15, <1>16, <1>17, <1>18
     DEF Next, Client, Worker, WorkerDone, Poll
-----------------------------------------------------------------------------
\* The inductive invariant holds of every behaviour.
THEOREM Invariance == Spec => []IInv
<1>1. Init => IInv
  BY InitIInv
<1>2. IInv /\ [Next]_vars => IInv'
  BY NextIInv
<1> QED
  BY <1>1, <1>2, PTL DEF Spec

\* Every variable keeps its type.
THEOREM TypeCorrect == Spec => []TypeOK
<1>1. IInv => TypeOK
  BY DEF IInv
<1> QED
  BY <1>1, Invariance, PTL

\* Nothing else touches the sensor while the worker thread runs: no poll is
\* armed then, and never more than one poll is armed.
THEOREM SensorIsExclusive == Spec => []ExclusiveSensor
<1>1. IInv => ExclusiveSensor
  BY DEF IInv
<1> QED
  BY <1>1, Invariance, PTL

\* No timeout and no completion callback outlives the SSM it refers to.
THEOREM CallbacksAreLive == Spec => []NoDanglingCallback
<1>1. IInv => NoDanglingCallback
  BY DEF IInv
<1> QED
  BY <1>1, Invariance, PTL

\* A running operation always has a poll or a worker that drives it.
THEOREM OperationIsDriven == Spec => []OperationDriven
<1>1. IInv => OperationDriven
  BY DEF IInv, Shape, OperationDriven
<1> QED
  BY <1>1, Invariance, PTL

\* The decision of a verification rests on exactly one capture.
THEOREM ScoredOnce == Spec => []SingleScore
<1>1. IInv => SingleScore
  BY DEF IInv
<1> QED
  BY <1>1, Invariance, PTL

\* A delivered template holds a view of every press asked of the user.
THEOREM TemplatesAreComplete == Spec => []TemplateComplete
<1>1. IInv => TemplateComplete
  BY DEF IInv
<1> QED
  BY <1>1, Invariance, PTL
-----------------------------------------------------------------------------
\* One step of the driver honours a cancellation.
LEMMA CancelHonouredStep ==
    ASSUME IInv, [Next]_vars, cancelled, task # "none"
    PROVE  /\ worker' = "capture" => worker = "capture"
           /\ task' = "none" => outcome' \in {"cancelled", "proto", "retry"}
<1> USE DEF opVars, ssmVars, pollVars, workVars, taskVars, histVars
<1>1. CASE Client
  BY <1>1 DEF Client, Open, Close, Enroll, Verify, Start, Cancel
<1>2. CASE FingerMoves
  BY <1>2 DEF FingerMoves
<1>3. CASE Worker
  BY <1>3 DEF Worker, SessionThread, CaptureThread, CaptureExtraThread
<1>4. CASE WorkerDone
  BY <1>4 DEF WorkerDone, SessionFails, SessionDone, CaptureUnusableVerify,
              CaptureUnusableEnroll, CaptureScored, CaptureStage,
              Complete, EnterWaitOn, AwaitRelease
<1>5. CASE Poll
  BY <1>5 DEF Poll, DispatchOn, DispatchOff, PollCancelled, PollOnDetects,
              PollOnAgain, PollOnTimeout, PollOffAgain, PollOffDone,
              PollOffNextPress, PollOffEnds, Complete
<1>6. CASE UNCHANGED vars
  BY <1>6 DEF vars
<1> QED
  BY <1>1, <1>2, <1>3, <1>4, <1>5, <1>6 DEF Next

\* A cancelled operation neither starts a capture, nor accepts or refuses a
\* finger, nor delivers a template.
THEOREM CancellationIsHonoured == Spec => CancelHonoured
<1>1. IInv /\ [Next]_vars =>
        [cancelled /\ task # "none" =>
          /\ worker' = "capture" => worker = "capture"
          /\ task' = "none" => outcome' \in {"cancelled", "proto", "retry"}]_vars
  BY CancelHonouredStep
<1> QED
  BY <1>1, Invariance, PTL DEF Spec, CancelHonoured

\* One step of the driver after a score is no retry.
LEMMA NoRetryAfterScoreStep ==
    ASSUME IInv, [Next]_vars, task = "verify", tries > 0, task' = "none"
    PROVE  outcome' \in {"match", "no_match", "cancelled"}
<1> USE DEF opVars, ssmVars, pollVars, workVars, taskVars, histVars
<1>1. sources # {} /\ Armed("off") = sources /\ worker = "none" /\ probe
  BY DEF IInv, Progress, ExclusiveSensor, Armed, TypeOK
<1>2. CASE Client
  BY <1>2 DEF Client, Open, Close, Enroll, Verify, Start, Cancel
<1>3. CASE FingerMoves
  BY <1>3 DEF FingerMoves
<1>4. CASE Worker \/ WorkerDone
  BY <1>1, <1>4 DEF Worker, SessionThread, CaptureThread, CaptureExtraThread,
              WorkerDone, SessionFails, SessionDone, CaptureUnusableVerify,
              CaptureUnusableEnroll, CaptureScored, CaptureStage
<1>5. CASE Poll
  BY <1>1, <1>5 DEF Poll, Armed, DispatchOff, PollCancelled, PollOffAgain, PollOffDone,
              PollOffNextPress, EnterWaitOn, Complete, Verdict
<1>6. CASE UNCHANGED vars
  BY <1>6 DEF vars
<1> QED
  BY <1>2, <1>3, <1>4, <1>5, <1>6 DEF Next

\* Once a verification has a score it ends with a verdict or its cancellation:
\* no retry depends on the score.
THEOREM RetryIgnoresScore == Spec => NoRetryAfterScore
<1>1. IInv /\ [Next]_vars =>
        [task = "verify" /\ tries > 0 /\ task' = "none" =>
          outcome' \in {"match", "no_match", "cancelled"}]_vars
  BY NoRetryAfterScoreStep
<1> QED
  BY <1>1, Invariance, PTL DEF Spec, NoRetryAfterScore

\* A step that advances the stage counts a press of its own.
LEMMA StageStep ==
    ASSUME IInv, [Next]_vars, stage' > stage
    PROVE  work.fresh \/ gaveUp
<1> USE DEF opVars, ssmVars, pollVars, workVars, taskVars, histVars
<1>t. stage \in Nat
  BY DEF IInv, TypeOK
<1>1. CASE Client
  BY <1>t, <1>1, StagesAssumption
     DEF Client, Open, Close, Enroll, Verify, Start, Cancel, IInv
<1>2. CASE FingerMoves \/ Worker
  BY <1>t, <1>2 DEF FingerMoves, Worker, SessionThread, CaptureThread, CaptureExtraThread
<1>3. CASE CaptureStage
  BY <1>3 DEF CaptureStage, IInv, Presses
<1>4. CASE \/ SessionFails \/ SessionDone \/ CaptureUnusableVerify
           \/ CaptureUnusableEnroll \/ CaptureScored
  BY <1>t, <1>4 DEF SessionFails, SessionDone, CaptureUnusableVerify, CaptureUnusableEnroll,
                    CaptureScored
<1>5. CASE Poll
  BY <1>t, <1>5 DEF Poll, DispatchOn, DispatchOff, PollCancelled, PollOnDetects, PollOnAgain,
                    PollOnTimeout, PollOffAgain, PollOffDone, PollOffNextPress
<1>6. CASE UNCHANGED vars
  BY <1>t, <1>6 DEF vars
<1> QED
  BY <1>1, <1>2, <1>3, <1>4, <1>5, <1>6 DEF Next, WorkerDone

\* A press of the finger is one stage at most, unless a wait for its release gave
\* up: the release is read from the sensor between two captures.
THEOREM PressIsOneStage == Spec => StagePerPressOrTimeout
<1>1. IInv /\ [Next]_vars => [stage' > stage => work.fresh \/ gaveUp]_vars
  BY StageStep
<1> QED
  BY <1>1, Invariance, PTL DEF Spec, StagePerPressOrTimeout
-----------------------------------------------------------------------------
\* Each step of the driver is a step of the contract or leaves it alone.
LEMMA ContractStep == IInv /\ IInv' /\ [Next]_vars => [Contract!Next]_(Contract!vars)
<1> SUFFICES ASSUME IInv, IInv', [Next]_vars
             PROVE  [Contract!Next]_(Contract!vars)
  OBVIOUS
<1> USE DEF opVars, ssmVars, pollVars, workVars, taskVars, histVars
<1> DEFINE Seen == <<task, cancelled, stage, tries, best, outcome>>
<1>0. ASSUME UNCHANGED Seen PROVE UNCHANGED Contract!vars
  BY <1>0 DEF Contract!vars
<1>1. CASE Open \/ Close \/ FingerMoves \/ Worker
  <2>1. UNCHANGED Seen
    BY <1>1 DEF Open, Close, FingerMoves, Worker, SessionThread, CaptureThread,
                CaptureExtraThread
  <2> QED
    BY <2>1, <1>0
<1>2. CASE Enroll \/ Verify
  <2>1. Contract!Start
    BY <1>2 DEF Enroll, Verify, Start, Contract!Start, Contract!NoScore
  <2> QED
    BY <2>1 DEF Contract!Next
<1>3. CASE Cancel
  <2>1. Contract!Cancel
    BY <1>3 DEF Cancel, Contract!Cancel
  <2> QED
    BY <2>1 DEF Contract!Next
<1>4. CASE SessionDone \/ CaptureUnusableEnroll
  <2>1. UNCHANGED Seen
    BY <1>4 DEF SessionDone, EnterWaitOn, CaptureUnusableEnroll, AwaitRelease
  <2> QED
    BY <2>1, <1>0
<1>5. CASE CaptureScored
  <2>1. tries = 0 /\ best = 0 /\ tries' = 1 /\ best' \in Scores
    BY <1>5, ScoresAssumption
       DEF CaptureScored, IInv, Progress, ExclusiveSensor, TypeOK, Armed
  <2>2. Contract!Score
    BY <1>5, <2>1 DEF CaptureScored, AwaitRelease, Contract!Score, Contract!NoScore
  <2> QED
    BY <2>2 DEF Contract!Next
<1>6. CASE CaptureStage
  <2>1. stage < EnrollStages
    BY <1>6 DEF CaptureStage, IInv, Progress, ExclusiveSensor, Armed
  <2>2. Contract!Press
    BY <1>6, <2>1 DEF CaptureStage, AwaitRelease, Contract!Press
  <2> QED
    BY <2>2 DEF Contract!Next
<1>7. ASSUME task # "none", Complete(outcome'), UNCHANGED <<stage, best, tries>>,
             Contract!Justified(outcome')
      PROVE  [Contract!Next]_(Contract!vars)
  BY <1>7 DEF Complete, Contract!Complete, Contract!Next
<1>8. ASSUME task # "none", tries = 0, stage < EnrollStages, outcome' = "retry"
      PROVE  Contract!Justified(outcome')
  BY <1>8 DEF Contract!Justified, Contract!NoScore
<1>9. CASE SessionFails \/ CaptureUnusableVerify
  <2>1. task # "none" /\ tries = 0 /\ stage < EnrollStages /\ (SessionFails => stage = 0)
    BY <1>9, StagesAssumption
       DEF SessionFails, CaptureUnusableVerify, IInv, Shape, Progress,
           NoDanglingCallback, ExclusiveSensor, Armed, TypeOK
  <2>2. CASE outcome' = "proto" /\ SessionFails
    BY <2>1, <2>2, <1>7 DEF SessionFails, Complete, Contract!Justified, Contract!NoScore
  <2>3. CASE outcome' = "retry"
    BY <1>9, <2>1, <2>3, <1>7, <1>8 DEF SessionFails, CaptureUnusableVerify, Complete
  <2> QED
    BY <1>9, <2>2, <2>3 DEF SessionFails, CaptureUnusableVerify, Complete
<1>10. ASSUME NEW s \in Armed("on"), DispatchOn(s)
       PROVE  [Contract!Next]_(Contract!vars)
  <2>1. task # "none" /\ tries = 0 /\ stage < EnrollStages
    BY <1>10, StagesAssumption
       DEF IInv, Shape, Progress, NoDanglingCallback, ExclusiveSensor, Armed, TypeOK
  <2>2. CASE PollCancelled(s)
    BY <2>1, <2>2, <1>7 DEF PollCancelled, Complete, Contract!Justified
  <2>3. CASE PollOnDetects(s) \/ PollOnAgain
    <3>1. UNCHANGED Seen
      BY <2>3 DEF PollOnDetects, PollOnAgain
    <3> QED
      BY <3>1, <1>0
  <2>4. CASE PollOnTimeout(s)
    BY <2>1, <2>4, <1>7, <1>8 DEF PollOnTimeout, Complete
  <2> QED
    BY <1>10, <2>2, <2>3, <2>4 DEF DispatchOn
<1>11. ASSUME NEW s \in Armed("off"), DispatchOff(s)
       PROVE  [Contract!Next]_(Contract!vars)
  <2>1. task # "none"
    BY <1>11 DEF IInv, NoDanglingCallback, Armed
  <2>2. CASE PollCancelled(s)
    BY <2>1, <2>2, <1>7 DEF PollCancelled, Complete, Contract!Justified
  <2>3. CASE PollOffAgain \/ PollOffNextPress(s)
    <3>1. UNCHANGED Seen
      BY <2>3 DEF PollOffAgain, PollOffNextPress, EnterWaitOn
    <3> QED
      BY <3>1, <1>0
  <2>4. CASE PollOffDone(s)
    <3>1. outcome' = Verdict /\ ~cancelled /\ LastPress
      BY <2>4 DEF PollOffDone, Complete, PollOffEnds
    <3>2. CASE task = "enroll"
      <4>1. outcome' = "template" /\ stage = EnrollStages
        BY <3>1, <3>2, StagesAssumption
           DEF Verdict, LastPress, IInv, TemplateComplete, MinTemplateViews, TypeOK
      <4> QED
        BY <2>1, <2>4, <3>1, <3>2, <4>1, <1>7 DEF PollOffDone, Complete, Contract!Justified
    <3>3. CASE task = "verify"
      <4>1. tries = 1 /\ probe /\ best \in Nat /\ MatchThreshold \in Nat
        BY <1>11, <3>3, ScoresAssumption DEF IInv, Progress, TypeOK
      <4>2. outcome' = IF best >= MatchThreshold THEN "match" ELSE "no_match"
        BY <3>1, <3>3, <4>1 DEF Verdict
      <4>3. Contract!Justified(outcome')
        BY <3>1, <3>3, <4>1, <4>2 DEF Contract!Justified, Contract!NoScore
      <4> QED
        BY <2>1, <2>4, <4>3, <1>7 DEF PollOffDone, Complete
    <3> QED
      BY <2>1, <3>2, <3>3 DEF IInv, TypeOK
  <2> QED
    BY <1>11, <2>2, <2>3, <2>4 DEF DispatchOff
<1>12. CASE UNCHANGED vars
  <2>1. UNCHANGED Seen
    BY <1>12 DEF vars
  <2> QED
    BY <2>1, <1>0
<1> QED
  BY <1>1, <1>2, <1>3, <1>4, <1>5, <1>6, <1>9, <1>10, <1>11, <1>12
     DEF Next, Client, WorkerDone, Poll

\* The driver implements the contract: whatever the worker, the polls and the
\* finger do, libfprint sees only justified results.
THEOREM DriverImplementsContract == Spec => ImplementsContract
<1>1. Init => Contract!Init
  BY DEF Init, Contract!Init, Contract!NoScore
<1>2. IInv /\ IInv' /\ [Next]_vars => [Contract!Next]_(Contract!vars)
  BY ContractStep
<1> QED
  BY <1>1, <1>2, Invariance, PTL DEF Spec, ImplementsContract, Contract!Spec

\* What the user is told to do with the finger fits the phase the operation is
\* in, for any number of stages, retries and polls.
THEOREM StatusFitsPhase == Spec => []StatusMatchesPhase
<1>1. IInv => StatusMatchesPhase
  BY DEF IInv
<1> QED
  BY <1>1, Invariance, PTL
=============================================================================
