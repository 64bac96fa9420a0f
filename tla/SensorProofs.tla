----------------------------- MODULE SensorProofs -----------------------------
(***************************************************************************)
(* Theorems about the two things a device is opened and started with: the  *)
(* lock on the node (SensorLock), for any set of processes and any number  *)
(* of attempts, and the calibration of detection (Calibration), for every  *)
(* unit and every press the thresholds are meant for.  The two share no    *)
(* state; their variables stand side by side.                              *)
(***************************************************************************)
EXTENDS Calibration, SensorLock, TLAPS

(* The lock *)
\* No process has the node open at first.
LEMMA LockInitially == LockInit => LockInv
BY ProcAssumption, AttemptAssumption
   DEF LockInit, LockInv, LockTypeOK, HolderHasNode, TalksUnderLock, Talking, ClosedHasNoNode, InOpen, Places

\* Each step of one process preserves the invariant of all of them.
LEMMA LockStep == LockInv /\ [LockNext]_lockVars => LockInv'
<1> SUFFICES ASSUME LockInv, [LockNext]_lockVars PROVE LockInv'
  OBVIOUS
<1> USE ProcAssumption, AttemptAssumption
<1> USE DEF LockInv, LockTypeOK, HolderHasNode, TalksUnderLock, Talking, ClosedHasNoNode,
            InOpen, Places, Goto, FdIs
<1>1. ASSUME NEW p \in Procs, OpenNode(p) PROVE LockInv'
  BY <1>1 DEF OpenNode
<1>2. ASSUME NEW p \in Procs, Opening(p) PROVE LockInv'
  <2>1. CASE LockNode(p)
    <3>1. LockTypeOK'
      BY <2>1 DEF LockNode, CanLock
    <3>5. fd[p] /\ holder' = p
      BY <2>1 DEF LockNode
    <3>2. (HolderHasNode /\ ClosedHasNoNode)'
      BY <2>1, <3>5 DEF LockNode
    <3>3. TalksUnderLock'
      BY <2>1 DEF LockNode, CanLock
    <3>4. \A r \in Procs : InOpen(r)'
      BY <2>1 DEF LockNode, CanLock
    <3> QED
      BY <3>1, <3>2, <3>3, <3>4
  <2>2. CASE Refused(p)
    BY <2>2 DEF Refused, CanLock
  <2>3. CASE Reset(p)
    <3>1. LockTypeOK'
      BY <2>3 DEF Reset, Exchange
    <3>2. (HolderHasNode /\ ClosedHasNoNode)'
      BY <2>3 DEF Reset, Exchange
    <3>3. TalksUnderLock'
      BY <2>3 DEF Reset, Exchange
    <3>4. \A r \in Procs : InOpen(r)'
      BY <2>3 DEF Reset, Exchange
    <3> QED
      BY <3>1, <3>2, <3>3, <3>4
  <2>4. CASE PskRead(p)
    BY <2>4 DEF PskRead, Exchange
  <2>5. CASE PskFails(p)
    BY <2>5 DEF PskFails, NextAttempt, Exchange
  <2>6. CASE PskFailsCloses(p)
    BY <2>6 DEF PskFailsCloses, ReleaseBy, Exchange
  <2>7. CASE ReopenNode(p)
    <3>1. LockTypeOK'
      BY <2>7 DEF ReopenNode
    <3>2. (HolderHasNode /\ ClosedHasNoNode)'
      BY <2>7 DEF ReopenNode
    <3>5. ~Talking(p)'
      BY <2>7 DEF ReopenNode
    <3>3. TalksUnderLock'
      BY <2>7, <3>5 DEF ReopenNode
    <3>4. \A r \in Procs : InOpen(r)'
      BY <2>7 DEF ReopenNode
    <3> QED
      BY <3>1, <3>2, <3>3, <3>4
  <2>8. CASE Relock(p)
    <3>1. LockTypeOK'
      BY <2>8 DEF Relock, CanLock, NextAttempt, Exchange
    <3>5. fd[p] /\ at'[p] \in {"drain", "open"} /\ fd' = fd
      BY <2>8 DEF Relock, NextAttempt
    <3>6. \A r \in Procs \ {p} : at'[r] = at[r]
      BY <2>8 DEF Relock, NextAttempt
    <3>2. (HolderHasNode /\ ClosedHasNoNode)'
      BY <2>8, <3>5, <3>6 DEF Relock
    <3>3. TalksUnderLock'
      BY <2>8 DEF Relock, CanLock, NextAttempt
    <3>4. \A r \in Procs : InOpen(r)'
      BY <2>8 DEF Relock, CanLock, NextAttempt
    <3> QED
      BY <3>1, <3>2, <3>3, <3>4
  <2>9. CASE Drain(p)
    BY <2>9 DEF Drain
  <2>10. CASE Drained(p)
    BY <2>10 DEF Drained, Exchange
  <2> QED
    BY <1>2, <2>1, <2>2, <2>3, <2>4, <2>5, <2>6, <2>7, <2>8, <2>9, <2>10 DEF Opening
<1>3. ASSUME NEW p \in Procs, Close(p) \/ Die(p) PROVE LockInv'
  <2>1. LockTypeOK'
    <3>1. 0 \in 0 .. PskAttempts + 1
      OBVIOUS
    <3>2. att' \in [Procs -> 0 .. PskAttempts + 1]
      BY <1>3, <3>1 DEF Close, Die, LeaveNode
    <3>3. holder' \in Procs \cup {NoProc}
      BY <1>3 DEF Close, Die, LeaveNode, ReleaseBy
    <3> QED
      BY <1>3, <3>2, <3>3 DEF Close, Die, LeaveNode
  <2>2. (HolderHasNode /\ ClosedHasNoNode)'
    BY <1>3 DEF Close, Die, LeaveNode, ReleaseBy
  <2>3. TalksUnderLock'
    BY <1>3 DEF Close, Die, LeaveNode, ReleaseBy
  <2>4. \A r \in Procs : InOpen(r)'
    BY <1>3 DEF Close, Die, LeaveNode, ReleaseBy
  <2> QED
    BY <2>1, <2>2, <2>3, <2>4
<1>4. ASSUME NEW p \in Procs, Use(p) PROVE LockInv'
  BY <1>4 DEF Use
<1>5. CASE SensorSends
  BY <1>5 DEF SensorSends
<1>6. CASE UNCHANGED lockVars
  BY <1>6 DEF lockVars
<1> QED
  BY <1>1, <1>2, <1>3, <1>4, <1>5, <1>6 DEF LockNext

\* The inductive invariant holds of every behaviour.
THEOREM LockInvariance == LockSpec => []LockInv
<1>1. LockInit => LockInv
  BY LockInitially
<1>2. LockInv /\ [LockNext]_lockVars => LockInv'
  BY LockStep
<1> QED
  BY <1>1, <1>2, PTL DEF LockSpec

\* Whoever talks to the sensor holds the lock or has lost it in gx_read_psk.
THEOREM TalkingIsLocked == LockSpec => []TalksUnderLock
<1>1. LockInv => TalksUnderLock
  BY DEF LockInv
<1> QED
  BY <1>1, LockInvariance, PTL

\* The dialogues of two processes interleave only after a reopened node was
\* not locked again.
THEOREM ExclusionUnlessReopened == LockSpec => []ExclusiveUnlessReopened
<1>1. LockInv => ExclusiveUnlessReopened
  BY DEF LockInv, TalksUnderLock, ExclusiveUnlessReopened
<1> QED
  BY <1>1, LockInvariance, PTL

\* The lock never outlives the descriptor it was taken on, whoever dies, gives
\* up or reopens the node meanwhile.
THEOREM LockHasNode == LockSpec => []HolderHasNode
<1>1. LockInv => HolderHasNode
  BY DEF LockInv
<1> QED
  BY <1>1, LockInvariance, PTL

\* No path through gx_dev_open, gx_read_psk or gx_dev_close leaks a descriptor.
THEOREM NoLeakedNode == LockSpec => []ClosedHasNoNode
<1>1. LockInv => ClosedHasNoNode
  BY DEF LockInv
<1> QED
  BY <1>1, LockInvariance, PTL

\* Every variable has its type; no open tries more often than PskAttempts.
THEOREM LockTypeCorrect == LockSpec => []LockTypeOK
<1>1. LockInv => LockTypeOK
  BY DEF LockInv
<1> QED
  BY <1>1, LockInvariance, PTL

-----------------------------------------------------------------------------
(* The calibration *)

\* The average of at most four values is a value, and the average of equal
\* values is that value.
LEMMA AverageIsNat ==
    ASSUME NEW a \in Nat, NEW n \in 1 .. BaselineProbes
    PROVE  a \div n \in Nat
<1>1. n = 1 \/ n = 2 \/ n = 3 \/ n = 4
  BY DEF BaselineProbes
<1>2. a \div 1 \in Nat /\ a \div 2 \in Nat /\ a \div 3 \in Nat /\ a \div 4 \in Nat
  OBVIOUS
<1> QED
  BY <1>1, <1>2

\* The average of n equal values is that value.
LEMMA AverageOfEqual ==
    ASSUME NEW m \in Nat, NEW n \in 1 .. BaselineProbes
    PROVE  (n * m) \div n = m
<1>1. n = 1 \/ n = 2 \/ n = 3 \/ n = 4
  BY DEF BaselineProbes
<1>2. (1 * m) \div 1 = m /\ (2 * m) \div 2 = m /\ (3 * m) \div 3 = m /\ (4 * m) \div 4 = m
  OBVIOUS
<1> QED
  BY <1>1, <1>2

\* A press never pulls the mean below zero.
LEMMA MeanIsNat == TypeOK => Mean \in Nat /\ idle \in Nat /\ press \in Nat
BY MeansAssumption DEF TypeOK, Mean

\* A device that was just created satisfies the invariant.
LEMMA InitIInv == Init => IInv
<1> SUFFICES ASSUME Init PROVE IInv
  OBVIOUS
<1> USE MeansAssumption DEF Init
<1>1. before \in [tainted : BOOLEAN, abs : Int]
  OBVIOUS
<1>0. /\ 0 \in 0 .. WaitMax /\ 0 \in 0 .. BaselineProbes /\ 0 \in 0 .. 0
      /\ FdtAbs \in Int
  BY DEF BaselineProbes
<1>2. TypeOK
  BY <1>0, <1>1 DEF TypeOK
<1>3. idle \in Nat
  OBVIOUS
<1>4. Averages
  BY <1>3 DEF Averages
<1> QED
  BY <1>2, <1>4 DEF IInv, InSession, Calibrated, Untainted, DirtyUnderFinger,
                    RestingFingerSeen, Finger

\* No exchange with the sensor and no move of the finger breaks the types.
LEMMA NextTypeOK == TypeOK /\ [Next]_vars => TypeOK'
<1> SUFFICES ASSUME TypeOK, [Next]_vars PROVE TypeOK'
  OBVIOUS
<1> USE MeansAssumption
<1> USE DEF TypeOK, sensorVars, calVars, loopVars, baseVars
<1>1. CASE FingerMoves
  BY <1>1 DEF FingerMoves
<1>2. CASE Reopen
  <2>1. fdt_abs' \in Int
    BY <1>2 DEF Reopen
  <2> QED
    BY <1>2, <2>1 DEF Reopen
<1>3. CASE Start
  <2>1. before' \in [tainted : BOOLEAN, abs : Int]
    BY <1>3 DEF Start
  <2>2. q' \in 0 .. BaselineProbes /\ nb' \in 0 .. q' /\ acc' \in Nat /\ waited' \in 0 .. WaitMax
    BY <1>3 DEF Start, BaselineProbes
  <2> QED
    BY <1>3, <2>1, <2>2 DEF Start
<1>4. CASE WaitForLift
  <2>1. waited' \in 0 .. WaitMax
    <3>1. CASE waited >= WaitMax
      BY <1>4, <3>1 DEF WaitForLift
    <3>2. CASE ~(waited >= WaitMax)
      BY <1>4, <3>2 DEF WaitForLift
    <3> QED
      BY <3>1, <3>2
  <2> QED
    BY <1>4, <2>1 DEF WaitForLift
<1>5. CASE WaitOver \/ Background
  BY <1>5 DEF WaitOver, Background, ProbeFails
<1>6. CASE CheckPasses \/ CheckTimedOut \/ CheckAgain
  BY <1>6 DEF CheckPasses, CheckTimedOut, CheckAgain, ProbeFails, ProbeReads
<1>7. CASE BaselineProbe
  <2>1. q' \in 0 .. BaselineProbes /\ nb' \in 0 .. q'
    BY <1>7 DEF BaselineProbe, BaselineProbes
  <2>2. acc' \in Nat
    BY <1>7, MeanIsNat DEF BaselineProbe
  <2>3. taintedAcc' \in BOOLEAN /\ missed' \in BOOLEAN
    BY <1>7 DEF BaselineProbe, ProbeFails, ProbeReads, Finger
  <2> QED
    BY <1>7, <2>1, <2>2, <2>3 DEF BaselineProbe
<1>8. CASE BaselineDone
  <2>1. fdt_base' \in Nat /\ fdt_abs' \in Int /\ tainted' \in BOOLEAN /\ have_fdt' \in BOOLEAN
    <3>1. CASE nb > 0
      <4>1. nb \in 1 .. BaselineProbes
        BY <3>1 DEF BaselineProbes
      <4> QED
        BY <1>8, <3>1, <4>1, AverageIsNat DEF BaselineDone, Calibrate
    <3>2. CASE ~(nb > 0)
      BY <1>8, <3>2 DEF BaselineDone, Calibrate
    <3> QED
      BY <3>1, <3>2
  <2> QED
    BY <1>8, <2>1 DEF BaselineDone
<1>9. CASE UNCHANGED vars
  BY <1>9 DEF vars
<1> QED
  BY <1>1, <1>2, <1>3, <1>4, <1>5, <1>6, <1>7, <1>8, <1>9 DEF Next, Thread

\* Each step preserves the invariant: between its start and the new threshold
\* a session uses the threshold it found.
LEMMA NextIInv == IInv /\ [Next]_vars => IInv'
<1> SUFFICES ASSUME IInv, [Next]_vars PROVE IInv'
  OBVIOUS
<1>t. TypeOK' /\ TypeOK /\ Mean \in Nat /\ idle \in Nat /\ press \in Nat
  BY NextTypeOK, MeanIsNat DEF IInv
<1>f. Finger /\ ~before.tainted => idle - press < before.abs
  BY MeansAssumption, FloorAssumption, <1>t DEF IInv, Untainted, TypeOK, Finger
<1> USE <1>t DEF sensorVars, calVars, loopVars, baseVars
<1> USE DEF IInv, InSession, Calibrated, Untainted, DirtyUnderFinger, RestingFingerSeen, Finger
<1>1. CASE FingerMoves
  BY <1>1 DEF FingerMoves, Averages
<1>2. CASE Reopen
  <2>1. Averages'
    BY <1>2 DEF Reopen, Averages
  <2> QED
    BY <1>2, <2>1 DEF Reopen, TypeOK
<1>3. CASE Start
  <2>1. Averages'
    BY <1>3 DEF Start, Averages
  <2>2. before'.tainted = tainted /\ before'.abs = fdt_abs
    BY <1>3 DEF Start
  <2> QED
    BY <1>3, <2>1, <2>2 DEF Start, TypeOK
<1>4. CASE WaitForLift
  BY <1>4 DEF WaitForLift, Averages
<1>5. CASE WaitOver
  <2>1. Averages'
    BY <1>5 DEF WaitOver, Averages
  <2>2. RestingFingerSeen'
    BY <1>5, <1>f DEF WaitOver, SeesFinger, Mean, ProbeFails
  <2> QED
    BY <1>5, <2>1, <2>2 DEF WaitOver
<1>6. CASE Background
  BY <1>6 DEF Background, Averages
<1>7. CASE CheckPasses
  <2>1. Averages'
    BY <1>7 DEF CheckPasses, Averages
  <2>2. RestingFingerSeen'
    BY <1>7, <1>f DEF CheckPasses, SeesFinger, Mean, ProbeFails, ProbeReads
  <2> QED
    BY <1>7, <2>1, <2>2 DEF CheckPasses
<1>8. CASE CheckTimedOut
  <2>1. Averages'
    BY <1>8 DEF CheckTimedOut, Averages
  <2>2. DirtyUnderFinger'
    BY <1>8 DEF CheckTimedOut, SeesFinger, Mean, TypeOK
  <2> QED
    BY <1>8, <2>1, <2>2 DEF CheckTimedOut
<1>9. CASE CheckAgain
  BY <1>9 DEF CheckAgain, Averages
<1>10. CASE BaselineProbe
  <2>1. Averages'
    <3>1. CASE acc' = acc + Mean /\ nb' = nb + 1 /\ taintedAcc' = (taintedAcc \/ Finger)
      <4>1. ~taintedAcc' => ~taintedAcc /\ acc' = acc + idle /\ acc = nb * idle
        <5> SUFFICES ASSUME ~taintedAcc' PROVE ~taintedAcc /\ acc' = acc + idle /\ acc = nb * idle
          OBVIOUS
        <5>1. ~taintedAcc /\ ~Finger
          BY <3>1
        <5>2. press = 0
          BY <5>1
        <5> QED
          BY <3>1, <5>1, <5>2 DEF Averages, Mean
      <4>2. nb \in Nat => (nb + 1) * idle = nb * idle + idle
        OBVIOUS
      <4> QED
        BY <1>10, <3>1, <4>1, <4>2 DEF Averages, BaselineProbe, TypeOK, BaselineProbes
    <3>2. CASE UNCHANGED <<acc, nb, taintedAcc>>
      BY <1>10, <3>2 DEF Averages, BaselineProbe
    <3> QED
      BY <1>10, <3>1, <3>2 DEF BaselineProbe
  <2>2. missed' = missed \/ missed' = TRUE
    BY <1>10 DEF BaselineProbe, ProbeFails, ProbeReads
  <2> QED
    BY <1>10, <2>1, <2>2 DEF BaselineProbe
<1>11. CASE BaselineDone
  <2>1. Averages'
    BY <1>11 DEF BaselineDone, Averages
  <2>2. CASE nb > 0
    <3>1. nb \in 1 .. BaselineProbes
      BY <2>2 DEF TypeOK, BaselineProbes
    <3>2. ~taintedAcc => acc \div nb = idle
      BY <3>1, AverageOfEqual DEF Averages
    <3>3. fdt_base' = acc \div nb /\ fdt_abs' = fdt_base' - Margin /\ tainted' = taintedAcc
      BY <1>11, <2>2 DEF BaselineDone, Calibrate
    <3>4. Calibrated' /\ Untainted'
      BY <1>11, <3>2, <3>3 DEF BaselineDone
    <3> QED
      BY <1>11, <2>1, <3>4 DEF BaselineDone
  <2>3. CASE ~(nb > 0)
    BY <1>11, <2>1, <2>3 DEF BaselineDone, Calibrate
  <2> QED
    BY <2>2, <2>3
<1>12. CASE UNCHANGED vars
  BY <1>12 DEF vars, Averages
<1> QED
  BY <1>1, <1>2, <1>3, <1>4, <1>5, <1>6, <1>7, <1>8, <1>9, <1>10, <1>11, <1>12
     DEF Next, Thread

\* The inductive invariant holds of every behaviour.
THEOREM Invariance == Spec => []IInv
<1>1. Init => IInv
  BY InitIInv
<1>2. IInv /\ [Next]_vars => IInv'
  BY NextIInv
<1> QED
  BY <1>1, <1>2, PTL DEF Spec

\* After a session whose baseline was measured without a finger, the polls
\* tell every press from idle, on any unit.
THEOREM DetectionIsSound == Spec => []DetectionSound
<1>1. IInv => DetectionSound
  <2> SUFFICES ASSUME IInv, result = "ok", nb > 0, ~tainted
               PROVE  /\ \A d \in Drops : Detects(idle - d)
                      /\ ReadsOff(idle) /\ ~Detects(idle)
    BY DEF DetectionSound
  <2>1. fdt_base = idle /\ fdt_abs = idle - Margin /\ idle \in Nat
    BY MeanIsNat DEF IInv, Calibrated
  <2>2. \A d \in Drops : Detects(idle - d)
    <3> TAKE d \in Drops
    <3>1. idle \in IdleMeans /\ d > Margin /\ d \in Nat /\ Margin \in Nat
      BY MeansAssumption DEF IInv, TypeOK
    <3> QED
      BY <2>1, <3>1 DEF Detects
  <2>3. 0 < FdtDrop \div 2
    BY MeansAssumption
  <2>4. ReadsOff(idle) /\ ~Detects(idle)
    BY <2>1, <2>3, MeansAssumption DEF ReadsOff, Detects
  <2> QED
    BY <2>2, <2>4
<1> QED
  BY <1>1, Invariance, PTL

\* A finger that rests on the sensor throughout a session is reported, when
\* the threshold it is compared with was not measured under a finger.
THEOREM RestingFingerIsNoticed == Spec => []RestingFingerNoticed
<1>1. IInv => RestingFingerNoticed
  BY DEF IInv, RestingFingerSeen, RestingFingerNoticed, TypeOK
<1> QED
  BY <1>1, Invariance, PTL

\* The user is asked to remove a finger only if there was one.
THEOREM DirtyIsHonest == Spec => []DirtyMeansFinger
<1>1. IInv => DirtyMeansFinger
  BY DEF IInv, DirtyUnderFinger, DirtyMeansFinger
<1> QED
  BY <1>1, Invariance, PTL

\* Every variable has its type: in particular the bases and thresholds stay
\* integers whatever a calibration averages or carries over.
THEOREM TypeCorrect == Spec => []TypeOK
<1>1. IInv => TypeOK
  BY DEF IInv
<1> QED
  BY <1>1, Invariance, PTL
=============================================================================
