----------------------------- MODULE Calibration -----------------------------
(***************************************************************************)
(* gx_session_start: before each operation the driver waits for the finger *)
(* to be lifted, captures the background, checks that no finger came, and  *)
(* measures the detection baseline, from which it derives the absolute     *)
(* threshold that the next session's wait uses.                            *)
(*                                                                         *)
(* The twelve detection values are abstracted to their mean, which is what *)
(* both tests look at when the zones move together; the finger comes and   *)
(* goes between any two exchanges with the sensor.                         *)
(*                                                                         *)
(* X_Word after the name of a definition X is a plausible bug in the code  *)
(* X models; Next does not use it.                                         *)
(***************************************************************************)
EXTENDS Integers

CONSTANTS
    IdleMeans,      \* the mean with no finger, one per sensor unit
    Drops,          \* how far a press pulls the mean down
    FdtAbs,         \* GOODIX_FDT_ABS: the threshold at open
    Margin,         \* GOODIX_FDT_ABS_MARGIN
    FdtDrop,        \* GOODIX_FDT_DROP
    WaitMax         \* GX_BG_WAIT_MS, in steps of 200 ms

\* The thresholds sit between idle and the weakest press, as goodixtls.h says:
\* a finger drops the mean by 48 to 86, to 266 to 314.
ASSUME MeansAssumption ==
    /\ FdtAbs \in Nat /\ Margin \in Nat /\ FdtDrop \in Nat \ {0, 1} /\ WaitMax \in Nat
    /\ IdleMeans \subseteq Nat /\ Drops \subseteq Nat
    /\ \A i \in IdleMeans, d \in Drops : d > FdtDrop /\ d > Margin /\ d <= i
ASSUME FloorAssumption == \A i \in IdleMeans, d \in Drops : i - d < FdtAbs

BaselineProbes == 4

VARIABLES
    idle,       \* this unit's mean without a finger
    press,      \* how far the finger pulls the mean down now, 0 without one
    pc,         \* where gx_session_start is, "idle" outside it
    fdt_abs, fdt_base, have_fdt, bg_dirty,      \* struct state
    waited, timeout, q, acc, nb,                \* its local variables
    result,     \* what the last session returned: "none", "ok", "fail"
    moved,      \* history: the finger came or went during the session
    missed,     \* history: a probe failed during the session
    tainted,    \* history: a finger is in the baseline behind fdt_abs
    taintedAcc, \* history: a finger is in the values added to acc
    before      \* history: tainted and fdt_abs when the session started

sensorVars == <<idle, press>>
calVars == <<fdt_abs, fdt_base, have_fdt>>
loopVars == <<waited, timeout>>
baseVars == <<q, acc, nb, taintedAcc>>
vars == <<sensorVars, pc, calVars, bg_dirty, loopVars, baseVars, result,
          moved, missed, tainted, before>>
-----------------------------------------------------------------------------
Init ==
    /\ idle \in IdleMeans /\ press = 0 /\ pc = "idle"
    /\ fdt_abs = FdtAbs /\ fdt_base = 0 /\ have_fdt = FALSE /\ bg_dirty = FALSE
    /\ waited = 0 /\ timeout = FALSE
    /\ q = 0 /\ acc = 0 /\ nb = 0 /\ taintedAcc = FALSE
    /\ result = "none" /\ moved = FALSE /\ missed = FALSE /\ tainted = FALSE
    /\ before = [tainted |-> FALSE, abs |-> FdtAbs]

Mean == idle - press
Finger == press > 0

\* A detection probe answers with the mean, or fails.
ProbeFails == missed' = TRUE
ProbeReads == missed' = missed

FingerMoves ==
    /\ press' \in IF Finger THEN {0} ELSE Drops
    /\ moved' = TRUE
    /\ UNCHANGED <<idle, pc, calVars, bg_dirty, loopVars, baseVars, result,
                   missed, tainted, before>>

\* gx_dev_close and gx_dev_open: the threshold falls back to the constant.
Reopen ==
    /\ pc = "idle"
    /\ fdt_abs' = FdtAbs /\ tainted' = FALSE /\ result' = "none"
    /\ UNCHANGED <<sensorVars, pc, fdt_base, have_fdt, bg_dirty, loopVars,
                   baseVars, moved, missed, before>>

\* gx_tls_session succeeded.
Start ==
    /\ pc = "idle"
    /\ pc' = "wait"
    /\ bg_dirty' = FALSE /\ waited' = 0 /\ timeout' = FALSE
    /\ q' = 0 /\ acc' = 0 /\ nb' = 0 /\ taintedAcc' = FALSE
    /\ result' = "none" /\ moved' = FALSE /\ missed' = FALSE
    /\ before' = [tainted |-> tainted, abs |-> fdt_abs]
    /\ UNCHANGED <<sensorVars, calVars, tainted>>

SeesFinger == Mean < fdt_abs

WaitForLift_NoTimeout ==
    /\ pc = "wait" /\ ~timeout /\ SeesFinger
    /\ IF waited >= WaitMax THEN UNCHANGED <<waited, timeout>>
                            ELSE waited' = waited + 1 /\ UNCHANGED timeout
    /\ UNCHANGED <<sensorVars, pc, calVars, bg_dirty, baseVars, result, moved,
                   missed, tainted, before>>

\* One round of the inner loop while it sees a finger.
WaitForLift ==
    /\ pc = "wait" /\ ~timeout /\ SeesFinger
    /\ IF waited >= WaitMax THEN timeout' = TRUE /\ UNCHANGED waited
                            ELSE waited' = waited + 1 /\ UNCHANGED timeout
    /\ UNCHANGED <<sensorVars, pc, calVars, bg_dirty, baseVars, result, moved,
                   missed, tainted, before>>

\* The inner loop ends: no finger seen, the probe failed, or the time is up.
WaitOver ==
    /\ pc = "wait"
    /\ \/ (timeout \/ ~SeesFinger) /\ UNCHANGED missed
       \/ ~timeout /\ ProbeFails
    /\ pc' = "background"
    /\ UNCHANGED <<sensorVars, calVars, bg_dirty, loopVars, baseVars, result,
                   moved, tainted, before>>

\* gx_capture_avg.
Background ==
    /\ pc = "background"
    /\ \/ pc' = "check" /\ UNCHANGED result
       \/ pc' = "idle" /\ result' = "fail"
    /\ UNCHANGED <<sensorVars, calVars, bg_dirty, loopVars, baseVars, moved,
                   missed, tainted, before>>

\* The check after the background, which also passes when the probe fails.
CheckPasses ==
    /\ pc = "check"
    /\ \/ ~SeesFinger /\ ProbeReads
       \/ ProbeFails
    /\ pc' = "baseline"
    /\ UNCHANGED <<sensorVars, calVars, bg_dirty, loopVars, baseVars, result,
                   moved, tainted, before>>

CheckTimedOut_Silent ==
    /\ pc = "check" /\ SeesFinger /\ timeout
    /\ pc' = "baseline"
    /\ UNCHANGED <<sensorVars, calVars, bg_dirty, loopVars, baseVars, result,
                   moved, missed, tainted, before>>

CheckTimedOut ==
    /\ pc = "check" /\ SeesFinger /\ timeout
    /\ bg_dirty' = TRUE
    /\ pc' = "baseline"
    /\ UNCHANGED <<sensorVars, calVars, loopVars, baseVars, result, moved,
                   missed, tainted, before>>

CheckAgain ==
    /\ pc = "check" /\ SeesFinger /\ ~timeout
    /\ pc' = "wait"
    /\ UNCHANGED <<sensorVars, calVars, bg_dirty, loopVars, baseVars, result,
                   moved, missed, tainted, before>>

BaselineProbe ==
    /\ pc = "baseline" /\ q < BaselineProbes
    /\ q' = q + 1
    /\ \/ acc' = acc + Mean /\ nb' = nb + 1 /\ ProbeReads
          /\ taintedAcc' = (taintedAcc \/ Finger)
       \/ UNCHANGED <<acc, nb, taintedAcc>> /\ ProbeFails
    /\ UNCHANGED <<sensorVars, pc, calVars, bg_dirty, loopVars, result, moved,
                   tainted, before>>

\* The divisor is the number of probes sent, not of those answered.
Calibrate_DividesByFour ==
    IF nb > 0
    THEN /\ fdt_base' = acc \div BaselineProbes /\ have_fdt' = TRUE
         /\ fdt_abs' = fdt_base' - Margin /\ tainted' = taintedAcc
    ELSE UNCHANGED <<calVars, tainted>>

Calibrate ==
    IF nb > 0
    THEN /\ fdt_base' = acc \div nb /\ have_fdt' = TRUE
         /\ fdt_abs' = fdt_base' - Margin /\ tainted' = taintedAcc
    ELSE UNCHANGED <<calVars, tainted>>

BaselineDone ==
    /\ pc = "baseline" /\ q = BaselineProbes
    /\ Calibrate
    /\ result' = IF have_fdt' THEN "ok" ELSE "fail"
    /\ pc' = "idle"
    /\ UNCHANGED <<sensorVars, bg_dirty, loopVars, baseVars, moved, missed, before>>
-----------------------------------------------------------------------------
Thread == WaitForLift \/ WaitOver \/ Background \/ CheckPasses \/ CheckTimedOut
            \/ CheckAgain \/ BaselineProbe \/ BaselineDone

Next == FingerMoves \/ Reopen \/ Start \/ Thread

Spec == Init /\ [][Next]_vars

\* The worker thread runs on: none of its exchanges with the sensor blocks.
\* A probe of the wait that sees the finger does not fail every time.
FairSpec == Spec /\ WF_vars(Thread) /\ SF_vars(WaitForLift)
-----------------------------------------------------------------------------
\* gx_finger_present and gx_poll_on: the mean m reads as a finger.
Detects(m) == fdt_base - m > FdtDrop \/ m < fdt_abs
\* gx_poll_off: the mean m reads as no finger.
ReadsOff(m) == fdt_base - m < FdtDrop \div 2 /\ m >= fdt_abs

\* The type of every variable; the wait and the baseline stay within their bounds.
TypeOK ==
    /\ idle \in IdleMeans /\ press \in {0} \cup Drops
    /\ pc \in {"idle", "wait", "background", "check", "baseline"}
    /\ fdt_abs \in Int /\ fdt_base \in Nat /\ have_fdt \in BOOLEAN
    /\ bg_dirty \in BOOLEAN /\ waited \in 0 .. WaitMax /\ timeout \in BOOLEAN
    /\ q \in 0 .. BaselineProbes /\ nb \in 0 .. q /\ acc \in Nat
    /\ result \in {"none", "ok", "fail"}
    /\ moved \in BOOLEAN /\ missed \in BOOLEAN
    /\ tainted \in BOOLEAN /\ taintedAcc \in BOOLEAN
    /\ before \in [tainted : BOOLEAN, abs : Int]

\* A baseline measured without a finger tells every press from idle: the
\* polls see each press and the release, whatever this unit's idle level is.
DetectionSound ==
    result = "ok" /\ nb > 0 /\ ~tainted =>
        /\ \A d \in Drops : Detects(idle - d)
        /\ ReadsOff(idle) /\ ~Detects(idle)

\* A finger that rests on the sensor for the whole session is reported, unless
\* the threshold the session started with was itself measured under a finger.
RestingFingerNoticed ==
    result = "ok" /\ Finger /\ ~moved /\ ~missed /\ pc = "idle" =>
        bg_dirty \/ before.tainted

\* The user is asked to remove a finger only if there was one, provided the
\* threshold is not above this unit's idle level.
DirtyMeansFinger ==
    result = "ok" /\ bg_dirty /\ before.abs <= idle => Finger \/ moved

\* The inductive invariant behind the three properties above.
InSession == pc # "idle" => fdt_abs = before.abs /\ result = "none"
Averages == ~taintedAcc => acc = nb * idle
Calibrated ==
    result = "ok" /\ nb > 0 /\ ~tainted => fdt_base = idle /\ fdt_abs = idle - Margin
Untainted ==
    /\ ~tainted => fdt_abs \in {FdtAbs, idle - Margin}
    /\ ~before.tainted => before.abs \in {FdtAbs, idle - Margin}
DirtyUnderFinger == bg_dirty /\ before.abs <= idle => Finger \/ moved
RestingFingerSeen ==
    Finger /\ ~moved /\ ~missed /\ ~before.tainted =>
        /\ pc \in {"background", "check"} => timeout
        /\ pc = "baseline" \/ result = "ok" => bg_dirty

IInv ==
    /\ TypeOK /\ InSession /\ Averages /\ Calibrated /\ Untainted
    /\ DirtyUnderFinger /\ RestingFingerSeen

\* A session ends once the finger keeps still, on the sensor or off it.
SteadyFingerEnds ==
    <>[][press' = press]_press => (pc = "wait" ~> pc = "idle")

\* A resting finger is always reported: "better to ask for the finger to be
\* removed than to return a collapsed score".
RestingFingerAlwaysNoticed ==
    result = "ok" /\ Finger /\ ~moved /\ ~missed /\ pc = "idle" => bg_dirty

\* "where idle actually is no longer matters": without a finger no session asks
\* for its removal.
IdleLevelIrrelevant ==
    result = "ok" /\ ~Finger /\ ~moved /\ ~missed => ~bg_dirty
=============================================================================
