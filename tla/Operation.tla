------------------------------ MODULE Operation ------------------------------
(***************************************************************************)
(* One libfprint operation (enrolment or verification) of the goodixtls    *)
(* driver: the fpi_ssm state machine of gx_run_state, the GLib timeouts    *)
(* that poll the finger detector, the worker thread that does the          *)
(* blocking work, the client's cancellation and open / close.              *)
(*                                                                         *)
(* A callback of the main loop is one action, with everything it calls:    *)
(* fpi_ssm_jump_to_state and fpi_ssm_mark_* run the next handler and the   *)
(* completion callback synchronously.  The worker thread has actions of    *)
(* its own, which interleave with the main loop, and the finger moves at   *)
(* any time.                                                               *)
(*                                                                         *)
(* The content of an image is abstracted to what the driver decides on it: *)
(* no features, too few of them, or enough.  A detection probe is          *)
(* abstracted to the side of the two thresholds its values fall on; the    *)
(* calibration of these thresholds is the subject of another module.       *)
(*                                                                         *)
(* X_Word after the name of a definition X is a plausible bug in the code  *)
(* X models; Next does not use it.                                         *)
(***************************************************************************)
EXTENDS Integers, FiniteSets

CONSTANTS
    PollMax,        \* GX_POLL_MAX: probes before the wait for a finger ends
    PollOff,        \* GX_POLL_OFF: probes before the wait for release ends
    EnrollStages,   \* GX_ENROLL_STAGES: presses asked of the user
    MatchThreshold, \* GX_MATCH_THRESHOLD
    Scores,         \* the fused scores a capture may get
    KeptViews       \* how many views a print passed for update may hold

ASSUME PollAssumption == PollMax \in Nat /\ PollOff \in Nat
\* gx_enroll_done refuses fewer than three views: the code asks for 15 presses.
ASSUME StagesAssumption == EnrollStages \in Nat /\ EnrollStages >= 3
ASSUME ScoresAssumption == MatchThreshold \in Nat \ {0} /\ Scores \subseteq Nat
ASSUME KeptAssumption == KeptViews \subseteq Nat

ViewsPerStage == 2      \* GX_VIEWS_PER_STAGE
MinTemplateViews == 3   \* what gx_enroll_done accepts

VARIABLES
    opened,     \* the device is open
    task,       \* the operation libfprint runs: "none", "enroll", "verify"
    cancelled,  \* the operation's GCancellable
    outcome,    \* how the last operation ended, as reported to libfprint
    ssm,        \* identity of the current FpiSsm (they are freed on completion)
    state,      \* fpi_ssm_get_cur_state
    sources,    \* GLib timeouts that are armed
    poll_id,    \* the driver's record of the armed timeout, 0 for none
    worker,     \* what the worker thread does
    work,       \* GxWork: what the thread hands to its completion callback
    bg_dirty,   \* the background was taken with the finger down
    polls, stage, views, kept, best, tries, probe,   \* GxTask
    status,     \* the finger status flags reported to libfprint
    finger,     \* is the finger on the sensor
    newPress,   \* history: a press has begun since the last good image
    gaveUp      \* history: the wait for release ended without a release

ssmVars == <<ssm, state>>
pollVars == <<sources, poll_id>>
workVars == <<worker, work, bg_dirty>>
taskVars == <<polls, stage, views, kept, best, tries, probe>>
histVars == <<newPress, gaveUp>>
opVars == <<opened, task, cancelled, outcome>>
vars == <<opVars, ssmVars, pollVars, workVars, taskVars, status, finger, histVars>>

States == {"NONE", "SESSION", "WAIT_ON", "CAPTURE", "WAIT_OFF", "DONE"}
Outcomes == {"none", "match", "no_match", "no_probe", "template",
             "too_few", "retry", "proto", "cancelled"}
SourceIds == 1 .. 3
Source == [id : SourceIds, fn : {"on", "off"}, ssm : {0, 1}]
Work == [ok : BOOLEAN, feat : {"none", "few", "good"}, extra : 0 .. 1, fresh : BOOLEAN]
NoWork == [ok |-> FALSE, feat |-> "none", extra |-> 0, fresh |-> FALSE]
-----------------------------------------------------------------------------
Init ==
    /\ opened = FALSE /\ task = "none" /\ cancelled = FALSE /\ outcome = "none"
    /\ ssm = 0 /\ state = "NONE"
    /\ sources = {} /\ poll_id = 0
    /\ worker = "none" /\ work = NoWork /\ bg_dirty = FALSE
    /\ polls = 0 /\ stage = 0 /\ views = 0 /\ kept = 0
    /\ best = 0 /\ tries = 0 /\ probe = FALSE
    /\ status = {} /\ finger \in BOOLEAN
    /\ newPress = FALSE /\ gaveUp = FALSE

\* gx_fdt_probe and the thresholds: the probe fails, or reads a finger
\* ("down"), none ("up"), or a value between the two thresholds.
Readings == {"fail", "band"} \cup IF finger THEN {"down"} ELSE {"up"}

\* gx_capture_features: the contrast gate rejects an image without a finger.
Images == {"none"} \cup IF finger THEN {"few", "good"} ELSE {}

\* g_timeout_add: an identifier no live source has, and not a stale one.
NewId == CHOOSE i \in SourceIds : i # poll_id /\ \A s \in sources : s.id # i
Arm(fn) == [id |-> NewId, fn |-> fn, ssm |-> ssm]

Armed(fn) == {s \in sources : s.fn = fn}

\* The completion callback hands the result to libfprint; the SSM is freed.
Complete(result) ==
    /\ task' = "none" /\ state' = "NONE" /\ outcome' = result
    /\ UNCHANGED <<opened, cancelled, ssm>>

\* gx_run_state, GX_ST_WAIT_ON: poll until a finger is there.
EnterWaitOn ==
    /\ state' = "WAIT_ON"
    /\ polls' = 0
    /\ status' = {"NEEDED"}
    /\ UNCHANGED <<opVars, ssm>>

\* gx_run_state, GX_ST_DONE: completed, so gx_enroll_done or gx_verify_done.
Verdict ==
    IF task = "enroll"
    THEN IF views < MinTemplateViews THEN "too_few" ELSE "template"
    ELSE IF ~probe THEN "no_probe"
    ELSE IF best >= MatchThreshold THEN "match" ELSE "no_match"
-----------------------------------------------------------------------------
(* The client, through libfprint.                                          *)

Open ==
    /\ ~opened
    /\ opened' = TRUE
    /\ UNCHANGED <<task, cancelled, outcome, ssmVars, pollVars, workVars,
                   taskVars, status, finger, histVars>>

\* gx_dev_close.  libfprint refuses to close while an operation runs.
Close ==
    /\ opened /\ task = "none"
    /\ opened' = FALSE
    /\ sources' = {s \in sources : s.id # poll_id}
    /\ poll_id' = 0
    /\ UNCHANGED <<task, cancelled, outcome, ssmVars, workVars, taskVars,
                   status, finger, histVars>>

\* A new GxTask and a new SSM, whose first state starts the session worker.
Start(op, oldViews) ==
    /\ opened /\ task = "none"
    /\ task' = op /\ cancelled' = FALSE /\ outcome' = "none"
    /\ ssm' = 1 - ssm /\ state' = "SESSION"
    /\ worker' = "session" /\ work' = NoWork
    /\ views' = oldViews /\ kept' = oldViews
    /\ polls' = 0 /\ stage' = 0 /\ best' = 0 /\ tries' = 0 /\ probe' = FALSE
    /\ newPress' = finger /\ gaveUp' = FALSE
    /\ UNCHANGED <<opened, pollVars, bg_dirty, status, finger>>

Enroll == \E n \in KeptViews : Start("enroll", n)
Verify == Start("verify", 0)

Cancel ==
    /\ task # "none" /\ ~cancelled
    /\ cancelled' = TRUE
    /\ UNCHANGED <<opened, task, outcome, ssmVars, pollVars, workVars,
                   taskVars, status, finger, histVars>>

FingerMoves ==
    /\ finger' = ~finger
    /\ newPress' = (newPress \/ ~finger)
    /\ UNCHANGED <<opVars, ssmVars, pollVars, workVars, taskVars, status, gaveUp>>
-----------------------------------------------------------------------------
(* The worker thread.                                                      *)

\* gx_session_thread: gx_session_start returns.
SessionThread ==
    /\ worker = "session"
    /\ \E ok \in BOOLEAN, dirty \in BOOLEAN :
          /\ work' = [NoWork EXCEPT !.ok = ok]
          /\ bg_dirty' = dirty
    /\ worker' = "session_ret"
    /\ UNCHANGED <<opVars, ssmVars, pollVars, taskVars, status, finger, histVars>>

\* gx_capture_thread: the first image of the press.
CaptureThread ==
    /\ worker = "capture"
    /\ \E f \in Images :
          /\ work' = [ok |-> f # "none", feat |-> f, extra |-> 0,
                      fresh |-> f = "good" /\ newPress]
          /\ worker' = IF f = "good" /\ task # "verify"
                       THEN "capture_extra" ELSE "capture_ret"
          /\ newPress' = (newPress /\ f # "good")
    /\ UNCHANGED <<opVars, ssmVars, pollVars, bg_dirty, taskVars, status,
                   finger, gaveUp>>

\* gx_capture_thread: a second view while the finger is still there.
CaptureExtraThread ==
    /\ worker = "capture_extra"
    /\ \E r \in Readings, f \in Images :
          work' = [work EXCEPT !.extra = IF r = "down" /\ f = "good" THEN 1 ELSE 0]
    /\ worker' = "capture_ret"
    /\ UNCHANGED <<opVars, ssmVars, pollVars, bg_dirty, taskVars, status,
                   finger, histVars>>
-----------------------------------------------------------------------------
(* Completion callbacks of the worker, on the main loop.                   *)

SessionFails ==
    /\ worker = "session_ret" /\ (~work.ok \/ bg_dirty)
    /\ Complete(IF ~work.ok THEN "proto" ELSE "retry")
    /\ worker' = "none"
    /\ UNCHANGED <<pollVars, work, bg_dirty, taskVars, status, finger, histVars>>

SessionDone_NotPolling ==
    /\ worker = "session_ret" /\ work.ok /\ ~bg_dirty
    /\ EnterWaitOn
    /\ worker' = "none"
    /\ UNCHANGED <<pollVars, work, bg_dirty, stage, views, kept, best, tries,
                   probe, finger, histVars>>

SessionDone ==
    /\ worker = "session_ret" /\ work.ok /\ ~bg_dirty
    /\ EnterWaitOn
    /\ sources' = sources \cup {Arm("on")} /\ poll_id' = NewId
    /\ worker' = "none"
    /\ UNCHANGED <<work, bg_dirty, stage, views, kept, best, tries, probe,
                   finger, histVars>>

\* gx_capture_done up to its last statement: the driver asks for the release.
AwaitRelease ==
    /\ status' = {"PRESENT"}
    /\ polls' = 0
    /\ sources' = sources \cup {Arm("off")} /\ poll_id' = NewId
    /\ worker' = "none"
    /\ UNCHANGED <<opVars, ssmVars, work, bg_dirty, kept, finger>>

\* The return after fpi_ssm_mark_failed is missing.
CaptureUnusableVerify_NoReturn ==
    /\ worker = "capture_ret" /\ work.feat # "good" /\ task = "verify"
    /\ Complete("retry")
    /\ status' = {"PRESENT"} /\ polls' = 0
    /\ sources' = sources \cup {Arm("off")} /\ poll_id' = NewId
    /\ worker' = "none"
    /\ UNCHANGED <<work, bg_dirty, stage, views, kept, best, tries, probe, finger,
                   histVars>>

\* A verification's capture is unusable: retry, on image quality only.
CaptureUnusableVerify ==
    /\ worker = "capture_ret" /\ work.feat # "good" /\ task = "verify"
    /\ Complete("retry")
    /\ worker' = "none"
    /\ UNCHANGED <<pollVars, work, bg_dirty, taskVars, status, finger, histVars>>

\* An enrolment's press is unusable: ask again without advancing the stage.
CaptureUnusableEnroll ==
    /\ worker = "capture_ret" /\ work.feat # "good" /\ task = "enroll"
    /\ AwaitRelease
    /\ views' = views + work.extra
    /\ UNCHANGED <<stage, best, tries, probe, histVars>>

\* The capture is scored against the template's views and the acquired ones.
CaptureScored ==
    /\ worker = "capture_ret" /\ work.feat = "good" /\ task = "verify"
    /\ AwaitRelease
    /\ \E fused \in Scores : best' = IF fused > best THEN fused ELSE best
    /\ tries' = tries + 1 /\ probe' = TRUE
    /\ UNCHANGED <<stage, views, histVars>>

\* A usable press: its views join the template and the stage advances.
CaptureStage ==
    /\ worker = "capture_ret" /\ work.feat = "good" /\ task = "enroll"
    /\ AwaitRelease
    /\ views' = views + work.extra + 1
    /\ stage' = stage + 1
    /\ gaveUp' = FALSE
    /\ UNCHANGED <<best, tries, probe, newPress>>
-----------------------------------------------------------------------------
(* gx_poll_on and gx_poll_off: dispatches of a timeout source.             *)

\* The poll stops on cancellation but nothing marks the SSM failed.
PollCancelled_NotFailed(s) ==
    /\ cancelled
    /\ status' = {}
    /\ sources' = sources \ {s} /\ poll_id' = 0
    /\ UNCHANGED <<opVars, ssmVars, workVars, taskVars, finger, histVars>>

\* gx_cancelled, seen by either poll.
PollCancelled(s) ==
    /\ cancelled
    /\ status' = {}
    /\ Complete("cancelled")
    /\ sources' = sources \ {s} /\ poll_id' = 0
    /\ UNCHANGED <<workVars, taskVars, finger, histVars>>

\* The poll returns G_SOURCE_CONTINUE on detection.
PollOnDetects_KeepsPolling(s) ==
    /\ ~cancelled /\ "down" \in Readings
    /\ status' = {"NEEDED", "PRESENT"}
    /\ state' = "CAPTURE" /\ worker' = "capture" /\ work' = NoWork
    /\ UNCHANGED <<opVars, ssm, pollVars, bg_dirty, taskVars, finger, histVars>>

\* NEEDED stays reported until the last capture of the press.
PollOnDetects(s) ==
    /\ ~cancelled /\ "down" \in Readings
    /\ status' = {"NEEDED", "PRESENT"}
    /\ sources' = sources \ {s} /\ poll_id' = 0
    /\ state' = "CAPTURE" /\ worker' = "capture" /\ work' = NoWork
    /\ UNCHANGED <<opVars, ssm, bg_dirty, taskVars, finger, histVars>>

PollOnAgain_NotCounted ==
    /\ ~cancelled
    /\ UNCHANGED vars

\* "fail" and "band" are possible whether the finger is there or not, so no
\* reading is excluded here.
PollOnAgain ==
    /\ ~cancelled /\ polls < PollMax
    /\ polls' = polls + 1
    /\ UNCHANGED <<opVars, ssmVars, pollVars, workVars, stage, views, kept, best,
                   tries, probe, status, finger, histVars>>

PollOnTimeout(s) ==
    /\ ~cancelled /\ polls >= PollMax
    /\ polls' = polls + 1
    /\ Complete("retry")
    /\ sources' = sources \ {s} /\ poll_id' = 0
    /\ UNCHANGED <<workVars, stage, views, kept, best, tries, probe, status,
                   finger, histVars>>

PollOffAgain ==
    /\ ~cancelled /\ polls < PollOff
    /\ polls' = polls + 1
    /\ UNCHANGED <<opVars, ssmVars, pollVars, workVars, stage, views, kept, best,
                   tries, probe, status, finger, histVars>>

\* The finger is off, or the wait for it gives up: the outcome of gx_poll_off.
PollOffReleased_AnyReading == TRUE
PollOffReleased == "up" \in Readings
PollOffGivesUp == polls >= PollOff

PollOffEnds_IgnoresCancel == PollOffReleased \/ PollOffGivesUp
PollOffEnds == ~cancelled /\ (PollOffReleased \/ PollOffGivesUp)

\* A verification takes one press, an enrolment its stages.
LastPress == task = "verify" \/ stage >= EnrollStages

PollOffDone(s) ==
    /\ PollOffEnds /\ LastPress
    /\ Complete(Verdict)
    /\ status' = {}
    /\ sources' = sources \ {s} /\ poll_id' = 0
    /\ UNCHANGED <<workVars, taskVars, finger, histVars>>

\* fpi_ssm_jump_to_state arms the next poll before poll_id is reset.
PollOffNextPress(s) ==
    /\ PollOffEnds /\ ~LastPress
    /\ EnterWaitOn
    /\ sources' = (sources \ {s}) \cup {Arm("on")}
    /\ poll_id' = 0
    /\ gaveUp' = (gaveUp \/ ~PollOffReleased)
    /\ UNCHANGED <<workVars, stage, views, kept, best, tries, probe, finger, newPress>>

DispatchOn(s) == PollCancelled(s) \/ PollOnDetects(s) \/ PollOnAgain \/ PollOnTimeout(s)
DispatchOff(s) == PollCancelled(s) \/ PollOffAgain \/ PollOffDone(s) \/ PollOffNextPress(s)
-----------------------------------------------------------------------------
Client == Open \/ Close \/ Enroll \/ Verify \/ Cancel
Worker == SessionThread \/ CaptureThread \/ CaptureExtraThread
WorkerDone == \/ SessionFails \/ SessionDone \/ CaptureUnusableVerify
              \/ CaptureUnusableEnroll \/ CaptureScored \/ CaptureStage
Poll == \/ \E s \in Armed("on") : DispatchOn(s)
        \/ \E s \in Armed("off") : DispatchOff(s)

Next == Client \/ FingerMoves \/ Worker \/ WorkerDone \/ Poll

\* The main loop dispatches every source that is ready, and a thread that runs
\* returns: gx_capture_frame is bounded, and gx_session_start ends once the
\* finger keeps still (Calibration!SteadyFingerEnds).  Nothing is assumed of the
\* client, and of the finger only that it does not tap for ever in a session.
Fairness == WF_vars(Worker) /\ WF_vars(WorkerDone) /\ WF_vars(Poll)

Spec == Init /\ [][Next]_vars
FairSpec == Spec /\ Fairness
-----------------------------------------------------------------------------
(* Properties.                                                             *)

\* The type of every variable.
TypeOK ==
    /\ opened \in BOOLEAN /\ cancelled \in BOOLEAN
    /\ task \in {"none", "enroll", "verify"}
    /\ outcome \in Outcomes
    /\ ssm \in {0, 1} /\ state \in States
    /\ sources \in SUBSET Source /\ poll_id \in {0} \cup SourceIds
    /\ worker \in {"none", "session", "session_ret", "capture",
                   "capture_extra", "capture_ret"}
    /\ work \in Work /\ bg_dirty \in BOOLEAN
    /\ polls \in Nat /\ stage \in Nat /\ views \in Nat /\ kept \in Nat
    /\ best \in Nat /\ tries \in Nat /\ probe \in BOOLEAN
    /\ status \in SUBSET {"NEEDED", "PRESENT"}
    /\ finger \in BOOLEAN /\ newPress \in BOOLEAN /\ gaveUp \in BOOLEAN

\* The comment above gx_run_async: "nothing else touches the device while the
\* worker runs".  Polls probe the sensor from the main loop, so no poll may be
\* armed while the thread runs, and never two of them.
ExclusiveSensor ==
    /\ worker # "none" => sources = {}
    /\ \A s1, s2 \in sources : s1 = s2

\* A timeout or a completion callback holds the SSM as user data: it must be
\* the SSM of the operation that runs, or the callback uses freed memory.
NoDanglingCallback ==
    /\ \A s \in sources : task # "none" /\ s.ssm = ssm
    /\ worker # "none" => task # "none"

\* Something always drives a running operation towards its completion: the
\* worker, or the poll that the state it waits in calls for.
OperationDriven ==
    task # "none" =>
        \/ state = "SESSION" /\ worker \in {"session", "session_ret"}
        \/ state = "WAIT_ON" /\ Armed("on") # {}
        \/ state = "CAPTURE" /\ worker \in {"capture", "capture_extra", "capture_ret"}
        \/ state = "CAPTURE" /\ Armed("off") # {}

\* "Score the capture, once": a verification scores a single capture, so the
\* decision is never the best of several draws.
SingleScore ==
    /\ tries <= 1
    /\ outcome \in {"match", "no_match"} => tries = 1
    /\ outcome # "no_probe"

\* A template holds at least one view for every press asked of the user, and at
\* most the views the presses and the updated print provided; the check of
\* gx_enroll_done for too few views never fires.
TemplateComplete ==
    /\ task = "enroll" \/ outcome = "template" =>
          /\ kept + stage <= views /\ views <= kept + ViewsPerStage * stage
          /\ stage <= EnrollStages
    /\ outcome = "template" => stage = EnrollStages
    /\ outcome # "too_few"

\* The finger status tells the user what to do: keep the finger down for the
\* whole capture, lift it once it is over and never before.
StatusMatchesPhase ==
    /\ state = "WAIT_ON" => status = {"NEEDED"}
    /\ worker \in {"capture", "capture_extra", "capture_ret"} =>
          status = {"NEEDED", "PRESENT"}
    /\ Armed("off") # {} => status = {"PRESENT"}

\* A cancelled operation starts no further capture, and neither accepts nor
\* refuses a finger nor delivers a template.
CancelHonoured ==
    [][cancelled /\ task # "none" =>
          /\ worker' = "capture" => worker = "capture"
          /\ task' = "none" => outcome' \in {"cancelled", "proto", "retry"}]_vars

\* After a score there is no retry: "a retry must never be conditioned on how
\* close the previous attempt came to authenticating".
NoRetryAfterScore ==
    [][task = "verify" /\ tries > 0 /\ task' = "none" =>
          outcome' \in {"match", "no_match", "cancelled"}]_vars

\* A press advances the stage at most once, unless the wait for its release
\* gave up.
StagePerPressOrTimeout ==
    [][stage' > stage => work.fresh \/ gaveUp]_vars

\* The inductive invariant behind the properties above: which source or which
\* phase of the worker goes with which state, and what the task has reached
\* in each of them.
Shape ==
    /\ task = "none" => state = "NONE" /\ sources = {} /\ worker = "none"
    /\ task # "none" => outcome = "none" /\ state \in {"SESSION", "WAIT_ON", "CAPTURE"}
    /\ worker \in {"session", "session_ret"} <=> state = "SESSION"
    /\ Armed("on") # {} <=> state = "WAIT_ON"
    /\ state = "CAPTURE" <=>
          \/ worker \in {"capture", "capture_extra", "capture_ret"}
          \/ Armed("off") # {}

Progress ==
    LET before == task # "none" /\ Armed("off") = {} IN
    /\ task = "verify" => stage = 0
    /\ task # "verify" \/ before => tries = 0 \/ task = "none"
    /\ tries = 0 => best = 0 /\ ~probe
    /\ tries > 0 => probe /\ best \in Scores
    /\ task = "verify" /\ Armed("off") # {} => tries = 1
    /\ task = "enroll" /\ before => stage < EnrollStages
    /\ task # "none" /\ state = "SESSION" => stage = 0
    /\ worker = "capture_ret" /\ work.feat # "good" => work.extra = 0
    /\ worker = "capture_extra" => work.feat = "good"

\* Unless a wait for release gave up, the finger has been off since the image of
\* the last press: a finger that is there again, or a good image of it, is of a
\* press of its own.
Presses ==
    gaveUp \/
        /\ state \in {"SESSION", "WAIT_ON"} \/ worker = "capture" => (finger => newPress)
        /\ worker \in {"capture_extra", "capture_ret"} /\ work.feat = "good" => work.fresh

IInv ==
    /\ TypeOK /\ Shape /\ Progress /\ Presses
    /\ ExclusiveSensor /\ NoDanglingCallback
    /\ SingleScore /\ TemplateComplete /\ StatusMatchesPhase

\* Every stage is a press of its own ("presses asked of the user").
StagePerPress == [][stage' > stage => work.fresh]_vars

\* gx_dev_close removes the pending poll through poll_id, so an armed poll must
\* be recorded there.
PollTracked == \A s \in sources : s.id = poll_id

\* fprintd's stop call: a cancelled operation ends, whatever the finger does.
CancelEnds == task # "none" /\ cancelled ~> task = "none"

\* A verification ends without the client's help.
VerifyEnds == task = "verify" ~> task = "none"

\* The driver implements the contract of OperationContract: the score of the
\* verification is the best score of its captures, of which there is only one.
Contract == INSTANCE OperationContract
                WITH score <- IF tries = 0 THEN -1 ELSE best

\* Every behaviour of the driver is one the contract allows.
ImplementsContract == Contract!Spec
=============================================================================
