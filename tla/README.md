# goodixtls: TLA+ models, model checks and proofs

This directory is the verification project of the `goodixtls` libfprint driver (`src/goodixtls.c`,
`src/goodix_tls.c`, `src/goodix_sift.c`) and of its desktop client (`src/gx-verify.py`): TLA+ modules
translated from the code, TLC configurations that check them on small instances, and proofs that TLAPS
checks for every value of the constants. Paths and line numbers below are those of `src/`.

Run a model with `tlc -config X.cfg M.tla`, a proof with `tlapm MProofs.tla`.

## 1. The system

The driver talks over SPI to a fingerprint sensor (a microcontroller, MCU) that speaks a cleartext
command protocol and, for images, TLS-PSK with the *driver* as server. libfprint drives it on behalf of
fprintd: one operation (enrolment or verification) at a time, as an `FpiSsm` state machine on the GLib
main loop, with a worker thread for the blocking dialogue. `gx-verify.py` is a GTK client of fprintd.

| component | state it keeps | operations | talks to |
|---|---|---|---|
| operation state machine (`gx_run_state`, polls, `gx_*_done`) | the SSM and its state, `poll_id`, `GxTask` (polls, stage, views, best, tries) | enrol, verify, poll on / off, session and capture workers, cancellation, completion | libfprint (calls, completion callbacks), the worker (`GTask`), the sensor (probes from the main loop) |
| detection probes (`gx_fdt_probe`, `gx_finger_present`) | none: what is pending is on the bus | send, read twice | the MCU, whose replies may be late |
| sensor node (`gx_dev_open`, `gx_read_psk`, `gx_dev_close`) | `spi_fd`, its flock, the key | open, lock, reset, read the key six times, reopen, close | other processes, through the kernel |
| TLS set-up (`gx_tls_session`, upload, handshake, BIO callbacks) | `tls_rx` (one record, read in pieces), OpenSSL's state | attempts, upload, read and write records, 0xD4 | the MCU, OpenSSL |
| image capture (`gx_capture_frame`, drains, `goodix_tls.c`) | `tls_up`, `tls_reconn`, the one-slot record stash, `read_seq` | capture sequence, drain, reconnect, decrypt | the MCU, which answers late, loses, corrupts, or asks for a reconnect (0xD0) |
| calibration (`gx_session_start`) | background, `fdt_base`, `fdt_abs`, `bg_dirty` | wait for lift, background, check, baseline | the sensor, the user's finger |
| adaptive store (`gx_adapt_*`) | one file per finger beside fprintd's templates | load, append, clear, sweep | the file system, fprintd |
| descriptors (`goodix_sift.c`) | the enrolment's island | choice of keypoints, match, placement and merging of views, serialise | called by worker and main loop |
| client (`gx-verify.py`) | mode, screen, prompt, cached finger properties, claim | start, stop, finish, signals, timer | fprintd over D-Bus: blocking calls out, signals in |
| conversions (12-bit decode, pre-processing, variants), timing scale, knobs, framing | none, or one file | pure, or I/O | |
| test programs, install and recovery scripts | | | the shell |

**What is hard in it.** Main-loop polls and a worker thread share one bus without a lock, and callbacks
hold pointers to an SSM that libfprint frees on completion. A cancellation is only seen by a poll or an
attempt at the TLS set-up. A finger moves at any time, also between the probe and the capture it triggers.
The sensor's answers may arrive after the driver stopped waiting, and most reads take any frame. Two
processes may meet on the node while one of them reopens it. A process may die in the middle of an append,
and fprintd changes its templates without telling the driver. Ridges look alike, and one wrong placement
corrupts every one after it. The client's screen follows signals and cached properties that come later than
what they tell of. Each of these is a hazard in `PROJECT.json`, at its line, with the properties that cover it.

**What makes each component correct.**
Operation: the bus has one user, a callback finds its SSM alive, an operation always has something that
drives it, one capture is scored, a template holds every press, a cancellation is obeyed.
Probes: a poll decides on a measure that is not older than what went wrong explains, and never twice on one.
Sensor node: who talks holds the lock. TLS set-up: up on our side means up on the sensor's, for the same
handshake, and a slow frame fails no attempt. Capture: an image is the one just asked for, the expected
sequence number stays in step, each call returns. Calibration: the thresholds separate a finger from none, a
resting finger is reported. Store: what is loaded was authorised by the present template and was written
whole. Descriptors: keypoints are apart and complete, the island is the union of its views, a score is
evidence. Client: what the screen asks of the user is what the driver is ready for, an answer is that of the
operation shown, and nothing is left running.

## 2. The modules

| module | models | how state and actions correspond |
|---|---|---|
| `Operation` | the operation state machine | one action per main-loop callback *with everything it calls synchronously* (jumps run the next handler, marks run the completion); the worker's steps are actions of their own; `sources` is the set of armed GLib timeouts, `ssm` tells the SSMs of successive operations apart |
| `OperationContract` | what libfprint is promised of one operation | abstract: start, presses, at most one score, one completion that the past justifies; `Operation` implements it (`score <- IF tries = 0 THEN -1 ELSE best`) |
| `Replies` | the probes of an enrolment with the frames they read | `Operation`'s polls again, each probe split into its send and its two reads; the bus is a FIFO, `due` what the sensor has yet to send; a measure carries the probe it answers |
| `SensorLock` | open, key read, reopen and close of several processes | one action per system call, since others run in between; `holder` is the flock, `pending` whether the sensor has a frame to send, which the drain before each attempt reads; each frame drained is a step |
| `Handshake` | `gx_tls_session`: upload, acknowledgements, handshake, 0xD4 | one action per frame read or written and per callback; OpenSSL is its script of records to read and to write; `gpio` says whether the reset line can be driven |
| `Capture` | session, capture sequence, stash, reconnect | one action per command sent, frame read and round of the loop; a record carries the capture it answers, its session and its sequence number; the set-up of a session is one step here (`Handshake`) |
| `CaptureContract` | what `gx_capture_frame` promises its callers | abstract: a capture begins, ends in one image or in a failure, and images are used once and in the order in which they were asked for; `Capture` implements it (`busy` by where the thread is, `from <- image.call`) |
| `Calibration` | `gx_session_start` after the TLS session | one action per probe or capture; the twelve zones are their mean |
| `AdaptiveStore` | load, append, clear, sweep, fprintd's part | a file is a sequence of cells (header, body), a load the set of the blocks the reader keeps; one action per cell written, with a crash or a short write in between. Behind a view cut short the reader loses step and takes descriptor bytes for lengths: `stray` is the number of views it makes of them, chosen as the bytes are written |
| `Keypoints` | the choice of keypoints in `gx_sift_extract` | one action per point: the strongest of what is left of any saliency map, its surroundings blanked |
| `Matching` | `gx_sift_match_xform`, `gx_sift_match`, the fusion of views | operators: a view is a sequence of points, a descriptor a number; ratio test, vote and mask as in the code |
| `Island` | `gx_sift_island_add`, `merge_points`, and presses as `gx_capture_done` feeds them | one action per press, usable or not; the finger is a constant, `MCIsland` gives one; `Legible` and `ScoreSafe` say what a finger must be like for the properties to hold, and the properties are proved from them |
| `VerifyClient` | `gx-verify.py` against fprintd and the driver's phases | one action per GTK callback, signal handled and timer, each with the blocking calls it makes; `inbox` holds the signals not yet dispatched |
| `OperationProofs`, `RepliesProofs`, `HandshakeProofs`, `CaptureProofs`, `AdaptiveStoreProofs`, `VerifyClientProofs`, `SensorProofs`, `DescriptorProofs` | the last two are of two modules each: of `SensorLock` and `Calibration`, what the driver does with the node and with the sensor behind it; of `Keypoints` and `Island` with `Matching`, the points of a view and what becomes of them | theorems and lemmas; as two specifications are in scope, the general names of one say so (`LockInit`, `LockNext`, `LockSpec`, `LockInv`; `KeypointsInit`, `KeypointsNext`, `KeypointsSpec`, `KeypointsInv`) |

A definition `X_Word` next to `X` is a plausible bug in the code `X` models (a dropped guard, a missing
reset). No specification uses it; it shows which mistake each property catches.

The modules meet at abstractions that another module justifies. `Operation` takes a probe as a
reading on either side of the thresholds (`Calibration` says what the thresholds are worth, `Replies` whose
reading it is), a capture as an outcome (`CaptureContract`, which `Capture` implements, says whose image it is), and needs the workers to return
(`Capture!CaptureEnds`, `Calibration!SteadyFingerEnds`, `Handshake!Returns`). `Capture` starts from a session
that is up on both sides with nothing on the bus (`Handshake!UpOnBothSides`). `Operation` and `AdaptiveStore`
take a score as a number; `Island` says what it is evidence of, given views that `Keypoints` chose.
`VerifyClient` has the driver as the phases of `Operation`. All of them assume that the process talks alone
(`SensorLock`). Composing them in one state space is planned where they share more than an outcome
(section 7).

## 3. The runs

| run | asks | result |
|---|---|---|
| `operation` | every interleaving of main loop, worker, client and finger | passes: `ImplementsContract`, `CancelEnds`, `VerifyEnds` and the safety properties |
| `replies` | probes whose replies come late or never: how old is the measure a poll decides on? | passes |
| `sensorlock` | three processes in every order, killed at any point, and a sensor that sends at any point | passes: safety, `QuietOpenEnds` |
| `handshake` | frames late or lost, writes failing, with and without the reset line: what fails an attempt, when is the channel up? | passes: safety, `Returns` |
| `capture` | late, lost, short, corrupt records and reconnects, with and without the re-init knob | passes: safety, `ImplementsContract`, `CaptureEnds` |
| `calibration` | sessions on two units, finger and probe failures anywhere | passes: safety, `SteadyFingerEnds` |
| `adaptivestore` | enrol, verify, re-enrol, delete, crash, short write | passes |
| `keypoints` | every saliency map of a small image | passes |
| `island` | presses at six places of a finger with look-alikes, in any order | passes |
| `verifyclient` | starts, stops, another client and late signals in any order | passes: safety, `PromptShown` |
| `adaptivestore_crash` | does a crash damage only the last view? | violated |
| `capture_stale` | is the image found the one asked for? | violated |

The invariant `IInv` of a run (`LockInv` of `sensorlock`, `KeypointsInv` of `keypoints`) is the inductive one of the proofs. It has the types
and further properties as conjuncts: `OperationDriven` (by `Shape`), `SingleScore`, `TemplateComplete` and
`StatusMatchesPhase` in `Operation`; `HolderHasNode`, `TalksUnderLock` and `ClosedHasNoNode` in `SensorLock`;
that a calibration reported as disturbed was (`DirtyMeansFinger`) in `Calibration`; that a deleted template
leaves no store past the next open (`DeletedIsSwept`) in `AdaptiveStore`; the order of the records (`InStep`),
`FreshWhileIntact` and `UnarmedWhileIntact` in `Capture`; that the records on their way are those the script has
still to read (`Orderly`) in `Handshake`; `NothingLeftRunning` in `VerifyClient`; `Spaced`, `StrongestFirst` and
`Exhaustive` in `Keypoints`. That of `Island`, which consists of types, two of the run's properties and two parts
more, is not among those of `Island.cfg`; added to its INVARIANTS it passes.

**Bounds and why they suffice.**
`Operation`: 2 probes per wait for a finger (300 in the code), 1 per wait for its release (100), so that
each wait can succeed, go on and give up; 3 stages, the fewest `gx_enroll_done` accepts; scores on both sides of, and on, the threshold;
two SSM identities, since only "the current one" and "an older one" are told apart.
`Replies`: two polls per wait, two stages, and at most four probes between two drains that read
all: enough for a reply to be one and two probes late and for a wait to run out.
`SensorLock`: the code's own six attempts and reopening from the third; three processes, so that a third
can take what two quarrel over; one frame pending, which stands for any number, since the sensor may send again after
each read.
`Handshake`: three attempts of five (a first, one with frames of the one before, one after that), four
reads per wait of 200, so that a wait can skip the acknowledgement and time out.
`Calibration`: the values of `goodixtls.h` (340, 24, 30), one unit that idles
above and one below the fallback, the weakest and the strongest press of the comment; 2 waiting steps
for 10. `AdaptiveStore`: one finger (no operation relates two files except the sweep, which treats each
alike), a header and two body cells, cap 2, three views' worth of cells, so that a torn block, one that
fills it and one after it fit; two views read out of step, one past the cap already; scores on every side of the three thresholds; two enrolments.
`Capture`: three captures, so that a late image can survive one and spoil the next; two frames on the
bus, two reads, two handshakes, three rounds (the first, one that reconnects, the last); session numbers
are used in turn, two being enough to tell the present session from the last, and each session ends with the
frames of the one before; a sequence window of 1 makes "too many lost" happen.
`Keypoints`: every map of three saliencies over ten inner pixels, a window of one pixel around a point, a cap
of two that some maps reach and others do not.
`Island`: the code's tolerances and limits (ratio 0.9, 6 and 3 pixels, 3 and 6 pairs, 8 points), 24 features of
which four look like four others and lie alike, six window positions that overlap much, little, not at all and
with too few points, three presses (15 in the code) and points found one pixel off, so that the drift of all
three is just what deduplication forgives. TLC evaluates the hypotheses of the theorems for this finger
(`LegibleAssumption` of `MCIsland`): they hold of it, four look-alikes that agree among them.
`VerifyClient`: two operations, so that one can follow what another left; two stages, three signals waiting.

**Deadlock** is checked except in `keypoints`, `replies`, `handshake` and `verifyclient`: a choice, an enrolment
and a set-up that are over have no further step, and neither has a closed window.

## 4. Fairness

Safety is checked without fairness of the environment. For liveness:

* `Operation`: weak fairness of the polls (the main loop dispatches a ready timeout), of the worker and
  of its completion. A worker returns because a capture is bounded (`CaptureEnds`), a set-up is (`Returns`), and
  a session ends once the finger keeps still (`SteadyFingerEnds`). Nothing is assumed of the client. `VerifyEnds` and
  `CancelEnds` therefore hold for any user who does not tap in step with the session for ever.
* `SensorLock`: weak fairness of an open in progress; none of its calls blocks (`LOCK_NB`). Nothing is assumed of
  the sensor. The drain of `gx_read_psk` has no bound of its own, so `QuietOpenEnds` speaks only of behaviours in
  which the sensor at some point sends nothing more, and `OpenEnds`, which does not, is refuted (section 6).
* `Calibration`: the worker runs on, and a wait for the lift that runs again and again takes
  its rounds (strong fairness of `WaitForLift`, which counts them up to its time-out); the finger has none, and the property speaks only of
  behaviours in which it comes to rest.
* `Capture`, `Handshake`: weak fairness of the worker thread as a whole. No answer of the sensor is assumed.
* `VerifyClient`: weak fairness of the dispatch of signals and of the timer (the main loop runs what is
  ready) and of fprintd's announcements. Neither the driver nor the user has any.

## 5. What is proved

For every value of the constants that satisfies their named assumptions (thresholds and limits are
naturals; at least three stages; `NoProc` is no process; the thresholds lie between idle and press, as
`goodixtls.h` says; the border of the image is no narrower than half a descriptor window).

* **Operation.** `IInv` = types, `Shape` (which timeout or which phase of the worker belongs to which
  state), `Progress` (what the task has reached in each state) and the properties themselves.
  `ExclusiveSensor` alone is not inductive: that `gx_capture_done` may start a worker needs that no other
  poll is armed, which needs to know which state arms what. `StagePerPressOrTimeout` needs `Presses`: unless a
  wait for the release gave up, a finger that is there, or a good image of it, is of a press of its own.
  The step from `IInv` is split into types
  (`NextTypeOK`) and the rest (`NextIInv`), one case per action. From it: type correctness,
  `ExclusiveSensor`, `NoDanglingCallback`, `OperationDriven`, `SingleScore`, `TemplateComplete`,
  `StatusMatchesPhase`, the
  action properties `CancelHonoured`, `NoRetryAfterScore` and `StagePerPressOrTimeout`, and that the driver implements
  `OperationContract` (initial states map to initial states, `ContractStep` maps every step to a step or a
  stutter).
* **Replies.** `FreshEnough` by counting: each reply has a `Place` among all those to the probes sent, and is
  behind the reads done by no more than the reads that found nothing (`Explained`), for what is on the bus
  and, shifted by its length, for what is due. `ReadInOrder` needs that places grow along both (`InOrder`).
  Lemmas say what appending, taking and losing a reply do to such a queue.
* **SensorLock.** `LockInv`, for any number of processes and attempts; types, `TalksUnderLock`,
  `ExclusiveUnlessReopened`, `HolderHasNode`, `ClosedHasNoNode`.
* **Calibration.** `IInv`, in which the average of equal values is that value (`AverageOfEqual`); types,
  `DetectionSound`, `RestingFingerNoticed`, `DirtyMeansFinger`.
* **Capture.** `IInv`, for any limits of the loops, any window, number of sessions and room on the bus.
  None of its safety properties is inductive. `InStep` needs `InOrder`: the records on the bus carry
  growing numbers, the stashed one precedes them all, and nobody waits on the bus with a record in the
  stash (`Shape`); then decrypting the first record cannot overtake another. `FreshWhileIntact` needs
  `Pending`: outside a capture nothing is pending, inside it one image at most, either owed, on the bus or
  stashed, and it is this capture's. `UnarmedWhileIntact` needs `ArmedForFinger`. There is one lemma per part
  (`NextShape`, `NextInOrder`, `NextPending`, `NextArmed`, `NextFresh`, `NextAnswering`, `NextCalls` and
  `NextTypeOK`), one case per action;
  `Drops` and `NextDrops` reduce the fourteen ways a frame can leave the bus to a shift of its indices.
  That `Capture` implements `CaptureContract` needs `CallsInOrder` besides: the images stashed, on the bus and
  owed belong to different captures, in this order, all of them later than the one of the last image used,
  and none of them to a capture that has not asked yet; it holds after failures too, which is why a stale
  image is at least never used twice. `ContractStep` maps each step to a step or a stutter.
  From it all: type correctness, `InStep`, `FreshWhileIntact`, `UnarmedWhileIntact`, `RefusedBeyondWindow`
  and the refinement.
* **Handshake.** `IInv`, for any number of attempts and of reads per wait. The library goes through its
  script step by step (`LeftSteps`, `Reading`, `Writing`): it reads what the step names or writes what the
  step says, and the stash holds the pieces of one record (`Pieces`). `UpOnBothSides` is not inductive: a
  Finished that is taken might be of an attempt before. It needs that a Finished of this attempt, wherever
  it is, answers the hellos of this attempt (`FinishedAnswers`), and that what is left after it brings the
  sensor's side up (`Finishing`). Both hold with frames lost, late or of another attempt, and without a reset
  line. `NoStrayFrames` and `TimeoutMeansLate` need `Orderly`: with a reset line, and until something goes
  wrong, what is on the bus and what is due are, together, a number of acknowledgements and then exactly the
  records to be read before the library writes again, all of this attempt. `OrderedTail` and
  `OrderedConcat` say what taking and adding a frame do to such a line. There is one lemma per part, one case per
  action. `TimeoutMeansLate` speaks of a step: an empty line would be in order only where the script reads
  nothing.
* **AdaptiveStore.** `IInv` = `StoreInv`, what is written and by whose leave, and `ReaderInv`, what the
  reader makes of it. `StoreAuthorised` needs what is *about to be* written (the cells of an append under way,
  and that a template about to be saved has an empty file). `EarlierViewsSurvive` needs the layout of a file
  between appends and during one (`Layout`, `Appending`): the complete blocks come first, at multiples of the
  size of a block, and what was torn follows them. `CapHeld` needs that an append under way, or
  cut short, has room for a view more (`Capped`), and that until something is appended behind a view cut short
  the reader is in step (`InStep`, `StaysInStep`), so that what it keeps is what was written (`ReadsWhatWasWritten`).
  Nothing is claimed of how many views a reader out of step finds. The other lemmas are of a file that grows by a
  cell: a block that is there is read as before (`Extends`, `WholeIsKept`). From it types, `StoreAuthorised`,
  `DeletedIsSwept`, `CapHeld`, `EarlierViewsSurvive` and the action property `AcquiredOnMatch`.
* **Keypoints.** For any image, border, spacing and cap: `KeypointsInv` adds that what is left of the map is the map
  or lies near a point as salient, from which `WellChosen` follows.
* **VerifyClient.** `IInv`, for any number of operations and stages and any length of the queue: an operation
  says last that it has ended, and only then is no longer worked for (`AnswersInOrder`, `Working`).
  `ScreenIsTrue` relates the screen to the driver through the signals under way: what was last announced is the
  last of the queue, or the cache when there is none (`AnnouncedInOrder`), the driver reports the status of its
  phase (`PhaseReported`), and the screen follows the cache (`ScreenFollows`). From it types,
  `NothingLeftRunning`, `ScreenIsTrue` and the action property `AnswersOwnOperation`.
* **Island.** For any finite finger, windows, tolerances and number of stages, from two hypotheses about
  the finger that `Island.tla` states and that its runs' finger meets. `Legible` is asked for placing:
  - `Steady`: what the detections of all presses may be off, `Stages * Jitter`, is within the deduplication
    radius, and that within the vote's tolerance (3 and 6 pixels in the code). For all 15 stages of the code
    this is a detector that repeats itself to the pixel; where it is a pixel off, the theorems speak of the first
    three presses. Without a bound on the drift deduplication does fail (`Island_duplicates`, points found four
    pixels off).
  - `InFrame`: the 16 bits of a position hold the finger from any first view, so that no shift wraps.
  - `FeaturesApart`: different features are farther apart than deduplication and drift reach together.
  - `MergeSafe`: a `Confused` pair is one of different features that the ratio test keeps, whatever else is in
    the window; it does not imply a translation close to the true one, and fewer of them imply any one translation
    than `MERGE_MIN_PAIRS`. This is what the comment on that constant relies on ("demanding").

  `ScoreSafe` is asked for the score besides: between two presses, confusions that agree are fewer than
  `MIN_PAIRS` or than what the presses surely share, unless look-alikes win for want of it, in which case
  `EvidenceIsTrue` claims nothing.

  The argument. Two true pairs imply the same translation up to `Slack`, and a confusion never one that
  agrees with theirs (`AgreeingPairs`), so that a cluster consists of true pairs or of confusions only
  (`ClustersApart`). Whichever pair wins has at most as many votes as it has accomplices
  (`ConfusedVotes`, an injection from votes to confusions); what merging asks for only a true pair has
  (`PlacingIsTrue`), and it places the view where its window lies. `WellPlaced` is not inductive: its drift
  bounds each point by itself, and two points at opposite ends of it would place the next view wrongly by
  twice as much. `Registered` says what is: there is one interval, of one detection for each view placed, that has
  the errors of all points. Then two points duplicate each other exactly when they show the same feature
  (`DuplicatesAreSightings`), those merged are the features not there yet (`FreshOfDistinct`, `MergedShows`), and
  the island is the union of its views (`PlacedIsUnion`, with `BoundsHold` for the box). A score counts the
  features explained (`FusedIsEvidence`), none twice, since a view shows each once (`ViewShows`). From it types,
  `WellPlaced`, `IslandIsUnion` and `EvidenceIsTrue`. Merging is a loop over the points of a view, in the order of
  the array; `Fresh` and `InOrder` have it as a recursive function and an enumeration, of which
  `FreshOfDistinct` and `InOrderIsEnumeration` say, without induction over the data, what they come to where
  the points of a view do not duplicate each other.

**Only model-checked**: all liveness and the fairness it rests on, which are beyond the prover. Every safety
invariant and action property of a passing run is stated by a theorem; those of `Island` under the hypotheses
above, and what happens to fingers that do not meet them is left to TLC and to the finger one gives it.

## 6. What the checks found

Two runs end in a violation. Each quotes, in `PROJECT.json`, the line of the code or its comments that
says otherwise, and beside each a property that does hold says how far the promise reaches.

* **`ImageIsFresh`** (`goodixtls.c:1188`). Nothing empties the stash or the bus when a capture fails: its late image is
  stashed by the next sequence and, if the drain ends before the new image comes, returned as the new one.
  `FreshWhileIntact` holds: it takes a failed capture since the handshake.
* **`CrashDamagesOnlyLast`** (`goodixtls.c:1843`). The append after a torn block completes it with bytes of its own, so that
  the reader accepts a view made of two captures. `EarlierViewsSurvive` holds: the views before it stay, and
  the torn one is skipped until something is appended.

Further statements of the code that the models refute. Each has a configuration of its own, which ends in
the violation of the property named; the first column tells what to run.

| configuration, module | property | the code and what it says |
|---|---|---|
| `Operation_polltracked`, `Operation` | `PollTracked` | `goodixtls.c:2229`: the release poll jumps to `GX_ST_WAIT_ON`, whose handler arms and records the next poll, and then sets `poll_id = 0`; `gx_dev_close` removes only the recorded poll (2565). `NoDanglingCallback` holds nevertheless: libfprint does not close during an operation |
| `Operation_stagepress`, `Operation` | `StagePerPress` | 2221: the wait for release gives up after 100 polls with the finger down, and the same press fills the next stage, though stages are "presses asked of the user" (1378). `StagePerPressOrTimeout` holds |
| `SensorLock_mutex`, `SensorLock` | `MutualExclusion` | 2466: `gx_read_psk` closes the locked node, reopens it and ignores the result of `flock`, though "two interleaved dialogues corrupt frame boundaries" (2523). `ExclusiveUnlessReopened` holds |
| `SensorLock_drain`, `SensorLock` | `OpenEnds` | 2451: before each attempt `gx_read_psk` reads for as long as there is a frame; a sensor that always has another keeps the open, and with it the main loop, there, though the loop is for "one pending frame" (2450). `QuietOpenEnds` holds: the open ends once the sensor falls silent |
| `Calibration_poisoned`, `Calibration` | `RestingFingerAlwaysNoticed` | 1614: the baseline is measured after the wait gave up, or after a failed probe, with the finger down, though "the wait above guarantees no finger is present" (1599). `RestingFingerNoticed` holds |
| `Calibration_lowidle`, `Calibration` | `IdleLevelIrrelevant` | 2544: on a unit that idles below the fallback 340 the first session after each open asks for the removal of a finger that is not there, though "where idle actually is no longer matters" (1611). `DirtyMeansFinger` holds for a unit above it |
| `AdaptiveStore_cap`, `AdaptiveStore` | `LoadBounded` | 1836: after an append behind a view cut short the reader is out of step, and the next length it reads is four bytes of a descriptor. It stops only if they name more than the file has left; zero and other small values let it read on, and `gx_sift_deserialize` (`goodix_sift.c:369`) accepts a blob that counts no points. The cap is looked at once, before the append (2621), so one append may add several views, and what is scored passes the "cap, bounding verification time" (1802). `CapHeld` holds: it takes an append behind a view cut short |
| `AdaptiveStore_unlink`, `AdaptiveStore` | `ViewsDieWithTemplate` | 1900: an `unlink` that fails goes unnoticed, and the old views score for the new template, though they "must not outlive the template that authorised them" (1893). `StoreAuthorised` holds while files go |
| `Capture_unarmed`, `Capture` | `FingerFrameArmed` | 1015: when the first FDT pass brings no measure the finger frame is captured unarmed, though "the finger frame arms fdt_down first" (978) |
| `Replies_timeout`, `Replies` | `TimeoutMeansNoFinger` | 1307: one acknowledgement that is late shifts every later read; the wait runs out with the finger down and nothing lost. `FreshEnough` bounds what else it can do |
| `Handshake_hello`, `Handshake` | `HelloRemains` | 800: the read after 0xD0 may swallow the ClientHello, of which the comment says that it remains. `TimeoutMeansLate` holds: only where an answer was late or lost |
| `Island_duplicates`, `MCIsland` | `OnePointPerFeature` | `goodix_sift.c:433`: a point 4 to 6 pixels off its place helps to place its view (tolerance 6) and is kept again (tolerance 3), though deduplication "is a requirement" (412). `IslandIsUnion` holds while the detections drift by no more than deduplication forgives (`Steady`) |
| `VerifyClient_retry`, `VerifyClient` | `NoPromptAfterRetry` | `gx-verify.py:376`: after an unusable press the client asks for the finger at once, while the driver takes the background, though the prompt is to be hidden "until the driver has asked for the finger" (303) |
| `VerifyClient_timer`, `VerifyClient` | `SyncInTime` | 298: the timer reads a cached property that an earlier operation may have left, and prompts during a calibration |
| `VerifyClient_idle`, `VerifyClient` | `IdleDoesNotPrompt` | 376: a retry or a stage dispatched after Stop makes an idle client ask for a finger; `on_props` looks at the mode (348), these do not |
| `VerifyClient_zone`, `VerifyClient` | `NextZonePrompted` | 478: after "Too close to the previous placement" the next change of a property shows the zone before |

## 7. Plan

What is left, in this order:

1. **Composition.** `Operation` over `Capture` and `Calibration`: what a failed capture of one press does to
   the next, and that the background of a session is one; `Operation` over `AdaptiveStore`: that what is
   acquired is what was matched, across operations. `CaptureContract` is the interface.
2. **Fingers that are not legible.** How far fifteen presses can make the island drift when points are found
   a pixel off, which `Steady` excludes: the bound of `Registered` grows with each view, and whether a choice of
   presses reaches it is not shown.
3. **Conversions** against reference definitions over bounded inputs: the 12-bit decode with the check of a
   record's length (`goodixtls.c:1223`), the derivation of the scan bases at their widths (`goodixtls.c:967`).

## 8. What the models leave out

* The cryptography: a record is readable with the keys of its session and no others. OpenSSL goes by a
  script of records and gives up at any other. The image: it is
  short, corrupt or full, and its features are good or not.
* The floating-point code: the saliency map (any map is possible), the descriptors (a number each, whose
  distances compare as the code's do) and `gx_preprocess`. The serialisation of a view is modelled by the
  cells of `AdaptiveStore`, the same number for every view; templates are the numbers of their views.
* The bytes of a frame. A frame that is lost is lost whole; a desynchronisation in the middle of a frame,
  which the reader leaves by scanning for the next header, and a record written in part by `gx_bio_send`, are
  not modelled. Checksums and delays are not either.
* In `Capture`: the diagnostic knobs `gx_seq_override` and `GX_FULL_INIT` and `gx_dump_capture`; the cleartext
  replies, which only pace the drains; frames that a failed last handshake leaves behind; a reset that does
  not reach the sensor (`Handshake` has it). The commands 0x36, 0x50 and 0x20 have an effect only once the
  sensor has a session. The values of the scan bases.
* In `Replies`: what a capture's own commands answer; its drains read all that is there.
* In `AdaptiveStore`: the sizes of views, which differ in the code; a reader in step finds every length at a
  multiple of one size. What a reader out of step makes of the bytes is a number of views (`stray`), not their
  content, of which nothing is claimed, and a number that only grows while the file does.
* In `Island`: the extra view of a press (`goodixtls.c:2065-2081`), which joins the template (2245) but is never
  registered against the island, and the views of the adaptive store: a verification scores against these too.
* In `Operation`: whose image a capture returns. `Presses` takes each to be of the finger that is there; a late image
  of a capture before is `Capture`'s subject (`ImageIsFresh`, refuted).
* The learned timing scale: a clamp and a file. Nothing raises `timing_scale` above `timing_saved` at this
  commit, so that `gx_timing_save` never writes, and nothing decided elsewhere depends on the delay it scales.
* In `VerifyClient`: the score and the coverage read from the journal, beyond the zone they choose; the
  drawing; texts.
* Installation, recovery and udev scripts, the translations, the test and diagnostic programs.
