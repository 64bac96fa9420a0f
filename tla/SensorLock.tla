------------------------------ MODULE SensorLock ------------------------------
(***************************************************************************)
(* Several processes (fprintd, a test program) share the spidev node of    *)
(* the sensor.  gx_dev_open takes an exclusive flock on it, and gx_read_psk *)
(* closes and reopens the node when the key cannot be read.                *)
(*                                                                         *)
(* A process is the sequence of system calls that gx_dev_open makes, each  *)
(* an action, since other processes run between them; what it says to the  *)
(* sensor in between is a step of the dialogue that succeeds or fails.     *)
(* A process may be killed at any point: the kernel closes its descriptor. *)
(*                                                                         *)
(* Before each attempt gx_read_psk reads until the sensor has no frame     *)
(* left, a loop with no bound of its own: the sensor, which is not the     *)
(* program, may have another frame ready each time.                        *)
(*                                                                         *)
(* X_Word after the name of a definition X is a plausible bug in the code  *)
(* X models; LockNext does not use it.                                     *)
(***************************************************************************)
EXTENDS Integers

CONSTANTS
    Procs,          \* the processes that use the sensor
    NoProc,         \* the holder of a lock that is free
    PskAttempts,    \* how often gx_read_psk tries
    ReopenFrom      \* the attempt from which it reopens the node

ASSUME ProcAssumption == NoProc \notin Procs
ASSUME AttemptAssumption ==
    PskAttempts \in Nat \ {0} /\ ReopenFrom \in Nat /\ ReopenFrom <= PskAttempts

VARIABLES
    at,     \* where the process is in gx_dev_open
    fd,     \* spi_fd >= 0
    holder, \* the process whose descriptor holds the flock
    att,    \* gx_read_psk: the attempt that runs
    key,    \* the pre-shared key has been read
    lost,   \* history: flock failed on the reopened node and was ignored
    pending \* 1 while the sensor has a frame to send

lockVars == <<at, fd, holder, att, key, lost, pending>>

Places ==
    {"closed", "unlocked", "reset", "drain", "psk", "reopen", "relock", "open"}
-----------------------------------------------------------------------------
LockInit ==
    /\ at = [p \in Procs |-> "closed"] /\ fd = [p \in Procs |-> FALSE]
    /\ holder = NoProc /\ att = [p \in Procs |-> 0]
    /\ key = [p \in Procs |-> FALSE] /\ lost = [p \in Procs |-> FALSE]
    /\ pending = 0

\* The sensor has something to send: an answer, a late one, or one to nobody.
SensorSends ==
    /\ pending = 0 /\ pending' = 1
    /\ UNCHANGED <<at, fd, holder, att, key, lost>>

\* Commands and their answers, or a reset: the frame that waits may be read
\* or dropped on the way.
Exchange == pending' \in {pending, 0}

Goto(p, place) == at' = [at EXCEPT ![p] = place]
FdIs(p, isOpen) == fd' = [fd EXCEPT ![p] = isOpen]

\* close(2): the lock belongs to the open file, and goes with it.
ReleaseBy(p) == holder' = IF holder = p THEN NoProc ELSE holder

\* flock (LOCK_EX | LOCK_NB) by p succeeds.
CanLock(p) == holder \in {NoProc, p}

\* open(2) succeeds; when it does not, gx_dev_open reports the error and the
\* process stays closed.
OpenNode(p) ==
    /\ at[p] = "closed"
    /\ Goto(p, "unlocked") /\ FdIs(p, TRUE)
    /\ UNCHANGED <<holder, att, key, lost, pending>>

LockNode_Blind(p) ==
    /\ at[p] = "unlocked"
    /\ holder' = IF CanLock(p) THEN p ELSE holder
    /\ Goto(p, "reset")
    /\ UNCHANGED <<fd, att, key, lost, pending>>

LockNode(p) ==
    /\ at[p] = "unlocked" /\ CanLock(p)
    /\ holder' = p
    /\ Goto(p, "reset")
    /\ UNCHANGED <<fd, att, key, lost, pending>>

\* Another process holds the lock: close and report BUSY.
Refused_KeepsFd(p) ==
    /\ at[p] = "unlocked" /\ ~CanLock(p)
    /\ Goto(p, "closed")
    /\ UNCHANGED <<fd, holder, att, key, lost, pending>>

Refused(p) ==
    /\ at[p] = "unlocked" /\ ~CanLock(p)
    /\ Goto(p, "closed") /\ FdIs(p, FALSE)
    /\ UNCHANGED <<holder, att, key, lost, pending>>

\* gx_gpio_reset and gx_read_fw_version, then gx_read_psk.
Reset(p) ==
    /\ at[p] = "reset"
    /\ Goto(p, "drain") /\ att' = [att EXCEPT ![p] = 1]
    /\ Exchange
    /\ UNCHANGED <<fd, holder, key, lost>>

\* "Drain: one pending frame shifts every subsequent read": the frame is read
\* into the scratch buffer, and the loop reads again.
Drain(p) ==
    /\ at[p] = "drain" /\ pending = 1
    /\ pending' = 0
    /\ UNCHANGED <<at, fd, holder, att, key, lost>>

\* A read finds nothing, or fails on a frame that is torn or too long: the
\* loop ends, and the memory read is sent.
Drained(p) ==
    /\ at[p] = "drain"
    /\ Goto(p, "psk") /\ Exchange
    /\ UNCHANGED <<fd, holder, att, key, lost>>

PskRead(p) ==
    /\ at[p] = "psk"
    /\ Goto(p, "open") /\ key' = [key EXCEPT ![p] = TRUE]
    /\ Exchange
    /\ UNCHANGED <<fd, holder, att, lost>>

NextAttempt_Endless(p) ==
    /\ att' = [att EXCEPT ![p] = IF @ < PskAttempts THEN @ + 1 ELSE @]
    /\ Goto(p, "drain") /\ Exchange

\* The end of an attempt: reset the sensor and try again, or give up;
\* gx_dev_open completes in both cases.
NextAttempt(p) ==
    /\ att' = [att EXCEPT ![p] = @ + 1]
    /\ Goto(p, IF att[p] < PskAttempts THEN "drain" ELSE "open")
    /\ Exchange

PskFails(p) ==
    /\ at[p] = "psk" /\ att[p] < ReopenFrom
    /\ NextAttempt(p)
    /\ UNCHANGED <<fd, holder, key, lost>>

\* From the third attempt: close the node, which drops the lock, ...
PskFailsCloses(p) ==
    /\ at[p] = "psk" /\ att[p] >= ReopenFrom
    /\ Goto(p, "reopen") /\ FdIs(p, FALSE)
    /\ ReleaseBy(p) /\ Exchange
    /\ UNCHANGED <<att, key, lost>>

\* ... open it again; if that fails gx_read_psk returns without a descriptor ...
ReopenNode(p) ==
    /\ at[p] = "reopen"
    /\ \/ Goto(p, "relock") /\ FdIs(p, TRUE)
       \/ Goto(p, "open") /\ UNCHANGED fd
    /\ UNCHANGED <<holder, att, key, lost, pending>>

\* ... and lock it again, without looking at the result.
Relock(p) ==
    /\ at[p] = "relock"
    /\ holder' = IF CanLock(p) THEN p ELSE holder
    /\ lost' = [lost EXCEPT ![p] = ~CanLock(p)]
    /\ NextAttempt(p)
    /\ UNCHANGED <<fd, key>>

\* An open device is used: its operations read what the sensor sends.
Use(p) ==
    /\ at[p] = "open" /\ fd[p] /\ pending = 1
    /\ pending' = 0
    /\ UNCHANGED <<at, fd, holder, att, key, lost>>

\* gx_dev_close, or the death of the process.
LeaveNode(p) ==
    /\ Goto(p, "closed") /\ FdIs(p, FALSE)
    /\ ReleaseBy(p)
    /\ att' = [att EXCEPT ![p] = 0] /\ key' = [key EXCEPT ![p] = FALSE]
    /\ lost' = [lost EXCEPT ![p] = FALSE]
    /\ UNCHANGED pending

Close(p) == at[p] = "open" /\ LeaveNode(p)
Die(p) == at[p] # "closed" /\ LeaveNode(p)
-----------------------------------------------------------------------------
Opening(p) ==
    \/ LockNode(p) \/ Refused(p) \/ Reset(p) \/ Drain(p) \/ Drained(p)
    \/ PskRead(p) \/ PskFails(p) \/ PskFailsCloses(p) \/ ReopenNode(p) \/ Relock(p)

LockNext ==
    \/ SensorSends
    \/ \E p \in Procs : OpenNode(p) \/ Opening(p) \/ Use(p) \/ Close(p) \/ Die(p)

LockSpec == LockInit /\ [][LockNext]_lockVars

\* gx_dev_open runs on: none of its calls blocks.  Nothing is assumed of the
\* sensor, nor that the drain ends while the sensor has more to send.
FairLockSpec == LockSpec /\ \A p \in Procs : WF_lockVars(Opening(p))
-----------------------------------------------------------------------------
\* The process exchanges frames with the sensor, or may at any moment: it has
\* the node open and is past gx_dev_open's refusal.
Talking(p) == fd[p] /\ at[p] \in {"reset", "drain", "psk", "open"}

\* The type of every variable; the sixth attempt is the last.
LockTypeOK ==
    /\ at \in [Procs -> Places] /\ fd \in [Procs -> BOOLEAN]
    /\ holder \in Procs \cup {NoProc} /\ att \in [Procs -> 0 .. PskAttempts + 1]
    /\ key \in [Procs -> BOOLEAN] /\ lost \in [Procs -> BOOLEAN]
    /\ pending \in 0 .. 1

\* The lock always belongs to a process that got through gx_dev_open's flock
\* or through the one of gx_read_psk, and never outlives its descriptor.
HolderHasNode ==
    holder # NoProc =>
        fd[holder] /\ at[holder] \in {"reset", "drain", "psk", "open"}

\* Whoever talks to the sensor holds the lock, except a process that reopened
\* the node and ignored that it did not get the lock back.
TalksUnderLock == \A p \in Procs : Talking(p) => holder = p \/ lost[p]

\* Two processes talk at once only if one of them lost its lock to gx_read_psk.
ExclusiveUnlessReopened ==
    \A p, q \in Procs : p # q /\ Talking(p) /\ Talking(q) => lost[p] \/ lost[q]

\* A device that is closed, or whose open was refused, keeps no descriptor.
ClosedHasNoNode == \A p \in Procs : at[p] = "closed" => ~fd[p]

\* The dialogue of one process at a time: "two interleaved dialogues corrupt
\* frame boundaries ... Refusing the open outright is better".
MutualExclusion ==
    \A p, q \in Procs : p # q => ~(Talking(p) /\ Talking(q))

\* The inductive invariant.
InOpen(p) ==
    /\ at[p] \in {"unlocked", "reset", "drain", "psk", "relock"} => fd[p]
    /\ at[p] = "reopen" => ~fd[p]
    /\ at[p] \in {"drain", "psk", "reopen", "relock"} => att[p] <= PskAttempts

LockInv ==
    /\ LockTypeOK /\ HolderHasNode /\ TalksUnderLock /\ ClosedHasNoNode
    /\ \A p \in Procs : InOpen(p)

\* From some moment on the sensor sends nothing more.
SensorFallsSilent == <>[][pending' <= pending]_lockVars

\* Once the sensor falls silent every open ends, refused or complete, however
\* many attempts fail and whatever the other processes do.
QuietOpenEnds ==
    SensorFallsSilent =>
        \A p \in Procs : at[p] = "unlocked" ~> at[p] \in {"open", "closed"}

\* Every open ends, whatever the sensor sends.  It does not: the drain of
\* gx_read_psk goes on for as long as the sensor has another frame.
OpenEnds == \A p \in Procs : at[p] = "unlocked" ~> at[p] \in {"open", "closed"}
=============================================================================
