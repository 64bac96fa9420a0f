-------------------------- MODULE OperationContract --------------------------
(***************************************************************************)
(* What the driver promises to libfprint, and through it to fprintd, about *)
(* one operation: it advances through its presses one by one, scores at    *)
(* most one capture, and completes once, with a result that what happened  *)
(* before justifies.  How the driver gets there (states, polls, threads)   *)
(* does not appear.                                                        *)
(***************************************************************************)
EXTENDS Integers

CONSTANTS EnrollStages, MatchThreshold, Scores

VARIABLES
    task,       \* the operation that runs: "none", "enroll", "verify"
    cancelled,  \* the client asked for its end
    stage,      \* usable presses so far
    score,      \* the score of the verification, NoScore before it
    outcome     \* how the last operation ended, "none" while one runs

vars == <<task, cancelled, stage, score, outcome>>

NoScore == -1

Init ==
    /\ task = "none" /\ cancelled = FALSE
    /\ stage = 0 /\ score = NoScore /\ outcome = "none"

Start ==
    /\ task = "none"
    /\ task' \in {"enroll", "verify"}
    /\ cancelled' = FALSE /\ stage' = 0 /\ score' = NoScore /\ outcome' = "none"

Cancel ==
    /\ task # "none"
    /\ cancelled' = TRUE
    /\ UNCHANGED <<task, stage, score, outcome>>

Press ==
    /\ task = "enroll" /\ stage < EnrollStages
    /\ stage' = stage + 1
    /\ UNCHANGED <<task, cancelled, score, outcome>>

Score ==
    /\ task = "verify" /\ score = NoScore
    /\ score' \in Scores
    /\ UNCHANGED <<task, cancelled, stage, outcome>>

\* The results that the course of the operation justifies.
Justified(result) ==
    \/ result = "match" /\ task = "verify" /\ ~cancelled /\ score >= MatchThreshold
    \/ result = "no_match" /\ task = "verify" /\ ~cancelled
         /\ score # NoScore /\ score < MatchThreshold
    \/ result = "template" /\ task = "enroll" /\ ~cancelled /\ stage = EnrollStages
    \/ result = "cancelled" /\ cancelled
    \/ result = "retry" /\ score = NoScore /\ stage < EnrollStages
    \/ result = "proto" /\ score = NoScore /\ stage = 0

Complete ==
    /\ task # "none"
    /\ task' = "none"
    /\ Justified(outcome')
    /\ UNCHANGED <<cancelled, stage, score>>

Next == Start \/ Cancel \/ Press \/ Score \/ Complete

Spec == Init /\ [][Next]_vars
=============================================================================
