--------------------------- MODULE CaptureContract ---------------------------
(***************************************************************************)
(* What gx_capture_frame promises to its callers, gx_session_start and     *)
(* gx_capture_features: each capture ends in an image or in a failure, an  *)
(* image is used once, in the order in which images were asked for, and it *)
(* is the one this capture asked for as long as no capture has failed in   *)
(* the TLS session.  Commands, frames, records and rounds do not appear.   *)
(***************************************************************************)
EXTENDS Integers

VARIABLES
    busy,   \* a capture runs
    calls,  \* captures started
    from,   \* the capture that asked for the last image used
    result, \* of the last capture, "none" before it has one
    failed  \* a capture failed since the session was set up

vars == <<busy, calls, from, result, failed>>

Init == ~busy /\ calls = 0 /\ from = 0 /\ result = "none" /\ ~failed

Begin ==
    /\ ~busy
    /\ busy' = TRUE /\ calls' = calls + 1 /\ result' = "none"
    /\ UNCHANGED <<from, failed>>

\* An image, of a capture after the one that asked for the last.  A finger frame
\* has the armed state to leave before it returns.
Answer ==
    /\ busy /\ result = "none"
    /\ from' \in from + 1 .. calls
    /\ ~failed => from' = calls
    /\ result' = "ok" /\ busy' \in BOOLEAN
    /\ UNCHANGED <<calls, failed>>

Return ==
    /\ busy /\ result = "ok"
    /\ busy' = FALSE
    /\ UNCHANGED <<calls, from, result, failed>>

Fail ==
    /\ busy /\ result = "none"
    /\ busy' = FALSE /\ result' = "fail" /\ failed' = TRUE
    /\ UNCHANGED <<calls, from>>

\* A new TLS session, also in the middle of a capture.
NewSession ==
    /\ busy => result = "none"
    /\ failed' = FALSE
    /\ UNCHANGED <<busy, calls, from, result>>

Close ==
    /\ ~busy
    /\ result' = "none"
    /\ UNCHANGED <<busy, calls, from, failed>>

Next == Begin \/ Answer \/ Return \/ Fail \/ NewSession \/ Close

Spec == Init /\ [][Next]_vars
=============================================================================
