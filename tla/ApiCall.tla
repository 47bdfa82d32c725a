------------------------------ MODULE ApiCall ------------------------------
(***************************************************************************)
(* What the rest of nbtools may assume of one call to the NetBox API.      *)
(*                                                                         *)
(* The session that netbox.connect() builds promises two things, and both  *)
(* tools are written on top of them: a write takes effect at most once,    *)
(* and a call that is reported as done has taken effect.  It does not      *)
(* promise that a failed write did NOT take effect: the answer may be lost *)
(* on the way back, and the change may even land after the error.          *)
(* HttpRetry is the session itself; it implements this module.             *)
(***************************************************************************)
EXTENDS Naturals

CONSTANTS
    READ_METHODS,   \* methods that change nothing (GET, HEAD, OPTIONS)
    WRITE_METHODS   \* methods that change NetBox (POST, PATCH, DELETE)

VARIABLES
    method,         \* the method of this call
    applied,        \* how often the call has changed NetBox
    answer          \* "pending", "ok" or "ApiError"

vars == <<method, applied, answer>>

Init ==
    /\ method \in READ_METHODS \cup WRITE_METHODS
    /\ applied = 0
    /\ answer = "pending"

\* NetBox performs the write: before the answer, or after an error.
Apply ==
    /\ method \in WRITE_METHODS
    /\ applied = 0
    /\ answer # "ok"
    /\ applied' = 1
    /\ UNCHANGED <<method, answer>>

Succeed ==
    /\ answer = "pending"
    /\ method \in WRITE_METHODS => applied = 1
    /\ answer' = "ok"
    /\ UNCHANGED <<method, applied>>

Fail ==
    /\ answer = "pending"
    /\ answer' = "ApiError"
    /\ UNCHANGED <<method, applied>>

Next == Apply \/ Succeed \/ Fail

Spec == Init /\ [][Next]_vars
=============================================================================
