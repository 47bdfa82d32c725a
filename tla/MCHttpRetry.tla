---------------------------- MODULE MCHttpRetry ----------------------------
(***************************************************************************)
(* HttpRetry with the methods pynetbox uses, and the default retry budget. *)
(***************************************************************************)
EXTENDS HttpRetry

MCMethods == {"GET", "POST", "PATCH", "DELETE"}
MCRetryMethods == {"GET"}
=============================================================================
