------------------------------- MODULE Logins -------------------------------
(***************************************************************************)
(* What a specification of handlers that ask for a credential declares:    *)
(* the administrators' and the parents' each give it their own meaning.    *)
(***************************************************************************)
EXTENDS LimiterClock

CONSTANT Reqs  \* the handlers that may be served at once

VARIABLES
    req,     \* the handlers
    tokens,  \* the session tokens issued, with the credential that earned them
    begun    \* how many requests have been begun
=============================================================================
