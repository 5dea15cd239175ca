----------------------------- MODULE Background -----------------------------
(***************************************************************************)
(* background.Group (internal/background/background.go): the counter of    *)
(* fire-and-forget goroutines and the channel a waiter blocks on.  Go, the *)
(* deferred decrement and the start of Wait each run under the group's     *)
(* mutex, so each is one step.  The group has one waiter, shutdown.        *)
(***************************************************************************)
EXTENDS Naturals

VARIABLES
    running,  \* goroutines started and not yet returned
    idle      \* the channel: "nil", "open" (a waiter made it) or "closed"

groupVars == <<running, idle>>

GroupType == running \in Nat /\ idle \in {"nil", "open", "closed"}

GroupInit == running = 0 /\ idle = "nil"

\* Go counts the goroutine before it starts.
Go == running' = running + 1 /\ UNCHANGED idle

\* The goroutine's function returned or panicked; the last one out wakes the
\* waiter.
Return ==
    /\ running > 0
    /\ running' = running - 1
    /\ idle' = IF running' = 0 /\ idle = "open" THEN "closed" ELSE idle

\* Wait finds nothing running ...
WaitNone == running = 0 /\ UNCHANGED groupVars

\* ... or makes the channel and blocks on it.
WaitBlock == running > 0 /\ idle' = "open" /\ UNCHANGED running

\* The blocked waiter sees the channel closed.
WaitDone == idle = "closed" /\ UNCHANGED groupVars
=============================================================================
