------------------------------ MODULE Shutdown ------------------------------
(***************************************************************************)
(* The life of the API process after it starts serving (cmd/api/main.go,   *)
(* the end of run, shutdown and finished): HTTP requests, the absence cron *)
(* job and background work all use the database; a signal drains them in   *)
(* that order under one deadline and then closes the database.             *)
(***************************************************************************)
EXTENDS Background

CONSTANTS
    MaxRequests,  \* bound: requests being served at once
    MaxTasks      \* bound: background goroutines at once

ASSUME BoundAssumption == MaxRequests \in Nat /\ MaxTasks \in Nat

VARIABLES
    pc,        \* where main is
    requests,  \* handlers that have not returned
    jobs,      \* absence jobs that have not returned
    late,      \* the shutdown deadline (ctx) has passed
    clean,     \* shutdown's local of that name
    dbOpen,    \* the connection pool
    exit       \* "none" while the process lives, then how it ended

vars == <<groupVars, pc, requests, jobs, late, clean, dbOpen, exit>>
mainVars == <<pc, late, clean, dbOpen, exit>>

TypeOK ==
    /\ GroupType
    /\ pc \in {"serve", "failed", "http", "cron", "bg", "bgBlocked", "end"}
    /\ requests \in Nat /\ jobs \in Nat
    /\ late \in BOOLEAN /\ clean \in BOOLEAN /\ dbOpen \in BOOLEAN
    /\ exit \in {"none", "ok", "incomplete", "serveError", "killed"}

Init ==
    /\ GroupInit
    /\ pc = "serve" /\ requests = 0 /\ jobs = 0
    /\ late = FALSE /\ clean = TRUE /\ dbOpen = TRUE /\ exit = "none"

Alive == exit = "none"

-----------------------------------------------------------------------------
(* The work.  A handler or the job may start background work at any point  *)
(* before it returns; background work starts none.                         *)

\* A connection that is not idle yet may still bring a request while
\* srv.Shutdown runs, and open connections outlive a failed Serve.
RequestStarts ==
    /\ Alive /\ pc \in {"serve", "failed", "http"} /\ requests < MaxRequests
    /\ requests' = requests + 1
    /\ UNCHANGED <<groupVars, jobs, mainVars>>

RequestReturns ==
    /\ Alive /\ requests > 0
    /\ requests' = requests - 1
    /\ UNCHANGED <<groupVars, jobs, mainVars>>

\* The cron starts the job at its hour, until Stop is called.
JobStarts ==
    /\ Alive /\ pc \in {"serve", "http"} /\ jobs = 0
    /\ jobs' = 1
    /\ UNCHANGED <<groupVars, requests, mainVars>>

JobReturns ==
    /\ Alive /\ jobs > 0
    /\ jobs' = jobs - 1
    /\ UNCHANGED <<groupVars, requests, mainVars>>

TaskStarts ==
    /\ Alive /\ requests + jobs > 0 /\ running < MaxTasks
    /\ Go
    /\ UNCHANGED <<requests, jobs, mainVars>>

TaskReturns ==
    /\ Alive /\ Return
    /\ UNCHANGED <<requests, jobs, mainVars>>

-----------------------------------------------------------------------------
(* main *)

Exits(how) == exit' = how /\ pc' = "end"

\* Serve returned on its own: the cron is stopped, ...
ServeFails ==
    /\ Alive /\ pc = "serve" /\ pc' = "failed"
    /\ UNCHANGED <<groupVars, requests, jobs, late, clean, dbOpen, exit>>

\* ... its job awaited without a deadline, the pool closed.
FailExit ==
    /\ Alive /\ pc = "failed" /\ jobs = 0
    /\ dbOpen' = FALSE /\ Exits("serveError")
    /\ UNCHANGED <<groupVars, requests, jobs, late, clean>>

\* SIGINT or SIGTERM; from here the deadline runs.
Signal ==
    /\ Alive /\ pc = "serve" /\ pc' = "http"
    /\ UNCHANGED <<groupVars, requests, jobs, late, clean, dbOpen, exit>>

Deadline ==
    /\ Alive /\ pc \in {"http", "cron", "bg", "bgBlocked"} /\ ~late
    /\ late' = TRUE
    /\ UNCHANGED <<groupVars, requests, jobs, pc, clean, dbOpen, exit>>

\* srv.Shutdown returns nil once no connection is active ...
HTTPStopped ==
    /\ Alive /\ pc = "http" /\ requests = 0
    /\ pc' = "cron"
    /\ UNCHANGED <<groupVars, requests, jobs, late, clean, dbOpen, exit>>

\* ... or the deadline's error: connections are closed, handlers live on.
HTTPTimeout ==
    /\ Alive /\ pc = "http" /\ late
    /\ pc' = "cron" /\ clean' = FALSE
    /\ UNCHANGED <<groupVars, requests, jobs, late, dbOpen, exit>>

CronStopped ==
    /\ Alive /\ pc = "cron" /\ jobs = 0
    /\ pc' = "bg"
    /\ UNCHANGED <<groupVars, requests, jobs, late, clean, dbOpen, exit>>

\* finished prefers a job that is done to a deadline that has passed.
CronTimeout ==
    /\ Alive /\ pc = "cron" /\ late /\ jobs > 0
    /\ pc' = "bg" /\ clean' = FALSE
    /\ UNCHANGED <<groupVars, requests, jobs, late, dbOpen, exit>>

\* The pool is closed whatever is still running.
MutConclude(ok) == dbOpen' = FALSE /\ Exits(IF ok THEN "ok" ELSE "incomplete")

\* The end of shutdown, given the last value of clean.
Conclude(ok) ==
    /\ Exits(IF ok THEN "ok" ELSE "incomplete")
    /\ dbOpen' = IF ok THEN FALSE ELSE dbOpen

WaitReturnsAtOnce ==
    /\ Alive /\ pc = "bg" /\ WaitNone
    /\ Conclude(clean)
    /\ UNCHANGED <<requests, jobs, late, clean>>

WaitBlocks ==
    /\ Alive /\ pc = "bg" /\ WaitBlock
    /\ pc' = "bgBlocked"
    /\ UNCHANGED <<requests, jobs, late, clean, dbOpen, exit>>

WaitReturns ==
    /\ Alive /\ pc = "bgBlocked" /\ WaitDone
    /\ Conclude(clean)
    /\ UNCHANGED <<requests, jobs, late, clean>>

\* The wait ignores its context.
MutWaitTimeout ==
    /\ Alive /\ pc = "bgBlocked" /\ late /\ running = 0
    /\ clean' = FALSE /\ Conclude(FALSE)
    /\ UNCHANGED <<groupVars, requests, jobs, late>>

\* The select may pick the deadline even when the channel is closed as well.
WaitTimeout ==
    /\ Alive /\ pc = "bgBlocked" /\ late
    /\ clean' = FALSE /\ Conclude(FALSE)
    /\ UNCHANGED <<groupVars, requests, jobs, late>>

\* A second signal (its handler is gone by then) or SIGKILL.
Kill ==
    /\ Alive /\ Exits("killed")
    /\ UNCHANGED <<groupVars, requests, jobs, late, clean, dbOpen>>

Main ==
    \/ FailExit \/ HTTPStopped \/ HTTPTimeout \/ CronStopped \/ CronTimeout
    \/ WaitReturnsAtOnce \/ WaitBlocks \/ WaitReturns \/ WaitTimeout

Next ==
    \/ RequestStarts \/ RequestReturns \/ JobStarts \/ JobReturns
    \/ TaskStarts \/ TaskReturns
    \/ ServeFails \/ Signal \/ Deadline \/ Main \/ Kill

Spec == Init /\ [][Next]_vars

\* Timers fire and main's goroutine is scheduled; no handler, job or task is
\* promised to return.
FairSpec == Spec /\ WF_vars(Main) /\ WF_vars(Deadline)

-----------------------------------------------------------------------------

Idle == requests = 0 /\ jobs = 0 /\ running = 0

\* A shutdown closes the database only when no request, job or background
\* goroutine that could use it is left, and never once clean is lost.
DatabaseOutlivesWork == ~dbOpen /\ exit # "serveError" => Idle /\ clean

\* An incomplete shutdown is the deadline's doing: work that finishes in time
\* is never abandoned.
IncompleteOnlyLate == exit = "incomplete" => late

\* Every phase that has been passed cleanly stays drained: nothing restarts
\* the work an earlier phase waited for.
PhasesStayDrained ==
    clean =>
        /\ pc \in {"cron", "bg", "bgBlocked"} => requests = 0
        /\ pc \in {"bg", "bgBlocked"} => jobs = 0
        /\ pc = "bgBlocked" => (idle = "open" <=> running > 0)

\* Once a signal has been taken the process ends, even when a handler, the
\* job or a push never returns.
ShutdownEnds == pc = "http" ~> pc = "end"
=============================================================================
