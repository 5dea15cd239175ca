----------------------------- MODULE ActivityLog -----------------------------
(***************************************************************************)
(* The activity log (internal/handlers/activity.go) and the two lists that *)
(* are read page by page, it and a parent's notifications: the last part   *)
(* of what the process of module Shutdown owes when it stops.  An admin    *)
(* request is recorded after its handler has answered, in the background.  *)
(***************************************************************************)
EXTENDS AbsenceJob

CONSTANTS
    AdminReqs,  \* admin requests that arrive
    PageSize    \* rows of a page

ASSUME ActivityAssumption == PageSize \in Nat \ {0}

VARIABLES
    admin,   \* each admin request: where it is and its kind
    lastId,  \* admin_activity_log's sequence
    log,     \* the rows committed: [id, req]
    lost,    \* requests whose INSERT failed
    page     \* a client reading a list page by page

logVars == <<admin, lastId, log, lost>>
dutyVars == <<absenceVars, logVars, page>>

\* "write" stands for what is recorded: writes, exports, logins; "read" for
\* the rest: any other GET, and a login refused before its credentials were
\* looked at.
ReqKinds == {"write", "read"}
NoReq == [pc |-> "none", kind |-> "read", id |-> 0]
NoPage == [list |-> "none", before |-> 0, shown |-> <<>>, had |-> {},
           more |-> FALSE]

DutyInit ==
    /\ AbsenceInit
    /\ admin = [r \in AdminReqs |-> NoReq]
    /\ lastId = 0 /\ log = {} /\ lost = {} /\ page = NoPage

-----------------------------------------------------------------------------
(* The ActivityLog middleware                                              *)

AdminStarts(r) ==
    /\ r \in workload /\ admin[r].pc = "none" /\ RequestStarts
    /\ \E k \in ReqKinds :
         admin' = [admin EXCEPT ![r] = [NoReq EXCEPT !.pc = "serving",
                                                     !.kind = k]]
    /\ UNCHANGED <<day, jobVars, history, lastId, log, lost, page>>

\* activityRecorded, and the login attempts that set act.login.
Recorded(kind) == kind # "read"

\* The handler has answered, or panicked: then it is recorded as failed.
AdminAnswers(r) ==
    /\ Alive /\ admin[r].pc = "serving"
    /\ admin' = [admin EXCEPT ![r].pc =
         IF Recorded(admin[r].kind) THEN "answered" ELSE "recorded"]
    /\ UNCHANGED <<absenceVars, lastId, log, lost, page>>

\* The insert is a goroutine the group does not know.
MutRecordActivity(r) ==
    /\ Alive /\ admin[r].pc = "answered"
    /\ admin' = [admin EXCEPT ![r].pc = "recorded"]
    /\ UNCHANGED <<absenceVars, lastId, log, lost, page>>

\* The deferred recordActivity starts the insert before the handler returns.
RecordActivity(r) ==
    /\ admin[r].pc = "answered" /\ TaskStarts
    /\ admin' = [admin EXCEPT ![r].pc = "recorded"]
    /\ UNCHANGED <<day, jobVars, history, lastId, log, lost, page>>

AdminReturns(r) ==
    /\ admin[r].pc = "recorded" /\ RequestReturns
    /\ admin' = [admin EXCEPT ![r].pc =
                   IF Recorded(admin[r].kind) THEN "inserting" ELSE "done"]
    /\ UNCHANGED <<day, jobVars, history, lastId, log, lost, page>>

\* The goroutine may run before its handler returns; the INSERT takes its id
\* first and its row is seen once committed.
InsertPending(r) ==
    /\ Recorded(admin[r].kind) /\ admin[r].pc \in {"recorded", "inserting"}
    /\ r \notin lost /\ \A x \in log : x.req # r

TakeId(r) ==
    /\ Alive /\ InsertPending(r) /\ admin[r].id = 0
    /\ lastId' = lastId + 1
    /\ admin' = [admin EXCEPT ![r].id = lastId + 1]
    /\ UNCHANGED <<absenceVars, log, lost, page>>

StoreActivity(r) ==
    /\ InsertPending(r) /\ admin[r].id # 0 /\ TaskReturns
    /\ log' = log \cup {[id |-> admin[r].id, req |-> r]}
    /\ UNCHANGED <<day, jobVars, history, admin, lastId, lost, page>>

\* An error or ActivityInsertTimeout: only logged.
LoseActivity(r) ==
    /\ InsertPending(r) /\ TaskReturns
    /\ lost' = lost \cup {r}
    /\ UNCHANGED <<day, jobVars, history, admin, lastId, log, page>>

-----------------------------------------------------------------------------
(* Keyset pagination, newest first: AdminActivityLogHandler and            *)
(* MobileNotificationsHandler.  Each page is one request.                  *)

Ids(list) == IF list = "log" THEN {x.id : x \in log} ELSE DOMAIN inbox

\* The ids the SELECT ... LIMIT PageSize + 1 returns, newest first.
Fetched(list, before) ==
    LET below == {i \in Ids(list) : before # 0 => i < before}
        rank(i) == Cardinality({j \in below : j > i}) + 1
        top == {i \in below : rank(i) <= PageSize + 1}
    IN  [k \in 1..Cardinality(top) |-> CHOOSE i \in top : rank(i) = k]

\* The next page starts after the row that was only fetched to know of it.
MutNextBefore(rows) == rows[PageSize + 1]

NextBefore(rows) == rows[PageSize]

ShowPage(list, from) ==
    LET rows == Fetched(list, from.before)
        more == Len(rows) > PageSize
    IN  page' = [from EXCEPT
                   !.list = list, !.more = more,
                   !.shown = @ \o (IF more THEN SubSeq(rows, 1, PageSize)
                                   ELSE rows),
                   !.before = IF more THEN NextBefore(rows) ELSE 0]

FirstPage(list) ==
    /\ "pages" \in workload
    /\ Alive /\ requests > 0 /\ page.list = "none"
    /\ ShowPage(list, [NoPage EXCEPT !.had = Ids(list)])
    /\ UNCHANGED <<absenceVars, logVars>>

NextPage ==
    /\ Alive /\ requests > 0 /\ page.more
    /\ ShowPage(page.list, page)
    /\ UNCHANGED <<absenceVars, logVars>>

-----------------------------------------------------------------------------

\* Requests and goroutines that are none of the above.
OtherWork ==
    /\ \/ RequestStarts
       \/ /\ RequestReturns
          /\ requests > Cardinality({r \in AdminReqs :
               admin[r].pc \in {"serving", "answered", "recorded"}})
    /\ UNCHANGED <<day, jobVars, history, logVars, page>>

AdminStep(r) ==
    \/ AdminStarts(r) \/ AdminAnswers(r) \/ RecordActivity(r)
    \/ AdminReturns(r) \/ TakeId(r) \/ StoreActivity(r) \/ LoseActivity(r)

DutyNext ==
    \/ (AbsenceStep \/ DayStep) /\ UNCHANGED <<logVars, page>>
    \/ \E r \in AdminReqs : AdminStep(r)
    \/ \E list \in {"log", "inbox"} : FirstPage(list)
    \/ NextPage
    \/ OtherWork
    \/ /\ ServeFails \/ Signal \/ Deadline \/ Main \/ Kill
       /\ UNCHANGED <<day, jobVars, history, logVars, page>>

\* Main and the deadline leave everything of this module alone.
MainRuns == Main /\ UNCHANGED <<day, jobVars, history, logVars, page>>
DeadlineRuns == Deadline /\ UNCHANGED <<day, jobVars, history, logVars, page>>

DutySpec ==
    /\ DutyInit /\ [][DutyNext]_dutyVars
    /\ WF_dutyVars(MainRuns) /\ WF_dutyVars(DeadlineRuns)

-----------------------------------------------------------------------------

\* A clean exit owes nothing: no absent student is left in the job's list, no
\* push is under way and every admin request that was answered and is to be
\* recorded is in the log, unless its own insert failed.
CleanExitOwesNothing ==
    exit = "ok" =>
        /\ job.pc \in {"none", "done", "skipped", "broken"} /\ pushing = {}
        /\ \A r \in AdminReqs :
             admin[r].pc # "none" /\ Recorded(admin[r].kind) =>
                 r \in lost \/ \E x \in log : x.req = r

\* Reading a list page by page shows every row that was there when it began,
\* no row twice and newer before older, whatever is added meanwhile.
PagesMissNothing ==
    page.list # "none" =>
        /\ \A i, j \in DOMAIN page.shown :
             i < j => page.shown[i] > page.shown[j]
        /\ ~page.more => page.had \subseteq {page.shown[i] :
                                               i \in DOMAIN page.shown}
=============================================================================
