----------------------------- MODULE AbsenceJob -----------------------------
(***************************************************************************)
(* The noon absence job (internal/cron/absent_job.go) inside the process   *)
(* of module Shutdown, with the leaves, punches and closures it looks at:  *)
(* one query lists the absent students, then each parent's notification is *)
(* stored and pushed in turn.  Nothing records how far it came.            *)
(***************************************************************************)
EXTENDS Shutdown, Sequences, FiniteSets

CONSTANTS
    Students,
    WithParent,  \* those linked to a parent (here the same one)
    WithDevice,  \* those whose parent has a device
    OnLeave,     \* those who may have a leave recorded in advance
    MaxEvents,   \* bound: changes of the students' day
    Workloads    \* what happens together: the job, the day, leaves recorded
                 \* in advance, pages, and the admin requests by name

ASSUME AbsenceAssumption ==
    /\ WithDevice \subseteq WithParent /\ WithParent \subseteq Students
    /\ OnLeave \subseteq Students
    /\ MaxEvents \in Nat

VARIABLES
    workload,  \* what happens in this behaviour, one of Workloads
    punched,   \* students with a punch of today in a window
    leaves,    \* student_leaves of today
    enrolled,  \* students.is_active
    closed,    \* a closure covers today
    events,    \* changes of the four above
    job,       \* the job: where it is, the rows to come, the row at hand
    inbox,     \* notifications stored: the students, in id order
    missed,    \* students whose row or notification failed and was skipped
    pushing,   \* students whose push goroutine runs
    history    \* of the job's run: who was absent throughout, who ever

day == <<workload, punched, leaves, enrolled, closed, events>>
jobVars == <<job, inbox, missed, pushing>>
absenceVars == <<vars, day, jobVars, history>>

NoRow == [pc |-> "none", rows |-> {}, row |-> {}]

AbsenceTypeOK ==
    /\ TypeOK
    /\ {punched, leaves, enrolled, missed, pushing} \subseteq SUBSET Students
    /\ job.pc \in {"none", "day", "query", "loop", "send", "skipped",
                  "broken", "done"}
    /\ job.rows \subseteq Students /\ job.row \subseteq Students

AbsenceInit ==
    /\ Init
    /\ workload \in Workloads
    /\ punched = {} /\ leaves = IF "leave" \in workload THEN OnLeave ELSE {}
    /\ enrolled = Students /\ closed = FALSE /\ events = 0
    /\ job = NoRow /\ inbox = <<>> /\ missed = {} /\ pushing = {}
    /\ history = [throughout |-> {}, ever |-> {}]

-----------------------------------------------------------------------------

\* get_student_status: a punch wins over a leave.
Status(s) ==
    IF s \in punched THEN "Present"
    ELSE IF s \in leaves THEN "Excused" ELSE "Absent"

\* The leave is not looked at.
MutAbsent == {s \in enrolled : s \notin punched}

\* The rows of the job's query.
Absent == {s \in enrolled : Status(s) = "Absent"}

\* Who is absent, said without the status function, for the history.
NotSeen == enrolled \ (punched \cup leaves)

\* A request under way changes the day.
DayChanges ==
    /\ "day" \in workload /\ Alive /\ requests > 0
    /\ events < MaxEvents /\ events' = events + 1
    /\ history' = [throughout |-> history.throughout \cap NotSeen',
                   ever |-> history.ever \cup NotSeen']
    /\ UNCHANGED <<vars, workload, jobVars>>

\* A device or an admin's manual entry; deleting the entry takes it back.
Punch(s) ==
    /\ punched' \in {punched \cup {s}, punched \ {s}}
    /\ UNCHANGED <<leaves, enrolled, closed>> /\ DayChanges

\* AdminCreateLeaveHandler: an active student's; a second one replaces it.
CreateLeave(s) ==
    /\ s \in enrolled /\ leaves' = leaves \cup {s}
    /\ UNCHANGED <<punched, enrolled, closed>> /\ DayChanges

\* cancelLeave succeeds whether or not there is one.
CancelLeave(s) ==
    /\ leaves' = leaves \ {s}
    /\ UNCHANGED <<punched, enrolled, closed>> /\ DayChanges

Withdraw(s) ==
    /\ enrolled' = enrolled \ {s}
    /\ UNCHANGED <<punched, leaves, closed>> /\ DayChanges

CloseOrOpen ==
    /\ closed' = ~closed
    /\ UNCHANGED <<punched, leaves, enrolled>> /\ DayChanges

-----------------------------------------------------------------------------
(* ProcessDailyAbsences.  The cron starts it once a day.                   *)

StartAbsences ==
    /\ "job" \in workload /\ JobStarts /\ job.pc = "none"
    /\ job' = [NoRow EXCEPT !.pc = "day"]
    /\ history' = [throughout |-> NotSeen, ever |-> NotSeen]
    /\ UNCHANGED <<day, inbox, missed, pushing>>

\* The function returns, having gone through all it listed or not.
Ends(how) ==
    /\ JobReturns
    /\ job' = [NoRow EXCEPT !.pc = how]
    /\ UNCHANGED <<day, inbox, missed, pushing, history>>

\* DayOn fails, or today is no school day: nothing is sent.
SkipDay ==
    /\ job.pc = "day"
    /\ \/ closed /\ Ends("skipped")
       \/ Ends("broken")

CheckDay ==
    /\ Alive /\ job.pc = "day" /\ ~closed
    /\ job' = [job EXCEPT !.pc = "query"]
    /\ UNCHANGED <<vars, day, inbox, missed, pushing, history>>

QueryAbsent ==
    /\ Alive /\ job.pc = "query"
    /\ job' = [job EXCEPT !.pc = "loop", !.rows = Absent]
    /\ UNCHANGED <<vars, day, inbox, missed, pushing, history>>

\* The query fails, or rows.Next does half way.
BreakOff == job.pc \in {"query", "loop"} /\ Ends("broken")

\* Scan fails: the row is skipped.
SkipRow(s) ==
    /\ Alive /\ job.pc = "loop" /\ s \in job.rows
    /\ job' = [job EXCEPT !.rows = @ \ {s}]
    /\ missed' = missed \cup {s}
    /\ UNCHANGED <<vars, day, inbox, pushing, history>>

\* A failed insert ends the loop.
MutAfterSave(s, ok) ==
    IF ok THEN [job EXCEPT !.pc = "send", !.rows = @ \ {s}, !.row = {s}]
    ELSE [job EXCEPT !.pc = "loop", !.rows = {}]

\* A failed insert is only logged; the push is sent all the same.
AfterSave(s, ok) == [job EXCEPT !.pc = "send", !.rows = @ \ {s}, !.row = {s}]

\* SaveNotificationHistory, for a student with a parent.
SaveHistory(s) ==
    /\ Alive /\ job.pc = "loop" /\ s \in job.rows
    /\ \E ok \in BOOLEAN :
         /\ job' = AfterSave(s, ok)
         /\ inbox' = IF s \in WithParent /\ ok THEN Append(inbox, s) ELSE inbox
         /\ missed' = IF s \in WithParent /\ ~ok THEN missed \cup {s}
                      ELSE missed
    /\ UNCHANGED <<vars, day, pushing, history>>

\* SendToDevices: one goroutine for the parent's device, if it has one.
SendPush ==
    /\ job.pc = "send"
    /\ job' = [job EXCEPT !.pc = "loop", !.row = {}]
    /\ pushing' = pushing \cup (job.row \cap WithDevice)
    /\ IF job.row \cap WithDevice = {} THEN Alive /\ UNCHANGED vars
       ELSE TaskStarts
    /\ UNCHANGED <<day, inbox, missed, history>>

\* The message is sent, fails, or its dead token is deleted.
PushEnds(s) ==
    /\ s \in pushing /\ TaskReturns
    /\ pushing' = pushing \ {s}
    /\ UNCHANGED <<day, job, inbox, missed, history>>

FinishJob == job.pc = "loop" /\ job.rows = {} /\ Ends("done")

AbsenceStep ==
    \/ StartAbsences \/ SkipDay \/ CheckDay \/ QueryAbsent \/ BreakOff
    \/ SendPush \/ FinishJob
    \/ \E s \in Students : SkipRow(s) \/ SaveHistory(s) \/ PushEnds(s)

DayStep ==
    \/ CloseOrOpen
    \/ \E s \in Students :
         Punch(s) \/ CreateLeave(s) \/ CancelLeave(s) \/ Withdraw(s)

-----------------------------------------------------------------------------

Told == {inbox[i] : i \in DOMAIN inbox}

\* When the job has gone through its list, every student who was absent from
\* its start to its end has been announced, except those whose own row or
\* insert failed: one failure never costs another student's announcement,
\* and a punch or leave that comes in meanwhile only the one it is about.
AbsentAreTold ==
    job.pc = "done" =>
        history.throughout \cap WithParent \subseteq Told \cup missed

\* Only students are announced who were absent, neither punched nor on leave
\* nor withdrawn, at some moment since the job began, and each once, however
\* punches and leaves arrive while it goes through its list.
OnlyAbsentAreTold ==
    /\ Told \subseteq history.ever
    /\ \A i, j \in DOMAIN inbox : i # j => inbox[i] # inbox[j]
=============================================================================
