--------------------------- MODULE ShutdownProofs ---------------------------
(***************************************************************************)
(* The safety of shutdown, and of the absence job, the activity log and    *)
(* the readers that it may meet, for any number of requests, goroutines,   *)
(* students and rows.  The inductive invariant of the process adds to the  *)
(* checked properties that the pool is open while the process lives and    *)
(* that clean is lost only after the deadline; those of the job, the log   *)
(* and the readers relate where each is to what it has done so far.        *)
(***************************************************************************)
EXTENDS ActivityLog, FiniteSetTheorems, WellFoundedInduction, TLAPS

Lives ==
    /\ Alive => dbOpen
    /\ ~clean => late

ShutdownInv ==
    /\ TypeOK
    /\ Lives
    /\ DatabaseOutlivesWork
    /\ IncompleteOnlyLate
    /\ PhasesStayDrained

-----------------------------------------------------------------------------

\* The work (requests, the cron job, background goroutines: Go and its
\* deferred decrement) never refills a phase that shutdown has passed.
LEMMA WorkStep ==
    ASSUME ShutdownInv,
           RequestStarts \/ RequestReturns \/ JobStarts \/ JobReturns
               \/ TaskStarts \/ TaskReturns
    PROVE  ShutdownInv'
<1> USE DEF ShutdownInv, Lives, Alive, mainVars
<1>t. TypeOK'
  BY DEF TypeOK, GroupType, RequestStarts, RequestReturns, JobStarts,
         JobReturns, TaskStarts, TaskReturns, Go, Return, groupVars
<1>l. Lives' /\ DatabaseOutlivesWork' /\ IncompleteOnlyLate'
  BY DEF TypeOK, GroupType, RequestStarts, RequestReturns, JobStarts,
         JobReturns, TaskStarts, TaskReturns, Go, Return, groupVars,
         DatabaseOutlivesWork, IncompleteOnlyLate, Idle
<1>p. PhasesStayDrained'
  <2>1. CASE RequestStarts
    BY <2>1 DEF TypeOK, RequestStarts, groupVars, PhasesStayDrained
  <2>4. CASE RequestReturns
    BY <2>4 DEF TypeOK, RequestReturns, groupVars, PhasesStayDrained
  <2>5. CASE JobStarts
    BY <2>5 DEF TypeOK, JobStarts, groupVars, PhasesStayDrained
  <2>6. CASE JobReturns
    BY <2>6 DEF TypeOK, JobReturns, groupVars, PhasesStayDrained
  <2>2. CASE TaskStarts
    BY <2>2 DEF TypeOK, GroupType, TaskStarts, Go, PhasesStayDrained
  <2>3. CASE TaskReturns
    BY <2>3 DEF TypeOK, GroupType, TaskReturns, Return, PhasesStayDrained
  <2> QED BY <2>1, <2>2, <2>3, <2>4, <2>5, <2>6
<1> QED BY <1>t, <1>l, <1>p

\* The end of shutdown, reached with all work done or with clean lost, closes
\* the pool only in the first case.
LEMMA ConcludeStep ==
    ASSUME ShutdownInv, Alive,
           NEW ok \in BOOLEAN, ok = clean', clean' => clean,
           ok => Idle, ~ok => late,
           Conclude(ok), UNCHANGED <<groupVars, requests, jobs, late>>
    PROVE  ShutdownInv'
<1> USE DEF ShutdownInv, Lives, Alive, Conclude, Exits, groupVars
<1>t. TypeOK'
  BY DEF TypeOK, GroupType
<1>l. Lives' /\ IncompleteOnlyLate' /\ PhasesStayDrained'
  BY DEF IncompleteOnlyLate, PhasesStayDrained
<1>d. DatabaseOutlivesWork'
  BY DEF DatabaseOutlivesWork, Idle
<1> QED BY <1>t, <1>l, <1>d

\* Each step of main, of the deadline and of a signal.
LEMMA MainStep ==
    ASSUME ShutdownInv, ServeFails \/ Signal \/ Deadline \/ Main \/ Kill
    PROVE  ShutdownInv'
<1> USE DEF ShutdownInv, Lives, Alive
<1>1. CASE ServeFails \/ Signal \/ Deadline
  BY <1>1 DEF ServeFails, Signal, Deadline, groupVars, TypeOK, GroupType,
              DatabaseOutlivesWork, IncompleteOnlyLate, PhasesStayDrained, Idle
<1>2. CASE FailExit \/ Kill
  BY <1>2 DEF FailExit, Kill, Exits, groupVars, TypeOK, GroupType,
              DatabaseOutlivesWork, IncompleteOnlyLate, PhasesStayDrained, Idle
<1>3. CASE HTTPStopped \/ HTTPTimeout
  BY <1>3 DEF HTTPStopped, HTTPTimeout, groupVars, TypeOK, GroupType,
              DatabaseOutlivesWork, IncompleteOnlyLate, PhasesStayDrained, Idle
<1>4. CASE CronStopped
  BY <1>4 DEF CronStopped, groupVars, TypeOK, GroupType,
              DatabaseOutlivesWork, IncompleteOnlyLate, PhasesStayDrained, Idle
<1>9. CASE CronTimeout
  BY <1>9 DEF CronTimeout, groupVars, TypeOK, GroupType,
              DatabaseOutlivesWork, IncompleteOnlyLate, PhasesStayDrained, Idle
<1>5. CASE WaitReturnsAtOnce
  BY <1>5, ConcludeStep DEF WaitReturnsAtOnce, WaitNone, groupVars, TypeOK,
                            PhasesStayDrained, Idle
<1>6. CASE WaitBlocks
  BY <1>6 DEF WaitBlocks, WaitBlock, groupVars, TypeOK, GroupType,
              DatabaseOutlivesWork, IncompleteOnlyLate, PhasesStayDrained, Idle
<1>7. CASE WaitReturns
  <2>1. running = 0 \/ ~clean
    BY <1>7 DEF WaitReturns, WaitDone, TypeOK, GroupType, PhasesStayDrained
  <2> QED
    BY <1>7, <2>1, ConcludeStep DEF WaitReturns, WaitDone, groupVars, TypeOK,
                                    PhasesStayDrained, Idle
<1>8. CASE WaitTimeout
  BY <1>8, ConcludeStep DEF WaitTimeout, groupVars
<1> QED BY <1>1, <1>2, <1>3, <1>4, <1>5, <1>6, <1>7, <1>8, <1>9 DEF Main

\* The two halves of the induction, for this specification and for the ones
\* that implement it.
LEMMA ShutdownInit == Init => ShutdownInv
<1>0. Init => late \in BOOLEAN /\ clean \in BOOLEAN /\ dbOpen \in BOOLEAN
  BY Zenon DEF Init
<1>1. Init => TypeOK
  BY <1>0 DEF Init, GroupInit, GroupType, TypeOK
<1>2. Init => Lives /\ DatabaseOutlivesWork /\ IncompleteOnlyLate
  BY DEF Init, Lives, Alive, DatabaseOutlivesWork, IncompleteOnlyLate
<1>3. Init => PhasesStayDrained
  BY DEF Init, PhasesStayDrained
<1> QED BY <1>1, <1>2, <1>3 DEF ShutdownInv

LEMMA ShutdownKeeps ==
    ASSUME ShutdownInv, [Next]_vars
    PROVE  ShutdownInv'
<1>1. CASE Next
  BY <1>1, WorkStep, MainStep DEF Next
<1>2. CASE UNCHANGED vars
  BY <1>2 DEF vars, groupVars, ShutdownInv, Lives, Alive, TypeOK, GroupType,
         DatabaseOutlivesWork, IncompleteOnlyLate, PhasesStayDrained, Idle
<1> QED BY <1>1, <1>2

\* However many requests, jobs and background goroutines are under way when
\* the signal comes: shutdown closes the database only when none is left,
\* gives work up only after the deadline, and no drained phase refills.
THEOREM ShutdownSafe ==
    Spec => [](TypeOK /\ DatabaseOutlivesWork /\ IncompleteOnlyLate
                 /\ PhasesStayDrained)
<1>1. ShutdownInv /\ [Next]_vars => ShutdownInv'
  BY ShutdownKeeps
<1>2. ShutdownInv => TypeOK /\ DatabaseOutlivesWork /\ IncompleteOnlyLate
                       /\ PhasesStayDrained
  BY DEF ShutdownInv
<1> QED BY <1>1, <1>2, ShutdownInit, PTL DEF Spec

-----------------------------------------------------------------------------
(* What the process owes (modules AbsenceJob and ActivityLog).  The three  *)
(* parts of the inductive invariant: the job's list, the admin requests    *)
(* and the counters that shutdown waits on, the client's pages.            *)

JobPcs == {"none", "day", "query", "loop", "send", "skipped", "broken", "done"}
JobBusy == {"day", "query", "loop", "send"}
BeforeLoop == {"none", "day", "query"}
Owed == history.throughout \cap WithParent

\* Whoever was absent all along is told, missed or still in the list, and the
\* list holds nobody twice or already dealt with.
JobInv ==
    /\ job \in [pc : JobPcs, rows : SUBSET Students, row : SUBSET Students]
    /\ inbox \in Seq(Students)
    /\ pushing \subseteq Students /\ enrolled \subseteq Students
    /\ jobs = (IF job.pc \in JobBusy THEN 1 ELSE 0)
    /\ job.pc \in BeforeLoop =>
         inbox = <<>> /\ missed = {} /\ pushing = {} /\ job.rows = {}
    /\ IF job.pc = "send" THEN \E s \in Students : job.row = {s}
       ELSE job.row = {}
    /\ job.rows \cap (Told \cup pushing \cup job.row) = {}
    /\ pushing \cap job.row = {}
    /\ job.rows \subseteq history.ever
    /\ job.pc # "none" => /\ history.throughout \subseteq NotSeen
                          /\ NotSeen \subseteq history.ever
    /\ job.pc \in {"loop", "send", "done"} =>
         Owed \subseteq Told \cup missed \cup job.rows
    /\ job.pc \notin {"loop", "send"} => job.rows = {}

ReqPcs == {"none", "serving", "answered", "recorded", "inserting", "done"}
Open == {r \in AdminReqs : admin[r].pc \in {"serving", "answered", "recorded"}}
Pending == {r \in AdminReqs : InsertPending(r)}

\* The requests and goroutines that the counters of module Shutdown count
\* include those of the admin requests and of the job's pushes.
AdminInv ==
    /\ admin \in [AdminReqs -> [pc : ReqPcs, kind : ReqKinds, id : Nat]]
    /\ lastId \in Nat /\ log \subseteq [id : 1..lastId, req : AdminReqs]
    /\ \A r \in AdminReqs :
         /\ admin[r].id <= lastId
         /\ admin[r].pc \in {"none", "serving", "answered"} =>
              r \notin lost /\ \A x \in log : x.req # r
         /\ admin[r].pc \in {"answered", "inserting"} => Recorded(admin[r].kind)
         /\ admin[r].pc = "done" => ~Recorded(admin[r].kind)
    /\ IsFiniteSet(Open) /\ Cardinality(Open) <= requests
    /\ IsFiniteSet(pushing) /\ IsFiniteSet(Pending)
    /\ Cardinality(pushing) + Cardinality(Pending) <= running
    /\ exit = "ok" => ~dbOpen

Shown == {page.shown[i] : i \in DOMAIN page.shown}

\* Between two pages, what is left of the list lies below page.before.
PageInv ==
    /\ page \in [list : {"none", "log", "inbox"}, before : Nat, shown : Seq(Nat),
                 had : SUBSET Nat, more : BOOLEAN]
    /\ IF page.list = "none" THEN ~page.more
       ELSE /\ page.had \subseteq Ids(page.list)
            /\ \A i, j \in DOMAIN page.shown :
                 i < j => page.shown[i] > page.shown[j]
            /\ ~page.more => page.had \subseteq Shown
            /\ page.more =>
                 /\ page.before # 0
                 /\ \A i \in DOMAIN page.shown : page.before <= page.shown[i]
                 /\ \A h \in page.had : page.before <= h => h \in Shown

DutyInv == ShutdownInv /\ JobInv /\ AdminInv /\ OnlyAbsentAreTold /\ PageInv

-----------------------------------------------------------------------------

\* Every step of the job, of an admin request or of a client is a step of the
\* process as shutdown sees it, or leaves all of that alone.
LEMMA DutyStepsRefine ==
    ASSUME [DutyNext]_dutyVars
    PROVE  [Next]_vars
<1>1. ASSUME AbsenceStep PROVE [Next]_vars
  <2>1. ASSUME NEW how, Ends(how) PROVE [Next]_vars
    BY <2>1 DEF Ends, Next
  <2>2. CASE StartAbsences \/ SkipDay \/ BreakOff \/ FinishJob
    BY <2>1, <2>2 DEF StartAbsences, SkipDay, BreakOff, FinishJob, Next
  <2>3. CASE CheckDay \/ QueryAbsent
    BY <2>3 DEF CheckDay, QueryAbsent
  <2>4. CASE SendPush
    BY <2>4 DEF SendPush, Next
  <2>5. CASE \E s \in Students : SkipRow(s) \/ SaveHistory(s) \/ PushEnds(s)
    BY <2>5 DEF SkipRow, SaveHistory, PushEnds, Next
  <2> QED
    BY <1>1, <2>2, <2>3, <2>4, <2>5 DEF AbsenceStep
<1>2. ASSUME DayStep PROVE [Next]_vars
  BY <1>2 DEF DayStep, CloseOrOpen, Punch, CreateLeave, CancelLeave, Withdraw,
              DayChanges
<1>3. ASSUME NEW r \in AdminReqs, AdminStep(r) PROVE [Next]_vars
  <2>1. CASE AdminStarts(r) \/ AdminReturns(r) \/ RecordActivity(r)
               \/ StoreActivity(r) \/ LoseActivity(r)
    BY <2>1 DEF AdminStarts, AdminReturns, RecordActivity, StoreActivity,
                LoseActivity, Next
  <2>2. CASE AdminAnswers(r) \/ TakeId(r)
    BY <2>2 DEF AdminAnswers, TakeId, absenceVars
  <2> QED
    BY <1>3, <2>1, <2>2 DEF AdminStep
<1>4. ASSUME NextPage \/ \E list \in {"log", "inbox"} : FirstPage(list)
      PROVE  [Next]_vars
  BY <1>4 DEF NextPage, FirstPage, absenceVars
<1>5. ASSUME OtherWork PROVE [Next]_vars
  BY <1>5 DEF OtherWork, Next
<1>6. ASSUME ServeFails \/ Signal \/ Deadline \/ Main \/ Kill PROVE [Next]_vars
  BY <1>6 DEF Next
<1>7. ASSUME UNCHANGED dutyVars PROVE [Next]_vars
  BY <1>7 DEF dutyVars, absenceVars
<1> QED
  BY <1>1, <1>2, <1>3, <1>4, <1>5, <1>6, <1>7 DEF DutyNext

\* The process with its absence job, activity log and lists implements the
\* process of module Shutdown: what is proved of shutdown holds of it.
THEOREM DutyImplementsShutdown == DutySpec => Spec
<1>1. DutyInit => Init
  BY DEF DutyInit, AbsenceInit
<1>2. [DutyNext]_dutyVars => [Next]_vars
  BY DutyStepsRefine
<1> QED
  BY <1>1, <1>2, PTL DEF DutySpec, Spec

-----------------------------------------------------------------------------
(* The job's list                                                          *)

\* The job's rows are the students the history calls not seen.
LEMMA AbsentIsNotSeen == Absent = NotSeen
  BY DEF Absent, Status, NotSeen

\* Who is told after a notification is stored.
LEMMA ToldAppend ==
    ASSUME inbox \in Seq(Students), NEW s \in Students,
           inbox' = Append(inbox, s)
    PROVE  /\ inbox' \in Seq(Students)
           /\ Told' = Told \cup {s}
           /\ OnlyAbsentAreTold /\ s \notin Told =>
                \A i, j \in DOMAIN inbox' : i # j => inbox'[i] # inbox'[j]
<1>1. /\ inbox' \in Seq(Students) /\ DOMAIN inbox' = DOMAIN inbox \cup {Len(inbox) + 1}
      /\ Len(inbox) \in Nat /\ DOMAIN inbox = 1..Len(inbox)
      /\ inbox'[Len(inbox) + 1] = s
      /\ \A i \in DOMAIN inbox : inbox'[i] = inbox[i]
  OBVIOUS
<1>2. Told' = Told \cup {s}
  BY <1>1 DEF Told
<1>3. ASSUME OnlyAbsentAreTold, s \notin Told,
             NEW i \in DOMAIN inbox', NEW j \in DOMAIN inbox', i # j
      PROVE  inbox'[i] # inbox'[j]
  <2>1. \A k \in DOMAIN inbox : inbox[k] # s
    BY <1>3 DEF Told
  <2> QED
    BY <1>1, <1>3, <2>1 DEF OnlyAbsentAreTold
<1> QED
  BY <1>1, <1>2, <1>3

\* Steps that are not the job's leave its list alone.
LEMMA JobFrame ==
    ASSUME JobInv, OnlyAbsentAreTold,
           UNCHANGED <<punched, leaves, enrolled, jobVars, history, jobs>>
    PROVE  JobInv' /\ OnlyAbsentAreTold'
<1>1. Told' = Told /\ NotSeen' = NotSeen /\ Owed' = Owed
  BY DEF Told, NotSeen, Owed, jobVars
<1> QED
  BY <1>1 DEF JobInv, OnlyAbsentAreTold, jobVars

\* A change of the day narrows who was absent throughout and widens who was
\* absent at some moment.
LEMMA DayKeeps ==
    ASSUME JobInv, OnlyAbsentAreTold, DayStep
    PROVE  JobInv' /\ OnlyAbsentAreTold'
<1>1. DayChanges
  BY DEF DayStep, CloseOrOpen, Punch, CreateLeave, CancelLeave, Withdraw
<1>2. /\ history'.throughout = history.throughout \cap NotSeen'
      /\ history'.ever = history.ever \cup NotSeen'
      /\ UNCHANGED <<jobVars, jobs>>
  BY <1>1 DEF DayChanges, vars
<1>3. Told' = Told /\ Owed' \subseteq Owed
  BY <1>2 DEF Told, Owed, jobVars
<1>4. enrolled' \subseteq Students
  BY DEF DayStep, CloseOrOpen, Punch, CreateLeave, CancelLeave, Withdraw, JobInv
<1> QED
  BY <1>2, <1>3, <1>4 DEF JobInv, OnlyAbsentAreTold, jobVars

\* The job starts, or returns.
LEMMA StartKeeps ==
    ASSUME JobInv, OnlyAbsentAreTold, TypeOK, StartAbsences
    PROVE  JobInv' /\ OnlyAbsentAreTold'
<1>1. /\ job.pc = "none" /\ jobs' = 1
      /\ job' = [pc |-> "day", rows |-> {}, row |-> {}]
      /\ history' = [throughout |-> NotSeen, ever |-> NotSeen]
      /\ UNCHANGED <<punched, leaves, enrolled, inbox, missed, pushing>>
  BY DEF StartAbsences, JobStarts, NoRow, day
<1>2. inbox = <<>> /\ missed = {} /\ pushing = {}
  BY <1>1 DEF JobInv, BeforeLoop
<1>3. Told' = {} /\ NotSeen' = NotSeen
  BY <1>1, <1>2 DEF Told, NotSeen
<1> QED
  BY <1>1, <1>2, <1>3 DEF JobInv, OnlyAbsentAreTold, JobPcs, JobBusy, BeforeLoop

\* The job ends early only as skipped or broken; else its list is empty.
LEMMA EndsKeeps ==
    ASSUME JobInv, OnlyAbsentAreTold, TypeOK,
           NEW how \in {"skipped", "broken", "done"}, Ends(how),
           how = "done" => job.pc = "loop" /\ job.rows = {}
    PROVE  JobInv' /\ OnlyAbsentAreTold'
<1>1. /\ jobs > 0 /\ jobs' = jobs - 1
      /\ job' = [pc |-> how, rows |-> {}, row |-> {}]
      /\ UNCHANGED <<punched, leaves, enrolled, inbox, missed, pushing, history>>
  BY DEF Ends, JobReturns, NoRow, day
<1>2. job.pc \in JobBusy /\ jobs' = 0
  BY <1>1 DEF JobInv
<1>3. Told' = Told /\ NotSeen' = NotSeen /\ Owed' = Owed
  BY <1>1 DEF Told, NotSeen, Owed
<1> QED
  BY <1>1, <1>2, <1>3 DEF JobInv, OnlyAbsentAreTold, JobPcs, JobBusy, BeforeLoop

\* The day is found to be a school day and the query lists the absent.
LEMMA ListKeeps ==
    ASSUME JobInv, OnlyAbsentAreTold, CheckDay \/ QueryAbsent
    PROVE  JobInv' /\ OnlyAbsentAreTold'
<1>1. UNCHANGED <<jobs, punched, leaves, enrolled, inbox, missed, pushing, history>>
  BY DEF CheckDay, QueryAbsent, day, vars
<1>2. Told' = Told /\ NotSeen' = NotSeen /\ Owed' = Owed
  BY <1>1 DEF Told, NotSeen, Owed
<1>3. CASE CheckDay
  <2>1. job.pc = "day" /\ job' = [pc |-> "query", rows |-> {}, row |-> {}]
    BY <1>3 DEF CheckDay, JobInv, BeforeLoop
  <2> QED
    BY <1>1, <1>2, <2>1 DEF JobInv, OnlyAbsentAreTold, JobPcs, JobBusy, BeforeLoop
<1>4. CASE QueryAbsent
  <2>1. job.pc = "query" /\ job' = [pc |-> "loop", rows |-> NotSeen, row |-> {}]
    BY <1>4, AbsentIsNotSeen DEF QueryAbsent, JobInv, BeforeLoop
  <2>2. inbox = <<>> /\ pushing = {} /\ Told = {}
    BY <2>1 DEF JobInv, BeforeLoop, Told
  <2>3. NotSeen \subseteq history.ever /\ history.throughout \subseteq NotSeen
    BY <2>1 DEF JobInv
  <2>4. NotSeen \subseteq Students
    BY DEF NotSeen, JobInv
  <2> QED
    BY <1>1, <1>2, <2>1, <2>2, <2>3, <2>4
       DEF JobInv, OnlyAbsentAreTold, JobPcs, JobBusy, BeforeLoop, Owed
<1> QED
  BY <1>3, <1>4

\* A row is taken from the list: skipped, or its notification stored or not.
LEMMA RowKeeps ==
    ASSUME JobInv, OnlyAbsentAreTold, NEW s \in Students,
           SkipRow(s) \/ SaveHistory(s)
    PROVE  JobInv' /\ OnlyAbsentAreTold'
<1>1. /\ job.pc = "loop" /\ s \in job.rows
      /\ UNCHANGED <<jobs, punched, leaves, enrolled, pushing, history>>
  BY DEF SkipRow, SaveHistory, day, vars
<1>2. NotSeen' = NotSeen /\ Owed' = Owed
  BY <1>1 DEF NotSeen, Owed
<1>3. CASE SkipRow(s)
  <2>1. /\ job' = [pc |-> "loop", rows |-> job.rows \ {s}, row |-> {}]
        /\ missed' = missed \cup {s} /\ UNCHANGED inbox
    BY <1>1, <1>3 DEF SkipRow, JobInv
  <2>2. Told' = Told
    BY <2>1 DEF Told
  <2> QED
    BY <1>1, <1>2, <2>1, <2>2
       DEF JobInv, OnlyAbsentAreTold, JobPcs, JobBusy, BeforeLoop
<1>4. CASE SaveHistory(s)
  <2>1. PICK ok \in BOOLEAN :
          /\ job' = AfterSave(s, ok)
          /\ inbox' = IF s \in WithParent /\ ok THEN Append(inbox, s) ELSE inbox
          /\ missed' = IF s \in WithParent /\ ~ok THEN missed \cup {s} ELSE missed
    BY <1>4 DEF SaveHistory
  <2>2. job' = [pc |-> "send", rows |-> job.rows \ {s}, row |-> {s}]
    BY <1>1, <2>1 DEF AfterSave, JobInv
  <2>3. s \notin Told /\ s \notin pushing /\ s \in history.ever
    BY <1>1 DEF JobInv
  <2>4. /\ inbox' \in Seq(Students) /\ Told' \subseteq Told \cup {s}
        /\ Told \subseteq Told' /\ missed \subseteq missed'
        /\ \A i, j \in DOMAIN inbox' : i # j => inbox'[i] # inbox'[j]
        /\ s \in WithParent => s \in Told' \cup missed'
    <3>1. CASE s \in WithParent /\ ok
      BY <2>1, <2>3, <3>1, ToldAppend DEF JobInv
    <3>2. CASE ~(s \in WithParent /\ ok)
      <4>1. inbox' = inbox /\ Told' = Told
        BY <2>1, <3>2 DEF Told
      <4> QED
        BY <2>1, <3>2, <4>1 DEF OnlyAbsentAreTold, JobInv
    <3> QED
      BY <3>1, <3>2
  <2>5. OnlyAbsentAreTold'
    BY <1>1, <2>3, <2>4 DEF OnlyAbsentAreTold
  <2>6. Owed' \subseteq Told' \cup missed' \cup job'.rows
    <3>1. Owed \subseteq Told \cup missed \cup job.rows
      BY <1>1 DEF JobInv
    <3> QED
      BY <1>2, <2>2, <2>4, <3>1 DEF Owed
  <2> QED
    BY <1>1, <1>2, <2>2, <2>3, <2>4, <2>5, <2>6
       DEF JobInv, JobPcs, JobBusy, BeforeLoop
<1> QED
  BY <1>3, <1>4

\* The push of the row at hand is started; a push ends.
LEMMA PushKeeps ==
    ASSUME JobInv, OnlyAbsentAreTold, SendPush \/ \E s \in Students : PushEnds(s)
    PROVE  JobInv' /\ OnlyAbsentAreTold'
<1>1. UNCHANGED <<jobs, punched, leaves, enrolled, inbox, missed, history>>
  BY DEF SendPush, PushEnds, TaskStarts, TaskReturns, day, vars
<1>2. Told' = Told /\ NotSeen' = NotSeen /\ Owed' = Owed
  BY <1>1 DEF Told, NotSeen, Owed
<1>3. CASE SendPush
  <2>1. /\ job.pc = "send"
        /\ job' = [pc |-> "loop", rows |-> job.rows, row |-> {}]
        /\ pushing' = pushing \cup (job.row \cap WithDevice)
    BY <1>3 DEF SendPush, JobInv
  <2> QED
    BY <1>1, <1>2, <2>1
       DEF JobInv, OnlyAbsentAreTold, JobPcs, JobBusy, BeforeLoop
<1>4. CASE \E s \in Students : PushEnds(s)
  <2>1. pushing' \subseteq pushing /\ UNCHANGED job
    BY <1>4 DEF PushEnds
  <2> QED
    BY <1>1, <1>2, <2>1 DEF JobInv, OnlyAbsentAreTold
<1> QED
  BY <1>3, <1>4

\* All of the job's steps.
LEMMA JobKeeps ==
    ASSUME JobInv, OnlyAbsentAreTold, TypeOK, AbsenceStep
    PROVE  JobInv' /\ OnlyAbsentAreTold'
<1>1. CASE SkipDay \/ BreakOff \/ FinishJob
  BY <1>1, EndsKeeps DEF SkipDay, BreakOff, FinishJob
<1> QED
  BY <1>1, StartKeeps, ListKeeps, RowKeeps, PushKeeps DEF AbsenceStep

\* The list is kept by every step of the process.
LEMMA JobStep ==
    ASSUME JobInv, OnlyAbsentAreTold, TypeOK, [DutyNext]_dutyVars
    PROVE  JobInv' /\ OnlyAbsentAreTold'
<1>1. CASE AbsenceStep \/ DayStep
  BY <1>1, JobKeeps, DayKeeps
<1>2. ASSUME NEW r \in AdminReqs, AdminStep(r)
      PROVE  UNCHANGED <<punched, leaves, enrolled, jobVars, history, jobs>>
  BY <1>2 DEF AdminStep, AdminStarts, AdminAnswers, RecordActivity, AdminReturns,
              TakeId, StoreActivity, LoseActivity, RequestStarts, RequestReturns,
              TaskStarts, TaskReturns, absenceVars, day, vars
<1>3. ASSUME NextPage \/ (\E list \in {"log", "inbox"} : FirstPage(list))
               \/ UNCHANGED dutyVars
      PROVE  UNCHANGED <<punched, leaves, enrolled, jobVars, history, jobs>>
  BY <1>3 DEF NextPage, FirstPage, dutyVars, absenceVars, day, vars
<1>4. ASSUME OtherWork
      PROVE  UNCHANGED <<punched, leaves, enrolled, jobVars, history, jobs>>
  BY <1>4 DEF OtherWork, RequestStarts, RequestReturns, day
<1>5. ASSUME /\ ServeFails \/ Signal \/ Deadline \/ Main \/ Kill
             /\ UNCHANGED <<day, jobVars, history, logVars, page>>
      PROVE  UNCHANGED <<punched, leaves, enrolled, jobVars, history, jobs>>
  BY <1>5 DEF ServeFails, Signal, Deadline, Kill, Main, FailExit, HTTPStopped,
              HTTPTimeout, CronStopped, CronTimeout, WaitReturnsAtOnce,
              WaitBlocks, WaitReturns, WaitTimeout, day
<1> QED
  BY <1>1, <1>2, <1>3, <1>4, <1>5, JobFrame DEF DutyNext

-----------------------------------------------------------------------------
(* The admin requests and the counters                                     *)

\* Counting a set that gains or loses one element.
LEMMA OneMore ==
    ASSUME NEW S, NEW x, IsFiniteSet(S), x \notin S
    PROVE  /\ IsFiniteSet(S \cup {x}) /\ Cardinality(S) \in Nat
           /\ Cardinality(S \cup {x}) = Cardinality(S) + 1
  BY FS_AddElement, FS_CardinalityType

LEMMA OneLess ==
    ASSUME NEW S, NEW x, IsFiniteSet(S), x \in S
    PROVE  /\ IsFiniteSet(S \ {x}) /\ Cardinality(S) \in Nat
           /\ Cardinality(S \ {x}) = Cardinality(S) - 1
  BY FS_RemoveElement, FS_CardinalityType

\* A step that changes no admin request, no row of the log, no push and none
\* of the counters, and ends the process cleanly only with the pool closed.
LEMMA AdminFrame ==
    ASSUME AdminInv, UNCHANGED <<logVars, pushing, requests, running>>,
           exit' = "ok" => ~dbOpen'
    PROVE  AdminInv'
<1>1. Open' = Open /\ Pending' = Pending
  BY DEF Open, Pending, InsertPending, logVars
<1> QED
  BY <1>1 DEF AdminInv, logVars

\* One goroutine more, or one less, for one push more or less.
LEMMA PushCounts ==
    ASSUME AdminInv, JobInv, TypeOK, SendPush \/ (\E s \in Students : PushEnds(s)),
           UNCHANGED logVars
    PROVE  AdminInv'
<1>1. UNCHANGED <<requests, exit, dbOpen>>
  BY DEF SendPush, PushEnds, TaskStarts, TaskReturns, mainVars, vars
<1>2. Open' = Open /\ Pending' = Pending
  BY DEF Open, Pending, InsertPending, logVars
<1>3. /\ IsFiniteSet(pushing')
      /\ Cardinality(pushing') + Cardinality(Pending) <= running'
  <2>0. /\ Cardinality(pushing) \in Nat /\ Cardinality(Pending) \in Nat
        /\ running \in Nat
        /\ Cardinality(pushing) + Cardinality(Pending) <= running
        /\ IsFiniteSet(pushing)
    BY FS_CardinalityType DEF AdminInv, TypeOK, GroupType
  <2>1. CASE SendPush
    <3>1. PICK s \in Students : job.row = {s}
      BY <2>1 DEF SendPush, JobInv
    <3>2. CASE s \in WithDevice
      <4>1. pushing' = pushing \cup {s} /\ s \notin pushing /\ running' = running + 1
        BY <2>1, <3>1, <3>2 DEF SendPush, JobInv, TaskStarts, Go
      <4>2. IsFiniteSet(pushing') /\ Cardinality(pushing') = Cardinality(pushing) + 1
        BY <2>0, <4>1, OneMore
      <4> QED
        BY <2>0, <4>1, <4>2
    <3>3. CASE s \notin WithDevice
      <4>1. pushing' = pushing /\ running' = running
        BY <2>1, <3>1, <3>3 DEF SendPush, vars, groupVars
      <4> QED
        BY <2>0, <4>1
    <3> QED
      BY <3>2, <3>3
  <2>2. CASE \E s \in Students : PushEnds(s)
    <3>1. PICK s \in Students : PushEnds(s)
      BY <2>2
    <3>2. s \in pushing /\ pushing' = pushing \ {s} /\ running' = running - 1
      BY <3>1 DEF PushEnds, TaskReturns, Return
    <3>3. IsFiniteSet(pushing') /\ Cardinality(pushing') = Cardinality(pushing) - 1
      BY <2>0, <3>2, OneLess
    <3> QED
      BY <2>0, <3>2, <3>3
  <2> QED
    BY <2>1, <2>2
<1> QED
  BY <1>1, <1>2, <1>3 DEF AdminInv, logVars

\* The shape and the count of the requests when one of them moves on.
LEMMA AdminMoves ==
    ASSUME AdminInv, NEW r \in AdminReqs, NEW rec,
           rec \in [pc : ReqPcs, kind : ReqKinds, id : Nat],
           admin' = [admin EXCEPT ![r] = rec],
           rec.id <= lastId, UNCHANGED <<lastId, log, lost>>,
           admin[r].pc \in {"none", "serving", "answered"}
             \/ rec.pc \notin {"none", "serving", "answered"},
           rec.pc \in {"answered", "inserting"} => Recorded(rec.kind),
           rec.pc = "done" => ~Recorded(rec.kind),
           IsFiniteSet(Open'), Cardinality(Open') <= requests',
           IsFiniteSet(Pending'), UNCHANGED pushing,
           Cardinality(pushing) + Cardinality(Pending') <= running',
           UNCHANGED <<exit, dbOpen>>
    PROVE  AdminInv'
<1>1. admin' \in [AdminReqs -> [pc : ReqPcs, kind : ReqKinds, id : Nat]]
  BY DEF AdminInv
<1>2. ASSUME NEW q \in AdminReqs
      PROVE  /\ admin'[q].id <= lastId'
             /\ admin'[q].pc \in {"none", "serving", "answered"} =>
                  q \notin lost' /\ \A x \in log' : x.req # q
             /\ admin'[q].pc \in {"answered", "inserting"} =>
                  Recorded(admin'[q].kind)
             /\ admin'[q].pc = "done" => ~Recorded(admin'[q].kind)
  <2>1. CASE q = r
    <3>1. admin'[q] = rec
      BY <2>1 DEF AdminInv
    <3> QED
      BY <2>1, <3>1 DEF AdminInv
  <2>2. CASE q # r
    <3>1. admin'[q] = admin[q]
      BY <2>2 DEF AdminInv
    <3> QED
      BY <3>1 DEF AdminInv
  <2> QED
    BY <2>1, <2>2
<1> QED
  BY <1>1, <1>2 DEF AdminInv

\* A request arrives: one more that shutdown waits for.
LEMMA AdminStartsKeeps ==
    ASSUME AdminInv, TypeOK, NEW r \in AdminReqs, AdminStarts(r)
    PROVE  AdminInv'
<1>1. /\ admin[r].pc = "none" /\ requests' = requests + 1
      /\ UNCHANGED <<lastId, log, lost, pushing, running, exit, dbOpen>>
  BY DEF AdminStarts, RequestStarts, jobVars, mainVars, groupVars
<1>2. PICK k \in ReqKinds :
        admin' = [admin EXCEPT ![r] = [pc |-> "serving", kind |-> k, id |-> 0]]
  BY DEF AdminStarts, NoReq
<1>3. Open' = Open \cup {r} /\ r \notin Open /\ Pending' = Pending
  <2>1. \A q \in AdminReqs : q # r => admin'[q] = admin[q]
    BY <1>2 DEF AdminInv
  <2>2. admin'[r].pc = "serving"
    BY <1>2 DEF AdminInv
  <2> QED
    BY <1>1, <2>1, <2>2 DEF Open, Pending, InsertPending
<1>4. IsFiniteSet(Open') /\ Cardinality(Open') <= requests'
  <2>1. Cardinality(Open) \in Nat /\ requests \in Nat
    BY FS_CardinalityType DEF AdminInv, TypeOK
  <2>2. IsFiniteSet(Open') /\ Cardinality(Open') = Cardinality(Open) + 1
    BY <1>3, OneMore DEF AdminInv
  <2> QED
    BY <1>1, <2>1, <2>2 DEF AdminInv
<1> DEFINE rec == [pc |-> "serving", kind |-> k, id |-> 0]
<1>5. /\ rec \in [pc : ReqPcs, kind : ReqKinds, id : Nat] /\ rec.id <= lastId
      /\ rec.pc = "serving"
  BY DEF ReqPcs, AdminInv
<1>6. admin' = [admin EXCEPT ![r] = rec]
  BY <1>2
<1> HIDE DEF rec
<1>7. IsFiniteSet(Pending') /\ Cardinality(pushing) + Cardinality(Pending') <= running'
  BY <1>1, <1>3 DEF AdminInv
<1> QED
  BY <1>1, <1>4, <1>5, <1>6, <1>7, AdminMoves

\* The handler answers: what is recorded is still owed.
LEMMA AdminAnswersKeeps ==
    ASSUME AdminInv, TypeOK, NEW r \in AdminReqs, AdminAnswers(r)
    PROVE  AdminInv'
<1> DEFINE rec == [admin[r] EXCEPT !.pc =
                     IF Recorded(admin[r].kind) THEN "answered" ELSE "recorded"]
<1>0. admin[r] \in [pc : ReqPcs, kind : ReqKinds, id : Nat] /\ admin[r].id <= lastId
  BY DEF AdminInv
<1>1. /\ admin[r].pc = "serving" /\ admin' = [admin EXCEPT ![r] = rec]
      /\ UNCHANGED <<lastId, log, lost, pushing, running, requests, exit, dbOpen>>
  BY DEF AdminAnswers, absenceVars, jobVars, vars, groupVars
<1>2. /\ rec \in [pc : ReqPcs, kind : ReqKinds, id : Nat]
      /\ rec.pc = (IF Recorded(admin[r].kind) THEN "answered" ELSE "recorded")
      /\ rec.kind = admin[r].kind /\ rec.id = admin[r].id
  BY <1>0 DEF ReqPcs
<1> HIDE DEF rec
<1>3. Open' = Open /\ Pending' = Pending
  <2>1. \A q \in AdminReqs : q # r => admin'[q] = admin[q]
    BY <1>1 DEF AdminInv
  <2>2. admin'[r] = rec
    BY <1>1 DEF AdminInv
  <2> QED
    BY <1>1, <1>2, <2>1, <2>2 DEF Open, Pending, InsertPending
<1>4. /\ IsFiniteSet(Open') /\ Cardinality(Open') <= requests'
      /\ IsFiniteSet(Pending')
      /\ Cardinality(pushing) + Cardinality(Pending') <= running'
  BY <1>1, <1>3 DEF AdminInv
<1> QED
  BY <1>0, <1>1, <1>2, <1>4, AdminMoves

\* The deferred insert is counted before the handler returns.
LEMMA RecordKeeps ==
    ASSUME AdminInv, TypeOK, NEW r \in AdminReqs, RecordActivity(r)
    PROVE  AdminInv'
<1> DEFINE rec == [admin[r] EXCEPT !.pc = "recorded"]
<1>0. admin[r] \in [pc : ReqPcs, kind : ReqKinds, id : Nat] /\ admin[r].id <= lastId
  BY DEF AdminInv
<1>1. /\ admin[r].pc = "answered" /\ admin' = [admin EXCEPT ![r] = rec]
      /\ running' = running + 1
      /\ UNCHANGED <<lastId, log, lost, pushing, requests, exit, dbOpen>>
  BY DEF RecordActivity, TaskStarts, Go, jobVars, mainVars
<1>2. /\ rec \in [pc : ReqPcs, kind : ReqKinds, id : Nat]
      /\ rec.pc = "recorded" /\ rec.kind = admin[r].kind /\ rec.id = admin[r].id
  BY <1>0 DEF ReqPcs
<1> HIDE DEF rec
<1>3. Open' = Open /\ Pending' = Pending \cup {r} /\ r \notin Pending
  <2>1. \A q \in AdminReqs : q # r => admin'[q] = admin[q]
    BY <1>1 DEF AdminInv
  <2>2. admin'[r] = rec
    BY <1>1 DEF AdminInv
  <2>3. Recorded(admin[r].kind) /\ r \notin lost /\ \A x \in log : x.req # r
    BY <1>1 DEF AdminInv
  <2>4. Open' = Open
    BY <1>1, <1>2, <2>1, <2>2 DEF Open
  <2> QED
    BY <1>1, <1>2, <2>1, <2>2, <2>3, <2>4 DEF Pending, InsertPending
<1>4. /\ IsFiniteSet(Open') /\ Cardinality(Open') <= requests'
      /\ IsFiniteSet(Pending')
      /\ Cardinality(pushing) + Cardinality(Pending') <= running'
  <2>1. Cardinality(pushing) \in Nat /\ Cardinality(Pending) \in Nat /\ running \in Nat
    BY FS_CardinalityType DEF AdminInv, TypeOK, GroupType
  <2>2. IsFiniteSet(Pending') /\ Cardinality(Pending') = Cardinality(Pending) + 1
    BY <1>3, OneMore DEF AdminInv
  <2> QED
    BY <1>1, <1>3, <2>1, <2>2 DEF AdminInv
<1> QED
  BY <1>0, <1>1, <1>2, <1>4, AdminMoves

\* The handler returns; its insert may still be running.
LEMMA AdminReturnsKeeps ==
    ASSUME AdminInv, TypeOK, NEW r \in AdminReqs, AdminReturns(r)
    PROVE  AdminInv'
<1> DEFINE rec == [admin[r] EXCEPT !.pc =
                     IF Recorded(admin[r].kind) THEN "inserting" ELSE "done"]
<1>0. admin[r] \in [pc : ReqPcs, kind : ReqKinds, id : Nat] /\ admin[r].id <= lastId
  BY DEF AdminInv
<1>1. /\ admin[r].pc = "recorded" /\ admin' = [admin EXCEPT ![r] = rec]
      /\ requests' = requests - 1
      /\ UNCHANGED <<lastId, log, lost, pushing, running, exit, dbOpen>>
  BY DEF AdminReturns, RequestReturns, jobVars, mainVars, groupVars
<1>2. /\ rec \in [pc : ReqPcs, kind : ReqKinds, id : Nat]
      /\ rec.pc = (IF Recorded(admin[r].kind) THEN "inserting" ELSE "done")
      /\ rec.kind = admin[r].kind /\ rec.id = admin[r].id
  BY <1>0 DEF ReqPcs
<1> HIDE DEF rec
<1>3. Open' = Open \ {r} /\ r \in Open /\ Pending' = Pending
  <2>1. \A q \in AdminReqs : q # r => admin'[q] = admin[q]
    BY <1>1 DEF AdminInv
  <2>2. admin'[r] = rec
    BY <1>1 DEF AdminInv
  <2>3. Open' = Open \ {r} /\ r \in Open
    BY <1>1, <1>2, <2>1, <2>2 DEF Open
  <2> QED
    BY <1>1, <1>2, <2>1, <2>2, <2>3 DEF Pending, InsertPending
<1>4. /\ IsFiniteSet(Open') /\ Cardinality(Open') <= requests'
      /\ IsFiniteSet(Pending')
      /\ Cardinality(pushing) + Cardinality(Pending') <= running'
  <2>1. Cardinality(Open) \in Nat /\ requests \in Nat
    BY FS_CardinalityType DEF AdminInv, TypeOK
  <2>2. IsFiniteSet(Open') /\ Cardinality(Open') = Cardinality(Open) - 1
    BY <1>3, OneLess DEF AdminInv
  <2> QED
    BY <1>1, <1>3, <2>1, <2>2 DEF AdminInv
<1> QED
  BY <1>0, <1>1, <1>2, <1>4, AdminMoves

\* The INSERT takes its id from the sequence.
LEMMA TakeIdKeeps ==
    ASSUME AdminInv, NEW r \in AdminReqs, TakeId(r)
    PROVE  AdminInv'
<1>1. /\ admin' = [admin EXCEPT ![r].id = lastId + 1] /\ lastId' = lastId + 1
      /\ UNCHANGED <<log, lost, pushing, running, requests, exit, dbOpen>>
  BY DEF TakeId, absenceVars, jobVars, vars, groupVars
<1>2. \A q \in AdminReqs : /\ admin[q] \in [pc : ReqPcs, kind : ReqKinds, id : Nat]
                           /\ admin[q].id <= lastId /\ lastId \in Nat
  BY DEF AdminInv
<1>3. \A q \in AdminReqs : /\ admin'[q].pc = admin[q].pc
                           /\ admin'[q].kind = admin[q].kind
                           /\ admin'[q].id = IF q = r THEN lastId + 1 ELSE admin[q].id
  BY <1>1, <1>2 DEF AdminInv
<1>4. admin' \in [AdminReqs -> [pc : ReqPcs, kind : ReqKinds, id : Nat]]
  BY <1>1, <1>2 DEF AdminInv
<1>5. Open' = Open /\ Pending' = Pending
  BY <1>1, <1>3 DEF Open, Pending, InsertPending
<1>6. lastId' \in Nat /\ log' \subseteq [id : 1..lastId', req : AdminReqs]
  <2>1. ASSUME NEW x \in log PROVE x \in [id : 1..(lastId + 1), req : AdminReqs]
    <3>1. x \in [id : 1..lastId, req : AdminReqs] /\ lastId \in Nat
      BY DEF AdminInv
    <3> QED
      BY <3>1
  <2> QED
    BY <1>1, <1>2, <2>1 DEF AdminInv
<1>7. \A q \in AdminReqs : admin'[q].id <= lastId'
  BY <1>1, <1>2, <1>3
<1> QED
  BY <1>1, <1>3, <1>4, <1>5, <1>6, <1>7 DEF AdminInv

\* The INSERT commits or fails, and its goroutine returns.
LEMMA InsertKeeps ==
    ASSUME AdminInv, TypeOK, NEW r \in AdminReqs, StoreActivity(r) \/ LoseActivity(r)
    PROVE  AdminInv'
<1>1. /\ InsertPending(r) /\ running' = running - 1
      /\ UNCHANGED <<admin, lastId, pushing, requests, exit, dbOpen>>
  BY DEF StoreActivity, LoseActivity, TaskReturns, Return, jobVars, mainVars
<1>2. /\ log' \subseteq [id : 1..lastId, req : AdminReqs]
      /\ log \subseteq log' /\ \A x \in log' : x \in log \/ x.req = r
      /\ lost \subseteq lost' /\ lost' \subseteq lost \cup {r}
      /\ r \in lost' \/ \E x \in log' : x.req = r
  <2>1. CASE StoreActivity(r)
    <3>1. /\ log' = log \cup {[id |-> admin[r].id, req |-> r]} /\ lost' = lost
          /\ admin[r].id # 0
      BY <2>1 DEF StoreActivity
    <3>2. admin[r].id \in 1..lastId
      BY <3>1 DEF AdminInv
    <3> DEFINE row == [id |-> admin[r].id, req |-> r]
    <3>3. row \in [id : 1..lastId, req : AdminReqs] /\ row.req = r
      BY <3>2
    <3>4. log' = log \cup {row}
      BY <3>1
    <3> HIDE DEF row
    <3>5. log' \subseteq [id : 1..lastId, req : AdminReqs]
      BY <3>3, <3>4 DEF AdminInv
    <3> QED
      BY <3>1, <3>3, <3>4, <3>5
  <2>2. CASE LoseActivity(r)
    BY <2>2 DEF LoseActivity, AdminInv
  <2> QED
    BY <2>1, <2>2
<1>3. Open' = Open
  BY <1>1 DEF Open
<1>4. Pending' = Pending \ {r} /\ r \in Pending
  BY <1>1, <1>2 DEF Pending, InsertPending
<1>5. /\ IsFiniteSet(Pending')
      /\ Cardinality(pushing) + Cardinality(Pending') <= running'
  <2>1. Cardinality(pushing) \in Nat /\ Cardinality(Pending) \in Nat /\ running \in Nat
    BY FS_CardinalityType DEF AdminInv, TypeOK, GroupType
  <2>2. IsFiniteSet(Pending') /\ Cardinality(Pending') = Cardinality(Pending) - 1
    BY <1>4, OneLess DEF AdminInv
  <2> QED
    BY <1>1, <2>1, <2>2 DEF AdminInv
<1>6. \A q \in AdminReqs : admin[q].pc \in {"none", "serving", "answered"} =>
        q \notin lost' /\ \A x \in log' : x.req # q
  BY <1>1, <1>2 DEF AdminInv, InsertPending
<1> QED
  BY <1>1, <1>2, <1>3, <1>5, <1>6 DEF AdminInv

\* Other requests come and go beside the admin requests.
LEMMA OtherKeeps ==
    ASSUME AdminInv, TypeOK, OtherWork
    PROVE  AdminInv'
<1>1. UNCHANGED <<logVars, pushing, running, exit, dbOpen>>
  BY DEF OtherWork, RequestStarts, RequestReturns, groupVars, mainVars, jobVars
<1>2. Open' = Open /\ Pending' = Pending
  BY <1>1 DEF Open, Pending, InsertPending, logVars
<1>3. Cardinality(Open) <= requests'
  <2>1. Cardinality(Open) \in Nat /\ requests \in Nat
    BY FS_CardinalityType DEF AdminInv, TypeOK
  <2> QED
    BY <2>1 DEF OtherWork, RequestStarts, RequestReturns, AdminInv, Open
<1> QED
  BY <1>1, <1>2, <1>3 DEF AdminInv, logVars

\* The requests and counters are kept by every step of the process.
LEMMA AdminStepKeeps ==
    ASSUME AdminInv, JobInv, TypeOK, [DutyNext]_dutyVars
    PROVE  AdminInv'
<1>1. ASSUME AbsenceStep, UNCHANGED logVars PROVE AdminInv'
  <2>1. CASE SendPush \/ \E s \in Students : PushEnds(s)
    BY <1>1, <2>1, PushCounts
  <2>2. ASSUME NEW how, Ends(how)
        PROVE  UNCHANGED <<pushing, requests, running, exit, dbOpen>>
    BY <2>2 DEF Ends, JobReturns, groupVars, mainVars
  <2>3. CASE StartAbsences
    BY <1>1, <2>3, AdminFrame DEF StartAbsences, JobStarts, groupVars, mainVars,
                                  AdminInv
  <2>4. CASE SkipDay \/ BreakOff \/ FinishJob
    BY <1>1, <2>2, <2>4, AdminFrame DEF SkipDay, BreakOff, FinishJob, AdminInv
  <2>5. CASE CheckDay \/ QueryAbsent \/ \E s \in Students : SkipRow(s) \/ SaveHistory(s)
    BY <1>1, <2>5, AdminFrame DEF CheckDay, QueryAbsent, SkipRow, SaveHistory, vars,
                                  groupVars, AdminInv
  <2> QED
    BY <1>1, <2>1, <2>3, <2>4, <2>5 DEF AbsenceStep
<1>2. ASSUME DayStep, UNCHANGED logVars PROVE AdminInv'
  <2>1. DayChanges
    BY <1>2 DEF DayStep, CloseOrOpen, Punch, CreateLeave, CancelLeave, Withdraw
  <2> QED
    BY <1>2, <2>1, AdminFrame DEF DayChanges, vars, groupVars, jobVars, AdminInv
<1>3. ASSUME NEW r \in AdminReqs, AdminStep(r) PROVE AdminInv'
  BY <1>3, AdminStartsKeeps, AdminAnswersKeeps, RecordKeeps, AdminReturnsKeeps,
     TakeIdKeeps, InsertKeeps DEF AdminStep
<1>4. ASSUME NextPage \/ (\E list \in {"log", "inbox"} : FirstPage(list))
               \/ UNCHANGED dutyVars
      PROVE  AdminInv'
  BY <1>4, AdminFrame DEF NextPage, FirstPage, dutyVars, absenceVars, jobVars, vars,
                          groupVars, AdminInv
<1>5. ASSUME ServeFails \/ Signal \/ Deadline \/ Main \/ Kill,
             UNCHANGED <<logVars, jobVars>>
      PROVE  AdminInv'
  <2>1. CASE ServeFails \/ Signal \/ Deadline \/ FailExit \/ Kill
    BY <1>5, <2>1, AdminFrame DEF ServeFails, Signal, Deadline, Kill, FailExit, Exits,
                                  groupVars, jobVars, AdminInv
  <2>2. CASE HTTPStopped \/ HTTPTimeout \/ CronStopped \/ CronTimeout \/ WaitBlocks
    BY <1>5, <2>2, AdminFrame DEF HTTPStopped, HTTPTimeout, CronStopped, CronTimeout,
                                  WaitBlocks, WaitBlock, groupVars, jobVars, AdminInv
  <2>3. CASE WaitReturnsAtOnce \/ WaitReturns \/ WaitTimeout
    BY <1>5, <2>3, AdminFrame DEF WaitReturnsAtOnce, WaitReturns, WaitTimeout, WaitNone,
                                  WaitDone, Conclude, Exits, groupVars, jobVars
  <2> QED
    BY <1>5, <2>1, <2>2, <2>3 DEF Main
<1> QED
  BY <1>1, <1>2, <1>3, <1>4, <1>5, OtherKeeps DEF DutyNext

-----------------------------------------------------------------------------
(* The pages                                                               *)

\* A set of numbers that is not empty has a least element.
LEMMA LeastOf ==
    ASSUME NEW S, S \subseteq Nat, S # {}
    PROVE  \E n \in S : \A m \in S : n <= m
<1> DEFINE less == {ss \in Nat \X Nat : ss[1] < ss[2]}
<1>1. IsWellFoundedOn(less, Nat)
  BY NatLessThanWellFounded DEF OpToRel
<1>2. less = {ss \in Nat \X Nat : ss[1] < ss[2]}
  OBVIOUS
<1> HIDE DEF less
<1>3. PICK n \in S : \A m \in S : <<m, n>> \notin less
  BY <1>1, WFMin
<1>4. \A m \in S : ~(m < n)
  BY <1>2, <1>3
<1> QED
  BY <1>4

Ranks(B) == [i \in B |-> Cardinality({j \in B : j > i}) + 1]
Highest(B, limit) == {i \in B : Ranks(B)[i] <= limit}

Ranked(B, limit, rk, Top) ==
    /\ rk \in [B -> Nat \ {0}]
    /\ \A i, j \in B : j > i => rk[j] < rk[i]
    /\ Cardinality(Top) \in Nat /\ Cardinality(Top) <= limit
    /\ \A i \in Top : rk[i] \in 1..Cardinality(Top)
    /\ \A k \in 1..Cardinality(Top) : \E i \in Top : rk[i] = k
    /\ \A i \in B : i \notin Top => Cardinality(Top) = limit

\* The ranks of a finite set of numbers, counted from the highest: the first
\* of them number its highest elements one by one.
LEMMA RankFacts ==
    ASSUME NEW n \in Nat, NEW B, B \subseteq 1..n, NEW limit \in Nat
    PROVE  Ranked(B, limit, Ranks(B), Highest(B, limit))
<1> DEFINE rk == Ranks(B)
           Top == Highest(B, limit)
           Above(i) == {j \in B : j > i}
           t == Cardinality(Top)
<1> USE DEF Ranks, Highest
<1>2. IsFiniteSet(B)
  <2>1. IsFiniteSet(1..n)
    BY FS_Interval
  <2> QED
    BY <2>1, FS_Subset
<1>3. \A S \in SUBSET B : IsFiniteSet(S) /\ Cardinality(S) \in Nat
  BY <1>2, FS_Subset, FS_CardinalityType
<1>4. \A i \in B : /\ IsFiniteSet(Above(i)) /\ Cardinality(Above(i)) \in Nat
                   /\ rk[i] = Cardinality(Above(i)) + 1
  <2>1. \A i \in B : Above(i) \in SUBSET B
    OBVIOUS
  <2>2. \A i \in B : rk[i] = Cardinality(Above(i)) + 1
    OBVIOUS
  <2> HIDE DEF Above
  <2> QED
    BY <1>3, <2>1, <2>2
<1>5. ASSUME NEW i \in B, NEW j \in B, j > i PROVE Above(j) \cup {j} \subseteq Above(i)
  <2>1. ASSUME NEW k \in B, k > j PROVE k > i
    <3>1. i \in Int /\ j \in Int /\ k \in Int
      OBVIOUS
    <3> QED
      BY <1>5, <2>1, <3>1
  <2> QED
    BY <1>5, <2>1
<1>6. \A i \in B : i \notin Above(i)
  OBVIOUS
<1>7. IsFiniteSet(Top) /\ t \in Nat /\ Top \subseteq B
  BY <1>3
<1>0. \A i, j \in B : j > i => j \in Above(i)
  OBVIOUS
<1>a. \A i, j \in B : j \in Above(i) => j > i
  OBVIOUS
<1>b. \A i : Above(i) \subseteq B
  OBVIOUS
<1>r. rk \in [B -> Nat \ {0}]
  <2>1. \A i \in B : rk[i] \in Nat \ {0}
    <3> HIDE DEF Above
    <3> QED
      BY <1>4
  <2> QED
    BY <2>1
<1> HIDE DEF Above
<1>8. ASSUME NEW i \in B, NEW j \in B, j > i PROVE rk[j] < rk[i]
  <2>2. Cardinality(Above(j) \cup {j}) = Cardinality(Above(j)) + 1
    BY <1>4, <1>6, OneMore
  <2>3. Cardinality(Above(j) \cup {j}) <= Cardinality(Above(i))
    BY <1>4, <1>5, <1>8, FS_Subset
  <2>4. rk[j] = Cardinality(Above(j)) + 1 /\ rk[i] = Cardinality(Above(i)) + 1
    BY <1>4
  <2>5. Cardinality(Above(j)) \in Nat /\ Cardinality(Above(i)) \in Nat
    BY <1>4
  <2> QED
    BY <2>2, <2>3, <2>4, <2>5
<1>9. ASSUME NEW i \in Top PROVE rk[i] \in 1..t
  <2>0. i \in B
    BY <1>7
  <2>1. Above(i) \cup {i} \subseteq Top
    <3>1. ASSUME NEW j \in Above(i) PROVE j \in Top
      <4>1. j \in B /\ j > i
        BY <1>a, <1>b, <2>0, <3>1
      <4>2. rk[j] < rk[i] /\ rk[i] <= limit /\ rk[j] \in Nat /\ rk[i] \in Nat
        BY <1>8, <1>r, <2>0, <4>1
      <4> QED
        BY <4>1, <4>2
    <3> QED
      BY <3>1
  <2>2. Cardinality(Above(i) \cup {i}) = Cardinality(Above(i)) + 1
    BY <1>4, <1>6, <2>0, OneMore
  <2>3. Cardinality(Above(i) \cup {i}) <= t
    BY <1>7, <2>1, FS_Subset
  <2>4. Cardinality(Above(i)) \in Nat /\ rk[i] = Cardinality(Above(i)) + 1
    BY <1>4, <2>0
  <2> QED
    BY <1>7, <2>2, <2>3, <2>4
<1>10. \A i, j \in Top : rk[i] = rk[j] => i = j
  <2>1. \A i, j \in B : i # j => rk[i] < rk[j] \/ rk[j] < rk[i]
    BY <1>8
  <2> QED
    BY <1>7, <1>r, <2>1
<1>11. \A k \in 1..t : \E i \in Top : rk[i] = k
  <2> DEFINE f == [i \in Top |-> rk[i]]
  <2>1. f \in Injection(Top, 1..t)
    BY <1>9, <1>10 DEF Injection, IsInjective
  <2>2. IsFiniteSet(1..t) /\ Cardinality(1..t) = t
    BY <1>7, FS_Interval
  <2>3. f \in Surjection(Top, 1..t)
    BY <2>1, <2>2, FS_Injection
  <2> QED
    BY <2>3 DEF Surjection
<1>12. t <= limit
  <2>1. CASE t = 0
    BY <2>1
  <2>2. CASE t # 0
    <3>1. t \in 1..t
      BY <1>7, <2>2
    <3>2. PICK i \in Top : rk[i] = t
      BY <1>11, <3>1
    <3> QED
      BY <3>2
  <2> QED
    BY <2>1, <2>2
<1>13. ASSUME NEW i \in B, i \notin Top PROVE t = limit
  <2> DEFINE R == {rk[j] : j \in B \ Top}
  <2>1. R \subseteq Nat /\ R # {}
    BY <1>r, <1>13
  <2>2. PICK v \in R : \A w \in R : v <= w
    BY <2>1, LeastOf
  <2>3. PICK h \in B \ Top : v = rk[h]
    BY <2>2
  <2>4. Above(h) \subseteq Top
    <3>1. ASSUME NEW j \in Above(h), j \notin Top PROVE FALSE
      <4>1. j \in B /\ j > h
        BY <1>a, <1>b, <3>1
      <4>2. rk[j] < rk[h] /\ rk[j] \in R /\ rk[j] \in Nat /\ rk[h] \in Nat
        BY <1>8, <1>r, <3>1, <4>1
      <4> HIDE DEF R
      <4> QED
        BY <2>2, <2>3, <4>2
    <3> QED
      BY <3>1
  <2>5. Cardinality(Above(h)) <= t
    BY <1>7, <2>4, FS_Subset
  <2>6. ~(rk[h] <= limit) /\ rk[h] \in Nat
    BY <1>r
  <2>7. Cardinality(Above(h)) \in Nat /\ rk[h] = Cardinality(Above(h)) + 1
    BY <1>4
  <2> QED
    BY <1>7, <1>12, <2>5, <2>6, <2>7
<1> QED
  BY <1>r, <1>7, <1>8, <1>9, <1>11, <1>12, <1>13 DEF Ranked

Fetch(F, B) ==
    /\ F \in Seq(B) /\ F \in Seq(Nat) /\ Len(F) <= PageSize + 1
    /\ \A k, m \in 1..Len(F) : k < m => F[k] > F[m]
    /\ \A i \in B : \/ \E k \in 1..Len(F) : F[k] = i
                    \/ Len(F) = PageSize + 1 /\ \A k \in 1..Len(F) : F[k] > i
Below(list, before) == {i \in Ids(list) : before # 0 => i < before}

\* What a page's query returns: the highest ids below the cursor, each once,
\* highest first, and all of them unless the page is full.
LEMMA FetchedFacts ==
    ASSUME NEW list, NEW n \in Nat, Ids(list) \subseteq 1..n, NEW before \in Nat
    PROVE  Fetch(Fetched(list, before), Below(list, before))
<1> DEFINE F == Fetched(list, before)
           B == Below(list, before)
           rk == [i \in B |-> Cardinality({j \in B : j > i}) + 1]
           Top == {i \in B : rk[i] <= PageSize + 1}
           t == Cardinality(Top)
<1>0. PageSize \in Nat \ {0}
  BY ActivityAssumption
<1>1. F = [k \in 1..t |-> CHOOSE i \in Top : rk[i] = k]
  <2> DEFINE rank(i) == Cardinality({j \in B : j > i}) + 1
             T2 == {i \in B : rank(i) <= PageSize + 1}
  <2>1. F = [k \in 1..Cardinality(T2) |-> CHOOSE i \in T2 : rank(i) = k]
    BY DEF Fetched, Below
  <2>2. \A i \in B : rk[i] = rank(i)
    OBVIOUS
  <2>3. T2 = Top
    BY <2>2
  <2>4. ASSUME NEW k
        PROVE  (CHOOSE i \in T2 : rank(i) = k) = (CHOOSE i \in Top : rk[i] = k)
    BY <2>2, <2>3
  <2> QED
    BY <2>1, <2>3, <2>4
<1>2. B \subseteq 1..n
  BY DEF Below
<1> HIDE DEF F, B
<1>3. /\ rk \in [B -> Nat \ {0}]
      /\ \A i, j \in B : j > i => rk[j] < rk[i]
      /\ t \in Nat /\ t <= PageSize + 1
      /\ \A i \in Top : rk[i] \in 1..t
      /\ \A k \in 1..t : \E i \in Top : rk[i] = k
      /\ \A i \in B : i \notin Top => t = PageSize + 1
  <2>1. PageSize + 1 \in Nat
    BY <1>0
  <2>2. rk = Ranks(B) /\ Top = Highest(B, PageSize + 1)
    BY DEF Ranks, Highest
  <2>3. Ranked(B, PageSize + 1, Ranks(B), Highest(B, PageSize + 1))
    BY <1>2, <2>1, RankFacts
  <2> HIDE DEF rk, Top
  <2> QED
    BY <2>2, <2>3 DEF Ranked
<1>4. \A i \in B : i \in Top <=> rk[i] <= PageSize + 1
  OBVIOUS
<1>5. Top \subseteq B
  OBVIOUS
<1> HIDE DEF rk, Top
<1>6. \A k \in 1..t : F[k] \in Top /\ rk[F[k]] = k
  BY <1>1, <1>3
<1>7. F \in Seq(B) /\ F \in Seq(Nat) /\ Len(F) = t
  <2>1. \A k \in 1..t : F[k] \in B /\ F[k] \in Nat
    <3>1. \A k \in 1..t : F[k] \in B
      BY <1>5, <1>6
    <3>2. B \subseteq Nat
      BY <1>2
    <3> HIDE DEF t
    <3> QED
      BY <3>1, <3>2
  <2>2. F = [k \in 1..t |-> F[k]]
    BY <1>1
  <2>3. F \in [1..t -> B] /\ F \in [1..t -> Nat]
    BY <2>1, <2>2
  <2>4. F \in Seq(B) /\ Len(F) = t
    BY <1>3, <2>3
  <2>5. F \in Seq(Nat)
    BY <1>3, <2>3
  <2> QED
    BY <2>4, <2>5
<1>8. \A i, j \in B : rk[i] < rk[j] => i > j
  <2>1. \A i, j \in B : i \in Nat /\ j \in Nat
    BY <1>2
  <2>2. \A i, j \in B : rk[i] \in Nat /\ rk[j] \in Nat
    BY <1>3
  <2> QED
    BY <1>3, <2>1, <2>2
<1>9. \A k, m \in 1..t : k < m => F[k] > F[m]
  BY <1>5, <1>6, <1>8
<1>10. ASSUME NEW i \in Top PROVE \E k \in 1..t : F[k] = i
  <2>1. rk[i] \in 1..t
    BY <1>3
  <2>2. F[rk[i]] \in Top /\ rk[F[rk[i]]] = rk[i]
    BY <1>6, <2>1
  <2>3. \A x, y \in B : x # y => rk[x] < rk[y] \/ rk[y] < rk[x]
    BY <1>2, <1>3
  <2>4. F[rk[i]] = i
    BY <1>3, <1>5, <2>2, <2>3
  <2> QED
    BY <2>1, <2>4
<1>11. ASSUME NEW i \in B, i \notin Top
       PROVE  t = PageSize + 1 /\ \A k \in 1..t : F[k] > i
  <2>1. t = PageSize + 1 /\ rk[i] > PageSize + 1 /\ rk[i] \in Nat
    BY <1>0, <1>3, <1>4, <1>11
  <2>2. ASSUME NEW k \in 1..t PROVE F[k] > i
    <3>1. F[k] \in B /\ rk[F[k]] < rk[i]
      BY <1>0, <1>5, <1>6, <2>1, <2>2
    <3> QED
      BY <1>8, <3>1
  <2> QED
    BY <2>1, <2>2
<1> QED
  <2>1. Fetch(F, B)
    BY <1>3, <1>7, <1>9, <1>10, <1>11 DEF Fetch
  <2> QED
    BY <2>1 DEF F, B

\* A page is read from the beginning of a list, or where the last one ended.
Cursor(list, from) ==
    /\ from \in [list : {"none", "log", "inbox"}, before : Nat, shown : Seq(Nat),
                 had : SUBSET Nat, more : BOOLEAN]
    /\ from.had \subseteq Ids(list)
    /\ \A i, j \in DOMAIN from.shown : i < j => from.shown[i] > from.shown[j]
    /\ IF from.before = 0 THEN from.shown = <<>>
       ELSE /\ \A i \in DOMAIN from.shown : from.before <= from.shown[i]
            /\ \A h \in from.had : from.before <= h =>
                 \E i \in DOMAIN from.shown : from.shown[i] = h

\* The ids of a list are numbers up to the last one handed out.
LEMMA IdsBounded ==
    ASSUME JobInv, AdminInv, NEW list \in {"log", "inbox"}
    PROVE  \E n \in Nat : Ids(list) \subseteq 1..n
<1>1. CASE list = "log"
  <2>1. \A x \in log : x.id \in 1..lastId
    BY DEF AdminInv
  <2>2. Ids(list) \subseteq 1..lastId /\ lastId \in Nat
    BY <1>1, <2>1 DEF Ids, AdminInv
  <2> QED
    BY <2>2
<1>2. CASE list = "inbox"
  <2>1. Ids(list) = 1..Len(inbox) /\ Len(inbox) \in Nat
    BY <1>2 DEF Ids, JobInv
  <2> QED
    BY <2>1
<1> QED
  BY <1>1, <1>2

\* Two decreasing sequences, the second wholly below the first, joined.
LEMMA JoinDecreasing ==
    ASSUME NEW a \in Seq(Nat), NEW b \in Seq(Nat),
           \A i, j \in DOMAIN a : i < j => a[i] > a[j],
           \A i, j \in DOMAIN b : i < j => b[i] > b[j],
           \A i \in DOMAIN a : \A j \in DOMAIN b : a[i] > b[j]
    PROVE  \A i, j \in DOMAIN (a \o b) : i < j => (a \o b)[i] > (a \o b)[j]
<1> DEFINE c == a \o b
<1>1. /\ c \in Seq(Nat) /\ Len(c) = Len(a) + Len(b)
      /\ Len(a) \in Nat /\ Len(b) \in Nat
      /\ DOMAIN a = 1..Len(a) /\ DOMAIN b = 1..Len(b)
      /\ DOMAIN c = 1..(Len(a) + Len(b))
      /\ \A i \in 1..(Len(a) + Len(b)) :
           c[i] = IF i <= Len(a) THEN a[i] ELSE b[i - Len(a)]
  OBVIOUS
<1> HIDE DEF c
<1>2. ASSUME NEW i \in DOMAIN c, NEW j \in DOMAIN c, i < j PROVE c[i] > c[j]
  <2>1. CASE j <= Len(a)
    BY <1>1, <1>2, <2>1
  <2>2. CASE i > Len(a)
    <3>1. i - Len(a) \in DOMAIN b /\ j - Len(a) \in DOMAIN b
      BY <1>1, <1>2, <2>2
    <3>2. i - Len(a) < j - Len(a)
      BY <1>1, <1>2, <2>2
    <3>3. /\ i \in 1..(Len(a) + Len(b)) /\ j \in 1..(Len(a) + Len(b))
          /\ ~(i <= Len(a)) /\ ~(j <= Len(a))
      BY <1>1, <1>2, <2>2
    <3>4. \A k \in 1..(Len(a) + Len(b)) : ~(k <= Len(a)) => c[k] = b[k - Len(a)]
      BY <1>1, Zenon
    <3>5. c[i] = b[i - Len(a)] /\ c[j] = b[j - Len(a)]
      BY <3>3, <3>4, Zenon
    <3> QED
      BY <3>1, <3>2, <3>5
  <2>3. CASE i <= Len(a) /\ j > Len(a)
    <3>1. i \in DOMAIN a /\ j - Len(a) \in DOMAIN b
      BY <1>1, <1>2, <2>3
    <3>2. c[i] = a[i] /\ c[j] = b[j - Len(a)]
      BY <1>1, <1>2, <2>3
    <3> QED
      BY <3>1, <3>2
  <2> QED
    BY <1>1, <1>2, <2>1, <2>2, <2>3
<1> QED
  BY <1>2 DEF c

\* What two sequences hold is what their concatenation holds.
LEMMA JoinRange ==
    ASSUME NEW a \in Seq(Nat), NEW b \in Seq(Nat)
    PROVE  /\ \A i \in DOMAIN a : \E k \in DOMAIN (a \o b) : (a \o b)[k] = a[i]
           /\ \A i \in DOMAIN b : \E k \in DOMAIN (a \o b) : (a \o b)[k] = b[i]
           /\ \A k \in DOMAIN (a \o b) : \/ \E i \in DOMAIN a : (a \o b)[k] = a[i]
                                         \/ \E i \in DOMAIN b : (a \o b)[k] = b[i]
<1> DEFINE c == a \o b
<1>1. /\ Len(a) \in Nat /\ Len(b) \in Nat
      /\ DOMAIN a = 1..Len(a) /\ DOMAIN b = 1..Len(b)
      /\ DOMAIN c = 1..(Len(a) + Len(b))
      /\ \A i \in 1..(Len(a) + Len(b)) :
           c[i] = IF i <= Len(a) THEN a[i] ELSE b[i - Len(a)]
  OBVIOUS
<1> HIDE DEF c
<1>2. ASSUME NEW i \in DOMAIN a PROVE \E k \in DOMAIN c : c[k] = a[i]
  <2>1. i \in DOMAIN c /\ c[i] = a[i]
    BY <1>1
  <2> QED
    BY <2>1
<1>3. ASSUME NEW i \in DOMAIN b PROVE \E k \in DOMAIN c : c[k] = b[i]
  <2>1. Len(a) + i \in DOMAIN c /\ ~(Len(a) + i <= Len(a)) /\ (Len(a) + i) - Len(a) = i
    BY <1>1
  <2>2. c[Len(a) + i] = b[i]
    BY <1>1, <2>1
  <2> QED
    BY <2>1, <2>2
<1>4. ASSUME NEW k \in DOMAIN c
      PROVE  \/ \E i \in DOMAIN a : c[k] = a[i]
             \/ \E i \in DOMAIN b : c[k] = b[i]
  <2>1. CASE k <= Len(a)
    BY <1>1, <2>1
  <2>2. CASE k > Len(a)
    <3>1. k - Len(a) \in DOMAIN b /\ c[k] = b[k - Len(a)]
      BY <1>1, <2>2
    <3> QED
      BY <3>1
  <2> QED
    BY <1>1, <2>1, <2>2
<1> QED
  BY <1>2, <1>3, <1>4 DEF c

\* Showing a page keeps what is still to be shown below the new cursor.
LEMMA ShowKeeps ==
    ASSUME JobInv, AdminInv, NEW list \in {"log", "inbox"}, NEW from,
           Cursor(list, from), ShowPage(list, from), UNCHANGED <<log, inbox>>
    PROVE  PageInv'
<1> DEFINE rows == Fetched(list, from.before)
           below == Below(list, from.before)
           more == Len(rows) > PageSize
           part == IF more THEN SubSeq(rows, 1, PageSize) ELSE rows
<1>0. PICK n \in Nat : Ids(list) \subseteq 1..n
  BY IdsBounded
<1>1. /\ from \in [list : {"none", "log", "inbox"}, before : Nat, shown : Seq(Nat),
                   had : SUBSET Nat, more : BOOLEAN]
      /\ PageSize \in Nat \ {0}
  BY ActivityAssumption DEF Cursor
<1>2. /\ rows \in Seq(below) /\ rows \in Seq(Nat) /\ Len(rows) <= PageSize + 1
      /\ \A k, m \in 1..Len(rows) : k < m => rows[k] > rows[m]
      /\ \A i \in below : \/ \E k \in 1..Len(rows) : rows[k] = i
                          \/ Len(rows) = PageSize + 1
                               /\ \A k \in 1..Len(rows) : rows[k] > i
  <2>1. from.before \in Nat
    BY <1>1
  <2> HIDE DEF rows, below
  <2>2. Fetch(rows, below)
    BY <1>0, <2>1, FetchedFacts DEF rows, below
  <2> QED
    BY <2>2 DEF Fetch
<1>3. below \subseteq 1..n /\ below \subseteq Ids(list)
  BY <1>0 DEF Below
<1>4. \A h \in Ids(list) : h \in below \/ (from.before # 0 /\ from.before <= h)
  BY <1>0, <1>1 DEF Below
<1>5. \A h \in below : from.before # 0 => h < from.before
  BY DEF Below
<1>6. page' = [list |-> list, before |-> IF more THEN rows[PageSize] ELSE 0,
               shown |-> from.shown \o part, had |-> from.had, more |-> more]
  BY <1>1 DEF ShowPage, NextBefore
<1>7. Ids(list)' = Ids(list)
  BY DEF Ids
<1> HIDE DEF rows, below
<1>8. /\ Len(rows) \in Nat /\ DOMAIN rows = 1..Len(rows)
      /\ \A k \in 1..Len(rows) : rows[k] \in below
  BY <1>2
<1>m. /\ more => Len(rows) = PageSize + 1
      /\ ~more => Len(rows) <= PageSize /\ Len(rows) # PageSize + 1
      /\ more \in BOOLEAN
  <2>1. more \in BOOLEAN
    BY DEF more
  <2>2. PageSize \in Nat /\ Len(rows) \in Nat /\ Len(rows) <= PageSize + 1
    BY <1>1, <1>2, <1>8
  <2> QED
    BY <2>1, <2>2
<1> HIDE DEF more
<1>9. /\ part \in Seq(Nat) /\ DOMAIN part = 1..Len(part)
      /\ Len(part) = (IF more THEN PageSize ELSE Len(rows))
      /\ \A k \in 1..Len(part) : k \in 1..Len(rows) /\ part[k] = rows[k]
  <2>1. rows \in Seq(Nat)
    BY <1>2
  <2>2. CASE more
    <3>1. PageSize \in 1..Len(rows)
      BY <1>1, <1>m, <2>2
    <3>2. /\ SubSeq(rows, 1, PageSize) \in Seq(Nat)
          /\ Len(SubSeq(rows, 1, PageSize)) = PageSize
          /\ \A k \in 1..PageSize : SubSeq(rows, 1, PageSize)[k] = rows[k]
      BY <1>1, <2>1, <3>1
    <3> QED
      BY <1>1, <2>2, <3>1, <3>2
  <2>3. CASE ~more
    BY <1>8, <2>1, <2>3
  <2> QED
    BY <2>2, <2>3
<1> HIDE DEF part
<1> DEFINE shown == from.shown \o part
<1>10. shown \in Seq(Nat)
  BY <1>1, <1>9
<1>11. \A i \in DOMAIN from.shown : \A j \in DOMAIN part : from.shown[i] > part[j]
  <2>1. CASE from.before = 0
    BY <2>1 DEF Cursor
  <2>2. CASE from.before # 0
    <3>1. \A i \in DOMAIN from.shown : from.before <= from.shown[i] /\ from.shown[i] \in Nat
      BY <1>1, <2>2 DEF Cursor
    <3>2. \A j \in DOMAIN part : part[j] < from.before /\ part[j] \in Nat
      BY <1>3, <1>5, <1>8, <1>9, <2>2
    <3> QED
      BY <1>1, <3>1, <3>2
  <2> QED
    BY <2>1, <2>2
<1>12. \A i, j \in DOMAIN shown : i < j => shown[i] > shown[j]
  <2>1. \A i, j \in DOMAIN part : i < j => part[i] > part[j]
    BY <1>2, <1>9
  <2>2. \A i, j \in DOMAIN from.shown : i < j => from.shown[i] > from.shown[j]
    BY DEF Cursor
  <2>3. from.shown \in Seq(Nat) /\ part \in Seq(Nat)
    BY <1>1, <1>9
  <2> QED
    BY <1>11, <2>1, <2>2, <2>3, JoinDecreasing
<1>13. /\ \A i \in DOMAIN from.shown : \E k \in DOMAIN shown : shown[k] = from.shown[i]
       /\ \A i \in DOMAIN part : \E k \in DOMAIN shown : shown[k] = part[i]
       /\ \A k \in DOMAIN shown : \/ \E i \in DOMAIN from.shown : shown[k] = from.shown[i]
                                  \/ \E i \in DOMAIN part : shown[k] = part[i]
  BY <1>1, <1>9, JoinRange
<1>14. ASSUME NEW h \in from.had, from.before # 0, from.before <= h
       PROVE  \E k \in DOMAIN shown : shown[k] = h
  BY <1>13, <1>14 DEF Cursor
<1>15. from.had \subseteq Ids(list)
  BY DEF Cursor
<1>16. page'.shown = shown /\ page'.had = from.had /\ page'.list = list
       /\ page'.more = more
       /\ page'.before = (IF more THEN rows[PageSize] ELSE 0)
  BY <1>6
<1>17. page' \in [list : {"none", "log", "inbox"}, before : Nat, shown : Seq(Nat),
                  had : SUBSET Nat, more : BOOLEAN]
  <2>1. more => rows[PageSize] \in Nat
    <3>1. ASSUME more PROVE PageSize \in 1..Len(rows)
      BY <1>1, <1>m, <3>1
    <3> QED
      BY <1>2, <3>1
  <2>2. from.had \in SUBSET Nat
    BY <1>1
  <2> HIDE DEF shown
  <2>3. page' = [list |-> list, before |-> IF more THEN rows[PageSize] ELSE 0,
                 shown |-> shown, had |-> from.had, more |-> more]
    BY <1>6 DEF shown
  <2>4. more \in BOOLEAN
    BY <1>m
  <2> QED
    BY <1>10, <2>1, <2>2, <2>3, <2>4
<1> HIDE DEF shown
<1>18. CASE ~more
  <2>1. ASSUME NEW h \in from.had PROVE \E k \in DOMAIN shown : shown[k] = h
    <3>1. CASE h \in below
      <4>1. PICK k \in 1..Len(rows) : rows[k] = h
        <5>1. Len(rows) # PageSize + 1
          BY <1>m, <1>18, Zenon
        <5> QED
          BY <1>2, <3>1, <5>1
      <4>2. k \in DOMAIN part /\ part[k] = h
        BY <1>9, <1>18, <4>1
      <4> QED
        BY <1>13, <4>2
    <3>2. CASE h \notin below
      BY <1>4, <1>14, <1>15, <3>2
    <3> QED
      BY <3>1, <3>2
  <2>2. page'.had \subseteq Shown'
    BY <1>16, <2>1 DEF Shown
  <2> QED
    BY <1>7, <1>12, <1>15, <1>16, <1>17, <1>18, <2>2 DEF PageInv
<1>19. CASE more
  <2>0. /\ PageSize \in 1..Len(rows) /\ PageSize \in DOMAIN part
        /\ part[PageSize] = rows[PageSize] /\ rows[PageSize] \in below
        /\ rows[PageSize] \in Nat \ {0}
    BY <1>1, <1>3, <1>8, <1>9, <1>m, <1>19
  <2>1. \A i \in DOMAIN part : rows[PageSize] <= part[i]
    <3>1. \A i \in DOMAIN part : part[i] \in Nat /\ (i < PageSize => rows[i] > rows[PageSize])
      BY <1>1, <1>2, <1>9, <2>0
    <3>2. \A i \in DOMAIN part : i = PageSize \/ i < PageSize
      BY <1>1, <1>9, <1>19
    <3> QED
      BY <1>9, <2>0, <3>1, <3>2
  <2>2. \A i \in DOMAIN from.shown : rows[PageSize] <= from.shown[i]
    BY <1>1, <1>11, <2>0
  <2>3. \A i \in DOMAIN shown : rows[PageSize] <= shown[i]
    BY <1>13, <2>1, <2>2
  <2>4. ASSUME NEW h \in from.had, rows[PageSize] <= h
        PROVE  \E k \in DOMAIN shown : shown[k] = h
    <3>1. CASE h \in below
      <4>0. h \in Nat
        BY <1>3, <3>1
      <4>1. PICK k \in 1..Len(rows) : rows[k] = h
        BY <1>2, <2>0, <2>4, <3>1, <4>0
      <4>2. k <= PageSize
        BY <1>1, <1>2, <2>0, <2>4, <4>0, <4>1
      <4>3. k \in DOMAIN part /\ part[k] = h
        BY <1>1, <1>9, <1>19, <4>1, <4>2
      <4> QED
        BY <1>13, <4>3
    <3>2. CASE h \notin below
      BY <1>4, <1>14, <1>15, <3>2
    <3> QED
      BY <3>1, <3>2
  <2>5. \A h \in page'.had : page'.before <= h => h \in Shown'
    BY <1>16, <1>19, <2>4 DEF Shown
  <2> QED
    BY <1>7, <1>12, <1>15, <1>16, <1>17, <1>19, <2>0, <2>3, <2>5 DEF PageInv
<1> QED
  BY <1>18, <1>19

\* Rows are only added to the two lists.
LEMMA IdsGrow ==
    ASSUME JobInv, [DutyNext]_dutyVars, NEW list
    PROVE  Ids(list) \subseteq Ids(list)'
<1>1. log \subseteq log'
  <2>1. ASSUME NEW r \in AdminReqs, AdminStep(r) PROVE log \subseteq log'
    BY <2>1 DEF AdminStep, AdminStarts, AdminAnswers, RecordActivity, AdminReturns,
                TakeId, StoreActivity, LoseActivity
  <2>2. ASSUME \/ NextPage
               \/ \E l \in {"log", "inbox"} : FirstPage(l)
               \/ UNCHANGED dutyVars \/ UNCHANGED logVars
        PROVE  log \subseteq log'
    BY <2>2 DEF NextPage, FirstPage, dutyVars, logVars
  <2>3. OtherWork => UNCHANGED logVars
    BY DEF OtherWork
  <2> QED
    BY <2>1, <2>2, <2>3 DEF DutyNext
<1>2. DOMAIN inbox \subseteq DOMAIN inbox'
  <2>1. ASSUME NEW s \in Students, SaveHistory(s)
        PROVE  DOMAIN inbox \subseteq DOMAIN inbox'
    <3>1. inbox' = Append(inbox, s) \/ inbox' = inbox
      BY <2>1 DEF SaveHistory
    <3> QED
      BY <3>1 DEF JobInv
  <2>2. ASSUME NEW how, Ends(how) PROVE UNCHANGED inbox
    BY <2>2 DEF Ends
  <2>3. ASSUME AbsenceStep, \A s \in Students : ~SaveHistory(s) PROVE UNCHANGED inbox
    BY <2>2, <2>3 DEF AbsenceStep, StartAbsences, SkipDay, CheckDay, QueryAbsent,
                      BreakOff, SendPush, FinishJob, SkipRow, PushEnds
  <2>4. ASSUME DayStep PROVE UNCHANGED inbox
    BY <2>4 DEF DayStep, CloseOrOpen, Punch, CreateLeave, CancelLeave, Withdraw,
                DayChanges, jobVars
  <2>5. ASSUME NEW r \in AdminReqs, AdminStep(r) PROVE UNCHANGED inbox
    BY <2>5 DEF AdminStep, AdminStarts, AdminAnswers, RecordActivity, AdminReturns,
                TakeId, StoreActivity, LoseActivity, absenceVars, jobVars
  <2>6. ASSUME \/ NextPage
               \/ \E l \in {"log", "inbox"} : FirstPage(l)
               \/ OtherWork \/ UNCHANGED dutyVars \/ UNCHANGED jobVars
        PROVE  UNCHANGED inbox
    BY <2>6 DEF NextPage, FirstPage, OtherWork, dutyVars, absenceVars, jobVars
  <2> QED
    BY <2>1, <2>3, <2>4, <2>5, <2>6 DEF DutyNext
<1>3. CASE list = "log"
  BY <1>1, <1>3 DEF Ids
<1>4. CASE list # "log"
  BY <1>2, <1>4 DEF Ids
<1> QED
  BY <1>3, <1>4

\* What is known of the client's pages is kept by every step of the process.
LEMMA PageStep ==
    ASSUME JobInv, AdminInv, PageInv, [DutyNext]_dutyVars
    PROVE  PageInv'
<1>1. ASSUME NEW list \in {"log", "inbox"}, FirstPage(list) PROVE PageInv'
  <2> DEFINE from == [NoPage EXCEPT !.had = Ids(list)]
  <2>1. /\ NoPage \in [list : {"none", "log", "inbox"}, before : Nat, shown : Seq(Nat),
                       had : SUBSET Nat, more : BOOLEAN]
        /\ NoPage.before = 0 /\ NoPage.shown = <<>>
    <3>1. FALSE \in BOOLEAN /\ <<>> \in Seq(Nat) /\ 0 \in Nat
      OBVIOUS
    <3> QED
      BY <3>1 DEF NoPage
  <2>2. Ids(list) \in SUBSET Nat
    BY IdsBounded
  <2>3. /\ from \in [list : {"none", "log", "inbox"}, before : Nat, shown : Seq(Nat),
                     had : SUBSET Nat, more : BOOLEAN]
        /\ from.before = 0 /\ from.shown = <<>> /\ from.had = Ids(list)
    BY <2>1, <2>2
  <2>5. ShowPage(list, from) /\ UNCHANGED <<log, inbox>>
    BY <1>1 DEF FirstPage, absenceVars, jobVars, logVars
  <2> HIDE DEF from
  <2>6. Cursor(list, from)
    BY <2>3 DEF Cursor
  <2> QED
    BY <2>5, <2>6, ShowKeeps
<1>2. ASSUME NextPage PROVE PageInv'
  <2>1. page.more /\ ShowPage(page.list, page) /\ UNCHANGED <<log, inbox>>
    BY <1>2 DEF NextPage, absenceVars, jobVars, logVars
  <2>2. page.list \in {"log", "inbox"}
    BY <2>1 DEF PageInv
  <2>3. Cursor(page.list, page)
    BY <2>1, <2>2 DEF Cursor, PageInv, Shown
  <2> QED
    BY <2>1, <2>2, <2>3, ShowKeeps
<1>3. ASSUME UNCHANGED page PROVE PageInv'
  <2>1. Ids(page.list) \subseteq Ids(page.list)' /\ Shown' = Shown
    BY <1>3, IdsGrow DEF Shown
  <2> QED
    BY <1>3, <2>1 DEF PageInv
<1>4. ASSUME NEW r \in AdminReqs, AdminStep(r) PROVE UNCHANGED page
  BY <1>4 DEF AdminStep, AdminStarts, AdminAnswers, RecordActivity, AdminReturns,
              TakeId, StoreActivity, LoseActivity
<1>5. (OtherWork \/ UNCHANGED dutyVars) => UNCHANGED page
  BY DEF OtherWork, dutyVars
<1> QED
  BY <1>1, <1>2, <1>3, <1>4, <1>5 DEF DutyNext

-----------------------------------------------------------------------------

LEMMA DutyInitOK == DutyInit => DutyInv
<1> SUFFICES ASSUME DutyInit PROVE DutyInv
  OBVIOUS
<1>1. ShutdownInv
  <2>0. Init
    BY DEF DutyInit, AbsenceInit
  <2> QED
    BY <2>0, ShutdownInit
<1>2. JobInv /\ OnlyAbsentAreTold
  <2>1. /\ job = [pc |-> "none", rows |-> {}, row |-> {}] /\ inbox = <<>>
        /\ missed = {} /\ pushing = {} /\ enrolled = Students /\ jobs = 0
        /\ history = [throughout |-> {}, ever |-> {}]
    BY DEF DutyInit, AbsenceInit, Init, NoRow
  <2>2. Told = {}
    BY <2>1 DEF Told
  <2> QED
    BY <2>1, <2>2 DEF JobInv, OnlyAbsentAreTold, JobPcs, JobBusy, BeforeLoop
<1>3. AdminInv
  <2>1. /\ admin = [r \in AdminReqs |-> [pc |-> "none", kind |-> "read", id |-> 0]]
        /\ lastId = 0 /\ log = {} /\ lost = {} /\ pushing = {}
        /\ requests = 0 /\ running = 0 /\ exit = "none"
    BY DEF DutyInit, AbsenceInit, Init, GroupInit, NoReq
  <2>2. Open = {} /\ Pending = {}
    BY <2>1 DEF Open, Pending, InsertPending
  <2> QED
    BY <2>1, <2>2, FS_EmptySet DEF AdminInv, ReqPcs, ReqKinds
<1>4. PageInv
  <2>1. page = [list |-> "none", before |-> 0, shown |-> <<>>, had |-> {},
                more |-> FALSE]
    BY DEF DutyInit, NoPage
  <2>2. FALSE \in BOOLEAN /\ <<>> \in Seq(Nat) /\ 0 \in Nat
    OBVIOUS
  <2> QED
    BY <2>1, <2>2 DEF PageInv
<1> QED
  BY <1>1, <1>2, <1>3, <1>4 DEF DutyInv

\* The inductive invariant of the process and what it owes.
LEMMA DutySafe == DutySpec => []DutyInv
<1>1. DutyInv /\ [DutyNext]_dutyVars => DutyInv'
  <2> SUFFICES ASSUME DutyInv, [DutyNext]_dutyVars PROVE DutyInv'
    OBVIOUS
  <2>1. ShutdownInv'
    BY DutyStepsRefine, ShutdownKeeps DEF DutyInv
  <2>2. TypeOK
    BY DEF DutyInv, ShutdownInv
  <2> QED
    BY <2>1, <2>2, JobStep, AdminStepKeeps, PageStep DEF DutyInv
<1> QED
  BY <1>1, DutyInitOK, PTL DEF DutySpec

\* However many students there are, and however their day changes while
\* ProcessDailyAbsences goes through its list: whoever was absent throughout
\* is told unless their own row failed, nobody is told who was never absent,
\* and nobody twice.
THEOREM AbsencesSafe == DutySpec => [](AbsentAreTold /\ OnlyAbsentAreTold)
<1>1. DutyInv => AbsentAreTold /\ OnlyAbsentAreTold
  BY DEF DutyInv, JobInv, AbsentAreTold, Owed
<1> QED
  BY <1>1, DutySafe, PTL

\* A process that exits cleanly has nothing left to do, however many admin
\* requests and pushes were under way: the job is over, no push is running and
\* every recorded request is in the activity log or its own insert failed.
THEOREM CleanExitSafe == DutySpec => []CleanExitOwesNothing
<1>1. DutyInv => CleanExitOwesNothing
  <2> SUFFICES ASSUME DutyInv, exit = "ok"
               PROVE  /\ job.pc \in {"none", "done", "skipped", "broken"}
                      /\ pushing = {}
                      /\ \A r \in AdminReqs :
                           admin[r].pc # "none" /\ Recorded(admin[r].kind) =>
                             r \in lost \/ \E x \in log : x.req = r
    BY DEF CleanExitOwesNothing
  <2>1. requests = 0 /\ jobs = 0 /\ running = 0
    BY DEF DutyInv, AdminInv, ShutdownInv, DatabaseOutlivesWork, Idle
  <2>2. job.pc \in {"none", "done", "skipped", "broken"}
    BY <2>1 DEF DutyInv, JobInv, JobPcs, JobBusy
  <2>3. Open = {} /\ pushing = {} /\ Pending = {}
    <3>1. /\ Cardinality(Open) \in Nat /\ Cardinality(pushing) \in Nat
          /\ Cardinality(Pending) \in Nat
      BY FS_CardinalityType DEF DutyInv, AdminInv
    <3>2. Cardinality(Open) = 0 /\ Cardinality(pushing) = 0 /\ Cardinality(Pending) = 0
      BY <2>1, <3>1 DEF DutyInv, AdminInv
    <3> QED
      BY <3>2, FS_EmptySet DEF DutyInv, AdminInv
  <2>4. ASSUME NEW r \in AdminReqs, admin[r].pc # "none", Recorded(admin[r].kind)
        PROVE  r \in lost \/ \E x \in log : x.req = r
    <3>1. admin[r].pc \in ReqPcs
      BY DEF DutyInv, AdminInv
    <3>2. admin[r].pc = "inserting"
      BY <2>3, <2>4, <3>1 DEF DutyInv, AdminInv, Open, ReqPcs
    <3> QED
      BY <2>3, <2>4, <3>2 DEF Pending, InsertPending
  <2> QED
    BY <2>2, <2>3, <2>4
<1> QED
  BY <1>1, DutySafe, PTL

\* For lists of any length and pages of any size, whatever is added between
\* two pages: reading on to the end shows every row that was there at the
\* beginning, newest first and none twice.
THEOREM PagesSafe == DutySpec => []PagesMissNothing
<1>1. DutyInv => PagesMissNothing
  BY DEF DutyInv, PageInv, PagesMissNothing, Shown
<1> QED
  BY <1>1, DutySafe, PTL
=============================================================================
