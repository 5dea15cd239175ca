----------------------------- MODULE Schedules -----------------------------
(***************************************************************************)
(* Weekly schedules (internal/handlers/admin.go and schedule_excel.go): an *)
(* admin replaces a class's schedule with a form, or those of all classes  *)
(* of an Excel workbook, checked as a whole or tried out with dry_run; and *)
(* exports a class as a workbook.                                          *)
(*                                                                         *)
(* Texts are abstracted to numbers, 0 when blank; what a cell's number     *)
(* format does to a grade or a section is left out, and so are the answers *)
(* that list a workbook's problems: it has some, or none.                  *)
(***************************************************************************)
EXTENDS Forms

CONSTANTS
    Requests,         \* requests served at once
    Classes,          \* <<grade, section>>
    WeekNames,        \* schoolWeek: the stored name of each school day
    Rank,             \* weekdayRankSQL of every name of a day, 0 when it is
                      \* not a school day
    MinDayPeriods, MaxPeriodNumber,
    Columns,          \* the columns of a workbook
    ReportHeaderRow,  \* where an export has its header
    HeaderMinMatches, HeaderSearchRows,
    MaxImportRows, MaxImportClasses,
    PartLimits,       \* scheduleImportPartLimits
    Lists,            \* what the form may send: sequences of periods
    Uploads,          \* the bodies an import may send
    OldSchedules,     \* what may be stored from before the rules
    MaxRequests,      \* bound: requests begun
    MaxEvents,        \* bound: failures, and classes that gain or lose their
                      \* last active student
    Workloads         \* the kinds of requests that are sent together

Days == DOMAIN WeekNames
Period == [day : DOMAIN Rank, period : Nat, subject : Nat, teacher : Nat]
Row == [class : Classes, day : DOMAIN Rank, period : Nat, subject : Nat,
        teacher : Nat]

ASSUME SchedulesAssumption ==
    /\ {MinDayPeriods, MaxPeriodNumber, HeaderMinMatches, HeaderSearchRows,
        MaxImportRows, MaxImportClasses, MaxRequests, MaxEvents} \subseteq Nat
    /\ WeekNames \in Seq(DOMAIN Rank)
    /\ \A name \in DOMAIN Rank : Rank[name] \in Days \cup {0}
    /\ \A d \in Days : Rank[WeekNames[d]] = d
    /\ \A list \in Lists : list \in Seq(Period)
    /\ \A old \in OldSchedules : old \subseteq Row
    /\ Classes \subseteq Nat \X Nat
    /\ IsFiniteSet(Columns) /\ HeaderMinMatches <= Cardinality(Columns)
    /\ ReportHeaderRow \in 1..HeaderSearchRows
    /\ MaxImportClasses > 0
    /\ Len(WeekNames) * MaxPeriodNumber <= MaxImportRows

VARIABLES
    workload,       \* the requests of this behaviour
    schedule,       \* weekly_schedules
    taught,         \* the classes of active students
    req,            \* each request's transaction
    latest,         \* history: what was last saved for each class
    replaced,       \* history: the classes saved since the start
    begun, events   \* requests begun, and other events

counters == <<begun, events>>
timetable == <<schedule, latest, replaced>>
vars == <<workload, timetable, taught, req, counters>>

Idle == [kind |-> "none", pc |-> "idle", input |-> {}, work |-> {}]

StoredFor(class) == {row \in schedule : row.class = class}

ScheduleTypeOK ==
    /\ schedule \subseteq Row /\ taught \subseteq Classes
    /\ DOMAIN latest = Classes /\ replaced \subseteq Classes
    /\ begun \in 0..MaxRequests /\ events \in 0..MaxEvents

ScheduleInit ==
    /\ workload \in Workloads
    /\ schedule \in OldSchedules
    /\ latest = [class \in Classes |-> StoredFor(class)]
    /\ replaced = {} /\ taught = Classes
    /\ req = [r \in Requests |-> Idle]
    /\ begun = 0 /\ events = 0

Happens == events < MaxEvents /\ events' = events + 1

\* A request arrives.
Accepts(r, kind) ==
    /\ kind \in workload /\ req[r].pc = "idle"
    /\ begun < MaxRequests /\ begun' = begun + 1

Goes(r, rec) == req' = [req EXCEPT ![r] = rec]

Done(r) == Goes(r, Idle)

-----------------------------------------------------------------------------
(* What is accepted                                                        *)

\* canonicalSchoolDay, of a name that is one.
Canonical(name) == WeekNames[Rank[name]]

\* dayPeriodsProblem, of numbers that are all different.
DayPeriodsProblem(numbers) ==
    ~\E n \in MinDayPeriods..MaxPeriodNumber : numbers = 1..n

\* What the form requires of every row, and of a class's rows together; two
\* names of the same day are the same day.
PeriodOK(p) ==
    /\ p.day \in DOMAIN Rank /\ Rank[p.day] # 0
    /\ p.period \in 1..MaxPeriodNumber /\ p.subject # 0

Twice(p, q) == Rank[p.day] = Rank[q.day] /\ p.period = q.period

WeekOK(rows) ==
    /\ \A i \in DOMAIN rows : PeriodOK(rows[i])
    /\ \A i, j \in DOMAIN rows : i # j => ~Twice(rows[i], rows[j])
    /\ \A d \in Days :
         LET numbers == {rows[i].period :
                           i \in {j \in DOMAIN rows : Rank[rows[j].day] = d}}
         IN  numbers # {} => ~DayPeriodsProblem(numbers)

\* The row that is stored for a period of a class.
Stored(class, p) ==
    [class |-> class, day |-> Canonical(p.day), period |-> p.period,
     subject |-> p.subject, teacher |-> p.teacher]

StoredRows(class, rows) == {Stored(class, rows[i]) : i \in DOMAIN rows}

\* The numbers of a day are not looked at.
MutValidateScheduleRequest(periods) ==
    /\ \A i \in DOMAIN periods : PeriodOK(periods[i])
    /\ \A i, j \in DOMAIN periods : i # j => ~Twice(periods[i], periods[j])

ValidateScheduleRequest(periods) ==
    Len(periods) <= Len(WeekNames) * MaxPeriodNumber /\ WeekOK(periods)

-----------------------------------------------------------------------------
(* The workbook: sheets with the place of their header row, the columns    *)
(* found in it and those found twice, and the rows below it by their       *)
(* places.  An unreadable file, or one that unpacks to too much, is <<>>.  *)

HeaderFound(sheet) ==
    /\ sheet.at <= HeaderSearchRows
    /\ Cardinality(sheet.found) >= HeaderMinMatches

HeaderComplete(sheet) == sheet.found = Columns /\ sheet.twice = {}

Skipped(row) == row.subject = 0 /\ row.teacher = 0

\* The rows that are read, by sheet and place.
DataRows(book) ==
    LET read(i) == {j \in DOMAIN book[i].rows : ~Skipped(book[i].rows[j])}
        places == UNION {{i} \X read(i) :
                           i \in {i \in DOMAIN book : HeaderFound(book[i])}}
    IN  [p \in places |-> book[p[1]].rows[p[2]]]

ClassesOf(rows) == {rows[i].class : i \in DOMAIN rows}

OfClass(rows, class) ==
    Restrict(rows, {p \in DOMAIN rows : rows[p].class = class})

\* The import has the same rules in code of its own, row by row and then day
\* by day.
ValidScheduleRow(row) ==
    /\ row.subject # 0 /\ row.period \in 1..MaxPeriodNumber
    /\ row.day \in DOMAIN Rank /\ Rank[row.day] # 0

ImportWeekOK(rows) ==
    LET on(d) == {i \in DOMAIN rows : Rank[rows[i].day] = d}
    IN  /\ \A i \in DOMAIN rows : ValidScheduleRow(rows[i])
        /\ \A d \in Days :
             /\ \A i, j \in on(d) : rows[i].period = rows[j].period => i = j
             /\ on(d) # {} =>
                  ~DayPeriodsProblem({rows[i].period : i \in on(d)})

\* readScheduleWorkbook without a message and without problems.  A formula
\* without a saved value is a problem also in a row that is skipped.
WorkbookOK(book, only) ==
    LET sheets == {i \in DOMAIN book : HeaderFound(book[i])}
        rows == DataRows(book)
    IN  /\ sheets # {}
        /\ \A i \in sheets :
             /\ HeaderComplete(book[i])
             /\ \A j \in DOMAIN book[i].rows : ~book[i].rows[j].formula
        /\ Cardinality(DOMAIN rows) <= MaxImportRows
        /\ \A i \in DOMAIN rows : rows[i].class \in Classes
        /\ only # <<>> => ClassesOf(rows) = {only}
        /\ Cardinality(ClassesOf(rows)) <= MaxImportClasses
        /\ \A class \in ClassesOf(rows) : ImportWeekOK(OfClass(rows, class))

Imported(book) ==
    LET rows == DataRows(book)
    IN  UNION {StoredRows(class, OfClass(rows, class)) :
                 class \in ClassesOf(rows)}

\* scheduleClassesSQL
KnownClass(class) == class \in taught \/ StoredFor(class) # {}

\* The workbook of AdminScheduleExportHandler: a row for every period of the
\* school week, blank where none is stored.  Of two names of a day one is
\* shown.
Grid(class, d, n) ==
    LET there == {row \in StoredFor(class) :
                    Rank[row.day] = d /\ row.period = n}
        row == CHOOSE row \in there : TRUE
    IN  [class |-> class, day |-> WeekNames[d], period |-> n,
         subject |-> IF there = {} THEN 0 ELSE row.subject,
         teacher |-> IF there = {} THEN 0 ELSE row.teacher,
         formula |-> FALSE]

Export(class) ==
    <<[at |-> ReportHeaderRow, found |-> Columns, twice |-> {},
       rows |-> [p \in Days \X (1..MaxPeriodNumber) |->
                   Grid(class, p[1], p[2])]]>>

-----------------------------------------------------------------------------
(* Saving                                                                  *)

\* What a request is to store, and which classes it replaces.
Writes(todo, rows, dry) ==
    [kind |-> "schedule", pc |-> "lock",
     input |-> [todo |-> todo, rows |-> rows, dry |-> dry],
     work |-> [todo |-> todo, doomed |-> {}, added |-> {}]]

BeginSchedule(r) ==
    /\ Accepts(r, "form")
    /\ \E class \in Classes, periods \in Lists :
         IF ValidateScheduleRequest(periods)
         THEN Goes(r, Writes({class}, StoredRows(class, periods), FALSE))
         ELSE Done(r)
    /\ UNCHANGED <<workload, timetable, taught, events>>

\* importClassGuard: neither part, or both, and a class.
ClassGuard(parts) ==
    /\ Sent(parts, "grade") <=> Sent(parts, "section")
    /\ Sent(parts, "grade") => 0 \notin {PartValue(parts, "grade", 0),
                                         PartValue(parts, "section", 0)}

Only(parts) ==
    IF Sent(parts, "grade")
    THEN <<PartValue(parts, "grade", 0), PartValue(parts, "section", 0)>>
    ELSE <<>>

BeginImport(r) ==
    /\ Accepts(r, "import")
    /\ \E parts \in Uploads :
         LET book == PartValue(parts, "file", <<>>)
             dry == PartValue(parts, "dry_run", "false")
         IN  IF /\ ReadFormParts(parts, PartLimits)
                /\ dry \in {"true", "false"}
                /\ ClassGuard(parts)
                /\ WorkbookOK(book, Only(parts))
             THEN Goes(r, Writes(ClassesOf(DataRows(book)), Imported(book),
                                 dry = "true"))
             ELSE Done(r)
    /\ UNCHANGED <<workload, timetable, taught, events>>

\* ROW EXCLUSIVE, which the statements take anyway, does not exclude itself.
MutCanLockSchedules(r) == TRUE

\* SHARE ROW EXCLUSIVE excludes itself, and no reader.
CanLockSchedules(r) ==
    \A u \in Requests \ {r} :
        req[u].kind = "schedule" => req[u].pc \in {"idle", "lock"}

LockSchedules(r) ==
    /\ req[r].kind = "schedule" /\ req[r].pc = "lock"
    /\ CanLockSchedules(r)
    /\ Goes(r, [req[r] EXCEPT !.pc = "replace"])
    /\ UNCHANGED <<workload, timetable, taught, counters>>

\* Classes are replaced in the order of their grade and section.
Before(c, d) == c[1] < d[1] \/ (c[1] = d[1] /\ c[2] < d[2])

FirstOf(classes) == CHOOSE c \in classes : \A d \in classes \ {c} : Before(c, d)

\* replaceClassSchedule: the DELETE of the rows its snapshot shows, and the
\* INSERTs.
ReplaceClassSchedule(r) ==
    LET rec == req[r]
        class == FirstOf(rec.work.todo)
    IN  /\ rec.kind = "schedule" /\ rec.pc = "replace"
        /\ rec.work.todo # {}
        /\ Goes(r, [rec EXCEPT
             !.work.todo = @ \ {class},
             !.work.doomed = @ \cup StoredFor(class),
             !.work.added = @ \cup {row \in rec.input.rows :
                                      row.class = class}])
        /\ UNCHANGED <<workload, timetable, taught, counters>>

\* A dry run returns without its COMMIT.
EndReplace(r) ==
    /\ req[r].kind = "schedule" /\ req[r].pc = "replace"
    /\ req[r].work.todo = {}
    /\ IF req[r].input.dry THEN Done(r)
       ELSE Goes(r, [req[r] EXCEPT !.pc = "commit"])
    /\ UNCHANGED <<workload, timetable, taught, counters>>

CommitSchedule(r) ==
    LET rec == req[r]
    IN  /\ rec.kind = "schedule" /\ rec.pc = "commit"
        /\ schedule' = (schedule \ rec.work.doomed) \cup rec.work.added
        /\ latest' = [class \in Classes |->
             IF class \in rec.input.todo
             THEN {row \in rec.input.rows : row.class = class}
             ELSE latest[class]]
        /\ replaced' = replaced \cup rec.input.todo
        /\ Done(r)
        /\ UNCHANGED <<workload, taught, counters>>

\* A statement fails, or the client goes away.
Abort(r) ==
    /\ req[r].pc # "idle" /\ Happens /\ Done(r)
    /\ UNCHANGED <<workload, timetable, taught, begun>>

\* The last active student of a class leaves it, or one comes back.
EditTaught(class) ==
    /\ "form" \in workload /\ Happens
    /\ taught' = IF class \in taught THEN taught \ {class}
                 ELSE taught \cup {class}
    /\ UNCHANGED <<workload, timetable, req, begun>>

\* The requests of the bound have been answered.
Answered ==
    begun = MaxRequests /\ (\A r \in Requests : req[r] = Idle) /\ UNCHANGED vars

ScheduleStep(r) ==
    \/ BeginSchedule(r) \/ BeginImport(r) \/ LockSchedules(r)
    \/ ReplaceClassSchedule(r) \/ EndReplace(r) \/ CommitSchedule(r)
    \/ Abort(r)

ScheduleNext ==
    \/ \E r \in Requests : ScheduleStep(r)
    \/ \E class \in Classes : EditTaught(class)
    \/ Answered

-----------------------------------------------------------------------------

\* A class has the schedule somebody saved last, whole: however the form and
\* imports of several classes overlap, fail or are tried out, rows of two of
\* them never mix, none is lost and none is there twice.
SavesAreWhole == \A class \in Classes : StoredFor(class) = latest[class]

\* What the rules have let in, by the form or by a workbook, can be exported
\* and imported again with the same result: the two accept the same weeks,
\* and the grid of the export loses and adds nothing.
ExportRoundTrip ==
    \A class \in replaced :
        KnownClass(class) /\ StoredFor(class) # {} =>
            /\ WorkbookOK(Export(class), class)
            /\ Imported(Export(class)) = StoredFor(class)
=============================================================================
