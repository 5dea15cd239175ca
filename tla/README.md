# Future Kids: a TLA+ model of the school server

The repository is the Go server of a school: attendance devices push punches to
it, parents read attendance, notices and balances in a mobile app, and admins
manage students, teachers, money and closures in a web panel.  All state that
outlives a request is in PostgreSQL, except the login limiters and the group of
background goroutines, which live in the process.

Handlers run concurrently, one goroutine per request.  Every transaction is
READ COMMITTED, so correctness rests on row locks (`FOR UPDATE`, `FOR SHARE`),
table locks, unique indexes and the order of statements.  That is what the
models keep; names, texts, formats and layout are abstracted away.

## Parts of the system

| Part | State | Operations | Hard because | Module |
|---|---|---|---|---|
| Login limiter (`internal/ratelimit`) | map of keys to start, failures, in-flight slots; last sweep | Allow, Finish | concurrent verdicts, sweeps, a full map | `LoginLimiter` |
| Admins' login (`handlers/admin.go`, `middleware.go`) | two limiters, password and session version | login, rotation, session check | two slots to give back on every path; rotation during a login | `AdminLogin` |
| Parents' login and PINs (`mobile.go`, `parent_account.go`) | one limiter by phone, PIN, session version | login, account deletion, PIN change | two handlers share a limiter; rows replaced under a request | `ParentLogin` |
| Parent accounts (`mobile.go`, `parent_account.go`, `admin.go`) | parents, device tokens, students' parents | register and remove a token, push switch, deletion, student save | transactions that meet only in row locks | `ParentAccount` |
| Background group (`internal/background`) | running count, idle channel | Go, return, Wait | wake-up of the waiter | `Background` |
| Shutdown (`cmd/api/main.go`) | phase, deadline, pool | drain HTTP, cron, background; close | order, deadline racing the last return | `Shutdown` |
| Tuition (`tuition.go`) | fees, accounts, payments, current year | fee, re-pricing, discount, payment, void, year switch | concurrent money, stale year | `Tuition` |
| Attendance (`hardware.go`, `manual_attendance.go`, `attendance.go`) | device buffer, logs, announcements | batch, JSON push, manual entry, deletion | resends, crashes, duplicates, poison records | `Attendance` |
| Broadcasts (`broadcasts.go`, `internal/notify`) | broadcasts, notifications, pushes | create, push in batches | double sends, recipients vanishing, failed batches | `Broadcasts` |
| Closures (`holidays.go`) | closures, their notices | register, cancel | overlapping dates, midnight, a broadcast inside | `Closures` |
| Device tags (`admin.go`, `teachers.go`) | tags of students and of teachers | create, update, suggestion | one number space over two tables | `DeviceTags` |
| Absence job and leaves (`internal/cron`, `admin.go`, `internal/notify`) | punches, leaves and closures of the day, notifications | the noon job, a leave recorded or cancelled | one query, then a walk through its rows while the day changes; no record of how far it came | `AbsenceJob` |
| Activity log and lists (`activity.go`, `mobile.go`) | the log, the pages a client has read | record a request after its answer, read page by page | written by a goroutine that outlives the handler; page boundaries | `ActivityLog` |
| Expenses (`expenses.go`) | categories, expenses | category, expense, void, report | the year switched meanwhile; a report of several statements | `Expenses` |
| Schedules (`admin.go`, `schedule_excel.go`) | a class's weekly periods | form, import, dry run, export | several writers of several classes; the same rules written twice | `Forms`, `Schedules` |
| Banners (`banners.go`, `mobile.go`) | banners, pictures, clients' copies | create, change parts, delete, list, load | partial updates at once; a cached picture and its checksum | `Forms`, `Banners` |
| Settings, read flags, reports, configuration, migrations, tools | — | — | reads, single-row writes or one-shot tools | not modelled |

Interactions: `Shutdown` extends `Background`, whose `Go` is what requests and
jobs call; `AbsenceJob` and `ActivityLog` extend it in turn with the work that
is under way when the process is told to stop.  `Expenses` extends `Tuition`:
both hold the same setting, the academic year, and the report adds up both.
`Banners` extends `Schedules`, and both read their bodies with `Forms`, as one
server takes both kinds of upload.  `Closures` extends `Broadcasts`: a closure sends its notice from its
own transaction, through the same locks, and both kinds of request run in one
next-state relation.  `AdminLogin` and `ParentLogin` instantiate `LoginLimiter`;
`LimiterClock` declares the clock and the parameters that every limiter has, and
`Logins` the state that both logins have in common.
The attendance, account, tuition and tag modules share tables; each models the
columns its properties are about and, of the other writers, the statements that
touch those columns (`Tuition!MoveStudent` and `ParentAccount!WriteStudent` are
two views of the same student update).

PROJECT.json lists every component, and under `hazards` the places where this
code can go wrong in a way a test hardly reaches, with the properties for each.

## How the code is modelled

*Transactions.*  A request is a record with a program counter.  A transaction is
split at every statement where another one can come in between.  A statement
that waits for a lock is an action whose guard is that the lock is free.  Writes
stay in the record until the commit action applies them; a transaction may be
rolled back at any point before it.

*In-process state.*  A critical section under a mutex is one action.

*Constants* are small sets and bounds; the bounds are the constants whose names
start with `Max` and are marked `bound:`.  `DuplicateWait`, `Window` and the
like are the code's constants scaled down to a few ticks.

*Workloads.*  Where a module has many kinds of requests, `workload` is chosen in
the initial state among the constant `Workloads`: the kinds of requests and
events that meet in this behaviour.  One run then checks several mixtures, each
small enough to be explored completely.

*Definitions named `Mut...`* are plausible bugs of the definition that follows
them.  No specification uses one; each is there to show that a property notices
it.

Correspondence by module (line numbers are in PROJECT.json):

- **LoginLimiter**: `Allow` is three actions by answer (`AllowGranted`,
  `AllowLocked`, `AllowFull`), all starting from `Map`, the map after the
  periodic and the forced sweep.  `reserved` is the callers' side of the
  contract "every successful Allow must be paired with exactly one Finish".
- **AdminLogin**, **ParentLogin**: the contract's other half.  The slots in use
  are *computed* from the handlers' program counters and substituted for
  `reserved`, so "implements `LoginLimiter!Spec`" says that the handlers return
  every slot once on every path.  `tokens` remembers with which secret each
  session was opened; `AdminAccepted` and `ParentAccepted` are the middlewares'
  tests.
- **ParentAccount**: `locks` holds share and update locks of parents, tokens and
  students.  A delete locks the rows it found, then applies at its commit.
- **Background**, **Shutdown**: `pc` walks through `http`, `cron`, `bg`;
  `Deadline` may fire at any moment of a shutdown, `Kill` is the second signal.
- **Tuition**: `ShareYear` resolves and share-locks the year; `LockAccount`
  creates or locks the account; `CheckWrite` and `CommitWrite` follow.  A
  re-pricing is `SelectAccounts`, `LockAccounts`, `CheckAccounts`,
  `UpdateAccounts`, `CommitFee`; a switch is `LockYear`, `FreezeYear`,
  `CommitYear`.
- **AbsenceJob**: `CheckDay`, `QueryAbsent`, then per row `SaveHistory` and
  `SendPush`, with `SkipRow` and `BreakOff` for rows and queries that fail.  The
  job *is* the cron job of `Shutdown` (`StartAbsences` is a `JobStarts`, `Ends` a
  `JobReturns`) and a push one of its background goroutines, so every step of it
  meets every step of a shutdown.  `history` remembers who was absent throughout
  the run and who at some moment of it.
- **ActivityLog**: `AdminStarts`, `AdminAnswers`, `RecordActivity`, `AdminReturns`
  is the middleware; `TakeId` and `StoreActivity` or `LoseActivity` the goroutine.
  `FirstPage` and `NextPage` are single statements, of the log or of a parent's
  notifications.
- **Expenses**: the three statements of the report are `SumCategories`,
  `SumMonths` and `SumCollected`, each of what is committed when it runs.
- **Forms**: a body is the sequence of its parts with their sizes;
  `ReadFormParts` says whether it is taken.
- **Schedules**: `WorkbookOK` is the whole validation of a workbook, `Imported`
  the rows it stores, `Export` the workbook that is written.  A row of a sheet is
  known by its place: its number, and in an export the day and period it is
  written for, in rows below `ReportHeaderRow`.  The form (`WeekOK`) and the
  import (`ImportWeekOK`) check a week each in their own way, as in the code.  A request locks the
  table, replaces its classes in order, and commits or, as a dry run, does not.
- **Banners**: an update applies its parts to the row its `UPDATE` has locked;
  `lastSent` remembers what was last said of each part, `wanted` the picture a
  client was to see when it last asked.  A phone that reuses its copy within the
  five minutes of `Cache-Control` does not ask.
- **Attendance**: the devices keep `buffer` until a reply; `Send` (or `SendOver`,
  while another request is being served) … `Reply` is one `ADMSHandler`;
  `CommitUnseen` is a commit whose result the server never
  learns, `ReplyLost` a reply the device never gets, `VerifyFails` a lookup of
  the device that fails for good and is acknowledged.  The JSON push has a path
  of its own between `JsonSend` and `Reply`: `JsonAuthorize` is the middleware,
  `JsonRejected` the 400, 403 and 500 replies of the handler, `JsonStore` and
  `JsonUnseen` its one statement.  Requests are interchangeable, so a new one
  takes the `CHOOSE`n free name.
- **Broadcasts**: `LockBroadcasts`, `CheckDuplicate`, `SelectRecipients`,
  `LockRecipients`, `Commit`; then `ListTokens`, `SendBatch`, `FinishPush` in
  the background.
- **Closures**: the date a request works with is read when it arrives
  (`BeginCreate`, `BeginCancel`), before it waits for the table lock.
- **DeviceTags**: a teacher's write looks at the students first and writes
  later; an update of a student may carry a tag read before.

Modelled from use, not from source: the unique index that makes a second writer
wait, the device's buffer, the HTTP server and cron runner under shutdown,
Firebase as an answer per batch, the clock.

## Runs

`tlc -workers 2 -config X.cfg M` with the pairs below.

| Run | Config | Bounds | Shows |
|---|---|---|---|
| login_limiter | MCLoginLimiter | 3 keys, cap 2, limit 2, window 3, 8 ticks: more than two full windows, forced sweeps | `GuessesBounded`, `LockoutStands` |
| admin_login | MCAdminLogin | 3 logins, 2 at once, a known and an unknown username, one address and an unidentified one, limits of 2, a rotation, a clock of one window | the handler implements both limiters (`UsesLimiters`), `AddressNotForgiven`, `AdminSessionsCurrent` |
| parent_login | MCParentLogin | 4 requests, 2 at once, 2 numbers and a limiter of one key, 2 parents in turn, a PIN change | login and deletion implement one limiter (`UsesLimiter`), `ParentSessionsCurrent`, `DeletedByPin` |
| shutdown | MCShutdown | 2 requests and 3 goroutines at once, 3 students (one with a device, one on leave), one change of the day, 3 admin requests, pages of one row: a list of three rows can get its second or third between two pages; the job against the day, against admin requests and against readers, and the last two against each other | `DatabaseOutlivesWork`, `ShutdownEnds`, `AbsentAreTold`, `OnlyAbsentAreTold`, `CleanExitOwesNothing`, `PagesMissNothing` |
| tuition | MCTuition | 4 requests, 2 at once, one student, 2 grades, 2 years, 2 categories and months, 2 expenses, a move between grades; money against money, expenses and reports, expenses and the year, payments and the report | `OverdrawnOnlyUnchecked`, `PastYearsFrozen`, `SwitchKeepsFigures`, `LedgersKept`, `ExpenseInItsYear`, `SummaryAddsUp` |
| tuition_reprice | MCTuitionReprice | 3 payments or re-pricings | `RemainingNonNegative` **violated** (finding 1) |
| parent_account | MCParentAccount | 2 transactions, 2 parents, 2 tokens, limit 1 | `NothingLeftBehind`, `SignOutClearsTokens` |
| attendance | MCAttendance | 2 device requests, 2 admins, 2 days, four loads of punches (two minutes of a window and a JSON device with another second of the first; a teacher, a rejected record and an oversized batch; a PIN that is not text; a JSON device whose punch is refused), 2 events | `NoPunchLost`, `AnnouncedOnce`, `WindowAnnounced`, `OneManualPerWindow`, `ReadableAcknowledged` |
| adms_garbled | MCAttendanceGarbled | one unreadable PIN, no failures | `AllAcknowledged` **violated** (finding 2) |
| announcements | MCClosures | 2 requests at once, 3 parents of whom 2 have accounts and a device each, batches of one, a duplicate window of 2 ticks, one event; an empty calendar, an endless pause that is running, a holiday of tomorrow; six mixtures of broadcasts, registrations, cancellations, failing pushes, moving devices, time, midnight and a school without parents | `NoRepeat`, `LogIsHonest`, `PushTriesAll`, `ClosuresDisjoint`, `CancelledOnce`, `NoticesExist`, `PastStaysClosed` |
| uploads | MCBanners | 3 requests, 2 at once, one event; 3 classes, a week of 2 days (one with two names) of 1 or 2 periods, forms and workbooks for every rule, stored rows older than the rules; 2 banners, one older than uploads, 2 pictures, a phone and a dashboard | `SavesAreWhole`, `ExportRoundTrip`, `BannerPartsKept`, `AskedIsCurrent` |
| device_tags | MCDeviceTags | 3 requests, 3 students, 2 teachers, 5 tags | `OnePersonPerTag`, `StaffRangeOnlyEmpties` |

Two concurrent requests suffice for most of these races because each needs one
writer between two steps of another; three are used where the code defends
itself with more than one check (tags, limiter slots).  Two keys, parents,
accounts or dates give one that is attacked and one that must stay untouched.
Symmetry is used only for sets whose members no definition tells apart, and in
no run with a liveness property.

Two bounds keep the larger modules finite.  `MaxRequests` (`MaxLogins`) counts
requests begun, of all kinds together, so that a behaviour mixes a few kinds in
every order; `Answered` is the stuttering step of a system that has served them
all, which keeps the deadlock check meaningful before.  `MaxEvents` counts what
disturbs a request: crashes, lost replies, transient errors, overlapping copies
of a batch, an admin's changes.  Two of them in `attendance` are enough for two
manual entries at once, for a lost reply followed by an overlapping resend, or
for a punch during a manual entry and its deletion.

Deadlock is checked everywhere except in `shutdown`, where the process ends.

### Fairness

- *Shutdown*: weak fairness of the main goroutine's steps and of the deadline.
  Go's scheduler runs a runnable goroutine, and the context's timer fires.
  Requests, jobs and goroutines get none: they may hang for ever.
- *Attendance*: a device of each kind sends while it has punches (its poll
  interval), and a request being served goes on; faults have no fairness and a bound, so they do
  not go on for ever.
- *Announcements*: a running push goroutine takes its next step, because every
  call it makes has a timeout.  A crash may end it, which `PushTriesAll` allows.

### Findings

1. **Re-pricing can leave a negative balance** (`tuition.go:502`).  The balances
   checked are those of the rows locked first; the `UPDATE` reads the table
   again and re-prices an account committed in between.  `OverdrawnOnlyUnchecked`
   in the run `tuition` shows that this is the only way: every step that leaves
   a balance negative is a re-pricing of an account it had not checked.
2. **A PIN that is not valid text is retried for ever** (`hardware.go:347`).  The
   lookup's data error is answered 503, although RULES.md says bad data never is.
   `ReadableAcknowledged` shows that nothing else keeps an ADMS device
   resending.

### Known limits

Behaviour the models have and no property forbids:

- Two registrations of one parent share the lock of its row and evict without
  seeing each other's token (`mobile.go:766-792`), so a parent can hold more
  than `MaxDeviceTokensPerParent` tokens until its next registration.
- The JSON push (`hardware.go:704`) looks a tag up among students only: a
  teacher's punch is acknowledged and stored nowhere, while ADMS stores it.
- A JSON device keeps a punch that is answered 400, 403 or 500
  (`hardware.go:676-722`), and all of them while it is disabled or unregistered
  (`middleware.go:59-75`), where ADMS acknowledges and drops.  So
  `ReadableAcknowledged` promises a JSON device its acknowledgement only if it
  is enabled in the end and holds no punch that is refused.
- A device punch of the very second of a manual entry is a duplicate and gets no
  row.  Deleting the manual entry then leaves nothing of it; `NoPunchLost`
  names this exception.
- A crash between the commit of a batch or a broadcast and its push loses the
  push: nothing records that it is due.  The same holds for the rest of the
  absence job's list and for an entry of the activity log.
- A request that has passed the session check registers its token after a PIN
  change committed (`middleware.go:159`); `SignOutClearsTokens` states the part
  the code does promise.
- A device that moves to another parent between the list of a push's tokens and
  the send shows that parent the text (`notify/broadcast.go:172`).
- A student moved to another grade after the freeze of a year switch took its
  snapshot keeps the account of the grade it had (`tuition.go:805`);
  `SwitchKeepsFigures` leaves the moved student out.
- An expense recorded or voided between two statements of a report shows in one
  of its sums and not in the other; `SummaryAddsUp` is about reports during
  which expenses did not change.
- A punch, leave or closure stored after the absence job's query is not looked at
  again: the student may be announced although the parent has excused it by then.

The comment at `login.go:30-32`, that other addresses are never locked out, holds
as long as the username limiter is below its cap of keys; above it new keys are
refused by design (`ratelimit/login.go:26-29`).

## Proofs

`tlapm M.tla` checks a module's proofs, for every value of the constants that
the named assumptions allow: any number of requests, rows, keys and dates.  All
of them have the form `Init => Inv`, `Inv /\ [Next]_vars => Inv'`, `Inv` implies
the property, or, for an action property, `Inv` and a step imply it.

One idea carries most of the invariants.  A transaction has read something,
waits, and writes.  The invariant says of each place in the code what the
transaction has relied on since (`TxOK`, `ReqOK`, `Facts`, `SaveFacts`,
`UploadFacts`), which locks it holds there, and that conflicting locks are never
held by two (`UpdatesExclusive`, `OwnedOnce`, `LocksApart`, `LocksInv`,
`RowsInv`).  A commit of another transaction cannot touch what it relies on,
because it would hold a lock that conflicts.  Without these facts the checked
properties are not inductive: they say nothing about requests under way.

- **LoginLimiterProofs** — `LimiterSafe`: `SlotsAccounted`, `SlotsBounded`,
  `KeysBounded`; from them `LimiterBounds`: `GuessesBounded`; `LimiterLockout`:
  `LockoutStands`.  `SlotsBounded` alone is not inductive: Finish with `Failed`
  keeps the sum only if the entry it finds counts the slot that is being
  returned, which is `SlotsAccounted`.

  Then the limiter's users.  `AdminUsesLimiters` and `ParentUsesLimiter`: the
  login handlers implement `LoginLimiter!Spec`, with the slots computed from
  their program counters, so the three results above hold of every limiter of
  the server.  The step proofs show which handler's slot appears or disappears
  with each Allow and Finish.  `AdminRemembers`: `AddressNotForgiven`, from
  `Handler`: no verdict on an address is `Succeeded`.  `AdminSessions`:
  `AdminSessionsCurrent`, from `AdminInv`: password and version are raised together,
  and a login carries the pair its one SELECT read.  `ParentSessions` and
  `ParentDeletions`: `ParentSessionsCurrent` and `DeletedByPin`.  Here the pair must
  also survive deletion and re-registration, so `Sound` says of a row read
  earlier that whoever has its id now has a later version or the same PIN; ids
  are handed out once (`ParentsInv`).  `LockKept` says that the row of a deletion
  past its FOR UPDATE is still what it saw.
- **ShutdownProofs** — `ShutdownSafe`: `DatabaseOutlivesWork`,
  `IncompleteOnlyLate`, `PhasesStayDrained`.  The strengthening ties the channel
  to the counter and each phase to what it has drained.
  `DutyImplementsShutdown`: the process with job, log and readers implements the
  bare process.  `AbsencesSafe`: `AbsentAreTold`, `OnlyAbsentAreTold`; `JobInv`
  says that whoever was absent all along is told, missed or still on the list,
  and the list holds nobody already dealt with.  `CleanExitSafe`:
  `CleanExitOwesNothing`; `AdminInv` counts the open admin requests and the
  pending inserts and pushes against the counters the shutdown waits for
  (cardinalities, so one goroutine ends with one element).  `PagesSafe`:
  `PagesMissNothing`; `PageInv` says that what is left of the list lies below
  the cursor.  What one page holds is derived from the rank of each row
  (`Ranked`, `Fetch`), with a least counterexample from well-foundedness.
- **ParentAccountProofs** — `AccountSafe`: `NothingLeftBehind`; `AccountSignOut`:
  `SignOutClearsTokens`.  Under FOR SHARE the parent stays live and its switch on
  (`Shares`); under FOR UPDATE the list of devices to delete stays complete
  (`Drops`), and so does the list of students to unlink (`Unlinks`).
- **AttendanceProofs** — `PunchesSafe`: `NoPunchLost`; `AnnouncementsSafe`:
  `AnnouncedOnce`, `WindowAnnounced`; `ManualSafe`: `OneManualPerWindow`.
  `PunchInv`: a device's row stays once committed, so what a request has read of
  its batch stays settled, and each row is inserted, hence announced, by one
  request.  `ManualInv`: the student's row lock keeps the window clear.
  `CauseInv` is `WindowAnnounced` in inductive form: every row of a window has a
  cause *not after it*; the first one in time is found by well-foundedness.
- **ClosuresProofs** — `BroadcastsSafe`: `NoRepeat`, `LogIsHonest`;
  `CalendarSafe`: `ClosuresDisjoint`, `CancelledOnce`, `NoticesExist`; `PastSafe`:
  `PastStaysClosed`.  `Facts` are what a request saw under the lock of
  `broadcasts` or of `school_closures`: no duplicate, no overlap, the closure it
  cancels.  `CancelsDone` makes `CancelledOnce` inductive: a cancellation that
  was carried out leaves nothing of the closure from its day on.
- **TuitionProofs** — `LedgerTypes`: `TypeOK`; `PastSafe`: `PastYearsFrozen`;
  `SwitchSafe`: `SwitchKeepsFigures`; `LedgersSafe`: `LedgersKept`;
  `ExpensesSafe`: `ExpenseInItsYear`.  `LedgerInv` says which row locks each place
  holds and that the year a write resolved is current while it is shared.

  `OverdrawnSafe`: `OverdrawnOnlyUnchecked`, the statement that finding 1 is the
  only way to a negative balance.  It needs to know what a sum over payments
  does when one is added or voided.  A sum is the size of a set of units, as many
  for each payment as its amount (`SumIsSize`, `AmountIsSize`, by a least
  counterexample to the fold's unrolling, `SumUnrolls`), and the units of
  different payments are disjoint.  `FundsInv` is the inductive part: a payment
  or discount about to be committed still fits its account, a fee alone
  re-prices nobody, and an account the re-pricing checked is locked and still
  bears the new fee (`Funds`).
  `SummarySafe`: `SummaryAddsUp`, from `ReportInv`: the sums a report has made are
  those of the table for as long as the expenses are the ones it began with
  (`Reported`).  That categories and months then give the same total is a
  partition of the units in two ways (`CategoriesAddUp`, `MonthsAddUp`).
- **BannersProofs** — `SavesSafe`: `SavesAreWhole`; `PartsSafe`:
  `BannerPartsKept`; `AskedSafe`: `AskedIsCurrent`.  `SaveFacts`: what a save will
  delete and add is exactly its classes' rows, since the table lock keeps others
  out.  `UploadFacts`: what an update will show differs from the locked row only
  in the parts that were sent.  `ShownInv`: equal checksums mean equal pictures.

  `ExportSafe`: `ExportRoundTrip`, an export of what a form or an import saved is
  accepted by the import and brings back the same week.  `Week` is what both
  validations ensure although they are written twice: stored names, no period
  twice on a day, none left out.  `SameRules` shows that the two accept the
  same weeks, `WeekStored` that what they accept is stored as one,
  `WeekExported` that an exported week passes every rule of `WorkbookOK` and is
  stored as it was, and `WeeksInv` that what is saved or about to be are weeks
  (`Brings`); it rests on `SavesAreWhole`'s invariant for the rows under the lock.
- **DeviceTagsProofs** — `TagsSafe`: `OnePersonPerTag`; `TagsLeaveStaffRange`:
  `StaffRangeOnlyEmpties`.  `OnePersonPerTag` needs three facts about requests in
  flight: a teacher's write past its look at the students carries a tag no
  student has (`TeacherTagFree`), a student's write carries a tag above the staff
  range or none, so that the stored one is kept (`StudentTagKept`), and two
  writers of one table never carry the same tag (`OneWriter`).  `TeacherTagFree`
  is stable only because students never move *into* the staff range.
  `HintSound`: `HintIsLeastFree`.  The statement behind the suggestion looks only
  at the numbers right after used ones; `LeastFreeIsCandidate` shows that the
  least free tag is always one of them.  It is proved, for tables of any size,
  and in no run: TLC would only try a handful of tags.

*Assumptions* are those of the modules, evaluated by TLC in the runs.  The ones
that are more than types and positive bounds, and where they come from:
`ClockAssumption`, the sweep gap is at most the window (the code's constants);
`AttendanceAssumption`, the two windows of a day do not overlap and no PIN is
both a student's and a teacher's (the tag rule, proved in `DeviceTagsProofs`);
`BroadcastsAssumption`, finitely many parents, with ids above 0;
`ClosuresAssumption`, no closure of the start ends before it begins (a
CHECK of the schema); `DeviceTagsAssumption`, tags are unique per table;
`BannersAssumption`, no link is the marker of a missing banner;
`ParentLoginAssumption` and `TuitionAssumption`, no request is called 0, the
marker of an unlocked row and of a payment that is not voided;
`ExpensesAssumption`, finitely many seeded categories and months;
`SchedulesAssumption`, the header row of an export is among the rows the import
searches (5 of 10 in the code) and has enough of the columns it recognises (6,
at least 3 are needed), and the periods of one week fit the import's limit of
rows (2000).

*Only model-checked*: liveness under fairness, out of the prover's reach
(`ShutdownEnds`, `ReadableAcknowledged`, `PushTriesAll`), and the two properties
that are violated, `RemainingNonNegative` and `AllAcknowledged` (see the
findings).

## Plan

Done: the limiter and its users, shutdown with the absence job and the activity
log, tuition with expenses, parent accounts, attendance, announcements, uploads,
device tags.  Every invariant and every action property that the passing runs
check is also proved; of what they check, only liveness rests on TLC alone.

## Not modelled

- *Settings* other than the academic year, *notification read flags*, device
  names: single statements on rows no other rule depends on.
- *Lists, dashboards, daily and monthly reports, the Excel report*: they read.
  The lists whose consistency is a question of its own (pages, the expense
  report, the schedule export, the active banners) are in the models.
- *Phone numbers, configuration, startup checks*: pure functions of one string,
  or read once before serving.
- *Migrations, seeding, PIN migration*: run once by hand on an idle database.
  The constraints the migrations create are used where a model needs them.
- *File formats*: decoding of images, zip and workbook cells, JWT signing.
