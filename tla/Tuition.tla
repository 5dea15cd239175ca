------------------------------- MODULE Tuition -------------------------------
(***************************************************************************)
(* Tuition (internal/handlers/tuition.go): fees per year and grade, the    *)
(* account that freezes one student's fee and discount for a year, its     *)
(* payments, and the switch of the academic year.                          *)
(*                                                                         *)
(* Every write is a PostgreSQL transaction at READ COMMITTED: a statement  *)
(* sees what was committed when it started, and row locks are held until   *)
(* the end.  A transaction is split where another one can come in between, *)
(* its own writes are kept in its record and applied by its commit, and it *)
(* may be rolled back at any point (an error, a client that went away, a   *)
(* deadlock victim).                                                       *)
(***************************************************************************)
EXTENDS Integers, Sequences, FiniteSetsExt

CONSTANTS
    Txs,          \* requests served at once
    Students, Grades, Years,
    Workloads,    \* the sets of requests that arrive together
    MaxAmount,    \* bound: fees, discounts and payments
    MaxRequests,  \* bound: requests ever begun
    MaxMoves,     \* bound: students edits (grade or active flag)
    StartYear,    \* the academic_year setting at the start
    StartGrade,   \* every student's grade at the start
    StartFee,     \* its fee at the start, 0 when unset
    Enrolled      \* the students that have an account at the start

ASSUME TuitionAssumption ==
    /\ MaxAmount \in Nat /\ MaxRequests \in Nat /\ MaxMoves \in Nat
    /\ StartYear \in Years /\ StartGrade \in Grades
    /\ StartFee \in 0..MaxAmount
    /\ Enrolled \subseteq Students
    /\ StartFee = 0 => Enrolled = {}
    /\ 0 \notin Txs

VARIABLES
    year,      \* the academic_year setting
    fees,      \* tuition_fees: [Years -> [Grades -> fee]], 0 when no row
    account,   \* tuition_accounts: [Students -> [Years -> [fee, discount]]]
    payments,  \* tuition_payments in id order
    grade,     \* students.grade
    active,    \* students.is_active
    workload,  \* the requests of this behaviour, one of Workloads
    moves,     \* how many student edits there have been
    begun,     \* how many requests
    tx,        \* each request's transaction
    locks      \* the row locks each holds

tables == <<year, fees, account, payments>>
people == <<grade, active, workload, moves, begun>>
vars == <<tables, people, tx, locks>>

Amount == 0..MaxAmount
NoAccount == [fee |-> 0, discount |-> 0]
\* `about' is what the requests of module Expenses carry.
Idle == [kind |-> "none", pc |-> "idle", student |-> 0, year |-> 0,
         grade |-> 0, value |-> 0, current |-> FALSE, fee |-> 0,
         discount |-> 0, listed |-> {}, frozen |-> {}, seen |-> {},
         about |-> {}]

TypeOK ==
    /\ year \in Years
    /\ fees \in [Years -> [Grades -> Amount]]
    /\ account \in [Students -> [Years -> [fee : Amount, discount : Amount]]]
    /\ payments \in Seq([student : Students, year : Years, amount : Amount,
                         voidedBy : Txs \cup {0}])
    /\ grade \in [Students -> Grades]
    /\ active \in [Students -> BOOLEAN]
    /\ moves \in 0..MaxMoves /\ begun \in 0..MaxRequests

Init ==
    /\ year = StartYear
    /\ fees = [y \in Years |-> [g \in Grades |->
                 IF y = StartYear /\ g = StartGrade THEN StartFee ELSE 0]]
    /\ account = [s \in Students |-> [y \in Years |->
                    IF y = StartYear /\ s \in Enrolled
                    THEN [fee |-> StartFee, discount |-> 0] ELSE NoAccount]]
    /\ payments = <<>>
    /\ grade = [s \in Students |-> StartGrade]
    /\ active = [s \in Students |-> TRUE]
    /\ workload \in Workloads /\ moves = 0 /\ begun = 0
    /\ tx = [t \in Txs |-> Idle]
    /\ locks = [t \in Txs |-> {}]

-----------------------------------------------------------------------------

HasAccount(s, y) == account[s][y].fee > 0

\* SUM(amount) over an account's payments that are not voided.
Paid(s, y) ==
    MapThenSumSet(LAMBDA i : payments[i].amount,
                  {i \in DOMAIN payments :
                     payments[i].student = s /\ payments[i].year = y
                     /\ payments[i].voidedBy = 0})

\* remaining, computed on read.
Remaining(s, y) == account[s][y].fee - account[s][y].discount - Paid(s, y)

YearShare == <<"year", "share">>
YearUpdate == <<"year", "update">>
AccountRow(s, y) == <<"account", s, y>>
FeeRow(y, g) == <<"fee", y, g>>
PaymentRow(i) == <<"payment", i>>

Free(t, row) == \A u \in Txs \ {t} : row \notin locks[u]

\* The transaction goes on: record and locks.
Step(t, rec, rows) ==
    /\ tx' = [tx EXCEPT ![t] = rec]
    /\ locks' = [locks EXCEPT ![t] = @ \cup rows]

\* The transaction is over: locks go, the request has been answered.
Done(t) ==
    /\ tx' = [tx EXCEPT ![t] = Idle]
    /\ locks' = [locks EXCEPT ![t] = {}]

RolledBack(t) == Done(t) /\ UNCHANGED <<tables, people>>

-----------------------------------------------------------------------------
(* A request arrives.  tuitionYear has resolved the requested year (or the *)
(* current one) before the transaction starts.                             *)

Accepts(t, kind) ==
    /\ kind \in workload /\ tx[t].pc = "idle"
    /\ begun < MaxRequests /\ begun' = begun + 1

Begin(t) ==
    /\ \/ \E kind \in {"pay", "discount"}, s \in Students, y \in Years,
             v \in Amount :
            /\ Accepts(t, kind)
            /\ kind = "pay" => v > 0
            /\ tx' = [tx EXCEPT ![t] = [Idle EXCEPT !.kind = kind,
                        !.pc = "open", !.student = s, !.year = y,
                        !.value = v, !.current = (y = year)]]
       \/ \E kind \in {"fee", "apply"}, g \in Grades, v \in Amount \ {0} :
            /\ Accepts(t, kind)
            /\ tx' = [tx EXCEPT ![t] = [Idle EXCEPT !.kind = kind,
                        !.pc = "open", !.year = year, !.grade = g,
                        !.value = v]]
       \/ \E i \in DOMAIN payments :
            /\ Accepts(t, "void")
            /\ tx' = [tx EXCEPT ![t] = [Idle EXCEPT !.kind = "void",
                        !.pc = "open", !.value = i]]
       \/ \E y \in Years :
            /\ Accepts(t, "year")
            /\ tx' = [tx EXCEPT ![t] = [Idle EXCEPT !.kind = "year",
                        !.pc = "open", !.year = y]]
    /\ UNCHANGED <<tables, grade, active, workload, moves, locks>>

\* A write keeps what it knew of the year before it held it.
MutHeldYear(rec) ==
    IF rec.kind \in {"pay", "discount"} THEN rec
    ELSE [rec EXCEPT !.year = year, !.current = TRUE]

\* What a transaction knows of the year once it holds it FOR SHARE: a write
\* re-evaluates whether its year is current, a fee takes the current year.
HeldYear(rec) ==
    IF rec.kind \in {"pay", "discount"}
    THEN [rec EXCEPT !.current = (rec.year = year)]
    ELSE [rec EXCEPT !.year = year, !.current = TRUE]

ShareYear(t) ==
    /\ tx[t].pc = "open" /\ tx[t].kind \in {"pay", "discount", "fee", "apply"}
    /\ Free(t, YearUpdate)
    /\ Step(t, [HeldYear(tx[t]) EXCEPT !.pc = "shared"], {YearShare})
    /\ UNCHANGED <<tables, people>>

-----------------------------------------------------------------------------
(* Payments and discounts: tuitionWrite and lockTuitionAccount.            *)

\* The fee a missing account would be created with, 0 when there is none.
NewFee(rec) ==
    IF rec.current THEN fees[rec.year][grade[rec.student]] ELSE 0

\* The INSERT ... ON CONFLICT DO NOTHING and the SELECT ... FOR UPDATE: both
\* wait for a transaction that created or locked the same account.
LockAccount(t) ==
    LET rec == tx[t]
        row == account[rec.student][rec.year]
    IN  /\ rec.pc = "shared" /\ rec.kind \in {"pay", "discount"}
        /\ Free(t, AccountRow(rec.student, rec.year))
        /\ \/ /\ HasAccount(rec.student, rec.year)
              /\ Step(t, [rec EXCEPT !.pc = "sum", !.fee = row.fee,
                                     !.discount = row.discount],
                      {AccountRow(rec.student, rec.year)})
           \/ /\ ~HasAccount(rec.student, rec.year) /\ NewFee(rec) > 0
              /\ Step(t, [rec EXCEPT !.pc = "sum", !.fee = NewFee(rec)],
                      {AccountRow(rec.student, rec.year)})
           \/ /\ ~HasAccount(rec.student, rec.year) /\ NewFee(rec) = 0
              /\ Done(t)
        /\ UNCHANGED <<tables, people>>

\* Whether the payment or the discount leaves no negative balance.
Fits(rec, paid) ==
    IF rec.kind = "pay" THEN rec.value <= rec.fee - rec.discount - paid
    ELSE rec.value <= rec.fee /\ rec.value + paid <= rec.fee

\* The sum of the payments is read and the request refused or its write made.
CheckWrite(t) ==
    LET rec == tx[t]
    IN  /\ rec.pc = "sum"
        /\ IF Fits(rec, Paid(rec.student, rec.year))
           THEN Step(t, [rec EXCEPT !.pc = "commit"], {})
           ELSE Done(t)
        /\ UNCHANGED <<tables, people>>

NewDiscount(rec) == IF rec.kind = "pay" THEN rec.discount ELSE rec.value

CommitWrite(t) ==
    LET rec == tx[t]
    IN  /\ rec.pc = "commit" /\ rec.kind \in {"pay", "discount"}
        /\ account' = [account EXCEPT ![rec.student][rec.year] =
             [fee |-> rec.fee, discount |-> NewDiscount(rec)]]
        /\ \/ rec.kind = "discount" /\ UNCHANGED payments
           \/ /\ rec.kind = "pay"
              /\ payments' = Append(payments,
                   [student |-> rec.student, year |-> rec.year,
                    amount |-> rec.value, voidedBy |-> 0])
        /\ Done(t)
        /\ UNCHANGED <<year, fees, people>>

-----------------------------------------------------------------------------
(* AdminTuitionVoidHandler: only the payment's row is locked.              *)

Voidable(i) == payments[i].voidedBy = 0

LockPayment(t) ==
    /\ tx[t].pc = "open" /\ tx[t].kind = "void"
    /\ Free(t, PaymentRow(tx[t].value))
    /\ IF Voidable(tx[t].value)
       THEN Step(t, [tx[t] EXCEPT !.pc = "commit"], {PaymentRow(tx[t].value)})
       ELSE Done(t)
    /\ UNCHANGED <<tables, people>>

CommitVoid(t) ==
    /\ tx[t].pc = "commit" /\ tx[t].kind = "void"
    /\ payments' = [payments EXCEPT ![tx[t].value].voidedBy = t]
    /\ Done(t)
    /\ UNCHANGED <<year, fees, account, people>>

-----------------------------------------------------------------------------
(* setTuitionFee                                                           *)

\* The upsert of the fee waits for another one of the same row.
SaveFee(t) ==
    LET rec == tx[t]
    IN  /\ rec.pc = "shared" /\ rec.kind \in {"fee", "apply"}
        /\ Free(t, FeeRow(rec.year, rec.grade))
        /\ Step(t, [rec EXCEPT !.pc = IF rec.kind = "apply" THEN "select"
                                      ELSE "commit"],
                {FeeRow(rec.year, rec.grade)})
        /\ UNCHANGED <<tables, people>>

\* The accounts a statement of the transaction sees.
InGrade(rec) ==
    {s \in Students : grade[s] = rec.grade /\ HasAccount(s, rec.year)}

\* SELECT ... FOR UPDATE OF a: the rows are those of its snapshot, ...
SelectAccounts(t) ==
    /\ tx[t].pc = "select"
    /\ Step(t, [tx[t] EXCEPT !.pc = "lock", !.listed = InGrade(tx[t])], {})
    /\ UNCHANGED <<tables, people>>

\* The accounts are read without FOR UPDATE.
MutAccountRows(rec) == {}

AccountRows(rec) == {AccountRow(s, rec.year) : s \in rec.listed}

\* ... locked once nobody else holds them.
LockAccounts(t) ==
    /\ tx[t].pc = "lock"
    /\ \A row \in AccountRows(tx[t]) : Free(t, row)
    /\ Step(t, [tx[t] EXCEPT !.pc = "check"], AccountRows(tx[t]))
    /\ UNCHANGED <<tables, people>>

\* Every listed balance is tried with the new fee; `seen' keeps which, for
\* the property below.
CheckAccounts(t) ==
    LET rec == tx[t]
    IN  /\ rec.pc = "check"
        /\ IF \A s \in rec.listed :
                 rec.value - account[s][rec.year].discount
                     - Paid(s, rec.year) >= 0
           THEN Step(t, [rec EXCEPT !.pc = "update", !.seen = rec.listed], {})
           ELSE Done(t)
        /\ UNCHANGED <<tables, people>>

\* The UPDATE evaluates its WHERE anew; the table's CHECK (discount <= fee)
\* fails the whole transaction.
UpdateAccounts(t) ==
    LET rec == [tx[t] EXCEPT !.listed = InGrade(tx[t])]
    IN  /\ rec.pc = "update"
        /\ \A row \in AccountRows(rec) : Free(t, row)
        /\ IF \A s \in rec.listed : account[s][rec.year].discount <= rec.value
           THEN Step(t, [rec EXCEPT !.pc = "commit"], AccountRows(rec))
           ELSE Done(t)
        /\ UNCHANGED <<tables, people>>

CommitFee(t) ==
    LET rec == tx[t]
    IN  /\ rec.pc = "commit" /\ rec.kind \in {"fee", "apply"}
        /\ fees' = [fees EXCEPT ![rec.year][rec.grade] = rec.value]
        /\ account' = [s \in Students |->
             IF s \in rec.listed
             THEN [account[s] EXCEPT ![rec.year].fee = rec.value]
             ELSE account[s]]
        /\ Done(t)
        /\ UNCHANGED <<year, payments, people>>

-----------------------------------------------------------------------------
(* changeAcademicYear: FOR UPDATE waits for every write and fee change.    *)

Exclusive(t) == Free(t, YearShare) /\ Free(t, YearUpdate)

LockYear(t) ==
    /\ tx[t].pc = "open" /\ tx[t].kind = "year"
    /\ Exclusive(t)
    /\ IF tx[t].year = year THEN Done(t)
       ELSE Step(t, [tx[t] EXCEPT !.pc = "freeze"], {YearUpdate})
    /\ UNCHANGED <<tables, people>>

\* The switch freezes no account.
MutFrozen(s) == account[s][year]

\* s's account of the old year after the INSERT ... ON CONFLICT DO NOTHING.
Frozen(s) ==
    IF active[s] /\ ~HasAccount(s, year)
    THEN [fee |-> fees[year][grade[s]], discount |-> 0]
    ELSE account[s][year]

\* `seen' is the grades the INSERT saw, kept for the property below.
FreezeYear(t) ==
    /\ tx[t].pc = "freeze"
    /\ Step(t, [tx[t] EXCEPT !.pc = "commit", !.seen = grade,
                             !.frozen = [s \in Students |-> Frozen(s)]], {})
    /\ UNCHANGED <<tables, people>>

CommitYear(t) ==
    /\ tx[t].pc = "commit" /\ tx[t].kind = "year"
    /\ account' = [s \in Students |->
                     [account[s] EXCEPT ![year] = tx[t].frozen[s]]]
    /\ year' = tx[t].year
    /\ Done(t)
    /\ UNCHANGED <<fees, payments, people>>

-----------------------------------------------------------------------------

\* A failed statement, a lost client, a deadlock victim: nothing is applied.
Abort(t) == tx[t].pc # "idle" /\ RolledBack(t)

\* PUT and DELETE /api/admin/students: one committed UPDATE each.
MoveStudent(s, g) ==
    /\ "move" \in workload /\ moves < MaxMoves /\ moves' = moves + 1
    /\ grade' = [grade EXCEPT ![s] = g]
    /\ UNCHANGED <<tables, active, workload, begun, tx, locks>>

DeleteStudent(s) ==
    /\ "move" \in workload /\ moves < MaxMoves /\ moves' = moves + 1
    /\ active' = [active EXCEPT ![s] = FALSE]
    /\ UNCHANGED <<tables, grade, workload, begun, tx, locks>>

TxStep(t) ==
    \/ Begin(t) \/ ShareYear(t) \/ LockAccount(t) \/ CheckWrite(t)
    \/ CommitWrite(t) \/ LockPayment(t) \/ CommitVoid(t) \/ SaveFee(t)
    \/ SelectAccounts(t) \/ LockAccounts(t) \/ CheckAccounts(t)
    \/ UpdateAccounts(t) \/ CommitFee(t) \/ LockYear(t) \/ FreezeYear(t)
    \/ CommitYear(t) \/ Abort(t)

\* All requests the bound allows have been answered.
Answered ==
    /\ begun = MaxRequests /\ \A t \in Txs : tx[t].pc = "idle"
    /\ UNCHANGED vars

Next ==
    \/ Answered
    \/ \E t \in Txs : TxStep(t)
    \/ \E s \in Students, g \in Grades : MoveStudent(s, g)
    \/ \E s \in Students : DeleteStudent(s)

Spec == Init /\ [][Next]_vars

-----------------------------------------------------------------------------

\* No account's remaining balance is ever negative, whatever payments,
\* discounts, voids and fee changes run at once, as setTuitionFee says.
RemainingNonNegative ==
    \A s \in Students, y \in Years : HasAccount(s, y) => Remaining(s, y) >= 0

\* A balance becomes negative at no other place than a re-pricing's UPDATE,
\* and there only for an account its check had not locked: payments,
\* discounts, voids, switches and checked accounts never overdraw.
OverdrawnOnlyUnchecked ==
    [][\A s \in Students, y \in Years :
         Remaining(s, y) >= 0 /\ Remaining(s, y)' < 0 =>
             \E t \in Txs : /\ tx[t].kind = "apply" /\ tx[t].pc = "commit"
                            /\ tx'[t] = Idle /\ s \notin tx[t].seen]_vars

\* The fees and the frozen fees of a year that is not current never change,
\* and no account of it appears, even for a request that started before the
\* switch.
PastYearsFrozen ==
    [][\A y \in Years \ {year} :
         /\ fees'[y] = fees[y]
         /\ \A s \in Students : account'[s][y].fee = account[s][y].fee]_vars

\* The fee tuitionRows shows for a student: the account's, or live.
ShownFee(s, y) ==
    IF HasAccount(s, y) THEN account[s][y].fee
    ELSE IF y = year THEN fees[y][grade[s]] ELSE 0

\* Switching the year changes no figure of the old year for any active
\* student, with or without an account, whom no admin moved to another grade
\* in the middle of it.
SwitchKeepsFigures ==
    [][\A t \in Txs :
         year' # year /\ tx[t].kind = "year" /\ tx[t].pc = "commit" =>
         \A s \in Students : active[s] /\ tx[t].seen[s] = grade[s] =>
             /\ account'[s][year].fee = ShownFee(s, year)
             /\ account'[s][year].discount = account[s][year].discount]_vars

\* A table of rows that are never edited or deleted, and voided once.
PaymentsStay(rows, later) ==
    /\ Len(later) >= Len(rows)
    /\ \A i \in DOMAIN rows :
         /\ later[i].amount = rows[i].amount
         /\ rows[i].voidedBy # 0 => later[i] = rows[i]

\* Payments are only appended, and the first void of a payment stands: a
\* second one, however timed, leaves reason and time alone.
PaymentsKept == [][PaymentsStay(payments, payments')]_vars
=============================================================================
