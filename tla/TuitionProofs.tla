---------------------------- MODULE TuitionProofs ----------------------------
(***************************************************************************)
(* What the row locks of tuition and expenses protect, for any number of   *)
(* requests, students and years.  The inductive invariant says what each   *)
(* transaction relies on between its statements, and that the locks it     *)
(* holds keep the others from changing it.  Two further invariants say it  *)
(* of balances and of the expense report, over sums of any length.         *)
(***************************************************************************)
EXTENDS Expenses, FiniteSetTheorems, WellFoundedInduction, TLAPS

AccountType == [fee : Amount, discount : Amount]
Payment == [student : Students, year : Years, amount : Amount,
            voidedBy : Txs \cup {0}]

\* The tables; an account without a fee is none and has no discount.
TablesInv ==
    /\ TypeOK
    /\ expenses \in Seq(Expense) /\ categories \subseteq Categories
    /\ \A s \in Students, y \in Years :
         account[s][y].fee = 0 => account[s][y].discount = 0

\* A transaction's record.
Shape(rec) ==
    rec = [kind |-> rec.kind, pc |-> rec.pc, student |-> rec.student,
           year |-> rec.year, grade |-> rec.grade, value |-> rec.value,
           current |-> rec.current, fee |-> rec.fee, discount |-> rec.discount,
           listed |-> rec.listed, frozen |-> rec.frozen, seen |-> rec.seen,
           about |-> rec.about]

\* The kind of request a place in the code belongs to, and what it carries.
Form(rec) ==
    /\ Shape(rec)
    /\ \/ rec.kind = "none" /\ rec.pc = "idle"
       \/ /\ rec.kind \in {"pay", "discount"}
          /\ rec.pc \in {"open", "shared", "sum", "commit"}
          /\ rec.student \in Students /\ rec.year \in Years
          /\ rec.value \in Amount /\ rec.discount \in Amount
       \/ /\ rec.kind \in {"fee", "apply"}
          /\ rec.pc \in {"open", "shared", "select", "lock", "check", "update",
                         "commit"}
          /\ rec.year \in Years /\ rec.grade \in Grades
          /\ rec.value \in Amount \ {0}
       \/ rec.kind \in {"void", "unexpense"} /\ rec.pc \in {"open", "commit"}
       \/ /\ rec.kind = "year" /\ rec.pc \in {"open", "freeze", "commit"}
          /\ rec.year \in Years
       \/ /\ rec.kind = "expense" /\ rec.pc \in {"open", "category", "commit"}
          /\ rec.about \in Expense
       \/ /\ rec.kind = "summary"
          /\ rec.pc \in {"categories", "months", "collected", "answer"}

\* A payment or discount: once it holds the year it knows whether its own is
\* current, and of a past year it has the fee as it is in the account.
WriteFacts(rec, held) ==
    rec.kind \in {"pay", "discount"} =>
        /\ rec.pc # "open" => YearShare \in held /\ rec.current = (rec.year = year)
        /\ rec.pc \in {"sum", "commit"} =>
             /\ AccountRow(rec.student, rec.year) \in held
             /\ rec.fee \in Amount \ {0}
             /\ rec.year # year =>
                  rec.fee = account[rec.student][rec.year].fee

\* A fee is one of the current year for as long as the year is held.
FeeFacts(rec, held) ==
    rec.kind \in {"fee", "apply"} /\ rec.pc # "open" =>
        YearShare \in held /\ rec.year = year

\* What the switch has computed for each student is still what is shown.
FrozenOK(rec, s) ==
    /\ rec.frozen[s] \in AccountType
    /\ HasAccount(s, year) => rec.frozen[s] = account[s][year]
    /\ ~HasAccount(s, year) =>
         /\ rec.frozen[s].discount = 0
         /\ active[s] => rec.frozen[s].fee = fees[year][rec.seen[s]]

YearFacts(rec, held) ==
    rec.kind = "year" /\ rec.pc # "open" =>
        /\ YearUpdate \in held
        /\ rec.pc = "commit" => \A s \in Students : FrozenOK(rec, s)

\* A row about to be voided is not void, and nobody else can void it.
VoidFacts(rec, held) ==
    /\ rec.kind = "void" =>
         /\ rec.value \in DOMAIN payments
         /\ rec.pc = "commit" => /\ PaymentRow(rec.value) \in held
                                 /\ payments[rec.value].voidedBy = 0
    /\ rec.kind = "unexpense" =>
         /\ rec.value \in DOMAIN expenses
         /\ rec.pc = "commit" => /\ ExpenseRow(rec.value) \in held
                                 /\ expenses[rec.value].voidedBy = 0

\* An expense that names no year has the current one while it holds it.
ExpenseFacts(rec, held) ==
    rec.kind = "expense" /\ rec.pc # "open" =>
        /\ YearShare \in held
        /\ rec.about.year = IF rec.about.asked = 0 THEN year ELSE rec.about.asked

Facts(rec, held) ==
    /\ WriteFacts(rec, held) /\ FeeFacts(rec, held) /\ YearFacts(rec, held)
    /\ VoidFacts(rec, held) /\ ExpenseFacts(rec, held)

\* No row is locked twice, except the year by those who share it; nobody
\* shares it with one that updates it.
LocksInv ==
    \A t, u \in Txs : t # u =>
        /\ locks[t] \cap locks[u] \subseteq {YearShare}
        /\ YearUpdate \in locks[t] => YearShare \notin locks[u]

LedgerInv ==
    /\ TablesInv
    /\ DOMAIN tx = Txs /\ DOMAIN locks = Txs
    /\ LocksInv
    /\ \A t \in Txs : Form(tx[t]) /\ Facts(tx[t], locks[t])

-----------------------------------------------------------------------------
(* What a step may do to the locks and to the facts of the others          *)

\* The rows a transaction may add to the ones it holds.
RowsFree(t, rows) ==
    /\ \A row \in rows : row = YearShare \/ Free(t, row)
    /\ YearShare \in rows => Free(t, YearUpdate)
    /\ YearUpdate \in rows => Free(t, YearShare)

\* Taking free rows keeps the locks apart.
LEMMA LocksStep ==
    ASSUME LocksInv, DOMAIN locks = Txs, NEW t \in Txs, NEW rows, RowsFree(t, rows),
           locks' = [locks EXCEPT ![t] = @ \cup rows]
    PROVE  LocksInv'
<1>1. locks'[t] = locks[t] \cup rows /\ \A u \in Txs \ {t} : locks'[u] = locks[u]
  OBVIOUS
<1>2. ASSUME NEW u \in Txs \ {t}
      PROVE  /\ locks'[t] \cap locks'[u] \subseteq {YearShare}
             /\ YearUpdate \in locks'[t] => YearShare \notin locks'[u]
             /\ YearUpdate \in locks'[u] => YearShare \notin locks'[t]
  <2>1. /\ locks[t] \cap locks[u] \subseteq {YearShare}
        /\ YearUpdate \in locks[t] => YearShare \notin locks[u]
        /\ YearUpdate \in locks[u] => YearShare \notin locks[t]
    BY DEF LocksInv
  <2>2. /\ \A row \in rows : row = YearShare \/ row \notin locks[u]
        /\ YearShare \in rows => YearUpdate \notin locks[u]
        /\ YearUpdate \in rows => YearShare \notin locks[u]
    BY DEF RowsFree, Free
  <2> QED
    BY <1>1, <2>1, <2>2
<1> QED
  BY <1>1, <1>2 DEF LocksInv

\* So does giving all up.
LEMMA LocksDone ==
    ASSUME LocksInv, DOMAIN locks = Txs, NEW t \in Txs,
           locks' = [locks EXCEPT ![t] = {}]
    PROVE  LocksInv'
<1>1. locks'[t] = {} /\ \A u \in Txs \ {t} : locks'[u] = locks[u]
  OBVIOUS
<1> QED
  BY <1>1 DEF LocksInv

\* The facts of a transaction are about the tables and the active students.
LEMMA FactsRead ==
    ASSUME NEW rec, NEW held, Facts(rec, held),
           UNCHANGED <<year, fees, account, payments, expenses>>,
           \A s \in Students : active'[s] => active[s]
    PROVE  Facts(rec, held)'
<1>1. WriteFacts(rec, held)' /\ FeeFacts(rec, held)' /\ ExpenseFacts(rec, held)'
  BY DEF Facts, WriteFacts, FeeFacts, ExpenseFacts
<1>2. VoidFacts(rec, held)'
  BY DEF Facts, VoidFacts
<1>3. ASSUME NEW s \in Students, FrozenOK(rec, s) PROVE FrozenOK(rec, s)'
  BY <1>3 DEF FrozenOK, HasAccount
<1>4. YearFacts(rec, held)'
  BY <1>3 DEF Facts, YearFacts
<1> QED
  BY <1>1, <1>2, <1>4 DEF Facts

\* Steps that write no table.
LEMMA TablesRead ==
    ASSUME TablesInv, UNCHANGED <<tables, ledger>>,
           begun' \in 0..MaxRequests, moves' \in 0..MaxMoves,
           grade' \in [Students -> Grades], active' \in [Students -> BOOLEAN]
    PROVE  TablesInv'
  BY DEF TablesInv, TypeOK, tables, ledger

\* A request that does nothing relies on nothing.
LEMMA IdleOK == Form(Idle) /\ Facts(Idle, {}) /\ Facts(Idle, {})'
<1>1. /\ Idle.kind = "none" /\ Idle.pc = "idle"
      /\ Idle = [kind |-> "none", pc |-> "idle", student |-> 0, year |-> 0,
                 grade |-> 0, value |-> 0, current |-> FALSE, fee |-> 0,
                 discount |-> 0, listed |-> {}, frozen |-> {}, seen |-> {},
                 about |-> {}]
  BY DEF Idle
<1>2. Form(Idle)
  BY DEF Idle, Form, Shape
<1> QED
  BY <1>1, <1>2 DEF Facts, WriteFacts, FeeFacts, YearFacts, VoidFacts, ExpenseFacts

\* A transaction goes on: it keeps the invariant if its own record is in
\* order and the rows it locks are free.
LEMMA Moves ==
    ASSUME LedgerInv, NEW t \in Txs, NEW rec, NEW rows, Form(rec),
           Facts(rec, locks[t] \cup rows), RowsFree(t, rows),
           Step(t, rec, rows), UNCHANGED <<tables, people, ledger>>
    PROVE  LedgerInv'
<1>1. /\ tx' = [tx EXCEPT ![t] = rec] /\ locks' = [locks EXCEPT ![t] = @ \cup rows]
      /\ DOMAIN tx = Txs /\ DOMAIN locks = Txs
  BY DEF Step, LedgerInv
<1>2. TablesInv'
  BY TablesRead DEF LedgerInv, TablesInv, TypeOK, people
<1>3. LocksInv'
  BY <1>1, LocksStep DEF LedgerInv
<1>4. ASSUME NEW u \in Txs PROVE Form(tx'[u]) /\ Facts(tx[u], locks[u])'
  <2>0. /\ UNCHANGED <<year, fees, account, payments, expenses, active>>
    BY DEF tables, people, ledger
  <2>1. CASE u = t
    <3>1. tx'[u] = rec /\ locks'[u] = locks[t] \cup rows
      BY <1>1, <2>1
    <3>2. Facts(rec, locks[t] \cup rows)
      OBVIOUS
    <3> DEFINE held == locks[t] \cup rows
    <3>3. \A a, b : Facts(a, b) => Facts(a, b)'
      BY <2>0, FactsRead
    <3> QED
      BY <3>1, <3>2, <3>3
  <2>2. CASE u # t
    <3>1. tx'[u] = tx[u] /\ locks'[u] = locks[u]
      BY <1>1, <2>2
    <3>2. Form(tx[u]) /\ Facts(tx[u], locks[u])
      BY DEF LedgerInv
    <3>3. \A a, b : Facts(a, b) => Facts(a, b)'
      BY <2>0, FactsRead
    <3> QED
      BY <3>1, <3>2, <3>3
  <2> QED
    BY <2>1, <2>2
<1> QED
  BY <1>1, <1>2, <1>3, <1>4 DEF LedgerInv

\* A transaction is over: it leaves the invariant to the tables and to what
\* the others rely on.
LEMMA Finishes ==
    ASSUME LedgerInv, NEW t \in Txs, Done(t), TablesInv',
           \A u \in Txs \ {t} : Facts(tx[u], locks[u])'
    PROVE  LedgerInv'
<1>1. /\ tx' = [tx EXCEPT ![t] = Idle] /\ locks' = [locks EXCEPT ![t] = {}]
      /\ DOMAIN tx = Txs /\ DOMAIN locks = Txs
  BY DEF Done, LedgerInv
<1>2. LocksInv'
  BY <1>1, LocksDone DEF LedgerInv
<1>3. ASSUME NEW u \in Txs PROVE Form(tx'[u]) /\ Facts(tx[u], locks[u])'
  <2>1. CASE u = t
    <3>1. tx'[u] = Idle /\ locks'[u] = {}
      BY <1>1, <2>1
    <3> QED
      BY <3>1, IdleOK
  <2>2. CASE u # t
    <3>1. tx'[u] = tx[u] /\ Form(tx[u])
      BY <1>1, <2>2 DEF LedgerInv
    <3> QED
      BY <2>2, <3>1
  <2> QED
    BY <2>1, <2>2
<1> QED
  BY <1>1, <1>2, <1>3 DEF LedgerInv

\* It ends without having changed anything.
LEMMA GivesUp ==
    ASSUME LedgerInv, NEW t \in Txs, Done(t), UNCHANGED <<tables, people, ledger>>
    PROVE  LedgerInv'
<1>1. TablesInv'
  BY TablesRead DEF LedgerInv, TablesInv, TypeOK, people
<1>2. ASSUME NEW u \in Txs \ {t} PROVE Facts(tx[u], locks[u])'
  <2>1. tx'[u] = tx[u] /\ locks'[u] = locks[u] /\ Facts(tx[u], locks[u])
    BY DEF Done, LedgerInv
  <2>2. UNCHANGED <<year, fees, account, payments, expenses, active>>
    BY DEF tables, people, ledger
  <2>3. \A a, b : Facts(a, b) => Facts(a, b)'
    BY <2>2, FactsRead
  <2> QED
    BY <2>1, <2>3
<1> QED
  BY <1>1, <1>2, Finishes

\* A request arrives.
LEMMA Arrives ==
    ASSUME LedgerInv, NEW t \in Txs, NEW rec, Form(rec), Facts(rec, locks[t]),
           tx' = [tx EXCEPT ![t] = rec], UNCHANGED locks,
           begun < MaxRequests, begun' = begun + 1,
           UNCHANGED <<tables, grade, active, moves, ledger>>
    PROVE  LedgerInv'
<1>1. begun' \in 0..MaxRequests
  BY TuitionAssumption DEF LedgerInv, TablesInv, TypeOK
<1>2. TablesInv'
  BY <1>1, TablesRead DEF LedgerInv, TablesInv, TypeOK
<1>3. ASSUME NEW u \in Txs PROVE Form(tx'[u]) /\ Facts(tx[u], locks[u])'
  <2>0. /\ UNCHANGED <<year, fees, account, payments, expenses, active>>
    BY DEF tables, ledger
  <2>1. \A a, b : Facts(a, b) => Facts(a, b)'
    BY <2>0, FactsRead
  <2>2. tx'[u] = (IF u = t THEN rec ELSE tx[u]) /\ locks'[u] = locks[u]
    BY DEF LedgerInv
  <2>3. Form(tx[u]) /\ Facts(tx[u], locks[u])
    BY DEF LedgerInv
  <2> QED
    BY <2>1, <2>2, <2>3
<1>4. DOMAIN tx' = Txs /\ DOMAIN locks' = Txs /\ LocksInv'
  BY DEF LedgerInv, LocksInv
<1> QED
  BY <1>2, <1>3, <1>4 DEF LedgerInv

-----------------------------------------------------------------------------
(* The requests, step by step                                              *)

\* What a request that writes carries when it arrives.
Asked(rec) ==
    \/ \E kind \in {"pay", "discount"}, s \in Students, y \in Years, v \in Amount :
         rec = [Idle EXCEPT !.kind = kind, !.pc = "open", !.student = s, !.year = y,
                            !.value = v, !.current = (y = year)]
    \/ \E kind \in {"fee", "apply"}, g \in Grades, v \in Amount \ {0} :
         rec = [Idle EXCEPT !.kind = kind, !.pc = "open", !.year = year, !.grade = g,
                            !.value = v]
    \/ \E i \in DOMAIN payments :
         rec = [Idle EXCEPT !.kind = "void", !.pc = "open", !.value = i]
    \/ \E i \in DOMAIN expenses :
         rec = [Idle EXCEPT !.kind = "unexpense", !.pc = "open", !.value = i]
    \/ \E y \in Years : rec = [Idle EXCEPT !.kind = "year", !.pc = "open", !.year = y]
    \/ \E e \in Expense :
         rec = [Idle EXCEPT !.kind = "expense", !.pc = "open", !.about = e]

\* Any request.
Opened(rec) ==
    \/ Asked(rec)
    \/ \E y, c : rec = [Idle EXCEPT !.kind = "summary", !.pc = "categories",
                                    !.year = y, !.value = c]

\* It is in order, whatever the locks.
LEMMA OpenedOK ==
    ASSUME NEW rec, Opened(rec), NEW held, year \in Years
    PROVE  Form(rec) /\ Facts(rec, held)
<1> USE DEF Facts, WriteFacts, FeeFacts, YearFacts, VoidFacts, ExpenseFacts
<1>0. Shape(Idle) /\ Idle.discount \in Amount
  BY IdleOK, TuitionAssumption DEF Form, Idle, Amount
<1>1. CASE \E kind \in {"pay", "discount"}, s \in Students, y \in Years, v \in Amount :
             rec = [Idle EXCEPT !.kind = kind, !.pc = "open", !.student = s,
                                !.year = y, !.value = v, !.current = (y = year)]
  <2>1. PICK kind \in {"pay", "discount"}, s \in Students, y \in Years, v \in Amount :
             rec = [Idle EXCEPT !.kind = kind, !.pc = "open", !.student = s,
                                !.year = y, !.value = v, !.current = (y = year)]
    BY <1>1
  <2> DEFINE c == y = year
  <2>2. rec = [Idle EXCEPT !.kind = kind, !.pc = "open", !.student = s,
                           !.year = y, !.value = v, !.current = c]
    BY <2>1
  <2> HIDE DEF c
  <2>3. /\ Shape(rec) /\ rec.kind = kind /\ rec.pc = "open" /\ rec.student = s
        /\ rec.year = y /\ rec.value = v /\ rec.discount \in Amount
    BY <1>0, <2>2 DEF Shape
  <2> QED
    BY <2>3 DEF Form
<1>2. CASE \E kind \in {"fee", "apply"}, g \in Grades, v \in Amount \ {0} :
             rec = [Idle EXCEPT !.kind = kind, !.pc = "open", !.year = year,
                                !.grade = g, !.value = v]
  <2>1. PICK kind \in {"fee", "apply"}, g \in Grades, v \in Amount \ {0} :
             rec = [Idle EXCEPT !.kind = kind, !.pc = "open", !.year = year,
                                !.grade = g, !.value = v]
    BY <1>2
  <2>2. /\ Shape(rec) /\ rec.kind = kind /\ rec.pc = "open" /\ rec.year = year
        /\ rec.grade = g /\ rec.value = v
    BY <1>0, <2>1 DEF Shape
  <2> QED
    BY <2>2 DEF Form
<1>3. ASSUME NEW i, NEW kind \in {"void", "unexpense"},
             rec = [Idle EXCEPT !.kind = kind, !.pc = "open", !.value = i],
             i \in IF kind = "void" THEN DOMAIN payments ELSE DOMAIN expenses
      PROVE  Form(rec) /\ Facts(rec, held)
  <2>1. Shape(rec) /\ rec.kind = kind /\ rec.pc = "open" /\ rec.value = i
    BY <1>0, <1>3 DEF Shape
  <2> QED
    BY <1>3, <2>1 DEF Form
<1>4. CASE \E y \in Years : rec = [Idle EXCEPT !.kind = "year", !.pc = "open",
                                               !.year = y]
  <2>1. PICK y \in Years : rec = [Idle EXCEPT !.kind = "year", !.pc = "open", !.year = y]
    BY <1>4
  <2>2. Shape(rec) /\ rec.kind = "year" /\ rec.pc = "open" /\ rec.year = y
    BY <1>0, <2>1 DEF Shape
  <2> QED
    BY <2>2 DEF Form
<1>5. CASE \E e \in Expense : rec = [Idle EXCEPT !.kind = "expense", !.pc = "open",
                                                 !.about = e]
  <2>1. PICK e \in Expense : rec = [Idle EXCEPT !.kind = "expense", !.pc = "open",
                                                !.about = e]
    BY <1>5
  <2>2. Shape(rec) /\ rec.kind = "expense" /\ rec.pc = "open" /\ rec.about = e
    BY <1>0, <2>1 DEF Shape
  <2> QED
    BY <2>2 DEF Form
<1>6. CASE \E y, c : rec = [Idle EXCEPT !.kind = "summary", !.pc = "categories",
                                        !.year = y, !.value = c]
  <2>1. PICK y, c : rec = [Idle EXCEPT !.kind = "summary", !.pc = "categories",
                                       !.year = y, !.value = c]
    BY <1>6
  <2>2. Shape(rec) /\ rec.kind = "summary" /\ rec.pc = "categories"
    BY <1>0, <2>1 DEF Shape
  <2> QED
    BY <2>2 DEF Form
<1>7. CASE \E i \in DOMAIN payments :
             rec = [Idle EXCEPT !.kind = "void", !.pc = "open", !.value = i]
  BY <1>3, <1>7
<1>8. CASE \E i \in DOMAIN expenses :
             rec = [Idle EXCEPT !.kind = "unexpense", !.pc = "open", !.value = i]
  BY <1>3, <1>8
<1> QED
  BY <1>1, <1>2, <1>4, <1>5, <1>6, <1>7, <1>8 DEF Opened, Asked

\* The arrivals of tuition's and of expenses' requests.
LEMMA ArrivalsKeep ==
    ASSUME LedgerInv, NEW t \in Txs,
           \/ Begin(t) /\ UNCHANGED ledger
           \/ BeginExpense(t) \/ BeginVoidExpense(t) \/ BeginSummary(t)
    PROVE  LedgerInv'
<1>1. /\ begun < MaxRequests /\ begun' = begun + 1 /\ UNCHANGED locks
      /\ UNCHANGED <<tables, grade, active, moves, ledger>>
  BY DEF Begin, BeginExpense, BeginVoidExpense, BeginSummary, Accepts
<1>2. \E rec : Opened(rec) /\ tx' = [tx EXCEPT ![t] = rec]
  <2>1. CASE Begin(t)
    BY <2>1, Zenon DEF Begin, Opened, Asked
  <2>2. CASE BeginExpense(t)
    BY <2>2, Zenon DEF BeginExpense, Opened, Asked
  <2>3. CASE BeginVoidExpense(t)
    BY <2>3, Zenon DEF BeginVoidExpense, Opened, Asked
  <2>4. CASE BeginSummary(t)
    BY <2>4, Zenon DEF BeginSummary, Opened
  <2> QED
    BY <2>1, <2>2, <2>3, <2>4
<1>3. year \in Years
  BY DEF LedgerInv, TablesInv, TypeOK
<1>4. PICK rec : Opened(rec) /\ tx' = [tx EXCEPT ![t] = rec]
  BY <1>2
<1>5. Form(rec) /\ Facts(rec, locks[t])
  BY <1>3, <1>4, OpenedOK
<1> QED
  BY <1>1, <1>4, <1>5, Arrives

\* The rows of different tables differ.
LEMMA RowsDiffer ==
    /\ YearShare # YearUpdate
    /\ \A s, y : AccountRow(s, y) # YearShare /\ AccountRow(s, y) # YearUpdate
    /\ \A y, g : FeeRow(y, g) # YearShare /\ FeeRow(y, g) # YearUpdate
    /\ \A i : PaymentRow(i) # YearShare /\ PaymentRow(i) # YearUpdate
    /\ \A i : ExpenseRow(i) # YearShare /\ ExpenseRow(i) # YearUpdate
<1>1. YearShare[1] = "year" /\ YearUpdate[1] = "year"
      /\ YearShare[2] = "share" /\ YearUpdate[2] = "update"
  BY DEF YearShare, YearUpdate
<1>2. /\ \A s, y : AccountRow(s, y)[1] = "account"
      /\ \A y, g : FeeRow(y, g)[1] = "fee"
      /\ \A i : PaymentRow(i)[1] = "payment" /\ ExpenseRow(i)[1] = "expense"
  BY DEF AccountRow, FeeRow, PaymentRow, ExpenseRow
<1> QED
  BY <1>1, <1>2

\* A set of rows of accounts, fees, payments or expenses is free when each is.
LEMMA RowsAreFree ==
    ASSUME NEW t, NEW rows, YearShare \notin rows, YearUpdate \notin rows,
           \A row \in rows : Free(t, row)
    PROVE  RowsFree(t, rows)
  BY DEF RowsFree

\* Only the place in the code changes.
Moved(r, p, rec) ==
    /\ Shape(rec) /\ rec.pc = p /\ rec.kind = r.kind
    /\ rec.student = r.student /\ rec.year = r.year /\ rec.grade = r.grade
    /\ rec.value = r.value /\ rec.current = r.current /\ rec.fee = r.fee
    /\ rec.discount = r.discount /\ rec.listed = r.listed
    /\ rec.frozen = r.frozen /\ rec.seen = r.seen /\ rec.about = r.about

LEMMA OnlyPc ==
    ASSUME NEW r, Shape(r), NEW p
    PROVE  Moved(r, p, [r EXCEPT !.pc = p])
<1> DEFINE rec == [r EXCEPT !.pc = p]
<1>1. rec = [r EXCEPT !.pc = p]
  OBVIOUS
<1> HIDE DEF rec
<1>2. Moved(r, p, rec)
  BY <1>1 DEF Shape, Moved
<1> QED
  BY <1>2 DEF rec

\* The year a write resolved is the current one while it is shared.
LEMMA ShareYearKeeps ==
    ASSUME LedgerInv, NEW t \in Txs, ShareYear(t), UNCHANGED ledger
    PROVE  LedgerInv'
<1> DEFINE r == tx[t]
<1>1. /\ r.pc = "open" /\ r.kind \in {"pay", "discount", "fee", "apply"}
      /\ Free(t, YearUpdate) /\ UNCHANGED <<tables, people, ledger>>
      /\ Step(t, [HeldYear(r) EXCEPT !.pc = "shared"], {YearShare})
      /\ Form(r) /\ Facts(r, locks[t]) /\ year \in Years
  BY DEF ShareYear, LedgerInv, TablesInv, TypeOK
<1>2. RowsFree(t, {YearShare})
  BY <1>1, RowsDiffer DEF RowsFree
<1> HIDE DEF r
<1>3. CASE r.kind \in {"pay", "discount"}
  <2> DEFINE c == r.year = year
             base == [r EXCEPT !.current = c]
             rec == [base EXCEPT !.pc = "shared"]
  <2>1. Step(t, rec, {YearShare})
    BY <1>1, <1>3 DEF HeldYear
  <2>2. base = [r EXCEPT !.current = c] /\ rec = [base EXCEPT !.pc = "shared"]
        /\ c \in BOOLEAN /\ (c <=> r.year = year)
    OBVIOUS
  <2> HIDE DEF c, base, rec
  <2>3. /\ Shape(base) /\ base.kind = r.kind /\ base.student = r.student
        /\ base.year = r.year /\ base.value = r.value /\ base.discount = r.discount
        /\ base.current = c
    BY <1>1, <2>2 DEF Form, Shape
  <2>4. /\ Shape(rec) /\ rec.kind = r.kind /\ rec.student = r.student
        /\ rec.year = r.year /\ rec.value = r.value /\ rec.discount = r.discount
        /\ rec.current = c /\ rec.pc = "shared"
    <3>1. Moved(base, "shared", rec)
      BY <2>2, <2>3, OnlyPc
    <3> QED
      BY <2>3, <3>1 DEF Moved
  <2>5. Form(rec)
    BY <1>1, <1>3, <2>4 DEF Form
  <2>6. Facts(rec, locks[t] \cup {YearShare})
    <3>1. rec.current = (rec.year = year)
      BY <2>4 DEF c
    <3> QED
      BY <1>3, <2>4, <3>1
         DEF Facts, WriteFacts, FeeFacts, YearFacts, VoidFacts, ExpenseFacts
  <2> QED
    BY <1>1, <1>2, <2>1, <2>5, <2>6, Moves
<1>4. CASE r.kind \in {"fee", "apply"}
  <2> DEFINE base == [r EXCEPT !.year = year, !.current = TRUE]
             rec == [base EXCEPT !.pc = "shared"]
  <2>1. Step(t, rec, {YearShare})
    BY <1>1, <1>4 DEF HeldYear
  <2>2. base = [r EXCEPT !.year = year, !.current = TRUE]
        /\ rec = [base EXCEPT !.pc = "shared"]
    OBVIOUS
  <2> HIDE DEF base, rec
  <2>3. /\ Shape(base) /\ base.kind = r.kind /\ base.grade = r.grade
        /\ base.year = year /\ base.value = r.value
    BY <1>1, <2>2 DEF Form, Shape
  <2>4. /\ Shape(rec) /\ rec.kind = r.kind /\ rec.grade = r.grade
        /\ rec.year = year /\ rec.value = r.value /\ rec.pc = "shared"
    <3>1. Moved(base, "shared", rec)
      BY <2>2, <2>3, OnlyPc
    <3> QED
      BY <2>3, <3>1 DEF Moved
  <2>5. Form(rec)
    BY <1>1, <1>4, <2>4 DEF Form
  <2>6. Facts(rec, locks[t] \cup {YearShare})
    BY <1>4, <2>4 DEF Facts, WriteFacts, FeeFacts, YearFacts, VoidFacts, ExpenseFacts
  <2> QED
    BY <1>1, <1>2, <2>1, <2>5, <2>6, Moves
<1> QED
  BY <1>1, <1>3, <1>4

\* A transaction only goes on to the next place in the code.
LEMMA PcMoves ==
    ASSUME LedgerInv, NEW t \in Txs, NEW p, NEW rows, RowsFree(t, rows),
           Step(t, [tx[t] EXCEPT !.pc = p], rows),
           UNCHANGED <<tables, people, ledger>>,
           \A rec : Moved(tx[t], p, rec) =>
                      Form(rec) /\ Facts(rec, locks[t] \cup rows)
    PROVE  LedgerInv'
<1>1. Shape(tx[t])
  BY DEF LedgerInv, Form
<1> DEFINE rec == [tx[t] EXCEPT !.pc = p]
<1>2. Moved(tx[t], p, rec)
  BY <1>1, OnlyPc
<1> HIDE DEF rec
<1>3. Form(rec) /\ Facts(rec, locks[t] \cup rows)
  BY <1>2
<1> QED
  BY <1>3, Moves DEF rec

LEMMA NoRowsFree == \A t : RowsFree(t, {})
  BY DEF RowsFree

\* The account a write found or makes is its own from here on.
LEMMA LockAccountKeeps ==
    ASSUME LedgerInv, NEW t \in Txs, LockAccount(t), UNCHANGED ledger
    PROVE  LedgerInv'
<1> DEFINE r == tx[t]
           row == AccountRow(r.student, r.year)
<1>1. /\ r.pc = "shared" /\ r.kind \in {"pay", "discount"} /\ Free(t, row)
      /\ UNCHANGED <<tables, people, ledger>>
      /\ Form(r) /\ Facts(r, locks[t]) /\ year \in Years
      /\ account \in [Students -> [Years -> [fee : Amount, discount : Amount]]]
      /\ fees \in [Years -> [Grades -> Amount]] /\ grade \in [Students -> Grades]
  BY DEF LockAccount, LedgerInv, TablesInv, TypeOK
<1>2. RowsFree(t, {row})
  BY <1>1, RowsDiffer, RowsAreFree
<1>3. /\ Shape(r) /\ r.student \in Students /\ r.year \in Years /\ r.value \in Amount
      /\ r.discount \in Amount
  BY <1>1 DEF Form
<1>4. YearShare \in locks[t] /\ r.current = (r.year = year)
  BY <1>1 DEF Facts, WriteFacts
<1>5. ASSUME NEW rec, Shape(rec), rec.kind = r.kind, rec.pc = "sum",
             rec.student = r.student, rec.year = r.year, rec.value = r.value,
             rec.discount \in Amount, rec.current = r.current,
             rec.fee \in Amount \ {0},
             rec.year # year => rec.fee = account[r.student][r.year].fee
      PROVE  Form(rec) /\ Facts(rec, locks[t] \cup {row})
  <2>1. Form(rec)
    BY <1>1, <1>3, <1>5 DEF Form
  <2>2. WriteFacts(rec, locks[t] \cup {row})
    <3>1. rec.current = (rec.year = year)
      BY <1>4, <1>5
    <3> QED
      BY <1>4, <1>5, <3>1 DEF WriteFacts
  <2> QED
    BY <1>1, <1>5, <2>1, <2>2 DEF Facts, FeeFacts, YearFacts, VoidFacts, ExpenseFacts
<1> HIDE DEF r
<1>6. CASE HasAccount(r.student, r.year) /\
           Step(t, [r EXCEPT !.pc = "sum", !.fee = account[r.student][r.year].fee,
                             !.discount = account[r.student][r.year].discount], {row})
  <2> DEFINE f == account[r.student][r.year].fee
             d == account[r.student][r.year].discount
             rec == [r EXCEPT !.pc = "sum", !.fee = f, !.discount = d]
  <2>1. f \in Amount \ {0} /\ d \in Amount
    BY <1>1, <1>3, <1>6 DEF HasAccount, Amount
  <2>2. rec = [r EXCEPT !.pc = "sum", !.fee = f, !.discount = d]
    OBVIOUS
  <2>3. f = account[r.student][r.year].fee
    OBVIOUS
  <2>4. Step(t, rec, {row})
    BY <1>6
  <2> HIDE DEF rec, f, d
  <2>5. /\ Shape(rec) /\ rec.kind = r.kind /\ rec.pc = "sum"
        /\ rec.student = r.student /\ rec.year = r.year /\ rec.value = r.value
        /\ rec.discount = d /\ rec.current = r.current /\ rec.fee = f
    BY <1>3, <2>2 DEF Shape
  <2>6. Form(rec) /\ Facts(rec, locks[t] \cup {row})
    BY <1>5, <2>1, <2>3, <2>5
  <2> HIDE DEF row
  <2> QED
    BY <1>1, <1>2, <2>4, <2>6, Moves
<1>7. CASE NewFee(r) > 0 /\ Step(t, [r EXCEPT !.pc = "sum", !.fee = NewFee(r)], {row})
  <2> DEFINE f == NewFee(r)
             rec == [r EXCEPT !.pc = "sum", !.fee = f]
  <2>1. f \in Amount \ {0} /\ r.year = year
    <3>1. f = fees[r.year][grade[r.student]] \/ f = 0
      BY Zenon DEF NewFee
    <3>2. r.year # year => f = 0
      BY <1>4, Zenon DEF NewFee
    <3> HIDE DEF f
    <3>3. f > 0
      BY <1>7 DEF f
    <3> QED
      BY <1>1, <1>3, <3>1, <3>2, <3>3 DEF Amount
  <2>2. rec = [r EXCEPT !.pc = "sum", !.fee = f]
    OBVIOUS
  <2>4. Step(t, rec, {row})
    BY <1>7
  <2> HIDE DEF rec, f
  <2>5. /\ Shape(rec) /\ rec.kind = r.kind /\ rec.pc = "sum"
        /\ rec.student = r.student /\ rec.year = r.year /\ rec.value = r.value
        /\ rec.discount = r.discount /\ rec.current = r.current /\ rec.fee = f
    BY <1>3, <2>2 DEF Shape
  <2>6. Form(rec) /\ Facts(rec, locks[t] \cup {row})
    BY <1>3, <1>5, <2>1, <2>5
  <2> HIDE DEF row
  <2> QED
    BY <1>1, <1>2, <2>4, <2>6, Moves
<1>8. CASE Done(t)
  BY <1>1, <1>8, GivesUp
<1> QED
  <2>1. \/ HasAccount(r.student, r.year) /\
           Step(t, [r EXCEPT !.pc = "sum", !.fee = account[r.student][r.year].fee,
                             !.discount = account[r.student][r.year].discount], {row})
        \/ NewFee(r) > 0 /\ Step(t, [r EXCEPT !.pc = "sum", !.fee = NewFee(r)], {row})
        \/ Done(t)
    BY DEF LockAccount, r
  <2> QED
    BY <1>6, <1>7, <1>8, <2>1

LEMMA CheckWriteKeeps ==
    ASSUME LedgerInv, NEW t \in Txs, CheckWrite(t), UNCHANGED ledger
    PROVE  LedgerInv'
<1>1. /\ tx[t].pc = "sum" /\ UNCHANGED <<tables, people, ledger>>
      /\ Form(tx[t]) /\ Facts(tx[t], locks[t])
      /\ Step(t, [tx[t] EXCEPT !.pc = "commit"], {}) \/ Done(t)
  BY DEF CheckWrite, LedgerInv
<1>2. ASSUME NEW rec, Moved(tx[t], "commit", rec)
      PROVE  Form(rec) /\ Facts(rec, locks[t] \cup {})
  <2>1. tx[t].kind \in {"pay", "discount"}
    BY <1>1 DEF Form
  <2>2. Form(rec)
    BY <1>1, <1>2, <2>1 DEF Form, Moved
  <2>3. WriteFacts(rec, locks[t])
    BY <1>1, <1>2, <2>1 DEF Facts, WriteFacts, Moved
  <2>4. rec.kind \in {"pay", "discount"} /\ locks[t] \cup {} = locks[t]
    BY <1>2, <2>1 DEF Moved
  <2> QED
    BY <2>2, <2>3, <2>4 DEF Facts, FeeFacts, YearFacts, VoidFacts, ExpenseFacts
<1> QED
  BY <1>1, <1>2, PcMoves, NoRowsFree, GivesUp

\* A void reads the payment under its lock.
LEMMA LockPaymentKeeps ==
    ASSUME LedgerInv, NEW t \in Txs, LockPayment(t), UNCHANGED ledger
    PROVE  LedgerInv'
<1> DEFINE row == PaymentRow(tx[t].value)
<1>1. /\ tx[t].kind = "void" /\ Free(t, row) /\ UNCHANGED <<tables, people, ledger>>
      /\ Form(tx[t]) /\ Facts(tx[t], locks[t])
      /\ \/ Voidable(tx[t].value) /\ Step(t, [tx[t] EXCEPT !.pc = "commit"], {row})
         \/ Done(t)
  BY DEF LockPayment, LedgerInv
<1>2. RowsFree(t, {row})
  BY <1>1, RowsDiffer, RowsAreFree
<1>3. ASSUME NEW rec, Moved(tx[t], "commit", rec), Voidable(tx[t].value)
      PROVE  Form(rec) /\ Facts(rec, locks[t] \cup {row})
  <2>1. rec.kind = "void" /\ rec.pc = "commit" /\ rec.value = tx[t].value /\ Shape(rec)
    BY <1>1, <1>3 DEF Moved
  <2>2. Form(rec)
    BY <2>1 DEF Form
  <2>3. VoidFacts(rec, locks[t] \cup {row})
    BY <1>1, <1>3, <2>1 DEF Facts, VoidFacts, Voidable
  <2> QED
    BY <2>1, <2>2, <2>3 DEF Facts, WriteFacts, FeeFacts, YearFacts, ExpenseFacts
<1> HIDE DEF row
<1> QED
  BY <1>1, <1>2, <1>3, PcMoves, GivesUp

\* So does the void of an expense.
LEMMA LockExpenseKeeps ==
    ASSUME LedgerInv, NEW t \in Txs, LockExpense(t)
    PROVE  LedgerInv'
<1> DEFINE row == ExpenseRow(tx[t].value)
<1>1. /\ tx[t].kind = "unexpense" /\ Free(t, row)
      /\ UNCHANGED <<tables, people, ledger>>
      /\ Form(tx[t]) /\ Facts(tx[t], locks[t])
      /\ \/ ExpenseVoidable(tx[t].value)
            /\ Step(t, [tx[t] EXCEPT !.pc = "commit"], {row})
         \/ Done(t)
  BY DEF LockExpense, LedgerInv, Stays
<1>2. RowsFree(t, {row})
  BY <1>1, RowsDiffer, RowsAreFree
<1>3. ASSUME NEW rec, Moved(tx[t], "commit", rec), ExpenseVoidable(tx[t].value)
      PROVE  Form(rec) /\ Facts(rec, locks[t] \cup {row})
  <2>1. /\ rec.kind = "unexpense" /\ rec.pc = "commit" /\ rec.value = tx[t].value
        /\ Shape(rec)
    BY <1>1, <1>3 DEF Moved
  <2>2. Form(rec)
    BY <2>1 DEF Form
  <2>3. VoidFacts(rec, locks[t] \cup {row})
    BY <1>1, <1>3, <2>1 DEF Facts, VoidFacts, ExpenseVoidable
  <2> QED
    BY <2>1, <2>2, <2>3 DEF Facts, WriteFacts, FeeFacts, YearFacts, ExpenseFacts
<1> HIDE DEF row
<1> QED
  BY <1>1, <1>2, <1>3, PcMoves, GivesUp

\* A fee goes on with the year it holds, whatever accounts it has listed.
LEMMA FeeForm ==
    ASSUME NEW r, NEW held, Form(r), Facts(r, held), NEW rec, NEW rows,
           r.kind \in {"fee", "apply"}, r.pc # "open",
           Shape(rec), rec.kind = r.kind, rec.year = r.year, rec.grade = r.grade,
           rec.value = r.value,
           rec.pc \in {"select", "lock", "check", "update", "commit"}
    PROVE  Form(rec) /\ Facts(rec, held \cup rows)
<1>1. Form(rec)
  BY DEF Form
<1>2. FeeFacts(rec, held \cup rows)
  BY DEF Facts, FeeFacts
<1> QED
  BY <1>1, <1>2 DEF Facts, WriteFacts, YearFacts, VoidFacts, ExpenseFacts

LEMMA SaveFeeKeeps ==
    ASSUME LedgerInv, NEW t \in Txs, SaveFee(t), UNCHANGED ledger
    PROVE  LedgerInv'
<1> DEFINE row == FeeRow(tx[t].year, tx[t].grade)
           p == IF tx[t].kind = "apply" THEN "select" ELSE "commit"
<1>1. /\ tx[t].pc = "shared" /\ tx[t].kind \in {"fee", "apply"} /\ Free(t, row)
      /\ UNCHANGED <<tables, people, ledger>>
      /\ Form(tx[t]) /\ Facts(tx[t], locks[t])
      /\ Step(t, [tx[t] EXCEPT !.pc = p], {row})
  BY DEF SaveFee, LedgerInv
<1>2. RowsFree(t, {row})
  BY <1>1, RowsDiffer, RowsAreFree
<1>3. p \in {"select", "commit"}
  OBVIOUS
<1> HIDE DEF row, p
<1>4. ASSUME NEW rec, Moved(tx[t], p, rec)
      PROVE  Form(rec) /\ Facts(rec, locks[t] \cup {row})
  <2>1. /\ Shape(rec) /\ rec.kind = tx[t].kind /\ rec.year = tx[t].year
        /\ rec.grade = tx[t].grade /\ rec.value = tx[t].value /\ rec.pc = p
    BY <1>4 DEF Moved
  <2> QED
    BY <1>1, <1>3, <2>1, FeeForm
<1> QED
  BY <1>1, <1>2, <1>4, PcMoves

\* A re-pricing lists the accounts it will lock; it relies on none of them.
LEMMA SelectAccountsKeeps ==
    ASSUME LedgerInv, NEW t \in Txs, SelectAccounts(t), UNCHANGED ledger
    PROVE  LedgerInv'
<1> DEFINE r == tx[t]
           rec == [r EXCEPT !.pc = "lock", !.listed = InGrade(r)]
<1>1. /\ r.pc = "select" /\ UNCHANGED <<tables, people, ledger>>
      /\ Form(r) /\ Facts(r, locks[t]) /\ Step(t, rec, {})
  BY DEF SelectAccounts, LedgerInv
<1>2. r.kind \in {"fee", "apply"} /\ Shape(r)
  BY <1>1 DEF Form
<1>3. rec = [r EXCEPT !.pc = "lock", !.listed = InGrade(r)]
  OBVIOUS
<1> HIDE DEF r, rec
<1>4. /\ Shape(rec) /\ rec.kind = r.kind /\ rec.year = r.year /\ rec.grade = r.grade
      /\ rec.value = r.value /\ rec.pc = "lock"
  BY <1>2, <1>3 DEF Shape
<1>5. Form(rec) /\ Facts(rec, locks[t] \cup {})
  BY <1>1, <1>2, <1>4, FeeForm
<1> QED
  BY <1>1, <1>5, Moves, NoRowsFree

\* The rows of the accounts a fee has listed.
LEMMA AccountRowsFree ==
    ASSUME NEW t, NEW rec, \A row \in AccountRows(rec) : Free(t, row)
    PROVE  RowsFree(t, AccountRows(rec))
<1>1. YearShare \notin AccountRows(rec) /\ YearUpdate \notin AccountRows(rec)
  BY RowsDiffer DEF AccountRows
<1> QED
  BY <1>1, RowsAreFree

LEMMA LockAccountsKeeps ==
    ASSUME LedgerInv, NEW t \in Txs, LockAccounts(t), UNCHANGED ledger
    PROVE  LedgerInv'
<1> DEFINE rows == AccountRows(tx[t])
<1>1. /\ tx[t].pc = "lock" /\ UNCHANGED <<tables, people, ledger>>
      /\ Form(tx[t]) /\ Facts(tx[t], locks[t])
      /\ Step(t, [tx[t] EXCEPT !.pc = "check"], rows)
      /\ RowsFree(t, rows)
  BY AccountRowsFree DEF LockAccounts, LedgerInv
<1>2. tx[t].kind \in {"fee", "apply"}
  BY <1>1 DEF Form
<1> HIDE DEF rows
<1>3. ASSUME NEW rec, Moved(tx[t], "check", rec)
      PROVE  Form(rec) /\ Facts(rec, locks[t] \cup rows)
  <2>1. /\ Shape(rec) /\ rec.kind = tx[t].kind /\ rec.year = tx[t].year
        /\ rec.grade = tx[t].grade /\ rec.value = tx[t].value /\ rec.pc = "check"
    BY <1>3 DEF Moved
  <2> QED
    BY <1>1, <1>2, <2>1, FeeForm
<1> QED
  BY <1>1, <1>3, PcMoves

LEMMA CheckAccountsKeeps ==
    ASSUME LedgerInv, NEW t \in Txs, CheckAccounts(t), UNCHANGED ledger
    PROVE  LedgerInv'
<1> DEFINE r == tx[t]
           rec == [r EXCEPT !.pc = "update", !.seen = r.listed]
<1>1. /\ r.pc = "check" /\ UNCHANGED <<tables, people, ledger>>
      /\ Form(r) /\ Facts(r, locks[t]) /\ (Step(t, rec, {}) \/ Done(t))
  BY DEF CheckAccounts, LedgerInv
<1>2. r.kind \in {"fee", "apply"} /\ Shape(r)
  BY <1>1 DEF Form
<1>3. rec = [r EXCEPT !.pc = "update", !.seen = r.listed]
  OBVIOUS
<1> HIDE DEF r, rec
<1>4. /\ Shape(rec) /\ rec.kind = r.kind /\ rec.year = r.year /\ rec.grade = r.grade
      /\ rec.value = r.value /\ rec.pc = "update"
  BY <1>2, <1>3 DEF Shape
<1>5. Form(rec) /\ Facts(rec, locks[t] \cup {})
  BY <1>1, <1>2, <1>4, FeeForm
<1> QED
  BY <1>1, <1>5, Moves, NoRowsFree, GivesUp

\* The UPDATE locks every account that the commit will re-price.
LEMMA UpdateAccountsKeeps ==
    ASSUME LedgerInv, NEW t \in Txs, UpdateAccounts(t), UNCHANGED ledger
    PROVE  LedgerInv'
<1> DEFINE r == tx[t]
           base == [r EXCEPT !.listed = InGrade(r)]
           rec == [base EXCEPT !.pc = "commit"]
           rows == AccountRows(base)
<1>1. /\ base.pc = "update" /\ UNCHANGED <<tables, people, ledger>>
      /\ Form(r) /\ Facts(r, locks[t])
      /\ \A row \in rows : Free(t, row)
      /\ Step(t, rec, rows) \/ Done(t)
  BY DEF UpdateAccounts, LedgerInv
<1>2. /\ base = [r EXCEPT !.listed = InGrade(r)] /\ rec = [base EXCEPT !.pc = "commit"]
      /\ rows = AccountRows(base)
  OBVIOUS
<1> HIDE DEF r, base, rec, rows
<1>3. /\ Shape(r) /\ Shape(base) /\ base.kind = r.kind /\ base.year = r.year
      /\ base.grade = r.grade /\ base.value = r.value /\ base.pc = r.pc
  BY <1>1, <1>2 DEF Form, Shape
<1>4. r.kind \in {"fee", "apply"} /\ r.pc = "update"
  BY <1>1, <1>3 DEF Form
<1>5. /\ Shape(rec) /\ rec.kind = r.kind /\ rec.year = r.year /\ rec.grade = r.grade
      /\ rec.value = r.value /\ rec.pc = "commit"
  <2>1. Moved(base, "commit", rec)
    BY <1>2, <1>3, OnlyPc
  <2> QED
    BY <1>3, <2>1 DEF Moved
<1>6. Form(rec) /\ Facts(rec, locks[t] \cup rows)
  BY <1>1, <1>4, <1>5, FeeForm
<1>7. RowsFree(t, rows)
  BY <1>1, <1>2, AccountRowsFree
<1> QED
  BY <1>1, <1>6, <1>7, Moves, GivesUp

\* The switch waits for all that share the year.
LEMMA LockYearKeeps ==
    ASSUME LedgerInv, NEW t \in Txs, LockYear(t), UNCHANGED ledger
    PROVE  LedgerInv'
<1>1. /\ tx[t].pc = "open" /\ tx[t].kind = "year" /\ Exclusive(t)
      /\ UNCHANGED <<tables, people, ledger>>
      /\ Form(tx[t]) /\ Facts(tx[t], locks[t])
      /\ Step(t, [tx[t] EXCEPT !.pc = "freeze"], {YearUpdate}) \/ Done(t)
  BY DEF LockYear, LedgerInv
<1>2. RowsFree(t, {YearUpdate})
  BY <1>1, RowsDiffer DEF RowsFree, Exclusive
<1>3. ASSUME NEW rec, Moved(tx[t], "freeze", rec)
      PROVE  Form(rec) /\ Facts(rec, locks[t] \cup {YearUpdate})
  <2>1. Shape(rec) /\ rec.kind = "year" /\ rec.pc = "freeze" /\ rec.year = tx[t].year
    BY <1>1, <1>3 DEF Moved
  <2>2. Form(rec)
    BY <1>1, <2>1 DEF Form
  <2> QED
    BY <2>1, <2>2 DEF Facts, WriteFacts, FeeFacts, YearFacts, VoidFacts, ExpenseFacts
<1> QED
  BY <1>1, <1>2, <1>3, PcMoves, GivesUp

\* The frozen accounts are of the year that only the switch can end.
LEMMA FreezeYearKeeps ==
    ASSUME LedgerInv, NEW t \in Txs, FreezeYear(t), UNCHANGED ledger
    PROVE  LedgerInv'
<1> DEFINE r == tx[t]
           f == [s \in Students |-> Frozen(s)]
           rec == [r EXCEPT !.pc = "commit", !.seen = grade, !.frozen = f]
<1>1. /\ r.pc = "freeze" /\ UNCHANGED <<tables, people, ledger>>
      /\ Form(r) /\ Facts(r, locks[t]) /\ Step(t, rec, {})
      /\ account \in [Students -> [Years -> AccountType]] /\ year \in Years
      /\ fees \in [Years -> [Grades -> Amount]] /\ grade \in [Students -> Grades]
      /\ \A s \in Students, y \in Years :
           account[s][y].fee = 0 => account[s][y].discount = 0
  BY DEF FreezeYear, LedgerInv, TablesInv, TypeOK, AccountType
<1>2. r.kind = "year" /\ Shape(r) /\ r.year \in Years
  BY <1>1 DEF Form
<1>3. /\ rec = [r EXCEPT !.pc = "commit", !.seen = grade, !.frozen = f]
      /\ \A s \in Students : f[s] = Frozen(s)
  OBVIOUS
<1>4. ASSUME NEW s \in Students
      PROVE  /\ Frozen(s) \in AccountType
             /\ HasAccount(s, year) => Frozen(s) = account[s][year]
             /\ ~HasAccount(s, year) =>
                  /\ Frozen(s).discount = 0
                  /\ active[s] => Frozen(s).fee = fees[year][grade[s]]
  <2>1. account[s][year] \in AccountType /\ fees[year][grade[s]] \in Amount
    BY <1>1
  <2>2. CASE active[s] /\ ~HasAccount(s, year)
    <3>1. Frozen(s) = [fee |-> fees[year][grade[s]], discount |-> 0]
      BY <2>2, Zenon DEF Frozen
    <3> QED
      BY <2>1, <2>2, <3>1, TuitionAssumption DEF AccountType, Amount
  <2>3. CASE ~(active[s] /\ ~HasAccount(s, year))
    <3>1. Frozen(s) = account[s][year]
      BY <2>3, Zenon DEF Frozen
    <3>2. ~HasAccount(s, year) => account[s][year].discount = 0
      BY <1>1, <2>1 DEF HasAccount, AccountType, Amount
    <3>3. ~HasAccount(s, year) => ~active[s]
      BY <2>3
    <3> QED
      BY <2>1, <3>1, <3>2, <3>3
  <2> QED
    BY <2>2, <2>3
<1> HIDE DEF r, f, rec
<1>5. /\ Shape(rec) /\ rec.kind = "year" /\ rec.pc = "commit" /\ rec.year = r.year
      /\ rec.seen = grade /\ rec.frozen = f
  BY <1>2, <1>3 DEF Shape
<1>6. ASSUME NEW s \in Students PROVE FrozenOK(rec, s)
  <2>1. rec.frozen[s] = Frozen(s) /\ rec.seen[s] = grade[s]
    BY <1>3, <1>5
  <2> QED
    BY <1>4, <2>1 DEF FrozenOK
<1>7. Form(rec)
  BY <1>2, <1>5 DEF Form
<1>8. YearFacts(rec, locks[t])
  BY <1>1, <1>2, <1>5, <1>6 DEF Facts, YearFacts
<1>9. Facts(rec, locks[t] \cup {})
  <2>1. locks[t] \cup {} = locks[t]
    OBVIOUS
  <2> QED
    BY <1>5, <1>8, <2>1 DEF Facts, WriteFacts, FeeFacts, VoidFacts, ExpenseFacts
<1> QED
  BY <1>1, <1>7, <1>9, Moves, NoRowsFree

\* The year an expense is stored in is held from here to its commit.
LEMMA ShareExpenseYearKeeps ==
    ASSUME LedgerInv, NEW t \in Txs, ShareExpenseYear(t)
    PROVE  LedgerInv'
<1> DEFINE r == tx[t]
           e == r.about
           y == IF e.asked = 0 THEN year ELSE e.asked
           a == [e EXCEPT !.year = y]
           rec == [r EXCEPT !.pc = "category", !.about = a]
<1>1. /\ r.pc = "open" /\ r.kind = "expense" /\ Free(t, YearUpdate)
      /\ UNCHANGED <<tables, people, ledger>>
      /\ Form(r) /\ Facts(r, locks[t]) /\ year \in Years
  BY DEF ShareExpenseYear, LedgerInv, Stays, TablesInv, TypeOK
<1>2. Shape(r) /\ e \in Expense
  BY <1>1 DEF Form
<1>3. Step(t, rec, {YearShare})
  BY DEF ShareExpenseYear
<1>4. y \in Years
  BY <1>1, <1>2 DEF Expense
<1>5. a \in Expense /\ a.year = y /\ a.asked = e.asked
  <2>1. a = [e EXCEPT !.year = y]
    OBVIOUS
  <2> HIDE DEF a, e, y
  <2> QED
    BY <1>2, <1>4, <2>1 DEF Expense
<1>6. y = IF a.asked = 0 THEN year ELSE a.asked
  BY <1>5
<1>7. rec = [r EXCEPT !.pc = "category", !.about = a]
  OBVIOUS
<1> HIDE DEF r, e, y, a, rec
<1>8. Shape(rec) /\ rec.kind = "expense" /\ rec.pc = "category" /\ rec.about = a
  BY <1>1, <1>2, <1>7 DEF Shape
<1>9. Form(rec)
  BY <1>5, <1>8 DEF Form
<1>10. Facts(rec, locks[t] \cup {YearShare})
  BY <1>5, <1>6, <1>8
     DEF Facts, WriteFacts, FeeFacts, YearFacts, VoidFacts, ExpenseFacts
<1>11. RowsFree(t, {YearShare})
  BY <1>1, RowsDiffer DEF RowsFree
<1> QED
  BY <1>1, <1>3, <1>9, <1>10, <1>11, Moves

LEMMA CheckExpenseKeeps ==
    ASSUME LedgerInv, NEW t \in Txs, CheckExpense(t)
    PROVE  LedgerInv'
<1>1. /\ tx[t].pc = "category" /\ UNCHANGED <<tables, people, ledger>>
      /\ Form(tx[t]) /\ Facts(tx[t], locks[t])
      /\ Step(t, [tx[t] EXCEPT !.pc = "commit"], {}) \/ Done(t)
  BY DEF CheckExpense, LedgerInv, Stays
<1>2. ASSUME NEW rec, Moved(tx[t], "commit", rec)
      PROVE  Form(rec) /\ Facts(rec, locks[t] \cup {})
  <2>1. tx[t].kind = "expense" /\ tx[t].about \in Expense
    BY <1>1 DEF Form
  <2>2. /\ Shape(rec) /\ rec.kind = "expense" /\ rec.pc = "commit"
        /\ rec.about = tx[t].about /\ locks[t] \cup {} = locks[t]
    BY <1>2, <2>1 DEF Moved
  <2>3. Form(rec)
    BY <2>1, <2>2 DEF Form
  <2>4. ExpenseFacts(rec, locks[t])
    BY <1>1, <2>1, <2>2 DEF Facts, ExpenseFacts
  <2> QED
    BY <2>2, <2>3, <2>4 DEF Facts, WriteFacts, FeeFacts, YearFacts, VoidFacts
<1> QED
  BY <1>1, <1>2, PcMoves, NoRowsFree, GivesUp

\* The report only reads.
LEMMA SummaryKeeps ==
    ASSUME LedgerInv, NEW t \in Txs,
           SumCategories(t) \/ SumMonths(t) \/ SumCollected(t) \/ AnswerSummary(t)
    PROVE  LedgerInv'
<1>1. /\ UNCHANGED <<tables, people, ledger>>
      /\ tx[t].pc \in {"categories", "months", "collected", "answer"}
      /\ Form(tx[t])
  BY DEF SumCategories, SumMonths, SumCollected, AnswerSummary, Stays, LedgerInv
<1>2. Shape(tx[t]) /\ tx[t].kind = "summary"
  BY <1>1 DEF Form
<1>3. ASSUME NEW rec, Shape(rec), rec.kind = "summary",
             rec.pc \in {"categories", "months", "collected", "answer"},
             Step(t, rec, {})
      PROVE  LedgerInv'
  <2>1. Form(rec)
    BY <1>3 DEF Form
  <2>2. Facts(rec, locks[t] \cup {})
    BY <1>3 DEF Facts, WriteFacts, FeeFacts, YearFacts, VoidFacts, ExpenseFacts
  <2> QED
    BY <1>1, <1>3, <2>1, <2>2, Moves, NoRowsFree
<1>4. ASSUME NEW p \in {"months", "collected"}, NEW a,
             Step(t, [tx[t] EXCEPT !.pc = p, !.about = a], {})
      PROVE  LedgerInv'
  <2> DEFINE rec == [tx[t] EXCEPT !.pc = p, !.about = a]
  <2>1. rec = [tx[t] EXCEPT !.pc = p, !.about = a] /\ Step(t, rec, {})
    BY <1>4
  <2> HIDE DEF rec
  <2>2. Shape(rec) /\ rec.kind = "summary" /\ rec.pc = p
    BY <1>2, <2>1 DEF Shape
  <2> QED
    BY <1>3, <2>1, <2>2
<1>5. ASSUME NEW n, Step(t, [tx[t] EXCEPT !.pc = "answer", !.fee = n], {})
      PROVE  LedgerInv'
  <2> DEFINE rec == [tx[t] EXCEPT !.pc = "answer", !.fee = n]
  <2>1. rec = [tx[t] EXCEPT !.pc = "answer", !.fee = n] /\ Step(t, rec, {})
    BY <1>5
  <2> HIDE DEF rec
  <2>2. Shape(rec) /\ rec.kind = "summary" /\ rec.pc = "answer"
    BY <1>2, <2>1 DEF Shape
  <2> QED
    BY <1>3, <2>1, <2>2
<1>6. CASE SumCategories(t)
  <2>1. \E a : Step(t, [tx[t] EXCEPT !.pc = "months", !.about = a], {})
    BY <1>6, Zenon DEF SumCategories
  <2> QED
    BY <1>4, <2>1
<1>7. CASE SumMonths(t)
  <2>1. \E a : Step(t, [tx[t] EXCEPT !.pc = "collected", !.about = a], {})
    BY <1>7, Zenon DEF SumMonths
  <2> QED
    BY <1>4, <2>1
<1>8. CASE SumCollected(t)
  <2>1. \E n : Step(t, [tx[t] EXCEPT !.pc = "answer", !.fee = n], {})
    BY <1>8, Zenon DEF SumCollected
  <2> QED
    BY <1>5, <2>1
<1>9. CASE AnswerSummary(t)
  BY <1>1, <1>9, GivesUp DEF AnswerSummary
<1> QED
  BY <1>6, <1>7, <1>8, <1>9

-----------------------------------------------------------------------------
(* The commits                                                             *)

\* No fee and no account's fee of a past year changes.
PastKept ==
    \A y \in Years \ {year} :
        /\ fees'[y] = fees[y]
        /\ \A s \in Students : account'[s][y].fee = account[s][y].fee

\* What the others rely on outlives a commit that leaves the year, the past
\* and the rows they are about to void alone.
LEMMA FactsCommit ==
    ASSUME NEW a, NEW b, Form(a), Facts(a, b), UNCHANGED year, PastKept,
           YearUpdate \notin b \/ UNCHANGED <<fees, account, active>>,
           \A i \in DOMAIN payments : i \in DOMAIN payments' /\
               (PaymentRow(i) \in b => payments'[i] = payments[i]),
           \A i \in DOMAIN expenses : i \in DOMAIN expenses' /\
               (ExpenseRow(i) \in b => expenses'[i] = expenses[i])
    PROVE  Facts(a, b)'
<1>1. FeeFacts(a, b)' /\ ExpenseFacts(a, b)'
  BY DEF Facts, FeeFacts, ExpenseFacts
<1>2. VoidFacts(a, b)'
  BY DEF Facts, VoidFacts
<1>3. WriteFacts(a, b)'
  <2>1. CASE a.kind \in {"pay", "discount"}
    <3>1. a.student \in Students /\ a.year \in Years
      BY <2>1 DEF Form
    <3>2. a.year # year => account'[a.student][a.year].fee = account[a.student][a.year].fee
      BY <3>1 DEF PastKept
    <3> QED
      BY <2>1, <3>2 DEF Facts, WriteFacts
  <2> QED
    BY <2>1 DEF WriteFacts
<1>4. YearFacts(a, b)'
  <2>1. CASE YearUpdate \notin b
    BY <2>1 DEF Facts, YearFacts
  <2>2. CASE UNCHANGED <<fees, account, active>>
    <3>1. ASSUME NEW s \in Students, FrozenOK(a, s) PROVE FrozenOK(a, s)'
      BY <2>2, <3>1 DEF FrozenOK, HasAccount
    <3> QED
      BY <3>1 DEF Facts, YearFacts
  <2> QED
    BY <2>1, <2>2
<1> QED
  BY <1>1, <1>2, <1>3, <1>4 DEF Facts

\* The same for each of the others.
LEMMA OthersCommit ==
    ASSUME LedgerInv, NEW t \in Txs, Done(t), UNCHANGED year, PastKept,
           YearShare \in locks[t] \/ UNCHANGED <<fees, account, active>>,
           \A i \in DOMAIN payments : i \in DOMAIN payments' /\
               (PaymentRow(i) \notin locks[t] => payments'[i] = payments[i]),
           \A i \in DOMAIN expenses : i \in DOMAIN expenses' /\
               (ExpenseRow(i) \notin locks[t] => expenses'[i] = expenses[i])
    PROVE  \A u \in Txs \ {t} : Facts(tx[u], locks[u])'
<1> SUFFICES ASSUME NEW u \in Txs \ {t} PROVE Facts(tx[u], locks[u])'
  OBVIOUS
<1>1. /\ tx'[u] = tx[u] /\ locks'[u] = locks[u]
      /\ Form(tx[u]) /\ Facts(tx[u], locks[u])
  BY DEF Done, LedgerInv
<1>2. /\ locks[t] \cap locks[u] \subseteq {YearShare}
      /\ YearUpdate \in locks[u] => YearShare \notin locks[t]
  BY DEF LedgerInv, LocksInv
<1>3. /\ \A i : PaymentRow(i) \in locks[u] => PaymentRow(i) \notin locks[t]
      /\ \A i : ExpenseRow(i) \in locks[u] => ExpenseRow(i) \notin locks[t]
  BY <1>2, RowsDiffer
<1>4. \A a, b : /\ Form(a) /\ Facts(a, b)
                /\ YearUpdate \notin b \/ UNCHANGED <<fees, account, active>>
                /\ \A i \in DOMAIN payments : PaymentRow(i) \in b =>
                     payments'[i] = payments[i]
                /\ \A i \in DOMAIN expenses : ExpenseRow(i) \in b =>
                     expenses'[i] = expenses[i]
                => Facts(a, b)'
  BY FactsCommit
<1> QED
  BY <1>1, <1>2, <1>3, <1>4

\* A payment or discount writes an account of its own year, of a past one
\* with the fee it had, and appends at most one payment.
LEMMA CommitWriteKeeps ==
    ASSUME LedgerInv, NEW t \in Txs, CommitWrite(t), UNCHANGED ledger
    PROVE  LedgerInv' /\ PastKept /\ PaymentsStay(payments, payments')
<1> DEFINE r == tx[t]
           new == [fee |-> r.fee, discount |-> NewDiscount(r)]
           pay == [student |-> r.student, year |-> r.year, amount |-> r.value,
                   voidedBy |-> 0]
<1>1. /\ r.pc = "commit" /\ r.kind \in {"pay", "discount"}
      /\ account' = [account EXCEPT ![r.student][r.year] = new]
      /\ UNCHANGED payments \/ payments' = Append(payments, pay)
      /\ Done(t) /\ UNCHANGED <<year, fees, people, ledger>>
      /\ Form(r) /\ Facts(r, locks[t])
  BY DEF CommitWrite, LedgerInv
<1>2. /\ account \in [Students -> [Years -> AccountType]]
      /\ fees \in [Years -> [Grades -> Amount]]
      /\ payments \in Seq(Payment) /\ year \in Years
      /\ \A s \in Students, y \in Years :
           account[s][y].fee = 0 => account[s][y].discount = 0
      /\ DOMAIN payments = 1..Len(payments) /\ Len(payments) \in Nat
  BY DEF LedgerInv, TablesInv, TypeOK, AccountType, Payment
<1>3. /\ r.student \in Students /\ r.year \in Years /\ r.value \in Amount
      /\ r.discount \in Amount
  BY <1>1 DEF Form
<1>4. /\ YearShare \in locks[t] /\ r.fee \in Amount \ {0}
      /\ r.year # year => r.fee = account[r.student][r.year].fee
  BY <1>1 DEF Facts, WriteFacts
<1>5. new \in AccountType /\ new.fee = r.fee
  BY <1>3, <1>4 DEF NewDiscount, AccountType
<1>6. pay \in Payment
  BY <1>3 DEF Payment
<1> HIDE DEF r, new, pay
<1>7. /\ account' \in [Students -> [Years -> AccountType]]
      /\ \A s \in Students, y \in Years :
           account'[s][y] = IF s = r.student /\ y = r.year THEN new ELSE account[s][y]
  BY <1>1, <1>2, <1>3, <1>5
<1>8. PastKept
  BY <1>1, <1>2, <1>3, <1>4, <1>5, <1>7 DEF PastKept
<1>9. /\ payments' \in Seq(Payment) /\ Len(payments') >= Len(payments)
      /\ \A i \in DOMAIN payments : i \in DOMAIN payments' /\ payments'[i] = payments[i]
  <2>1. CASE UNCHANGED payments
    BY <1>2, <2>1
  <2>2. CASE payments' = Append(payments, pay)
    <3>1. /\ payments' \in Seq(Payment) /\ Len(payments') = Len(payments) + 1
      BY <1>2, <1>6, <2>2
    <3>2. DOMAIN payments' = 1..Len(payments')
      BY <3>1
    <3>3. \A i \in 1..Len(payments) : payments'[i] = payments[i]
      BY <1>2, <1>6, <2>2
    <3> QED
      BY <1>2, <3>1, <3>2, <3>3
  <2> QED
    BY <1>1, <2>1, <2>2
<1>10. PaymentsStay(payments, payments')
  BY <1>9 DEF PaymentsStay
<1>11. TablesInv'
  <2>1. \A s \in Students, y \in Years :
          account'[s][y].fee = 0 => account'[s][y].discount = 0
    BY <1>2, <1>4, <1>5, <1>7
  <2>2. UNCHANGED <<year, fees, grade, active, moves, begun, expenses, categories>>
    BY <1>1 DEF people, ledger
  <2> QED
    BY <1>7, <1>9, <2>1, <2>2
       DEF LedgerInv, TablesInv, TypeOK, AccountType, Payment
<1>12. \A u \in Txs \ {t} : Facts(tx[u], locks[u])'
  <2>1. UNCHANGED expenses
    BY <1>1 DEF ledger
  <2> QED
    BY <1>1, <1>4, <1>8, <1>9, <2>1, OthersCommit
<1> QED
  BY <1>1, <1>8, <1>10, <1>11, <1>12, Finishes

\* A void marks the one row it holds, which was not void.
LEMMA CommitVoidKeeps ==
    ASSUME LedgerInv, NEW t \in Txs, CommitVoid(t), UNCHANGED ledger
    PROVE  LedgerInv' /\ PastKept /\ PaymentsStay(payments, payments')
<1> DEFINE n == tx[t].value
<1>1. /\ tx[t].pc = "commit" /\ tx[t].kind = "void"
      /\ payments' = [payments EXCEPT ![n].voidedBy = t]
      /\ Done(t) /\ UNCHANGED <<year, fees, account, people, ledger>>
      /\ Facts(tx[t], locks[t])
  BY DEF CommitVoid, LedgerInv
<1>2. /\ payments \in Seq(Payment) /\ DOMAIN payments = 1..Len(payments)
      /\ Len(payments) \in Nat
  BY DEF LedgerInv, TablesInv, TypeOK, Payment
<1>3. n \in DOMAIN payments /\ PaymentRow(n) \in locks[t] /\ payments[n].voidedBy = 0
  BY <1>1 DEF Facts, VoidFacts
<1> HIDE DEF n
<1>4. payments[n] \in Payment
  BY <1>2, <1>3
<1>5. [payments[n] EXCEPT !.voidedBy = t] \in Payment
      /\ [payments[n] EXCEPT !.voidedBy = t].amount = payments[n].amount
  BY <1>4 DEF Payment
<1>6. /\ payments' \in Seq(Payment) /\ DOMAIN payments' = DOMAIN payments
      /\ Len(payments') = Len(payments)
      /\ \A i \in DOMAIN payments : i # n => payments'[i] = payments[i]
      /\ payments'[n].amount = payments[n].amount
  <2>1. payments' = [payments EXCEPT ![n] = [payments[n] EXCEPT !.voidedBy = t]]
    BY <1>1
  <2> DEFINE m == [payments[n] EXCEPT !.voidedBy = t]
  <2>2. m \in Payment /\ m.amount = payments[n].amount
        /\ payments' = [payments EXCEPT ![n] = m]
    BY <1>5, <2>1
  <2> HIDE DEF m
  <2> QED
    BY <1>2, <1>3, <2>2
<1>7. PastKept
  BY <1>1 DEF PastKept
<1>8. PaymentsStay(payments, payments')
  BY <1>2, <1>3, <1>6 DEF PaymentsStay
<1>9. TablesInv'
  <2>1. UNCHANGED <<year, fees, account, grade, active, moves, begun, expenses,
                    categories>>
    BY <1>1 DEF people, ledger
  <2> QED
    BY <1>6, <2>1 DEF LedgerInv, TablesInv, TypeOK, Payment
<1>10. \A u \in Txs \ {t} : Facts(tx[u], locks[u])'
  <2>1. UNCHANGED <<fees, account, active, expenses>>
    BY <1>1 DEF ledger, people
  <2>2. \A i \in DOMAIN payments : i \in DOMAIN payments' /\
          (PaymentRow(i) \notin locks[t] => payments'[i] = payments[i])
    BY <1>3, <1>6
  <2> QED
    BY <1>1, <1>7, <2>1, <2>2, OthersCommit
<1> QED
  BY <1>1, <1>7, <1>8, <1>9, <1>10, Finishes

\* A fee and the accounts it re-prices are of the current year.
LEMMA CommitFeeKeeps ==
    ASSUME LedgerInv, NEW t \in Txs, CommitFee(t), UNCHANGED ledger
    PROVE  LedgerInv' /\ PastKept
<1> DEFINE r == tx[t]
<1>1. /\ r.pc = "commit" /\ r.kind \in {"fee", "apply"}
      /\ fees' = [fees EXCEPT ![r.year][r.grade] = r.value]
      /\ account' = [s \in Students |-> IF s \in r.listed
                       THEN [account[s] EXCEPT ![r.year].fee = r.value]
                       ELSE account[s]]
      /\ Done(t) /\ UNCHANGED <<year, payments, people, ledger>>
      /\ Form(r) /\ Facts(r, locks[t])
  BY DEF CommitFee, LedgerInv
<1>2. /\ account \in [Students -> [Years -> AccountType]]
      /\ fees \in [Years -> [Grades -> Amount]] /\ year \in Years
      /\ \A s \in Students, y \in Years :
           account[s][y].fee = 0 => account[s][y].discount = 0
  BY DEF LedgerInv, TablesInv, TypeOK, AccountType
<1>3. /\ r.year = year /\ r.grade \in Grades /\ r.value \in Amount \ {0}
      /\ YearShare \in locks[t]
  BY <1>1 DEF Form, Facts, FeeFacts
<1> HIDE DEF r
<1>4. fees' \in [Years -> [Grades -> Amount]]
      /\ \A y \in Years \ {year} : fees'[y] = fees[y]
  BY <1>1, <1>2, <1>3
<1>5. ASSUME NEW s \in Students
      PROVE  /\ account'[s] \in [Years -> AccountType]
             /\ \A y \in Years \ {year} : account'[s][y] = account[s][y]
             /\ account'[s][year].fee = 0 => account'[s][year].discount = 0
  <2>1. CASE s \in r.listed
    <3> DEFINE a == account[s][year]
               m == [a EXCEPT !.fee = r.value]
    <3>1. a \in AccountType
      BY <1>2
    <3>2. account'[s] = [account[s] EXCEPT ![year] = m]
      BY <1>1, <1>3, <2>1
    <3>3. m = [a EXCEPT !.fee = r.value]
      OBVIOUS
    <3> HIDE DEF a, m
    <3>4. m \in AccountType /\ m.fee = r.value
      BY <1>3, <3>1, <3>3 DEF AccountType
    <3> QED
      BY <1>2, <1>3, <3>2, <3>4
  <2>2. CASE s \notin r.listed
    BY <1>1, <1>2, <2>2
  <2> QED
    BY <2>1, <2>2
<1>6. PastKept
  BY <1>4, <1>5 DEF PastKept
<1>7. TablesInv'
  <2>1. account' \in [Students -> [Years -> AccountType]]
    BY <1>1, <1>5
  <2>2. \A s \in Students, y \in Years :
          account'[s][y].fee = 0 => account'[s][y].discount = 0
    BY <1>2, <1>5
  <2>3. UNCHANGED <<year, payments, grade, active, moves, begun, expenses, categories>>
    BY <1>1 DEF people, ledger
  <2> QED
    BY <1>4, <2>1, <2>2, <2>3 DEF LedgerInv, TablesInv, TypeOK, AccountType
<1>8. \A u \in Txs \ {t} : Facts(tx[u], locks[u])'
  <2>1. UNCHANGED <<payments, expenses>>
    BY <1>1 DEF ledger
  <2> QED
    BY <1>1, <1>3, <1>6, <2>1, OthersCommit
<1> QED
  BY <1>1, <1>6, <1>7, <1>8, Finishes

\* What SwitchKeepsFigures says of one step.
SwitchKept ==
    \A t \in Txs :
        year' # year /\ tx[t].kind = "year" /\ tx[t].pc = "commit" =>
        \A s \in Students : active[s] /\ tx[t].seen[s] = grade[s] =>
            /\ account'[s][year].fee = ShownFee(s, year)
            /\ account'[s][year].discount = account[s][year].discount

\* The switch writes what it has frozen and lets nobody's year go by: nobody
\* else holds it.
LEMMA CommitYearKeeps ==
    ASSUME LedgerInv, NEW t \in Txs, CommitYear(t), UNCHANGED ledger
    PROVE  LedgerInv' /\ PastKept /\ SwitchKept
<1> DEFINE r == tx[t]
<1>1. /\ r.pc = "commit" /\ r.kind = "year"
      /\ account' = [s \in Students |-> [account[s] EXCEPT ![year] = r.frozen[s]]]
      /\ year' = r.year
      /\ Done(t) /\ UNCHANGED <<fees, payments, people, ledger>>
      /\ Form(r) /\ Facts(r, locks[t])
  BY DEF CommitYear, LedgerInv
<1>2. /\ account \in [Students -> [Years -> AccountType]] /\ year \in Years
      /\ \A s \in Students, y \in Years :
           account[s][y].fee = 0 => account[s][y].discount = 0
  BY DEF LedgerInv, TablesInv, TypeOK, AccountType
<1>3. /\ r.year \in Years /\ YearUpdate \in locks[t]
      /\ \A s \in Students : FrozenOK(r, s)
  BY <1>1 DEF Form, Facts, YearFacts
<1> HIDE DEF r
<1>4. ASSUME NEW s \in Students
      PROVE  /\ account'[s] \in [Years -> AccountType]
             /\ \A y \in Years \ {year} : account'[s][y] = account[s][y]
             /\ account'[s][year] = r.frozen[s]
             /\ account'[s][year].discount = account[s][year].discount
             /\ account'[s][year].fee = 0 => account'[s][year].discount = 0
  <2>1. FrozenOK(r, s) /\ account[s] \in [Years -> AccountType]
    BY <1>2, <1>3
  <2>2. /\ account'[s] = [account[s] EXCEPT ![year] = r.frozen[s]]
        /\ r.frozen[s] \in AccountType
    BY <1>1, <2>1 DEF FrozenOK
  <2>3. /\ account'[s] \in [Years -> AccountType]
        /\ \A y \in Years \ {year} : account'[s][y] = account[s][y]
        /\ account'[s][year] = r.frozen[s]
    BY <1>2, <2>1, <2>2
  <2>4. r.frozen[s].discount = account[s][year].discount
    <3>1. CASE HasAccount(s, year)
      BY <2>1, <3>1 DEF FrozenOK
    <3>2. CASE ~HasAccount(s, year)
      <4>1. account[s][year].fee = 0
        BY <1>2, <3>2 DEF HasAccount, AccountType, Amount
      <4> QED
        BY <1>2, <2>1, <3>2, <4>1 DEF FrozenOK
    <3> QED
      BY <3>1, <3>2
  <2>5. r.frozen[s].fee = 0 => r.frozen[s].discount = 0
    <3>1. CASE HasAccount(s, year)
      BY <1>2, <2>1, <3>1 DEF FrozenOK
    <3>2. CASE ~HasAccount(s, year)
      BY <2>1, <3>2 DEF FrozenOK
    <3> QED
      BY <3>1, <3>2
  <2> QED
    BY <2>3, <2>4, <2>5
<1>5. PastKept
  BY <1>1, <1>4 DEF PastKept
<1>6. ASSUME NEW u \in Txs \ {t}
      PROVE  YearUpdate \notin locks[u] /\ YearShare \notin locks[u]
  BY <1>3, <1>6, RowsDiffer DEF LedgerInv, LocksInv
<1>7. SwitchKept
  <2> SUFFICES ASSUME NEW u \in Txs, tx[u].kind = "year", tx[u].pc = "commit",
                      NEW s \in Students, active[s], tx[u].seen[s] = grade[s]
               PROVE  /\ account'[s][year].fee = ShownFee(s, year)
                      /\ account'[s][year].discount = account[s][year].discount
    BY DEF SwitchKept
  <2>1. Facts(tx[u], locks[u])
    BY DEF LedgerInv
  <2>2. YearUpdate \in locks[u]
    BY <2>1 DEF Facts, YearFacts
  <2>3. u = t
    BY <1>6, <2>2
  <2>4. FrozenOK(r, s) /\ r.seen[s] = grade[s]
    BY <1>3, <2>3 DEF r
  <2>5. r.frozen[s].fee = ShownFee(s, year)
    <3>1. CASE HasAccount(s, year)
      BY <2>4, <3>1 DEF FrozenOK, ShownFee
    <3>2. CASE ~HasAccount(s, year)
      BY <2>4, <3>2 DEF FrozenOK, ShownFee
    <3> QED
      BY <3>1, <3>2
  <2> QED
    BY <1>4, <2>5
<1>8. TablesInv'
  <2>1. account' \in [Students -> [Years -> AccountType]]
    BY <1>1, <1>4
  <2>2. \A s \in Students, y \in Years :
          account'[s][y].fee = 0 => account'[s][y].discount = 0
    BY <1>2, <1>4
  <2>3. UNCHANGED <<fees, payments, grade, active, moves, begun, expenses, categories>>
    BY <1>1 DEF people, ledger
  <2> QED
    BY <1>1, <1>3, <2>1, <2>2, <2>3 DEF LedgerInv, TablesInv, TypeOK, AccountType
<1>9. \A u \in Txs \ {t} : Facts(tx[u], locks[u])'
  <2> SUFFICES ASSUME NEW u \in Txs \ {t} PROVE Facts(tx[u], locks[u])'
    OBVIOUS
  <2>1. /\ tx'[u] = tx[u] /\ locks'[u] = locks[u] /\ Facts(tx[u], locks[u])
        /\ Form(tx[u])
    BY <1>1 DEF Done, LedgerInv
  <2>2. \A a, b : Facts(a, b) /\ Form(a) /\ YearUpdate \notin b /\ YearShare \notin b
                  => Facts(a, b)'
    <3> SUFFICES ASSUME NEW a, NEW b, Facts(a, b), Form(a), YearUpdate \notin b,
                        YearShare \notin b
                 PROVE  Facts(a, b)'
      OBVIOUS
    <3>1. UNCHANGED <<payments, expenses>>
      BY <1>1 DEF ledger
    <3>2. WriteFacts(a, b)'
      BY DEF Facts, WriteFacts, Form
    <3>3. VoidFacts(a, b)'
      BY <3>1 DEF Facts, VoidFacts
    <3>4. FeeFacts(a, b)' /\ YearFacts(a, b)' /\ ExpenseFacts(a, b)'
      BY DEF Facts, FeeFacts, YearFacts, ExpenseFacts
    <3> QED
      BY <3>2, <3>3, <3>4 DEF Facts
  <2> QED
    BY <1>6, <2>1, <2>2
<1> QED
  BY <1>1, <1>5, <1>7, <1>8, <1>9, Finishes

\* What ExpenseInItsYear says of one step.
ExpenseYearKept ==
    Len(expenses') > Len(expenses) =>
        LET e == expenses'[Len(expenses')]
        IN  e.year = IF e.asked = 0 THEN year' ELSE e.asked

LEMMA CommitExpenseKeeps ==
    ASSUME LedgerInv, NEW t \in Txs, CommitExpense(t)
    PROVE  LedgerInv' /\ PaymentsStay(expenses, expenses') /\ ExpenseYearKept
<1> DEFINE e == tx[t].about
<1>1. /\ tx[t].pc = "commit" /\ tx[t].kind = "expense"
      /\ expenses' = Append(expenses, e)
      /\ Done(t) /\ UNCHANGED <<tables, people, categories>>
      /\ Form(tx[t]) /\ Facts(tx[t], locks[t])
  BY DEF CommitExpense, LedgerInv, Stays
<1>2. /\ expenses \in Seq(Expense) /\ Len(expenses) \in Nat
      /\ DOMAIN expenses = 1..Len(expenses)
  BY DEF LedgerInv, TablesInv
<1>3. e \in Expense /\ e.year = IF e.asked = 0 THEN year ELSE e.asked
  BY <1>1 DEF Form, Facts, ExpenseFacts
<1> HIDE DEF e
<1>4. /\ expenses' \in Seq(Expense) /\ Len(expenses') = Len(expenses) + 1
      /\ expenses'[Len(expenses) + 1] = e
      /\ \A i \in 1..Len(expenses) : expenses'[i] = expenses[i]
  BY <1>1, <1>2, <1>3
<1>5. \A i \in DOMAIN expenses : i \in DOMAIN expenses' /\ expenses'[i] = expenses[i]
  <2>1. DOMAIN expenses' = 1..Len(expenses')
    BY <1>4
  <2> QED
    BY <1>2, <1>4, <2>1
<1>6. PaymentsStay(expenses, expenses')
  BY <1>2, <1>4, <1>5 DEF PaymentsStay
<1>7. UNCHANGED <<year, fees, account, payments, grade, active, moves, begun>>
  BY <1>1 DEF tables, people
<1>8. ExpenseYearKept
  BY <1>3, <1>4, <1>7 DEF ExpenseYearKept
<1>9. TablesInv'
  BY <1>1, <1>4, <1>7 DEF LedgerInv, TablesInv, TypeOK
<1>10. PastKept
  BY <1>7 DEF PastKept
<1>11. \A u \in Txs \ {t} : Facts(tx[u], locks[u])'
  BY <1>1, <1>5, <1>7, <1>10, OthersCommit
<1> QED
  BY <1>1, <1>6, <1>8, <1>9, <1>11, Finishes

\* A void marks an expense that was not void under its lock.
LEMMA CommitVoidExpenseKeeps ==
    ASSUME LedgerInv, NEW t \in Txs, CommitVoidExpense(t)
    PROVE  LedgerInv' /\ PaymentsStay(expenses, expenses') /\ ExpenseYearKept
<1> DEFINE n == tx[t].value
<1>1. /\ tx[t].pc = "commit" /\ tx[t].kind = "unexpense"
      /\ expenses' = [expenses EXCEPT ![n].voidedBy = t]
      /\ Done(t) /\ UNCHANGED <<tables, people, categories>>
      /\ Facts(tx[t], locks[t])
  BY DEF CommitVoidExpense, LedgerInv, Stays
<1>2. /\ expenses \in Seq(Expense) /\ Len(expenses) \in Nat
      /\ DOMAIN expenses = 1..Len(expenses)
  BY DEF LedgerInv, TablesInv
<1>3. n \in DOMAIN expenses /\ ExpenseRow(n) \in locks[t] /\ expenses[n].voidedBy = 0
  BY <1>1 DEF Facts, VoidFacts
<1> DEFINE m == [expenses[n] EXCEPT !.voidedBy = t]
<1>4. m = [expenses[n] EXCEPT !.voidedBy = t] /\ expenses' = [expenses EXCEPT ![n] = m]
  BY <1>1
<1> HIDE DEF n, m
<1>5. m \in Expense /\ m.amount = expenses[n].amount
  <2>1. expenses[n] \in Expense
    BY <1>2, <1>3
  <2> QED
    BY <1>4, <2>1 DEF Expense
<1>6. /\ expenses' \in Seq(Expense) /\ DOMAIN expenses' = DOMAIN expenses
      /\ Len(expenses') = Len(expenses)
      /\ \A i \in DOMAIN expenses : i # n => expenses'[i] = expenses[i]
      /\ expenses'[n] = m
  BY <1>2, <1>3, <1>4, <1>5
<1>7. PaymentsStay(expenses, expenses')
  BY <1>2, <1>3, <1>5, <1>6 DEF PaymentsStay
<1>8. ExpenseYearKept
  BY <1>2, <1>6 DEF ExpenseYearKept
<1>9. UNCHANGED <<year, fees, account, payments, grade, active, moves, begun>>
  BY <1>1 DEF tables, people
<1>10. TablesInv'
  BY <1>1, <1>6, <1>9 DEF LedgerInv, TablesInv, TypeOK
<1>11. PastKept
  BY <1>9 DEF PastKept
<1>12. \A i \in DOMAIN expenses : i \in DOMAIN expenses' /\
         (ExpenseRow(i) \notin locks[t] => expenses'[i] = expenses[i])
  BY <1>3, <1>6
<1>13. \A u \in Txs \ {t} : Facts(tx[u], locks[u])'
  BY <1>1, <1>9, <1>11, <1>12, OthersCommit
<1> QED
  BY <1>1, <1>7, <1>8, <1>10, <1>13, Finishes

\* Edits of students, new categories and steps that change nothing leave
\* every transaction as it is.
LEMMA WorldKeeps ==
    ASSUME LedgerInv, UNCHANGED <<tables, tx, locks, expenses>>,
           begun' \in 0..MaxRequests, moves' \in 0..MaxMoves,
           grade' \in [Students -> Grades], active' \in [Students -> BOOLEAN],
           categories' \subseteq Categories,
           \A s \in Students : active'[s] => active[s]
    PROVE  LedgerInv'
<1>1. UNCHANGED <<year, fees, account, payments, expenses>>
  BY DEF tables
<1>2. TablesInv'
  BY <1>1 DEF LedgerInv, TablesInv, TypeOK
<1>3. \A a, b : Facts(a, b) => Facts(a, b)'
  BY <1>1, FactsRead
<1>4. ASSUME NEW u \in Txs PROVE Form(tx'[u]) /\ Facts(tx[u], locks[u])'
  <2>1. /\ tx'[u] = tx[u] /\ locks'[u] = locks[u]
        /\ Form(tx[u]) /\ Facts(tx[u], locks[u])
    BY DEF LedgerInv
  <2> QED
    BY <1>3, <2>1
<1> QED
  BY <1>2, <1>4 DEF LedgerInv, LocksInv

\* Students moved or deleted, and new categories.
LEMMA WorldSteps ==
    ASSUME LedgerInv,
           \/ \E s \in Students, g \in Grades : MoveStudent(s, g) /\ UNCHANGED ledger
           \/ \E s \in Students : DeleteStudent(s) /\ UNCHANGED ledger
           \/ \E t \in Txs, c \in Categories : AddCategory(t, c)
           \/ UNCHANGED allVars
    PROVE  LedgerInv' /\ UNCHANGED <<year, fees, account, payments, expenses>>
<1>0. /\ grade \in [Students -> Grades] /\ active \in [Students -> BOOLEAN]
      /\ begun \in 0..MaxRequests /\ moves \in 0..MaxMoves
      /\ categories \subseteq Categories /\ MaxRequests \in Nat /\ MaxMoves \in Nat
  BY TuitionAssumption DEF LedgerInv, TablesInv, TypeOK
<1>1. CASE \E s \in Students, g \in Grades : MoveStudent(s, g) /\ UNCHANGED ledger
  <2>1. /\ UNCHANGED <<tables, active, begun, tx, locks, ledger>>
        /\ grade' \in [Students -> Grades] /\ moves < MaxMoves /\ moves' = moves + 1
    BY <1>0, <1>1 DEF MoveStudent
  <2>2. moves' \in 0..MaxMoves
    BY <1>0, <2>1
  <2> QED
    BY <1>0, <2>1, <2>2, WorldKeeps DEF ledger, tables
<1>2. CASE \E s \in Students : DeleteStudent(s) /\ UNCHANGED ledger
  <2>1. PICK s \in Students : DeleteStudent(s) /\ UNCHANGED ledger
    BY <1>2
  <2>2. /\ UNCHANGED <<tables, grade, begun, tx, locks, ledger>>
        /\ moves < MaxMoves /\ moves' = moves + 1
        /\ active' = [active EXCEPT ![s] = FALSE]
    BY <2>1 DEF DeleteStudent
  <2>3. moves' \in 0..MaxMoves
    BY <1>0, <2>2
  <2>4. active' \in [Students -> BOOLEAN]
    BY <1>0, <2>2
  <2>5. \A z \in Students : active'[z] => active[z]
    BY <1>0, <2>2
  <2> QED
    BY <1>0, <2>2, <2>3, <2>4, <2>5, WorldKeeps DEF ledger, tables
<1>3. CASE \E t \in Txs, c \in Categories : AddCategory(t, c)
  <2>1. /\ UNCHANGED <<tables, grade, active, moves, tx, locks, expenses>>
        /\ begun < MaxRequests /\ begun' = begun + 1 /\ categories' \subseteq Categories
    BY <1>0, <1>3 DEF AddCategory, Accepts
  <2>2. begun' \in 0..MaxRequests
    BY <1>0, <2>1
  <2> QED
    BY <1>0, <2>1, <2>2, WorldKeeps DEF tables
<1>4. CASE UNCHANGED allVars
  <2>1. UNCHANGED <<tables, grade, active, moves, begun, tx, locks, ledger>>
    BY <1>4 DEF allVars, vars, people
  <2> QED
    BY <1>0, <2>1, WorldKeeps DEF ledger, tables
<1> QED
  BY <1>1, <1>2, <1>3, <1>4

-----------------------------------------------------------------------------
(* The theorems                                                            *)

LEMMA LedgerInit == ASSUME ExpensesInit PROVE LedgerInv
<1>1. TypeOK
  <2>1. active \in [Students -> BOOLEAN]
    BY Zenon DEF ExpensesInit, Init
  <2>2. fees \in [Years -> [Grades -> Amount]] /\ year \in Years
        /\ grade \in [Students -> Grades]
    BY TuitionAssumption DEF ExpensesInit, Init, Amount
  <2>3. account \in [Students -> [Years -> [fee : Amount, discount : Amount]]]
    BY TuitionAssumption DEF ExpensesInit, Init, Amount, NoAccount
  <2>4. payments = <<>> /\ moves \in 0..MaxMoves /\ begun \in 0..MaxRequests
    BY TuitionAssumption DEF ExpensesInit, Init
  <2> QED
    BY <2>1, <2>2, <2>3, <2>4 DEF TypeOK
<1>2. TablesInv
  <2>1. \A s \in Students, y \in Years : account[s][y].discount = 0
    BY DEF ExpensesInit, Init, NoAccount
  <2>2. expenses = <<>> /\ categories \subseteq Categories
    BY ExpensesAssumption DEF ExpensesInit
  <2> QED
    BY <1>1, <2>1, <2>2 DEF TablesInv
<1>3. /\ DOMAIN tx = Txs /\ DOMAIN locks = Txs
      /\ \A t \in Txs : tx[t] = Idle /\ locks[t] = {}
  BY DEF ExpensesInit, Init
<1>4. LocksInv
  BY <1>3 DEF LocksInv
<1> QED
  BY <1>2, <1>3, <1>4, IdleOK DEF LedgerInv

\* What a step leaves alone, whichever it is.
StepKept ==
    /\ PastKept /\ SwitchKept /\ ExpenseYearKept
    /\ PaymentsStay(payments, payments') /\ PaymentsStay(expenses, expenses')

\* A table stays when it does not change.
LEMMA StaysItself ==
    \A rows \in Seq(Payment) \cup Seq(Expense) : PaymentsStay(rows, rows)
  BY DEF PaymentsStay

\* One step per action; what action properties need of it comes along.
LEMMA LedgerStep ==
    ASSUME LedgerInv, [ExpensesNext]_allVars
    PROVE  LedgerInv' /\ StepKept
<1>0. PaymentsStay(payments, payments) /\ PaymentsStay(expenses, expenses)
  BY StaysItself DEF LedgerInv, TablesInv, TypeOK, Payment
<1>1. UNCHANGED <<fees, account>> => PastKept
  BY DEF PastKept
<1>2. UNCHANGED year => SwitchKept
  BY DEF SwitchKept
<1>3. UNCHANGED expenses => ExpenseYearKept
  <2>1. ~(Len(expenses) > Len(expenses))
    BY DEF LedgerInv, TablesInv
  <2> QED
    BY <2>1 DEF ExpenseYearKept
<1>4. UNCHANGED <<year, fees, account, payments, expenses>> => StepKept
  BY <1>0, <1>1, <1>2, <1>3 DEF StepKept
<1>5. UNCHANGED <<tables, ledger>> => StepKept
  BY <1>4 DEF tables, ledger
<1>6. CASE \/ \E s \in Students, g \in Grades : MoveStudent(s, g) /\ UNCHANGED ledger
           \/ \E s \in Students : DeleteStudent(s) /\ UNCHANGED ledger
           \/ \E t \in Txs, c \in Categories : AddCategory(t, c)
           \/ UNCHANGED allVars
  BY <1>4, <1>6, WorldSteps
<1>7. ASSUME NEW t \in Txs, TxStep(t), UNCHANGED ledger PROVE LedgerInv' /\ StepKept
  <2>0. UNCHANGED <<expenses>>
    BY <1>7 DEF ledger
  <2>1. CASE Begin(t)
    BY <1>5, <1>7, <2>1, ArrivalsKeep DEF Begin
  <2>2. CASE ShareYear(t)
    BY <1>5, <1>7, <2>2, ShareYearKeeps DEF ShareYear
  <2>3. CASE LockAccount(t)
    BY <1>5, <1>7, <2>3, LockAccountKeeps DEF LockAccount
  <2>4. CASE CheckWrite(t)
    BY <1>5, <1>7, <2>4, CheckWriteKeeps DEF CheckWrite
  <2>5. CASE CommitWrite(t)
    <3>1. UNCHANGED year
      BY <2>5 DEF CommitWrite
    <3> QED
      BY <1>0, <1>2, <1>3, <1>7, <2>0, <2>5, <3>1, CommitWriteKeeps DEF StepKept
  <2>6. CASE LockPayment(t)
    BY <1>5, <1>7, <2>6, LockPaymentKeeps DEF LockPayment
  <2>7. CASE CommitVoid(t)
    <3>1. UNCHANGED year
      BY <2>7 DEF CommitVoid
    <3> QED
      BY <1>0, <1>2, <1>3, <1>7, <2>0, <2>7, <3>1, CommitVoidKeeps DEF StepKept
  <2>8. CASE SaveFee(t)
    BY <1>5, <1>7, <2>8, SaveFeeKeeps DEF SaveFee
  <2>9. CASE SelectAccounts(t)
    BY <1>5, <1>7, <2>9, SelectAccountsKeeps DEF SelectAccounts
  <2>10. CASE LockAccounts(t)
    BY <1>5, <1>7, <2>10, LockAccountsKeeps DEF LockAccounts
  <2>11. CASE CheckAccounts(t)
    BY <1>5, <1>7, <2>11, CheckAccountsKeeps DEF CheckAccounts
  <2>12. CASE UpdateAccounts(t)
    BY <1>5, <1>7, <2>12, UpdateAccountsKeeps DEF UpdateAccounts
  <2>13. CASE CommitFee(t)
    <3>1. UNCHANGED <<year, payments>>
      BY <2>13 DEF CommitFee
    <3> QED
      BY <1>0, <1>2, <1>3, <1>7, <2>0, <2>13, <3>1, CommitFeeKeeps DEF StepKept
  <2>14. CASE LockYear(t)
    BY <1>5, <1>7, <2>14, LockYearKeeps DEF LockYear
  <2>15. CASE FreezeYear(t)
    BY <1>5, <1>7, <2>15, FreezeYearKeeps DEF FreezeYear
  <2>16. CASE CommitYear(t)
    <3>1. UNCHANGED payments
      BY <2>16 DEF CommitYear
    <3> QED
      BY <1>0, <1>3, <1>7, <2>0, <2>16, <3>1, CommitYearKeeps DEF StepKept
  <2>17. CASE Abort(t)
    BY <1>5, <1>7, <2>17, GivesUp DEF Abort, RolledBack
  <2> QED
    BY <1>7, <2>1, <2>2, <2>3, <2>4, <2>5, <2>6, <2>7, <2>8, <2>9, <2>10, <2>11,
       <2>12, <2>13, <2>14, <2>15, <2>16, <2>17 DEF TxStep
<1>8. ASSUME NEW t \in Txs, ExpenseStep(t) PROVE LedgerInv' /\ StepKept
  <2>1. CASE \E c \in Categories : AddCategory(t, c)
    BY <1>6, <2>1
  <2>2. CASE BeginExpense(t) \/ BeginVoidExpense(t) \/ BeginSummary(t)
    BY <1>5, <2>2, ArrivalsKeep DEF BeginExpense, BeginVoidExpense, BeginSummary
  <2>3. CASE ShareExpenseYear(t)
    BY <1>5, <2>3, ShareExpenseYearKeeps DEF ShareExpenseYear, Stays
  <2>4. CASE CheckExpense(t)
    BY <1>5, <2>4, CheckExpenseKeeps DEF CheckExpense, Stays
  <2>5. CASE CommitExpense(t)
    <3>1. UNCHANGED <<year, fees, account, payments>>
      BY <2>5 DEF CommitExpense, Stays, tables
    <3> QED
      BY <1>0, <1>1, <1>2, <2>5, <3>1, CommitExpenseKeeps DEF StepKept
  <2>6. CASE LockExpense(t)
    BY <1>5, <2>6, LockExpenseKeeps DEF LockExpense, Stays
  <2>7. CASE CommitVoidExpense(t)
    <3>1. UNCHANGED <<year, fees, account, payments>>
      BY <2>7 DEF CommitVoidExpense, Stays, tables
    <3> QED
      BY <1>0, <1>1, <1>2, <2>7, <3>1, CommitVoidExpenseKeeps DEF StepKept
  <2>8. CASE SumCategories(t) \/ SumMonths(t) \/ SumCollected(t) \/ AnswerSummary(t)
    <3>1. UNCHANGED <<tables, ledger>>
      BY <2>8 DEF SumCategories, SumMonths, SumCollected, AnswerSummary, Stays
    <3> QED
      BY <1>5, <2>8, <3>1, SummaryKeeps
  <2> QED
    BY <1>8, <2>1, <2>2, <2>3, <2>4, <2>5, <2>6, <2>7, <2>8 DEF ExpenseStep
<1>9. CASE Answered /\ UNCHANGED ledger
  <2>1. UNCHANGED allVars
    BY <1>9 DEF Answered, allVars
  <2> QED
    BY <1>6, <2>1
<1> QED
  BY <1>6, <1>7, <1>8, <1>9 DEF ExpensesNext, Next

\* The inductive invariant, and what every step leaves alone.
LEMMA LedgerAlways == ExpensesSpec => []LedgerInv
<1>1. ExpensesInit => LedgerInv
  BY LedgerInit
<1>2. LedgerInv /\ [ExpensesNext]_allVars => LedgerInv'
  BY LedgerStep
<1> QED
  BY <1>1, <1>2, PTL DEF ExpensesSpec

\* The tables keep their types: no fee, discount or payment leaves its range,
\* and a void is by one of the requests.
THEOREM LedgerTypes == ExpensesSpec => []TypeOK
<1>1. LedgerInv => TypeOK
  BY DEF LedgerInv, TablesInv
<1> QED
  BY <1>1, LedgerAlways, PTL

\* The fees and frozen fees of a past year never change, not even by a payment,
\* a discount or a fee that began before the switch: what it holds FOR SHARE or
\* has read under a row lock is still so when it commits.
THEOREM PastSafe == ExpensesSpec => PastYearsFrozen
<1>1. LedgerInv /\ [ExpensesNext]_allVars =>
        [\A y \in Years \ {year} :
           /\ fees'[y] = fees[y]
           /\ \A s \in Students : account'[s][y].fee = account[s][y].fee]_vars
  BY LedgerStep DEF StepKept, PastKept
<1> QED
  BY <1>1, LedgerAlways, PTL DEF ExpensesSpec, PastYearsFrozen

\* changeAcademicYear changes no figure of the year it closes for an active
\* student whose grade it saw: it alone holds the year while it commits.
THEOREM SwitchSafe == ExpensesSpec => SwitchKeepsFigures
<1>1. LedgerInv /\ [ExpensesNext]_allVars =>
        [\A t \in Txs :
           year' # year /\ tx[t].kind = "year" /\ tx[t].pc = "commit" =>
           \A s \in Students : active[s] /\ tx[t].seen[s] = grade[s] =>
               /\ account'[s][year].fee = ShownFee(s, year)
               /\ account'[s][year].discount = account[s][year].discount]_vars
  BY LedgerStep DEF StepKept, SwitchKept
<1> QED
  BY <1>1, LedgerAlways, PTL DEF ExpensesSpec, SwitchKeepsFigures

\* Payments and expenses are never edited or deleted, and the first void
\* stands: the second waits for the row and then finds it void.
THEOREM LedgersSafe == ExpensesSpec => LedgersKept
<1>1. LedgerInv /\ [ExpensesNext]_allVars =>
        [/\ PaymentsStay(payments, payments')
         /\ PaymentsStay(expenses, expenses')]_allVars
  BY LedgerStep DEF StepKept
<1> QED
  BY <1>1, LedgerAlways, PTL DEF ExpensesSpec, LedgersKept

\* An expense without a year of its own is stored in the year that is current
\* then: createExpense holds the setting from the read to the commit.
THEOREM ExpensesSafe == ExpensesSpec => ExpenseInItsYear
<1>1. LedgerInv /\ [ExpensesNext]_allVars =>
        [Len(expenses') > Len(expenses) =>
           LET e == expenses'[Len(expenses')]
           IN  e.year = IF e.asked = 0 THEN year' ELSE e.asked]_allVars
  BY LedgerStep DEF StepKept, ExpenseYearKept
<1> QED
  BY <1>1, LedgerAlways, PTL DEF ExpensesSpec, ExpenseInItsYear

-----------------------------------------------------------------------------
(* Sums.  The sum of a table is the size of a set of units, one for each   *)
(* unit of money, so that what is known of sizes can be used of sums.      *)

\* h is the fold that a sum of w over subsets of S unrolls to.
Adds(w, S, h) ==
    h = [s \in SUBSET S |->
           IF s = {} THEN 0
           ELSE w[CHOOSE x \in s : TRUE] + h[s \ {CHOOSE x \in s : TRUE}]]

SumOver(w, S) == MapThenSumSet(LAMBDA i : w[i], S)

\* The fold is some function that unrolls this way, if there is any.
LEMMA SumUnrolls ==
    ASSUME NEW w, NEW S, \E h : Adds(w, S, h)
    PROVE  \E h : Adds(w, S, h) /\ SumOver(w, S) = h[S]
  BY Zenon DEF MapThenSumSet, MapThenFoldSet, Adds, SumOver

\* The same for the amounts of the rows of a table.
AmountSum(rows, S) == MapThenSumSet(LAMBDA i : rows[i].amount, S)

AddsAmounts(rows, S, h) ==
    h = [s \in SUBSET S |->
           IF s = {} THEN 0
           ELSE rows[CHOOSE x \in s : TRUE].amount
                + h[s \ {CHOOSE x \in s : TRUE}]]

LEMMA AmountUnrolls ==
    ASSUME NEW rows, NEW S, \E h : AddsAmounts(rows, S, h)
    PROVE  \E h : AddsAmounts(rows, S, h) /\ AmountSum(rows, S) = h[S]
  BY Zenon DEF MapThenSumSet, MapThenFoldSet, AmountSum, AddsAmounts

\* A set of numbers has a least one.
LEMMA LeastNumber ==
    ASSUME NEW S, S \subseteq Nat, S # {}
    PROVE  \E n \in S : \A m \in S : n <= m
<1> DEFINE less == {ss \in Nat \X Nat : ss[1] < ss[2]}
<1>1. IsWellFoundedOn(less, Nat)
  BY NatLessThanWellFounded DEF OpToRel
<1>2. less = {ss \in Nat \X Nat : ss[1] < ss[2]}
  OBVIOUS
<1> HIDE DEF less
<1>3. PICK n \in S : \A m \in S : <<m, n>> \notin less
  BY <1>1, WFMin
<1>4. \A m \in S : ~(m < n)
  BY <1>2, <1>3
<1> QED
  BY <1>4

\* There is at most one.
LEMMA SumUnique ==
    ASSUME NEW w, NEW S, IsFiniteSet(S), NEW g, NEW h, Adds(w, S, g), Adds(w, S, h)
    PROVE  g[S] = h[S]
<1>1. SUFFICES ASSUME g[S] # h[S] PROVE FALSE
  OBVIOUS
<1> DEFINE Differ == {s \in SUBSET S : g[s] # h[s]}
           N == {Cardinality(s) : s \in Differ}
<1>2. \A s \in SUBSET S : IsFiniteSet(s) /\ Cardinality(s) \in Nat
  BY FS_Subset, FS_CardinalityType
<1>3. N \in SUBSET Nat /\ N # {}
  BY <1>1, <1>2
<1>4. PICK n \in N : \A m \in N : n <= m
  BY <1>3, LeastNumber
<1>5. PICK s \in Differ : Cardinality(s) = n
  BY <1>4
<1>6. s # {}
  BY <1>5 DEF Adds
<1> DEFINE x == CHOOSE y \in s : TRUE
<1>7. x \in s
  BY <1>6
<1>8. g[s] = w[x] + g[s \ {x}] /\ h[s] = w[x] + h[s \ {x}]
  <2>1. s \in SUBSET S
    BY <1>5
  <2> QED
    BY <1>6, <2>1, Zenon DEF Adds
<1> HIDE DEF x
<1>9. Cardinality(s \ {x}) = n - 1 /\ n \in Nat
  BY <1>2, <1>3, <1>5, <1>7, FS_RemoveElement
<1>10. s \ {x} \notin Differ
  BY <1>4, <1>9
<1> QED
  BY <1>5, <1>8, <1>10

\* The sum of the sizes of finitely many disjoint sets is the size of their
\* union.
Joined(U, s) == UNION {U[i] : i \in s}

LEMMA SizeAdds ==
    ASSUME NEW S, IsFiniteSet(S), NEW U, NEW w,
           IsFiniteSet(Joined(U, S)),
           \A i \in S : w[i] = Cardinality(U[i]),
           \A i, j \in S : i # j => U[i] \cap U[j] = {}
    PROVE  \E h : Adds(w, S, h) /\ h[S] = Cardinality(Joined(U, S))
<1> DEFINE size == [s \in SUBSET S |-> Cardinality(Joined(U, s))]
<1>1. ASSUME NEW s \in SUBSET S, NEW x \in s
      PROVE  Cardinality(Joined(U, s)) = w[x] + Cardinality(Joined(U, s \ {x}))
  <2>1. Joined(U, s) = U[x] \cup Joined(U, s \ {x})
    BY DEF Joined
  <2>2. U[x] \cap Joined(U, s \ {x}) = {}
    BY DEF Joined
  <2>3. U[x] \subseteq Joined(U, S) /\ Joined(U, s \ {x}) \subseteq Joined(U, S)
    BY DEF Joined
  <2>4. /\ IsFiniteSet(U[x]) /\ Cardinality(U[x]) \in Nat
        /\ IsFiniteSet(Joined(U, s \ {x})) /\ Cardinality(Joined(U, s \ {x})) \in Nat
    BY <2>3, FS_Subset, FS_CardinalityType
  <2>5. Cardinality(U[x] \cup Joined(U, s \ {x})) =
          Cardinality(U[x]) + Cardinality(Joined(U, s \ {x}))
            - Cardinality(U[x] \cap Joined(U, s \ {x}))
    BY <2>4, FS_Union
  <2>6. Cardinality(U[x] \cap Joined(U, s \ {x})) = 0
    BY <2>2, FS_EmptySet
  <2>7. w[x] = Cardinality(U[x])
    OBVIOUS
  <2>8. Cardinality(Joined(U, s)) = Cardinality(U[x] \cup Joined(U, s \ {x}))
    BY <2>1
  <2> QED
    BY <2>4, <2>5, <2>6, <2>7, <2>8, SMT
<1>2. Joined(U, {}) = {}
  BY DEF Joined
<1>3. Adds(w, S, size)
  <2>1. ASSUME NEW s \in SUBSET S
        PROVE  size[s] = IF s = {} THEN 0
                         ELSE w[CHOOSE x \in s : TRUE] + size[s \ {CHOOSE x \in s : TRUE}]
    <3>1. CASE s = {}
      BY <1>2, <3>1, FS_EmptySet
    <3>2. CASE s # {}
      <4> DEFINE x == CHOOSE y \in s : TRUE
      <4>1. x \in s
        BY <3>2
      <4> HIDE DEF x
      <4>2. size[s] = w[x] + size[s \ {x}]
        BY <1>1, <4>1
      <4> HIDE DEF size
      <4> QED
        BY <3>2, <4>2 DEF x
    <3> QED
      BY <3>1, <3>2
  <2>2. size = [s \in SUBSET S |-> size[s]]
    OBVIOUS
  <2> HIDE DEF size
  <2>3. size = [s \in SUBSET S |->
           IF s = {} THEN 0
           ELSE w[CHOOSE x \in s : TRUE] + size[s \ {CHOOSE x \in s : TRUE}]]
    BY <2>1, <2>2, Zenon
  <2> QED
    BY <2>3, Zenon DEF Adds
<1>4. size[S] = Cardinality(Joined(U, S))
  OBVIOUS
<1> HIDE DEF size
<1> QED
  BY <1>3, <1>4

LEMMA SumIsSize ==
    ASSUME NEW S, IsFiniteSet(S), NEW U, NEW w,
           IsFiniteSet(Joined(U, S)),
           \A i \in S : w[i] = Cardinality(U[i]),
           \A i, j \in S : i # j => U[i] \cap U[j] = {}
    PROVE  SumOver(w, S) = Cardinality(Joined(U, S))
<1>1. PICK g : Adds(w, S, g) /\ g[S] = Cardinality(Joined(U, S))
  BY SizeAdds
<1>2. \E h : Adds(w, S, h)
  BY <1>1
<1>3. PICK h : Adds(w, S, h) /\ SumOver(w, S) = h[S]
  BY <1>2, SumUnrolls, Zenon
<1> QED
  BY <1>1, <1>3, SumUnique

\* What a row counts for: as many pairs as its amount.
Units(rows, S) == UNION {{i} \X (1..rows[i].amount) : i \in S}

\* The sum of the amounts of finitely many rows, as the size of a set.
LEMMA AmountIsSize ==
    ASSUME NEW S, IsFiniteSet(S), NEW rows, NEW M \in Nat,
           \A i \in S : rows[i].amount \in 0..M
    PROVE  /\ AmountSum(rows, S) = Cardinality(Units(rows, S))
           /\ IsFiniteSet(Units(rows, S))
<1> DEFINE w == [i \in S |-> rows[i].amount]
           U == [i \in S |-> {i} \X (1..rows[i].amount)]
<1>1. Joined(U, S) = Units(rows, S)
  BY DEF Joined, Units
<1>2. IsFiniteSet(Units(rows, S))
  <2>1. IsFiniteSet(S \X (1..M))
    <3>1. IsFiniteSet(1..M)
      BY FS_Interval
    <3> QED
      BY <3>1, FS_Product
  <2>2. Units(rows, S) \subseteq S \X (1..M)
    <3>1. \A i \in S : 1..rows[i].amount \subseteq 1..M
      OBVIOUS
    <3> QED
      BY <3>1 DEF Units
  <2> QED
    BY <2>1, <2>2, FS_Subset
<1>3. ASSUME NEW i \in S PROVE w[i] = Cardinality(U[i])
  <2> DEFINE n == rows[i].amount
  <2>1. n \in Nat
    OBVIOUS
  <2> HIDE DEF n
  <2>2. IsFiniteSet(1..n) /\ Cardinality(1..n) = n
    BY <2>1, FS_Interval
  <2>3. IsFiniteSet({i}) /\ Cardinality({i}) = 1
    BY FS_Singleton
  <2>4. Cardinality({i} \X (1..n)) = Cardinality({i}) * Cardinality(1..n)
    BY <2>2, <2>3, FS_Product
  <2>5. Cardinality({i} \X (1..n)) = n
    BY <2>1, <2>2, <2>3, <2>4
  <2> QED
    BY <2>5 DEF n
<1>4. \A i, j \in S : i # j => U[i] \cap U[j] = {}
  OBVIOUS
<1> HIDE DEF U
<1>6. ASSUME NEW h PROVE Adds(w, S, h) <=> AddsAmounts(rows, S, h)
  <2>1. ASSUME NEW s \in SUBSET S, s # {}
        PROVE  w[CHOOSE x \in s : TRUE] = rows[CHOOSE x \in s : TRUE].amount
    <3>1. (CHOOSE x \in s : TRUE) \in S
      BY <2>1
    <3> QED
      BY <3>1
  <2> HIDE DEF w
  <2>3. ASSUME NEW s \in SUBSET S
        PROVE  (IF s = {} THEN 0
                ELSE w[CHOOSE x \in s : TRUE] + h[s \ {CHOOSE x \in s : TRUE}])
               = (IF s = {} THEN 0
                  ELSE rows[CHOOSE x \in s : TRUE].amount
                       + h[s \ {CHOOSE x \in s : TRUE}])
    <3>1. CASE s = {}
      BY <3>1
    <3>2. CASE s # {}
      <4>1. w[CHOOSE x \in s : TRUE] = rows[CHOOSE x \in s : TRUE].amount
        BY <2>1, <3>2
      <4> QED
        BY <3>2, <4>1
    <3> QED
      BY <3>1, <3>2
  <2>2. [s \in SUBSET S |->
           IF s = {} THEN 0
           ELSE w[CHOOSE x \in s : TRUE] + h[s \ {CHOOSE x \in s : TRUE}]]
        = [s \in SUBSET S |->
             IF s = {} THEN 0
             ELSE rows[CHOOSE x \in s : TRUE].amount
                  + h[s \ {CHOOSE x \in s : TRUE}]]
    BY <2>3, Zenon
  <2> QED
    BY <2>2, Zenon DEF Adds, AddsAmounts
<1>7. PICK g : Adds(w, S, g) /\ g[S] = Cardinality(Units(rows, S))
  BY <1>1, <1>2, <1>3, <1>4, SizeAdds
<1> HIDE DEF w
<1>8. PICK h : AddsAmounts(rows, S, h) /\ AmountSum(rows, S) = h[S]
  <2>1. \E h : AddsAmounts(rows, S, h)
    BY <1>6, <1>7
  <2> QED
    BY <2>1, AmountUnrolls
<1>9. Adds(w, S, h)
  BY <1>6, <1>8
<1>10. h[S] = g[S]
  BY <1>7, <1>9, SumUnique
<1> QED
  BY <1>2, <1>7, <1>8, <1>10

-----------------------------------------------------------------------------
(* Balances.  What was checked under a lock is still so at the commit.     *)


\* The payments of an account that are not void, and what they count for.
PaidRows(rows, s, y) ==
    {i \in DOMAIN rows : rows[i].student = s /\ rows[i].year = y
                         /\ rows[i].voidedBy = 0}
PaidUnits(s, y) == Units(payments, PaidRows(payments, s, y))

\* What an account has paid is the size of a finite set.
PaidCounts ==
    \A s, y : /\ IsFiniteSet(PaidUnits(s, y))
              /\ Paid(s, y) = Cardinality(PaidUnits(s, y))
              /\ Paid(s, y) \in Nat

LEMMA PaidIsSize == LedgerInv => PaidCounts
<1> SUFFICES ASSUME LedgerInv, NEW s, NEW y
             PROVE  /\ IsFiniteSet(PaidUnits(s, y))
                    /\ Paid(s, y) = Cardinality(PaidUnits(s, y))
                    /\ Paid(s, y) \in Nat
  BY DEF PaidCounts
<1> DEFINE S == PaidRows(payments, s, y)
<1>1. /\ payments \in Seq(Payment) /\ Len(payments) \in Nat
      /\ DOMAIN payments = 1..Len(payments)
  BY DEF LedgerInv, TablesInv, TypeOK, Payment
<1>2. IsFiniteSet(S)
  <2>1. S \subseteq 1..Len(payments)
    BY <1>1 DEF PaidRows
  <2>2. IsFiniteSet(1..Len(payments))
    BY <1>1, FS_Interval
  <2> QED
    BY <2>1, <2>2, FS_Subset
<1>3. \A i \in S : payments[i].amount \in 0..MaxAmount
  <2>1. \A i \in S : payments[i] \in Payment
    BY <1>1 DEF PaidRows
  <2> QED
    BY <2>1 DEF Payment, Amount
<1>4. Paid(s, y) = AmountSum(payments, S)
  BY Zenon DEF Paid, AmountSum, PaidRows
<1> HIDE DEF S
<1>5. /\ AmountSum(payments, S) = Cardinality(Units(payments, S))
      /\ IsFiniteSet(Units(payments, S))
  BY <1>2, <1>3, AmountIsSize, TuitionAssumption
<1>6. PaidUnits(s, y) = Units(payments, S)
  BY DEF PaidUnits, S
<1> QED
  BY <1>4, <1>5, <1>6, FS_CardinalityType

LEMMA PaidIsSizeNext == LedgerInv' => PaidCounts'
  BY PaidIsSize, PTL

\* Fewer payments, less paid.
LEMMA PaidFalls ==
    ASSUME LedgerInv, LedgerInv', NEW s, NEW y,
           \A i \in PaidRows(payments', s, y) :
             i \in PaidRows(payments, s, y) /\ payments'[i].amount = payments[i].amount
    PROVE  Paid(s, y)' <= Paid(s, y) /\ Paid(s, y) \in Nat /\ Paid(s, y)' \in Nat
<1>1. PaidCounts /\ PaidCounts'
  BY PaidIsSize, PaidIsSizeNext
<1>2. PaidUnits(s, y)' \subseteq PaidUnits(s, y)
  BY DEF PaidUnits, Units
<1>3. Cardinality(PaidUnits(s, y)') <= Cardinality(PaidUnits(s, y))
  BY <1>1, <1>2, FS_Subset DEF PaidCounts
<1> QED
  BY <1>1, <1>3 DEF PaidCounts

\* One payment more.
LEMMA PaidRises ==
    ASSUME LedgerInv, LedgerInv', NEW p \in Payment, p.voidedBy = 0,
           payments' = Append(payments, p)
    PROVE  /\ Paid(p.student, p.year)' = Paid(p.student, p.year) + p.amount
           /\ \A s, y : s # p.student \/ y # p.year => Paid(s, y)' <= Paid(s, y)
<1>1. PaidCounts /\ PaidCounts'
  BY PaidIsSize, PaidIsSizeNext
<1>2. /\ payments \in Seq(Payment) /\ Len(payments) \in Nat
      /\ DOMAIN payments = 1..Len(payments)
  BY DEF LedgerInv, TablesInv, TypeOK, Payment
<1> DEFINE n == Len(payments) + 1
<1>3. /\ n \notin DOMAIN payments /\ DOMAIN payments' = DOMAIN payments \cup {n}
      /\ payments'[n] = p
      /\ \A i \in DOMAIN payments : payments'[i] = payments[i]
  <2>1. /\ payments' \in Seq(Payment) /\ Len(payments') = n /\ payments'[n] = p
        /\ \A i \in 1..Len(payments) : payments'[i] = payments[i]
    BY <1>2
  <2>2. DOMAIN payments' = 1..n
    BY <2>1
  <2> QED
    BY <1>2, <2>1, <2>2
<1> HIDE DEF n
<1>4. ASSUME NEW s, NEW y, s # p.student \/ y # p.year
      PROVE  Paid(s, y)' <= Paid(s, y)
  <2>1. \A i \in PaidRows(payments', s, y) :
             i \in PaidRows(payments, s, y) /\ payments'[i].amount = payments[i].amount
    BY <1>3, <1>4 DEF PaidRows
  <2> QED
    BY <2>1, PaidFalls
<1> DEFINE s == p.student
           y == p.year
           more == {n} \X (1..p.amount)
<1>5. PaidRows(payments', s, y) = PaidRows(payments, s, y) \cup {n}
  BY <1>3 DEF PaidRows
<1>6. PaidUnits(s, y)' = PaidUnits(s, y) \cup more
  BY <1>3, <1>5 DEF PaidUnits, Units, PaidRows
<1>7. PaidUnits(s, y) \cap more = {}
  BY <1>3 DEF PaidUnits, Units, PaidRows
<1>8. IsFiniteSet(more) /\ Cardinality(more) = p.amount /\ p.amount \in Nat
  <2>1. p.amount \in Nat
    BY TuitionAssumption DEF Payment, Amount
  <2>2. IsFiniteSet(1..p.amount) /\ Cardinality(1..p.amount) = p.amount
    <3>1. \A k \in Nat : IsFiniteSet(1..k) /\ Cardinality(1..k) = k
      BY FS_Interval
    <3> QED
      BY <2>1, <3>1
  <2>3. IsFiniteSet({n}) /\ Cardinality({n}) = 1
    BY FS_Singleton
  <2>4. IsFiniteSet(more) /\ Cardinality(more) = Cardinality({n}) * Cardinality(1..p.amount)
    BY <2>2, <2>3, FS_Product
  <2> QED
    BY <2>1, <2>2, <2>3, <2>4
<1> HIDE DEF more
<1>9. Cardinality(PaidUnits(s, y) \cup more) =
        Cardinality(PaidUnits(s, y)) + Cardinality(more)
          - Cardinality(PaidUnits(s, y) \cap more)
  BY <1>1, <1>8, FS_Union DEF PaidCounts
<1>10. Cardinality(PaidUnits(s, y) \cap more) = 0
  BY <1>7, FS_EmptySet
<1>11. Paid(s, y)' = Cardinality(PaidUnits(s, y)') /\ Paid(s, y) = Cardinality(PaidUnits(s, y))
       /\ Paid(s, y) \in Nat
  BY <1>1 DEF PaidCounts
<1>12. Paid(s, y)' = Paid(s, y) + p.amount
  BY <1>6, <1>8, <1>9, <1>10, <1>11
<1> QED
  BY <1>4, <1>12

\* What a transaction relies on for the balances: a payment or discount about
\* to be committed still fits, a fee alone re-prices nobody, and an account the
\* re-pricing has checked is locked and still bears the new fee.
Funds(rec, held) ==
    /\ rec.kind \in {"pay", "discount"} /\ rec.pc = "commit" =>
         rec.fee \in Amount /\ Fits(rec, Paid(rec.student, rec.year))
    /\ rec.kind = "fee" => rec.listed = {} /\ rec.pc \in {"open", "shared", "commit"}
    /\ rec.kind = "apply" =>
         /\ rec.listed \subseteq Students
         /\ rec.pc = "check" => \A s \in rec.listed : AccountRow(s, rec.year) \in held
         /\ rec.pc \in {"update", "commit"} => \A s \in rec.seen :
              /\ s \in Students /\ AccountRow(s, rec.year) \in held
              /\ rec.value - account[s][rec.year].discount - Paid(s, rec.year) >= 0

FundsInv == \A t \in Txs : Funds(tx[t], locks[t])

\* They are kept by whoever leaves the accounts alone that the transaction has
\* locked, or only voids payments of theirs.
LEMMA FundsStay ==
    ASSUME LedgerInv, LedgerInv', NEW rec, NEW held, Form(rec), Funds(rec, held),
           rec.kind \in {"pay", "discount"} /\ rec.pc = "commit" =>
             Paid(rec.student, rec.year)' <= Paid(rec.student, rec.year),
           rec.kind = "apply" /\ rec.pc \in {"update", "commit"} =>
             \A s \in Students : AccountRow(s, rec.year) \in held =>
               /\ account'[s][rec.year].discount = account[s][rec.year].discount
               /\ Paid(s, rec.year)' <= Paid(s, rec.year)
    PROVE  Funds(rec, held)'
<1>0. /\ \A s, y : Paid(s, y) \in Nat /\ Paid(s, y)' \in Nat
      /\ Amount \subseteq Nat
      /\ \A s \in Students, y \in Years :
           account[s][y].discount \in Amount /\ account'[s][y].discount \in Amount
  <2>1. \A s, y : Paid(s, y) \in Nat /\ Paid(s, y)' \in Nat
    BY PaidIsSize, PaidIsSizeNext DEF PaidCounts
  <2>2. \A s \in Students, y \in Years :
          account[s][y].discount \in Amount /\ account'[s][y].discount \in Amount
    BY DEF LedgerInv, TablesInv, TypeOK
  <2> QED
    BY <2>1, <2>2, TuitionAssumption DEF Amount
<1>1. ASSUME rec.kind \in {"pay", "discount"}, rec.pc = "commit"
      PROVE  rec.fee \in Amount /\ Fits(rec, Paid(rec.student, rec.year)')
  <2>1. /\ rec.fee \in Nat /\ rec.value \in Nat /\ rec.discount \in Nat
        /\ Fits(rec, Paid(rec.student, rec.year)) /\ rec.fee \in Amount
    BY <1>0, <1>1 DEF Funds, Form
  <2> DEFINE p == Paid(rec.student, rec.year)
             q == Paid(rec.student, rec.year)'
  <2>2. p \in Nat /\ q \in Nat /\ q <= p
    BY <1>0, <1>1
  <2>3. Fits(rec, p)
    BY <2>1
  <2> HIDE DEF p, q
  <2>4. Fits(rec, q)
    BY <2>1, <2>2, <2>3 DEF Fits
  <2> QED
    BY <2>1, <2>4 DEF q
<1>2. ASSUME rec.kind = "apply", rec.pc \in {"update", "commit"}, NEW s \in rec.seen
      PROVE  /\ s \in Students /\ AccountRow(s, rec.year) \in held
             /\ rec.value - account'[s][rec.year].discount - Paid(s, rec.year)' >= 0
  <2>1. /\ s \in Students /\ AccountRow(s, rec.year) \in held
        /\ rec.value - account[s][rec.year].discount - Paid(s, rec.year) >= 0
        /\ rec.value \in Nat /\ rec.year \in Years
    BY <1>0, <1>2 DEF Funds, Form
  <2>2. /\ account'[s][rec.year].discount = account[s][rec.year].discount
        /\ Paid(s, rec.year)' <= Paid(s, rec.year)
    BY <1>2, <2>1
  <2>3. account[s][rec.year].discount \in Nat /\ Paid(s, rec.year) \in Nat
        /\ Paid(s, rec.year)' \in Nat
    BY <1>0, <2>1
  <2> QED
    BY <2>1, <2>2, <2>3
<1> QED
  BY <1>1, <1>2 DEF Funds, Fits

\* Payments that stay add up to no more.
LEMMA PaidStays ==
    ASSUME LedgerInv, LedgerInv', UNCHANGED payments
    PROVE  \A s, y : Paid(s, y)' <= Paid(s, y)
  BY PaidFalls

\* Steps that write neither accounts nor payments.
LEMMA FundsRead ==
    ASSUME LedgerInv, LedgerInv', UNCHANGED <<account, payments>>
    PROVE  \A rec, held : Form(rec) /\ Funds(rec, held) => Funds(rec, held)'
  BY FundsStay, PaidStays

LEMMA IdleFunds == Funds(Idle, {})'
<1>1. Idle.kind = "none"
  BY DEF Idle
<1> QED
  BY <1>1 DEF Funds

\* A transaction goes on.
LEMMA FundsMove ==
    ASSUME LedgerInv, LedgerInv', FundsInv, NEW t \in Txs, NEW rec, NEW rows,
           Step(t, rec, rows), Funds(rec, locks[t] \cup rows),
           UNCHANGED <<account, payments>>
    PROVE  FundsInv'
<1>1. /\ tx' = [tx EXCEPT ![t] = rec] /\ locks' = [locks EXCEPT ![t] = @ \cup rows]
      /\ DOMAIN tx = Txs /\ DOMAIN locks = Txs
  BY DEF Step, LedgerInv
<1>2. \A r, held : Form(r) /\ Funds(r, held) => Funds(r, held)'
  BY FundsRead
<1> SUFFICES ASSUME NEW u \in Txs PROVE Funds(tx[u], locks[u])'
  BY DEF FundsInv
<1>3. Form(tx'[u])
  BY DEF LedgerInv
<1>4. CASE u = t
  <2>1. tx'[u] = rec /\ locks'[u] = locks[t] \cup rows
    BY <1>1, <1>4
  <2> QED
    BY <1>2, <1>3, <2>1
<1>5. CASE u # t
  <2>1. tx'[u] = tx[u] /\ locks'[u] = locks[u] /\ Funds(tx[u], locks[u])
    BY <1>1, <1>5 DEF FundsInv
  <2> QED
    BY <1>2, <1>3, <2>1
<1> QED
  BY <1>4, <1>5

\* A transaction is over.
LEMMA FundsDone ==
    ASSUME LedgerInv, LedgerInv', FundsInv, NEW t \in Txs, Done(t),
           \A u \in Txs \ {t} : Funds(tx[u], locks[u])'
    PROVE  FundsInv'
<1>1. tx'[t] = Idle /\ locks'[t] = {}
  BY DEF Done, LedgerInv
<1>2. Funds(tx[t], locks[t])'
  BY <1>1, IdleFunds
<1> QED
  BY <1>2 DEF FundsInv

LEMMA FundsGiveUp ==
    ASSUME LedgerInv, LedgerInv', FundsInv, NEW t \in Txs, Done(t),
           UNCHANGED <<account, payments>>
    PROVE  FundsInv'
<1>1. \A r, held : Form(r) /\ Funds(r, held) => Funds(r, held)'
  BY FundsRead
<1>2. ASSUME NEW u \in Txs \ {t} PROVE Funds(tx[u], locks[u])'
  <2>1. /\ tx'[u] = tx[u] /\ locks'[u] = locks[u] /\ Form(tx[u])
        /\ Funds(tx[u], locks[u])
    BY DEF Done, LedgerInv, FundsInv
  <2> QED
    BY <1>1, <2>1
<1> QED
  BY <1>2, FundsDone

\* Transactions that have nothing to do with balances.
LEMMA FundsOther ==
    ASSUME LedgerInv, LedgerInv', FundsInv, NEW t \in Txs, NEW rec, NEW rows,
           Step(t, rec, rows) \/ Done(t),
           rec.kind \notin {"pay", "discount", "fee", "apply"},
           UNCHANGED <<account, payments>>
    PROVE  FundsInv'
<1>1. Funds(rec, locks[t] \cup rows)
  BY DEF Funds
<1> QED
  BY <1>1, FundsMove, FundsGiveUp

\* A request that arrives has listed nobody and is at its first statement.
LEMMA AskedPlain ==
    ASSUME NEW rec, Asked(rec)
    PROVE  rec.pc = "open" /\ rec.listed = {}
<1>1. /\ Idle = [kind |-> "none", pc |-> "idle", student |-> 0, year |-> 0,
                 grade |-> 0, value |-> 0, current |-> FALSE, fee |-> 0,
                 discount |-> 0, listed |-> {}, frozen |-> {}, seen |-> {},
                 about |-> {}]
  BY DEF Idle
<1>3. ASSUME NEW kind, NEW y, NEW g, NEW v,
             rec = [Idle EXCEPT !.kind = kind, !.pc = "open", !.year = y,
                                !.grade = g, !.value = v]
      PROVE  rec.pc = "open" /\ rec.listed = {}
  BY <1>1, <1>3
<1>4. ASSUME NEW kind, NEW i,
             rec = [Idle EXCEPT !.kind = kind, !.pc = "open", !.value = i]
      PROVE  rec.pc = "open" /\ rec.listed = {}
  BY <1>1, <1>4
<1>5. ASSUME NEW y, rec = [Idle EXCEPT !.kind = "year", !.pc = "open", !.year = y]
      PROVE  rec.pc = "open" /\ rec.listed = {}
  BY <1>1, <1>5
<1>6. ASSUME NEW e,
             rec = [Idle EXCEPT !.kind = "expense", !.pc = "open", !.about = e]
      PROVE  rec.pc = "open" /\ rec.listed = {}
  BY <1>1, <1>6
<1>8. CASE \E kind \in {"pay", "discount"}, s \in Students, y \in Years, v \in Amount :
             rec = [Idle EXCEPT !.kind = kind, !.pc = "open", !.student = s,
                                !.year = y, !.value = v, !.current = (y = year)]
  <2>1. PICK kind \in {"pay", "discount"}, s \in Students, y \in Years, v \in Amount :
             rec = [Idle EXCEPT !.kind = kind, !.pc = "open", !.student = s,
                                !.year = y, !.value = v, !.current = (y = year)]
    BY <1>8
  <2> DEFINE c == y = year
  <2>2. rec = [Idle EXCEPT !.kind = kind, !.pc = "open", !.student = s,
                           !.year = y, !.value = v, !.current = c]
    BY <2>1
  <2> HIDE DEF c
  <2> QED
    BY <1>1, <2>2
<1>9. CASE \E kind \in {"fee", "apply"}, g \in Grades, v \in Amount \ {0} :
             rec = [Idle EXCEPT !.kind = kind, !.pc = "open", !.year = year,
                                !.grade = g, !.value = v]
  BY <1>3, <1>9, Zenon
<1>10. CASE \/ \E i \in DOMAIN payments :
                 rec = [Idle EXCEPT !.kind = "void", !.pc = "open", !.value = i]
            \/ \E i \in DOMAIN expenses :
                 rec = [Idle EXCEPT !.kind = "unexpense", !.pc = "open",
                                    !.value = i]
  BY <1>4, <1>10, Zenon
<1>11. CASE \E y \in Years : rec = [Idle EXCEPT !.kind = "year", !.pc = "open",
                                                !.year = y]
  BY <1>5, <1>11, Zenon
<1>12. CASE \E e \in Expense : rec = [Idle EXCEPT !.kind = "expense",
                                                  !.pc = "open", !.about = e]
  BY <1>6, <1>12, Zenon
<1> QED
  BY <1>8, <1>9, <1>10, <1>11, <1>12, Zenon DEF Asked

\* A request that arrives has checked nothing yet.
LEMMA ArrivalFunds ==
    ASSUME LedgerInv, LedgerInv', FundsInv, NEW t \in Txs,
           \/ Begin(t) \/ BeginExpense(t) \/ BeginVoidExpense(t) \/ BeginSummary(t)
    PROVE  FundsInv'
<1>1. UNCHANGED locks /\ UNCHANGED <<account, payments>>
  BY DEF Begin, BeginExpense, BeginVoidExpense, BeginSummary, tables
<1>2. \E rec : Opened(rec) /\ tx' = [tx EXCEPT ![t] = rec]
  <2>1. CASE Begin(t)
    BY <2>1, Zenon DEF Begin, Opened, Asked
  <2>2. CASE BeginExpense(t)
    BY <2>2, Zenon DEF BeginExpense, Opened, Asked
  <2>3. CASE BeginVoidExpense(t)
    BY <2>3, Zenon DEF BeginVoidExpense, Opened, Asked
  <2>4. CASE BeginSummary(t)
    BY <2>4, Zenon DEF BeginSummary, Opened
  <2> QED
    BY <2>1, <2>2, <2>3, <2>4
<1>3. PICK rec : Opened(rec) /\ tx' = [tx EXCEPT ![t] = rec]
  BY <1>2
<1>4. Funds(rec, locks[t])
  <2>1. CASE Asked(rec)
    <3>1. rec.pc = "open" /\ rec.listed = {}
      BY <2>1, AskedPlain
    <3> QED
      BY <3>1 DEF Funds
  <2>2. CASE \E y, c : rec = [Idle EXCEPT !.kind = "summary", !.pc = "categories",
                                          !.year = y, !.value = c]
    <3>1. rec.kind = "summary"
      BY <2>2 DEF Idle
    <3> QED
      BY <3>1 DEF Funds
  <2> QED
    BY <1>3, <2>1, <2>2 DEF Opened
<1>5. \A r, held : Form(r) /\ Funds(r, held) => Funds(r, held)'
  BY <1>1, FundsRead
<1>6. ASSUME NEW u \in Txs PROVE Funds(tx[u], locks[u])'
  <2>1. /\ tx'[u] = (IF u = t THEN rec ELSE tx[u]) /\ locks'[u] = locks[u]
        /\ Form(tx'[u]) /\ Funds(tx[u], locks[u])
    BY <1>1, <1>3 DEF LedgerInv, FundsInv
  <2> QED
    BY <1>4, <1>5, <2>1
<1> QED
  BY <1>6 DEF FundsInv

\* Up to the sums nothing is relied on.
LEMMA SharedFunds ==
    ASSUME LedgerInv, LedgerInv', FundsInv, NEW t \in Txs, ShareYear(t)
    PROVE  FundsInv'
<1> DEFINE r == tx[t]
           base == HeldYear(r)
           rec == [base EXCEPT !.pc = "shared"]
<1>1. /\ r.kind \in {"pay", "discount", "fee", "apply"} /\ UNCHANGED <<account, payments>>
      /\ Step(t, rec, {YearShare}) /\ Shape(r) /\ Funds(r, locks[t])
  BY DEF ShareYear, LedgerInv, FundsInv, Form, tables
<1> HIDE DEF r
<1>2. Shape(base) /\ base.kind = r.kind /\ base.listed = r.listed
  <2>1. CASE r.kind \in {"pay", "discount"}
    <3> DEFINE c == r.year = year
               b == [r EXCEPT !.current = c]
    <3>1. b = [r EXCEPT !.current = c]
      OBVIOUS
    <3>2. base = b
      BY <2>1, Zenon DEF HeldYear
    <3> HIDE DEF c, b, base
    <3>3. Shape(b) /\ b.kind = r.kind /\ b.listed = r.listed
      BY <1>1, <3>1 DEF Shape
    <3> QED
      BY <3>2, <3>3
  <2>2. CASE r.kind \notin {"pay", "discount"}
    <3> DEFINE b == [r EXCEPT !.year = year, !.current = TRUE]
    <3>1. b = [r EXCEPT !.year = year, !.current = TRUE]
      OBVIOUS
    <3>2. base = b
      BY <2>2, Zenon DEF HeldYear
    <3> HIDE DEF b, base
    <3>3. Shape(b) /\ b.kind = r.kind /\ b.listed = r.listed
      BY <1>1, <3>1 DEF Shape
    <3> QED
      BY <3>2, <3>3
  <2> QED
    BY <2>1, <2>2
<1>3. rec = [base EXCEPT !.pc = "shared"]
  OBVIOUS
<1> HIDE DEF base, rec
<1>4. Moved(base, "shared", rec)
  BY <1>2, <1>3, OnlyPc
<1>5. Funds(rec, locks[t] \cup {YearShare})
  BY <1>1, <1>2, <1>4 DEF Funds, Moved
<1> QED
  BY <1>1, <1>5, FundsMove

LEMMA LockAccountFunds ==
    ASSUME LedgerInv, LedgerInv', FundsInv, NEW t \in Txs, LockAccount(t)
    PROVE  FundsInv'
<1> DEFINE r == tx[t]
           row == AccountRow(r.student, r.year)
<1>1. /\ r.kind \in {"pay", "discount"} /\ UNCHANGED <<account, payments>> /\ Shape(r)
  BY DEF LockAccount, LedgerInv, Form, tables
<1>2. \/ \E f, d : Step(t, [r EXCEPT !.pc = "sum", !.fee = f, !.discount = d], {row})
      \/ \E f : Step(t, [r EXCEPT !.pc = "sum", !.fee = f], {row})
      \/ Done(t)
  BY Zenon DEF LockAccount
<1> HIDE DEF r, row
<1>3. ASSUME NEW rec, rec.kind \in {"pay", "discount"}, rec.pc = "sum",
             Step(t, rec, {row})
      PROVE  FundsInv'
  <2>1. Funds(rec, locks[t] \cup {row})
    BY <1>3 DEF Funds
  <2> QED
    BY <1>1, <1>3, <2>1, FundsMove
<1>4. ASSUME NEW f, NEW d,
             Step(t, [r EXCEPT !.pc = "sum", !.fee = f, !.discount = d], {row})
      PROVE  FundsInv'
  <2> DEFINE rec == [r EXCEPT !.pc = "sum", !.fee = f, !.discount = d]
  <2>1. rec.kind = r.kind /\ rec.pc = "sum"
    BY <1>1 DEF Shape
  <2>2. Step(t, rec, {row})
    BY <1>4
  <2> HIDE DEF rec
  <2> QED
    BY <1>1, <1>3, <2>1, <2>2
<1>5. ASSUME NEW f, Step(t, [r EXCEPT !.pc = "sum", !.fee = f], {row})
      PROVE  FundsInv'
  <2> DEFINE rec == [r EXCEPT !.pc = "sum", !.fee = f]
  <2>1. rec.kind = r.kind /\ rec.pc = "sum"
    BY <1>1 DEF Shape
  <2>2. Step(t, rec, {row})
    BY <1>5
  <2> HIDE DEF rec
  <2> QED
    BY <1>1, <1>3, <2>1, <2>2
<1> QED
  BY <1>1, <1>2, <1>4, <1>5, FundsGiveUp

\* A payment or discount is let through when it fits.
LEMMA CheckWriteFunds ==
    ASSUME LedgerInv, LedgerInv', FundsInv, NEW t \in Txs, CheckWrite(t)
    PROVE  FundsInv'
<1> DEFINE r == tx[t]
           rec == [r EXCEPT !.pc = "commit"]
<1>1. /\ r.pc = "sum" /\ UNCHANGED <<account, payments>>
      /\ Form(r) /\ Facts(r, locks[t])
      /\ (Fits(r, Paid(r.student, r.year)) /\ Step(t, rec, {})) \/ Done(t)
  BY Zenon DEF CheckWrite, LedgerInv, tables
<1>2. r.kind \in {"pay", "discount"} /\ Shape(r)
  BY <1>1 DEF Form
<1>3. r.fee \in Amount
  BY <1>1, <1>2 DEF Facts, WriteFacts
<1>4. Moved(r, "commit", rec)
  BY <1>2, OnlyPc
<1> HIDE DEF r, rec
<1>5. ASSUME Fits(r, Paid(r.student, r.year)), Step(t, rec, {}) PROVE FundsInv'
  <2>1. Fits(rec, Paid(rec.student, rec.year))
    <3>1. Paid(rec.student, rec.year) = Paid(r.student, r.year)
      BY <1>4 DEF Moved
    <3> QED
      BY <1>4, <1>5, <3>1 DEF Moved, Fits
  <2>2. Funds(rec, locks[t] \cup {})
    BY <1>2, <1>3, <1>4, <2>1 DEF Funds, Moved
  <2> QED
    BY <1>1, <1>5, <2>2, FundsMove
<1> QED
  BY <1>1, <1>5, FundsGiveUp

\* A fee that applies to nobody lists nobody.
LEMMA SaveFeeFunds ==
    ASSUME LedgerInv, LedgerInv', FundsInv, NEW t \in Txs, SaveFee(t)
    PROVE  FundsInv'
<1> DEFINE r == tx[t]
           p == IF r.kind = "apply" THEN "select" ELSE "commit"
           rec == [r EXCEPT !.pc = p]
           rows == {FeeRow(r.year, r.grade)}
<1>1. /\ r.kind \in {"fee", "apply"} /\ UNCHANGED <<account, payments>>
      /\ Step(t, rec, rows) /\ Shape(r) /\ Funds(r, locks[t])
  BY DEF SaveFee, LedgerInv, FundsInv, Form, tables
<1>2. p \in {"select", "commit"} /\ (r.kind = "apply" => p = "select")
      /\ (r.kind = "fee" => p = "commit")
  BY <1>1
<1> HIDE DEF p
<1>3. Moved(r, p, rec)
  BY <1>1, OnlyPc
<1> HIDE DEF r, rec, rows
<1>4. Funds(rec, locks[t] \cup rows)
  BY <1>1, <1>2, <1>3 DEF Funds, Moved
<1> QED
  BY <1>1, <1>4, FundsMove

LEMMA SelectAccountsFunds ==
    ASSUME LedgerInv, LedgerInv', FundsInv, NEW t \in Txs, SelectAccounts(t)
    PROVE  FundsInv'
<1> DEFINE r == tx[t]
           rec == [r EXCEPT !.pc = "lock", !.listed = InGrade(r)]
<1>1. /\ r.pc = "select" /\ UNCHANGED <<account, payments>>
      /\ Form(r) /\ Funds(r, locks[t]) /\ Step(t, rec, {})
  BY DEF SelectAccounts, LedgerInv, FundsInv, tables
<1>2. r.kind = "apply" /\ Shape(r)
  BY <1>1 DEF Form, Funds
<1>3. rec = [r EXCEPT !.pc = "lock", !.listed = InGrade(r)] /\ InGrade(r) \subseteq Students
  BY DEF InGrade
<1> HIDE DEF r, rec
<1>4. rec.kind = r.kind /\ rec.pc = "lock" /\ rec.listed = InGrade(r)
  BY <1>2, <1>3 DEF Shape
<1>5. Funds(rec, locks[t] \cup {})
  BY <1>2, <1>3, <1>4 DEF Funds
<1> QED
  BY <1>1, <1>5, FundsMove

\* The rows are locked before the balances are tried.
LEMMA LockAccountsFunds ==
    ASSUME LedgerInv, LedgerInv', FundsInv, NEW t \in Txs, LockAccounts(t)
    PROVE  FundsInv'
<1> DEFINE r == tx[t]
           rec == [r EXCEPT !.pc = "check"]
           rows == AccountRows(r)
<1>1. /\ r.pc = "lock" /\ UNCHANGED <<account, payments>>
      /\ Form(r) /\ Funds(r, locks[t]) /\ Step(t, rec, rows)
  BY DEF LockAccounts, LedgerInv, FundsInv, tables
<1>2. r.kind = "apply" /\ Shape(r) /\ r.listed \subseteq Students
  BY <1>1 DEF Form, Funds
<1>3. Moved(r, "check", rec)
  BY <1>2, OnlyPc
<1>4. \A s \in r.listed : AccountRow(s, r.year) \in rows
  BY DEF AccountRows
<1> HIDE DEF r, rec, rows
<1>5. Funds(rec, locks[t] \cup rows)
  BY <1>2, <1>3, <1>4 DEF Funds, Moved
<1> QED
  BY <1>1, <1>5, FundsMove

\* The accounts that were tried bear the new fee.
LEMMA CheckAccountsFunds ==
    ASSUME LedgerInv, LedgerInv', FundsInv, NEW t \in Txs, CheckAccounts(t)
    PROVE  FundsInv'
<1> DEFINE r == tx[t]
           rec == [r EXCEPT !.pc = "update", !.seen = r.listed]
           bears == \A s \in r.listed :
                      r.value - account[s][r.year].discount - Paid(s, r.year) >= 0
<1>1. /\ r.pc = "check" /\ UNCHANGED <<account, payments>>
      /\ Form(r) /\ Funds(r, locks[t]) /\ ((bears /\ Step(t, rec, {})) \/ Done(t))
  BY Zenon DEF CheckAccounts, LedgerInv, FundsInv, tables
<1>2. r.kind = "apply" /\ Shape(r)
  BY <1>1 DEF Form, Funds
<1>3. rec = [r EXCEPT !.pc = "update", !.seen = r.listed]
  OBVIOUS
<1> HIDE DEF r, rec
<1>4. /\ rec.kind = r.kind /\ rec.year = r.year /\ rec.value = r.value
      /\ rec.pc = "update" /\ rec.seen = r.listed /\ rec.listed = r.listed
  BY <1>2, <1>3 DEF Shape
<1>5. ASSUME bears, Step(t, rec, {}) PROVE FundsInv'
  <2>1. r.listed \subseteq Students /\ \A s \in r.listed : AccountRow(s, r.year) \in locks[t]
    BY <1>1, <1>2 DEF Funds
  <2>2. Funds(rec, locks[t] \cup {})
    <3>1. \A s \in rec.seen :
            rec.value - account[s][rec.year].discount - Paid(s, rec.year) >= 0
      BY <1>4, <1>5
    <3> QED
      BY <1>2, <1>4, <2>1, <3>1 DEF Funds
  <2> QED
    BY <1>1, <1>5, <2>2, FundsMove
<1> QED
  BY <1>1, <1>5, FundsGiveUp

\* The UPDATE may list more, and what was tried stays.
LEMMA UpdateAccountsFunds ==
    ASSUME LedgerInv, LedgerInv', FundsInv, NEW t \in Txs, UpdateAccounts(t)
    PROVE  FundsInv'
<1> DEFINE r == tx[t]
           base == [r EXCEPT !.listed = InGrade(r)]
           rec == [base EXCEPT !.pc = "commit"]
           rows == AccountRows(base)
<1>1. /\ base.pc = "update" /\ UNCHANGED <<account, payments>>
      /\ Form(r) /\ Funds(r, locks[t])
      /\ Step(t, rec, rows) \/ Done(t)
  BY DEF UpdateAccounts, LedgerInv, FundsInv, tables
<1>2. /\ base = [r EXCEPT !.listed = InGrade(r)] /\ rec = [base EXCEPT !.pc = "commit"]
      /\ InGrade(r) \subseteq Students
  BY DEF InGrade
<1> HIDE DEF r, base, rec, rows
<1>3. /\ Shape(r) /\ Shape(base) /\ base.kind = r.kind /\ base.year = r.year
      /\ base.listed = InGrade(r) /\ base.value = r.value /\ base.pc = r.pc
      /\ base.seen = r.seen
  BY <1>1, <1>2 DEF Form, Shape
<1>4. r.kind = "apply" /\ r.pc = "update"
  BY <1>1, <1>3 DEF Form, Funds
<1>5. Moved(base, "commit", rec)
  BY <1>2, <1>3, OnlyPc
<1>6. /\ rec.kind = "apply" /\ rec.year = r.year /\ rec.value = r.value
      /\ rec.pc = "commit" /\ rec.seen = r.seen /\ rec.listed \subseteq Students
  BY <1>2, <1>3, <1>4, <1>5 DEF Moved
<1>7. \A s \in r.seen :
        /\ s \in Students /\ AccountRow(s, r.year) \in locks[t]
        /\ r.value - account[s][r.year].discount - Paid(s, r.year) >= 0
  BY <1>1, <1>4 DEF Funds
<1>8. Funds(rec, locks[t] \cup rows)
  BY <1>6, <1>7 DEF Funds
<1> QED
  BY <1>1, <1>8, FundsMove, FundsGiveUp

\* Voids, the switch, expenses and reports rely on no balance.
LEMMA OtherFunds ==
    ASSUME LedgerInv, LedgerInv', FundsInv, NEW t \in Txs,
           \/ LockPayment(t) \/ LockYear(t) \/ FreezeYear(t)
           \/ ShareExpenseYear(t) \/ CheckExpense(t) \/ LockExpense(t)
           \/ SumCategories(t) \/ SumMonths(t) \/ SumCollected(t)
    PROVE  FundsInv'
<1> DEFINE r == tx[t]
<1>1. /\ UNCHANGED <<account, payments>> /\ Form(r) /\ Shape(r)
  BY DEF LockPayment, LockYear, FreezeYear, ShareExpenseYear, CheckExpense, LockExpense,
         SumCategories, SumMonths, SumCollected, Stays, tables, LedgerInv, Form
<1>2. r.kind \notin {"pay", "discount", "fee", "apply"}
  BY <1>1 DEF LockPayment, LockYear, FreezeYear, ShareExpenseYear, CheckExpense,
              LockExpense, SumCategories, SumMonths, SumCollected, Form
<1>3. \/ Done(t)
      \/ \E p, rows : Step(t, [r EXCEPT !.pc = p], rows)
      \/ \E p, a, rows : Step(t, [r EXCEPT !.pc = p, !.about = a], rows)
      \/ \E p, y, rows : Step(t, [r EXCEPT !.pc = p, !.about.year = y], rows)
      \/ \E p, f, rows : Step(t, [r EXCEPT !.pc = p, !.fee = f], rows)
      \/ \E p, a, b, rows : Step(t, [r EXCEPT !.pc = p, !.seen = a, !.frozen = b], rows)
  <2>1. CASE LockPayment(t)
    BY <2>1, Zenon DEF LockPayment
  <2>2. CASE LockYear(t)
    BY <2>2, Zenon DEF LockYear
  <2>3. CASE FreezeYear(t)
    BY <2>3, Zenon DEF FreezeYear
  <2>4. CASE ShareExpenseYear(t)
    BY <2>4, Zenon DEF ShareExpenseYear
  <2>5. CASE CheckExpense(t)
    BY <2>5, Zenon DEF CheckExpense
  <2>6. CASE LockExpense(t)
    BY <2>6, Zenon DEF LockExpense
  <2>7. CASE SumCategories(t)
    BY <2>7, Zenon DEF SumCategories
  <2>8. CASE SumMonths(t)
    BY <2>8, Zenon DEF SumMonths
  <2>9. CASE SumCollected(t)
    BY <2>9, Zenon DEF SumCollected
  <2> QED
    BY <2>1, <2>2, <2>3, <2>4, <2>5, <2>6, <2>7, <2>8, <2>9
<1> HIDE DEF r
<1>4. \A p, a, b :
        /\ [r EXCEPT !.pc = p].kind = r.kind
        /\ [r EXCEPT !.pc = p, !.about = a].kind = r.kind
        /\ [r EXCEPT !.pc = p, !.about.year = a].kind = r.kind
        /\ [r EXCEPT !.pc = p, !.fee = a].kind = r.kind
        /\ [r EXCEPT !.pc = p, !.seen = a, !.frozen = b].kind = r.kind
  BY <1>1 DEF Shape
<1>5. ASSUME NEW rec, NEW rows, Step(t, rec, rows), rec.kind = r.kind PROVE FundsInv'
  BY <1>1, <1>2, <1>5, FundsOther
<1>6. Done(t) => FundsInv'
  BY <1>1, FundsGiveUp
<1>7. CASE \E p, rows : Step(t, [r EXCEPT !.pc = p], rows)
  BY <1>4, <1>5, <1>7
<1>8. CASE \E p, a, rows : Step(t, [r EXCEPT !.pc = p, !.about = a], rows)
  BY <1>4, <1>5, <1>8
<1>9. CASE \E p, y, rows : Step(t, [r EXCEPT !.pc = p, !.about.year = y], rows)
  BY <1>4, <1>5, <1>9
<1>10. CASE \E p, f, rows : Step(t, [r EXCEPT !.pc = p, !.fee = f], rows)
  BY <1>4, <1>5, <1>10
<1>11. CASE \E p, a, b, rows :
              Step(t, [r EXCEPT !.pc = p, !.seen = a, !.frozen = b], rows)
  <2>1. PICK p, a, b, rows :
          Step(t, [r EXCEPT !.pc = p, !.seen = a, !.frozen = b], rows)
    BY <1>11
  <2> DEFINE rec == [r EXCEPT !.pc = p, !.seen = a, !.frozen = b]
  <2>2. rec.kind = r.kind
    BY <1>1 DEF Shape
  <2>3. Step(t, rec, rows)
    BY <2>1
  <2> HIDE DEF rec
  <2> QED
    BY <1>5, <2>2, <2>3
<1> QED
  BY <1>3, <1>6, <1>7, <1>8, <1>9, <1>10, <1>11, Zenon

\* The account rows of different accounts differ, and one that a transaction
\* holds no other does.
LEMMA RowsApart ==
    ASSUME LedgerInv, NEW t \in Txs, NEW u \in Txs \ {t}
    PROVE  /\ \A s, y : AccountRow(s, y) \in locks[t] => AccountRow(s, y) \notin locks[u]
           /\ \A s, y, a, b : AccountRow(s, y) = AccountRow(a, b) => s = a /\ y = b
           /\ YearUpdate \in locks[t] => YearShare \notin locks[u]
<1>1. /\ locks[t] \cap locks[u] \subseteq {YearShare}
      /\ YearUpdate \in locks[t] => YearShare \notin locks[u]
  BY DEF LedgerInv, LocksInv
<1>2. \A s, y : AccountRow(s, y) # YearShare
  BY RowsDiffer
<1>3. ASSUME NEW s, NEW y, NEW a, NEW b, AccountRow(s, y) = AccountRow(a, b)
      PROVE  s = a /\ y = b
  <2>1. /\ AccountRow(s, y)[2] = s /\ AccountRow(s, y)[3] = y
        /\ AccountRow(a, b)[2] = a /\ AccountRow(a, b)[3] = b
    BY DEF AccountRow
  <2> QED
    BY <1>3, <2>1
<1> QED
  BY <1>1, <1>2, <1>3

\* A balance that was not overdrawn is not overdrawn after the step.
SolventKept ==
    \A s \in Students, y \in Years : Remaining(s, y) >= 0 => Remaining(s, y)' >= 0

\* The same account, and no more paid.
LEMMA StaysSolvent ==
    ASSUME LedgerInv, LedgerInv', NEW s \in Students, NEW y \in Years,
           account'[s][y] = account[s][y], Paid(s, y)' <= Paid(s, y),
           Remaining(s, y) >= 0
    PROVE  Remaining(s, y)' >= 0
<1>1. account[s][y].fee \in Amount /\ account[s][y].discount \in Amount
  BY DEF LedgerInv, TablesInv, TypeOK
<1>2. Paid(s, y) \in Nat /\ Paid(s, y)' \in Nat
  BY PaidIsSize, PaidIsSizeNext DEF PaidCounts
<1> QED
  BY <1>1, <1>2, TuitionAssumption DEF Remaining, Amount

\* A payment or discount is committed: the account it writes still has room
\* for it, and nobody else relies on that account.
LEMMA CommitWriteFunds ==
    ASSUME LedgerInv, LedgerInv', FundsInv, NEW t \in Txs, CommitWrite(t)
    PROVE  FundsInv' /\ SolventKept
<1>0. PICK r : r = tx[t]
  OBVIOUS
<1> DEFINE new == [fee |-> r.fee, discount |-> NewDiscount(r)]
           pay == [student |-> r.student, year |-> r.year, amount |-> r.value,
                   voidedBy |-> 0]
<1>1. /\ r.pc = "commit" /\ r.kind \in {"pay", "discount"}
      /\ account' = [account EXCEPT ![r.student][r.year] = new]
      /\ \/ r.kind = "discount" /\ UNCHANGED payments
         \/ r.kind = "pay" /\ payments' = Append(payments, pay)
      /\ Done(t) /\ Form(r) /\ Facts(r, locks[t]) /\ Funds(r, locks[t])
  BY <1>0 DEF CommitWrite, LedgerInv, FundsInv
<1>2. account \in [Students -> [Years -> AccountType]]
  BY DEF LedgerInv, TablesInv, TypeOK, AccountType
<1>3. /\ r.student \in Students /\ r.year \in Years /\ r.value \in Amount
      /\ r.discount \in Amount /\ r.fee \in Amount
      /\ AccountRow(r.student, r.year) \in locks[t]
      /\ Fits(r, Paid(r.student, r.year))
  BY <1>1 DEF Form, Facts, WriteFacts, Funds
<1>4. pay \in Payment /\ pay.student = r.student /\ pay.year = r.year
      /\ pay.amount = r.value /\ pay.voidedBy = 0
  BY <1>3 DEF Payment
<1>5. /\ new.fee = r.fee
      /\ r.kind = "pay" => new.discount = r.discount
      /\ r.kind = "discount" => new.discount = r.value
  BY DEF NewDiscount
<1> HIDE DEF new, pay
<1>6. \A s \in Students, y \in Years :
        account'[s][y] = IF s = r.student /\ y = r.year THEN new ELSE account[s][y]
  BY <1>1, <1>2, <1>3
<1>7. \A s, y : s # r.student \/ y # r.year => Paid(s, y)' <= Paid(s, y)
  BY <1>1, <1>4, PaidRises, PaidStays
<1>8. Remaining(r.student, r.year)' >= 0
  <2> DEFINE p == Paid(r.student, r.year)
             q == Paid(r.student, r.year)'
  <2>1. p \in Nat /\ q \in Nat
    BY PaidIsSize, PaidIsSizeNext DEF PaidCounts
  <2>2. r.kind = "pay" => q = p + r.value
    BY <1>1, <1>4, PaidRises
  <2>3. r.kind = "discount" => q <= p
    BY <1>1, PaidStays
  <2>4. Fits(r, p)
    BY <1>3
  <2>5. Remaining(r.student, r.year)' = new.fee - new.discount - q
    BY <1>3, <1>6 DEF Remaining
  <2> HIDE DEF p, q
  <2>6. new.fee - new.discount - q >= 0
    <3>1. r.fee \in Nat /\ r.discount \in Nat /\ r.value \in Nat
      BY <1>3, TuitionAssumption DEF Amount
    <3>2. CASE r.kind = "pay"
      <4>1. r.value <= r.fee - r.discount - p
        BY <2>4, <3>2 DEF Fits
      <4> QED
        BY <1>5, <2>1, <2>2, <3>1, <3>2, <4>1
    <3>3. CASE r.kind = "discount"
      <4>1. r.value + p <= r.fee
        BY <2>4, <3>3 DEF Fits
      <4> QED
        BY <1>5, <2>1, <2>3, <3>1, <3>3, <4>1
    <3> QED
      BY <1>1, <3>2, <3>3
  <2> QED
    BY <2>5, <2>6
<1>9. SolventKept
  <2> SUFFICES ASSUME NEW s \in Students, NEW y \in Years, Remaining(s, y) >= 0
               PROVE  Remaining(s, y)' >= 0
    BY DEF SolventKept
  <2>1. CASE s = r.student /\ y = r.year
    BY <1>8, <2>1
  <2>2. CASE s # r.student \/ y # r.year
    BY <1>6, <1>7, <2>2, StaysSolvent
  <2> QED
    BY <2>1, <2>2
<1>10. ASSUME NEW u \in Txs \ {t} PROVE Funds(tx[u], locks[u])'
  <2>0. PICK w : w = tx[u]
    OBVIOUS
  <2>1. /\ tx'[u] = w /\ locks'[u] = locks[u] /\ Form(w) /\ Funds(w, locks[u])
        /\ Facts(w, locks[u])
    BY <1>1, <2>0 DEF Done, LedgerInv, FundsInv
  <2>2. /\ AccountRow(r.student, r.year) \notin locks[u]
        /\ \A s, y, a, b : AccountRow(s, y) = AccountRow(a, b) => s = a /\ y = b
    BY <1>3, RowsApart
  <2>3. \A s, y : AccountRow(s, y) \in locks[u] => s # r.student \/ y # r.year
    BY <2>2
  <2>4. w.kind \in {"pay", "discount"} /\ w.pc = "commit" =>
          Paid(w.student, w.year)' <= Paid(w.student, w.year)
    BY <1>7, <2>1, <2>3 DEF Facts, WriteFacts
  <2>5. w.kind = "apply" /\ w.pc \in {"update", "commit"} =>
          \A s \in Students : AccountRow(s, w.year) \in locks[u] =>
            /\ account'[s][w.year].discount = account[s][w.year].discount
            /\ Paid(s, w.year)' <= Paid(s, w.year)
    BY <1>6, <1>7, <2>1, <2>3 DEF Form
  <2>6. Funds(w, locks[u])'
    BY <2>1, <2>4, <2>5, FundsStay
  <2> QED
    BY <2>1, <2>6
<1> QED
  BY <1>1, <1>9, <1>10, FundsDone

\* A void takes a payment back.
LEMMA CommitVoidFunds ==
    ASSUME LedgerInv, LedgerInv', FundsInv, NEW t \in Txs, CommitVoid(t)
    PROVE  FundsInv' /\ SolventKept
<1> DEFINE n == tx[t].value
<1>1. /\ tx[t].pc = "commit" /\ tx[t].kind = "void"
      /\ payments' = [payments EXCEPT ![n].voidedBy = t]
      /\ Done(t) /\ UNCHANGED account /\ Facts(tx[t], locks[t])
  BY DEF CommitVoid, LedgerInv
<1>2. payments \in Seq(Payment) /\ n \in DOMAIN payments /\ payments[n].voidedBy = 0
  BY <1>1 DEF LedgerInv, TablesInv, TypeOK, Payment, Facts, VoidFacts
<1> DEFINE m == [payments[n] EXCEPT !.voidedBy = t]
<1>3. m = [payments[n] EXCEPT !.voidedBy = t] /\ payments' = [payments EXCEPT ![n] = m]
  BY <1>1
<1> HIDE DEF n, m
<1>4. /\ m.student = payments[n].student /\ m.year = payments[n].year
      /\ m.amount = payments[n].amount
  <2>1. payments[n] \in Payment
    BY <1>2
  <2> QED
    BY <1>3, <2>1 DEF Payment
<1>5. /\ DOMAIN payments' = DOMAIN payments /\ payments'[n] = m
      /\ \A i \in DOMAIN payments : i # n => payments'[i] = payments[i]
  BY <1>2, <1>3
<1>6. \A s, y : Paid(s, y)' <= Paid(s, y)
  <2> SUFFICES ASSUME NEW s, NEW y PROVE Paid(s, y)' <= Paid(s, y)
    OBVIOUS
  <2>1. \A i \in PaidRows(payments', s, y) :
          i \in PaidRows(payments, s, y) /\ payments'[i].amount = payments[i].amount
    BY <1>2, <1>4, <1>5 DEF PaidRows
  <2> QED
    BY <2>1, PaidFalls
<1>7. SolventKept
  BY <1>1, <1>6, StaysSolvent DEF SolventKept
<1>8. ASSUME NEW u \in Txs \ {t} PROVE Funds(tx[u], locks[u])'
  <2>0. PICK w : w = tx[u]
    OBVIOUS
  <2>1. /\ tx'[u] = w /\ locks'[u] = locks[u] /\ Form(w) /\ Funds(w, locks[u])
    BY <1>1, <2>0 DEF Done, LedgerInv, FundsInv
  <2>2. Funds(w, locks[u])'
    BY <1>1, <1>6, <2>1, FundsStay
  <2> QED
    BY <2>1, <2>2
<1> QED
  BY <1>1, <1>7, <1>8, FundsDone

\* A re-pricing overdraws at most accounts it had not tried.
Unchecked(s) ==
    \E t \in Txs : /\ tx[t].kind = "apply" /\ tx[t].pc = "commit"
                   /\ tx'[t] = Idle /\ s \notin tx[t].seen

CheckedKept ==
    \A s \in Students, y \in Years :
        Remaining(s, y) >= 0 /\ Remaining(s, y)' < 0 => Unchecked(s)

LEMMA CommitFeeFunds ==
    ASSUME LedgerInv, LedgerInv', FundsInv, NEW t \in Txs, CommitFee(t)
    PROVE  FundsInv' /\ CheckedKept
<1>0. PICK r : r = tx[t]
  OBVIOUS
<1>1. /\ r.pc = "commit" /\ r.kind \in {"fee", "apply"}
      /\ account' = [s \in Students |->
            IF s \in r.listed
            THEN [account[s] EXCEPT ![r.year].fee = r.value]
            ELSE account[s]]
      /\ Done(t) /\ UNCHANGED payments
      /\ Form(r) /\ Funds(r, locks[t])
  BY <1>0 DEF CommitFee, LedgerInv, FundsInv
<1>2. account \in [Students -> [Years -> AccountType]]
  BY DEF LedgerInv, TablesInv, TypeOK, AccountType
<1>3. r.year \in Years /\ r.value \in Amount /\ tx'[t] = Idle
  BY <1>1 DEF Form, Done, LedgerInv
<1>4. ASSUME NEW s \in Students, NEW y \in Years
      PROVE  /\ account'[s][y].discount = account[s][y].discount
             /\ s \notin r.listed \/ y # r.year => account'[s][y] = account[s][y]
             /\ s \in r.listed /\ y = r.year => account'[s][y].fee = r.value
  <2>1. CASE s \notin r.listed
    BY <1>1, <2>1
  <2>2. CASE s \in r.listed
    <3> DEFINE row == [account[s][r.year] EXCEPT !.fee = r.value]
    <3>1. account'[s] = [account[s] EXCEPT ![r.year] = row]
      BY <1>1, <2>2
    <3>2. row.fee = r.value /\ row.discount = account[s][r.year].discount
      BY <1>2, <1>3 DEF AccountType
    <3> HIDE DEF row
    <3>3. account'[s][y] = IF y = r.year THEN row ELSE account[s][y]
      BY <1>2, <1>3, <3>1
    <3> QED
      BY <2>2, <3>2, <3>3
  <2> QED
    BY <2>1, <2>2
<1>5. \A s, y : Paid(s, y)' <= Paid(s, y)
  BY <1>1, PaidStays
<1>6. CheckedKept
  <2> SUFFICES ASSUME NEW s \in Students, NEW y \in Years,
                      Remaining(s, y) >= 0, Remaining(s, y)' < 0
               PROVE  Unchecked(s)
    BY DEF CheckedKept
  <2>1. account'[s][y] # account[s][y]
    <3>1. CASE account'[s][y] = account[s][y]
      <4>1. Remaining(s, y)' >= 0
        BY <1>5, <3>1, StaysSolvent
      <4>2. Remaining(s, y)' \in Int
        <5>1. Paid(s, y)' \in Nat
          BY PaidIsSizeNext DEF PaidCounts
        <5>2. account'[s][y].fee \in Amount /\ account'[s][y].discount \in Amount
          BY DEF LedgerInv, TablesInv, TypeOK
        <5> QED
          BY <5>1, <5>2 DEF Remaining, Amount
      <4> QED
        BY <4>1, <4>2
    <3> QED
      BY <3>1
  <2>2. s \in r.listed /\ y = r.year /\ account'[s][y].fee = r.value
    BY <1>4, <2>1
  <2>3. r.kind = "apply"
    BY <1>1, <2>2 DEF Funds
  <2>4. s \notin r.seen
    <3> SUFFICES ASSUME s \in r.seen PROVE FALSE
      OBVIOUS
    <3>1. r.value - account[s][y].discount - Paid(s, y) >= 0
      BY <1>1, <2>2, <2>3 DEF Funds
    <3>2. Paid(s, y)' <= Paid(s, y) /\ Paid(s, y) \in Nat /\ Paid(s, y)' \in Nat
      BY <1>5, PaidIsSize, PaidIsSizeNext DEF PaidCounts
    <3>3. account[s][y].discount \in Nat /\ r.value \in Nat
      BY <1>2, <1>3, TuitionAssumption DEF AccountType, Amount
    <3>4. Remaining(s, y)' = r.value - account[s][y].discount - Paid(s, y)'
      BY <1>4, <2>2 DEF Remaining
    <3> QED
      BY <3>1, <3>2, <3>3, <3>4
  <2> QED
    BY <1>0, <1>1, <1>3, <2>3, <2>4 DEF Unchecked
<1>7. ASSUME NEW u \in Txs \ {t} PROVE Funds(tx[u], locks[u])'
  <2>0. PICK w : w = tx[u]
    OBVIOUS
  <2>1. /\ tx'[u] = w /\ locks'[u] = locks[u] /\ Form(w) /\ Funds(w, locks[u])
    BY <1>1, <2>0 DEF Done, LedgerInv, FundsInv
  <2>2. w.kind = "apply" => w.year \in Years
    BY <2>1 DEF Form
  <2>3. Funds(w, locks[u])'
    BY <1>4, <1>5, <2>1, <2>2, FundsStay
  <2> QED
    BY <2>1, <2>3
<1> QED
  BY <1>1, <1>6, <1>7, FundsDone

\* The switch gives a fee to those without an account, and all that share the
\* year are over.
LEMMA CommitYearFunds ==
    ASSUME LedgerInv, LedgerInv', FundsInv, NEW t \in Txs, CommitYear(t)
    PROVE  FundsInv' /\ SolventKept
<1>0. PICK r : r = tx[t]
  OBVIOUS
<1>1. /\ r.pc = "commit" /\ r.kind = "year"
      /\ account' = [s \in Students |-> [account[s] EXCEPT ![year] = r.frozen[s]]]
      /\ Done(t) /\ UNCHANGED payments /\ Facts(r, locks[t])
  BY <1>0 DEF CommitYear, LedgerInv
<1>2. /\ account \in [Students -> [Years -> AccountType]] /\ year \in Years
      /\ \A s \in Students, y \in Years :
           account[s][y].fee = 0 => account[s][y].discount = 0
  BY DEF LedgerInv, TablesInv, TypeOK, AccountType
<1>3. YearUpdate \in locks[t] /\ \A s \in Students : FrozenOK(r, s)
  BY <1>1 DEF Facts, YearFacts
<1>4. \A s, y : Paid(s, y)' <= Paid(s, y) /\ Paid(s, y) \in Nat /\ Paid(s, y)' \in Nat
  BY <1>1, PaidStays, PaidIsSize, PaidIsSizeNext DEF PaidCounts
<1>5. SolventKept
  <2> SUFFICES ASSUME NEW s \in Students, NEW y \in Years, Remaining(s, y) >= 0
               PROVE  Remaining(s, y)' >= 0
    BY DEF SolventKept
  <2>1. account'[s][y] = IF y = year THEN r.frozen[s] ELSE account[s][y]
    BY <1>1, <1>2
  <2>2. CASE y # year \/ HasAccount(s, year)
    <3>1. account'[s][y] = account[s][y]
      BY <1>3, <2>1, <2>2 DEF FrozenOK
    <3> QED
      BY <1>4, <3>1, StaysSolvent
  <2>3. CASE y = year /\ ~HasAccount(s, year)
    <3>1. r.frozen[s] \in AccountType /\ r.frozen[s].discount = 0
      BY <1>3, <2>3 DEF FrozenOK
    <3>2. account[s][y].fee = 0 /\ account[s][y].discount = 0
      BY <1>2, <2>3, TuitionAssumption DEF HasAccount, AccountType, Amount
    <3>3. r.frozen[s].fee \in Nat
      BY <3>1, TuitionAssumption DEF AccountType, Amount
    <3>4. Remaining(s, y) = 0 - Paid(s, y)
      BY <1>4, <3>2 DEF Remaining
    <3>5. Remaining(s, y)' = r.frozen[s].fee - 0 - Paid(s, y)'
      BY <2>1, <2>3, <3>1 DEF Remaining
    <3> QED
      BY <1>4, <3>3, <3>4, <3>5
  <2> QED
    BY <2>2, <2>3
<1>6. ASSUME NEW u \in Txs \ {t} PROVE Funds(tx[u], locks[u])'
  <2>0. PICK w : w = tx[u]
    OBVIOUS
  <2>1. /\ tx'[u] = w /\ locks'[u] = locks[u] /\ Form(w) /\ Funds(w, locks[u])
        /\ Facts(w, locks[u])
    BY <1>1, <2>0 DEF Done, LedgerInv, FundsInv
  <2>2. YearShare \notin locks[u]
    BY <1>3, RowsApart
  <2>3. w.kind = "apply" => w.pc = "open"
    BY <2>1, <2>2 DEF Facts, FeeFacts
  <2>4. Funds(w, locks[u])'
    BY <1>4, <2>1, <2>3, FundsStay
  <2> QED
    BY <2>1, <2>4
<1> QED
  BY <1>1, <1>5, <1>6, FundsDone

\* A balance that stays out of the red is not overdrawn.
LEMMA SolventIsChecked ==
    ASSUME LedgerInv', SolventKept
    PROVE  CheckedKept
<1> SUFFICES ASSUME NEW s \in Students, NEW y \in Years, Remaining(s, y)' >= 0,
                    Remaining(s, y)' < 0
             PROVE  FALSE
  BY DEF SolventKept, CheckedKept
<1>1. Paid(s, y)' \in Nat
  BY PaidIsSizeNext DEF PaidCounts
<1>2. account'[s][y].fee \in Amount /\ account'[s][y].discount \in Amount
  BY DEF LedgerInv, TablesInv, TypeOK
<1>3. Remaining(s, y)' \in Int
  BY <1>1, <1>2 DEF Remaining, Amount
<1> QED
  BY <1>3

\* Steps that touch neither accounts nor payments overdraw nothing.
LEMMA ReadsSolvent ==
    ASSUME LedgerInv, LedgerInv', UNCHANGED <<account, payments>>
    PROVE  CheckedKept
<1>1. SolventKept
  BY PaidStays, StaysSolvent DEF SolventKept
<1> QED
  BY <1>1, SolventIsChecked

\* Nor do steps of nobody's transaction, and no transaction notices them.
LEMMA WorldFunds ==
    ASSUME LedgerInv, LedgerInv', FundsInv, UNCHANGED <<account, payments, tx, locks>>
    PROVE  FundsInv'
<1>1. \A r, held : Form(r) /\ Funds(r, held) => Funds(r, held)'
  BY FundsRead
<1>2. ASSUME NEW u \in Txs PROVE Funds(tx[u], locks[u])'
  <2>1. /\ tx'[u] = tx[u] /\ locks'[u] = locks[u] /\ Form(tx[u])
        /\ Funds(tx[u], locks[u])
    BY DEF LedgerInv, FundsInv
  <2> QED
    BY <1>1, <2>1
<1> QED
  BY <1>2 DEF FundsInv

LEMMA FundsStep ==
    ASSUME LedgerInv, FundsInv, [ExpensesNext]_allVars
    PROVE  FundsInv' /\ CheckedKept
<1>0. LedgerInv'
  BY LedgerStep
<1>1. UNCHANGED <<account, payments>> => CheckedKept
  BY <1>0, ReadsSolvent
<1>2. UNCHANGED <<account, payments, tx, locks>> => FundsInv' /\ CheckedKept
  BY <1>0, <1>1, WorldFunds
<1>3. CASE \/ \E s \in Students, g \in Grades : MoveStudent(s, g)
           \/ \E s \in Students : DeleteStudent(s)
           \/ \E t \in Txs, c \in Categories : AddCategory(t, c)
           \/ Answered \/ UNCHANGED allVars
  BY <1>2, <1>3 DEF MoveStudent, DeleteStudent, AddCategory, Answered, allVars, vars, tables
<1>4. ASSUME NEW t \in Txs, TxStep(t) PROVE FundsInv' /\ CheckedKept
  <2>1. CASE Begin(t)
    BY <1>0, <1>1, <2>1, ArrivalFunds DEF Begin, tables
  <2>2. CASE ShareYear(t)
    BY <1>0, <1>1, <2>2, SharedFunds DEF ShareYear, tables
  <2>3. CASE LockAccount(t)
    BY <1>0, <1>1, <2>3, LockAccountFunds DEF LockAccount, tables
  <2>4. CASE CheckWrite(t)
    BY <1>0, <1>1, <2>4, CheckWriteFunds DEF CheckWrite, tables
  <2>5. CASE CommitWrite(t)
    BY <1>0, <2>5, CommitWriteFunds, SolventIsChecked
  <2>6. CASE LockPayment(t) \/ LockYear(t) \/ FreezeYear(t)
    BY <1>0, <1>1, <2>6, OtherFunds DEF LockPayment, LockYear, FreezeYear, tables
  <2>7. CASE CommitVoid(t)
    BY <1>0, <2>7, CommitVoidFunds, SolventIsChecked
  <2>8. CASE SaveFee(t)
    BY <1>0, <1>1, <2>8, SaveFeeFunds DEF SaveFee, tables
  <2>9. CASE SelectAccounts(t)
    BY <1>0, <1>1, <2>9, SelectAccountsFunds DEF SelectAccounts, tables
  <2>10. CASE LockAccounts(t)
    BY <1>0, <1>1, <2>10, LockAccountsFunds DEF LockAccounts, tables
  <2>11. CASE CheckAccounts(t)
    BY <1>0, <1>1, <2>11, CheckAccountsFunds DEF CheckAccounts, tables
  <2>12. CASE UpdateAccounts(t)
    BY <1>0, <1>1, <2>12, UpdateAccountsFunds DEF UpdateAccounts, tables
  <2>13. CASE CommitFee(t)
    BY <1>0, <2>13, CommitFeeFunds
  <2>14. CASE CommitYear(t)
    BY <1>0, <2>14, CommitYearFunds, SolventIsChecked
  <2>15. CASE Abort(t)
    BY <1>0, <1>1, <2>15, FundsGiveUp DEF Abort, RolledBack, tables
  <2> QED
    BY <1>4, <2>1, <2>2, <2>3, <2>4, <2>5, <2>6, <2>7, <2>8, <2>9, <2>10, <2>11,
       <2>12, <2>13, <2>14, <2>15 DEF TxStep
<1>5. ASSUME NEW t \in Txs, ExpenseStep(t) PROVE FundsInv' /\ CheckedKept
  <2>1. CASE \E c \in Categories : AddCategory(t, c)
    BY <1>3, <2>1
  <2>2. CASE BeginExpense(t) \/ BeginVoidExpense(t) \/ BeginSummary(t)
    BY <1>0, <1>1, <2>2, ArrivalFunds DEF BeginExpense, BeginVoidExpense, BeginSummary,
       tables
  <2>3. CASE \/ ShareExpenseYear(t) \/ CheckExpense(t) \/ LockExpense(t)
             \/ SumCategories(t) \/ SumMonths(t) \/ SumCollected(t)
    <3>1. UNCHANGED <<account, payments>>
      BY <2>3 DEF ShareExpenseYear, CheckExpense, LockExpense, SumCategories, SumMonths,
                  SumCollected, Stays, tables
    <3> QED
      BY <1>0, <1>1, <2>3, <3>1, OtherFunds
  <2>4. CASE CommitExpense(t) \/ CommitVoidExpense(t) \/ AnswerSummary(t)
    <3>1. UNCHANGED <<account, payments>> /\ Done(t)
      BY <2>4 DEF CommitExpense, CommitVoidExpense, AnswerSummary, Stays, tables
    <3> QED
      BY <1>0, <1>1, <3>1, FundsGiveUp
  <2> QED
    BY <1>5, <2>1, <2>2, <2>3, <2>4 DEF ExpenseStep
<1> QED
  BY <1>3, <1>4, <1>5 DEF ExpensesNext, Next

LEMMA FundsInit == ASSUME ExpensesInit PROVE FundsInv
<1>1. \A t \in Txs : tx[t] = Idle
  BY DEF ExpensesInit, Init
<1>2. Idle.kind = "none"
  BY DEF Idle
<1> QED
  BY <1>1, <1>2 DEF FundsInv, Funds

\* No payment, discount, void or switch overdraws an account, however they
\* interleave; a re-pricing does so at most to an account that its check did
\* not see: the row locks keep every balance that was checked as it was until
\* the commit, and payments voided meanwhile only leave more room.
THEOREM OverdrawnSafe == ExpensesSpec => OverdrawnOnlyUnchecked
<1>1. ExpensesInit => LedgerInv /\ FundsInv
  BY LedgerInit, FundsInit
<1>2. LedgerInv /\ FundsInv /\ [ExpensesNext]_allVars => LedgerInv' /\ FundsInv'
  BY LedgerStep, FundsStep
<1>3. LedgerInv /\ FundsInv /\ [ExpensesNext]_allVars =>
        [\A s \in Students, y \in Years :
           Remaining(s, y) >= 0 /\ Remaining(s, y)' < 0 =>
               \E t \in Txs : /\ tx[t].kind = "apply" /\ tx[t].pc = "commit"
                              /\ tx'[t] = Idle /\ s \notin tx[t].seen]_vars
  BY FundsStep DEF CheckedKept, Unchecked
<1> QED
  BY <1>1, <1>2, <1>3, PTL DEF ExpensesSpec, OverdrawnOnlyUnchecked

-----------------------------------------------------------------------------
(* The report.  What it sums is stated of the table it reads: a step that  *)
(* leaves the table alone leaves it alone.                                 *)

CountedIn(rows, y, c) ==
    {i \in DOMAIN rows : /\ rows[i].year = y /\ rows[i].voidedBy = 0
                         /\ c # 0 => rows[i].category = c}
TotalIn(rows, y, c) == AmountSum(rows, CountedIn(rows, y, c))
MonthIn(rows, y, c, m) == {i \in CountedIn(rows, y, c) : rows[i].month = m}
MonthsIn(rows, y, c) == [m \in Months |-> AmountSum(rows, MonthIn(rows, y, c, m))]
VoidedIn(rows) == {i \in DOMAIN rows : rows[i].voidedBy # 0}
EditsIn(rows) == Len(rows) + Cardinality(VoidedIn(rows))

\* They are the sums of the model.
LEMMA SumsRead ==
    /\ Edits = EditsIn(expenses)
    /\ \A y, c : /\ Counted(y, c) = CountedIn(expenses, y, c)
                 /\ Total(Counted(y, c)) = TotalIn(expenses, y, c)
                 /\ ByMonth(y, c) = MonthsIn(expenses, y, c)
                 /\ \A m : ListTotal(y, c, m) = AmountSum(expenses, MonthIn(expenses, y, c, m))
<1>1. Edits = EditsIn(expenses)
  BY Zenon DEF Edits, EditsIn, VoidedIn
<1>2. \A y, c : Counted(y, c) = CountedIn(expenses, y, c)
  BY Zenon DEF Counted, CountedIn
<1>3. \A rows : Total(rows) = AmountSum(expenses, rows)
  BY Zenon DEF Total, AmountSum
<1>4. \A y, c, m : ListTotal(y, c, m) = AmountSum(expenses, MonthIn(expenses, y, c, m))
  BY <1>2, <1>3, Zenon DEF ListTotal, MonthIn
<1>5. \A y, c : ByMonth(y, c) = MonthsIn(expenses, y, c)
  BY <1>2, <1>3, Zenon DEF ByMonth, MonthsIn, MonthIn
<1>6. \A y, c : Total(Counted(y, c)) = TotalIn(expenses, y, c)
  BY <1>2, <1>3, Zenon DEF TotalIn
<1> QED
  BY <1>1, <1>2, <1>4, <1>5, <1>6

\* The total of some expenses is the size of a finite set.
LEMMA ExpensesAreFinite ==
    ASSUME NEW rows \in Seq(Expense), NEW S \in SUBSET DOMAIN rows
    PROVE  /\ IsFiniteSet(S) /\ IsFiniteSet(Units(rows, S))
           /\ AmountSum(rows, S) = Cardinality(Units(rows, S))
<1>1. Len(rows) \in Nat /\ DOMAIN rows = 1..Len(rows)
  OBVIOUS
<1>2. IsFiniteSet(1..Len(rows))
  BY <1>1, FS_Interval
<1>3. IsFiniteSet(S)
  BY <1>1, <1>2, FS_Subset
<1>4. \A i \in S : rows[i].amount \in 0..MaxExpense
  <2>1. \A i \in S : rows[i] \in Expense
    OBVIOUS
  <2> QED
    BY <2>1 DEF Expense
<1>5. MaxExpense \in Nat
  BY ExpensesAssumption
<1> QED
  BY <1>3, <1>4, <1>5, AmountIsSize

\* The totals of disjoint parts add up to the total of all.
LEMMA PartsAddUp ==
    ASSUME NEW rows \in Seq(Expense), NEW K, IsFiniteSet(K), NEW P, NEW w,
           \A k \in K : P[k] \subseteq DOMAIN rows /\ w[k] = AmountSum(rows, P[k]),
           \A j, k \in K : j # k => P[j] \cap P[k] = {}
    PROVE  SumOver(w, K) = AmountSum(rows, Joined(P, K))
<1> DEFINE U == [k \in K |-> Units(rows, P[k])]
<1>1. Joined(U, K) = Units(rows, Joined(P, K))
  BY DEF Joined, Units
<1>2. Joined(P, K) \in SUBSET DOMAIN rows
  BY DEF Joined
<1>3. /\ IsFiniteSet(Units(rows, Joined(P, K)))
      /\ AmountSum(rows, Joined(P, K)) = Cardinality(Units(rows, Joined(P, K)))
  BY <1>2, ExpensesAreFinite
<1>4. \A k \in K : w[k] = Cardinality(U[k])
  BY ExpensesAreFinite
<1>5. \A j, k \in K : j # k => U[j] \cap U[k] = {}
  BY DEF Units
<1> HIDE DEF U
<1>6. SumOver(w, K) = Cardinality(Joined(U, K))
  BY <1>1, <1>3, <1>4, <1>5, SumIsSize
<1> QED
  BY <1>1, <1>3, <1>6

\* The months of a year add up to its total.
LEMMA MonthsAddUp ==
    ASSUME NEW rows \in Seq(Expense), NEW y, NEW c
    PROVE  SumOver(MonthsIn(rows, y, c), Months) = TotalIn(rows, y, c)
<1> DEFINE P == [m \in Months |-> MonthIn(rows, y, c, m)]
           w == MonthsIn(rows, y, c)
<1>1. \A m \in Months : P[m] \subseteq DOMAIN rows /\ w[m] = AmountSum(rows, P[m])
  BY DEF MonthIn, CountedIn, MonthsIn
<1>2. \A j, k \in Months : j # k => P[j] \cap P[k] = {}
  BY DEF MonthIn
<1>3. Joined(P, Months) = CountedIn(rows, y, c)
  <2>1. \A i \in CountedIn(rows, y, c) : rows[i].month \in Months
    <3>1. \A i \in DOMAIN rows : rows[i] \in Expense
      OBVIOUS
    <3> QED
      BY <3>1 DEF CountedIn, Expense
  <2> QED
    BY <2>1 DEF Joined, MonthIn
<1> HIDE DEF P, w
<1>4. SumOver(w, Months) = AmountSum(rows, Joined(P, Months))
  BY <1>1, <1>2, PartsAddUp, ExpensesAssumption
<1> QED
  BY <1>3, <1>4 DEF TotalIn, w

\* So do the categories, as every expense has one of them.
LEMMA CategoriesAddUp ==
    ASSUME NEW rows \in Seq(Expense), NEW cats, IsFiniteSet(cats), 0 \notin cats,
           \A i \in DOMAIN rows : rows[i].category \in cats,
           NEW y, NEW c \in cats \cup {0}, NEW w,
           DOMAIN w = {k \in cats : c # 0 => k = c},
           \A k \in DOMAIN w : w[k] = TotalIn(rows, y, k)
    PROVE  SumOver(w, DOMAIN w) = TotalIn(rows, y, c)
<1> DEFINE K == DOMAIN w
           P == [k \in K |-> CountedIn(rows, y, k)]
<1>1. \A k \in K : P[k] \subseteq DOMAIN rows /\ w[k] = AmountSum(rows, P[k])
  BY DEF CountedIn, TotalIn
<1>2. \A j, k \in K : j # k => P[j] \cap P[k] = {}
  BY DEF CountedIn
<1>3. IsFiniteSet(K)
  <2>1. K \in SUBSET cats
    OBVIOUS
  <2> QED
    BY <2>1, FS_Subset
<1>4. Joined(P, K) = CountedIn(rows, y, c)
  <2>1. CASE c = 0
    BY <2>1 DEF Joined, CountedIn
  <2>2. CASE c # 0
    <3>1. K = {c}
      BY <2>2
    <3> QED
      BY <3>1 DEF Joined
  <2> QED
    BY <2>1, <2>2
<1> HIDE DEF K, P
<1>5. SumOver(w, K) = AmountSum(rows, Joined(P, K))
  BY <1>1, <1>2, <1>3, PartsAddUp
<1> QED
  BY <1>4, <1>5 DEF TotalIn, K

\* What the report and an accepted expense rely on: the report's sums are those
\* of the table for as long as nobody edits it.
Reported(rec, rows, cats) ==
    /\ rec.kind = "expense" /\ rec.pc = "commit" => rec.about.category \in cats
    /\ rec.kind = "summary" =>
         /\ rec.value \in cats \cup {0}
         /\ rec.pc # "categories" =>
              /\ rec.about.edits \in Nat /\ rec.about.edits <= EditsIn(rows)
              /\ rec.about.edits = EditsIn(rows) =>
                   rec.about.total = TotalIn(rows, rec.year, rec.value)
         /\ rec.pc \in {"collected", "answer"} =>
              (rec.about.edits = EditsIn(rows) =>
                 rec.about.months = MonthsIn(rows, rec.year, rec.value))

ReportInv ==
    /\ IsFiniteSet(categories)
    /\ \A i \in DOMAIN expenses : expenses[i].category \in categories
    /\ \A t \in Txs : Reported(tx[t], expenses, categories)

\* A transaction that neither stores an expense nor reports.
LEMMA Unreported ==
    ASSUME NEW rec, rec.kind \notin {"expense", "summary"}
    PROVE  \A rows, cats : Reported(rec, rows, cats)
  BY DEF Reported

\* A step of one transaction that edits no expense.
LEMMA ReportMoves ==
    ASSUME LedgerInv, ReportInv, NEW t \in Txs, \A u \in Txs \ {t} : tx'[u] = tx[u],
           UNCHANGED ledger, Reported(tx'[t], expenses, categories)
    PROVE  ReportInv'
<1>1. UNCHANGED <<expenses, categories>>
  BY DEF ledger
<1>2. \A u \in Txs : Reported(tx'[u], expenses, categories)
  BY DEF ReportInv
<1> QED
  BY <1>1, <1>2 DEF ReportInv

\* A transaction that goes on or ends leaves the others' records alone.
LEMMA OthersStay ==
    ASSUME LedgerInv, NEW t \in Txs
    PROVE  /\ Done(t) => tx'[t] = Idle /\ \A u \in Txs \ {t} : tx'[u] = tx[u]
           /\ \A rec, rows : Step(t, rec, rows) =>
                tx'[t] = rec /\ \A u \in Txs \ {t} : tx'[u] = tx[u]
  BY DEF LedgerInv, Done, Step

LEMMA ReportDone ==
    ASSUME LedgerInv, ReportInv, NEW t \in Txs, Done(t), UNCHANGED ledger
    PROVE  ReportInv'
<1>1. Idle.kind = "none"
  BY DEF Idle
<1> QED
  BY <1>1, Unreported, ReportMoves, OthersStay

\* Requests of tuition stay what they are from one statement to the next.
LEMMA TuitionReports ==
    ASSUME LedgerInv, ReportInv, NEW t \in Txs, UNCHANGED ledger,
           \/ ShareYear(t) \/ LockAccount(t) \/ CheckWrite(t) \/ LockPayment(t)
           \/ SaveFee(t) \/ SelectAccounts(t) \/ LockAccounts(t) \/ CheckAccounts(t)
           \/ UpdateAccounts(t) \/ LockYear(t) \/ FreezeYear(t)
    PROVE  ReportInv'
<1>0. PICK r : r = tx[t]
  OBVIOUS
<1>1. Form(r) /\ Shape(r)
  BY <1>0 DEF LedgerInv, Form
<1>2. ASSUME NEW rec, NEW rows, Step(t, rec, rows),
             rec.kind \notin {"expense", "summary"}
      PROVE  ReportInv'
  BY <1>2, Unreported, ReportMoves, OthersStay
<1>3. Done(t) => ReportInv'
  BY ReportDone
<1>4. CASE ShareYear(t)
  <2> DEFINE c == r.year = year
             b == [r EXCEPT !.current = c]
             d == [r EXCEPT !.year = year, !.current = TRUE]
             rec == [HeldYear(r) EXCEPT !.pc = "shared"]
  <2>1. HeldYear(r) = b \/ HeldYear(r) = d
    BY Zenon DEF HeldYear
  <2>2. r.kind \in {"pay", "discount", "fee", "apply"} /\ Step(t, rec, {YearShare})
    BY <1>0, <1>4 DEF ShareYear
  <2>3. b = [r EXCEPT !.current = c] /\ d = [r EXCEPT !.year = year, !.current = TRUE]
    OBVIOUS
  <2> HIDE DEF b, c, d
  <2>4. Shape(b) /\ b.kind = r.kind /\ Shape(d) /\ d.kind = r.kind
    BY <1>1, <2>3 DEF Shape
  <2>5. Shape(HeldYear(r)) /\ HeldYear(r).kind = r.kind
    BY <2>1, <2>4
  <2>6. rec.kind = r.kind
    BY <2>5, OnlyPc DEF Moved
  <2> HIDE DEF rec
  <2> QED
    BY <1>2, <2>2, <2>6
<1>5. CASE ~ShareYear(t)
  <2>1. LockAccount(t) \/ CheckWrite(t) \/ LockPayment(t) \/ SaveFee(t)
          \/ SelectAccounts(t) \/ LockAccounts(t) \/ CheckAccounts(t) \/ LockYear(t)
          \/ FreezeYear(t) => r.kind \notin {"expense", "summary"}
    BY <1>0, <1>1 DEF LockAccount, CheckWrite, LockPayment, SaveFee, SelectAccounts,
       LockAccounts, CheckAccounts, LockYear, FreezeYear, Form
  <2>2. ASSUME NEW p, NEW rows, Step(t, [r EXCEPT !.pc = p], rows),
               r.kind \notin {"expense", "summary"}
        PROVE  ReportInv'
    <3> DEFINE rec == [r EXCEPT !.pc = p]
    <3>1. rec.kind = r.kind
      BY <1>1 DEF Shape
    <3> HIDE DEF rec
    <3> QED
      BY <1>2, <2>2, <3>1 DEF rec
  <2>3. CASE LockAccount(t)
    <3>1. \/ Done(t)
          \/ \E f, d, rows : Step(t, [r EXCEPT !.pc = "sum", !.fee = f, !.discount = d],
                                  rows)
          \/ \E f, rows : Step(t, [r EXCEPT !.pc = "sum", !.fee = f], rows)
      BY <1>0, <2>3, Zenon DEF LockAccount
    <3>2. ASSUME NEW f, NEW d, NEW rows,
                 Step(t, [r EXCEPT !.pc = "sum", !.fee = f, !.discount = d], rows)
          PROVE  ReportInv'
      <4> DEFINE rec == [r EXCEPT !.pc = "sum", !.fee = f, !.discount = d]
      <4>1. rec.kind = r.kind
        BY <1>1 DEF Shape
      <4> HIDE DEF rec
      <4> QED
        BY <1>2, <2>1, <2>3, <3>2, <4>1 DEF rec
    <3>3. ASSUME NEW f, NEW rows, Step(t, [r EXCEPT !.pc = "sum", !.fee = f], rows)
          PROVE  ReportInv'
      <4> DEFINE rec == [r EXCEPT !.pc = "sum", !.fee = f]
      <4>1. rec.kind = r.kind
        BY <1>1 DEF Shape
      <4> HIDE DEF rec
      <4> QED
        BY <1>2, <2>1, <2>3, <3>3, <4>1 DEF rec
    <3> QED
      BY <1>3, <3>1, <3>2, <3>3
  <2>4. CASE CheckWrite(t)
    <3>1. Step(t, [r EXCEPT !.pc = "commit"], {}) \/ Done(t)
      BY <1>0, <2>4, Zenon DEF CheckWrite
    <3> QED
      BY <1>3, <2>1, <2>2, <2>4, <3>1
  <2>5. CASE LockPayment(t)
    BY <1>0, <1>3, <2>1, <2>2, <2>5 DEF LockPayment
  <2>6. CASE SaveFee(t)
    BY <1>0, <1>3, <2>1, <2>2, <2>6 DEF SaveFee
  <2>7. CASE SelectAccounts(t)
    <3> DEFINE rec == [r EXCEPT !.pc = "lock", !.listed = InGrade(r)]
    <3>1. rec.kind = r.kind
      BY <1>1 DEF Shape
    <3>2. Step(t, rec, {})
      BY <1>0, <2>7 DEF SelectAccounts
    <3> HIDE DEF rec
    <3> QED
      BY <1>2, <2>1, <2>7, <3>1, <3>2
  <2>8. CASE LockAccounts(t)
    BY <1>0, <1>3, <2>1, <2>2, <2>8 DEF LockAccounts
  <2>9. CASE CheckAccounts(t)
    <3> DEFINE rec == [r EXCEPT !.pc = "update", !.seen = r.listed]
    <3>1. rec.kind = r.kind
      BY <1>1 DEF Shape
    <3>2. Step(t, rec, {}) \/ Done(t)
      BY <1>0, <2>9, Zenon DEF CheckAccounts
    <3> HIDE DEF rec
    <3> QED
      BY <1>2, <1>3, <2>1, <2>9, <3>1, <3>2
  <2>10. CASE UpdateAccounts(t)
    <3> DEFINE base == [r EXCEPT !.listed = InGrade(r)]
               rec == [base EXCEPT !.pc = "commit"]
    <3>1. base.kind = r.kind /\ base.pc = r.pc /\ Shape(base)
      BY <1>1 DEF Shape
    <3>2. base.pc = "update" /\ (Step(t, rec, AccountRows(base)) \/ Done(t))
      BY <1>0, <2>10, Zenon DEF UpdateAccounts
    <3>3. rec.kind = base.kind
      BY <3>1, OnlyPc DEF Moved
    <3> HIDE DEF base, rec
    <3>4. r.kind \notin {"expense", "summary"}
      BY <1>1, <3>1, <3>2 DEF Form
    <3> QED
      BY <1>2, <1>3, <3>1, <3>2, <3>3, <3>4
  <2>11. CASE LockYear(t)
    BY <1>0, <1>3, <2>1, <2>2, <2>11 DEF LockYear
  <2>12. CASE FreezeYear(t)
    <3> DEFINE f == [s \in Students |-> Frozen(s)]
               rec == [r EXCEPT !.pc = "commit", !.seen = grade, !.frozen = f]
    <3>1. Step(t, rec, {})
      BY <1>0, <2>12 DEF FreezeYear
    <3> HIDE DEF f
    <3>2. rec.kind = r.kind
      BY <1>1 DEF Shape
    <3> HIDE DEF rec
    <3> QED
      BY <1>2, <2>1, <2>12, <3>1, <3>2
  <2> QED
    BY <1>5, <2>3, <2>4, <2>5, <2>6, <2>7, <2>8, <2>9, <2>10, <2>11, <2>12
<1> QED
  BY <1>4, <1>5

\* The number of edits is one.
LEMMA EditsNat ==
    ASSUME NEW rows \in Seq(Expense)
    PROVE  /\ EditsIn(rows) \in Nat /\ IsFiniteSet(VoidedIn(rows))
           /\ Cardinality(VoidedIn(rows)) \in Nat
<1>1. VoidedIn(rows) \in SUBSET DOMAIN rows
  BY DEF VoidedIn
<1>2. IsFiniteSet(VoidedIn(rows))
  BY <1>1, ExpensesAreFinite
<1>3. Cardinality(VoidedIn(rows)) \in Nat
  BY <1>2, FS_CardinalityType
<1> QED
  BY <1>2, <1>3 DEF EditsIn

\* An expense is stored: one edit more.
LEMMA StoreEdits ==
    ASSUME NEW rows \in Seq(Expense), NEW e \in Expense
    PROVE  EditsIn(Append(rows, e)) > EditsIn(rows)
<1> DEFINE more == Append(rows, e)
<1>1. more \in Seq(Expense) /\ Len(more) = Len(rows) + 1 /\ Len(rows) \in Nat
      /\ \A i \in 1..Len(rows) : more[i] = rows[i]
  OBVIOUS
<1>2. DOMAIN more = 1..Len(more) /\ DOMAIN rows = 1..Len(rows)
  BY <1>1
<1> HIDE DEF more
<1>3. \A i \in 1..Len(rows) : i \in 1..Len(more)
  BY <1>1
<1>4. VoidedIn(rows) \subseteq VoidedIn(more)
  BY <1>1, <1>2, <1>3 DEF VoidedIn
<1>5. /\ IsFiniteSet(VoidedIn(more)) /\ Cardinality(VoidedIn(more)) \in Nat
      /\ Cardinality(VoidedIn(rows)) \in Nat
  BY <1>1, EditsNat
<1>6. Cardinality(VoidedIn(rows)) <= Cardinality(VoidedIn(more))
  BY <1>4, <1>5, FS_Subset
<1>7. EditsIn(more) > EditsIn(rows)
  BY <1>1, <1>5, <1>6 DEF EditsIn
<1> QED
  BY <1>7 DEF more

\* And so when one is voided.
LEMMA VoidEdits ==
    ASSUME NEW rows \in Seq(Expense), NEW later \in Seq(Expense), NEW n \in DOMAIN rows,
           rows[n].voidedBy = 0, later[n].voidedBy # 0,
           DOMAIN later = DOMAIN rows, Len(later) = Len(rows),
           \A i \in DOMAIN rows : i # n => later[i] = rows[i]
    PROVE  EditsIn(later) > EditsIn(rows)
<1>1. VoidedIn(later) = VoidedIn(rows) \cup {n} /\ n \notin VoidedIn(rows)
  BY DEF VoidedIn
<1>2. IsFiniteSet(VoidedIn(rows)) /\ Cardinality(VoidedIn(rows)) \in Nat
  BY EditsNat
<1>3. Cardinality(VoidedIn(later)) = Cardinality(VoidedIn(rows)) + 1
  BY <1>1, <1>2, FS_AddElement
<1>4. Len(rows) \in Nat
  OBVIOUS
<1> QED
  BY <1>2, <1>3, <1>4 DEF EditsIn

\* A report begins for a category that exists, or for all.
LEMMA ArrivalReports ==
    ASSUME LedgerInv, LedgerInv', ReportInv, NEW t \in Txs, UNCHANGED ledger,
           \/ Begin(t) \/ BeginExpense(t) \/ BeginVoidExpense(t) \/ BeginSummary(t)
    PROVE  ReportInv'
<1>1. CASE Begin(t) \/ BeginExpense(t) \/ BeginVoidExpense(t)
  <2>1. \E rec : Asked(rec) /\ tx' = [tx EXCEPT ![t] = rec]
    <3>1. CASE Begin(t)
      BY <3>1, Zenon DEF Begin, Asked
    <3>2. CASE BeginExpense(t)
      BY <3>2, Zenon DEF BeginExpense, Asked
    <3>3. CASE BeginVoidExpense(t)
      BY <3>3, Zenon DEF BeginVoidExpense, Asked
    <3> QED
      BY <1>1, <3>1, <3>2, <3>3
  <2>2. PICK rec : Asked(rec) /\ tx' = [tx EXCEPT ![t] = rec]
    BY <2>1
  <2>3. tx'[t] = rec /\ \A u \in Txs \ {t} : tx'[u] = tx[u]
    BY <2>2 DEF LedgerInv
  <2>4. rec.pc = "open" /\ Form(rec)
    BY <2>2, <2>3, AskedPlain DEF LedgerInv
  <2>5. Reported(rec, expenses, categories)
    BY <2>4 DEF Reported, Form
  <2> QED
    BY <2>3, <2>5, ReportMoves
<1>2. CASE BeginSummary(t)
  <2>1. PICK y \in Years, c \in categories \cup {0} :
          tx' = [tx EXCEPT ![t] =
            [Idle EXCEPT !.kind = "summary", !.pc = "categories", !.year = y,
                         !.value = c]]
    BY <1>2 DEF BeginSummary
  <2> DEFINE rec == [Idle EXCEPT !.kind = "summary", !.pc = "categories", !.year = y,
                                 !.value = c]
  <2>2. rec.kind = "summary" /\ rec.pc = "categories" /\ rec.value = c
    BY DEF Idle
  <2>3. tx'[t] = rec /\ \A u \in Txs \ {t} : tx'[u] = tx[u]
    BY <2>1 DEF LedgerInv
  <2> HIDE DEF rec
  <2>4. Reported(rec, expenses, categories)
    BY <2>2 DEF Reported
  <2> QED
    BY <2>3, <2>4, ReportMoves
<1> QED
  BY <1>1, <1>2

\* An expense is accepted with a category that exists, and categories stay.
LEMMA ExpenseReports ==
    ASSUME LedgerInv, LedgerInv', ReportInv, NEW t \in Txs,
           ShareExpenseYear(t) \/ CheckExpense(t) \/ LockExpense(t)
    PROVE  ReportInv'
<1>0. PICK r : r = tx[t]
  OBVIOUS
<1>1. Form(r) /\ Shape(r) /\ UNCHANGED ledger
  BY <1>0 DEF LedgerInv, Form, ShareExpenseYear, CheckExpense, LockExpense
<1>2. Done(t) => ReportInv'
  BY <1>1, ReportDone
<1>3. CASE ShareExpenseYear(t)
  <2>1. \E y : Step(t, [r EXCEPT !.pc = "category", !.about.year = y], {YearShare})
    BY <1>0, <1>3, Zenon DEF ShareExpenseYear
  <2>2. PICK y : Step(t, [r EXCEPT !.pc = "category", !.about.year = y], {YearShare})
    BY <2>1
  <2> DEFINE rec == [r EXCEPT !.pc = "category", !.about.year = y]
  <2>3. rec.pc = "category" /\ rec.kind = r.kind
    BY <1>1 DEF Shape
  <2>4. r.kind = "expense"
    BY <1>0, <1>3 DEF ShareExpenseYear
  <2>5. Step(t, rec, {YearShare})
    BY <2>2
  <2> HIDE DEF rec
  <2>6. Reported(rec, expenses, categories)
    BY <2>3, <2>4 DEF Reported
  <2>7. tx'[t] = rec /\ \A u \in Txs \ {t} : tx'[u] = tx[u]
    BY <2>5, OthersStay
  <2> QED
    BY <1>1, <2>6, <2>7, ReportMoves
<1>4. CASE CheckExpense(t)
  <2> DEFINE rec == [r EXCEPT !.pc = "commit"]
  <2>1. r.pc = "category" /\ ((Acceptable(r.about) /\ Step(t, rec, {})) \/ Done(t))
    BY <1>0, <1>4, Zenon DEF CheckExpense
  <2>2. Moved(r, "commit", rec)
    BY <1>1, OnlyPc
  <2> HIDE DEF rec
  <2>3. ASSUME Acceptable(r.about), Step(t, rec, {}) PROVE ReportInv'
    <3>1. r.kind = "expense"
      BY <1>1, <2>1 DEF Form
    <3>2. Reported(rec, expenses, categories)
      BY <2>2, <2>3, <3>1 DEF Reported, Moved, Acceptable
    <3>3. tx'[t] = rec /\ \A u \in Txs \ {t} : tx'[u] = tx[u]
      BY <2>3, OthersStay
    <3> QED
      BY <1>1, <3>2, <3>3, ReportMoves
  <2> QED
    BY <1>2, <2>1, <2>3
<1>5. CASE LockExpense(t)
  <2> DEFINE rec == [r EXCEPT !.pc = "commit"]
  <2>1. \E rows : Step(t, rec, rows) \/ Done(t)
    BY <1>0, <1>5, Zenon DEF LockExpense
  <2>2. Moved(r, "commit", rec) /\ r.kind = "unexpense"
    BY <1>0, <1>1, <1>5, OnlyPc DEF LockExpense
  <2> HIDE DEF rec
  <2>3. Reported(rec, expenses, categories)
    BY <2>2, Unreported DEF Moved
  <2>4. ASSUME NEW rows, Step(t, rec, rows) PROVE ReportInv'
    BY <1>1, <2>3, <2>4, OthersStay, ReportMoves
  <2> QED
    BY <1>2, <2>1, <2>4
<1> QED
  BY <1>3, <1>4, <1>5

\* The sums are those of the table when they are taken.
LEMMA SummaryReports ==
    ASSUME LedgerInv, LedgerInv', ReportInv, NEW t \in Txs,
           SumCategories(t) \/ SumMonths(t) \/ SumCollected(t)
    PROVE  ReportInv'
<1>0. PICK r : r = tx[t]
  OBVIOUS
<1>1. Form(r) /\ Shape(r) /\ UNCHANGED ledger /\ Reported(r, expenses, categories)
  BY <1>0 DEF LedgerInv, Form, SumCategories, SumMonths, SumCollected, ReportInv
<1>2. r.kind = "summary" /\ r.value \in categories \cup {0}
  <2>1. r.pc \in {"categories", "months", "collected"}
    BY <1>0 DEF SumCategories, SumMonths, SumCollected
  <2> QED
    BY <1>1, <2>1 DEF Form, Reported
<1>3. expenses \in Seq(Expense) /\ 0 \notin categories /\ IsFiniteSet(categories)
      /\ \A i \in DOMAIN expenses : expenses[i].category \in categories
  BY ExpensesAssumption DEF LedgerInv, TablesInv, ReportInv
<1>4. ASSUME NEW rec, Step(t, rec, {}), Reported(rec, expenses, categories)
      PROVE  ReportInv'
  BY <1>1, <1>4, OthersStay, ReportMoves
<1>5. CASE SumCategories(t)
  <2> DEFINE w == ByCategory(r.year, r.value)
             a == [edits |-> Edits, total |-> SumOver(w, DOMAIN w)]
             rec == [r EXCEPT !.pc = "months", !.about = a]
  <2>1. Step(t, rec, {})
    <3>1. Step(t, [tx[t] EXCEPT !.pc = "months", !.about =
                     [edits |-> Edits,
                      total |-> SumOver(ByCategory(tx[t].year, tx[t].value),
                                        DOMAIN ByCategory(tx[t].year, tx[t].value))]],
               {})
      BY <1>5 DEF SumCategories, SumOver
    <3> QED
      BY <1>0, <3>1
  <2>2. DOMAIN w = {k \in categories : r.value # 0 => k = r.value}
    BY DEF ByCategory
  <2>3. \A k \in DOMAIN w : w[k] = Total(Counted(r.year, k))
    BY <2>2 DEF ByCategory
  <2>4. \A k \in DOMAIN w : w[k] = TotalIn(expenses, r.year, k)
    BY <2>3, SumsRead
  <2> HIDE DEF w
  <2>5. SumOver(w, DOMAIN w) = TotalIn(expenses, r.year, r.value)
    BY <1>2, <1>3, <2>2, <2>4, CategoriesAddUp
  <2>6. a.edits = EditsIn(expenses) /\ a.total = TotalIn(expenses, r.year, r.value)
    BY <2>5, SumsRead
  <2>7. EditsIn(expenses) \in Nat
    BY <1>3, EditsNat
  <2> HIDE DEF a
  <2>8. /\ rec.kind = r.kind /\ rec.pc = "months" /\ rec.value = r.value
        /\ rec.year = r.year /\ rec.about = a
    BY <1>1 DEF Shape
  <2> HIDE DEF rec
  <2>9. Reported(rec, expenses, categories)
    BY <1>2, <2>6, <2>7, <2>8 DEF Reported
  <2> QED
    BY <1>4, <2>1, <2>9
<1>6. CASE SumMonths(t)
  <2> DEFINE a == [edits |-> r.about.edits, total |-> r.about.total,
                   months |-> ByMonth(r.year, r.value)]
             rec == [r EXCEPT !.pc = "collected", !.about = a]
  <2>1. Step(t, rec, {}) /\ r.pc = "months"
    BY <1>0, <1>6, Zenon DEF SumMonths
  <2>2. /\ a.edits = r.about.edits /\ a.total = r.about.total
        /\ a.months = MonthsIn(expenses, r.year, r.value)
    BY SumsRead
  <2> HIDE DEF a
  <2>3. /\ rec.kind = r.kind /\ rec.pc = "collected" /\ rec.value = r.value
        /\ rec.year = r.year /\ rec.about = a
    BY <1>1 DEF Shape
  <2> HIDE DEF rec
  <2>4. Reported(rec, expenses, categories)
    BY <1>1, <1>2, <2>1, <2>2, <2>3 DEF Reported
  <2> QED
    BY <1>4, <2>1, <2>4
<1>7. CASE SumCollected(t)
  <2>1. \E f : Step(t, [r EXCEPT !.pc = "answer", !.fee = f], {}) /\ r.pc = "collected"
    BY <1>0, <1>7, Zenon DEF SumCollected
  <2>2. PICK f : Step(t, [r EXCEPT !.pc = "answer", !.fee = f], {}) /\ r.pc = "collected"
    BY <2>1
  <2> DEFINE rec == [r EXCEPT !.pc = "answer", !.fee = f]
  <2>3. /\ rec.kind = r.kind /\ rec.pc = "answer" /\ rec.value = r.value
        /\ rec.year = r.year /\ rec.about = r.about
    BY <1>1 DEF Shape
  <2>4. Step(t, rec, {})
    BY <2>2
  <2> HIDE DEF rec
  <2>5. Reported(rec, expenses, categories)
    BY <1>1, <1>2, <2>2, <2>3 DEF Reported
  <2> QED
    BY <1>4, <2>4, <2>5
<1> QED
  BY <1>5, <1>6, <1>7

\* Once an expense is stored or voided, what a report has summed before is no
\* longer said to be current; new categories change no sum.
LEMMA EditedReports ==
    ASSUME NEW rows, NEW later, NEW cats, NEW more, NEW rec,
           Reported(rec, rows, cats), cats \subseteq more,
           EditsIn(rows) \in Nat, EditsIn(later) \in Nat,
           later = rows \/ EditsIn(later) > EditsIn(rows)
    PROVE  Reported(rec, later, more)
<1>1. CASE later = rows
  BY <1>1 DEF Reported
<1>2. CASE EditsIn(later) > EditsIn(rows)
  <2>1. ASSUME rec.about.edits \in Nat, rec.about.edits <= EditsIn(rows)
        PROVE  rec.about.edits <= EditsIn(later) /\ rec.about.edits # EditsIn(later)
    BY <1>2, <2>1
  <2> QED
    BY <2>1 DEF Reported
<1> QED
  BY <1>1, <1>2

LEMMA CommitReports ==
    ASSUME LedgerInv, LedgerInv', ReportInv, NEW t \in Txs,
           CommitExpense(t) \/ CommitVoidExpense(t)
    PROVE  ReportInv'
<1>0. PICK r : r = tx[t]
  OBVIOUS
<1>1. /\ Done(t) /\ UNCHANGED categories /\ Form(r) /\ Facts(r, locks[t])
      /\ Reported(r, expenses, categories)
  BY <1>0 DEF CommitExpense, CommitVoidExpense, LedgerInv, ReportInv
<1>2. expenses \in Seq(Expense) /\ expenses' \in Seq(Expense)
  BY DEF LedgerInv, TablesInv
<1>3. /\ EditsIn(expenses') > EditsIn(expenses)
      /\ \A i \in DOMAIN expenses' : expenses'[i].category \in categories
  <2>1. CASE CommitExpense(t)
    <3> DEFINE e == r.about
    <3>1. expenses' = Append(expenses, e) /\ e \in Expense /\ e.category \in categories
      BY <1>0, <1>1, <2>1 DEF CommitExpense, Form, Reported
    <3> HIDE DEF e
    <3>2. EditsIn(expenses') > EditsIn(expenses)
      BY <1>2, <3>1, StoreEdits
    <3>3. \A i \in DOMAIN expenses' : expenses'[i] = e
            \/ (i \in DOMAIN expenses /\ expenses'[i] = expenses[i])
      BY <1>2, <3>1
    <3> QED
      BY <3>1, <3>2, <3>3 DEF ReportInv
  <2>2. CASE CommitVoidExpense(t)
    <3> DEFINE n == r.value
    <3>1. /\ expenses' = [expenses EXCEPT ![n].voidedBy = t]
          /\ n \in DOMAIN expenses /\ expenses[n].voidedBy = 0
      BY <1>0, <1>1, <2>2 DEF CommitVoidExpense, Facts, VoidFacts
    <3> DEFINE m == [expenses[n] EXCEPT !.voidedBy = t]
    <3>2. m = [expenses[n] EXCEPT !.voidedBy = t]
          /\ expenses' = [expenses EXCEPT ![n] = m]
      BY <3>1
    <3> HIDE DEF n, m
    <3>3. m.voidedBy = t /\ m.category = expenses[n].category /\ t # 0
      <4>1. expenses[n] \in Expense
        BY <1>2, <3>1
      <4> QED
        BY <3>2, <4>1, TuitionAssumption DEF Expense
    <3>4. /\ DOMAIN expenses' = DOMAIN expenses /\ Len(expenses') = Len(expenses)
          /\ \A i \in DOMAIN expenses : i # n => expenses'[i] = expenses[i]
          /\ expenses'[n] = m
      BY <1>2, <3>1, <3>2
    <3>5. EditsIn(expenses') > EditsIn(expenses)
      BY <1>2, <3>1, <3>3, <3>4, VoidEdits
    <3>6. \A i \in DOMAIN expenses' : expenses'[i].category = expenses[i].category
      BY <3>1, <3>3, <3>4
    <3> QED
      BY <3>4, <3>5, <3>6 DEF ReportInv
  <2> QED
    BY <2>1, <2>2
<1>4. EditsIn(expenses) \in Nat /\ EditsIn(expenses') \in Nat
  BY <1>2, EditsNat
<1>5. ASSUME NEW u \in Txs PROVE Reported(tx'[u], expenses', categories)
  <2>1. CASE u = t
    <3>1. tx'[u] = Idle /\ Idle.kind = "none"
      BY <1>1, <2>1, OthersStay DEF Idle
    <3> QED
      BY <3>1, Unreported
  <2>2. CASE u # t
    <3>1. tx'[u] = tx[u] /\ Reported(tx[u], expenses, categories)
      BY <1>1, <2>2, OthersStay DEF ReportInv
    <3> QED
      BY <1>3, <1>4, <3>1, EditedReports
  <2> QED
    BY <2>1, <2>2
<1> QED
  BY <1>1, <1>3, <1>5 DEF ReportInv

\* Steps outside the transactions.
LEMMA WorldReports ==
    ASSUME LedgerInv, ReportInv, UNCHANGED <<tx, expenses>>,
           categories' = categories \/ \E c : categories' = categories \cup {c}
    PROVE  ReportInv'
<1>1. categories \subseteq categories' /\ IsFiniteSet(categories')
  BY FS_AddElement DEF ReportInv
<1>2. EditsIn(expenses) \in Nat
  BY EditsNat DEF LedgerInv, TablesInv
<1>3. \A u \in Txs : Reported(tx[u], expenses, categories')
  BY <1>1, <1>2, EditedReports DEF ReportInv
<1> QED
  BY <1>1, <1>3 DEF ReportInv

LEMMA ReportStep ==
    ASSUME LedgerInv, ReportInv, [ExpensesNext]_allVars
    PROVE  ReportInv'
<1>0. LedgerInv'
  BY LedgerStep
<1>1. UNCHANGED <<tx, expenses, categories>> => ReportInv'
  BY WorldReports
<1>2. CASE \/ (\E s \in Students, g \in Grades : MoveStudent(s, g)) /\ UNCHANGED ledger
           \/ (\E s \in Students : DeleteStudent(s)) /\ UNCHANGED ledger
           \/ Answered /\ UNCHANGED ledger
           \/ UNCHANGED allVars
  BY <1>1, <1>2 DEF MoveStudent, DeleteStudent, Answered, allVars, vars, ledger
<1>3. ASSUME NEW t \in Txs, NEW c, AddCategory(t, c) PROVE ReportInv'
  BY <1>3, WorldReports DEF AddCategory
<1>4. ASSUME NEW t \in Txs, TxStep(t), UNCHANGED ledger PROVE ReportInv'
  <2>1. CASE Begin(t)
    BY <1>0, <1>4, <2>1, ArrivalReports
  <2>2. CASE CommitWrite(t) \/ CommitVoid(t) \/ CommitFee(t) \/ CommitYear(t) \/ Abort(t)
    <3>1. Done(t)
      BY <2>2 DEF CommitWrite, CommitVoid, CommitFee, CommitYear, Abort, RolledBack
    <3> QED
      BY <1>4, <3>1, ReportDone
  <2>3. CASE \/ ShareYear(t) \/ LockAccount(t) \/ CheckWrite(t) \/ LockPayment(t)
             \/ SaveFee(t) \/ SelectAccounts(t) \/ LockAccounts(t) \/ CheckAccounts(t)
             \/ UpdateAccounts(t) \/ LockYear(t) \/ FreezeYear(t)
    BY <1>4, <2>3, TuitionReports
  <2> QED
    BY <1>4, <2>1, <2>2, <2>3 DEF TxStep
<1>5. ASSUME NEW t \in Txs, ExpenseStep(t) PROVE ReportInv'
  <2>1. CASE \E c \in Categories : AddCategory(t, c)
    BY <1>3, <2>1
  <2>2. CASE BeginExpense(t) \/ BeginVoidExpense(t) \/ BeginSummary(t)
    BY <1>0, <2>2, ArrivalReports DEF BeginExpense, BeginVoidExpense, BeginSummary
  <2>3. CASE ShareExpenseYear(t) \/ CheckExpense(t) \/ LockExpense(t)
    BY <1>0, <2>3, ExpenseReports
  <2>4. CASE CommitExpense(t) \/ CommitVoidExpense(t)
    BY <1>0, <2>4, CommitReports
  <2>5. CASE SumCategories(t) \/ SumMonths(t) \/ SumCollected(t)
    BY <1>0, <2>5, SummaryReports
  <2>6. CASE AnswerSummary(t)
    BY <2>6, ReportDone DEF AnswerSummary
  <2> QED
    BY <1>5, <2>1, <2>2, <2>3, <2>4, <2>5, <2>6 DEF ExpenseStep
<1> QED
  BY <1>2, <1>4, <1>5 DEF ExpensesNext, Next

LEMMA ReportInit == ASSUME ExpensesInit PROVE ReportInv
<1>1. /\ \A t \in Txs : tx[t] = Idle
      /\ expenses = <<>> /\ categories = Seeded
  BY DEF ExpensesInit, Init
<1>2. Idle.kind = "none"
  BY DEF Idle
<1>3. \A t \in Txs : Reported(tx[t], expenses, categories)
  BY <1>1, <1>2, Unreported
<1> QED
  BY <1>1, <1>3, ExpensesAssumption DEF ReportInv

\* A report of AdminExpensesSummaryHandler during which no expense was stored or
\* voided adds up: the months sum to the total over the categories, and each is
\* what the list shows, although the report is no transaction and tuition,
\* categories and other reports go on meanwhile.
THEOREM SummarySafe == ExpensesSpec => []SummaryAddsUp
<1>1. ExpensesInit => LedgerInv /\ ReportInv
  BY LedgerInit, ReportInit
<1>2. LedgerInv /\ ReportInv /\ [ExpensesNext]_allVars => LedgerInv' /\ ReportInv'
  BY LedgerStep, ReportStep
<1>3. LedgerInv /\ ReportInv => SummaryAddsUp
  <2> SUFFICES ASSUME LedgerInv, ReportInv, NEW t \in Txs, NEW rec, rec = tx[t],
                      rec.kind = "summary", rec.pc \in {"collected", "answer"},
                      rec.about.edits = Edits
               PROVE  /\ rec.about.total = SumOver(rec.about.months, Months)
                      /\ \A m \in Months :
                           rec.about.months[m] = ListTotal(rec.year, rec.value, m)
    BY Zenon DEF SummaryAddsUp, SumOver
  <2>1. /\ rec.about.total = TotalIn(expenses, rec.year, rec.value)
        /\ rec.about.months = MonthsIn(expenses, rec.year, rec.value)
    BY SumsRead DEF ReportInv, Reported
  <2>2. SumOver(MonthsIn(expenses, rec.year, rec.value), Months)
          = TotalIn(expenses, rec.year, rec.value)
    BY MonthsAddUp DEF LedgerInv, TablesInv
  <2>3. ASSUME NEW m \in Months
        PROVE  rec.about.months[m] = ListTotal(rec.year, rec.value, m)
    BY <2>1, SumsRead DEF MonthsIn
  <2> QED
    BY <2>1, <2>2, <2>3
<1> QED
  BY <1>1, <1>2, <1>3, PTL DEF ExpensesSpec
=============================================================================
