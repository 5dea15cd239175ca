------------------------------ MODULE Expenses ------------------------------
(***************************************************************************)
(* Expenses (internal/handlers/expenses.go): what the school paid, by      *)
(* category and academic year, and the report that sets it against the     *)
(* tuition collected.  Recording an expense holds the academic year as     *)
(* module Tuition's writes do.  The report is no transaction: each of its  *)
(* statements sees what was committed when it started.                     *)
(***************************************************************************)
EXTENDS Tuition

CONSTANTS
    Salary,      \* the seeded salary category
    Seeded,      \* the categories at the start, Salary among them
    Categories,  \* all that may ever be named
    Staff,       \* the ids of the teachers, which are never deleted
    TeacherIds,  \* the ids a request may name
    Months,      \* the months an expense may be dated in
    MaxExpense,  \* bound: the amount of an expense
    MaxExpenses  \* bound: expenses recorded

ASSUME ExpensesAssumption ==
    /\ Salary \in Seeded /\ Seeded \subseteq Categories
    /\ Staff \subseteq TeacherIds /\ 0 \notin TeacherIds
    /\ 0 \notin Categories /\ 0 \notin Years
    /\ {MaxExpense, MaxExpenses} \subseteq Nat
    /\ IsFiniteSet(Seeded) /\ IsFiniteSet(Months)

VARIABLES
    expenses,   \* expenses in id order
    categories  \* expense_categories; a category stands for its id

ledger == <<expenses, categories>>
allVars == <<vars, ledger>>

Expense == [year : Years, category : Categories, teacher : TeacherIds \cup {0},
            month : Months, amount : 1..MaxExpense,
            asked : Years \cup {0}, voidedBy : Txs \cup {0}]

ExpensesInit == Init /\ expenses = <<>> /\ categories = Seeded

\* The rest of the state is Tuition's, and none of a request's business here.
Stays == UNCHANGED <<tables, people>>

-----------------------------------------------------------------------------
(* AdminExpenseCategoriesHandler: one INSERT; the unique index on the name  *)
(* refuses a second one.  Nothing renames or deletes a category.           *)

AddCategory(t, c) ==
    /\ Accepts(t, "category")
    /\ categories' = categories \cup {c}
    /\ UNCHANGED <<tables, grade, active, workload, moves, tx, locks,
                   expenses>>

-----------------------------------------------------------------------------
(* createExpense                                                           *)

\* academic_year (`asked') is optional and so is the teacher, here 0.
BeginExpense(t) ==
    /\ Accepts(t, "expense")
    /\ Len(expenses) + Cardinality({u \in Txs : tx[u].kind = "expense"})
         < MaxExpenses
    /\ \E e \in {x \in Expense : x.voidedBy = 0 /\ x.year = StartYear} :
         tx' = [tx EXCEPT ![t] = [Idle EXCEPT !.kind = "expense",
                                              !.pc = "open", !.about = e]]
    /\ UNCHANGED <<tables, grade, active, workload, moves, locks, ledger>>

\* The setting is read without FOR SHARE.
MutShareExpenseYear(t) ==
    LET e == tx[t].about
    IN  /\ tx[t].pc = "open" /\ tx[t].kind = "expense"
        /\ Step(t, [tx[t] EXCEPT !.pc = "category",
                      !.about.year = IF e.asked = 0 THEN year ELSE e.asked],
                {})
        /\ Stays /\ UNCHANGED ledger

\* FOR SHARE on the setting: a year that is not asked for stays current until
\* the expense is stored.
ShareExpenseYear(t) ==
    LET e == tx[t].about
    IN  /\ tx[t].pc = "open" /\ tx[t].kind = "expense"
        /\ Free(t, YearUpdate)
        /\ Step(t, [tx[t] EXCEPT !.pc = "category",
                      !.about.year = IF e.asked = 0 THEN year ELSE e.asked],
                {YearShare})
        /\ Stays /\ UNCHANGED ledger

\* A missing category, a teacher outside the salary category or a missing
\* teacher rolls back.
Acceptable(e) ==
    /\ e.category \in categories
    /\ e.teacher # 0 => e.category = Salary /\ e.teacher \in Staff

CheckExpense(t) ==
    /\ tx[t].pc = "category"
    /\ IF Acceptable(tx[t].about)
       THEN Step(t, [tx[t] EXCEPT !.pc = "commit"], {}) ELSE Done(t)
    /\ Stays /\ UNCHANGED ledger

CommitExpense(t) ==
    /\ tx[t].pc = "commit" /\ tx[t].kind = "expense"
    /\ expenses' = Append(expenses, tx[t].about)
    /\ Done(t)
    /\ Stays /\ UNCHANGED categories

-----------------------------------------------------------------------------
(* AdminExpenseVoidHandler                                                 *)

BeginVoidExpense(t) ==
    /\ Accepts(t, "unexpense")
    /\ \E i \in DOMAIN expenses :
         tx' = [tx EXCEPT ![t] = [Idle EXCEPT !.kind = "unexpense",
                                              !.pc = "open", !.value = i]]
    /\ UNCHANGED <<tables, grade, active, workload, moves, locks, ledger>>

ExpenseRow(i) == <<"expense", i>>

\* The expense is voided again.
MutExpenseVoidable(i) == TRUE

\* SELECT ... FOR UPDATE reads the row as it is once the lock is had.
ExpenseVoidable(i) == expenses[i].voidedBy = 0

LockExpense(t) ==
    LET i == tx[t].value
    IN  /\ tx[t].pc = "open" /\ tx[t].kind = "unexpense"
        /\ Free(t, ExpenseRow(i))
        /\ IF ExpenseVoidable(i)
           THEN Step(t, [tx[t] EXCEPT !.pc = "commit"], {ExpenseRow(i)})
           ELSE Done(t)
        /\ Stays /\ UNCHANGED ledger

CommitVoidExpense(t) ==
    /\ tx[t].pc = "commit" /\ tx[t].kind = "unexpense"
    /\ expenses' = [expenses EXCEPT ![tx[t].value].voidedBy = t]
    /\ Done(t)
    /\ Stays /\ UNCHANGED categories

-----------------------------------------------------------------------------
(* The sums.  `c' is a category or 0 for all of them.                      *)

Counted(y, c) ==
    {i \in DOMAIN expenses : /\ expenses[i].year = y
                             /\ expenses[i].voidedBy = 0
                             /\ c # 0 => expenses[i].category = c}

Total(rows) == MapThenSumSet(LAMBDA i : expenses[i].amount, rows)

\* listExpenses: the total it shows under its filters.
ListTotal(y, c, m) == Total({i \in Counted(y, c) : expenses[i].month = m})

\* The first statement of AdminExpensesSummaryHandler: every category's total.
ByCategory(y, c) ==
    [k \in {k \in categories : c # 0 => k = c} |-> Total(Counted(y, k))]

\* Voided expenses count in their month.
MutByMonth(y, c) ==
    [m \in Months |->
       Total({i \in DOMAIN expenses :
                /\ expenses[i].year = y /\ expenses[i].month = m
                /\ c # 0 => expenses[i].category = c})]

\* The second: every month's.
ByMonth(y, c) ==
    [m \in Months |-> Total({i \in Counted(y, c) : expenses[i].month = m})]

\* The third: SUM over the payments of the year that are not voided.
Collected(y) == MapThenSumSet(LAMBDA s : Paid(s, y), Students)

\* How often expenses have changed.
Edits ==
    Len(expenses)
    + Cardinality({i \in DOMAIN expenses : expenses[i].voidedBy # 0})

\* expenseYear reads the setting; a category to filter by must exist.
BeginSummary(t) ==
    /\ Accepts(t, "summary")
    /\ \E y \in Years, c \in categories \cup {0} :
         tx' = [tx EXCEPT ![t] =
           [Idle EXCEPT !.kind = "summary", !.pc = "categories", !.year = y,
                        !.value = c]]
    /\ UNCHANGED <<tables, grade, active, workload, moves, locks, ledger>>

SumCategories(t) ==
    LET rec == tx[t]
        sums == ByCategory(rec.year, rec.value)
    IN  /\ rec.pc = "categories"
        /\ Step(t, [rec EXCEPT !.pc = "months", !.about =
                      [edits |-> Edits,
                       total |-> MapThenSumSet(LAMBDA k : sums[k],
                                               DOMAIN sums)]], {})
        /\ Stays /\ UNCHANGED ledger

SumMonths(t) ==
    LET rec == tx[t]
    IN  /\ rec.pc = "months"
        /\ Step(t, [rec EXCEPT !.pc = "collected", !.about =
                      [edits |-> rec.about.edits, total |-> rec.about.total,
                       months |-> ByMonth(rec.year, rec.value)]], {})
        /\ Stays /\ UNCHANGED ledger

\* Under a category filter nothing is said of the tuition collected.
SumCollected(t) ==
    LET rec == tx[t]
    IN  /\ rec.pc = "collected"
        /\ Step(t, [rec EXCEPT !.pc = "answer", !.fee =
             IF rec.value = 0 THEN Collected(rec.year) ELSE 0], {})
        /\ Stays /\ UNCHANGED ledger

AnswerSummary(t) ==
    /\ tx[t].pc = "answer" /\ Done(t)
    /\ Stays /\ UNCHANGED ledger

-----------------------------------------------------------------------------

ExpenseStep(t) ==
    \/ \E c \in Categories : AddCategory(t, c)
    \/ BeginExpense(t) \/ ShareExpenseYear(t) \/ CheckExpense(t)
    \/ CommitExpense(t)
    \/ BeginVoidExpense(t) \/ LockExpense(t) \/ CommitVoidExpense(t)
    \/ BeginSummary(t) \/ SumCategories(t) \/ SumMonths(t) \/ SumCollected(t)
    \/ AnswerSummary(t)

ExpensesNext ==
    \/ \E t \in Txs : ExpenseStep(t)
    \/ Next /\ UNCHANGED ledger

ExpensesSpec == ExpensesInit /\ [][ExpensesNext]_allVars

-----------------------------------------------------------------------------

\* An expense recorded without a year is in the one that is current when it is
\* stored, also when the year is switched while it is being recorded.
ExpenseInItsYear ==
    [][Len(expenses') > Len(expenses) =>
         LET e == expenses'[Len(expenses')]
         IN  e.year = IF e.asked = 0 THEN year' ELSE e.asked]_allVars

\* Payments and expenses are only appended; what is stored keeps its amount,
\* and the first void stands: a second one, however timed, changes nothing.
LedgersKept ==
    [][/\ PaymentsStay(payments, payments')
       /\ PaymentsStay(expenses, expenses')]_allVars

\* A report during which no expense was recorded or voided adds up: its months
\* sum to its total, and each shows what the list shows under the same filter.
SummaryAddsUp ==
    \A t \in Txs : LET rec == tx[t] IN
        rec.kind = "summary" /\ rec.pc \in {"collected", "answer"}
        /\ rec.about.edits = Edits =>
             /\ rec.about.total =
                  MapThenSumSet(LAMBDA m : rec.about.months[m], Months)
             /\ \A m \in Months :
                  rec.about.months[m] = ListTotal(rec.year, rec.value, m)
=============================================================================
