CONSTANTS
    t1 = t1
    t2 = t2
    Txs = {t1, t2}
    Students = {1}
    Grades = {1, 2}
    Years = {1, 2}
    Workloads <- MCWorkloads
    MaxAmount = 2
    MaxRequests = 4
    MaxMoves = 1
    StartYear = 1
    StartGrade = 1
    StartFee = 2
    Enrolled = {}
    Salary = 1
    Seeded = {1}
    Categories = {1, 2}
    Staff = {1}
    TeacherIds = {1}
    Months = {1, 2}
    MaxExpense = 1
    MaxExpenses = 2
SPECIFICATION ExpensesSpec
SYMMETRY TxSymmetry
INVARIANTS SummaryAddsUp
PROPERTIES OverdrawnOnlyUnchecked LedgersKept PastYearsFrozen SwitchKeepsFigures ExpenseInItsYear
