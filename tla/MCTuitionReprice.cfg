CONSTANTS
    t1 = t1
    t2 = t2
    Txs = {t1, t2}
    Students = {1}
    Grades = {1}
    Years = {1}
    Workloads <- Pricing
    MaxAmount = 2
    MaxRequests = 3
    MaxMoves = 0
    StartYear = 1
    StartGrade = 1
    StartFee = 2
    Enrolled = {}
    Salary = 1
    Seeded = {1}
    Categories = {1}
    Staff = {}
    TeacherIds = {}
    Months = {1}
    MaxExpense = 1
    MaxExpenses = 0
SPECIFICATION ExpensesSpec
SYMMETRY TxSymmetry
INVARIANTS RemainingNonNegative
