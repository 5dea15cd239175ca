------------------------------ MODULE MCTuition ------------------------------
(* Students, years, months and ids are numbers, so that 0 compares.          *)
EXTENDS Expenses, TLC

TxSymmetry == Permutations(Txs)

Writes == {"pay", "discount", "void", "fee", "apply", "year", "move"}
Ledger == {"expense", "unexpense", "category", "summary"}
NewYear == {"expense", "year"}
Report == {"pay", "summary"}
MCWorkloads == {Writes, Ledger, NewYear, Report}
Pricing == {{"pay", "apply"}}
=============================================================================
