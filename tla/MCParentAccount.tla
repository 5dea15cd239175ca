--------------------------- MODULE MCParentAccount ---------------------------
(* Two requests at once over two parents, one of which an admin may create.  *)
EXTENDS ParentAccount, TLC

Symmetry == Permutations(Txs) \cup Permutations(Tokens)
=============================================================================
