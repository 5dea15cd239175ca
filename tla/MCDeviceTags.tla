---------------------------- MODULE MCDeviceTags ----------------------------
EXTENDS DeviceTags, TLC

CONSTANTS s1, s2, s3

TxSymmetry == Permutations(Txs)

\* One student predates the ranges, one does not, one is not there yet.
Old == (s1 :> 1) @@ (s2 :> 4) @@ (s3 :> 0)
=============================================================================
