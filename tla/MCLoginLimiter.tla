--------------------------- MODULE MCLoginLimiter ---------------------------
(* Keys are interchangeable: nothing in LoginLimiter tells them apart.      *)
EXTENDS LoginLimiter, TLC

KeySymmetry == Permutations(Keys)
=============================================================================
