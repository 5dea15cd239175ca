---------------------------- MODULE MCAdminLogin ----------------------------
(* Requests are interchangeable; one username has an account.              *)
EXTENDS AdminLogin, TLC

ReqSymmetry == Permutations(Reqs)
=============================================================================
