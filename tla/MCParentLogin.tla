---------------------------- MODULE MCParentLogin ----------------------------
(* Requests are interchangeable, and so are PINs and phone numbers.         *)
EXTENDS ParentLogin, TLC

LoginSymmetry ==
    Permutations(Reqs) \cup Permutations(Pins) \cup Permutations(Phones)
=============================================================================
