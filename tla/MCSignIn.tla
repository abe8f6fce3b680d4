------------------------------ MODULE MCSignIn -------------------------------
(* Small instances of SignIn for TLC: two threads, which are interchangeable. *)
EXTENDS SignIn, TLC

Symmetry == Permutations(Calls) \cup Permutations(Challenges)
=============================================================================
