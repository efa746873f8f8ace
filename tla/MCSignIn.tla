------------------------------ MODULE MCSignIn ------------------------------
(***************************************************************************)
(* SignIn for TLC: requests and browsers are interchangeable.              *)
(***************************************************************************)
EXTENDS SignIn, TLC

Symmetry == Permutations(Requests) \cup Permutations(Browsers)
=============================================================================
