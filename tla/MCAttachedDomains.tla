-------------------------- MODULE MCAttachedDomains --------------------------
(***************************************************************************)
(* AttachedDomains for TLC: requests, services and domains are             *)
(* interchangeable.                                                        *)
(***************************************************************************)
EXTENDS AttachedDomains, TLC

Symmetry == Permutations(Calls) \cup Permutations(Services) \cup Permutations(Domains)
=============================================================================
