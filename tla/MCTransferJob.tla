--------------------------- MODULE MCTransferJob ---------------------------
(***************************************************************************)
(* TransferJob for TLC: a request for everything.                          *)
(***************************************************************************)
EXTENDS TransferJob, TLC

MCOptionSets == {Names \ Always}
Symmetry == Permutations(Jobs) \cup Permutations(Clients)
=============================================================================
