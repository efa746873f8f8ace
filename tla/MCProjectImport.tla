-------------------------- MODULE MCProjectImport --------------------------
(***************************************************************************)
(* ProjectImport for TLC: imports are interchangeable, and the second      *)
(* service of the manifest listens on port 2 whatever it is told.          *)
(***************************************************************************)
EXTENDS ProjectImport, TLC

MCOwnPort == <<0, 2>>
Symmetry == Permutations(Jobs)
=============================================================================
