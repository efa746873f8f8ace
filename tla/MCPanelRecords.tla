---------------------------- MODULE MCPanelRecords ----------------------------
(***************************************************************************)
(* Model of PanelRecords: a vendor and the customer of the same Linux user.*)
(***************************************************************************)
EXTENDS PanelRecords, TLC

CONSTANTS v, u

MCTenantOf == v :> v @@ u :> v
Symmetry == Permutations(Passes)
=============================================================================
