-------------------------- MODULE MCDeployPipeline --------------------------
(* Two services of one project, deployed in the order s1, s2.               *)
EXTENDS DeployPipeline

CONSTANTS p1, s1, s2

MCProjectOf == [s \in Services |-> p1]
MCSlNo == [s \in Services |-> IF s = s2 THEN 2 ELSE 1]
=============================================================================
