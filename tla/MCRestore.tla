------------------------------- MODULE MCRestore -------------------------------
(***************************************************************************)
(* Instances of RestoreController: workloads with one replica and with     *)
(* none.                                                                   *)
(***************************************************************************)
EXTENDS RestoreController

MCReplicas == [w \in Workloads |-> IF w = "w1" THEN 1 ELSE 0]
===============================================================================
