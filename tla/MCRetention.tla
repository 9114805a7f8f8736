------------------------------ MODULE MCRetention ------------------------------
(***************************************************************************)
(* Instances of GarbageCollection for TLC: the strategies that delete.     *)
(***************************************************************************)
EXTENDS GarbageCollection

Deleting == Strategies \ {"keepAll"}
ByIntervals == {"keep7Days1Month1Quarter1Year"}
===============================================================================
