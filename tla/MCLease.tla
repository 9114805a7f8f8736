-------------------------------- MODULE MCLease --------------------------------
(***************************************************************************)
(* Instances of LeaseManager for TLC.  The first set of runs holds two     *)
(* backups that share a name (a deleted and recreated resource) and a      *)
(* restore; the second two backups with different names and a restore;     *)
(* the third one backup and one restore.                                   *)
(***************************************************************************)
EXTENDS LeaseManager, TLC

CONSTANTS b1, b1new    \* model values: the two backups that share a name

MCNames == {"one", "two"}

RecreatedUIDs   == {b1, b1new, "r1"}
RecreatedKindOf == [u \in RecreatedUIDs |-> IF u = "r1" THEN "Restore" ELSE "Backup"]
RecreatedNameOf == [u \in RecreatedUIDs |-> "one"]

\* The two differ in nothing but their UID: either may be created first.
RecreatedSymmetry == Permutations({b1, b1new})

RivalUIDs   == {"b1", "b2", "r1"}
RivalKindOf == [u \in RivalUIDs |-> IF u = "r1" THEN "Restore" ELSE "Backup"]
RivalNameOf == [u \in RivalUIDs |-> IF u = "b2" THEN "two" ELSE "one"]

PairUIDs   == {"b1", "r1"}
PairKindOf == [u \in PairUIDs |-> IF u = "r1" THEN "Restore" ELSE "Backup"]
PairNameOf == [u \in PairUIDs |-> "one"]
===============================================================================
