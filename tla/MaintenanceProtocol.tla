-------------------------- MODULE MaintenanceProtocol --------------------------
(***************************************************************************)
(* What backups and restores promise each other about the maintenance      *)
(* mode, which is one switch for the whole namespace: the operation lease  *)
(* belongs to one kind of operation at a time, a kind takes it only when   *)
(* it is free, and only the kind that has it touches the switch.           *)
(*                                                                         *)
(* BackupController and RestoreController both implement this module, each *)
(* with the other kind reduced to the steps allowed here: what one of them *)
(* assumes about its competitor is what the other one guarantees.  A kind  *)
(* may give the lease back with the maintenance mode still on, as a        *)
(* restore that is deleted halfway does.                                   *)
(***************************************************************************)
CONSTANT Operations    \* the kinds of operations, "backup" and "restore"; none is "free"

VARIABLES
    holder,       \* the kind whose operation has the lease, or "free"
    maintenance   \* the maintenance mode

vars == <<holder, maintenance>>

Init ==
    /\ holder = "free"
    /\ maintenance = FALSE

Take(k) ==
    /\ holder = "free" /\ holder' = k
    /\ UNCHANGED maintenance

Switch(k) ==
    /\ holder = k
    /\ maintenance' \in BOOLEAN
    /\ UNCHANGED holder

GiveBack(k) ==
    /\ holder = k /\ holder' = "free"
    /\ UNCHANGED maintenance

Next == \E k \in Operations : Take(k) \/ Switch(k) \/ GiveBack(k)

Spec == Init /\ [][Next]_vars
===============================================================================
