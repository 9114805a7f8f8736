-------------------------------- MODULE Leases --------------------------------
(***************************************************************************)
(* The namespace-wide operation lease of internal/leases/manager.go as a   *)
(* value: who may hold it, how it is claimed, and what a manager decides   *)
(* when it reads one.  There is a single coordination/v1 Lease object      *)
(* ("k8s-backup-operator-lease"); Backup and Restore runs compete for it.  *)
(*                                                                         *)
(* A holder is a custom resource.  Its identity is the triple written by   *)
(* Claim: UID (spec.holderIdentity), name and kind (annotations).          *)
(* Kubernetes never reuses a UID, so the name and the kind of an object    *)
(* are functions of its UID.  The timestamps and the transition counter    *)
(* Claim also writes are never read and are left out.                      *)
(***************************************************************************)
EXTENDS Naturals

CONSTANTS
    UIDs,    \* the UIDs of all Backups and Restores that may ever exist
    Names,   \* the names of custom resources
    KindOf,  \* the kind of the object with a given UID
    NameOf,  \* the name of the object with a given UID
    NoUID,   \* an empty spec.holderIdentity
    NoName   \* a missing holder name annotation

Kinds == {"Backup", "Restore"}

\* A missing holder kind annotation.
NoKind == ""

ASSUME HolderAssumption ==
    /\ KindOf \in [UIDs -> Kinds]
    /\ NameOf \in [UIDs -> Names]
    /\ NoUID \notin UIDs
    /\ NoName \notin Names \cup UIDs

(***************************************************************************)
(* A version of the Lease object.  rv is its resourceVersion, 0 when the   *)
(* object does not exist.  Resource versions grow over the whole store, so *)
(* the version also tells a recreated Lease from the deleted one and the   *)
(* UID precondition of Release adds nothing to the version precondition.   *)
(***************************************************************************)
Lease == [rv : Nat, uid : UIDs \cup {NoUID}, name : Names \cup {NoName},
          kind : Kinds \cup {NoKind}]

NoLease == [rv |-> 0, uid |-> NoUID, name |-> NoName, kind |-> NoKind]

Exists(l) == l.rv # 0

\* NewLease and the takeover of a stale lease both write the claim of u.
Claim(u, version) ==
    [rv |-> version, uid |-> u, name |-> NameOf[u], kind |-> KindOf[u]]

IsHolder(l, u) ==
    /\ l.uid = u
    /\ l.name = NameOf[u]
    /\ l.kind = KindOf[u]

\* Identity data is missing: only an external writer leaves a lease like that.
Malformed(l) == l.uid = NoUID \/ l.name = NoName \/ l.kind = NoKind

(***************************************************************************)
(* What Acquire decides for holder u from the version l it read, before it *)
(* resolves the holder named by an own-kind lease.                         *)
(***************************************************************************)
AcquireDecision(l, u) ==
    CASE ~Exists(l)                        -> "create"
      [] Exists(l) /\ IsHolder(l, u)       -> "held"
      [] /\ Exists(l) /\ ~IsHolder(l, u)
         /\ l.kind \notin {NoKind, KindOf[u]} -> "waiting"
      [] /\ Exists(l) /\ ~IsHolder(l, u)
         /\ l.kind \in {NoKind, KindOf[u]}
         /\ Malformed(l)                   -> "invalid"
      [] OTHER                             -> "resolve"
===============================================================================
