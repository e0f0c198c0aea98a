------------------------------ MODULE Registry ------------------------------
(***************************************************************************)
(* internal/registry/registry.go: the endpoints discovered for each source *)
(* object, and the one-slot channel that wakes the render loop.            *)
(*                                                                         *)
(* An endpoint list is an opaque value, distinct from another exactly when *)
(* equalEndpoints tells them apart (it compares every field of Endpoint).  *)
(* NoList stands for the empty list, which the map never stores.           *)
(***************************************************************************)
CONSTANTS Keys,     \* Registry.Key: kind, namespace and name of a source object
          Lists,    \* non-empty endpoint lists
          NoList,   \* the empty list: an absent entry
          Threads   \* goroutines that call Set

ASSUME ListsAssumption == NoList \notin Lists

VARIABLES entries,  \* Registry.entries, NoList where a key is absent
          changed,  \* Registry.changed holds a signal
          owing     \* threads that changed entries, unlocked, and have yet to notify

registryVars == <<entries, changed, owing>>

RegistryTypeOK ==
    /\ entries \in [Keys -> Lists \cup {NoList}]
    /\ changed \in BOOLEAN
    /\ owing \subseteq Threads

RegistryInit ==
    /\ entries = [k \in Keys |-> NoList]
    /\ changed = FALSE
    /\ owing = {}

(* Set, up to the unlock: nothing happens when an empty list meets an absent
   key or the lists are equal; otherwise the entry is deleted or replaced and
   the thread still has to notify. *)
Set(t, k, list) ==
    /\ t \notin owing
    /\ IF entries[k] = list
         THEN UNCHANGED registryVars
         ELSE /\ entries' = [entries EXCEPT ![k] = list]
              /\ owing' = owing \cup {t}
              /\ UNCHANGED changed

(* The notify that ends a Set which changed something: a send that gives up
   when the slot is taken. *)
Notify(t) ==
    /\ t \in owing
    /\ owing' = owing \ {t}
    /\ changed' = TRUE
    /\ UNCHANGED entries

Touch == changed' = TRUE /\ UNCHANGED <<entries, owing>>

(* A receive from Changed(). *)
TakeSignal == changed /\ changed' = FALSE /\ UNCHANGED <<entries, owing>>

Snapshot == entries
=============================================================================
