------------------------------ MODULE CacheMap ------------------------------
(***************************************************************************)
(* What the callers of src/src/cache_store.rs may rely on: a map from keys *)
(* to bodies that changes atomically, where a body becomes visible once,   *)
(* in one step, whole, and never comes back after it was replaced; and     *)
(* where a lookup returns what the map holds at one instant.               *)
(***************************************************************************)
EXTENDS Naturals

CONSTANTS Keys, Readers, Versions, None

VARIABLES
  stored,  \* stored[k]: the version a lookup of k finds, or None
  used,    \* versions that were stored, or never will be
  got      \* got[r]: what reader r's lookup returned

vars == <<stored, used, got>>

Init ==
  /\ stored \in [Keys -> {0, None}]
  /\ used = {0}
  /\ got = [r \in Readers |-> None]

Put(k, v) ==
  /\ v \notin used
  /\ stored' = [stored EXCEPT ![k] = v]
  /\ used' = used \cup {v}
  /\ UNCHANGED got

\* A write that failed: its version will never be seen.
Retire(v) ==
  /\ v \notin used
  /\ used' = used \cup {v}
  /\ UNCHANGED <<stored, got>>

Lookup(r, k) ==
  /\ got[r] = None
  /\ got' = [got EXCEPT ![r] = stored[k]]
  /\ UNCHANGED <<stored, used>>

Leave(r) ==
  /\ got' = [got EXCEPT ![r] = None]
  /\ UNCHANGED <<stored, used>>

Next ==
  \/ \E v \in Versions : Retire(v) \/ \E k \in Keys : Put(k, v)
  \/ \E r \in Readers : Leave(r) \/ \E k \in Keys : Lookup(r, k)

Spec == Init /\ [][Next]_vars
=============================================================================
