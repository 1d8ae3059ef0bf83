---------------------------- MODULE SyntheticIds ----------------------------
(***************************************************************************)
(* synthetic_ids: the negative ids given to what carries no OSM id.  Each  *)
(* allocator starts at a base of its own and only counts down, so two      *)
(* bands stay apart as long as none is longer than the gap below it.       *)
(***************************************************************************)
EXTENDS Integers, Sequences, FiniteSets, FiniteSetsExt

CONSTANTS SYNTHETIC_NODE_ID_BASE, SYNTHETIC_WAY_ID_BASE,
          SYNTHETIC_RELATION_ID_BASE, SYNTHETIC_OVERTURE_ID_BASE

\* The compile-time assertions on the bases.
ASSUME BasesAreOrdered ==
  /\ {SYNTHETIC_NODE_ID_BASE, SYNTHETIC_WAY_ID_BASE,
      SYNTHETIC_RELATION_ID_BASE, SYNTHETIC_OVERTURE_ID_BASE} \subseteq Int
  /\ SYNTHETIC_NODE_ID_BASE < SYNTHETIC_WAY_ID_BASE
  /\ SYNTHETIC_WAY_ID_BASE < SYNTHETIC_RELATION_ID_BASE
  /\ SYNTHETIC_RELATION_ID_BASE < SYNTHETIC_OVERTURE_ID_BASE
  /\ SYNTHETIC_OVERTURE_ID_BASE < 0

\* OvertureIdAllocator: the next id it gives.
NewAllocator == SYNTHETIC_OVERTURE_ID_BASE
Advance(next) == next - 1

\* The writer's nodes step over ids that the data already has.
NodeIds(occupied) == [next |-> SYNTHETIC_NODE_ID_BASE, occupied |-> occupied, ids |-> << >>]
\* Mutant: the ids that are taken are not stepped over.
NextWriterNodeId_Blind(s) ==
  [next |-> s.next - 1, occupied |-> s.occupied, ids |-> Append(s.ids, s.next)]
NextWriterNodeId(s) ==
  LET id == Max({s.next - k : k \in 0 .. Cardinality(s.occupied)} \ s.occupied)
  IN  [next |-> id - 1, occupied |-> s.occupied \cup {id}, ids |-> Append(s.ids, id)]

\* idx counts from 0.
WriterWayId(idx) == SYNTHETIC_WAY_ID_BASE - idx
WriterRelationId(idx) == SYNTHETIC_RELATION_ID_BASE - idx
=============================================================================
