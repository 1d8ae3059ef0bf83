---------------------------- MODULE MigrationProps ----------------------------
(***************************************************************************)
(* What the migration of the legacy caches promises.                       *)
(***************************************************************************)
EXTENDS Migration, FiniteSetsExt

\* Type invariant: every variable has the type its declaration gives it.
MigrationTypeOK ==
    /\ legacyDirs \subseteq Dirs
    /\ crossDevice \in BOOLEAN
    /\ {legacy, shared, legacy0, shared0} \subseteq [Items -> Entry]
    /\ pc \in [Processes -> Working \cup {Idle, Done, Stopped}]
    /\ sub \in [Processes -> 0 .. Len(Subdirs) + 1]
    /\ todo \in [Processes -> SUBSET Names]
    /\ name \in [Processes -> Names]
    /\ held \in [Processes -> Prefixes \cup {<< >>}]
    /\ report \in [Processes -> [Dirs -> [moved: Nat, copied: Nat,
                                          skipped: Nat, removed: Nat]]]
    /\ torn \subseteq Items
    /\ overlapped \in BOOLEAN

\* What the shared directory holds is as good as the legacy file it replaces.
Replaces(i) == FilesEqual(legacy0[i], shared[i])
InHand(i) == \E p \in Processes : /\ pc[p] = "copying"
                                  /\ Item(p) = i
                                  /\ SameData(held[p], legacy0[i].data)

\* Interruption loses no file: at every instant a file of the legacy cache is
\* where it was, or the shared directory holds its like, or a process that has
\* it open is copying it.  The only exception is a file whose copying was
\* interrupted when two processes had migrated at the same time: the source may
\* be gone with the one and the destination truncated by the other
\* (cache.rs:292-323).
NothingLost ==
    \A i \in Items :
        legacy0[i].kind = "file" =>
            \/ legacy[i] = legacy0[i]
            \/ Replaces(i)
            \/ InHand(i)
            \/ overlapped /\ i \in torn

\* Whatever the processes do at the same time and wherever they are stopped,
\* an entry the shared cache already had is neither overwritten nor truncated
\* (cache.rs:293-301, the exists() that guards rename and copy).
SharedKept ==
    \A i \in Items : shared0[i] # Absent => shared[i] = shared0[i]

Taken(r) == r.moved + r.copied + r.removed
Total(reports) ==
    MapThenSumSet(LAMBDA pd : Taken(reports[pd[1]][pd[2]]), Processes \X Dirs)
Departed == {i \in Items : legacy[i] # legacy0[i]}

\* The reports are true: at every instant the entries that have left the legacy
\* cache are exactly those that the processes, together, have counted as moved,
\* copied or removed, so no entry is counted by two of them (cache.rs:292-323,
\* where a source that is gone is an error and not a count).
CountsAreTrue == Total(report) = Cardinality(Departed)

\* A call of migrate_legacy_caches returns (cache.rs:210-268).
MigrationReturns ==
    \A p \in Processes : Running(p) ~> pc[p] \in {Done, Stopped}

\* The comment that explains the skip (cache.rs:236-239): a non-empty shared
\* directory means that the migration already happened.  In a cache that no one
\* wrote to before, a file still in the legacy directory then has a counterpart.
NonEmptyMeansMigrated ==
    \A p \in Processes :
        pc[p] = "countLegacy" /\ (\A n \in Names : shared0[<<Dir(p), n>>] = Absent)
            => \A n \in LegacyFiles(Dir(p)) : shared[<<Dir(p), n>>] # Absent
=============================================================================
