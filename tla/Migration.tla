------------------------------ MODULE Migration ------------------------------
(***************************************************************************)
(* cache::migrate_legacy_caches: the entries of the old application's      *)
(* cache directories are moved, one by one, into the shared directories.   *)
(*                                                                         *)
(* A process runs the migration once; a process that is interrupted and    *)
(* one that starts afterwards are a crash and a restart, and two that run  *)
(* together are two programs started at the same time.  One step is one    *)
(* call of the file system, so everything another process does between two *)
(* calls is seen.  A file is the sequence of its blocks; files_equal reads *)
(* no more than the first Cap of them.  One file system call at a time is  *)
(* the only abstraction: a listing is taken at one instant, and a file     *)
(* being written is empty until it is whole or its writer is interrupted.  *)
(***************************************************************************)
EXTENDS Naturals, Sequences, FiniteSets

CONSTANTS Processes,   \* the processes that call migrate_legacy_caches
          Subdirs,     \* the subdirectories, in the order they are migrated
          Names,       \* file names
          Contents,    \* what a file may hold: sequences of blocks
          Cap,         \* FILES_EQUAL_MAX_BYTES, in blocks
          Worlds       \* the directories as the first process finds them

Dirs == {Subdirs[k] : k \in DOMAIN Subdirs}
Items == Dirs \X Names

\* An entry is absent, a regular file, or something else (a directory, a
\* symbolic link that resolves), which is never followed.
Absent == [kind |-> "absent", data |-> << >>]
Other == [kind |-> "other", data |-> << >>]
File(blocks) == [kind |-> "file", data |-> blocks]
Prefixes == UNION {{SubSeq(c, 1, k) : k \in 0 .. Len(c)} : c \in Contents}
Entry == {Absent, Other} \cup {File(c) : c \in Prefixes}

ASSUME MigrationAssumption ==
    /\ Subdirs \in Seq(STRING) /\ Subdirs # << >>
    /\ \A j, k \in DOMAIN Subdirs : Subdirs[j] = Subdirs[k] => j = k
    /\ Cap \in Nat /\ IsFiniteSet(Names) /\ Names # {}
    /\ \A c \in Contents : c \in Seq(Nat)
    /\ \A w \in Worlds : /\ w.legacyDirs \subseteq Dirs
                         /\ w.legacy \in [Items -> Entry]
                         /\ w.shared \in [Items -> Entry]

VARIABLES legacyDirs,   \* the legacy directories that exist and are directories
          crossDevice,  \* the two roots are on different file systems
          legacy,       \* the entries of the legacy directories
          shared,       \* the entries of the shared directories
          pc,           \* where each process is
          sub,          \* the position in Subdirs of the directory it works on
          todo,         \* the listed names it has not yet taken up
          name,         \* the name it works on
          held,         \* the blocks of the source file it has open for copying
          report,       \* what it has counted, for each directory
          legacy0, shared0,  \* the entries as the first process found them
          torn,         \* the items whose copying was interrupted
          overlapped    \* two processes have run at the same time

files == <<legacyDirs, crossDevice, legacy0, shared0>>
history == <<torn, overlapped>>
vars == <<files, legacy, shared, pc, sub, todo, name, held, report, history>>

Idle == "idle"
Done == "done"
Stopped == "stopped"
Working == {"openDir", "checkShared", "countLegacy", "list", "entry", "exists",
            "compare", "dropDuplicate", "rename", "openCopy", "copying",
            "removeSource"}
Running(p) == pc[p] \in Working

Nothing == [moved |-> 0, copied |-> 0, skipped |-> 0, removed |-> 0]

Dir(p) == Subdirs[sub[p]]
Item(p) == <<Dir(p), name[p]>>

----------------------------------------------------------------------------
Init ==
    /\ \E w \in Worlds : /\ legacyDirs = w.legacyDirs
                         /\ legacy = w.legacy
                         /\ shared = w.shared
    /\ crossDevice \in BOOLEAN
    /\ legacy0 = legacy
    /\ shared0 = shared
    /\ pc = [p \in Processes |-> Idle]
    /\ sub = [p \in Processes |-> 0]
    /\ todo = [p \in Processes |-> {}]
    /\ name \in [Processes -> {CHOOSE n \in Names : TRUE}]
    /\ held = [p \in Processes |-> << >>]
    /\ report = [p \in Processes |-> [d \in Dirs |-> Nothing]]
    /\ torn = {}
    /\ overlapped = FALSE

Goto(p, where) == pc' = [pc EXCEPT ![p] = where]

Count(p, field, k) ==
    LET c == [report[p][Dir(p)] EXCEPT ![field] = @ + k]
    IN  report' = [report EXCEPT ![p] = [report[p] EXCEPT ![Dir(p)] = c]]

\* The directory is finished; the next one follows, or the report is returned.
NextDir(p) ==
    /\ sub' = [sub EXCEPT ![p] = @ + 1]
    /\ Goto(p, IF sub[p] < Len(Subdirs) THEN "openDir" ELSE Done)

Start(p) ==
    /\ pc[p] = Idle
    /\ Goto(p, "openDir")
    /\ sub' = [sub EXCEPT ![p] = 1]
    /\ overlapped' = (overlapped \/ \E q \in Processes : Running(q))
    /\ UNCHANGED <<files, legacy, shared, todo, name, held, report, torn>>

\* create_dir_all of the shared directory, then symlink_metadata of the legacy
\* one: what is missing or is a symbolic link has nothing to migrate.
OpenDir(p) ==
    /\ pc[p] = "openDir"
    /\ IF Dir(p) \in legacyDirs THEN Goto(p, "checkShared") /\ UNCHANGED sub
                                ELSE NextDir(p)
    /\ UNCHANGED <<files, legacy, shared, todo, name, held, report, history>>

\* is_dir_empty: a populated shared directory ends the migration of this one,
\* except for overture.
CheckShared(p) ==
    /\ pc[p] = "checkShared"
    /\ LET empty == \A n \in Names : shared[<<Dir(p), n>>] = Absent
       IN  Goto(p, IF ~ empty /\ Dir(p) # "overture" THEN "countLegacy"
                                                     ELSE "list")
    /\ UNCHANGED <<files, legacy, shared, sub, todo, name, held, report, history>>

LegacyFiles(d) == {n \in Names : legacy[<<d, n>>].kind = "file"}

CountLegacy(p) ==
    /\ pc[p] = "countLegacy"
    /\ Count(p, "skipped", Cardinality(LegacyFiles(Dir(p))))
    /\ NextDir(p)
    /\ UNCHANGED <<files, legacy, shared, todo, name, held, history>>

List(p) ==
    /\ pc[p] = "list"
    /\ todo' = [todo EXCEPT ![p] = {n \in Names : legacy[<<Dir(p), n>>] # Absent}]
    /\ Goto(p, "entry")
    /\ UNCHANGED <<files, legacy, shared, sub, name, held, report, history>>

\* An entry that is no regular file, or is gone since it was listed, is skipped.
TakeEntry(p) ==
    /\ pc[p] = "entry"
    /\ \E n \in todo[p] :
         /\ todo' = [todo EXCEPT ![p] = @ \ {n}]
         /\ \/ /\ legacy[<<Dir(p), n>>].kind = "file"
               /\ name' = [name EXCEPT ![p] = n]
               /\ Goto(p, "exists")
               /\ UNCHANGED report
            \/ /\ legacy[<<Dir(p), n>>].kind # "file"
               /\ Count(p, "skipped", 1)
               /\ UNCHANGED <<name, pc>>
    /\ UNCHANGED <<files, legacy, shared, sub, held, history>>

FinishDir(p) ==
    /\ pc[p] = "entry"
    /\ todo[p] = {}
    /\ NextDir(p)
    /\ UNCHANGED <<files, legacy, shared, todo, name, held, report, history>>

\* Mutant: the destination is not looked at.
Exists_Unasked(p) ==
    /\ pc[p] = "exists"
    /\ Goto(p, "rename")
    /\ UNCHANGED <<files, legacy, shared, sub, todo, name, held, report, history>>

\* migrate_file: dst.exists().
CheckExists(p) ==
    /\ pc[p] = "exists"
    /\ Goto(p, IF shared[Item(p)] = Absent THEN "rename" ELSE "compare")
    /\ UNCHANGED <<files, legacy, shared, sub, todo, name, held, report, history>>

FirstBlocks(c) == SubSeq(c, 1, IF Len(c) < Cap THEN Len(c) ELSE Cap)
SameData(c, e) == Len(c) = Len(e) /\ FirstBlocks(c) = FirstBlocks(e)

\* files_equal of two entries that are there.
FilesEqual(a, b) ==
    a.kind = "file" /\ b.kind = "file" /\ SameData(a.data, b.data)

\* A call on a source that is gone is an error, and ? returns it.
GoneIsError(p) ==
    legacy[Item(p)] = Absent /\ Goto(p, Stopped) /\ UNCHANGED <<legacy, shared, report>>

Compare(p) ==
    /\ pc[p] = "compare"
    /\ \/ GoneIsError(p)
       \/ /\ legacy[Item(p)] # Absent
          /\ FilesEqual(legacy[Item(p)], shared[Item(p)])
          /\ Goto(p, "dropDuplicate")
          /\ UNCHANGED <<legacy, shared, report>>
       \/ /\ legacy[Item(p)] # Absent
          /\ ~ FilesEqual(legacy[Item(p)], shared[Item(p)])
          /\ Count(p, "skipped", 1)
          /\ Goto(p, "entry")
          /\ UNCHANGED <<legacy, shared>>
    /\ UNCHANGED <<files, sub, todo, name, held, history>>

DropDuplicate(p) ==
    /\ pc[p] = "dropDuplicate"
    /\ \/ GoneIsError(p)
       \/ /\ legacy[Item(p)] # Absent
          /\ legacy' = [legacy EXCEPT ![Item(p)] = Absent]
          /\ Count(p, "removed", 1)
          /\ Goto(p, "entry")
          /\ UNCHANGED shared
    /\ UNCHANGED <<files, sub, todo, name, held, history>>

\* Mutant: a rename that fails is tried again.
Rename_Retries(p) ==
    /\ pc[p] = "rename"
    /\ ~ crossDevice
    /\ legacy[Item(p)] # Absent
    /\ shared' = [shared EXCEPT ![Item(p)] = legacy[Item(p)]]
    /\ legacy' = [legacy EXCEPT ![Item(p)] = Absent]
    /\ Count(p, "moved", 1)
    /\ Goto(p, "entry")
    /\ UNCHANGED <<files, sub, todo, name, held, history>>

\* fs::rename fails across file systems and when the source is gone.
Rename(p) ==
    /\ pc[p] = "rename"
    /\ IF crossDevice \/ legacy[Item(p)] = Absent
         THEN /\ Goto(p, "openCopy")
              /\ UNCHANGED <<legacy, shared, report>>
         ELSE /\ shared' = [shared EXCEPT ![Item(p)] = legacy[Item(p)]]
              /\ legacy' = [legacy EXCEPT ![Item(p)] = Absent]
              /\ Count(p, "moved", 1)
              /\ Goto(p, "entry")
    /\ UNCHANGED <<files, sub, todo, name, held, history>>

\* Mutant: the source is unlinked and counted as soon as it is open.
OpenCopy_Unlinks(p) ==
    /\ pc[p] = "openCopy"
    /\ legacy[Item(p)] # Absent
    /\ held' = [held EXCEPT ![p] = legacy[Item(p)].data]
    /\ shared' = [shared EXCEPT ![Item(p)] = File(<< >>)]
    /\ legacy' = [legacy EXCEPT ![Item(p)] = Absent]
    /\ Count(p, "copied", 1)
    /\ Goto(p, "copying")
    /\ UNCHANGED <<files, sub, todo, name, history>>

\* fs::copy opens the source, then creates or truncates the destination.
OpenCopy(p) ==
    /\ pc[p] = "openCopy"
    /\ \/ GoneIsError(p) /\ UNCHANGED held
       \/ /\ legacy[Item(p)] # Absent
          /\ held' = [held EXCEPT ![p] = legacy[Item(p)].data]
          /\ shared' = [shared EXCEPT ![Item(p)] = File(<< >>)]
          /\ Goto(p, "copying")
          /\ UNCHANGED <<legacy, report>>
    /\ UNCHANGED <<files, sub, todo, name, history>>

\* Mutant: the copy is written behind what the destination holds by then.
FinishCopy_Appends(p) ==
    /\ pc[p] = "copying"
    /\ shared' = [shared EXCEPT ![Item(p)] = File(shared[Item(p)].data \o held[p])]
    /\ Goto(p, "removeSource")
    /\ UNCHANGED <<files, legacy, sub, todo, name, held, report, history>>

FinishCopy(p) ==
    /\ pc[p] = "copying"
    /\ shared' = [shared EXCEPT ![Item(p)] = File(held[p])]
    /\ Goto(p, "removeSource")
    /\ UNCHANGED <<files, legacy, sub, todo, name, held, report, history>>

\* Mutant: a source that is gone already counts as removed.
RemoveSource_Counts(p) ==
    /\ pc[p] = "removeSource"
    /\ legacy' = [legacy EXCEPT ![Item(p)] = Absent]
    /\ Count(p, "copied", 1)
    /\ Goto(p, "entry")
    /\ UNCHANGED <<files, shared, sub, todo, name, held, history>>

RemoveSource(p) ==
    /\ pc[p] = "removeSource"
    /\ \/ GoneIsError(p)
       \/ /\ legacy[Item(p)] # Absent
          /\ legacy' = [legacy EXCEPT ![Item(p)] = Absent]
          /\ Count(p, "copied", 1)
          /\ Goto(p, "entry")
          /\ UNCHANGED shared
    /\ UNCHANGED <<files, sub, todo, name, held, history>>

\* The process dies, or a call fails and ? returns its error: the directories
\* that follow are not migrated.  A file being copied is left as far as it was
\* written.
Interrupt(p) ==
    /\ Running(p)
    /\ Goto(p, Stopped)
    /\ IF pc[p] = "copying"
         THEN /\ \E k \in 0 .. Len(held[p]) :
                   shared' = [shared EXCEPT ![Item(p)] = File(SubSeq(held[p], 1, k))]
              /\ torn' = torn \cup {Item(p)}
         ELSE UNCHANGED <<shared, torn>>
    /\ UNCHANGED <<files, legacy, sub, todo, name, held, report, overlapped>>

\* The steps of migrate_legacy_cache_dir, and of migrate_file under it.
DirStep(p) == OpenDir(p) \/ CheckShared(p) \/ CountLegacy(p) \/ List(p)
              \/ TakeEntry(p) \/ FinishDir(p)
FileStep(p) == CheckExists(p) \/ Compare(p) \/ DropDuplicate(p) \/ Rename(p)
               \/ OpenCopy(p) \/ FinishCopy(p) \/ RemoveSource(p)
Step(p) == DirStep(p) \/ FileStep(p)

Next == \E p \in Processes : Start(p) \/ Step(p) \/ Interrupt(p)

Spec == Init /\ [][Next]_vars

\* A process that runs goes on running.
FairSpec == Spec /\ \A p \in Processes : WF_vars(Step(p))
=============================================================================
