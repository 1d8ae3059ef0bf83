------------------------------ MODULE RawCache ------------------------------
(***************************************************************************)
(* The two-file disk cache of src/src/cache_store.rs.  An entry of key k   *)
(* is a data file {k}.{ext} and a sidecar {k}.meta.json; nothing locks the *)
(* directory, so writers (write, stream_to_temp + commit_temp), readers    *)
(* (read_meta then read_data) and sweepers (clear) of any number of        *)
(* threads and processes interleave between their file operations.  Every  *)
(* step below is one visible file operation: a rename, an unlink or a read.*)
(***************************************************************************)
EXTENDS Integers, FiniteSets

CONSTANTS
  Keys,       \* cache keys
  Writers, Readers, Sweepers,   \* threads that write, look up, clear
  Ages,       \* the ttl / min_age a caller passes: naturals, or NoAge (None)
  NoAge, Absent, Malformed, NoKey,
  MaxBytes,   \* the cap given to stream_to_temp
  Lengths,    \* lengths of the bodies a server may send
  MaxVersion, \* bound: bodies written in a behaviour
  MaxTime,    \* bound: last instant of the clock
  Faults,     \* subset of {"io", "crash"}: what may go wrong
  Leftovers   \* shapes of an entry an earlier run may have left behind

Versions == 0 .. MaxVersion
Times    == 0 .. MaxTime

\* What a meta file and a data file hold.  at is Meta::created_at; the body
\* remembers how much of it was copied (got) out of what was sent (len).
Meta == [ver : Versions, at : Times]
Body == [ver : Versions, at : Times, got : Nat, len : Nat]

\* What an I/O error makes of an operation, where errors may happen.
OnFault(x) == IF "io" \in Faults THEN {x} ELSE {}

Shapes == {"nothing", "paired", "metaOnly", "malformedPair", "dataOnly"}

ASSUME CacheAssumption ==
  /\ MaxBytes \in Nat /\ MaxVersion \in Nat /\ MaxTime \in Nat
  /\ Lengths \subseteq Nat
  /\ Faults \subseteq {"io", "crash"}
  /\ Leftovers \subseteq Shapes
  /\ Ages \ {NoAge} \subseteq Nat
  /\ NoKey \notin Keys
  /\ Absent # Malformed /\ Absent \notin Meta /\ Malformed \notin Meta
  /\ Absent \notin Body /\ NoAge \notin Nat

VARIABLES
  meta, data,  \* the files: what {k}.meta.json and {k}.{ext} hold
  temps,       \* versions whose body sits in a NamedTempFile of the directory
  version,     \* last version handed out
  clock,       \* Utc::now()
  wr, rd, sw,  \* program counter and locals of each thread
  clean, torn, quiet  \* auxiliary: history the properties need and no
                      \* action's guard reads

aux  == <<clean, torn, quiet>>
vars == <<meta, data, temps, version, clock, wr, rd, sw, clean, torn, quiet>>

IdleWriter  == [pc |-> "idle", op |-> "none", key |-> NoKey, ver |-> 0,
                at |-> 0, got |-> 0, len |-> 0]
IdleReader  == [pc |-> "idle", key |-> NoKey, ttl |-> NoAge,
                vouch |-> Absent, out |-> Absent]
IdleSweeper == [pc |-> "idle", age |-> NoAge, now |-> 0, snap |-> {},
                seen |-> {}, key |-> NoKey, judged |-> Absent,
                deleted |-> 0]

\* The names a sweep meets: <<k, "meta">> and <<k, "data">>.
FileName == Keys \X {"meta", "data"}
Names == {n \in FileName : IF n[2] = "meta" THEN meta[n[1]] # Absent
                                            ELSE data[n[1]] # Absent}

WriterState  == [pc : {"idle", "copying", "meta", "data", "handed", "toobig"},
                 op : {"none", "write", "commit"},
                 key : Keys \cup {NoKey}, ver : Versions, at : Times,
                 got : Nat, len : Nat]
ReaderState  == [pc : {"idle", "data", "done"}, key : Keys \cup {NoKey},
                 ttl : Ages \cup {NoAge}, vouch : Meta \cup {Absent},
                 out : Body \cup {Absent}]
SweeperState == [pc : {"idle", "sweep", "orphan", "data", "meta", "done"},
                 age : Ages \cup {NoAge}, now : Times,
                 snap : SUBSET FileName, seen : SUBSET FileName,
                 key : Keys \cup {NoKey}, judged : Meta \cup {Absent, Malformed},
                 deleted : Nat]

TypeOK ==
  /\ meta \in [Keys -> Meta \cup {Absent, Malformed}]
  /\ data \in [Keys -> Body \cup {Absent}]
  /\ temps \subseteq Versions
  /\ version \in Versions
  /\ clock \in Times
  /\ wr \in [Writers -> WriterState]
  /\ rd \in [Readers -> ReaderState]
  /\ sw \in [Sweepers -> SweeperState]
  /\ clean \subseteq Writers /\ torn \subseteq Keys /\ quiet \subseteq Sweepers

-----------------------------------------------------------------------------
(* What an earlier run may have left: version 0, written at time 0.         *)

FirstMeta == [ver |-> 0, at |-> 0]
FirstBody == [ver |-> 0, at |-> 0, got |-> 0, len |-> 0]

Init ==
  /\ \E shape \in [Keys -> Leftovers] :
       /\ meta = [k \in Keys |->
                    CASE shape[k] \in {"paired", "metaOnly"} -> FirstMeta
                      [] shape[k] = "malformedPair" -> Malformed
                      [] OTHER -> Absent]
       /\ data = [k \in Keys |->
                    IF shape[k] \in {"paired", "malformedPair", "dataOnly"}
                    THEN FirstBody ELSE Absent]
  /\ temps = {}
  /\ version = 0
  /\ clock = 0
  /\ wr = [w \in Writers |-> IdleWriter]
  /\ rd = [r \in Readers |-> IdleReader]
  /\ sw = [s \in Sweepers |-> IdleSweeper]
  /\ clean = {} /\ torn = {} /\ quiet = {}

-----------------------------------------------------------------------------
(* Writers.                                                                 *)

\* The commits of k that are between their two renames.
MidCommit(k) == {w \in Writers : wr[w].pc = "data" /\ wr[w].key = k}

\* clean: the commits that no other rename or unlink of their key came
\* between, so far.  torn: the keys whose last commit was not clean, or was
\* given up between its renames.  quiet: the sweeps that met no rename and
\* no failed unlink, their own or another's.
Abandoned(w) == IF wr[w].pc = "data" THEN torn \cup {wr[w].key} ELSE torn

\* RawCache::write with a body in memory; its caller has just built meta.
BeginWrite(w, k) ==
  /\ wr[w].pc = "idle"
  /\ version < MaxVersion
  /\ version' = version + 1
  /\ wr' = [wr EXCEPT ![w] = [pc |-> "meta", op |-> "write", key |-> k,
                               ver |-> version + 1, at |-> clock,
                               got |-> 0, len |-> 0]]
  /\ UNCHANGED <<meta, data, temps, clock, rd, sw, aux>>

\* stream_to_temp: the body of len bytes goes to a temp file, byte by byte.
BeginStream(w, k, len) ==
  /\ wr[w].pc = "idle"
  /\ version < MaxVersion
  /\ version' = version + 1
  /\ temps' = temps \cup {version + 1}
  /\ wr' = [wr EXCEPT ![w] = [pc |-> "copying", op |-> "commit", key |-> k,
                               ver |-> version + 1, at |-> 0,
                               got |-> 0, len |-> len]]
  /\ UNCHANGED <<meta, data, clock, rd, sw, aux>>

\* io::copy over reader.take(max_bytes + 1).
Copied(w) == wr[w].got = wr[w].len \/ wr[w].got = MaxBytes + 1

Copy(w) ==
  /\ wr[w].pc = "copying"
  /\ ~Copied(w)
  /\ wr' = [wr EXCEPT ![w].got = @ + 1]
  /\ UNCHANGED <<meta, data, temps, version, clock, rd, sw, aux>>

\* Mutant: the extra byte of take(max + 1) is let through.
Oversized_OffByOne(w) == wr[w].got > MaxBytes + 1

Oversized(w) == wr[w].got > MaxBytes

\* The cap is looked at once the copy stopped; a body that fits gets its meta.
FinishCopy(w) ==
  /\ wr[w].pc = "copying"
  /\ Copied(w)
  /\ ~Oversized(w)
  /\ wr' = [wr EXCEPT ![w] = [@ EXCEPT !.pc = "meta", !.at = clock]]
  /\ UNCHANGED <<meta, data, temps, version, clock, rd, sw, aux>>

\* Mutant: the rejected body's temp file is kept.
RejectOversized_Leaks(w) ==
  /\ wr[w].pc = "copying"
  /\ Copied(w)
  /\ Oversized(w)
  /\ wr' = [wr EXCEPT ![w].pc = "toobig"]
  /\ UNCHANGED <<meta, data, temps, version, clock, rd, sw, aux>>

RejectOversized(w) ==
  /\ wr[w].pc = "copying"
  /\ Copied(w)
  /\ Oversized(w)
  /\ temps' = temps \ {wr[w].ver}
  /\ wr' = [wr EXCEPT ![w].pc = "toobig"]
  /\ UNCHANGED <<meta, data, version, clock, rd, sw, aux>>

CopyFails(w) ==
  /\ "io" \in Faults
  /\ wr[w].pc = "copying"
  /\ temps' = temps \ {wr[w].ver}
  /\ wr' = [wr EXCEPT ![w] = IdleWriter]
  /\ UNCHANGED <<meta, data, version, clock, rd, sw, aux>>

\* First rename: the sidecar.  write creates the body's temp file after it.
PersistMeta(w) ==
  LET k == wr[w].key IN
  /\ wr[w].pc = "meta"
  /\ meta' = [meta EXCEPT ![k] = [ver |-> wr[w].ver, at |-> wr[w].at]]
  /\ temps' = temps \cup {wr[w].ver}
  /\ wr' = [wr EXCEPT ![w].pc = "data"]
  /\ clean' = (clean \ MidCommit(k)) \cup (IF MidCommit(k) = {} THEN {w} ELSE {})
  /\ quiet' = {}
  /\ UNCHANGED <<data, version, clock, rd, sw, torn>>

\* Mutant: the body is renamed without waiting for the sidecar.
PersistData_First(w) ==
  LET k == wr[w].key IN
  /\ wr[w].pc \in {"meta", "data"}
  /\ data' = [data EXCEPT ![k] = [ver |-> wr[w].ver, at |-> wr[w].at,
                                  got |-> wr[w].got, len |-> wr[w].len]]
  /\ temps' = temps \ {wr[w].ver}
  /\ wr' = [wr EXCEPT ![w] = IdleWriter]
  /\ clean' = clean \ MidCommit(k)
  /\ torn' = IF w \in clean THEN torn \ {k} ELSE torn \cup {k}
  /\ quiet' = {}
  /\ UNCHANGED <<meta, version, clock, rd, sw>>

\* Mutant: the temp path is named after the key, so the writers of a key
\* share it and one may rename another's bytes.
PersistData_SharedTemp(w) ==
  LET k == wr[w].key IN
  /\ wr[w].pc = "data"
  /\ \E x \in {y \in Writers : wr[y].key = k} :
       data' = [data EXCEPT ![k] = [ver |-> wr[x].ver, at |-> wr[x].at,
                                    got |-> wr[x].got, len |-> wr[x].len]]
  /\ temps' = temps \ {wr[w].ver}
  /\ wr' = [wr EXCEPT ![w] = IdleWriter]
  /\ clean' = clean \ MidCommit(k)
  /\ torn' = IF w \in clean THEN torn \ {k} ELSE torn \cup {k}
  /\ quiet' = {}
  /\ UNCHANGED <<meta, version, clock, rd, sw>>

\* Second rename, the commit point: the body.
PersistData(w) ==
  LET k == wr[w].key IN
  /\ wr[w].pc = "data"
  /\ data' = [data EXCEPT ![k] = [ver |-> wr[w].ver, at |-> wr[w].at,
                                  got |-> wr[w].got, len |-> wr[w].len]]
  /\ temps' = temps \ {wr[w].ver}
  /\ wr' = [wr EXCEPT ![w] = IdleWriter]
  /\ clean' = clean \ MidCommit(k)
  /\ torn' = IF w \in clean THEN torn \ {k} ELSE torn \cup {k}
  /\ quiet' = {}
  /\ UNCHANGED <<meta, version, clock, rd, sw>>

\* write returns Err and drops its temp; commit_temp hands the body's back.
CommitFails(w) ==
  /\ "io" \in Faults
  /\ wr[w].pc \in {"meta", "data"}
  /\ \/ /\ wr[w].op = "write"
        /\ temps' = temps \ {wr[w].ver}
        /\ wr' = [wr EXCEPT ![w] = IdleWriter]
     \/ /\ wr[w].op = "commit"
        /\ wr' = [wr EXCEPT ![w].pc = "handed"]
        /\ UNCHANGED temps
  /\ torn' = Abandoned(w) /\ clean' = clean \ {w}
  /\ UNCHANGED <<meta, data, version, clock, rd, sw, quiet>>

\* Mutant: the refusal of an oversized body is never passed on.
DropTemp_OnlyHanded(w) ==
  /\ wr[w].pc = "handed"
  /\ temps' = temps \ {wr[w].ver}
  /\ wr' = [wr EXCEPT ![w] = IdleWriter]
  /\ UNCHANGED <<meta, data, version, clock, rd, sw, aux>>

\* The caller parsed from the surviving temp, or saw the error: both drop.
DropTemp(w) ==
  /\ wr[w].pc \in {"handed", "toobig"}
  /\ temps' = temps \ {wr[w].ver}
  /\ wr' = [wr EXCEPT ![w] = IdleWriter]
  /\ UNCHANGED <<meta, data, version, clock, rd, sw, aux>>

\* The process dies: its temp file stays in the directory.
WriterCrashes(w) ==
  /\ "crash" \in Faults
  /\ wr[w].pc # "idle"
  /\ wr' = [wr EXCEPT ![w] = IdleWriter]
  /\ torn' = Abandoned(w) /\ clean' = clean \ {w}
  /\ UNCHANGED <<meta, data, temps, version, clock, rd, sw, quiet>>

-----------------------------------------------------------------------------
(* Readers: the sidecar decides, then the body is read by name.  ttl is     *)
(* overture_cache_read's; read_from_for_url passes none.                    *)

Expired(m, ttl) == ttl # NoAge /\ clock - m.at > ttl

ReadMeta(r, k, ttl) ==
  /\ rd[r].pc = "idle"
  /\ meta[k] \in Meta
  /\ ~Expired(meta[k], ttl)
  /\ rd' = [rd EXCEPT ![r] = [pc |-> "data", key |-> k, ttl |-> ttl,
                               vouch |-> meta[k], out |-> Absent]]
  /\ UNCHANGED <<meta, data, temps, version, clock, wr, sw, aux>>

\* Mutant: the sidecar is returned in place of the body.
ReadData_Sidecar(r) ==
  /\ rd[r].pc = "data"
  /\ rd' = [rd EXCEPT ![r].pc = "done", ![r].out = meta[rd[r].key]]
  /\ UNCHANGED <<meta, data, temps, version, clock, wr, sw, aux>>

\* A file that is absent or cannot be read is a miss: out = Absent.
ReadData(r) ==
  /\ rd[r].pc = "data"
  /\ \E out \in {data[rd[r].key]} \cup OnFault(Absent) :
       rd' = [rd EXCEPT ![r].pc = "done", ![r].out = out]
  /\ UNCHANGED <<meta, data, temps, version, clock, wr, sw, aux>>

Return(r) ==
  /\ rd[r].pc = "done"
  /\ rd' = [rd EXCEPT ![r] = IdleReader]
  /\ UNCHANGED <<meta, data, temps, version, clock, wr, sw, aux>>

-----------------------------------------------------------------------------
(* clear(min_age): read_dir, then one name after the other.  A name present *)
(* at read_dir and still there is met; one that appears meanwhile may be.   *)

BeginClear(s, age) ==
  /\ sw[s].pc = "idle"
  /\ sw' = [sw EXCEPT ![s] = [pc |-> "sweep", age |-> age, now |-> clock,
                               snap |-> Names, seen |-> {}, key |-> NoKey,
                               judged |-> Absent, deleted |-> 0]]
  /\ quiet' = IF \A x \in Sweepers : sw[x].pc = "idle" \/ x \in quiet
              THEN quiet \cup {s} ELSE quiet \ {s}
  /\ UNCHANGED <<meta, data, temps, version, clock, wr, rd, clean, torn>>

\* read_dir fails: clear returns 0 and has swept nothing.
ListingFails(s, age) ==
  /\ "io" \in Faults
  /\ sw[s].pc = "idle"
  /\ sw' = [sw EXCEPT ![s] = [IdleSweeper EXCEPT !.pc = "done", !.age = age]]
  /\ quiet' = quiet \ {s}
  /\ UNCHANGED <<meta, data, temps, version, clock, wr, rd, clean, torn>>

Meets(s, n) == sw[s].pc = "sweep" /\ n \in (sw[s].snap \cup Names) \ sw[s].seen

\* A data file whose sidecar does not exist.
Orphan(k) == meta[k] = Absent

MeetData(s, k) ==
  /\ Meets(s, <<k, "data">>)
  /\ sw' = [sw EXCEPT ![s].seen = @ \cup {<<k, "data">>},
                      ![s].key = k,
                      ![s].pc = IF Orphan(k) THEN "orphan" ELSE "sweep"]
  /\ UNCHANGED <<meta, data, temps, version, clock, wr, rd, aux>>

\* Mutant: an entry of exactly min_age counts as old.
Old_Inclusive(s, m) == m \in Meta /\ sw[s].now - m.at >= sw[s].age

\* What clear(None) removes unread, and clear(Some(age)) removes once read.
Old(s, m) == m \in Meta /\ sw[s].now - m.at > sw[s].age

\* A sidecar that cannot be read or parsed is passed over when there is an age.
MeetMeta(s, k) ==
  /\ Meets(s, <<k, "meta">>)
  /\ \E m \in {meta[k]} \cup OnFault(Malformed) :
       sw' = [sw EXCEPT ![s].seen = @ \cup {<<k, "meta">>},
                        ![s].key = k,
                        ![s].judged = m,
                        ![s].pc = IF sw[s].age = NoAge \/ Old(s, m)
                                  THEN "data" ELSE "sweep"]
  /\ UNCHANGED <<meta, data, temps, version, clock, wr, rd, aux>>

\* remove_file with its error dropped: under "io" the file may stay.
Unlinked(f, k) == {[f EXCEPT ![k] = Absent]} \cup OnFault(f)

\* The auxiliary part of unlinking a file of k, after which left remains.
Unlinks(k, left) ==
  /\ clean' = clean \ MidCommit(k)
  /\ quiet' = IF left = Absent THEN quiet ELSE {}
  /\ UNCHANGED torn

RemoveOrphan(s) ==
  LET k == sw[s].key IN
  /\ sw[s].pc = "orphan"
  /\ data' \in Unlinked(data, k)
  /\ sw' = [sw EXCEPT ![s].pc = "sweep"]
  /\ Unlinks(k, data'[k])
  /\ UNCHANGED <<meta, temps, version, clock, wr, rd>>

RemoveData(s) ==
  LET k == sw[s].key IN
  /\ sw[s].pc = "data"
  /\ data' \in Unlinked(data, k)
  /\ sw' = [sw EXCEPT ![s].pc = "meta"]
  /\ Unlinks(k, data'[k])
  /\ UNCHANGED <<meta, temps, version, clock, wr, rd>>

RemoveMeta(s) ==
  LET k == sw[s].key IN
  /\ sw[s].pc = "meta"
  /\ meta' \in Unlinked(meta, k)
  /\ sw' = [sw EXCEPT ![s] = [@ EXCEPT !.pc = "sweep",
                                        !.deleted = sw[s].deleted + 1]]
  /\ Unlinks(k, meta'[k])
  /\ UNCHANGED <<data, temps, version, clock, wr, rd>>

\* Mutant: the sweep returns after the first entry it removed.
EndClear_AfterOne(s) ==
  /\ sw[s].pc = "sweep"
  /\ sw[s].deleted > 0 \/ sw[s].snap \cap Names \subseteq sw[s].seen
  /\ sw' = [sw EXCEPT ![s].pc = "done"]
  /\ UNCHANGED <<meta, data, temps, version, clock, wr, rd, aux>>

EndClear(s) ==
  /\ sw[s].pc = "sweep"
  /\ sw[s].snap \cap Names \subseteq sw[s].seen
  /\ sw' = [sw EXCEPT ![s].pc = "done"]
  /\ UNCHANGED <<meta, data, temps, version, clock, wr, rd, aux>>

\* The count is returned, or the process dies in the middle of the sweep.
LeaveClear(s) ==
  /\ \/ sw[s].pc = "done"
     \/ "crash" \in Faults /\ sw[s].pc # "idle"
  /\ sw' = [sw EXCEPT ![s] = IdleSweeper]
  /\ UNCHANGED <<meta, data, temps, version, clock, wr, rd, aux>>

-----------------------------------------------------------------------------
Tick ==
  /\ clock < MaxTime
  /\ clock' = clock + 1
  /\ UNCHANGED <<meta, data, temps, version, wr, rd, sw, aux>>

WriterStep(w) ==
  \/ Copy(w) \/ FinishCopy(w) \/ RejectOversized(w) \/ CopyFails(w)
  \/ PersistMeta(w) \/ PersistData(w) \/ CommitFails(w) \/ DropTemp(w)

SweepStep(s) ==
  \/ \E k \in Keys : MeetData(s, k) \/ MeetMeta(s, k)
  \/ RemoveOrphan(s) \/ RemoveData(s) \/ RemoveMeta(s) \/ EndClear(s)
  \/ LeaveClear(s)

ReadStep(r) == ReadData(r) \/ Return(r)

Next ==
  \/ \E w \in Writers : \/ \E k \in Keys : BeginWrite(w, k)
                        \/ \E k \in Keys, len \in Lengths : BeginStream(w, k, len)
                        \/ WriterStep(w)
                        \/ WriterCrashes(w)
  \/ \E r \in Readers : \/ \E k \in Keys, ttl \in Ages : ReadMeta(r, k, ttl)
                        \/ ReadStep(r)
  \/ \E s \in Sweepers : \/ \E age \in Ages : BeginClear(s, age) \/ ListingFails(s, age)
                         \/ SweepStep(s)
  \/ Tick

Spec == Init /\ [][Next]_vars

\* A thread that is inside an operation runs on until it returns.
Fairness ==
  /\ \A w \in Writers : WF_vars(WriterStep(w))
  /\ \A r \in Readers : WF_vars(ReadStep(r))
  /\ \A s \in Sweepers : WF_vars(SweepStep(s))

FairSpec == Spec /\ Fairness
=============================================================================
