--------------------------- MODULE SrtmPoolProps ---------------------------
(***************************************************************************)
(* What a caller of download_tiles_for_bbox may rely on.                   *)
(***************************************************************************)
EXTENDS SrtmPool, FiniteSets

Returned == call.pc \in {"ok", "err"}

\* When the call returns, each tile is in the directory or is named in the
\* error, and Ok names none: a failure of one tile does not cut the others
\* short, and no tile falls between two workers (srtm.rs 327-328, 392-427).
AnswerIsExact ==
  Returned => /\ \A i \in Idx : i \in call.failed \/ files[i] # Absent
              /\ call.pc = "ok" <=> call.failed = {}

\* No .hgt file is ever of another size than the two an HgtTile can map,
\* whatever the mirror serves (decode_hgt_gz, 163-189; elevation.rs maps it).
FilesAreWhole == \A i \in Idx : files[i] \in {Absent, Srtm1, Srtm3}

\* The tiles whose download is on its way to the caller, and the workers
\* that are about to report one.
Done(n) == n \in 1 .. Len(queue) /\ queue[n].what = "done"
Waiting == {i \in Idx : \E n \in 1 .. Len(queue) :
                          Done(n) /\ queue[n].i = i /\ queue[n].res = "new"}
Sending == {w \in Crew : wk[w].pc = "report" /\ wk[w].res = "new"}

\* Ok(n) counts the tiles this call itself put into the directory, each
\* once: what it renamed is counted, on the channel, or about to be sent
\* (srtm.rs 336).
CountIsExact ==
  call.pc \notin {"unwind", "panicked"} =>
    call.downloaded + Cardinality(Waiting) + Cardinality(Sending) = Cardinality(made)

\* Every temp file belongs to a worker that is about to rename it.
TempsAreOwned == \A w \in temps : wk[w].pc = "persist"

\* The caller's progress never goes back, whatever order tiles start in.
ProgressNeverFalls == [][call'.progress >= call.progress]_vars

\* The call returns, or its callback's panic goes on, although tiles fail,
\* retry and start out of order: the receiving loop sees every sender drop.
CallReturns == <>(call.pc \in {"ok", "err", "panicked"})

-----------------------------------------------------------------------------
(* The inductive strengthening of AnswerIsExact, FilesAreWhole and           *)
(* TempsAreOwned: where the answer about each tile is at every moment.       *)

Held(i) == \E w \in Crew : wk[w].pc \in Busy /\ wk[w].i = i
Told(i) == \E n \in 1 .. Len(queue) :
             queue[n].what = "done" /\ queue[n].i = i /\ queue[n].res = "failed"

Settled(i) == files[i] # Absent \/ i \in call.failed \/ Told(i) \/ Held(i)

WorkerInv ==
  \A w \in Crew :
    /\ wk[w].pc = "gone" => next >= Total
    /\ wk[w].pc = "report" => \/ wk[w].res = "failed"
                              \/ wk[w].res \in {"new", "had"} /\ files[wk[w].i] # Absent
    /\ wk[w].pc = "persist" => Legal(wk[w].size)
    /\ wk[w].pc = "sleep" => wk[w].attempt < MaxRetries

PoolInv ==
  /\ TypeOK /\ WorkerInv
  /\ call.pc = "drain" => Total > 0 /\ \A i \in Idx : i < next => Settled(i)
  /\ AnswerIsExact /\ FilesAreWhole /\ TempsAreOwned

\* Why CountIsExact holds: a tile has one worker, one report and one rename.
OneWorker ==
  /\ \A w \in Crew : wk[w].pc \in Busy =>
       /\ wk[w].i < next
       /\ wk[w].i \in made => w \in Sending
       /\ \A v \in Crew : wk[v].pc \in Busy /\ wk[v].i = wk[w].i => v = w
  /\ \A i \in made : i < next

OneReport ==
  \A n \in 1 .. Len(queue) : Done(n) =>
    /\ queue[n].i < next /\ ~Held(queue[n].i)
    /\ \A m \in 1 .. Len(queue) : Done(m) /\ queue[m].i = queue[n].i => m = n

CountInv ==
  call.pc \in {"drain", "ok", "err"} =>
    /\ OneWorker /\ OneReport
    /\ call.pc # "drain" => \A w \in Crew : wk[w].pc = "gone"
    /\ CountIsExact
=============================================================================
