------------------------------ MODULE SrtmPool ------------------------------
(***************************************************************************)
(* One call of download_tiles_for_bbox (src/src/srtm.rs): worker threads   *)
(* pull tile indices from a shared counter, download each tile with        *)
(* retries, and report over a channel to the calling thread, which alone   *)
(* runs the progress callback and counts.  The destination directory is    *)
(* shared with other calls, of this process or another.                    *)
(***************************************************************************)
EXTENDS Integers, Sequences

CONSTANTS
  Total,        \* number of tiles tiles_for_bbox returned; they are distinct
  Concurrency,  \* SRTM_DOWNLOAD_CONCURRENCY
  MaxRetries,   \* the 3 given to download_tile_with_retry
  Sizes,        \* of each tile, the sizes of the payloads the mirror may serve, once inflated
  Srtm1, Srtm3, \* the two legal sizes
  Absent,
  Faults        \* subset of {"http", "io", "panic"}

Idx == 0 .. Total - 1

\* workers = min(4, total).max(1); with no tile the call returns at once.
Crew == 1 .. (IF Concurrency < Total THEN Concurrency ELSE Total)

Results == {"none", "new", "had", "failed"}
Event   == [what : {"started", "done"}, i : Idx, res : Results]

ASSUME PoolAssumption ==
  /\ Total \in Nat /\ Concurrency \in Nat \ {0} /\ MaxRetries \in Nat \ {0}
  /\ Sizes \in [Idx -> SUBSET Nat] /\ Srtm1 \in Nat /\ Srtm3 \in Nat /\ Srtm3 < Srtm1
  /\ Absent \notin Nat
  /\ Faults \subseteq {"http", "io", "panic"}

VARIABLES
  files,    \* files[i]: size of the .hgt file of tile i, or Absent
  temps,    \* workers whose NamedTempFile lies in the directory
  next,     \* the AtomicUsize
  wk,       \* the worker threads
  queue,    \* the mpsc channel
  call,     \* the calling thread
  made      \* auxiliary: the tiles this call renamed into place

vars == <<files, temps, next, wk, queue, call, made>>

NewWorker == [pc |-> "pull", i |-> 0, attempt |-> 0, size |-> 0, res |-> "none"]
Busy      == {"start", "look", "get", "persist", "sleep", "report"}

WorkerState == [pc : Busy \cup {"pull", "gone"}, i : Nat, attempt : 0 .. MaxRetries,
                size : Nat, res : Results]
CallState   == [pc : {"drain", "unwind", "ok", "err", "panicked"},
                downloaded : Nat, failed : SUBSET Idx, progress : 0 .. Total]

TypeOK ==
  /\ files \in [Idx -> Nat \cup {Absent}]
  /\ temps \subseteq Crew
  /\ next \in Nat
  /\ wk \in [Crew -> WorkerState]
  /\ \A w \in Crew : wk[w].pc \in Busy => wk[w].i \in Idx
  /\ queue \in Seq(Event)
  /\ call \in CallState
  /\ made \subseteq Idx

Init ==
  /\ files \in [Idx -> {Absent, Srtm1, Srtm3}]
  /\ \A i \in Idx : files[i] \in Sizes[i] \cup {Absent}
  /\ temps = {}
  /\ next = 0
  /\ wk = [w \in Crew |-> NewWorker]
  /\ queue = <<>>
  /\ call = [pc |-> IF Total = 0 THEN "ok" ELSE "drain",
             downloaded |-> 0, failed |-> {}, progress |-> 0]
  /\ made = {}

-----------------------------------------------------------------------------
(* Worker threads.                                                          *)

\* tx.send; once the receiver was dropped by an unwinding caller it fails,
\* and the worker does not care.
Send(ev) == queue' = IF call.pc = "drain" THEN Append(queue, ev) ELSE queue

\* next.fetch_add(1), then tiles.get(i).
Pull(w) ==
  /\ wk[w].pc = "pull"
  /\ next' = next + 1
  /\ wk' = [wk EXCEPT ![w] = [NewWorker EXCEPT !.pc = IF next < Total THEN "start" ELSE "gone",
                                               !.i = next]]
  /\ UNCHANGED <<files, temps, queue, call, made>>

SendStarted(w) ==
  /\ wk[w].pc = "start"
  /\ Send([what |-> "started", i |-> wk[w].i, res |-> "none"])
  /\ wk' = [wk EXCEPT ![w].pc = "look", ![w].attempt = 1]
  /\ UNCHANGED <<files, temps, next, call, made>>

\* download_tile: hgt_path.exists().
Look(w) ==
  /\ wk[w].pc = "look"
  /\ wk' = IF files[wk[w].i] # Absent
           THEN [wk EXCEPT ![w].pc = "report", ![w].res = "had"]
           ELSE [wk EXCEPT ![w].pc = "get"]
  /\ UNCHANGED <<files, temps, next, queue, call, made>>

\* Mutant: one attempt too many.
GiveUp_OffByOne(w) == wk[w].attempt > MaxRetries

\* attempt < max_retries decides between another try and the error.
GiveUp(w) == wk[w].attempt = MaxRetries

AttemptFails(w) ==
  wk' = IF GiveUp(w) THEN [wk EXCEPT ![w].pc = "report", ![w].res = "failed"]
                     ELSE [wk EXCEPT ![w].pc = "sleep"]

\* Mutant: only the upper bound on the inflated size is looked at.
Legal_UpperBound(size) == size <= Srtm1

\* decode_hgt_gz: at most Srtm1 bytes, and exactly one of the two shapes.
Legal(size) == size <= Srtm1 /\ size \in {Srtm1, Srtm3}

\* The GET, the inflation and the temp file.
Get(w) ==
  /\ wk[w].pc = "get"
  /\ \E size \in Sizes[wk[w].i] :
       /\ Legal(size)
       /\ wk' = [wk EXCEPT ![w].pc = "persist", ![w].size = size]
  /\ temps' = temps \cup {w}
  /\ UNCHANGED <<files, next, queue, call, made>>

\* No answer, an HTTP error, a payload of the wrong size, no room for it.
GetFails(w) ==
  /\ wk[w].pc = "get"
  /\ "http" \in Faults \/ "io" \in Faults \/ \E size \in Sizes[wk[w].i] : ~Legal(size)
  /\ AttemptFails(w)
  /\ UNCHANGED <<files, temps, next, queue, call, made>>

\* The rename over the final name.
Persist(w) ==
  /\ wk[w].pc = "persist"
  /\ files' = [files EXCEPT ![wk[w].i] = wk[w].size]
  /\ temps' = temps \ {w}
  /\ wk' = [wk EXCEPT ![w].pc = "report", ![w].res = "new"]
  /\ made' = made \cup {wk[w].i}
  /\ UNCHANGED <<next, queue, call>>

\* Mutant: the temp file of a failed rename is left to its finder.
PersistFails_Leaks(w) ==
  /\ "io" \in Faults
  /\ wk[w].pc = "persist"
  /\ AttemptFails(w)
  /\ UNCHANGED <<files, temps, next, queue, call, made>>

PersistFails(w) ==
  /\ "io" \in Faults
  /\ wk[w].pc = "persist"
  /\ temps' = temps \ {w}
  /\ AttemptFails(w)
  /\ UNCHANGED <<files, next, queue, call, made>>

\* thread::sleep(2^(attempt - 1) s) ends.
Wake(w) ==
  /\ wk[w].pc = "sleep"
  /\ wk' = [wk EXCEPT ![w].pc = "look", ![w].attempt = wk[w].attempt + 1]
  /\ UNCHANGED <<files, temps, next, queue, call, made>>

SendDone(w) ==
  /\ wk[w].pc = "report"
  /\ Send([what |-> "done", i |-> wk[w].i, res |-> wk[w].res])
  /\ wk' = [wk EXCEPT ![w].pc = "pull"]
  /\ UNCHANGED <<files, temps, next, call, made>>

-----------------------------------------------------------------------------
(* The calling thread.                                                      *)

AtLeast(x, y) == IF x < y THEN y ELSE x

\* Mutant: the fraction of an out-of-order start is shown as it is.
Fraction_Raw(i) == i

\* (i / total).max(last_progress), in units of 1 / total.
Fraction(i) == AtLeast(i, call.progress)

DrainStarted ==
  /\ call.pc = "drain"
  /\ queue # <<>> /\ Head(queue).what = "started"
  /\ queue' = Tail(queue)
  /\ call' = [call EXCEPT !.progress = Fraction(Head(queue).i)]
  /\ UNCHANGED <<files, temps, next, wk, made>>

\* progress_cb panics: the receiver is dropped, the scope joins the workers.
CallbackPanics ==
  /\ "panic" \in Faults
  /\ call.pc = "drain"
  /\ queue # <<>> /\ Head(queue).what = "started"
  /\ queue' = <<>>
  /\ call' = [call EXCEPT !.pc = "unwind"]
  /\ UNCHANGED <<files, temps, next, wk, made>>

\* Mutant: a tile that was there already is counted as downloaded.
Counts_Had(ev) == ev.res \in {"new", "had"}

Counts(ev) == ev.res = "new"

DrainDone ==
  LET ev == Head(queue) IN
  /\ call.pc = "drain"
  /\ queue # <<>> /\ ev.what = "done"
  /\ queue' = Tail(queue)
  /\ call' = [call EXCEPT
       !.downloaded = call.downloaded + (IF Counts(ev) THEN 1 ELSE 0),
       !.failed = IF ev.res = "failed" THEN call.failed \cup {ev.i} ELSE call.failed]
  /\ UNCHANGED <<files, temps, next, wk, made>>

\* Mutant: the scope keeps its own sender.
Disconnected_OwnSender == FALSE

\* Mutant: the first worker that runs out of tiles ends the loop.
Disconnected_FirstGone == \E w \in Crew : wk[w].pc = "gone"

\* rx ends when every worker has dropped its sender.
Disconnected == \A w \in Crew : wk[w].pc = "gone"

\* The loop over rx ends: Err naming the failed tiles, or Ok and progress 1.0.
Answer ==
  /\ call.pc = "drain"
  /\ queue = <<>>
  /\ Disconnected
  /\ call' = IF call.failed # {} THEN [call EXCEPT !.pc = "err"]
                                 ELSE [call EXCEPT !.pc = "ok", !.progress = Total]
  /\ UNCHANGED <<files, temps, next, wk, queue, made>>

\* The panic goes on once the scope has joined every worker.
Unwound ==
  /\ call.pc = "unwind"
  /\ \A w \in Crew : wk[w].pc = "gone"
  /\ call' = [call EXCEPT !.pc = "panicked"]
  /\ UNCHANGED <<files, temps, next, wk, queue, made>>

-----------------------------------------------------------------------------
\* Another call on the directory, which ran the same checks, renames its
\* copy of a tile into place.
OtherCall(i) ==
  /\ \E size \in Sizes[i] : Legal(size) /\ files' = [files EXCEPT ![i] = size]
  /\ UNCHANGED <<temps, next, wk, queue, call, made>>

WorkerStep(w) ==
  \/ Pull(w) \/ SendStarted(w) \/ Look(w) \/ Get(w) \/ GetFails(w)
  \/ Persist(w) \/ PersistFails(w) \/ Wake(w) \/ SendDone(w)

CallerStep == DrainStarted \/ DrainDone \/ Answer \/ Unwound \/ CallbackPanics

Next ==
  \/ \E w \in Crew : WorkerStep(w)
  \/ CallerStep
  \/ \E i \in Idx : OtherCall(i)

Spec == Init /\ [][Next]_vars

\* Threads are scheduled; requests end because the client has a timeout.
Fairness == WF_vars(CallerStep) /\ \A w \in Crew : WF_vars(WorkerStep(w))

FairSpec == Spec /\ Fairness
=============================================================================
