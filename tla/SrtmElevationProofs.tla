------------------------ MODULE SrtmElevationProofs ------------------------
(***************************************************************************)
(* For any number of tiles, threads and retries: PoolInv is inductive, and *)
(* the answer of a call, the size of its files and the ownership of its    *)
(* temp files follow from it.                                              *)
(*                                                                         *)
(* For every scale and every box: the tiles that are downloaded are those  *)
(* that are looked up, none is downloaded twice, and a point of the box is *)
(* without a tile exactly on a north or east edge at a whole degree.       *)
(***************************************************************************)
EXTENDS SrtmElevation, SrtmPoolProps, FoldTheorems

----------------------------------------------------------------------------
(* download_tiles_for_bbox: the threads of a call and their files.          *)

LEMMA CrewNonempty == Total > 0 => 1 \in Crew
BY PoolAssumption DEF Crew

LEMMA Moves ==
  ASSUME NEW x \in WorkerState, NEW p \in Busy \cup {"pull", "gone"}
  PROVE  /\ [x EXCEPT !.pc = p] \in WorkerState
         /\ [x EXCEPT !.pc = p].pc = p
         /\ [x EXCEPT !.pc = p].i = x.i
         /\ [x EXCEPT !.pc = p].res = x.res
         /\ [x EXCEPT !.pc = p].size = x.size
         /\ [x EXCEPT !.pc = p].attempt = x.attempt
BY DEF WorkerState

LEMMA Reports ==
  ASSUME NEW x \in WorkerState, NEW r \in Results
  PROVE  /\ [x EXCEPT !.pc = "report", !.res = r] \in WorkerState
         /\ [x EXCEPT !.pc = "report", !.res = r].pc = "report"
         /\ [x EXCEPT !.pc = "report", !.res = r].i = x.i
         /\ [x EXCEPT !.pc = "report", !.res = r].res = r
BY DEF WorkerState, Busy

LEMMA Tries ==
  ASSUME NEW x \in WorkerState, NEW a \in 0 .. MaxRetries
  PROVE  /\ [x EXCEPT !.pc = "look", !.attempt = a] \in WorkerState
         /\ [x EXCEPT !.pc = "look", !.attempt = a].pc = "look"
         /\ [x EXCEPT !.pc = "look", !.attempt = a].i = x.i
BY DEF WorkerState, Busy

LEMMA Holds ==
  ASSUME NEW x \in WorkerState, NEW size \in Nat
  PROVE  /\ [x EXCEPT !.pc = "persist", !.size = size] \in WorkerState
         /\ [x EXCEPT !.pc = "persist", !.size = size].pc = "persist"
         /\ [x EXCEPT !.pc = "persist", !.size = size].i = x.i
         /\ [x EXCEPT !.pc = "persist", !.size = size].size = size
BY DEF WorkerState, Busy

LEMMA NewWorkerTyped ==
  ASSUME NEW p \in {"start", "gone"}, NEW i \in Nat
  PROVE  /\ NewWorker \in WorkerState
         /\ [NewWorker EXCEPT !.pc = p, !.i = i] \in WorkerState
         /\ [NewWorker EXCEPT !.pc = p, !.i = i].pc = p
         /\ [NewWorker EXCEPT !.pc = p, !.i = i].i = i
<1>1. NewWorker \in WorkerState
  BY PoolAssumption DEF NewWorker, WorkerState, Busy, Results
<1> QED
  BY <1>1 DEF WorkerState, Busy

(* Sending and receiving lose no message between them.                      *)
LEMMA Appended ==
  ASSUME NEW q \in Seq(Event), NEW ev \in Event
  PROVE  /\ Append(q, ev) \in Seq(Event)
         /\ \A n \in 1 .. Len(q) : Append(q, ev)[n] = q[n]
         /\ Append(q, ev)[Len(q) + 1] = ev
         /\ Len(Append(q, ev)) = Len(q) + 1
OBVIOUS

LEMMA Received ==
  ASSUME NEW q \in Seq(Event), q # <<>>
  PROVE  /\ Head(q) \in Event /\ Tail(q) \in Seq(Event)
         /\ Head(q) = q[1] /\ Len(q) \in Nat \ {0}
         /\ Len(Tail(q)) = Len(q) - 1
         /\ \A n \in 2 .. Len(q) : Tail(q)[n - 1] = q[n]
OBVIOUS

LEMMA InitPool == Init => PoolInv
<1> SUFFICES ASSUME Init PROVE PoolInv
  OBVIOUS
<1> USE PoolAssumption DEF Init
<1>1. NewWorker \in WorkerState /\ NewWorker.pc = "pull"
  BY DEF NewWorker, WorkerState, Busy, Results
<1>2. call \in CallState
  BY DEF CallState
<1>3. queue \in Seq(Event)
  OBVIOUS
<1>4. TypeOK
  BY <1>1, <1>2, <1>3 DEF TypeOK, Busy
<1>5. WorkerInv
  BY <1>1 DEF WorkerInv
<1>6. AnswerIsExact
  BY DEF AnswerIsExact, Returned, Idx
<1> QED
  BY <1>4, <1>5, <1>6 DEF PoolInv, FilesAreWhole, TempsAreOwned

(***************************************************************************)
(* A step of one worker: what it must respect for PoolInv to survive it.   *)
(***************************************************************************)

(* Worker w becomes y, and nothing an answer depends on gets lost.          *)
Respects(w, y) ==
  /\ y \in WorkerState /\ wk' = [wk EXCEPT ![w] = y] /\ call' = call /\ made' \subseteq Idx
  /\ y.pc \in Busy => y.i \in Idx
  /\ y.pc = "gone" => next' >= Total
  /\ y.pc = "report" => y.res = "failed" \/ (y.res \in {"new", "had"} /\ files'[y.i] # Absent)
  /\ y.pc = "persist" => Legal(y.size)
  /\ y.pc = "sleep" => y.attempt < MaxRetries
  /\ \A v \in temps' : IF v = w THEN y.pc = "persist" ELSE v \in temps
  /\ temps' \subseteq Crew
  /\ next' \in Nat /\ next' >= next
  /\ \A i \in Idx : i < next' => i < next \/ (y.pc \in Busy /\ y.i = i)
  /\ files' \in [Idx -> {Absent, Srtm1, Srtm3}]
  /\ \A i \in Idx : files[i] # Absent => files'[i] # Absent
  /\ queue' \in Seq(Event) /\ \A i \in Idx : Told(i) => Told(i)'
  /\ \A i \in Idx : call.pc = "drain" /\ wk[w].pc \in Busy /\ wk[w].i = i
       => (y.pc \in Busy /\ y.i = i) \/ files'[i] # Absent \/ Told(i)'

LEMMA WorkerKeeps ==
  ASSUME PoolInv, NEW w \in Crew, NEW y, Respects(w, y)
  PROVE  PoolInv'
<1> USE DEF Respects
<1> USE PoolAssumption DEF PoolInv
<1>0. TypeOK /\ wk \in [Crew -> WorkerState] /\ wk' \in [Crew -> WorkerState]
      /\ wk'[w] = y /\ \A v \in Crew : v # w => wk'[v] = wk[v]
  BY DEF TypeOK
<1>1. TypeOK'
  BY <1>0 DEF TypeOK
<1>2. WorkerInv'
  <2> SUFFICES ASSUME NEW v \in Crew
               PROVE  /\ wk'[v].pc = "gone" => next' >= Total
                      /\ wk'[v].pc = "report" =>
                           \/ wk'[v].res = "failed"
                           \/ wk'[v].res \in {"new", "had"} /\ files'[wk'[v].i] # Absent
                      /\ wk'[v].pc = "persist" => Legal(wk'[v].size)
                      /\ wk'[v].pc = "sleep" => wk'[v].attempt < MaxRetries
    BY DEF WorkerInv, Legal
  <2>1. CASE v = w
    BY <1>0, <2>1
  <2>2. CASE v # w
    <3>1. wk'[v] = wk[v] /\ (wk[v].pc = "report" => wk[v].i \in Idx)
      BY <1>0, <2>2 DEF TypeOK, Busy
    <3>2. next \in Nat
      BY DEF TypeOK
    <3> QED
      BY <3>1, <3>2 DEF WorkerInv
  <2> QED
    BY <2>1, <2>2
<1>3. ASSUME call.pc = "drain", NEW i \in Idx, i < next' PROVE Settled(i)'
  <2>1. CASE y.pc \in Busy /\ y.i = i
    BY <1>0, <2>1 DEF Settled, Held
  <2>2. CASE i < next
    <3>1. Settled(i)
      BY <1>3, <2>2
    <3>2. CASE Held(i)
      <4>1. PICK v \in Crew : wk[v].pc \in Busy /\ wk[v].i = i
        BY <3>2 DEF Held
      <4>2. CASE v = w
        BY <1>0, <1>3, <4>1, <4>2 DEF Settled, Held
      <4>3. CASE v # w
        BY <1>0, <4>1, <4>3 DEF Settled, Held
      <4> QED
        BY <4>2, <4>3
    <3> QED
      BY <3>1, <3>2 DEF Settled
  <2> QED
    BY <1>3, <2>1, <2>2
<1>4. AnswerIsExact'
  BY DEF AnswerIsExact, Returned
<1>5. FilesAreWhole'
  BY DEF FilesAreWhole
<1>6. TempsAreOwned'
  BY <1>0 DEF TempsAreOwned
<1> QED
  BY <1>1, <1>2, <1>3, <1>4, <1>5, <1>6

(* A sent message does not push out the ones before it.                     *)
LEMMA SendKeeps ==
  ASSUME TypeOK, NEW ev \in Event, Send(ev)
  PROVE  /\ queue' \in Seq(Event)
         /\ \A i \in Idx : Told(i) => Told(i)'
         /\ \A i \in Idx : call.pc = "drain" /\ ev.what = "done" /\ ev.res = "failed"
                          /\ ev.i = i => Told(i)'
<1>1. CASE call.pc # "drain"
  BY <1>1 DEF Send, TypeOK, Told
<1>2. CASE call.pc = "drain"
  <2>1. queue' = Append(queue, ev) /\ queue \in Seq(Event) /\ Len(queue) \in Nat
    BY <1>2 DEF Send, TypeOK
  <2>2. /\ queue' \in Seq(Event) /\ Len(queue') = Len(queue) + 1
        /\ \A n \in 1 .. Len(queue) : queue'[n] = queue[n]
        /\ queue'[Len(queue) + 1] = ev
    BY <2>1, Appended
  <2>3. \A i \in Idx : Told(i) => Told(i)'
    BY <2>1, <2>2 DEF Told
  <2>4. \A i \in Idx : ev.what = "done" /\ ev.res = "failed" /\ ev.i = i => Told(i)'
    BY <2>1, <2>2 DEF Told
  <2> QED
    BY <2>2, <2>3, <2>4
<1> QED
  BY <1>1, <1>2

LEMMA WorkerPool ==
  ASSUME PoolInv, NEW w \in Crew, WorkerStep(w)
  PROVE  PoolInv'
<1> DEFINE x == wk[w]
<1>0. /\ TypeOK /\ wk \in [Crew -> WorkerState] /\ x \in WorkerState
      /\ (x.pc \in Busy => x.i \in Idx) /\ next \in Nat
      /\ queue \in Seq(Event) /\ files \in [Idx -> {Absent, Srtm1, Srtm3}]
  BY DEF PoolInv, TypeOK, FilesAreWhole
<1>a. made \subseteq Idx /\ temps \subseteq Crew /\ x.res \in Results /\ x.attempt \in 0 .. MaxRetries
  BY <1>0 DEF TypeOK, WorkerState
<1>b. TempsAreOwned
  BY DEF PoolInv
<1>1. CASE Pull(w)
  <2> DEFINE p == IF next < Total THEN "start" ELSE "gone"
             y == [NewWorker EXCEPT !.pc = p, !.i = next]
  <2>1. y \in WorkerState /\ y.pc = p /\ y.i = next
    BY <1>0, NewWorkerTyped
  <2>2. wk' = [wk EXCEPT ![w] = y] /\ next' = next + 1 /\ w \notin temps
        /\ UNCHANGED <<files, temps, queue, call, made>> /\ x.pc = "pull"
    BY <1>1, <1>b DEF Pull, TempsAreOwned
  <2>3. p = "start" => next \in Idx
    BY <1>0, PoolAssumption DEF Idx
  <2>4. \A i \in Idx : i < next' => i < next \/ (y.pc \in Busy /\ y.i = i)
    BY <1>0, <2>1, <2>2, PoolAssumption DEF Idx, Busy
  <2>5. p = "gone" => next' >= Total
    BY <1>0, <2>2, PoolAssumption
  <2>6. \A i \in Idx : Told(i) => Told(i)'
    BY <2>2 DEF Told
  <2> HIDE DEF y
  <2>9. Respects(w, y)
    BY <1>0, <1>a, <2>1, <2>2, <2>3, <2>4, <2>5, <2>6 DEF Respects, Busy
  <2> QED
    BY <2>9, WorkerKeeps
<1>2. CASE SendStarted(w)
  <2> DEFINE y == [x EXCEPT !.pc = "look", !.attempt = 1]
             ev == [what |-> "started", i |-> x.i, res |-> "none"]
  <2>0. 1 \in 0 .. MaxRetries
    BY PoolAssumption
  <2>1. y \in WorkerState /\ y.pc = "look" /\ y.i = x.i
    BY <1>0, <2>0, Tries
  <2>2. wk' = [wk EXCEPT ![w] = y] /\ Send(ev) /\ x.pc = "start" /\ w \notin temps
        /\ UNCHANGED <<files, temps, next, call, made>>
    BY <1>2, <1>b DEF SendStarted, TempsAreOwned
  <2>3. ev \in Event
    BY <1>0, <2>2 DEF Event, Busy, Results
  <2>4. queue' \in Seq(Event) /\ \A i \in Idx : Told(i) => Told(i)'
    BY <1>0, <2>2, <2>3, SendKeeps
  <2> HIDE DEF y, ev
  <2>9. Respects(w, y)
    BY <1>0, <1>a, <2>1, <2>2, <2>4 DEF Respects, Busy
  <2> QED
    BY <2>9, WorkerKeeps
<1>3. CASE Look(w)
  <2>0. x.pc = "look" /\ w \notin temps /\ UNCHANGED <<files, temps, next, queue, call, made>>
    BY <1>3, <1>b DEF Look, TempsAreOwned
  <2>6. \A i \in Idx : Told(i) => Told(i)'
    BY <2>0 DEF Told
  <2>1. CASE files[x.i] # Absent
    <3> DEFINE y == [x EXCEPT !.pc = "report", !.res = "had"]
    <3>1. y \in WorkerState /\ y.pc = "report" /\ y.i = x.i /\ y.res = "had"
      BY <1>0, Reports DEF Results
    <3>2. wk' = [wk EXCEPT ![w] = y]
      BY <1>3, <2>1 DEF Look
    <3> HIDE DEF y
    <3>9. Respects(w, y)
      BY <1>0, <1>a, <2>0, <2>1, <2>6, <3>1, <3>2 DEF Respects, Busy
    <3> QED
      BY <3>9, WorkerKeeps
  <2>2. CASE files[x.i] = Absent
    <3> DEFINE y == [x EXCEPT !.pc = "get"]
    <3>1. y \in WorkerState /\ y.pc = "get" /\ y.i = x.i
      BY <1>0, Moves DEF Busy
    <3>2. wk' = [wk EXCEPT ![w] = y]
      BY <1>3, <2>2 DEF Look
    <3> HIDE DEF y
    <3>9. Respects(w, y)
      BY <1>0, <1>a, <2>0, <2>6, <3>1, <3>2 DEF Respects, Busy
    <3> QED
      BY <3>9, WorkerKeeps
  <2> QED
    BY <2>1, <2>2
<1>4. CASE Get(w)
  <2>a. x.i \in Idx
    BY <1>0, <1>4, Holds DEF Get, Busy
  <2>0. PICK size \in Sizes[x.i] : /\ Legal(size)
                                  /\ wk' = [wk EXCEPT ![w].pc = "persist", ![w].size = size]
    BY <1>4 DEF Get
  <2> DEFINE y == [x EXCEPT !.pc = "persist", !.size = size]
  <2>1. y \in WorkerState /\ y.pc = "persist" /\ y.i = x.i /\ y.size = size
    <3>1. size \in Nat
      BY <2>a, PoolAssumption
    <3> QED
      BY <1>0, <3>1, Holds
  <2>2. wk' = [wk EXCEPT ![w] = y] /\ x.pc = "get" /\ Legal(size) /\ temps' = temps \cup {w}
        /\ UNCHANGED <<files, next, queue, call, made>>
    BY <1>4, <2>0 DEF Get
  <2>6. \A i \in Idx : Told(i) => Told(i)'
    BY <2>2 DEF Told
  <2> HIDE DEF y
  <2>9. Respects(w, y)
    BY <1>0, <1>a, <2>1, <2>2, <2>6 DEF Respects, Busy
  <2> QED
    BY <2>9, WorkerKeeps
<1>5. CASE GetFails(w) \/ PersistFails(w)
  <2>0. /\ x.pc \in {"get", "persist"} /\ AttemptFails(w) /\ w \notin temps'
        /\ temps' \subseteq temps /\ UNCHANGED <<files, next, queue, call, made>>
    BY <1>5, <1>b DEF GetFails, PersistFails, TempsAreOwned
  <2>6. \A i \in Idx : Told(i) => Told(i)'
    BY <2>0 DEF Told
  <2>1. CASE GiveUp(w)
    <3> DEFINE y == [x EXCEPT !.pc = "report", !.res = "failed"]
    <3>1. y \in WorkerState /\ y.pc = "report" /\ y.i = x.i /\ y.res = "failed"
      BY <1>0, Reports DEF Results
    <3>2. wk' = [wk EXCEPT ![w] = y]
      BY <2>0, <2>1 DEF AttemptFails
    <3> HIDE DEF y
    <3>9. Respects(w, y)
      <4>1. y.pc \in Busy /\ x.i \in Idx
        BY <1>0, <2>0, <3>1 DEF Busy
      <4>2. (\A v \in temps' : v # w /\ v \in temps) /\ temps' \subseteq Crew
        BY <1>a, <2>0
      <4>3. files' = files /\ next' = next /\ queue' = queue /\ call' = call /\ made' = made
        BY <2>0
      <4> QED
        BY <1>0, <1>a, <2>6, <3>1, <3>2, <4>1, <4>2, <4>3 DEF Respects
    <3> QED
      BY <3>9, WorkerKeeps
  <2>2. CASE ~GiveUp(w)
    <3> DEFINE y == [x EXCEPT !.pc = "sleep"]
    <3>1. y \in WorkerState /\ y.pc = "sleep" /\ y.i = x.i /\ y.attempt = x.attempt
      BY <1>0, Moves DEF Busy
    <3>3. x.attempt < MaxRetries
      BY <1>a, <2>2, PoolAssumption DEF GiveUp
    <3>2. wk' = [wk EXCEPT ![w] = y]
      BY <2>0, <2>2 DEF AttemptFails
    <3> HIDE DEF y
    <3>9. Respects(w, y)
      BY <1>0, <1>a, <2>0, <2>6, <3>1, <3>2, <3>3 DEF Respects, Busy
    <3> QED
      BY <3>9, WorkerKeeps
  <2> QED
    BY <2>1, <2>2
<1>6. CASE Persist(w)
  <2> DEFINE y == [x EXCEPT !.pc = "report", !.res = "new"]
  <2>1. y \in WorkerState /\ y.pc = "report" /\ y.i = x.i /\ y.res = "new"
    BY <1>0, Reports DEF Results
  <2>2. wk' = [wk EXCEPT ![w] = y] /\ x.pc = "persist" /\ temps' = temps \ {w}
        /\ files' = [files EXCEPT ![x.i] = x.size] /\ made' = made \cup {x.i}
        /\ UNCHANGED <<next, queue, call>>
    BY <1>6 DEF Persist
  <2>3. x.size \in {Srtm1, Srtm3} /\ x.i \in Idx
    BY <1>0, <2>2 DEF PoolInv, WorkerInv, Legal, Busy
  <2>4. /\ files' \in [Idx -> {Absent, Srtm1, Srtm3}] /\ files'[x.i] # Absent
        /\ \A i \in Idx : files[i] # Absent => files'[i] # Absent
    BY <1>0, <2>2, <2>3, PoolAssumption
  <2>6. \A i \in Idx : Told(i) => Told(i)'
    BY <2>2 DEF Told
  <2> HIDE DEF y
  <2>9. Respects(w, y)
    BY <1>0, <1>a, <2>1, <2>2, <2>3, <2>4, <2>6 DEF Respects, Busy
  <2> QED
    BY <2>9, WorkerKeeps
<1>7. CASE Wake(w)
  <2> DEFINE y == [x EXCEPT !.pc = "look", !.attempt = x.attempt + 1]
  <2>0. x.attempt + 1 \in 0 .. MaxRetries
    BY <1>7, <1>a, PoolAssumption DEF Wake, PoolInv, WorkerInv
  <2>1. y \in WorkerState /\ y.pc = "look" /\ y.i = x.i
    BY <1>0, <2>0, Tries
  <2>2. wk' = [wk EXCEPT ![w] = y] /\ x.pc = "sleep" /\ w \notin temps
        /\ UNCHANGED <<files, temps, next, queue, call, made>>
    BY <1>7, <1>b DEF Wake, TempsAreOwned
  <2>6. \A i \in Idx : Told(i) => Told(i)'
    BY <2>2 DEF Told
  <2> HIDE DEF y
  <2>9. Respects(w, y)
    BY <1>0, <1>a, <2>1, <2>2, <2>6 DEF Respects, Busy
  <2> QED
    BY <2>9, WorkerKeeps
<1>8. CASE SendDone(w)
  <2> DEFINE y == [x EXCEPT !.pc = "pull"]
             ev == [what |-> "done", i |-> x.i, res |-> x.res]
  <2>1. y \in WorkerState /\ y.pc = "pull" /\ y.i = x.i
    BY <1>0, Moves
  <2>2. wk' = [wk EXCEPT ![w] = y] /\ Send(ev) /\ x.pc = "report" /\ w \notin temps
        /\ UNCHANGED <<files, temps, next, call, made>>
    BY <1>8, <1>b DEF SendDone, TempsAreOwned
  <2>3. ev \in Event /\ ev.what = "done" /\ ev.i = x.i /\ ev.res = x.res
    BY <1>0, <1>a, <2>2 DEF Event, Busy
  <2>4. /\ queue' \in Seq(Event) /\ \A i \in Idx : Told(i) => Told(i)'
        /\ \A i \in Idx : call.pc = "drain" /\ ev.res = "failed" /\ ev.i = i => Told(i)'
    BY <1>0, <2>2, <2>3, SendKeeps
  <2>5. x.res = "failed" \/ files[x.i] # Absent
    BY <2>2 DEF PoolInv, WorkerInv
  <2>6. \A i \in Idx : call.pc = "drain" /\ x.res = "failed" /\ x.i = i => Told(i)'
    BY <2>2, <2>3, <2>4
  <2> HIDE DEF y, ev
  <2>9. Respects(w, y)
    BY <1>0, <1>a, <2>1, <2>2, <2>4, <2>5, <2>6 DEF Respects, Busy
  <2> QED
    BY <2>9, WorkerKeeps
<1> QED
  BY <1>1, <1>2, <1>3, <1>4, <1>5, <1>6, <1>7, <1>8 DEF WorkerStep

(***************************************************************************)
(* The calling thread, the other calls, and the results.                   *)
(***************************************************************************)

(* Taking the head off the channel loses no other message.                  *)
LEMMA ReceiveKeeps ==
  ASSUME TypeOK, queue # <<>>, queue' = Tail(queue), NEW i \in Idx, Told(i)
  PROVE  \/ Told(i)'
         \/ Head(queue).what = "done" /\ Head(queue).i = i /\ Head(queue).res = "failed"
<1>1. queue \in Seq(Event)
  BY DEF TypeOK
<1>2. PICK n \in 1 .. Len(queue) :
        queue[n].what = "done" /\ queue[n].i = i /\ queue[n].res = "failed"
  BY DEF Told
<1>3. /\ Head(queue) = queue[1] /\ Len(queue) \in Nat \ {0}
      /\ Len(queue') = Len(queue) - 1
      /\ \A m \in 2 .. Len(queue) : queue'[m - 1] = queue[m]
  BY <1>1, Received
<1>4. CASE n = 1
  BY <1>2, <1>3, <1>4
<1>5. CASE n # 1
  <2>1. n \in 2 .. Len(queue) /\ n - 1 \in 1 .. Len(queue')
    BY <1>3, <1>5
  <2> QED
    BY <1>2, <1>3, <2>1 DEF Told
<1> QED
  BY <1>4, <1>5

LEMMA CallerPool ==
  ASSUME PoolInv, CallerStep
  PROVE  PoolInv'
<1> USE DEF PoolInv
<1>0. /\ TypeOK /\ call \in CallState /\ queue \in Seq(Event)
      /\ call.pc \in {"drain", "unwind"} /\ UNCHANGED <<files, temps, next, wk, made>>
  BY DEF TypeOK, CallerStep, DrainStarted, DrainDone, Answer, Unwound, CallbackPanics
<1>1. WorkerInv' /\ FilesAreWhole' /\ TempsAreOwned'
  BY <1>0 DEF WorkerInv, FilesAreWhole, TempsAreOwned, Legal
<1>2. \A i \in Idx : Held(i) <=> Held(i)'
  BY <1>0 DEF Held
<1>3. CASE DrainStarted
  <2>1. Head(queue) \in Event /\ Tail(queue) \in Seq(Event)
    BY <1>0, <1>3, Received DEF DrainStarted
  <2>2. Fraction(Head(queue).i) \in 0 .. Total
    BY <1>0, <2>1, PoolAssumption DEF Fraction, AtLeast, Event, CallState, Idx
  <2>3. /\ call' \in CallState /\ call'.pc = "drain" /\ call'.failed = call.failed
        /\ queue' \in Seq(Event)
    BY <1>0, <1>3, <2>1, <2>2 DEF DrainStarted, CallState
  <2>4. TypeOK'
    BY <1>0, <2>3 DEF TypeOK
  <2>5. \A i \in Idx : Told(i) => Told(i)'
    BY <1>0, <1>3, ReceiveKeeps DEF DrainStarted
  <2>6. \A i \in Idx : i < next => Settled(i)'
    BY <1>0, <1>2, <1>3, <2>3, <2>5 DEF Settled, DrainStarted
  <2> QED
    BY <1>0, <1>1, <1>3, <2>3, <2>4, <2>6 DEF AnswerIsExact, Returned, DrainStarted
<1>4. CASE DrainDone
  <2>1. Head(queue) \in Event /\ Tail(queue) \in Seq(Event)
    BY <1>0, <1>4, Received DEF DrainDone
  <2>2. /\ call' \in CallState /\ call'.pc = "drain" /\ queue' \in Seq(Event)
        /\ call.failed \subseteq call'.failed
        /\ Head(queue).res = "failed" => Head(queue).i \in call'.failed
    <3> DEFINE n == call.downloaded + (IF Counts(Head(queue)) THEN 1 ELSE 0)
               f == IF Head(queue).res = "failed" THEN call.failed \cup {Head(queue).i}
                                                  ELSE call.failed
    <3>1. call' = [call EXCEPT !.downloaded = n, !.failed = f] /\ queue' = Tail(queue)
          /\ call.pc = "drain"
      BY <1>4 DEF DrainDone
    <3>2. n \in Nat /\ f \in SUBSET Idx /\ call.failed \subseteq f
          /\ (Head(queue).res = "failed" => Head(queue).i \in f)
      BY <1>0, <2>1 DEF CallState, Event
    <3> HIDE DEF n, f
    <3>3. call' \in CallState /\ call'.pc = "drain" /\ call'.failed = f
      BY <1>0, <3>1, <3>2 DEF CallState
    <3> QED
      BY <2>1, <3>1, <3>2, <3>3
  <2>3. TypeOK'
    BY <1>0, <2>2 DEF TypeOK
  <2>4. \A i \in Idx : Told(i) => Told(i)' \/ i \in call'.failed
    BY <1>0, <1>4, <2>2, ReceiveKeeps DEF DrainDone
  <2>5. \A i \in Idx : i < next => Settled(i)'
    BY <1>0, <1>2, <1>4, <2>2, <2>4 DEF Settled, DrainDone
  <2> QED
    BY <1>0, <1>1, <1>4, <2>2, <2>3, <2>5 DEF AnswerIsExact, Returned, DrainDone
<1>5. CASE Answer
  <2>1. Total > 0 /\ \A i \in Idx : i < next => Settled(i)
    BY <1>5 DEF Answer
  <2>2. next >= Total /\ \A w \in Crew : wk[w].pc = "gone"
    BY <1>5, <2>1, CrewNonempty DEF Answer, Disconnected, WorkerInv
  <2>3. \A i \in Idx : i < next /\ ~Held(i) /\ ~Told(i)
    BY <1>0, <1>5, <2>2, PoolAssumption DEF Idx, Held, Told, Busy, Answer, TypeOK
  <2>4. \A i \in Idx : i \in call.failed \/ files[i] # Absent
    BY <2>1, <2>3 DEF Settled
  <2>5. /\ call' \in CallState /\ call'.pc \in {"ok", "err"} /\ call'.failed = call.failed
        /\ call'.pc = "ok" <=> call.failed = {}
    <3>1. Total \in 0 .. Total
      BY PoolAssumption
    <3>2. CASE call.failed # {}
      BY <1>0, <1>5, <3>2 DEF Answer, CallState
    <3>3. CASE call.failed = {}
      <4>1. call' = [call EXCEPT !.pc = "ok", !.progress = Total]
        BY <1>5, <3>3 DEF Answer
      <4> QED
        BY <1>0, <3>1, <3>3, <4>1 DEF CallState
    <3> QED
      BY <3>2, <3>3
  <2>6. TypeOK'
    BY <1>0, <1>5, <2>5 DEF TypeOK, Answer
  <2> QED
    BY <1>0, <1>1, <2>4, <2>5, <2>6 DEF AnswerIsExact, Returned
<1>6. CASE CallbackPanics \/ Unwound
  <2>1. call' \in CallState /\ call'.pc \in {"unwind", "panicked"} /\ queue' \in Seq(Event)
    <3>1. CASE CallbackPanics
      <4>1. call' = [call EXCEPT !.pc = "unwind"] /\ queue' = <<>>
        BY <3>1 DEF CallbackPanics
      <4> QED
        BY <1>0, <4>1 DEF CallState
    <3>2. CASE Unwound
      <4>1. call' = [call EXCEPT !.pc = "panicked"] /\ queue' = queue
        BY <3>2 DEF Unwound
      <4> QED
        BY <1>0, <4>1 DEF CallState
    <3> QED
      BY <1>6, <3>1, <3>2
  <2>2. TypeOK'
    BY <1>0, <2>1 DEF TypeOK
  <2> QED
    BY <1>1, <2>1, <2>2 DEF AnswerIsExact, Returned
<1> QED
  BY <1>3, <1>4, <1>5, <1>6 DEF CallerStep

LEMMA StepPool == PoolInv /\ [Next]_vars => PoolInv'
<1> SUFFICES ASSUME PoolInv, [Next]_vars PROVE PoolInv'
  OBVIOUS
<1>1. ASSUME NEW i \in Idx, OtherCall(i) PROVE PoolInv'
  <2>1. PICK size \in Sizes[i] : Legal(size) /\ files' = [files EXCEPT ![i] = size]
    BY <1>1 DEF OtherCall
  <2>2. /\ UNCHANGED <<temps, next, wk, queue, call, made>> /\ size \in {Srtm1, Srtm3}
        /\ \A j \in Idx : files'[j] = IF j = i THEN size ELSE files[j]
    BY <1>1, <2>1 DEF OtherCall, Legal, PoolInv, TypeOK
  <2>3. size # Absent /\ size \in Nat
    BY <2>2, PoolAssumption
  <2>4. \A j \in Idx : files[j] # Absent => files'[j] # Absent
    BY <2>2, <2>3
  <2>5. TypeOK'
    BY <2>1, <2>2, <2>3 DEF PoolInv, TypeOK
  <2>6. WorkerInv'
    BY <2>2, <2>4 DEF PoolInv, WorkerInv, TypeOK, Legal, Busy
  <2>7. \A j \in Idx : (Held(j) <=> Held(j)') /\ (Told(j) <=> Told(j)')
    BY <2>2 DEF Held, Told
  <2>8. \A j \in Idx : Settled(j) => Settled(j)'
    BY <2>2, <2>4, <2>7 DEF Settled
  <2>9. AnswerIsExact' /\ FilesAreWhole' /\ TempsAreOwned'
    BY <2>2, <2>4 DEF PoolInv, AnswerIsExact, Returned, FilesAreWhole, TempsAreOwned
  <2> QED
    BY <2>2, <2>5, <2>6, <2>8, <2>9 DEF PoolInv
<1>2. CASE UNCHANGED vars
  <2>1. UNCHANGED <<files, temps, next, wk, queue, call, made>>
    BY <1>2 DEF vars
  <2>2. \A j \in Idx : Settled(j) <=> Settled(j)'
    BY <2>1 DEF Settled, Held, Told
  <2>3. TypeOK' /\ WorkerInv' /\ AnswerIsExact' /\ FilesAreWhole' /\ TempsAreOwned'
    BY <2>1 DEF PoolInv, TypeOK, WorkerInv, AnswerIsExact, Returned, FilesAreWhole,
       TempsAreOwned, Legal
  <2> QED
    BY <2>1, <2>2, <2>3 DEF PoolInv
<1> QED
  BY <1>1, <1>2, WorkerPool, CallerPool DEF Next

LEMMA PoolInvariant == Spec => []PoolInv
  BY InitPool, StepPool, PTL DEF Spec

(* A call that returns has every tile it does not name in its error, for    *)
(* any number of tiles, threads, retries and other calls.                   *)
THEOREM AnswersAreExact == Spec => []AnswerIsExact
<1>1. PoolInv => AnswerIsExact
  BY DEF PoolInv
<1> QED
  BY <1>1, PoolInvariant, PTL

(* No payload of a third size ever gets the name of a tile.                 *)
THEOREM FilesAlwaysWhole == Spec => []FilesAreWhole
<1>1. PoolInv => FilesAreWhole
  BY DEF PoolInv
<1> QED
  BY <1>1, PoolInvariant, PTL

(* A failed attempt leaves no temp file.                                    *)
THEOREM TempsAlwaysOwned == Spec => []TempsAreOwned
<1>1. PoolInv => TempsAreOwned
  BY DEF PoolInv
<1> QED
  BY <1>1, PoolInvariant, PTL

(* Whatever order tiles start in, the progress shown never goes back.       *)
THEOREM ProgressMonotone == Spec => ProgressNeverFalls
<1>1. PoolInv /\ [Next]_vars => [call'.progress >= call.progress]_vars
  <2> SUFFICES ASSUME PoolInv, Next PROVE call'.progress >= call.progress
    OBVIOUS
  <2>1. call \in CallState /\ call.progress \in Nat /\ call.progress <= Total
    BY PoolAssumption DEF PoolInv, TypeOK, CallState
  <2>2. CASE DrainStarted
    <3>1. queue \in Seq(Event) /\ queue # <<>>
      BY <2>2 DEF PoolInv, TypeOK, DrainStarted
    <3>2. Head(queue).i \in Idx
      BY <3>1, Received DEF Event
    <3>3. call'.progress = Fraction(Head(queue).i)
      BY <2>1, <2>2 DEF DrainStarted, CallState
    <3> QED
      BY <2>1, <3>2, <3>3 DEF Fraction, AtLeast, Idx
  <2>3. CASE Answer
    BY <2>1, <2>3, PoolAssumption DEF Answer, CallState
  <2>4. CASE DrainDone \/ CallbackPanics \/ Unwound
    <3>1. call'.progress = call.progress
      <4>1. CASE DrainDone
        BY <2>1, <4>1 DEF DrainDone, CallState
      <4>2. CASE CallbackPanics
        BY <2>1, <4>2 DEF CallbackPanics, CallState
      <4>3. CASE Unwound
        BY <2>1, <4>3 DEF Unwound, CallState
      <4> QED
        BY <2>4, <4>1, <4>2, <4>3
    <3> QED
      BY <2>1, <3>1
  <2>5. CASE call' = call
    BY <2>1, <2>5
  <2> QED
    BY <2>2, <2>3, <2>4, <2>5 DEF Next, CallerStep, OtherCall, WorkerStep, Pull,
       SendStarted, Look, Get, GetFails, Persist, PersistFails, Wake, SendDone
<1> QED
  BY <1>1, PoolInvariant, PTL DEF Spec, ProgressNeverFalls

(* The crew, the channel and the caller keep their types.                   *)
THEOREM PoolTypeCorrect == Spec => []TypeOK
<1>1. PoolInv => TypeOK
  BY DEF PoolInv
<1> QED
  BY <1>1, PoolInvariant, PTL

(***************************************************************************)
(* The count: a tile has one worker, one report and one rename.            *)
(***************************************************************************)

LEMMA CountedFinite ==
  ASSUME TypeOK
  PROVE  /\ IsFiniteSet(made) /\ IsFiniteSet(Waiting) /\ IsFiniteSet(Sending)
         /\ Cardinality(made) \in Nat /\ Cardinality(Waiting) \in Nat
         /\ Cardinality(Sending) \in Nat
<1>1. IsFiniteSet(Idx) /\ IsFiniteSet(Crew)
  BY PoolAssumption, FS_Interval DEF Idx, Crew
<1>2. made \in SUBSET Idx /\ Waiting \in SUBSET Idx /\ Sending \in SUBSET Crew
  BY DEF TypeOK, Waiting, Sending
<1>3. IsFiniteSet(made) /\ IsFiniteSet(Waiting) /\ IsFiniteSet(Sending)
  BY <1>1, <1>2, FS_Subset
<1> QED
  BY <1>3, FS_CardinalityType

\* A worker goes on with its tile; no report is sent.
GoesOn(w) ==
  /\ wk[w].pc \in Busy \ {"report"} /\ wk'[w].pc \in Busy /\ wk'[w].i = wk[w].i
  /\ wk'[w].pc = "report" => wk'[w].res # "new"
  /\ UNCHANGED <<next, made>>
  /\ queue' = queue \/ \E ev \in Event : ev.what = "started" /\ queue' = Append(queue, ev)

Pulls(w) ==
  /\ wk[w].pc = "pull" /\ wk'[w].pc \in {"start", "gone"} /\ wk'[w].i = next
  /\ next' = next + 1 /\ UNCHANGED <<queue, made>>

Renames(w) ==
  /\ wk[w].pc = "persist" /\ wk'[w].pc = "report" /\ wk'[w].res = "new"
  /\ wk'[w].i = wk[w].i /\ made' = made \cup {wk[w].i}
  /\ UNCHANGED <<next, queue>>

Hands(w) ==
  /\ wk[w].pc = "report" /\ wk'[w].pc = "pull"
  /\ queue' = Append(queue, [what |-> "done", i |-> wk[w].i, res |-> wk[w].res])
  /\ UNCHANGED <<next, made>>

LEMMA WorkerForms ==
  ASSUME TypeOK, call.pc = "drain", NEW w \in Crew, WorkerStep(w)
  PROVE  /\ call' = call /\ \A v \in Crew : v # w => wk'[v] = wk[v]
         /\ GoesOn(w) \/ Pulls(w) \/ Renames(w) \/ Hands(w)
<1> DEFINE x == wk[w]
<1>0. wk \in [Crew -> WorkerState] /\ x \in WorkerState /\ next \in Nat
      /\ (x.pc \in Busy => x.i \in Idx)
  BY DEF TypeOK
<1>1. call' = call /\ \A v \in Crew : v # w => wk'[v] = wk[v]
  BY <1>0 DEF WorkerStep, Pull, SendStarted, Look, Get, GetFails, Persist, PersistFails, Wake,
     SendDone, AttemptFails
<1>2. CASE Pull(w)
  <2> DEFINE p == IF next < Total THEN "start" ELSE "gone"
             y == [NewWorker EXCEPT !.pc = p, !.i = next]
  <2>1. y.pc = p /\ y.i = next
    BY <1>0, NewWorkerTyped
  <2>2. wk' = [wk EXCEPT ![w] = y]
    BY <1>2 DEF Pull
  <2> HIDE DEF y
  <2> QED
    BY <1>0, <1>1, <1>2, <2>1, <2>2 DEF Pull, Pulls
<1>3. CASE SendStarted(w)
  <2> DEFINE y == [x EXCEPT !.pc = "look", !.attempt = 1]
             ev == [what |-> "started", i |-> x.i, res |-> "none"]
  <2>1. y.pc = "look" /\ y.i = x.i
    <3>1. 1 \in 0 .. MaxRetries
      BY PoolAssumption
    <3> QED
      BY <1>0, <3>1, Tries
  <2>2. wk' = [wk EXCEPT ![w] = y] /\ queue' = Append(queue, ev)
    BY <1>3 DEF SendStarted, Send
  <2>3. ev \in Event /\ ev.what = "started"
    BY <1>0, <1>3 DEF SendStarted, Event, Busy, Results
  <2> HIDE DEF y, ev
  <2> QED
    BY <1>0, <1>1, <1>3, <2>1, <2>2, <2>3 DEF SendStarted, GoesOn, Busy
<1>4. CASE Look(w)
  <2>1. wk'[w] = [x EXCEPT !.pc = "report", !.res = "had"] \/ wk'[w] = [x EXCEPT !.pc = "get"]
    BY <1>0, <1>4 DEF Look
  <2>2. /\ wk'[w].pc \in {"report", "get"} /\ wk'[w].i = x.i
        /\ wk'[w].pc = "report" => wk'[w].res = "had"
    BY <1>0, <2>1 DEF WorkerState
  <2> QED
    BY <1>1, <1>4, <2>2 DEF Look, GoesOn, Busy
<1>5. CASE Get(w)
  <2>1. PICK size \in Sizes[x.i] : wk'[w] = [x EXCEPT !.pc = "persist", !.size = size]
    BY <1>0, <1>5 DEF Get
  <2>2. size \in Nat
    BY <1>0, <1>5, <2>1, PoolAssumption DEF Get, Busy
  <2>3. wk'[w].pc = "persist" /\ wk'[w].i = x.i
    BY <1>0, <2>1 DEF WorkerState
  <2> QED
    BY <1>1, <1>5, <2>3 DEF Get, GoesOn, Busy
<1>6. CASE GetFails(w) \/ PersistFails(w)
  <2>1. x.pc \in {"get", "persist"} /\ AttemptFails(w) /\ UNCHANGED <<next, queue, made>>
    BY <1>6 DEF GetFails, PersistFails
  <2>2. wk'[w] = [x EXCEPT !.pc = "report", !.res = "failed"] \/ wk'[w] = [x EXCEPT !.pc = "sleep"]
    BY <1>0, <2>1 DEF AttemptFails
  <2>3. /\ wk'[w].pc \in {"report", "sleep"} /\ wk'[w].i = x.i
        /\ wk'[w].pc = "report" => wk'[w].res = "failed"
    BY <1>0, <2>2 DEF WorkerState
  <2> QED
    BY <1>1, <2>1, <2>3 DEF GoesOn, Busy
<1>7. CASE Persist(w)
  <2>1. wk'[w] = [x EXCEPT !.pc = "report", !.res = "new"]
    BY <1>0, <1>7 DEF Persist
  <2>2. wk'[w].pc = "report" /\ wk'[w].i = x.i /\ wk'[w].res = "new"
    BY <1>0, <2>1 DEF WorkerState
  <2> QED
    BY <1>1, <1>7, <2>2 DEF Persist, Renames
<1>8. CASE Wake(w)
  <2>1. wk'[w].pc = "look" /\ wk'[w].i = x.i
    <3>1. wk'[w] = [x EXCEPT !.pc = "look", !.attempt = x.attempt + 1]
      BY <1>0, <1>8 DEF Wake
    <3> QED
      BY <1>0, <3>1 DEF WorkerState
  <2> QED
    BY <1>1, <1>8, <2>1 DEF Wake, GoesOn, Busy
<1>9. CASE SendDone(w)
  <2>1. wk'[w].pc = "pull"
    BY <1>0, <1>9 DEF SendDone, WorkerState
  <2> QED
    BY <1>1, <1>9, <2>1 DEF SendDone, Send, Hands
<1> QED
  BY <1>2, <1>3, <1>4, <1>5, <1>6, <1>7, <1>8, <1>9 DEF WorkerStep

\* An event at the end of the channel that is not a report changes no report.
LEMMA StartedKeeps ==
  ASSUME TypeOK, queue' = queue \/ \E ev \in Event : ev.what = "started" /\ queue' = Append(queue, ev)
  PROVE  /\ Waiting' = Waiting
         /\ \A n : Done(n)' => Done(n) /\ queue'[n] = queue[n]
<1>0. queue \in Seq(Event)
  BY DEF TypeOK
<1>1. CASE queue' = queue
  BY <1>1 DEF Waiting, Done
<1>2. CASE \E ev \in Event : ev.what = "started" /\ queue' = Append(queue, ev)
  <2>1. PICK ev \in Event : ev.what = "started" /\ queue' = Append(queue, ev)
    BY <1>2
  <2>2. /\ \A n \in 1 .. Len(queue) : queue'[n] = queue[n]
        /\ queue'[Len(queue) + 1] = ev /\ Len(queue') = Len(queue) + 1 /\ Len(queue) \in Nat
    BY <1>0, <2>1, Appended
  <2>3. \A n : Done(n)' => Done(n) /\ queue'[n] = queue[n]
    BY <2>1, <2>2 DEF Done
  <2>4. \A n : Done(n) => Done(n)' /\ queue'[n] = queue[n]
    BY <2>1, <2>2 DEF Done
  <2>5. \A i \in Idx : i \in Waiting' <=> i \in Waiting
    BY <2>3, <2>4 DEF Waiting, Done
  <2> QED
    BY <2>3, <2>5 DEF Waiting
<1> QED
  BY <1>1, <1>2

LEMMA WorkerCounts ==
  ASSUME PoolInv, CountInv, NEW w \in Crew, WorkerStep(w)
  PROVE  CountInv'
<1> DEFINE x == wk[w]
<1>0. /\ TypeOK /\ wk \in [Crew -> WorkerState] /\ next \in Nat /\ queue \in Seq(Event)
      /\ made \subseteq Idx /\ call.downloaded \in Nat
      /\ \A v \in Crew : wk[v].pc \in Busy => wk[v].i \in Idx
  BY DEF PoolInv, TypeOK, CallState
<1>1. call' = call
  BY DEF WorkerStep, Pull, SendStarted, Look, Get, GetFails, Persist, PersistFails, Wake, SendDone
<1>2. x.pc # "gone"
  BY DEF WorkerStep, Pull, SendStarted, Look, Get, GetFails, Persist, PersistFails, Wake, SendDone
<1> SUFFICES ASSUME call.pc = "drain"
             PROVE  OneWorker' /\ OneReport' /\ CountIsExact'
  BY <1>1, <1>2 DEF CountInv
<1>3. OneWorker /\ OneReport /\ CountIsExact
  BY DEF CountInv
<1>4. /\ \A v \in Crew : v # w => wk'[v] = wk[v]
      /\ GoesOn(w) \/ Pulls(w) \/ Renames(w) \/ Hands(w)
  BY <1>0, WorkerForms
<1>5. \A i : Held(i) <=> \E v \in Crew : wk[v].pc \in Busy /\ wk[v].i = i
  BY DEF Held
<1>6. \A i : Held(i)' <=> \E v \in Crew : wk'[v].pc \in Busy /\ wk'[v].i = i
  BY DEF Held
<1>7. \A v \in Crew : wk[v].pc \in Busy =>
        /\ wk[v].i < next /\ (wk[v].i \in made => v \in Sending)
        /\ \A u \in Crew : wk[u].pc \in Busy /\ wk[u].i = wk[v].i => u = v
  BY <1>3 DEF OneWorker
<1>8. \A n : Done(n) => queue[n].i < next /\ ~Held(queue[n].i) /\ queue[n] \in Event
  BY <1>0, <1>3 DEF OneReport, Done
<1>9. CASE GoesOn(w)
  <2>1. /\ Waiting' = Waiting
        /\ \A n : Done(n)' => Done(n) /\ queue'[n] = queue[n]
    BY <1>0, <1>9, StartedKeeps DEF GoesOn
  <2>2. Sending' = Sending
    BY <1>4, <1>9 DEF Sending, GoesOn
  <2>3. x.i \notin made
    BY <1>7, <1>9 DEF GoesOn, Sending
  <2>4. OneWorker'
    BY <1>3, <1>4, <1>7, <1>9, <2>2, <2>3 DEF OneWorker, GoesOn
  <2>5. \A i : Held(i)' => Held(i)
    BY <1>4, <1>5, <1>6, <1>9 DEF GoesOn
  <2>6. OneReport'
    BY <1>3, <1>8, <1>9, <2>1, <2>5 DEF OneReport, GoesOn, Done
  <2>7. CountIsExact'
    BY <1>1, <1>3, <1>9, <2>1, <2>2 DEF CountIsExact, GoesOn
  <2> QED
    BY <2>4, <2>6, <2>7
<1>10. CASE Pulls(w)
  <2>1. Waiting' = Waiting /\ \A n : Done(n)' => Done(n) /\ queue'[n] = queue[n]
    BY <1>10 DEF Waiting, Done, Pulls
  <2>2. Sending' = Sending
    BY <1>4, <1>10 DEF Sending, Pulls
  <2>3. next \notin made /\ \A i \in made : i \in Int /\ i < next
    BY <1>0, <1>3 DEF OneWorker, Idx
  <2>4. \A v \in Crew : v # w /\ wk[v].pc \in Busy => wk[v].i \in Int /\ wk[v].i < next
    BY <1>0, <1>7 DEF Idx
  <2>5. OneWorker'
    BY <1>0, <1>3, <1>4, <1>7, <1>10, <2>2, <2>3, <2>4 DEF OneWorker, Pulls, Busy
  <2>6. \A n : Done(n) => ~Held(queue[n].i)' /\ queue[n].i < next'
    <3> SUFFICES ASSUME NEW n, Done(n) PROVE ~Held(queue[n].i)' /\ queue[n].i < next'
      OBVIOUS
    <3>1. queue[n].i < next /\ ~Held(queue[n].i) /\ queue[n].i \in Int
      BY <1>8 DEF Event, Idx
    <3> QED
      BY <1>0, <1>4, <1>5, <1>6, <1>10, <2>1, <3>1 DEF Pulls, Held
  <2>7. OneReport'
    BY <1>3, <1>10, <2>1, <2>6 DEF OneReport, Pulls, Done, Held
  <2>8. CountIsExact'
    BY <1>1, <1>3, <1>10, <2>1, <2>2 DEF CountIsExact, Pulls
  <2> QED
    BY <2>5, <2>7, <2>8
<1>11. CASE Renames(w)
  <2>1. Waiting' = Waiting /\ \A n : Done(n)' => Done(n) /\ queue'[n] = queue[n]
    BY <1>11 DEF Waiting, Done, Renames
  <2>2. Sending' = Sending \cup {w} /\ w \notin Sending
    BY <1>4, <1>11 DEF Sending, Renames
  <2>3. x.i \notin made /\ x.i < next /\ x.pc \in Busy
    BY <1>7, <1>11, <2>2 DEF Renames, Busy
  <2>4. OneWorker'
    <3>1. \A v \in Crew : wk'[v].pc \in Busy => wk[v].pc \in Busy /\ wk'[v].i = wk[v].i
      BY <1>4, <1>11, <2>3 DEF Renames
    <3>2. ASSUME NEW v \in Crew, wk'[v].pc \in Busy, wk'[v].i \in made'
          PROVE  v \in Sending'
      BY <1>7, <1>11, <2>2, <2>3, <3>1, <3>2 DEF Renames
    <3> QED
      BY <1>3, <1>7, <1>11, <2>3, <3>1, <3>2 DEF OneWorker, Renames
  <2>5. \A i : Held(i)' => Held(i)
    BY <1>4, <1>5, <1>6, <1>11, <2>3 DEF Renames
  <2>6. OneReport'
    BY <1>3, <1>8, <1>11, <2>1, <2>5 DEF OneReport, Renames, Done
  <2>7. CountIsExact'
    <3>1. /\ Cardinality(Sending') = Cardinality(Sending) + 1
          /\ Cardinality(made') = Cardinality(made) + 1
      BY <1>0, <1>11, <2>2, <2>3, CountedFinite, FS_AddElement DEF Renames
    <3> QED
      BY <1>0, <1>1, <1>3, <2>1, <3>1, CountedFinite DEF CountIsExact
  <2> QED
    BY <2>4, <2>6, <2>7
<1>12. CASE Hands(w)
  <2> DEFINE ev == [what |-> "done", i |-> x.i, res |-> x.res]
             N  == Len(queue) + 1
  <2>0. ev \in Event /\ ev.what = "done" /\ ev.i = x.i /\ ev.res = x.res /\ x.pc \in Busy
    BY <1>0, <1>12 DEF Hands, Event, Busy, WorkerState
  <2>1. queue' = Append(queue, ev) /\ next' = next /\ made' = made
        /\ x.pc = "report" /\ wk'[w].pc = "pull"
    BY <1>12 DEF Hands
  <2> HIDE DEF ev
  <2>2. /\ \A n \in 1 .. Len(queue) : queue'[n] = queue[n]
        /\ queue'[N] = ev /\ Len(queue') = N /\ Len(queue) \in Nat
    BY <1>0, <2>0, <2>1, Appended
  <2>3. \A n : Done(n)' <=> Done(n) \/ n = N
    BY <2>0, <2>2 DEF Done
  <2>4. \A n : Done(n) => queue'[n] = queue[n] /\ n # N /\ queue[n].i # x.i
    BY <1>5, <1>8, <2>0, <2>2 DEF Done
  <2>5. \A i : Held(i)' => Held(i) /\ i # x.i
    BY <1>4, <1>5, <1>6, <1>7, <2>0, <2>1 DEF Busy
  <2>6. OneReport'
    <3> SUFFICES ASSUME NEW n \in 1 .. Len(queue'), Done(n)'
                 PROVE  /\ queue'[n].i < next' /\ ~Held(queue[n].i)'
                        /\ \A m \in 1 .. Len(queue') :
                             Done(m)' /\ queue'[m].i = queue'[n].i => m = n
      BY DEF OneReport
    <3>1. CASE n = N
      BY <1>7, <2>0, <2>1, <2>2, <2>3, <2>4, <2>5, <3>1 DEF Held
    <3>2. CASE Done(n)
      <4>1. /\ queue[n].i < next /\ ~Held(queue[n].i)
            /\ \A m : Done(m) /\ queue[m].i = queue[n].i => m = n
        BY <1>3, <3>2 DEF OneReport, Done
      <4> QED
        BY <2>0, <2>1, <2>2, <2>3, <2>4, <2>5, <3>2, <4>1 DEF Held
    <3> QED
      BY <2>3, <3>1, <3>2
  <2>7. Sending' = Sending \ {w} /\ (w \in Sending <=> x.res = "new")
    BY <1>4, <2>1 DEF Sending
  <2>8. OneWorker'
    BY <1>3, <1>4, <1>7, <2>1, <2>7 DEF OneWorker, Busy
  <2>9. \A i \in Idx : i \in Waiting' <=> i \in Waiting \/ (i = x.i /\ x.res = "new")
    BY <2>0, <2>2, <2>3, <2>4 DEF Waiting, Done
  <2>10. x.i \in Idx /\ x.i \notin Waiting
    BY <1>0, <2>0, <2>4 DEF Waiting
  <2>11. CountIsExact'
    <3>1. CASE x.res = "new"
      <4>1. Waiting' = Waiting \cup {x.i}
        BY <2>9, <2>10, <3>1 DEF Waiting
      <4>2. /\ Cardinality(Waiting') = Cardinality(Waiting) + 1
            /\ Cardinality(Sending') = Cardinality(Sending) - 1
        BY <1>0, <2>7, <2>10, <3>1, <4>1, CountedFinite, FS_AddElement, FS_RemoveElement
      <4>3. /\ call.downloaded \in Nat /\ Cardinality(Waiting) \in Nat
            /\ Cardinality(Sending) \in Nat
            /\ call.downloaded + Cardinality(Waiting) + Cardinality(Sending) = Cardinality(made)
        BY <1>0, <1>3, CountedFinite DEF CountIsExact
      <4>4. call.downloaded + Cardinality(Waiting') + Cardinality(Sending') = Cardinality(made)
        BY <4>2, <4>3
      <4> QED
        BY <1>1, <2>1, <4>4 DEF CountIsExact
    <3>2. CASE x.res # "new"
      <4>1. Waiting' = Waiting /\ Sending' = Sending
        BY <2>7, <2>9, <3>2 DEF Waiting
      <4> QED
        BY <1>1, <1>3, <2>1, <4>1 DEF CountIsExact
    <3> QED
      BY <3>1, <3>2
  <2> QED
    BY <2>6, <2>8, <2>11
<1> QED
  BY <1>4, <1>9, <1>10, <1>11, <1>12

\* Taking the head off the channel leaves every later report where it was.
LEMMA TailKeeps ==
  ASSUME TypeOK, OneReport, queue # <<>>, queue' = Tail(queue), UNCHANGED <<next, wk>>
  PROVE  /\ OneReport'
         /\ \A i \in Idx : i \in Waiting' <=>
              i \in Waiting /\ ~(Head(queue).what = "done" /\ Head(queue).i = i)
         /\ Head(queue).what = "done" /\ Head(queue).res = "new" => Head(queue).i \in Waiting
<1>0. queue \in Seq(Event)
  BY DEF TypeOK
<1>1. /\ Head(queue) = queue[1] /\ Head(queue) \in Event /\ Len(queue) \in Nat \ {0}
      /\ Len(queue') = Len(queue) - 1
      /\ \A m \in 2 .. Len(queue) : queue'[m - 1] = queue[m]
  BY <1>0, Received
<1>2. \A n \in Int : Done(n)' => Done(n + 1) /\ queue'[n] = queue[n + 1]
  <2> SUFFICES ASSUME NEW n \in Int, Done(n)' PROVE Done(n + 1) /\ queue'[n] = queue[n + 1]
    OBVIOUS
  <2>1. n + 1 \in 2 .. Len(queue) /\ (n + 1) - 1 = n
    BY <1>1 DEF Done
  <2> QED
    BY <1>1, <2>1 DEF Done
<1>3. \A n : Done(n) /\ n # 1 => Done(n - 1)' /\ queue'[n - 1] = queue[n]
  <2> SUFFICES ASSUME NEW n, Done(n), n # 1 PROVE Done(n - 1)' /\ queue'[n - 1] = queue[n]
    OBVIOUS
  <2>1. n \in 2 .. Len(queue) /\ n - 1 \in 1 .. Len(queue')
    BY <1>1 DEF Done
  <2> QED
    BY <1>1, <2>1 DEF Done
<1>4. OneReport'
  <2> SUFFICES ASSUME NEW n \in 1 .. Len(queue'), Done(n)'
               PROVE  /\ queue'[n].i < next' /\ ~Held(queue[n].i)'
                      /\ \A m \in 1 .. Len(queue') :
                           Done(m)' /\ queue'[m].i = queue'[n].i => m = n
    BY DEF OneReport
  <2>1. Done(n + 1) /\ queue'[n] = queue[n + 1]
    BY <1>2
  <2>2. /\ queue[n + 1].i < next /\ ~Held(queue[n + 1].i)
        /\ \A m : Done(m) /\ queue[m].i = queue[n + 1].i => m = n + 1
    BY <2>1 DEF OneReport, Done
  <2>3. ASSUME NEW m \in 1 .. Len(queue'), Done(m)', queue'[m].i = queue'[n].i PROVE m = n
    <3>1. Done(m + 1) /\ queue'[m] = queue[m + 1]
      BY <1>2, <2>3
    <3>2. m + 1 = n + 1
      BY <2>1, <2>2, <2>3, <3>1
    <3> QED
      BY <3>2
  <2> QED
    BY <2>1, <2>2, <2>3 DEF Held
<1>5. ASSUME NEW i \in Idx
      PROVE  i \in Waiting' <=>
               i \in Waiting /\ ~(Head(queue).what = "done" /\ Head(queue).i = i)
  <2>1. ASSUME i \in Waiting'
        PROVE  i \in Waiting /\ ~(Head(queue).what = "done" /\ Head(queue).i = i)
    <3>1. PICK n \in 1 .. Len(queue') : Done(n)' /\ queue'[n].i = i /\ queue'[n].res = "new"
      BY <2>1 DEF Waiting
    <3>2. Done(n + 1) /\ queue[n + 1].i = i /\ queue[n + 1].res = "new" /\ n + 1 # 1
      BY <1>2, <3>1
    <3>3. i \in Waiting
      BY <3>2 DEF Waiting, Done
    <3>4. Head(queue).what = "done" => Done(1)
      BY <1>1 DEF Done
    <3>5. ~(Head(queue).what = "done" /\ Head(queue).i = i)
      BY <1>1, <3>2, <3>4 DEF OneReport, Done
    <3> QED
      BY <3>3, <3>5
  <2>2. ASSUME i \in Waiting, ~(Head(queue).what = "done" /\ Head(queue).i = i)
        PROVE  i \in Waiting'
    <3>1. PICK n \in 1 .. Len(queue) : Done(n) /\ queue[n].i = i /\ queue[n].res = "new"
      BY <2>2 DEF Waiting
    <3>2. n # 1
      BY <1>1, <2>2, <3>1 DEF Done
    <3>3. Done(n - 1)' /\ queue'[n - 1] = queue[n]
      BY <1>3, <3>1, <3>2
    <3>4. n - 1 \in 1 .. Len(queue')
      BY <3>3 DEF Done
    <3> QED
      BY <3>1, <3>3, <3>4 DEF Waiting
  <2> QED
    BY <2>1, <2>2
<1>6. ASSUME Head(queue).what = "done", Head(queue).res = "new" PROVE Head(queue).i \in Waiting
  <2>1. Done(1) /\ 1 \in 1 .. Len(queue)
    BY <1>1, <1>6 DEF Done
  <2>2. Head(queue).i \in Idx
    BY <1>1 DEF Event
  <2> QED
    BY <1>1, <1>6, <2>1, <2>2 DEF Waiting
<1> QED
  BY <1>4, <1>5, <1>6

\* A report takes its tile out of the channel; any other answer counts nothing.
LEMMA CallerCounts ==
  ASSUME PoolInv, CountInv, CallerStep
  PROVE  CountInv'
<1>0. /\ TypeOK /\ call \in CallState /\ queue \in Seq(Event) /\ call.downloaded \in Nat
      /\ UNCHANGED <<files, temps, next, wk, made>>
  BY DEF PoolInv, TypeOK, CallState, CallerStep, DrainStarted, DrainDone, Answer, Unwound,
     CallbackPanics
<1>1. Sending' = Sending /\ (OneWorker => OneWorker')
  BY <1>0 DEF Sending, OneWorker
<1>2. /\ Cardinality(Waiting) \in Nat /\ Cardinality(Sending) \in Nat
      /\ IsFiniteSet(Waiting)
  BY <1>0, CountedFinite
<1>3. CASE DrainStarted
  <2>1. call'.pc = "drain" /\ call'.downloaded = call.downloaded
    BY <1>0, <1>3 DEF DrainStarted, CallState
  <2>2. OneWorker /\ OneReport /\ CountIsExact
    BY <1>3 DEF CountInv, DrainStarted
  <2>3. /\ OneReport'
        /\ \A i \in Idx : i \in Waiting' <=> i \in Waiting
    BY <1>0, <1>3, <2>2, TailKeeps DEF DrainStarted
  <2>4. Waiting' = Waiting
    BY <2>3 DEF Waiting
  <2>5. CountIsExact'
    BY <1>0, <1>1, <1>3, <2>1, <2>2, <2>4 DEF CountIsExact, DrainStarted
  <2> QED
    BY <1>1, <2>1, <2>2, <2>3, <2>5 DEF CountInv
<1>4. CASE DrainDone
  <2> DEFINE ev == Head(queue)
             n  == call.downloaded + (IF Counts(ev) THEN 1 ELSE 0)
  <2>1. call'.pc = "drain" /\ call'.downloaded = n
    BY <1>0, <1>4 DEF DrainDone, CallState
  <2>2. OneWorker /\ OneReport /\ CountIsExact
    BY <1>4 DEF CountInv, DrainDone
  <2>3. call.downloaded + Cardinality(Waiting) + Cardinality(Sending) = Cardinality(made)
    BY <1>4, <2>2 DEF CountIsExact, DrainDone
  <2>4. /\ OneReport'
        /\ \A i \in Idx : i \in Waiting' <=> i \in Waiting /\ ev.i # i
        /\ ev.res = "new" => ev.i \in Waiting
    BY <1>0, <1>4, <2>2, TailKeeps DEF DrainDone
  <2>5. Waiting' = Waiting \ {ev.i}
    BY <2>4 DEF Waiting
  <2>6. ev.res # "new" => ev.i \notin Waiting
    <3>1. /\ Head(queue) = queue[1] /\ Len(queue) \in Nat \ {0}
      BY <1>0, <1>4, Received DEF DrainDone
    <3>2. Done(1) /\ 1 \in 1 .. Len(queue)
      BY <1>4, <3>1 DEF Done, DrainDone
    <3> QED
      BY <2>2, <3>1, <3>2 DEF OneReport, Waiting
  <2>7. Cardinality(Waiting') = Cardinality(Waiting) - (IF Counts(ev) THEN 1 ELSE 0)
    BY <1>2, <2>4, <2>5, <2>6, FS_RemoveElement DEF Counts
  <2>8. n + Cardinality(Waiting') + Cardinality(Sending) = Cardinality(made)
    BY <1>0, <1>2, <2>3, <2>7
  <2>9. CountIsExact'
    BY <1>0, <1>1, <2>1, <2>8 DEF CountIsExact
  <2> QED
    BY <1>1, <2>1, <2>2, <2>4, <2>9 DEF CountInv
<1>5. CASE Answer
  <2>1. call'.downloaded = call.downloaded
    <3>1. call' = [call EXCEPT !.pc = "err"] \/ call' = [call EXCEPT !.pc = "ok", !.progress = Total]
      BY <1>5 DEF Answer
    <3> QED
      BY <1>0, <3>1 DEF CallState
  <2>2. queue' = queue /\ \A w \in Crew : wk[w].pc = "gone"
    BY <1>5 DEF Answer, Disconnected
  <2>3. OneWorker /\ OneReport /\ CountIsExact
    BY <1>5 DEF CountInv, Answer
  <2>4. Waiting' = Waiting /\ OneReport'
    BY <1>0, <2>2, <2>3 DEF Waiting, Done, OneReport, Held
  <2>5. CountIsExact'
    BY <1>0, <1>1, <1>5, <2>1, <2>3, <2>4 DEF CountIsExact, Answer
  <2> QED
    BY <1>0, <1>1, <2>2, <2>3, <2>4, <2>5 DEF CountInv
<1>6. CASE CallbackPanics \/ Unwound
  <2>1. call'.pc \in {"unwind", "panicked"}
    <3>1. call' = [call EXCEPT !.pc = "unwind"] \/ call' = [call EXCEPT !.pc = "panicked"]
      BY <1>6 DEF CallbackPanics, Unwound
    <3> QED
      BY <1>0, <3>1 DEF CallState
  <2> QED
    BY <2>1 DEF CountInv
<1> QED
  BY <1>3, <1>4, <1>5, <1>6 DEF CallerStep

(* Ok(n) is the number of tiles this call itself put into the directory:    *)
(* however the workers interleave, each is renamed, reported and counted    *)
(* once.                                                                    *)
THEOREM CountAlwaysExact == Spec => []CountIsExact
<1>1. Init => CountInv
  <2> SUFFICES ASSUME Init PROVE CountInv
    OBVIOUS
  <2>1. \A w \in Crew : wk[w].pc = "pull"
    BY DEF Init, NewWorker
  <2>2. made = {} /\ queue = <<>> /\ call.downloaded = 0 /\ Len(queue) = 0
    BY DEF Init
  <2>3. Waiting = {} /\ Sending = {}
    BY <2>1, <2>2 DEF Waiting, Sending
  <2>4. CountIsExact
    BY <2>2, <2>3, FS_EmptySet DEF CountIsExact
  <2>5. OneWorker /\ OneReport
    BY <2>1, <2>2 DEF OneWorker, OneReport, Busy
  <2>6. call.pc # "drain" => Crew = {}
    BY PoolAssumption DEF Init, Crew
  <2> QED
    BY <2>4, <2>5, <2>6 DEF CountInv
<1>2. PoolInv /\ CountInv /\ [Next]_vars => CountInv'
  <2> SUFFICES ASSUME PoolInv, CountInv, [Next]_vars PROVE CountInv'
    OBVIOUS
  <2>1. CASE UNCHANGED <<next, wk, queue, call, made>>
    BY <2>1 DEF CountInv, OneWorker, OneReport, CountIsExact, Waiting, Sending, Done, Held
  <2>2. CASE (\E i \in Idx : OtherCall(i)) \/ UNCHANGED vars
    BY <2>1, <2>2 DEF OtherCall, vars
  <2> QED
    BY <2>2, WorkerCounts, CallerCounts DEF Next
<1>3. PoolInv /\ CountInv => CountIsExact
  BY DEF CountInv, CountIsExact, PoolInv, TypeOK, CallState
<1> QED
  BY <1>1, <1>2, <1>3, InitPool, StepPool, PTL DEF Spec

----------------------------------------------------------------------------
(* The tiles of a box and what they answer.                                 *)

Boxes == [south : Int, west : Int, north : Int, east : Int]

LEMMA Division ==
  ASSUME NEW x \in Int, NEW d \in Nat, d > 0
  PROVE  /\ x \div d \in Int
         /\ d * (x \div d) <= x
         /\ x < d * (x \div d) + d
         /\ x % d = x - d * (x \div d)
OBVIOUS

LEMMA SameQuotient ==
  ASSUME NEW d \in Nat, d > 0, NEW q \in Int, NEW r \in Int, d * q < d * r + d
  PROVE  q <= r
OBVIOUS

LEMMA LessQuotient ==
  ASSUME NEW d \in Nat, d > 0, NEW q \in Int, NEW r \in Int, d * q < d * r
  PROVE  q < r
OBVIOUS

\* A cell of a grid with m columns, numbered row by row.
LEMMA RowAndColumn ==
  ASSUME NEW m \in Nat, NEW r \in Nat, NEW c \in Nat, c < m
  PROVE  /\ (r * m + c) \div m = r
         /\ (r * m + c) % m = c
OBVIOUS

LEMMA FloorBounds ==
  ASSUME NEW x \in Int
  PROVE  /\ Floor(x) \in Int
         /\ Deg * Floor(x) <= x
         /\ x < Deg * Floor(x) + Deg
BY Division, GridAssumption DEF Floor

LEMMA CeilBounds ==
  ASSUME NEW x \in Int
  PROVE  /\ Ceil(x) \in Int
         /\ x <= Deg * Ceil(x)
         /\ Deg * Ceil(x) < x + Deg
<1>1. (-x) \div Deg \in Int /\ Deg * ((-x) \div Deg) <= -x /\ -x < Deg * ((-x) \div Deg) + Deg
  BY Division, GridAssumption
<1> QED BY <1>1, GridAssumption DEF Ceil

\* On one axis: the whole degrees from floor(lo) up to ceil(hi) are those that
\* some point between the two, short of a whole hi, is looked up in.
LEMMA AxisCovered ==
  ASSUME NEW lo \in Int, NEW hi \in Int, NEW x \in Int, lo <= x, x <= hi,
         ~ (x = hi /\ hi % Deg = 0)
  PROVE  Floor(x) \in Floor(lo) .. Ceil(hi) - 1
<1>1. Floor(lo) <= Floor(x)
  <2>1. Deg * Floor(lo) < Deg * Floor(x) + Deg
    BY FloorBounds, GridAssumption
  <2> QED BY <2>1, FloorBounds, SameQuotient, GridAssumption
<1>2. Floor(x) < Ceil(hi)
  <2>1. Deg * Floor(x) < Deg * Ceil(hi)
    <3>1. CASE x < hi
      BY <3>1, FloorBounds, CeilBounds, GridAssumption
    <3>2. CASE x = hi
      <4>1. hi % Deg = hi - Deg * Floor(hi)
        BY Division, GridAssumption DEF Floor
      <4>2. hi % Deg # 0 /\ hi % Deg \in Int
        BY <3>2, <4>1, FloorBounds, GridAssumption
      <4> QED BY <3>2, <4>1, <4>2, FloorBounds, CeilBounds, GridAssumption
    <3> QED BY <3>1, <3>2
  <2> QED BY <2>1, FloorBounds, CeilBounds, LessQuotient, GridAssumption
<1> QED BY <1>1, <1>2, FloorBounds, CeilBounds

\* On the edge at a whole degree the lookup is one beyond.
LEMMA AxisBeyond ==
  ASSUME NEW hi \in Int, hi % Deg = 0
  PROVE  Floor(hi) = Ceil(hi)
<1>1. hi = Deg * Floor(hi)
  BY Division, GridAssumption DEF Floor
<1>2. Floor(hi) <= Ceil(hi) /\ Ceil(hi) <= Floor(hi)
  BY <1>1, FloorBounds, CeilBounds, SameQuotient, GridAssumption
<1> QED BY <1>2, FloorBounds, CeilBounds

LEMMA AxisNonempty ==
  ASSUME NEW lo \in Int, NEW hi \in Int, lo < hi
  PROVE  Floor(lo) < Ceil(hi)
<1>1. Deg * Floor(lo) < Deg * Ceil(hi)
  BY FloorBounds, CeilBounds, GridAssumption
<1> QED BY <1>1, FloorBounds, CeilBounds, LessQuotient, GridAssumption

LEMMA Extent ==
  ASSUME NEW b \in Boxes, b.south < b.north, b.west < b.east
  PROVE  /\ Rows(b) \in Nat \ {0} /\ Cols(b) \in Nat \ {0}
         /\ Rows(b) * Cols(b) \in Nat
<1>1. Floor(b.south) < Ceil(b.north) /\ Floor(b.west) < Ceil(b.east)
  BY AxisNonempty DEF Boxes
<1>2. Rows(b) \in Nat \ {0} /\ Cols(b) \in Nat \ {0}
  BY <1>1, FloorBounds, CeilBounds DEF Rows, Cols, Boxes
<1> QED BY <1>2

\* tiles_for_bbox pushes every pair of its two ranges.
LEMMA EveryTileListed ==
  ASSUME NEW b \in Boxes, b.south < b.north, b.west < b.east,
         NEW lat \in Floor(b.south) .. Ceil(b.north) - 1,
         NEW lon \in Floor(b.west) .. Ceil(b.east) - 1
  PROVE  \E k \in 1 .. Rows(b) * Cols(b) : TilesForBBox(b)[k] = <<lat, lon>>
<1> DEFINE r == lat - Floor(b.south)
           c == lon - Floor(b.west)
           k == r * Cols(b) + c + 1
<1>1. Floor(b.south) \in Int /\ Floor(b.west) \in Int /\ lat \in Int /\ lon \in Int
  BY FloorBounds, CeilBounds DEF Boxes
<1>2. r \in Nat /\ c \in Nat /\ r < Rows(b) /\ c < Cols(b)
  BY <1>1, FloorBounds, CeilBounds DEF Boxes, Rows, Cols
<1>3. Rows(b) \in Nat /\ Cols(b) \in Nat /\ Rows(b) * Cols(b) \in Nat
  BY Extent
<1> HIDE DEF r, c
<1>4. (k - 1) \div Cols(b) = r /\ (k - 1) % Cols(b) = c
  <2>1. k - 1 = r * Cols(b) + c
    BY <1>2, <1>3
  <2> HIDE DEF k
  <2> QED BY <1>2, <1>3, <2>1, RowAndColumn
<1>5. k \in 1 .. Rows(b) * Cols(b)
  <2>1. r * Cols(b) + Cols(b) <= Rows(b) * Cols(b)
    BY <1>2, <1>3
  <2>2. r * Cols(b) \in Nat
    BY <1>2, <1>3
  <2> QED BY <1>2, <1>3, <2>1, <2>2
<1> HIDE DEF k
<1>6. TilesForBBox(b)[k] = <<Floor(b.south) + r, Floor(b.west) + c>>
  BY <1>4, <1>5 DEF TilesForBBox
<1>7. Floor(b.south) + r = lat /\ Floor(b.west) + c = lon
  BY <1>1 DEF r, c
<1> QED BY <1>5, <1>6, <1>7

LEMMA EveryListedInRange ==
  ASSUME NEW b \in Boxes, b.south < b.north, b.west < b.east,
         NEW k \in 1 .. Rows(b) * Cols(b)
  PROVE  \E r \in 0 .. Rows(b) - 1, c \in 0 .. Cols(b) - 1 :
            /\ k = r * Cols(b) + c + 1
            /\ TilesForBBox(b)[k] = <<Floor(b.south) + r, Floor(b.west) + c>>
<1> DEFINE r == (k - 1) \div Cols(b)
           c == (k - 1) % Cols(b)
<1>1. Rows(b) \in Nat \ {0} /\ Cols(b) \in Nat \ {0} /\ Rows(b) * Cols(b) \in Nat
  BY Extent
<1>2. /\ r \in Int /\ c = k - 1 - Cols(b) * r
      /\ Cols(b) * r <= k - 1 /\ k - 1 < Cols(b) * r + Cols(b)
  <2>1. k - 1 \in Int /\ Cols(b) \in Nat /\ Cols(b) > 0
    BY <1>1
  <2>2. /\ (k - 1) \div Cols(b) \in Int
        /\ Cols(b) * ((k - 1) \div Cols(b)) <= k - 1
        /\ k - 1 < Cols(b) * ((k - 1) \div Cols(b)) + Cols(b)
        /\ (k - 1) % Cols(b) = (k - 1) - Cols(b) * ((k - 1) \div Cols(b))
    BY <2>1, Division
  <2> QED BY <2>2
<1>3. TilesForBBox(b)[k] = <<Floor(b.south) + r, Floor(b.west) + c>>
  BY DEF TilesForBBox
<1> HIDE DEF r, c
<1>4. c \in 0 .. Cols(b) - 1 /\ k = r * Cols(b) + c + 1
  BY <1>1, <1>2
<1>5. 0 <= r
  <2>1. Cols(b) * 0 < Cols(b) * r + Cols(b)
    BY <1>1, <1>2
  <2> QED BY <1>1, <1>2, <2>1, SameQuotient
<1>6. r < Rows(b)
  <2>1. Cols(b) * r < Cols(b) * Rows(b)
    BY <1>1, <1>2
  <2> QED BY <1>1, <1>2, <2>1, LessQuotient
<1> QED BY <1>1, <1>2, <1>3, <1>4, <1>5, <1>6

----------------------------------------------------------------------------
\* tiles_for_bbox lists no tile twice, so no two workers are ever given the
\* same file of one call.
THEOREM NoTileTwice ==
  ASSUME NEW b \in Boxes, Valid(b),
         NEW j \in 1 .. Rows(b) * Cols(b), NEW k \in 1 .. Rows(b) * Cols(b),
         TilesForBBox(b)[j] = TilesForBBox(b)[k]
  PROVE  j = k
<1>1. b.south < b.north /\ b.west < b.east
  BY DEF Valid
<1>2. PICK r \in 0 .. Rows(b) - 1, c \in 0 .. Cols(b) - 1 :
         /\ j = r * Cols(b) + c + 1
         /\ TilesForBBox(b)[j] = <<Floor(b.south) + r, Floor(b.west) + c>>
  BY <1>1, EveryListedInRange
<1>3. PICK s \in 0 .. Rows(b) - 1, d \in 0 .. Cols(b) - 1 :
         /\ k = s * Cols(b) + d + 1
         /\ TilesForBBox(b)[k] = <<Floor(b.south) + s, Floor(b.west) + d>>
  BY <1>1, EveryListedInRange
<1>4. Floor(b.south) + r = Floor(b.south) + s /\ Floor(b.west) + c = Floor(b.west) + d
  BY <1>2, <1>3
<1>5. r = s /\ c = d
  BY <1>1, <1>4, FloorBounds, Extent DEF Boxes
<1> QED BY <1>2, <1>3, <1>5

\* A point of the box is looked up (ElevationData::elevation_at) in a tile that
\* tiles_for_bbox lists and that reaches it, south and west of zero as well,
\* unless it lies on a north or east edge at a whole degree.
THEOREM LookupsAreListed ==
  ASSUME NEW b \in Boxes, Valid(b),
         NEW p \in [lat : b.south .. b.north, lon : b.west .. b.east],
         ~ (p.lat = b.north /\ b.north % Deg = 0), ~ (p.lon = b.east /\ b.east % Deg = 0)
  PROVE  /\ \E k \in 1 .. Rows(b) * Cols(b) : TilesForBBox(b)[k] = LookupKey(p)
         /\ OnTile(LookupKey(p), p)
<1>1. /\ b.south \in Int /\ b.north \in Int /\ b.west \in Int /\ b.east \in Int
      /\ b.south < b.north /\ b.west < b.east
  BY DEF Boxes, Valid
<1>2. p.lat \in Int /\ b.south <= p.lat /\ p.lat <= b.north
  BY <1>1
<1>3. p.lon \in Int /\ b.west <= p.lon /\ p.lon <= b.east
  BY <1>1
<1>4. Floor(p.lat) \in Floor(b.south) .. Ceil(b.north) - 1
  BY <1>1, <1>2, AxisCovered
<1>5. Floor(p.lon) \in Floor(b.west) .. Ceil(b.east) - 1
  BY <1>1, <1>3, AxisCovered
<1>6. \E k \in 1 .. Rows(b) * Cols(b) : TilesForBBox(b)[k] = <<Floor(p.lat), Floor(p.lon)>>
  BY <1>1, <1>4, <1>5, EveryTileListed
<1>7. OnTile(<<Floor(p.lat), Floor(p.lon)>>, p)
  BY <1>2, <1>3, FloorBounds, GridAssumption DEF OnTile
<1> QED BY <1>6, <1>7 DEF LookupKey

\* On such an edge it is looked up in a tile that is not listed.
THEOREM EdgesAreNotListed ==
  ASSUME NEW b \in Boxes, Valid(b),
         NEW p \in [lat : b.south .. b.north, lon : b.west .. b.east],
         (p.lat = b.north /\ b.north % Deg = 0) \/ (p.lon = b.east /\ b.east % Deg = 0),
         NEW k \in 1 .. Rows(b) * Cols(b)
  PROVE  TilesForBBox(b)[k] # LookupKey(p)
<1>1. /\ b.south \in Int /\ b.north \in Int /\ b.west \in Int /\ b.east \in Int
      /\ b.south < b.north /\ b.west < b.east
  BY DEF Boxes, Valid
<1>2. PICK r \in 0 .. Rows(b) - 1, c \in 0 .. Cols(b) - 1 :
         TilesForBBox(b)[k] = <<Floor(b.south) + r, Floor(b.west) + c>>
  BY <1>1, EveryListedInRange
<1>3. Floor(b.south) + r < Ceil(b.north) /\ Floor(b.west) + c < Ceil(b.east)
  BY <1>1, FloorBounds, CeilBounds DEF Rows, Cols
<1>4. CASE p.lat = b.north /\ b.north % Deg = 0
  <2>1. Floor(p.lat) = Ceil(b.north)
    BY <1>1, <1>4, AxisBeyond
  <2>2. Floor(b.south) + r # Floor(p.lat)
    BY <1>1, <1>3, <2>1, FloorBounds, CeilBounds
  <2> QED BY <1>2, <2>2 DEF LookupKey
<1>5. CASE p.lon = b.east /\ b.east % Deg = 0
  <2>1. Floor(p.lon) = Ceil(b.east)
    BY <1>1, <1>5, AxisBeyond
  <2>2. Floor(b.west) + c # Floor(p.lon)
    BY <1>1, <1>3, <2>1, FloorBounds, CeilBounds
  <2> QED BY <1>2, <2>2 DEF LookupKey
<1> QED BY <1>4, <1>5

----------------------------------------------------------------------------
(* Names.                                                                   *)

Digits == Range(DIGITS)
DigitValue(c) == (CHOOSE d \in DOMAIN DIGITS : DIGITS[d] = c) - 1

LEMMA DigitsAre ==
  ASSUME NEW d \in 0 .. 9
  PROVE  DIGITS[d + 1] \in Digits /\ DigitValue(DIGITS[d + 1]) = d
<1>1. DIGITS[d + 1] \in Digits
  BY DEF Digits, DIGITS, Range
<1>2. \A e \in DOMAIN DIGITS : DIGITS[e] = DIGITS[d + 1] => e = d + 1
  BY DEF DIGITS
<1>3. d + 1 \in DOMAIN DIGITS
  BY DEF DIGITS
<1> DEFINE P(e) == e \in DOMAIN DIGITS /\ DIGITS[e] = DIGITS[d + 1]
<1>4. (CHOOSE e : P(e)) = d + 1
  BY <1>2, <1>3
<1> QED BY <1>1, <1>2, <1>3 DEF DigitValue

\* The letters are no digits.
LEMMA LettersAreNot == {"N", "S", "E", "W"} \cap Digits = {}
BY DEF Digits, DIGITS, Range

\* The value of a sequence of digits, one digit at a time.
LEMMA ValueSteps ==
  ASSUME NEW s \in Seq(Digits)
  PROVE  \E h \in [0 .. Len(s) -> Nat] :
            /\ h[0] = 0 /\ ValueOf(s) = h[Len(s)]
            /\ \A k \in 1 .. Len(s) : h[k] = 10 * h[k - 1] + DigitValue(s[k])
<1> DEFINE n == Len(s)
           Eq(g) == g = [I \in SUBSET DOMAIN s |->
                           IF I = {} THEN 0
                           ELSE 10 * g[I \ {Max(I)}]
                                  + (CHOOSE d \in DOMAIN DIGITS : DIGITS[d] = s[Max(I)]) - 1]
           step == [kv \in (1 .. n) \X Nat |-> 10 * kv[2] + DigitValue(s[kv[1]])]
<1>1. ValueOf(s) = (CHOOSE g : Eq(g))[DOMAIN s]
  BY Zenon DEF ValueOf, FoldLeft, MapThenFoldSet
<1>2. n \in Nat /\ DOMAIN s = 1 .. n /\ n = Len(s) /\ \A k \in 1 .. n : s[k] \in Digits
  OBVIOUS
<1>3. \A k \in 1 .. n : DigitValue(s[k]) \in Nat
  <2>1. \A c \in Digits : \E d \in 0 .. 9 : c = DIGITS[d + 1]
    BY DEF Digits, DIGITS, Range
  <2> QED
    BY <1>2, <2>1, DigitsAre
<1>4. step \in [(1 .. n) \X Nat -> Nat] /\ 0 \in Nat
  BY <1>3
<1>5. \A k \in 1 .. n, v \in Nat : step[<<k, v>>] = 10 * v + DigitValue(s[k])
  OBVIOUS
<1> HIDE DEF step, n
<1>0. PICK f \in [SUBSET (1 .. n) -> Nat] : IsSequenceFold(n, 0, step, f)
  BY <1>2, <1>4, SequenceFold
<1>6. /\ f[{}] = 0
      /\ \A I \in SUBSET (1 .. n) :
            I # {} => Max(I) \in 1 .. n /\ f[I] = step[<<Max(I), f[I \ {Max(I)}]>>]
      /\ \A k \in 1 .. n : f[1 .. k] = step[<<k, f[1 .. (k - 1)]>>]
  BY <1>0 DEF IsSequenceFold
<1>7. \A I \in SUBSET (1 .. n) : I # {} =>
         f[I] = 10 * f[I \ {Max(I)}] + DigitValue(s[Max(I)])
  BY <1>5, <1>6
<1>8. Eq(f)
  <2>1. \A I \in SUBSET (1 .. n) : I # {} => f[I \ {Max(I)}] \in Nat /\ DigitValue(s[Max(I)]) \in Nat
    BY <1>3, <1>6
  <2> QED BY <1>2, <1>6, <1>7 DEF DigitValue
<1> DEFINE g == CHOOSE k : Eq(k)
<1>9. Eq(g)
  <2> HIDE DEF Eq
  <2> QED
    BY <1>8
<1> HIDE DEF g
<1>10. g[1 .. n] = f[1 .. n]
  <2>1. g[{}] = f[{}]
    BY <1>6, <1>9
  <2>2. \A I \in SUBSET (1 .. n) : I # {} /\ g[I \ {Max(I)}] = f[I \ {Max(I)}] => g[I] = f[I]
    <3>1. \A I \in SUBSET (1 .. n) : I # {} =>
             g[I] = 10 * g[I \ {Max(I)}] + (CHOOSE d \in DOMAIN DIGITS : DIGITS[d] = s[Max(I)]) - 1
      BY <1>2, <1>9
    <3>2. \A I \in SUBSET (1 .. n) : I # {} =>
             f[I] = 10 * f[I \ {Max(I)}] + (CHOOSE d \in DOMAIN DIGITS : DIGITS[d] = s[Max(I)]) - 1
      BY <1>2, <1>8
    <3> QED
      BY <3>1, <3>2
  <2> QED
    BY <1>2, <2>1, <2>2, SameFold
<1> DEFINE h == [k \in 0 .. n |-> f[1 .. k]]
<1>11. \A k \in 1 .. n : h[k] = 10 * h[k - 1] + DigitValue(s[k])
  <2>1. \A k \in 1 .. n : f[1 .. (k - 1)] \in Nat
    <3>1. \A k \in 1 .. n : 1 .. (k - 1) \in SUBSET (1 .. n)
      BY <1>2
    <3> QED
      BY <3>1
  <2>2. \A k \in 1 .. n : f[1 .. k] = 10 * f[1 .. (k - 1)] + DigitValue(s[k])
    BY <1>5, <1>6, <2>1
  <2>3. \A k \in 1 .. n : h[k] = f[1 .. k] /\ h[k - 1] = f[1 .. (k - 1)]
    BY <1>2
  <2> QED
    BY <2>2, <2>3
<1>12. h \in [0 .. n -> Nat] /\ h[0] = 0 /\ ValueOf(s) = h[n]
  <2>1. \A k \in 0 .. n : (1 .. k) \in SUBSET (1 .. n)
    BY <1>2
  <2>2. 1 .. 0 = {}
    OBVIOUS
  <2> QED
    BY <1>1, <1>2, <1>6, <1>10, <2>1, <2>2 DEF g
<1> QED
  BY <1>2, <1>11, <1>12

LEMMA TwoDigits ==
  ASSUME NEW n \in 0 .. 99
  PROVE  /\ Two(n) \in Seq(Digits) /\ Len(Two(n)) = 2
         /\ ValueOf(Two(n)) = n
<1> DEFINE a == n \div 10   b == n % 10   s == Two(n)
<1>1. a \in 0 .. 9 /\ b \in 0 .. 9 /\ n = 10 * a + b
  OBVIOUS
<1>2. s = <<DIGITS[a + 1], DIGITS[b + 1]>>
  BY DEF Two
<1> HIDE DEF a, b
<1>3. /\ DIGITS[a + 1] \in Digits /\ DigitValue(DIGITS[a + 1]) = a
      /\ DIGITS[b + 1] \in Digits /\ DigitValue(DIGITS[b + 1]) = b
  BY <1>1, DigitsAre
<1>4. s \in Seq(Digits) /\ Len(s) = 2 /\ s[1] = DIGITS[a + 1] /\ s[2] = DIGITS[b + 1]
  BY <1>2, <1>3
<1> HIDE DEF s
<1>5. PICK h \in [0 .. Len(s) -> Nat] :
            /\ h[0] = 0 /\ ValueOf(s) = h[Len(s)]
            /\ \A k \in 1 .. Len(s) : h[k] = 10 * h[k - 1] + DigitValue(s[k])
  BY <1>4, ValueSteps
<1>6. h[1] = a /\ h[2] = 10 * h[1] + b
  BY <1>1, <1>3, <1>4, <1>5
<1> QED
  BY <1>1, <1>4, <1>5, <1>6 DEF s

LEMMA ThreeDigits ==
  ASSUME NEW n \in 0 .. 999
  PROVE  /\ Three(n) \in Seq(Digits) /\ Len(Three(n)) = 3
         /\ ValueOf(Three(n)) = n
<1> DEFINE a == n \div 100   m == n % 100   b == m \div 10   c == m % 10   s == Three(n)
<1>1. a \in 0 .. 9 /\ m \in 0 .. 99 /\ n = 100 * a + m
  OBVIOUS
<1>2. b \in 0 .. 9 /\ c \in 0 .. 9 /\ m = 10 * b + c
  BY <1>1
<1>3. s = <<DIGITS[a + 1]>> \o <<DIGITS[b + 1], DIGITS[c + 1]>>
  BY DEF Three, Two
<1> HIDE DEF a, b, c, m, s
<1>4. /\ DIGITS[a + 1] \in Digits /\ DigitValue(DIGITS[a + 1]) = a
      /\ DIGITS[b + 1] \in Digits /\ DigitValue(DIGITS[b + 1]) = b
      /\ DIGITS[c + 1] \in Digits /\ DigitValue(DIGITS[c + 1]) = c
  BY <1>1, <1>2, DigitsAre
<1>5. /\ s \in Seq(Digits) /\ Len(s) = 3
      /\ s[1] = DIGITS[a + 1] /\ s[2] = DIGITS[b + 1] /\ s[3] = DIGITS[c + 1]
  BY <1>3, <1>4
<1>6. PICK h \in [0 .. Len(s) -> Nat] :
            /\ h[0] = 0 /\ ValueOf(s) = h[Len(s)]
            /\ \A k \in 1 .. Len(s) : h[k] = 10 * h[k - 1] + DigitValue(s[k])
  BY <1>5, ValueSteps
<1>7. h[1] = a /\ h[2] = 10 * h[1] + b /\ h[3] = 10 * h[2] + c
  <2>1. h[1] = a
    BY <1>1, <1>4, <1>5, <1>6
  <2>2. h[2] = 10 * h[1] + b
    BY <1>4, <1>5, <1>6
  <2>3. h[3] = 10 * h[2] + c
    BY <1>4, <1>5, <1>6
  <2> QED
    BY <2>1, <2>2, <2>3
<1>8. ValueOf(s) = n
  BY <1>1, <1>2, <1>5, <1>6, <1>7
<1> QED
  BY <1>5, <1>8 DEF s

LEMMA Concat ==
  ASSUME NEW T, NEW a \in Seq(T), NEW b \in Seq(T)
  PROVE  /\ a \o b \in Seq(T) /\ Len(a \o b) = Len(a) + Len(b)
         /\ \A k \in 1 .. Len(a) : (a \o b)[k] = a[k]
         /\ \A k \in 1 .. Len(b) : (a \o b)[Len(a) + k] = b[k]
OBVIOUS

LEMMA Elements ==
  ASSUME NEW T, NEW s \in Seq(T), s # << >>
  PROVE  /\ DOMAIN s = 1 .. Len(s)
         /\ \A k \in 1 .. Len(s) : s[k] \in T
OBVIOUS

LEMMA ReadingIs ==
  ASSUME NEW s, Len(s) = 7, {i \in 2 .. Len(s) : s[i] \in {"E", "W"}} = {4}, s[1] \in {"N", "S"},
         NEW x, NEW y, SubSeq(s, 2, 3) = x, SubSeq(s, 5, 7) = y, IsNumber(x), IsNumber(y)
  PROVE  ParseHgtFilename(s) = <<Signed(s[1], x), Signed(s[4], y)>>
<1> DEFINE e == SelectInSubSeq(s, 2, Len(s), LAMBDA c : c \in {"E", "W"})
<1>1. Min({4}) = 4
  BY DEF Min
<1>2. e = 4
  BY <1>1 DEF SelectInSubSeq
<1>3. ParseHgtFilename(s) =
        IF /\ Len(s) >= 7 /\ s[1] \in {"N", "S"} /\ e > 0
           /\ IsNumber(SubSeq(s, 2, e - 1)) /\ IsNumber(SubSeq(s, e + 1, Len(s)))
          THEN <<Signed(s[1], SubSeq(s, 2, e - 1)), Signed(s[e], SubSeq(s, e + 1, Len(s)))>>
          ELSE << >>
  BY Zenon DEF ParseHgtFilename
<1> HIDE DEF e
<1>4. 4 - 1 = 3 /\ 4 + 1 = 5 /\ 7 >= 7 /\ 4 > 0
  OBVIOUS
<1> QED
  BY <1>2, <1>3, <1>4

\* The degrees that two and three digits can write.
Lats == -99 .. 99
Lons == -999 .. 999

\* The name of a tile's file is read as that tile, south and west of zero too.
THEOREM NamesAreRead ==
  ASSUME NEW lat \in Lats, NEW lon \in Lons
  PROVE  ParseHgtFilename(TileName(<<lat, lon>>)) = <<lat, lon>>
<1> DEFINE ns == IF lat >= 0 THEN "N" ELSE "S"
           ew == IF lon >= 0 THEN "E" ELSE "W"
           u == Two(Abs(lat))
           w == Three(Abs(lon))
           s == TileName(<<lat, lon>>)
           I == {i \in 2 .. Len(s) : s[i] \in {"E", "W"}}
<1>0. lat \in -99 .. 99 /\ lon \in -999 .. 999
  BY DEF Lats, Lons
<1>1. Abs(lat) \in 0 .. 99 /\ Abs(lon) \in 0 .. 999
  BY <1>0 DEF Abs
<1>2. /\ u \in Seq(Digits) /\ Len(u) = 2 /\ ValueOf(u) = Abs(lat)
      /\ w \in Seq(Digits) /\ Len(w) = 3 /\ ValueOf(w) = Abs(lon)
  <2>1. \A n \in 0 .. 99 : Two(n) \in Seq(Digits) /\ Len(Two(n)) = 2 /\ ValueOf(Two(n)) = n
    BY TwoDigits
  <2>2. \A n \in 0 .. 999 : Three(n) \in Seq(Digits) /\ Len(Three(n)) = 3 /\ ValueOf(Three(n)) = n
    BY ThreeDigits
  <2>3. u \in Seq(Digits) /\ Len(u) = 2
    BY <1>1, <2>1
  <2>4. ValueOf(u) = Abs(lat)
    BY <1>1, <2>1
  <2> DEFINE k == Abs(lon)
  <2>5. k \in 0 .. 999 /\ w = Three(k)
    BY <1>1
  <2> HIDE DEF k, w, u
  <2>6. w \in Seq(Digits) /\ Len(w) = 3 /\ ValueOf(w) = k
    <3>1. Three(k) \in Seq(Digits) /\ Len(Three(k)) = 3 /\ ValueOf(Three(k)) = k
      BY <2>2, <2>5, Zenon
    <3> QED
      BY <3>1, Zenon DEF w, k
  <2> QED
    BY <2>3, <2>4, <2>6 DEF k
<1>3. s = <<ns>> \o u \o <<ew>> \o w
  BY DEF TileName
<1> HIDE DEF u, w, s
<1> DEFINE Chars == Digits \cup {"N", "S", "E", "W"}
<1>4. u \in Seq(Chars) /\ w \in Seq(Chars) /\ ns \in Chars /\ ew \in Chars
  BY <1>2
<1> HIDE DEF Chars
<1>5. /\ Len(s) = 7 /\ s \in Seq(Chars)
      /\ s[1] = ns /\ s[4] = ew
      /\ s[2] = u[1] /\ s[3] = u[2]
      /\ s[5] = w[1] /\ s[6] = w[2] /\ s[7] = w[3]
  <2> DEFINE a == <<ns>> \o u
             b == a \o <<ew>>
  <2>1. a \in Seq(Chars) /\ Len(a) = 3 /\ a[1] = ns /\ a[2] = u[1] /\ a[3] = u[2]
    <3>1. <<ns>> \in Seq(Chars) /\ Len(<<ns>>) = 1 /\ <<ns>>[1] = ns
      BY <1>4
    <3>2. u \in Seq(Chars) /\ Len(u) = 2
      BY <1>2, <1>4
    <3>3. /\ a \in Seq(Chars) /\ Len(a) = Len(<<ns>>) + Len(u)
          /\ \A k \in 1 .. Len(<<ns>>) : a[k] = <<ns>>[k]
          /\ \A k \in 1 .. Len(u) : a[Len(<<ns>>) + k] = u[k]
      BY <3>1, <3>2, Concat
    <3> HIDE DEF a
    <3>4. a[1] = ns /\ a[2] = u[1] /\ a[3] = u[2]
      <4>1. a[1] = ns
        BY <3>1, <3>3
      <4>2. a[1 + 1] = u[1] /\ a[1 + 2] = u[2]
        BY <3>1, <3>2, <3>3
      <4> QED
        BY <4>1, <4>2
    <3>5. Len(a) = 3 /\ a \in Seq(Chars)
      BY <3>1, <3>2, <3>3
    <3> QED
      BY <3>4, <3>5
  <2> HIDE DEF a
  <2>2. /\ b \in Seq(Chars) /\ Len(b) = 4
        /\ b[1] = ns /\ b[2] = u[1] /\ b[3] = u[2] /\ b[4] = ew
    <3>1. <<ew>> \in Seq(Chars) /\ Len(<<ew>>) = 1 /\ <<ew>>[1] = ew
      BY <1>4
    <3>2. /\ b \in Seq(Chars) /\ Len(b) = Len(a) + Len(<<ew>>)
          /\ \A k \in 1 .. Len(a) : b[k] = a[k]
          /\ \A k \in 1 .. Len(<<ew>>) : b[Len(a) + k] = <<ew>>[k]
      <4> DEFINE l == <<ew>>
      <4>1. l \in Seq(Chars) /\ a \in Seq(Chars)
        BY <2>1, <3>1
      <4> HIDE DEF l
      <4>2. /\ a \o l \in Seq(Chars) /\ Len(a \o l) = Len(a) + Len(l)
            /\ \A k \in 1 .. Len(a) : (a \o l)[k] = a[k]
            /\ \A k \in 1 .. Len(l) : (a \o l)[Len(a) + k] = l[k]
        BY <4>1, Concat
      <4> QED
        BY <4>2 DEF l
    <3> HIDE DEF b
    <3>3. b[1] = a[1] /\ b[2] = a[2] /\ b[3] = a[3]
      BY <2>1, <3>2
    <3>4. b[3 + 1] = ew /\ Len(b) = 4
      BY <2>1, <3>1, <3>2
    <3> QED
      BY <2>1, <3>2, <3>3, <3>4
  <2>3. s = b \o w
    BY <1>3 DEF a
  <2> HIDE DEF b
  <2>4. w \in Seq(Chars) /\ Len(w) = 3 /\ b \in Seq(Chars) /\ Len(b) = 4
    BY <1>2, <1>4, <2>2
  <2>5. /\ s \in Seq(Chars) /\ Len(s) = Len(b) + Len(w)
        /\ \A k \in 1 .. Len(b) : s[k] = b[k]
        /\ \A k \in 1 .. Len(w) : s[Len(b) + k] = w[k]
    <3>1. /\ b \o w \in Seq(Chars) /\ Len(b \o w) = Len(b) + Len(w)
          /\ \A k \in 1 .. Len(b) : (b \o w)[k] = b[k]
          /\ \A k \in 1 .. Len(w) : (b \o w)[Len(b) + k] = w[k]
      <4>1. w \in Seq(Chars) /\ b \in Seq(Chars)
        BY <2>4
      <4> QED
        BY <4>1, Concat
    <3> QED
      BY <2>3, <3>1, Zenon
  <2>6. s[1] = b[1] /\ s[2] = b[2] /\ s[3] = b[3] /\ s[4] = b[4] /\ Len(s) = 7
    BY <2>4, <2>5
  <2>7. s[4 + 1] = w[1] /\ s[4 + 2] = w[2] /\ s[4 + 3] = w[3]
    BY <2>4, <2>5
  <2>8. s[5] = w[1] /\ s[6] = w[2] /\ s[7] = w[3]
    BY <2>7
  <2>9. s \in Seq(Chars)
    BY <2>5
  <2> QED
    BY <2>2, <2>6, <2>8, <2>9
<1>6. SubSeq(s, 2, 3) = u /\ SubSeq(s, 5, 7) = w
  BY <1>2, <1>4, <1>5
<1>7. /\ DOMAIN u = 1 .. 2 /\ \A k \in 1 .. 2 : u[k] \in Digits
      /\ DOMAIN w = 1 .. 3 /\ \A k \in 1 .. 3 : w[k] \in Digits
      /\ u # << >> /\ w # << >>
  <2>1. u # << >>
    BY <1>2
  <2>2. w # << >>
    <3>1. Len(w) = 3
      BY <1>2
    <3> QED
      BY <3>1
  <2> QED
    BY <1>2, <2>1, <2>2, Elements
<1>8. I = {4}
  <2>1. u[1] \in Digits /\ u[2] \in Digits /\ w[1] \in Digits /\ w[2] \in Digits /\ w[3] \in Digits
    BY <1>7
  <2>2. \A i \in 2 .. 7 : i # 4 => s[i] \in Digits
    BY <1>5, <2>1
  <2>3. s[4] \in {"E", "W"}
    BY <1>5
  <2> QED
    BY <1>5, <2>2, <2>3, LettersAreNot
<1>10. IsNumber(u) /\ IsNumber(w)
  BY <1>7 DEF IsNumber, Digits
<1>12. ParseHgtFilename(s) = <<Signed(s[1], u), Signed(s[4], w)>>
  <2>1. s[1] \in {"N", "S"}
    BY <1>5
  <2> QED
    BY <1>5, <1>6, <1>8, <1>10, <2>1, ReadingIs
<1>13. Signed(ns, u) = lat /\ Signed(ew, w) = lon
  BY <1>0, <1>2 DEF Signed, Abs
<1> QED
  BY <1>5, <1>12, <1>13 DEF s
----------------------------------------------------------------------------
(* Heights.                                                                 *)

\* Along one side of a tile of n samples, step units apart: x units from its
\* edge lie between the samples i and j (which are one on the far edge), in
\* the proportion of w to Deg.
Between(x, n, step, i, j, w) ==
  /\ i \in 0 .. n - 1 /\ j \in 0 .. n - 1 /\ w \in 0 .. Deg - 1
  /\ (Deg - w) * (i * step) + w * (j * step) = Deg * x
  /\ i * step <= x /\ x < i * step + step
  /\ x <= j * step /\ j * step <= x + step

LEMMA Neighbours ==
  ASSUME NEW n \in Nat, n > 1, NEW step \in Nat, Deg = step * (n - 1), NEW x \in 0 .. Deg
  PROVE  LET f == x * (n - 1)
             i == f \div Deg
         IN  Between(x, n, step, i, IF i + 1 < n - 1 THEN i + 1 ELSE n - 1, f % Deg)
<1> DEFINE m == n - 1
           f == x * m
           i == f \div Deg
           j == IF i + 1 < n - 1 THEN i + 1 ELSE n - 1
           w == f % Deg
<1>1. m \in Nat /\ m > 0 /\ n = m + 1 /\ Deg \in Nat /\ Deg > 0 /\ Deg = step * m /\ step > 0
  BY GridAssumption
<1> HIDE DEF m
<1>2. x \in Nat /\ x <= Deg /\ f \in Nat
  BY <1>1
<1>3. f <= Deg * m
  BY <1>1, <1>2
<1> HIDE DEF f
<1>4. i \in Int /\ w = f - Deg * i /\ Deg * i <= f /\ f < Deg * i + Deg
  <2>1. /\ f \div Deg \in Int /\ Deg * (f \div Deg) <= f /\ f < Deg * (f \div Deg) + Deg
        /\ f % Deg = f - Deg * (f \div Deg)
    BY <1>1, <1>2, Division
  <2> QED
    BY <2>1
<1> HIDE DEF i, w
<1>5. 0 <= i
  <2>1. Deg * 0 < Deg * i + Deg
    BY <1>1, <1>2, <1>4
  <2> QED
    BY <1>1, <1>4, <2>1, SameQuotient
<1>6. i <= m
  <2>1. Deg * i < Deg * m + Deg
    BY <1>1, <1>2, <1>3, <1>4
  <2> QED
    BY <1>1, <1>4, <2>1, SameQuotient
<1>7. w \in Int /\ 0 <= w /\ w < Deg
  BY <1>1, <1>2, <1>4
<1>8. m * (x - i * step) = w
  <2>1. m * (x - i * step) = m * x - m * (i * step)
    BY <1>1, <1>2, <1>4
  <2>2. m * (i * step) = Deg * i
    BY <1>1, <1>4
  <2>3. m * x = f
    BY <1>1, <1>2 DEF f
  <2> QED
    BY <1>1, <1>4, <2>1, <2>2, <2>3
<1>9. i * step <= x /\ x < i * step + step
  <2> DEFINE e == x - i * step
  <2>1. e \in Int /\ m * e = w /\ i * step \in Int /\ m * e < m * step /\ m * 0 <= m * e
    BY <1>1, <1>2, <1>4, <1>7, <1>8
  <2>2. x = i * step + e
    BY <1>1, <1>2, <1>4
  <2> HIDE DEF e
  <2>3. e < step
    BY <1>1, <2>1, LessQuotient
  <2>4. 0 <= e
    <3>1. m * 0 < m * e + m
      BY <1>1, <2>1
    <3> QED
      BY <1>1, <2>1, <3>1, SameQuotient
  <2> QED
    BY <1>1, <1>2, <2>1, <2>2, <2>3, <2>4
<1>10. CASE i < m
  <2>1. j = i + 1
    BY <1>1, <1>4, <1>5, <1>10
  <2>2. j * step = i * step + step /\ i * step \in Int
    BY <1>1, <1>4, <2>1
  <2>3. (Deg - w) * (i * step) + w * (j * step) = Deg * (i * step) + w * step
    <3> DEFINE k == i * step
    <3>1. k \in Int /\ j * step = k + step
      BY <2>2
    <3> HIDE DEF k
    <3>2. (Deg - w) * k + w * (k + step) = Deg * k + w * step
      BY <1>1, <1>7, <3>1
    <3> QED
      BY <3>1, <3>2 DEF k
  <2>4. Deg * (i * step) + w * step = f * step
    <3>1. Deg * (i * step) = (Deg * i) * step
      BY <1>1, <1>4
    <3>2. (Deg * i) * step + w * step = (Deg * i + w) * step
      BY <1>1, <1>4, <1>7
    <3>3. Deg * i + w = f
      BY <1>1, <1>2, <1>4
    <3> QED
      BY <3>1, <3>2, <3>3
  <2>5. f * step = Deg * x
    BY <1>1, <1>2 DEF f
  <2>6. j \in 0 .. n - 1 /\ i \in 0 .. n - 1
    BY <1>1, <1>4, <1>5, <1>10, <2>1
  <2>7. (Deg - w) * (i * step) + w * (j * step) = Deg * x
    BY <2>3, <2>4, <2>5
  <2>8. x <= j * step /\ j * step <= x + step
    BY <1>1, <1>2, <1>9, <2>2
  <2>9. Between(x, n, step, i, j, w)
    BY <1>1, <1>7, <1>9, <2>6, <2>7, <2>8 DEF Between
  <2> QED
    BY <2>9 DEF i, w, f, m
<1>11. CASE i = m
  <2>1. j = m
    BY <1>1, <1>11
  <2>2. w = 0 /\ f = Deg * m
    BY <1>1, <1>2, <1>3, <1>4, <1>7, <1>11
  <2>3. x = Deg
    BY <1>1, <1>2, <2>2 DEF f
  <2>4. m * step = Deg /\ Deg - w = Deg
    BY <1>1, <2>2
  <2>5. (Deg - w) * (i * step) + w * (j * step) = Deg * x
    BY <1>1, <1>11, <2>1, <2>2, <2>3, <2>4
  <2>6. j \in 0 .. n - 1 /\ i \in 0 .. n - 1
    BY <1>1, <1>11, <2>1
  <2>7. x <= j * step /\ j * step <= x + step
    BY <1>1, <1>2, <2>1, <2>3, <2>4
  <2>8. Between(x, n, step, i, j, w)
    BY <1>1, <1>7, <1>9, <2>5, <2>6, <2>7 DEF Between
  <2> QED
    BY <2>8 DEF i, w, f, m
<1> QED
  BY <1>1, <1>4, <1>6, <1>10, <1>11

\* A function that is a line, between two points.
LEMMA OnALine ==
  ASSUME NEW a \in Int, NEW b \in Int, NEW w \in Int, NEW d \in Int,
         NEW x0 \in Int, NEW x1 \in Int, NEW x \in Int, (d - w) * x0 + w * x1 = d * x
  PROVE  (d - w) * (a + b * x0) + w * (a + b * x1) = d * (a + b * x)
<1>1. (d - w) * (a + b * x0) + w * (a + b * x1) = d * a + b * ((d - w) * x0 + w * x1)
  OBVIOUS
<1> QED
  BY <1>1

\* The samples of one tile around a point of it: the height is the ground's
\* where none of them is void, and a void that takes it away is near.
Bilinear ==
  \E a, b, c, d \in Int : \A lat, lon \in Int : Ground(lat, lon) = a + b * lat + c * lon + d * lat * lon

Near(p, step) ==
  \E v \in Voids : v.lat - p.lat \in -step .. step - 1 /\ v.lon - p.lon \in 1 - step .. step

OfTile(t) ==
  [lat : t[1] * Deg .. (t[1] + 1) * Deg, lon : t[2] * Deg .. (t[2] + 1) * Deg]

LEMMA SampleIs ==
  ASSUME NEW t \in Int \X Int, NEW n \in Nat, n > 1,
         NEW r \in 0 .. n - 1, NEW c \in 0 .. n - 1
  PROVE  LET q == [lat |-> (t[1] + 1) * Deg - r * (Deg \div (n - 1)),
                   lon |-> t[2] * Deg + c * (Deg \div (n - 1))]
         IN  Served(t, n)[r * n + c] = IF q \in Voids THEN VOID ELSE Ground(q.lat, q.lon)
<1> DEFINE k == r * n + c
<1>1. k \div n = r /\ k % n = c
  BY RowAndColumn
<1>2. k \in 0 .. n * n - 1
  <2>1. r * n + n <= (n - 1) * n + n /\ (n - 1) * n + n = n * n
    OBVIOUS
  <2>2. r * n \in Nat /\ n * n \in Nat
    OBVIOUS
  <2> QED
    BY <2>1, <2>2
<1> HIDE DEF k
<1>3. Served(t, n)[k] =
        IF [lat |-> (t[1] + 1) * Deg - (k \div n) * (Deg \div (n - 1)),
            lon |-> t[2] * Deg + (k % n) * (Deg \div (n - 1))] \in Voids
          THEN VOID
          ELSE Ground((t[1] + 1) * Deg - (k \div n) * (Deg \div (n - 1)),
                      t[2] * Deg + (k % n) * (Deg \div (n - 1)))
  BY <1>2 DEF Served
<1> QED
  BY <1>1, <1>3 DEF k

LEMMA ExactStep ==
  ASSUME NEW n \in Nat, n > 1, Deg % (n - 1) = 0
  PROVE  Deg \div (n - 1) \in Nat /\ Deg = (Deg \div (n - 1)) * (n - 1)
<1> DEFINE m == n - 1
<1>1. m \in Nat /\ m > 0 /\ Deg \in Nat
  BY GridAssumption
<1> HIDE DEF m
<1>2. /\ Deg \div m \in Int /\ m * (Deg \div m) <= Deg /\ Deg < m * (Deg \div m) + m
      /\ Deg % m = Deg - m * (Deg \div m)
  BY <1>1, Division
<1>3. Deg % m = 0
  BY DEF m
<1>4. Deg = (Deg \div m) * m
  BY <1>1, <1>2, <1>3
<1>5. Deg \div m \in Nat
  BY <1>1
<1> QED
  BY <1>4, <1>5 DEF m

LEMMA TileHeight ==
  ASSUME Bilinear, NEW t \in Int \X Int, NEW n \in Sides, NEW p \in [lat : Int, lon : Int],
         OnTile(t, p), \A q \in OfTile(t) : Ground(q.lat, q.lon) # VOID
  PROVE  LET e == Interpolated(Served(t, n), t, n, p)
         IN  /\ e # << >> => e[1] = Deg * Deg * Ground(p.lat, p.lon)
             /\ e = << >> => Near(p, Deg \div (n - 1))
<1> DEFINE step == Deg \div (n - 1)
           north == (t[1] + 1) * Deg
           west == t[2] * Deg
           x == north - p.lat
           y == p.lon - west
           r0 == (x * (n - 1)) \div Deg
           r1 == IF r0 + 1 < n - 1 THEN r0 + 1 ELSE n - 1
           dr == (x * (n - 1)) % Deg
           c0 == (y * (n - 1)) \div Deg
           c1 == IF c0 + 1 < n - 1 THEN c0 + 1 ELSE n - 1
           dc == (y * (n - 1)) % Deg
           Lat(r) == north - r * step
           Lon(c) == west + c * step
           G(lat, lon) == Ground(lat, lon)
           h(r, c) == Served(t, n)[r * n + c]
           e == Interpolated(Served(t, n), t, n, p)
<1>1. /\ n \in Nat /\ n > 1 /\ step \in Nat /\ Deg = step * (n - 1) /\ Deg \in Nat /\ Deg > 0
  <2>1. n \in Nat /\ n > 1 /\ Deg % (n - 1) = 0
    BY SidesAssumption
  <2> QED
    BY <2>1, ExactStep, GridAssumption
<1>2. e = IF VOID \in {h(r0, c0), h(r0, c1), h(r1, c0), h(r1, c1)}
            THEN << >>
            ELSE <<(Deg - dr) * (Deg - dc) * h(r0, c0) + (Deg - dr) * dc * h(r0, c1)
                     + dr * (Deg - dc) * h(r1, c0) + dr * dc * h(r1, c1)>>
  BY DEF Interpolated, RowUnits, ColUnits, Sample
<1>3. north \in Int /\ west \in Int /\ p.lat \in Int /\ p.lon \in Int
  BY <1>1
<1>4. x \in 0 .. Deg /\ y \in 0 .. Deg
  <2>1. /\ t[1] * Deg <= p.lat /\ p.lat <= north /\ north = t[1] * Deg + Deg
        /\ west <= p.lon /\ p.lon <= west + Deg /\ t[1] * Deg \in Int
    BY <1>1 DEF OnTile
  <2> QED
    BY <1>1, <1>3, <2>1
<1>5. \A r \in 0 .. n - 1, c \in 0 .. n - 1 :
         h(r, c) = IF [lat |-> Lat(r), lon |-> Lon(c)] \in Voids THEN VOID ELSE G(Lat(r), Lon(c))
  BY <1>1, SampleIs
<1>6. Between(x, n, step, r0, r1, dr) /\ Between(y, n, step, c0, c1, dc)
  <2> HIDE DEF x, y, step
  <2> QED
    BY <1>1, <1>4, Neighbours
<1>7. \A r \in 0 .. n - 1 : /\ r * step \in Int /\ 0 <= r * step /\ r * step <= Deg
                            /\ Lat(r) \in t[1] * Deg .. (t[1] + 1) * Deg
                            /\ Lon(r) \in t[2] * Deg .. (t[2] + 1) * Deg
  <2> SUFFICES ASSUME NEW r \in 0 .. n - 1
               PROVE  /\ r * step \in Int /\ 0 <= r * step /\ r * step <= Deg
                      /\ Lat(r) \in t[1] * Deg .. (t[1] + 1) * Deg
                      /\ Lon(r) \in t[2] * Deg .. (t[2] + 1) * Deg
    OBVIOUS
  <2>1. r * step \in Int /\ 0 <= r * step /\ r * step <= (n - 1) * step
    <3> HIDE DEF step
    <3> QED
      BY <1>1
  <2>2. (n - 1) * step = Deg
    <3> HIDE DEF step
    <3> QED
      BY <1>1
  <2>3. /\ north = t[1] * Deg + Deg /\ t[1] * Deg \in Int
        /\ (t[2] + 1) * Deg = west + Deg
    BY <1>1
  <2> HIDE DEF step
  <2> QED
    BY <1>1, <1>3, <2>1, <2>2, <2>3
<1> DEFINE Open(r, c) == [lat |-> Lat(r), lon |-> Lon(c)] \notin Voids
<1>8. \A r \in 0 .. n - 1, c \in 0 .. n - 1 : h(r, c) = VOID <=> ~ Open(r, c)
  <2> SUFFICES ASSUME NEW r \in 0 .. n - 1, NEW c \in 0 .. n - 1
               PROVE  h(r, c) = VOID <=> ~ Open(r, c)
    OBVIOUS
  <2> DEFINE q == [lat |-> Lat(r), lon |-> Lon(c)]
  <2>1. q \in OfTile(t)
    BY <1>7 DEF OfTile
  <2>2. Ground(q.lat, q.lon) # VOID
    BY <2>1
  <2> QED
    BY <1>5, <2>2
<1>12. step > 0
  <2> HIDE DEF step
  <2> QED
    BY <1>1
<1> HIDE DEF h, e, r0, r1, c0, c1, dr, dc, Lat, Lon, step, Open
<1>9. /\ {r0, r1} \subseteq 0 .. n - 1 /\ {c0, c1} \subseteq 0 .. n - 1
      /\ dr \in Int /\ dc \in Int
      /\ Lat(r0) \in Int /\ Lat(r1) \in Int /\ Lon(c0) \in Int /\ Lon(c1) \in Int
  <2>1. {r0, r1} \subseteq 0 .. n - 1 /\ {c0, c1} \subseteq 0 .. n - 1 /\ dr \in Int /\ dc \in Int
    BY <1>1, <1>6 DEF Between
  <2> QED
    BY <1>1, <1>3, <1>7, <2>1 DEF Lat, Lon
<1>10. ASSUME e # << >>
       PROVE  e[1] = Deg * Deg * Ground(p.lat, p.lon)
  <2>1. VOID \notin {h(r0, c0), h(r0, c1), h(r1, c0), h(r1, c1)}
    BY <1>2, <1>10
  <2>2. /\ h(r0, c0) = G(Lat(r0), Lon(c0)) /\ h(r0, c1) = G(Lat(r0), Lon(c1))
        /\ h(r1, c0) = G(Lat(r1), Lon(c0)) /\ h(r1, c1) = G(Lat(r1), Lon(c1))
    BY <1>5, <1>9, <2>1
  <2>3. PICK a, b, c, d \in Int :
           \A lat, lon \in Int : G(lat, lon) = a + b * lat + c * lon + d * lat * lon
    BY DEF Bilinear
  <2>4. ASSUME NEW lat \in Int
        PROVE  (Deg - dc) * G(lat, Lon(c0)) + dc * G(lat, Lon(c1)) = Deg * G(lat, p.lon)
    <3> DEFINE i == a + b * lat
               j == c + d * lat
    <3>1. i \in Int /\ j \in Int
      OBVIOUS
    <3>2. \A lon \in Int : G(lat, lon) = i + j * lon
      BY <2>3
    <3>3. (Deg - dc) * Lon(c0) + dc * Lon(c1) = Deg * p.lon
      <4>1. (Deg - dc) * (c0 * step) + dc * (c1 * step) = Deg * y
        BY <1>6 DEF Between
      <4>2. c0 * step \in Int /\ c1 * step \in Int
        BY <1>7, <1>9
      <4>3. (Deg - dc) * (west + c0 * step) + dc * (west + c1 * step)
              = Deg * west + ((Deg - dc) * (c0 * step) + dc * (c1 * step))
        BY <1>1, <1>3, <1>9, <4>2
      <4>4. Deg * west + Deg * y = Deg * p.lon
        BY <1>1, <1>3
      <4> QED
        BY <4>1, <4>3, <4>4 DEF Lon
    <3> HIDE DEF i, j
    <3>4. (Deg - dc) * (i + j * Lon(c0)) + dc * (i + j * Lon(c1)) = Deg * (i + j * p.lon)
      <4> DEFINE x0 == Lon(c0)
                 x1 == Lon(c1)
                 z == p.lon
      <4>1. x0 \in Int /\ x1 \in Int /\ z \in Int /\ (Deg - dc) * x0 + dc * x1 = Deg * z
        BY <1>3, <1>9, <3>3
      <4> HIDE DEF x0, x1, z
      <4>2. (Deg - dc) * (i + j * x0) + dc * (i + j * x1) = Deg * (i + j * z)
        BY <1>1, <1>9, <3>1, <4>1, OnALine
      <4> QED
        BY <4>2 DEF x0, x1, z
    <3> QED
      BY <1>3, <1>9, <3>2, <3>4
  <2>5. (Deg - dr) * G(Lat(r0), p.lon) + dr * G(Lat(r1), p.lon) = Deg * G(p.lat, p.lon)
    <3> DEFINE i == a + c * p.lon
               j == b + d * p.lon
    <3>1. i \in Int /\ j \in Int
      BY <1>3
    <3>2. ASSUME NEW lat \in Int
          PROVE  G(lat, p.lon) = i + j * lat
      <4> DEFINE z == p.lon
      <4>1. z \in Int
        BY <1>3
      <4>2. G(lat, z) = a + b * lat + c * z + d * lat * z
        BY <2>3, <4>1
      <4> HIDE DEF z
      <4>3. a + b * lat + c * z + d * lat * z = (a + c * z) + (b + d * z) * lat
        BY <4>1
      <4> QED
        BY <4>2, <4>3 DEF z
    <3>3. (Deg - dr) * Lat(r0) + dr * Lat(r1) = Deg * p.lat
      <4>1. (Deg - dr) * (r0 * step) + dr * (r1 * step) = Deg * x
        BY <1>6 DEF Between
      <4>2. r0 * step \in Int /\ r1 * step \in Int
        BY <1>7, <1>9
      <4>3. (Deg - dr) * (north - r0 * step) + dr * (north - r1 * step)
              = Deg * north - ((Deg - dr) * (r0 * step) + dr * (r1 * step))
        BY <1>1, <1>3, <1>9, <4>2
      <4>4. Deg * north - Deg * x = Deg * p.lat
        BY <1>1, <1>3
      <4> QED
        BY <4>1, <4>3, <4>4 DEF Lat
    <3> HIDE DEF i, j
    <3>4. (Deg - dr) * (i + j * Lat(r0)) + dr * (i + j * Lat(r1)) = Deg * (i + j * p.lat)
      <4> DEFINE x0 == Lat(r0)
                 x1 == Lat(r1)
                 z == p.lat
      <4>1. x0 \in Int /\ x1 \in Int /\ z \in Int /\ (Deg - dr) * x0 + dr * x1 = Deg * z
        BY <1>3, <1>9, <3>3
      <4> HIDE DEF x0, x1, z
      <4>2. (Deg - dr) * (i + j * x0) + dr * (i + j * x1) = Deg * (i + j * z)
        BY <1>1, <1>9, <3>1, <4>1, OnALine
      <4> QED
        BY <4>2 DEF x0, x1, z
    <3> QED
      BY <1>3, <1>9, <3>2, <3>4
  <2>6. \A lat \in Int, lon \in Int : G(lat, lon) \in Int
    BY <2>3
  <2>7. e[1] = (Deg - dr) * ((Deg - dc) * G(Lat(r0), Lon(c0)) + dc * G(Lat(r0), Lon(c1)))
                 + dr * ((Deg - dc) * G(Lat(r1), Lon(c0)) + dc * G(Lat(r1), Lon(c1)))
    <3> DEFINE g00 == G(Lat(r0), Lon(c0))
               g01 == G(Lat(r0), Lon(c1))
               g10 == G(Lat(r1), Lon(c0))
               g11 == G(Lat(r1), Lon(c1))
    <3>1. g00 \in Int /\ g01 \in Int /\ g10 \in Int /\ g11 \in Int
      BY <1>9, <2>6
    <3>2. e[1] = (Deg - dr) * (Deg - dc) * g00 + (Deg - dr) * dc * g01
                   + dr * (Deg - dc) * g10 + dr * dc * g11
      BY <1>2, <2>1, <2>2
    <3> HIDE DEF g00, g01, g10, g11
    <3>3. e[1] = (Deg - dr) * ((Deg - dc) * g00 + dc * g01) + dr * ((Deg - dc) * g10 + dc * g11)
      BY <1>1, <1>9, <3>1, <3>2
    <3> QED
      BY <3>3 DEF g00, g01, g10, g11
  <2>8. e[1] = (Deg - dr) * (Deg * G(Lat(r0), p.lon)) + dr * (Deg * G(Lat(r1), p.lon))
    BY <1>9, <2>4, <2>7
  <2>9. e[1] = Deg * ((Deg - dr) * G(Lat(r0), p.lon) + dr * G(Lat(r1), p.lon))
    <3> DEFINE g0 == G(Lat(r0), p.lon)
               g1 == G(Lat(r1), p.lon)
    <3>1. g0 \in Int /\ g1 \in Int
      BY <1>3, <1>9, <2>6
    <3>2. e[1] = (Deg - dr) * (Deg * g0) + dr * (Deg * g1)
      BY <2>8
    <3> HIDE DEF g0, g1
    <3>3. e[1] = Deg * ((Deg - dr) * g0 + dr * g1)
      BY <1>1, <1>9, <3>1, <3>2
    <3> QED
      BY <3>3 DEF g0, g1
  <2>10. Ground(p.lat, p.lon) \in Int
    BY <1>3, <2>6
  <2> QED
    BY <1>1, <2>5, <2>9, <2>10
<1>11. ASSUME e = << >>
       PROVE  Near(p, step)
  <2>1. PICK r \in {r0, r1}, c \in {c0, c1} : h(r, c) = VOID
    <3>1. VOID \in {h(r0, c0), h(r0, c1), h(r1, c0), h(r1, c1)}
      BY <1>2, <1>11
    <3> QED
      BY <3>1
  <2>2. [lat |-> Lat(r), lon |-> Lon(c)] \in Voids
    BY <1>8, <1>9, <2>1 DEF Open
  <2>3. r * step \in Int /\ r * step <= x + step /\ x < r * step + step
    <3>1. /\ r0 * step <= x /\ x < r0 * step + step
          /\ x <= r1 * step /\ r1 * step <= x + step
      BY <1>6 DEF Between
    <3>2. r0 * step \in Int /\ r1 * step \in Int /\ r * step \in Int /\ x \in Int
      BY <1>4, <1>7, <1>9, <2>1
    <3>3. CASE r = r0
      <4>1. r0 * step <= x + step
        BY <1>1, <3>1, <3>2
      <4> QED
        BY <3>1, <3>2, <3>3, <4>1
    <3>4. CASE r = r1
      <4>1. x < r1 * step + step
        BY <1>1, <3>1, <3>2, <1>12
      <4> QED
        BY <3>1, <3>2, <3>4, <4>1
    <3> QED
      BY <2>1, <3>3, <3>4
  <2>4. c * step \in Int /\ c * step <= y + step /\ y < c * step + step
    <3>1. /\ c0 * step <= y /\ y < c0 * step + step
          /\ y <= c1 * step /\ c1 * step <= y + step
      BY <1>6 DEF Between
    <3>2. c0 * step \in Int /\ c1 * step \in Int /\ c * step \in Int /\ y \in Int
      BY <1>4, <1>7, <1>9, <2>1
    <3>3. CASE c = c0
      <4>1. c0 * step <= y + step
        BY <1>1, <3>1, <3>2
      <4> QED
        BY <3>1, <3>2, <3>3, <4>1
    <3>4. CASE c = c1
      <4>1. y < c1 * step + step
        BY <1>1, <3>1, <3>2, <1>12
      <4> QED
        BY <3>1, <3>2, <3>4, <4>1
    <3> QED
      BY <2>1, <3>3, <3>4
  <2>5. Lat(r) - p.lat \in -step .. step - 1
    <3>1. Lat(r) - p.lat = x - r * step
      BY <1>3, <2>3 DEF Lat
    <3> QED
      BY <1>1, <1>4, <2>3, <3>1
  <2>6. Lon(c) - p.lon \in 1 - step .. step
    <3>1. Lon(c) - p.lon = c * step - y
      BY <1>3, <2>4 DEF Lon
    <3> QED
      BY <1>1, <1>4, <2>4, <3>1
  <2> QED
    BY <2>2, <2>5, <2>6 DEF Near
<1> QED
  BY <1>10, <1>11 DEF e, step
----------------------------------------------------------------------------
(* The directory after a call.                                              *)

\* The ground has a height wherever a tile of the box has a sample.
GroundKnown ==
  \A q \in [lat : Floor(Box.south) * Deg .. Ceil(Box.north) * Deg,
            lon : Floor(Box.west) * Deg .. Ceil(Box.east) * Deg] : Ground(q.lat, q.lon) # VOID

Listed == {TilesForBBox(Box)[k] : k \in 1 .. Rows(Box) * Cols(Box)}

LoadedIs == DOMAIN Loaded = Listed /\ \A t \in Listed : Loaded[t] \in Sides

LEMMA BoxFacts ==
  /\ Box \in Boxes /\ Valid(Box) /\ Total = Rows(Box) * Cols(Box) /\ Total \in Nat
  /\ Box.south \in Int /\ Box.north \in Int /\ Box.west \in Int /\ Box.east \in Int
  /\ Box.south < Box.north /\ Box.west < Box.east
BY BoxAssumption, PoolAssumption DEF Boxes, Refused, Valid

LEMMA Scaled ==
  ASSUME NEW d \in Nat, NEW q \in Int, NEW r \in Int, q <= r
  PROVE  q * d <= r * d
OBVIOUS

\* A whole degree of an axis is that of some point, short of a whole hi.
LEMMA AxisWitness ==
  ASSUME NEW lo \in Int, NEW hi \in Int, lo < hi, NEW q \in Floor(lo) .. Ceil(hi) - 1
  PROVE  \E x \in lo .. hi : Floor(x) = q /\ ~ (x = hi /\ hi % Deg = 0)
<1>1. q \in Int /\ Floor(lo) \in Int /\ Ceil(hi) \in Int /\ Deg \in Nat /\ Deg > 0
  BY FloorBounds, CeilBounds, GridAssumption
<1>2. CASE q = Floor(lo)
  BY <1>2
<1>3. CASE q > Floor(lo)
  <2> DEFINE x == Deg * q
  <2>1. Floor(x) = q
    BY <1>1 DEF Floor
  <2>2. lo <= x
    <3>1. (Floor(lo) + 1) * Deg <= q * Deg
      BY <1>1, <1>3, Scaled
    <3> QED
      BY <1>1, <3>1, FloorBounds
  <2>3. x < hi
    <3>1. (q + 1) * Deg <= Ceil(hi) * Deg
      BY <1>1, Scaled
    <3> QED
      BY <1>1, <3>1, CeilBounds
  <2> HIDE DEF x
  <2>4. x \in lo .. hi
    BY <1>1, <2>2, <2>3 DEF x
  <2> QED
    BY <2>1, <2>3, <2>4
<1> QED
  BY <1>1, <1>2, <1>3

\* The corners of the listed tiles.
LEMMA Corners ==
  ASSUME NEW t \in Listed
  PROVE  \E lat \in Floor(Box.south) .. Ceil(Box.north) - 1,
            lon \in Floor(Box.west) .. Ceil(Box.east) - 1 :
           /\ t = <<lat, lon>> /\ lat \in -99 .. 99 /\ lon \in -999 .. 999
<1>1. PICK k \in 1 .. Rows(Box) * Cols(Box) : t = TilesForBBox(Box)[k]
  BY DEF Listed
<1>2. PICK r \in 0 .. Rows(Box) - 1, c \in 0 .. Cols(Box) - 1 :
         t = <<Floor(Box.south) + r, Floor(Box.west) + c>>
  BY <1>1, BoxFacts, EveryListedInRange
<1> DEFINE lat == Floor(Box.south) + r
           lon == Floor(Box.west) + c
<1>3. /\ Floor(Box.south) \in Int /\ Ceil(Box.north) \in Int
      /\ Floor(Box.west) \in Int /\ Ceil(Box.east) \in Int
  BY BoxFacts, FloorBounds, CeilBounds
<1>4. lat \in Floor(Box.south) .. Ceil(Box.north) - 1 /\ lon \in Floor(Box.west) .. Ceil(Box.east) - 1
  BY <1>3 DEF Rows, Cols
<1> HIDE DEF lat, lon
<1>5. /\ -90 * Deg <= Box.south /\ Box.north <= 90 * Deg
      /\ -180 * Deg <= Box.west /\ Box.east <= 180 * Deg /\ Deg \in Nat /\ Deg > 0
  BY BoxFacts, GridAssumption DEF Valid
<1>6. -90 <= Floor(Box.south) /\ -180 <= Floor(Box.west)
  <2>1. Deg * (-90) < Deg * Floor(Box.south) + Deg
    <3>1. Box.south < Deg * Floor(Box.south) + Deg
      BY BoxFacts, FloorBounds
    <3> QED
      BY <1>3, <1>5, <3>1, BoxFacts
  <2>2. Deg * (-180) < Deg * Floor(Box.west) + Deg
    <3>1. Box.west < Deg * Floor(Box.west) + Deg
      BY BoxFacts, FloorBounds
    <3> QED
      BY <1>3, <1>5, <3>1, BoxFacts
  <2> QED
    BY <1>3, <1>5, <2>1, <2>2, SameQuotient
<1>7. Ceil(Box.north) <= 90 /\ Ceil(Box.east) <= 180
  <2>1. Deg * Ceil(Box.north) < Deg * 90 + Deg
    <3>1. Deg * Ceil(Box.north) < Box.north + Deg
      BY BoxFacts, CeilBounds
    <3> QED
      BY <1>3, <1>5, <3>1, BoxFacts
  <2>2. Deg * Ceil(Box.east) < Deg * 180 + Deg
    <3>1. Deg * Ceil(Box.east) < Box.east + Deg
      BY BoxFacts, CeilBounds
    <3> QED
      BY <1>3, <1>5, <3>1, BoxFacts
  <2> QED
    BY <1>3, <1>5, <2>1, <2>2, SameQuotient
<1>8. lat \in -99 .. 99 /\ lon \in -999 .. 999
  BY <1>3, <1>4, <1>6, <1>7
<1>9. t = <<lat, lon>>
  BY <1>2 DEF lat, lon
<1> QED
  BY <1>4, <1>8, <1>9

\* A tile of the box keeps its name, so from_path finds it under its corner.
LEMMA TilesKeepTheirNames ==
  ASSUME NEW i \in Idx
  PROVE  /\ ParseHgtFilename(NameOf(i)) = TilesForBBox(Box)[i + 1]
         /\ ParseHgtFilename(NameOf(i)) # << >>
         /\ TilesForBBox(Box)[i + 1] \in Listed
<1> DEFINE t == TilesForBBox(Box)[i + 1]
<1>1. i + 1 \in 1 .. Rows(Box) * Cols(Box)
  BY BoxFacts DEF Idx
<1>2. t \in Listed
  BY <1>1 DEF Listed
<1> HIDE DEF t
<1>3. PICK lat \in Floor(Box.south) .. Ceil(Box.north) - 1,
           lon \in Floor(Box.west) .. Ceil(Box.east) - 1 :
         t = <<lat, lon>> /\ lat \in -99 .. 99 /\ lon \in -999 .. 999
  BY <1>2, Corners
<1>4. ParseHgtFilename(TileName(t)) = <<lat, lon>>
  <2>1. ParseHgtFilename(TileName(<<lat, lon>>)) = <<lat, lon>>
    <3>1. lat \in -99 .. 99 /\ lon \in -999 .. 999
      BY <1>3
    <3>2. lat \in Lats /\ lon \in Lons
      BY <3>1 DEF Lats, Lons
    <3> QED
      BY <3>2, NamesAreRead
  <2> QED
    BY <1>3, <2>1
<1>5. <<lat, lon>> # << >>
  OBVIOUS
<1>6. ParseHgtFilename(NameOf(i)) = t
  BY <1>3, <1>4 DEF NameOf, t
<1> QED
  BY <1>2, <1>3, <1>5, <1>6 DEF t

\* HgtTile::load knows both lengths.
LEMMA SideIsKnown ==
  ASSUME NEW bytes \in {Srtm1, Srtm3}
  PROVE  Side(bytes) \in Sides /\ Side(bytes) # 0
<1>1. PICK n \in Sides : bytes = 2 * n * n
  <2>1. bytes \in {2 * n * n : n \in Sides}
    BY SidesAssumption
  <2> QED
    BY <2>1
<1>2. n \in Nat /\ n > 1
  BY SidesAssumption
<1>3. bytes \div 2 = n * n
  <2> DEFINE m == n * n
  <2>1. m \in Nat /\ 2 * n * n = 2 * m
    BY <1>2
  <2> HIDE DEF m
  <2>2. (2 * m) \div 2 = m
    BY <2>1
  <2> QED
    BY <1>1, <2>1, <2>2 DEF m
<1>4. Side(bytes) \in Sides
  BY <1>3 DEF Side
<1> QED
  BY <1>4, SidesAssumption

\* After Ok the loader finds the tiles of the box, no others, each whole.
LEMMA LoadsTheBox ==
  ASSUME call.pc = "ok", AnswerIsExact, FilesAreWhole
  PROVE  LoadedIs
<1>1. \A i \in Idx : files[i] \in {Srtm1, Srtm3}
  <2>1. call.failed = {} /\ \A i \in Idx : i \in call.failed \/ files[i] # Absent
    BY DEF AnswerIsExact, Returned
  <2> QED
    BY <2>1 DEF FilesAreWhole
<1> DEFINE found == {i \in Idx : /\ files[i] # Absent /\ Side(files[i]) # 0
                                 /\ ParseHgtFilename(NameOf(i)) # << >>}
           Named(t) == CHOOSE i \in found : ParseHgtFilename(NameOf(i)) = t
           D == {ParseHgtFilename(NameOf(i)) : i \in found}
<1>2. found = Idx
  <2>1. \A i \in Idx : files[i] # Absent /\ Side(files[i]) # 0
    BY <1>1, SideIsKnown, PoolAssumption
  <2> QED
    BY <2>1, TilesKeepTheirNames
<1>3. Loaded = [t \in D |-> Side(files[Named(t)])]
  BY Zenon DEF Loaded
<1> HIDE DEF found
<1>4. \A t \in D : Named(t) \in found
  BY Zenon
<1> HIDE DEF Named
<1>5. D = Listed
  <2>1. D \subseteq Listed
    BY <1>2, TilesKeepTheirNames
  <2>2. ASSUME NEW t \in Listed
        PROVE  t \in D
    <3>1. PICK k \in 1 .. Rows(Box) * Cols(Box) : t = TilesForBBox(Box)[k]
      BY DEF Listed
    <3> DEFINE i == k - 1
    <3>2. i \in Idx /\ i + 1 = k
      BY BoxFacts DEF Idx
    <3> HIDE DEF i
    <3>3. ParseHgtFilename(NameOf(i)) = t
      BY <3>1, <3>2, TilesKeepTheirNames
    <3> QED
      BY <1>2, <3>2, <3>3
  <2> QED
    BY <2>1, <2>2
<1> HIDE DEF D
<1>6. \A t \in Listed : Loaded[t] \in Sides
  <2> SUFFICES ASSUME NEW t \in Listed
               PROVE  Loaded[t] \in Sides
    OBVIOUS
  <2>1. Named(t) \in Idx
    BY <1>2, <1>4, <1>5
  <2>2. files[Named(t)] \in {Srtm1, Srtm3}
    BY <1>1, <2>1
  <2>3. Loaded[t] = Side(files[Named(t)])
    BY <1>3, <1>5
  <2> QED
    BY <2>2, <2>3, SideIsKnown
<1> QED
  BY <1>3, <1>5, <1>6 DEF LoadedIs

\* A tile of the box lies on ground whose height is known.
LEMMA TilesOnKnownGround ==
  ASSUME GroundKnown, NEW t \in Listed
  PROVE  t \in Int \X Int /\ \A q \in OfTile(t) : Ground(q.lat, q.lon) # VOID
<1>1. PICK lat \in Floor(Box.south) .. Ceil(Box.north) - 1,
           lon \in Floor(Box.west) .. Ceil(Box.east) - 1 : t = <<lat, lon>>
  BY Corners
<1> DEFINE S == Floor(Box.south)
           N == Ceil(Box.north)
           W == Floor(Box.west)
           E == Ceil(Box.east)
<1>2. S \in Int /\ N \in Int /\ W \in Int /\ E \in Int /\ Deg \in Nat
  BY BoxFacts, FloorBounds, CeilBounds, GridAssumption
<1>3. lat \in Int /\ lon \in Int /\ S <= lat /\ lat + 1 <= N /\ W <= lon /\ lon + 1 <= E
  BY <1>1, <1>2
<1>4. GroundKnown <=> \A q \in [lat : S * Deg .. N * Deg, lon : W * Deg .. E * Deg] :
                         Ground(q.lat, q.lon) # VOID
  BY DEF GroundKnown
<1> HIDE DEF S, N, W, E
<1>5. S * Deg <= lat * Deg /\ (lat + 1) * Deg <= N * Deg
  BY <1>2, <1>3, Scaled
<1>6. W * Deg <= lon * Deg /\ (lon + 1) * Deg <= E * Deg
  BY <1>2, <1>3, Scaled
<1>7. /\ S * Deg \in Int /\ N * Deg \in Int /\ W * Deg \in Int /\ E * Deg \in Int
      /\ lat * Deg \in Int /\ (lat + 1) * Deg \in Int /\ lon * Deg \in Int /\ (lon + 1) * Deg \in Int
  BY <1>2, <1>3
<1>8. /\ lat * Deg .. (lat + 1) * Deg \subseteq S * Deg .. N * Deg
      /\ lon * Deg .. (lon + 1) * Deg \subseteq W * Deg .. E * Deg
  BY <1>5, <1>6, <1>7
<1>9. OfTile(t) \subseteq [lat : S * Deg .. N * Deg, lon : W * Deg .. E * Deg]
  BY <1>1, <1>8 DEF OfTile
<1> QED
  BY <1>1, <1>3, <1>4, <1>9

\* Every point of the box, once its tiles are loaded.
LEMMA PointsAreServed ==
  ASSUME Bilinear, GroundKnown, LoadedIs, NEW p \in Points
  PROVE  LET e == ElevationAt(p)
         IN  /\ BeyondEdge(p) => e = << >>
             /\ e # << >> => e[1] = Deg * Deg * Ground(p.lat, p.lon)
             /\ e = << >> => BeyondEdge(p) \/ (LookupKey(p) \in DOMAIN Loaded /\ NearVoid(p))
<1> DEFINE t == LookupKey(p)
           e == ElevationAt(p)
<1>1. p \in [lat : Box.south .. Box.north, lon : Box.west .. Box.east]
  BY DEF Points
<1>2. p \in [lat : Int, lon : Int]
  BY <1>1, BoxFacts
<1>3. CASE BeyondEdge(p)
  <2>1. \A k \in 1 .. Rows(Box) * Cols(Box) : TilesForBBox(Box)[k] # LookupKey(p)
    BY <1>1, <1>3, BoxFacts, EdgesAreNotListed DEF BeyondEdge
  <2>2. t \notin DOMAIN Loaded
    BY <2>1 DEF LoadedIs, Listed
  <2>3. e = << >>
    BY <2>2 DEF ElevationAt
  <2> QED
    BY <1>3, <2>3
<1>4. CASE ~ BeyondEdge(p)
  <2>1. t \in Listed /\ OnTile(t, p)
    BY <1>1, <1>4, BoxFacts, LookupsAreListed DEF BeyondEdge, Listed
  <2> DEFINE n == Loaded[t]
  <2>2. t \in DOMAIN Loaded /\ n \in Sides
    BY <2>1 DEF LoadedIs
  <2>3. e = Interpolated(Served(t, n), t, n, p)
    BY <2>1, <2>2 DEF ElevationAt
  <2>4. NearVoid(p) <=> Near(p, Deg \div (n - 1))
    BY DEF NearVoid, Near
  <2>5. t \in Int \X Int /\ \A q \in OfTile(t) : Ground(q.lat, q.lon) # VOID
    BY <2>1, TilesOnKnownGround
  <2> HIDE DEF t, n, e
  <2>6. /\ e # << >> => e[1] = Deg * Deg * Ground(p.lat, p.lon)
        /\ e = << >> => Near(p, Deg \div (n - 1))
    BY <1>2, <2>1, <2>2, <2>3, <2>5, TileHeight
  <2>7. /\ e # << >> => e[1] = Deg * Deg * Ground(p.lat, p.lon)
        /\ e = << >> => NearVoid(p) /\ t \in DOMAIN Loaded
    BY <2>2, <2>4, <2>6
  <2> QED
    BY <1>4, <2>7 DEF t, e
<1> QED
  BY <1>3, <1>4

\* No tile of the list is one that no point of the box is looked up in.
LEMMA TilesAreNeeded ==
  ASSUME NEW t \in Listed
  PROVE  \E p \in Points : LookupKey(p) = t /\ ~ BeyondEdge(p)
<1>1. PICK lat \in Floor(Box.south) .. Ceil(Box.north) - 1,
           lon \in Floor(Box.west) .. Ceil(Box.east) - 1 : t = <<lat, lon>>
  BY Corners
<1>2. PICK x \in Box.south .. Box.north : Floor(x) = lat /\ ~ (x = Box.north /\ Box.north % Deg = 0)
  <2> DEFINE lo == Box.south
             hi == Box.north
  <2>1. lo \in Int /\ hi \in Int /\ lo < hi /\ lat \in Floor(lo) .. Ceil(hi) - 1
    BY BoxFacts
  <2> HIDE DEF lo, hi
  <2>2. \E x \in lo .. hi : Floor(x) = lat /\ ~ (x = hi /\ hi % Deg = 0)
    BY <2>1, AxisWitness
  <2> QED
    BY <2>2 DEF lo, hi
<1>3. PICK y \in Box.west .. Box.east : Floor(y) = lon /\ ~ (y = Box.east /\ Box.east % Deg = 0)
  <2> DEFINE lo == Box.west
             hi == Box.east
  <2>1. lo \in Int /\ hi \in Int /\ lo < hi /\ lon \in Floor(lo) .. Ceil(hi) - 1
    BY BoxFacts
  <2> HIDE DEF lo, hi
  <2>2. \E y \in lo .. hi : Floor(y) = lon /\ ~ (y = hi /\ hi % Deg = 0)
    BY <2>1, AxisWitness
  <2> QED
    BY <2>2 DEF lo, hi
<1> DEFINE p == [lat |-> x, lon |-> y]
<1>4. p \in Points /\ p.lat = x /\ p.lon = y
  BY DEF Points
<1> HIDE DEF p
<1> QED
  BY <1>1, <1>2, <1>3, <1>4 DEF LookupKey, BeyondEdge

\* After a call of download_tiles_for_bbox that returned Ok, elevation_at has
\* the height of every point of the box, whatever the box, the scale, the
\* number of workers and the faults on the way: the ground's own, where the
\* ground is bilinear and its height never the value that stands for a void;
\* and every tile that was asked for is the one of some point.
THEOREM BoxIsServedAlways ==
  ASSUME Bilinear, GroundKnown
  PROVE  Spec => []BoxIsServed
<1>1. AnswerIsExact /\ FilesAreWhole => BoxIsServed
  <2> SUFFICES ASSUME AnswerIsExact, FilesAreWhole, call.pc = "ok"
               PROVE  /\ \A p \in Points :
                            LET e == ElevationAt(p)
                            IN  /\ BeyondEdge(p) => e = << >>
                                /\ e # << >> => e[1] = Deg * Deg * Ground(p.lat, p.lon)
                                /\ e = << >> => BeyondEdge(p) \/ (LookupKey(p) \in DOMAIN Loaded /\ NearVoid(p))
                      /\ \A t \in DOMAIN Loaded : \E p \in Points : LookupKey(p) = t /\ ~ BeyondEdge(p)
    BY DEF BoxIsServed
  <2>1. LoadedIs
    BY LoadsTheBox
  <2>2. \A t \in DOMAIN Loaded : \E p \in Points : LookupKey(p) = t /\ ~ BeyondEdge(p)
    BY <2>1, TilesAreNeeded DEF LoadedIs
  <2> QED
    BY <2>1, <2>2, PointsAreServed
<1> QED
  BY <1>1, AnswersAreExact, FilesAlwaysWhole, PTL
============================================================================
