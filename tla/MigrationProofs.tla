--------------------------- MODULE MigrationProofs ---------------------------
(***************************************************************************)
(* For any number of processes, directories, names and contents, wherever  *)
(* the processes are interrupted: the shared cache keeps what it had, no   *)
(* file of the legacy cache is lost, and the reports count what has gone.  *)
(* In every environment, the directories it works between are apart.       *)
(***************************************************************************)
EXTENDS MigrationProps, CachePaths, FoldTheorems

(***************************************************************************)
(* The inductive invariant.  What a process has found out by its calls     *)
(* must still be true when it acts upon it: Kept is what makes it safe to  *)
(* remove a source, and a lone copier still has its source.                *)
(***************************************************************************)
OnFile == {"exists", "compare", "dropDuplicate", "rename", "openCopy", "copying",
           "removeSource"}

Kept(i) == Replaces(i) \/ InHand(i) \/ (overlapped /\ i \in torn)

PlaceInv(p) ==
  /\ Running(p) => sub[p] \in DOMAIN Subdirs
  /\ pc[p] \in OnFile => legacy0[Item(p)].kind = "file"
  /\ pc[p] \in {"rename", "openCopy", "copying"} => shared0[Item(p)] = Absent
  /\ pc[p] = "copying" => held[p] = legacy0[Item(p)].data
  /\ pc[p] = "copying" /\ ~ overlapped => legacy[Item(p)] = legacy0[Item(p)]
  /\ pc[p] \in {"dropDuplicate", "removeSource"} => Kept(Item(p))

FileType ==
  /\ legacy \in [Items -> Entry] /\ shared \in [Items -> Entry]
  /\ legacy0 \in [Items -> Entry] /\ shared0 \in [Items -> Entry]
  /\ pc \in [Processes -> Working \cup {Idle, Done, Stopped}]
  /\ sub \in [Processes -> 0 .. Len(Subdirs) + 1]
  /\ todo \in [Processes -> SUBSET Names]
  /\ name \in [Processes -> Names]
  /\ held \in [Processes -> Prefixes \cup {<< >>}]
  /\ torn \subseteq Items
  /\ overlapped \in BOOLEAN

MigrationInv ==
  /\ FileType
  /\ \A p \in Processes : PlaceInv(p)
  /\ \A p, q \in Processes : Running(p) /\ Running(q) /\ p # q => overlapped
  /\ \A i \in Items : legacy[i] \in {legacy0[i], Absent}
  /\ NothingLost
  /\ SharedKept

----------------------------------------------------------------------------
(* Facts about entries.                                                     *)

LEMMA Kinds ==
  /\ Absent.kind # "file" /\ Other.kind # "file"
  /\ Absent \in Entry
  /\ \A c : File(c).kind = "file" /\ File(c).data = c /\ File(c) # Absent
BY DEF Absent, Other, File, Entry

LEMMA FileForm ==
  ASSUME NEW e \in Entry, e.kind = "file"
  PROVE  /\ e = File(e.data) /\ e.data \in Prefixes
BY DEF Entry, Absent, Other, File

LEMMA PrefixOfPrefix ==
  ASSUME NEW b \in Prefixes, NEW k \in 0 .. Len(b)
  PROVE  SubSeq(b, 1, k) \in Prefixes
<1>0. PICK c \in Contents : \E m \in 0 .. Len(c) : b = SubSeq(c, 1, m)
  BY DEF Prefixes
<1>1. PICK m \in 0 .. Len(c) : b = SubSeq(c, 1, m)
  BY <1>0
<1>2. c \in Seq(Nat)
  BY MigrationAssumption
<1>3. Len(b) = m /\ k \in 0 .. Len(c) /\ k <= m
  BY <1>1, <1>2
<1>4. SubSeq(SubSeq(c, 1, m), 1, k) = SubSeq(c, 1, k)
  BY <1>2, <1>3
<1> QED
  BY <1>1, <1>3, <1>4 DEF Prefixes

LEMMA EmptyPrefix ==
  ASSUME NEW b \in Prefixes
  PROVE  << >> \in Prefixes
<1>1. PICK c \in Contents : TRUE
  BY DEF Prefixes
<1>2. SubSeq(c, 1, 0) = << >> /\ 0 \in 0 .. Len(c)
  BY <1>1, MigrationAssumption
<1> QED
  BY <1>1, <1>2 DEF Prefixes

LEMMA SameAsItself ==
  ASSUME NEW e, e.kind = "file"
  PROVE  FilesEqual(e, e) /\ FilesEqual(e, File(e.data)) /\ SameData(e.data, e.data)
BY Kinds DEF FilesEqual, SameData

LEMMA ItemOf ==
  ASSUME NEW p \in Processes, sub[p] \in DOMAIN Subdirs, name[p] \in Names
  PROVE  Item(p) \in Items /\ Dir(p) \in Dirs
BY DEF Item, Items, Dirs, Dir

----------------------------------------------------------------------------
(* What a step of p must respect for the invariant to survive it.           *)

Others(p) ==
  \A q \in Processes : q # p => /\ pc'[q] = pc[q] /\ sub'[q] = sub[q]
                                /\ name'[q] = name[q] /\ held'[q] = held[q]

Respects(p) ==
  /\ Others(p)
  /\ FileType'
  /\ legacy0' = legacy0 /\ shared0' = shared0
  /\ overlapped => overlapped'
  /\ \A q \in Processes : q # p /\ Running(q) /\ Running(p)' => overlapped'
  /\ \A i \in Items : shared'[i] # shared[i] => shared0[i] = Absent
  /\ \A i \in Items : legacy'[i] # legacy[i] =>
        i = Item(p) /\ legacy'[i] = Absent /\ Running(p) /\ Kept(i)'
  /\ \A i \in Items : Kept(i) =>
        \/ Kept(i)'
        \/ ~ overlapped /\ pc[p] = "copying" /\ i = Item(p) /\ legacy' = legacy
  /\ PlaceInv(p)'

LEMMA KeptStays ==
  ASSUME NEW p \in Processes, Others(p), NEW i \in Items, Kept(i),
         legacy0' = legacy0, shared'[i] = shared[i], torn \subseteq torn',
         overlapped => overlapped', pc[p] # "copying" \/ Item(p) # i
  PROVE  Kept(i)'
<1>1. CASE Replaces(i)
  BY <1>1 DEF Kept, Replaces
<1>2. CASE overlapped /\ i \in torn
  BY <1>2 DEF Kept
<1>3. CASE InHand(i)
  <2>1. PICK q \in Processes : /\ pc[q] = "copying" /\ Item(q) = i
                               /\ SameData(held[q], legacy0[i].data)
    BY <1>3 DEF InHand
  <2>2. q # p
    BY <2>1
  <2>3. Item(q)' = Item(q)
    BY <2>2 DEF Others, Item, Dir
  <2>4. SameData(held[q], legacy0[i].data)'
    BY <2>1, <2>2 DEF Others, SameData, FirstBlocks
  <2> QED
    BY <2>1, <2>2, <2>3, <2>4 DEF Kept, InHand, Others
<1> QED
  BY <1>1, <1>2, <1>3 DEF Kept

LEMMA StepKeeps ==
  ASSUME MigrationInv, NEW p \in Processes, Respects(p)
  PROVE  MigrationInv'
<1> USE DEF Respects
<1>0. FileType /\ FileType' /\ NothingLost /\ SharedKept
  BY DEF MigrationInv
<1>1. \A q \in Processes \ {p} : Running(q)' <=> Running(q)
  BY DEF Others, Running
<1>2. \A q, r \in Processes : Running(q)' /\ Running(r)' /\ q # r => overlapped'
  BY <1>1 DEF MigrationInv
<1>3. \A i \in Items : legacy'[i] \in {legacy0'[i], Absent}
  BY DEF MigrationInv
<1>4. SharedKept'
  BY <1>0 DEF SharedKept
<1>5. NothingLost'
  <2> SUFFICES ASSUME NEW i \in Items, legacy0[i].kind = "file"
               PROVE  legacy'[i] = legacy0[i] \/ Kept(i)'
    BY DEF NothingLost, Kept
  <2>1. CASE legacy'[i] # legacy[i]
    BY <2>1
  <2>2. CASE legacy'[i] = legacy[i] /\ Kept(i)
    <3>1. CASE ~ overlapped /\ pc[p] = "copying" /\ i = Item(p)
      BY <3>1, <2>2 DEF MigrationInv, PlaceInv
    <3> QED
      BY <3>1, <2>2
  <2> QED
    BY <2>1, <2>2, <1>0 DEF NothingLost, Kept
<1>6. ASSUME NEW q \in Processes, q # p
      PROVE  PlaceInv(q)'
  <2>1. PlaceInv(q) /\ (Running(q) => sub[q] \in DOMAIN Subdirs)
    BY DEF MigrationInv, PlaceInv
  <2>2. /\ Item(q)' = Item(q) /\ pc'[q] = pc[q] /\ held'[q] = held[q]
        /\ sub'[q] = sub[q]
    BY <1>6 DEF Others, Item, Dir
  <2>3. ASSUME pc[q] = "copying", ~ overlapped'
        PROVE  legacy'[Item(q)] = legacy0[Item(q)]
    <3>1. Running(q) /\ Item(q) \in Items
      BY <2>3, <2>1, <1>0, ItemOf DEF Running, Working, FileType
    <3>2. ~ Running(p)
      BY <3>1, <2>3, <1>6 DEF MigrationInv
    <3> QED
      BY <3>1, <3>2, <2>1, <2>3 DEF PlaceInv
  <2>4. ASSUME pc[q] \in {"dropDuplicate", "removeSource"}
        PROVE  Kept(Item(q))'
    <3>1. Running(q) /\ Item(q) \in Items /\ Kept(Item(q))
      BY <2>4, <2>1, <1>0, ItemOf DEF Running, Working, FileType, PlaceInv
    <3>2. ~ (~ overlapped /\ pc[p] = "copying")
      BY <3>1, <1>6 DEF MigrationInv, Running, Working
    <3>3. \A i \in Items : Kept(i) => Kept(i)'
      BY <3>2
    <3>4. (Kept(Item(q)) => Kept(Item(q))')
      <4> DEFINE j == Item(q)
      <4>1. j' = j
        BY <2>2
      <4>2. Kept(j)' <=> Kept(Item(q))'
        OBVIOUS
      <4>3. \A i \in Items : i = j => (Kept(i)' => Kept(Item(q))')
        BY <2>2 DEF Kept, Replaces, InHand
      <4> QED
        BY <3>1, <3>3, <4>3
    <3> QED
      BY <3>1, <3>4
  <2>5. Running(q)' => sub'[q] \in DOMAIN Subdirs
    BY <2>1, <2>2 DEF Running
  <2> QED
    BY <2>1, <2>2, <2>3, <2>4, <2>5 DEF PlaceInv
<1> QED
  BY <1>0, <1>2, <1>3, <1>4, <1>5, <1>6 DEF MigrationInv
----------------------------------------------------------------------------
(* The steps of one process.                                                *)

LEMMA Goes ==
  ASSUME FileType, NEW p \in Processes, NEW w \in Working \cup {Done, Stopped}, Goto(p, w)
  PROVE  /\ pc' \in [Processes -> Working \cup {Idle, Done, Stopped}]
         /\ pc'[p] = w
         /\ \A q \in Processes : q # p => pc'[q] = pc[q]
BY DEF FileType, Goto

LEMMA Nexts ==
  ASSUME FileType, NEW p \in Processes, sub[p] \in DOMAIN Subdirs, NextDir(p)
  PROVE  /\ pc' \in [Processes -> Working \cup {Idle, Done, Stopped}]
         /\ sub' \in [Processes -> 0 .. Len(Subdirs) + 1]
         /\ pc'[p] \in {"openDir", Done}
         /\ Running(p)' => sub'[p] \in DOMAIN Subdirs
         /\ \A q \in Processes : q # p => pc'[q] = pc[q] /\ sub'[q] = sub[q]
<1>1. sub[p] \in 1 .. Len(Subdirs) /\ Len(Subdirs) \in Nat
  BY MigrationAssumption
<1>2. CASE sub[p] < Len(Subdirs)
  BY <1>1, <1>2, MigrationAssumption DEF FileType, NextDir, Goto, Working
<1>3. CASE ~ (sub[p] < Len(Subdirs))
  BY <1>1, <1>3 DEF FileType, NextDir, Goto, Working, Running, Done
<1> QED
  BY <1>2, <1>3

(* A step that only looks: no file changes.                                 *)
LEMMA Looks ==
  ASSUME MigrationInv, NEW p \in Processes, Running(p), pc[p] # "copying",
         UNCHANGED <<files, legacy, shared, history>>, UNCHANGED held,
         FileType', Others(p), PlaceInv(p)'
  PROVE  Respects(p)
<1>1. \A i \in Items : Kept(i) => Kept(i)'
  BY KeptStays DEF history, files
<1>2. \A q \in Processes : q # p /\ Running(q) => overlapped
  BY DEF MigrationInv
<1> QED
  BY <1>1, <1>2 DEF Respects, files, history

(* A look that leaves the process in its directory, at the step w.          *)
LEMMA Turns ==
  ASSUME MigrationInv, NEW p \in Processes, Running(p), pc[p] # "copying",
         NEW w \in Working \ OnFile, Goto(p, w),
         UNCHANGED <<files, legacy, shared, sub, name, held, history>>,
         todo' \in [Processes -> SUBSET Names]
  PROVE  Respects(p)
<1>0. FileType /\ PlaceInv(p)
  BY DEF MigrationInv
<1>1. /\ pc' \in [Processes -> Working \cup {Idle, Done, Stopped}]
      /\ pc'[p] = w
      /\ \A q \in Processes : q # p => pc'[q] = pc[q]
  BY <1>0, Goes
<1>2. FileType'
  BY <1>0, <1>1 DEF FileType, files, history
<1>3. Others(p)
  BY <1>1 DEF Others
<1>4. PlaceInv(p)'
  BY <1>0, <1>1 DEF PlaceInv, OnFile
<1> QED
  BY <1>2, <1>3, <1>4, Looks

LEMMA DirSteps ==
  ASSUME MigrationInv, NEW p \in Processes, DirStep(p)
  PROVE  Respects(p)
<1>0. FileType /\ PlaceInv(p)
  BY DEF MigrationInv
<1>1. Running(p) /\ pc[p] # "copying" /\ sub[p] \in DOMAIN Subdirs
  BY <1>0 DEF DirStep, OpenDir, CheckShared, CountLegacy, List, TakeEntry,
              FinishDir, Running, Working, PlaceInv
<1>2. CASE OpenDir(p)
  <2>1. CASE NextDir(p)
    BY <1>0, <1>1, <1>2, <2>1, Nexts, Looks
       DEF OpenDir, FileType, Others, PlaceInv, OnFile, Done, files, history
  <2>2. CASE Goto(p, "checkShared") /\ UNCHANGED sub
    <3>1. "checkShared" \in Working \ OnFile
      BY DEF Working, OnFile
    <3> QED
      BY <1>0, <1>1, <1>2, <2>2, <3>1, Turns DEF OpenDir, FileType
  <2> QED
    BY <1>2, <2>1, <2>2 DEF OpenDir
<1>3. CASE CheckShared(p)
  <2>1. PICK w \in {"countLegacy", "list"} : Goto(p, w)
    BY <1>3 DEF CheckShared
  <2>2. w \in Working \ OnFile
    BY DEF Working, OnFile
  <2> QED
    BY <1>0, <1>1, <1>3, <2>1, <2>2, Turns DEF CheckShared, FileType
<1>4. CASE CountLegacy(p)
  BY <1>0, <1>1, <1>4, Nexts, Looks
     DEF CountLegacy, FileType, Others, PlaceInv, OnFile, Done, files, history
<1>5. CASE List(p)
  <2>1. "entry" \in Working \ OnFile /\ Goto(p, "entry")
    BY <1>5 DEF Working, OnFile, List
  <2>2. todo' \in [Processes -> SUBSET Names]
    BY <1>0, <1>5 DEF List, FileType
  <2> QED
    BY <1>0, <1>1, <1>5, <2>1, <2>2, Turns DEF List
<1>6. CASE TakeEntry(p)
  <2>1. PICK n \in todo[p] :
          /\ todo' = [todo EXCEPT ![p] = @ \ {n}]
          /\ \/ /\ legacy[<<Dir(p), n>>].kind = "file"
                /\ name' = [name EXCEPT ![p] = n]
                /\ Goto(p, "exists")
             \/ UNCHANGED <<name, pc>>
    BY <1>6 DEF TakeEntry
  <2>2. n \in Names /\ todo' \in [Processes -> SUBSET Names] /\ <<Dir(p), n>> \in Items
    BY <1>0, <1>1, <2>1, ItemOf DEF FileType, Items, Dirs, Dir
  <2>3. UNCHANGED <<files, legacy, shared, sub, held, history>>
    BY <1>6 DEF TakeEntry
  <2>4. CASE /\ legacy[<<Dir(p), n>>].kind = "file"
             /\ name' = [name EXCEPT ![p] = n]
             /\ Goto(p, "exists")
    <3>1. "exists" \in Working
      BY DEF Working
    <3>2. name'[p] = n /\ name' \in [Processes -> Names]
          /\ \A q \in Processes : q # p => name'[q] = name[q]
      BY <1>0, <2>2, <2>4 DEF FileType
    <3>3. Item(p)' = <<Dir(p), n>>
      BY <2>3, <3>2 DEF Item, Dir
    <3>4. legacy0[Item(p)'].kind = "file"
      BY <2>2, <2>4, <3>3, Kinds DEF MigrationInv
    <3>5. /\ pc' \in [Processes -> Working \cup {Idle, Done, Stopped}]
          /\ pc'[p] = "exists"
          /\ \A q \in Processes : q # p => pc'[q] = pc[q]
      BY <1>0, <2>4, <3>1, Goes
    <3>6. FileType'
      BY <1>0, <2>2, <2>3, <3>2, <3>5 DEF FileType, files, history
    <3>7. Others(p)
      BY <2>3, <3>2, <3>5 DEF Others
    <3>8. PlaceInv(p)'
      BY <1>1, <2>3, <3>4, <3>5 DEF PlaceInv, files
    <3> QED
      BY <1>1, <2>3, <3>6, <3>7, <3>8, Looks
  <2>5. CASE UNCHANGED <<name, pc>>
    <3>1. pc[p] = "entry"
      BY <1>6 DEF TakeEntry
    <3> QED
      BY <1>0, <1>1, <2>1, <2>2, <2>3, <2>5, <3>1, Looks
         DEF FileType, Others, PlaceInv, OnFile, files, history
  <2> QED
    BY <2>1, <2>4, <2>5
<1>7. CASE FinishDir(p)
  BY <1>0, <1>1, <1>7, Nexts, Looks
     DEF FinishDir, FileType, Others, PlaceInv, OnFile, Done, files, history
<1> QED
  BY <1>2, <1>3, <1>4, <1>5, <1>6, <1>7 DEF DirStep

(* A look at the item in hand that leads to the step w.                     *)
LEMMA Judges ==
  ASSUME MigrationInv, NEW p \in Processes, pc[p] \in OnFile, pc[p] # "copying",
         NEW w \in {"entry", "compare", "rename", "dropDuplicate", Stopped}, Goto(p, w),
         w = "rename" => shared0[Item(p)] = Absent,
         w = "dropDuplicate" => Kept(Item(p)),
         UNCHANGED <<files, legacy, shared, sub, todo, name, held, history>>
  PROVE  Respects(p)
<1>0. FileType /\ PlaceInv(p) /\ Running(p)
  BY DEF MigrationInv, OnFile, Running, Working
<1>1. w \in Working \cup {Done, Stopped}
  BY DEF Working
<1>2. /\ pc' \in [Processes -> Working \cup {Idle, Done, Stopped}]
      /\ pc'[p] = w
      /\ \A q \in Processes : q # p => pc'[q] = pc[q]
  BY <1>0, <1>1, Goes
<1>3. FileType'
  BY <1>0, <1>2 DEF FileType, files, history
<1>4. Others(p)
  BY <1>2 DEF Others
<1>5. Item(p)' = Item(p) /\ Item(p) \in Items
  BY <1>0, ItemOf DEF Item, Dir, FileType, PlaceInv
<1>6. Kept(Item(p)) => Kept(Item(p))'
  <2>1. \A i \in Items : i = Item(p) /\ Kept(i) => Kept(i)'
    BY <1>4, KeptStays DEF files, history
  <2>2. \A i \in Items : i = Item(p) => (Kept(i)' => Kept(Item(p))')
    BY <1>5 DEF Kept, Replaces, InHand
  <2> QED
    BY <1>5, <2>1, <2>2
<1>7. PlaceInv(p)'
  BY <1>0, <1>2, <1>5, <1>6 DEF PlaceInv, OnFile, Stopped, Running, files
<1> QED
  BY <1>0, <1>3, <1>4, <1>7, Looks

(* A source that is still there is as the first process found it.           *)
LEMMA Present ==
  ASSUME MigrationInv, NEW p \in Processes, pc[p] \in OnFile
  PROVE  /\ Running(p) /\ sub[p] \in DOMAIN Subdirs /\ Item(p) \in Items
         /\ legacy0[Item(p)].kind = "file"
         /\ legacy[Item(p)] # Absent => legacy[Item(p)] = legacy0[Item(p)]
         /\ SharedKept
<1>1. FileType /\ PlaceInv(p) /\ Running(p)
  BY DEF MigrationInv, OnFile, Running, Working
<1>2. Item(p) \in Items
  BY <1>1, ItemOf DEF FileType, PlaceInv
<1> QED
  BY <1>1, <1>2 DEF MigrationInv, PlaceInv

LEMMA GoneStops ==
  ASSUME MigrationInv, NEW p \in Processes, pc[p] \in OnFile, pc[p] # "copying",
         GoneIsError(p), UNCHANGED <<files, sub, todo, name, held, history>>
  PROVE  Respects(p)
BY Judges DEF GoneIsError, Stopped

LEMMA JudgeSteps ==
  ASSUME MigrationInv, NEW p \in Processes, CheckExists(p) \/ Compare(p)
  PROVE  Respects(p)
<1>1. CASE CheckExists(p)
  <2>1. pc[p] \in OnFile /\ pc[p] # "copying"
    BY <1>1 DEF CheckExists, OnFile
  <2>2. shared[Item(p)] = Absent => shared0[Item(p)] = Absent
    BY <2>1, Present DEF SharedKept
  <2> QED
    BY <1>1, <2>1, <2>2, Judges DEF CheckExists
<1>2. CASE Compare(p)
  <2>1. pc[p] \in OnFile /\ pc[p] # "copying"
        /\ UNCHANGED <<files, sub, todo, name, held, history>>
    BY <1>2 DEF Compare, OnFile
  <2>2. CASE GoneIsError(p)
    BY <2>1, <2>2, GoneStops
  <2>3. CASE /\ legacy[Item(p)] # Absent
             /\ FilesEqual(legacy[Item(p)], shared[Item(p)])
             /\ Goto(p, "dropDuplicate")
             /\ UNCHANGED <<legacy, shared>>
    <3>1. Kept(Item(p))
      BY <2>1, <2>3, Present DEF Kept, Replaces
    <3> QED
      BY <2>1, <2>3, <3>1, Judges
  <2>4. CASE Goto(p, "entry") /\ UNCHANGED <<legacy, shared>>
    BY <2>1, <2>4, Judges
  <2> QED
    BY <1>2, <2>2, <2>3, <2>4 DEF Compare
<1> QED
  BY <1>1, <1>2

(* The source is removed once its like is in the shared directory.          *)
LEMMA RemoveSteps ==
  ASSUME MigrationInv, NEW p \in Processes, DropDuplicate(p) \/ RemoveSource(p)
  PROVE  Respects(p)
<1>1. /\ pc[p] \in {"dropDuplicate", "removeSource"}
      /\ UNCHANGED <<files, sub, todo, name, held, history>>
      /\ \/ GoneIsError(p)
         \/ /\ legacy[Item(p)] # Absent
            /\ legacy' = [legacy EXCEPT ![Item(p)] = Absent]
            /\ Goto(p, "entry")
            /\ UNCHANGED shared
  BY DEF DropDuplicate, RemoveSource
<1>2. CASE GoneIsError(p)
  BY <1>1, <1>2, GoneStops DEF OnFile
<1>3. CASE /\ legacy[Item(p)] # Absent
           /\ legacy' = [legacy EXCEPT ![Item(p)] = Absent]
           /\ Goto(p, "entry")
           /\ UNCHANGED shared
  <2>1. FileType /\ PlaceInv(p) /\ Running(p) /\ Item(p) \in Items /\ Kept(Item(p))
    BY <1>1, Present DEF MigrationInv, OnFile, PlaceInv
  <2>2. "entry" \in Working
    BY DEF Working
  <2>3. /\ pc' \in [Processes -> Working \cup {Idle, Done, Stopped}]
        /\ pc'[p] = "entry"
        /\ \A q \in Processes : q # p => pc'[q] = pc[q]
    BY <1>3, <2>1, <2>2, Goes
  <2>4. /\ legacy' \in [Items -> Entry]
        /\ \A i \in Items : legacy'[i] = IF i = Item(p) THEN Absent ELSE legacy[i]
    BY <1>3, <2>1, Kinds DEF FileType
  <2>5. FileType' /\ Others(p)
    BY <1>1, <1>3, <2>1, <2>3, <2>4 DEF FileType, Others, files, history
  <2>6. \A i \in Items : Kept(i) => Kept(i)'
    BY <1>1, <1>3, <2>5, KeptStays DEF files, history
  <2>7. PlaceInv(p)'
    BY <1>1, <2>1, <2>3 DEF PlaceInv, OnFile
  <2>8. \A q \in Processes : q # p /\ Running(q) => overlapped
    BY <2>1 DEF MigrationInv
  <2> QED
    BY <1>1, <1>3, <2>1, <2>4, <2>5, <2>6, <2>7, <2>8 DEF Respects, files, history
<1> QED
  BY <1>1, <1>2, <1>3

(* The destination changes: only where the shared cache had nothing.        *)
LEMMA Writes ==
  ASSUME FileType, NEW i \in Items, NEW e \in Entry,
         shared' = [shared EXCEPT ![i] = e]
  PROVE  /\ shared' \in [Items -> Entry]
         /\ shared'[i] = e
         /\ \A j \in Items : j # i => shared'[j] = shared[j]
BY DEF FileType

LEMMA RenameStep ==
  ASSUME MigrationInv, NEW p \in Processes, Rename(p)
  PROVE  Respects(p)
<1>1. /\ pc[p] = "rename" /\ pc[p] \in OnFile /\ pc[p] # "copying"
      /\ UNCHANGED <<files, sub, todo, name, held, history>>
  BY DEF Rename, OnFile
<1>2. FileType /\ PlaceInv(p) /\ Running(p) /\ Item(p) \in Items
      /\ legacy0[Item(p)].kind = "file" /\ shared0[Item(p)] = Absent
  BY <1>1, Present DEF MigrationInv, PlaceInv
<1>3. CASE Goto(p, "openCopy") /\ UNCHANGED <<legacy, shared>>
  <2>1. "openCopy" \in Working
    BY DEF Working
  <2>2. /\ pc' \in [Processes -> Working \cup {Idle, Done, Stopped}]
        /\ pc'[p] = "openCopy"
        /\ \A q \in Processes : q # p => pc'[q] = pc[q]
    BY <1>2, <1>3, <2>1, Goes
  <2>3. FileType' /\ Others(p)
    BY <1>1, <1>2, <1>3, <2>2 DEF FileType, Others, files, history
  <2>4. Item(p)' = Item(p)
    BY <1>1 DEF Item, Dir
  <2>5. PlaceInv(p)'
    BY <1>1, <1>2, <2>2, <2>4 DEF PlaceInv, OnFile, files
  <2> QED
    BY <1>1, <1>2, <1>3, <2>3, <2>5, Looks
<1>4. CASE /\ legacy[Item(p)] # Absent
           /\ shared' = [shared EXCEPT ![Item(p)] = legacy[Item(p)]]
           /\ legacy' = [legacy EXCEPT ![Item(p)] = Absent]
           /\ Goto(p, "entry")
  <2>1. "entry" \in Working /\ legacy[Item(p)] \in Entry
    BY <1>2 DEF Working, FileType
  <2>2. /\ pc' \in [Processes -> Working \cup {Idle, Done, Stopped}]
        /\ pc'[p] = "entry"
        /\ \A q \in Processes : q # p => pc'[q] = pc[q]
    BY <1>2, <1>4, <2>1, Goes
  <2>3. /\ shared' \in [Items -> Entry]
        /\ shared'[Item(p)] = legacy[Item(p)]
        /\ \A i \in Items : i # Item(p) => shared'[i] = shared[i]
    BY <1>2, <1>4, <2>1, Writes
  <2>4. /\ legacy' \in [Items -> Entry]
        /\ \A i \in Items : legacy'[i] = IF i = Item(p) THEN Absent ELSE legacy[i]
    BY <1>2, <1>4, Kinds DEF FileType
  <2>5. FileType' /\ Others(p)
    BY <1>1, <1>2, <2>2, <2>3, <2>4 DEF FileType, Others, files, history
  <2>6. \A i \in Items : i = Item(p) => Kept(i)'
    BY <1>1, <1>2, <1>4, <2>3, Present, SameAsItself DEF Kept, Replaces, files
  <2>7. \A i \in Items : Kept(i) => Kept(i)'
    BY <1>1, <2>3, <2>5, <2>6, KeptStays DEF files, history
  <2>8. PlaceInv(p)'
    BY <1>1, <1>2, <2>2 DEF PlaceInv, OnFile
  <2>9. \A q \in Processes : q # p /\ Running(q) => overlapped
    BY <1>2 DEF MigrationInv
  <2> QED
    BY <1>1, <1>2, <2>3, <2>4, <2>5, <2>6, <2>7, <2>8, <2>9
       DEF Respects, files, history
<1> QED
  BY <1>3, <1>4 DEF Rename

LEMMA OpenCopyStep ==
  ASSUME MigrationInv, NEW p \in Processes, OpenCopy(p)
  PROVE  Respects(p)
<1>1. /\ pc[p] = "openCopy" /\ pc[p] \in OnFile /\ pc[p] # "copying"
      /\ UNCHANGED <<files, sub, todo, name, history>>
  BY DEF OpenCopy, OnFile
<1>2. FileType /\ PlaceInv(p) /\ Running(p) /\ Item(p) \in Items
      /\ legacy0[Item(p)].kind = "file" /\ shared0[Item(p)] = Absent
  BY <1>1, Present DEF MigrationInv, PlaceInv
<1>3. CASE GoneIsError(p) /\ UNCHANGED held
  BY <1>1, <1>3, GoneStops
<1>4. CASE /\ legacy[Item(p)] # Absent
           /\ held' = [held EXCEPT ![p] = legacy[Item(p)].data]
           /\ shared' = [shared EXCEPT ![Item(p)] = File(<< >>)]
           /\ Goto(p, "copying")
           /\ UNCHANGED legacy
  <2>1. "copying" \in Working
    BY DEF Working
  <2>2. /\ pc' \in [Processes -> Working \cup {Idle, Done, Stopped}]
        /\ pc'[p] = "copying"
        /\ \A q \in Processes : q # p => pc'[q] = pc[q]
    BY <1>2, <1>4, <2>1, Goes
  <2>3. legacy[Item(p)] = legacy0[Item(p)] /\ legacy0[Item(p)].data \in Prefixes
    BY <1>1, <1>2, <1>4, Present, FileForm DEF FileType
  <2>4. File(<< >>) \in Entry
    BY <2>3, EmptyPrefix DEF Entry
  <2>5. /\ shared' \in [Items -> Entry]
        /\ shared'[Item(p)] = File(<< >>)
        /\ \A i \in Items : i # Item(p) => shared'[i] = shared[i]
    BY <1>2, <1>4, <2>4, Writes
  <2>6. /\ held' \in [Processes -> Prefixes \cup {<< >>}]
        /\ held'[p] = legacy0[Item(p)].data
        /\ \A q \in Processes : q # p => held'[q] = held[q]
    BY <1>2, <1>4, <2>3 DEF FileType
  <2>7. FileType' /\ Others(p)
    BY <1>1, <1>2, <1>4, <2>2, <2>5, <2>6 DEF FileType, Others, files, history
  <2>8. Item(p)' = Item(p)
    BY <1>1 DEF Item, Dir
  <2>9. SameData(legacy0[Item(p)].data, legacy0[Item(p)].data)
    BY DEF SameData
  <2>10. \A i \in Items : i = Item(p) => Kept(i)'
    <3> SUFFICES ASSUME NEW i \in Items, i = Item(p)
                 PROVE  InHand(i)'
      BY DEF Kept
    <3>1. SameData(held[p], legacy0[i].data)'
      BY <1>1, <2>6, <2>9 DEF files, SameData, FirstBlocks
    <3> QED
      BY <2>2, <2>8, <3>1 DEF InHand
  <2>11. \A i \in Items : Kept(i) => Kept(i)'
    BY <1>1, <2>5, <2>7, <2>10, KeptStays DEF files, history
  <2>12. PlaceInv(p)'
    BY <1>1, <1>2, <1>4, <2>2, <2>3, <2>6, <2>8 DEF PlaceInv, OnFile, files
  <2>13. \A q \in Processes : q # p /\ Running(q) => overlapped
    BY <1>2 DEF MigrationInv
  <2> QED
    BY <1>1, <1>2, <1>4, <2>5, <2>7, <2>11, <2>12, <2>13 DEF Respects, files, history
<1> QED
  BY <1>3, <1>4 DEF OpenCopy

LEMMA FinishCopyStep ==
  ASSUME MigrationInv, NEW p \in Processes, FinishCopy(p)
  PROVE  Respects(p)
<1>1. /\ pc[p] = "copying" /\ pc[p] \in OnFile
      /\ UNCHANGED <<files, legacy, sub, todo, name, held, history>>
      /\ shared' = [shared EXCEPT ![Item(p)] = File(held[p])]
      /\ Goto(p, "removeSource")
  BY DEF FinishCopy, OnFile
<1>2. FileType /\ PlaceInv(p) /\ Running(p) /\ Item(p) \in Items
      /\ legacy0[Item(p)].kind = "file" /\ shared0[Item(p)] = Absent
      /\ held[p] = legacy0[Item(p)].data
  BY <1>1, Present DEF MigrationInv, PlaceInv
<1>3. "removeSource" \in Working /\ File(held[p]) \in Entry
  BY <1>2, FileForm DEF Working, FileType
<1>4. /\ pc' \in [Processes -> Working \cup {Idle, Done, Stopped}]
      /\ pc'[p] = "removeSource"
      /\ \A q \in Processes : q # p => pc'[q] = pc[q]
  BY <1>1, <1>2, <1>3, Goes
<1>5. /\ shared' \in [Items -> Entry]
      /\ shared'[Item(p)] = File(held[p])
      /\ \A i \in Items : i # Item(p) => shared'[i] = shared[i]
  BY <1>1, <1>2, <1>3, Writes
<1>6. FileType' /\ Others(p)
  BY <1>1, <1>2, <1>4, <1>5 DEF FileType, Others, files, history
<1>7. Item(p)' = Item(p)
  BY <1>1 DEF Item, Dir
<1>8. \A i \in Items : i = Item(p) => Kept(i)'
  BY <1>1, <1>2, <1>5, SameAsItself DEF Kept, Replaces, files
<1>9. \A i \in Items : Kept(i) => Kept(i)'
  BY <1>1, <1>5, <1>6, <1>8, KeptStays DEF files, history
<1>10. Kept(Item(p))'
  <2>1. \A i \in Items : i = Item(p) => (Kept(i)' => Kept(Item(p))')
    BY <1>7 DEF Kept, Replaces, InHand
  <2> QED
    BY <1>2, <1>8, <2>1
<1>11. PlaceInv(p)'
  BY <1>1, <1>2, <1>4, <1>7, <1>10 DEF PlaceInv, OnFile, files
<1>12. \A q \in Processes : q # p /\ Running(q) => overlapped
  BY <1>2 DEF MigrationInv
<1> QED
  BY <1>1, <1>2, <1>5, <1>6, <1>9, <1>11, <1>12 DEF Respects, files, history

LEMMA InterruptStep ==
  ASSUME MigrationInv, NEW p \in Processes, Interrupt(p)
  PROVE  Respects(p)
<1>1. /\ Running(p) /\ Goto(p, Stopped)
      /\ UNCHANGED <<files, legacy, sub, todo, name, held, overlapped>>
  BY DEF Interrupt
<1>2. FileType /\ PlaceInv(p)
  BY DEF MigrationInv
<1>3. /\ pc' \in [Processes -> Working \cup {Idle, Done, Stopped}]
      /\ pc'[p] = Stopped
      /\ \A q \in Processes : q # p => pc'[q] = pc[q]
  BY <1>1, <1>2, Goes
<1>4. PlaceInv(p)' /\ Others(p)
  BY <1>1, <1>2, <1>3 DEF PlaceInv, OnFile, Stopped, Running, Working, Others
<1>5. CASE pc[p] # "copying"
  <2>1. UNCHANGED <<shared, torn>>
    BY <1>5 DEF Interrupt
  <2>2. FileType'
    BY <1>1, <1>2, <1>3, <2>1 DEF FileType, files
  <2> QED
    BY <1>1, <1>4, <1>5, <2>1, <2>2, Looks DEF history, files
<1>6. CASE pc[p] = "copying"
  <2>1. /\ Item(p) \in Items /\ legacy0[Item(p)].kind = "file"
        /\ shared0[Item(p)] = Absent /\ held[p] \in Prefixes
    BY <1>2, <1>6, Present, FileForm DEF PlaceInv, FileType, OnFile
  <2>2. PICK k \in 0 .. Len(held[p]) :
               shared' = [shared EXCEPT ![Item(p)] = File(SubSeq(held[p], 1, k))]
    BY <1>6 DEF Interrupt
  <2>3. File(SubSeq(held[p], 1, k)) \in Entry /\ torn' = torn \cup {Item(p)}
    BY <1>6, <2>1, <2>2, PrefixOfPrefix DEF Entry, Interrupt
  <2>4. /\ shared' \in [Items -> Entry]
        /\ \A i \in Items : i # Item(p) => shared'[i] = shared[i]
    BY <1>2, <2>1, <2>2, <2>3, Writes
  <2>5. FileType'
    BY <1>1, <1>2, <1>3, <2>1, <2>3, <2>4 DEF FileType, files
  <2>6. ASSUME NEW i \in Items, Kept(i)
        PROVE  Kept(i)' \/ (~ overlapped /\ i = Item(p))
    <3>1. CASE i = Item(p)
      BY <1>1, <2>3, <3>1 DEF Kept
    <3>2. CASE i # Item(p)
      BY <1>1, <1>4, <2>3, <2>4, <2>6, <3>2, KeptStays DEF files
    <3> QED
      BY <3>1, <3>2
  <2>7. \A q \in Processes : q # p /\ Running(q) => overlapped
    BY <1>1 DEF MigrationInv
  <2> QED
    BY <1>1, <1>4, <1>6, <2>1, <2>4, <2>5, <2>6, <2>7 DEF Respects, files
<1> QED
  BY <1>5, <1>6

LEMMA StartStep ==
  ASSUME MigrationInv, NEW p \in Processes, Start(p)
  PROVE  Respects(p)
<1>1. /\ pc[p] = Idle /\ Goto(p, "openDir")
      /\ overlapped' = (overlapped \/ \E q \in Processes : Running(q))
      /\ UNCHANGED <<files, legacy, shared, todo, name, held, torn>>
      /\ sub' = [sub EXCEPT ![p] = 1]
  BY DEF Start
<1>2. FileType
  BY DEF MigrationInv
<1>9. /\ sub'[p] \in DOMAIN Subdirs
      /\ sub' \in [Processes -> 0 .. Len(Subdirs) + 1]
      /\ \A q \in Processes : q # p => sub'[q] = sub[q]
  BY <1>1, <1>2, MigrationAssumption DEF FileType
<1>3. "openDir" \in Working
  BY DEF Working
<1>4. /\ pc' \in [Processes -> Working \cup {Idle, Done, Stopped}]
      /\ pc'[p] = "openDir"
      /\ \A q \in Processes : q # p => pc'[q] = pc[q]
  BY <1>1, <1>2, <1>3, Goes
<1>5. overlapped' \in BOOLEAN /\ (overlapped => overlapped')
  BY <1>1, <1>2 DEF FileType
<1>6. FileType' /\ Others(p)
  BY <1>1, <1>2, <1>4, <1>5, <1>9 DEF FileType, Others, files
<1>7. PlaceInv(p)'
  BY <1>1, <1>2, <1>4, <1>9 DEF PlaceInv, OnFile
<1>8. \A i \in Items : Kept(i) => Kept(i)'
  BY <1>1, <1>5, <1>6, KeptStays DEF files, Idle
<1> QED
  BY <1>1, <1>5, <1>6, <1>7, <1>8 DEF Respects, files

----------------------------------------------------------------------------
(* The reports.                                                             *)

Report == [moved: Nat, copied: Nat, skipped: Nat, removed: Nat]
ReportType == report \in [Processes -> [Dirs -> Report]]

LEMMA Counts ==
  ASSUME NEW r \in Report, NEW field \in {"moved", "copied", "skipped", "removed"},
         NEW k \in Nat
  PROVE  [r EXCEPT ![field] = @ + k] \in Report
<1>1. CASE field = "moved"
  BY <1>1 DEF Report
<1>2. CASE field = "copied"
  BY <1>2 DEF Report
<1>3. CASE field = "skipped"
  BY <1>3 DEF Report
<1>4. CASE field = "removed"
  BY <1>4 DEF Report
<1> QED
  BY <1>1, <1>2, <1>3, <1>4

LEMMA CountTyped ==
  ASSUME ReportType, NEW p \in Processes, sub[p] \in DOMAIN Subdirs,
         NEW field \in {"moved", "copied", "skipped", "removed"}, NEW k \in Nat,
         Count(p, field, k)
  PROVE  ReportType'
<1> DEFINE r == report[p]
           c == [r[Dir(p)] EXCEPT ![field] = @ + k]
<1>1. Dir(p) \in Dirs /\ r \in [Dirs -> Report] /\ r[Dir(p)] \in Report
  BY DEF ReportType, Dirs, Dir
<1>2. c \in Report
  BY <1>1, Counts
<1>3. [r EXCEPT ![Dir(p)] = c] \in [Dirs -> Report]
  BY <1>1, <1>2
<1>4. report' = [report EXCEPT ![p] = [r EXCEPT ![Dir(p)] = c]]
  BY DEF Count
<1> QED
  BY <1>3, <1>4 DEF ReportType

LEMMA ReportSteps ==
  ASSUME MigrationInv, ReportType, NEW p \in Processes,
         Start(p) \/ Step(p) \/ Interrupt(p)
  PROVE  ReportType'
<1>1. Running(p) => sub[p] \in DOMAIN Subdirs
  BY DEF MigrationInv, PlaceInv
<1>2. ASSUME CountLegacy(p) \/ TakeEntry(p) \/ Compare(p) \/ DropDuplicate(p)
             \/ Rename(p) \/ RemoveSource(p)
      PROVE  \/ report' = report
             \/ \E field \in {"moved", "copied", "skipped", "removed"}, k \in Nat :
                    Count(p, field, k)
  <2>1. Cardinality(LegacyFiles(Dir(p))) \in Nat
    BY MigrationAssumption, FS_Subset, FS_CardinalityType DEF LegacyFiles
  <2>2. CASE CountLegacy(p)
    BY <2>1, <2>2 DEF CountLegacy
  <2>3. CASE TakeEntry(p)
    BY <2>3 DEF TakeEntry
  <2>4. CASE Compare(p)
    BY <2>4 DEF Compare, GoneIsError
  <2>5. CASE DropDuplicate(p)
    BY <2>5 DEF DropDuplicate, GoneIsError
  <2>6. CASE Rename(p)
    BY <2>6 DEF Rename
  <2>7. CASE RemoveSource(p)
    BY <2>7 DEF RemoveSource, GoneIsError
  <2> QED
    BY <1>2, <2>2, <2>3, <2>4, <2>5, <2>6, <2>7
<1>3. ASSUME CountLegacy(p) \/ TakeEntry(p) \/ Compare(p) \/ DropDuplicate(p)
             \/ Rename(p) \/ RemoveSource(p)
      PROVE  Running(p)
  BY <1>3 DEF Running, Working, CountLegacy, TakeEntry, Compare, DropDuplicate,
              Rename, RemoveSource
<1>4. CASE report' = report
  BY <1>4 DEF ReportType
<1>5. Start(p) \/ OpenDir(p) \/ CheckShared(p) \/ List(p) \/ FinishDir(p)
      \/ CheckExists(p) \/ OpenCopy(p) \/ FinishCopy(p) \/ Interrupt(p)
        => report' = report
  BY DEF Start, OpenDir, CheckShared, List, FinishDir, CheckExists, OpenCopy,
         GoneIsError, FinishCopy, Interrupt
<1>6. ASSUME NEW field \in {"moved", "copied", "skipped", "removed"}, NEW k \in Nat,
             Count(p, field, k), Running(p)
      PROVE  ReportType'
  BY <1>1, <1>6, CountTyped
<1> QED
  BY <1>2, <1>3, <1>4, <1>5, <1>6 DEF Step, DirStep, FileStep

----------------------------------------------------------------------------
LEMMA InitMigration == Init => MigrationInv /\ ReportType
<1> SUFFICES ASSUME Init PROVE MigrationInv /\ ReportType
  OBVIOUS
<1>1. PICK w \in Worlds : legacy = w.legacy /\ shared = w.shared
  BY DEF Init
<1>2. legacy \in [Items -> Entry] /\ shared \in [Items -> Entry]
      /\ legacy0 = legacy /\ shared0 = shared
  BY <1>1, MigrationAssumption DEF Init
<1>3. pc = [p \in Processes |-> Idle] /\ sub = [p \in Processes |-> 0]
      /\ todo = [p \in Processes |-> {}] /\ held = [p \in Processes |-> << >>]
      /\ torn = {} /\ overlapped = FALSE
  BY DEF Init
<1>4. name \in [Processes -> Names]
  BY MigrationAssumption DEF Init
<1>9. 0 \in 0 .. Len(Subdirs) + 1
  BY MigrationAssumption
<1>5. FileType
  BY <1>2, <1>3, <1>4, <1>9 DEF FileType
<1>6. \A p \in Processes : ~ Running(p) /\ PlaceInv(p)
  BY <1>3 DEF Running, PlaceInv, OnFile, Working, Idle
<1>7. NothingLost /\ SharedKept /\ \A i \in Items : legacy[i] \in {legacy0[i], Absent}
  BY <1>2 DEF NothingLost, SharedKept
<1>8. ReportType
  <2>1. Nothing \in Report
    BY DEF Nothing, Report
  <2> QED
    BY <2>1 DEF Init, ReportType
<1> QED
  BY <1>5, <1>6, <1>7, <1>8 DEF MigrationInv

LEMMA NextMigration ==
  ASSUME MigrationInv, [Next]_vars
  PROVE  MigrationInv'
<1>1. CASE Next
  <2>1. PICK p \in Processes : Start(p) \/ Step(p) \/ Interrupt(p)
    BY <1>1 DEF Next
  <2>2. Respects(p)
    BY <2>1, StartStep, InterruptStep, DirSteps, JudgeSteps, RemoveSteps,
       RenameStep, OpenCopyStep, FinishCopyStep DEF Step, FileStep
  <2> QED
    BY <2>2, StepKeeps
<1>2. CASE UNCHANGED vars
  BY <1>2 DEF vars, files, history, MigrationInv, FileType, PlaceInv, Running,
              Item, Dir, Kept, Replaces, InHand, NothingLost, SharedKept
<1> QED
  BY <1>1, <1>2

\* The invariant holds in every reachable state.
THEOREM MigrationSafe == Spec => []MigrationInv
<1>1. MigrationInv /\ [Next]_vars => MigrationInv'
  BY NextMigration
<1> QED
  BY InitMigration, <1>1, PTL DEF Spec

\* Whatever is interrupted, and however many processes migrate, no file of the
\* legacy cache is lost but one whose copying was interrupted while two
\* processes migrated (cache.rs:292-323).
THEOREM NoFileLost == Spec => []NothingLost
<1>1. MigrationInv => NothingLost
  BY DEF MigrationInv
<1> QED
  BY MigrationSafe, <1>1, PTL

\* No entry the shared cache already had is overwritten (cache.rs:293-301).
THEOREM SharedEntriesKept == Spec => []SharedKept
<1>1. MigrationInv => SharedKept
  BY DEF MigrationInv
<1> QED
  BY MigrationSafe, <1>1, PTL

LEMMA NextReport ==
  ASSUME MigrationInv, ReportType, [Next]_vars
  PROVE  ReportType'
<1>1. CASE UNCHANGED vars
  BY <1>1 DEF vars, ReportType
<1>2. CASE Next
  BY <1>2, ReportSteps DEF Next
<1> QED
  BY <1>1, <1>2

LEMMA NextFiles ==
  ASSUME [Next]_vars
  PROVE  UNCHANGED files
BY DEF Next, vars, files, Start, Step, DirStep, FileStep, Interrupt, OpenDir, CheckShared,
       CountLegacy, List, TakeEntry, FinishDir, CheckExists, Compare,
       DropDuplicate, Rename, OpenCopy, FinishCopy, RemoveSource

\* Every variable keeps its type; each count is a number, whatever is counted.
THEOREM MigrationTypeCorrect == Spec => []MigrationTypeOK
<1>1. Init => MigrationInv /\ ReportType /\ legacyDirs \subseteq Dirs
              /\ crossDevice \in BOOLEAN
  BY InitMigration, MigrationAssumption DEF Init
<1>2. /\ MigrationInv /\ ReportType /\ legacyDirs \subseteq Dirs
      /\ crossDevice \in BOOLEAN
      /\ [Next]_vars
      => ReportType' /\ (legacyDirs \subseteq Dirs)' /\ (crossDevice \in BOOLEAN)'
  BY NextReport, NextFiles DEF files
<1>3. /\ MigrationInv /\ ReportType /\ legacyDirs \subseteq Dirs
      /\ crossDevice \in BOOLEAN
      => MigrationTypeOK
  BY DEF MigrationInv, ReportType, Report, FileType, MigrationTypeOK
<1> QED
  BY MigrationSafe, <1>1, <1>2, <1>3, PTL DEF Spec

----------------------------------------------------------------------------
(* The counts.                                                              *)

Counters == Processes \X Dirs
Reports == [Processes -> [Dirs -> Report]]
Table(r) == [pd \in Counters |-> Taken(r[pd[1]][pd[2]])]

LEMMA TablesAreCounts ==
  ASSUME NEW r \in Reports
  PROVE  Table(r) \in [Counters -> Nat]
<1>1. \A pd \in Counters : r[pd[1]][pd[2]] \in Report
  BY DEF Reports, Counters
<1>2. \A c \in Report : Taken(c) \in Nat
  BY DEF Report, Taken
<1> QED
  BY <1>1, <1>2 DEF Table

LEMMA FiniteCounters ==
  ASSUME IsFiniteSet(Processes)
  PROVE  IsFiniteSet(Counters) /\ IsFiniteSet(Items)
<1>1. DOMAIN Subdirs = 1 .. Len(Subdirs) /\ Len(Subdirs) \in Nat
  BY MigrationAssumption
<1>2. IsFiniteSet(DOMAIN Subdirs)
  BY <1>1, FS_Interval
<1>3. IsFiniteSet(Dirs)
  <2>1. Subdirs \in Surjection(DOMAIN Subdirs, Dirs)
    BY MigrationAssumption DEF Surjection, Dirs
  <2> QED
    BY <1>2, <2>1, FS_Surjection
<1> QED
  BY <1>3, FS_Product, MigrationAssumption DEF Counters, Items

LEMMA TotalIsSum ==
  ASSUME IsFiniteSet(Processes), NEW r \in Reports
  PROVE  \E h : IsSum(Table(r), Counters, h) /\ Total(r) = h[Counters]
<1> DEFINE Eq(k) == k = [s \in SUBSET Counters |->
                           IF s = {} THEN 0
                           ELSE Taken(r[(CHOOSE x \in s : TRUE)[1]][(CHOOSE x \in s : TRUE)[2]])
                                  + k[s \ {CHOOSE x \in s : TRUE}]]
           h == CHOOSE k : Eq(k)
<1>1. Total(r) = h[Counters]
  BY Zenon DEF Total, MapThenSumSet, MapThenFoldSet, Counters
<1>2. \A k : IsSum(Table(r), Counters, k) <=> Eq(k)
  <2> SUFFICES ASSUME NEW k PROVE IsSum(Table(r), Counters, k) <=> Eq(k)
    OBVIOUS
  <2>1. \A s \in SUBSET Counters : s # {} =>
           Table(r)[First(s)] = Taken(r[(CHOOSE x \in s : TRUE)[1]][(CHOOSE x \in s : TRUE)[2]])
    BY FirstPicks DEF Table, First
  <2> QED
    BY <2>1 DEF IsSum, First
<1>3. \E k : Eq(k)
  <2>1. IsFiniteSet(Counters) /\ Table(r) \in [Counters -> Nat]
    BY FiniteCounters, TablesAreCounts
  <2> HIDE DEF Eq
  <2>2. \E k : IsSum(Table(r), Counters, k)
    BY <2>1, SumExists
  <2> QED
    BY <1>2, <2>2
<1>4. Eq(h)
  <2> HIDE DEF Eq
  <2> QED
    BY <1>3
<1> HIDE DEF h
<1> QED
  BY <1>1, <1>2, <1>4

LEMMA TotalGrows ==
  ASSUME IsFiniteSet(Processes), NEW r \in Reports, NEW q \in Reports, NEW k \in Nat,
         NEW p \in Processes, NEW d \in Dirs, Taken(q[p][d]) = Taken(r[p][d]) + k,
         \A x \in Processes, y \in Dirs : <<x, y>> # <<p, d>> => q[x][y] = r[x][y]
  PROVE  Total(r) \in Nat /\ Total(q) = Total(r) + k
<1>1. PICK h : IsSum(Table(r), Counters, h) /\ Total(r) = h[Counters]
  BY TotalIsSum
<1>2. PICK g : IsSum(Table(q), Counters, g) /\ Total(q) = g[Counters]
  BY TotalIsSum
<1>3. <<p, d>> \in Counters /\ Table(q)[<<p, d>>] = Table(r)[<<p, d>>] + k
  BY DEF Counters, Table
<1>4. \A c \in Counters : c # <<p, d>> => Table(q)[c] = Table(r)[c]
  BY DEF Counters, Table
<1>5. h[Counters] \in Nat /\ g[Counters] = h[Counters] + k
  <2>1. /\ IsFiniteSet(Counters)
        /\ Table(r) \in [Counters -> Nat] /\ Table(q) \in [Counters -> Nat]
    BY FiniteCounters, TablesAreCounts
  <2> DEFINE a == Table(r)
             b == Table(q)
             x == <<p, d>>
  <2>2. /\ a \in [Counters -> Nat] /\ b \in [Counters -> Nat] /\ x \in Counters
        /\ b[x] = a[x] + k /\ \A c \in Counters : c # x => b[c] = a[c]
        /\ IsSum(a, Counters, h) /\ IsSum(b, Counters, g)
    BY <1>1, <1>2, <1>3, <1>4, <2>1
  <2> HIDE DEF a, b, x
  <2> QED
    BY <2>1, <2>2, SumStep
<1> QED
  BY <1>1, <1>2, <1>5

LEMMA CountAdds ==
  ASSUME IsFiniteSet(Processes), ReportType, NEW p \in Processes, sub[p] \in DOMAIN Subdirs,
         NEW field \in {"moved", "copied", "skipped", "removed"}, NEW k \in Nat,
         Count(p, field, k)
  PROVE  /\ Total(report) \in Nat
         /\ Total(report') = Total(report) + IF field = "skipped" THEN 0 ELSE k
<1> DEFINE d == Dir(p)
           c == [report[p][d] EXCEPT ![field] = @ + k]
           more == IF field = "skipped" THEN 0 ELSE k
<1>1. d \in Dirs /\ report \in Reports /\ report' \in Reports
  BY CountTyped DEF ReportType, Reports, Dirs, Dir
<1>2. report[p][d] \in Report /\ report[p] \in [Dirs -> Report]
  BY <1>1 DEF Reports
<1>3. report' = [report EXCEPT ![p] = [report[p] EXCEPT ![d] = c]]
  BY DEF Count
<1>4. report'[p][d] = c
  BY <1>1, <1>2, <1>3 DEF Reports
<1>5. \A x \in Processes, y \in Dirs : <<x, y>> # <<p, d>> => report'[x][y] = report[x][y]
  BY <1>1, <1>2, <1>3 DEF Reports
<1>6. Taken(c) = Taken(report[p][d]) + more
  <2>1. \A e \in Report : Taken([e EXCEPT ![field] = @ + k]) = Taken(e) + more
    <3>1. CASE field = "moved"
      BY <3>1 DEF Report, Taken
    <3>2. CASE field = "copied"
      BY <3>2 DEF Report, Taken
    <3>3. CASE field = "skipped"
      BY <3>3 DEF Report, Taken
    <3>4. CASE field = "removed"
      BY <3>4 DEF Report, Taken
    <3> QED
      BY <3>1, <3>2, <3>3, <3>4
  <2> QED
    BY <1>2, <2>1
<1>7. more \in Nat
  OBVIOUS
<1> HIDE DEF d, c, more
<1>8. Total(report) \in Nat /\ Total(report') = Total(report) + more
  BY <1>1, <1>4, <1>5, <1>6, <1>7, TotalGrows
<1> QED
  BY <1>8 DEF more

(* What a step takes from the legacy cache it counts, once.                 *)
LEMMA CountSteps ==
  ASSUME IsFiniteSet(Processes), MigrationInv, ReportType, NEW p \in Processes,
         Start(p) \/ Step(p) \/ Interrupt(p)
  PROVE  \/ /\ legacy' = legacy
            /\ \/ report' = report
               \/ \E k \in Nat : Running(p) /\ Count(p, "skipped", k)
         \/ /\ legacy[Item(p)] # Absent /\ Running(p) /\ pc[p] \in OnFile
            /\ legacy' = [legacy EXCEPT ![Item(p)] = Absent]
            /\ \E field \in {"moved", "copied", "removed"} : Count(p, field, 1)
<1>1. CASE Start(p) \/ OpenDir(p) \/ CheckShared(p) \/ List(p) \/ FinishDir(p)
           \/ CheckExists(p) \/ OpenCopy(p) \/ FinishCopy(p) \/ Interrupt(p)
  BY <1>1 DEF Start, OpenDir, CheckShared, List, FinishDir, CheckExists, OpenCopy,
              GoneIsError, FinishCopy, Interrupt
<1>2. CASE CountLegacy(p)
  <2>1. Cardinality(LegacyFiles(Dir(p))) \in Nat
    BY MigrationAssumption, FS_Subset, FS_CardinalityType DEF LegacyFiles
  <2> QED
    BY <1>2, <2>1 DEF CountLegacy, Running, Working
<1>3. CASE TakeEntry(p) \/ Compare(p)
  BY <1>3 DEF TakeEntry, Compare, GoneIsError, Running, Working
<1>4. CASE DropDuplicate(p)
  BY <1>4 DEF DropDuplicate, GoneIsError, Running, Working, OnFile
<1>5. CASE Rename(p)
  BY <1>5 DEF Rename, Running, Working, OnFile
<1>6. CASE RemoveSource(p)
  BY <1>6 DEF RemoveSource, GoneIsError, Running, Working, OnFile
<1> QED
  BY <1>1, <1>2, <1>3, <1>4, <1>5, <1>6 DEF Step, DirStep, FileStep

LEMMA CountsKept ==
  ASSUME IsFiniteSet(Processes), MigrationInv, ReportType, CountsAreTrue, [Next]_vars
  PROVE  CountsAreTrue'
<1>1. IsFiniteSet(Departed)
  BY FiniteCounters, FS_Subset DEF Departed
<1>2. CASE UNCHANGED vars
  BY <1>2 DEF vars, files, CountsAreTrue, Departed
<1>3. CASE Next
  <2>1. PICK p \in Processes : Start(p) \/ Step(p) \/ Interrupt(p)
    BY <1>3 DEF Next
  <2>2. legacy0' = legacy0
    BY NextFiles DEF files
  <2>3. Running(p) => sub[p] \in DOMAIN Subdirs
    BY DEF MigrationInv, PlaceInv
  <2>4. CASE legacy' = legacy /\ report' = report
    BY <2>2, <2>4 DEF CountsAreTrue, Departed
  <2>5. ASSUME legacy' = legacy, NEW k \in Nat, Running(p), Count(p, "skipped", k)
        PROVE  CountsAreTrue'
    <3>1. Total(report) \in Nat /\ Total(report') = Total(report) + 0
      BY <2>3, <2>5, CountAdds
    <3>2. Departed' = Departed
      BY <2>2, <2>5 DEF Departed
    <3> QED
      BY <3>1, <3>2 DEF CountsAreTrue
  <2>6. ASSUME legacy[Item(p)] # Absent, Running(p),
               legacy' = [legacy EXCEPT ![Item(p)] = Absent],
               NEW field \in {"moved", "copied", "removed"}, Count(p, field, 1)
        PROVE  CountsAreTrue'
    <3>1. Total(report) \in Nat /\ Total(report') = Total(report) + 1
      BY <2>3, <2>6, CountAdds
    <3>2. Item(p) \in Items /\ legacy \in [Items -> Entry]
      BY <2>3, <2>6, ItemOf DEF MigrationInv, FileType
    <3>3. legacy0[Item(p)] = legacy[Item(p)]
      BY <2>6, <3>2 DEF MigrationInv
    <3>4. Item(p) \notin Departed /\ Departed' = Departed \cup {Item(p)}
      BY <2>2, <2>6, <3>2, <3>3 DEF Departed
    <3>5. Cardinality(Departed') = Cardinality(Departed) + 1
      BY <1>1, <3>4, FS_AddElement
    <3> QED
      BY <3>1, <3>5 DEF CountsAreTrue
  <2> QED
    BY <2>1, <2>4, <2>5, <2>6, CountSteps
<1> QED
  BY <1>2, <1>3

LEMMA InitCounts ==
  ASSUME IsFiniteSet(Processes), Init
  PROVE  CountsAreTrue
<1>1. report \in Reports /\ \A pd \in Counters : Table(report)[pd] = 0
  <2>1. \A p \in Processes, d \in Dirs : report[p][d] = Nothing
    BY DEF Init
  <2>2. Taken(Nothing) = 0
    BY DEF Taken, Nothing
  <2> QED
    BY <2>1, <2>2, InitMigration DEF ReportType, Reports, Table, Counters
<1>2. PICK h : IsSum(Table(report), Counters, h) /\ Total(report) = h[Counters]
  BY <1>1, TotalIsSum
<1>3. Total(report) = 0
  BY <1>1, <1>2, FiniteCounters, SumOfZeros
<1>4. Departed = {}
  BY DEF Init, Departed
<1> QED
  BY <1>3, <1>4, FS_EmptySet DEF CountsAreTrue

\* Any number of processes may migrate at once and be stopped anywhere: what has
\* left the legacy cache is what their reports, together, count as moved, copied
\* or removed, so no entry is counted by two of them (cache.rs:292-323).
THEOREM ReportsAreTrue ==
  ASSUME IsFiniteSet(Processes)
  PROVE  Spec => []CountsAreTrue
<1>1. Init => MigrationInv /\ ReportType /\ CountsAreTrue
  BY InitMigration, InitCounts
<1>2. MigrationInv /\ ReportType /\ CountsAreTrue /\ [Next]_vars => ReportType' /\ CountsAreTrue'
  BY CountsKept, NextReport
<1> QED
  BY MigrationSafe, <1>1, <1>2, PTL DEF Spec

----------------------------------------------------------------------------
(* The directories: in every environment those of the caches and of a      *)
(* migration are apart, as far as no override says otherwise.              *)

LEMMA VariablesArePaths ==
  ASSUME NEW e \in Environment, NEW v, IsSet(e, v)
  PROVE  e.vars[v] \in Path
BY DEF Environment, IsSet

\* The root is one directory with the application's name in it.
LEMMA RootForm ==
  ASSUME NEW e \in Environment
  PROVE  \E base \in Path : \A app \in DirNames : PlatformCacheRoot(e, app) = Append(base, app)
<1> DEFINE chosen == IF e.windows THEN "LOCALAPPDATA" ELSE "XDG_CACHE_HOME"
<1>1. CASE IsSet(e, chosen)
  <2>1. e.vars[chosen] \in Path
    BY <1>1, VariablesArePaths
  <2>2. \A app \in DirNames : PlatformCacheRoot(e, app) = Append(e.vars[chosen], app)
    BY <1>1 DEF PlatformCacheRoot
  <2> QED
    BY <2>1, <2>2
<1>2. CASE ~ IsSet(e, chosen) /\ IsSet(e, "HOME")
  <2>1. Append(e.vars["HOME"], ".cache") \in Path
    BY <1>2, VariablesArePaths, DirNamesAssumption DEF Path
  <2>2. \A app \in DirNames :
          PlatformCacheRoot(e, app) = Append(Append(e.vars["HOME"], ".cache"), app)
    BY <1>2 DEF PlatformCacheRoot
  <2> QED
    BY <2>1, <2>2
<1>3. CASE ~ IsSet(e, chosen) /\ ~ IsSet(e, "HOME")
  <2>1. e.temp \in Path
    BY DEF Environment
  <2>2. \A app \in DirNames : PlatformCacheRoot(e, app) = Append(e.temp, app)
    BY <1>3 DEF PlatformCacheRoot
  <2> QED
    BY <2>1, <2>2
<1> QED
  BY <1>1, <1>2, <1>3

LEMMA TwoNames ==
  ASSUME NEW base \in Path, NEW a \in DirNames, NEW b \in DirNames, NEW c \in DirNames, NEW d \in DirNames
  PROVE  /\ Append(Append(base, a), b) = Append(Append(base, c), d) <=> a = c /\ b = d
         /\ Len(Append(Append(base, a), b)) = Len(Append(Append(base, c), d))
<1> DEFINE s == Append(Append(base, a), b)
           t == Append(Append(base, c), d)
           n == Len(base)
<1>1. n \in Nat /\ Append(base, a) \in Path /\ Append(base, c) \in Path
  BY DEF Path
<1>2. Len(s) = n + 2 /\ Len(t) = n + 2
  BY <1>1 DEF Path
<1>3. s[n + 1] = a /\ s[n + 2] = b /\ t[n + 1] = c /\ t[n + 2] = d
  BY <1>1 DEF Path
<1> QED
  BY <1>2, <1>3

(* migrate_legacy_caches (cache.rs:210-212): whatever the environment, the  *)
(* directories it moves entries from and those it moves them to are all     *)
(* different, and as long as each other, so that none lies in another: a    *)
(* listing never meets what the migration itself has put there.             *)
THEOREM MigrationDirsApart ==
  ASSUME NEW e \in Environment, NEW j \in DirNames, NEW k \in DirNames
  PROVE  /\ SharedDir(e, j) # LegacyDir(e, k)
         /\ SharedDir(e, j) = SharedDir(e, k) => j = k
         /\ LegacyDir(e, j) = LegacyDir(e, k) => j = k
         /\ Len(SharedDir(e, j)) = Len(LegacyDir(e, k))
<1>1. PICK base \in Path : \A app \in DirNames : PlatformCacheRoot(e, app) = Append(base, app)
  BY RootForm
<1>2. /\ SHARED_CACHE_NAME \in DirNames /\ LEGACY_CACHE_NAME \in DirNames
      /\ SHARED_CACHE_NAME # LEGACY_CACHE_NAME
  BY DirNamesAssumption DEF SHARED_CACHE_NAME, LEGACY_CACHE_NAME
<1>3. \A d \in DirNames : /\ SharedDir(e, d) = Append(Append(base, SHARED_CACHE_NAME), d)
                        /\ LegacyDir(e, d) = Append(Append(base, LEGACY_CACHE_NAME), d)
  BY <1>1, <1>2 DEF SharedDir, LegacyDir, SharedCacheRoot, LegacyCacheRoot
<1> QED
  BY <1>2, <1>3, TwoNames

(* The getters (cache.rs:64-108): where no override is set, the three caches *)
(* have directories of their own, none of which is a legacy directory, so    *)
(* that clearing one cache never reaches another's files.                    *)
THEOREM CachesApart ==
  ASSUME NEW e \in Environment, NEW k \in DirNames,
         \A v \in {"PAR_OSM_OVERPASS_CACHE_DIR", "OVERPASS_CACHE_DIR", "PAR_OSM_SRTM_CACHE_DIR",
                      "SRTM_CACHE_DIR", "PAR_OSM_OVERTURE_CACHE_DIR", "OVERTURE_CACHE_DIR"} :
           ~ IsSet(e, v)
  PROVE  /\ OverpassCacheDir(e) # SrtmCacheDir(e)
         /\ OverpassCacheDir(e) # OvertureCacheDir(e)
         /\ SrtmCacheDir(e) # OvertureCacheDir(e)
         /\ LegacyDir(e, k) \notin {OverpassCacheDir(e), SrtmCacheDir(e), OvertureCacheDir(e)}
<1>1. /\ OverpassCacheDir(e) = SharedDir(e, "overpass")
      /\ SrtmCacheDir(e) = SharedDir(e, "srtm")
      /\ OvertureCacheDir(e) = SharedDir(e, "overture")
  BY DEF OverpassCacheDir, SrtmCacheDir, OvertureCacheDir, CacheDir
<1> QED
  BY <1>1, MigrationDirsApart, DirNamesAssumption
=============================================================================
