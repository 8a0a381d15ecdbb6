--------------------------- MODULE DataCacheProofs ---------------------------
(***************************************************************************)
(* Proofs about DataCache for every value of its constants: its types, that*)
(* what is called clean upstream has had, unless upstream said nothing to  *)
(* check it by, that a path has one upload at a time, that the journal is  *)
(* ahead of the index, that what was accepted is kept, and that the        *)
(* counters are true.                                                      *)
(*                                                                         *)
(* CleanIsUpstream is not inductive: the end of an upload writes "clean"   *)
(* three steps after the evidence was seen.  CleanInvariant adds what each *)
(* thread has seen (Backed), that its fields are there (WellFormed), that  *)
(* a version is never given out twice (Issued), and that what a download   *)
(* reads from upstream upstream has had (UpIsHeld).  The later parts rest  *)
(* on it and say at their head what they add: Leading, Keeping, Counted.   *)
(***************************************************************************)
EXTENDS DataCache, FiniteSetTheorems, WellFoundedInduction, TLAPS

USE DEF indexVars, claimVars, fileVars, jnlVars, upVars, verVars, lifeVars, oweVars,
        Threads, Versions, Contents

-----------------------------------------------------------------------------
(* Steps that leave objects, the journal, upstream and the versions alone:  *)
(* only the thread that moves has anything to show.                         *)

Quiet == UNCHANGED <<index, jnl, clock, body, up, held>> /\ unchecked \subseteq unchecked'

\* What has been confirmed stays so.
LEMMA StaysConfirmed ==
    ASSUME NEW p, NEW v, Confirmed(p, v), UNCHANGED <<body, held>>, unchecked \subseteq unchecked'
    PROVE  Confirmed(p, v)'
BY DEF Confirmed

\* What the invariant asks of one thread.
InOrder(t) == WellFormed(t) /\ Backed(t) /\ th[t].ver <= clock

\* When one thread moves and nothing is given out or taken away upstream, the
\* other threads stay in order.
LEMMA OneThreadMoves ==
    ASSUME CleanInvariant, UNCHANGED <<clock, body, held>>, unchecked \subseteq unchecked', NEW t \in Threads,
           th' = [th EXCEPT ![t] = th'[t]], InOrder(t)'
    PROVE  \A u \in Threads : InOrder(u)'
<1>1. ASSUME NEW u \in Threads, u # t
      PROVE  InOrder(u)'
  <2>1. th'[u] = th[u] BY <1>1 DEF CleanInvariant, TypeOK
  <2>2. WellFormed(u)' BY <2>1 DEF CleanInvariant, WellFormed
  <2>3. Backed(u)' BY <2>1, StaysConfirmed DEF CleanInvariant, Backed
  <2>4. th'[u].ver <= clock' BY <2>1 DEF CleanInvariant, Issued
  <2> QED BY <2>2, <2>3, <2>4 DEF InOrder
<1> QED BY <1>1

\* A quiet step keeps the invariant when the threads are in order after it.
LEMMA QuietThreads ==
    ASSUME CleanInvariant, Quiet, TypeOK', \A u \in Threads : InOrder(u)'
    PROVE  CleanInvariant'
<1>1. Issued'
  BY DEF CleanInvariant, Issued, Quiet, InOrder
<1>2. UpIsHeld' /\ CleanIsUpstream'
  BY StaysConfirmed DEF CleanInvariant, UpIsHeld, CleanIsUpstream, Quiet
<1> QED BY <1>1, <1>2 DEF CleanInvariant, InOrder

\* A quiet step of one thread keeps the invariant.
LEMMA QuietStep ==
    ASSUME CleanInvariant, Quiet, TypeOK', NEW t \in Threads,
           th' = [th EXCEPT ![t] = th'[t]], InOrder(t)'
    PROVE  CleanInvariant'
BY OneThreadMoves, QuietThreads DEF Quiet

-----------------------------------------------------------------------------
(* The records a thread is left with.                                       *)

\* An idle thread's record has its type and shows nothing.
LEMMA IdleTyped ==
    /\ Idle \in Thread
    /\ Idle.pc = "idle" /\ Idle.path = NoPath /\ Idle.ver = 0 /\ Idle.goal = "clean"
BY BoundsAreNat DEF Idle, Thread, Labels, States

\* Rest leaves a thread in order: a worker at End with its path, a client idle.
LEMMA RestInOrder ==
    ASSUME CleanInvariant, NEW t \in Threads
    PROVE  /\ Rest(t) \in Thread
           /\ Rest(t).pc \in {"idle", "end"} /\ Rest(t).ver <= clock
           /\ Rest(t).goal = "delete" => th[t].goal = "delete" /\ Rest(t).path = th[t].path
           /\ t \in Workers => /\ Rest(t).pc = "end" /\ Rest(t).path = th[t].path
                               /\ Rest(t).goal = th[t].goal /\ Rest(t).ver = th[t].ver
<1>1. th[t] \in Thread /\ th[t].ver <= clock /\ clock \in Nat
  BY BoundsAreNat DEF CleanInvariant, TypeOK, Issued
<1>2. CASE t \in Workers
  BY <1>1, <1>2 DEF Rest, Thread, Labels
<1>3. CASE t \notin Workers
  BY <1>1, <1>3, IdleTyped DEF Rest
<1> QED BY <1>2, <1>3

\* A forget leaves its thread in order, with more paths to go or on its way.
LEMMA AfterForgetInOrder ==
    ASSUME CleanInvariant, NEW t \in Threads, th[t].pc # "idle", NEW S \in SUBSET Paths
    PROVE  LET r == AfterForget(t, S) IN
           /\ r \in Thread
           /\ r.pc \in {"idle", "end", "forget", "delete"} /\ r.ver <= clock
           /\ r.pc = "delete" \/ r.goal = "delete" => r.path \in Paths
           /\ t \in Workers => /\ r.pc # "idle" /\ r.path = th[t].path
                               /\ r.goal = th[t].goal /\ r.ver = th[t].ver
<1>1. th[t] \in Thread /\ th[t].ver <= clock /\ WellFormed(t)
  BY DEF CleanInvariant, TypeOK, Issued
<1>2. CASE S # {}
  BY <1>1, <1>2 DEF AfterForget, Thread, Labels, WellFormed
<1>3. CASE S = {} /\ th[t].goal = "delete"
  BY <1>1, <1>3 DEF AfterForget, Thread, Labels, WellFormed
<1>4. CASE S = {} /\ th[t].goal # "delete"
  BY <1>4, RestInOrder DEF AfterForget
<1> QED BY <1>2, <1>3, <1>4

-----------------------------------------------------------------------------
(* Writing.                                                                 *)

\* What newWriter starts from, for Put and for Fill.
LEMMA WriterInOrder ==
    ASSUME NEW p \in Paths, NEW b \in Bodies, NEW g \in States
    PROVE  /\ Writer(p, b, g) \in Thread /\ Writer(p, b, g).pc = "writing"
           /\ Writer(p, b, g).path = p /\ Writer(p, b, g).body = b
           /\ Writer(p, b, g).goal = g /\ Writer(p, b, g).ver = 0
BY IdleTyped DEF Writer, Thread, Labels

\* A request that starts to write, with upstream's evidence if it is a fill.
LEMMA WriterKeeps ==
    ASSUME CleanInvariant, NEW t \in Clients, NEW p \in Paths, NEW b \in Bodies, NEW g \in States,
           g = "clean" => b \in held[p],
           th' = [th EXCEPT ![t] = Writer(p, b, g)], Quiet, TypeOK'
    PROVE  CleanInvariant'
<1>1. th'[t] = Writer(p, b, g)
  BY DEF CleanInvariant, TypeOK
<1>2. WellFormed(t)'
  BY <1>1, WriterInOrder, ThreadsAreDistinct DEF WellFormed, WriteLabels, SealedLabels, States
<1>3. Backed(t)'
  BY <1>1, WriterInOrder DEF Backed, SealedLabels, WriteLabels, SetLabels, Quiet
<1>4. th'[t].ver <= clock'
  BY <1>1, WriterInOrder DEF CleanInvariant, TypeOK, Quiet
<1> QED BY <1>1, <1>2, <1>3, <1>4, QuietStep DEF InOrder

\* Put starts an unsent write, which claims nothing of upstream.
LEMMA PutBeginKeeps ==
    ASSUME CleanInvariant, NEW t \in Clients, NEW p \in Paths, NEW b \in Bodies,
           PutBegin(t, p, b)
    PROVE  CleanInvariant'
<1>1. Writer(p, b, "dirty") \in Thread
  BY WriterInOrder DEF States
<1>2. TypeOK'
  BY <1>1 DEF CleanInvariant, TypeOK, PutBegin
<1> QED BY <1>2, WriterKeeps DEF PutBegin, Quiet, States

\* A fill starts with the bytes upstream has, which upstream has had (UpIsHeld).
LEMMA FillBeginKeeps ==
    ASSUME CleanInvariant, NEW t \in Clients, NEW p \in Paths, FillBegin(t, p)
    PROVE  CleanInvariant'
<1>1. up[p] \in Bodies /\ up[p] \in held[p]
  BY DEF FillBegin, CleanInvariant, TypeOK, UpIsHeld
<1>2. Writer(p, up[p], "clean") \in Thread
  BY <1>1, WriterInOrder DEF States
<1>3. TypeOK'
  BY <1>2 DEF CleanInvariant, TypeOK, FillBegin
<1> QED BY <1>1, <1>3, WriterKeeps DEF FillBegin, Quiet, States

\* A thread that becomes idle has nothing to show.
LEMMA IdleInOrder ==
    ASSUME CleanInvariant, NEW t \in Clients, Reset(t), UNCHANGED clock
    PROVE  th' \in [Threads -> Thread] /\ th' = [th EXCEPT ![t] = th'[t]] /\ InOrder(t)'
<1>1. th' = [th EXCEPT ![t] = Idle] /\ th'[t] = Idle
  BY DEF Reset, CleanInvariant, TypeOK
<1>2. InOrder(t)'
  BY <1>1, IdleTyped, ThreadsAreDistinct
  DEF CleanInvariant, TypeOK, InOrder, WellFormed, Backed, WriteLabels, SealedLabels, SetLabels
<1> QED BY <1>1, <1>2, IdleTyped DEF CleanInvariant, TypeOK

\* A step that only ends its request keeps the invariant.
LEMMA ResetKeeps ==
    ASSUME CleanInvariant, NEW t \in Clients, Reset(t), Quiet, TypeOK'
    PROVE  CleanInvariant'
BY IdleInOrder, QuietStep DEF Quiet

\* An aborted write touches neither index nor journal.
LEMMA AbortKeeps ==
    ASSUME CleanInvariant, NEW t \in Clients, Abort(t)
    PROVE  CleanInvariant'
<1>1. TypeOK'
  BY IdleTyped DEF CleanInvariant, TypeOK, Abort, Reset
<1> QED BY <1>1, ResetKeeps DEF Abort, Quiet

\* A thread whose label alone changes.
LEMMA Relabelled ==
    ASSUME TypeOK, NEW t \in Threads, NEW l \in Labels, Goto(t, l)
    PROVE  /\ th' \in [Threads -> Thread] /\ th' = [th EXCEPT ![t] = th'[t]]
           /\ th'[t].pc = l /\ th'[t].path = th[t].path /\ th'[t].body = th[t].body
           /\ th'[t].ver = th[t].ver /\ th'[t].goal = th[t].goal
           /\ th'[t].victim = th[t].victim
<1>1. th[t] \in Thread
  BY DEF TypeOK
<1>2. [th[t] EXCEPT !.pc = l] \in Thread
  BY <1>1 DEF Thread
<1>3. th' = [th EXCEPT ![t] = [th[t] EXCEPT !.pc = l]] /\ th'[t] = [th[t] EXCEPT !.pc = l]
  BY DEF Goto, TypeOK
<1> QED BY <1>1, <1>2, <1>3 DEF TypeOK, Thread

\* A writer that goes from one step of the commit to the next.
LEMMA WriterMovesOn ==
    ASSUME CleanInvariant, NEW t \in Clients, th[t].pc \in SealedLabels,
           NEW l \in SealedLabels \cup {"evict"}, Goto(t, l), UNCHANGED <<clock, body, held, unchecked>>
    PROVE  InOrder(t)'
<1>1. /\ th'[t].pc = l /\ th'[t].path = th[t].path /\ th'[t].body = th[t].body
      /\ th'[t].ver = th[t].ver /\ th'[t].goal = th[t].goal
  BY Relabelled DEF CleanInvariant, SealedLabels, WriteLabels, Labels
<1>2. WellFormed(t)'
  BY <1>1, ThreadsAreDistinct DEF CleanInvariant, WellFormed, SealedLabels, WriteLabels
<1>3. Backed(t)'
  BY <1>1 DEF Confirmed, CleanInvariant, Backed, SealedLabels, WriteLabels
<1> QED BY <1>1, <1>2, <1>3 DEF CleanInvariant, InOrder, Issued

\* The rename changes files, never an object or the evidence for one.
LEMMA RenameKeeps ==
    ASSUME CleanInvariant, NEW t \in Clients, Rename(t)
    PROVE  CleanInvariant'
<1>1. th[t].path \in Paths /\ th[t].body \in Bodies
  BY DEF CleanInvariant, WellFormed, Rename, At, WriteLabels
<1>2. th' \in [Threads -> Thread] /\ th' = [th EXCEPT ![t] = th'[t]]
  BY Relabelled DEF CleanInvariant, Rename, Labels
<1>3. TypeOK'
  BY <1>1, <1>2 DEF CleanInvariant, TypeOK, Rename
<1>4. InOrder(t)'
  BY WriterMovesOn DEF Rename, At, SealedLabels, WriteLabels
<1> QED BY <1>2, <1>3, <1>4, QuietStep DEF Rename, Quiet

\* Syncing the directory settles files only.
LEMMA SyncDirKeeps ==
    ASSUME CleanInvariant, NEW t \in Clients, SyncDir(t)
    PROVE  CleanInvariant'
<1>1. disk' \in [Paths -> SUBSET Contents]
  BY DEF CleanInvariant, TypeOK, SyncDir
<1>2. th' \in [Threads -> Thread] /\ th' = [th EXCEPT ![t] = th'[t]]
  BY Relabelled DEF CleanInvariant, SyncDir, Labels
<1>3. TypeOK'
  BY <1>1, <1>2 DEF CleanInvariant, TypeOK, SyncDir
<1>4. InOrder(t)'
  BY WriterMovesOn DEF SyncDir, At, SealedLabels, WriteLabels
<1> QED BY <1>2, <1>3, <1>4, QuietStep DEF SyncDir, Quiet

\* A commit that could not sync the directory removes a file and ends.
LEMMA SyncDirFailsKeeps ==
    ASSUME CleanInvariant, NEW t \in Clients, SyncDirFails(t)
    PROVE  CleanInvariant'
<1>1. TypeOK'
  BY IdleTyped DEF CleanInvariant, TypeOK, SyncDirFails, Unlinked, Reset
<1> QED BY <1>1, ResetKeeps DEF SyncDirFails, Quiet

-----------------------------------------------------------------------------
(* Objects: a step may put into the index or the journal what is sound.     *)

\* What the invariant asks of an object in the index or in the journal.
Sound(p, o) ==
    /\ o \in Object /\ o.ver <= clock /\ (o.ver = 0 => o = NoObject)
    /\ o # NoObject /\ o.state = "clean" => Confirmed(p, o.ver)

\* No object is a sound object.
LEMMA NoObjectIsSound == ASSUME CleanInvariant, NEW p PROVE Sound(p, NoObject)
BY BoundsAreNat DEF CleanInvariant, TypeOK, Sound, NoObject, Object, States

\* What the index and the journal hold is sound.
LEMMA ObjectsAreSound ==
    ASSUME CleanInvariant, NEW p \in Paths
    PROVE  Sound(p, index[p]) /\ Sound(p, jnl[p])
BY DEF CleanInvariant, TypeOK, Issued, CleanIsUpstream, Sound

\* The object a thread has sealed, and the one a state change makes.
LEMMA NewObjectIsSound ==
    ASSUME CleanInvariant, NEW t \in Clients, th[t].pc \in SealedLabels
    PROVE  Sound(th[t].path, NewObject(t))
<1>1. th[t].ver \in Versions /\ th[t].ver <= clock /\ th[t].goal \in States
  BY DEF CleanInvariant, WellFormed, Issued, SealedLabels, WriteLabels
<1>2. th[t].goal = "clean" => Confirmed(th[t].path, th[t].ver)
  BY DEF CleanInvariant, Backed
<1> QED BY <1>1, <1>2, BoundsAreNat DEF Sound, NewObject, Object, NoObject

\* The object setState makes is sound when the worker has evidence for its state.
LEMMA ChangedObjectIsSound ==
    ASSUME CleanInvariant, NEW w \in Workers, th[w].pc \in SetLabels,
           NEW o, Sound(th[w].path, o), o.ver = th[w].ver
    PROVE  Sound(th[w].path, [o EXCEPT !.state = th[w].goal])
<1>1. th[w].ver \in Versions /\ th[w].goal \in States
  BY DEF CleanInvariant, WellFormed, SetLabels
<1>2. th[w].goal = "clean" => Confirmed(th[w].path, th[w].ver)
  BY DEF CleanInvariant, Backed
<1> QED BY <1>1, <1>2, BoundsAreNat DEF Sound, Object, NoObject

\* A step that gives out no version and moves nothing upstream keeps the
\* invariant when the objects it leaves are sound and its thread is in order.
LEMMA ObjectsStep ==
    ASSUME CleanInvariant, UNCHANGED <<clock, body, up, held, unchecked>>, TypeOK',
           \A p \in Paths : Sound(p, index'[p]) /\ Sound(p, jnl'[p]),
           NEW t \in Threads, th' = [th EXCEPT ![t] = th'[t]], InOrder(t)'
    PROVE  CleanInvariant'
<1>1. \A u \in Threads : InOrder(u)'
  BY OneThreadMoves
<1>2. Issued' /\ CleanIsUpstream'
  BY <1>1, StaysConfirmed DEF Issued, CleanIsUpstream, Sound, InOrder
<1>3. UpIsHeld'
  BY DEF CleanInvariant, UpIsHeld
<1> QED BY <1>1, <1>2, <1>3 DEF CleanInvariant, InOrder

\* What an append makes of a journal with sound objects.
LEMMA RecordedIsSound ==
    ASSUME CleanInvariant, NEW p \in Paths, NEW o, Sound(p, o)
    PROVE  /\ Recorded(p, o) \in [Paths -> Object]
           /\ \A q \in Paths : Sound(q, Recorded(p, o)[q])
<1>1. CASE torn
  BY <1>1, ObjectsAreSound DEF CleanInvariant, TypeOK, Recorded
<1>2. CASE ~torn
  <2>1. Recorded(p, o) = [jnl EXCEPT ![p] = o] BY <1>2 DEF Recorded
  <2>2. o \in Object BY DEF Sound
  <2>3. ASSUME NEW q \in Paths PROVE Sound(q, Recorded(p, o)[q])
    BY <2>1, ObjectsAreSound DEF CleanInvariant, TypeOK
  <2> QED BY <2>1, <2>2, <2>3 DEF CleanInvariant, TypeOK
<1> QED BY <1>1, <1>2

\* What a journal may be after an append, which fails or not.
LEMMA Appended ==
    ASSUME CleanInvariant, NEW rec, Appends(rec) \/ AppendFails(rec)
    PROVE  jnl' \in {jnl, rec} /\ torn' \in BOOLEAN /\ (torn => torn')
BY DEF Appends, AppendFails, CleanInvariant, TypeOK

\* The put record of a commit is a sound object, with evidence if it is clean.
LEMMA JournalPutKeeps ==
    ASSUME CleanInvariant, NEW t \in Clients, JournalPut(t)
    PROVE  CleanInvariant'
<1>1. th[t].path \in Paths /\ Sound(th[t].path, NewObject(t))
  BY NewObjectIsSound DEF CleanInvariant, WellFormed, JournalPut, At, WriteLabels, SealedLabels
<1>2. jnl' \in [Paths -> Object] /\ torn' \in BOOLEAN /\ \A q \in Paths : Sound(q, jnl'[q])
  BY <1>1, RecordedIsSound, Appended DEF JournalPut, Appends
<1>3. th' \in [Threads -> Thread] /\ th' = [th EXCEPT ![t] = th'[t]]
  BY Relabelled DEF CleanInvariant, JournalPut, Labels
<1>4. TypeOK'
  BY <1>2, <1>3 DEF CleanInvariant, TypeOK, JournalPut
<1>5. InOrder(t)'
  BY WriterMovesOn DEF JournalPut, At, SealedLabels, WriteLabels
<1> QED BY <1>2, <1>3, <1>4, <1>5, ObjectsAreSound, ObjectsStep DEF JournalPut

\* A put record that could not be written or synced may be there or not; either is sound.
LEMMA JournalPutFailsKeeps ==
    ASSUME CleanInvariant, NEW t \in Clients, JournalPutFails(t)
    PROVE  CleanInvariant'
<1>1. th[t].path \in Paths /\ Sound(th[t].path, NewObject(t))
  BY NewObjectIsSound DEF CleanInvariant, WellFormed, JournalPutFails, At, WriteLabels, SealedLabels
<1>2. jnl' \in [Paths -> Object] /\ torn' \in BOOLEAN /\ \A q \in Paths : Sound(q, jnl'[q])
  <2>1. jnl' \in {jnl, Recorded(th[t].path, NewObject(t))} /\ torn' \in BOOLEAN
    BY Appended DEF JournalPutFails
  <2>2. jnl \in [Paths -> Object] /\ \A q \in Paths : Sound(q, jnl[q])
    BY ObjectsAreSound DEF CleanInvariant, TypeOK
  <2> QED BY <1>1, <2>1, <2>2, RecordedIsSound
<1>3. th' \in [Threads -> Thread] /\ th' = [th EXCEPT ![t] = th'[t]] /\ InOrder(t)'
  BY IdleInOrder DEF JournalPutFails
<1>4. TypeOK'
  BY <1>2, <1>3 DEF CleanInvariant, TypeOK, JournalPutFails, Unlinked
<1> QED BY <1>2, <1>3, <1>4, ObjectsAreSound, ObjectsStep DEF JournalPutFails

\* The end of a commit puts in the index what it put in the journal.
LEMMA IndexPutKeeps ==
    ASSUME CleanInvariant, NEW t \in Clients, IndexPut(t)
    PROVE  CleanInvariant'
<1>1. th[t].path \in Paths /\ th[t].ver \in Versions /\ Sound(th[t].path, NewObject(t))
  BY NewObjectIsSound DEF CleanInvariant, WellFormed, IndexPut, At, WriteLabels, SealedLabels
<1>2. index' = [index EXCEPT ![th[t].path] = NewObject(t)]
  BY DEF IndexPut
<1>3. index' \in [Paths -> Object]
  BY <1>1, <1>2 DEF CleanInvariant, TypeOK, Sound
<1>4. \A q \in Paths : Sound(q, index'[q])
  BY <1>1, <1>2, ObjectsAreSound DEF CleanInvariant, TypeOK
<1>5. promised' \in [Paths -> 0 .. MaxVersion] /\ exposed' \subseteq Paths
  <2>1. NewObject(t).ver \in 0 .. MaxVersion
    BY <1>1, BoundsAreNat DEF NewObject
  <2>2. \/ promised' = promised
        \/ promised' = [promised EXCEPT ![th[t].path] = NewObject(t).ver]
    BY DEF IndexPut
  <2>3. exposed' \subseteq exposed \cup {th[t].path}
    BY DEF IndexPut
  <2> QED BY <1>1, <2>1, <2>2, <2>3 DEF CleanInvariant, TypeOK
<1>6. th' \in [Threads -> Thread] /\ th' = [th EXCEPT ![t] = th'[t]]
  BY Relabelled DEF CleanInvariant, IndexPut, Labels
<1>7. TypeOK'
  BY <1>3, <1>5, <1>6 DEF CleanInvariant, TypeOK, IndexPut
<1>8. InOrder(t)'
  BY WriterMovesOn DEF IndexPut, At, SealedLabels, WriteLabels
<1> QED BY <1>4, <1>6, <1>7, <1>8, ObjectsAreSound, ObjectsStep DEF IndexPut

\* The one step that gives out a version: none in use is the new one.
LEMMA SealKeeps ==
    ASSUME CleanInvariant, NEW t \in Clients, Seal(t)
    PROVE  CleanInvariant'
<1>1. PICK b \in Arrived(t) :
         /\ clock' = clock + 1
         /\ body' = [body EXCEPT ![clock + 1] = b]
         /\ unchecked' = IF b = th[t].body THEN unchecked ELSE unchecked \cup {clock + 1}
         /\ th' = [th EXCEPT ![t].pc = "rename", ![t].ver = clock + 1, ![t].body = b]
  BY DEF Seal
<1>2. /\ th[t] \in Thread /\ th[t].pc = "writing" /\ th[t].path \in Paths /\ th[t].body \in Bodies
      /\ th[t].goal \in States /\ clock \in 0 .. MaxVersion /\ clock < MaxVersion
  BY DEF CleanInvariant, TypeOK, WellFormed, Seal, At, WriteLabels
<1>3. b \in Bodies
  BY <1>2 DEF Arrived
<1>4. clock' \in Versions /\ clock' \in 0 .. MaxVersion /\ \A v \in Versions : v <= clock => body'[v] = body[v]
  BY <1>1, <1>2, BoundsAreNat DEF CleanInvariant, TypeOK
<1>5. body' \in [Versions -> Contents] /\ body'[clock'] = b
  BY <1>1, <1>3, <1>4 DEF CleanInvariant, TypeOK
<1>6. unchecked \subseteq unchecked' /\ unchecked' \subseteq Versions
  BY <1>1, <1>4 DEF CleanInvariant, TypeOK
<1>7. /\ th' = [th EXCEPT ![t] = th'[t]] /\ th'[t] \in Thread
      /\ th'[t].pc = "rename" /\ th'[t].ver = clock'
      /\ th'[t].path = th[t].path /\ th'[t].body = b /\ th'[t].goal = th[t].goal
  <2>1. th'[t] = [th[t] EXCEPT !.pc = "rename", !.ver = clock', !.body = b]
    BY <1>1 DEF CleanInvariant, TypeOK
  <2>2. th' = [th EXCEPT ![t] = th'[t]]
    BY <1>1 DEF CleanInvariant, TypeOK
  <2>3. th'[t] \in Thread
    BY <1>2, <1>3, <1>4, <2>1 DEF Thread, Labels
  <2> QED BY <1>2, <2>1, <2>2, <2>3 DEF Thread
<1>8. UNCHANGED <<index, jnl, up, held>>
  BY DEF Seal
<1>9. TypeOK'
  BY <1>4, <1>5, <1>6, <1>7 DEF CleanInvariant, TypeOK, Seal
<1>10. Issued'
  <2>1. \A u \in Threads : th'[u].ver <= clock'
    <3>1. \A u \in Threads : th[u].ver <= clock /\ th[u].ver \in 0 .. MaxVersion
      BY DEF CleanInvariant, TypeOK, Issued, Thread
    <3>2. \A u \in Threads : u # t => th'[u] = th[u]
      BY <1>7 DEF CleanInvariant, TypeOK
    <3>3. clock' = clock + 1 /\ clock \in Int /\ th'[t].ver = clock'
      BY <1>1, <1>2, <1>7
    <3>4. ASSUME NEW u \in Threads PROVE th'[u].ver <= clock'
      <4>1. th'[u].ver = clock' \/ th'[u].ver = th[u].ver
        BY <3>2, <3>3
      <4>2. th[u].ver <= clock /\ th[u].ver \in Int
        BY <3>1
      <4> QED BY <3>3, <4>1, <4>2
    <3> QED BY <3>4
  <2>2. clock' = clock + 1 /\ clock \in Int
    BY <1>1, <1>2
  <2>3. ASSUME NEW p \in Paths, NEW o \in {index[p], jnl[p]}
        PROVE  o.ver <= clock' /\ (o.ver = 0 => o = NoObject)
    <3>1. o.ver \in Int /\ o.ver <= clock /\ (o.ver = 0 => o = NoObject)
      BY DEF CleanInvariant, TypeOK, Object, Issued
    <3> QED BY <2>2, <3>1
  <2> QED BY <1>8, <2>1, <2>3 DEF Issued
<1>11. ASSUME NEW p, NEW v \in Versions, v <= clock, Confirmed(p, v)
       PROVE  body'[v] \in held'[p] \/ v \in unchecked'
  BY <1>4, <1>6, <1>8, <1>11 DEF Confirmed
<1>12. UpIsHeld' /\ CleanIsUpstream'
  <2>1. ASSUME NEW p \in Paths, NEW o \in {index[p], jnl[p]}, o # NoObject PROVE o.ver \in Versions /\ o.ver <= clock
    BY <2>1, BoundsAreNat DEF CleanInvariant, TypeOK, Issued, Object
  <2> QED BY <1>8, <1>11, <2>1 DEF CleanInvariant, UpIsHeld, CleanIsUpstream, Confirmed
<1>13. WellFormed(t)'
  BY <1>2, <1>3, <1>4, <1>7, ThreadsAreDistinct DEF WellFormed, WriteLabels, SealedLabels, States
<1>14. Backed(t)'
  <2>1. ASSUME th[t].goal = "clean" PROVE body'[clock'] \in held'[th[t].path] \/ clock' \in unchecked'
    <3>1. CASE b = th[t].body
      BY <1>2, <1>5, <1>8, <2>1, <3>1 DEF CleanInvariant, Backed
    <3>2. CASE b # th[t].body
      BY <1>1, <3>2
    <3> QED BY <3>1, <3>2
  <2> QED BY <1>4, <1>7, <2>1 DEF Backed, SealedLabels, WriteLabels, SetLabels, Confirmed
<1>15. ASSUME NEW u \in Threads, u # t
       PROVE  WellFormed(u)' /\ Backed(u)'
  <2>1. th'[u] = th[u] BY <1>7, <1>15 DEF CleanInvariant, TypeOK
  <2>2. th[u].ver <= clock BY DEF CleanInvariant, Issued
  <2>3. WellFormed(u)' BY <2>1 DEF CleanInvariant, WellFormed
  <2>4. Backed(u)' BY <1>8, <1>11, <2>1, <2>2 DEF CleanInvariant, Backed, Confirmed
  <2> QED BY <2>3, <2>4
<1> QED BY <1>9, <1>10, <1>12, <1>13, <1>14, <1>15 DEF CleanInvariant

-----------------------------------------------------------------------------
(* Eviction and forget.                                                     *)

\* A thread that is given paths to forget.
LEMMA SentToForget ==
    ASSUME CleanInvariant, NEW t \in Threads, NEW S \in SUBSET Paths,
           th[t].pc \in {"opening", "rmcheck", "evict", "open"}, UNCHANGED <<clock, body, held>>,
           th' = [th EXCEPT ![t].pc = "forget", ![t].todo = S]
    PROVE  th' \in [Threads -> Thread] /\ th' = [th EXCEPT ![t] = th'[t]] /\ InOrder(t)'
<1> DEFINE r == [th[t] EXCEPT !.pc = "forget", !.todo = S]
<1>1. th[t] \in Thread
  BY DEF CleanInvariant, TypeOK
<1>2. r \in Thread
  BY <1>1 DEF Thread, Labels
<1>3. r.pc = "forget" /\ r.path = th[t].path /\ r.goal = th[t].goal /\ r.ver = th[t].ver
  BY <1>1 DEF Thread
<1>4. th' = [th EXCEPT ![t] = r] /\ th'[t] = r /\ th' = [th EXCEPT ![t] = th'[t]]
  BY DEF CleanInvariant, TypeOK
<1> HIDE DEF r
<1>5. InOrder(t)'
  BY <1>3, <1>4 DEF CleanInvariant, InOrder, Issued, WellFormed, Backed,
     WriteLabels, SealedLabels, SetLabels
<1> QED BY <1>2, <1>4, <1>5 DEF CleanInvariant, TypeOK

\* Choosing what to evict changes no object.
LEMMA EvictKeeps ==
    ASSUME CleanInvariant, NEW t \in Threads, Evict(t)
    PROVE  CleanInvariant'
<1>1. CASE th' = [th EXCEPT ![t] = Rest(t)]
  <2>1. th'[t] = Rest(t) /\ th' \in [Threads -> Thread] /\ th' = [th EXCEPT ![t] = th'[t]]
    BY <1>1, RestInOrder DEF CleanInvariant, TypeOK
  <2>2. InOrder(t)'
    BY <2>1, RestInOrder DEF CleanInvariant, InOrder, WellFormed, Backed, Evict, At,
       WriteLabels, SealedLabels, SetLabels
  <2>3. TypeOK'
    BY <2>1 DEF CleanInvariant, TypeOK, Evict
  <2> QED BY <2>1, <2>2, <2>3, QuietStep DEF Evict, Quiet
<1>2. ASSUME NEW D \in SUBSET Paths, th' = [th EXCEPT ![t].pc = "forget", ![t].todo = D]
      PROVE  CleanInvariant'
  <2>1. th' \in [Threads -> Thread] /\ th' = [th EXCEPT ![t] = th'[t]] /\ InOrder(t)'
    BY <1>2, SentToForget DEF Evict, At
  <2>2. TypeOK'
    BY <2>1 DEF CleanInvariant, TypeOK, Evict
  <2> QED BY <2>1, <2>2, QuietStep DEF Evict, Quiet
<1> QED BY <1>1, <1>2 DEF Evict, CleanPaths

\* Removing a content file changes no object.
LEMMA UnlinkKeeps ==
    ASSUME CleanInvariant, NEW t \in Threads, Unlink(t)
    PROVE  CleanInvariant'
<1>1. /\ th' \in [Threads -> Thread] /\ th' = [th EXCEPT ![t] = th'[t]]
      /\ th'[t].pc = "drop" /\ th'[t].path = th[t].path /\ th'[t].victim = th[t].victim
      /\ th'[t].ver = th[t].ver /\ th'[t].goal = th[t].goal
  BY Relabelled DEF CleanInvariant, Unlink, Labels
<1>2. InOrder(t)'
  BY <1>1 DEF CleanInvariant, InOrder, Issued, WellFormed, Backed, Unlink, At,
     WriteLabels, SealedLabels, SetLabels
<1>3. TypeOK'
  BY <1>1 DEF CleanInvariant, TypeOK, Unlink, Unlinked
<1> QED BY <1>1, <1>2, <1>3, QuietStep DEF Unlink, Quiet

\* A drop record, written or not, leaves a sound journal.
LEMMA DropKeeps ==
    ASSUME CleanInvariant, NEW t \in Threads, Drop(t)
    PROVE  CleanInvariant'
<1>1. th[t].victim \in Paths /\ th[t].todo \in SUBSET Paths /\ th[t].pc = "drop"
  BY DEF CleanInvariant, TypeOK, Thread, WellFormed, Drop, At
<1>2. jnl' \in [Paths -> Object] /\ torn' \in BOOLEAN /\ \A q \in Paths : Sound(q, jnl'[q])
  <2>1. jnl' \in {jnl, Recorded(th[t].victim, NoObject)} /\ torn' \in BOOLEAN
    BY Appended DEF Drop
  <2>2. jnl \in [Paths -> Object] /\ \A q \in Paths : Sound(q, jnl[q])
    BY ObjectsAreSound DEF CleanInvariant, TypeOK
  <2> QED BY <1>1, <2>1, <2>2, RecordedIsSound, NoObjectIsSound
<1>3. /\ th'[t] = AfterForget(t, th[t].todo)
      /\ th' \in [Threads -> Thread] /\ th' = [th EXCEPT ![t] = th'[t]]
  BY <1>1, AfterForgetInOrder DEF CleanInvariant, TypeOK, Drop
<1>4. InOrder(t)'
  BY <1>1, <1>3, AfterForgetInOrder DEF CleanInvariant, InOrder, WellFormed, Backed, Drop,
     WriteLabels, SealedLabels, SetLabels
<1>5. TypeOK'
  BY <1>2, <1>3 DEF CleanInvariant, TypeOK, Drop
<1> QED BY <1>2, <1>3, <1>4, <1>5, ObjectsAreSound, ObjectsStep DEF Drop

\* forget leaves no object, or the one there was.
LEMMA ForgetIndexKeeps ==
    ASSUME CleanInvariant, NEW t \in Threads, ForgetIndex(t)
    PROVE  CleanInvariant'
<1> PICK p \in th[t].todo :
       \/ /\ index[p] = NoObject
          /\ th' = [th EXCEPT ![t] = AfterForget(t, th[t].todo \ {p})]
          /\ UNCHANGED indexVars
       \/ /\ index' = [index EXCEPT ![p] = NoObject]
          /\ th' = [th EXCEPT ![t].pc = "unlink", ![t].victim = p, ![t].todo = @ \ {p}]
  BY DEF ForgetIndex
<1>1. p \in Paths /\ th[t].todo \ {p} \in SUBSET Paths /\ th[t].pc = "forget"
  BY DEF CleanInvariant, TypeOK, Thread, ForgetIndex, At
<1>2. CASE /\ th' = [th EXCEPT ![t] = AfterForget(t, th[t].todo \ {p})]
           /\ UNCHANGED indexVars
  <2>1. /\ th'[t] = AfterForget(t, th[t].todo \ {p})
        /\ th' \in [Threads -> Thread] /\ th' = [th EXCEPT ![t] = th'[t]]
    BY <1>1, <1>2, AfterForgetInOrder DEF CleanInvariant, TypeOK
  <2>2. InOrder(t)'
    BY <1>1, <2>1, AfterForgetInOrder DEF CleanInvariant, InOrder, WellFormed, Backed, ForgetIndex,
       WriteLabels, SealedLabels, SetLabels
  <2>3. TypeOK'
    BY <1>2, <2>1 DEF CleanInvariant, TypeOK, ForgetIndex
  <2> QED BY <1>2, <2>1, <2>2, <2>3, QuietStep DEF ForgetIndex, Quiet
<1>3. CASE /\ index' = [index EXCEPT ![p] = NoObject]
           /\ th' = [th EXCEPT ![t].pc = "unlink", ![t].victim = p, ![t].todo = @ \ {p}]
  <2>1. /\ th' \in [Threads -> Thread] /\ th' = [th EXCEPT ![t] = th'[t]]
        /\ th'[t].pc = "unlink" /\ th'[t].path = th[t].path /\ th'[t].victim = p
        /\ th'[t].ver = th[t].ver /\ th'[t].goal = th[t].goal
    <3>1. th[t] \in Thread
      BY DEF CleanInvariant, TypeOK
    <3>2. PICK r : r = [th[t] EXCEPT !.pc = "unlink", !.victim = p, !.todo = @ \ {p}]
      OBVIOUS
    <3>3. th' = [th EXCEPT ![t] = r] /\ th'[t] = r
      BY <1>3, <3>2 DEF CleanInvariant, TypeOK
    <3>4. r \in Thread /\ r.pc = "unlink" /\ r.path = th[t].path /\ r.victim = p
          /\ r.ver = th[t].ver /\ r.goal = th[t].goal
      BY <1>1, <3>1, <3>2 DEF Thread, Labels
    <3> QED BY <3>3, <3>4 DEF CleanInvariant, TypeOK
  <2>2. InOrder(t)'
    BY <1>1, <2>1 DEF Confirmed, CleanInvariant, InOrder, Issued, WellFormed, Backed, ForgetIndex,
       WriteLabels, SealedLabels, SetLabels
  <2>3. NoObject \in Object /\ \A q \in Paths : Sound(q, NoObject)
    BY NoObjectIsSound DEF Sound, CleanInvariant
  <2>4. \A q \in Paths : Sound(q, index'[q])
    BY <1>1, <1>3, <2>3, ObjectsAreSound DEF CleanInvariant, TypeOK
  <2>5. TypeOK'
    BY <1>1, <1>3, <2>1, <2>3 DEF CleanInvariant, TypeOK, ForgetIndex
  <2> QED BY <2>1, <2>2, <2>4, <2>5, ObjectsAreSound, ObjectsStep DEF ForgetIndex
<1> QED BY <1>2, <1>3

-----------------------------------------------------------------------------
(* Reading, refreshing, clearing and deleting.                              *)

\* The record of a request that reads, discards or deletes.
LEMMA AskingInOrder ==
    ASSUME NEW l \in Labels, NEW p \in Paths \cup {NoPath}, NEW g \in States \cup {"delete"},
           NEW S \in SUBSET Paths
    PROVE  /\ Asking(l, p, g, S) \in Thread
           /\ Asking(l, p, g, S).pc = l /\ Asking(l, p, g, S).path = p
           /\ Asking(l, p, g, S).goal = g /\ Asking(l, p, g, S).ver = 0
BY IdleTyped DEF Asking, Thread

\* A request that has only asked: whichever of the four it is.
LEMMA AskingKeeps ==
    ASSUME CleanInvariant, NEW t \in Clients, NEW l \in {"opening", "forget", "rmcheck"},
           NEW p \in Paths \cup {NoPath}, NEW g \in {"clean", "delete"}, NEW S \in SUBSET Paths,
           p = NoPath => l = "forget" /\ g = "clean",
           th' = [th EXCEPT ![t] = Asking(l, p, g, S)],
           Quiet, UNCHANGED <<claimVars, fileVars, torn, unchecked, lifeVars, oweVars>>
    PROVE  CleanInvariant'
<1>1. /\ Asking(l, p, g, S) \in Thread
      /\ Asking(l, p, g, S).pc = l /\ Asking(l, p, g, S).path = p
      /\ Asking(l, p, g, S).goal = g /\ Asking(l, p, g, S).ver = 0
  BY AskingInOrder DEF Labels, States
<1>2. /\ th'[t] = Asking(l, p, g, S)
      /\ th' \in [Threads -> Thread] /\ th' = [th EXCEPT ![t] = th'[t]]
  BY <1>1 DEF CleanInvariant, TypeOK
<1>3. TypeOK'
  BY <1>2 DEF CleanInvariant, TypeOK, Quiet
<1>4. WellFormed(t)'
  BY <1>1, <1>2, ThreadsAreDistinct DEF WellFormed, WriteLabels, SealedLabels
<1>5. Backed(t)' /\ th'[t].ver <= clock'
  BY <1>1, <1>2 DEF CleanInvariant, TypeOK, Backed, SealedLabels, WriteLabels, SetLabels, Quiet
<1> QED BY <1>2, <1>3, <1>4, <1>5, QuietStep DEF InOrder

\* A read that hits has only looked at the index.
LEMMA GetHitKeeps ==
    ASSUME CleanInvariant, NEW t \in Clients, NEW p \in Paths, GetHit(t, p)
    PROVE  CleanInvariant'
<1>1. p # NoPath /\ p \in Paths \cup {NoPath} /\ {p} \in SUBSET Paths /\ {} \in SUBSET Paths
  BY NullsAreFresh
<1>2. th' = [th EXCEPT ![t] = Asking("opening", p, "clean", {})]
  BY DEF GetHit
<1>3. Quiet /\ UNCHANGED <<claimVars, fileVars, torn, unchecked, lifeVars, oweVars>>
  BY DEF GetHit, Quiet
<1> QED BY <1>1, <1>2, <1>3, AskingKeeps

\* Refresh has only chosen what to forget.
LEMMA RefreshKeeps ==
    ASSUME CleanInvariant, NEW t \in Clients, NEW p \in Paths, Refresh(t, p)
    PROVE  CleanInvariant'
<1>1. p # NoPath /\ p \in Paths \cup {NoPath} /\ {p} \in SUBSET Paths /\ {} \in SUBSET Paths
  BY NullsAreFresh
<1>2. th' = [th EXCEPT ![t] = Asking("forget", p, "clean", {p})]
  BY DEF Refresh
<1>3. Quiet /\ UNCHANGED <<claimVars, fileVars, torn, unchecked, lifeVars, oweVars>>
  BY DEF Refresh, Quiet
<1> QED BY <1>1, <1>2, <1>3, AskingKeeps

\* Clear has only chosen what to forget.
LEMMA ClearKeeps ==
    ASSUME CleanInvariant, NEW t \in Clients, Clear(t)
    PROVE  CleanInvariant'
<1>1. CleanPaths \in SUBSET Paths BY DEF CleanPaths
<1> QED BY <1>1, AskingKeeps DEF Clear, Quiet

\* A delete begins by looking at nothing.
LEMMA RemoveBeginKeeps ==
    ASSUME CleanInvariant, NEW t \in Clients, NEW p \in Paths, RemoveBegin(t, p)
    PROVE  CleanInvariant'
<1>1. p # NoPath /\ p \in Paths \cup {NoPath} /\ {p} \in SUBSET Paths /\ {} \in SUBSET Paths
  BY NullsAreFresh
<1>2. th' = [th EXCEPT ![t] = Asking("rmcheck", p, "delete", {})]
  BY DEF RemoveBegin
<1>3. Quiet /\ UNCHANGED <<claimVars, fileVars, torn, unchecked, lifeVars, oweVars>>
  BY DEF RemoveBegin, Quiet
<1> QED BY <1>1, <1>2, <1>3, AskingKeeps

\* A read opens the file, or forgets an object without one.
LEMMA GetOpenKeeps ==
    ASSUME CleanInvariant, NEW t \in Clients, GetOpen(t)
    PROVE  CleanInvariant'
<1>1. th[t].path \in Paths /\ th[t].pc = "opening"
  BY DEF CleanInvariant, WellFormed, GetOpen, At
<1>2. th' \in [Threads -> Thread] /\ th' = [th EXCEPT ![t] = th'[t]] /\ InOrder(t)'
  <2>1. {th[t].path} \in SUBSET Paths BY <1>1
  <2> QED BY <1>1, <2>1, IdleInOrder, SentToForget DEF GetOpen
<1>3. jnl' = jnl /\ torn' \in BOOLEAN
  BY Appended DEF GetOpen, CleanInvariant, TypeOK
<1>4. TypeOK'
  BY <1>2, <1>3 DEF CleanInvariant, TypeOK, GetOpen
<1> QED BY <1>2, <1>3, <1>4, QuietStep DEF GetOpen, Quiet

\* One turn of Remove's loop changes no object.
LEMMA RemoveCheckKeeps ==
    ASSUME CleanInvariant, NEW t \in Clients, RemoveCheck(t)
    PROVE  CleanInvariant'
<1>1. th[t].path \in Paths /\ th[t].pc = "rmcheck"
  BY DEF CleanInvariant, WellFormed, RemoveCheck, At
<1>2. ASSUME NEW l \in {"delete", "rmwait"}, Goto(t, l)
      PROVE  th' \in [Threads -> Thread] /\ th' = [th EXCEPT ![t] = th'[t]] /\ InOrder(t)'
  <2>1. /\ th' \in [Threads -> Thread] /\ th' = [th EXCEPT ![t] = th'[t]]
        /\ th'[t].pc = l /\ th'[t].path = th[t].path
        /\ th'[t].goal = th[t].goal /\ th'[t].ver = th[t].ver
    BY <1>2, Relabelled DEF CleanInvariant, Labels
  <2>2. InOrder(t)'
    BY <1>1, <2>1, ThreadsAreDistinct DEF CleanInvariant, InOrder, Issued, WellFormed, Backed,
       RemoveCheck, WriteLabels, SealedLabels, SetLabels
  <2> QED BY <2>1, <2>2
<1>3. th' \in [Threads -> Thread] /\ th' = [th EXCEPT ![t] = th'[t]] /\ InOrder(t)'
  <2>1. {th[t].path} \in SUBSET Paths BY <1>1
  <2> QED BY <1>1, <1>2, <2>1, SentToForget DEF RemoveCheck
<1>4. cancelled' \subseteq Paths /\ promised' \in [Paths -> 0 .. MaxVersion]
  <2>1. cancelled' \in {cancelled, cancelled \cup {th[t].path}}
    BY DEF RemoveCheck
  <2>2. promised' = promised \/ promised' = [promised EXCEPT ![th[t].path] = 0]
    BY DEF RemoveCheck
  <2>3. 0 \in 0 .. MaxVersion
    BY BoundsAreNat
  <2>4. promised \in [Paths -> 0 .. MaxVersion] /\ cancelled \subseteq Paths
    BY DEF CleanInvariant, TypeOK
  <2>5. cancelled' \subseteq Paths
    BY <1>1, <2>1, <2>4
  <2> QED BY <2>2, <2>3, <2>4, <2>5
<1>5. TypeOK'
  BY <1>3, <1>4 DEF CleanInvariant, TypeOK, RemoveCheck
<1> QED BY <1>3, <1>5, QuietStep DEF RemoveCheck, Quiet

\* A delete whose context ends while it waits leaves everything as it is.
LEMMA RemoveGivesUpKeeps ==
    ASSUME CleanInvariant, NEW t \in Clients, RemoveGivesUp(t)
    PROVE  CleanInvariant'
<1>1. TypeOK'
  BY IdleTyped DEF CleanInvariant, TypeOK, RemoveGivesUp, Reset
<1> QED BY <1>1, ResetKeeps DEF RemoveGivesUp, Quiet

\* Upstream losing a file takes away nothing it has had.
LEMMA DeleteUpstreamKeeps ==
    ASSUME CleanInvariant, NEW t \in Clients, DeleteUpstream(t)
    PROVE  CleanInvariant'
<1>1. th[t].path \in Paths
  BY DEF CleanInvariant, WellFormed, DeleteUpstream, At
<1>2. up' \in [Paths -> Contents] /\ UpIsHeld'
  BY <1>1 DEF CleanInvariant, TypeOK, UpIsHeld, DeleteUpstream
<1>3. th' \in [Threads -> Thread] /\ th' = [th EXCEPT ![t] = th'[t]] /\ InOrder(t)'
  BY IdleInOrder DEF DeleteUpstream
<1>4. TypeOK'
  BY <1>2, <1>3 DEF CleanInvariant, TypeOK, DeleteUpstream
<1>5. \A u \in Threads : InOrder(u)'
  BY <1>3, OneThreadMoves DEF DeleteUpstream
<1>6. Issued' /\ CleanIsUpstream'
  BY <1>5 DEF Confirmed, CleanInvariant, Issued, CleanIsUpstream, InOrder, DeleteUpstream
<1> QED BY <1>2, <1>4, <1>5, <1>6 DEF CleanInvariant, InOrder

-----------------------------------------------------------------------------
(* Flushing.                                                                *)

\* The record of a worker that has claimed a path.
LEMMA HoldingInOrder ==
    ASSUME NEW p \in Paths, NEW v \in 0 .. MaxVersion
    PROVE  /\ Holding(p, v) \in Thread /\ Holding(p, v).pc = "check"
           /\ Holding(p, v).path = p /\ Holding(p, v).ver = v /\ Holding(p, v).goal = "uploading"
BY IdleTyped DEF Holding, Thread, Labels, States

\* A claim remembers a version that was given out.
LEMMA ClaimKeeps ==
    ASSUME CleanInvariant, NEW w \in Workers, NEW p \in Paths, Claim(w, p)
    PROVE  CleanInvariant'
<1> DEFINE v == index[p].ver
<1>1. v \in Versions /\ v \in 0 .. MaxVersion /\ v <= clock
  BY BoundsAreNat DEF CleanInvariant, TypeOK, Issued, Claim, Claimable, Unsent, NoObject, Object
<1>2. th'[w] = Holding(p, v) /\ th' = [th EXCEPT ![w] = th'[w]]
  BY DEF CleanInvariant, TypeOK, Claim
<1> HIDE DEF v
<1>3. TypeOK'
  BY <1>1, <1>2, HoldingInOrder DEF CleanInvariant, TypeOK, Claim
<1>4. WellFormed(w)'
  BY <1>1, <1>2, HoldingInOrder DEF WellFormed, WriteLabels, SealedLabels, States
<1>5. Backed(w)' /\ th'[w].ver <= clock'
  BY <1>1, <1>2, HoldingInOrder DEF Claim, Backed, WriteLabels, SealedLabels, SetLabels
<1> QED BY <1>2, <1>3, <1>4, <1>5, QuietStep DEF Claim, Quiet, InOrder

\* A worker that goes from one step of a flush to another with nothing new to show.
LEMMA WorkerMovesOn ==
    ASSUME CleanInvariant, NEW w \in Workers, th[w].pc # "idle",
           NEW l \in SetLabels \cup {"open", "evict", "end"}, l \in SetLabels => th[w].pc \in SetLabels,
           Goto(w, l), UNCHANGED <<clock, body, held, unchecked>>
    PROVE  th' \in [Threads -> Thread] /\ th' = [th EXCEPT ![w] = th'[w]] /\ InOrder(w)'
<1>1. /\ th' \in [Threads -> Thread] /\ th' = [th EXCEPT ![w] = th'[w]]
      /\ th'[w].pc = l /\ th'[w].path = th[w].path /\ th'[w].body = th[w].body
      /\ th'[w].ver = th[w].ver /\ th'[w].goal = th[w].goal
  BY Relabelled DEF CleanInvariant, SetLabels, Labels
<1>2. WellFormed(w)'
  BY <1>1 DEF CleanInvariant, WellFormed, SealedLabels, WriteLabels, SetLabels
<1>3. Backed(w)'
  BY <1>1 DEF Confirmed, CleanInvariant, Backed, SealedLabels, WriteLabels, SetLabels
<1> QED BY <1>1, <1>2, <1>3 DEF CleanInvariant, InOrder, Issued

\* After setState a worker opens the content, evicts or ends, in order.
LEMMA AfterSetInOrder ==
    ASSUME CleanInvariant, NEW w \in Workers, th[w].pc \in SetLabels, NEW applied \in BOOLEAN,
           th' = [th EXCEPT ![w] = AfterSet(w, applied)], UNCHANGED <<clock, body, held, unchecked>>
    PROVE  th' \in [Threads -> Thread] /\ th' = [th EXCEPT ![w] = th'[w]] /\ InOrder(w)'
<1>1. PICK l \in {"open", "evict", "end"} : AfterSet(w, applied) = [th[w] EXCEPT !.pc = l]
  BY DEF AfterSet
<1>2. Goto(w, l)
  BY <1>1 DEF Goto, CleanInvariant, TypeOK
<1> QED BY <1>2, WorkerMovesOn DEF SetLabels

\* The first check of setState changes nothing.
LEMMA SetCheckKeeps ==
    ASSUME CleanInvariant, NEW w \in Workers, SetCheck(w)
    PROVE  CleanInvariant'
<1>1. th' \in [Threads -> Thread] /\ th' = [th EXCEPT ![w] = th'[w]] /\ InOrder(w)'
  BY WorkerMovesOn, AfterSetInOrder DEF SetCheck, At, SetLabels
<1>2. TypeOK'
  BY <1>1 DEF CleanInvariant, TypeOK, SetCheck
<1> QED BY <1>1, <1>2, QuietStep DEF SetCheck, Quiet

\* A state record is keyed by the version, so it moves only the object it is about.
LEMMA SetAppendKeeps ==
    ASSUME CleanInvariant, NEW w \in Workers, SetAppend(w)
    PROVE  CleanInvariant'
<1> DEFINE p == th[w].path
           rec == RecordedState(p, th[w].ver, th[w].goal)
<1>1. p \in Paths /\ th[w].pc \in SetLabels
  BY DEF CleanInvariant, WellFormed, SetAppend, At, SetLabels
<1>2. rec \in [Paths -> Object] /\ \A q \in Paths : Sound(q, rec[q])
  <2>1. CASE torn \/ jnl[p].ver # th[w].ver
    BY <2>1, ObjectsAreSound DEF RecordedState, CleanInvariant, TypeOK
  <2>2. CASE ~torn /\ jnl[p].ver = th[w].ver
    <3> DEFINE o == [jnl[p] EXCEPT !.state = th[w].goal]
    <3>1. Sound(p, o)
      BY <1>1, <2>2, ObjectsAreSound, ChangedObjectIsSound
    <3>2. rec = [jnl EXCEPT ![p] = o]
      BY <2>2 DEF RecordedState
    <3> HIDE DEF o, rec
    <3> QED BY <1>1, <3>1, <3>2, ObjectsAreSound DEF CleanInvariant, TypeOK, Sound
  <2> QED BY <2>1, <2>2
<1>3. jnl' \in {jnl, rec} /\ torn' \in BOOLEAN
  BY Appended DEF SetAppend
<1> HIDE DEF rec
<1>4. jnl' \in [Paths -> Object] /\ \A q \in Paths : Sound(q, jnl'[q])
  BY <1>2, <1>3, ObjectsAreSound DEF CleanInvariant, TypeOK
<1>5. th' \in [Threads -> Thread] /\ th' = [th EXCEPT ![w] = th'[w]] /\ InOrder(w)'
  BY <1>1, WorkerMovesOn, AfterSetInOrder DEF SetAppend, SetLabels
<1>6. TypeOK'
  BY <1>3, <1>4, <1>5 DEF CleanInvariant, TypeOK, SetAppend
<1> QED BY <1>4, <1>5, <1>6, ObjectsAreSound, ObjectsStep DEF SetAppend

\* setState moves the index only when the version is still the one it is about.
LEMMA SetApplyKeeps ==
    ASSUME CleanInvariant, NEW w \in Workers, SetApply(w)
    PROVE  CleanInvariant'
<1> DEFINE p == th[w].path
           o == [index[p] EXCEPT !.state = th[w].goal]
<1>1. p \in Paths /\ th[w].pc \in SetLabels
  BY DEF CleanInvariant, WellFormed, SetApply, At, SetLabels
<1>2. index' \in [Paths -> Object] /\ \A q \in Paths : Sound(q, index'[q])
  <2>1. CASE Current(w)
    <3>1. Sound(p, o)
      BY <1>1, <2>1, ObjectsAreSound, ChangedObjectIsSound DEF Current
    <3>2. index' = [index EXCEPT ![p] = o]
      BY <2>1 DEF SetApply
    <3> HIDE DEF o
    <3> QED BY <1>1, <3>1, <3>2, ObjectsAreSound DEF CleanInvariant, TypeOK, Sound
  <2>2. CASE ~Current(w)
    BY <2>2, ObjectsAreSound DEF SetApply, CleanInvariant, TypeOK
  <2> QED BY <2>1, <2>2
<1>3. Current(w) \in BOOLEAN
  BY DEF Current
<1>4. th' \in [Threads -> Thread] /\ th' = [th EXCEPT ![w] = th'[w]] /\ InOrder(w)'
  BY <1>1, <1>3, AfterSetInOrder DEF SetApply
<1>5. TypeOK'
  BY <1>2, <1>4 DEF CleanInvariant, TypeOK, SetApply
<1> QED BY <1>2, <1>4, <1>5, ObjectsAreSound, ObjectsStep DEF SetApply

\* A worker that takes a content with it.
LEMMA WorkerTakes ==
    ASSUME CleanInvariant, NEW w \in Workers, th[w].pc # "idle",
           NEW l \in {"upload", "landed"}, NEW b \in Bodies,
           th' = [th EXCEPT ![w].pc = l, ![w].body = b]
    PROVE  /\ th' \in [Threads -> Thread] /\ th' = [th EXCEPT ![w] = th'[w]] /\ WellFormed(w)'
           /\ th'[w].pc = l /\ th'[w].body = b
           /\ th'[w].path = th[w].path /\ th'[w].ver = th[w].ver
<1> DEFINE r == [th[w] EXCEPT !.pc = l, !.body = b]
<1>1. th[w] \in Thread
  BY DEF CleanInvariant, TypeOK
<1>2. r \in Thread
  BY <1>1 DEF Thread, Labels
<1>3. /\ r.pc = l /\ r.body = b /\ r.path = th[w].path
      /\ r.goal = th[w].goal /\ r.ver = th[w].ver
  BY <1>1 DEF Thread
<1>4. th' = [th EXCEPT ![w] = r] /\ th'[w] = r /\ th' = [th EXCEPT ![w] = th'[w]]
  BY DEF CleanInvariant, TypeOK
<1> HIDE DEF r
<1>5. WellFormed(w)'
  BY <1>3, <1>4 DEF CleanInvariant, WellFormed, WriteLabels, SealedLabels
<1> QED BY <1>2, <1>3, <1>4, <1>5 DEF CleanInvariant, TypeOK

\* A worker opens the content, or forgets an object without one.
LEMMA OpenContentKeeps ==
    ASSUME CleanInvariant, NEW w \in Workers, OpenContent(w)
    PROVE  CleanInvariant'
<1>1. th[w].path \in Paths /\ th[w].pc = "open" /\ {th[w].path} \in SUBSET Paths
  BY DEF CleanInvariant, WellFormed, OpenContent, At
<1>2. th' \in [Threads -> Thread] /\ th' = [th EXCEPT ![w] = th'[w]] /\ InOrder(w)'
  <2>1. CASE files[th[w].path] = NoBody
    BY <1>1, <2>1, SentToForget DEF OpenContent
  <2>2. CASE files[th[w].path] # NoBody
    <3>1. files[th[w].path] \in Bodies
      BY <1>1, <2>2 DEF CleanInvariant, TypeOK
    <3>2. /\ th' \in [Threads -> Thread] /\ th' = [th EXCEPT ![w] = th'[w]] /\ WellFormed(w)'
          /\ th'[w].pc = "upload" /\ th'[w].ver = th[w].ver
      BY <1>1, <2>2, <3>1, WorkerTakes DEF OpenContent
    <3> QED BY <3>2 DEF CleanInvariant, InOrder, Issued, Backed, OpenContent,
                        WriteLabels, SealedLabels, SetLabels
  <2> QED BY <2>1, <2>2
<1>3. TypeOK'
  BY <1>2 DEF CleanInvariant, TypeOK, OpenContent
<1> QED BY <1>2, <1>3, QuietStep DEF OpenContent, Quiet

\* What upstream stores it has had from then on.
LEMMA UploadLandsKeeps ==
    ASSUME CleanInvariant, NEW w \in Workers, UploadLands(w)
    PROVE  CleanInvariant'
<1> DEFINE p == th[w].path
<1> PICK b \in {th[w].body} \cup (IF "corrupt" \in Faults THEN Bodies ELSE {}) :
       /\ up' = [up EXCEPT ![p] = b]
       /\ held' = [held EXCEPT ![p] = @ \cup {b}]
       /\ th' = [th EXCEPT ![w].pc = "landed", ![w].body = b]
  BY DEF UploadLands
<1>1. p \in Paths /\ b \in Bodies /\ th[w].pc = "upload"
  BY DEF CleanInvariant, WellFormed, UploadLands, At
<1>2. up' \in [Paths -> Contents] /\ held' \in [Paths -> SUBSET Bodies]
  BY <1>1 DEF CleanInvariant, TypeOK
<1>3. (\A q \in Paths : held[q] \subseteq held'[q]) /\ b \in held'[p] /\ UpIsHeld'
  BY <1>1 DEF CleanInvariant, TypeOK, UpIsHeld
<1>4. /\ th' \in [Threads -> Thread] /\ th' = [th EXCEPT ![w] = th'[w]] /\ WellFormed(w)'
      /\ th'[w].pc = "landed" /\ th'[w].body = b /\ th'[w].path = p /\ th'[w].ver = th[w].ver
  BY <1>1, WorkerTakes
<1>5. TypeOK'
  BY <1>2, <1>4 DEF CleanInvariant, TypeOK, UploadLands
<1>6. Backed(w)'
  BY <1>3, <1>4 DEF Backed, WriteLabels, SealedLabels, SetLabels
<1>7. ASSUME NEW u \in Threads, u # w
      PROVE  WellFormed(u)' /\ Backed(u)' /\ th'[u].ver = th[u].ver
  <2>1. th'[u] = th[u] BY <1>4, <1>7 DEF CleanInvariant, TypeOK
  <2>2. WellFormed(u)' BY <2>1 DEF CleanInvariant, WellFormed
  <2>3. Backed(u)'
    BY <1>3, <2>1 DEF Confirmed, CleanInvariant, WellFormed, Backed, UploadLands, SealedLabels, SetLabels,
       WriteLabels, TypeOK, Thread
  <2> QED BY <2>1, <2>2, <2>3
<1>8. Issued' /\ CleanIsUpstream'
  BY <1>3, <1>4, <1>7 DEF Confirmed, CleanInvariant, Issued, CleanIsUpstream, UploadLands
<1> QED BY <1>3, <1>4, <1>5, <1>6, <1>7, <1>8 DEF CleanInvariant

\* The evidence: what landed is what the version was given, and upstream has it.
LEMMA UploadAnswersKeeps ==
    ASSUME CleanInvariant, NEW w \in Workers, UploadAnswers(w)
    PROVE  CleanInvariant'
<1>1. /\ th[w] \in Thread /\ th[w].path \in Paths /\ th[w].ver \in Versions
      /\ th[w].pc = "landed" /\ th[w].body \in held[th[w].path]
  BY DEF CleanInvariant, TypeOK, WellFormed, Backed, UploadAnswers, At
<1>2. PICK g \in {"clean", "dirty"} :
         /\ th' = [th EXCEPT ![w].pc = "check", ![w].goal = g]
         /\ g = "clean" => body[th[w].ver] \in held[th[w].path] \/ th[w].ver \in unchecked'
  BY <1>1 DEF UploadAnswers, HashAgrees
<1>3. unchecked \subseteq unchecked' /\ unchecked' \subseteq Versions
  <2>1. unchecked' = unchecked \/ unchecked' = unchecked \cup {th[w].ver}
    BY DEF UploadAnswers
  <2> QED BY <1>1, <2>1 DEF CleanInvariant, TypeOK
<1>4. PICK r : r = [th[w] EXCEPT !.pc = "check", !.goal = g]
  OBVIOUS
<1>5. th' = [th EXCEPT ![w] = r] /\ th'[w] = r /\ th' = [th EXCEPT ![w] = th'[w]]
  BY <1>2, <1>4 DEF CleanInvariant, TypeOK
<1>6. r \in Thread
  BY <1>1, <1>4 DEF Thread, Labels, States
<1>7. r.pc = "check" /\ r.goal = g /\ r.path = th[w].path /\ r.ver = th[w].ver
  BY <1>1, <1>4 DEF Thread
<1>8. promised' \in [Paths -> 0 .. MaxVersion]
  <2>1. 0 \in 0 .. MaxVersion BY BoundsAreNat
  <2>2. promised \in [Paths -> 0 .. MaxVersion] BY DEF CleanInvariant, TypeOK
  <2>3. promised' = promised \/ promised' = [promised EXCEPT ![th[w].path] = 0]
    BY <2>2 DEF UploadAnswers
  <2> QED BY <2>1, <2>2, <2>3
<1>9. TypeOK'
  BY <1>3, <1>5, <1>6, <1>8 DEF CleanInvariant, TypeOK, UploadAnswers
<1>10. WellFormed(w)'
  BY <1>1, <1>5, <1>7 DEF WellFormed, WriteLabels, SealedLabels, States
<1>11. Backed(w)' /\ th'[w].ver <= clock'
  BY <1>1, <1>2, <1>5, <1>7
  DEF UploadAnswers, CleanInvariant, Issued, Backed, Confirmed, WriteLabels, SealedLabels, SetLabels
<1> QED BY <1>3, <1>5, <1>9, <1>10, <1>11, QuietStep DEF UploadAnswers, Quiet, InOrder

\* A failed upload makes the object dirty, which needs no evidence.
LEMMA UploadFailsKeeps ==
    ASSUME CleanInvariant, NEW w \in Workers, UploadFails(w)
    PROVE  CleanInvariant'
<1> DEFINE r == [th[w] EXCEPT !.pc = "check", !.goal = "dirty"]
<1>1. /\ th[w] \in Thread /\ th[w].path \in Paths /\ th[w].ver \in Versions
  BY DEF CleanInvariant, TypeOK, WellFormed, UploadFails, At
<1>2. th' = [th EXCEPT ![w] = r] /\ th'[w] = r /\ th' = [th EXCEPT ![w] = th'[w]]
  BY DEF CleanInvariant, TypeOK, UploadFails
<1>3. r \in Thread
  BY <1>1 DEF Thread, Labels, States
<1>4. r.pc = "check" /\ r.goal = "dirty" /\ r.path = th[w].path /\ r.ver = th[w].ver
  BY <1>1 DEF Thread
<1> HIDE DEF r
<1>5. TypeOK'
  BY <1>2, <1>3 DEF CleanInvariant, TypeOK, UploadFails
<1>6. InOrder(w)'
  BY <1>1, <1>2, <1>4 DEF UploadFails, CleanInvariant, Issued, InOrder, WellFormed, Backed,
     WriteLabels, SealedLabels, SetLabels, States
<1> QED BY <1>2, <1>5, <1>6, QuietStep DEF UploadFails, Quiet

\* An upload stopped by Remove records nothing.
LEMMA UploadStoppedKeeps ==
    ASSUME CleanInvariant, NEW w \in Workers, UploadStopped(w)
    PROVE  CleanInvariant'
<1>1. th' \in [Threads -> Thread] /\ th' = [th EXCEPT ![w] = th'[w]] /\ InOrder(w)'
  BY WorkerMovesOn DEF UploadStopped, At, SetLabels
<1>2. TypeOK'
  BY <1>1 DEF CleanInvariant, TypeOK, UploadStopped
<1> QED BY <1>1, <1>2, QuietStep DEF UploadStopped, Quiet

\* The one step that moves several threads: the waiters are woken.
LEMMA EndKeeps ==
    ASSUME CleanInvariant, NEW w \in Workers, End(w)
    PROVE  CleanInvariant'
<1>1. ASSUME NEW u \in Threads
      PROVE  th'[u] \in Thread /\ InOrder(u)'
  <2>1. CASE u = w
    <3>1. th'[u] = Idle BY <2>1 DEF End
    <3>2. WellFormed(u)' BY <3>1, IdleTyped DEF WellFormed, WriteLabels, SealedLabels
    <3>3. Backed(u)' BY <3>1, IdleTyped DEF Backed, WriteLabels, SealedLabels, SetLabels
    <3>4. clock' = clock /\ 0 <= clock BY DEF CleanInvariant, TypeOK, End
    <3> QED BY <3>1, <3>2, <3>3, <3>4, IdleTyped DEF InOrder
  <2>2. CASE u # w /\ th[u].pc = "rmwait"
    <3>1. th'[u] = [th[u] EXCEPT !.pc = "rmcheck"] BY <2>2 DEF End
    <3>2. th[u] \in Thread BY DEF CleanInvariant, TypeOK
    <3>3. th'[u] \in Thread BY <3>1, <3>2 DEF Thread, Labels
    <3>4. /\ th'[u].pc = "rmcheck" /\ th'[u].path = th[u].path
          /\ th'[u].goal = th[u].goal /\ th'[u].ver = th[u].ver
      BY <3>1, <3>2 DEF Thread
    <3> QED BY <2>2, <3>3, <3>4 DEF CleanInvariant, Issued, End, InOrder, WellFormed, Backed,
               WriteLabels, SealedLabels, SetLabels
  <2>3. CASE u # w /\ th[u].pc # "rmwait"
    <3>1. th'[u] = th[u] BY <2>3 DEF End
    <3>2. th[u] \in Thread BY DEF CleanInvariant, TypeOK
    <3>3. Backed(u)'
      BY <3>1, StaysConfirmed DEF CleanInvariant, End, Backed
    <3>4. WellFormed(u)'
      BY <3>1 DEF CleanInvariant, WellFormed
    <3> QED BY <3>1, <3>2, <3>3, <3>4 DEF CleanInvariant, Issued, End, InOrder
  <2> QED BY <2>1, <2>2, <2>3
<1>2. th' \in [Threads -> Thread]
  BY <1>1 DEF End
<1>3. inFlight' \in [Paths -> Workers \cup {NoWorker}] /\ cancelled' \subseteq Paths
  BY DEF CleanInvariant, TypeOK, End
<1>4. TypeOK'
  BY <1>2, <1>3 DEF CleanInvariant, TypeOK, End
<1> QED BY <1>1, <1>4, QuietThreads DEF End, Quiet

-----------------------------------------------------------------------------
(* The process.                                                             *)

\* Every thread starts again from nothing.
LEMMA AllIdle ==
    ASSUME CleanInvariant, th' = [t \in Threads |-> Idle], clock' = clock
    PROVE  th' \in [Threads -> Thread] /\ \A u \in Threads : InOrder(u)'
<1>1. ASSUME NEW u \in Threads PROVE InOrder(u)'
  <2>1. th'[u] = Idle OBVIOUS
  <2>2. WellFormed(u)'
    BY <2>1, IdleTyped DEF WellFormed, WriteLabels, SealedLabels
  <2> QED BY <2>1, <2>2, IdleTyped DEF CleanInvariant, TypeOK, InOrder, Backed,
             WriteLabels, SealedLabels, SetLabels
<1> QED BY <1>1, IdleTyped

\* A crash loses memory and unsettled names; journal and evidence stand.
LEMMA CrashKeeps ==
    ASSUME CleanInvariant, Crash
    PROVE  CleanInvariant'
<1>1. th' \in [Threads -> Thread] /\ \A u \in Threads : InOrder(u)'
  BY AllIdle DEF Crash
<1>2. NoObject \in Object /\ \A q \in Paths : Sound(q, NoObject)
  BY NoObjectIsSound, BoundsAreNat DEF NoObject, Object, States
<1>3. index' \in [Paths -> Object] /\ \A q \in Paths : index'[q] = NoObject
  BY <1>2 DEF Crash
<1>4. files' \in [Paths -> Contents] /\ disk' \in [Paths -> SUBSET Contents]
  <2> PICK f \in [Paths -> Contents] : files' = f /\ disk' = [p \in Paths |-> {f[p]}]
    BY DEF Crash
  <2> QED OBVIOUS
<1>5. /\ torn' \in BOOLEAN /\ crashes' \in 0 .. MaxCrashes
      /\ inFlight' \in [Paths -> Workers \cup {NoWorker}]
  <2>1. torn' \in BOOLEAN BY DEF CleanInvariant, TypeOK, Crash
  <2>2. crashes' \in 0 .. MaxCrashes BY BoundsAreNat DEF CleanInvariant, TypeOK, Crash
  <2>3. inFlight' \in [Paths -> Workers \cup {NoWorker}] BY DEF Crash
  <2> QED BY <2>1, <2>2, <2>3
<1>6. TypeOK'
  BY <1>1, <1>3, <1>4, <1>5 DEF CleanInvariant, TypeOK, Crash
<1>7. Issued' /\ UpIsHeld' /\ CleanIsUpstream'
  BY <1>1, <1>2, <1>3 DEF Confirmed, CleanInvariant, Issued, UpIsHeld, CleanIsUpstream, Sound, InOrder, Crash
<1> QED BY <1>1, <1>6, <1>7 DEF CleanInvariant, InOrder

\* A restart takes its index from the journal, whose objects are sound.
LEMMA OpenKeeps ==
    ASSUME CleanInvariant, Open
    PROVE  CleanInvariant'
<1>1. NoObject \in Object /\ \A q \in Paths : Sound(q, NoObject)
  BY NoObjectIsSound, BoundsAreNat DEF NoObject, Object, States
<1>2. \A q \in Paths : index'[q] \in {jnl[q], NoObject}
  BY DEF Open, Unlocked, Compacted
<1>3. index' \in [Paths -> Object] /\ \A q \in Paths : Sound(q, index'[q])
  <2>1. DOMAIN index' = Paths /\ index' = [q \in Paths |-> index'[q]]
    BY DEF Open, Unlocked, Compacted
  <2>2. \A q \in Paths : index'[q] \in Object
    BY <1>1, <1>2 DEF CleanInvariant, TypeOK
  <2>3. \A q \in Paths : Sound(q, index'[q])
    BY <1>1, <1>2, ObjectsAreSound
  <2> QED BY <2>1, <2>2, <2>3
<1>4. jnl' \in [Paths -> Object] /\ torn' \in BOOLEAN /\ \A q \in Paths : Sound(q, jnl'[q])
  BY <1>3, ObjectsAreSound DEF CleanInvariant, TypeOK, Open, Unlocked, Compacted
<1>5. files' \in [Paths -> Contents] /\ disk' \in [Paths -> SUBSET Contents]
  BY DEF CleanInvariant, TypeOK, Open, Unlocked, Compacted
<1>6. TypeOK'
  BY <1>3, <1>4, <1>5 DEF CleanInvariant, TypeOK, Open, Unlocked, Compacted
<1>7. \A u \in Threads : InOrder(u)'
  BY DEF Confirmed, CleanInvariant, Issued, InOrder, WellFormed, Backed, Open, Unlocked, Compacted
<1>8. Issued' /\ UpIsHeld' /\ CleanIsUpstream'
  BY <1>3, <1>4, <1>7 DEF Confirmed, CleanInvariant, Issued, UpIsHeld, CleanIsUpstream, Sound, InOrder, Open, Unlocked, Compacted
<1> QED BY <1>6, <1>7, <1>8 DEF CleanInvariant, InOrder

-----------------------------------------------------------------------------
(* The theorems.                                                            *)

\* An empty cache in front of any upstream satisfies the invariant.
LEMMA InitKeeps == Init => CleanInvariant
<1> SUFFICES ASSUME Init PROVE CleanInvariant
  OBVIOUS
<1>1. NoObject \in Object
  BY BoundsAreNat DEF NoObject, Object, States
<1>2. held \in [Paths -> SUBSET Bodies] /\ UpIsHeld
  BY DEF Init, UpIsHeld
<1>3. TypeOK
  <2>1. /\ phase \in {"open", "down"} /\ crashes \in 0 .. MaxCrashes /\ clock \in 0 .. MaxVersion
        /\ cancelled \subseteq Paths /\ torn \in BOOLEAN /\ exposed \subseteq Paths
        /\ unchecked \subseteq Versions
    <3>1. 0 \in 0 .. MaxCrashes /\ 0 \in 0 .. MaxVersion
      BY BoundsAreNat
    <3>2. phase = "open" /\ crashes = 0 /\ clock = 0 /\ cancelled = {} /\ torn = FALSE /\ exposed = {}
          /\ unchecked = {}
      BY DEF Init
    <3> QED BY <3>1, <3>2
  <2>2. /\ body \in [Versions -> Contents] /\ up \in [Paths -> Contents]
        /\ files \in [Paths -> Contents] /\ disk \in [Paths -> SUBSET Contents]
    BY DEF Init
  <2>3. index \in [Paths -> Object] /\ jnl \in [Paths -> Object]
    BY <1>1 DEF Init
  <2>4. /\ inFlight \in [Paths -> Workers \cup {NoWorker}]
        /\ th \in [Threads -> Thread] /\ promised \in [Paths -> 0 .. MaxVersion]
    BY IdleTyped, BoundsAreNat DEF Init
  <2> QED BY <1>2, <2>1, <2>2, <2>3, <2>4 DEF TypeOK
<1>4. Issued /\ CleanIsUpstream
  BY IdleTyped DEF Init, Issued, CleanIsUpstream, NoObject
<1>5. ASSUME NEW t \in Threads PROVE WellFormed(t) /\ Backed(t)
  BY IdleTyped DEF Init, WellFormed, Backed, WriteLabels, SealedLabels, SetLabels
<1> QED BY <1>2, <1>3, <1>4, <1>5 DEF CleanInvariant

\* Every step keeps the invariant, by the lemma of its action.
LEMMA NextKeeps == CleanInvariant /\ [Next]_vars => CleanInvariant'
<1> SUFFICES ASSUME CleanInvariant, [Next]_vars PROVE CleanInvariant'
  OBVIOUS
<1>1. ASSUME NEW t \in Clients, NEW p \in Paths, Request(t, p) PROVE CleanInvariant'
  BY <1>1, PutBeginKeeps, FillBeginKeeps, GetHitKeeps, RefreshKeeps, RemoveBeginKeeps DEF Request
<1>2. ASSUME NEW t \in Clients, Clear(t) PROVE CleanInvariant'
  BY <1>2, ClearKeeps
<1>3. ASSUME NEW t \in Clients, WriteStep(t) PROVE CleanInvariant'
  BY <1>3, AbortKeeps, SealKeeps, RenameKeeps, SyncDirKeeps, SyncDirFailsKeeps, JournalPutKeeps,
     JournalPutFailsKeeps, IndexPutKeeps DEF WriteStep
<1>4. ASSUME NEW t \in Clients, RequestStep(t) PROVE CleanInvariant'
  BY <1>4, GetOpenKeeps, RemoveCheckKeeps, RemoveGivesUpKeeps, DeleteUpstreamKeeps DEF RequestStep
<1>5. ASSUME NEW w \in Workers, NEW p \in Paths, Claim(w, p) PROVE CleanInvariant'
  BY <1>5, ClaimKeeps
<1>6. ASSUME NEW w \in Workers, FlushStep(w) PROVE CleanInvariant'
  BY <1>6, SetCheckKeeps, SetAppendKeeps, SetApplyKeeps, OpenContentKeeps, UploadLandsKeeps,
     UploadAnswersKeeps, UploadFailsKeeps, UploadStoppedKeeps, EndKeeps DEF FlushStep
<1>7. ASSUME NEW t \in Threads, DiscardStep(t) PROVE CleanInvariant'
  BY <1>7, EvictKeeps, ForgetIndexKeeps, UnlinkKeeps, DropKeeps DEF DiscardStep
<1>8. CASE Crash \/ Open
  BY <1>8, CrashKeeps, OpenKeeps
<1>9. CASE UNCHANGED vars
  BY <1>9 DEF Confirmed, vars, CleanInvariant, TypeOK, Issued, UpIsHeld, CleanIsUpstream, WellFormed, Backed
<1> QED BY <1>1, <1>2, <1>3, <1>4, <1>5, <1>6, <1>7, <1>8, <1>9 DEF Next

\* The inductive invariant holds in every behaviour: a thread about to record an
\* object as clean, in a fill's commit or in the setState that ends an upload, has
\* upstream's evidence for that version, or upstream gave none to check.
THEOREM CleanInvariantHolds == Spec => []CleanInvariant
BY InitKeeps, NextKeeps, PTL DEF Spec

\* Every variable keeps its type, for any number of clients, workers and paths:
\* a thread that reaches a step has the path, the content and the version that
\* the code of that step reads.
THEOREM TypesHold == Spec => []TypeOK
<1>1. CleanInvariant => TypeOK BY DEF CleanInvariant
<1> QED BY <1>1, CleanInvariantHolds, PTL

\* What is called clean, in memory or in the journal, upstream has had exactly, but for
\* the uploads answered without a hash and the downloads that ended early without a
\* length: setState's version and flushOne's hash check are enough whatever requests,
\* uploads, evictions, failures and crashes do.
THEOREM CleanMeansUpstream == Spec => []CleanIsUpstream
<1>1. CleanInvariant => CleanIsUpstream BY DEF CleanInvariant
<1> QED BY <1>1, CleanInvariantHolds, PTL

-----------------------------------------------------------------------------
(* One upload per path.  SingleFlight is inductive beside the types: only a *)
(* claim and the end of a flush change who holds a path.                    *)

\* A step that moves no worker into or out of idle, and none to another path.
LEMMA HoldersStay ==
    ASSUME SingleFlight, inFlight' = inFlight,
           \A w \in Workers : th'[w].path = th[w].path /\ (th'[w].pc = "idle" <=> th[w].pc = "idle")
    PROVE  SingleFlight'
BY DEF SingleFlight

\* The step of a client leaves the workers alone.
LEMMA ClientsHoldNothing ==
    ASSUME CleanInvariant, NEW t \in Clients, NEW r, th' = [th EXCEPT ![t] = r]
    PROVE  \A w \in Workers : th'[w] = th[w]
BY ThreadsAreDistinct DEF CleanInvariant, TypeOK

\* No request that begins changes who holds a path.
LEMMA RequestHoldsNothing ==
    ASSUME CleanInvariant, SingleFlight, NEW t \in Clients, NEW p \in Paths,
           Request(t, p) \/ Clear(t)
    PROVE  SingleFlight'
<1>1. inFlight' = inFlight /\ \E r : th' = [th EXCEPT ![t] = r]
  BY DEF Request, PutBegin, FillBegin, GetHit, Refresh, RemoveBegin, Clear
<1> QED BY <1>1, ClientsHoldNothing, HoldersStay

\* No step of a commit changes who holds a path.
LEMMA WriteHoldsNothing ==
    ASSUME CleanInvariant, SingleFlight, NEW t \in Clients, WriteStep(t)
    PROVE  SingleFlight'
<1>1. inFlight' = inFlight /\ \E r : th' = [th EXCEPT ![t] = r]
  BY DEF WriteStep, Abort, Seal, Rename, SyncDir, SyncDirFails, JournalPut, JournalPutFails,
     IndexPut, Goto, Reset
<1> QED BY <1>1, ClientsHoldNothing, HoldersStay

\* No step of a read or a delete changes who holds a path.
LEMMA RequestStepHoldsNothing ==
    ASSUME CleanInvariant, SingleFlight, NEW t \in Clients, RequestStep(t)
    PROVE  SingleFlight'
<1>1. inFlight' = inFlight /\ \E r : th' = [th EXCEPT ![t] = r]
  BY DEF RequestStep, GetOpen, RemoveCheck, RemoveGivesUp, DeleteUpstream, Goto, Reset
<1> QED BY <1>1, ClientsHoldNothing, HoldersStay

\* A discarding client holds nothing, and a discarding worker keeps its path
\* until End.
LEMMA DiscardKeepsHold ==
    ASSUME CleanInvariant, SingleFlight, NEW t \in Threads, DiscardStep(t)
    PROVE  SingleFlight'
<1>1. inFlight' = inFlight /\ \E r : th' = [th EXCEPT ![t] = r]
  BY DEF DiscardStep, Evict, ForgetIndex, Unlink, Drop, Goto
<1>2. CASE t \in Clients
  BY <1>1, <1>2, ClientsHoldNothing, HoldersStay
<1>3. CASE t \in Workers
  <2>1. th[t] \in Thread /\ th[t].pc # "idle"
    BY DEF CleanInvariant, TypeOK, DiscardStep, Evict, ForgetIndex, Unlink, Drop, At
  <2>2. ASSUME Evict(t) \/ Unlink(t)
        PROVE  th'[t].path = th[t].path /\ th'[t].pc # "idle"
    BY <1>3, <2>1, <2>2, RestInOrder DEF CleanInvariant, TypeOK, Evict, Unlink, Goto, Thread
  <2>3. ASSUME Drop(t)
        PROVE  th'[t].path = th[t].path /\ th'[t].pc # "idle"
    <3>1. th[t].todo \in SUBSET Paths BY <2>1 DEF Thread
    <3>2. th'[t] = AfterForget(t, th[t].todo) BY <2>3 DEF Drop, CleanInvariant, TypeOK
    <3> QED BY <1>3, <2>1, <3>1, <3>2, AfterForgetInOrder
  <2>4. ASSUME ForgetIndex(t)
        PROVE  th'[t].path = th[t].path /\ th'[t].pc # "idle"
    <3>1. PICK p \in th[t].todo :
            \/ th' = [th EXCEPT ![t] = AfterForget(t, th[t].todo \ {p})]
            \/ th' = [th EXCEPT ![t].pc = "unlink", ![t].victim = p, ![t].todo = @ \ {p}]
      BY <2>4 DEF ForgetIndex
    <3>2. th[t].todo \ {p} \in SUBSET Paths BY <2>1 DEF Thread
    <3>3. CASE th' = [th EXCEPT ![t] = AfterForget(t, th[t].todo \ {p})]
      BY <1>3, <2>1, <3>2, <3>3, AfterForgetInOrder DEF CleanInvariant, TypeOK
    <3>4. CASE th' = [th EXCEPT ![t].pc = "unlink", ![t].victim = p, ![t].todo = @ \ {p}]
      BY <2>1, <3>4 DEF CleanInvariant, TypeOK, Thread
    <3> QED BY <3>1, <3>3, <3>4
  <2>5. th'[t].path = th[t].path /\ th'[t].pc # "idle"
    BY <2>2, <2>3, <2>4 DEF DiscardStep
  <2>6. \A w \in Workers : w # t => th'[w] = th[w]
    BY <1>1 DEF CleanInvariant, TypeOK
  <2> QED BY <1>1, <2>1, <2>5, <2>6, HoldersStay
<1> QED BY <1>2, <1>3

\* A worker keeps its path through every step of a flush but the last.
LEMMA FlushKeepsHold ==
    ASSUME CleanInvariant, SingleFlight, NEW w \in Workers, FlushStep(w), ~End(w)
    PROVE  SingleFlight'
<1>1. th[w] \in Thread
  BY DEF CleanInvariant, TypeOK
<1>2. inFlight' = inFlight /\ th[w].pc # "idle" /\ \E r : th' = [th EXCEPT ![w] = r]
  BY DEF FlushStep, SetCheck, SetAppend, SetApply, OpenContent, UploadLands, UploadAnswers,
     UploadFails, UploadStopped, Goto, At
<1>3. \A applied \in BOOLEAN :
         AfterSet(w, applied).path = th[w].path /\ AfterSet(w, applied).pc # "idle"
  BY <1>1 DEF AfterSet, Thread
<1>4. ASSUME SetCheck(w) \/ SetAppend(w) \/ SetApply(w)
      PROVE  th'[w].path = th[w].path /\ th'[w].pc # "idle"
  <2>1. \/ \E applied \in BOOLEAN : th' = [th EXCEPT ![w] = AfterSet(w, applied)]
        \/ \E l \in {"append", "apply"} : th' = [th EXCEPT ![w].pc = l]
    BY <1>4 DEF SetCheck, SetAppend, SetApply, Current, Goto
  <2>2. ASSUME NEW applied \in BOOLEAN, th' = [th EXCEPT ![w] = AfterSet(w, applied)]
        PROVE  th'[w].path = th[w].path /\ th'[w].pc # "idle"
    BY <1>3, <2>2 DEF CleanInvariant, TypeOK
  <2>3. ASSUME NEW l \in {"append", "apply"}, th' = [th EXCEPT ![w].pc = l]
        PROVE  th'[w].path = th[w].path /\ th'[w].pc # "idle"
    BY <1>1, <2>3 DEF CleanInvariant, TypeOK, Thread
  <2> QED BY <2>1, <2>2, <2>3
<1>5. ASSUME OpenContent(w) \/ UploadStopped(w)
      PROVE  th'[w].path = th[w].path /\ th'[w].pc # "idle"
  BY <1>1, <1>5 DEF OpenContent, UploadStopped, Goto, CleanInvariant, TypeOK, Thread
<1>6. ASSUME UploadLands(w) \/ UploadAnswers(w) \/ UploadFails(w)
      PROVE  th'[w].path = th[w].path /\ th'[w].pc # "idle"
  <2>1. \/ \E g \in {"clean", "dirty"} : th' = [th EXCEPT ![w].pc = "check", ![w].goal = g]
        \/ UploadLands(w)
    BY <1>6 DEF UploadAnswers, UploadFails
  <2> QED BY <1>1, <2>1 DEF UploadLands, CleanInvariant, TypeOK, Thread
<1>7. th'[w].path = th[w].path /\ th'[w].pc # "idle"
  BY <1>4, <1>5, <1>6 DEF FlushStep
<1>8. \A v \in Workers : v # w => th'[v] = th[v]
  BY <1>2 DEF CleanInvariant, TypeOK
<1> QED BY <1>2, <1>7, <1>8, HoldersStay

\* A claim takes a path that nobody held.
LEMMA ClaimTakesHold ==
    ASSUME CleanInvariant, SingleFlight, NEW w \in Workers, NEW p \in Paths, Claim(w, p)
    PROVE  SingleFlight'
<1>1. index[p].ver \in 0 .. MaxVersion
  BY DEF CleanInvariant, TypeOK, Object
<1>2. th'[w].pc # "idle" /\ th'[w].path = p /\ \A v \in Workers : v # w => th'[v] = th[v]
  BY <1>1, HoldingInOrder DEF Claim, CleanInvariant, TypeOK
<1>3. th[w].pc = "idle" /\ inFlight[p] = NoWorker /\ inFlight' = [inFlight EXCEPT ![p] = w]
  BY IdleTyped DEF Claim, Claimable
<1> QED BY <1>2, <1>3, NullsAreFresh DEF SingleFlight, CleanInvariant, TypeOK

\* The deferred half of flushOne gives back the path of one worker.
LEMMA EndGivesHoldBack ==
    ASSUME CleanInvariant, SingleFlight, NEW w \in Workers, End(w)
    PROVE  SingleFlight'
<1>1. th[w].pc # "idle" /\ inFlight' = [inFlight EXCEPT ![th[w].path] = NoWorker]
  BY DEF End, At
<1>2. th'[w].pc = "idle"
  BY IdleTyped DEF End
<1>3. th[w].path \in Paths /\ inFlight[th[w].path] = w
  BY <1>1 DEF CleanInvariant, WellFormed, SingleFlight
<1>4. ASSUME NEW v \in Workers, v # w
      PROVE  th'[v].path = th[v].path /\ (th'[v].pc = "idle" <=> th[v].pc = "idle")
  <2>1. th[v] \in Thread BY DEF CleanInvariant, TypeOK
  <2>2. CASE th[v].pc = "rmwait"
    <3>1. th'[v] = [th[v] EXCEPT !.pc = "rmcheck"] BY <1>4, <2>2 DEF End
    <3> QED BY <2>1, <2>2, <3>1 DEF Thread
  <2>3. CASE th[v].pc # "rmwait"
    BY <1>4, <2>3 DEF End
  <2> QED BY <2>2, <2>3
<1>5. ASSUME NEW p \in Paths, NEW v \in Workers
      PROVE  inFlight'[p] = v <=> th'[v].pc # "idle" /\ th'[v].path = p
  <2>1. inFlight[p] = v <=> th[v].pc # "idle" /\ th[v].path = p
    BY DEF SingleFlight
  <2>2. inFlight'[p] = IF p = th[w].path THEN NoWorker ELSE inFlight[p]
    BY <1>1, <1>3 DEF CleanInvariant, TypeOK
  <2>3. v # NoWorker
    BY NullsAreFresh
  <2>4. CASE v = w
    BY <1>1, <1>2, <2>1, <2>2, <2>3, <2>4
  <2>5. CASE v # w
    BY <1>3, <1>4, <2>1, <2>2, <2>3, <2>5
  <2> QED BY <2>4, <2>5
<1> QED BY <1>5 DEF SingleFlight

\* An upload of a path never overlaps another, whatever requests, failures and
\* crashes do: the path flushOne claims under the lock is its own until its
\* deferred half gives it back.
THEOREM OneUploadPerPath == Spec => []SingleFlight
<1>1. Init => SingleFlight
  BY IdleTyped, NullsAreFresh DEF Init, SingleFlight
<1>2. CleanInvariant /\ SingleFlight /\ [Next]_vars => SingleFlight'
  <2> SUFFICES ASSUME CleanInvariant, SingleFlight, [Next]_vars PROVE SingleFlight'
    OBVIOUS
  <2>1. ASSUME NEW t \in Clients, NEW p \in Paths, Request(t, p) PROVE SingleFlight'
    BY <2>1, RequestHoldsNothing
  <2>2. ASSUME NEW t \in Clients, Clear(t) PROVE SingleFlight'
    BY <2>2, RequestHoldsNothing DEF Clear, Clearable, CleanPaths
  <2>3. ASSUME NEW t \in Clients, WriteStep(t) \/ RequestStep(t) PROVE SingleFlight'
    BY <2>3, WriteHoldsNothing, RequestStepHoldsNothing
  <2>4. ASSUME NEW w \in Workers, NEW p \in Paths, Claim(w, p) PROVE SingleFlight'
    BY <2>4, ClaimTakesHold
  <2>5. ASSUME NEW w \in Workers, FlushStep(w) PROVE SingleFlight'
    BY <2>5, FlushKeepsHold, EndGivesHoldBack
  <2>6. ASSUME NEW t \in Threads, DiscardStep(t) PROVE SingleFlight'
    BY <2>6, DiscardKeepsHold
  <2>7. CASE Crash
    BY <2>7, IdleTyped, NullsAreFresh DEF Crash, SingleFlight
  <2>8. CASE Open
    BY <2>8 DEF Open, Unlocked, Compacted, SingleFlight
  <2>9. CASE UNCHANGED vars
    BY <2>9 DEF vars, SingleFlight
  <2> QED BY <2>1, <2>2, <2>3, <2>4, <2>5, <2>6, <2>7, <2>8, <2>9 DEF Next
<1> QED BY <1>1, <1>2, CleanInvariantHolds, PTL DEF Spec

-----------------------------------------------------------------------------
(* The journal is ahead of the index, as long as no record is left in it in *)
(* part: that hides what is appended after it, the change to clean         *)
(* included.                                                                *)
(*                                                                         *)
(* JournalLeads is not inductive.  The two halves of a commit, and of a     *)
(* state change, are a journal write and an index write, and between them   *)
(* others act.  Leading says why none of them acts on the same version: a   *)
(* version is its writer's own until the index shows it, and an upload's    *)
(* worker, who alone may change the state of what it claimed, finds it      *)
(* unsent until it says otherwise itself.                                   *)

\* A version that is being committed is nobody else's.
NewVersion(t) ==
    th[t].pc \in SealedLabels =>
        /\ \A p \in Paths : index[p].ver # th[t].ver
        /\ \A u \in Threads \ {t} : th[u].ver # th[t].ver

\* Between the two halves of a commit, of a state change: the journal has not moved
\* the version on, and has the change.
PutRecorded(t) ==
    LET r == th[t] IN
    ~torn /\ r.pc = "index" /\ jnl[r.path].ver = r.ver => jnl[r.path].state = r.goal
ChangeRecorded(w) ==
    LET r == th[w] IN
    ~torn /\ r.pc = "apply" /\ jnl[r.path].ver = r.ver => jnl[r.path].state = r.goal

\* What a worker has claimed stays unsent, if it is still there, while it is sent.
Sending == SetLabels \cup {"open", "upload", "landed"}
StillUnsent(w) ==
    LET r == th[w] IN
    r.pc \in Sending /\ index[r.path].ver = r.ver => Unsent(index[r.path])

Leads(t) == /\ t \in Clients => NewVersion(t) /\ PutRecorded(t)
            /\ t \in Workers => StillUnsent(t) /\ ChangeRecorded(t)

Leading ==
    /\ JournalLeads
    /\ phase = "down" => \A t \in Threads : th[t].pc = "idle"
    /\ \A t \in Threads : Leads(t)

\* What thread t may make of an entry: nothing, a version of its own, or another state
\* of what it has claimed.
Touches(t, p, old, new) ==
    \/ new = old \/ new.ver = 0
    \/ /\ new.ver = th[t].ver
       /\ \/ t \in Clients /\ th[t].pc \in SealedLabels
          \/ t \in Workers /\ th[t].pc # "idle" /\ th[t].path = p

\* An append, whether it fails or not.
LEMMA AppendsHow ==
    ASSUME NEW rec, Appends(rec) \/ AppendFails(rec)
    PROVE  jnl' \in {jnl, rec} /\ (torn => torn')
BY DEF Appends, AppendFails

\* A step whose thread touches no entry it may not keeps the others' part of Leading.
LEMMA OthersLead ==
    ASSUME CleanInvariant, SingleFlight, Leading, NEW t \in Threads, th' = [th EXCEPT ![t] = th'[t]],
           th'[t].ver \in {0, th[t].ver, clock + 1} \cup {index[p].ver : p \in Paths},
           \A p \in Paths : Touches(t, p, index[p], index'[p]) /\ Touches(t, p, jnl[p], jnl'[p]),
           torn => torn', NEW u \in Threads, u # t
    PROVE  Leads(u)'
<1>1. th'[u] = th[u] /\ th[u].ver <= clock /\ clock \in Nat /\ th[u].ver \in Nat
  BY BoundsAreNat DEF CleanInvariant, TypeOK, Issued, Thread
<1>2. ASSUME u \in Clients PROVE NewVersion(u)' /\ PutRecorded(u)'
  <2>1. NewVersion(u) /\ PutRecorded(u)
    BY <1>2 DEF Leading, Leads
  <2>2. CASE th[u].pc \in SealedLabels
    <3>1. th[u].ver \in Versions /\ th[u].path \in Paths
      BY <2>2 DEF CleanInvariant, WellFormed, SealedLabels
    <3>2. th[u].ver # 0 /\ th[t].ver # th[u].ver
      BY <2>1, <2>2, <3>1 DEF NewVersion
    <3>3. ASSUME NEW p \in Paths PROVE index'[p].ver # th[u].ver
      BY <2>1, <2>2, <3>2, <3>3 DEF NewVersion, Touches
    <3>4. ASSUME NEW v \in Threads \ {u} PROVE th'[v].ver # th[u].ver
      <4>1. CASE v = t
        BY <1>1, <2>1, <2>2, <3>2, <4>1 DEF NewVersion
      <4>2. CASE v # t
        <5>1. th'[v] = th[v] BY <4>2 DEF CleanInvariant, TypeOK
        <5> QED BY <2>1, <2>2, <5>1 DEF NewVersion
      <4> QED BY <4>1, <4>2
    <3>5. jnl'[th[u].path].ver = th[u].ver => jnl'[th[u].path] = jnl[th[u].path]
      BY <3>1, <3>2 DEF Touches
    <3> QED BY <1>1, <2>1, <3>3, <3>4, <3>5 DEF NewVersion, PutRecorded
  <2>3. CASE th[u].pc \notin SealedLabels
    BY <1>1, <2>3 DEF NewVersion, PutRecorded, SealedLabels, WriteLabels
  <2> QED BY <2>2, <2>3
<1>3. ASSUME u \in Workers PROVE StillUnsent(u)' /\ ChangeRecorded(u)'
  <2>1. StillUnsent(u) /\ ChangeRecorded(u)
    BY <1>3 DEF Leading, Leads
  <2>2. CASE th[u].pc \in Sending
    <3>1. th[u].path \in Paths /\ th[u].ver \in Versions /\ th[u].pc # "idle"
      BY <1>3, <2>2 DEF CleanInvariant, WellFormed, Sending, SetLabels
    <3>2. t \in Clients /\ th[t].pc \in SealedLabels => th[u].ver # th[t].ver
      BY DEF Leading, Leads, NewVersion
    <3>3. ~(t \in Workers /\ th[t].pc # "idle" /\ th[t].path = th[u].path)
      BY <1>3, <3>1 DEF SingleFlight
    <3>4. /\ index'[th[u].path].ver = th[u].ver => index'[th[u].path] = index[th[u].path]
          /\ jnl'[th[u].path].ver = th[u].ver => jnl'[th[u].path] = jnl[th[u].path]
      BY <3>1, <3>2, <3>3 DEF Touches
    <3> QED BY <1>1, <2>1, <3>4 DEF StillUnsent, ChangeRecorded
  <2>3. CASE th[u].pc \notin Sending
    BY <1>1, <2>3 DEF StillUnsent, ChangeRecorded, Sending, SetLabels
  <2> QED BY <2>2, <2>3
<1> QED BY <1>2, <1>3 DEF Leads

\* A step of one thread keeps Leading when the journal leads after it and the thread's
\* own part is so.
LEMMA LeadsStep ==
    ASSUME CleanInvariant, SingleFlight, Leading, NEW t \in Threads, th' = [th EXCEPT ![t] = th'[t]],
           th'[t].ver \in {0, th[t].ver, clock + 1} \cup {index[p].ver : p \in Paths},
           \A p \in Paths : Touches(t, p, index[p], index'[p]) /\ Touches(t, p, jnl[p], jnl'[p]),
           JournalLeads', Leads(t)', torn => torn', phase' = "open"
    PROVE  Leading'
BY OthersLead DEF Leading

\* A step that leaves index and journal alone.
LEMMA QuietLeads ==
    ASSUME CleanInvariant, SingleFlight, Leading, NEW t \in Threads, th' = [th EXCEPT ![t] = th'[t]],
           th'[t].ver \in {0, th[t].ver, clock + 1} \cup {index[p].ver : p \in Paths},
           UNCHANGED <<index, jnl, phase>>, torn => torn', phase = "open", Leads(t)'
    PROVE  Leading'
<1>1. JournalLeads'
  BY DEF Leading, JournalLeads
<1> QED BY <1>1, LeadsStep DEF Touches

\* A client that is not in a commit has nothing to show.
LEMMA ClientLeads ==
    ASSUME NEW t \in Clients, th'[t].pc \notin SealedLabels
    PROVE  Leads(t)'
BY ThreadsAreDistinct DEF Leads, NewVersion, PutRecorded, SealedLabels, WriteLabels

LEMMA ClientMoves ==
    ASSUME CleanInvariant, SingleFlight, Leading, NEW t \in Clients, th' = [th EXCEPT ![t] = th'[t]],
           th'[t].pc \notin SealedLabels, th'[t].ver \in {0, th[t].ver},
           UNCHANGED <<index, jnl, phase>>, torn => torn', phase = "open"
    PROVE  Leading'
BY ClientLeads, QuietLeads

\* A worker that has done with its upload, or goes on with it at the same path.
LEMMA WorkerLeads ==
    ASSUME CleanInvariant, Leading, NEW w \in Workers,
           th'[w].pc \notin Sending \/ /\ th'[w].pc \in Sending \ {"apply"} /\ th[w].pc \in Sending
                                       /\ th'[w].path = th[w].path /\ th'[w].ver = th[w].ver,
           th'[w].pc # "apply",
           index' = index \/ th'[w].pc \notin Sending
    PROVE  Leads(w)'
<1>1. w \notin Clients /\ StillUnsent(w)
  BY ThreadsAreDistinct DEF Leading, Leads
<1> QED BY <1>1 DEF Leads, StillUnsent, ChangeRecorded

LEMMA WorkerMoves ==
    ASSUME CleanInvariant, SingleFlight, Leading, NEW w \in Workers, th' = [th EXCEPT ![w] = th'[w]],
           th'[w].ver \in {0, th[w].ver}, th'[w].pc # "apply",
           th'[w].pc \in Sending => th[w].pc \in Sending /\ th'[w].path = th[w].path /\ th'[w].ver = th[w].ver,
           UNCHANGED <<index, jnl, torn, phase>>, phase = "open"
    PROVE  Leading'
BY WorkerLeads, QuietLeads

\* A thread that neither commits nor sends has nothing to show.
LEMMA DoneLeads ==
    ASSUME NEW t \in Threads, th'[t].pc \notin SealedLabels \cup Sending
    PROVE  Leads(t)'
BY DEF Leads, NewVersion, PutRecorded, StillUnsent, ChangeRecorded, SealedLabels, WriteLabels,
       Sending, SetLabels

\* No request that begins has a version yet.
LEMMA RequestLeads ==
    ASSUME CleanInvariant, SingleFlight, Leading, NEW t \in Clients, NEW p \in Paths,
           Request(t, p) \/ Clear(t)
    PROVE  Leading'
<1>1. PICK r : /\ th' = [th EXCEPT ![t] = r] /\ r.ver = 0
               /\ r.pc \in {"writing", "opening", "forget", "rmcheck"}
  <2>1. \A label, q, g, S : Asking(label, q, g, S).pc = label /\ Asking(label, q, g, S).ver = 0
    BY IdleTyped DEF Asking, Idle
  <2>2. \A q, b, g : Writer(q, b, g).pc = "writing" /\ Writer(q, b, g).ver = 0
    BY IdleTyped DEF Writer, Idle
  <2> QED BY <2>1, <2>2 DEF Request, PutBegin, FillBegin, GetHit, Refresh, RemoveBegin, Clear
<1>2. th'[t] = r /\ th' = [th EXCEPT ![t] = th'[t]]
  BY <1>1 DEF CleanInvariant, TypeOK
<1>3. UNCHANGED <<index, jnl, torn, phase>> /\ phase = "open"
  BY DEF Request, PutBegin, FillBegin, GetHit, Refresh, RemoveBegin, Clear, MayStart
<1> QED BY <1>1, <1>2, <1>3, ClientMoves DEF SealedLabels, WriteLabels

\* A client whose request ends, or goes on to read or to delete.
LEMMA OffLeads ==
    ASSUME CleanInvariant, SingleFlight, Leading, NEW t \in Clients,
           Abort(t) \/ SyncDirFails(t) \/ RequestStep(t)
    PROVE  Leading'
<1>1. th[t] \in Thread
  BY DEF CleanInvariant, TypeOK
<1>2. PICK r : /\ th' = [th EXCEPT ![t] = r] /\ r.ver \in {0, th[t].ver}
               /\ r.pc \in {"idle", "forget", "delete", "rmwait"}
  <2>1. CASE Reset(t)
    BY <2>1, IdleTyped DEF Reset
  <2>2. CASE \E l \in {"delete", "rmwait"} : Goto(t, l)
    <3>1. PICK l \in {"delete", "rmwait"} : th' = [th EXCEPT ![t].pc = l]
      BY <2>2 DEF Goto
    <3> DEFINE r == [th[t] EXCEPT !.pc = l]
    <3>2. th' = [th EXCEPT ![t] = r]
      BY <3>1
    <3>3. r.ver = th[t].ver /\ r.pc = l
      BY <1>1 DEF Thread
    <3> QED BY <3>2, <3>3
  <2>3. CASE \E p \in Paths : th' = [th EXCEPT ![t].pc = "forget", ![t].todo = {p}]
    <3>1. PICK p \in Paths : th' = [th EXCEPT ![t].pc = "forget", ![t].todo = {p}]
      BY <2>3
    <3> DEFINE r == [th[t] EXCEPT !.pc = "forget", !.todo = {p}]
    <3>2. th' = [th EXCEPT ![t] = r]
      BY <3>1
    <3>3. r.ver = th[t].ver /\ r.pc = "forget"
      BY <1>1 DEF Thread
    <3> QED BY <3>2, <3>3
  <2>4. th[t].pc \in {"opening", "rmcheck"} => th[t].path \in Paths
    BY DEF CleanInvariant, WellFormed
  <2> QED BY <2>1, <2>2, <2>3, <2>4 DEF Abort, SyncDirFails, RequestStep, GetOpen, RemoveCheck,
             RemoveGivesUp, DeleteUpstream, At
<1>3. th'[t] = r /\ th' = [th EXCEPT ![t] = th'[t]]
  BY <1>2 DEF CleanInvariant, TypeOK
<1>4. UNCHANGED <<index, jnl, phase>> /\ (torn => torn') /\ phase = "open"
  BY DEF Abort, SyncDirFails, RequestStep, GetOpen, RemoveCheck, RemoveGivesUp, DeleteUpstream, At,
         Appends, AppendFails
<1> QED BY <1>2, <1>3, <1>4, ClientMoves DEF SealedLabels, WriteLabels

\* The version Seal gives out is beyond every other.
LEMMA SealLeads ==
    ASSUME CleanInvariant, SingleFlight, Leading, NEW t \in Clients, Seal(t)
    PROVE  Leading'
<1>1. th[t] \in Thread /\ clock \in Nat
  BY BoundsAreNat DEF CleanInvariant, TypeOK
<1>2. th'[t].pc = "rename" /\ th'[t].ver = clock + 1 /\ th' = [th EXCEPT ![t] = th'[t]]
  <2>1. PICK b : th' = [th EXCEPT ![t].pc = "rename", ![t].ver = clock + 1, ![t].body = b]
    BY DEF Seal
  <2> DEFINE r == [th[t] EXCEPT !.pc = "rename", !.ver = clock + 1, !.body = b]
  <2>2. r.pc = "rename" /\ r.ver = clock + 1
    BY <1>1 DEF Thread
  <2>3. th' = [th EXCEPT ![t] = r]
    BY <2>1
  <2> HIDE DEF r
  <2>4. th'[t] = r
    BY <2>3 DEF CleanInvariant, TypeOK
  <2> QED BY <2>2, <2>3, <2>4
<1>3. \A u \in Threads \ {t} : th'[u] = th[u] /\ th[u].ver \in Nat /\ th[u].ver <= clock
  BY <1>2, BoundsAreNat DEF CleanInvariant, TypeOK, Issued, Thread
<1>4. \A p \in Paths : index[p].ver \in Nat /\ index[p].ver <= clock
  BY BoundsAreNat DEF CleanInvariant, TypeOK, Issued, Object
<1>5. UNCHANGED <<index, jnl, torn, phase>> /\ phase = "open"
  BY DEF Seal, At
<1>6. NewVersion(t)' /\ PutRecorded(t)'
  BY <1>1, <1>2, <1>3, <1>4, <1>5 DEF NewVersion, PutRecorded
<1> QED BY <1>2, <1>5, <1>6, QuietLeads, ThreadsAreDistinct DEF Leads

\* A commit's file is put in place; its version stays its own.
LEMMA PlacingLeads ==
    ASSUME CleanInvariant, SingleFlight, Leading, NEW t \in Clients, Rename(t) \/ SyncDir(t)
    PROVE  Leading'
<1>1. /\ th[t].pc \in SealedLabels /\ UNCHANGED <<index, jnl, torn, phase>> /\ phase = "open"
      /\ \E l \in {"syncdir", "journal"} : Goto(t, l)
  BY DEF Rename, SyncDir, At, SealedLabels, WriteLabels
<1>2. /\ th' = [th EXCEPT ![t] = th'[t]] /\ th'[t].ver = th[t].ver
      /\ th'[t].pc \in {"syncdir", "journal"}
  BY <1>1, Relabelled DEF CleanInvariant, Labels
<1>3. NewVersion(t) /\ \A u \in Threads \ {t} : th'[u] = th[u]
  BY <1>2 DEF Leading, Leads, CleanInvariant, TypeOK
<1>4. NewVersion(t)' /\ PutRecorded(t)'
  BY <1>1, <1>2, <1>3 DEF NewVersion, PutRecorded
<1> QED BY <1>1, <1>2, <1>4, QuietLeads, ThreadsAreDistinct DEF Leads

\* The journal gets the version first, and the index does not have it.
LEMMA JournalPutLeads ==
    ASSUME CleanInvariant, SingleFlight, Leading, NEW t \in Clients, JournalPut(t) \/ JournalPutFails(t)
    PROVE  Leading'
<1>1. /\ th[t].pc \in SealedLabels /\ th[t].pc = "journal" /\ UNCHANGED <<index, phase>> /\ phase = "open"
      /\ jnl' \in {jnl, Recorded(th[t].path, NewObject(t))} /\ (torn => torn')
  BY DEF JournalPut, JournalPutFails, Appends, AppendFails, At, SealedLabels, WriteLabels
<1>2. th[t].path \in Paths /\ NewVersion(t) /\ JournalLeads
  BY <1>1 DEF CleanInvariant, WellFormed, SealedLabels, Leading, Leads
<1>3. \A p \in Paths : jnl'[p] = jnl[p] \/ (p = th[t].path /\ jnl'[p] = NewObject(t))
  BY <1>1, <1>2 DEF Recorded, CleanInvariant, TypeOK
<1>4. NewObject(t).ver = th[t].ver /\ NewObject(t).state = th[t].goal
  BY DEF NewObject
<1>5. \A p \in Paths : Touches(t, p, index[p], index'[p]) /\ Touches(t, p, jnl[p], jnl'[p])
  BY <1>1, <1>3, <1>4 DEF Touches
<1>6. JournalLeads'
  BY <1>1, <1>2, <1>3, <1>4 DEF JournalLeads, NewVersion
<1>7. CASE JournalPut(t)
  <2>1. /\ th' = [th EXCEPT ![t] = th'[t]] /\ th'[t].ver = th[t].ver /\ th'[t].path = th[t].path
        /\ th'[t].goal = th[t].goal
    BY <1>7, Relabelled DEF JournalPut, CleanInvariant, Labels
  <2>2. \A u \in Threads \ {t} : th'[u] = th[u]
    BY <2>1 DEF CleanInvariant, TypeOK
  <2>3. ~torn' => jnl'[th[t].path] = NewObject(t)
    BY <1>2, <1>7 DEF JournalPut, Appends, Recorded, CleanInvariant, TypeOK
  <2>4. NewVersion(t)' /\ PutRecorded(t)'
    BY <1>1, <1>2, <1>4, <2>1, <2>2, <2>3 DEF NewVersion, PutRecorded
  <2> QED BY <1>1, <1>2, <1>5, <1>6, <2>1, <2>4, LeadsStep, ThreadsAreDistinct DEF Leads
<1>8. CASE JournalPutFails(t)
  <2>1. th' = [th EXCEPT ![t] = Idle]
    BY <1>8 DEF JournalPutFails, Reset
  <2>2. th'[t] = Idle /\ th' = [th EXCEPT ![t] = th'[t]]
    BY <2>1 DEF CleanInvariant, TypeOK
  <2>3. Leads(t)'
    BY <2>2, IdleTyped, ClientLeads DEF SealedLabels, WriteLabels
  <2> QED BY <1>1, <1>2, <1>5, <1>6, <2>2, <2>3, IdleTyped, LeadsStep
<1> QED BY <1>7, <1>8

\* The index follows with the state the journal has, if that has the version still.
LEMMA IndexPutLeads ==
    ASSUME CleanInvariant, SingleFlight, Leading, NEW t \in Clients, IndexPut(t)
    PROVE  Leading'
<1>1. /\ th[t].pc \in SealedLabels /\ th[t].pc = "index" /\ UNCHANGED <<jnl, torn, phase>> /\ phase = "open"
      /\ index' = [index EXCEPT ![th[t].path] = NewObject(t)]
  BY DEF IndexPut, At, SealedLabels, WriteLabels
<1>2. th[t].path \in Paths /\ PutRecorded(t) /\ JournalLeads
  BY <1>1 DEF CleanInvariant, WellFormed, SealedLabels, Leading, Leads
<1>3. \A p \in Paths : IF p = th[t].path THEN index'[p] = NewObject(t) ELSE index'[p] = index[p]
  BY <1>1, <1>2 DEF CleanInvariant, TypeOK
<1>4. NewObject(t).ver = th[t].ver /\ NewObject(t).state = th[t].goal
  BY DEF NewObject
<1>5. \A p \in Paths : Touches(t, p, index[p], index'[p]) /\ Touches(t, p, jnl[p], jnl'[p])
  BY <1>1, <1>3, <1>4 DEF Touches
<1>6. JournalLeads'
  BY <1>1, <1>2, <1>3, <1>4 DEF JournalLeads, PutRecorded
<1>7. th' = [th EXCEPT ![t] = th'[t]] /\ th'[t].ver = th[t].ver /\ th'[t].pc = "evict"
  BY Relabelled DEF IndexPut, CleanInvariant, Labels
<1>8. Leads(t)'
  BY <1>7, ClientLeads DEF SealedLabels, WriteLabels
<1> QED BY <1>1, <1>2, <1>5, <1>6, <1>7, <1>8, LeadsStep

\* Discarding empties entries; the thread has nothing under way.
LEMMA DiscardLeads ==
    ASSUME CleanInvariant, SingleFlight, Leading, NEW t \in Threads, DiscardStep(t)
    PROVE  Leading'
<1>1. th[t] \in Thread /\ th[t].todo \in SUBSET Paths /\ th[t].pc # "idle"
  BY DEF CleanInvariant, TypeOK, Thread, DiscardStep, Evict, ForgetIndex, Unlink, Drop, At
<1>2. JournalLeads /\ (torn => torn') /\ UNCHANGED phase /\ phase = "open"
  <2>1. CASE Drop(t)
    <3>1. torn => torn'
      BY <2>1 DEF Drop, Appends, AppendFails
    <3> QED BY <2>1, <3>1 DEF Leading, Drop, At
  <2>2. CASE Evict(t) \/ ForgetIndex(t) \/ Unlink(t)
    <3>1. UNCHANGED <<torn, phase>> /\ phase = "open"
      BY <2>2 DEF Evict, ForgetIndex, Unlink, At
    <3> QED BY <3>1 DEF Leading
  <2> QED BY <2>1, <2>2 DEF DiscardStep
<1>3. Rest(t).ver \in {0, th[t].ver} /\ Rest(t).pc \in {"idle", "end"}
  BY <1>1, IdleTyped DEF Rest, Thread
<1>4. ASSUME NEW S \in SUBSET Paths
      PROVE  /\ AfterForget(t, S).ver \in {0, th[t].ver}
             /\ AfterForget(t, S).pc \in {"idle", "end", "forget", "delete"}
  <2>1. CASE S # {} \/ th[t].goal = "delete"
    BY <1>1, <2>1 DEF AfterForget, Thread
  <2>2. CASE S = {} /\ th[t].goal # "delete"
    BY <1>3, <2>2 DEF AfterForget
  <2> QED BY <2>1, <2>2
<1>5. /\ \A p \in Paths : index'[p] = index[p] \/ index'[p] = NoObject
      /\ \A p \in Paths : jnl'[p] = jnl[p] \/ jnl'[p] = NoObject
  BY <1>2 DEF CleanInvariant, TypeOK, DiscardStep, Evict, ForgetIndex, Unlink, Drop, Appends, AppendFails,
              Recorded
<1>6. \A p \in Paths : Touches(t, p, index[p], index'[p]) /\ Touches(t, p, jnl[p], jnl'[p])
  BY <1>5 DEF Touches, NoObject
<1>7. JournalLeads'
  <2> SUFFICES ASSUME NEW p \in Paths, ~torn', index'[p].state = "clean", jnl'[p].ver = index'[p].ver
               PROVE  jnl'[p].state = "clean"
    BY DEF JournalLeads
  <2>1. CASE jnl'[p] = NoObject
    BY <2>1 DEF NoObject
  <2>2. CASE jnl'[p] = jnl[p] /\ index'[p] = index[p]
    BY <1>2, <2>2 DEF JournalLeads
  <2>3. CASE jnl'[p] = jnl[p] /\ index'[p] = NoObject
    <3>1. jnl[p].ver = 0 BY <2>3 DEF NoObject
    <3> QED BY <2>3, <3>1 DEF CleanInvariant, Issued, NoObject
  <2> QED BY <1>5, <2>1, <2>2, <2>3
<1>8. PICK r : /\ th' = [th EXCEPT ![t] = r] /\ r.ver \in {0, th[t].ver}
               /\ r.pc \in {"idle", "end", "forget", "unlink", "drop", "delete"}
  <2>1. CASE Unlink(t)
    <3> DEFINE r == [th[t] EXCEPT !.pc = "drop"]
    <3>1. r.ver = th[t].ver /\ r.pc = "drop"
      BY <1>1 DEF Thread
    <3>2. th' = [th EXCEPT ![t] = r]
      BY <2>1 DEF Unlink, Goto
    <3> QED BY <3>1, <3>2
  <2>2. CASE Drop(t)
    BY <1>1, <1>4, <2>2 DEF Drop
  <2>3. CASE Evict(t)
    <3>1. CASE th' = [th EXCEPT ![t] = Rest(t)]
      BY <1>3, <3>1
    <3>2. CASE \E D : th' = [th EXCEPT ![t].pc = "forget", ![t].todo = D]
      <4>1. PICK D : th' = [th EXCEPT ![t].pc = "forget", ![t].todo = D]
        BY <3>2
      <4> DEFINE r == [th[t] EXCEPT !.pc = "forget", !.todo = D]
      <4>2. r.ver = th[t].ver /\ r.pc = "forget"
        BY <1>1 DEF Thread
      <4>3. th' = [th EXCEPT ![t] = r]
        BY <4>1
      <4> QED BY <4>2, <4>3
    <3> QED BY <2>3, <3>1, <3>2 DEF Evict
  <2>4. CASE ForgetIndex(t)
    <3>1. PICK p \in th[t].todo :
            \/ th' = [th EXCEPT ![t] = AfterForget(t, th[t].todo \ {p})]
            \/ th' = [th EXCEPT ![t].pc = "unlink", ![t].victim = p, ![t].todo = @ \ {p}]
      BY <2>4 DEF ForgetIndex
    <3>2. CASE th' = [th EXCEPT ![t] = AfterForget(t, th[t].todo \ {p})]
      <4>1. th[t].todo \ {p} \in SUBSET Paths
        BY <1>1
      <4> QED BY <1>4, <3>2, <4>1
    <3>3. CASE th' = [th EXCEPT ![t].pc = "unlink", ![t].victim = p, ![t].todo = @ \ {p}]
      <4> DEFINE r == [th[t] EXCEPT !.pc = "unlink", !.victim = p, !.todo = @ \ {p}]
      <4>1. r.ver = th[t].ver /\ r.pc = "unlink"
        BY <1>1 DEF Thread
      <4>2. th' = [th EXCEPT ![t] = r]
        BY <3>3
      <4> QED BY <4>1, <4>2
    <3> QED BY <3>1, <3>2, <3>3
  <2> QED BY <2>1, <2>2, <2>3, <2>4 DEF DiscardStep
<1>9. th'[t] = r /\ th' = [th EXCEPT ![t] = th'[t]]
  BY <1>8 DEF CleanInvariant, TypeOK
<1>10. Leads(t)'
  BY <1>8, <1>9, DoneLeads DEF SealedLabels, WriteLabels, Sending, SetLabels
<1> QED BY <1>2, <1>6, <1>7, <1>8, <1>9, <1>10, LeadsStep

\* What is claimed is unsent.
LEMMA ClaimLeads ==
    ASSUME CleanInvariant, SingleFlight, Leading, NEW w \in Workers, NEW p \in Paths, Claim(w, p)
    PROVE  Leading'
<1>1. index[p].ver \in 0 .. MaxVersion
  BY DEF CleanInvariant, TypeOK, Object
<1>2. /\ th'[w].pc = "check" /\ th'[w].path = p /\ th'[w].ver = index[p].ver
      /\ th' = [th EXCEPT ![w] = th'[w]]
  BY <1>1, HoldingInOrder DEF Claim, CleanInvariant, TypeOK
<1>3. UNCHANGED <<index, jnl, torn, phase>> /\ phase = "open" /\ Unsent(index[p])
  BY DEF Claim, Claimable
<1>4. Leads(w)'
  BY <1>2, <1>3, ThreadsAreDistinct DEF Leads, StillUnsent, ChangeRecorded, Unsent
<1> QED BY <1>2, <1>3, <1>4, QuietLeads

\* After setState flushOne uploads what it has claimed, or has done with it.
LEMMA AfterSetGoes ==
    ASSUME CleanInvariant, NEW w \in Workers, NEW applied \in BOOLEAN, th'[w] = AfterSet(w, applied)
    PROVE  /\ th'[w].path = th[w].path /\ th'[w].ver = th[w].ver
           /\ th'[w].pc \in {"open", "evict", "end"}
           /\ th'[w].pc = "open" => th[w].goal = "uploading"
<1>1. th[w] \in Thread
  BY DEF CleanInvariant, TypeOK
<1> QED BY <1>1 DEF AfterSet, Thread

LEMMA SetCheckLeads ==
    ASSUME CleanInvariant, SingleFlight, Leading, NEW w \in Workers, SetCheck(w)
    PROVE  Leading'
<1>1. th[w].pc = "check" /\ UNCHANGED <<index, jnl, torn, phase>> /\ phase = "open"
  BY DEF SetCheck, At
<1>2. CASE Current(w)
  BY <1>1, <1>2, Relabelled, WorkerMoves DEF SetCheck, CleanInvariant, Labels, Sending, SetLabels
<1>3. CASE ~Current(w)
  <2>1. th'[w] = AfterSet(w, FALSE) /\ th' = [th EXCEPT ![w] = th'[w]]
    BY <1>3 DEF SetCheck, CleanInvariant, TypeOK
  <2> QED BY <1>1, <2>1, AfterSetGoes, WorkerMoves DEF Sending, SetLabels
<1> QED BY <1>2, <1>3

\* The journal has the change before the index has it, which still shows the claimed
\* version unsent.
LEMMA SetAppendLeads ==
    ASSUME CleanInvariant, SingleFlight, Leading, NEW w \in Workers, SetAppend(w)
    PROVE  Leading'
<1> DEFINE p == th[w].path
<1>1. /\ th[w].pc = "append" /\ UNCHANGED <<index, phase>> /\ phase = "open"
      /\ jnl' \in {jnl, RecordedState(p, th[w].ver, th[w].goal)} /\ (torn => torn')
  BY AppendsHow DEF SetAppend, At
<1>2. p \in Paths /\ JournalLeads /\ StillUnsent(w)
  BY <1>1 DEF CleanInvariant, WellFormed, Leading, Leads
<1>3. \A q \in Paths : \/ jnl'[q] = jnl[q]
                       \/ /\ q = p /\ jnl'[q] = [jnl[q] EXCEPT !.state = th[w].goal]
                          /\ jnl[q].ver = th[w].ver
  BY <1>1, <1>2 DEF RecordedState, CleanInvariant, TypeOK
<1>4. \A q \in Paths : jnl[q] \in Object
  BY DEF CleanInvariant, TypeOK
<1>5. \A q \in Paths : jnl'[q].ver = jnl[q].ver
  BY <1>3, <1>4 DEF Object
<1>6. \A q \in Paths : Touches(w, q, index[q], index'[q]) /\ Touches(w, q, jnl[q], jnl'[q])
  BY <1>1, <1>3, <1>5 DEF Touches
<1>7. JournalLeads'
  <2> SUFFICES ASSUME NEW q \in Paths, ~torn', index[q].state = "clean", jnl[q].ver = index[q].ver
               PROVE  jnl'[q].state = "clean"
    BY <1>1, <1>5 DEF JournalLeads
  <2>1. CASE jnl'[q] = jnl[q]
    BY <1>1, <1>2, <2>1 DEF JournalLeads
  <2>2. CASE q = p /\ jnl[q].ver = th[w].ver
    BY <1>1, <1>2, <2>2 DEF StillUnsent, Sending, SetLabels, Unsent
  <2> QED BY <1>3, <2>1, <2>2
<1>8. CASE Appends(RecordedState(p, th[w].ver, th[w].goal)) /\ Goto(w, "apply")
  <2>1. /\ th' = [th EXCEPT ![w] = th'[w]] /\ th'[w].pc = "apply" /\ th'[w].path = p
        /\ th'[w].ver = th[w].ver /\ th'[w].goal = th[w].goal
    BY <1>8, Relabelled DEF CleanInvariant, Labels
  <2>2. StillUnsent(w)'
    BY <1>1, <1>2, <2>1 DEF StillUnsent, Sending, SetLabels, Unsent
  <2>3. ~torn' /\ jnl[p].ver = th[w].ver => jnl'[p] = [jnl[p] EXCEPT !.state = th[w].goal]
    BY <1>2, <1>8 DEF Appends, RecordedState, CleanInvariant, TypeOK
  <2>4. ~torn' /\ jnl[p].ver = th[w].ver => jnl'[p].state = th[w].goal
    BY <1>2, <1>4, <2>3 DEF Object
  <2>5. ChangeRecorded(w)'
    BY <1>2, <1>5, <2>1, <2>4 DEF ChangeRecorded
  <2>6. Leads(w)'
    BY <2>2, <2>5, ThreadsAreDistinct DEF Leads
  <2> QED BY <1>1, <1>2, <1>6, <1>7, <2>1, <2>6, LeadsStep
<1>9. CASE th' = [th EXCEPT ![w] = AfterSet(w, FALSE)]
  <2>1. th'[w] = AfterSet(w, FALSE) /\ th' = [th EXCEPT ![w] = th'[w]]
    BY <1>9 DEF CleanInvariant, TypeOK
  <2>2. Leads(w)'
    BY <1>1, <2>1, AfterSetGoes, WorkerLeads DEF Sending, SetLabels
  <2> QED BY <1>1, <1>2, <1>6, <1>7, <2>1, <2>2, AfterSetGoes, LeadsStep
<1> QED BY <1>8, <1>9 DEF SetAppend

\* The index follows the journal, if both still have the version.
LEMMA SetApplyLeads ==
    ASSUME CleanInvariant, SingleFlight, Leading, NEW w \in Workers, SetApply(w)
    PROVE  Leading'
<1> DEFINE p == th[w].path
           o == [index[p] EXCEPT !.state = th[w].goal]
<1>1. th[w].pc = "apply" /\ UNCHANGED <<jnl, torn, phase>> /\ phase = "open"
  BY DEF SetApply, At
<1>2. /\ p \in Paths /\ JournalLeads /\ StillUnsent(w) /\ ChangeRecorded(w)
      /\ th[w].goal \in States
  BY <1>1 DEF CleanInvariant, WellFormed, Leading, Leads
<1>3. index[p] \in Object
  BY <1>2 DEF CleanInvariant, TypeOK
<1>4. o.ver = index[p].ver /\ o.state = th[w].goal
  BY <1>3 DEF Object
<1>5. PICK applied \in BOOLEAN : /\ applied <=> Current(w)
                                 /\ th'[w] = AfterSet(w, applied) /\ th' = [th EXCEPT ![w] = th'[w]]
  BY DEF SetApply, Current, CleanInvariant, TypeOK
<1>6. CASE Current(w)
  <2>1. index[p].ver = th[w].ver
    BY <1>6 DEF Current
  <2>2. \A q \in Paths : IF q = p THEN index'[q] = o ELSE index'[q] = index[q]
    BY <1>2, <1>6 DEF SetApply, CleanInvariant, TypeOK
  <2>3. \A q \in Paths : Touches(w, q, index[q], index'[q]) /\ Touches(w, q, jnl[q], jnl'[q])
    BY <1>1, <1>4, <2>1, <2>2 DEF Touches
  <2>4. JournalLeads'
    <3> SUFFICES ASSUME NEW q \in Paths, ~torn, index'[q].state = "clean", jnl[q].ver = index'[q].ver
                 PROVE  jnl[q].state = "clean"
      BY <1>1 DEF JournalLeads
    <3>1. CASE q = p
      BY <1>1, <1>2, <1>4, <2>1, <2>2, <3>1 DEF ChangeRecorded
    <3>2. CASE q # p
      BY <1>2, <2>2, <3>2 DEF JournalLeads
    <3> QED BY <3>1, <3>2
  <2>5. th'[w].pc = "open" => Unsent(index'[p])
    BY <1>2, <1>4, <1>5, <2>2, AfterSetGoes DEF Unsent
  <2>6. StillUnsent(w)' /\ ChangeRecorded(w)'
    BY <1>2, <1>5, <2>5, AfterSetGoes DEF StillUnsent, ChangeRecorded, Sending, SetLabels
  <2>7. Leads(w)'
    BY <2>6, ThreadsAreDistinct DEF Leads
  <2> QED BY <1>1, <1>2, <1>5, <2>3, <2>4, <2>7, AfterSetGoes, LeadsStep
<1>7. CASE ~Current(w)
  <2>1. index' = index
    BY <1>7 DEF SetApply
  <2> QED BY <1>1, <1>5, <2>1, AfterSetGoes, WorkerMoves DEF Sending, SetLabels
<1> QED BY <1>6, <1>7

\* The upload itself, from opening the content to its answer.
LEMMA UploadLeads ==
    ASSUME CleanInvariant, SingleFlight, Leading, NEW w \in Workers,
           \/ OpenContent(w) \/ UploadLands(w) \/ UploadAnswers(w) \/ UploadFails(w) \/ UploadStopped(w)
    PROVE  Leading'
<1>1. /\ th[w].pc \in {"open", "upload", "landed"} /\ th[w] \in Thread
      /\ UNCHANGED <<index, jnl, torn, phase>> /\ phase = "open"
  BY DEF OpenContent, UploadLands, UploadAnswers, UploadFails, UploadStopped, At, CleanInvariant, TypeOK
<1>2. PICK r : /\ th' = [th EXCEPT ![w] = r] /\ r.ver = th[w].ver /\ r.path = th[w].path
               /\ r.pc \in {"forget", "upload", "landed", "check", "end"}
  <2>1. CASE OpenContent(w)
    <3>1. CASE th' = [th EXCEPT ![w].pc = "forget", ![w].todo = {th[w].path}]
      <4> DEFINE r == [th[w] EXCEPT !.pc = "forget", !.todo = {th[w].path}]
      <4>1. r.ver = th[w].ver /\ r.path = th[w].path /\ r.pc = "forget"
        BY <1>1 DEF Thread
      <4>2. th' = [th EXCEPT ![w] = r]
        BY <3>1
      <4> QED BY <4>1, <4>2
    <3>2. CASE \E b : th' = [th EXCEPT ![w].pc = "upload", ![w].body = b]
      <4>1. PICK b : th' = [th EXCEPT ![w].pc = "upload", ![w].body = b]
        BY <3>2
      <4> DEFINE r == [th[w] EXCEPT !.pc = "upload", !.body = b]
      <4>2. r.ver = th[w].ver /\ r.path = th[w].path /\ r.pc = "upload"
        BY <1>1 DEF Thread
      <4>3. th' = [th EXCEPT ![w] = r]
        BY <4>1
      <4> QED BY <4>2, <4>3
    <3> QED BY <2>1, <3>1, <3>2 DEF OpenContent
  <2>2. CASE UploadLands(w)
    <3>1. PICK b : th' = [th EXCEPT ![w].pc = "landed", ![w].body = b]
      BY <2>2 DEF UploadLands
    <3> DEFINE r == [th[w] EXCEPT !.pc = "landed", !.body = b]
    <3>2. r.ver = th[w].ver /\ r.path = th[w].path /\ r.pc = "landed"
      BY <1>1 DEF Thread
    <3>3. th' = [th EXCEPT ![w] = r]
      BY <3>1
    <3> QED BY <3>2, <3>3
  <2>3. CASE UploadAnswers(w) \/ UploadFails(w)
    <3>1. PICK g : th' = [th EXCEPT ![w].pc = "check", ![w].goal = g]
      BY <2>3 DEF UploadAnswers, UploadFails
    <3> DEFINE r == [th[w] EXCEPT !.pc = "check", !.goal = g]
    <3>2. r.ver = th[w].ver /\ r.path = th[w].path /\ r.pc = "check"
      BY <1>1 DEF Thread
    <3>3. th' = [th EXCEPT ![w] = r]
      BY <3>1
    <3> QED BY <3>2, <3>3
  <2>4. CASE UploadStopped(w)
    <3> DEFINE r == [th[w] EXCEPT !.pc = "end"]
    <3>1. r.ver = th[w].ver /\ r.path = th[w].path /\ r.pc = "end"
      BY <1>1 DEF Thread
    <3>2. th' = [th EXCEPT ![w] = r]
      BY <2>4 DEF UploadStopped, Goto
    <3> QED BY <3>1, <3>2
  <2> QED BY <2>1, <2>2, <2>3, <2>4
<1>3. th'[w] = r /\ th' = [th EXCEPT ![w] = th'[w]]
  BY <1>2 DEF CleanInvariant, TypeOK
<1> QED BY <1>1, <1>2, <1>3, WorkerMoves DEF Sending, SetLabels

\* The end of a flush wakes clients, who have no version under way.
LEMMA EndLeads ==
    ASSUME CleanInvariant, SingleFlight, Leading, NEW w \in Workers, End(w)
    PROVE  Leading'
<1>1. UNCHANGED <<index, jnl, torn, phase>> /\ phase = "open"
  BY DEF End, At
<1>2. ASSUME NEW t \in Threads
      PROVE  \/ th'[t] = th[t]
             \/ th'[t].pc \in {"idle", "rmcheck"} /\ th'[t].ver \in {0, th[t].ver}
  <2>1. th[t] \in Thread BY DEF CleanInvariant, TypeOK
  <2>2. [th[t] EXCEPT !.pc = "rmcheck"].pc = "rmcheck" /\ [th[t] EXCEPT !.pc = "rmcheck"].ver = th[t].ver
    BY <2>1 DEF Thread
  <2> QED BY <2>2, IdleTyped DEF End
<1>3. ASSUME NEW t \in Threads PROVE Leads(t)'
  <2>1. CASE th'[t] = th[t]
    <3>1. \A u \in Threads : th'[u].ver \in {0, th[u].ver}
      BY <1>2
    <3>2. th[t].pc \in SealedLabels => th[t].ver # 0
      BY DEF CleanInvariant, WellFormed
    <3>3. NewVersion(t) => NewVersion(t)'
      BY <1>1, <2>1, <3>1, <3>2 DEF NewVersion
    <3>4. /\ PutRecorded(t) => PutRecorded(t)'
          /\ StillUnsent(t) => StillUnsent(t)'
          /\ ChangeRecorded(t) => ChangeRecorded(t)'
      BY <1>1, <2>1 DEF PutRecorded, StillUnsent, ChangeRecorded
    <3> QED BY <3>3, <3>4 DEF Leading, Leads
  <2>2. CASE th'[t].pc \in {"idle", "rmcheck"}
    BY <2>2, DoneLeads DEF SealedLabels, WriteLabels, Sending, SetLabels
  <2> QED BY <1>2, <2>1, <2>2
<1>4. JournalLeads'
  BY <1>1 DEF Leading, JournalLeads
<1> QED BY <1>1, <1>3, <1>4 DEF Leading

\* After a crash nobody is half-way through anything, and recovery makes the index of
\* the journal.
LEMMA CrashLeads ==
    ASSUME CleanInvariant, Leading, Crash
    PROVE  Leading'
<1>1. jnl' = jnl /\ \A p \in Paths : index'[p] = NoObject
  BY DEF Crash
<1>2. \A t \in Threads : th'[t].pc = "idle"
  BY IdleTyped DEF Crash
<1>3. \A t \in Threads : Leads(t)'
  BY <1>2, DoneLeads DEF SealedLabels, WriteLabels, Sending, SetLabels
<1>4. JournalLeads'
  BY <1>1 DEF JournalLeads, NoObject, CleanInvariant, Issued
<1> QED BY <1>1, <1>2, <1>3, <1>4 DEF Leading

LEMMA OpenLeads ==
    ASSUME CleanInvariant, Leading, Open
    PROVE  Leading'
<1>1. th' = th /\ \A t \in Threads : th[t].pc = "idle"
  BY DEF Open, Unlocked, Leading
<1>2. \A t \in Threads : Leads(t)'
  BY <1>1, DoneLeads DEF SealedLabels, WriteLabels, Sending, SetLabels
<1>3. phase' = "open"
  BY DEF Open
<1>4. \A p \in Paths : index'[p] \in {jnl[p], NoObject} /\ jnl'[p] \in {jnl[p], index'[p]}
  BY DEF Open, Compacted
<1>5. JournalLeads'
  <2> SUFFICES ASSUME NEW p \in Paths, ~torn', index'[p].state = "clean", jnl'[p].ver = index'[p].ver
               PROVE  jnl'[p].state = "clean"
    BY DEF JournalLeads
  <2>1. CASE jnl'[p] = index'[p]
    BY <2>1
  <2>2. CASE jnl'[p] = jnl[p] /\ index'[p] = NoObject
    BY <2>2 DEF NoObject, CleanInvariant, Issued
  <2> QED BY <1>4, <2>1, <2>2
<1> QED BY <1>2, <1>3, <1>5 DEF Leading

LEMMA NextLeads == CleanInvariant /\ SingleFlight /\ Leading /\ [Next]_vars => Leading'
<1> SUFFICES ASSUME CleanInvariant, SingleFlight, Leading, [Next]_vars PROVE Leading'
  OBVIOUS
<1>1. ASSUME NEW t \in Clients, NEW p \in Paths, Request(t, p) PROVE Leading'
  BY <1>1, RequestLeads
<1>2. ASSUME NEW t \in Clients, Clear(t) PROVE Leading'
  BY <1>2, RequestLeads DEF Clear, Clearable, CleanPaths
<1>3. ASSUME NEW t \in Clients, WriteStep(t) \/ RequestStep(t) PROVE Leading'
  BY <1>3, OffLeads, SealLeads, PlacingLeads, JournalPutLeads, IndexPutLeads DEF WriteStep
<1>4. ASSUME NEW w \in Workers, NEW p \in Paths, Claim(w, p) PROVE Leading'
  BY <1>4, ClaimLeads
<1>5. ASSUME NEW w \in Workers, FlushStep(w) PROVE Leading'
  BY <1>5, SetCheckLeads, SetAppendLeads, SetApplyLeads, UploadLeads, EndLeads DEF FlushStep
<1>6. ASSUME NEW t \in Threads, DiscardStep(t) PROVE Leading'
  BY <1>6, DiscardLeads
<1>7. CASE Crash \/ Open
  BY <1>7, CrashLeads, OpenLeads
<1>8. CASE UNCHANGED vars
  BY <1>8 DEF vars, Leading, Leads, JournalLeads, NewVersion, PutRecorded, StillUnsent, ChangeRecorded
<1> QED BY <1>1, <1>2, <1>3, <1>4, <1>5, <1>6, <1>7, <1>8 DEF Next

LEMMA LeadingHolds == Spec => []Leading
<1>1. Init => Leading
  <2> SUFFICES ASSUME Init PROVE Leading
    OBVIOUS
  <2>1. \A t \in Threads : th[t].pc = "idle"
    BY IdleTyped DEF Init
  <2>2. \A t \in Threads : Leads(t)
    BY <2>1 DEF Leads, NewVersion, PutRecorded, StillUnsent, ChangeRecorded, SealedLabels, WriteLabels,
                Sending, SetLabels
  <2>3. JournalLeads
    BY DEF Init, JournalLeads, NoObject
  <2> QED BY <2>1, <2>2, <2>3 DEF Leading
<1>2. CleanInvariant /\ SingleFlight /\ Leading /\ [Next]_vars => Leading'
  BY NextLeads
<1> QED BY <1>1, <1>2, CleanInvariantHolds, OneUploadPerPath, PTL DEF Spec

\* As long as the whole journal can be read, the index never calls clean what a restart
\* would find unsent: setState appends before it moves the index, and neither a commit
\* nor another upload comes between the two for the same version.  Appends may fail
\* and crashes come as they will.
THEOREM JournalIsAhead == Spec => []JournalLeads
<1>1. Leading => JournalLeads
  BY DEF Leading
<1> QED BY <1>1, LeadingHolds, PTL

-----------------------------------------------------------------------------
(* What was accepted is kept, under the assumptions of the run that checks  *)
(* it: requests for one path take turns, nobody deletes, a commit that has  *)
(* renamed its file does not fail, and the cache stays below its high       *)
(* watermark.  Keeping is the inductive invariant.  Two arguments meet in   *)
(* it: a path is with one client at a time (Turns), so that what a commit   *)
(* has done is still so when it answers; and a worker that holds a path     *)
(* finds it unsent and its file there, so that it never discards it.        *)

OneAtATime == TakeTurns /\ "remove" \notin Ops /\ "commit" \notin Faults

\* The paths a client has in hand.
Reserved(t) == ({th[t].path, th[t].victim} \cup th[t].todo) \ {NoPath}

Turns == \A t, u \in Clients : t # u => Reserved(t) \cap Reserved(u) = {}

Placing    == {"syncdir", "journal", "index"}
Forgetting == {"forget", "unlink", "drop"}

\* How far a client's commit has come, and what it may discard.
ClientCalm(t) ==
    LET r == th[t] IN
    /\ r.pc \notin {"rmcheck", "rmwait", "delete"} /\ r.goal # "delete"
    /\ r.pc \in WriteLabels => /\ r.goal \in {"dirty", "clean"}
                               /\ r.goal = "clean" => index[r.path] = NoObject
    /\ r.pc \in SealedLabels => r.body = body[r.ver]
    /\ r.pc \in Placing => files[r.path] = r.body /\ (r.goal = "dirty" => r.path \in exposed)
    /\ r.pc \in {"journal", "index"} => disk[r.path] = {r.body}
    /\ r.pc = "index" /\ ~torn => jnl[r.path] = NewObject(t)
    /\ r.pc \in Forgetting => \A p \in r.todo : ~Unsent(index[p])
    /\ r.pc \in {"unlink", "drop"} => index[r.victim] = NoObject

\* A worker discards nothing, and calls clean only what is no longer owed.
WorkerCalm(w) ==
    LET r == th[w] IN
    /\ r.pc \notin Forgetting \cup {"rmwait"}
    /\ r.pc \in Sending => Unsent(index[r.path])
    /\ r.pc \in SetLabels /\ r.goal = "clean" => promised[r.path] # r.ver

Calm(t) == (t \in Clients => ClientCalm(t)) /\ (t \in Workers => WorkerCalm(t))

\* PromiseKept, of one path.
Kept(p) ==
    p \notin exposed /\ promised[p] # 0 =>
        /\ jnl[p].ver = promised[p] /\ Unsent(jnl[p])
        /\ disk[p] = {body[promised[p]]} /\ files[p] = body[promised[p]]
        /\ phase = "open" => index[p].ver = promised[p] /\ Unsent(index[p])

FileThere(p) == Unsent(index[p]) => files[p] # NoBody

Keeping ==
    /\ Turns
    /\ \A p \in Paths : Kept(p) /\ FileThere(p)
    /\ \A t \in Threads : Calm(t)

\* What clients have in hand are paths.
LEMMA InHand ==
    ASSUME CleanInvariant, NEW t \in Threads
    PROVE  /\ Reserved(t) \subseteq Paths
           /\ th[t].path \in Paths => th[t].path \in Reserved(t)
           /\ th[t].victim \in Paths => th[t].victim \in Reserved(t)
           /\ th[t].todo \subseteq Reserved(t)
<1>1. th[t] \in Thread
  BY DEF CleanInvariant, TypeOK
<1> QED BY <1>1, NullsAreFresh DEF Reserved, Thread

\* A client stays calm when others leave alone what it has in hand, but for syncing it
\* and for news of uploads.
LEMMA OtherClient ==
    ASSUME CleanInvariant, Keeping, NEW u \in Clients, th'[u] = th[u],
           \A p \in Reserved(u) : /\ ~Unsent(index[p]) => index'[p] = index[p]
                                  /\ files'[p] = files[p] /\ disk'[p] \in {disk[p], {files[p]}}
                                  /\ p \in exposed => p \in exposed',
           torn => torn', th[u].pc = "index" /\ ~torn' => jnl'[th[u].path] = jnl[th[u].path],
           th[u].pc \in SealedLabels => body'[th[u].ver] = body[th[u].ver]
    PROVE  ClientCalm(u)'
<1>1. ClientCalm(u) /\ WellFormed(u) /\ ~Unsent(NoObject)
  BY DEF Keeping, Calm, CleanInvariant, Unsent, NoObject
<1>2. th[u].pc \in WriteLabels => th[u].path \in Reserved(u)
  BY <1>1, InHand DEF WellFormed
<1>3. th[u].pc \in {"unlink", "drop"} => th[u].victim \in Reserved(u)
  BY <1>1, InHand DEF WellFormed
<1>4. \A p \in th[u].todo : ~Unsent(index[p]) => ~Unsent(index'[p])
  BY InHand
<1>5. Placing \subseteq WriteLabels /\ SealedLabels \subseteq WriteLabels
  BY DEF Placing, SealedLabels, WriteLabels
<1>6. th[u].pc \in WriteLabels /\ th[u].goal = "clean" => index'[th[u].path] = NoObject
  BY <1>1, <1>2 DEF ClientCalm
<1>7. th[u].pc \in Placing => files'[th[u].path] = th[u].body /\ (th[u].goal = "dirty" => th[u].path \in exposed')
  BY <1>1, <1>2, <1>5 DEF ClientCalm
<1>8. th[u].pc \in {"journal", "index"} => disk'[th[u].path] = {th[u].body}
  BY <1>1, <1>2, <1>5 DEF ClientCalm, Placing
<1>9. NewObject(u)' = NewObject(u)
  BY DEF NewObject
<1>10. th[u].pc \in {"unlink", "drop"} => index'[th[u].victim] = NoObject
  BY <1>1, <1>3 DEF ClientCalm
<1> QED BY <1>1, <1>4, <1>6, <1>7, <1>8, <1>9, <1>10 DEF ClientCalm

\* A worker stays calm while what it sends stays unsent.
LEMMA OtherWorker ==
    ASSUME CleanInvariant, Keeping, NEW u \in Workers, th'[u] = th[u],
           th[u].pc \in Sending =>
              /\ Unsent(index[th[u].path]) => Unsent(index'[th[u].path])
              /\ promised'[th[u].path] \in {promised[th[u].path], 0} \/ promised'[th[u].path] # th[u].ver
    PROVE  WorkerCalm(u)'
<1>1. WorkerCalm(u)
  BY DEF Keeping, Calm
<1>2. th[u].pc \in Sending => th[u].ver \in Versions
  BY DEF CleanInvariant, WellFormed, Sending, SetLabels
<1> QED BY <1>1, <1>2 DEF WorkerCalm, Sending

\* A client that gives up paths, or takes what is free.
LEMMA TurnsStay ==
    ASSUME CleanInvariant, Keeping, NEW t \in Threads, th' = [th EXCEPT ![t] = th'[t]],
           t \in Workers \/ \A u \in Clients \ {t} : Reserved(t)' \cap Reserved(u) \subseteq Reserved(t)
    PROVE  Turns'
<1>1. \A u \in Clients : u # t => Reserved(u)' = Reserved(u)
  BY DEF CleanInvariant, TypeOK, Reserved
<1> QED BY <1>1, ThreadsAreDistinct DEF Keeping, Turns

\* A step that only moves its thread.
LEMMA ThreadStep ==
    ASSUME CleanInvariant, Keeping, NEW t \in Threads, th' = [th EXCEPT ![t] = th'[t]],
           UNCHANGED <<index, files, disk, jnl, promised, exposed, body, phase>>, torn => torn',
           Calm(t)', t \in Workers \/ \A u \in Clients \ {t} : Reserved(t)' \cap Reserved(u) \subseteq Reserved(t)
    PROVE  Keeping'
<1>1. Turns'
  BY TurnsStay
<1>2. \A p \in Paths : Kept(p)' /\ FileThere(p)'
  BY DEF Keeping, Kept, FileThere
<1>3. ASSUME NEW u \in Threads, u # t PROVE Calm(u)'
  <2>1. th'[u] = th[u]
    BY <1>3 DEF CleanInvariant, TypeOK
  <2> QED BY <2>1, OtherClient, OtherWorker DEF Calm
<1> QED BY <1>1, <1>2, <1>3 DEF Keeping

\* A promise about a path a step leaves alone, but for syncing it.
LEMMA KeptStays ==
    ASSUME CleanInvariant, NEW p \in Paths, Kept(p), phase' = phase,
           index'[p] = index[p], jnl'[p] = jnl[p], files'[p] = files[p], disk'[p] \in {disk[p], {files[p]}},
           promised'[p] = promised[p], p \in exposed <=> p \in exposed',
           \A v \in Versions : v <= clock => body'[v] = body[v]
    PROVE  Kept(p)'
<1>1. jnl[p].ver <= clock /\ jnl[p].ver \in 0 .. MaxVersion
  BY DEF CleanInvariant, Issued, TypeOK, Object
<1>2. jnl[p].ver # 0 => body'[jnl[p].ver] = body[jnl[p].ver]
  BY <1>1, BoundsAreNat
<1> QED BY <1>2 DEF Kept

\* A client's step on a path it has in hand.
LEMMA ClientStep ==
    ASSUME CleanInvariant, Leading, Keeping, NEW t \in Clients, NEW p \in Reserved(t),
           th' = [th EXCEPT ![t] = th'[t]], Reserved(t)' \subseteq Reserved(t), phase' = phase, torn => torn',
           \A v \in Versions : v <= clock => body'[v] = body[v],
           \A q \in Paths \ {p} :
              /\ index'[q] = index[q] /\ jnl'[q] = jnl[q] /\ files'[q] = files[q]
              /\ disk'[q] \in {disk[q], {files[q]}}
              /\ promised'[q] = promised[q] /\ (q \in exposed <=> q \in exposed'),
           Unsent(index[p]) => Unsent(index'[p]),
           promised'[p] = promised[p] \/ (promised'[p] = th[t].ver /\ th[t].pc \in SealedLabels),
           Kept(p)', FileThere(p)', ClientCalm(t)'
    PROVE  Keeping'
<1>1. Turns'
  BY TurnsStay
<1>2. ASSUME NEW q \in Paths, q # p PROVE Kept(q)' /\ FileThere(q)'
  BY <1>2, KeptStays DEF Keeping, FileThere
<1>3. ASSUME NEW u \in Threads, u # t PROVE Calm(u)'
  <2>1. th'[u] = th[u]
    BY <1>3 DEF CleanInvariant, TypeOK
  <2>2. CASE u \in Clients
    <3>1. p \notin Reserved(u) /\ Reserved(u) \subseteq Paths
      BY <1>3, <2>2, InHand DEF Keeping, Turns
    <3>2. th[u].pc \in SealedLabels => th[u].path \in Reserved(u) /\ th[u].ver \in Versions /\ th[u].ver <= clock
      BY InHand DEF CleanInvariant, WellFormed, Issued, SealedLabels
    <3>3. th[u].pc = "index" => th[u].path \in Reserved(u)
      BY <3>2 DEF SealedLabels, WriteLabels
    <3>4. ClientCalm(u)'
      BY <2>1, <2>2, <3>1, <3>2, <3>3, OtherClient
    <3> QED BY <2>2, <3>4, ThreadsAreDistinct DEF Calm
  <2>3. CASE u \in Workers
    <3>1. th[u].pc \in Sending => th[u].path \in Paths
      BY <2>3 DEF CleanInvariant, WellFormed, Sending, SetLabels
    <3>2. th[t].pc \in SealedLabels => th[u].ver # th[t].ver
      BY <1>3 DEF Leading, Leads, NewVersion
    <3>3. WorkerCalm(u)'
      BY <2>1, <2>3, <3>1, <3>2, OtherWorker
    <3> QED BY <2>3, <3>3, ThreadsAreDistinct DEF Calm
  <2> QED BY <2>2, <2>3
<1>4. p \in Paths /\ Calm(t)'
  BY InHand, ThreadsAreDistinct DEF Calm
<1> QED BY <1>1, <1>2, <1>3, <1>4 DEF Keeping

\* A worker's step on the path it holds: news of an object that is unsent.
LEMMA WorkerStep ==
    ASSUME CleanInvariant, SingleFlight, Leading, Keeping, NEW w \in Workers, th[w].pc # "idle",
           th' = [th EXCEPT ![w] = th'[w]], UNCHANGED <<files, disk, exposed, body, phase>>, torn => torn',
           \A p \in Paths :
              /\ index'[p] = index[p] \/ (p = th[w].path /\ Unsent(index[p]))
              /\ jnl'[p] = jnl[p] \/ jnl[p].ver = th[w].ver
              /\ promised'[p] \in {promised[p], 0},
           \A p \in Paths : Kept(p)' /\ FileThere(p)', WorkerCalm(w)'
    PROVE  Keeping'
<1>1. Turns'
  BY TurnsStay
<1>2. ASSUME NEW u \in Threads, u # w PROVE Calm(u)'
  <2>1. th'[u] = th[u]
    BY <1>2 DEF CleanInvariant, TypeOK
  <2>2. CASE u \in Clients
    <3>1. Reserved(u) \subseteq Paths
      BY InHand
    <3>2. ASSUME th[u].pc = "index", ~torn' PROVE jnl'[th[u].path] = jnl[th[u].path]
      <4>1. th[u].path \in Paths /\ th[u].pc \in SealedLabels
        BY <3>2 DEF CleanInvariant, WellFormed, SealedLabels, WriteLabels
      <4>2. jnl[th[u].path].ver = th[u].ver
        <5>1. ClientCalm(u)
          BY <2>2 DEF Keeping, Calm
        <5>2. jnl[th[u].path] = NewObject(u)
          BY <3>2, <5>1 DEF ClientCalm
        <5> QED BY <5>2 DEF NewObject
      <4>3. th[u].ver # th[w].ver
        BY <1>2, <2>2, <4>1 DEF Leading, Leads, NewVersion
      <4> QED BY <4>1, <4>2, <4>3
    <3>3. ClientCalm(u)'
      BY <2>1, <2>2, <3>1, <3>2, OtherClient
    <3> QED BY <2>2, <3>3, ThreadsAreDistinct DEF Calm
  <2>3. CASE u \in Workers
    <3>1. th[u].pc \in Sending => th[u].path \in Paths /\ th[u].path # th[w].path
      BY <1>2, <2>3 DEF CleanInvariant, WellFormed, SingleFlight, Sending, SetLabels
    <3>2. WorkerCalm(u)'
      BY <2>1, <2>3, <3>1, OtherWorker
    <3> QED BY <2>3, <3>2, ThreadsAreDistinct DEF Calm
  <2> QED BY <2>2, <2>3
<1>3. Calm(w)'
  BY ThreadsAreDistinct DEF Calm
<1> QED BY <1>1, <1>2, <1>3 DEF Keeping

\* What a request that begins has in hand is nobody else's.
LEMMA FreeToTake ==
    ASSUME TakeTurns, NEW t \in Clients, NEW S \in SUBSET Paths, MayStart(t, S), Reserved(t)' \subseteq S,
           NEW u \in Clients \ {t}
    PROVE  Reserved(t)' \cap Reserved(u) \subseteq Reserved(t)
BY DEF MayStart, Reserved

\* A write begins; a fill only of a path the index does not have.
LEMMA WriterCalm ==
    ASSUME CleanInvariant, Keeping, TakeTurns, NEW t \in Clients, NEW p \in Paths, MayStart(t, {p}),
           NEW b \in Bodies, NEW g \in {"dirty", "clean"}, g = "clean" => index[p] = NoObject,
           th' = [th EXCEPT ![t] = Writer(p, b, g)],
           UNCHANGED <<index, files, disk, jnl, promised, exposed, body, phase>>, torn => torn'
    PROVE  Keeping'
<1>1. th'[t] = Writer(p, b, g) /\ th' = [th EXCEPT ![t] = th'[t]]
  BY DEF CleanInvariant, TypeOK
<1>2. /\ th'[t].pc = "writing" /\ th'[t].path = p /\ th'[t].goal = g /\ th'[t].todo = {}
      /\ th'[t].victim = NoPath
  <2>1. Idle \in Thread /\ Idle.todo = {} /\ Idle.victim = NoPath
    BY IdleTyped DEF Idle
  <2>2. Writer(p, b, g).todo = {} /\ Writer(p, b, g).victim = NoPath
    BY <2>1 DEF Writer, Thread
  <2> QED BY <1>1, <2>2, WriterInOrder DEF States
<1>3. Reserved(t)' \subseteq {p}
  BY <1>2 DEF Reserved
<1>4. ClientCalm(t)'
  BY <1>2 DEF ClientCalm, SealedLabels, WriteLabels, Placing, Forgetting
<1>5. \A u \in Clients \ {t} : Reserved(t)' \cap Reserved(u) \subseteq Reserved(t)
  BY <1>3, FreeToTake
<1>6. Calm(t)'
  BY <1>4, ThreadsAreDistinct DEF Calm
<1> QED BY <1>1, <1>5, <1>6, ThreadStep

\* A read begins, or a refresh or a clear of what is clean.
LEMMA AskingCalm ==
    ASSUME CleanInvariant, Keeping, TakeTurns, NEW t \in Clients, NEW p \in Paths \cup {NoPath},
           NEW S \in SUBSET Paths, NEW D \in SUBSET Paths, MayStart(t, D), ({p} \ {NoPath}) \cup S \subseteq D,
           NEW l \in {"opening", "forget"}, \A q \in S : ~Unsent(index[q]),
           th' = [th EXCEPT ![t] = Asking(l, p, "clean", S)],
           UNCHANGED <<index, files, disk, jnl, promised, exposed, body, phase>>, torn => torn'
    PROVE  Keeping'
<1>1. th'[t] = Asking(l, p, "clean", S) /\ th' = [th EXCEPT ![t] = th'[t]]
  BY DEF CleanInvariant, TypeOK
<1>2. /\ th'[t].pc = l /\ th'[t].path = p /\ th'[t].goal = "clean" /\ th'[t].todo = S
      /\ th'[t].victim = NoPath
  <2>1. Idle \in Thread /\ Idle.todo = {} /\ Idle.victim = NoPath
    BY IdleTyped DEF Idle
  <2>2. \A q, S0 : LET r == Asking(l, q, "clean", S0) IN
                   r.pc = l /\ r.path = q /\ r.goal = "clean" /\ r.todo = S0 /\ r.victim = NoPath
    BY <2>1 DEF Asking, Thread
  <2> QED BY <1>1, <2>2
<1>3. Reserved(t)' \subseteq D
  BY <1>2 DEF Reserved
<1>4. ClientCalm(t)'
  BY <1>2 DEF ClientCalm, SealedLabels, WriteLabels, Placing, Forgetting
<1>5. \A u \in Clients \ {t} : Reserved(t)' \cap Reserved(u) \subseteq Reserved(t)
  BY <1>3, FreeToTake
<1>6. Calm(t)'
  BY <1>4, ThreadsAreDistinct DEF Calm
<1> QED BY <1>1, <1>5, <1>6, ThreadStep

\* Requests begin: nobody deletes.
LEMMA RequestCalm ==
    ASSUME CleanInvariant, Keeping, OneAtATime, NEW t \in Clients, NEW p \in Paths,
           Request(t, p) \/ Clear(t)
    PROVE  Keeping'
<1>1. TakeTurns /\ ~RemoveBegin(t, p)
  BY DEF OneAtATime, RemoveBegin
<1>2. ASSUME NEW b \in Bodies, PutBegin(t, p, b) PROVE Keeping'
  BY <1>1, <1>2, WriterCalm DEF PutBegin
<1>3. CASE FillBegin(t, p)
  <2>1. up[p] \in Bodies
    BY <1>3 DEF FillBegin, CleanInvariant, TypeOK
  <2> QED BY <1>1, <1>3, <2>1, WriterCalm DEF FillBegin
<1>4. CASE GetHit(t, p)
  <2>1. \A q \in {} : ~Unsent(index[q])
    OBVIOUS
  <2>2. MayStart(t, {p}) /\ th' = [th EXCEPT ![t] = Asking("opening", p, "clean", {})]
    BY <1>4 DEF GetHit
  <2>3. UNCHANGED <<index, files, disk, jnl, promised, exposed, body, phase>> /\ (torn => torn')
    BY <1>4 DEF GetHit
  <2>4. {} \in SUBSET Paths /\ {p} \in SUBSET Paths /\ ({p} \ {NoPath}) \cup {} \subseteq {p}
    OBVIOUS
  <2> QED BY <1>1, <2>1, <2>2, <2>3, <2>4, AskingCalm
<1>5. \A q \in CleanPaths : q \in Paths /\ ~Unsent(index[q])
  BY DEF CleanPaths, Unsent
<1>6. CASE Refresh(t, p)
  <2>1. \A q \in {p} : ~Unsent(index[q])
    BY <1>5, <1>6 DEF Refresh, Refreshable
  <2>2. MayStart(t, {p}) /\ th' = [th EXCEPT ![t] = Asking("forget", p, "clean", {p})]
    BY <1>6 DEF Refresh
  <2>3. UNCHANGED <<index, files, disk, jnl, promised, exposed, body, phase>> /\ (torn => torn')
    BY <1>6 DEF Refresh
  <2>4. {p} \in SUBSET Paths /\ ({p} \ {NoPath}) \cup {p} \subseteq {p}
    OBVIOUS
  <2> QED BY <1>1, <2>1, <2>2, <2>3, <2>4, AskingCalm
<1>7. CASE Clear(t)
  BY <1>1, <1>5, <1>7, AskingCalm DEF Clear, Clearable
<1> QED BY <1>1, <1>2, <1>3, <1>4, <1>6, <1>7 DEF Request

\* An idle client has nothing in hand and nothing to show.
LEMMA IdleCalm ==
    ASSUME NEW t \in Clients, th'[t] = Idle
    PROVE  ClientCalm(t)' /\ Calm(t)' /\ Reserved(t)' = {}
<1>1. Reserved(t)' = {}
  BY DEF Reserved, Idle
<1>2. ClientCalm(t)'
  BY DEF ClientCalm, Idle, SealedLabels, WriteLabels, Placing, Forgetting
<1> QED BY <1>1, <1>2, ThreadsAreDistinct DEF Calm

\* A request that ends.
LEMMA ResetCalm ==
    ASSUME CleanInvariant, Keeping, NEW t \in Clients, Reset(t),
           UNCHANGED <<index, files, disk, jnl, promised, exposed, body, phase>>, torn => torn'
    PROVE  Keeping'
<1>1. th'[t] = Idle /\ th' = [th EXCEPT ![t] = th'[t]]
  BY DEF Reset, CleanInvariant, TypeOK
<1> QED BY <1>1, IdleCalm, ThreadStep

\* A read whose file is gone: what is not there is not unsent.
LEMMA GetOpenCalm ==
    ASSUME CleanInvariant, Keeping, NEW t \in Clients, GetOpen(t)
    PROVE  Keeping'
<1> DEFINE p == th[t].path
           r == [th[t] EXCEPT !.pc = "forget", !.todo = {p}]
<1>1. th[t] \in Thread /\ p \in Paths /\ ClientCalm(t)
  BY DEF GetOpen, At, CleanInvariant, TypeOK, WellFormed, Keeping, Calm
<1>0. UNCHANGED <<index, files, disk, jnl, promised, exposed, body, phase>> /\ (torn => torn')
  BY AppendsHow DEF GetOpen
<1>2. CASE files[p] # NoBody
  BY <1>0, <1>2, ResetCalm DEF GetOpen
<1>3. CASE files[p] = NoBody
  <2>1. /\ r.pc = "forget" /\ r.todo = {p} /\ r.path = p /\ r.goal = th[t].goal
        /\ r.victim = th[t].victim
    BY <1>1 DEF Thread
  <2>2. th' = [th EXCEPT ![t] = r]
    BY <1>3 DEF GetOpen
  <2>3. th'[t] = r /\ th' = [th EXCEPT ![t] = th'[t]]
    BY <2>2 DEF CleanInvariant, TypeOK
  <2>4. ~Unsent(index[p])
    BY <1>1, <1>3 DEF Keeping, FileThere
  <2>5. index' = index
    BY DEF GetOpen
  <2>6. ClientCalm(t)'
    BY <1>1, <2>1, <2>3, <2>4, <2>5 DEF ClientCalm, SealedLabels, WriteLabels, Placing, Forgetting
  <2>7. Reserved(t)' \subseteq Reserved(t)
    BY <2>1, <2>3 DEF Reserved
  <2>8. Calm(t)'
    BY <2>6, ThreadsAreDistinct DEF Calm
  <2> QED BY <1>0, <2>3, <2>7, <2>8, ThreadStep
<1> QED BY <1>2, <1>3

\* Nobody is deleting, so a request step is the opening of a file.
LEMMA RequestStepCalm ==
    ASSUME CleanInvariant, Keeping, NEW t \in Clients, RequestStep(t)
    PROVE  Keeping'
<1>1. th[t].pc \notin {"rmcheck", "rmwait", "delete"}
  BY DEF Keeping, Calm, ClientCalm
<1> QED BY <1>1, GetOpenCalm DEF RequestStep, RemoveCheck, RemoveGivesUp, DeleteUpstream, At

\* A client in a commit has its path, its content and its version.
LEMMA InCommit ==
    ASSUME CleanInvariant, Leading, Keeping, NEW t \in Clients, th[t].pc \in SealedLabels
    PROVE  /\ th[t].path \in Paths /\ th[t].path \in Reserved(t) /\ th[t].body \in Bodies
           /\ th[t].ver \in Versions /\ ClientCalm(t) /\ NewVersion(t)
           /\ th[t].body = body[th[t].ver] /\ th[t].goal \in {"dirty", "clean"}
           /\ NewObject(t).ver = th[t].ver /\ NewObject(t).state = th[t].goal
           /\ Kept(th[t].path) /\ FileThere(th[t].path)
<1>1. th[t].path \in Paths /\ th[t].body \in Bodies /\ th[t].ver \in Versions /\ th[t].pc \in WriteLabels
  BY DEF CleanInvariant, WellFormed, SealedLabels
<1>2. ClientCalm(t) /\ NewVersion(t) /\ Kept(th[t].path) /\ FileThere(th[t].path)
  BY <1>1 DEF Keeping, Calm, Leading, Leads
<1>3. th[t].body = body[th[t].ver] /\ th[t].goal \in {"dirty", "clean"}
  BY <1>1, <1>2 DEF ClientCalm
<1> QED BY <1>1, <1>2, <1>3, InHand DEF NewObject

\* A thread whose label alone changes has in hand what it had.
LEMMA LabelKeepsHand ==
    ASSUME CleanInvariant, NEW t \in Threads, NEW l \in Labels, Goto(t, l)
    PROVE  /\ th' = [th EXCEPT ![t] = th'[t]] /\ th'[t].pc = l /\ th'[t].path = th[t].path
           /\ th'[t].body = th[t].body /\ th'[t].ver = th[t].ver /\ th'[t].goal = th[t].goal
           /\ th'[t].victim = th[t].victim /\ th'[t].todo = th[t].todo
           /\ Reserved(t)' = Reserved(t) /\ NewObject(t)' = NewObject(t)
<1>1. th[t] \in Thread /\ th'[t] = [th[t] EXCEPT !.pc = l]
  BY DEF CleanInvariant, TypeOK, Goto
<1>2. th'[t].todo = th[t].todo
  BY <1>1 DEF Thread
<1> QED BY <1>2, Relabelled DEF CleanInvariant, Reserved, NewObject

\* The version given out carries the content it was given.
LEMMA SealCalm ==
    ASSUME CleanInvariant, Leading, Keeping, NEW t \in Clients, Seal(t)
    PROVE  Keeping'
<1>0. PICK p : p = th[t].path
  OBVIOUS
<1> USE <1>0
<1>a. PICK b \in Arrived(t) :
         /\ body' = [body EXCEPT ![clock + 1] = b]
         /\ th' = [th EXCEPT ![t].pc = "rename", ![t].ver = clock + 1, ![t].body = b]
  BY DEF Seal
<1> DEFINE r == [th[t] EXCEPT !.pc = "rename", !.ver = clock + 1, !.body = b]
<1>1. /\ th[t].pc = "writing" /\ th[t] \in Thread /\ p \in Paths /\ p \in Reserved(t) /\ clock \in Nat
      /\ clock + 1 \in Versions /\ ClientCalm(t)
  BY InHand, BoundsAreNat DEF Seal, At, CleanInvariant, TypeOK, WellFormed, WriteLabels, Keeping, Calm
<1>2. /\ r.pc = "rename" /\ r.ver = clock + 1 /\ r.path = p /\ r.body = b
      /\ r.goal = th[t].goal /\ r.todo = th[t].todo /\ r.victim = th[t].victim
  BY <1>1 DEF Thread
<1>3. th'[t] = r /\ th' = [th EXCEPT ![t] = th'[t]]
  BY <1>a DEF CleanInvariant, TypeOK
<1>4. Reserved(t)' = Reserved(t)
  BY <1>2, <1>3 DEF Reserved
<1>5. body'[clock + 1] = b /\ \A v \in Versions : v <= clock => body'[v] = body[v]
  BY <1>1, <1>a DEF CleanInvariant, TypeOK
<1>6. UNCHANGED <<index, files, disk, jnl, torn, promised, exposed, phase>>
  BY DEF Seal
<1>7. Kept(p)' /\ FileThere(p)'
  BY <1>1, <1>5, <1>6, KeptStays DEF Keeping, FileThere
<1>8. ClientCalm(t)'
  BY <1>1, <1>2, <1>3, <1>5, <1>6 DEF ClientCalm, SealedLabels, WriteLabels, Placing, Forgetting
<1> QED BY <1>1, <1>3, <1>4, <1>5, <1>6, <1>7, <1>8, ClientStep

\* From the rename on a rewrite has suspended the promise about its path.
LEMMA RenameCalm ==
    ASSUME CleanInvariant, Leading, Keeping, NEW t \in Clients, Rename(t)
    PROVE  Keeping'
<1>0. PICK p : p = th[t].path
  OBVIOUS
<1> USE <1>0
<1>1. th[t].pc = "rename" /\ th[t].pc \in SealedLabels
  BY DEF Rename, At, SealedLabels, WriteLabels
<1>2. /\ th' = [th EXCEPT ![t] = th'[t]] /\ th'[t].pc = "syncdir" /\ th'[t].path = p
      /\ th'[t].body = th[t].body /\ th'[t].ver = th[t].ver /\ th'[t].goal = th[t].goal
      /\ Reserved(t)' = Reserved(t)
  BY LabelKeepsHand DEF Rename, Labels
<1>3. UNCHANGED <<index, jnl, torn, promised, body, phase>>
  BY DEF Rename
<1>4. \A q \in Paths \ {p} : /\ files'[q] = files[q] /\ disk'[q] = disk[q]
                             /\ (q \in exposed <=> q \in exposed')
  BY DEF Rename, CleanInvariant, TypeOK
<1>5. files'[p] = th[t].body /\ (th[t].goal = "dirty" => p \in exposed') /\ exposed \subseteq exposed'
  BY <1>1, InCommit DEF Rename, CleanInvariant, TypeOK
<1>6. th[t].goal = "clean" => index[p] = NoObject
  BY <1>1, InCommit DEF ClientCalm, SealedLabels
<1>7. FileThere(p)'
  BY <1>1, <1>5, InCommit, NullsAreFresh DEF FileThere
<1>8. Kept(p)'
  <2>1. CASE th[t].goal = "dirty"
    BY <1>5, <2>1 DEF Kept
  <2>2. CASE th[t].goal = "clean"
    <3>1. phase = "open" /\ exposed' = exposed /\ ~Unsent(NoObject)
      BY <2>2 DEF Rename, At, Unsent, NoObject
    <3> QED BY <1>1, <1>3, <1>6, <2>2, <3>1, InCommit DEF Kept
  <2> QED BY <1>1, <2>1, <2>2, InCommit
<1>9. ClientCalm(t)'
  <2>1. ClientCalm(t)
    BY <1>1, InCommit
  <2> QED BY <1>1, <1>2, <1>3, <1>5, <1>6, <2>1, InCommit
          DEF ClientCalm, SealedLabels, WriteLabels, Placing, Forgetting
<1> QED BY <1>1, <1>2, <1>3, <1>4, <1>7, <1>8, <1>9, InCommit, ClientStep

\* The directory is synced: every name in it is what the kernel shows.
LEMMA SyncDirCalm ==
    ASSUME CleanInvariant, Leading, Keeping, NEW t \in Clients, SyncDir(t)
    PROVE  Keeping'
<1>0. PICK p : p = th[t].path
  OBVIOUS
<1> USE <1>0
<1>1. th[t].pc = "syncdir" /\ th[t].pc \in SealedLabels
  BY DEF SyncDir, At, SealedLabels, WriteLabels
<1>2. /\ th' = [th EXCEPT ![t] = th'[t]] /\ th'[t].pc = "journal" /\ th'[t].path = p
      /\ th'[t].body = th[t].body /\ th'[t].ver = th[t].ver /\ th'[t].goal = th[t].goal
      /\ Reserved(t)' = Reserved(t)
  BY LabelKeepsHand DEF SyncDir, Labels
<1>3. UNCHANGED <<index, jnl, torn, files, promised, exposed, body, phase>>
  BY DEF SyncDir
<1>4. \A q \in Paths : disk'[q] = {files[q]}
  BY DEF SyncDir
<1>5. Kept(p)' /\ FileThere(p)'
  BY <1>1, <1>3, <1>4, InCommit, KeptStays DEF FileThere
<1>6. ClientCalm(t)'
  <2>1. ClientCalm(t) /\ p \in Paths
    BY <1>1, InCommit
  <2> QED BY <1>1, <1>2, <1>3, <1>4, <2>1, InCommit
          DEF ClientCalm, SealedLabels, WriteLabels, Placing, Forgetting
<1> QED BY <1>1, <1>2, <1>3, <1>4, <1>5, <1>6, InCommit, ClientStep

\* The journal has the new version once the file is safe; the old promise is suspended.
LEMMA JournalPutCalm ==
    ASSUME CleanInvariant, Leading, Keeping, NEW t \in Clients, JournalPut(t)
    PROVE  Keeping'
<1>0. PICK p : p = th[t].path
  OBVIOUS
<1> USE <1>0
<1>1. th[t].pc = "journal" /\ th[t].pc \in SealedLabels /\ phase = "open"
  BY DEF JournalPut, At, SealedLabels, WriteLabels
<1>2. /\ th' = [th EXCEPT ![t] = th'[t]] /\ th'[t].pc = "index" /\ th'[t].path = p
      /\ th'[t].body = th[t].body /\ th'[t].ver = th[t].ver /\ th'[t].goal = th[t].goal
      /\ Reserved(t)' = Reserved(t) /\ NewObject(t)' = NewObject(t)
  BY LabelKeepsHand DEF JournalPut, Labels
<1>3. UNCHANGED <<index, files, disk, torn, promised, exposed, body, phase>>
  BY DEF JournalPut, Appends
<1>4. (~torn => jnl'[p] = NewObject(t)) /\ \A q \in Paths \ {p} : jnl'[q] = jnl[q]
  BY <1>1, InCommit DEF JournalPut, Appends, Recorded, CleanInvariant, TypeOK
<1>5. ClientCalm(t)
  BY <1>1, InCommit
<1>6. ~(p \notin exposed /\ promised[p] # 0)
  <2>1. CASE th[t].goal = "dirty"
    BY <1>1, <1>5, <2>1 DEF ClientCalm, Placing
  <2>2. CASE th[t].goal = "clean"
    <3>1. index[p] = NoObject /\ ~Unsent(NoObject)
      BY <1>1, <1>5, <2>2 DEF ClientCalm, SealedLabels, Unsent, NoObject
    <3> QED BY <1>1, <3>1, InCommit DEF Kept
  <2> QED BY <1>1, <2>1, <2>2, InCommit
<1>7. Kept(p)' /\ FileThere(p)'
  BY <1>1, <1>3, <1>6, InCommit DEF Kept, FileThere
<1>8. ClientCalm(t)'
  BY <1>1, <1>2, <1>3, <1>4, <1>5, InCommit DEF ClientCalm, SealedLabels, WriteLabels, Placing, Forgetting
<1> QED BY <1>1, <1>2, <1>3, <1>4, <1>7, <1>8, InCommit, ClientStep

\* The index moves last: what the client is told is on disk and in the journal.
LEMMA IndexPutCalm ==
    ASSUME CleanInvariant, Leading, Keeping, NEW t \in Clients, IndexPut(t)
    PROVE  Keeping'
<1>0. PICK p : p = th[t].path
  OBVIOUS
<1> USE <1>0
<1>1. th[t].pc = "index" /\ th[t].pc \in SealedLabels /\ phase = "open"
  BY DEF IndexPut, At, SealedLabels, WriteLabels
<1>2. /\ th' = [th EXCEPT ![t] = th'[t]] /\ th'[t].pc = "evict" /\ Reserved(t)' = Reserved(t)
      /\ th'[t].goal = th[t].goal
  BY LabelKeepsHand DEF IndexPut, Labels
<1>3. UNCHANGED <<jnl, torn, files, disk, body, phase>>
  BY DEF IndexPut
<1>4. index'[p] = NewObject(t) /\ \A q \in Paths \ {p} : index'[q] = index[q]
  BY <1>1, InCommit DEF IndexPut, CleanInvariant, TypeOK
<1>5. ClientCalm(t)
  BY <1>1, InCommit
<1>6. /\ files[p] = th[t].body /\ disk[p] = {th[t].body} /\ (~torn => jnl[p] = NewObject(t))
      /\ th[t].goal = "clean" => index[p] = NoObject
  BY <1>1, <1>5 DEF ClientCalm, Placing, SealedLabels
<1>7. Unsent(NewObject(t)) <=> th[t].goal = "dirty"
  BY <1>1, InCommit DEF Unsent
<1>8. \A q \in Paths \ {p} : promised'[q] = promised[q] /\ (q \in exposed <=> q \in exposed')
  BY <1>1, InCommit DEF IndexPut, CleanInvariant, TypeOK
<1>9. IF th[t].goal = "dirty" THEN promised'[p] = th[t].ver /\ (torn => p \in exposed')
      ELSE promised' = promised /\ exposed' = exposed
  BY <1>1, <1>7, InCommit DEF IndexPut, CleanInvariant, TypeOK
<1>10. ~Unsent(NoObject)
  BY DEF Unsent, NoObject
<1>11. Kept(p)'
  <2>1. CASE th[t].goal = "dirty"
    BY <1>1, <1>3, <1>4, <1>6, <1>7, <1>9, <2>1, InCommit DEF Kept
  <2>2. CASE th[t].goal # "dirty"
    <3>1. index[p] = NoObject /\ Kept(p)
      BY <1>1, <1>6, <2>2, InCommit
    <3>2. ~(p \notin exposed /\ promised[p] # 0)
      BY <1>1, <1>10, <3>1 DEF Kept
    <3> QED BY <1>9, <2>2, <3>2 DEF Kept
  <2> QED BY <2>1, <2>2
<1>12. FileThere(p)'
  BY <1>1, <1>3, <1>6, InCommit, NullsAreFresh DEF FileThere
<1>13. Unsent(index[p]) => Unsent(index'[p])
  BY <1>1, <1>4, <1>6, <1>7, <1>10, InCommit
<1>14. ClientCalm(t)'
  BY <1>2, <1>5 DEF ClientCalm, SealedLabels, WriteLabels, Placing, Forgetting
<1>15. promised'[p] = promised[p] \/ (promised'[p] = th[t].ver /\ th[t].pc \in SealedLabels)
  BY <1>1, <1>9
<1> QED BY <1>1, <1>2, <1>3, <1>4, <1>8, <1>11, <1>12, <1>13, <1>14, <1>15, InCommit, ClientStep

\* A forget goes on with what is left, or ends its request.
LEMMA ForgetOn ==
    ASSUME CleanInvariant, Keeping, NEW t \in Clients, NEW S \in SUBSET th[t].todo,
           th'[t] = AfterForget(t, S), \A q \in S : ~Unsent(index'[q])
    PROVE  ClientCalm(t)' /\ Reserved(t)' \subseteq Reserved(t)
<1>1. th[t] \in Thread /\ ClientCalm(t)
  BY DEF CleanInvariant, TypeOK, Keeping, Calm
<1>2. CASE S # {}
  <2> DEFINE r == [th[t] EXCEPT !.pc = "forget", !.todo = S, !.victim = NoPath]
  <2>1. th'[t] = r
    BY <1>2 DEF AfterForget
  <2>2. /\ r.pc = "forget" /\ r.todo = S /\ r.victim = NoPath /\ r.path = th[t].path
        /\ r.goal = th[t].goal
    BY <1>1 DEF Thread
  <2>3. ClientCalm(t)'
    BY <1>1, <2>1, <2>2 DEF ClientCalm, SealedLabels, WriteLabels, Placing, Forgetting
  <2> QED BY <2>1, <2>2, <2>3 DEF Reserved
<1>3. CASE S = {}
  <2>1. th'[t] = Idle
    BY <1>1, <1>3, ThreadsAreDistinct DEF ClientCalm, AfterForget, Rest
  <2> QED BY <2>1, IdleCalm
<1> QED BY <1>2, <1>3

\* A client that discards has in hand what is not unsent, so nothing of it is owed.
LEMMA NotOwed ==
    ASSUME Keeping, phase = "open", NEW p \in Paths, ~Unsent(index[p])
    PROVE  ~(p \notin exposed /\ promised[p] # 0)
BY DEF Keeping, Kept

LEMMA ForgetIndexCalm ==
    ASSUME CleanInvariant, Leading, Keeping, NEW t \in Clients, ForgetIndex(t)
    PROVE  Keeping'
<1>1. /\ th[t].pc = "forget" /\ phase = "open" /\ th[t] \in Thread /\ ClientCalm(t)
      /\ UNCHANGED <<jnl, torn, files, disk, promised, exposed, body, phase>>
  BY DEF ForgetIndex, At, CleanInvariant, TypeOK, Keeping, Calm
<1>2. PICK p \in th[t].todo :
         IF index[p] = NoObject
         THEN th' = [th EXCEPT ![t] = AfterForget(t, th[t].todo \ {p})] /\ index' = index
         ELSE /\ index' = [index EXCEPT ![p] = NoObject]
              /\ th' = [th EXCEPT ![t].pc = "unlink", ![t].victim = p, ![t].todo = @ \ {p}]
  BY DEF ForgetIndex
<1>3. p \in Reserved(t) /\ p \in Paths /\ \A q \in th[t].todo : ~Unsent(index[q])
  BY <1>1, InHand DEF ClientCalm, Forgetting
<1>4. CASE index[p] = NoObject
  <2>1. th'[t] = AfterForget(t, th[t].todo \ {p}) /\ th' = [th EXCEPT ![t] = th'[t]]
    BY <1>2, <1>4 DEF CleanInvariant, TypeOK
  <2>2. th[t].todo \ {p} \in SUBSET th[t].todo /\ \A q \in th[t].todo \ {p} : ~Unsent(index'[q])
    BY <1>2, <1>3, <1>4
  <2>3. ClientCalm(t)' /\ Reserved(t)' \subseteq Reserved(t)
    BY <2>1, <2>2, ForgetOn
  <2>4. Calm(t)'
    BY <2>3, ThreadsAreDistinct DEF Calm
  <2> QED BY <1>1, <1>2, <1>4, <2>1, <2>3, <2>4, ThreadStep
<1>5. CASE index[p] # NoObject
  <2> DEFINE r == [th[t] EXCEPT !.pc = "unlink", !.victim = p, !.todo = @ \ {p}]
  <2>1. /\ r.pc = "unlink" /\ r.victim = p /\ r.todo = th[t].todo \ {p} /\ r.path = th[t].path
        /\ r.goal = th[t].goal
    BY <1>1 DEF Thread
  <2>2. th' = [th EXCEPT ![t] = r]
    BY <1>2, <1>5
  <2>3. th'[t] = r /\ th' = [th EXCEPT ![t] = th'[t]]
    BY <2>2 DEF CleanInvariant, TypeOK
  <2>4. Reserved(t)' \subseteq Reserved(t)
    BY <1>2, <1>3, <2>1, <2>3 DEF Reserved
  <2>5. index'[p] = NoObject /\ \A q \in Paths \ {p} : index'[q] = index[q]
    BY <1>2, <1>3, <1>5 DEF CleanInvariant, TypeOK
  <2>6. \A q \in th'[t].todo : ~Unsent(index'[q])
    BY <1>3, <2>1, <2>3, <2>5, InHand
  <2>7. ClientCalm(t)'
    BY <1>1, <2>1, <2>3, <2>5, <2>6 DEF ClientCalm, SealedLabels, WriteLabels, Placing, Forgetting
  <2>8. Kept(p)' /\ FileThere(p)'
    BY <1>1, <1>2, <1>3, <2>5, NotOwed DEF Kept, FileThere, Unsent, NoObject
  <2> QED BY <1>1, <1>2, <1>3, <2>3, <2>4, <2>5, <2>7, <2>8, ClientStep
<1> QED BY <1>4, <1>5

\* The file of what has left the index goes.
LEMMA UnlinkCalm ==
    ASSUME CleanInvariant, Leading, Keeping, NEW t \in Clients, Unlink(t)
    PROVE  Keeping'
<1>0. PICK p : p = th[t].victim
  OBVIOUS
<1> USE <1>0
<1>1. /\ th[t].pc = "unlink" /\ phase = "open" /\ p \in Paths /\ p \in Reserved(t) /\ ClientCalm(t)
      /\ UNCHANGED <<index, jnl, torn, promised, exposed, body, phase>>
  BY InHand DEF Unlink, At, CleanInvariant, WellFormed, Keeping, Calm
<1>2. /\ th' = [th EXCEPT ![t] = th'[t]] /\ th'[t].pc = "drop" /\ th'[t].victim = p
      /\ th'[t].todo = th[t].todo /\ th'[t].goal = th[t].goal /\ Reserved(t)' = Reserved(t)
  BY LabelKeepsHand DEF Unlink, Labels
<1>3. \A q \in Paths \ {p} : files'[q] = files[q] /\ disk'[q] = disk[q]
  BY <1>1 DEF Unlink, Unlinked, CleanInvariant, TypeOK
<1>4. index[p] = NoObject /\ ~Unsent(index[p])
  BY <1>1 DEF ClientCalm, Unsent, NoObject
<1>5. Kept(p)' /\ FileThere(p)'
  BY <1>1, <1>4, NotOwed DEF Kept, FileThere
<1>6. ClientCalm(t)'
  BY <1>1, <1>2, <1>4 DEF ClientCalm, SealedLabels, WriteLabels, Placing, Forgetting
<1> QED BY <1>1, <1>2, <1>3, <1>5, <1>6, ClientStep

\* The journal forgets it last, or fails to.
LEMMA DropCalm ==
    ASSUME CleanInvariant, Leading, Keeping, NEW t \in Clients, Drop(t)
    PROVE  Keeping'
<1>0. PICK p : p = th[t].victim
  OBVIOUS
<1> USE <1>0
<1>1. /\ th[t].pc = "drop" /\ phase = "open" /\ p \in Paths /\ p \in Reserved(t) /\ ClientCalm(t)
      /\ UNCHANGED <<index, files, disk, promised, exposed, body, phase>>
  BY InHand DEF Drop, At, CleanInvariant, WellFormed, Keeping, Calm
<1>a. jnl' \in {jnl, Recorded(p, NoObject)} /\ (torn => torn')
  BY AppendsHow DEF Drop
<1>2. th'[t] = AfterForget(t, th[t].todo) /\ th' = [th EXCEPT ![t] = th'[t]]
  BY DEF Drop, CleanInvariant, TypeOK
<1>3. \A q \in Paths \ {p} : jnl'[q] = jnl[q]
  BY <1>1, <1>a DEF Recorded, CleanInvariant, TypeOK
<1>4. ~Unsent(index[p]) /\ \A q \in th[t].todo : ~Unsent(index'[q])
  BY <1>1 DEF ClientCalm, Forgetting, Unsent, NoObject
<1>5. Kept(p)' /\ FileThere(p)'
  BY <1>1, <1>4, NotOwed DEF Kept, FileThere
<1>6. ClientCalm(t)' /\ Reserved(t)' \subseteq Reserved(t)
  BY <1>2, <1>4, ForgetOn
<1> QED BY <1>1, <1>a, <1>2, <1>3, <1>5, <1>6, ClientStep

\* There is room, so nothing is evicted.
LEMMA EvictCalm ==
    ASSUME CleanInvariant, Keeping, bytes \in 0 .. High, NEW t \in Threads, Evict(t)
    PROVE  Keeping'
<1>1. ~(bytes > High)
  BY BoundsAreNat
<1>2. th'[t] = Rest(t) /\ th' = [th EXCEPT ![t] = th'[t]]
  BY <1>1 DEF Evict, CleanInvariant, TypeOK
<1>3. CASE t \in Clients
  <2>1. th'[t] = Idle
    BY <1>2, <1>3, ThreadsAreDistinct DEF Rest
  <2> QED BY <1>2, <1>3, <2>1, IdleCalm, ThreadStep DEF Evict
<1>4. CASE t \in Workers
  <2>1. th'[t].pc = "end"
    BY <1>2, <1>4, RestInOrder
  <2>2. Calm(t)'
    BY <1>4, <2>1, ThreadsAreDistinct DEF Calm, WorkerCalm, Forgetting, Sending, SetLabels
  <2> QED BY <1>2, <1>4, <2>2, ThreadStep DEF Evict
<1> QED BY <1>3, <1>4

LEMMA DiscardCalm ==
    ASSUME CleanInvariant, Leading, Keeping, bytes \in 0 .. High, NEW t \in Threads, DiscardStep(t)
    PROVE  Keeping'
<1>1. CASE Evict(t)
  BY <1>1, EvictCalm
<1>2. CASE ForgetIndex(t) \/ Unlink(t) \/ Drop(t)
  <2>1. th[t].pc \in Forgetting
    BY <1>2 DEF ForgetIndex, Unlink, Drop, At, Forgetting
  <2>2. t \in Clients
    BY <2>1 DEF Keeping, Calm, WorkerCalm
  <2> QED BY <1>2, <2>2, ForgetIndexCalm, UnlinkCalm, DropCalm
<1> QED BY <1>1, <1>2 DEF DiscardStep

\* A worker in a flush: what it holds is unsent, and its file is there.
LEMMA InFlush ==
    ASSUME CleanInvariant, Keeping, NEW w \in Workers, th[w].pc \in Sending
    PROVE  /\ th[w] \in Thread /\ th[w].pc # "idle" /\ th[w].path \in Paths /\ th[w].ver \in Versions
           /\ th[w].goal \in States /\ WorkerCalm(w)
           /\ Unsent(index[th[w].path]) /\ files[th[w].path] # NoBody
<1>1. th[w] \in Thread /\ th[w].pc # "idle" /\ WellFormed(w) /\ WorkerCalm(w)
  BY DEF CleanInvariant, TypeOK, Keeping, Calm, Sending, SetLabels
<1>2. th[w].path \in Paths /\ Unsent(index[th[w].path])
  BY <1>1 DEF WellFormed, WorkerCalm
<1> QED BY <1>1, <1>2 DEF WellFormed, Keeping, FileThere

\* A worker that has done with its upload shows nothing.
LEMMA DoneCalm ==
    ASSUME NEW w \in Workers, th'[w].pc \in {"evict", "end", "idle"}
    PROVE  WorkerCalm(w)' /\ Calm(w)'
BY ThreadsAreDistinct DEF Calm, WorkerCalm, Forgetting, Sending, SetLabels

LEMMA ClaimCalm ==
    ASSUME CleanInvariant, Keeping, NEW w \in Workers, NEW p \in Paths, Claim(w, p)
    PROVE  Keeping'
<1>1. index[p].ver \in 0 .. MaxVersion
  BY DEF CleanInvariant, TypeOK, Object
<1>2. /\ th'[w].pc = "check" /\ th'[w].path = p /\ th'[w].goal = "uploading"
      /\ th' = [th EXCEPT ![w] = th'[w]]
  BY <1>1, HoldingInOrder DEF Claim, CleanInvariant, TypeOK
<1>3. Calm(w)'
  BY <1>2, ThreadsAreDistinct DEF Claim, Claimable, Unsent, Calm, WorkerCalm, Forgetting, Sending, SetLabels
<1> QED BY <1>2, <1>3, ThreadStep DEF Claim

\* What is left to check of a worker that goes on with what it holds.
LEMMA GoesOnCalm ==
    ASSUME CleanInvariant, Keeping, NEW w \in Workers, th'[w].pc \in Sending,
           Unsent(index'[th'[w].path]),
           th'[w].pc \in SetLabels /\ th'[w].goal = "clean" => promised'[th'[w].path] # th'[w].ver
    PROVE  WorkerCalm(w)' /\ Calm(w)'
BY ThreadsAreDistinct DEF Calm, WorkerCalm, Forgetting, Sending, SetLabels

LEMMA SetCheckCalm ==
    ASSUME CleanInvariant, Keeping, NEW w \in Workers, SetCheck(w)
    PROVE  Keeping'
<1>1. th[w].pc = "check" /\ th[w].pc \in Sending /\ th[w].pc \in SetLabels /\ UNCHANGED <<index, promised>>
  BY DEF SetCheck, At, Sending, SetLabels
<1>2. CASE Current(w)
  <2>1. /\ th' = [th EXCEPT ![w] = th'[w]] /\ th'[w].pc = "append" /\ th'[w].path = th[w].path
        /\ th'[w].ver = th[w].ver /\ th'[w].goal = th[w].goal
    BY <1>2, LabelKeepsHand DEF SetCheck, Labels
  <2>2. Calm(w)'
    BY <1>1, <2>1, InFlush, GoesOnCalm DEF WorkerCalm, Sending, SetLabels
  <2> QED BY <2>1, <2>2, ThreadStep DEF SetCheck
<1>3. CASE ~Current(w)
  <2>1. th'[w] = AfterSet(w, FALSE) /\ th' = [th EXCEPT ![w] = th'[w]]
    BY <1>3 DEF SetCheck, CleanInvariant, TypeOK
  <2>2. Calm(w)'
    BY <1>1, <2>1, AfterSetGoes, InFlush, GoesOnCalm, DoneCalm DEF Sending, SetLabels
  <2> QED BY <2>1, <2>2, ThreadStep DEF SetCheck
<1> QED BY <1>2, <1>3

\* The journal's record of what is owed is never made clean.
LEMMA SetAppendCalm ==
    ASSUME CleanInvariant, SingleFlight, Leading, Keeping, NEW w \in Workers, SetAppend(w)
    PROVE  Keeping'
<1>0. PICK p : p = th[w].path
  OBVIOUS
<1> USE <1>0
<1>1. /\ th[w].pc = "append" /\ th[w].pc \in Sending /\ th[w].pc \in SetLabels /\ phase = "open"
      /\ UNCHANGED <<index, files, disk, promised, exposed, body, phase>>
      /\ jnl' \in {jnl, RecordedState(p, th[w].ver, th[w].goal)} /\ (torn => torn')
  BY AppendsHow DEF SetAppend, At, Sending, SetLabels
<1>2. p \in Paths /\ th[w].goal \in States /\ (th[w].goal = "clean" => promised[p] # th[w].ver)
  BY <1>1, InFlush DEF WorkerCalm
<1>3. \A q \in Paths : \/ jnl'[q] = jnl[q]
                       \/ /\ q = p /\ jnl'[q] = [jnl[q] EXCEPT !.state = th[w].goal]
                          /\ jnl[q].ver = th[w].ver
  BY <1>1, <1>2 DEF RecordedState, CleanInvariant, TypeOK
<1>4. \A q \in Paths : jnl[q] \in Object
  BY DEF CleanInvariant, TypeOK
<1>5. ASSUME NEW q \in Paths PROVE Kept(q)' /\ FileThere(q)'
  <2>1. Kept(q) /\ FileThere(q)
    BY DEF Keeping
  <2>2. CASE jnl'[q] = jnl[q]
    BY <1>1, <2>1, <2>2 DEF Kept, FileThere
  <2>3. CASE q = p /\ jnl'[q] = [jnl[q] EXCEPT !.state = th[w].goal] /\ jnl[q].ver = th[w].ver
    <3>1. jnl'[q].ver = jnl[q].ver /\ jnl'[q].state = th[w].goal
      BY <1>4, <2>3 DEF Object
    <3>2. q \notin exposed /\ promised[q] # 0 => Unsent(jnl'[q])
      BY <1>2, <2>1, <2>3, <3>1 DEF Kept, Unsent, States
    <3> QED BY <1>1, <2>1, <3>1, <3>2 DEF Kept, FileThere
  <2> QED BY <1>3, <2>2, <2>3
<1>6. WorkerCalm(w)' /\ th' = [th EXCEPT ![w] = th'[w]]
  <2>1. CASE Goto(w, "apply")
    <3>1. /\ th' = [th EXCEPT ![w] = th'[w]] /\ th'[w].pc = "apply" /\ th'[w].path = p
          /\ th'[w].ver = th[w].ver /\ th'[w].goal = th[w].goal
      BY <2>1, LabelKeepsHand DEF Labels
    <3> QED BY <1>1, <1>2, <3>1, InFlush, GoesOnCalm DEF Sending, SetLabels
  <2>2. CASE th' = [th EXCEPT ![w] = AfterSet(w, FALSE)]
    <3>1. th'[w] = AfterSet(w, FALSE) /\ th' = [th EXCEPT ![w] = th'[w]]
      BY <2>2 DEF CleanInvariant, TypeOK
    <3> QED BY <1>1, <3>1, AfterSetGoes, InFlush, GoesOnCalm, DoneCalm DEF Sending, SetLabels
  <2> QED BY <2>1, <2>2 DEF SetAppend
<1> QED BY <1>1, <1>3, <1>5, <1>6, InFlush, WorkerStep

\* Nor is the index's.
LEMMA SetApplyCalm ==
    ASSUME CleanInvariant, SingleFlight, Leading, Keeping, NEW w \in Workers, SetApply(w)
    PROVE  Keeping'
<1>0. PICK p : p = th[w].path
  OBVIOUS
<1> USE <1>0
<1>1. /\ th[w].pc = "apply" /\ th[w].pc \in Sending /\ th[w].pc \in SetLabels /\ phase = "open"
      /\ UNCHANGED <<jnl, torn, files, disk, promised, exposed, body, phase>>
  BY DEF SetApply, At, Sending, SetLabels
<1>2. /\ p \in Paths /\ th[w].goal \in States /\ (th[w].goal = "clean" => promised[p] # th[w].ver)
      /\ Unsent(index[p])
  BY <1>1, InFlush DEF WorkerCalm
<1>3. index[p] \in Object /\ Kept(p) /\ FileThere(p)
  BY <1>2 DEF CleanInvariant, TypeOK, Keeping
<1>4. /\ \A q \in Paths \ {p} : index'[q] = index[q]
      /\ \/ index'[p] = index[p]
         \/ index[p].ver = th[w].ver /\ index'[p].ver = th[w].ver /\ index'[p].state = th[w].goal
  <2>1. CASE Current(w)
    <3>1. index' = [index EXCEPT ![p] = [index[p] EXCEPT !.state = th[w].goal]] /\ index[p].ver = th[w].ver
      BY <2>1 DEF SetApply, Current
    <3>2. index'[p] = [index[p] EXCEPT !.state = th[w].goal]
      BY <1>2, <3>1 DEF CleanInvariant, TypeOK
    <3>3. [index[p] EXCEPT !.state = th[w].goal].state = th[w].goal
          /\ [index[p] EXCEPT !.state = th[w].goal].ver = index[p].ver
      BY <1>3 DEF Object
    <3> QED BY <3>1, <3>2, <3>3 DEF CleanInvariant, TypeOK
  <2>2. CASE ~Current(w)
    BY <2>2 DEF SetApply
  <2> QED BY <2>1, <2>2
<1>5. Kept(p)'
  BY <1>1, <1>2, <1>3, <1>4 DEF Kept, Unsent, States
<1>6. FileThere(p)'
  BY <1>1, <1>2, <1>3 DEF FileThere
<1>7. ASSUME NEW q \in Paths PROVE Kept(q)' /\ FileThere(q)'
  BY <1>1, <1>4, <1>5, <1>6 DEF Keeping, Kept, FileThere
<1>8. PICK applied \in BOOLEAN : th'[w] = AfterSet(w, applied) /\ th' = [th EXCEPT ![w] = th'[w]]
  BY DEF SetApply, Current, CleanInvariant, TypeOK
<1>9. WorkerCalm(w)'
  <2>1. CASE th'[w].pc = "open"
    <3>1. th[w].goal = "uploading" /\ th'[w].path = p
      BY <1>8, <2>1, AfterSetGoes
    <3>2. Unsent(index'[p])
      BY <1>2, <1>4, <3>1 DEF Unsent
    <3> QED BY <2>1, <3>1, <3>2, GoesOnCalm DEF Sending, SetLabels
  <2>2. CASE th'[w].pc # "open"
    BY <1>8, <2>2, AfterSetGoes, DoneCalm
  <2> QED BY <2>1, <2>2
<1> QED BY <1>1, <1>2, <1>4, <1>7, <1>8, <1>9, InFlush, WorkerStep

\* The content is there to be opened.
LEMMA OpenContentCalm ==
    ASSUME CleanInvariant, Keeping, NEW w \in Workers, OpenContent(w)
    PROVE  Keeping'
<1> DEFINE r == [th[w] EXCEPT !.pc = "upload", !.body = files[th[w].path]]
<1>1. th[w].pc \in Sending /\ UNCHANGED <<index, promised>>
  BY DEF OpenContent, At, Sending
<1>2. th' = [th EXCEPT ![w] = r]
  BY <1>1, InFlush DEF OpenContent
<1>3. r.pc = "upload" /\ r.path = th[w].path
  BY <1>1, InFlush DEF Thread
<1>4. th'[w] = r /\ th' = [th EXCEPT ![w] = th'[w]]
  BY <1>2 DEF CleanInvariant, TypeOK
<1>5. Calm(w)'
  BY <1>1, <1>3, <1>4, InFlush, GoesOnCalm DEF Sending, SetLabels
<1> QED BY <1>4, <1>5, ThreadStep DEF OpenContent

LEMMA UploadLandsCalm ==
    ASSUME CleanInvariant, Keeping, NEW w \in Workers, UploadLands(w)
    PROVE  Keeping'
<1>1. th[w].pc \in Sending /\ UNCHANGED <<index, promised>>
  BY DEF UploadLands, At, Sending
<1>2. PICK b : th' = [th EXCEPT ![w].pc = "landed", ![w].body = b]
  BY DEF UploadLands
<1> DEFINE r == [th[w] EXCEPT !.pc = "landed", !.body = b]
<1>3. r.pc = "landed" /\ r.path = th[w].path
  BY <1>1, InFlush DEF Thread
<1>4. th'[w] = r /\ th' = [th EXCEPT ![w] = th'[w]]
  BY <1>2 DEF CleanInvariant, TypeOK
<1>5. Calm(w)'
  BY <1>1, <1>3, <1>4, InFlush, GoesOnCalm DEF Sending, SetLabels
<1> QED BY <1>4, <1>5, ThreadStep DEF UploadLands

\* What upstream has confirmed is no longer owed.
LEMMA UploadAnswersCalm ==
    ASSUME CleanInvariant, SingleFlight, Leading, Keeping, NEW w \in Workers, UploadAnswers(w)
    PROVE  Keeping'
<1>1. th[w].pc \in Sending /\ UNCHANGED <<index, jnl, torn, files, disk, exposed, body, phase>>
  BY DEF UploadAnswers, At, Sending
<1>2. PICK g \in {"clean", "dirty"} :
         /\ th' = [th EXCEPT ![w].pc = "check", ![w].goal = g]
         /\ promised' = IF g = "clean"
                        THEN [promised EXCEPT ![th[w].path] = IF @ = th[w].ver THEN 0 ELSE @] ELSE promised
  BY DEF UploadAnswers
<1> DEFINE r == [th[w] EXCEPT !.pc = "check", !.goal = g]
<1>3. r.pc = "check" /\ r.path = th[w].path /\ r.goal = g /\ r.ver = th[w].ver
  BY <1>1, InFlush DEF Thread
<1>4. th'[w] = r /\ th' = [th EXCEPT ![w] = th'[w]]
  BY <1>2 DEF CleanInvariant, TypeOK
<1>5. \A p \in Paths : promised'[p] \in {promised[p], 0}
  BY <1>2 DEF CleanInvariant, TypeOK
<1>6. \A p \in Paths : Kept(p)' /\ FileThere(p)'
  BY <1>1, <1>5 DEF Keeping, Kept, FileThere
<1>7. g = "clean" => promised'[th[w].path] # th[w].ver
  <2>1. th[w].path \in Paths /\ th[w].ver # 0
    BY <1>1, InFlush
  <2> QED BY <1>2, <2>1 DEF CleanInvariant, TypeOK
<1>8. WorkerCalm(w)'
  BY <1>1, <1>3, <1>4, <1>7, InFlush, GoesOnCalm DEF Sending, SetLabels
<1> QED BY <1>1, <1>4, <1>5, <1>6, <1>8, InFlush, WorkerStep

\* An upload that failed or was stopped leaves what is owed as it was.
LEMMA UploadEndsCalm ==
    ASSUME CleanInvariant, Keeping, NEW w \in Workers, UploadFails(w) \/ UploadStopped(w)
    PROVE  Keeping'
<1>1. th[w].pc \in Sending /\ UNCHANGED <<index, promised>>
  BY DEF UploadFails, UploadStopped, At, Sending
<1>2. CASE UploadFails(w)
  <2> DEFINE r == [th[w] EXCEPT !.pc = "check", !.goal = "dirty"]
  <2>1. r.pc = "check" /\ r.path = th[w].path /\ r.goal = "dirty"
    BY <1>1, InFlush DEF Thread
  <2>2. th' = [th EXCEPT ![w] = r]
    BY <1>2 DEF UploadFails
  <2>3. th'[w] = r /\ th' = [th EXCEPT ![w] = th'[w]]
    BY <2>2 DEF CleanInvariant, TypeOK
  <2>4. Calm(w)'
    BY <1>1, <2>1, <2>3, InFlush, GoesOnCalm DEF Sending, SetLabels
  <2> QED BY <1>2, <2>3, <2>4, ThreadStep DEF UploadFails
<1>3. CASE UploadStopped(w)
  <2>1. th' = [th EXCEPT ![w] = th'[w]] /\ th'[w].pc = "end"
    BY <1>3, LabelKeepsHand DEF UploadStopped, Labels
  <2> QED BY <1>3, <2>1, DoneCalm, ThreadStep DEF UploadStopped
<1> QED BY <1>2, <1>3

\* Nobody waits for an upload when nobody deletes.
LEMMA EndCalm ==
    ASSUME CleanInvariant, Keeping, NEW w \in Workers, End(w)
    PROVE  Keeping'
<1>1. \A t \in Threads : th[t].pc # "rmwait"
  BY DEF Keeping, Calm, ClientCalm, WorkerCalm
<1>2. th' = [th EXCEPT ![w] = Idle]
  BY <1>1 DEF End, CleanInvariant, TypeOK
<1>3. th'[w] = Idle /\ th' = [th EXCEPT ![w] = th'[w]]
  BY <1>2 DEF CleanInvariant, TypeOK
<1> QED BY <1>3, IdleTyped, DoneCalm, ThreadStep DEF End

LEMMA FlushCalm ==
    ASSUME CleanInvariant, SingleFlight, Leading, Keeping, NEW w \in Workers, FlushStep(w)
    PROVE  Keeping'
BY SetCheckCalm, SetAppendCalm, SetApplyCalm, OpenContentCalm, UploadLandsCalm, UploadAnswersCalm,
   UploadEndsCalm, EndCalm DEF FlushStep

\* A step of a commit that does not fail once its file is renamed.
LEMMA WriteStepCalm ==
    ASSUME CleanInvariant, Leading, Keeping, OneAtATime, NEW t \in Clients, WriteStep(t)
    PROVE  Keeping'
<1>1. CASE Abort(t)
  BY <1>1, ResetCalm DEF Abort
<1>2. ~SyncDirFails(t) /\ ~JournalPutFails(t)
  BY DEF OneAtATime, SyncDirFails, JournalPutFails
<1> QED BY <1>1, <1>2, SealCalm, RenameCalm, SyncDirCalm, JournalPutCalm, IndexPutCalm DEF WriteStep

\* Every version given out has its content.
Given == \A v \in Versions : v <= clock => body[v] \in Bodies

\* Only Seal gives out a version.
LEMMA GivenStep ==
    ASSUME CleanInvariant, Given, [Next]_vars
    PROVE  Given'
<1>1. ASSUME NEW t \in Clients, Seal(t) PROVE Given'
  <2>1. Arrived(t) \subseteq Bodies /\ clock \in Nat
    BY <1>1, BoundsAreNat DEF Seal, Arrived, At, CleanInvariant, TypeOK, WellFormed, WriteLabels
  <2>2. PICK b \in Bodies : body' = [body EXCEPT ![clock + 1] = b] /\ clock' = clock + 1
    BY <1>1, <2>1 DEF Seal
  <2> QED BY <2>1, <2>2, BoundsAreNat DEF Given, CleanInvariant, TypeOK, Versions
<1>2. CASE UNCHANGED <<clock, body>>
  BY <1>2 DEF Given
<1>3. ASSUME NEW t \in Clients, NEW p \in Paths, Request(t, p) PROVE UNCHANGED <<clock, body>>
  BY <1>3 DEF verVars, Request, PutBegin, FillBegin, GetHit, Refresh, RemoveBegin
<1>4. ASSUME NEW t \in Clients, Clear(t) PROVE UNCHANGED <<clock, body>>
  BY <1>4 DEF verVars, Clear
<1>5. ASSUME NEW t \in Clients, WriteStep(t) \/ RequestStep(t) PROVE Given'
  <2>1. CASE Seal(t)
    BY <1>1, <2>1
  <2>2. CASE ~Seal(t)
    <3>1. UNCHANGED <<clock, body>>
      BY <1>5, <2>2 DEF verVars, WriteStep, RequestStep, Abort, Rename, SyncDir, SyncDirFails, JournalPut, JournalPutFails,
                        IndexPut, GetOpen, RemoveCheck, RemoveGivesUp, DeleteUpstream
    <3> QED BY <1>2, <3>1
  <2> QED BY <2>1, <2>2
<1>6. ASSUME NEW w \in Workers, NEW p \in Paths, Claim(w, p) PROVE UNCHANGED <<clock, body>>
  BY <1>6 DEF verVars, Claim
<1>7. ASSUME NEW w \in Workers, FlushStep(w) PROVE UNCHANGED <<clock, body>>
  BY <1>7 DEF verVars, FlushStep, SetCheck, SetAppend, SetApply, OpenContent, UploadLands, UploadAnswers,
              UploadFails, UploadStopped, End
<1>8. ASSUME NEW t \in Threads, DiscardStep(t) PROVE UNCHANGED <<clock, body>>
  BY <1>8 DEF verVars, DiscardStep, Evict, ForgetIndex, Unlink, Drop
<1>9. CASE Crash \/ Open
  BY <1>2, <1>9 DEF verVars, Crash, Open
<1>10. CASE UNCHANGED vars
  BY <1>2, <1>10 DEF vars, verVars
<1> QED BY <1>2, <1>3, <1>4, <1>5, <1>6, <1>7, <1>8, <1>9, <1>10 DEF Next

LEMMA GivenHolds == Spec => []Given
<1>1. Init => Given
  BY DEF Init, Given, Versions
<1>2. CleanInvariant /\ Given /\ [Next]_vars => Given'
  BY GivenStep
<1> QED BY <1>1, <1>2, CleanInvariantHolds, PTL DEF Spec

\* A crash leaves of an accepted object what was synced: its bytes and its record.
LEMMA CrashCalm ==
    ASSUME CleanInvariant, Keeping, Crash
    PROVE  Keeping'
<1>1. /\ \A t \in Threads : th'[t] = Idle
      /\ \A p \in Paths : index'[p] = NoObject
      /\ phase' = "down" /\ UNCHANGED <<jnl, body, promised, exposed>>
      /\ \A p \in Paths : files'[p] \in disk[p] /\ disk'[p] = {files'[p]}
  BY DEF Crash
<1>2. \A t \in Clients : Reserved(t)' = {}
  BY <1>1, IdleCalm DEF Threads
<1>3. Turns'
  BY <1>2 DEF Turns
<1>4. ASSUME NEW p \in Paths PROVE Kept(p)' /\ FileThere(p)'
  <2>1. Kept(p)
    BY DEF Keeping
  <2>2. Kept(p)'
    BY <1>1, <2>1 DEF Kept
  <2> QED BY <1>1, <2>2 DEF FileThere, Unsent, NoObject
<1>5. ASSUME NEW t \in Threads PROVE Calm(t)'
  <2>1. CASE t \in Clients
    BY <1>1, <2>1, IdleCalm
  <2>2. CASE t \in Workers
    BY <1>1, <2>2, IdleTyped, DoneCalm
  <2> QED BY <2>1, <2>2 DEF Threads
<1> QED BY <1>3, <1>4, <1>5 DEF Keeping

\* Recovery finds an accepted object whole, and takes it.
LEMMA OpenCalm ==
    ASSUME CleanInvariant, Leading, Given, Keeping, Open
    PROVE  Keeping'
<1>1. /\ phase = "down" /\ th' = th /\ (\A t \in Threads : th[t].pc = "idle")
      /\ UNCHANGED <<body, promised, exposed>>
  BY DEF Open, Unlocked, Leading
<1>2. \A p \in Paths : IF Recoverable(p)
                       THEN index'[p] = jnl[p] /\ files'[p] = files[p] /\ disk'[p] = disk[p]
                       ELSE index'[p] = NoObject
  BY DEF Open
<1>3. \A p \in Paths : jnl'[p] \in {jnl[p], index'[p]}
  BY DEF Open, Compacted
<1>4. Turns'
  BY <1>1 DEF Keeping, Turns, Reserved
<1>5. ASSUME NEW p \in Paths PROVE Kept(p)' /\ FileThere(p)'
  <2>1. FileThere(p)'
    BY <1>2 DEF FileThere, Recoverable, Unsent, NoObject
  <2>2. ASSUME p \notin exposed, promised[p] # 0 PROVE Recoverable(p)
    <3>1. jnl[p].ver = promised[p] /\ files[p] = body[promised[p]]
      BY <2>2 DEF Keeping, Kept
    <3>2. jnl[p].ver \in Versions /\ jnl[p].ver <= clock
      BY <2>2, <3>1, BoundsAreNat DEF CleanInvariant, TypeOK, Issued, Object, Versions
    <3>3. files[p] \in Bodies
      BY <3>1, <3>2 DEF Given
    <3>4. jnl[p] # NoObject /\ Size(jnl[p]) = SizeOf[files[p]]
      BY <2>2, <3>1 DEF NoObject, Size
    <3> QED BY <3>3, <3>4, NullsAreFresh DEF Recoverable
  <2>3. Kept(p)'
    BY <1>1, <1>2, <1>3, <2>2 DEF Keeping, Kept
  <2> QED BY <2>1, <2>3
<1>6. ASSUME NEW t \in Threads PROVE Calm(t)'
  <2>1. Calm(t)
    BY DEF Keeping
  <2> QED BY <1>1, <2>1 DEF Calm, ClientCalm, WorkerCalm, SealedLabels, WriteLabels, Placing, Forgetting,
                          Sending, SetLabels
<1> QED BY <1>4, <1>5, <1>6 DEF Keeping

LEMMA NextCalm ==
    ASSUME OneAtATime, CleanInvariant, SingleFlight, Leading, Given, Keeping, bytes \in 0 .. High, [Next]_vars
    PROVE  Keeping'
<1>1. ASSUME NEW t \in Clients, NEW p \in Paths, Request(t, p) PROVE Keeping'
  BY <1>1, RequestCalm
<1>2. ASSUME NEW t \in Clients, Clear(t) PROVE Keeping'
  BY <1>2, RequestCalm DEF Clear, Clearable, CleanPaths
<1>3. ASSUME NEW t \in Clients, WriteStep(t) \/ RequestStep(t) PROVE Keeping'
  BY <1>3, WriteStepCalm, RequestStepCalm
<1>4. ASSUME NEW w \in Workers, NEW p \in Paths, Claim(w, p) PROVE Keeping'
  BY <1>4, ClaimCalm
<1>5. ASSUME NEW w \in Workers, FlushStep(w) PROVE Keeping'
  BY <1>5, FlushCalm
<1>6. ASSUME NEW t \in Threads, DiscardStep(t) PROVE Keeping'
  BY <1>6, DiscardCalm
<1>7. CASE Crash \/ Open
  BY <1>7, CrashCalm, OpenCalm
<1>8. CASE UNCHANGED vars
  <2>1. UNCHANGED <<index, files, disk, jnl, torn, promised, exposed, body, phase, th>>
    BY <1>8 DEF vars, indexVars, fileVars, jnlVars, oweVars, verVars, lifeVars
  <2>2. Turns' /\ \A p \in Paths : Kept(p)' /\ FileThere(p)'
    BY <2>1 DEF Keeping, Turns, Reserved, Kept, FileThere
  <2>3. \A t \in Threads : Calm(t)'
    BY <2>1 DEF Keeping, Calm, ClientCalm, WorkerCalm, NewObject
  <2> QED BY <2>2, <2>3 DEF Keeping
<1> QED BY <1>1, <1>2, <1>3, <1>4, <1>5, <1>6, <1>7, <1>8 DEF Next

LEMMA InitCalm == Init => Keeping
<1> SUFFICES ASSUME Init PROVE Keeping
  OBVIOUS
<1>1. /\ \A t \in Threads : th[t] = Idle
      /\ \A p \in Paths : index[p] = NoObject /\ promised[p] = 0
  BY DEF Init
<1>2. Turns
  BY <1>1 DEF Turns, Reserved, Idle, Threads
<1>3. \A p \in Paths : Kept(p) /\ FileThere(p)
  BY <1>1 DEF Kept, FileThere, Unsent, NoObject
<1>4. \A t \in Threads : Calm(t)
  BY <1>1 DEF Calm, ClientCalm, WorkerCalm, Idle, SealedLabels, WriteLabels, Placing, Forgetting,
              Sending, SetLabels
<1> QED BY <1>2, <1>3, <1>4 DEF Keeping

\* A write that was answered 202 is safe at every instant until an upload of it is taken
\* for success: on disk, in the journal and in the index, through crashes, recoveries
\* and failed appends. So it is when requests for one path take turns, nobody deletes,
\* no commit fails past its rename and eviction has no cause; without these, and for a
\* write accepted behind a torn record, the code does not promise it (the README says
\* where each is needed).
THEOREM AcceptedIsSafe == OneAtATime => (Spec /\ [](bytes \in 0 .. High) => []PromiseKept)
<1> SUFFICES ASSUME OneAtATime PROVE Spec /\ [](bytes \in 0 .. High) => []PromiseKept
  OBVIOUS
<1>1. CleanInvariant /\ SingleFlight /\ Leading /\ Given /\ bytes \in 0 .. High /\ Keeping /\ [Next]_vars
      => Keeping'
  BY NextCalm
<1>2. Spec => []Leading
  BY LeadingHolds
<1>3. Keeping => PromiseKept
  BY DEF Keeping, Kept, PromiseKept
<1> QED BY <1>1, <1>2, <1>3, InitCalm, CleanInvariantHolds, OneUploadPerPath, GivenHolds, PTL DEF Spec

-----------------------------------------------------------------------------
(* The counters.  bytes and dirty are kept by differences and Accounting    *)
(* says they are sums, so this part begins with what a sum over a finite    *)
(* set is: it does not depend on the order of its elements, it moves by the *)
(* difference when one weight changes, and what weighs nothing may be left  *)
(* out.  The invariant is Counted, with both counters as sums over Paths.   *)

\* An element of s, as the sum picks it; the recursive function whose value MapThenSumSet
\* is; and that value.
Any(s) == CHOOSE x \in s : TRUE
Unfold(G, f, S) == [s \in SUBSET S |-> IF s = {} THEN 0 ELSE f[Any(s)] + G[s \ {Any(s)}]]
Sum(f, S) == (CHOOSE G : G = Unfold(G, f, S))[S]

\* Induction over the naturals, for a set of them.
LEMMA Induct ==
    ASSUME NEW T, 0 \in T, \A n \in Nat : n \in T => n + 1 \in T
    PROVE  Nat \subseteq T
<1> DEFINE R == {z \in Nat \X Nat : z[1] < z[2]}
           U == Nat \ T
<1> SUFFICES ASSUME U # {} PROVE FALSE
  OBVIOUS
<1>1. IsWellFoundedOn(R, Nat)
  BY NatLessThanWellFounded DEF OpToRel
<1>2. PICK x \in U : \A y \in U : ~ (<<y, x>> \in R)
  <2> HIDE DEF R
  <2> QED BY <1>1, WFMin
<1>3. x \in Nat \ {0} /\ x - 1 \in Nat /\ <<x - 1, x>> \in R
  OBVIOUS
<1>4. x - 1 \in T
  BY <1>2, <1>3
<1> QED BY <1>3, <1>4

\* The picked element is one.
LEMMA AnyIsIn == ASSUME NEW s, s # {} PROVE Any(s) \in s
BY DEF Any

\* Subsets of a finite set, and what taking an element out leaves.
LEMMA Smaller ==
    ASSUME NEW S, IsFiniteSet(S), NEW s \in SUBSET S
    PROVE  /\ IsFiniteSet(s) /\ Cardinality(s) \in Nat /\ Cardinality(s) <= Cardinality(S)
           /\ s = {} <=> Cardinality(s) = 0
           /\ \A x \in s : /\ s \ {x} \in SUBSET S
                           /\ Cardinality(s \ {x}) = Cardinality(s) - 1
BY FS_Subset, FS_EmptySet, FS_RemoveElement, FS_CardinalityType

\* What holds of {} and of a set when it holds of the set less any element holds of all.
LEMMA SetInduction ==
    ASSUME NEW S, IsFiniteSet(S), NEW T, {} \in T,
           \A s \in SUBSET S : s # {} /\ (\A x \in s : s \ {x} \in T) => s \in T
    PROVE  SUBSET S \subseteq T
<1> DEFINE N == {n \in Nat : \A s \in SUBSET S : Cardinality(s) = n => s \in T}
<1>1. 0 \in N
  BY Smaller
<1>2. ASSUME NEW n \in Nat, n \in N PROVE n + 1 \in N
  <2> SUFFICES ASSUME NEW s \in SUBSET S, Cardinality(s) = n + 1 PROVE s \in T
    OBVIOUS
  <2>1. s # {} /\ \A x \in s : s \ {x} \in SUBSET S /\ Cardinality(s \ {x}) = n
    BY Smaller
  <2> QED BY <1>2, <2>1
<1>3. Nat \subseteq N
  <2> HIDE DEF N
  <2> QED BY <1>1, <1>2, Induct
<1> QED BY <1>3, Smaller

\* Every element of S has a weight.
Weights(f, S) == \A x \in S : f[x] \in Int

\* There is such a function: it is built one size of subset after another.
LEMMA UnfoldExists ==
    ASSUME NEW S, IsFiniteSet(S), NEW f, Weights(f, S)
    PROVE  \E G \in [SUBSET S -> Int] : G = Unfold(G, f, S)
<1> DEFINE Upto(n, G) == \A s \in SUBSET S : Cardinality(s) <= n => G[s] = Unfold(G, f, S)[s]
           N == {n \in Nat : \E G \in [SUBSET S -> Int] : Upto(n, G)}
<1>1. 0 \in N
  <2> DEFINE Z == [s \in SUBSET S |-> 0]
  <2>1. Z \in [SUBSET S -> Int] /\ Upto(0, Z)
    BY Smaller DEF Unfold
  <2> QED BY <2>1
<1>2. ASSUME NEW n \in Nat, n \in N PROVE n + 1 \in N
  <2>1. PICK G \in [SUBSET S -> Int] : Upto(n, G)
    BY <1>2
  <2> DEFINE H == [s \in SUBSET S |-> IF Cardinality(s) <= n THEN G[s] ELSE Unfold(G, f, S)[s]]
  <2>2. \A s \in SUBSET S : s # {} =>
           /\ Any(s) \in S /\ s \ {Any(s)} \in SUBSET S
           /\ Cardinality(s) \in Nat /\ Cardinality(s \ {Any(s)}) = Cardinality(s) - 1
    BY AnyIsIn, Smaller
  <2>3. ASSUME NEW s \in SUBSET S PROVE Unfold(G, f, S)[s] \in Int
    <3>1. s # {} => f[Any(s)] \in Int /\ G[s \ {Any(s)}] \in Int
      BY <2>2 DEF Weights
    <3>2. s # {} => f[Any(s)] + G[s \ {Any(s)}] \in Int
      BY <3>1
    <3> QED BY <3>2 DEF Unfold
  <2>4. H \in [SUBSET S -> Int]
    BY <2>3
  <2>5. ASSUME NEW s \in SUBSET S, Cardinality(s) <= n + 1 PROVE H[s] = Unfold(H, f, S)[s]
    <3>1. H[s] = Unfold(G, f, S)[s]
      <4>1. Cardinality(s) <= n => G[s] = Unfold(G, f, S)[s]
        BY <2>1
      <4>2. H[s] = IF Cardinality(s) <= n THEN G[s] ELSE Unfold(G, f, S)[s]
        OBVIOUS
      <4> QED BY <4>1, <4>2
    <3>2. s # {} => H[s \ {Any(s)}] = G[s \ {Any(s)}]
      BY <2>2, <2>5
    <3> HIDE DEF H
    <3> QED BY <3>1, <3>2 DEF Unfold
  <2> HIDE DEF H
  <2>6. Upto(n + 1, H)
    BY <2>5
  <2> QED BY <2>4, <2>6
<1>3. Nat \subseteq N
  <2> HIDE DEF N
  <2> QED BY <1>1, <1>2, Induct
<1>4. Cardinality(S) \in N
  <2> HIDE DEF N
  <2> QED BY <1>3, FS_CardinalityType
<1>5. PICK G \in [SUBSET S -> Int] : \A s \in SUBSET S : G[s] = Unfold(G, f, S)[s]
  BY <1>4, Smaller
<1>6. G = Unfold(G, f, S)
  BY <1>5 DEF Unfold
<1> QED BY <1>6


\* Two of them agree on the sets they share.
LEMMA UnfoldAgree ==
    ASSUME NEW S, IsFiniteSet(S), NEW f, NEW T \in SUBSET S,
           NEW G, G = Unfold(G, f, S), NEW H, H = Unfold(H, f, T)
    PROVE  \A s \in SUBSET T : G[s] = H[s]
<1> DEFINE E == {s \in SUBSET T : G[s] = H[s]}
<1>0. \A s \in SUBSET T : /\ G[s] = IF s = {} THEN 0 ELSE f[Any(s)] + G[s \ {Any(s)}]
                          /\ H[s] = IF s = {} THEN 0 ELSE f[Any(s)] + H[s \ {Any(s)}]
  BY DEF Unfold
<1>1. {} \in E
  BY <1>0
<1>2. ASSUME NEW s \in SUBSET T, s # {}, \A x \in s : s \ {x} \in E PROVE s \in E
  <2>1. s \ {Any(s)} \in E
    BY <1>2, AnyIsIn
  <2> QED BY <1>0, <1>2, <2>1
<1>3. IsFiniteSet(T)
  BY FS_Subset
<1>4. SUBSET T \subseteq E
  <2> HIDE DEF E
  <2> QED BY <1>1, <1>2, <1>3, SetInduction
<1> QED BY <1>4

\* G has the sum of every subset of S, whichever element is taken first.
Adds(G, f, S) ==
    /\ \A s \in SUBSET S : G[s] = Sum(f, s)
    /\ G[{}] = 0
    /\ \A s \in SUBSET S : \A x \in s : G[s] = f[x] + G[s \ {x}]

\* The function that adds up the subsets of S takes any element of a set first.
LEMMA Unfolded ==
    ASSUME NEW S, IsFiniteSet(S), NEW f, Weights(f, S)
    PROVE  \E G \in [SUBSET S -> Int] : Adds(G, f, S)
<1>1. PICK G \in [SUBSET S -> Int] : G = Unfold(G, f, S)
  BY UnfoldExists
<1>2. ASSUME NEW s \in SUBSET S PROVE G[s] = Sum(f, s)
  <2>1. IsFiniteSet(s) /\ Weights(f, s)
    BY FS_Subset DEF Weights
  <2> DEFINE H == CHOOSE H : H = Unfold(H, f, s)
  <2>2. H = Unfold(H, f, s)
    BY <2>1, UnfoldExists
  <2>3. G[s] = H[s]
    <3> HIDE DEF H
    <3> QED BY <1>1, <2>2, UnfoldAgree
  <2> QED BY <2>3 DEF Sum
<1>3. \A s \in SUBSET S : G[s] = IF s = {} THEN 0 ELSE f[Any(s)] + G[s \ {Any(s)}]
  BY <1>1 DEF Unfold
<1> DEFINE E == {s \in SUBSET S : \A x \in s : G[s] = f[x] + G[s \ {x}]}
<1>4. ASSUME NEW s \in SUBSET S, s # {}, \A x \in s : s \ {x} \in E PROVE s \in E
  <2> SUFFICES ASSUME NEW x \in s, x # Any(s) PROVE G[s] = f[x] + G[s \ {x}]
    BY <1>3, <1>4
  <2> DEFINE a == Any(s)
             r == (s \ {a}) \ {x}
  <2>1. a \in s
    BY <1>4, AnyIsIn
  <2> HIDE DEF a
  <2>2. f[a] \in Int /\ f[x] \in Int /\ G[r] \in Int
    BY <2>1 DEF Weights
  <2>3. G[s] = f[a] + G[s \ {a}]
    BY <1>3, <1>4 DEF a
  <2>4. x \in s \ {a} /\ a \in s \ {x}
    BY <2>1 DEF a
  <2>5. G[s \ {a}] = f[x] + G[r]
    BY <1>4, <2>1, <2>4
  <2>6. (s \ {x}) \ {a} = r
    OBVIOUS
  <2>7. G[s \ {x}] = f[a] + G[(s \ {x}) \ {a}]
    BY <1>4, <2>4
  <2>8. \A i, j, k \in Int : i + (j + k) = j + (i + k)
    OBVIOUS
  <2>9. f[a] + (f[x] + G[r]) = f[x] + (f[a] + G[r])
    <3> HIDE DEF r
    <3> QED BY <2>2, <2>8
  <2>10. G[s] = f[a] + (f[x] + G[r]) /\ G[s \ {x}] = f[a] + G[r]
    <3> HIDE DEF r
    <3> QED BY <2>3, <2>5, <2>6, <2>7
  <2> QED BY <2>9, <2>10
<1>5. SUBSET S \subseteq E
  <2>1. {} \in E
    OBVIOUS
  <2> HIDE DEF E
  <2> QED BY <1>4, <2>1, SetInduction
<1>6. \A s \in SUBSET S : \A x \in s : G[s] = f[x] + G[s \ {x}]
  BY <1>5
<1>7. G[{}] = 0
  BY <1>3
<1> QED BY <1>2, <1>6, <1>7 DEF Adds

\* What a sum is, and that leaving out an element leaves out its weight.
LEMMA SumTakesOut ==
    ASSUME NEW S, IsFiniteSet(S), NEW f, Weights(f, S)
    PROVE  /\ Sum(f, S) \in Int
           /\ \A x \in S : Sum(f, S) = f[x] + Sum(f, S \ {x})
           /\ S = {} => Sum(f, S) = 0
<1>1. PICK G \in [SUBSET S -> Int] : Adds(G, f, S)
  BY Unfolded
<1>2. G[S] = Sum(f, S) /\ G[S] \in Int
  BY <1>1 DEF Adds
<1>3. \A x \in S : G[S \ {x}] = Sum(f, S \ {x})
  BY <1>1 DEF Adds
<1> QED BY <1>1, <1>2, <1>3 DEF Adds

\* A sum depends on the weights of its elements only.
LEMMA SameSum ==
    ASSUME NEW S, NEW f, NEW g, \A x \in S : f[x] = g[x]
    PROVE  Sum(f, S) = Sum(g, S)
<1>1. ASSUME NEW G PROVE Unfold(G, f, S) = Unfold(G, g, S)
  <2>1. \A s \in SUBSET S : s # {} => f[Any(s)] = g[Any(s)]
    BY AnyIsIn
  <2> QED BY <2>1 DEF Unfold
<1> QED BY <1>1 DEF Sum

\* One weight changes.
LEMMA SumMoves ==
    ASSUME NEW S, IsFiniteSet(S), NEW f, Weights(f, S), NEW g, Weights(g, S), NEW x \in S,
           \A y \in S \ {x} : f[y] = g[y]
    PROVE  Sum(g, S) = Sum(f, S) - f[x] + g[x]
<1>1. Sum(f, S \ {x}) = Sum(g, S \ {x})
  BY SameSum
<1>2. IsFiniteSet(S \ {x}) /\ Weights(f, S \ {x})
  BY FS_RemoveElement DEF Weights
<1>3. Sum(f, S \ {x}) \in Int
  BY <1>2, SumTakesOut
<1>4. f[x] \in Int /\ g[x] \in Int
  BY DEF Weights
<1>5. Sum(f, S) = f[x] + Sum(f, S \ {x}) /\ Sum(g, S) = g[x] + Sum(g, S \ {x})
  BY SumTakesOut
<1> QED BY <1>1, <1>3, <1>4, <1>5

\* What weighs nothing may be left out.
LEMMA SumOfSome ==
    ASSUME NEW S, IsFiniteSet(S), NEW f, Weights(f, S), NEW T \in SUBSET S,
           \A x \in S \ T : f[x] = 0
    PROVE  Sum(f, S) = Sum(f, T)
<1> DEFINE E == {s \in SUBSET S : Sum(f, s) = Sum(f, s \cap T)}
<1>1. {} \in E
  OBVIOUS
<1>2. ASSUME NEW s \in SUBSET S, s # {}, \A x \in s : s \ {x} \in E PROVE s \in E
  <2>1. CASE s \subseteq T
    <3>1. s \cap T = s
      BY <2>1
    <3> QED BY <3>1
  <2>2. CASE ~(s \subseteq T)
    <3>1. PICK x \in s : x \notin T
      BY <2>2
    <3>2. IsFiniteSet(s) /\ Weights(f, s) /\ IsFiniteSet(s \ {x}) /\ Weights(f, s \ {x})
      BY FS_Subset DEF Weights
    <3>3. Sum(f, s) = f[x] + Sum(f, s \ {x}) /\ Sum(f, s \ {x}) \in Int /\ f[x] = 0
      BY <3>1, <3>2, SumTakesOut
    <3>4. (s \ {x}) \cap T = s \cap T
      BY <3>1
    <3>5. Sum(f, s \ {x}) = Sum(f, s \cap T)
      BY <1>2, <3>4
    <3> QED BY <3>3, <3>5
  <2> QED BY <2>1, <2>2
<1>3. SUBSET S \subseteq E
  <2> HIDE DEF E
  <2> QED BY <1>1, <1>2, SetInduction
<1>4. S \cap T = T
  OBVIOUS
<1> QED BY <1>3, <1>4

-----------------------------------------------------------------------------
(* The counters are such sums, step by step.                                *)

\* What each entry of the index counts for.
Weight       == [p \in Paths |-> Size(index[p])]
UnsentWeight == [p \in Paths |-> UnsentSize(index[p])]

\* The counters, as sums over every path.
Counted == phase = "open" => bytes = Sum(Weight, Paths) /\ dirty = Sum(UnsentWeight, Paths)

\* The versions in the index and the journal have bodies, so their objects have sizes.
LEMMA Sized ==
    ASSUME CleanInvariant, Given, NEW o \in Object, o.ver <= clock
    PROVE  Size(o) \in Nat /\ UnsentSize(o) \in Nat
<1>1. o.ver = 0 \/ o.ver \in Versions
  BY BoundsAreNat DEF Object
<1>2. o.ver # 0 => body[o.ver] \in Bodies
  BY <1>1 DEF Given
<1>3. Size(o) \in Nat
  BY <1>2, SizesAreNat DEF Size
<1> QED BY <1>3 DEF UnsentSize

\* Every entry of the index has a weight.
LEMMA IndexWeighs ==
    ASSUME CleanInvariant, Given
    PROVE  Weights(Weight, Paths) /\ Weights(UnsentWeight, Paths)
<1>1. ASSUME NEW p \in Paths PROVE Weight[p] \in Int /\ UnsentWeight[p] \in Int
  <2>1. index[p] \in Object /\ index[p].ver <= clock
    BY DEF CleanInvariant, TypeOK, Issued
  <2> QED BY <2>1, Sized DEF Weight, UnsentWeight
<1> QED BY <1>1 DEF Weights

\* So the sums are numbers.
LEMMA SumsAreInt ==
    ASSUME IsFiniteSet(Paths), CleanInvariant, Given
    PROVE  Sum(Weight, Paths) \in Int /\ Sum(UnsentWeight, Paths) \in Int
BY IndexWeighs, SumTakesOut

\* TotalOf adds up weights.
LEMMA TotalIsSum ==
    ASSUME NEW T \in SUBSET Paths
    PROVE  TotalOf(T) = Sum(Weight, T)
<1>1. \A G : Unfold(G, Weight, T)
              = [s \in SUBSET T |-> IF s = {} THEN 0
                                    ELSE LET x == CHOOSE x \in s : TRUE IN Size(index[x]) + G[s \ {x}]]
  <2>1. \A s \in SUBSET T : s # {} => Weight[Any(s)] = Size(index[Any(s)])
    BY AnyIsIn DEF Weight
  <2> QED BY <2>1 DEF Unfold, Any
<1> QED BY <1>1 DEF Sum, TotalOf, MapThenSumSet, MapThenFoldSet

\* The counters are TotalOf of the index and of its unsent entries.
LEMMA CountedAccounts ==
    ASSUME IsFiniteSet(Paths), CleanInvariant, Given, Counted
    PROVE  Accounting
<1> SUFFICES ASSUME phase = "open"
             PROVE  bytes = TotalOf(Paths) /\ dirty = TotalOf({p \in Paths : Unsent(index[p])})
  BY DEF Accounting
<1> DEFINE T == {p \in Paths : Unsent(index[p])}
<1>1. TotalOf(Paths) = Sum(Weight, Paths) /\ TotalOf(T) = Sum(Weight, T)
  BY TotalIsSum
<1>2. \A p \in Paths \ T : UnsentWeight[p] = 0
  BY DEF UnsentWeight, UnsentSize
<1>3. Sum(UnsentWeight, Paths) = Sum(UnsentWeight, T)
  <2>1. T \in SUBSET Paths
    OBVIOUS
  <2> HIDE DEF T
  <2> QED BY <1>2, <2>1, IndexWeighs, SumOfSome
<1>4. Sum(UnsentWeight, T) = Sum(Weight, T)
  <2>1. \A p \in T : UnsentWeight[p] = Weight[p]
    BY DEF UnsentWeight, Weight, UnsentSize
  <2> HIDE DEF T
  <2> QED BY <2>1, SameSum
<1> QED BY <1>1, <1>3, <1>4 DEF Counted

\* A step that leaves the index and the bodies it names.
LEMMA IndexStays ==
    ASSUME Counted, UNCHANGED <<index, dirty, bytes, phase>>,
           \A p \in Paths : index[p].ver # 0 => body'[index[p].ver] = body[index[p].ver]
    PROVE  Counted'
<1>1. \A p \in Paths : Size(index[p])' = Size(index[p]) /\ UnsentSize(index[p])' = UnsentSize(index[p])
  BY DEF Size, UnsentSize, Unsent
<1>2. Weight' = Weight /\ UnsentWeight' = UnsentWeight
  BY <1>1 DEF Weight, UnsentWeight
<1> QED BY <1>2 DEF Counted

\* A step that replaces one entry and moves the counters by the difference.
LEMMA EntryReplaced ==
    ASSUME IsFiniteSet(Paths), CleanInvariant, Given, CleanInvariant', Given', Counted,
           phase = "open", body' = body, NEW p \in Paths, index' = [index EXCEPT ![p] = index'[p]],
           bytes' = bytes - Size(index[p]) + Size(index'[p]),
           dirty' = dirty - UnsentSize(index[p]) + UnsentSize(index'[p])
    PROVE  Counted'
<1>1. Weights(Weight, Paths) /\ Weights(UnsentWeight, Paths)
  BY IndexWeighs
<1>2. Weights(Weight', Paths) /\ Weights(UnsentWeight', Paths)
  <2>1. ASSUME NEW q \in Paths PROVE (Size(index[q]) \in Nat /\ UnsentSize(index[q]) \in Nat)'
    <3>1. (index[q] \in Object /\ index[q].ver <= clock)'
      BY DEF CleanInvariant, TypeOK, Issued
    <3>2. (index[q].ver = 0 \/ index[q].ver \in Versions)'
      BY <3>1, BoundsAreNat DEF Object
    <3>3. (index[q].ver # 0 => body[index[q].ver] \in Bodies)'
      BY <3>1, <3>2 DEF Given
    <3> QED BY <3>3, SizesAreNat DEF Size, UnsentSize
  <2> QED BY <2>1 DEF Weight, UnsentWeight, Weights
<1>3. \A q \in Paths \ {p} : Weight[q] = Weight'[q] /\ UnsentWeight[q] = UnsentWeight'[q]
  <2>1. \A q \in Paths \ {p} : index'[q] = index[q]
    BY DEF CleanInvariant, TypeOK
  <2> QED BY <2>1 DEF Weight, UnsentWeight, Size, UnsentSize
<1>4. /\ Weight[p] = Size(index[p]) /\ Weight'[p] = Size(index'[p])
      /\ UnsentWeight[p] = UnsentSize(index[p]) /\ UnsentWeight'[p] = UnsentSize(index'[p])
  BY DEF Weight, UnsentWeight, Size, UnsentSize
<1>5. Sum(Weight', Paths) = Sum(Weight, Paths) - Weight[p] + Weight'[p]
  BY <1>1, <1>2, <1>3, SumMoves
<1>6. Sum(UnsentWeight', Paths) = Sum(UnsentWeight, Paths) - UnsentWeight[p] + UnsentWeight'[p]
  BY <1>1, <1>2, <1>3, SumMoves
<1>7. bytes' = Sum(Weight, Paths) - Weight[p] + Weight'[p]
  BY <1>4 DEF Counted
<1>8. dirty' = Sum(UnsentWeight, Paths) - UnsentWeight[p] + UnsentWeight'[p]
  BY <1>4 DEF Counted
<1>9. (bytes = Sum(Weight, Paths) /\ dirty = Sum(UnsentWeight, Paths))'
  BY <1>5, <1>6, <1>7, <1>8
<1> QED BY <1>9 DEF Counted

\* A commit gives back what it replaces.
LEMMA IndexPutCounts ==
    ASSUME IsFiniteSet(Paths), CleanInvariant, Given, CleanInvariant', Given', Counted,
           NEW t \in Clients, IndexPut(t)
    PROVE  Counted'
<1> DEFINE p == th[t].path
           o == NewObject(t)
<1>1. p \in Paths
  BY DEF IndexPut, At, CleanInvariant, WellFormed, WriteLabels, SealedLabels
<1>2. index' = [index EXCEPT ![p] = o] /\ index'[p] = o /\ body' = body /\ phase = "open"
  BY <1>1 DEF IndexPut, At, CleanInvariant, TypeOK
<1>3. /\ bytes' = bytes - Size(index[p]) + Size(o)
      /\ dirty' = dirty - UnsentSize(index[p]) + UnsentSize(o)
  BY DEF IndexPut
<1> HIDE DEF p, o
<1> QED BY <1>1, <1>2, <1>3, EntryReplaced

\* What is forgotten is given back, once.
LEMMA ForgetIndexCounts ==
    ASSUME IsFiniteSet(Paths), CleanInvariant, Given, CleanInvariant', Given', Counted,
           NEW t \in Threads, ForgetIndex(t)
    PROVE  Counted'
<1>1. body' = body /\ phase' = phase /\ phase = "open"
  BY DEF ForgetIndex, At
<1>2. CASE UNCHANGED indexVars
  BY <1>1, <1>2, IndexStays
<1>3. CASE ~ UNCHANGED indexVars
  <2>1. PICK p \in th[t].todo :
           /\ index' = [index EXCEPT ![p] = NoObject]
           /\ dirty' = dirty - UnsentSize(index[p])
           /\ bytes' = bytes - Size(index[p])
    BY <1>3 DEF ForgetIndex
  <2>2. p \in Paths
    BY DEF CleanInvariant, TypeOK, Thread
  <2>3. index'[p] = NoObject
    BY <2>1, <2>2 DEF CleanInvariant, TypeOK
  <2>4. Size(index'[p]) = 0 /\ UnsentSize(index'[p]) = 0
    BY <2>3 DEF Size, UnsentSize, NoObject
  <2>5. bytes - Size(index[p]) \in Int /\ dirty - UnsentSize(index[p]) \in Int
    <3>1. index[p] \in Object /\ index[p].ver <= clock
      BY <2>2 DEF CleanInvariant, TypeOK, Issued
    <3> QED BY <1>1, <3>1, Sized, SumsAreInt DEF Counted
  <2>6. \A i \in Int : i + 0 = i
    OBVIOUS
  <2>7. /\ bytes' = bytes - Size(index[p]) + Size(index'[p])
        /\ dirty' = dirty - UnsentSize(index[p]) + UnsentSize(index'[p])
    BY <2>1, <2>4, <2>5, <2>6
  <2> QED BY <1>1, <2>1, <2>2, <2>3, <2>7, EntryReplaced
<1> QED BY <1>2, <1>3

\* A change of state moves the unsent bytes and keeps the total.
LEMMA SetApplyCounts ==
    ASSUME IsFiniteSet(Paths), CleanInvariant, Given, CleanInvariant', Given', Counted,
           NEW w \in Workers, SetApply(w)
    PROVE  Counted'
<1> DEFINE p == th[w].path
           o == [index[p] EXCEPT !.state = th[w].goal]
<1>1. body' = body /\ phase' = phase /\ phase = "open"
  BY DEF SetApply, At
<1>2. CASE UNCHANGED indexVars
  BY <1>1, <1>2, IndexStays
<1>3. CASE ~ UNCHANGED indexVars
  <2>1. /\ index' = [index EXCEPT ![p] = o]
        /\ dirty' = dirty - UnsentSize(index[p]) + UnsentSize(o) /\ bytes' = bytes
    BY <1>3 DEF SetApply
  <2>2. p \in Paths
    BY ThreadsAreDistinct DEF SetApply, At, CleanInvariant, WellFormed, SetLabels
  <2>3. index[p] \in Object /\ index[p].ver <= clock
    BY <2>2 DEF CleanInvariant, TypeOK, Issued
  <2>4. index'[p] = o /\ o.ver = index[p].ver
    BY <2>1, <2>2, <2>3 DEF CleanInvariant, TypeOK, Object
  <2>5. Size(o) = Size(index[p]) /\ Size(index[p]) \in Nat
    BY <2>3, <2>4, Sized DEF Size
  <2>6. bytes \in Int
    BY <1>1, SumsAreInt DEF Counted
  <2>7. bytes' = bytes - Size(index[p]) + Size(o)
    <3> HIDE DEF p, o
    <3> QED BY <2>1, <2>5, <2>6
  <2> HIDE DEF p, o
  <2> QED BY <1>1, <2>1, <2>2, <2>4, <2>7, EntryReplaced
<1> QED BY <1>2, <1>3

\* Recovery counts exactly the entries it keeps, whatever the journal says of others.
LEMMA OpenCounts ==
    ASSUME IsFiniteSet(Paths), CleanInvariant, Given, CleanInvariant', Given', Open
    PROVE  Counted'
<1> DEFINE kept == {p \in Paths : Recoverable(p)}
           f == [p \in Paths |-> Size(jnl[p])]
           g == [p \in Paths |-> UnsentSize(jnl[p])]
<1>1. /\ index' = [p \in Paths |-> IF p \in kept THEN jnl[p] ELSE NoObject]
      /\ body' = body /\ Recount(kept)
  BY DEF Open
<1>2. kept \in SUBSET Paths
  OBVIOUS
<1> HIDE DEF kept
<1>3. bytes' = Sum(f, kept)
  <2>1. \A G : Unfold(G, f, kept)
                = [s \in SUBSET kept |-> IF s = {} THEN 0
                     ELSE LET x == CHOOSE x \in s : TRUE IN Size(jnl[x]) + G[s \ {x}]]
    <3>1. \A s \in SUBSET kept : s # {} => f[Any(s)] = Size(jnl[Any(s)])
      BY <1>2, AnyIsIn
    <3> HIDE DEF f
    <3> QED BY <3>1 DEF Unfold, Any
  <2> HIDE DEF f
  <2> QED BY <1>1, <2>1 DEF Recount, Sum, MapThenSumSet, MapThenFoldSet
<1>4. dirty' = Sum(g, kept)
  <2>1. \A G : Unfold(G, g, kept)
                = [s \in SUBSET kept |-> IF s = {} THEN 0
                     ELSE LET x == CHOOSE x \in s : TRUE IN UnsentSize(jnl[x]) + G[s \ {x}]]
    <3>1. \A s \in SUBSET kept : s # {} => g[Any(s)] = UnsentSize(jnl[Any(s)])
      BY <1>2, AnyIsIn
    <3> HIDE DEF g
    <3> QED BY <3>1 DEF Unfold, Any
  <2> HIDE DEF g
  <2> QED BY <1>1, <2>1 DEF Recount, Sum, MapThenSumSet, MapThenFoldSet
<1>5. ASSUME NEW p \in Paths
      PROVE  /\ p \in kept => Weight'[p] = f[p] /\ UnsentWeight'[p] = g[p]
             /\ p \notin kept => Weight'[p] = 0 /\ UnsentWeight'[p] = 0
             /\ Weight'[p] \in Int /\ UnsentWeight'[p] \in Int
  <2>1. index'[p] = IF p \in kept THEN jnl[p] ELSE NoObject
    BY <1>1
  <2>2. Size(jnl[p]) \in Nat /\ UnsentSize(jnl[p]) \in Nat
    BY Sized DEF CleanInvariant, TypeOK, Issued
  <2>3. CASE p \in kept
    BY <1>1, <2>1, <2>2, <2>3 DEF Weight, UnsentWeight, Size, UnsentSize
  <2>4. CASE p \notin kept
    BY <1>1, <2>1, <2>4 DEF Weight, UnsentWeight, Size, UnsentSize, Unsent, NoObject
  <2> QED BY <2>3, <2>4
<1> HIDE DEF f, g
<1>6. Sum(Weight', Paths) = Sum(Weight', kept) /\ Sum(UnsentWeight', Paths) = Sum(UnsentWeight', kept)
  <2>1. Weights(Weight', Paths) /\ Weights(UnsentWeight', Paths)
    BY <1>5 DEF Weights
  <2> QED BY <1>2, <1>5, <2>1, SumOfSome
<1>7. Sum(Weight', kept) = Sum(f, kept) /\ Sum(UnsentWeight', kept) = Sum(g, kept)
  BY <1>2, <1>5, SameSum
<1> QED BY <1>3, <1>4, <1>6, <1>7 DEF Counted

\* Every step keeps the counters; only Seal gives a body, to a version nothing has yet.
LEMMA NextCounts ==
    ASSUME IsFiniteSet(Paths), CleanInvariant, Given, CleanInvariant', Given', Counted, [Next]_vars
    PROVE  Counted'
<1>1. ASSUME UNCHANGED <<index, dirty, bytes, phase, body>> PROVE Counted'
  BY <1>1, IndexStays
<1>2. ASSUME NEW t \in Clients, NEW p \in Paths, Request(t, p) PROVE Counted'
  BY <1>1, <1>2 DEF Request, PutBegin, FillBegin, GetHit, Refresh, RemoveBegin
<1>3. ASSUME NEW t \in Clients, Clear(t) PROVE Counted'
  BY <1>1, <1>3 DEF Clear
<1>4. ASSUME NEW t \in Clients, Seal(t) PROVE Counted'
  <2>1. PICK b : /\ clock < MaxVersion /\ body' = [body EXCEPT ![clock + 1] = b]
                 /\ UNCHANGED <<index, dirty, bytes, phase>>
    BY <1>4 DEF Seal
  <2>2. ASSUME NEW p \in Paths, index[p].ver # 0 PROVE body'[index[p].ver] = body[index[p].ver]
    <3>1. index[p].ver \in Nat /\ index[p].ver <= clock /\ clock \in Nat /\ index[p].ver \in Versions
      BY <2>2, BoundsAreNat DEF CleanInvariant, TypeOK, Issued, Object
    <3> QED BY <2>1, <3>1 DEF CleanInvariant, TypeOK
  <2> QED BY <2>1, <2>2, IndexStays
<1>5. ASSUME NEW t \in Clients, WriteStep(t) \/ RequestStep(t) PROVE Counted'
  <2>1. CASE Seal(t)
    BY <1>4, <2>1
  <2>2. CASE IndexPut(t)
    BY <2>2, IndexPutCounts
  <2>3. CASE ~Seal(t) /\ ~IndexPut(t)
    BY <1>1, <1>5, <2>3 DEF WriteStep, RequestStep, Abort, Rename, SyncDir, SyncDirFails, JournalPut,
                            JournalPutFails, GetOpen, RemoveCheck, RemoveGivesUp, DeleteUpstream
  <2> QED BY <2>1, <2>2, <2>3
<1>6. ASSUME NEW w \in Workers, NEW p \in Paths, Claim(w, p) PROVE Counted'
  BY <1>1, <1>6 DEF Claim
<1>7. ASSUME NEW w \in Workers, FlushStep(w) PROVE Counted'
  <2>1. CASE SetApply(w)
    BY <2>1, SetApplyCounts
  <2>2. CASE ~SetApply(w)
    BY <1>1, <1>7, <2>2 DEF FlushStep, SetCheck, SetAppend, OpenContent, UploadLands, UploadAnswers,
                            UploadFails, UploadStopped, End
  <2> QED BY <2>1, <2>2
<1>8. ASSUME NEW t \in Threads, DiscardStep(t) PROVE Counted'
  <2>1. CASE ForgetIndex(t)
    BY <2>1, ForgetIndexCounts
  <2>2. CASE ~ForgetIndex(t)
    BY <1>1, <1>8, <2>2 DEF DiscardStep, Evict, Unlink, Drop
  <2> QED BY <2>1, <2>2
<1>9. CASE Crash
  BY <1>9 DEF Crash, Counted
<1>10. CASE Open
  BY <1>10, OpenCounts
<1>11. CASE UNCHANGED vars
  BY <1>1, <1>11 DEF vars
<1> QED BY <1>2, <1>3, <1>5, <1>6, <1>7, <1>8, <1>9, <1>10, <1>11 DEF Next

\* An empty index counts nothing.
LEMMA InitCounts == ASSUME IsFiniteSet(Paths), Init PROVE Counted
<1>1. \A p \in Paths : Weight[p] = 0 /\ UnsentWeight[p] = 0
  BY DEF Init, Weight, UnsentWeight, UnsentSize, Unsent, Size, NoObject
<1>2. Weights(Weight, Paths) /\ Weights(UnsentWeight, Paths)
  BY <1>1 DEF Weights
<1>3. Sum(Weight, {}) = 0 /\ Sum(UnsentWeight, {}) = 0
  BY SumTakesOut, FS_EmptySet DEF Weights
<1>4. Sum(Weight, Paths) = Sum(Weight, {}) /\ Sum(UnsentWeight, Paths) = Sum(UnsentWeight, {})
  BY <1>1, <1>2, SumOfSome
<1> QED BY <1>3, <1>4 DEF Init, Counted

\* The counters that refuse writes and start evictions equal what the index holds at
\* every instant, whatever replaces, supersedes, forgets or recovers an object; the
\* paths in use are finitely many.
THEOREM CountersAreTrue == IsFiniteSet(Paths) => (Spec => []Accounting)
<1> SUFFICES ASSUME IsFiniteSet(Paths) PROVE Spec => []Accounting
  OBVIOUS
<1>1. Init => Counted
  BY InitCounts
<1>2. CleanInvariant /\ Given /\ CleanInvariant' /\ Given' /\ Counted /\ [Next]_vars => Counted'
  BY NextCounts
<1>3. CleanInvariant /\ Given /\ Counted => Accounting
  BY CountedAccounts
<1> QED BY <1>1, <1>2, <1>3, CleanInvariantHolds, GivenHolds, PTL DEF Spec
=============================================================================
