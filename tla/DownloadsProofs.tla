--------------------------- MODULE DownloadsProofs ---------------------------
(***************************************************************************)
(* Proofs about Downloads, for every number of readers, versions and their  *)
(* lengths: the cells on disk are in place, success means a whole file, and *)
(* a verified download is the version its digest names.                     *)
(*                                                                         *)
(* The inductive invariant, Placed, ties three counters of a call to the    *)
(* file: where it started, how much it has written, and how far the body    *)
(* has come.  It holds for a call whose path still names the file it has    *)
(* open; a copy out of the cache takes the name away.  Each version has a   *)
(* length of its own, so what is whole depends on which one was answered.   *)
(***************************************************************************)
EXTENDS Downloads, TLAPS

LEMMA SizesOK == Length \in Nat \ {0} /\ Versions \in Nat \ {0} /\ MaxCalls \in Nat
BY AssumeSizes

USE AssumeKinds, SizesOK

Cell == (1 .. Versions) \X (1 .. Length)

-----------------------------------------------------------------------------
(* The invariant.                                                           *)

\* A call on its way to the file, or in it.
Fetches(r) == rd[r].pc \in {"ask", "skip", "copy"}

Whole(r) ==
    Succeeded(r) => /\ rd[r].src \in 1 .. Versions
                    /\ Len(local) >= LengthOf[rd[r].src]

\* What a reader has in hand fits the file, and the object it was answered from.
ReaderOK(r) ==
    LET rec == rd[r] IN
    /\ rec.pc = "hit" => rec.kind = "file" /\ (rec.total = Unknown \/ rec.pos = LengthOf[rec.src])
    /\ rec.pc \in {"hit", "skip", "copy"} => rec.src \in 1 .. Versions
    /\ rec.pc \in {"hit", "copy"} /\ rec.kind # "archive" => rec.pos <= LengthOf[rec.src]
    /\ rec.pc # "idle" => rec.out = "none"
    /\ rec.pc \in {"ask", "skip"} => rec.wrote = 0
    /\ rec.kind = "file" /\ rec.linked /\ Fetches(r) => rec.offset + rec.wrote <= Len(local)
    /\ rec.kind = "file" /\ rec.pc = "copy" => rec.pos = rec.offset + rec.wrote
    /\ rec.kind = "stream" /\ rec.pc \in {"skip", "copy"} => rec.total \in {Unknown, LengthOf[rec.src]}
    /\ Whole(r)

\* For a reader that has the path to itself the file ends where it is writing; one that
\* started with nothing has written all that is there, out of the version it was
\* answered from.
SoleOK(r) ==
    LET rec == rd[r] IN
    Alone(r) =>
        /\ rec.linked
        /\ Fetches(r) =>
              /\ Len(local) = rec.offset + rec.wrote
              /\ rec.offset = 0 => \A i \in 1 .. rec.wrote : local[i] = <<rec.src, i>>
        /\ Succeeded(r) => Len(local) = LengthOf[rec.src]
        /\ rec.out = "ok" /\ rec.offset = 0 /\ rec.hash # 0 => local = Content(rec.hash)

CachedOK ==
    cached # NoObject =>
        /\ cached.src \in 1 .. Versions
        /\ cached.cells <= LengthOf[cached.src]
        /\ cached.total = Unknown \/ cached.cells = LengthOf[cached.src]

Placed ==
    /\ TypeOK /\ EachCellInPlace /\ CachedOK
    /\ \A r \in Readers : ReaderOK(r) /\ SoleOK(r)

-----------------------------------------------------------------------------
(* Lengths and sequences of cells.                                          *)

LEMMA LengthsOK ==
    \A v \in 1 .. Versions : v \in 0 .. Versions /\ LengthOf[v] \in 0 .. Length /\ LengthOf[v] > 0
BY AssumeSizes

LEMMA SeqOfFunction ==
    ASSUME NEW S, NEW n \in Nat, NEW s \in [1 .. n -> S]
    PROVE  s \in Seq(S) /\ Len(s) = n
OBVIOUS

LEMMA SeqIsFunction == ASSUME NEW S, NEW s \in Seq(S) PROVE s = [i \in 1 .. Len(s) |-> s[i]]
OBVIOUS

LEMMA PartIsSeq ==
    ASSUME NEW v \in 1 .. Versions, NEW n \in 0 .. Length
    PROVE  /\ Part(v, n) \in Seq(Cell) /\ Len(Part(v, n)) = n
           /\ \A i \in 1 .. n : Part(v, n)[i] = <<v, i>>
<1>1. Part(v, n) \in [1 .. n -> Cell]
  BY DEF Part, Cell
<1> QED BY <1>1, SeqOfFunction DEF Part

-----------------------------------------------------------------------------
(* One reader moves.                                                        *)

\* Reader r becomes x, which asks for the same kind of thing.
Moves(r, x) == x \in Reader /\ x.kind = rd[r].kind /\ rd' = [rd EXCEPT ![r] = x]

\* The others are not disturbed by a file that grows, where it is theirs at all.
LEMMA OthersKeep ==
    ASSUME Placed, NEW r \in Readers, NEW x, Moves(r, x),
           Len(local) <= Len(local'), local' = local \/ rd[r].kind = "file",
           TypeOK', EachCellInPlace', CachedOK', ReaderOK(r)', SoleOK(r)'
    PROVE  Placed'
<1>1. /\ rd \in [Readers -> Reader] /\ rd'[r] = x
      /\ \A q \in Readers : q # r => rd'[q] = rd[q]
      /\ \A q \in Readers : rd'[q].kind = rd[q].kind
  BY DEF Moves, Placed, TypeOK
<1>2. /\ local \in Seq(Cell) /\ local' \in Seq(Cell) /\ Len(local) <= Length /\ Len(local') <= Length
  BY DEF Placed, TypeOK, Cell
<1>3. ASSUME NEW q \in Readers, q # r PROVE ReaderOK(q)'
  <2>1. rd'[q] = rd[q] /\ rd[q] \in Reader /\ ReaderOK(q)
    BY <1>1, <1>3 DEF Placed
  <2>2. rd[q].offset \in Nat /\ rd[q].wrote \in Nat /\ Len(local) \in Nat /\ Len(local') \in Nat
    BY <1>2, <2>1 DEF Reader
  <2>3. Whole(q)'
    BY <1>2, <2>1, <2>2, LengthsOK DEF ReaderOK, Whole, Succeeded
  <2> QED BY <2>1, <2>2, <2>3 DEF ReaderOK, Fetches
<1>4. ASSUME NEW q \in Readers, q # r PROVE SoleOK(q)'
  <2>1. rd'[q] = rd[q] /\ SoleOK(q)
    BY <1>1, <1>4 DEF Placed
  <2>2. CASE rd[r].kind = "file"
    BY <1>1, <1>4, <2>2 DEF SoleOK, Alone
  <2>3. CASE rd[r].kind # "file"
    <3>1. local' = local /\ (Alone(q)' <=> Alone(q))
      BY <1>1, <2>3 DEF Alone
    <3> QED BY <2>1, <3>1 DEF SoleOK, Fetches, Succeeded
  <2> QED BY <2>2, <2>3
<1> QED BY <1>3, <1>4 DEF Placed

\* The same when nothing but the reader changes.
LEMMA ReaderMoves ==
    ASSUME Placed, NEW r \in Readers, NEW x, Moves(r, x), UNCHANGED <<remote, local, cached>>,
           x.pc = "hit" => x.kind = "file" /\ (x.total = Unknown \/ x.pos = LengthOf[x.src]),
           x.pc \in {"hit", "skip", "copy"} => x.src \in 1 .. Versions,
           x.pc \in {"hit", "copy"} /\ x.kind # "archive" => x.pos <= LengthOf[x.src],
           x.pc # "idle" => x.out = "none",
           x.pc \in {"ask", "skip"} => x.wrote = 0,
           x.kind = "file" /\ x.linked /\ x.pc \in {"ask", "skip", "copy"} => x.offset + x.wrote <= Len(local),
           x.kind = "file" /\ x.pc = "copy" => x.pos = x.offset + x.wrote,
           x.kind = "stream" /\ x.pc \in {"skip", "copy"} => x.total \in {Unknown, LengthOf[x.src]},
           x.kind = "file" /\ x.linked /\ ~x.short /\ x.out \in {"ok", "already", "served"} =>
               /\ x.src \in 1 .. Versions /\ Len(local) >= LengthOf[x.src]
               /\ Alone(r) => Len(local) = LengthOf[x.src],
           rd[r].linked => x.linked,
           Alone(r) /\ x.pc \in {"ask", "skip", "copy"} =>
               /\ Len(local) = x.offset + x.wrote
               /\ x.offset = 0 => \A i \in 1 .. x.wrote : local[i] = <<x.src, i>>,
           Alone(r) /\ x.out = "ok" /\ x.offset = 0 /\ x.hash # 0 => local = Content(x.hash)
    PROVE  Placed'
<1>1. /\ rd \in [Readers -> Reader] /\ rd' \in [Readers -> Reader] /\ rd'[r] = x
      /\ \A q \in Readers : rd'[q].kind = rd[q].kind
      /\ SoleOK(r)
  BY DEF Moves, Placed, TypeOK
<1>2. TypeOK' /\ EachCellInPlace' /\ CachedOK'
  BY <1>1 DEF Placed, TypeOK, EachCellInPlace, CachedOK
<1>3. ReaderOK(r)'
  BY <1>1 DEF ReaderOK, Fetches, Whole, Succeeded
<1>4. SoleOK(r)'
  <2>1. Alone(r)' <=> Alone(r)
    BY <1>1 DEF Alone
  <2> QED BY <1>1, <2>1 DEF SoleOK, Fetches, Succeeded
<1>5. Len(local) <= Len(local')
  <2>1. local \in Seq(Cell) /\ local' = local
    BY DEF Placed, TypeOK, Cell
  <2> QED BY <2>1
<1> QED BY <1>2, <1>3, <1>4, <1>5, OthersKeep

-----------------------------------------------------------------------------
(* A call begins.                                                           *)

\* A call that has asked for nothing yet.
Fresh(r, s) ==
    /\ s \in Reader /\ s.kind = rd[r].kind /\ s.pc = "idle" /\ s.linked /\ s.out = "none"
    /\ s.offset = 0 /\ s.wrote = 0 /\ s.pos = 0 /\ s.hash = 0

LEMMA IdleReader ==
    /\ Idle \in Reader /\ Idle.linked /\ Idle.pc = "idle" /\ Idle.out = "none"
    /\ Idle.offset = 0 /\ Idle.wrote = 0 /\ Idle.pos = 0 /\ Idle.hash = 0
<1>1. Idle \in Reader
  <2>1. 0 \in 0 .. Length /\ 0 \in 0 .. Versions /\ 0 \in 0 .. MaxCalls
    OBVIOUS
  <2> QED BY <2>1 DEF Idle, Reader
<1>2. Idle.linked
  BY DEF Idle
<1>3. /\ Idle.pc = "idle" /\ Idle.out = "none"
      /\ Idle.offset = 0 /\ Idle.wrote = 0 /\ Idle.pos = 0 /\ Idle.hash = 0
  BY DEF Idle
<1> QED BY <1>1, <1>2, <1>3

LEMMA FreshCall ==
    ASSUME TypeOK, NEW r \in Readers
    PROVE  /\ rd[r].calls < MaxCalls => Fresh(r, Started(r))
           /\ Fresh(r, [Started(r) EXCEPT !.calls = rd[r].calls])
<1>1. rd[r] \in Reader
  BY DEF TypeOK
<1>2. ASSUME NEW n \in 0 .. MaxCalls, NEW s, s = [Idle EXCEPT !.kind = rd[r].kind, !.calls = n]
      PROVE  Fresh(r, s)
  BY <1>1, <1>2, IdleReader DEF Fresh, Reader
<1>3. [Started(r) EXCEPT !.calls = rd[r].calls] = [Idle EXCEPT !.kind = rd[r].kind, !.calls = rd[r].calls]
  BY IdleReader DEF Started, Reader
<1>4. rd[r].calls \in 0 .. MaxCalls
  BY <1>1 DEF Reader
<1>5. rd[r].calls < MaxCalls => rd[r].calls + 1 \in 0 .. MaxCalls
  BY <1>4
<1> QED BY <1>2, <1>3, <1>4, <1>5 DEF Started

LEMMA CallFileKeeps ==
    ASSUME Placed, NEW r \in Readers, rd[r].kind = "file", NEW s, Fresh(r, s), CallFile(r, s),
           UNCHANGED <<remote, local, cached>>
    PROVE  Placed'
<1>1. TypeOK /\ Len(local) \in 0 .. Length /\ rd \in [Readers -> Reader] /\ remote \in 1 .. Versions
  BY DEF Placed, TypeOK
<1>2. PICK size \in {0, LengthOf[remote]}, hash \in {0, remote} :
        rd' = [rd EXCEPT ![r] =
                 LET ask == [s EXCEPT !.hash = hash, !.offset = Len(local)]
                 IN  IF size > 0 /\ size = Len(local)
                     THEN [ask EXCEPT !.out = "already", !.src = remote] ELSE [ask EXCEPT !.pc = "ask"]]
  BY DEF CallFile, Set
<1>3. hash \in 0 .. Versions /\ s \in Reader /\ remote \in 0 .. Versions
  BY <1>1, LengthsOK DEF Fresh
<1> DEFINE new  == [s EXCEPT !.hash = hash, !.offset = Len(local)]
           done == [new EXCEPT !.out = "already", !.src = remote]
           ask  == [new EXCEPT !.pc = "ask"]
<1>4. /\ new \in Reader /\ new.kind = rd[r].kind /\ new.pc = "idle" /\ new.linked
      /\ new.offset = Len(local) /\ new.wrote = 0 /\ new.out = "none"
  BY <1>1, <1>3 DEF Fresh, Reader
<1> HIDE DEF new
<1>5. /\ done \in Reader /\ done.kind = rd[r].kind /\ done.pc = "idle" /\ done.linked
      /\ done.out = "already" /\ done.src = remote
  BY <1>3, <1>4 DEF Reader
<1>6. /\ ask \in Reader /\ ask.kind = rd[r].kind /\ ask.pc = "ask" /\ ask.linked
      /\ ask.offset = Len(local) /\ ask.wrote = 0 /\ ask.out = "none"
  BY <1>4 DEF Reader
<1>7. rd' = [rd EXCEPT ![r] = IF size > 0 /\ size = Len(local) THEN done ELSE ask]
  BY <1>2 DEF new
<1> HIDE DEF done, ask
<1>8. CASE size > 0 /\ size = Len(local)
  <2>1. Moves(r, done) /\ Len(local) = LengthOf[remote]
    BY <1>5, <1>7, <1>8 DEF Moves
  <2> QED BY <1>1, <1>5, <2>1, LengthsOK, ReaderMoves
<1>9. CASE ~(size > 0 /\ size = Len(local))
  <2>1. Moves(r, ask)
    BY <1>6, <1>7, <1>9 DEF Moves
  <2> QED BY <1>1, <1>6, <2>1, ReaderMoves
<1> QED BY <1>8, <1>9

LEMMA CallKeeps == ASSUME Placed, NEW r \in Readers, Call(r) PROVE Placed'
<1>1. /\ TypeOK /\ CachedOK /\ rd[r].calls < MaxCalls /\ UNCHANGED <<remote, local, cached>>
  BY DEF Placed, Call
<1>2. Fresh(r, Started(r))
  BY <1>1, FreshCall
<1>3. CASE rd[r].kind = "file" /\ CallFile(r, Started(r))
  BY <1>1, <1>2, <1>3, CallFileKeeps
<1>4. CASE rd[r].kind = "file" /\ CallHit(r)
  <2> DEFINE x == [Started(r) EXCEPT !.pc = "hit", !.src = cached.src, !.pos = cached.cells,
                                     !.total = cached.total]
  <2>1. /\ cached.src \in 1 .. Versions /\ cached.cells \in 0 .. Length
        /\ cached.cells <= LengthOf[cached.src]
        /\ cached.total = Unknown \/ cached.cells = LengthOf[cached.src]
    BY <1>1, <1>4 DEF CallHit, CachedOK, TypeOK
  <2>2. Started(r) \in Reader /\ cached.total \in {Unknown} \cup 0 .. Length
    BY <1>1, <1>2 DEF Fresh, TypeOK
  <2>3. x \in Reader /\ x.linked
    <3>1. x \in Reader
      <4>1. cached.src \in 0 .. Versions
        BY <2>1
      <4> QED BY <2>1, <2>2, <4>1 DEF Reader
    <3>2. x.linked = Started(r).linked
      BY <2>2 DEF Reader
    <3> QED BY <1>2, <3>1, <3>2 DEF Fresh
  <2>4. /\ x.kind = "file" /\ x.pc = "hit" /\ x.out = "none"
        /\ x.src = cached.src /\ x.pos = cached.cells /\ x.total = cached.total
    BY <1>2, <1>4, <2>2 DEF Fresh, Reader
  <2>5. rd' = [rd EXCEPT ![r] = x]
    BY <1>4 DEF CallHit, Set
  <2> HIDE DEF x
  <2>6. Moves(r, x)
    BY <1>4, <2>3, <2>4, <2>5 DEF Moves
  <2> QED BY <1>1, <2>1, <2>3, <2>4, <2>6, ReaderMoves
<1>5. CASE CallServer(r) \/ CallArchive(r)
  <2> DEFINE x == [Started(r) EXCEPT !.pc = "ask"]
  <2>1. /\ x \in Reader /\ x.kind = rd[r].kind /\ x.kind # "file" /\ x.pc = "ask" /\ x.linked
        /\ x.out = "none" /\ x.wrote = 0
    BY <1>2, <1>5 DEF Fresh, Reader, CallServer, CallArchive
  <2>2. rd' = [rd EXCEPT ![r] = x]
    BY <1>5 DEF CallServer, CallArchive, Set
  <2> HIDE DEF x
  <2>3. Moves(r, x) /\ ~Alone(r)
    BY <2>1, <2>2 DEF Moves, Alone
  <2> QED BY <1>1, <2>1, <2>3, ReaderMoves
<1> QED BY <1>3, <1>4, <1>5 DEF Call

LEMMA HitFailsKeeps == ASSUME Placed, NEW r \in Readers, HitFails(r) PROVE Placed'
<1>1. TypeOK /\ rd[r].kind = "file"
  BY DEF Placed, HitFails, At, ReaderOK
<1>2. Fresh(r, [Started(r) EXCEPT !.calls = rd[r].calls])
  BY <1>1, FreshCall
<1> QED BY <1>1, <1>2, CallFileKeeps DEF HitFails

-----------------------------------------------------------------------------
(* A call ends.                                                             *)

\* What a call leaves behind: no work in hand, and its result.
LEMMA EndedCall ==
    ASSUME TypeOK, NEW r \in Readers,
           NEW out \in {"ok", "error", "refused", "cut"}, NEW short \in BOOLEAN, Ends(r, out, short)
    PROVE  \E x : /\ Moves(r, x) /\ x.pc = "idle" /\ x.out = out /\ x.short = short
                  /\ x.linked = rd[r].linked /\ x.offset = rd[r].offset /\ x.hash = rd[r].hash
                  /\ x.src = rd[r].src
<1> DEFINE x == [Idle EXCEPT !.kind = rd[r].kind, !.hash = rd[r].hash, !.offset = rd[r].offset,
                        !.src = rd[r].src, !.calls = rd[r].calls, !.linked = rd[r].linked, !.out = out, !.short = short]
<1>1. rd[r] \in Reader
  BY DEF TypeOK
<1>2. /\ x.kind = rd[r].kind /\ x.pc = "idle" /\ x.out = out /\ x.short = short
      /\ x.linked = rd[r].linked /\ x.offset = rd[r].offset /\ x.hash = rd[r].hash
      /\ x.src = rd[r].src
  BY DEF Idle
<1>4. x \in Reader
  <2> DEFINE y == [Idle EXCEPT !.kind = rd[r].kind, !.hash = rd[r].hash, !.offset = rd[r].offset,
                               !.src = rd[r].src]
  <2>1. y \in Reader
    BY <1>1, IdleReader DEF Reader
  <2>2. x = [y EXCEPT !.calls = rd[r].calls, !.linked = rd[r].linked, !.out = out, !.short = short]
    BY DEF Idle
  <2> HIDE DEF x, y
  <2> QED BY <1>1, <2>1, <2>2 DEF Reader
<1>3. rd' = [rd EXCEPT ![r] = x]
  BY DEF Ends, Set
<1> HIDE DEF x
<1> QED BY <1>2, <1>3, <1>4 DEF Moves

\* A call that fails says so, and what is on disk stays.
LEMMA FailureKeeps ==
    ASSUME Placed, NEW r \in Readers, Ends(r, Failed(r), FALSE), UNCHANGED <<remote, local, cached>>
    PROVE  Placed'
<1>1. TypeOK /\ Failed(r) \in {"error", "refused", "cut"}
  BY DEF Placed, Failed
<1>2. PICK out \in {"ok", "error", "refused", "cut"} : out = Failed(r) /\ out # "ok"
  BY <1>1
<1>3. PICK x : Moves(r, x) /\ x.pc = "idle" /\ x.out = out /\ x.linked = rd[r].linked
  <2>1. Ends(r, out, FALSE)
    BY <1>2
  <2>2. \A short \in BOOLEAN : Ends(r, out, short) =>
           \E x : Moves(r, x) /\ x.pc = "idle" /\ x.out = out /\ x.linked = rd[r].linked
    BY <1>1, EndedCall
  <2> QED BY <2>1, <2>2
<1> QED BY <1>2, <1>3, ReaderMoves

-----------------------------------------------------------------------------
(* Upstream answers.                                                        *)

LEMMA RefusedKeeps == ASSUME Placed, NEW r \in Readers, Refused(r) \/ Break(r) PROVE Placed'
BY FailureKeeps DEF Refused, Break

LEMMA AnswerKeeps == ASSUME Placed, NEW r \in Readers, Answer(r) PROVE Placed'
<1>1. /\ TypeOK /\ rd[r] \in Reader /\ ReaderOK(r) /\ SoleOK(r) /\ remote \in 1 .. Versions
      /\ rd[r].pc = "ask" /\ rd[r].kind # "archive" /\ UNCHANGED <<remote, local, cached>>
      /\ local \in Seq(Cell)
  BY DEF Placed, TypeOK, Answer, At, Cell
<1>2. PICK resumed \in BOOLEAN, total \in {Unknown, LengthOf[remote]} :
        (resumed => rd[r].offset < LengthOf[remote]) /\
        rd' = [rd EXCEPT ![r] =
                 LET got == [rd[r] EXCEPT !.resumed = resumed, !.src = remote, !.total = total,
                                          !.pos = IF resumed THEN rd[r].offset ELSE 0]
                 IN  [got EXCEPT !.pc = IF Skips(got) THEN "skip" ELSE "copy"]]
  BY DEF Answer, Set
<1> DEFINE got == [rd[r] EXCEPT !.resumed = resumed, !.src = remote, !.total = total,
                                !.pos = IF resumed THEN rd[r].offset ELSE 0]
           x == [got EXCEPT !.pc = IF Skips(got) THEN "skip" ELSE "copy"]
<1>3. got \in Reader
  <2>1. /\ rd[r].offset \in 0 .. Length /\ remote \in 0 .. Versions /\ 0 \in 0 .. Length
        /\ total \in {Unknown} \cup 0 .. Length
    BY <1>1, LengthsOK DEF Reader
  <2> QED BY <1>1, <2>1 DEF Reader
<1>4. /\ got.kind = rd[r].kind /\ got.src = remote /\ got.total = total
      /\ got.offset = rd[r].offset /\ got.wrote = rd[r].wrote /\ got.out = rd[r].out
      /\ got.hash = rd[r].hash /\ got.pos = IF resumed THEN rd[r].offset ELSE 0
  BY <1>1 DEF Reader
<1>5. got.linked = rd[r].linked /\ got.short = rd[r].short /\ got.resumed = resumed
  BY <1>1 DEF Reader
<1>6. rd' = [rd EXCEPT ![r] = x]
  BY <1>2
<1> HIDE DEF got
<1>7. x.pc = "copy" => resumed \/ rd[r].offset = 0
  BY <1>1, <1>3, <1>4, <1>5 DEF Skips, Reader
<1>8. x \in Reader /\ x.pc \in {"skip", "copy"}
  BY <1>3 DEF Reader
<1>9. /\ x.kind = rd[r].kind /\ x.src = remote /\ x.total = total
      /\ x.offset = rd[r].offset /\ x.wrote = rd[r].wrote /\ x.out = rd[r].out
      /\ x.hash = rd[r].hash /\ x.pos = IF resumed THEN rd[r].offset ELSE 0
  BY <1>3, <1>4 DEF Reader
<1>10. x.linked = rd[r].linked /\ x.short = rd[r].short
  BY <1>3, <1>5 DEF Reader
<1> HIDE DEF x
<1>11. Moves(r, x)
  BY <1>6, <1>8, <1>9 DEF Moves
<1>12. x.kind = "file" /\ x.pc = "copy" => x.pos = x.offset + x.wrote
  BY <1>1, <1>7, <1>9 DEF ReaderOK, Reader
<1>13. x.kind = "file" /\ x.linked => x.offset + x.wrote <= Len(local)
  BY <1>1, <1>9, <1>10 DEF ReaderOK, Fetches
<1>14. x.pos <= LengthOf[x.src]
  BY <1>1, <1>2, <1>9, LengthsOK DEF Reader
<1>15. /\ Alone(r) =>
            /\ Len(local) = x.offset + x.wrote
            /\ x.offset = 0 => \A i \in 1 .. x.wrote : local[i] = <<x.src, i>>
       /\ x.out = "none"
  BY <1>1, <1>9 DEF SoleOK, ReaderOK, Fetches
<1> QED BY <1>1, <1>8, <1>9, <1>10, <1>11, <1>12, <1>13, <1>14, <1>15, ReaderMoves DEF ReaderOK

LEMMA AnswerArchiveKeeps == ASSUME Placed, NEW r \in Readers, AnswerArchive(r) PROVE Placed'
<1>1. /\ TypeOK /\ rd[r] \in Reader /\ remote \in 1 .. Versions
      /\ rd[r].kind = "archive" /\ UNCHANGED <<remote, local, cached>>
      /\ ReaderOK(r) /\ rd[r].pc = "ask"
  BY DEF Placed, TypeOK, AnswerArchive, At
<1> DEFINE x == [rd[r] EXCEPT !.src = remote, !.pc = "copy"]
<1>2. x \in Reader /\ x.kind = "archive" /\ x.pc = "copy" /\ x.src = remote
  <2>1. remote \in 0 .. Versions
    BY <1>1
  <2> QED BY <1>1, <2>1 DEF Reader
<1>3. x.linked = rd[r].linked /\ x.out = rd[r].out
  BY <1>1 DEF Reader
<1>4. rd' = [rd EXCEPT ![r] = x]
  BY DEF AnswerArchive, Set
<1> HIDE DEF x
<1>5. Moves(r, x) /\ ~Alone(r)
  BY <1>1, <1>2, <1>4 DEF Moves, Alone
<1> QED BY <1>1, <1>2, <1>3, <1>5, ReaderMoves DEF ReaderOK

\* A body that starts at zero is read past what is on disk already.
LEMMA SkipKeeps == ASSUME Placed, NEW r \in Readers, Skip(r) PROVE Placed'
<1>1. /\ TypeOK /\ rd[r] \in Reader /\ ReaderOK(r) /\ SoleOK(r)
      /\ rd[r].pc = "skip" /\ UNCHANGED <<remote, local, cached>>
  BY DEF Placed, TypeOK, Skip, At
<1>2. CASE Ends(r, Failed(r), FALSE)
  BY <1>1, <1>2, FailureKeeps
<1>3. CASE /\ rd[r].offset <= LengthOf[rd[r].src]
           /\ Set(r, [rd[r] EXCEPT !.pc = "copy", !.pos = rd[r].offset])
  <2> DEFINE x == [rd[r] EXCEPT !.pc = "copy", !.pos = rd[r].offset]
  <2>1. /\ x \in Reader /\ x.kind = rd[r].kind /\ x.pc = "copy" /\ x.pos = rd[r].offset
        /\ x.src = rd[r].src /\ x.total = rd[r].total /\ x.offset = rd[r].offset
        /\ x.wrote = rd[r].wrote /\ x.out = rd[r].out /\ x.hash = rd[r].hash
    BY <1>1 DEF Reader
  <2>2. x.linked = rd[r].linked /\ x.short = rd[r].short
    BY <1>1 DEF Reader
  <2>3. rd' = [rd EXCEPT ![r] = x]
    BY <1>3 DEF Set
  <2> HIDE DEF x
  <2>4. Moves(r, x)
    BY <2>1, <2>3 DEF Moves
  <2>5. x.kind = "stream" => x.total \in {Unknown, LengthOf[x.src]}
    BY <1>1, <2>1 DEF ReaderOK
  <2>6. /\ x.kind = "file" /\ x.linked => x.offset + x.wrote <= Len(local)
        /\ x.pos = x.offset + x.wrote /\ x.src \in 1 .. Versions /\ x.out = "none"
        /\ x.pos <= LengthOf[x.src]
    BY <1>1, <1>3, <2>1, <2>2 DEF ReaderOK, Fetches, Reader
  <2>7. Alone(r) =>
             /\ Len(local) = x.offset + x.wrote
             /\ x.offset = 0 => \A i \in 1 .. x.wrote : local[i] = <<x.src, i>>
    BY <1>1, <2>1 DEF SoleOK, Fetches
  <2> QED BY <1>1, <2>1, <2>2, <2>4, <2>5, <2>6, <2>7, ReaderMoves
<1> QED BY <1>2, <1>3 DEF Skip

-----------------------------------------------------------------------------
(* Cells land, and a body ends.                                             *)

\* A cell lands right after those this call has written, over what was there.
LEMMA LandedKeeps ==
    ASSUME Placed, NEW r \in Readers, rd[r].pc = "copy", rd[r].kind = "file", rd[r].linked,
           rd[r].pos < LengthOf[rd[r].src], local' = Landed(r)
    PROVE  LET at == rd[r].offset + rd[r].wrote + 1 IN
           /\ at = rd[r].pos + 1 /\ at <= Len(local) + 1 /\ at \in 1 .. Length
           /\ local' \in Seq(Cell) /\ Len(local') = (IF at > Len(local) THEN at ELSE Len(local))
           /\ \A i \in 1 .. Len(local') :
                 local'[i] = IF i = at THEN <<rd[r].src, i>> ELSE local[i]
<1>1. /\ rd[r] \in Reader /\ ReaderOK(r) /\ local \in Seq(Cell) /\ Len(local) \in 0 .. Length
  BY DEF Placed, TypeOK, Cell
<1>2. /\ rd[r].offset \in 0 .. Length /\ rd[r].wrote \in 0 .. Length /\ rd[r].pos \in 0 .. Length
      /\ rd[r].pos = rd[r].offset + rd[r].wrote /\ rd[r].offset + rd[r].wrote <= Len(local)
      /\ rd[r].src \in 1 .. Versions /\ rd[r].pos < Length
  BY <1>1, LengthsOK DEF Reader, ReaderOK, Fetches
<1>3. PICK at : at = rd[r].offset + rd[r].wrote + 1
  OBVIOUS
<1>4. at = rd[r].pos + 1 /\ at <= Len(local) + 1 /\ at \in 1 .. Length
  BY <1>2, <1>3
<1>5. PICK n : n = IF at > Len(local) THEN at ELSE Len(local)
  OBVIOUS
<1>6. local' = [i \in 1 .. n |-> IF i = at THEN <<rd[r].src, rd[r].pos + 1>> ELSE local[i]]
  BY <1>3, <1>5 DEF Landed
<1>7. n \in Nat /\ <<rd[r].src, rd[r].pos + 1>> \in Cell
  BY <1>1, <1>2, <1>4, <1>5 DEF Cell
<1>8. \A i \in 1 .. n : i = at \/ local[i] \in Cell
  BY <1>1, <1>4, <1>5
<1>9. local' \in [1 .. n -> Cell]
  BY <1>6, <1>7, <1>8
<1>10. local' \in Seq(Cell) /\ Len(local') = n
  BY <1>7, <1>9, SeqOfFunction
<1> QED BY <1>3, <1>4, <1>5, <1>6, <1>10

LEMMA CopyKeeps == ASSUME Placed, NEW r \in Readers, Copy(r) PROVE Placed'
<1>1. /\ TypeOK /\ rd[r] \in Reader /\ ReaderOK(r) /\ SoleOK(r) /\ CachedOK
      /\ rd[r].pc = "copy" /\ rd[r].pos < LengthOf[rd[r].src] /\ UNCHANGED <<remote, cached>>
      /\ local \in Seq(Cell) /\ Len(local) \in 0 .. Length
      /\ rd[r].src \in 1 .. Versions /\ LengthOf[rd[r].src] \in 0 .. Length
  BY LengthsOK DEF Placed, TypeOK, Copy, At, Cell, ReaderOK
<1>2. PICK kept \in BOOLEAN :
        rd' = [rd EXCEPT ![r] = [rd[r] EXCEPT !.pos = @ + 1, !.kept = kept,
                                   !.wrote = IF rd[r].kind = "file" THEN @ + 1 ELSE 0]]
  BY <1>1 DEF Copy, Set, Reader
<1> DEFINE x == [rd[r] EXCEPT !.pos = @ + 1, !.kept = kept,
                              !.wrote = IF rd[r].kind = "file" THEN @ + 1 ELSE 0]
<1>3. /\ rd[r].pos + 1 \in 0 .. Length /\ rd[r].pos \in Nat /\ rd[r].offset \in Nat /\ rd[r].wrote \in Nat
      /\ rd[r].kind = "file" => rd[r].wrote + 1 \in 0 .. Length /\ rd[r].pos = rd[r].offset + rd[r].wrote
  <2>1. rd[r].pos \in Nat /\ rd[r].offset \in Nat /\ rd[r].wrote \in Nat
    BY <1>1 DEF Reader
  <2>2. rd[r].kind = "file" => rd[r].pos = rd[r].offset + rd[r].wrote
    BY <1>1 DEF ReaderOK
  <2>3. \E n \in 0 .. Length : rd[r].pos < n
    BY <1>1
  <2>4. rd[r].pos + 1 \in 0 .. Length
    BY <2>1, <2>3
  <2>5. rd[r].kind = "file" => rd[r].wrote + 1 \in 0 .. Length
    BY <2>1, <2>2, <2>4
  <2> QED BY <2>1, <2>2, <2>4, <2>5
<1>4. x \in Reader
  <2>1. (IF rd[r].kind = "file" THEN rd[r].wrote + 1 ELSE 0) \in 0 .. Length
    BY <1>3
  <2> QED BY <1>1, <1>3, <2>1 DEF Reader
<1>5. /\ x.kind = rd[r].kind /\ x.pc = "copy" /\ x.src = rd[r].src /\ x.total = rd[r].total
      /\ x.offset = rd[r].offset /\ x.out = rd[r].out /\ x.hash = rd[r].hash
      /\ x.pos = rd[r].pos + 1 /\ x.wrote = IF rd[r].kind = "file" THEN rd[r].wrote + 1 ELSE 0
  BY <1>1 DEF Reader
<1>6. x.linked = rd[r].linked /\ x.short = rd[r].short
  BY <1>1 DEF Reader
<1>7. rd' = [rd EXCEPT ![r] = x]
  BY <1>2
<1> HIDE DEF x
<1>8. Moves(r, x) /\ rd[r].out = "none" /\ rd[r].src \in 1 .. Versions
  BY <1>1, <1>4, <1>5, <1>7 DEF Moves, ReaderOK
<1>9. x.kind = "stream" => x.total \in {Unknown, LengthOf[x.src]}
  BY <1>1, <1>5 DEF ReaderOK
<1>12. x.pos <= LengthOf[x.src]
  BY <1>1, <1>3, <1>5
<1>10. CASE rd[r].kind = "file" /\ rd[r].linked
  <2>1. local' = Landed(r)
    BY <1>10 DEF Copy
  <2>2. PICK at : /\ at = rd[r].offset + rd[r].wrote + 1
                  /\ at = rd[r].pos + 1 /\ at <= Len(local) + 1 /\ at \in 1 .. Length
                  /\ local' \in Seq(Cell) /\ Len(local') = (IF at > Len(local) THEN at ELSE Len(local))
                  /\ \A i \in 1 .. Len(local') :
                        local'[i] = IF i = at THEN <<rd[r].src, i>> ELSE local[i]
    BY <1>1, <1>10, <2>1, LandedKeeps
  <2>3. Len(local) <= Len(local') /\ Len(local') <= Length /\ at <= Len(local')
    BY <1>1, <2>2
  <2>4. rd' \in [Readers -> Reader] /\ rd'[r] = x /\ \A q \in Readers : rd'[q].kind = rd[q].kind
    BY <1>1, <1>4, <1>5, <1>7 DEF TypeOK
  <2>5. TypeOK' /\ CachedOK'
    BY <1>1, <2>2, <2>3, <2>4 DEF TypeOK, CachedOK, Cell
  <2>6. EachCellInPlace'
    <3>1. ASSUME NEW i \in 1 .. Len(local') PROVE local'[i][2] = i
      <4>1. CASE i = at
        <5>1. local'[i] = <<rd[r].src, i>>
          BY <2>2, <3>1, <4>1
        <5> QED BY <5>1
      <4>2. CASE i # at
        <5>1. i \in 1 .. Len(local)
          BY <1>1, <2>2, <3>1, <4>2
        <5>2. local'[i] = local[i]
          BY <2>2, <3>1, <4>2
        <5> QED BY <5>1, <5>2 DEF Placed, EachCellInPlace
      <4> QED BY <4>1, <4>2
    <3> QED BY <3>1 DEF EachCellInPlace
  <2>7. ReaderOK(r)'
    <3>1. x.pos = x.offset + x.wrote /\ x.offset + x.wrote <= Len(local')
      BY <1>3, <1>5, <1>10, <2>2, <2>3
    <3>2. x.pc = "copy" /\ x.out = "none" /\ x.src \in 1 .. Versions
      BY <1>5, <1>8
    <3>3. Whole(r)'
      BY <2>4, <3>2 DEF Whole, Succeeded
    <3> QED BY <1>9, <1>12, <2>4, <3>1, <3>2, <3>3 DEF ReaderOK, Fetches
  <2>8. SoleOK(r)'
    <3>1. Alone(r)' <=> Alone(r)
      BY <2>4 DEF Alone
    <3>2. ASSUME Alone(r)
          PROVE  Len(local') = x.offset + x.wrote
      <4>1. Len(local) = rd[r].offset + rd[r].wrote
        BY <1>1, <3>2 DEF SoleOK, Fetches
      <4>2. at = Len(local) + 1 /\ Len(local') = at /\ x.wrote = rd[r].wrote + 1 /\ x.offset = rd[r].offset
        BY <1>1, <1>5, <1>10, <2>2, <4>1
      <4>3. rd[r].offset \in Nat /\ rd[r].wrote \in Nat
        BY <1>3
      <4>4. Len(local') = rd[r].offset + (rd[r].wrote + 1)
        BY <4>1, <4>2, <4>3
      <4> QED BY <4>2, <4>4
    <3>3. ASSUME Alone(r), x.offset = 0
          PROVE  \A i \in 1 .. x.wrote : local'[i] = <<x.src, i>>
      <4>1. /\ Len(local) = rd[r].wrote /\ \A i \in 1 .. rd[r].wrote : local[i] = <<rd[r].src, i>>
        BY <1>1, <1>3, <1>5, <3>3 DEF SoleOK, Fetches
      <4>2. at = x.wrote /\ x.wrote = rd[r].wrote + 1 /\ Len(local') = x.wrote
        BY <1>3, <1>5, <1>10, <2>2, <3>3, <4>1
      <4>3. ASSUME NEW i \in 1 .. x.wrote PROVE local'[i] = <<x.src, i>>
        <5>1. i = at \/ i \in 1 .. rd[r].wrote
          BY <1>3, <4>2
        <5> QED BY <1>5, <2>2, <4>1, <4>2, <5>1
      <4> QED BY <4>2, <4>3
    <3>4. Alone(r) => x.linked
      BY <1>1, <1>6 DEF SoleOK
    <3> QED BY <1>5, <1>8, <2>4, <3>1, <3>2, <3>3, <3>4 DEF SoleOK, Succeeded
  <2> QED BY <1>8, <1>10, <2>3, <2>5, <2>6, <2>7, <2>8, OthersKeep
<1>11. CASE ~(rd[r].kind = "file" /\ rd[r].linked)
  <2>1. local' = local /\ ~Alone(r)
    BY <1>1, <1>11 DEF Copy, SoleOK, Alone
  <2>4. x.pc = "copy" /\ x.out = "none" /\ x.src \in 1 .. Versions /\ (rd[r].linked => x.linked)
    BY <1>5, <1>6, <1>8
  <2>2. x.kind = "file" => x.pos = x.offset + x.wrote
    BY <1>3, <1>5
  <2>3. ~(x.kind = "file" /\ x.linked)
    BY <1>5, <1>6, <1>11
  <2> QED BY <1>1, <1>8, <1>9, <1>12, <2>1, <2>2, <2>3, <2>4, ReaderMoves
<1> QED BY <1>10, <1>11

\* A copy out of the cache takes the place of what is there.
LEMMA ServeKeeps == ASSUME Placed, NEW r \in Readers, Serve(r) PROVE Placed'
<1>1. /\ TypeOK /\ rd[r] \in Reader /\ ReaderOK(r) /\ CachedOK /\ rd[r].pc = "hit" /\ rd[r].kind = "file"
      /\ UNCHANGED <<remote, cached>>
      /\ \A q \in Readers : rd[q] \in Reader
  BY DEF Placed, TypeOK, Serve, At, ReaderOK
<1>2. /\ rd[r].src \in 1 .. Versions /\ rd[r].pos \in 0 .. Length
      /\ rd[r].pos <= LengthOf[rd[r].src] /\ LengthOf[rd[r].src] \in 0 .. Length
      /\ rd[r].total = Unknown \/ rd[r].pos = LengthOf[rd[r].src]
  BY <1>1, LengthsOK DEF Reader, ReaderOK
<1>3. /\ local' = Part(rd[r].src, rd[r].pos) /\ local' \in Seq(Cell) /\ Len(local') = rd[r].pos
      /\ \A i \in 1 .. Len(local') : local'[i] = <<rd[r].src, i>>
  BY <1>2, PartIsSeq DEF Serve
<1> DEFINE s == [Started(r) EXCEPT !.calls = rd[r].calls]
           x == [s EXCEPT !.out = "served", !.src = rd[r].src,
                          !.short = rd[r].total = Unknown /\ rd[r].pos < LengthOf[rd[r].src]]
<1>4. Fresh(r, s)
  BY <1>1, FreshCall
<1>5. rd' = [q \in Readers |-> IF q = r THEN x ELSE [rd[q] EXCEPT !.linked = FALSE]]
  <2>1. x = [Started(r) EXCEPT !.calls = rd[r].calls, !.out = "served", !.src = rd[r].src,
                               !.short = rd[r].total = Unknown /\ rd[r].pos < LengthOf[rd[r].src]]
    BY <1>1, IdleReader DEF Started, Reader
  <2> QED BY <2>1 DEF Serve
<1> HIDE DEF s
<1>6. x \in Reader /\ x.kind = "file" /\ x.pc = "idle" /\ x.out = "served" /\ x.src = rd[r].src
  <2>1. rd[r].src \in 0 .. Versions /\ (rd[r].total = Unknown /\ rd[r].pos < LengthOf[rd[r].src]) \in BOOLEAN
    BY <1>2, LengthsOK
  <2>2. s \in Reader /\ s.kind = "file" /\ s.pc = "idle"
    BY <1>1, <1>4 DEF Fresh
  <2> QED BY <2>1, <2>2 DEF Reader
<1>7. x.linked
  <2>1. x.linked = s.linked
    BY <1>4 DEF Fresh, Reader
  <2> QED BY <1>4, <2>1 DEF Fresh
<1>8. x.short <=> rd[r].total = Unknown /\ rd[r].pos < LengthOf[rd[r].src]
  BY <1>4 DEF Fresh, Reader
<1> HIDE DEF x
<1>9. rd'[r] = x
  BY <1>5
<1>10. ASSUME NEW q \in Readers, q # r
       PROVE  /\ rd'[q] \in Reader /\ ~rd'[q].linked
              /\ rd'[q].kind = rd[q].kind /\ rd'[q].pc = rd[q].pc /\ rd'[q].src = rd[q].src
              /\ rd'[q].total = rd[q].total /\ rd'[q].pos = rd[q].pos /\ rd'[q].wrote = rd[q].wrote
              /\ rd'[q].offset = rd[q].offset /\ rd'[q].out = rd[q].out
  <2>1. rd'[q] = [rd[q] EXCEPT !.linked = FALSE]
    BY <1>5, <1>10
  <2>2. rd'[q] \in Reader
    BY <1>1, <2>1 DEF Reader
  <2>3. ~rd'[q].linked
    BY <1>1, <2>1 DEF Reader
  <2> QED BY <1>1, <2>1, <2>2, <2>3 DEF Reader
<1>11. rd' \in [Readers -> Reader]
  BY <1>5, <1>6, <1>9, <1>10
<1>12. TypeOK' /\ CachedOK'
  BY <1>1, <1>2, <1>3, <1>11 DEF TypeOK, CachedOK, Cell
<1>13. EachCellInPlace'
  BY <1>3 DEF EachCellInPlace
<1>14. ASSUME NEW q \in Readers PROVE ReaderOK(q)' /\ SoleOK(q)'
  <2>1. CASE q = r
    <3>1. ~x.short => Len(local') = LengthOf[x.src]
      BY <1>2, <1>3, <1>6, <1>8
    <3>2. Whole(r)'
      BY <1>2, <1>6, <1>9, <3>1 DEF Whole, Succeeded
    <3> QED BY <1>6, <1>7, <1>9, <2>1, <3>1, <3>2 DEF ReaderOK, SoleOK, Fetches, Succeeded
  <2>2. CASE q # r
    <3>1. ReaderOK(q)
      BY DEF Placed
    <3>2. ~Alone(q)'
      BY <1>6, <1>9, <2>2 DEF Alone
    <3> QED BY <1>10, <2>2, <3>1, <3>2 DEF ReaderOK, SoleOK, Whole, Succeeded
  <2> QED BY <2>1, <2>2
<1> QED BY <1>12, <1>13, <1>14 DEF Placed

\* The body ends: what was compared and found equal is the whole of that version.
LEMMA EndKeeps == ASSUME Placed, NEW r \in Readers, End(r) PROVE Placed'
<1>1. /\ TypeOK /\ rd[r] \in Reader /\ ReaderOK(r) /\ SoleOK(r) /\ CachedOK
      /\ rd[r].pc = "copy" /\ UNCHANGED <<remote, local>>
      /\ local \in Seq(Cell) /\ Len(local) \in 0 .. Length
  BY DEF Placed, TypeOK, End, At, Cell
<1>2. PICK out \in {"ok", "error", "refused", "cut"}, short \in BOOLEAN :
        /\ out = (IF Hashed(rd[r]) => Matches(rd[r]) THEN "ok" ELSE "error")
        /\ short = (rd[r].pos < LengthOf[rd[r].src]) /\ Ends(r, out, short)
  <2>1. (rd[r].pos < LengthOf[rd[r].src]) \in BOOLEAN
    OBVIOUS
  <2>2. \/ (Hashed(rd[r]) => Matches(rd[r])) /\ Ends(r, "ok", rd[r].pos < LengthOf[rd[r].src])
        \/ ~(Hashed(rd[r]) => Matches(rd[r])) /\ Ends(r, "error", rd[r].pos < LengthOf[rd[r].src])
    BY DEF End
  <2> QED BY <2>1, <2>2
<1>3. PICK x : /\ Moves(r, x) /\ x.pc = "idle" /\ x.out = out /\ x.short = short
               /\ x.linked = rd[r].linked /\ x.offset = rd[r].offset /\ x.hash = rd[r].hash
               /\ x.src = rd[r].src
  <2>1. Ends(r, out, short)
    BY <1>2
  <2> QED BY <1>1, <2>1, EndedCall
<1>4. /\ rd[r].src \in 1 .. Versions /\ rd[r].pos \in 0 .. Length /\ rd[r].wrote \in 0 .. Length
      /\ rd[r].offset \in 0 .. Length /\ rd[r].total \in {Unknown} \cup 0 .. Length
      /\ LengthOf[rd[r].src] \in 0 .. Length /\ LengthOf[rd[r].src] > 0
      /\ rd[r].kind # "archive" => rd[r].pos <= LengthOf[rd[r].src]
  BY <1>1, LengthsOK DEF Reader, ReaderOK
<1>5. /\ rd' \in [Readers -> Reader] /\ rd'[r] = x /\ x.kind = rd[r].kind
      /\ \A q \in Readers : rd'[q].kind = rd[q].kind
  BY <1>1, <1>3 DEF Moves, TypeOK
<1>6. TypeOK' /\ CachedOK'
  <2>1. CASE cached' = cached
    BY <1>1, <1>5, <2>1 DEF TypeOK, CachedOK
  <2>2. CASE /\ rd[r].kind = "stream" /\ ArrivedWhole(rd[r])
             /\ cached' = [src |-> rd[r].src, cells |-> rd[r].pos, total |-> rd[r].total]
    <3>1. rd[r].total = Unknown \/ rd[r].pos = LengthOf[rd[r].src]
      BY <1>1, <1>4, <2>2 DEF ReaderOK, ArrivedWhole
    <3>2. rd[r].src \in 0 .. Versions
      BY <1>4
    <3> QED BY <1>1, <1>4, <1>5, <2>2, <3>1, <3>2 DEF TypeOK, CachedOK
  <2> QED BY <2>1, <2>2 DEF End
<1>7. EachCellInPlace'
  BY <1>1 DEF Placed, EachCellInPlace
<1>8. ReaderOK(r)'
  <2>1. ASSUME rd[r].kind = "file", rd[r].linked, ~short PROVE Len(local) >= LengthOf[rd[r].src]
    <3>1. rd[r].offset + rd[r].wrote <= Len(local) /\ rd[r].pos = rd[r].offset + rd[r].wrote
      BY <1>1, <2>1 DEF ReaderOK, Fetches
    <3>2. ~(rd[r].pos < LengthOf[rd[r].src])
      BY <1>2, <2>1
    <3> QED BY <1>1, <1>4, <3>1, <3>2
  <2>2. Whole(r)'
    BY <1>1, <1>3, <1>4, <1>5, <2>1 DEF Whole, Succeeded
  <2> QED BY <1>3, <1>5, <2>2 DEF ReaderOK, Fetches
<1>9. SoleOK(r)'
  <2>1. Alone(r)' <=> Alone(r)
    BY <1>5 DEF Alone
  <2>2. ASSUME Alone(r), x.out = "ok", x.offset = 0, x.hash # 0 PROVE local = Content(x.hash)
    <3>1. rd[r].src = rd[r].hash /\ rd[r].pos = LengthOf[rd[r].src]
      BY <1>2, <1>3, <2>2 DEF Hashed, Matches
    <3>2. /\ Len(local) = rd[r].wrote /\ \A i \in 1 .. rd[r].wrote : local[i] = <<rd[r].src, i>>
      BY <1>1, <1>3, <1>4, <2>2 DEF SoleOK, Fetches
    <3>3. rd[r].wrote = LengthOf[rd[r].src]
      BY <1>1, <1>3, <1>4, <2>2, <3>1 DEF ReaderOK, Alone
    <3>4. local = [i \in 1 .. LengthOf[rd[r].src] |-> <<rd[r].src, i>>]
      <4>1. local = [i \in 1 .. LengthOf[rd[r].src] |-> local[i]]
        BY <1>1, <3>2, <3>3, SeqIsFunction
      <4> QED BY <3>2, <3>3, <4>1
    <3> QED BY <1>3, <3>1, <3>4 DEF Content, Part
  <2>3. ASSUME Alone(r), ~short PROVE Len(local) = LengthOf[rd[r].src]
    <3>1. rd[r].kind = "file" /\ rd[r].pos = rd[r].offset + rd[r].wrote
      BY <1>1, <2>3 DEF Alone, ReaderOK
    <3>2. Len(local) = rd[r].offset + rd[r].wrote
      BY <1>1, <2>3 DEF SoleOK, Fetches
    <3>3. ~(rd[r].pos < LengthOf[rd[r].src])
      BY <1>2, <2>3
    <3> QED BY <1>4, <3>1, <3>2, <3>3
  <2> QED BY <1>1, <1>3, <1>5, <2>1, <2>2, <2>3 DEF SoleOK, Fetches, Succeeded
<1> QED BY <1>1, <1>3, <1>6, <1>7, <1>8, <1>9, OthersKeep

-----------------------------------------------------------------------------
(* The file is replaced upstream: nothing that was answered changes.        *)

LEMMA ReplaceKeeps == ASSUME Placed, Replace PROVE Placed'
<1>1. TypeOK'
  BY DEF Placed, TypeOK, Replace
<1>2. EachCellInPlace' /\ CachedOK'
  BY DEF Placed, EachCellInPlace, CachedOK, Replace
<1>3. ASSUME NEW r \in Readers PROVE ReaderOK(r)' /\ SoleOK(r)'
  BY DEF Placed, ReaderOK, SoleOK, Fetches, Whole, Succeeded, Alone, Replace
<1> QED BY <1>1, <1>2, <1>3 DEF Placed

-----------------------------------------------------------------------------
(* Every state of the program is placed.                                    *)

LEMMA InitPlaced == Init => Placed
<1> SUFFICES ASSUME Init PROVE Placed
  OBVIOUS
<1>1. PICK kinds \in [Readers -> Kinds] : rd = [r \in Readers |-> [Idle EXCEPT !.kind = kinds[r]]]
  BY DEF Init
<1>2. ASSUME NEW r \in Readers
      PROVE  rd[r] \in Reader /\ rd[r].pc = "idle" /\ rd[r].linked /\ rd[r].out = "none"
  <2>1. rd[r] = [Idle EXCEPT !.kind = kinds[r]]
    BY <1>1
  <2>2. rd[r] \in Reader /\ rd[r].pc = "idle" /\ rd[r].out = "none"
    BY <1>1, <2>1, IdleReader DEF Reader
  <2>3. rd[r].linked = Idle.linked
    BY <2>1, IdleReader DEF Reader
  <2> QED BY <2>2, <2>3, IdleReader
<1>3. rd \in [Readers -> Reader]
  BY <1>1, <1>2
<1>4. local = <<>> /\ remote \in 1 .. Versions
  BY DEF Init
<1>5. /\ cached \in [src : 0 .. Versions, cells : 0 .. Length, total : {Unknown} \cup 0 .. Length]
      /\ CachedOK
  <2>1. CASE cached = NoObject
    BY <2>1 DEF NoObject, CachedOK
  <2>2. CASE cached \in [src : {1}, cells : 1 .. LengthOf[1], total : {Unknown}]
    <3>1. /\ cached.src = 1 /\ 1 \in 1 .. Versions /\ cached.cells \in 0 .. Length
          /\ cached.total = Unknown /\ cached.cells <= LengthOf[1]
      BY <2>2, LengthsOK
    <3> QED BY <2>2, <3>1 DEF CachedOK
  <2> QED BY <2>1, <2>2 DEF Init
<1>6. TypeOK /\ EachCellInPlace
  BY <1>3, <1>4, <1>5 DEF TypeOK, EachCellInPlace
<1>7. ASSUME NEW r \in Readers PROVE ReaderOK(r) /\ SoleOK(r)
  BY <1>2 DEF ReaderOK, SoleOK, Fetches, Whole, Succeeded
<1> QED BY <1>5, <1>6, <1>7 DEF Placed

LEMMA NextPlaced == Placed /\ [Next]_vars => Placed'
<1> SUFFICES ASSUME Placed, [Next]_vars PROVE Placed'
  OBVIOUS
<1>1. ASSUME NEW r \in Readers, Call(r) PROVE Placed'
  BY <1>1, CallKeeps
<1>2. ASSUME NEW r \in Readers, Serve(r) PROVE Placed'
  BY <1>2, ServeKeeps
<1>3. ASSUME NEW r \in Readers, HitFails(r) PROVE Placed'
  BY <1>3, HitFailsKeeps
<1>4. ASSUME NEW r \in Readers, Refused(r) \/ Break(r) PROVE Placed'
  BY <1>4, RefusedKeeps
<1>5. ASSUME NEW r \in Readers, Answer(r) PROVE Placed'
  BY <1>5, AnswerKeeps
<1>6. ASSUME NEW r \in Readers, AnswerArchive(r) PROVE Placed'
  BY <1>6, AnswerArchiveKeeps
<1>7. ASSUME NEW r \in Readers, Skip(r) PROVE Placed'
  BY <1>7, SkipKeeps
<1>8. ASSUME NEW r \in Readers, Copy(r) PROVE Placed'
  BY <1>8, CopyKeeps
<1>9. ASSUME NEW r \in Readers, End(r) PROVE Placed'
  BY <1>9, EndKeeps
<1>10. CASE Replace
  BY <1>10, ReplaceKeeps
<1>11. CASE UNCHANGED vars
  <2>1. TypeOK' /\ EachCellInPlace' /\ CachedOK'
    BY <1>11 DEF vars, Placed, TypeOK, EachCellInPlace, CachedOK
  <2>2. ASSUME NEW r \in Readers PROVE ReaderOK(r)' /\ SoleOK(r)'
    BY <1>11 DEF vars, Placed, ReaderOK, SoleOK, Fetches, Whole, Succeeded, Alone
  <2> QED BY <2>1, <2>2 DEF Placed
<1> QED BY <1>1, <1>2, <1>3, <1>4, <1>5, <1>6, <1>7, <1>8, <1>9, <1>10, <1>11 DEF Next

\* However downloads, streams and copies out of the cache overlap, where a call started,
\* what it has written and how far its body has come agree with the file it writes
\* (DownloadFile, Download, handleDownloadStream).
THEOREM PlacedHolds == Spec => []Placed
BY InitPlaced, NextPlaced, PTL DEF Spec

\* The variables of Downloads keep their types.
THEOREM TypesHold == Spec => []TypeOK
<1>1. Placed => TypeOK
  BY DEF Placed
<1> QED BY <1>1, PlacedHolds, PTL

\* Nothing is missing, doubled or displaced on disk, however often connections break,
\* ranges are ignored and downloads of the same path overlap (DownloadFile's offset,
\* Download's skip of what is there already).
THEOREM CellsInPlace == Spec => []EachCellInPlace
<1>1. Placed => EachCellInPlace
  BY DEF Placed
<1> QED BY <1>1, PlacedHolds, PTL

\* A download that reports success leaves at least as much as the version it is about
\* has, whatever the lengths of the versions and whoever wrote which part of it, and
\* exactly as much if nobody else downloads to the path, unless a body ended early with
\* nothing to tell by (DownloadFile, Cache.CopyTo).
THEOREM SuccessWhole == Spec => []SuccessIsWhole
<1>1. Placed => SuccessIsWhole
  BY DEF Placed, ReaderOK, SoleOK, Whole, SuccessIsWhole
<1> QED BY <1>1, PlacedHolds, PTL

\* One caller that starts with nothing and has the digest gets that version or an error,
\* although upstream replaces the file meanwhile (Download's digest).
THEOREM FreshVerified == Spec => []FreshIsVerified
<1>1. Placed => FreshIsVerified
  BY DEF Placed, SoleOK, FreshIsVerified
<1> QED BY <1>1, PlacedHolds, PTL
=============================================================================
