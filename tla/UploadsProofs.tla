---------------------------- MODULE UploadsProofs ----------------------------
(***************************************************************************)
(* Proofs about Uploads, for every number and size of chunks, compressed or *)
(* not, and every bound on what goes wrong: upstream assembles the          *)
(* beginning of what was to be sent, a success has closed a whole file, and *)
(* what a failure leaves behind is taken back unless it is not ours.        *)
(*                                                                         *)
(* The inductive invariant, Assembly, says of what is held, of the request  *)
(* being sent and of each request that may still be acted on that it is the *)
(* piece of the wire at its offset.  That makes the order in which upstream *)
(* acts on them immaterial.                                                 *)
(***************************************************************************)
EXTENDS Uploads, SequenceTheorems, TLAPS

USE AssumeSizes

-----------------------------------------------------------------------------
(* The invariant.                                                           *)

\* The cells are the piece of the wire of n chunks that starts after "at".
PieceOf(at, cells, n) ==
    /\ at \in Nat /\ cells \in Seq(Nat) /\ at + Len(cells) <= n * Size
    /\ \A i \in 1 .. Len(cells) : cells[i] = at + i

HeldOK == PieceOf(0, held, up.p.length)

\* Nothing has been sent before the first chunk; from then on the chunk to send and
\* wireOffset agree, and a tail begins inside the chunk.
SentOK ==
    /\ up.pc \in {"create", "open"} => held = <<>> /\ late = {} /\ up.off = 0
    /\ up.pc \in {"chunk", "tail"} =>
          /\ up.chunk \in 1 .. up.p.length + 1
          /\ up.off = (up.chunk - 1) * Size
    /\ up.pc = "tail" => up.chunk <= up.p.length /\ up.off < up.at /\ up.at < up.off + Size

\* A close that may still be acted on was sent when all was held.
LateOK ==
    \A req \in late :
        /\ PieceOf(req.at, req.cells, up.p.length)
        /\ req.cells = <<>> /\ up.p.declared > 0 => up.known \/ req.at = up.p.length * Size

\* A close is sent for a record that is there, and after the source was measured.
CloseOK ==
    /\ up.pc \in {"open", "chunk", "tail", "close"} => rec \notin {"none", "gone"}
    /\ up.pc = "close" /\ ~up.known /\ up.p.declared > 0 => up.p.length = up.p.declared
    /\ up.out = "ok" => up.pc = "ended"
    /\ ClosedWhole

\* The record is deleted only after a failure, and only by the call it belongs to.
OwnOK ==
    /\ up.pc = "reclaim" => Owns(up.p) /\ up.out = "error"
    /\ OrphanTakenBack

Assembly == TypeOK /\ SentOK /\ HeldOK /\ LateOK /\ CloseOK /\ OwnOK

-----------------------------------------------------------------------------
(* Products and pieces.                                                     *)

LEMMA Products ==
    ASSUME NEW n \in Nat, NEW m \in 0 .. n, NEW s \in Nat
    PROVE  m * s \in Nat /\ m * s <= n * s /\ (m + 1) * s = m * s + s
<1>1. PICK k \in Nat : n = m + k
  <2>1. n - m \in Nat /\ n = m + (n - m)
    OBVIOUS
  <2> QED BY <2>1
<1>2. m * s \in Nat /\ k * s \in Nat
  OBVIOUS
<1>3. n * s = m * s + k * s /\ (m + 1) * s = m * s + s
  BY <1>1
<1> QED BY <1>2, <1>3

LEMMA SizeIsPositive == Size \in Nat \ {0} /\ Size <= Plain + Packed
BY DEF Size

\* The bound on the offsets.
LEMMA WithinBound ==
    ASSUME NEW n \in 0 .. Chunks, NEW x \in Nat, x <= n * Size
    PROVE  x \in 0 .. Chunks * (Plain + Packed)
<1>1. n * Size <= Chunks * Size /\ n * Size \in Nat
  BY SizeIsPositive, Products
<1>2. Chunks * Size <= Chunks * (Plain + Packed)
  <2>1. Size \in 0 .. Plain + Packed /\ Plain + Packed \in Nat /\ Chunks \in Nat
    BY SizeIsPositive
  <2>2. Size * Chunks <= (Plain + Packed) * Chunks
    BY <2>1, Products
  <2> QED BY <2>1, <2>2
<1>3. Chunks * Size \in Nat /\ Chunks * (Plain + Packed) \in Nat
  BY SizeIsPositive
<1> QED BY <1>1, <1>2, <1>3

LEMMA SeqOfFunction ==
    ASSUME NEW S, NEW n \in Nat, NEW s \in [1 .. n -> S]
    PROVE  s \in Seq(S) /\ Len(s) = n
OBVIOUS

LEMMA WireIsSeq ==
    ASSUME NEW n \in Nat
    PROVE  /\ Wire(n) \in Seq(Nat) /\ Len(Wire(n)) = n * Size
           /\ \A i \in 1 .. n * Size : Wire(n)[i] = i
<1>1. n * Size \in Nat
  BY SizeIsPositive
<1>2. Wire(n) \in [1 .. n * Size -> Nat]
  BY <1>1 DEF Wire
<1> QED BY <1>1, <1>2, SeqOfFunction DEF Wire

\* Chunk c is its piece of the wire.
LEMMA PayloadIsPiece ==
    ASSUME NEW n \in Nat, NEW c \in 1 .. n
    PROVE  /\ PieceOf((c - 1) * Size, Payload(c), n) /\ Len(Payload(c)) = Size
           /\ (c - 1) * Size + Size <= n * Size
<1>1. Size \in Nat /\ c - 1 \in 0 .. n /\ c \in 0 .. n /\ c - 1 \in 0 .. c
  BY SizeIsPositive
<1>2. (c - 1) * Size \in Nat /\ (c - 1) * Size + Size = c * Size /\ c * Size <= n * Size
  <2>1. (c - 1) * Size \in Nat /\ ((c - 1) + 1) * Size = (c - 1) * Size + Size
    BY <1>1, Products
  <2>2. c * Size <= n * Size
    BY <1>1, Products
  <2>3. (c - 1) + 1 = c
    BY <1>1
  <2> QED BY <2>1, <2>2, <2>3
<1> DEFINE b == (c - 1) * Size
<1>3. Payload(c) = [i \in 1 .. Size |-> b + i]
  BY DEF Payload
<1> HIDE DEF b
<1>4. Payload(c) \in [1 .. Size -> Nat]
  BY <1>1, <1>2, <1>3 DEF b
<1>5. Payload(c) \in Seq(Nat) /\ Len(Payload(c)) = Size
  BY <1>1, <1>4, SeqOfFunction
<1>6. b \in Nat /\ b + Size <= n * Size
  BY <1>2 DEF b
<1>7. PieceOf(b, Payload(c), n)
  BY <1>3, <1>5, <1>6 DEF PieceOf
<1> QED BY <1>5, <1>6, <1>7 DEF b

\* The end of a piece is a piece.
LEMMA RestIsPiece ==
    ASSUME NEW n \in Nat, NEW b \in Nat, NEW s, PieceOf(b, s, n), NEW a \in Nat, b < a, a < b + Len(s)
    PROVE  LET rest == SubSeq(s, a - b + 1, Len(s)) IN PieceOf(a, rest, n) /\ rest # <<>>
<1> DEFINE rest == SubSeq(s, a - b + 1, Len(s))
<1>1. s \in Seq(Nat) /\ b + Len(s) <= n * Size /\ \A i \in 1 .. Len(s) : s[i] = b + i
  BY DEF PieceOf
<1>2. rest \in Seq(Nat) /\ Len(rest) = Len(s) - (a - b)
  BY <1>1
<1>3. ASSUME NEW i \in 1 .. Len(rest) PROVE rest[i] = a + i
  <2>1. rest[i] = s[a - b + 1 + i - 1] /\ a - b + i \in 1 .. Len(s)
    BY <1>1, <1>2, <1>3
  <2> QED BY <1>1, <2>1
<1>4. a + Len(rest) <= n * Size
  <2>1. n * Size \in Nat
    BY SizeIsPositive
  <2>2. Len(s) \in Nat
    BY <1>1
  <2> QED BY <1>1, <1>2, <2>1, <2>2
<1> HIDE DEF rest
<1>5. rest # <<>>
  <2>1. Len(rest) # 0
    BY <1>1, <1>2
  <2> QED BY <2>1
<1>6. PieceOf(a, rest, n)
  BY <1>2, <1>3, <1>4 DEF PieceOf
<1> QED BY <1>5, <1>6 DEF rest

\* What continues what is held, as far as it is kept, makes a longer piece.
LEMMA KeptIsPiece ==
    ASSUME NEW n \in Nat, PieceOf(0, held, n), NEW req, PieceOf(req.at, req.cells, n),
           Continues(req), NEW k \in 0 .. Len(req.cells), Keeps(req, k), Size' = Size
    PROVE  held' \in Seq(Nat) /\ Len(held') <= n * Size /\ \A i \in 1 .. Len(held') : held'[i] = i
<1>1. /\ held \in Seq(Nat) /\ req.cells \in Seq(Nat) /\ req.at = Len(held)
      /\ Len(held) + Len(req.cells) <= n * Size
      /\ \A i \in 1 .. Len(held) : held[i] = i
      /\ \A i \in 1 .. Len(req.cells) : req.cells[i] = Len(held) + i
  BY DEF PieceOf, Continues
<1> DEFINE t == SubSeq(req.cells, 1, k)
<1>2. t \in Seq(Nat) /\ Len(t) = k /\ \A i \in 1 .. k : t[i] = req.cells[i]
  BY <1>1
<1>3. held' = held \o t
  BY DEF Keeps
<1> HIDE DEF t
<1>4. /\ held' \in Seq(Nat) /\ Len(held') = Len(held) + k
      /\ \A i \in 1 .. Len(held') : held'[i] = IF i <= Len(held) THEN held[i] ELSE t[i - Len(held)]
  <2>1. (held \o t) \in Seq(Nat) /\ Len(held \o t) = Len(held) + Len(t)
    BY <1>1, <1>2, ConcatProperties
  <2>2. \A i \in 1 .. Len(held) + Len(t) :
           (held \o t)[i] = IF i <= Len(held) THEN held[i] ELSE t[i - Len(held)]
    BY <1>1, <1>2, ConcatProperties
  <2> QED BY <1>2, <1>3, <2>1, <2>2
<1>5. ASSUME NEW i \in 1 .. Len(held') PROVE held'[i] = i
  <2>1. CASE i <= Len(held)
    <3>1. i \in 1 .. Len(held)
      BY <1>1, <1>4, <1>5, <2>1
    <3>2. held'[i] = held[i]
      BY <1>4, <1>5, <2>1
    <3> QED BY <1>1, <3>1, <3>2
  <2>2. CASE ~(i <= Len(held))
    <3>1. i - Len(held) \in 1 .. k /\ i - Len(held) \in 1 .. Len(req.cells)
      BY <1>1, <1>4, <1>5, <2>2
    <3>2. held'[i] = req.cells[i - Len(held)]
      BY <1>2, <1>4, <1>5, <2>2, <3>1
    <3> QED BY <1>1, <3>1, <3>2
  <2> QED BY <2>1, <2>2
<1>6. Len(held') <= n * Size
  <2>1. n * Size \in Nat /\ Len(held) \in Nat /\ Len(req.cells) \in Nat
    BY <1>1, SizeIsPositive
  <2> QED BY <1>1, <1>4, <2>1
<1> QED BY <1>4, <1>5, <1>6

-----------------------------------------------------------------------------
(* The upload moves on.                                                     *)

\* The upload asks for the same content in the same form.
SameUpload == up' \in Upload /\ up'.p = up.p /\ up'.packed = up.packed /\ up'.known = up.known

LEMMA ParamsOK ==
    ASSUME TypeOK
    PROVE  /\ up.p.exist \in BOOLEAN /\ up.p.keep \in BOOLEAN
           /\ up.p.declared \in 0 .. Chunks /\ up.p.length \in 0 .. Chunks
BY DEF TypeOK, Upload, Params

LEMMA SameSize == ASSUME SameUpload PROVE Size' = Size
BY DEF SameUpload, Size

\* What is held, and what may still be acted on, is a matter of the wire alone.
LEMMA HeldKeeps == ASSUME Assembly, SameUpload, held' = held PROVE HeldOK'
BY SameSize DEF Assembly, HeldOK, PieceOf, SameUpload

LEMMA LateKeeps ==
    ASSUME Assembly, SameUpload,
           \A req \in late' \ late :
              /\ PieceOf(req.at, req.cells, up.p.length)
              /\ req.cells = <<>> /\ up.p.declared > 0 => up.known \/ req.at = up.p.length * Size
    PROVE  LateOK'
<1>1. Size' = Size /\ up'.p = up.p /\ up'.known = up.known
  BY SameSize DEF SameUpload
<1>2. ASSUME NEW req \in late'
      PROVE  /\ PieceOf(req.at, req.cells, up.p.length)
             /\ req.cells = <<>> /\ up.p.declared > 0 => up.known \/ req.at = up.p.length * Size
  BY <1>2 DEF Assembly, LateOK
<1> QED BY <1>1, <1>2 DEF LateOK, PieceOf

\* More is held.
LEMMA KeptKeeps ==
    ASSUME Assembly, SameUpload, NEW req, PieceOf(req.at, req.cells, up.p.length),
           Continues(req), NEW k \in 0 .. Len(req.cells), Keeps(req, k)
    PROVE  HeldOK' /\ Len(held') <= Len(Wire(Chunks))'
<1>1. Size' = Size /\ up.p.length \in 0 .. Chunks /\ up'.p = up.p /\ Chunks \in Nat
  BY SameSize, ParamsOK DEF SameUpload, Assembly
<1>2. /\ held' \in Seq(Nat) /\ Len(held') <= up.p.length * Size
      /\ \A i \in 1 .. Len(held') : held'[i] = i
  BY <1>1, KeptIsPiece DEF Assembly, HeldOK
<1>3. HeldOK'
  <2>1. Len(held') \in Nat /\ up.p.length * Size \in Nat
    BY <1>1, <1>2, SizeIsPositive
  <2>2. /\ 0 + Len(held') <= up.p.length * Size
        /\ \A i \in 1 .. Len(held') : held'[i] = 0 + i
    BY <1>2, <2>1
  <2> QED BY <1>1, <1>2, <2>2 DEF HeldOK, PieceOf
<1>4. Len(held') <= Len(Wire(Chunks))'
  <2>1. Wire(Chunks)' = Wire(Chunks)
    BY <1>1 DEF Wire
  <2>2. Len(Wire(Chunks)) = Chunks * Size /\ Chunks * Size \in Nat
    BY <1>1, WireIsSeq, SizeIsPositive
  <2>3. up.p.length * Size <= Chunks * Size /\ up.p.length * Size \in Nat
    BY <1>1, SizeIsPositive, Products
  <2>4. Len(held') \in Nat
    BY <1>2
  <2> QED BY <1>2, <2>1, <2>2, <2>3, <2>4
<1> QED BY <1>3, <1>4

\* A call that fails, with its record to be taken back or not.
LEMMA FailedCall ==
    ASSUME Assembly, Fails
    PROVE  /\ SameUpload /\ SentOK' /\ up'.unnamed = up.unnamed /\ up'.out = "error"
           /\ up'.pc = (IF Owns(up.p) THEN "reclaim" ELSE "ended")
<1>1. up \in Upload
  BY DEF Assembly, TypeOK
<1>2. up' = [up EXCEPT !.pc = IF Owns(up.p) THEN "reclaim" ELSE "ended", !.out = "error"]
  BY DEF Fails
<1>3. /\ up' \in Upload /\ up'.p = up.p /\ up'.out = "error"
      /\ up'.pc = (IF Owns(up.p) THEN "reclaim" ELSE "ended")
  BY <1>1, <1>2 DEF Upload, Phases
<1>4. up'.packed = up.packed /\ up'.known = up.known /\ up'.unnamed = up.unnamed
  BY <1>1, <1>2 DEF Upload
<1>5. SentOK'
  BY <1>3 DEF SentOK
<1> QED BY <1>3, <1>4, <1>5 DEF SameUpload

\* The record of a call that fails is as good as it was, or was closed as it should be.
LEMMA FailureKeeps ==
    ASSUME Assembly, Fails, rec' = rec \/ rec' = "whole" \/ (rec' = "broken" /\ up.p.declared = 0),
           HeldOK', LateOK', Len(held') <= Len(Wire(Chunks))', faults' \in 0 .. MaxFaults
    PROVE  Assembly'
<1>1. /\ SameUpload /\ SentOK' /\ up'.out = "error"
      /\ up'.pc = (IF Owns(up.p) THEN "reclaim" ELSE "ended")
  BY FailedCall
<1>2. TypeOK'
  BY <1>1 DEF Assembly, TypeOK, SameUpload
<1>3. CloseOK'
  <2>1. up.p.declared = 0 => ~(up.p.declared > 0)
    OBVIOUS
  <2> QED BY <1>1, <2>1 DEF Assembly, CloseOK, ClosedWhole, SameUpload
<1>4. OwnOK'
  BY <1>1, ParamsOK DEF Assembly, OwnOK, OrphanTakenBack, Owns, At, SameUpload
<1> QED BY <1>1, <1>2, <1>3, <1>4 DEF Assembly

-----------------------------------------------------------------------------
(* Creating the record.                                                     *)

\* Nothing is as good a beginning as any.
LEMMA NothingHeld ==
    ASSUME Assembly, held' = <<>>, up' \in Upload, up'.p = up.p
    PROVE  HeldOK' /\ Len(held') <= Len(Wire(Chunks))'
<1>1. up'.p.length \in Nat /\ Size' \in Nat /\ Chunks \in Nat
  BY ParamsOK DEF Assembly, Size
<1>2. up'.p.length * Size' \in Nat /\ Chunks * Size' \in Nat
  BY <1>1
<1>3. HeldOK'
  BY <1>2 DEF HeldOK, PieceOf
<1>4. Wire(Chunks)' \in [1 .. Chunks * Size' -> Nat]
  BY <1>2 DEF Wire
<1>5. Len(Wire(Chunks)') = Chunks * Size'
  BY <1>2, <1>4, SeqOfFunction
<1> QED BY <1>2, <1>3, <1>5

LEMMA CreateKeeps == ASSUME Assembly, Create PROVE Assembly'
<1>1. /\ up \in Upload /\ up.pc = "create" /\ held = <<>> /\ late = {} /\ up.off = 0
      /\ UNCHANGED <<held, late>>
      /\ faults' \in 0 .. MaxFaults
  BY DEF Assembly, TypeOK, SentOK, Create, At, Wrong
<1>2. LateOK'
  BY <1>1 DEF LateOK
<1>3. ASSUME up' \in Upload, up'.p = up.p PROVE HeldOK' /\ Len(held') <= Len(Wire(Chunks))'
  BY <1>1, <1>3, NothingHeld
<1>4. CASE Stops
  <2>1. up' = [up EXCEPT !.pc = "ended", !.out = "error", !.unnamed = TRUE]
    BY <1>4 DEF Stops
  <2>2. /\ up' \in Upload /\ up'.p = up.p /\ up'.pc = "ended" /\ up'.out = "error"
    BY <1>1, <2>1 DEF Upload, Phases
  <2>3. up'.unnamed
    BY <1>1, <2>1 DEF Upload
  <2>4. rec' = rec \/ rec' = "empty"
    BY <1>1, <1>4 DEF Create, Stops
  <2>5. TypeOK'
    BY <1>1, <1>3, <2>2, <2>4 DEF Assembly, TypeOK
  <2>6. SentOK' /\ CloseOK' /\ OwnOK'
    BY <2>2, <2>3, <2>4 DEF Assembly, SentOK, CloseOK, ClosedWhole, OwnOK, OrphanTakenBack, At
  <2> QED BY <1>2, <1>3, <2>2, <2>5, <2>6 DEF Assembly
<1>5. CASE /\ rec' = IF rec = "none" THEN "empty" ELSE rec
           /\ \E known \in {FALSE, up.p.hashed} :
                 up' = [up EXCEPT !.pc = IF known THEN "close" ELSE "open", !.known = known]
           /\ rec = "none" \/ up.p.exist
  <2>1. PICK known \in BOOLEAN :
           up' = [up EXCEPT !.pc = IF known THEN "close" ELSE "open", !.known = known]
    BY <1>1, <1>5 DEF Upload, Params
  <2>2. /\ up' \in Upload /\ up'.p = up.p /\ up'.pc = (IF known THEN "close" ELSE "open")
        /\ up'.out = up.out /\ up'.off = up.off
    BY <1>1, <2>1 DEF Upload, Phases
  <2>3. up'.known = known
    BY <1>1, <2>1 DEF Upload
  <2>4. rec' \notin {"none", "gone"}
    BY <1>5 DEF Assembly, OwnOK, OrphanTakenBack
  <2>5. TypeOK'
    BY <1>1, <1>3, <1>5, <2>2 DEF Assembly, TypeOK
  <2>6. SentOK'
    BY <1>1, <2>2 DEF SentOK
  <2>7. CloseOK' /\ OwnOK'
    BY <1>1, <1>5, <2>2, <2>3, <2>4 DEF Assembly, CloseOK, ClosedWhole, OwnOK, OrphanTakenBack, At
  <2> QED BY <1>2, <1>3, <2>2, <2>5, <2>6, <2>7 DEF Assembly
<1> QED BY <1>4, <1>5 DEF Create

LEMMA OpenKeeps == ASSUME Assembly, Open PROVE Assembly'
<1>1. /\ up \in Upload /\ up.pc = "open" /\ held = <<>> /\ late = {} /\ UNCHANGED <<rec, held, late>>
      /\ faults' \in 0 .. MaxFaults
  <2>1. up \in Upload /\ up.pc = "open" /\ UNCHANGED <<rec, held, late>>
    BY DEF Assembly, TypeOK, Open, At
  <2>2. faults' = faults \/ (faults < MaxFaults /\ faults' = faults + 1)
    BY DEF Open, Wrong
  <2> QED BY <2>1, <2>2 DEF Assembly, TypeOK, SentOK
<1>2. CASE Fails
  <2>1. SameUpload
    BY <1>2, FailedCall
  <2>2. HeldOK' /\ LateOK'
    BY <1>1, <2>1, HeldKeeps, LateKeeps
  <2>3. Wire(Chunks)' = Wire(Chunks)
    BY <2>1, SameSize DEF Wire
  <2> QED BY <1>1, <1>2, <2>2, <2>3, FailureKeeps DEF Assembly, TypeOK
<1>3. CASE \E packed \in BOOLEAN : up' = [up EXCEPT !.packed = packed, !.pc = "chunk", !.chunk = 1]
  <2>1. PICK packed \in BOOLEAN : up' = [up EXCEPT !.packed = packed, !.pc = "chunk", !.chunk = 1]
    BY <1>3
  <2>2. /\ up' \in Upload /\ up'.p = up.p /\ up'.pc = "chunk" /\ up'.chunk = 1 /\ up'.off = 0
        /\ up'.out = up.out
    <3>1. 1 \in 0 .. Chunks + 1
      OBVIOUS
    <3>2. up.off = 0
      BY <1>1 DEF Assembly, SentOK
    <3> QED BY <1>1, <2>1, <3>1, <3>2 DEF Upload, Phases
  <2>3. HeldOK' /\ Len(held') <= Len(Wire(Chunks))'
    BY <1>1, <2>2, NothingHeld
  <2>4. TypeOK' /\ LateOK'
    BY <1>1, <2>2, <2>3 DEF Assembly, TypeOK, LateOK
  <2>5. SentOK'
    <3>1. Size' \in Nat /\ up.p.length \in Nat
      BY ParamsOK DEF Size, Assembly
    <3>2. (1 - 1) * Size' = 0
      <4>1. PICK s \in Nat : s = Size'
        BY <3>1
      <4>2. (1 - 1) * s = 0
        OBVIOUS
      <4> QED BY <4>1, <4>2
    <3> QED BY <2>2, <3>1, <3>2 DEF SentOK
  <2>6. CloseOK' /\ OwnOK'
    BY <1>1, <2>2 DEF Assembly, CloseOK, ClosedWhole, OwnOK, OrphanTakenBack, At
  <2> QED BY <2>3, <2>4, <2>5, <2>6 DEF Assembly
<1> QED BY <1>2, <1>3, <1>1 DEF Open

-----------------------------------------------------------------------------
(* Sending the chunks.                                                      *)

\* What is on its way is the piece of the wire at its offset.
LEMMA RequestIsPiece ==
    ASSUME Assembly, Sending
    PROVE  PieceOf(Request.at, Request.cells, up.p.length) /\ Request.cells # <<>>
<1>1. /\ up.chunk \in 1 .. up.p.length /\ up.off = (up.chunk - 1) * Size
      /\ up.p.length \in Nat /\ up.p.length \in 0 .. Chunks
      /\ up.pc = "tail" => up.off < up.at /\ up.at < up.off + Size
      /\ up.off \in Nat /\ up.at \in Nat
  <2>1. up.p.length \in 0 .. Chunks /\ up \in Upload
    BY ParamsOK DEF Assembly, TypeOK
  <2>2. up.chunk \in 1 .. up.p.length + 1 /\ up.chunk <= up.p.length
    BY DEF Assembly, SentOK, Sending
  <2>3. up.off \in Nat /\ up.at \in Nat
    BY <2>1 DEF Upload
  <2> QED BY <2>1, <2>2, <2>3 DEF Assembly, SentOK, Sending
<1>2. /\ PieceOf(up.off, Payload(up.chunk), up.p.length) /\ Len(Payload(up.chunk)) = Size
  BY <1>1, PayloadIsPiece
<1>3. CASE up.pc = "tail"
  <2>1. Request.at = up.at /\ Request.cells = SubSeq(Payload(up.chunk), up.at - up.off + 1, Len(Payload(up.chunk)))
    BY <1>3 DEF Request, At, Rest, Advance
  <2> QED BY <1>1, <1>2, <1>3, <2>1, RestIsPiece
<1>4. CASE up.pc # "tail"
  <2>1. Request.at = up.off /\ Request.cells = Payload(up.chunk)
    BY <1>4 DEF Request, At
  <2>2. Len(Payload(up.chunk)) # 0
    BY <1>2, SizeIsPositive
  <2> QED BY <1>2, <2>1, <2>2
<1> QED BY <1>3, <1>4

\* The chunk is done, and wireOffset moves on by what was sent of it.
LEMMA AcceptedCall ==
    ASSUME Assembly, Sending, Accepted
    PROVE  SameUpload /\ SentOK' /\ up'.pc = "chunk" /\ up'.out = up.out
<1>1. /\ up \in Upload /\ up.p.length \in 0 .. Chunks /\ up.chunk \in 1 .. up.p.length
      /\ up.off = (up.chunk - 1) * Size
  <2>1. up.p.length \in 0 .. Chunks /\ up \in Upload
    BY ParamsOK DEF Assembly, TypeOK
  <2> QED BY <2>1 DEF Assembly, SentOK, Sending
<1>2. Advance(up.chunk) = Size /\ up.off + Size <= up.p.length * Size
  BY <1>1, PayloadIsPiece DEF Advance
<1>3. up.off + Size = ((up.chunk + 1) - 1) * Size
  <2>1. up.chunk - 1 \in 0 .. Chunks /\ Chunks \in Nat /\ Size \in Nat
    BY <1>1, SizeIsPositive
  <2>2. ((up.chunk - 1) + 1) * Size = (up.chunk - 1) * Size + Size
    BY <2>1, Products
  <2>3. (up.chunk - 1) + 1 = (up.chunk + 1) - 1
    BY <1>1
  <2> QED BY <1>1, <2>2, <2>3
<1>4. up.off + Size \in 0 .. Chunks * (Plain + Packed)
  <2>1. up.off \in Nat /\ up.off + Size \in Nat
    BY <1>1, SizeIsPositive DEF Upload
  <2> QED BY <1>1, <1>2, <2>1, WithinBound
<1>5. up.chunk + 1 \in 0 .. Chunks + 1 /\ up.chunk + 1 \in 1 .. up.p.length + 1
  BY <1>1
<1>6. up' = [up EXCEPT !.pc = "chunk", !.chunk = up.chunk + 1, !.off = up.off + Size]
  BY <1>1, <1>2 DEF Accepted, Upload
<1>7. /\ up' \in Upload /\ up'.p = up.p /\ up'.pc = "chunk" /\ up'.chunk = up.chunk + 1
      /\ up'.off = up.off + Size /\ up'.out = up.out
  BY <1>1, <1>4, <1>5, <1>6 DEF Upload, Phases
<1>8. up'.packed = up.packed /\ up'.known = up.known
  BY <1>1, <1>6 DEF Upload
<1>9. SameUpload /\ Size' = Size
  BY <1>7, <1>8 DEF SameUpload, Size
<1>10. SentOK'
  BY <1>3, <1>5, <1>7, <1>9 DEF SentOK
<1> QED BY <1>7, <1>9, <1>10

\* Sending goes on, with nothing failed.
LEMMA SendingKeeps ==
    ASSUME Assembly, up.pc \in {"chunk", "tail"}, SameUpload, SentOK', up'.pc \in {"chunk", "tail"},
           up'.out = up.out, UNCHANGED rec,
           HeldOK', LateOK', Len(held') <= Len(Wire(Chunks))', faults' \in 0 .. MaxFaults
    PROVE  Assembly'
<1>1. TypeOK'
  BY DEF Assembly, TypeOK, SameUpload
<1>2. CloseOK' /\ OwnOK'
  BY DEF Assembly, CloseOK, ClosedWhole, OwnOK, OrphanTakenBack, At, SameUpload
<1> QED BY <1>1, <1>2 DEF Assembly

LEMMA ExhaustedKeeps == ASSUME Assembly, Exhausted PROVE Assembly'
<1>1. /\ up \in Upload /\ up.pc = "chunk" /\ UNCHANGED <<rec, held, late, faults>>
      /\ faults' \in 0 .. MaxFaults
  BY DEF Assembly, TypeOK, Exhausted, At
<1>2. ASSUME SameUpload PROVE HeldOK' /\ LateOK' /\ Len(held') <= Len(Wire(Chunks))'
  <2>1. HeldOK' /\ LateOK'
    BY <1>1, <1>2, HeldKeeps, LateKeeps
  <2>2. Wire(Chunks)' = Wire(Chunks)
    BY <1>2, SameSize DEF Wire
  <2> QED BY <1>1, <2>1, <2>2 DEF Assembly, TypeOK
<1>3. CASE Fails
  BY <1>1, <1>2, <1>3, FailedCall, FailureKeeps
<1>4. CASE Goto("close") /\ ~(up.p.declared > 0 /\ up.p.length # up.p.declared)
  <2>1. up' = [up EXCEPT !.pc = "close"]
    BY <1>4 DEF Goto
  <2>2. up' \in Upload /\ up'.p = up.p /\ up'.pc = "close" /\ up'.out = up.out
    BY <1>1, <2>1 DEF Upload, Phases
  <2>3. up'.packed = up.packed /\ up'.known = up.known
    BY <1>1, <2>1 DEF Upload
  <2>4. HeldOK' /\ LateOK' /\ TypeOK'
    BY <1>1, <1>2, <2>2, <2>3 DEF SameUpload, Assembly, TypeOK
  <2>5. SentOK'
    BY <2>2 DEF SentOK
  <2>6. CloseOK' /\ OwnOK'
    BY <1>1, <1>4, <2>2, <2>3 DEF Assembly, CloseOK, ClosedWhole, OwnOK, OrphanTakenBack, At
  <2> QED BY <2>4, <2>5, <2>6 DEF Assembly
<1> QED BY <1>3, <1>4 DEF Exhausted

LEMMA ChunkTakenKeeps == ASSUME Assembly, ChunkTaken PROVE Assembly'
<1>1. /\ up.pc \in {"chunk", "tail"} /\ Sending /\ Continues(Request) /\ UNCHANGED <<rec, late>>
      /\ faults \in 0 .. MaxFaults
  BY DEF ChunkTaken, Sending, Assembly, TypeOK
<1>2. PieceOf(Request.at, Request.cells, up.p.length) /\ Len(Request.cells) \in Nat
  BY <1>1, RequestIsPiece DEF PieceOf
<1>3. CASE Keeps(Request, Len(Request.cells)) /\ Accepted /\ UNCHANGED faults
  <2>1. SameUpload /\ SentOK' /\ up'.pc = "chunk" /\ up'.out = up.out
    BY <1>1, <1>3, AcceptedCall
  <2>2. HeldOK' /\ Len(held') <= Len(Wire(Chunks))'
    <3>1. PICK k \in 0 .. Len(Request.cells) : Keeps(Request, k)
      BY <1>2, <1>3
    <3> QED BY <1>1, <1>2, <2>1, <3>1, KeptKeeps
  <2>3. LateOK'
    BY <1>1, <2>1, LateKeeps
  <2> QED BY <1>1, <1>3, <2>1, <2>2, <2>3, SendingKeeps
<1>4. CASE Wrong("part") /\ Fails /\ \E n \in 0 .. Len(Request.cells) - 1 : Keeps(Request, n)
  <2>1. SameUpload
    BY <1>4, FailedCall
  <2>2. HeldOK' /\ Len(held') <= Len(Wire(Chunks))'
    <3>1. PICK k \in 0 .. Len(Request.cells) : Keeps(Request, k)
      BY <1>2, <1>4
    <3> QED BY <1>1, <1>2, <2>1, <3>1, KeptKeeps
  <2>3. LateOK' /\ faults' \in 0 .. MaxFaults
    BY <1>1, <1>4, <2>1, LateKeeps DEF Wrong
  <2> QED BY <1>1, <1>4, <2>2, <2>3, FailureKeeps
<1> QED BY <1>3, <1>4 DEF ChunkTaken

LEMMA StillKeeps ==
    ASSUME Assembly, SameUpload, UNCHANGED <<held, late>>
    PROVE  HeldOK' /\ LateOK' /\ Len(held') <= Len(Wire(Chunks))'
<1>1. HeldOK' /\ LateOK'
  BY HeldKeeps, LateKeeps
<1>2. Wire(Chunks)' = Wire(Chunks)
  BY SameSize DEF Wire
<1> QED BY <1>1, <1>2 DEF Assembly, TypeOK

\* Upstream's offset inside the chunk: the rest of it is sent.
LEMMA TailKeeps ==
    ASSUME Assembly, Sending, up.pc = "chunk", UNCHANGED <<rec, held, late, faults>>,
           Len(held) > up.off, Len(held) < up.off + Advance(up.chunk),
           up' = [up EXCEPT !.pc = "tail", !.at = Len(held)]
    PROVE  Assembly'
<1>1. /\ up \in Upload /\ up.p.length \in 0 .. Chunks /\ up.chunk \in 1 .. up.p.length
      /\ up.off = (up.chunk - 1) * Size /\ up.chunk \in 1 .. up.p.length + 1
  <2>1. up.p.length \in 0 .. Chunks /\ up \in Upload
    BY ParamsOK DEF Assembly, TypeOK
  <2> QED BY <2>1 DEF Assembly, SentOK, Sending
<1>2. Advance(up.chunk) = Size
  BY <1>1, PayloadIsPiece DEF Advance
<1>3. Len(held) \in 0 .. Chunks * (Plain + Packed)
  <2>1. Len(held) \in Nat /\ Len(held) <= up.p.length * Size
    BY DEF Assembly, HeldOK, PieceOf
  <2> QED BY <1>1, <2>1, WithinBound
<1>4. /\ up' \in Upload /\ up'.p = up.p /\ up'.pc = "tail" /\ up'.chunk = up.chunk
      /\ up'.off = up.off /\ up'.at = Len(held) /\ up'.out = up.out
  BY <1>1, <1>3 DEF Upload, Phases
<1>5. up'.packed = up.packed /\ up'.known = up.known
  BY <1>1 DEF Upload
<1>6. SameUpload /\ Size' = Size
  BY <1>4, <1>5 DEF SameUpload, Size
<1>7. SentOK'
  BY <1>1, <1>2, <1>4, <1>6 DEF SentOK
<1>8. faults' \in 0 .. MaxFaults
  BY DEF Assembly, TypeOK
<1> QED BY <1>4, <1>6, <1>7, <1>8, StillKeeps, SendingKeeps

\* sendChunkResuming, whatever upstream's offset says.
LEMMA ChunkRefusedKeeps == ASSUME Assembly, ChunkRefused PROVE Assembly'
<1>1. /\ Sending /\ up.pc \in {"chunk", "tail"} /\ UNCHANGED <<rec, held, late, faults>>
      /\ faults' \in 0 .. MaxFaults
  BY DEF ChunkRefused, Sending, Assembly, TypeOK
<1>2. CASE Fails
  <2>1. SameUpload
    BY <1>2, FailedCall
  <2> QED BY <1>1, <1>2, <2>1, StillKeeps, FailureKeeps
<1>3. CASE Accepted
  <2>1. SameUpload /\ SentOK' /\ up'.pc = "chunk" /\ up'.out = up.out
    BY <1>1, <1>3, AcceptedCall
  <2> QED BY <1>1, <2>1, StillKeeps, SendingKeeps
<1>4. CASE /\ up.pc = "chunk" /\ Len(held) > up.off /\ ~(Len(held) >= up.off + Advance(up.chunk))
           /\ up' = [up EXCEPT !.pc = "tail", !.at = Len(held)]
  <2>1. Len(held) < up.off + Advance(up.chunk)
    <3>1. up.p.length \in Nat /\ up.chunk \in 1 .. up.p.length /\ up.off \in Nat
      BY <1>1, <1>4, ParamsOK DEF Assembly, SentOK, Sending, TypeOK, Upload
    <3>2. Advance(up.chunk) = Size
      BY <3>1, PayloadIsPiece DEF Advance
    <3>3. Len(held) \in Nat
      BY DEF Assembly, HeldOK, PieceOf
    <3> QED BY <1>4, <3>1, <3>2, <3>3, SizeIsPositive
  <2> QED BY <1>1, <1>4, <2>1, TailKeeps
<1>5. Fails \/ Accepted \/ (/\ up.pc = "chunk" /\ Len(held) > up.off
                            /\ ~(Len(held) >= up.off + Advance(up.chunk))
                            /\ up' = [up EXCEPT !.pc = "tail", !.at = Len(held)])
  BY <1>1 DEF ChunkRefused, Resume, At
<1> QED BY <1>2, <1>3, <1>4, <1>5

LEMMA ChunkFailsKeeps == ASSUME Assembly, ChunkFails PROVE Assembly'
<1>1. Fails /\ UNCHANGED <<rec, held, late>> /\ faults' \in 0 .. MaxFaults
  BY DEF ChunkFails, Wrong, Assembly, TypeOK
<1>2. SameUpload
  BY <1>1, FailedCall
<1> QED BY <1>1, <1>2, StillKeeps, FailureKeeps

LEMMA ChunkLostKeeps == ASSUME Assembly, ChunkLost PROVE Assembly'
<1>1. /\ Sending /\ up.pc \in {"chunk", "tail"} /\ UNCHANGED rec /\ faults' \in 0 .. MaxFaults
      /\ up \in Upload
  BY DEF ChunkLost, Sending, Wrong, Assembly, TypeOK
<1>2. PieceOf(Request.at, Request.cells, up.p.length) /\ Request.cells # <<>>
  BY <1>1, RequestIsPiece
<1>3. UNCHANGED up \/ Fails
  BY DEF ChunkLost
<1>4. SameUpload
  BY <1>1, <1>3, FailedCall DEF SameUpload
<1>5. HeldOK' /\ LateOK' /\ Len(held') <= Len(Wire(Chunks))'
  <2>1. CASE \E n \in 0 .. Len(Request.cells) : Continues(Request) /\ Keeps(Request, n) /\ UNCHANGED late
    <3>1. PICK k \in 0 .. Len(Request.cells) : Continues(Request) /\ Keeps(Request, k)
      BY <2>1
    <3>2. HeldOK' /\ Len(held') <= Len(Wire(Chunks))'
      BY <1>2, <1>4, <3>1, KeptKeeps
    <3>3. LateOK'
      BY <1>4, <2>1, LateKeeps
    <3> QED BY <3>2, <3>3
  <2>2. CASE late' = late \cup {Request} /\ UNCHANGED held
    <3>1. \A req \in late' \ late : req = Request
      BY <2>2
    <3>2. LateOK'
      BY <1>2, <1>4, <3>1, LateKeeps
    <3>3. HeldOK' /\ Wire(Chunks)' = Wire(Chunks)
      BY <1>4, <2>2, HeldKeeps, SameSize DEF Wire
    <3> QED BY <2>2, <3>2, <3>3 DEF Assembly, TypeOK
  <2>3. CASE UNCHANGED <<held, late>>
    BY <1>4, <2>3, StillKeeps
  <2> QED BY <2>1, <2>2, <2>3 DEF ChunkLost
<1>6. CASE Fails
  BY <1>1, <1>5, <1>6, FailureKeeps
<1>7. CASE UNCHANGED up
  <2>1. SentOK'
    <3>1. Size' = Size
      BY <1>7 DEF Size
    <3> QED BY <1>1, <1>7, <3>1 DEF Assembly, SentOK
  <2> QED BY <1>1, <1>4, <1>5, <1>7, <2>1, SendingKeeps
<1> QED BY <1>3, <1>6, <1>7

-----------------------------------------------------------------------------
(* Closing, and taking back.                                                *)

\* What upstream makes of the record: never other content than the source's.
LEMMA ClosedWell ==
    ASSUME Assembly, up.p.declared > 0 => up.known \/ Len(held) = up.p.length * Size
    PROVE  /\ Closed = rec \/ Closed = "whole" \/ (Closed = "broken" /\ up.p.declared = 0)
           /\ rec \notin {"none", "gone"} => Closed \in {"whole", "broken"}
<1>1. up.p.length \in Nat /\ up.p.declared \in Nat
  BY ParamsOK DEF Assembly
<1>2. Len(held) = up.p.length * Size => held = Wire(up.p.length)
  <2>1. /\ held \in Seq(Nat) /\ \A i \in 1 .. Len(held) : held[i] = i
    BY DEF Assembly, HeldOK, PieceOf
  <2>2. held = [i \in 1 .. Len(held) |-> i]
    BY <2>1
  <2> QED BY <2>2 DEF Wire
<1>3. up.p.declared > 0 => up.known \/ held = Wire(up.p.length)
  BY <1>2
<1>4. rec \in {"none", "empty", "old", "whole", "broken", "gone"}
  BY DEF Assembly, TypeOK
<1> QED BY <1>1, <1>3, <1>4 DEF Closed

LEMMA CloseKeeps == ASSUME Assembly, Close PROVE Assembly'
<1>1. /\ up \in Upload /\ up.pc = "close" /\ UNCHANGED held /\ faults \in 0 .. MaxFaults
      /\ rec \notin {"none", "gone"}
  BY DEF Assembly, TypeOK, Close, At, CloseOK
<1>2. Closable => (up.p.declared > 0 => up.known \/ Len(held) = up.p.length * Size)
  <2>1. up.p.declared \in Nat /\ Len(Wire(up.p.declared)) = up.p.declared * Size
    <3>1. up.p.declared \in Nat
      BY ParamsOK DEF Assembly
    <3> QED BY <3>1, WireIsSeq
  <2> QED BY <1>1, <2>1 DEF Closable, Assembly, CloseOK
<1>3. Closable => /\ Closed = rec \/ Closed = "whole" \/ (Closed = "broken" /\ up.p.declared = 0)
                  /\ Closed \in {"whole", "broken"}
  BY <1>1, <1>2, ClosedWell
<1>4. CASE /\ Closable /\ rec' = Closed /\ up' = [up EXCEPT !.pc = "ended", !.out = "ok"]
           /\ UNCHANGED <<faults, late>>
  <2>1. up' \in Upload /\ up'.p = up.p /\ up'.pc = "ended" /\ up'.out = "ok"
    BY <1>1, <1>4 DEF Upload, Phases
  <2>2. up'.packed = up.packed /\ up'.known = up.known
    BY <1>1, <1>4 DEF Upload
  <2>3. SameUpload
    BY <2>1, <2>2 DEF SameUpload
  <2>4. HeldOK' /\ LateOK' /\ Len(held') <= Len(Wire(Chunks))'
    BY <1>1, <1>4, <2>3, StillKeeps
  <2>5. TypeOK' /\ SentOK'
    BY <1>1, <1>3, <1>4, <2>1, <2>4 DEF TypeOK, SentOK
  <2>6. CloseOK'
    <3>1. up.p.declared = 0 => ~(up.p.declared > 0)
      OBVIOUS
    <3> QED BY <1>3, <1>4, <2>1, <3>1 DEF Assembly, CloseOK, ClosedWhole
  <2>7. OwnOK'
    BY <1>3, <1>4, <2>1 DEF OwnOK, OrphanTakenBack, At
  <2> QED BY <2>4, <2>5, <2>6, <2>7 DEF Assembly
<1>5. ASSUME Fails, faults' \in 0 .. MaxFaults,
             late' = late \/ (Closable /\ late' = late \cup {[at |-> Len(held), cells |-> <<>>]}),
             rec' = rec \/ (Closable /\ rec' = Closed)
      PROVE  Assembly'
  <2>1. SameUpload
    BY <1>5, FailedCall
  <2>2. HeldOK' /\ Len(held') <= Len(Wire(Chunks))'
    <3>1. Wire(Chunks)' = Wire(Chunks)
      BY <2>1, SameSize DEF Wire
    <3> QED BY <1>1, <2>1, <3>1, HeldKeeps DEF Assembly, TypeOK
  <2>3. ASSUME NEW req \in late' \ late
        PROVE  /\ PieceOf(req.at, req.cells, up.p.length)
               /\ req.cells = <<>> /\ up.p.declared > 0 => up.known \/ req.at = up.p.length * Size
    <3>1. req.at = Len(held) /\ req.cells = <<>> /\ Closable
      BY <1>5, <2>3
    <3>2. /\ Len(held) \in Nat /\ Len(held) + 0 <= up.p.length * Size
      BY DEF Assembly, HeldOK, PieceOf
    <3> QED BY <1>2, <3>1, <3>2 DEF PieceOf
  <2>4. LateOK'
    BY <2>1, <2>3, LateKeeps
  <2> QED BY <1>3, <1>5, <2>2, <2>4, FailureKeeps
<1> QED BY <1>1, <1>4, <1>5 DEF Close, Wrong, Unanswered

LEMMA ReclaimKeeps == ASSUME Assembly, Reclaim PROVE Assembly'
<1>1. /\ up \in Upload /\ up.pc = "reclaim" /\ up.out = "error" /\ Owns(up.p)
      /\ UNCHANGED <<held, late>> /\ faults' \in 0 .. MaxFaults
      /\ rec' = "gone" \/ rec' = rec
  BY DEF Assembly, TypeOK, Reclaim, At, OwnOK, Wrong
<1>2. \/ rec' = "gone" /\ up' = [up EXCEPT !.pc = "ended"]
      \/ up' = [up EXCEPT !.pc = "ended", !.unnamed = TRUE]
  BY DEF Reclaim, Goto
<1>3. up' \in Upload /\ up'.p = up.p /\ up'.pc = "ended" /\ up'.out = "error"
  BY <1>1, <1>2 DEF Upload, Phases
<1>4. up'.packed = up.packed /\ up'.known = up.known /\ (rec' # "gone" => up'.unnamed)
  BY <1>1, <1>2 DEF Upload
<1>5. HeldOK' /\ LateOK' /\ Len(held') <= Len(Wire(Chunks))'
  BY <1>1, <1>3, <1>4, StillKeeps DEF SameUpload
<1>6. TypeOK' /\ SentOK'
  BY <1>1, <1>3, <1>5 DEF Assembly, TypeOK, SentOK
<1>7. CloseOK' /\ OwnOK'
  BY <1>1, <1>3, <1>4 DEF Assembly, CloseOK, ClosedWhole, OwnOK, OrphanTakenBack, At, Owns
<1> QED BY <1>5, <1>6, <1>7 DEF Assembly

-----------------------------------------------------------------------------
(* Upstream on its own.                                                     *)

LEMMA ActLateKeeps == ASSUME Assembly, ActLate PROVE Assembly'
<1>1. PICK req \in late :
        /\ late' = late \ {req}
        /\ IF Assembling /\ Continues(req)
           THEN IF req.cells = <<>> THEN rec' = Closed /\ UNCHANGED held
                ELSE UNCHANGED rec /\ \E n \in 1 .. Len(req.cells) : Keeps(req, n)
           ELSE UNCHANGED <<rec, held>>
        /\ UNCHANGED <<up, faults>>
  BY DEF ActLate
<1>2. /\ PieceOf(req.at, req.cells, up.p.length)
      /\ req.cells = <<>> /\ up.p.declared > 0 => up.known \/ req.at = up.p.length * Size
  BY DEF Assembly, LateOK
<1>3. SameUpload /\ Size' = Size /\ up' = up
  BY <1>1 DEF Assembly, TypeOK, SameUpload, Size
<1>4. LateOK'
  BY <1>1, <1>3, LateKeeps
<1>5. \/ UNCHANGED <<rec, held>>
      \/ Assembling /\ Continues(req) /\ req.cells = <<>> /\ rec' = Closed /\ UNCHANGED held
      \/ UNCHANGED rec /\ Continues(req) /\ \E n \in 1 .. Len(req.cells) : Keeps(req, n)
  BY <1>1
<1>6. HeldOK' /\ Len(held') <= Len(Wire(Chunks))'
  <2>1. CASE UNCHANGED held
    <3>1. Wire(Chunks)' = Wire(Chunks)
      BY <1>3 DEF Wire
    <3> QED BY <1>3, <2>1, <3>1, HeldKeeps DEF Assembly, TypeOK
  <2>2. CASE Continues(req) /\ \E n \in 1 .. Len(req.cells) : Keeps(req, n)
    <3>1. PICK k \in 0 .. Len(req.cells) : Keeps(req, k)
      BY <2>2
    <3> QED BY <1>2, <1>3, <2>2, <3>1, KeptKeeps
  <2> QED BY <1>5, <2>1, <2>2
<1>7. up.pc \in {"create", "open"} => late = {}
  BY DEF Assembly, SentOK
<1>8. SentOK'
  BY <1>1, <1>3, <1>7 DEF Assembly, SentOK
<1>9. \/ rec' = rec
      \/ /\ rec \in {"empty", "old"} /\ rec' \in {"whole", "broken"}
         /\ rec' = "broken" => up.p.declared = 0
  <2>1. CASE Assembling /\ Continues(req) /\ req.cells = <<>> /\ rec' = Closed
    <3>1. up.p.declared > 0 => up.known \/ Len(held) = up.p.length * Size
      BY <1>2, <2>1 DEF Continues
    <3> QED BY <2>1, <3>1, ClosedWell DEF Assembling
  <2> QED BY <1>5, <2>1
<1>10. TypeOK'
  BY <1>1, <1>3, <1>6, <1>9 DEF Assembly, TypeOK
<1>11. CloseOK' /\ OwnOK'
  <2>1. up.p.declared = 0 => ~(up.p.declared > 0)
    OBVIOUS
  <2> QED BY <1>3, <1>9, <2>1 DEF Assembly, CloseOK, ClosedWhole, OwnOK, OrphanTakenBack, At
<1> QED BY <1>4, <1>6, <1>8, <1>10, <1>11 DEF Assembly

LEMMA ForgetKeeps == ASSUME Assembly, Forget PROVE Assembly'
<1>1. held' = <<>> /\ UNCHANGED <<up, rec, late>> /\ faults' \in 0 .. MaxFaults
  BY DEF Forget, Wrong, Assembly, TypeOK
<1>2. SameUpload /\ Size' = Size
  BY <1>1 DEF Assembly, TypeOK, SameUpload, Size
<1>3. HeldOK' /\ Len(held') <= Len(Wire(Chunks))'
  BY <1>1, <1>2, NothingHeld DEF SameUpload
<1>4. LateOK'
  BY <1>1, <1>2, LateKeeps
<1>5. TypeOK' /\ SentOK'
  BY <1>1, <1>2, <1>3 DEF Assembly, TypeOK, SentOK
<1>6. CloseOK' /\ OwnOK'
  BY <1>1 DEF Assembly, CloseOK, ClosedWhole, OwnOK, OrphanTakenBack, At
<1> QED BY <1>3, <1>4, <1>5, <1>6 DEF Assembly

-----------------------------------------------------------------------------
(* Every state of an upload is sound.                                       *)

LEMMA InitAssembly == Init => Assembly
<1> SUFFICES ASSUME Init PROVE Assembly
  OBVIOUS
<1>1. PICK p \in Params :
        up = [p |-> p, pc |-> "create", known |-> FALSE, packed |-> FALSE, unnamed |-> FALSE,
              chunk |-> 0, off |-> 0, at |-> 0, out |-> "none"]
  BY DEF Init
<1>2. /\ up \in Upload /\ up.p \in Params /\ up.pc = "create" /\ up.off = 0 /\ up.out = "none"
  <2>1. 0 \in 0 .. Chunks * (Plain + Packed) /\ 0 \in 0 .. Chunks + 1
    <3>1. Chunks * (Plain + Packed) \in Nat
      OBVIOUS
    <3> QED BY <3>1
  <2> QED BY <1>1, <2>1 DEF Upload, Phases
<1>3. /\ rec \in {"none", "old"} /\ held = <<>> /\ late = {} /\ faults = 0
  BY DEF Init
<1>4. Len(Wire(Chunks)) \in Nat
  BY WireIsSeq, SizeIsPositive
<1>5. TypeOK
  BY <1>2, <1>3, <1>4 DEF TypeOK
<1>6. up.p.length * Size \in Nat
  BY <1>5, ParamsOK, SizeIsPositive
<1>7. HeldOK /\ LateOK /\ SentOK
  BY <1>2, <1>3, <1>6 DEF HeldOK, PieceOf, LateOK, SentOK
<1>8. CloseOK /\ OwnOK
  BY <1>2, <1>3 DEF CloseOK, ClosedWhole, OwnOK, OrphanTakenBack, At
<1> QED BY <1>5, <1>7, <1>8 DEF Assembly

LEMMA NextAssembly == Assembly /\ [Next]_vars => Assembly'
<1> SUFFICES ASSUME Assembly, [Next]_vars PROVE Assembly'
  OBVIOUS
<1>1. CASE Create
  BY <1>1, CreateKeeps
<1>2. CASE Open
  BY <1>2, OpenKeeps
<1>3. CASE Exhausted
  BY <1>3, ExhaustedKeeps
<1>4. CASE ChunkTaken
  BY <1>4, ChunkTakenKeeps
<1>5. CASE ChunkRefused
  BY <1>5, ChunkRefusedKeeps
<1>6. CASE ChunkFails
  BY <1>6, ChunkFailsKeeps
<1>7. CASE ChunkLost
  BY <1>7, ChunkLostKeeps
<1>8. CASE Close
  BY <1>8, CloseKeeps
<1>9. CASE Reclaim
  BY <1>9, ReclaimKeeps
<1>10. CASE ActLate
  BY <1>10, ActLateKeeps
<1>11. CASE Forget
  BY <1>11, ForgetKeeps
<1>12. CASE UNCHANGED vars
  BY <1>12 DEF vars, Assembly, TypeOK, HeldOK, SentOK, LateOK, PieceOf, CloseOK, ClosedWhole, OwnOK,
               OrphanTakenBack, At, Size, Wire
<1> QED BY <1>1, <1>2, <1>3, <1>4, <1>5, <1>6, <1>7, <1>8, <1>9, <1>10, <1>11, <1>12 DEF Next, Step

\* What is held, and every request that may still be acted on, is the piece of the wire at
\* its offset, and a close is sent only for a record that is there (sendChunks, closeFile).
THEOREM AssemblyHolds == Spec => []Assembly
BY InitAssembly, NextAssembly, PTL DEF Spec

\* The variables of Uploads keep their types.
THEOREM TypesHold == Spec => []TypeOK
<1>1. Assembly => TypeOK
  BY DEF Assembly
<1> QED BY <1>1, AssemblyHolds, PTL

\* Whatever is lost, kept in part, sent again or acted on late, what upstream has
\* assembled is the beginning of what was to be sent (sendChunkResuming).
THEOREM InOrder == Spec => []AssembledInOrder
<1>1. ASSUME Assembly PROVE AssembledInOrder
  <2>1. /\ held \in Seq(Nat) /\ Len(held) <= up.p.length * Size /\ Len(held) \in Nat
        /\ \A i \in 1 .. Len(held) : held[i] = i
    BY <1>1 DEF Assembly, HeldOK, PieceOf
  <2>2. up.p.length \in Nat /\ up.p.length * Size \in Nat
    BY <1>1, ParamsOK, SizeIsPositive DEF Assembly
  <2> DEFINE w == Wire(up.p.length)
  <2>3. /\ w \in Seq(Nat) /\ Len(w) = up.p.length * Size
        /\ \A i \in 1 .. up.p.length * Size : w[i] = i
    BY <2>2, WireIsSeq
  <2> HIDE DEF w
  <2>4. /\ SubSeq(held, 1, Len(held)) = [i \in 1 .. Len(held) |-> held[i]]
        /\ SubSeq(w, 1, Len(held)) = [i \in 1 .. Len(held) |-> w[i]]
    BY <2>1, <2>2, <2>3
  <2>5. \A i \in 1 .. Len(held) : held[i] = w[i]
    BY <2>1, <2>2, <2>3
  <2>6. IsPrefix(held, w)
    BY <2>1, <2>3, <2>4, <2>5 DEF IsPrefix
  <2> QED BY <2>6 DEF AssembledInOrder, w
<1> QED BY <1>1, AssemblyHolds, PTL

\* An upload that reports success has closed a whole file, and no file is closed with other
\* content than its source's, as far as the source was measured (transfer, closeFile).
THEOREM WholeWhenClosed == Spec => []ClosedWhole
<1>1. Assembly => ClosedWhole
  BY DEF Assembly, CloseOK
<1> QED BY <1>1, AssemblyHolds, PTL

\* After a failure the record Upload made is gone, unless it was to be kept or could not be
\* named or deleted; a file that was there before never goes (reclaimOrphan).
THEOREM OrphanGoes == Spec => []OrphanTakenBack
<1>1. Assembly => OrphanTakenBack
  BY DEF Assembly, OwnOK
<1> QED BY <1>1, AssemblyHolds, PTL
=============================================================================
