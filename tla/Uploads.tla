------------------------------ MODULE Uploads ------------------------------
(***************************************************************************)
(* One chunked upload, UploadService.Upload (upload.go): create the        *)
(* record, open it, send the chunks, close it, and take the record back    *)
(* when that failed; and the upstream that assembles the chunks.           *)
(*                                                                         *)
(* The wire is the concatenation of the payloads, compressed or not; a     *)
(* cell of a payload is named by its place on the wire.  Upstream takes a  *)
(* chunk at the offset it has reached and refuses any other with that      *)
(* offset; it may keep a part of one, lose its answer, or act on one       *)
(* nobody waits for.                                                       *)
(***************************************************************************)
EXTENDS Integers, SequencesExt

CONSTANTS
    Chunks,         \* bound on the chunks of an upload
    Plain, Packed,  \* the cells of a payload, as it is and compressed
    MaxFaults,      \* bound on what goes wrong
    Faults          \* what may, see AssumeFaults

ASSUME AssumeSizes  == {Chunks, Plain, Packed} \subseteq Nat \ {0} /\ MaxFaults \in Nat
\* "lost": a request or its answer; "late": a lost request is acted on later;
\* "part": a chunk is kept in part; "forget": upstream loses the temporary file;
\* "source": the source is not as long as declared; "refuse": upstream refuses.
ASSUME AssumeFaults == Faults \subseteq {"lost", "late", "part", "forget", "source", "refuse"}

VARIABLES
    up,     \* the upload: its parameters and Upload's locals
    rec,    \* the upstream record: none, empty, old, whole, broken or gone
    held,   \* what upstream has assembled, a sequence of cells
    late,   \* requests upstream may still act on
    faults

vars == <<up, rec, held, late, faults>>

Phases == {"create", "open", "chunk", "tail", "close", "reclaim", "ended"}

Size       == IF up.packed THEN Packed ELSE Plain
Payload(c) == [i \in 1 .. Size |-> (c - 1) * Size + i]
\* The payloads of the first n chunks, one after the other.
Wire(n)    == [i \in 1 .. n * Size |-> i]

\* An upload that may replace a file (open_if_exists) or must not; that knows the
\* digest beforehand; that leaves its record to the caller on failure.
Params == [exist : BOOLEAN, hashed : BOOLEAN, keep : BOOLEAN,
           declared : 0 .. Chunks, length : 0 .. Chunks]

\* Upload's locals: the chunk to send, wireOffset, and for the tail of a chunk where
\* that begins; known: upstream had the content, unnamed: no record to delete is known.
Upload == [p : Params, pc : Phases, known : BOOLEAN, packed : BOOLEAN, unnamed : BOOLEAN,
           chunk : 0 .. Chunks + 1, off : 0 .. Chunks * (Plain + Packed),
           at : 0 .. Chunks * (Plain + Packed), out : {"none", "ok", "error"}]

TypeOK ==
    /\ up \in Upload
    /\ rec \in {"none", "empty", "old", "whole", "broken", "gone"}
    /\ Len(held) <= Len(Wire(Chunks))
    /\ faults \in 0 .. MaxFaults

-----------------------------------------------------------------------------
Goto(label)   == up' = [up EXCEPT !.pc = label]
At(label)     == up.pc = label
Wrong(kind)   == kind \in Faults /\ faults < MaxFaults /\ faults' = faults + 1

\* Mutant: whatever failed is deleted, also a file that was there before.
OwnsAll(p)    == ~p.keep
\* reclaimOrphan leaves a record alone that is to be resumed or may not be ours.
Owns(p)       == ~p.keep /\ ~p.exist

Fails == up' = [up EXCEPT !.pc = IF Owns(up.p) THEN "reclaim" ELSE "ended", !.out = "error"]
\* No record is known: nothing is taken back.
Stops == up' = [up EXCEPT !.pc = "ended", !.out = "error", !.unnamed = TRUE]

\* createFile.  The name may be taken.
Create ==
    /\ At("create")
    /\ \/ /\ rec = "none" \/ up.p.exist
          /\ rec' = IF rec = "none" THEN "empty" ELSE rec
          /\ \E known \in {FALSE, up.p.hashed} :
                up' = [up EXCEPT !.pc = IF known THEN "close" ELSE "open", !.known = known]
          /\ UNCHANGED faults
       \/ rec = "old" /\ ~up.p.exist /\ Stops /\ UNCHANGED <<rec, faults>>
       \/ Wrong("refuse") /\ Stops /\ UNCHANGED rec
       \/ Wrong("lost") /\ Stops /\ rec' \in {rec, IF rec = "none" THEN "empty" ELSE rec}
    /\ UNCHANGED <<held, late>>

\* openFile and the first read of the source.
Open ==
    /\ At("open")
    /\ \/ /\ \E packed \in BOOLEAN : up' = [up EXCEPT !.packed = packed, !.pc = "chunk", !.chunk = 1]
          /\ UNCHANGED faults
       \/ (Wrong("refuse") \/ Wrong("lost")) /\ Fails
    /\ UNCHANGED <<rec, held, late>>

\* Mutant: the offset counts the bytes read.
AdvanceRead(c) == Plain
\* wireOffset: what a chunk adds to it.
Advance(c) == Len(Payload(c))

Accepted == up' = [up EXCEPT !.pc = "chunk", !.chunk = @ + 1, !.off = @ + Advance(up.chunk)]

\* The end of sendChunks: the source has ended, where it should have or not.
Exhausted ==
    /\ At("chunk") /\ up.chunk > up.p.length
    /\ IF up.p.declared > 0 /\ up.p.length # up.p.declared THEN Fails ELSE Goto("close")
    /\ UNCHANGED <<rec, held, late, faults>>

\* Mutant: the whole chunk is sent again.
RestWhole == Payload(up.chunk)
\* The request on its way: the chunk, or the tail of it upstream has not got.
Rest      == SubSeq(Payload(up.chunk), up.at - up.off + 1, Advance(up.chunk))
Request ==
    IF At("tail") THEN [at |-> up.at, cells |-> Rest]
    ELSE [at |-> up.off, cells |-> Payload(up.chunk)]
Sending == up.pc \in {"chunk", "tail"} /\ up.chunk <= up.p.length

Continues(req) == req.at = Len(held)
Keeps(req, n)  == held' = held \o SubSeq(req.cells, 1, n)

\* A chunk is accepted, in full or in part, and the answer says how much was.
ChunkTaken ==
    /\ Sending /\ Continues(Request)
    /\ \/ Keeps(Request, Len(Request.cells)) /\ Accepted /\ UNCHANGED faults
       \/ /\ Wrong("part") /\ Fails
          /\ \E n \in 0 .. Len(Request.cells) - 1 : Keeps(Request, n)
    /\ UNCHANGED <<rec, late>>

\* Mutant: a chunk that is there already is sent again.
ResumeAgain(reached) ==
    IF reached > up.off /\ reached < up.off + Advance(up.chunk)
    THEN up' = [up EXCEPT !.pc = "tail", !.at = reached] ELSE UNCHANGED up
\* sendChunkResuming: what upstream's offset says of this chunk.
Resume(reached) ==
    IF reached >= up.off + Advance(up.chunk) THEN Accepted
    ELSE IF reached > up.off THEN up' = [up EXCEPT !.pc = "tail", !.at = reached]
    ELSE Fails

ChunkRefused ==
    /\ Sending /\ ~Continues(Request)
    /\ IF At("tail") THEN Fails ELSE Resume(Len(held))
    /\ UNCHANGED <<rec, held, late, faults>>

ChunkFails == Sending /\ Wrong("refuse") /\ Fails /\ UNCHANGED <<rec, held, late>>

\* No answer: upstream has acted on all of the request, on part, not at all, or will
\* later; Do sends it again, or has done so often enough, or was cancelled.
ChunkLost ==
    /\ Sending /\ Wrong("lost")
    /\ \/ /\ Continues(Request) /\ \E n \in 0 .. Len(Request.cells) : Keeps(Request, n)
          /\ UNCHANGED late
       \/ "late" \in Faults /\ late' = late \cup {Request} /\ UNCHANGED held
       \/ ~Continues(Request) /\ UNCHANGED <<held, late>>
    /\ UNCHANGED up \/ Fails
    /\ UNCHANGED rec

\* closeFile.  Upstream compares the size; without a temporary file it takes the
\* content it has by its digest.
Closable == up.known \/ Len(held) = Len(Wire(up.p.declared))
Closed   == IF rec \notin {"empty", "old"} THEN rec
            ELSE IF up.known \/ held = Wire(up.p.length) THEN "whole" ELSE "broken"

\* Mutant: all was sent, so a lost answer is taken for a good one.
UnansweredIsDone == up' = [up EXCEPT !.pc = "ended", !.out = "ok"]
\* A close without an answer may have been acted on; it is a failure all the same.
Unanswered == Fails

Close ==
    /\ At("close")
    /\ \/ Closable /\ rec' = Closed /\ up' = [up EXCEPT !.pc = "ended", !.out = "ok"]
          /\ UNCHANGED <<faults, late>>
       \/ ~Closable /\ Fails /\ UNCHANGED <<rec, faults, late>>
       \/ Wrong("refuse") /\ Fails /\ UNCHANGED <<rec, late>>
       \/ /\ Wrong("lost") /\ Unanswered
          /\ \/ rec' = (IF Closable THEN Closed ELSE rec) /\ UNCHANGED late
             \/ /\ "late" \in Faults /\ Closable /\ UNCHANGED rec
                /\ late' = late \cup {[at |-> Len(held), cells |-> <<>>]}
    /\ UNCHANGED held

\* Reclaim deletes the record, with a context the caller cannot cancel.
Reclaim ==
    /\ At("reclaim")
    /\ \/ rec' = "gone" /\ Goto("ended") /\ UNCHANGED faults
       \/ /\ Wrong("refuse") \/ Wrong("lost")
          /\ up' = [up EXCEPT !.pc = "ended", !.unnamed = TRUE]
          /\ rec' \in {rec, "gone"}
    /\ UNCHANGED <<held, late>>

-----------------------------------------------------------------------------
(* Upstream, on its own.  The temporary file goes when the record is closed. *)

Assembling == rec \in {"empty", "old"}

ActLate == \E req \in late :
    /\ late' = late \ {req}
    /\ IF Assembling /\ Continues(req)
       THEN IF req.cells = <<>> THEN rec' = Closed /\ UNCHANGED held
            ELSE UNCHANGED rec /\ \E n \in 1 .. Len(req.cells) : Keeps(req, n)
       ELSE UNCHANGED <<rec, held>>
    /\ UNCHANGED <<up, faults>>

Forget ==
    /\ Assembling /\ held # <<>> /\ Wrong("forget")
    /\ held' = <<>>
    /\ UNCHANGED <<up, rec, late>>

Init ==
    /\ \E p \in Params :
          /\ p.length # p.declared => "source" \in Faults
          /\ up = [p |-> p, pc |-> "create", known |-> FALSE, packed |-> FALSE, unnamed |-> FALSE,
                   chunk |-> 0, off |-> 0, at |-> 0, out |-> "none"]
    /\ rec \in {"none", "old"}
    /\ held = <<>> /\ late = {} /\ faults = 0

Step ==
    \/ Create \/ Open \/ Exhausted \/ ChunkTaken \/ ChunkRefused \/ ChunkFails \/ ChunkLost
    \/ Close \/ Reclaim
Next == Step \/ ActLate \/ Forget

Spec     == Init /\ [][Next]_vars
FairSpec == Spec /\ WF_vars(Step)

-----------------------------------------------------------------------------
(* Correctness.                                                             *)

\* Whatever is lost, kept in part, sent again or acted on late: what upstream has
\* assembled is always the beginning of what was to be sent (sendChunkResuming).
AssembledInOrder == IsPrefix(held, Wire(up.p.length))

\* An upload that reports success has closed a whole file, and no file is ever
\* closed with other content than its source's (transfer).  A source declared empty
\* is not measured: should it have grown, and upstream lost it, an empty file stays.
ClosedWhole == (up.p.declared > 0 => rec # "broken") /\ (up.out = "ok" => rec \in {"whole", "broken"})

\* After a failure the record Upload made is gone, unless it was to be kept, could
\* not be named, or could not be deleted; a file that was there before never goes
\* (reclaimOrphan).
OrphanTakenBack ==
    /\ (At("ended") /\ up.out = "error" /\ ~up.p.keep /\ ~up.p.exist /\ ~up.unnamed) => rec = "gone"
    /\ up.p.exist => rec # "gone"

\* Upload returns: no answer of upstream's makes it send for ever.
UploadEnds == <>At("ended")
=============================================================================
