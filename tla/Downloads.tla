----------------------------- MODULE Downloads -----------------------------
(***************************************************************************)
(* Downloading one file: DownloadFile onto a local path, resumed from what *)
(* is already there; the streamed answers of the REST server, which may    *)
(* fill the data cache on the way; and a job's copy out of that cache.     *)
(*                                                                         *)
(* Content is a sequence of cells, <<version, position>>: one cell is the  *)
(* server's first buffer (transfers.go:269), or whatever else is read at   *)
(* once.  The file may be replaced upstream at any time, by a longer or a  *)
(* shorter one.                                                            *)
(***************************************************************************)
EXTENDS Integers, Sequences

CONSTANTS
    Readers,    \* callers; file downloads all have the same local path
    Kinds,      \* what each of them may ask for, see AssumeKinds
    Versions,   \* how often the file is replaced upstream, and one
    LengthOf,   \* the length of each version
    Length,     \* that of the longest
    MaxCalls,   \* bound on the calls of each reader
    Faults      \* what upstream may do, see AssumeFaults

ASSUME AssumeKinds  == Kinds \subseteq {"file", "stream", "archive"}
ASSUME AssumeSizes  ==
    /\ Length \in Nat \ {0} /\ Versions \in Nat \ {0} /\ MaxCalls \in Nat
    /\ LengthOf \in [1 .. Versions -> 1 .. Length]
\* "break": the connection is lost; "whole": a Range header is ignored; "short":
\* a body ends early with no error; "change": the file is replaced; "disk": the
\* cache cannot be written.
ASSUME AssumeFaults == Faults \subseteq {"break", "whole", "short", "change", "disk"}

VARIABLES
    remote,     \* the version upstream holds
    local,      \* the cells at the local path
    cached,     \* the object the last fill committed
    rd          \* the readers

vars == <<remote, local, cached, rd>>

Unknown    == -1
Part(v, n) == [i \in 1 .. n |-> <<v, i>>]
Content(v) == Part(v, LengthOf[v])
NoObject   == [src |-> 0, cells |-> 0, total |-> 0]

\* linked: the local path names the file this call has written to.
Idle == [pc |-> "idle", kind |-> "file", hash |-> 0, offset |-> 0, resumed |-> FALSE,
         src |-> 0, total |-> Unknown, pos |-> 0, wrote |-> 0, short |-> FALSE, kept |-> TRUE,
         linked |-> TRUE, out |-> "none", calls |-> 0]

\* A reader: where it is, what it asked for, what upstream answered, how far it has
\* come, and the result of its last call.
Reader ==
    [pc : {"idle", "hit", "ask", "skip", "copy"}, kind : Kinds \cup {"file"},
     hash : 0 .. Versions, offset : 0 .. Length, resumed : BOOLEAN,
     src : 0 .. Versions, total : {Unknown} \cup 0 .. Length, pos : 0 .. Length,
     wrote : 0 .. Length, short : BOOLEAN, kept : BOOLEAN, linked : BOOLEAN,
     out : {"none", "ok", "already", "served", "error", "refused", "cut"},
     calls : 0 .. MaxCalls]

TypeOK ==
    /\ remote \in 1 .. Versions
    /\ local \in Seq((1 .. Versions) \X (1 .. Length)) /\ Len(local) <= Length
    /\ cached \in [src : 0 .. Versions, cells : 0 .. Length, total : {Unknown} \cup 0 .. Length]
    /\ rd \in [Readers -> Reader]

-----------------------------------------------------------------------------
At(r, label) == rd[r].pc = label
Set(r, rec)  == rd' = [rd EXCEPT ![r] = rec]
\* What a call leaves behind is its result, for which parameters and which version.
Ends(r, out, short) ==
    Set(r, [Idle EXCEPT !.kind = rd[r].kind, !.hash = rd[r].hash, !.offset = rd[r].offset,
                        !.src = rd[r].src, !.calls = rd[r].calls, !.linked = rd[r].linked, !.out = out, !.short = short])

\* Download's result does not tell more: the caller sees an error, and a client
\* of the server an error or, after the first buffer, the end of a 200.
Failed(r) ==
    IF rd[r].kind = "file" THEN "error" ELSE IF rd[r].pos = 0 THEN "refused" ELSE "cut"

\* Mutant: the body is written where the file ends, whatever it starts with.
SkipsNot(rec) == FALSE
\* The Range header is sent; a 206 is believed, and a 200 starts at zero.
Skips(rec)   == rec.offset > 0 /\ ~rec.resumed

\* Mutant: a stream from the start is taken on trust.
HashedNot(rec) == rec.hash # 0 /\ rec.offset # 0 /\ ~rec.resumed
\* What the digest covers is the stream, never what was on disk before.
Hashed(rec)  == rec.hash # 0 /\ (rec.offset = 0 \/ ~rec.resumed)
Matches(rec) == rec.src = rec.hash /\ rec.pos = LengthOf[rec.src]

\* downloadArrivedWhole
ArrivedWhole(rec) == rec.total <= 0 \/ rec.pos = rec.total

Started(r) == [Idle EXCEPT !.kind = rd[r].kind, !.calls = rd[r].calls + 1]

\* DownloadFile.  The size is the folder listing's; only an SDK caller or a job
\* with Spec.Hash has a digest.
CallFile(r, new) ==
    \E size \in {0, LengthOf[remote]}, hash \in {0, remote} :
        Set(r, LET ask == [new EXCEPT !.hash = hash, !.offset = Len(local)]
               IN  IF size > 0 /\ size = Len(local)
                   THEN [ask EXCEPT !.out = "already", !.src = remote] ELSE [ask EXCEPT !.pc = "ask"])

\* A job whose path is in the cache copies it to a temporary file, whatever digest
\* it was given.
CallHit(r) ==
    /\ cached # NoObject
    /\ Set(r, [Started(r) EXCEPT !.pc = "hit", !.src = cached.src, !.pos = cached.cells,
                                 !.total = cached.total])

\* handleDownloadStream after a miss, which resolves the path; handleArchive.
CallServer(r)  == rd[r].kind = "stream" /\ Set(r, [Started(r) EXCEPT !.pc = "ask"])
CallArchive(r) == rd[r].kind = "archive" /\ Set(r, [Started(r) EXCEPT !.pc = "ask"])

Call(r) ==
    /\ At(r, "idle") /\ rd[r].calls < MaxCalls
    /\ \/ rd[r].kind = "file" /\ (CallFile(r, Started(r)) \/ CallHit(r))
       \/ CallServer(r) \/ CallArchive(r)
    /\ UNCHANGED <<remote, local, cached>>

\* CopyTo puts its temporary file in place of whatever is there, and whoever has that
\* open goes on writing to a file without a name.
Serve(r) ==
    /\ At(r, "hit")
    /\ local' = Part(rd[r].src, rd[r].pos)
    /\ rd' = [q \in Readers |->
                 IF q = r THEN [Started(r) EXCEPT !.calls = rd[r].calls, !.out = "served",
                                   !.src = rd[r].src,
                                   !.short = rd[r].total = Unknown /\ rd[r].pos < LengthOf[rd[r].src]]
                 ELSE [rd[q] EXCEPT !.linked = FALSE]]
    /\ UNCHANGED <<remote, cached>>

\* A copy that fails is a miss.
HitFails(r) ==
    /\ At(r, "hit") /\ "disk" \in Faults
    /\ CallFile(r, [Started(r) EXCEPT !.calls = rd[r].calls])
    /\ UNCHANGED <<remote, local, cached>>

\* The probe fails, upstream answers with JSON, or cannot be reached; a range that
\* begins past the end is refused.
Refused(r) ==
    /\ At(r, "ask") /\ ("break" \in Faults \/ rd[r].offset > LengthOf[remote])
    /\ Ends(r, Failed(r), FALSE)
    /\ UNCHANGED <<remote, local, cached>>

\* Asked for from its end, the file is sent whole.
Answer(r) ==
    LET rec == rd[r] IN
    /\ At(r, "ask") /\ rec.kind # "archive"
    /\ \E resumed \in BOOLEAN, total \in IF rec.kind = "stream" THEN {Unknown, LengthOf[remote]} ELSE {Unknown} :
          /\ resumed => rec.offset > 0 /\ rec.offset < LengthOf[remote]
          /\ ~resumed => rec.offset \in {0, LengthOf[remote]} \/ "whole" \in Faults
          /\ Set(r, LET got == [rec EXCEPT !.resumed = resumed, !.src = remote, !.total = total,
                                           !.pos = IF resumed THEN rec.offset ELSE 0]
                    IN  [got EXCEPT !.pc = IF Skips(got) THEN "skip" ELSE "copy"])
    /\ UNCHANGED <<remote, local, cached>>

\* An archive is made while it is sent: it has no size, no range and no digest.
AnswerArchive(r) ==
    /\ At(r, "ask") /\ rd[r].kind = "archive"
    /\ Set(r, [rd[r] EXCEPT !.src = remote, !.pc = "copy"])
    /\ UNCHANGED <<remote, local, cached>>

\* The body is shorter than what is to be skipped, or is cut short.
Skip(r) ==
    LET long == rd[r].offset <= LengthOf[rd[r].src] IN
    /\ At(r, "skip")
    /\ \/ long /\ Set(r, [rd[r] EXCEPT !.pc = "copy", !.pos = rd[r].offset])
       \/ (~long \/ Faults \cap {"break", "short"} # {}) /\ Ends(r, Failed(r), FALSE)
    /\ UNCHANGED <<remote, local, cached>>

\* Mutant: the file is opened for append.
LandedLast(r) == Append(local, <<rd[r].src, rd[r].pos + 1>>)
\* The descriptor was opened at the offset and moves on with each write.
Landed(r) ==
    LET rec == rd[r]
        at  == rec.offset + rec.wrote + 1
    IN  [i \in 1 .. (IF at > Len(local) THEN at ELSE Len(local)) |->
            IF i = at THEN <<rec.src, rec.pos + 1>> ELSE local[i]]

Copy(r) ==
    /\ At(r, "copy") /\ rd[r].pos < LengthOf[rd[r].src]
    /\ local' = IF rd[r].kind = "file" /\ rd[r].linked THEN Landed(r) ELSE local
    /\ \E kept \in {rd[r].kept} \cup
                   (IF "disk" \in Faults /\ rd[r].kind = "stream" THEN {FALSE} ELSE {}) :
          Set(r, [rd[r] EXCEPT !.pos = @ + 1, !.kept = kept,
                              !.wrote = IF rd[r].kind = "file" THEN @ + 1 ELSE 0])
    /\ UNCHANGED <<remote, cached>>

\* Mutant: copyWithProgress takes every read error for the end.
BreakUnseen(r) ==
    /\ At(r, "copy") /\ rd[r].pos < LengthOf[rd[r].src] /\ "break" \in Faults
    /\ Ends(r, "ok", FALSE)
    /\ UNCHANGED <<remote, local, cached>>

Break(r) ==
    /\ At(r, "copy") /\ rd[r].pos < LengthOf[rd[r].src] /\ "break" \in Faults
    /\ Ends(r, Failed(r), FALSE)
    /\ UNCHANGED <<remote, local, cached>>

\* The end of the body: the digest is compared, and a fill is committed.
End(r) ==
    LET rec   == rd[r]
        good  == Hashed(rec) => Matches(rec)
        fills == rec.kind = "stream" /\ rec.kept /\ ArrivedWhole(rec)
    IN
    /\ At(r, "copy")
    /\ rec.pos = LengthOf[rec.src] \/ "short" \in Faults
    /\ Ends(r, IF good THEN "ok" ELSE "error", rec.pos < LengthOf[rec.src])
    /\ cached' = IF fills THEN [src |-> rec.src, cells |-> rec.pos, total |-> rec.total] ELSE cached
    /\ UNCHANGED <<remote, local>>

Replace ==
    /\ "change" \in Faults /\ remote < Versions
    /\ remote' = remote + 1
    /\ UNCHANGED <<local, cached, rd>>

Init ==
    /\ remote = 1 /\ local = <<>>
    /\ cached \in {NoObject} \cup [src : {1}, cells : 1 .. LengthOf[1], total : {Unknown}]
    /\ \E kinds \in [Readers -> Kinds] : rd = [r \in Readers |-> [Idle EXCEPT !.kind = kinds[r]]]

Next ==
    \/ \E r \in Readers :
          \/ Call(r) \/ Serve(r) \/ HitFails(r) \/ Refused(r) \/ Answer(r) \/ AnswerArchive(r)
          \/ Skip(r) \/ Copy(r) \/ Break(r) \/ End(r)
    \/ Replace

Spec == Init /\ [][Next]_vars

-----------------------------------------------------------------------------
(* Correctness.                                                             *)

\* However often connections break, ranges are ignored and downloads of the same
\* path overlap, each cell on disk is where it belongs: nothing is missing, doubled
\* or displaced (DownloadFile's offset, Download's skip).
EachCellInPlace == \A i \in 1 .. Len(local) : local[i][2] = i

Alone(r) == rd[r].kind = "file" /\ \A q \in Readers \ {r} : rd[q].kind # "file"

Succeeded(r) ==
    rd[r].kind = "file" /\ rd[r].linked /\ ~rd[r].short /\ rd[r].out \in {"ok", "already", "served"}

\* A download that reports success leaves at least as much as the version it is about
\* has, whoever wrote which part of it and whether it came from upstream or out of the
\* cache, and exactly as much if nobody else downloads to the path, unless a body ended
\* early with nothing to tell by, or a later copy from the cache has taken its place.
\* DownloadFile does not truncate, so of two that overlap one may leave the end of a
\* longer version behind (SuccessIsExact).
SuccessIsWhole ==
    \A r \in Readers :
        Succeeded(r) => /\ Len(local) >= LengthOf[rd[r].src]
                        /\ Alone(r) => Len(local) = LengthOf[rd[r].src]

\* A single caller that starts with nothing and knows the digest gets that version
\* or an error, although upstream replaces the file meanwhile (Download's digest).
FreshIsVerified ==
    \A r \in Readers :
        Alone(r) /\ rd[r].out = "ok" /\ rd[r].offset = 0 /\ rd[r].hash # 0
            => local = Content(rd[r].hash)

\* DownloadFile, download.go:181: "so the file is correct whichever way upstream
\* answers".
SuccessIsExact == \A r \in Readers : Succeeded(r) => Len(local) = LengthOf[rd[r].src]

\* DownloadParams.Hash, download.go:67: "When set, the download is verified against
\* it and a mismatch is an error rather than a silently corrupt file".
NoSilentCorruption ==
    \A r \in Readers :
        Alone(r) /\ rd[r].out \in {"ok", "already"} /\ rd[r].hash # 0
            => local = Content(rd[r].hash)

\* handleDownloadStream, transfers.go:251: "a failure still answers in the error
\* envelope rather than as a truncated file the caller would save".
NoTruncatedAnswer == \A r \in Readers : rd[r].out # "cut"
=============================================================================
