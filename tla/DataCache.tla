------------------------------ MODULE DataCache ------------------------------
(***************************************************************************)
(* The write-back gateway of internal/datacache: the store (store.go), the *)
(* journal as recovery reads it (journal.go), the flush workers and the    *)
(* operations that discard objects (writeback.go).                         *)
(*                                                                         *)
(* Every thread is a client request or a flush worker.  A step is one      *)
(* section of code under DataCache.mu, or one file-system, journal or      *)
(* upstream call made outside it, so that the interleavings are those of   *)
(* the lock.  The bytes of an object are a member of Bodies and stand for  *)
(* their MD5 as well; an object is named by its StoredAt (ver).            *)
(***************************************************************************)
EXTENDS Integers, FiniteSets, FiniteSetsExt

CONSTANTS
    Clients,      \* request goroutines of the REST server and of the job engine
    Workers,      \* flush workers, Config.FlushWorkers
    Paths,        \* remote paths, normalised
    Bodies,       \* contents a client may write
    SizeOf,       \* the size of each content
    NoBody,       \* no content file, no upstream file
    NoPath,       \* the path of a thread that does nothing
    NoWorker,     \* no worker holds the path
    MaxVersion,   \* bound: commits in a behaviour
    MaxCrashes,   \* bound: crashes in a behaviour
    MaxDirty,     \* Config.MaxDirtyBytes
    High, Low,    \* Config.MaxBytes times the high and the low watermark
    Ops,          \* the requests clients make
    Faults,       \* what the environment may do
    TakeTurns     \* TRUE when requests for one path never overlap

ASSUME SizesAreNat == SizeOf \in [Bodies -> Nat]
ASSUME BoundsAreNat ==
    /\ MaxVersion \in Nat /\ MaxCrashes \in Nat /\ MaxDirty \in Nat
    /\ High \in Nat /\ Low \in Nat /\ Low <= High
ASSUME NullsAreFresh == NoBody \notin Bodies /\ NoPath \notin Paths /\ NoWorker \notin Workers
ASSUME ThreadsAreDistinct == Clients \cap Workers = {}
ASSUME OpsAreKnown == Ops \subseteq {"put", "fill", "get", "refresh", "clear", "remove"}
ASSUME FaultsAreKnown == Faults \subseteq {"crash", "io", "commit", "torn", "corrupt", "upstream",
                                    "unhashed", "short"}

Threads  == Clients \cup Workers
Versions == 1 .. MaxVersion
Contents == Bodies \cup {NoBody}

States   == {"dirty", "uploading", "clean"}
Object   == [ver : 0 .. MaxVersion, state : States]
NoObject == [ver |-> 0, state |-> "clean"]

VARIABLES
    phase,      \* "open" or "down"
    crashes,    \* crashes so far
    clock,      \* the last StoredAt given out
    body,       \* the content each version was given
    index,      \* DataCache.objs
    dirty,      \* DataCache.dirty
    bytes,      \* DataCache.bytes
    inFlight,   \* DataCache.inFlight: which worker holds a path
    cancelled,  \* paths whose upload has been told to stop
    files,      \* the content file of each path, as the kernel shows it
    disk,       \* what each content file may hold after a crash
    jnl,        \* what replayJournal makes of the synced journal
    torn,       \* the journal has a partial record in it, and what follows is not read
    up,         \* upstream: the content at each path
    th,         \* what each thread is doing
    promised,   \* history: the version last acknowledged with 202 and still owed
    exposed,    \* history: paths whose content file a later Put has replaced, or whose
                \* newest record is behind a tear
    held,       \* history: every content upstream ever had at a path
    unchecked   \* history: versions taken for upstream's that are not, with nothing to tell by

indexVars == <<index, dirty, bytes>>
claimVars == <<inFlight, cancelled>>
fileVars  == <<files, disk>>
jnlVars   == <<jnl, torn>>
upVars    == <<up, held>>
verVars   == <<clock, body, unchecked>>
lifeVars  == <<phase, crashes>>
oweVars   == <<promised, exposed>>
vars == <<indexVars, claimVars, fileVars, jnlVars, upVars, verVars, lifeVars, oweVars, th>>

-----------------------------------------------------------------------------
(* Objects, sizes and the steps of a thread.                               *)

Unsent(o) == o.state \in {"dirty", "uploading"}

Size(o)       == IF o.ver = 0 THEN 0 ELSE SizeOf[body[o.ver]]
UnsentSize(o) == IF Unsent(o) THEN Size(o) ELSE 0

TotalOf(S) == MapThenSumSet(LAMBDA p : Size(index[p]), S)

Idle == [pc |-> "idle", path |-> NoPath, body |-> NoBody, ver |-> 0,
         goal |-> "clean", todo |-> {}, victim |-> NoPath]

At(t, label)    == phase = "open" /\ th[t].pc = label
Goto(t, label)  == th' = [th EXCEPT ![t].pc = label]
Reset(t)        == th' = [th EXCEPT ![t] = Idle]

\* Where a thread goes when its commit, its flush or its request needs no more:
\* a worker still has to give the path back (the deferred half of flushOne).
Rest(t) == IF t \in Workers THEN [th[t] EXCEPT !.pc = "end", !.todo = {}, !.victim = NoPath]
                            ELSE Idle

\* With TakeTurns no two requests for one path overlap.  The code does not
\* enforce it: it is the assumption of the runs that say so.
MayStart(t, S) ==
    /\ phase = "open" /\ th[t] = Idle
    /\ TakeTurns => \A u \in Clients : S \cap ({th[u].path, th[u].victim} \cup th[u].todo) = {}

\* applyRecord: a torn journal hides what is appended after the tear.
Recorded(p, o) == IF torn THEN jnl ELSE [jnl EXCEPT ![p] = o]
RecordedState(p, v, s) ==
    IF torn \/ jnl[p].ver # v THEN jnl ELSE [jnl EXCEPT ![p].state = s]

\* journal.append: the journal then reads as rec says.
Appends(rec) == jnl' = rec /\ UNCHANGED torn

\* A write that fails may leave part of its line, behind which the next record goes;
\* a sync that fails may leave all of it.
AppendFails(rec) ==
    \/ jnl' \in {jnl, rec} /\ UNCHANGED torn
    \/ UNCHANGED jnl /\ torn' = TRUE

-----------------------------------------------------------------------------
(* Writing: Put and Fill stream into a temporary file and share one commit. *)

Writer(p, b, goal) ==
    [Idle EXCEPT !.pc = "writing", !.path = p, !.body = b, !.goal = goal]

Room(p) == MaxDirty - dirty + UnsentSize(index[p])

PutBegin(t, p, b) ==
    /\ "put" \in Ops /\ MayStart(t, {p})
    /\ Room(p) > 0 /\ SizeOf[b] <= Room(p)
    /\ th' = [th EXCEPT ![t] = Writer(p, b, "dirty")]
    /\ UNCHANGED <<indexVars, claimVars, fileVars, jnlVars, upVars, verVars, lifeVars, oweVars>>

\* A download that missed the cache; its bytes are what upstream has now, as far as
\* they arrive (Seal).
FillBegin(t, p) ==
    /\ "fill" \in Ops /\ MayStart(t, {p})
    /\ index[p] = NoObject /\ up[p] # NoBody
    /\ th' = [th EXCEPT ![t] = Writer(p, up[p], "clean")]
    /\ UNCHANGED <<indexVars, claimVars, fileVars, jnlVars, upVars, verVars, lifeVars, oweVars>>

\* The client went away, or the temporary file could not be synced, closed or
\* renamed: nothing but the temporary file is touched.
Abort(t) ==
    /\ At(t, "writing") \/ (At(t, "rename") /\ "io" \in Faults)
    /\ Reset(t)
    /\ UNCHANGED <<indexVars, claimVars, fileVars, jnlVars, upVars, verVars, lifeVars, oweVars>>

\* Where upstream gave no length, a stream that ends early looks whole
\* (downloadArrivedWhole), and what has come of it is committed.
Arrived(t) ==
    {th[t].body} \cup {b \in Bodies : /\ "short" \in Faults /\ th[t].goal = "clean"
                                     /\ SizeOf[b] < SizeOf[th[t].body]}

\* Commit and CommitClean read the clock, then writer.commit syncs and closes.
Seal(t) ==
    /\ At(t, "writing") /\ clock < MaxVersion
    /\ \E b \in Arrived(t) :
          /\ clock' = clock + 1
          /\ body' = [body EXCEPT ![clock + 1] = b]
          /\ unchecked' = IF b = th[t].body THEN unchecked ELSE unchecked \cup {clock + 1}
          /\ th' = [th EXCEPT ![t].pc = "rename", ![t].ver = clock + 1, ![t].body = b]
    /\ UNCHANGED <<indexVars, claimVars, fileVars, jnlVars, upVars, lifeVars, oweVars>>

Rename(t) ==
    LET p == th[t].path IN
    /\ At(t, "rename")
    /\ files' = [files EXCEPT ![p] = th[t].body]
    /\ disk' = [disk EXCEPT ![p] = @ \cup {th[t].body}]
    /\ exposed' = IF th[t].goal = "dirty" THEN exposed \cup {p} ELSE exposed
    /\ Goto(t, "syncdir")
    /\ UNCHANGED <<indexVars, claimVars, jnlVars, upVars, verVars, lifeVars, promised>>

\* Mutant: the directory is not synced.
SyncDirOmitted(t) ==
    /\ At(t, "syncdir")
    /\ Goto(t, "journal")
    /\ UNCHANGED <<indexVars, claimVars, fileVars, jnlVars, upVars, verVars, lifeVars, oweVars>>

\* One fsync of the directory settles every name in it.
SyncDir(t) ==
    /\ At(t, "syncdir")
    /\ disk' = [p \in Paths |-> {files[p]}]
    /\ Goto(t, "journal")
    /\ UNCHANGED <<indexVars, claimVars, files, jnlVars, upVars, verVars, lifeVars, oweVars>>

Unlinked(p) ==
    /\ files' = [files EXCEPT ![p] = NoBody]
    /\ disk' = [disk EXCEPT ![p] = @ \cup {NoBody}]

SyncDirFails(t) ==
    /\ At(t, "syncdir") /\ "commit" \in Faults
    /\ Unlinked(th[t].path)
    /\ Reset(t)
    /\ UNCHANGED <<indexVars, claimVars, jnlVars, upVars, verVars, lifeVars, oweVars>>

NewObject(t) == [ver |-> th[t].ver, state |-> th[t].goal]

JournalPut(t) ==
    /\ At(t, "journal")
    /\ Appends(Recorded(th[t].path, NewObject(t)))
    /\ Goto(t, "index")
    /\ UNCHANGED <<indexVars, claimVars, fileVars, upVars, verVars, lifeVars, oweVars>>

\* Whatever is left of the record, the commit removes the content file.
JournalPutFails(t) ==
    /\ At(t, "journal") /\ "commit" \in Faults
    /\ AppendFails(Recorded(th[t].path, NewObject(t)))
    /\ Unlinked(th[t].path)
    /\ Reset(t)
    /\ UNCHANGED <<indexVars, claimVars, upVars, verVars, lifeVars, oweVars>>

\* Mutant: the replaced object's bytes are not given back.
IndexPutAdding(t) ==
    LET p == th[t].path
        o == NewObject(t) IN
    /\ At(t, "index")
    /\ index' = [index EXCEPT ![p] = o]
    /\ dirty' = dirty + UnsentSize(o) /\ bytes' = bytes + Size(o)
    /\ Goto(t, "evict")
    /\ UNCHANGED <<claimVars, fileVars, jnlVars, upVars, verVars, lifeVars, oweVars>>

\* The index moves last, and then the client may be told.
IndexPut(t) ==
    LET p == th[t].path
        o == NewObject(t) IN
    /\ At(t, "index")
    /\ index' = [index EXCEPT ![p] = o]
    /\ dirty' = dirty - UnsentSize(index[p]) + UnsentSize(o)
    /\ bytes' = bytes - Size(index[p]) + Size(o)
    /\ IF Unsent(o) THEN /\ promised' = [promised EXCEPT ![p] = o.ver]
                         /\ exposed' = IF torn THEN exposed \cup {p} ELSE exposed \ {p}
                    ELSE UNCHANGED oweVars
    /\ Goto(t, "evict")
    /\ UNCHANGED <<claimVars, fileVars, jnlVars, upVars, verVars, lifeVars>>

-----------------------------------------------------------------------------
(* Eviction and forget.                                                     *)

CleanPaths == {p \in Paths : index[p] # NoObject /\ index[p].state = "clean"}

\* Candidates in some access order, taken until the store is down to Low.
Doomed(D) ==
    /\ D \subseteq CleanPaths
    /\ D = CleanPaths \/ bytes - TotalOf(D) <= Low
    /\ D = {} \/ \E last \in D : bytes - TotalOf(D \ {last}) > Low

Evict(t) ==
    /\ At(t, "evict")
    /\ \/ /\ bytes <= High \/ CleanPaths = {}
          /\ th' = [th EXCEPT ![t] = Rest(t)]
       \/ /\ bytes > High
          /\ \E D \in SUBSET CleanPaths \ {{}} :
                /\ Doomed(D)
                /\ th' = [th EXCEPT ![t].pc = "forget", ![t].todo = D]
    /\ UNCHANGED <<indexVars, claimVars, fileVars, jnlVars, upVars, verVars, lifeVars, oweVars>>

\* After the last path of a forget a delete goes on to upstream; whoever else
\* asked is done.
AfterForget(t, S) ==
    IF S # {} THEN [th[t] EXCEPT !.pc = "forget", !.todo = S, !.victim = NoPath]
    ELSE IF th[t].goal = "delete" THEN [th[t] EXCEPT !.pc = "delete", !.todo = {}, !.victim = NoPath]
    ELSE Rest(t)

\* forget, under the lock: the entry leaves the index whatever its state is now.
ForgetIndex(t) ==
    /\ At(t, "forget")
    /\ \E p \in th[t].todo :
          IF index[p] = NoObject
          THEN /\ th' = [th EXCEPT ![t] = AfterForget(t, th[t].todo \ {p})]
               /\ UNCHANGED indexVars
          ELSE /\ index' = [index EXCEPT ![p] = NoObject]
               /\ dirty' = dirty - UnsentSize(index[p])
               /\ bytes' = bytes - Size(index[p])
               /\ th' = [th EXCEPT ![t].pc = "unlink", ![t].victim = p,
                                   ![t].todo = @ \ {p}]
    /\ UNCHANGED <<claimVars, fileVars, jnlVars, upVars, verVars, lifeVars, oweVars>>

\* forget, after the lock: the content file, then the journal.
Unlink(t) ==
    /\ At(t, "unlink")
    /\ Unlinked(th[t].victim)
    /\ Goto(t, "drop")
    /\ UNCHANGED <<indexVars, claimVars, jnlVars, upVars, verVars, lifeVars, oweVars>>

Drop(t) ==
    /\ At(t, "drop")
    /\ \/ Appends(Recorded(th[t].victim, NoObject))
       \/ "io" \in Faults /\ AppendFails(Recorded(th[t].victim, NoObject))
    /\ th' = [th EXCEPT ![t] = AfterForget(t, th[t].todo)]
    /\ UNCHANGED <<indexVars, claimVars, fileVars, upVars, verVars, lifeVars, oweVars>>

-----------------------------------------------------------------------------
(* Reading, refreshing, clearing and deleting.                              *)

Asking(label, p, goal, S) == [Idle EXCEPT !.pc = label, !.path = p, !.goal = goal, !.todo = S]

\* Get: the entry is found under the lock, the file is opened after it.
GetHit(t, p) ==
    /\ "get" \in Ops /\ MayStart(t, {p})
    /\ index[p] # NoObject
    /\ th' = [th EXCEPT ![t] = Asking("opening", p, "clean", {})]
    /\ UNCHANGED <<indexVars, claimVars, fileVars, jnlVars, upVars, verVars, lifeVars, oweVars>>

\* A hit is recorded too (opTouch), which changes nothing but may be torn as well.
GetOpen(t) ==
    LET p == th[t].path IN
    /\ At(t, "opening")
    /\ IF files[p] # NoBody
       THEN /\ Reset(t)
            /\ Appends(jnl) \/ ("io" \in Faults /\ AppendFails(jnl))
       ELSE /\ th' = [th EXCEPT ![t].pc = "forget", ![t].todo = {p}]
            /\ UNCHANGED jnlVars
    /\ UNCHANGED <<indexVars, claimVars, fileVars, upVars, verVars, lifeVars, oweVars>>

Refreshable(p) == p \in CleanPaths

Refresh(t, p) ==
    /\ "refresh" \in Ops /\ MayStart(t, {p})
    /\ Refreshable(p)
    /\ th' = [th EXCEPT ![t] = Asking("forget", p, "clean", {p})]
    /\ UNCHANGED <<indexVars, claimVars, fileVars, jnlVars, upVars, verVars, lifeVars, oweVars>>

\* Nothing at all is cleared while anything is unsent.
Clearable == CleanPaths # {} /\ \A p \in Paths : ~Unsent(index[p])

Clear(t) ==
    /\ "clear" \in Ops /\ MayStart(t, Paths)
    /\ Clearable
    /\ th' = [th EXCEPT ![t] = Asking("forget", NoPath, "clean", CleanPaths)]
    /\ UNCHANGED <<indexVars, claimVars, fileVars, jnlVars, upVars, verVars, lifeVars, oweVars>>

\* DELETE: RemoveTree on the cache, then the file upstream (handleRemove).
RemoveBegin(t, p) ==
    /\ "remove" \in Ops /\ MayStart(t, {p})
    /\ th' = [th EXCEPT ![t] = Asking("rmcheck", p, "delete", {})]
    /\ UNCHANGED <<indexVars, claimVars, fileVars, jnlVars, upVars, verVars, lifeVars, oweVars>>

\* One turn of Remove's loop.
RemoveCheck(t) ==
    LET p == th[t].path IN
    /\ At(t, "rmcheck")
    /\ \/ /\ index[p] = NoObject
          /\ Goto(t, "delete")
          /\ UNCHANGED <<cancelled, promised>>
       \/ /\ index[p] # NoObject /\ inFlight[p] = NoWorker
          /\ promised' = [promised EXCEPT ![p] = 0]
          /\ th' = [th EXCEPT ![t].pc = "forget", ![t].todo = {p}]
          /\ UNCHANGED cancelled
       \/ /\ index[p] # NoObject /\ inFlight[p] # NoWorker
          /\ cancelled' = cancelled \cup {p}
          /\ Goto(t, "rmwait")
          /\ UNCHANGED promised
    /\ UNCHANGED <<indexVars, inFlight, fileVars, jnlVars, upVars, verVars, lifeVars, exposed>>

\* The request's context ended while Remove waited for the upload to stop.
RemoveGivesUp(t) ==
    /\ At(t, "rmwait")
    /\ Reset(t)
    /\ UNCHANGED <<indexVars, claimVars, fileVars, jnlVars, upVars, verVars, lifeVars, oweVars>>

DeleteUpstream(t) ==
    /\ At(t, "delete")
    /\ \/ up' = [up EXCEPT ![th[t].path] = NoBody]
       \/ "upstream" \in Faults /\ UNCHANGED up
    /\ Reset(t)
    /\ UNCHANGED <<indexVars, claimVars, fileVars, jnlVars, held, verVars, lifeVars, oweVars>>

-----------------------------------------------------------------------------
(* Flushing: flushOne and the three halves of setState.                     *)

\* Mutant: a path another worker holds is claimed again.
ClaimableTwice(p) == Unsent(index[p])

Claimable(p) == Unsent(index[p]) /\ inFlight[p] = NoWorker

Holding(p, v) == [Idle EXCEPT !.pc = "check", !.path = p, !.ver = v, !.goal = "uploading"]

Claim(w, p) ==
    /\ phase = "open" /\ th[w] = Idle
    /\ Claimable(p)
    /\ inFlight' = [inFlight EXCEPT ![p] = w]
    /\ th' = [th EXCEPT ![w] = Holding(p, index[p].ver)]
    /\ UNCHANGED <<indexVars, cancelled, fileVars, jnlVars, upVars, verVars, lifeVars, oweVars>>

\* What flushOne does with setState's answer.
AfterSet(w, applied) ==
    [th[w] EXCEPT !.pc = IF th[w].goal = "uploading" THEN "open"
                         ELSE IF th[w].goal = "clean" /\ applied THEN "evict"
                         ELSE "end"]

\* Mutant: a state change is keyed by path alone.
CurrentByPath(w) == index[th[w].path] # NoObject

\* The object is still the version the news is about.
Current(w) == index[th[w].path].ver = th[w].ver

SetCheck(w) ==
    /\ At(w, "check")
    /\ IF Current(w) THEN Goto(w, "append") ELSE th' = [th EXCEPT ![w] = AfterSet(w, FALSE)]
    /\ UNCHANGED <<indexVars, claimVars, fileVars, jnlVars, upVars, verVars, lifeVars, oweVars>>

\* Mutant: a failed journal write does not stop the index from moving.
SetAppendUnchecked(w) ==
    LET rec == RecordedState(th[w].path, th[w].ver, th[w].goal) IN
    /\ At(w, "append")
    /\ Appends(rec) \/ ("io" \in Faults /\ AppendFails(rec))
    /\ Goto(w, "apply")
    /\ UNCHANGED <<indexVars, claimVars, fileVars, upVars, verVars, lifeVars, oweVars>>

SetAppend(w) ==
    LET rec == RecordedState(th[w].path, th[w].ver, th[w].goal) IN
    /\ At(w, "append")
    /\ \/ Appends(rec) /\ Goto(w, "apply")
       \/ /\ "io" \in Faults /\ AppendFails(rec)
          /\ th' = [th EXCEPT ![w] = AfterSet(w, FALSE)]
    /\ UNCHANGED <<indexVars, claimVars, fileVars, upVars, verVars, lifeVars, oweVars>>

SetApply(w) ==
    LET p == th[w].path
        o == [index[p] EXCEPT !.state = th[w].goal] IN
    /\ At(w, "apply")
    /\ IF Current(w)
       THEN /\ index' = [index EXCEPT ![p] = o]
            /\ dirty' = dirty - UnsentSize(index[p]) + UnsentSize(o)
            /\ UNCHANGED bytes
       ELSE UNCHANGED indexVars
    /\ th' = [th EXCEPT ![w] = AfterSet(w, Current(w))]
    /\ UNCHANGED <<claimVars, fileVars, jnlVars, upVars, verVars, lifeVars, oweVars>>

\* Mutant: a missing content file is uploaded as it is.
OpenContentUnchecked(w) ==
    /\ At(w, "open")
    /\ th' = [th EXCEPT ![w].pc = "upload", ![w].body = files[th[w].path]]
    /\ UNCHANGED <<indexVars, claimVars, fileVars, jnlVars, upVars, verVars, lifeVars, oweVars>>

\* The content is opened by name: what is there may be newer than the claim.
OpenContent(w) ==
    LET p == th[w].path IN
    /\ At(w, "open")
    /\ IF files[p] = NoBody
       THEN th' = [th EXCEPT ![w].pc = "forget", ![w].todo = {p}]
       ELSE th' = [th EXCEPT ![w].pc = "upload", ![w].body = files[p]]
    /\ UNCHANGED <<indexVars, claimVars, fileVars, jnlVars, upVars, verVars, lifeVars, oweVars>>

\* Upstream stores what it was sent, or something else and says so in its hash.
UploadLands(w) ==
    LET p == th[w].path IN
    /\ At(w, "upload")
    /\ \E b \in {th[w].body} \cup (IF "corrupt" \in Faults THEN Bodies ELSE {}) :
          /\ up' = [up EXCEPT ![p] = b]
          /\ held' = [held EXCEPT ![p] = @ \cup {b}]
          /\ th' = [th EXCEPT ![w].pc = "landed", ![w].body = b]
    /\ UNCHANGED <<indexVars, claimVars, fileVars, jnlVars, verVars, lifeVars, oweVars>>

\* "A success is not evidence": the hash upstream reports decides, if it reports one.
HashAgrees(w, hashed) == hashed => th[w].body = body[th[w].ver]

Hashed == {TRUE} \cup (IF "unhashed" \in Faults THEN {FALSE} ELSE {})

UploadAnswers(w) ==
    /\ At(w, "landed")
    /\ \E hashed \in Hashed :
          IF HashAgrees(w, hashed)
          THEN /\ th' = [th EXCEPT ![w].pc = "check", ![w].goal = "clean"]
               /\ promised' = [promised EXCEPT ![th[w].path] = IF @ = th[w].ver THEN 0 ELSE @]
               /\ unchecked' = IF HashAgrees(w, TRUE) THEN unchecked ELSE unchecked \cup {th[w].ver}
          ELSE /\ th' = [th EXCEPT ![w].pc = "check", ![w].goal = "dirty"]
               /\ UNCHANGED <<promised, unchecked>>
    /\ UNCHANGED <<indexVars, claimVars, fileVars, jnlVars, upVars, clock, body, lifeVars, exposed>>

\* The upload failed, before or after upstream had the bytes.
UploadFails(w) ==
    /\ At(w, "upload") \/ At(w, "landed")
    /\ "upstream" \in Faults /\ th[w].path \notin cancelled
    /\ th' = [th EXCEPT ![w].pc = "check", ![w].goal = "dirty"]
    /\ UNCHANGED <<indexVars, claimVars, fileVars, jnlVars, upVars, verVars, lifeVars, oweVars>>

\* Stopped by Remove: flushOne returns and records nothing.
UploadStopped(w) ==
    /\ At(w, "upload") \/ At(w, "landed")
    /\ th[w].path \in cancelled
    /\ Goto(w, "end")
    /\ UNCHANGED <<indexVars, claimVars, fileVars, jnlVars, upVars, verVars, lifeVars, oweVars>>

\* Mutant: nobody who waits for the path is woken.
EndSilently(w) ==
    /\ At(w, "end")
    /\ inFlight' = [inFlight EXCEPT ![th[w].path] = NoWorker]
    /\ cancelled' = cancelled \ {th[w].path}
    /\ Reset(w)
    /\ UNCHANGED <<indexVars, fileVars, jnlVars, upVars, verVars, lifeVars, oweVars>>

\* The deferred half of flushOne: give the path back, wake whoever waits.
End(w) ==
    LET p == th[w].path IN
    /\ At(w, "end")
    /\ inFlight' = [inFlight EXCEPT ![p] = NoWorker]
    /\ cancelled' = cancelled \ {p}
    /\ th' = [t \in Threads |->
                 IF t = w THEN Idle
                 ELSE IF th[t].pc = "rmwait" THEN [th[t] EXCEPT !.pc = "rmcheck"]
                 ELSE th[t]]
    /\ UNCHANGED <<indexVars, fileVars, jnlVars, upVars, verVars, lifeVars, oweVars>>

-----------------------------------------------------------------------------
(* The process dies and is started again.                                   *)

\* Each content file is what a crash may leave of it; a record being appended
\* may be left in part.
Crash ==
    /\ phase = "open" /\ "crash" \in Faults /\ crashes < MaxCrashes
    /\ phase' = "down" /\ crashes' = crashes + 1
    /\ \E f \in [Paths -> Contents] :
          /\ \A p \in Paths : f[p] \in disk[p]
          /\ files' = f
          /\ disk' = [p \in Paths |-> {f[p]}]
    /\ torn' \in {torn} \cup
          {TRUE : t \in {u \in Threads : "torn" \in Faults
                                      /\ th[u].pc \in {"journal", "append", "drop", "opening"}}}
    /\ index' = [p \in Paths |-> NoObject] /\ dirty' = 0 /\ bytes' = 0
    /\ inFlight' = [p \in Paths |-> NoWorker] /\ cancelled' = {}
    /\ th' = [t \in Threads |-> Idle]
    /\ UNCHANGED <<jnl, upVars, verVars, oweVars>>

\* verifyAgainstDisk keeps an entry whose content file has the size it records.
Recoverable(p) ==
    jnl[p] # NoObject /\ files[p] # NoBody /\ SizeOf[files[p]] = Size(jnl[p])

Recount(kept) ==
    /\ bytes' = MapThenSumSet(LAMBDA p : Size(jnl[p]), kept)
    /\ dirty' = MapThenSumSet(LAMBDA p : UnsentSize(jnl[p]), kept)

\* lockDir: an index is made only of a directory no other daemon has in hand.
Unlocked == phase = "down"

\* Past compactAfter records the journal is written anew from the index, and a torn
\* record goes with the old one; otherwise it is continued as it is.
Compacted ==
    \/ UNCHANGED jnlVars
    \/ jnl' = index' /\ torn' = FALSE

Open ==
    LET kept == {p \in Paths : Recoverable(p)} IN
    /\ Unlocked
    /\ phase' = "open"
    /\ index' = [p \in Paths |-> IF p \in kept THEN jnl[p] ELSE NoObject]
    /\ Recount(kept)
    /\ files' = [p \in Paths |-> IF p \in kept THEN files[p] ELSE NoBody]
    /\ disk' = [p \in Paths |-> IF p \in kept THEN disk[p] ELSE disk[p] \cup {NoBody}]
    /\ Compacted
    /\ UNCHANGED <<claimVars, upVars, verVars, crashes, oweVars, th>>

-----------------------------------------------------------------------------

Init ==
    /\ phase = "open" /\ crashes = 0
    /\ clock = 0 /\ body = [v \in Versions |-> NoBody] /\ unchecked = {}
    /\ index = [p \in Paths |-> NoObject] /\ dirty = 0 /\ bytes = 0
    /\ inFlight = [p \in Paths |-> NoWorker] /\ cancelled = {}
    /\ files = [p \in Paths |-> NoBody] /\ disk = [p \in Paths |-> {NoBody}]
    /\ jnl = [p \in Paths |-> NoObject] /\ torn = FALSE
    /\ up \in [Paths -> Contents]
    /\ held = [p \in Paths |-> {up[p]} \ {NoBody}]
    /\ th = [t \in Threads |-> Idle]
    /\ promised = [p \in Paths |-> 0] /\ exposed = {}

WriteStep(t) ==
    \/ Abort(t) \/ Seal(t) \/ Rename(t) \/ SyncDir(t) \/ SyncDirFails(t)
    \/ JournalPut(t) \/ JournalPutFails(t) \/ IndexPut(t)

DiscardStep(t) == Evict(t) \/ ForgetIndex(t) \/ Unlink(t) \/ Drop(t)

RequestStep(t) ==
    \/ GetOpen(t) \/ RemoveCheck(t) \/ RemoveGivesUp(t) \/ DeleteUpstream(t)

Request(t, p) ==
    \/ \E b \in Bodies : PutBegin(t, p, b)
    \/ FillBegin(t, p) \/ GetHit(t, p) \/ Refresh(t, p) \/ RemoveBegin(t, p)

FlushStep(w) ==
    \/ SetCheck(w) \/ SetAppend(w) \/ SetApply(w) \/ OpenContent(w)
    \/ UploadLands(w) \/ UploadAnswers(w) \/ UploadFails(w) \/ UploadStopped(w)
    \/ End(w)

Next ==
    \/ \E t \in Clients :
          \/ \E p \in Paths : Request(t, p)
          \/ Clear(t) \/ WriteStep(t) \/ RequestStep(t)
    \/ \E w \in Workers :
          \/ \E p \in Paths : Claim(w, p)
          \/ FlushStep(w)
    \/ \E t \in Threads : DiscardStep(t)
    \/ Crash \/ Open

Spec == Init /\ [][Next]_vars

\* Workers keep running: an upload returns, because its context can be
\* cancelled, and nothing else in flushOne waits.
FairSpec == Spec /\ \A w \in Workers : WF_vars(FlushStep(w) \/ DiscardStep(w))

-----------------------------------------------------------------------------
(* Properties.                                                              *)

Labels == {"idle", "writing", "rename", "syncdir", "journal", "index", "evict",
           "forget", "unlink", "drop", "opening", "rmcheck", "rmwait", "delete",
           "check", "append", "apply", "open", "upload", "landed", "end"}

Thread == [pc : Labels, path : Paths \cup {NoPath}, body : Contents,
           ver : 0 .. MaxVersion, goal : States \cup {"delete"},
           todo : SUBSET Paths, victim : Paths \cup {NoPath}]

\* The type of every variable except the two counters, which Accounting fixes.
TypeOK ==
    /\ phase \in {"open", "down"} /\ crashes \in 0 .. MaxCrashes
    /\ clock \in 0 .. MaxVersion /\ body \in [Versions -> Contents] /\ unchecked \subseteq Versions
    /\ index \in [Paths -> Object]
    /\ inFlight \in [Paths -> Workers \cup {NoWorker}] /\ cancelled \subseteq Paths
    /\ files \in [Paths -> Contents] /\ disk \in [Paths -> SUBSET Contents]
    /\ jnl \in [Paths -> Object] /\ torn \in BOOLEAN
    /\ up \in [Paths -> Contents] /\ held \in [Paths -> SUBSET Bodies]
    /\ th \in [Threads -> Thread]
    /\ promised \in [Paths -> 0 .. MaxVersion] /\ exposed \subseteq Paths

\* Upstream has had the version's bytes at its path, or it was sent something else and
\* the code had nothing to tell by: an upload answered without a hash, or a download
\* cut short without a length.
Confirmed(p, v) == body[v] \in held[p] \/ v \in unchecked

\* An object is clean, in the index or in the journal a restart will believe,
\* only when upstream has had exactly its bytes at its path, or said nothing to check
\* them by: however commits, uploads, evictions and crashes interleave, the end of an
\* upload never marks clean a version it did not send (setState's version, flushOne's
\* hash check).
CleanIsUpstream ==
    \A p \in Paths : \A o \in {index[p], jnl[p]} :
        o # NoObject /\ o.state = "clean" => Confirmed(p, o.ver)

\* The counters that refuse writes and start evictions always equal what the
\* index holds, through replacement, superseded uploads and removal.
Accounting ==
    phase = "open" =>
        /\ bytes = TotalOf(Paths)
        /\ dirty = TotalOf({p \in Paths : Unsent(index[p])})

\* As long as the whole journal can be read, the index never calls a version clean
\* that the journal calls unsent: after a restart the answer a user was given still
\* stands (setState's order), whichever appends failed.
JournalLeads ==
    \A p \in Paths : ~torn /\ index[p].state = "clean" /\ jnl[p].ver = index[p].ver
                        => jnl[p].state = "clean"

\* A path is with at most one worker, the one inFlight names, so two uploads of
\* one path never overlap and Remove stops the upload there is.
SingleFlight ==
    \A p \in Paths, w \in Workers :
        inFlight[p] = w <=> th[w].pc # "idle" /\ th[w].path = p

\* What an accepted write is owed until an upload of it is taken for success or the
\* user deletes it: the index shows it unsent, the file holds its bytes, and a crash at
\* this instant would bring both back, also when later appends fail and tear the
\* journal.  It is suspended (exposed) by a later Put that has renamed its bytes over
\* them, and does not begin for a write accepted behind a tear.
PromiseKept ==
    \A p \in Paths \ exposed : promised[p] # 0 =>
        /\ jnl[p].ver = promised[p] /\ Unsent(jnl[p])
        /\ disk[p] = {body[promised[p]]} /\ files[p] = body[promised[p]]
        /\ phase = "open" => index[p].ver = promised[p] /\ Unsent(index[p])

\* A delete that found an upload in progress is woken when that upload ends: no
\* wake-up falls between Remove's check and its wait (waiterLocked).
WaiterIsWoken == \A t \in Clients : th[t].pc = "rmwait" ~> th[t].pc # "rmwait"

-----------------------------------------------------------------------------
(* The inductive invariant behind TypeOK and CleanIsUpstream.               *)

WriteLabels  == {"writing", "rename", "syncdir", "journal", "index"}
SealedLabels == WriteLabels \ {"writing"}
SetLabels    == {"check", "append", "apply"}

\* The fields a thread's label promises are there.
WellFormed(t) ==
    LET r == th[t] IN
    /\ r.pc \in WriteLabels => r.path \in Paths /\ r.body \in Bodies /\ r.goal \in States
    /\ r.pc \in SealedLabels => r.ver \in Versions
    /\ r.pc \in {"upload", "landed"} => r.body \in Bodies
    /\ r.pc \in {"unlink", "drop"} => r.victim \in Paths
    /\ r.pc \in {"opening", "rmcheck", "rmwait", "delete"} => r.path \in Paths
    /\ r.goal = "delete" => r.path \in Paths
    /\ t \in Workers /\ r.pc # "idle" =>
          r.path \in Paths /\ r.goal \in States /\ r.ver \in Versions

\* Every version in use was given out, and one without a version is no object.
Issued ==
    /\ \A p \in Paths : index[p].ver <= clock /\ (index[p].ver = 0 => index[p] = NoObject)
    /\ \A p \in Paths : jnl[p].ver <= clock /\ (jnl[p].ver = 0 => jnl[p] = NoObject)
    /\ \A t \in Threads : th[t].ver <= clock

\* A thread about to record something as clean has upstream's evidence for it.
Backed(t) ==
    LET r == th[t] IN
    /\ r.pc = "writing" /\ r.goal = "clean" => r.body \in held[r.path]
    /\ r.pc \in SealedLabels \cup SetLabels /\ r.goal = "clean" =>
          r.ver \in Versions /\ Confirmed(r.path, r.ver)
    /\ r.pc = "landed" => r.body \in held[r.path]

UpIsHeld == \A p \in Paths : up[p] # NoBody => up[p] \in held[p]

CleanInvariant ==
    /\ TypeOK /\ Issued /\ UpIsHeld /\ CleanIsUpstream
    /\ \A t \in Threads : WellFormed(t) /\ Backed(t)

-----------------------------------------------------------------------------
(* What the package says of itself and the code does not keep.              *)

\* "A crash must cost the in-flight bytes and nothing else": while the gateway
\* is up, an accepted object that is still owed, or one written over it since,
\* is in the index, unsent.
AcceptedIsKept ==
    \A p \in Paths : promised[p] # 0 /\ phase = "open" =>
        index[p].ver >= promised[p] /\ Unsent(index[p])

\* "A success is not evidence. Upstream's own hash decides whether this object is
\* clean": what the index calls clean upstream has had.
CleanIsConfirmed ==
    \A p \in Paths : index[p] # NoObject /\ index[p].state = "clean" => body[index[p].ver] \in held[p]

\* "The index is deliberately not updated when the journal write failed": so what it
\* calls clean a restart does not find unsent.
RestartAgrees ==
    \A p \in Paths : index[p].state = "clean" /\ jnl[p].ver = index[p].ver
                        => jnl[p].state = "clean"

\* "A dirty entry is never evicted": what eviction, refresh, clear or a missing
\* file takes out of the index is clean at that moment.
OnlyCleanIsDiscarded ==
    [][\A t \in Threads :
          (th[t].pc = "forget" /\ th'[t].pc = "unlink" /\ th[t].goal # "delete")
              => ~Unsent(index[th'[t].victim])]_vars

\* Remove waits out an upload, so that nothing is still being sent when the
\* caller deletes upstream.
NoUploadOutlivesDelete ==
    \A t \in Clients, w \in Workers :
        th[t].pc = "delete" /\ th[w].path = th[t].path /\ th[w].ver # index[th[t].path].ver
            => th[w].pc \notin {"upload", "landed"}
=============================================================================
