---------------------------- MODULE FlushSchedule ----------------------------
(***************************************************************************)
(* Who sends what, and when: the flush queue, the sweep that backs it up,  *)
(* the pool of flush workers and the shutdown that drains it               *)
(* (internal/datacache/writeback.go, Close in store.go).  DataCache models *)
(* what one flush does to the object, the journal and the index; here an   *)
(* object is its StoredAt and whether it is unsent, and an upload is its   *)
(* outcome.                                                                *)
(***************************************************************************)
EXTENDS Integers, Sequences, FiniteSets

CONSTANTS
    Workers,     \* flush workers
    Paths,       \* remote paths
    Refused,     \* paths whose upload OpenDrive refuses for good
    Capacity,    \* the flush queue's capacity (4096 in the code)
    Batch,       \* how many objects a sweep takes (8 in the code)
    MaxWrites,   \* bound: commits in a behaviour
    MaxFailures, \* bound: uploads that fail for a temporary reason
    MaxAsks,     \* bound: flushes and listings users ask for
    Shutdown     \* whether the daemon is told to stop

ASSUME PoolIsSized == Paths # {} /\ Refused \subseteq Paths /\ Capacity \in Nat /\ Batch \in Nat \ {0}
ASSUME LoadIsBounded == MaxWrites \in Nat /\ MaxFailures \in Nat /\ Shutdown \in BOOLEAN
ASSUME AsksAreBounded == MaxAsks \in Nat

VARIABLES
    stored,    \* StoredAt of the version of each path, 0 for none
    unsent,    \* paths whose object is dirty or uploading
    writing,   \* paths with an open PutWriter
    queue,     \* flushQueue
    worker,    \* what each flush worker is doing
    writes,    \* commits so far, which is also the clock
    failures,  \* temporary failures so far
    drain,     \* how far Drain has come, or how it ended
    closed,    \* DataCache.closed, with stop closed and flushCtx cancelled
    owed,      \* history: what was unsent when Drain began
    there,     \* the paths upstream has a file at
    list,      \* the listing that is being answered
    asked      \* flushes and listings so far

objectVars == <<stored, unsent, writing, writes>>
drainVars  == <<drain, closed, owed>>
askVars    == <<list, asked>>
vars == <<objectVars, queue, worker, failures, drainVars, there, askVars>>

-----------------------------------------------------------------------------

Resting == [pc |-> "select", path |-> CHOOSE p \in Paths : TRUE, of |-> 0,
            todo |-> <<>>, sweeping |-> FALSE, superseded |-> FALSE]

\* DataCache.inFlight: the paths a worker holds until its deferred function runs.
InFlight == {worker[w].path : w \in {v \in Workers : worker[v].pc \in {"upload", "end"}}}

\* Mutant: the queue has no bound.
EnqueuedAll(q, s) == q \o s

\* enqueue never waits: what does not fit is left to the sweep.
Enqueued(q, s) == q \o SubSeq(s, 1, IF Len(s) <= Capacity - Len(q) THEN Len(s) ELSE Capacity - Len(q))

\* By StoredAt, which no two unsent objects have in common.
OldestFirst(S) ==
    CHOOSE s \in [1 .. Cardinality(S) -> S] :
        \A i, j \in 1 .. Cardinality(S) : i < j => stored[s[i]] < stored[s[j]]

\* oldestUnsent: unsent, held by nobody, oldest first.
Waiting == OldestFirst(unsent \ InFlight)

\* Mutant: there is no sweep, and the queue is relied on alone.
NoneUnsent == <<>>

OldestUnsent == IF Len(Waiting) <= Batch THEN Waiting ELSE SubSeq(Waiting, 1, Batch)

-----------------------------------------------------------------------------
(* Writing: Put's checks, then Commit, which queues the object.  An open     *)
(* writer outlives Drain and Close: its commit fails only with the journal. *)

PutBegin(p) ==
    /\ drain = "off" /\ ~closed /\ p \notin writing
    /\ writing' = writing \cup {p}
    /\ UNCHANGED <<stored, unsent, writes, queue, worker, failures, drainVars, there, askVars>>

Commit(p) ==
    /\ p \in writing /\ writes < MaxWrites /\ drain # "closed"
    /\ writes' = writes + 1
    /\ stored' = [stored EXCEPT ![p] = writes + 1]
    /\ unsent' = unsent \cup {p}
    /\ writing' = writing \ {p}
    /\ queue' = Enqueued(queue, <<p>>)
    /\ UNCHANGED <<worker, failures, drainVars, there, askVars>>

\* The client went away, or the journal is closed and the commit fails.
Abort(p) ==
    /\ p \in writing
    /\ writing' = writing \ {p}
    /\ UNCHANGED <<stored, unsent, writes, queue, worker, failures, drainVars, there, askVars>>

-----------------------------------------------------------------------------
(* A user asks for what is unsent to be sent now, or lists a folder.        *)

\* One path, if the cache has it, or all that is unsent.
Flushable == {<<p>> : p \in {q \in Paths : stored[q] # 0}} \cup {Waiting}

Flush ==
    /\ asked < MaxAsks /\ drain = "off"
    /\ \E s \in Flushable : queue' = Enqueued(queue, s)
    /\ asked' = asked + 1
    /\ UNCHANGED <<objectVars, worker, failures, drainVars, there, list>>

NoList == [pc |-> "off", shown |-> {}, owed |-> {}, sent |-> {}]

ListBegin ==
    /\ asked < MaxAsks /\ list.pc = "off" /\ drain = "off"
    /\ list' = [NoList EXCEPT !.pc = "asked", !.owed = unsent]
    /\ asked' = asked + 1
    /\ UNCHANGED <<objectVars, queue, worker, failures, drainVars, there>>

\* Upstream's listing of the folder.
ListAnswered ==
    /\ list.pc = "asked"
    /\ list' = [list EXCEPT !.pc = "merge", !.shown = there]
    /\ UNCHANGED <<objectVars, queue, worker, failures, drainVars, there, asked>>

\* Mutant: what is being sent is taken to be upstream.
PendingIdle == unsent \ InFlight

\* What the cache holds and upstream has not, or not in this version.
Pending == unsent

\* The answer: what upstream listed and what is pending.
Merged == list.shown \cup Pending

\* It is sent; or the folder cannot be looked up, and what is pending is listed
\* alone, or the request fails.
ListEnds ==
    /\ list.pc \in {"asked", "merge"}
    /\ list' = NoList
    /\ UNCHANGED <<objectVars, queue, worker, failures, drainVars, there, asked>>

-----------------------------------------------------------------------------
(* A flush worker.                                                          *)

Doing(w, label) == worker[w].pc = label

\* The next path of the work in hand, or back to the select.
Onward(w) == [Resting EXCEPT !.pc = IF worker[w].todo = <<>> THEN "select" ELSE "next",
                             !.todo = worker[w].todo, !.sweeping = worker[w].sweeping]

Take(w) ==
    /\ Doing(w, "select") /\ queue # <<>>
    /\ queue' = Tail(queue)
    /\ worker' = [worker EXCEPT ![w] = [Resting EXCEPT !.pc = "next", !.todo = <<Head(queue)>>]]
    /\ UNCHANGED <<objectVars, failures, drainVars, there, askVars>>

Sweep(w) ==
    /\ Doing(w, "select") /\ OldestUnsent # <<>>
    /\ worker' = [worker EXCEPT ![w] = [Resting EXCEPT !.pc = "next", !.todo = OldestUnsent,
                                                       !.sweeping = TRUE]]
    /\ UNCHANGED <<objectVars, queue, failures, drainVars, there, askVars>>

\* flushOne, under the lock: claim the path or turn it away.
Claim(w) ==
    LET p == Head(worker[w].todo) IN
    /\ Doing(w, "next") /\ ~(worker[w].sweeping /\ closed)
    /\ IF p \in unsent \ InFlight /\ ~closed
       THEN /\ worker' = [worker EXCEPT ![w].pc = "upload", ![w].path = p, ![w].of = stored[p],
                                        ![w].todo = Tail(@)]
       ELSE /\ worker' = [worker EXCEPT ![w].todo = Tail(@),
                                        ![w].pc = IF Len(worker[w].todo) = 1 THEN "select" ELSE "next"]
    /\ UNCHANGED <<objectVars, queue, failures, drainVars, there, askVars>>

\* The version that was sent is clean; a newer one is queued again by End.
Succeeds(w) ==
    LET p == worker[w].path IN
    /\ Doing(w, "upload") /\ p \notin Refused
    /\ IF stored[p] = worker[w].of
       THEN /\ unsent' = unsent \ {p}
            /\ list' = IF list.pc = "merge" THEN [list EXCEPT !.sent = @ \cup {p}] ELSE list
            /\ worker' = [worker EXCEPT ![w].pc = "end"]
       ELSE /\ worker' = [worker EXCEPT ![w].pc = "end", ![w].superseded = TRUE]
            /\ UNCHANGED <<unsent, list>>
    /\ there' = there \cup {p}
    /\ UNCHANGED <<stored, writing, writes, queue, failures, drainVars, asked>>

\* A failure leaves the object dirty, for the sweep to come back to.
Fails(w) ==
    /\ Doing(w, "upload") /\ failures < MaxFailures
    /\ failures' = failures + 1
    /\ worker' = [worker EXCEPT ![w].pc = "end"]
    /\ UNCHANGED <<objectVars, queue, drainVars, there, askVars>>

IsRefused(w) ==
    /\ Doing(w, "upload") /\ worker[w].path \in Refused
    /\ worker' = [worker EXCEPT ![w].pc = "end"]
    /\ UNCHANGED <<objectVars, queue, failures, drainVars, there, askVars>>

\* Mutant: Close's cancellation reaches the uploads of a sweep only.
CancelledInSweeps(w) ==
    /\ Doing(w, "upload") /\ closed /\ worker[w].sweeping
    /\ worker' = [worker EXCEPT ![w].pc = "end"]
    /\ UNCHANGED <<objectVars, queue, failures, drainVars, there, askVars>>

\* Close cancelled flushCtx.
Cancelled(w) ==
    /\ Doing(w, "upload") /\ closed
    /\ worker' = [worker EXCEPT ![w].pc = "end"]
    /\ UNCHANGED <<objectVars, queue, failures, drainVars, there, askVars>>

\* The deferred half of flushOne.
End(w) ==
    /\ Doing(w, "end")
    /\ queue' = IF worker[w].superseded THEN Enqueued(queue, <<worker[w].path>>) ELSE queue
    /\ worker' = [worker EXCEPT ![w] = Onward(w)]
    /\ UNCHANGED <<objectVars, failures, drainVars, there, askVars>>

\* The worker returns: at the select, or between two objects of a sweep.
Leave(w) ==
    /\ closed /\ (Doing(w, "select") \/ (Doing(w, "next") /\ worker[w].sweeping))
    /\ worker' = [worker EXCEPT ![w] = [Resting EXCEPT !.pc = "gone"]]
    /\ UNCHANGED <<objectVars, queue, failures, drainVars, there, askVars>>

-----------------------------------------------------------------------------
(* Shutdown: Drain, then Close.                                             *)

\* The listener has stopped, and the requests it was serving have ended; a job
\* may still be writing.
DrainBegin ==
    /\ Shutdown /\ drain = "off" /\ list.pc = "off"
    /\ drain' = "look" /\ owed' = unsent
    /\ UNCHANGED <<objectVars, queue, worker, failures, closed, there, askVars>>

\* A request outlives the twenty seconds Shutdown waits for it: ListenAndServe
\* returns an error, and main with it, past Drain and Close.
Overrun ==
    /\ Shutdown /\ drain = "off" /\ (writing # {} \/ list.pc # "off")
    /\ drain' = "skipped" /\ writing' = {} /\ list' = NoList /\ queue' = <<>>
    /\ worker' = [w \in Workers |-> [Resting EXCEPT !.pc = "gone"]]
    /\ UNCHANGED <<stored, unsent, writes, failures, closed, owed, there, asked>>

\* "Nothing in the cache is waiting": nothing that no worker holds.
DrainLook ==
    /\ drain = "look"
    /\ drain' = IF Waiting = <<>> THEN "nothing" ELSE "enqueue"
    /\ UNCHANGED <<objectVars, queue, worker, failures, closed, owed, there, askVars>>

DrainEnqueue ==
    /\ drain = "enqueue"
    /\ queue' = Enqueued(queue, Waiting)
    /\ drain' = "wait"
    /\ UNCHANGED <<objectVars, worker, failures, closed, owed, there, askVars>>

\* Everything is sent, or DrainTimeout has passed and what is left is listed.
DrainEnds ==
    /\ drain = "wait"
    /\ drain' \in {"listed"} \cup (IF unsent = {} THEN {"sent"} ELSE {})
    /\ UNCHANGED <<objectVars, queue, worker, failures, closed, owed, there, askVars>>

Close ==
    /\ drain \in {"nothing", "sent", "listed"} /\ ~closed
    /\ closed' = TRUE
    /\ UNCHANGED <<objectVars, queue, worker, failures, drain, owed, there, askVars>>

\* Close waits for the workers, then closes the journal and gives up the lock.
Closed ==
    /\ closed /\ drain # "closed" /\ \A w \in Workers : Doing(w, "gone")
    /\ drain' = "closed"
    /\ UNCHANGED <<objectVars, queue, worker, failures, closed, owed, there, askVars>>

-----------------------------------------------------------------------------

\* requeueUnsent: what an earlier run left unsent goes back on the queue, the
\* oldest first.
Requeued(left) == Enqueued(<<>>, OldestFirst(left))

\* A start that finds objects the run before has accepted and not sent.
Init ==
    /\ unsent \in SUBSET Paths /\ IsFiniteSet(unsent) /\ writes = Cardinality(unsent) /\ writes <= MaxWrites
    /\ stored \in [Paths -> 0 .. writes]
    /\ \A p \in Paths : stored[p] = 0 <=> p \notin unsent
    /\ \A p, q \in unsent : stored[p] = stored[q] => p = q
    /\ writing = {} /\ queue = Requeued(unsent)
    /\ worker = [w \in Workers |-> Resting] /\ failures = 0
    /\ drain = "off" /\ closed = FALSE /\ owed = {}
    /\ there = {} /\ list = NoList /\ asked = 0

Answer(w) == Succeeds(w) \/ Fails(w) \/ IsRefused(w)
OwnStep(w) == Take(w) \/ Sweep(w) \/ Claim(w) \/ Cancelled(w) \/ End(w) \/ Leave(w)
DrainStep == DrainLook \/ DrainEnqueue \/ DrainEnds \/ Close \/ Closed

Next ==
    \/ \E p \in Paths : PutBegin(p) \/ Commit(p) \/ Abort(p)
    \/ Flush \/ ListBegin \/ ListAnswered \/ ListEnds
    \/ \E w \in Workers : OwnStep(w) \/ Answer(w)
    \/ DrainBegin \/ Overrun \/ DrainStep

Spec == Init /\ [][Next]_vars

\* Workers keep running and Drain goes on to its deadline; uploads may hang.
LiveSpec == Spec /\ WF_vars(DrainStep) /\ \A w \in Workers : WF_vars(OwnStep(w))

-----------------------------------------------------------------------------
(* Properties.                                                              *)

\* What a worker is at, the version it is sending, and the paths it has taken on.
Worker == [pc : {"select", "next", "upload", "end", "gone"}, path : Paths, of : 0 .. MaxWrites,
           todo : Seq(Paths), sweeping : BOOLEAN, superseded : BOOLEAN]

Listing == [pc : {"off", "asked", "merge"},
            shown : SUBSET Paths, owed : SUBSET Paths, sent : SUBSET Paths]

TypeOK ==
    /\ stored \in [Paths -> 0 .. MaxWrites] /\ writes \in 0 .. MaxWrites
    /\ unsent \subseteq Paths /\ writing \subseteq Paths /\ owed \subseteq Paths
    /\ queue \in Seq(Paths) /\ Len(queue) <= Capacity
    /\ worker \in [Workers -> Worker]
    /\ \A w \in Workers :
          Len(worker[w].todo) <= Batch /\ (worker[w].pc = "next" => worker[w].todo # <<>>)
    /\ failures \in 0 .. MaxFailures /\ closed \in BOOLEAN
    /\ drain \in {"off", "look", "enqueue", "wait", "nothing", "sent", "listed", "closed", "skipped"}
    /\ there \subseteq Paths /\ asked \in 0 .. MaxAsks
    /\ list \in Listing

\* OpenDrive answers every upload, in the end.
AnswersCome == \A w \in Workers : WF_vars(Answer(w))

\* Whatever the queue dropped, a worker turned away or a temporary failure left
\* behind is sent in the end, as long as a sweep reaches past what OpenDrive
\* refuses and the daemon runs.
EverythingIsSent ==
    AnswersCome => \A p \in Paths \ Refused : p \in unsent ~> p \notin unsent \/ drain # "off"

\* A listing shows what was accepted before it was asked for, unless that reached
\* upstream between upstream's listing and the look into the cache: nothing falls
\* through elsewhere, not what is being sent or what is superseded (files.go,
\* mergePending; store.go, Unsent).
ListingShowsAccepted == list.pc = "merge" => list.owed \ list.sent \subseteq Merged

\* The daemon can exit: once told to stop, Drain ends, every worker returns, though it
\* may go on picking queued paths before it sees stop (each is turned away) or be in an
\* upload that would never have returned (Close cancels it), and the journal is closed
\* and the lock given up.
ShutdownCompletes == drain = "look" ~> drain = "closed"

-----------------------------------------------------------------------------
(* What the package says of itself and the code does not keep.              *)

\* "The sweep is ... the retry timer for objects whose flush failed for a reason
\* the classifier called temporary."
TemporaryIsRetried == EverythingIsSent

\* "A client that has just been told a write succeeded must see it when it lists
\* the folder" (store.go, Unsent).
ListingIsCurrent == list.pc = "merge" => list.owed \subseteq Merged

\* "The drain happens after the listener has stopped ... and before the process
\* exits" (main.go).
ExitsDrained == drain # "skipped"

\* "It never exits quietly with data unsent": when Drain says nothing is waiting,
\* nothing that was unsent when it began still is.
QuietExitIsSafe == drain = "nothing" => owed \cap unsent = {}
=============================================================================
