--------------------------- MODULE JobEngineProofs ---------------------------
(***************************************************************************)
(* Proofs about JobEngine for every value of its constants: its types, that *)
(* it implements JobContract, and what it does with the records upstream   *)
(* makes for its uploads.                                                  *)
(*                                                                         *)
(* The refinement is about what is on disk when a client is told an end,   *)
(* and several goroutines hold copies of a job to be saved.  The inductive *)
(* invariant, Control, says who has which job, and of each place a worker  *)
(* or a request can be in, which states of the job in memory, of its file  *)
(* and of the copy in hand go together there.                              *)
(*                                                                         *)
(* About upstream's records: none that is whole is deleted, none that is   *)
(* empty is lost track of, and no success is told without the bytes.  A    *)
(* second inductive invariant, Ledger, stands on the first: which record a *)
(* thread has in hand, whose it is, and what upstream shows of it.         *)
(***************************************************************************)
EXTENDS JobEngine, TLAPS

USE AssumeJobs, AssumeThreads, AssumeBounds
USE DEF jobVars, worldVars, lifeVars, pastVars, Threads

Promised   == {"succeeded", "failed"}
Unfinished == {"queued", "running"}

\* Where a worker is with its job.
Resting == {"idle", "gone"}
Running == {"transfer", "look", "waiting", "create", "created", "send", "closed", "returned"}
Ending  == {"reclaim", "delete", "forget", "finish", "record", "show"}
Waiting == {"claim", "snap", "asleep"}

Rests(t) == th[t].pc \in Resting
Runs(w)  == th[w].pc \in Running \/ (th[w].pc = "save" /\ th[w].then \in {"transfer", "send"})
Waits(w) == th[w].pc \in Waiting \/ (th[w].pc = "save" /\ th[w].then = "asleep")
Ends(w)  == th[w].pc \in Ending

\* Where a request is with its.
Submits(u) == th[u].pc \in {"publish", "enqueue", "retract", "withdraw"}
Cancels(u) == th[u].pc \in {"reclaim", "delete", "forget", "save"}

-----------------------------------------------------------------------------
(* The control invariant: who has which job, and what its file says.        *)

\* A worker between two jobs, or with the only hold on one whose states in memory,
\* on disk and in the copy it is about to save fit where the worker is.
WorkerOK(w) ==
    LET j == th[w].job IN
    /\ Rests(w) \/ Runs(w) \/ Waits(w) \/ Ends(w)
    /\ ~Rests(w) => j \in Jobs /\ phase # "down"
    /\ Runs(w) => mem[j].state = "running"
    /\ Waits(w) => mem[j].state \in {"queued", "cancelled"}
    /\ Ends(w) => \/ mem[j].state = "running"
                  \/ mem[j].state \in {"queued", "cancelled"} /\ th[w].goal = "cancelled"
    /\ th[w].pc \in {"save", "record", "show"} => th[w].snap.kind = disk[j].kind
    /\ Runs(w) /\ th[w].pc = "save" => th[w].snap.state = "running"
    /\ Waits(w) /\ th[w].pc = "save" => \/ th[w].snap.state = "queued"
                                        \/ th[w].snap.state = "cancelled" /\ mem[j].state = "cancelled"
    /\ th[w].pc \in {"record", "show"} => th[w].snap.state = th[w].goal
    /\ j \notin unsaved /\ th[w].pc = "show" => disk[j].state = th[w].goal
    /\ j \notin unsaved /\ ~Rests(w) /\ th[w].pc # "show" /\ mem[j].state \in Unfinished
          => disk[j].state \in Unfinished
    /\ th[w].snap.tries <= MaxAttempts + crashes
    /\ th[w].pc = "delete" => th[w].rec # 0

\* A request between two calls, or submitting a job that no worker can have yet, or
\* with one that is cancelled, or was cancelled and then refused by the queue.
UserOK(u) ==
    LET j == th[u].job IN
    /\ th[u].pc = "idle" \/ Submits(u) \/ Cancels(u)
    /\ th[u].pc # "idle" => j \in Jobs /\ phase \in {"up", "ending"}
    /\ Submits(u) => seen[j] = "none" /\ (j \notin unsaved => disk[j].state \in Unfinished \cup {"cancelled"})
    /\ th[u].pc = "publish" => mem[j] = NoJob /\ \E k \in Kinds : disk[j] = NewJob(k)
    /\ th[u].pc \in {"enqueue", "retract"} =>
          /\ mem[j].state \in {"queued", "cancelled"}
          /\ j \notin unsaved /\ mem[j].state = "queued" => disk[j].state \in Unfinished
    /\ th[u].pc = "withdraw" => mem[j] = NoJob
    /\ Cancels(u) => /\ mem[j].state = "cancelled" \/ (mem[j] = NoJob /\ seen[j] \notin Promised)
                     /\ j \notin unsaved => disk[j].state \notin Promised
    /\ th[u].pc = "save" => /\ th[u].then = "idle" /\ th[u].snap.state = "cancelled"
                            /\ th[u].snap.kind = disk[j].kind \/ mem[j] = NoJob
    /\ th[u].snap.tries <= MaxAttempts + crashes
    /\ th[u].pc = "delete" => th[u].rec # 0

JobOK(j) ==
    /\ mem[j].state = "none" => mem[j] = NoJob
    /\ disk[j].state = "none" => disk[j] = NoJob
    /\ older[j].state = "none" => older[j] = NoJob
    /\ mem[j].tries <= MaxAttempts + crashes /\ disk[j].tries <= MaxAttempts + crashes
    /\ older[j].tries <= MaxAttempts + crashes
    /\ mem[j].state = "queued" => mem[j].tries < MaxAttempts + crashes
    /\ phase = "down" \/ j \in todo => mem[j] = NoJob /\ disk[j].tries < MaxAttempts + crashes
    /\ j \in todo => phase = "recover" /\ disk[j].state # "none"
    /\ mem[j].state # "none" => disk[j].state # "none" /\ mem[j].kind = disk[j].kind
    /\ j \notin unsaved /\ mem[j].state \in {"queued", "cancelled"}
          => disk[j].state \in Unfinished \cup {"cancelled"}
    /\ j \notin unsaved /\ seen[j] \in Promised => disk[j].state = seen[j]

QueueOK ==
    /\ \A i \in DOMAIN queue : mem[queue[i]].state \in {"queued", "cancelled"}
    /\ \A i \in DOMAIN queue : queue[i] \notin unsaved /\ mem[queue[i]].state = "queued"
                                  => disk[queue[i]].state \in Unfinished

\* A job is on the queue once, or with one worker, or with one submission; and what
\* is not yet published is with no other request.
OneHolder ==
    /\ \A i, k \in DOMAIN queue : queue[i] = queue[k] => i = k
    /\ \A w \in Workers, i \in DOMAIN queue : ~Rests(w) => queue[i] # th[w].job
    /\ \A v, w \in Workers : ~Rests(v) /\ ~Rests(w) /\ th[v].job = th[w].job => v = w
    /\ \A u \in Users : Submits(u) =>
          /\ \A i \in DOMAIN queue : queue[i] # th[u].job
          /\ \A w \in Workers : ~Rests(w) => th[w].job # th[u].job
    /\ \A u, v \in Users : Submits(u) /\ Submits(v) /\ th[v].job = th[u].job => u = v
    /\ \A u, v \in Users : th[u].pc = "publish" /\ th[v].pc # "idle" /\ th[v].job = th[u].job => u = v

Control ==
    /\ TypeOK /\ QueueOK /\ OneHolder
    /\ \A w \in Workers : WorkerOK(w)
    /\ \A u \in Users : UserOK(u)
    /\ \A j \in Jobs : JobOK(j)

-----------------------------------------------------------------------------
(* The records threads are left with.                                       *)

LEMMA IdleTyped ==
    /\ NoJob \in Job /\ NoJob.state = "none" /\ NoJob.tries = 0 /\ NoJob.rec = 0
    /\ Idle \in Thread /\ Idle.pc = "idle" /\ Idle.snap = NoJob /\ Idle.rec = 0
    /\ \A k \in Kinds : /\ NewJob(k) \in Job /\ NewJob(k).state = "queued"
                        /\ NewJob(k).tries = 0 /\ NewJob(k).rec = 0 /\ NewJob(k).kind = k
<1>1. NoJob \in Job /\ NoJob.state = "none" /\ NoJob.tries = 0 /\ NoJob.rec = 0
  BY DEF NoJob, Job, States
<1>2. Idle \in Thread /\ Idle.pc = "idle" /\ Idle.snap = NoJob /\ Idle.rec = 0
  BY <1>1 DEF Idle, Thread, Labels, Terminal
<1>3. ASSUME NEW k \in Kinds
      PROVE  /\ NewJob(k) \in Job /\ NewJob(k).state = "queued"
             /\ NewJob(k).tries = 0 /\ NewJob(k).rec = 0 /\ NewJob(k).kind = k
  BY <1>1 DEF NewJob, Job, States
<1> QED BY <1>1, <1>2, <1>3

\* The thread t is the only one that moves, and its record becomes x.
Becomes(t, x) == /\ x \in Thread /\ th' = [th EXCEPT ![t] = x] /\ th'[t] = x
                 /\ th' \in [Threads -> Thread]
                 /\ \A u \in Threads : u # t => th'[u] = th[u]

LEMMA Becoming ==
    ASSUME TypeOK, NEW t \in Threads, NEW x \in Thread, th' = [th EXCEPT ![t] = x]
    PROVE  Becomes(t, x)
BY DEF TypeOK, Becomes

LEMMA Relabelled ==
    ASSUME TypeOK, NEW t \in Threads, NEW l \in Labels \ {"idle"}, Goto(t, l)
    PROVE  Becomes(t, [th[t] EXCEPT !.pc = l])
<1>1. th[t] \in Thread
  BY DEF TypeOK
<1>2. [th[t] EXCEPT !.pc = l] \in Thread
  BY <1>1 DEF Thread
<1> QED BY <1>2, Becoming DEF Goto

\* A copy of the job to be saved, and where to go on then.
LEMMA Persisting ==
    ASSUME TypeOK, NEW t \in Threads, NEW j \in Job, NEW l \in Labels, Persist(t, j, l)
    PROVE  Becomes(t, [th[t] EXCEPT !.pc = "save", !.then = l, !.snap = j])
<1>1. th[t] \in Thread
  BY DEF TypeOK
<1>2. [th[t] EXCEPT !.pc = "save", !.then = l, !.snap = j] \in Thread
  BY <1>1 DEF Thread, Labels
<1> QED BY <1>2, Becoming DEF Persist

LEMMA Returned ==
    ASSUME TypeOK, NEW w \in Workers, NEW e \in {"ok", "canceled"} \cup Failures, Return(w, e)
    PROVE  /\ Becomes(w, th'[w])
           /\ th'[w].pc = "returned" /\ th'[w].job = th[w].job /\ th'[w].res = e
           /\ th'[w].snap = NoJob /\ th'[w].rec = 0
<1> DEFINE x == [Idle EXCEPT !.pc = "returned", !.job = th[w].job, !.res = e]
<1>1. /\ x \in Thread /\ x.pc = "returned" /\ x.job = th[w].job /\ x.res = e
      /\ x.snap = NoJob /\ x.rec = 0
  <2>1. Idle \in Thread /\ th[w] \in Thread
    BY IdleTyped DEF TypeOK
  <2> QED BY <2>1, IdleTyped DEF Thread, Labels
<1>2. Becomes(w, x)
  BY <1>1, Becoming DEF Return
<1> QED BY <1>1, <1>2 DEF Becomes

-----------------------------------------------------------------------------
(* One thread with a job of its own: the others are not disturbed.          *)

\* The step changes nothing of the jobs and threads but t's.
OnlyMine(t) ==
    /\ \A u \in Threads : u # t => th'[u] = th[u]
    /\ \A j \in Jobs : j # th[t].job =>
          mem'[j] = mem[j] /\ disk'[j] = disk[j] /\ older'[j] = older[j] /\ seen'[j] = seen[j]
    /\ unsaved' \in {unsaved, unsaved \cup {th[t].job}}
    /\ UNCHANGED lifeVars

\* What a worker does to its job leaves alone the other threads, and the requests
\* that have cancelled the same job.
LEMMA WorkerKeeps ==
    ASSUME Control, NEW w \in Workers, NEW j \in Jobs, ~Rests(w), th[w].job = j,
           OnlyMine(w), UNCHANGED queue, Rests(w)' \/ th'[w].job = j,
           mem[j].state = "cancelled" => mem'[j].state = "cancelled",
           disk'[j].kind = disk[j].kind,
           TypeOK', WorkerOK(w)', JobOK(j)'
    PROVE  Control'
<1>1. mem[j].state # "none"
  BY DEF Control, WorkerOK, Rests, Runs, Waits, Ends
<1>2. ASSUME NEW v \in Workers, v # w PROVE WorkerOK(v)'
  <2>1. th'[v] = th[v] BY <1>2 DEF OnlyMine
  <2>2. CASE Rests(v)
    BY <2>1, <2>2 DEF Control, WorkerOK, OnlyMine, Rests, Runs, Waits, Ends, Running, Waiting, Ending, Resting
  <2>3. CASE ~Rests(v)
    <3>1. th[v].job # j /\ th[v].job \in Jobs
      BY <1>2, <2>3 DEF Control, OneHolder, WorkerOK
    <3> QED BY <2>1, <3>1 DEF Control, WorkerOK, OnlyMine, Rests, Runs, Waits, Ends
  <2> QED BY <2>2, <2>3
<1>3. ASSUME NEW u \in Users PROVE UserOK(u)'
  <2>1. th'[u] = th[u] BY DEF OnlyMine
  <2>2. CASE th[u].job # j
    BY <2>1, <2>2 DEF Control, UserOK, OnlyMine, Submits, Cancels
  <2>3. CASE th[u].job = j
    <3>1. ~Submits(u)
      BY <2>3 DEF Control, OneHolder
    <3>2. UserOK(u) /\ th[u].pc \notin {"publish", "enqueue", "retract", "withdraw"}
      BY <3>1 DEF Control, Submits
    <3>3. Cancels(u) => mem[j].state = "cancelled"
      BY <1>1, <2>3, <3>2, IdleTyped DEF UserOK
    <3> QED BY <2>1, <2>3, <3>2, <3>3, IdleTyped DEF UserOK, JobOK, OnlyMine, Submits, Cancels, Promised, Unfinished
  <2> QED BY <2>2, <2>3
<1>4. ASSUME NEW k \in Jobs PROVE JobOK(k)'
  <2>1. CASE k = j BY <2>1
  <2>2. CASE k # j
    BY <2>2 DEF Control, JobOK, OnlyMine
  <2> QED BY <2>1, <2>2
<1>5. QueueOK'
  BY DEF Control, QueueOK, OnlyMine, OneHolder, TypeOK
<1>6. OneHolder'
  BY <1>1 DEF Control, OneHolder, OnlyMine, Rests, Submits
<1> QED BY <1>2, <1>3, <1>4, <1>5, <1>6 DEF Control

-----------------------------------------------------------------------------
(* A worker moves on: only its own record changes.                          *)

\* What the step leaves alone of what Control is about.
Still == UNCHANGED <<mem, disk, older, queue, lifeVars, seen, unsaved>>

LEMMA MovesOn ==
    ASSUME Control, NEW w \in Workers, Still, th[w].job \in Jobs, ~Rests(w),
           Becomes(w, th'[w]), th'[w].job = th[w].job, TypeOK', WorkerOK(w)'
    PROVE  Control'
<1>1. OnlyMine(w)
  BY DEF OnlyMine, Still, Becomes
<1>2. \A k \in Jobs : JobOK(k)'
  BY DEF Control, JobOK, Still
<1> QED BY <1>1, <1>2, WorkerKeeps DEF Still

\* The same for a request that submits nothing, and takes up no other job.
LEMMA RequestMovesOn ==
    ASSUME Control, NEW u \in Users, Still, Becomes(u, th'[u]), ~Submits(u)', TypeOK', UserOK(u)',
           th'[u].pc = "idle" \/ (th'[u].job = th[u].job /\ th[u].pc # "idle")
    PROVE  Control'
<1>1. ASSUME NEW w \in Workers PROVE WorkerOK(w)'
  <2>1. th'[w] = th[w]
    BY DEF Becomes
  <2> QED BY <2>1 DEF Control, WorkerOK, Still, Rests, Runs, Waits, Ends
<1>2. ASSUME NEW v \in Users, v # u PROVE UserOK(v)'
  <2>1. th'[v] = th[v]
    BY <1>2 DEF Becomes
  <2> QED BY <2>1 DEF Control, UserOK, Still, Submits, Cancels
<1>3. \A j \in Jobs : JobOK(j)'
  BY DEF Control, JobOK, Still
<1>4. QueueOK'
  BY DEF Control, QueueOK, Still
<1>5. OneHolder'
  BY DEF Control, OneHolder, Still, Becomes, Rests, Submits
<1> QED BY <1>1, <1>2, <1>3, <1>4, <1>5 DEF Control

\* The stages of a transfer.
Stage(w) ==
    \/ Download(w) \/ CacheUpload(w) \/ Look(w) \/ Waited(w)
    \/ Create(w) \/ CreateUnheard(w) \/ Send(w) \/ StageFails(w)

\* A stage either goes on to another with the same record, or returns.
LEMMA StageMoves ==
    ASSUME Control, NEW w \in Workers, Stage(w)
    PROVE  /\ Still /\ th[w].pc \in Running /\ Becomes(w, th'[w])
           /\ th'[w].pc \in Running
           /\ th'[w].job = th[w].job /\ th'[w].snap \in {th[w].snap, NoJob}
<1> USE DEF Still, Running, At, Becomes
<1>1. th[w] \in Thread /\ TypeOK
  BY DEF Control, TypeOK
<1>2. CASE Download(w) \/ Waited(w)
  BY <1>1, <1>2, Returned DEF Download, Waited
<1>3. CASE Look(w)
  <2>1. th[w].pc = "look" /\ Still BY <1>3 DEF Look
  <2>2. CASE Return(w, "permanent")
    BY <1>1, <2>1, <2>2, Returned DEF Failures
  <2>3. CASE Goto(w, "waiting")
    <3>1. Becomes(w, [th[w] EXCEPT !.pc = "waiting"])
      BY <1>1, <2>3, Relabelled DEF Labels
    <3> QED BY <1>1, <2>1, <3>1 DEF Thread
  <2> QED BY <1>3, <2>2, <2>3 DEF Look
<1>4. CASE StageFails(w)
  <2>1. PICK e \in {"ok", "canceled"} \cup Failures : Return(w, e)
    BY <1>4 DEF StageFails, Errors
  <2> QED BY <1>1, <1>4, <2>1, Returned DEF StageFails
<1>8. CASE CreateUnheard(w)
  <2>1. PICK e \in {"ok", "canceled"} \cup Failures : Return(w, e)
    BY <1>8 DEF CreateUnheard, Errors
  <2> QED BY <1>1, <1>8, <2>1, Returned DEF CreateUnheard
<1>5. CASE CacheUpload(w)
  <2>1. Goto(w, "look") \/ Goto(w, "create")
    BY <1>5 DEF CacheUpload
  <2>2. Becomes(w, [th[w] EXCEPT !.pc = "look"]) \/ Becomes(w, [th[w] EXCEPT !.pc = "create"])
    BY <1>1, <2>1, Relabelled DEF Labels
  <2> QED BY <1>1, <1>5, <2>2 DEF CacheUpload, Thread
<1>6. CASE Create(w)
  <2>1. PICK r \in Records : th' = [th EXCEPT ![w].pc = "created", ![w].rec = r]
    BY <1>6 DEF Create
  <2>2. [th[w] EXCEPT !.pc = "created", !.rec = r] \in Thread
    BY <1>1 DEF Thread, Labels
  <2>3. Becomes(w, [th[w] EXCEPT !.pc = "created", !.rec = r])
    BY <1>1, <2>1, <2>2, Becoming DEF TypeOK
  <2> QED BY <1>1, <1>6, <2>3 DEF Create, Thread
<1>7. CASE Send(w)
  <2>1. Becomes(w, [th[w] EXCEPT !.pc = "closed"])
    BY <1>1, <1>7, Relabelled DEF Send, Labels
  <2> QED BY <1>1, <1>7, <2>1 DEF Send, Thread
<1> QED BY <1>2, <1>3, <1>4, <1>5, <1>6, <1>7, <1>8 DEF Stage

LEMMA StageKeeps ==
    ASSUME Control, NEW w \in Workers, Stage(w)
    PROVE  Control'
<1>1. /\ Still /\ th[w].pc \in Running /\ Becomes(w, th'[w]) /\ th'[w].pc \in Running
      /\ th'[w].job = th[w].job /\ th'[w].snap \in {th[w].snap, NoJob}
  BY StageMoves
<1>2. th[w].job \in Jobs /\ ~Rests(w)
  BY <1>1 DEF Control, WorkerOK, Rests, Resting, Running
<1>3. TypeOK'
  <2>1. /\ UNCHANGED cancels /\ obj' \in [Jobs -> {"absent", "unsent", "clean", "foreign"}]
        /\ delivered' \subseteq Jobs /\ displaced' \subseteq Jobs /\ refused' \subseteq Jobs
        /\ givenUp' \subseteq Records
    BY <1>2 DEF Stage, Download, CacheUpload, PutLocalFile, Look, Waited, Create, CreateUnheard, Send,
                StageFails, Control, TypeOK
  <2>2. /\ up' \in [Records -> {"none", "empty", "whole", "theirs", "gone"}]
        /\ owner' \in [Records -> Jobs \cup {NoJobId}]
    <3>1. CASE Create(w) \/ CreateUnheard(w)
      <4>1. PICK r \in Records : MakesRecord(th[w].job, r)
        BY <3>1 DEF Create, CreateUnheard
      <4>2. PICK made \in {"empty", "theirs"} : up' = [up EXCEPT ![r] = made]
        BY <4>1 DEF MakesRecord
      <4> QED BY <1>2, <4>1, <4>2 DEF MakesRecord, Control, TypeOK
    <3>2. CASE ~(Create(w) \/ CreateUnheard(w))
      BY <1>2, <3>2 DEF Stage, Download, CacheUpload, Look, Waited, Send, StageFails, Control, TypeOK
    <3> QED BY <3>1, <3>2
  <2> QED BY <1>1, <2>1, <2>2 DEF Control, TypeOK, Still, Becomes
<1>4. WorkerOK(w)'
  <2>1. WorkerOK(w) /\ Runs(w) /\ crashes \in Nat
    BY <1>1 DEF Control, Runs, TypeOK
  <2> QED BY <1>1, <1>2, <2>1, IdleTyped DEF WorkerOK, Still, Rests, Runs, Waits, Ends, Resting, Running, Waiting, Ending
<1> QED BY <1>1, <1>2, <1>3, <1>4, MovesOn

\* The verdict on a transfer, with nothing said of it yet.
LEMMA VerdictKeeps ==
    ASSUME Control, NEW w \in Workers, Succeed(w) \/ Cancelled(w) \/ GiveUp(w)
    PROVE  Control'
<1>1. th[w] \in Thread /\ TypeOK /\ crashes \in Nat
  BY DEF Control, TypeOK
<1>2. PICK l \in {"finish", "reclaim"}, g \in Terminal : Ended(w, l, g)
  BY DEF Succeed, Cancelled, GiveUp, Terminal
<1>3. th[w].pc = "returned" /\ Runs(w) /\ WorkerOK(w)
  BY DEF Succeed, Cancelled, GiveUp, At, Control, Runs, Running
<1>4. th[w].job \in Jobs /\ ~Rests(w) /\ mem[th[w].job].state = "running"
  BY <1>3 DEF WorkerOK, Rests, Resting
<1> DEFINE x == [Idle EXCEPT !.pc = l, !.job = th[w].job, !.goal = g, !.rec = Mine(w).rec]
<1>5. x \in Thread /\ x.pc = l /\ x.job = th[w].job /\ x.goal = g /\ x.snap = NoJob
  <2>1. Mine(w).rec \in Records \cup {0}
    BY <1>1, <1>4 DEF TypeOK, Mine, Job
  <2> QED BY <1>1, <2>1, IdleTyped DEF Thread, Labels
<1>6. Becomes(w, x)
  BY <1>1, <1>2, <1>5, Becoming DEF Ended
<1>7. Still /\ TypeOK'
  BY <1>1, <1>2, <1>4, <1>6 DEF Ended, Still, Becomes, TypeOK
<1>8. WorkerOK(w)'
  BY <1>1, <1>3, <1>4, <1>5, <1>6, <1>7, IdleTyped
  DEF WorkerOK, Still, Becomes, Rests, Runs, Waits, Ends, Resting, Running, Waiting, Ending
<1> QED BY <1>4, <1>5, <1>6, <1>7, <1>8, MovesOn DEF Becomes

LEMMA SnapKeeps ==
    ASSUME Control, NEW w \in Workers, Snap(w)
    PROVE  Control'
<1>1. th[w] \in Thread /\ TypeOK /\ crashes \in Nat
  BY DEF Control, TypeOK
<1>2. th[w].pc = "snap" /\ Waits(w) /\ WorkerOK(w)
  BY DEF Snap, At, Control, Waits, Waiting
<1>3. th[w].job \in Jobs /\ ~Rests(w) /\ Mine(w) \in Job
  BY <1>1, <1>2 DEF WorkerOK, Rests, Resting, TypeOK, Mine
<1>4. Becomes(w, [th[w] EXCEPT !.pc = "save", !.then = "asleep", !.snap = Mine(w)])
  BY <1>1, <1>3, Persisting DEF Snap, Labels
<1>5. /\ th'[w].pc = "save" /\ th'[w].then = "asleep" /\ th'[w].snap = Mine(w)
      /\ th'[w].job = th[w].job /\ Becomes(w, th'[w])
  BY <1>1, <1>4 DEF Becomes, Thread
<1>6. Still /\ TypeOK'
  BY <1>1, <1>5 DEF Snap, Still, Becomes, TypeOK
<1>7. WorkerOK(w)'
  BY <1>1, <1>2, <1>3, <1>5, <1>6
  DEF WorkerOK, Control, JobOK, Mine, Still, Rests, Runs, Waits, Ends, Resting, Running, Waiting, Ending
<1> QED BY <1>3, <1>5, <1>6, <1>7, MovesOn

LEMMA WakeKeeps ==
    ASSUME Control, NEW w \in Workers, Wake(w)
    PROVE  Control'
<1>1. th[w] \in Thread /\ TypeOK /\ crashes \in Nat
  BY DEF Control, TypeOK
<1>2. th[w].pc = "asleep" /\ Waits(w) /\ WorkerOK(w)
  BY DEF Wake, At, Control, Waits, Waiting
<1>3. th[w].job \in Jobs /\ ~Rests(w) /\ Mine(w) \in Job
  BY <1>1, <1>2 DEF WorkerOK, Rests, Resting, TypeOK, Mine
<1>4. /\ Becomes(w, th'[w]) /\ th'[w].job = th[w].job /\ th'[w].snap = th[w].snap
      /\ th'[w].pc = "claim" \/ (th'[w].pc = "reclaim" /\ th'[w].goal = "cancelled")
  <2>1. CASE phase = "ending"
    <3> DEFINE x == [th[w] EXCEPT !.pc = "reclaim", !.goal = "cancelled", !.rec = Mine(w).rec]
    <3>1. Mine(w).rec \in Records \cup {0}
      BY <1>3 DEF Job
    <3>2. x \in Thread
      BY <1>1, <3>1 DEF Thread, Labels, Terminal
    <3>3. Becomes(w, x)
      <4>1. th' = [th EXCEPT ![w] = x]
        BY <1>1, <2>1 DEF Wake, TypeOK
      <4> QED BY <1>1, <3>2, <4>1, Becoming
    <3> QED BY <1>1, <3>3 DEF Becomes, Thread
  <2>2. CASE phase # "ending"
    <3>1. Becomes(w, [th[w] EXCEPT !.pc = "claim"])
      BY <1>1, <2>2, Relabelled DEF Wake, Labels
    <3> QED BY <1>1, <3>1 DEF Becomes, Thread
  <2> QED BY <2>1, <2>2
<1>5. Still /\ TypeOK'
  BY <1>1, <1>4 DEF Wake, Still, Becomes, TypeOK
<1>6. WorkerOK(w)'
  BY <1>1, <1>2, <1>3, <1>4, <1>5
  DEF WorkerOK, Still, Rests, Runs, Waits, Ends, Resting, Running, Waiting, Ending
<1> QED BY <1>3, <1>4, <1>5, <1>6, MovesOn

LEMMA FinishKeeps ==
    ASSUME Control, NEW w \in Workers, Finish(w)
    PROVE  Control'
<1>1. th[w] \in Thread /\ TypeOK /\ crashes \in Nat
  BY DEF Control, TypeOK
<1>2. th[w].pc = "finish" /\ Ends(w) /\ WorkerOK(w)
  BY DEF Finish, At, Control, Ends, Ending
<1>3. th[w].job \in Jobs /\ ~Rests(w) /\ Mine(w) \in Job
  BY <1>1, <1>2 DEF WorkerOK, Rests, Resting, TypeOK, Mine
<1> DEFINE c == [Mine(w) EXCEPT !.state = th[w].goal]
           x == [th[w] EXCEPT !.snap = c, !.pc = "record"]
<1>4. /\ c \in Job /\ c.state = th[w].goal
      /\ c.rec = Mine(w).rec /\ c.kind = Mine(w).kind /\ c.tries = Mine(w).tries
  BY <1>1, <1>3 DEF Job, States, Thread, Terminal
<1>5. x \in Thread /\ x.pc = "record" /\ x.job = th[w].job /\ x.goal = th[w].goal /\ x.snap = c
  BY <1>1, <1>4 DEF Thread, Labels
<1>6. Becomes(w, x)
  <2>1. th' = [th EXCEPT ![w] = x]
    BY <1>1 DEF Finish, TypeOK
  <2> QED BY <1>1, <1>5, <2>1, Becoming
<1>7. Still /\ TypeOK'
  BY <1>1, <1>6 DEF Finish, Still, Becomes, TypeOK
<1>8. WorkerOK(w)'
  <2>1. mem[th[w].job].kind = disk[th[w].job].kind /\ mem[th[w].job].tries <= MaxAttempts + crashes
    BY <1>2, <1>3 DEF Control, WorkerOK, JobOK, Ends
  <2> QED
    BY <1>1, <1>2, <1>3, <1>4, <1>5, <1>6, <1>7, <2>1
    DEF WorkerOK, Still, Becomes, Mine, Rests, Runs, Waits, Ends, Resting, Running, Waiting, Ending
<1> QED BY <1>3, <1>5, <1>6, <1>7, <1>8, MovesOn DEF Becomes

\* A step of the reclaim, by a worker or by a request.
LEMMA ReclaimMoves ==
    ASSUME Control, NEW t \in Threads, Reclaim(t) \/ Delete(t)
    PROVE  /\ th[t].pc \in {"reclaim", "delete"}
           /\ th[t].job \in Jobs /\ th[t] \in Thread
           /\ Becomes(t, th'[t]) /\ th'[t].pc \in {"delete", "forget"}
           /\ th'[t].pc = "delete" => th[t].rec # 0
           /\ th'[t].job = th[t].job /\ th'[t].snap = th[t].snap /\ th'[t].then = th[t].then
           /\ th'[t].goal = th[t].goal /\ th'[t].rec = th[t].rec
           /\ Still /\ TypeOK'
<1>1. th[t] \in Thread /\ TypeOK
  BY DEF Control, TypeOK
<1>2. th[t].pc \in {"reclaim", "delete"}
  BY DEF Reclaim, Delete, At
<1>3. th[t].job \in Jobs
  BY <1>2 DEF Control, WorkerOK, UserOK, Rests, Resting
<1>4. PICK l \in {"delete", "forget"} : Goto(t, l) /\ (l = "delete" => th[t].rec # 0)
  BY DEF Reclaim, Delete, Candidate
<1>5. Becomes(t, [th[t] EXCEPT !.pc = l])
  BY <1>1, <1>4, Relabelled DEF Labels
<1>6. Still
  BY DEF Still, Reclaim, Delete
<1>7. TypeOK'
  <2>1. CASE Reclaim(t)
    <3>1. givenUp' \subseteq Records
      <4>1. CASE givenUp' = givenUp \cup {th[t].rec} /\ Candidate(th[t].rec, Mine(t))
        BY <1>1, <4>1 DEF TypeOK, Candidate, Thread
      <4>2. CASE givenUp' = givenUp \cup Exempt(th[t].rec, Mine(t))
        BY <1>1, <4>2 DEF TypeOK, Exempt, Thread
      <4> QED BY <1>1, <2>1, <4>1, <4>2 DEF TypeOK, Reclaim
    <3> QED BY <1>1, <1>5, <2>1, <3>1 DEF TypeOK, Reclaim, Becomes
  <2>2. CASE Delete(t)
    <3>1. th[t].rec \in Records
      BY <1>1, <2>2 DEF Thread, Delete, At, Control, WorkerOK, UserOK
    <3>2. up' \in [Records -> {"none", "empty", "whole", "theirs", "gone"}]
      BY <1>1, <2>2 DEF TypeOK, Delete
    <3> QED BY <1>1, <1>5, <2>2, <3>1, <3>2 DEF TypeOK, Delete, Becomes
  <2> QED BY <2>1, <2>2
<1>8. /\ Becomes(t, th'[t]) /\ th'[t].pc = l
      /\ th'[t].job = th[t].job /\ th'[t].snap = th[t].snap /\ th'[t].then = th[t].then
      /\ th'[t].goal = th[t].goal /\ th'[t].rec = th[t].rec
  BY <1>1, <1>5 DEF Becomes, Thread
<1> QED BY <1>1, <1>2, <1>3, <1>4, <1>6, <1>7, <1>8

LEMMA ReclaimKeeps ==
    ASSUME Control, NEW t \in Threads, Reclaim(t) \/ Delete(t)
    PROVE  Control'
<1>1. /\ th[t].pc \in {"reclaim", "delete"} /\ th[t].job \in Jobs /\ Still /\ TypeOK'
      /\ Becomes(t, th'[t]) /\ th'[t].pc \in {"delete", "forget"}
      /\ th'[t].pc = "delete" => th[t].rec # 0
      /\ th'[t].job = th[t].job /\ th'[t].snap = th[t].snap /\ th'[t].then = th[t].then
      /\ th'[t].goal = th[t].goal /\ th'[t].rec = th[t].rec
  BY ReclaimMoves
<1>2. CASE t \in Workers
  <2>1. WorkerOK(t)'
    BY <1>1, <1>2
    DEF Control, WorkerOK, Still, Rests, Runs, Waits, Ends, Resting, Running, Waiting, Ending
  <2> QED BY <1>1, <1>2, <2>1, MovesOn DEF Rests, Resting
<1>3. CASE t \in Users
  <2>1. UserOK(t)'
    BY <1>1, <1>3 DEF Control, UserOK, Still, Submits, Cancels
  <2>2. ~Submits(t)'
    BY <1>1 DEF Submits
  <2>3. th[t].pc # "idle"
    BY <1>1
  <2> QED BY <1>1, <1>3, <2>1, <2>2, <2>3, RequestMovesOn
<1> QED BY <1>2, <1>3

-----------------------------------------------------------------------------
(* A worker changes its job, in memory or on disk.                          *)

\* A worker that is not between two jobs.
LEMMA AtWork ==
    ASSUME Control, NEW w \in Workers, ~Rests(w)
    PROVE  /\ th[w] \in Thread /\ TypeOK /\ WorkerOK(w) /\ th[w].job \in Jobs
           /\ Mine(w) \in Job /\ JobOK(th[w].job) /\ crashes \in Nat /\ phase # "down"
BY DEF Control, TypeOK, WorkerOK, Mine

\* A changed job in memory is the only one changed.
LEMMA SetsMine ==
    ASSUME Control, NEW t \in Threads, NEW j \in Job, th[t].job \in Jobs, SetMine(t, j)
    PROVE  /\ mem' \in [Jobs -> Job] /\ mem'[th[t].job] = j
           /\ \A k \in Jobs : k # th[t].job => mem'[k] = mem[k]
BY DEF SetMine, Control, TypeOK

LEMMA ClaimKeeps ==
    ASSUME Control, NEW w \in Workers, Claim(w)
    PROVE  Control'
<1>1. th[w].pc = "claim" /\ ~Rests(w) /\ Waits(w)
  BY DEF Claim, At, Rests, Resting, Waits, Waiting
<1>2. PICK j \in Jobs : th[w].job = j
  BY <1>1, AtWork
<1>3. /\ th[w] \in Thread /\ TypeOK /\ WorkerOK(w) /\ j \in Jobs
      /\ Mine(w) \in Job /\ JobOK(j) /\ crashes \in Nat /\ phase # "down"
  BY <1>1, <1>2, AtWork
<1>4. CASE mem[j].state \in Terminal \cup {"none"}
  <2>1. Becomes(w, Idle) /\ Still /\ UNCHANGED cancels
    BY <1>2, <1>3, <1>4, IdleTyped, Becoming DEF Claim, Still
  <2>2. TypeOK'
    BY <1>3, <2>1 DEF Claim, TypeOK, Still, Becomes
  <2>3. WorkerOK(w)'
    BY <1>2, <1>3, <2>1, IdleTyped DEF WorkerOK, JobOK, Becomes, Still, Rests, Runs, Waits, Ends, Resting, Running, Waiting, Ending
  <2>4. JobOK(j)' /\ OnlyMine(w)
    BY <1>2, <1>3, <2>1 DEF JobOK, Still, OnlyMine, Becomes
  <2> QED BY <1>1, <1>2, <1>3, <2>1, <2>2, <2>3, <2>4, IdleTyped, WorkerKeeps DEF Still, Becomes, Rests, Resting
<1>5. CASE mem[j].state \notin Terminal \cup {"none"}
  <2>1. mem[j].state = "queued" /\ (j \notin unsaved => disk[j].state \in Unfinished)
    BY <1>1, <1>2, <1>3, <1>5 DEF WorkerOK, Terminal, Unfinished
  <2> DEFINE m == [mem[j] EXCEPT !.state = "running", !.tries = @ + 1]
             x == [Idle EXCEPT !.pc = "save", !.then = "transfer", !.job = j, !.snap = m]
  <2>2. mem[j] \in Job /\ mem[j].tries \in Nat
    BY <1>3 DEF TypeOK, Job
  <2>3. /\ m \in Job /\ m.state = "running" /\ m.tries = mem[j].tries + 1
        /\ m.rec = mem[j].rec /\ m.kind = mem[j].kind
    <3>1. mem[j].tries + 1 \in 0 .. MaxAttempts + MaxCrashes
      BY <1>3, <2>1, <2>2 DEF TypeOK, JobOK, Job
    <3> QED BY <2>2, <3>1 DEF Job, States
  <2>4. /\ mem' = [mem EXCEPT ![j] = m] /\ mem'[j] = m /\ mem' \in [Jobs -> Job]
        /\ \A k \in Jobs : k # j => mem'[k] = mem[k]
    <3>1. mem' = [mem EXCEPT ![j].state = "running", ![j].tries = @ + 1]
      BY <1>2, <1>3, <1>5 DEF Claim
    <3>2. mem' = [mem EXCEPT ![j] = m]
      BY <1>3, <2>2, <3>1 DEF TypeOK, Job
    <3> QED BY <1>3, <2>3, <3>2 DEF TypeOK
  <2>5. /\ x \in Thread /\ x.pc = "save" /\ x.then = "transfer" /\ x.job = j /\ x.snap = m
    BY <1>3, <2>3, IdleTyped DEF Thread, Labels
  <2>6. Becomes(w, x)
    <3>1. th' = [th EXCEPT ![w] = x]
      BY <1>2, <1>5, <2>4 DEF Claim
    <3> QED BY <1>3, <2>5, <3>1, Becoming
  <2>7. TypeOK' /\ UNCHANGED <<disk, older, queue, lifeVars, seen, unsaved>>
    <3>1. /\ UNCHANGED <<disk, older, queue, worldVars, lifeVars, pastVars>>
          /\ cancels' = [cancels EXCEPT ![j] = w]
      BY <1>2, <1>5 DEF Claim
    <3>2. cancels' \in [Jobs -> Workers \cup {NoWorker}]
      BY <1>3, <3>1 DEF TypeOK
    <3> QED BY <1>3, <2>4, <2>6, <3>1, <3>2 DEF TypeOK, Becomes
  <2>8. OnlyMine(w)
    BY <1>2, <2>4, <2>6, <2>7 DEF OnlyMine, Becomes
  <2> HIDE DEF m, x
  <2>9. WorkerOK(w)' /\ JobOK(j)'
    <3>1. WorkerOK(w)'
      BY <1>1, <1>2, <1>3, <2>1, <2>2, <2>3, <2>4, <2>5, <2>6, <2>7, IdleTyped
      DEF WorkerOK, JobOK, Unfinished, Becomes, Rests, Runs, Waits, Ends, Resting, Running, Waiting, Ending
    <3>2. JobOK(j)'
      BY <1>1, <1>2, <1>3, <2>1, <2>2, <2>3, <2>4, <2>5, <2>6, <2>7, IdleTyped
      DEF JobOK, Unfinished, Becomes
    <3> QED BY <3>1, <3>2
  <2> QED BY <1>1, <1>2, <1>3, <2>1, <2>5, <2>6, <2>7, <2>8, <2>9, WorkerKeeps DEF Becomes
<1> QED BY <1>4, <1>5

\* OnRecordCreated and the end of a transfer change which record the job names.
LEMMA CreatedKeeps ==
    ASSUME Control, NEW w \in Workers, Created(w)
    PROVE  Control'
<1>1. th[w].pc = "created" /\ ~Rests(w) /\ Runs(w)
  BY DEF Created, At, Rests, Resting, Runs, Running
<1>2. PICK j \in Jobs : th[w].job = j
  BY <1>1, AtWork
<1>3. /\ th[w] \in Thread /\ TypeOK /\ WorkerOK(w) /\ mem[j] \in Job /\ Mine(w) = mem[j]
      /\ JobOK(j) /\ crashes \in Nat /\ phase # "down"
  BY <1>1, <1>2, AtWork DEF Mine
<1>4. mem[j].state = "running" /\ (j \notin unsaved => disk[j].state \in Unfinished)
  BY <1>1, <1>2, <1>3 DEF WorkerOK, Unfinished
<1> DEFINE m == [mem[j] EXCEPT !.rec = th[w].rec]
           x == [th[w] EXCEPT !.pc = "save", !.then = "send", !.snap = m]
<1>5. /\ m \in Job /\ m.state = mem[j].state /\ m.tries = mem[j].tries /\ m.kind = mem[j].kind
  BY <1>3 DEF Job, Thread
<1>6. /\ mem' \in [Jobs -> Job] /\ mem'[j] = m
      /\ \A k \in Jobs : k # j => mem'[k] = mem[k]
  BY <1>2, <1>3, <1>5, SetsMine DEF Created
<1>7. Becomes(w, x) /\ x.pc = "save" /\ x.then = "send" /\ x.job = j /\ x.snap = m
  <2>1. Persist(w, m, "send")
    BY <1>2, <1>6 DEF Created
  <2>2. Becomes(w, x)
    BY <1>3, <1>5, <2>1, Persisting DEF Labels
  <2> QED BY <1>2, <1>3, <2>2 DEF Thread
<1>8. UNCHANGED <<disk, older, queue, cancels, worldVars, lifeVars, seen, displaced, delivered, unsaved>>
  BY DEF Created
<1>9. TypeOK'
  <2>1. givenUp' \subseteq Records
    BY <1>3 DEF Created, TypeOK, Job
  <2> QED BY <1>3, <1>6, <1>7, <1>8, <2>1 DEF TypeOK, Becomes
<1>10. OnlyMine(w)
  BY <1>2, <1>6, <1>7, <1>8 DEF OnlyMine, Becomes
<1> HIDE DEF m, x
<1>11. WorkerOK(w)' /\ JobOK(j)'
  <2>1. WorkerOK(w)'
    BY <1>1, <1>2, <1>3, <1>4, <1>5, <1>6, <1>7, <1>8, IdleTyped
    DEF WorkerOK, JobOK, Becomes, Rests, Runs, Waits, Ends, Resting, Running, Waiting, Ending
  <2>2. JobOK(j)'
    BY <1>1, <1>2, <1>3, <1>4, <1>5, <1>6, <1>7, <1>8, IdleTyped
    DEF JobOK, Becomes
  <2> QED BY <2>1, <2>2
<1> QED BY <1>1, <1>2, <1>5, <1>6, <1>7, <1>8, <1>9, <1>10, <1>11, WorkerKeeps DEF Becomes

LEMMA VisibleKeeps ==
    ASSUME Control, NEW w \in Workers, Visible(w)
    PROVE  Control'
<1>1. th[w].pc = "closed" /\ ~Rests(w) /\ Runs(w)
  BY DEF Visible, At, Rests, Resting, Runs, Running
<1>2. PICK j \in Jobs : th[w].job = j
  BY <1>1, AtWork
<1>3. /\ th[w] \in Thread /\ TypeOK /\ WorkerOK(w) /\ mem[j] \in Job /\ Mine(w) = mem[j]
      /\ JobOK(j) /\ crashes \in Nat /\ phase # "down"
  BY <1>1, <1>2, AtWork DEF Mine
<1>4. mem[j].state = "running" /\ (j \notin unsaved => disk[j].state \in Unfinished)
  BY <1>1, <1>2, <1>3 DEF WorkerOK, Unfinished
<1> DEFINE m == [mem[j] EXCEPT !.rec = 0]
<1>5. /\ m \in Job /\ m.state = mem[j].state /\ m.tries = mem[j].tries /\ m.kind = mem[j].kind
  BY <1>3 DEF Job
<1>6. /\ mem' \in [Jobs -> Job] /\ mem'[j] = m
      /\ \A k \in Jobs : k # j => mem'[k] = mem[k]
  BY <1>2, <1>3, <1>5, SetsMine DEF Visible
<1>7. /\ Becomes(w, th'[w]) /\ th'[w].pc = "returned" /\ th'[w].job = j /\ th'[w].snap = NoJob
  BY <1>2, <1>3, Returned DEF Visible
<1>8. UNCHANGED <<disk, older, queue, cancels, worldVars, lifeVars, pastVars>>
  BY DEF Visible
<1>9. TypeOK'
  BY <1>3, <1>6, <1>7, <1>8 DEF TypeOK, Becomes
<1>10. OnlyMine(w)
  BY <1>2, <1>6, <1>7, <1>8 DEF OnlyMine, Becomes
<1> HIDE DEF m
<1>11. WorkerOK(w)' /\ JobOK(j)'
  <2>1. WorkerOK(w)'
    BY <1>1, <1>2, <1>3, <1>4, <1>5, <1>6, <1>7, <1>8, IdleTyped
    DEF WorkerOK, JobOK, Rests, Runs, Waits, Ends, Resting, Running, Waiting, Ending
  <2>2. JobOK(j)'
    BY <1>1, <1>2, <1>3, <1>4, <1>5, <1>6, <1>7, <1>8, IdleTyped
    DEF JobOK
  <2> QED BY <2>1, <2>2
<1> QED BY <1>1, <1>2, <1>5, <1>6, <1>7, <1>8, <1>9, <1>10, <1>11, WorkerKeeps

\* A job that will be tried again: its record in memory only, for now.
LEMMA RequeueKeeps ==
    ASSUME Control, NEW w \in Workers, Requeue(w)
    PROVE  Control'
<1>1. th[w].pc = "returned" /\ ~Rests(w) /\ Runs(w)
  BY DEF Requeue, At, Rests, Resting, Runs, Running
<1>2. PICK j \in Jobs : th[w].job = j
  BY <1>1, AtWork
<1>3. /\ th[w] \in Thread /\ TypeOK /\ WorkerOK(w) /\ mem[j] \in Job /\ Mine(w) = mem[j]
      /\ JobOK(j) /\ crashes \in Nat /\ phase # "down"
  BY <1>1, <1>2, AtWork DEF Mine
<1>4. mem[j].state = "running" /\ (j \notin unsaved => disk[j].state \in Unfinished)
  BY <1>1, <1>2, <1>3 DEF WorkerOK, Unfinished
<1> DEFINE m == [mem[j] EXCEPT !.state = "queued"]
           x == [Idle EXCEPT !.pc = "snap", !.job = j]
<1>5. /\ m \in Job /\ m.state = "queued" /\ m.tries = mem[j].tries /\ m.kind = mem[j].kind
  BY <1>3 DEF Job, States
<1>6. /\ mem' \in [Jobs -> Job] /\ mem'[j] = m
      /\ \A k \in Jobs : k # j => mem'[k] = mem[k]
  BY <1>2, <1>3, <1>5, SetsMine DEF Requeue
<1>7. /\ x \in Thread /\ x.pc = "snap" /\ x.job = j /\ x.snap = NoJob
  BY <1>3, IdleTyped DEF Thread, Labels
<1>8. Becomes(w, x)
  BY <1>2, <1>3, <1>7, Becoming DEF Requeue
<1>9. /\ UNCHANGED <<disk, older, queue, worldVars, lifeVars, pastVars>>
      /\ cancels' = [cancels EXCEPT ![j] = NoWorker]
  BY <1>2 DEF Requeue
<1>10. mem[j].tries < MaxAttempts + crashes
  BY <1>3 DEF Requeue, Budget, Job
<1>11. TypeOK'
  <2>1. cancels' \in [Jobs -> Workers \cup {NoWorker}]
    BY <1>3, <1>9 DEF TypeOK
  <2> QED BY <1>3, <1>6, <1>8, <1>9, <2>1 DEF TypeOK, Becomes
<1>12. OnlyMine(w)
  BY <1>2, <1>6, <1>8, <1>9 DEF OnlyMine, Becomes
<1> HIDE DEF m, x
<1>13. WorkerOK(w)' /\ JobOK(j)'
  <2>1. WorkerOK(w)'
    BY <1>1, <1>2, <1>3, <1>4, <1>5, <1>6, <1>7, <1>8, <1>9, <1>10, IdleTyped
    DEF WorkerOK, JobOK, Unfinished, Becomes, Rests, Runs, Waits, Ends, Resting, Running, Waiting, Ending
  <2>2. JobOK(j)'
    BY <1>1, <1>2, <1>3, <1>4, <1>5, <1>6, <1>7, <1>8, <1>9, <1>10, IdleTyped
    DEF JobOK, Unfinished, Becomes
  <2> QED BY <2>1, <2>2
<1> QED BY <1>1, <1>2, <1>3, <1>5, <1>6, <1>7, <1>8, <1>9, <1>11, <1>12, <1>13, WorkerKeeps
        DEF Becomes, WorkerOK

\* A file written whole, or not at all.
LEMMA StoringMine ==
    ASSUME Control, NEW j \in Jobs, NEW c \in Job, Stored(j, c)
    PROVE  /\ disk' \in [Jobs -> Job] /\ unsaved' \subseteq Jobs
           /\ older' \in [Jobs -> Job] /\ older'[j] \in {older[j], disk[j]}
           /\ \A k \in Jobs : k # j => disk'[k] = disk[k] /\ older'[k] = older[k]
           /\ unsaved' \in {unsaved, unsaved \cup {j}}
           /\ disk'[j] = c \/ (disk'[j] = disk[j] /\ j \in unsaved')
BY DEF Stored, Changed, Control, TypeOK

\* The worker's own saves: of an attempt that begins, of a record, of a retry.
LEMMA WorkerSaveKeeps ==
    ASSUME Control, NEW w \in Workers, Save(w)
    PROVE  Control'
<1>1. th[w].pc = "save" /\ ~Rests(w) /\ (Runs(w) \/ Waits(w))
  BY DEF Save, At, Control, WorkerOK, Rests, Ends, Resting, Ending
<1>2. PICK j \in Jobs : th[w].job = j
  BY <1>1, AtWork
<1>3. /\ th[w] \in Thread /\ TypeOK /\ WorkerOK(w) /\ mem[j] \in Job
      /\ JobOK(j) /\ crashes \in Nat /\ phase # "down"
  BY <1>1, <1>2, AtWork DEF Mine
<1>4. th[w].then \in {"transfer", "send", "asleep"}
  BY <1>1 DEF Runs, Waits, Running, Waiting
<1>5. /\ th[w].snap \in Job
      /\ disk' \in [Jobs -> Job] /\ unsaved' \subseteq Jobs
      /\ older' \in [Jobs -> Job] /\ older'[j] \in {older[j], disk[j]}
      /\ \A k \in Jobs : k # j => disk'[k] = disk[k] /\ older'[k] = older[k]
      /\ unsaved' \in {unsaved, unsaved \cup {j}}
      /\ disk'[j] = th[w].snap \/ (disk'[j] = disk[j] /\ j \in unsaved')
  <2>1. th[w].snap \in Job
    BY <1>3 DEF Thread
  <2> QED BY <1>2, <2>1, StoringMine DEF Save
<1> DEFINE x == [th[w] EXCEPT !.pc = th[w].then, !.snap = NoJob, !.then = "idle"]
<1>6. /\ x \in Thread /\ x.pc = th[w].then /\ x.job = j /\ x.snap = NoJob
      /\ x.goal = th[w].goal
  BY <1>2, <1>3, IdleTyped DEF Thread, Labels
<1>7. Becomes(w, x)
  BY <1>3, <1>4, <1>6, Becoming DEF Save
<1>8. UNCHANGED <<mem, queue, cancels, worldVars, lifeVars, seen, displaced, delivered, givenUp>>
  BY DEF Save
<1>9. TypeOK'
  BY <1>3, <1>5, <1>7, <1>8 DEF TypeOK, Becomes
<1>10. OnlyMine(w)
  BY <1>2, <1>5, <1>7, <1>8 DEF OnlyMine, Becomes
<1> HIDE DEF x
<1>11. /\ th[w].snap.kind = disk[j].kind /\ th[w].snap.tries <= MaxAttempts + crashes
       /\ Runs(w) => th[w].snap.state = "running" /\ mem[j].state = "running"
       /\ Waits(w) => /\ th[w].snap.state \in {"queued", "cancelled"}
                      /\ mem[j].state \in {"queued", "cancelled"}
       /\ mem[j].state = "queued" => th[w].snap.state = "queued"
       /\ j \notin unsaved => disk[j].state \in Unfinished \cup {"cancelled"}
  BY <1>1, <1>2, <1>3 DEF WorkerOK, JobOK, Unfinished
<1>12. WorkerOK(w)'
  BY <1>1, <1>2, <1>3, <1>4, <1>5, <1>6, <1>7, <1>8, <1>11, IdleTyped
  DEF WorkerOK, Unfinished, Becomes, Rests, Runs, Waits, Ends, Resting, Running, Waiting, Ending
<1>13. JobOK(j)'
  BY <1>1, <1>2, <1>3, <1>5, <1>8, <1>11, IdleTyped DEF JobOK, Unfinished, Promised
<1> QED BY <1>1, <1>2, <1>5, <1>6, <1>7, <1>8, <1>9, <1>10, <1>11, <1>12, <1>13, WorkerKeeps DEF Becomes

\* What the reclaim leaves: the record's id is taken out of the job.
LEMMA WorkerForgetKeeps ==
    ASSUME Control, NEW w \in Workers, Forget(w)
    PROVE  Control'
<1>1. th[w].pc = "forget" /\ ~Rests(w) /\ Ends(w)
  BY DEF Forget, At, Rests, Resting, Ends, Ending
<1>2. PICK j \in Jobs : th[w].job = j
  BY <1>1, AtWork
<1>3. /\ th[w] \in Thread /\ TypeOK /\ WorkerOK(w) /\ mem[j] \in Job /\ Mine(w) = mem[j]
      /\ JobOK(j) /\ crashes \in Nat /\ phase # "down"
  BY <1>1, <1>2, AtWork DEF Mine
<1> DEFINE m == [mem[j] EXCEPT !.rec = 0]
<1>4. /\ m \in Job /\ m.state = mem[j].state /\ m.tries = mem[j].tries /\ m.kind = mem[j].kind
  BY <1>3 DEF Job
<1>5. /\ mem' \in [Jobs -> Job] /\ mem'[j] = m
      /\ \A k \in Jobs : k # j => mem'[k] = mem[k]
  BY <1>2, <1>3, <1>4, SetsMine DEF Forget
<1>6. /\ Becomes(w, th'[w]) /\ th'[w].pc = "finish" /\ th'[w].job = j
      /\ th'[w].goal = th[w].goal /\ th'[w].snap = th[w].snap
  <2>1. Becomes(w, [th[w] EXCEPT !.pc = "finish"])
    BY <1>3, Relabelled DEF Forget, Labels
  <2> QED BY <1>2, <1>3, <2>1 DEF Becomes, Thread
<1>7. UNCHANGED <<disk, older, queue, cancels, worldVars, lifeVars, pastVars>>
  BY DEF Forget
<1>8. TypeOK'
  BY <1>3, <1>5, <1>6, <1>7 DEF TypeOK, Becomes
<1>9. OnlyMine(w)
  BY <1>2, <1>5, <1>6, <1>7 DEF OnlyMine, Becomes
<1> HIDE DEF m
<1>10. WorkerOK(w)'
  BY <1>1, <1>2, <1>3, <1>4, <1>5, <1>6, <1>7, IdleTyped
  DEF WorkerOK, Rests, Runs, Waits, Ends, Resting, Running, Waiting, Ending
<1>11. mem[j].state \in {"running", "queued", "cancelled"}
  BY <1>1, <1>2, <1>3 DEF WorkerOK
<1>12. JobOK(j)'
  BY <1>2, <1>3, <1>4, <1>5, <1>7, <1>11, IdleTyped DEF JobOK
<1> QED BY <1>1, <1>2, <1>4, <1>5, <1>6, <1>7, <1>8, <1>9, <1>10, <1>12, WorkerKeeps

\* The end of a job on disk.
LEMMA RecordKeeps ==
    ASSUME Control, NEW w \in Workers, Record(w)
    PROVE  Control'
<1>1. th[w].pc = "record" /\ ~Rests(w) /\ Ends(w)
  BY DEF Record, At, Rests, Resting, Ends, Ending
<1>2. PICK j \in Jobs : th[w].job = j
  BY <1>1, AtWork
<1>3. /\ th[w] \in Thread /\ TypeOK /\ WorkerOK(w) /\ mem[j] \in Job
      /\ JobOK(j) /\ crashes \in Nat /\ phase # "down"
  BY <1>1, <1>2, AtWork DEF Mine
<1>4. /\ th[w].snap \in Job /\ th[w].goal \in Terminal
      /\ disk' \in [Jobs -> Job] /\ unsaved' \subseteq Jobs
      /\ older' \in [Jobs -> Job] /\ older'[j] \in {older[j], disk[j]}
      /\ \A k \in Jobs : k # j => disk'[k] = disk[k] /\ older'[k] = older[k]
      /\ unsaved' \in {unsaved, unsaved \cup {j}}
      /\ disk'[j] = th[w].snap \/ (disk'[j] = disk[j] /\ j \in unsaved')
  <2>1. th[w].snap \in Job /\ th[w].goal \in Terminal
    BY <1>3 DEF Thread
  <2> QED BY <1>2, <2>1, StoringMine DEF Record
<1>5. /\ Becomes(w, th'[w]) /\ th'[w].pc = "show" /\ th'[w].job = j
      /\ th'[w].goal = th[w].goal /\ th'[w].snap = th[w].snap
  <2>1. Becomes(w, [th[w] EXCEPT !.pc = "show"])
    BY <1>3, Relabelled DEF Record, Labels
  <2> QED BY <1>2, <1>3, <2>1 DEF Becomes, Thread
<1>6. UNCHANGED <<mem, queue, cancels, worldVars, lifeVars, seen, displaced, delivered>>
  BY DEF Record
<1>7. TypeOK'
  <2>1. givenUp' \subseteq Records
    BY <1>3, <1>4 DEF Record, TypeOK, Job
  <2> QED BY <1>3, <1>4, <1>5, <1>6, <2>1 DEF TypeOK, Becomes
<1>8. OnlyMine(w)
  BY <1>2, <1>4, <1>5, <1>6 DEF OnlyMine, Becomes
<1>9. /\ th[w].snap.kind = disk[j].kind /\ th[w].snap.tries <= MaxAttempts + crashes
      /\ th[w].snap.state = th[w].goal
      /\ mem[j].state = "running" \/ (mem[j].state \in {"queued", "cancelled"} /\ th[w].goal = "cancelled")
      /\ j \notin unsaved => disk[j].state \in Unfinished \cup {"cancelled"}
  BY <1>1, <1>2, <1>3 DEF WorkerOK, JobOK, Unfinished
<1>10. WorkerOK(w)'
  BY <1>1, <1>2, <1>3, <1>4, <1>5, <1>6, <1>9, IdleTyped
  DEF WorkerOK, Unfinished, Rests, Runs, Waits, Ends, Resting, Running, Waiting, Ending
<1>11. JobOK(j)'
  BY <1>2, <1>3, <1>4, <1>6, <1>9, IdleTyped DEF JobOK, Unfinished, Promised, Terminal
<1> QED BY <1>1, <1>2, <1>4, <1>5, <1>6, <1>7, <1>8, <1>9, <1>10, <1>11, WorkerKeeps

\* The end of a job shown, once its file says it.
LEMMA ShowKeeps ==
    ASSUME Control, NEW w \in Workers, Show(w)
    PROVE  Control'
<1>1. th[w].pc = "show" /\ ~Rests(w) /\ Ends(w)
  BY DEF Show, At, Rests, Resting, Ends, Ending
<1>2. PICK j \in Jobs : th[w].job = j
  BY <1>1, AtWork
<1>3. /\ th[w] \in Thread /\ TypeOK /\ WorkerOK(w) /\ mem[j] \in Job
      /\ JobOK(j) /\ crashes \in Nat /\ phase # "down"
  BY <1>1, <1>2, AtWork DEF Mine
<1>4. th[w].snap \in Job /\ th[w].goal \in Terminal
  BY <1>3 DEF Thread
<1>5. /\ mem' \in [Jobs -> Job] /\ mem'[j] = th[w].snap
      /\ \A k \in Jobs : k # j => mem'[k] = mem[k]
  BY <1>2, <1>4, SetsMine DEF Show
<1>6. Becomes(w, Idle)
  BY <1>3, IdleTyped, Becoming DEF Show
<1>7. /\ UNCHANGED <<disk, older, queue, cancels, worldVars, lifeVars, displaced, delivered, givenUp, unsaved>>
      /\ seen' = [seen EXCEPT ![j] = th[w].goal]
  BY <1>2 DEF Show
<1>8. TypeOK'
  <2>1. seen' \in [Jobs -> {"none", "refused"} \cup Terminal]
    BY <1>3, <1>4, <1>7 DEF TypeOK
  <2> QED BY <1>3, <1>5, <1>6, <1>7, <2>1 DEF TypeOK, Becomes
<1>9. OnlyMine(w) /\ seen'[j] = th[w].goal
  BY <1>2, <1>3, <1>5, <1>6, <1>7 DEF OnlyMine, Becomes, TypeOK
<1>10. /\ th[w].snap.kind = disk[j].kind /\ th[w].snap.tries <= MaxAttempts + crashes
       /\ th[w].snap.state = th[w].goal
       /\ mem[j].state = "running" \/ (mem[j].state \in {"queued", "cancelled"} /\ th[w].goal = "cancelled")
       /\ j \notin unsaved => disk[j].state = th[w].goal
  BY <1>1, <1>2, <1>3 DEF WorkerOK
<1>11. WorkerOK(w)'
  BY <1>3, <1>6, <1>7, IdleTyped
  DEF WorkerOK, Becomes, Rests, Runs, Waits, Ends, Resting, Running, Waiting, Ending
<1>12. JobOK(j)'
  BY <1>2, <1>3, <1>4, <1>5, <1>7, <1>9, <1>10, IdleTyped DEF JobOK, Unfinished, Promised, Terminal
<1> QED BY <1>1, <1>2, <1>3, <1>4, <1>5, <1>6, <1>7, <1>8, <1>9, <1>10, <1>11, <1>12, IdleTyped, WorkerKeeps
        DEF Becomes, Rests, Resting

-----------------------------------------------------------------------------
(* The queue.                                                               *)

\* The head of the queue passes to the worker: it had no other holder.
LEMMA TakeKeeps ==
    ASSUME Control, NEW w \in Workers, Take(w)
    PROVE  Control'
<1>1. /\ th[w].pc = "idle" /\ Rests(w) /\ queue # <<>> /\ phase # "down"
      /\ queue' = Tail(queue) /\ queue \in Seq(Jobs) /\ Len(queue) <= QueueCap
      /\ UNCHANGED <<mem, disk, older, cancels, worldVars, lifeVars, pastVars>>
  BY DEF Take, At, Rests, Resting, Control, TypeOK
<1>2. PICK j \in Jobs : j = Head(queue)
  BY <1>1
<1>3. 1 \in DOMAIN queue /\ queue[1] = j
  BY <1>1, <1>2
<1>4. /\ queue' \in Seq(Jobs) /\ Len(queue') <= QueueCap
      /\ \A i \in DOMAIN queue' : i + 1 \in DOMAIN queue /\ queue'[i] = queue[i + 1] /\ i \in Nat \ {0}
  BY <1>1
<1> DEFINE x == [Idle EXCEPT !.pc = "claim", !.job = j]
<1>5. x \in Thread /\ x.pc = "claim" /\ x.job = j /\ x.snap = NoJob
  BY IdleTyped DEF Thread, Labels
<1>6. Becomes(w, x)
  BY <1>2, <1>5, Becoming DEF Take, Control
<1>7. TypeOK'
  BY <1>1, <1>4, <1>6 DEF TypeOK, Control, Becomes
<1> HIDE DEF x
<1>8. ASSUME NEW v \in Workers PROVE WorkerOK(v)'
  <2>1. CASE v = w
    <3>1. mem[j].state \in {"queued", "cancelled"} /\ (j \notin unsaved /\ mem[j].state = "queued" => disk[j].state \in Unfinished)
      BY <1>3 DEF Control, QueueOK
    <3>2. crashes \in Nat
      BY DEF Control, TypeOK
    <3> QED
      BY <1>1, <1>5, <1>6, <2>1, <3>1, <3>2, IdleTyped
      DEF WorkerOK, Becomes, Unfinished, Rests, Runs, Waits, Ends, Resting, Running, Waiting, Ending
  <2>2. CASE v # w
    <3>1. th'[v] = th[v]
      BY <1>6, <2>2 DEF Becomes
    <3> QED BY <1>1, <3>1 DEF Control, WorkerOK, Rests, Runs, Waits, Ends
  <2> QED BY <2>1, <2>2
<1>9. ASSUME NEW u \in Users PROVE UserOK(u)'
  <2>1. th'[u] = th[u]
    BY <1>6 DEF Becomes
  <2> QED BY <1>1, <2>1 DEF Control, UserOK, Submits, Cancels
<1>10. \A k \in Jobs : JobOK(k)'
  BY <1>1 DEF Control, JobOK
<1>11. QueueOK'
  BY <1>1, <1>4 DEF Control, QueueOK
<1>12. OneHolder'
  <2>1. \A i, k \in DOMAIN queue' : queue'[i] = queue'[k] => i = k
    BY <1>4 DEF Control, OneHolder
  <2>2. ASSUME NEW v \in Workers, NEW i \in DOMAIN queue', ~Rests(v)'
        PROVE  queue'[i] # th'[v].job
    <3>1. CASE v = w
      BY <1>3, <1>4, <1>5, <1>6, <3>1 DEF Control, OneHolder, Becomes
    <3>2. CASE v # w
      BY <1>4, <1>6, <2>2, <3>2 DEF Control, OneHolder, Becomes, Rests
    <3> QED BY <3>1, <3>2
  <2>3. ASSUME NEW v \in Workers, v # w, ~Rests(v)'
        PROVE  th'[v].job # j
    BY <1>3, <1>6, <2>3 DEF Control, OneHolder, Becomes, Rests
  <2>4. \A v, z \in Workers : ~Rests(v)' /\ ~Rests(z)' /\ th'[v].job = th'[z].job => v = z
    BY <1>5, <1>6, <2>3 DEF Control, OneHolder, Becomes, Rests
  <2>5. /\ \A u, v \in Users : Submits(u)' /\ Submits(v)' /\ th'[v].job = th'[u].job => u = v
        /\ \A u, v \in Users :
             th'[u].pc = "publish" /\ th'[v].pc # "idle" /\ th'[v].job = th'[u].job => u = v
    BY <1>6 DEF Control, OneHolder, Becomes, Submits
  <2>6. ASSUME NEW u \in Users, Submits(u)'
        PROVE  /\ \A i \in DOMAIN queue' : queue'[i] # th'[u].job
               /\ \A v \in Workers : ~Rests(v)' => th'[v].job # th'[u].job
    <3>1. th'[u] = th[u] /\ Submits(u)
      BY <1>6, <2>6 DEF Becomes, Submits
    <3>2. th[u].job # j /\ \A i \in DOMAIN queue : queue[i] # th[u].job
      BY <1>3, <3>1 DEF Control, OneHolder
    <3> QED BY <1>4, <1>5, <1>6, <3>1, <3>2 DEF Control, OneHolder, Becomes, Rests
  <2> QED BY <2>1, <2>2, <2>4, <2>5, <2>6 DEF OneHolder
<1> QED BY <1>7, <1>8, <1>9, <1>10, <1>11, <1>12 DEF Control

LEMMA LeaveKeeps ==
    ASSUME Control, NEW w \in Workers, Leave(w)
    PROVE  Control'
<1>1. th[w] \in Thread /\ TypeOK /\ th[w].pc = "idle" /\ Rests(w)
  BY DEF Control, TypeOK, Leave, At, Rests, Resting
<1>2. Becomes(w, th'[w]) /\ th'[w].pc = "gone" /\ th'[w].snap = th[w].snap
  <2>1. Becomes(w, [th[w] EXCEPT !.pc = "gone"])
    BY <1>1, Relabelled DEF Leave, Labels
  <2> QED BY <1>1, <2>1 DEF Becomes, Thread
<1>3. Still /\ TypeOK'
  BY <1>1, <1>2 DEF Leave, Still, Becomes, TypeOK
<1>4. ASSUME NEW v \in Workers PROVE WorkerOK(v)'
  <2>1. CASE v = w
    BY <1>1, <1>2, <1>3, <2>1
    DEF Control, WorkerOK, Still, Rests, Runs, Waits, Ends, Resting, Running, Waiting, Ending
  <2>2. CASE v # w
    BY <1>2, <1>3, <2>2 DEF Becomes, Still, Control, WorkerOK, Rests, Runs, Waits, Ends
  <2> QED BY <2>1, <2>2
<1>5. ASSUME NEW u \in Users PROVE UserOK(u)'
  BY <1>2, <1>3 DEF Becomes, Still, Control, UserOK, Submits, Cancels
<1>6. (\A k \in Jobs : JobOK(k)') /\ QueueOK'
  BY <1>3 DEF Still, Control, JobOK, QueueOK
<1>7. OneHolder'
  BY <1>2, <1>3 DEF Becomes, Still, Control, OneHolder, Rests, Resting, Submits
<1> QED BY <1>3, <1>4, <1>5, <1>6, <1>7 DEF Control

-----------------------------------------------------------------------------
(* A request changes one job.                                               *)

\* Whoever has another job is not disturbed.
LEMMA RequestKeeps ==
    ASSUME Control, NEW u \in Users, NEW j \in Jobs, Becomes(u, th'[u]),
           \A k \in Jobs : k # j =>
              mem'[k] = mem[k] /\ disk'[k] = disk[k] /\ older'[k] = older[k] /\ seen'[k] = seen[k],
           UNCHANGED lifeVars, unsaved' \in {unsaved, unsaved \cup {j}},
           TypeOK', UserOK(u)', JobOK(j)', QueueOK', OneHolder',
           \A w \in Workers : ~Rests(w) /\ th[w].job = j => WorkerOK(w)',
           \A v \in Users : v # u /\ th[v].job = j => UserOK(v)'
    PROVE  Control'
<1>1. ASSUME NEW w \in Workers PROVE WorkerOK(w)'
  <2>1. th'[w] = th[w]
    BY DEF Becomes
  <2>2. CASE Rests(w)
    BY <2>1, <2>2 DEF Control, WorkerOK, Rests, Runs, Waits, Ends, Resting, Running, Waiting, Ending
  <2>3. CASE ~Rests(w) /\ th[w].job # j
    BY <2>1, <2>3 DEF Control, WorkerOK, Rests, Runs, Waits, Ends
  <2> QED BY <2>2, <2>3
<1>2. ASSUME NEW v \in Users, v # u, th[v].job # j PROVE UserOK(v)'
  <2>1. th'[v] = th[v]
    BY <1>2 DEF Becomes
  <2> QED BY <1>2, <2>1 DEF Control, UserOK, Submits, Cancels
<1>3. ASSUME NEW k \in Jobs PROVE JobOK(k)'
  BY DEF Control, JobOK
<1> QED BY <1>1, <1>2, <1>3 DEF Control

\* A job nobody knows of in memory is on no queue and with no worker.
LEMMA UnknownIsFree ==
    ASSUME Control, NEW j \in Jobs, mem[j].state = "none"
    PROVE  /\ \A w \in Workers : ~Rests(w) => th[w].job # j
           /\ \A i \in DOMAIN queue : queue[i] # j
BY DEF Control, WorkerOK, QueueOK, UserOK, Rests, Runs, Waits, Ends

\* Submit saves the job before anything else knows it.
LEMMA SubmitKeeps ==
    ASSUME Control, NEW u \in Users, NEW j \in Jobs, NEW k \in Kinds, Submit(u, j, k)
    PROVE  Control'
<1>1. /\ phase = "up" /\ th[u].pc = "idle" /\ mem[j] = NoJob /\ disk[j] = NoJob /\ seen[j] = "none"
      /\ Changed(j, NewJob(k))
      /\ \A v \in Users : th[v].job # j
      /\ UNCHANGED <<mem, queue, cancels, worldVars, lifeVars, pastVars>>
  BY DEF Submit, Starts
<1>2. th[u] \in Thread /\ TypeOK /\ UserOK(u) /\ JobOK(j) /\ crashes \in Nat
  BY DEF Control, TypeOK
<1>3. Becomes(u, th'[u]) /\ th'[u].pc = "publish" /\ th'[u].job = j /\ th'[u].snap = th[u].snap
  <2> DEFINE x == [th[u] EXCEPT !.pc = "publish", !.job = j]
  <2>1. x \in Thread
    BY <1>2 DEF Thread, Labels
  <2>2. th' = [th EXCEPT ![u] = x]
    BY <1>2 DEF Submit, TypeOK
  <2>3. Becomes(u, x)
    BY <1>2, <2>1, <2>2, Becoming
  <2> QED BY <1>2, <2>3 DEF Becomes, Thread
<1>4. /\ disk' \in [Jobs -> Job] /\ disk'[j] = NewJob(k)
      /\ older' \in [Jobs -> Job] /\ older'[j] = NoJob
      /\ \A i \in Jobs : i # j => disk'[i] = disk[i] /\ older'[i] = older[i]
  BY <1>1, <1>2, IdleTyped DEF TypeOK, Changed
<1>5. TypeOK'
  BY <1>1, <1>2, <1>3, <1>4 DEF TypeOK, Becomes
<1>6. UserOK(u)'
  <2>1. /\ mem'[j] = NoJob /\ disk'[j] = NewJob(k) /\ disk'[j].state \in Unfinished /\ seen'[j] = "none"
        /\ phase' = "up" /\ th'[u].snap.tries <= MaxAttempts + crashes'
    BY <1>1, <1>2, <1>3, <1>4, IdleTyped DEF UserOK, Unfinished
  <2> QED BY <1>3, <2>1 DEF UserOK, Submits, Cancels
<1>7. JobOK(j)'
  BY <1>1, <1>2, <1>4, IdleTyped DEF JobOK, Promised
<1>8. /\ \A w \in Workers : ~Rests(w) => th[w].job # j
      /\ \A i \in DOMAIN queue : queue[i] # j
  BY <1>1, IdleTyped, UnknownIsFree
<1>9. QueueOK'
  BY <1>1, <1>2, <1>4, <1>8 DEF Control, QueueOK, TypeOK
<1>10. OneHolder'
  BY <1>1, <1>3, <1>8 DEF Becomes, Control, OneHolder, Rests, Submits
<1> QED BY <1>1, <1>3, <1>4, <1>5, <1>6, <1>7, <1>8, <1>9, <1>10, RequestKeeps

\* A request that is submitting a job is the only one to have it in hand, but for
\* those that have cancelled it since it was published.
LEMMA Submitting ==
    ASSUME Control, NEW u \in Users, Submits(u)
    PROVE  /\ th[u] \in Thread /\ TypeOK /\ UserOK(u) /\ th[u].job \in Jobs /\ JobOK(th[u].job)
           /\ phase \in {"up", "ending"} /\ crashes \in Nat
           /\ seen[th[u].job] = "none" /\ Mine(u) \in Job
           /\ \A w \in Workers : ~Rests(w) => th[w].job # th[u].job
           /\ \A i \in DOMAIN queue : queue[i] # th[u].job
           /\ \A v \in Users : v # u /\ th[v].job = th[u].job => th[v].pc = "idle" \/ Cancels(v)
BY DEF Control, TypeOK, UserOK, OneHolder, Submits, Mine

\* Publish makes the job known.
LEMMA PublishKeeps ==
    ASSUME Control, NEW u \in Users, Publish(u)
    PROVE  Control'
<1>1. th[u].pc = "publish" /\ Submits(u) /\ UNCHANGED <<disk, older, queue, cancels, worldVars, lifeVars, pastVars>>
  BY DEF Publish, At, Submits
<1>2. PICK j \in Jobs : th[u].job = j
  BY <1>1, Submitting
<1>3. /\ th[u] \in Thread /\ TypeOK /\ UserOK(u) /\ JobOK(j) /\ phase \in {"up", "ending"}
      /\ seen[j] = "none" /\ crashes \in Nat /\ mem[j] = NoJob
      /\ \A w \in Workers : ~Rests(w) => th[w].job # j
      /\ \A i \in DOMAIN queue : queue[i] # j
  BY <1>1, <1>2, Submitting DEF UserOK
<1>4. PICK k \in Kinds : disk[j] = NewJob(k)
  BY <1>1, <1>2, <1>3 DEF UserOK
<1>5. /\ mem' \in [Jobs -> Job] /\ mem'[j] = NewJob(k)
      /\ \A i \in Jobs : i # j => mem'[i] = mem[i]
  BY <1>2, <1>4, IdleTyped, SetsMine DEF Publish
<1>6. Becomes(u, th'[u]) /\ th'[u].pc = "enqueue" /\ th'[u].job = j /\ th'[u].snap = th[u].snap
  <2>1. Becomes(u, [th[u] EXCEPT !.pc = "enqueue"])
    BY <1>3, Relabelled DEF Publish, Labels
  <2> QED BY <1>2, <1>3, <2>1 DEF Becomes, Thread
<1>7. TypeOK'
  BY <1>1, <1>3, <1>5, <1>6 DEF TypeOK, Becomes
<1>8. UserOK(u)'
  BY <1>1, <1>2, <1>3, <1>4, <1>5, <1>6, IdleTyped DEF UserOK, Submits, Cancels, Unfinished
<1>9. JobOK(j)'
  BY <1>1, <1>3, <1>4, <1>5, IdleTyped DEF JobOK, Promised, Unfinished
<1>10. ASSUME NEW v \in Users, v # u, th[v].job = j PROVE UserOK(v)'
  <2>1. th[v].pc = "idle" /\ th'[v] = th[v] /\ UserOK(v)
    BY <1>1, <1>2, <1>6, <1>10 DEF Control, OneHolder, Becomes
  <2> QED BY <1>1, <2>1 DEF UserOK, Submits, Cancels
<1>11. QueueOK'
  BY <1>1, <1>3, <1>5 DEF Control, QueueOK, TypeOK
<1>12. OneHolder'
  <2>1. \A v \in Users : Submits(v)' <=> Submits(v)
    BY <1>1, <1>6 DEF Submits, Becomes
  <2>2. \A v \in Users : th'[v].pc = "publish" => th[v].pc = "publish"
    BY <1>6 DEF Becomes
  <2>3. \A v \in Users : th'[v].job = th[v].job /\ (th'[v].pc = "idle" <=> th[v].pc = "idle")
    BY <1>1, <1>2, <1>6 DEF Becomes
  <2>4. \A w \in Workers : th'[w] = th[w]
    BY <1>6 DEF Becomes
  <2> QED BY <1>1, <2>1, <2>2, <2>3, <2>4 DEF Control, OneHolder, Rests
<1> QED BY <1>1, <1>3, <1>5, <1>6, <1>7, <1>8, <1>9, <1>10, <1>11, <1>12, RequestKeeps

\* The job goes on the queue, whatever a Cancel has made of it, or is to be taken
\* back.
LEMMA EnqueueKeeps ==
    ASSUME Control, NEW u \in Users, Enqueue(u)
    PROVE  Control'
<1>1. /\ th[u].pc = "enqueue" /\ Submits(u)
      /\ UNCHANGED <<mem, disk, older, cancels, worldVars, lifeVars, pastVars>>
  BY DEF Enqueue, At, Submits
<1>2. PICK j \in Jobs : th[u].job = j
  BY <1>1, Submitting
<1>3. /\ th[u] \in Thread /\ TypeOK /\ UserOK(u) /\ JobOK(j) /\ phase \in {"up", "ending"}
      /\ crashes \in Nat /\ mem[j].state \in {"queued", "cancelled"}
      /\ j \notin unsaved /\ mem[j].state = "queued" => disk[j].state \in Unfinished
      /\ \A w \in Workers : ~Rests(w) => th[w].job # j
      /\ \A i \in DOMAIN queue : queue[i] # j
  BY <1>1, <1>2, Submitting DEF UserOK
<1>4. JobOK(j)'
  BY <1>1, <1>3 DEF JobOK
<1>5. CASE HasRoom /\ queue' = Append(queue, j) /\ Goto(u, "idle")
  <2>1. Becomes(u, Idle)
    BY <1>3, <1>5, IdleTyped, Becoming DEF Goto
  <2>2. /\ queue \in Seq(Jobs) /\ queue' \in Seq(Jobs) /\ Len(queue') <= QueueCap
        /\ DOMAIN queue' = 1 .. Len(queue) + 1 /\ DOMAIN queue = 1 .. Len(queue)
        /\ queue'[Len(queue) + 1] = j
        /\ \A i \in DOMAIN queue : i \in DOMAIN queue' /\ queue'[i] = queue[i]
    BY <1>3, <1>5 DEF TypeOK, HasRoom
  <2>3. TypeOK'
    BY <1>1, <1>3, <2>1, <2>2 DEF TypeOK, Becomes
  <2>4. UserOK(u)'
    BY <1>1, <1>3, <2>1, IdleTyped DEF UserOK, Becomes, Submits, Cancels
  <2>5. ASSUME NEW v \in Users, v # u, th[v].job = j PROVE UserOK(v)'
    BY <1>1, <2>1, <2>5 DEF Control, UserOK, Becomes, Submits, Cancels
  <2>6. \A i \in DOMAIN queue' : \/ i \in DOMAIN queue /\ queue[i] # j /\ queue'[i] = queue[i]
                                 \/ i = Len(queue) + 1 /\ queue'[i] = j
    BY <1>3, <2>2
  <2>7. QueueOK'
    <3>1. ASSUME NEW i \in DOMAIN queue'
          PROVE  /\ mem'[queue'[i]].state \in {"queued", "cancelled"}
                 /\ queue'[i] \notin unsaved' /\ mem'[queue'[i]].state = "queued"
                      => disk'[queue'[i]].state \in Unfinished
      BY <1>1, <1>3, <2>6 DEF Control, QueueOK
    <3> QED BY <3>1 DEF QueueOK
  <2>8. OneHolder'
    <3>1. \A i, l \in DOMAIN queue' : queue'[i] = queue'[l] => i = l
      BY <2>6 DEF Control, OneHolder
    <3>2. \A w \in Workers, i \in DOMAIN queue' : ~Rests(w)' => queue'[i] # th'[w].job
      BY <1>3, <2>1, <2>6 DEF Control, OneHolder, Rests, Becomes
    <3>3. \A v, w \in Workers : ~Rests(v)' /\ ~Rests(w)' /\ th'[v].job = th'[w].job => v = w
      BY <2>1 DEF Control, OneHolder, Rests, Becomes
    <3>4. ASSUME NEW v \in Users, Submits(v)'
          PROVE  /\ v # u /\ Submits(v) /\ th'[v] = th[v] /\ th[v].job # j
      BY <1>1, <1>2, <2>1, <3>4, IdleTyped DEF Control, OneHolder, Submits, Becomes
    <3>5. ASSUME NEW v \in Users, Submits(v)'
          PROVE  /\ \A i \in DOMAIN queue' : queue'[i] # th'[v].job
                 /\ \A w \in Workers : ~Rests(w)' => th'[w].job # th'[v].job
      <4>1. Submits(v) /\ th'[v] = th[v] /\ th[v].job # j
        BY <3>4, <3>5
      <4> QED BY <2>1, <2>6, <4>1 DEF Control, OneHolder, Becomes, Rests
    <3>6. \A v, z \in Users : Submits(v)' /\ Submits(z)' /\ th'[z].job = th'[v].job => v = z
      BY <3>4 DEF Control, OneHolder
    <3>7. \A v, z \in Users :
             th'[v].pc = "publish" /\ th'[z].pc # "idle" /\ th'[z].job = th'[v].job => v = z
      BY <2>1, IdleTyped DEF Control, OneHolder, Becomes
    <3> QED BY <3>1, <3>2, <3>3, <3>5, <3>6, <3>7 DEF OneHolder
  <2>9. \A w \in Workers : ~Rests(w) /\ th[w].job = j => WorkerOK(w)'
    BY <1>3
  <2> QED BY <1>1, <1>4, <2>1, <2>3, <2>4, <2>5, <2>7, <2>8, <2>9, RequestKeeps DEF Becomes
<1>6. CASE Goto(u, "retract") /\ UNCHANGED queue
  <2>1. Becomes(u, th'[u]) /\ th'[u].pc = "retract" /\ th'[u].job = j /\ th'[u].snap = th[u].snap
    <3>1. Becomes(u, [th[u] EXCEPT !.pc = "retract"])
      BY <1>3, <1>6, Relabelled DEF Labels
    <3> QED BY <1>2, <1>3, <3>1 DEF Becomes, Thread
  <2>2. TypeOK'
    BY <1>1, <1>3, <1>6, <2>1 DEF TypeOK, Becomes
  <2>3. UserOK(u)'
    BY <1>1, <1>2, <1>3, <2>1 DEF UserOK, Submits, Cancels
  <2>4. QueueOK'
    BY <1>1, <1>6 DEF Control, QueueOK
  <2>5. OneHolder'
    BY <1>1, <1>2, <1>6, <2>1 DEF Control, OneHolder, Becomes, Rests, Submits
  <2>6. ASSUME NEW v \in Users, v # u, th[v].job = j PROVE UserOK(v)'
    BY <1>1, <2>1, <2>6 DEF Control, UserOK, Becomes, Submits, Cancels
  <2> QED BY <1>1, <1>3, <1>4, <2>1, <2>2, <2>3, <2>4, <2>5, <2>6, RequestKeeps
<1> QED BY <1>2, <1>5, <1>6 DEF Enqueue

\* The job is taken out of memory; a request that has cancelled it goes on.
LEMMA RetractKeeps ==
    ASSUME Control, NEW u \in Users, Retract(u)
    PROVE  Control'
<1>1. /\ th[u].pc = "retract" /\ Submits(u)
      /\ UNCHANGED <<disk, older, queue, cancels, worldVars, lifeVars, pastVars>>
  BY DEF Retract, At, Submits
<1>2. PICK j \in Jobs : th[u].job = j
  BY <1>1, Submitting
<1>3. /\ th[u] \in Thread /\ TypeOK /\ UserOK(u) /\ JobOK(j) /\ phase \in {"up", "ending"}
      /\ crashes \in Nat /\ seen[j] = "none"
      /\ \A w \in Workers : ~Rests(w) => th[w].job # j
      /\ \A i \in DOMAIN queue : queue[i] # j
      /\ \A v \in Users : v # u /\ th[v].job = j => th[v].pc = "idle" \/ Cancels(v)
  BY <1>1, <1>2, Submitting
<1>4. /\ mem' \in [Jobs -> Job] /\ mem'[j] = NoJob
      /\ \A i \in Jobs : i # j => mem'[i] = mem[i]
  BY <1>2, IdleTyped, SetsMine DEF Retract
<1>5. Becomes(u, th'[u]) /\ th'[u].pc = "withdraw" /\ th'[u].job = j /\ th'[u].snap = th[u].snap
  <2>1. Becomes(u, [th[u] EXCEPT !.pc = "withdraw"])
    BY <1>3, Relabelled DEF Retract, Labels
  <2> QED BY <1>2, <1>3, <2>1 DEF Becomes, Thread
<1>6. TypeOK'
  BY <1>1, <1>3, <1>4, <1>5 DEF TypeOK, Becomes
<1>7. UserOK(u)'
  BY <1>1, <1>2, <1>3, <1>4, <1>5 DEF UserOK, Submits, Cancels
<1>8. JobOK(j)'
  BY <1>1, <1>3, <1>4, IdleTyped DEF JobOK, Promised
<1>9. ASSUME NEW v \in Users, v # u, th[v].job = j PROVE UserOK(v)'
  <2>1. th'[v] = th[v] /\ UserOK(v) /\ ~Submits(v)
    BY <1>3, <1>5, <1>9 DEF Control, Becomes, Submits, Cancels
  <2> QED BY <1>1, <1>3, <1>4, <1>9, <2>1 DEF UserOK, Submits, Cancels, Promised
<1>10. QueueOK'
  BY <1>1, <1>3, <1>4 DEF Control, QueueOK, TypeOK
<1>11. OneHolder'
  BY <1>1, <1>2, <1>5 DEF Control, OneHolder, Becomes, Rests, Submits
<1> QED BY <1>1, <1>3, <1>4, <1>5, <1>6, <1>7, <1>8, <1>9, <1>10, <1>11, RequestKeeps

\* Its file is removed, whatever a Cancel has made of it.
LEMMA WithdrawKeeps ==
    ASSUME Control, NEW u \in Users, Withdraw(u)
    PROVE  Control'
<1>1. /\ th[u].pc = "withdraw" /\ Submits(u)
      /\ UNCHANGED <<mem, queue, cancels, worldVars, lifeVars, displaced, delivered, givenUp, unsaved>>
  BY DEF Withdraw, At, Submits
<1>2. PICK j \in Jobs : th[u].job = j
  BY <1>1, Submitting
<1>3. /\ th[u] \in Thread /\ TypeOK /\ UserOK(u) /\ JobOK(j) /\ phase \in {"up", "ending"}
      /\ crashes \in Nat /\ seen[j] = "none" /\ mem[j] = NoJob
      /\ \A w \in Workers : ~Rests(w) => th[w].job # j
      /\ \A i \in DOMAIN queue : queue[i] # j
      /\ \A v \in Users : v # u /\ th[v].job = j => th[v].pc = "idle" \/ Cancels(v)
  BY <1>1, <1>2, Submitting DEF UserOK
<1>4. Becomes(u, Idle)
  BY <1>3, IdleTyped, Becoming DEF Withdraw, Goto
<1>5. /\ disk' \in [Jobs -> Job] /\ disk'[j] = NoJob /\ seen'[j] = "refused"
      /\ older' \in [Jobs -> Job] /\ older'[j] = disk[j]
      /\ seen' \in [Jobs -> {"none", "refused"} \cup Terminal]
      /\ \A k \in Jobs : k # j => disk'[k] = disk[k] /\ older'[k] = older[k] /\ seen'[k] = seen[k]
  BY <1>2, <1>3, IdleTyped DEF TypeOK, Withdraw, Changed
<1>6. TypeOK'
  BY <1>1, <1>3, <1>4, <1>5 DEF TypeOK, Becomes
<1>7. UserOK(u)'
  BY <1>1, <1>3, <1>4, IdleTyped DEF UserOK, Becomes, Submits, Cancels
<1>8. JobOK(j)'
  BY <1>1, <1>3, <1>5, IdleTyped DEF JobOK, Promised
<1>9. ASSUME NEW v \in Users, v # u, th[v].job = j PROVE UserOK(v)'
  <2>1. th'[v] = th[v] /\ UserOK(v) /\ ~Submits(v)
    BY <1>3, <1>4, <1>9 DEF Control, Becomes, Submits, Cancels
  <2> QED BY <1>1, <1>3, <1>5, <1>9, <2>1, IdleTyped DEF UserOK, Submits, Cancels, Promised
<1>10. QueueOK'
  BY <1>1, <1>3, <1>5 DEF Control, QueueOK, TypeOK
<1>11. OneHolder'
  BY <1>1, <1>4, IdleTyped DEF Becomes, Control, OneHolder, Rests, Submits
<1> QED BY <1>1, <1>3, <1>4, <1>5, <1>6, <1>7, <1>8, <1>9, <1>10, <1>11, RequestKeeps DEF Becomes

\* A cancelled running job is only interrupted.
LEMMA CancelRunningKeeps ==
    ASSUME Control, NEW u \in Users, NEW j \in Jobs, CancelRunning(u, j)
    PROVE  Control'
<1>1. /\ Still /\ UNCHANGED <<cancels, worldVars, delivered, displaced, givenUp>>
      /\ \A t \in Threads : th[t] \in Thread
      /\ th' = [t \in Threads |-> IF t = cancels[j] THEN [th[t] EXCEPT !.stop = TRUE] ELSE th[t]]
  BY DEF CancelRunning, Still, Control, TypeOK
<1>2. ASSUME NEW t \in Threads
      PROVE  /\ th'[t] \in Thread /\ th'[t].pc = th[t].pc /\ th'[t].job = th[t].job
             /\ th'[t].snap = th[t].snap /\ th'[t].rec = th[t].rec
             /\ th'[t].goal = th[t].goal /\ th'[t].then = th[t].then
  <2>1. CASE t = cancels[j]
    <3>1. th'[t] = [th[t] EXCEPT !.stop = TRUE]
      BY <1>1, <2>1
    <3> QED BY <1>1, <3>1 DEF Thread
  <2>2. CASE t # cancels[j]
    BY <1>1, <2>2
  <2> QED BY <2>1, <2>2
<1>3. TypeOK'
  BY <1>1, <1>2 DEF Control, TypeOK, Still
<1>4. ASSUME NEW w \in Workers PROVE WorkerOK(w)'
  BY <1>1, <1>2 DEF Control, WorkerOK, Still, Rests, Runs, Waits, Ends
<1>5. ASSUME NEW v \in Users PROVE UserOK(v)'
  BY <1>1, <1>2 DEF Control, UserOK, Still, Submits, Cancels
<1>6. (\A k \in Jobs : JobOK(k)') /\ QueueOK'
  BY <1>1 DEF Still, Control, JobOK, QueueOK
<1>7. OneHolder'
  BY <1>1, <1>2 DEF Still, Control, OneHolder, Rests, Submits
<1> QED BY <1>3, <1>4, <1>5, <1>6, <1>7 DEF Control

\* A cancelled queued job ends in memory; a worker that has it between two
\* attempts finds it so.
LEMMA CancelQueuedKeeps ==
    ASSUME Control, NEW u \in Users, NEW j \in Jobs, CancelQueued(u, j)
    PROVE  Control'
<1>1. /\ th[u] \in Thread /\ TypeOK /\ UserOK(u) /\ JobOK(j) /\ mem[j] \in Job /\ crashes \in Nat
      /\ phase = "up" /\ th[u].pc = "idle" /\ mem[j].state = "queued"
      /\ UNCHANGED <<disk, older, queue, cancels, worldVars, lifeVars, seen, delivered, displaced, givenUp, unsaved>>
  BY DEF Control, TypeOK, CancelQueued, Starts
<1> DEFINE m == [mem[j] EXCEPT !.state = "cancelled"]
           x == [th[u] EXCEPT !.pc = "reclaim", !.job = j, !.rec = mem[j].rec]
<1>2. /\ m \in Job /\ m.state = "cancelled" /\ m.tries = mem[j].tries /\ m.kind = mem[j].kind
      /\ mem[j].rec \in Records \cup {0}
  BY <1>1 DEF Job, States, Terminal
<1>3. /\ mem' \in [Jobs -> Job] /\ mem'[j] = m
      /\ \A k \in Jobs : k # j => mem'[k] = mem[k]
  <2>1. mem' = [mem EXCEPT ![j] = m]
    BY <1>1 DEF CancelQueued
  <2> QED BY <1>1, <1>2, <2>1 DEF TypeOK
<1>4. x \in Thread /\ x.pc = "reclaim" /\ x.job = j /\ x.snap = th[u].snap
  BY <1>1, <1>2 DEF Thread, Labels
<1>5. Becomes(u, x)
  <2>1. th' = [th EXCEPT ![u] = x]
    BY <1>1 DEF CancelQueued, TypeOK
  <2> QED BY <1>1, <1>4, <2>1, Becoming
<1>6. TypeOK'
  BY <1>1, <1>3, <1>5 DEF TypeOK, Becomes
<1> HIDE DEF m, x
<1>7. UserOK(u)'
  <2>1. j \notin unsaved => disk[j].state \notin Promised
    BY <1>1 DEF JobOK, Unfinished, Promised
  <2>2. /\ th'[u].pc = "reclaim" /\ th'[u].job = j /\ th'[u].snap = th[u].snap
        /\ mem'[j].state = "cancelled"
    BY <1>2, <1>3, <1>4, <1>5 DEF Becomes
  <2> QED BY <1>1, <2>1, <2>2 DEF UserOK, Submits, Cancels
<1>8. JobOK(j)'
  BY <1>1, <1>2, <1>3, IdleTyped DEF JobOK, Unfinished
<1>9. ASSUME NEW w \in Workers, ~Rests(w), th[w].job = j PROVE WorkerOK(w)'
  <2>1. th'[w] = th[w]
    BY <1>5 DEF Becomes
  <2> QED BY <1>1, <1>2, <1>3, <1>9, <2>1 DEF Control, WorkerOK, Unfinished, Rests, Runs, Waits, Ends
<1>10. ASSUME NEW v \in Users, v # u, th[v].job = j PROVE UserOK(v)'
  <2>1. th'[v] = th[v] /\ UserOK(v) /\ ~Cancels(v) /\ th[v].pc \notin {"publish", "withdraw"}
    BY <1>1, <1>5, <1>10, IdleTyped DEF Becomes, Control, UserOK
  <2> QED BY <1>1, <1>2, <1>3, <1>10, <2>1 DEF UserOK, Submits, Cancels
<1>11. QueueOK'
  BY <1>1, <1>2, <1>3 DEF Control, QueueOK, TypeOK
<1>12. OneHolder'
  <2>1. \A v \in Users : th[v].pc = "publish" => th[v].job # j
    BY <1>1, IdleTyped DEF Control, UserOK
  <2> QED BY <1>1, <1>4, <1>5, <2>1 DEF Becomes, Control, OneHolder, Rests, Submits
<1> QED BY <1>1, <1>3, <1>4, <1>5, <1>6, <1>7, <1>8, <1>9, <1>10, <1>11, <1>12, RequestKeeps DEF Becomes

\* A cancelled job is saved as what it is when its records have been seen to, if
\* the queue has not refused it.
LEMMA RequestForgetKeeps ==
    ASSUME Control, NEW u \in Users, Forget(u)
    PROVE  Control'
<1>1. /\ th[u] \in Thread /\ TypeOK /\ UserOK(u) /\ u \notin Workers /\ crashes \in Nat
      /\ th[u].pc = "forget" /\ Cancels(u)
  BY DEF Control, TypeOK, Forget, At, Cancels
<1>2. PICK j \in Jobs : th[u].job = j
  BY <1>1 DEF UserOK
<1>3. mem[j] \in Job /\ Mine(u) = mem[j] /\ JobOK(j)
  BY <1>1, <1>2 DEF TypeOK, Mine, Control
<1>4. Still /\ UNCHANGED <<cancels, worldVars, delivered, displaced, givenUp>>
  BY <1>1 DEF Still, Forget
<1>5. CASE mem[j] # NoJob /\ Persist(u, mem[j], "idle")
  <2>1. Becomes(u, [th[u] EXCEPT !.pc = "save", !.then = "idle", !.snap = mem[j]])
    BY <1>1, <1>3, <1>5, Persisting DEF Labels
  <2>2. /\ Becomes(u, th'[u]) /\ th'[u].pc = "save" /\ th'[u].then = "idle" /\ th'[u].job = j
        /\ th'[u].snap = mem[j]
    BY <1>1, <1>2, <2>1 DEF Becomes, Thread
  <2>3. TypeOK'
    BY <1>1, <1>4, <2>2 DEF Still, TypeOK, Becomes
  <2>4. mem[j].state = "cancelled"
    BY <1>1, <1>2, <1>5 DEF UserOK
  <2>5. UserOK(u)' /\ ~Submits(u)'
    BY <1>1, <1>2, <1>3, <1>4, <2>2, <2>4, IdleTyped DEF UserOK, JobOK, Still, Submits, Cancels
  <2> QED BY <1>1, <1>2, <1>4, <2>2, <2>3, <2>5, RequestMovesOn
<1>6. CASE Goto(u, "idle")
  <2>1. Becomes(u, Idle)
    BY <1>1, <1>6, IdleTyped, Becoming DEF Goto
  <2>2. TypeOK'
    BY <1>1, <1>4, <2>1 DEF Still, TypeOK, Becomes
  <2>3. UserOK(u)' /\ ~Submits(u)'
    BY <1>1, <1>4, <2>1, IdleTyped DEF UserOK, Still, Becomes, Submits, Cancels
  <2> QED BY <1>4, <2>1, <2>2, <2>3, IdleTyped, RequestMovesOn DEF Becomes
<1> QED BY <1>1, <1>3, <1>5, <1>6 DEF Forget

LEMMA RequestSaveKeeps ==
    ASSUME Control, NEW u \in Users, Save(u)
    PROVE  Control'
<1>1. /\ th[u] \in Thread /\ TypeOK /\ UserOK(u) /\ crashes \in Nat
      /\ th[u].pc = "save" /\ Cancels(u)
  BY DEF Control, TypeOK, Save, At, Cancels
<1>2. PICK j \in Jobs : th[u].job = j
  BY <1>1 DEF UserOK
<1>3. /\ th[u].snap \in Job /\ th[u].then = "idle"
      /\ th[u].snap.state = "cancelled" /\ (mem[j] = NoJob \/ th[u].snap.kind = disk[j].kind)
      /\ th[u].snap.tries <= MaxAttempts + crashes
      /\ mem[j].state = "cancelled" \/ (mem[j] = NoJob /\ seen[j] \notin Promised)
      /\ j \notin unsaved => disk[j].state \notin Promised
      /\ JobOK(j) /\ phase \in {"up", "ending"}
  BY <1>1, <1>2 DEF Thread, Control, UserOK
<1>4. /\ disk' \in [Jobs -> Job] /\ unsaved' \subseteq Jobs
      /\ older' \in [Jobs -> Job] /\ older'[j] \in {older[j], disk[j]}
      /\ \A k \in Jobs : k # j => disk'[k] = disk[k] /\ older'[k] = older[k]
      /\ unsaved' \in {unsaved, unsaved \cup {j}}
      /\ disk'[j] = th[u].snap \/ (disk'[j] = disk[j] /\ j \in unsaved')
  BY <1>2, <1>3, StoringMine DEF Save
<1>5. Becomes(u, Idle)
  BY <1>1, <1>3, IdleTyped, Becoming DEF Save
<1>6. UNCHANGED <<mem, queue, cancels, worldVars, lifeVars, seen, displaced, delivered, givenUp>>
  BY DEF Save
<1>7. TypeOK'
  BY <1>1, <1>4, <1>5, <1>6 DEF TypeOK, Becomes
<1>8. UserOK(u)'
  BY <1>1, <1>5, <1>6, IdleTyped DEF UserOK, Becomes, Submits, Cancels
<1>9. JobOK(j)'
  BY <1>1, <1>3, <1>4, <1>6, IdleTyped DEF JobOK, Unfinished, Promised
<1>10. ASSUME NEW w \in Workers, ~Rests(w), th[w].job = j PROVE WorkerOK(w)'
  <2>1. th'[w] = th[w]
    BY <1>5 DEF Becomes
  <2>2. mem[j].state = "cancelled"
    BY <1>3, <1>10, IdleTyped, UnknownIsFree
  <2> QED BY <1>1, <1>3, <1>4, <1>6, <1>10, <2>1, <2>2, IdleTyped
          DEF Control, WorkerOK, Unfinished, Rests, Runs, Waits, Ends, Ending
<1>11. ASSUME NEW v \in Users, v # u, th[v].job = j PROVE UserOK(v)'
  <2>1. th'[v] = th[v] /\ UserOK(v) /\ th[v].pc # "publish"
    BY <1>1, <1>2, <1>5, <1>11 DEF Becomes, Control, OneHolder
  <2> QED BY <1>3, <1>4, <1>6, <1>11, <2>1, IdleTyped DEF UserOK, Submits, Cancels, Promised
<1>12. QueueOK'
  <2>1. mem[j].state # "queued"
    BY <1>3, IdleTyped
  <2> QED BY <1>1, <1>3, <1>4, <1>6, <2>1 DEF Control, QueueOK, TypeOK
<1>13. OneHolder'
  BY <1>5, <1>6, IdleTyped DEF Becomes, Control, OneHolder, Rests, Submits
<1> QED BY <1>4, <1>5, <1>6, <1>7, <1>8, <1>9, <1>10, <1>11, <1>12, <1>13, RequestKeeps DEF Becomes

-----------------------------------------------------------------------------
(* The gateway, SIGTERM, the crash and recovery.                            *)

\* The gateway's steps and the start of listening touch no job.
LEMMA WorldKeeps ==
    ASSUME Control, (\E j \in Jobs : GatewayStep(j)) \/ Signal \/ Serve
    PROVE  Control'
<1>1. /\ UNCHANGED <<mem, disk, older, queue, cancels, th, up, owner, todo, crashes, seen, givenUp, unsaved>>
      /\ phase' = phase \/ (phase = "up" /\ phase' = "ending")
                       \/ (phase = "recover" /\ todo = {} /\ phase' = "up")
  BY DEF GatewayStep, GatewaySends, GatewayRefuses, GatewayDrops, GatewayReplaces, Signal, Serve
<1>2. TypeOK'
  <2>1. /\ obj' \in [Jobs -> {"absent", "unsent", "clean", "foreign"}] /\ refused' \subseteq Jobs
        /\ delivered' \subseteq Jobs /\ displaced' \subseteq Jobs
    BY DEF Control, TypeOK, GatewayStep, GatewaySends, GatewayRefuses, GatewayDrops, GatewayReplaces, Signal, Serve
  <2> QED BY <1>1, <2>1 DEF Control, TypeOK
<1>3. \A w \in Workers : WorkerOK(w)'
  BY <1>1 DEF Control, WorkerOK, Rests, Runs, Waits, Ends
<1>4. \A u \in Users : UserOK(u)'
  BY <1>1 DEF Control, UserOK, Submits, Cancels
<1>5. \A j \in Jobs : JobOK(j)'
  BY <1>1 DEF Control, JobOK
<1>6. QueueOK' /\ OneHolder'
  BY <1>1 DEF Control, QueueOK, OneHolder, Rests, Submits
<1> QED BY <1>2, <1>3, <1>4, <1>5, <1>6 DEF Control

\* What a crash leaves of the job files: each as it is, or as it was before its last
\* change.
LEMMA Crashing ==
    ASSUME Control, Crash
    PROVE  \E undone \in SUBSET Jobs :
              /\ disk' = [j \in Jobs |-> IF j \in undone THEN older[j] ELSE disk[j]]
              /\ unsaved' = unsaved \cup undone
              /\ givenUp' = givenUp \cup {r \in Records :
                                owner[r] # NoJobId /\ (owner[r] \in undone \/ ~Named(r))}
BY DEF Crash

\* After a crash nobody has a job, and every file may be run again.
LEMMA CrashKeeps == ASSUME Control, Crash PROVE Control'
<1>1. /\ crashes \in Nat /\ crashes' = crashes + 1 /\ crashes < MaxCrashes
      /\ phase' = "down" /\ todo' = {} /\ queue' = <<>>
      /\ mem' = [j \in Jobs |-> NoJob] /\ th' = [t \in Threads |-> Idle]
      /\ cancels' = [j \in Jobs |-> NoWorker]
      /\ UNCHANGED <<older, worldVars, seen, displaced, delivered>>
  BY DEF Crash, Control, TypeOK
<1>2. PICK undone \in SUBSET Jobs :
         /\ disk' = [j \in Jobs |-> IF j \in undone THEN older[j] ELSE disk[j]]
         /\ unsaved' = unsaved \cup undone
         /\ givenUp' = givenUp \cup {r \in Records :
                           owner[r] # NoJobId /\ (owner[r] \in undone \/ ~Named(r))}
  BY Crashing
<1>3. TypeOK'
  <2>1. givenUp' \subseteq Records /\ unsaved' \subseteq Jobs
    BY <1>2 DEF Control, TypeOK
  <2>2. queue' \in Seq(Jobs) /\ Len(queue') <= QueueCap
    BY <1>1
  <2>3. disk' \in [Jobs -> Job]
    BY <1>2 DEF Control, TypeOK
  <2> QED BY <1>1, <2>1, <2>2, <2>3, IdleTyped DEF Control, TypeOK
<1>4. \A w \in Workers : WorkerOK(w)'
  BY <1>1, IdleTyped DEF WorkerOK, Rests, Runs, Waits, Ends, Resting, Running, Waiting, Ending
<1>5. \A u \in Users : UserOK(u)'
  BY <1>1, IdleTyped DEF UserOK, Submits, Cancels
<1>6. ASSUME NEW j \in Jobs PROVE JobOK(j)'
  <2>1. /\ disk[j] \in Job /\ disk[j].tries \in Nat /\ older[j] \in Job /\ older[j].tries \in Nat
        /\ JobOK(j)
    BY DEF Control, TypeOK, Job
  <2>2. disk'[j] = IF j \in undone THEN older[j] ELSE disk[j]
    BY <1>2
  <2>3. /\ disk'[j].tries < MaxAttempts + crashes'
        /\ older'[j].tries <= MaxAttempts + crashes' /\ (disk'[j].state = "none" => disk'[j] = NoJob)
    BY <1>1, <2>1, <2>2 DEF JobOK
  <2>4. j \notin unsaved' => j \notin unsaved /\ disk'[j] = disk[j]
    BY <1>2, <2>2
  <2>5. mem'[j] = NoJob /\ disk'[j].tries \in Nat /\ MaxAttempts + crashes' \in Nat
    BY <1>1, <2>1, <2>2
  <2>6. /\ mem'[j].tries <= MaxAttempts + crashes' /\ disk'[j].tries <= MaxAttempts + crashes'
        /\ mem'[j].state = "none"
    BY <2>3, <2>5, IdleTyped
  <2>7. j \notin unsaved' /\ seen'[j] \in Promised => disk'[j].state = seen'[j]
    BY <1>1, <2>1, <2>4 DEF JobOK
  <2>8. older'[j].state = "none" => older'[j] = NoJob
    BY <1>1, <2>1 DEF JobOK
  <2> QED BY <1>1, <2>3, <2>5, <2>6, <2>7, <2>8 DEF JobOK
<1>7. QueueOK' /\ OneHolder'
  BY <1>1, IdleTyped DEF QueueOK, OneHolder, Rests, Resting, Submits
<1> QED BY <1>3, <1>4, <1>5, <1>6, <1>7 DEF Control

LEMMA RestartKeeps == ASSUME Control, Restart PROVE Control'
<1>1. /\ phase = "down" /\ phase' = "recover" /\ todo' = {j \in Jobs : disk[j] # NoJob}
      /\ UNCHANGED <<jobVars, th, worldVars, crashes, pastVars>>
  BY DEF Restart
<1>2. TypeOK'
  BY <1>1 DEF Control, TypeOK
<1>3. \A w \in Workers : WorkerOK(w)'
  BY <1>1 DEF Control, WorkerOK, Rests, Runs, Waits, Ends
<1>4. \A u \in Users : UserOK(u)'
  BY <1>1 DEF Control, UserOK, Submits, Cancels
<1>5. \A j \in Jobs : JobOK(j)'
  BY <1>1 DEF Control, JobOK
<1>6. QueueOK' /\ OneHolder'
  BY <1>1 DEF Control, QueueOK, OneHolder, Rests, Submits
<1> QED BY <1>2, <1>3, <1>4, <1>5, <1>6 DEF Control

\* Loading one job: the others, the threads and the queue so far are as before.
LEMMA RecoverKeepsOthers ==
    ASSUME Control, NEW j \in todo, phase = "recover", todo' \in {{}, todo \ {j}},
           \A k \in Jobs : k # j =>
              mem'[k] = mem[k] /\ disk'[k] = disk[k] /\ older'[k] = older[k] /\ seen'[k] = seen[k],
           unsaved' \in {unsaved, unsaved \cup {j}}, UNCHANGED <<th, phase, crashes>>,
           TypeOK', JobOK(j)', QueueOK', OneHolder'
    PROVE  Control'
<1>1. j \in Jobs /\ mem[j].state = "none"
  BY IdleTyped DEF Control, TypeOK, JobOK
<1>2. \A w \in Workers : ~Rests(w) => th[w].job # j
  BY <1>1, UnknownIsFree
<1>3. ASSUME NEW w \in Workers PROVE WorkerOK(w)'
  <2>1. CASE Rests(w)
    BY <2>1 DEF Control, WorkerOK, Rests, Runs, Waits, Ends, Resting, Running, Waiting, Ending
  <2>2. CASE ~Rests(w)
    BY <1>2, <2>2 DEF Control, WorkerOK, Rests, Runs, Waits, Ends
  <2> QED BY <2>1, <2>2
<1>4. \A u \in Users : UserOK(u)'
  BY DEF Control, UserOK, Submits, Cancels
<1>5. ASSUME NEW k \in Jobs, k # j PROVE JobOK(k)'
  BY <1>5 DEF Control, JobOK
<1> QED BY <1>3, <1>4, <1>5 DEF Control

LEMMA RecoverEndedKeeps == ASSUME Control, NEW j \in Jobs, RecoverEnded(j) PROVE Control'
<1>1. /\ phase = "recover" /\ j \in todo /\ disk[j].state \in Terminal /\ TypeOK /\ JobOK(j)
      /\ disk[j] \in Job /\ mem[j] = NoJob /\ crashes \in Nat /\ todo' = todo \ {j}
      /\ mem' = [mem EXCEPT ![j] = disk[j]]
      /\ UNCHANGED <<disk, older, queue, cancels, th, worldVars, phase, crashes, pastVars>>
  BY DEF Control, RecoverEnded, Loaded, TypeOK, JobOK
<1>2. /\ mem' \in [Jobs -> Job] /\ mem'[j] = disk[j]
      /\ \A k \in Jobs : k # j => mem'[k] = mem[k]
  BY <1>1 DEF TypeOK
<1>3. TypeOK'
  BY <1>1, <1>2 DEF TypeOK
<1>4. JobOK(j)'
  BY <1>1, <1>2 DEF JobOK, Terminal
<1>5. \A i \in DOMAIN queue : queue[i] # j
  BY <1>1, IdleTyped, UnknownIsFree
<1>6. QueueOK' /\ OneHolder'
  BY <1>1, <1>2, <1>5 DEF Control, QueueOK, OneHolder, TypeOK, Rests, Submits
<1> QED BY <1>1, <1>2, <1>3, <1>4, <1>6, RecoverKeepsOthers

LEMMA RecoverWholeKeeps == ASSUME Control, NEW j \in Jobs, RecoverWhole(j) PROVE Control'
<1> DEFINE done == [disk[j] EXCEPT !.state = "succeeded", !.rec = 0]
<1>1. /\ phase = "recover" /\ j \in todo /\ disk[j].state \notin Terminal /\ TypeOK /\ JobOK(j)
      /\ disk[j] \in Job /\ mem[j] = NoJob /\ crashes \in Nat /\ todo' = todo \ {j}
      /\ Stored(j, done) /\ mem' = [mem EXCEPT ![j] = done] /\ seen' = [seen EXCEPT ![j] = "succeeded"]
      /\ UNCHANGED <<queue, cancels, th, worldVars, phase, crashes, displaced, delivered, givenUp>>
  BY DEF Control, RecoverWhole, Loaded, TypeOK, JobOK
<1>2. /\ done \in Job /\ done.state = "succeeded" /\ done.kind = disk[j].kind /\ done.tries = disk[j].tries
      /\ disk[j].tries \in Nat
  <2>1. disk[j] \in Job
    BY <1>1
  <2>2. disk[j].tries \in Nat
    BY <2>1 DEF Job
  <2>3. done \in Job
    BY <2>1 DEF Job, States, Terminal
  <2>4. done.state = "succeeded" /\ done.kind = disk[j].kind /\ done.tries = disk[j].tries
    BY <2>1 DEF Job
  <2> QED BY <2>2, <2>3, <2>4
<1>3. /\ mem' \in [Jobs -> Job] /\ mem'[j] = done /\ seen'[j] = "succeeded"
      /\ seen' \in [Jobs -> {"none", "refused"} \cup Terminal]
      /\ \A k \in Jobs : k # j => mem'[k] = mem[k] /\ seen'[k] = seen[k]
  BY <1>1, <1>2 DEF TypeOK, Terminal
<1>4. /\ disk' \in [Jobs -> Job] /\ unsaved' \subseteq Jobs
      /\ older' \in [Jobs -> Job] /\ older'[j] \in {older[j], disk[j]}
      /\ \A k \in Jobs : k # j => disk'[k] = disk[k] /\ older'[k] = older[k]
      /\ unsaved' \in {unsaved, unsaved \cup {j}}
      /\ disk'[j] = done \/ (disk'[j] = disk[j] /\ j \in unsaved')
  BY <1>1, <1>2, StoringMine
<1>5. TypeOK'
  BY <1>1, <1>3, <1>4 DEF TypeOK
<1> HIDE DEF done
<1>6. JobOK(j)'
  BY <1>1, <1>2, <1>3, <1>4 DEF JobOK
<1>7. \A i \in DOMAIN queue : queue[i] # j
  BY <1>1, IdleTyped, UnknownIsFree
<1>8. QueueOK' /\ OneHolder'
  BY <1>1, <1>3, <1>4, <1>7 DEF Control, QueueOK, OneHolder, TypeOK, Rests, Submits
<1> QED BY <1>1, <1>3, <1>4, <1>5, <1>6, <1>8, RecoverKeepsOthers

LEMMA RecoverRequeueKeeps == ASSUME Control, NEW j \in Jobs, RecoverRequeue(j) PROVE Control'
<1> DEFINE again == [disk[j] EXCEPT !.state = "queued", !.rec = 0]
<1>1. /\ phase = "recover" /\ j \in todo /\ disk[j].state \notin Terminal /\ TypeOK /\ JobOK(j)
      /\ disk[j] \in Job /\ mem[j] = NoJob /\ crashes \in Nat
      /\ Stored(j, again) /\ mem' = [mem EXCEPT ![j] = again]
      /\ UNCHANGED <<cancels, th, owner, obj, refused, phase, crashes, seen, displaced, delivered>>
  BY DEF Control, RecoverRequeue, TypeOK, JobOK
<1>2. /\ again \in Job /\ again.state = "queued" /\ again.kind = disk[j].kind
      /\ again.tries = disk[j].tries /\ disk[j].tries \in Nat
      /\ disk[j].rec \in Records \cup {0} /\ disk[j].state \in {"queued", "running"}
  <2>1. disk[j] \in Job /\ disk[j].state \notin Terminal \cup {"none"}
    BY <1>1 DEF JobOK
  <2>2. /\ disk[j].tries \in Nat /\ disk[j].rec \in Records \cup {0}
        /\ disk[j].state \in {"queued", "running"}
    BY <2>1 DEF Job, States, Terminal
  <2>3. again \in Job
    BY <2>1 DEF Job, States, Terminal
  <2>4. again.state = "queued" /\ again.kind = disk[j].kind /\ again.tries = disk[j].tries
    BY <2>1 DEF Job
  <2> QED BY <2>2, <2>3, <2>4
<1>3. /\ mem' \in [Jobs -> Job] /\ mem'[j] = again
      /\ \A k \in Jobs : k # j => mem'[k] = mem[k]
  BY <1>1, <1>2 DEF TypeOK
<1>4. /\ disk' \in [Jobs -> Job] /\ unsaved' \subseteq Jobs
      /\ older' \in [Jobs -> Job] /\ older'[j] \in {older[j], disk[j]}
      /\ \A k \in Jobs : k # j => disk'[k] = disk[k] /\ older'[k] = older[k]
      /\ unsaved' \in {unsaved, unsaved \cup {j}}
      /\ disk'[j] = again \/ (disk'[j] = disk[j] /\ j \in unsaved')
  BY <1>1, <1>2, StoringMine
<1> HIDE DEF again
<1>5. \/ HasRoom /\ queue' = Append(queue, j) /\ todo' = todo \ {j}
      \/ todo' = {} /\ UNCHANGED queue
  BY DEF RecoverRequeue, Loaded
<1>6. queue \in Seq(Jobs) /\ queue' \in Seq(Jobs) /\ Len(queue') <= QueueCap /\ todo' \subseteq Jobs
  <2>1. queue \in Seq(Jobs) /\ Len(queue) <= QueueCap /\ todo \subseteq Jobs
    BY <1>1 DEF TypeOK
  <2> QED BY <1>5, <2>1 DEF HasRoom
<1>7. \A i \in DOMAIN queue' : \/ i \in DOMAIN queue /\ queue'[i] = queue[i]
                               \/ i = Len(queue) + 1 /\ queue'[i] = j
  BY <1>5, <1>6
<1>8. TypeOK'
  <2>1. up' \in [Records -> {"none", "empty", "whole", "theirs", "gone"}]
    <3>1. \/ UNCHANGED up
          \/ up' = [up EXCEPT ![disk[j].rec] = "gone"]
      BY DEF RecoverRequeue
    <3> QED BY <1>1, <3>1 DEF TypeOK
  <2>2. givenUp' \subseteq Records
    <3>1. givenUp' = givenUp \/ (givenUp' = givenUp \cup {disk[j].rec} /\ disk[j].rec # 0)
      BY DEF RecoverRequeue, Candidate, Exempt
    <3> QED BY <1>1, <1>2, <3>1 DEF TypeOK
  <2> QED BY <1>1, <1>3, <1>4, <1>6, <2>1, <2>2 DEF TypeOK
<1>9. JobOK(j)'
  BY <1>1, <1>2, <1>3, <1>4, <1>5, IdleTyped DEF JobOK, Unfinished, Promised
<1>10. /\ \A w \in Workers : ~Rests(w) => th[w].job # j
       /\ \A i \in DOMAIN queue : queue[i] # j
  BY <1>1, IdleTyped, UnknownIsFree
<1>11. QueueOK'
  <2>1. mem'[j].state = "queued" /\ disk'[j].state \in Unfinished
    BY <1>2, <1>3, <1>4 DEF Unfinished
  <2>2. ASSUME NEW i \in DOMAIN queue'
        PROVE  /\ mem'[queue'[i]].state \in {"queued", "cancelled"}
               /\ queue'[i] \notin unsaved' /\ mem'[queue'[i]].state = "queued"
                    => disk'[queue'[i]].state \in Unfinished
    <3>1. CASE i \in DOMAIN queue /\ queue'[i] = queue[i]
      BY <1>3, <1>4, <1>6, <1>10, <3>1 DEF Control, QueueOK
    <3>2. CASE queue'[i] = j
      BY <2>1, <3>2
    <3> QED BY <1>7, <3>1, <3>2
  <2> QED BY <2>2 DEF QueueOK
<1>12. OneHolder'
  <2>1. \A i, l \in DOMAIN queue' : queue'[i] = queue'[l] => i = l
    BY <1>7, <1>10 DEF Control, OneHolder
  <2>2. \A w \in Workers, i \in DOMAIN queue' : ~Rests(w)' => queue'[i] # th'[w].job
    BY <1>1, <1>7, <1>10 DEF Control, OneHolder, Rests
  <2>3. \A u \in Users : ~Submits(u)'
    BY <1>1 DEF Control, UserOK, Submits
  <2> QED BY <1>1, <2>1, <2>2, <2>3 DEF Control, OneHolder, Rests, Submits
<1> QED BY <1>1, <1>3, <1>4, <1>5, <1>8, <1>9, <1>11, <1>12, RecoverKeepsOthers

-----------------------------------------------------------------------------
(* The control invariant is inductive.                                      *)

LEMMA InitControl == Init => Control
<1> SUFFICES ASSUME Init PROVE Control
  OBVIOUS
<1>1. TypeOK
  BY IdleTyped DEF Init, TypeOK
<1>2. \A w \in Workers : WorkerOK(w)
  BY IdleTyped DEF Init, WorkerOK, Rests, Runs, Waits, Ends, Resting, Running, Waiting, Ending
<1>3. \A u \in Users : UserOK(u)
  BY IdleTyped DEF Init, UserOK, Submits, Cancels
<1>4. ASSUME NEW j \in Jobs PROVE JobOK(j)
  <2>1. mem[j] = NoJob /\ disk[j] = NoJob /\ older[j] = NoJob /\ crashes = 0 /\ phase = "up" /\ todo = {} /\ seen[j] = "none"
    BY DEF Init
  <2> QED BY <2>1, IdleTyped DEF JobOK, Promised
<1>5. QueueOK /\ OneHolder
  BY IdleTyped DEF Init, QueueOK, OneHolder, Rests, Resting, Submits
<1> QED BY <1>1, <1>2, <1>3, <1>4, <1>5 DEF Control

LEMMA NextControl == Control /\ [Next]_vars => Control'
<1> SUFFICES ASSUME Control, [Next]_vars PROVE Control'
  OBVIOUS
<1>1. ASSUME NEW u \in Users, NEW j \in Jobs, Request(u, j) PROVE Control'
  BY <1>1, SubmitKeeps, CancelRunningKeeps, CancelQueuedKeeps
  DEF Request, handleUpload, handleDownload, handleJobCancel
<1>2. ASSUME NEW u \in Users, RequestStep(u) PROVE Control'
  BY <1>2, PublishKeeps, EnqueueKeeps, RetractKeeps, WithdrawKeeps DEF RequestStep
<1>3. ASSUME NEW w \in Workers, WorkerStep(w) PROVE Control'
  BY <1>3, TakeKeeps, LeaveKeeps, ClaimKeeps, StageKeeps, CreatedKeeps, VisibleKeeps, VerdictKeeps,
     RequeueKeeps, SnapKeeps, WakeKeeps, FinishKeeps, RecordKeeps, ShowKeeps
  DEF WorkerStep, Uploading, Stage
<1>4. ASSUME NEW t \in Threads, SharedStep(t) PROVE Control'
  BY <1>4, WorkerSaveKeeps, RequestSaveKeeps, ReclaimKeeps, WorkerForgetKeeps, RequestForgetKeeps
  DEF SharedStep
<1>5. ASSUME NEW j \in Jobs, Recover(j) PROVE Control'
  BY <1>5, RecoverEndedKeeps, RecoverWholeKeeps, RecoverRequeueKeeps DEF Recover
<1>6. ASSUME (\E j \in Jobs : GatewayStep(j)) \/ Signal \/ Serve PROVE Control'
  BY <1>6, WorldKeeps
<1>7. ASSUME Crash \/ Restart PROVE Control'
  BY <1>7, CrashKeeps, RestartKeeps
<1>8. CASE UNCHANGED vars
  <2>1. UNCHANGED <<mem, disk, older, queue, cancels, th, phase, todo, crashes, seen, unsaved>>
    BY <1>8 DEF vars
  <2>2. TypeOK'
    BY <1>8 DEF Control, TypeOK, vars
  <2>3. (\A w \in Workers : WorkerOK(w)') /\ (\A u \in Users : UserOK(u)')
    BY <2>1 DEF Control, WorkerOK, UserOK, Rests, Runs, Waits, Ends, Submits, Cancels
  <2>4. (\A j \in Jobs : JobOK(j)') /\ QueueOK' /\ OneHolder'
    BY <2>1 DEF Control, JobOK, QueueOK, OneHolder, Rests, Submits
  <2> QED BY <2>2, <2>3, <2>4 DEF Control
<1> QED BY <1>1, <1>2, <1>3, <1>4, <1>5, <1>6, <1>7, <1>8 DEF Next

\* Every job, through submission, retries, cancellation, restarts and failed saves,
\* is with one holder, and its states in memory, on disk and in flight fit together.
THEOREM ControlHolds == Spec => []Control
BY InitControl, NextControl, PTL DEF Spec

\* The variables keep their types, the counters their bounds.
THEOREM TypesHold == Spec => []TypeOK
<1>1. Control => TypeOK
  BY DEF Control
<1> QED BY <1>1, ControlHolds, PTL


-----------------------------------------------------------------------------
(* The engine keeps JobContract: every step maps to a step of it, about one *)
(* job, or to a stutter.                                                    *)

\* What may happen to the file of a job and to the end a client has read of it,
\* when the file can be written.
Entered(j) ==
    \/ /\ seen'[j] = seen[j]
       /\ \/ disk'[j].state = disk[j].state
          \/ disk[j].state \in Unfinished \cup {"none", "cancelled"} /\ disk'[j].state \in Unfinished
          \/ disk[j].state = "none" /\ disk'[j].state = "cancelled"
    \/ /\ disk[j].state \in Unfinished \cup {"cancelled"} /\ disk'[j].state = "none"
       /\ seen[j] = "none" /\ seen'[j] = "refused"
    \/ /\ disk[j].state \in Unfinished /\ disk'[j].state \in Terminal
       /\ seen'[j] \in {seen[j], disk'[j].state}
       /\ seen'[j] # seen[j] => seen'[j] \in Promised
    \/ /\ disk'[j].state = disk[j].state /\ disk[j].state \in Terminal /\ seen'[j] = disk[j].state
       /\ seen'[j] \notin Promised => seen[j] \notin Promised

\* Such a change is a step of the contract, and so is a file that is lost.
LEMMA ContractOfOne ==
    ASSUME TypeOK, TypeOK', NEW j \in Jobs,
           \A k \in Jobs : k # j => disk'[k] = disk[k] /\ seen'[k] = seen[k],
           unsaved' \in {unsaved, unsaved \cup {j}},
           j \in unsaved' \/ Entered(j)
    PROVE  [Contract!Next]_(Contract!vars)
<1>1. PICK e : e = IF disk[j].state \in {"queued", "running"} THEN "open" ELSE disk[j].state
  OBVIOUS
<1>2. PICK f : f = IF disk'[j].state \in {"queued", "running"} THEN "open" ELSE disk'[j].state
  OBVIOUS
<1>3. PICK t : t = IF seen[j] \in {"succeeded", "failed"} THEN seen[j] ELSE "none"
  OBVIOUS
<1>4. PICK s : s = IF seen'[j] \in {"succeeded", "failed"} THEN seen'[j] ELSE "none"
  OBVIOUS
<1>5. Contract!Becomes(j, f, s)
  BY <1>2, <1>4 DEF Contract!Becomes
<1>6. f \in Contract!Entries /\ s \in Contract!Tellings
  BY <1>2, <1>4 DEF TypeOK, Contract!Entries, Contract!Tellings, Contract!Promised, Job, States, Terminal
<1>7. CASE j \in unsaved'
  <2>1. unsaved' = unsaved \cup {j} /\ {j} \in SUBSET Jobs
    BY <1>7
  <2>2. \A k \in Jobs : disk'[k] \in Job /\ seen'[k] \in {"none", "refused"} \cup Terminal
    BY DEF TypeOK
  <2>3. \A k \in Jobs :
           /\ (IF disk'[k].state \in {"queued", "running"} THEN "open" ELSE disk'[k].state) \in Contract!Entries
           /\ (IF seen'[k] \in {"succeeded", "failed"} THEN seen'[k] ELSE "none") \in Contract!Tellings
    BY <2>2 DEF Contract!Entries, Contract!Tellings, Contract!Promised, Job, States, Terminal
  <2>4. Contract!Lose({j})
    BY <2>1, <2>3 DEF Contract!Lose
  <2> QED BY <2>1, <2>4 DEF Contract!Next
<1>8. CASE j \notin unsaved' /\ Entered(j)
  <2>1. UNCHANGED unsaved
    BY <1>8
  <2>2. \/ s = t /\ f = e
        \/ s = t /\ e \in {"none", "cancelled"} /\ f = "open"
        \/ s = t /\ e = "none" /\ f = "cancelled"
        \/ s = t /\ e \in {"open", "cancelled"} /\ f = "none"
        \/ /\ e = "open" /\ f \in Promised \cup {"cancelled"}
           /\ s \in {t} \cup ({f} \cap Promised)
        \/ f = e /\ e \in Promised /\ s = e
    BY <1>1, <1>2, <1>3, <1>4, <1>8 DEF Entered, Unfinished, Terminal, Promised
  <2>3. CASE s = t /\ f = e
    <3>1. \A k \in Jobs :
             /\ (IF disk'[k].state \in {"queued", "running"} THEN "open" ELSE disk'[k].state)
                   = (IF disk[k].state \in {"queued", "running"} THEN "open" ELSE disk[k].state)
             /\ (IF seen'[k] \in {"succeeded", "failed"} THEN seen'[k] ELSE "none")
                   = (IF seen[k] \in {"succeeded", "failed"} THEN seen[k] ELSE "none")
      BY <1>1, <1>2, <1>3, <1>4, <2>3
    <3> QED BY <2>1, <3>1 DEF Contract!vars
  <2>4. CASE s = t /\ e \in {"none", "cancelled"} /\ f = "open"
    <3>1. Contract!Becomes(j, "open", t)
      BY <1>5, <2>4
    <3>2. Contract!Accept(j) \/ Contract!Reopen(j)
      BY <1>1, <1>3, <2>1, <2>4, <3>1 DEF Contract!Accept, Contract!Reopen, Contract!Becomes
    <3> QED BY <3>2 DEF Contract!Next
  <2>8. CASE s = t /\ e = "none" /\ f = "cancelled"
    <3>1. Contract!Becomes(j, "cancelled", t)
      BY <1>5, <2>8
    <3>2. Contract!Linger(j)
      BY <1>1, <1>3, <2>1, <2>8, <3>1 DEF Contract!Linger, Contract!Becomes
    <3> QED BY <3>2 DEF Contract!Next
  <2>5. CASE s = t /\ e \in {"open", "cancelled"} /\ f = "none"
    <3>1. Contract!Becomes(j, "none", t)
      BY <1>5, <2>5
    <3>2. Contract!Refuse(j)
      BY <1>1, <1>3, <2>1, <2>5, <3>1 DEF Contract!Refuse, Contract!Becomes
    <3> QED BY <3>2 DEF Contract!Next
  <2>6. CASE /\ e = "open" /\ f \in Promised \cup {"cancelled"}
             /\ s \in {t} \cup ({f} \cap Promised)
    <3>1. Contract!Settle(j)
      BY <1>1, <1>3, <1>5, <2>1, <2>6 DEF Contract!Settle, Contract!Promised, Promised
    <3> QED BY <3>1 DEF Contract!Next
  <2>7. CASE f = e /\ e \in Promised /\ s = e
    <3>1. Contract!Becomes(j, e, e)
      BY <1>5, <2>7
    <3>2. Contract!Tell(j)
      BY <1>1, <2>1, <2>7, <3>1 DEF Contract!Tell, Contract!Becomes, Contract!Promised, Promised
    <3> QED BY <3>2 DEF Contract!Next
  <2> QED BY <2>2, <2>3, <2>4, <2>5, <2>6, <2>7, <2>8
<1> QED BY <1>7, <1>8

\* A step that changes no file and shows no end.
LEMMA ContractOfNone ==
    ASSUME UNCHANGED <<disk, seen, unsaved>>
    PROVE  [Contract!Next]_(Contract!vars)
BY DEF Contract!vars

\* A worker or a request saves a job that has not ended, or is cancelled.
LEMMA ContractOfSave ==
    ASSUME Control, Control', NEW t \in Threads, Save(t)
    PROVE  [Contract!Next]_(Contract!vars)
<1>1. th[t] \in Thread /\ th[t].pc = "save" /\ TypeOK
  BY DEF Control, TypeOK, Save, At
<1>2. PICK j \in Jobs : th[t].job = j
  BY <1>1 DEF Control, WorkerOK, UserOK, Rests, Resting
<1>3. /\ th[t].snap \in Job
      /\ \A k \in Jobs : k # j => disk'[k] = disk[k]
      /\ unsaved' \in {unsaved, unsaved \cup {j}}
      /\ disk'[j] = th[t].snap \/ (disk'[j] = disk[j] /\ j \in unsaved')
      /\ seen' = seen
  <2>1. th[t].snap \in Job
    BY <1>1 DEF Thread
  <2> QED BY <1>2, <2>1, StoringMine DEF Save
<1>4. CASE j \notin unsaved'
  <2>1. \/ /\ disk[j].state \in Unfinished \cup {"cancelled"}
           /\ th[t].snap.state \in Unfinished \cup {"cancelled"}
        \/ disk[j].state = "none" /\ th[t].snap.state = "cancelled"
    <3>1. CASE t \in Workers
      <4>1. WorkerOK(t) /\ JobOK(j) /\ (Runs(t) \/ Waits(t))
        BY <1>1, <1>2, <3>1 DEF Control, WorkerOK, Rests, Ends, Resting, Ending
      <4> QED BY <1>1, <1>2, <1>3, <1>4, <4>1 DEF WorkerOK, JobOK, Unfinished, Rests, Resting
    <3>2. CASE t \in Users
      <4>1. UserOK(t) /\ disk[j] \in Job
        BY <1>1, <3>2 DEF Control, TypeOK
      <4>2. th[t].snap.state = "cancelled" /\ disk[j].state \notin Promised
        BY <1>1, <1>2, <1>3, <1>4, <4>1 DEF UserOK, Cancels
      <4> QED BY <4>1, <4>2 DEF Job, States, Terminal, Promised, Unfinished
    <3> QED BY <3>1, <3>2
  <2>2. Entered(j)
    BY <1>3, <1>4, <2>1 DEF Entered, Unfinished, Terminal
  <2> QED BY <1>1, <1>3, <2>2, ContractOfOne DEF Control
<1>5. CASE j \in unsaved'
  BY <1>1, <1>3, <1>5, ContractOfOne DEF Control
<1> QED BY <1>4, <1>5

\* The end of a job enters its file, and a client reads what the file says.
LEMMA ContractOfEnd ==
    ASSUME Control, Control', NEW w \in Workers, Record(w) \/ Show(w)
    PROVE  [Contract!Next]_(Contract!vars)
<1>1. th[w].pc \in {"record", "show"} /\ ~Rests(w) /\ Ends(w)
  BY DEF Record, Show, At, Rests, Resting, Ends, Ending
<1>2. PICK j \in Jobs : th[w].job = j
  BY <1>1, AtWork
<1>3. /\ th[w].snap \in Job /\ th[w].goal \in Terminal /\ TypeOK
      /\ WorkerOK(w) /\ JobOK(j) /\ th[w].snap.state = th[w].goal
  <2>1. th[w] \in Thread /\ TypeOK /\ WorkerOK(w) /\ JobOK(j)
    BY <1>1, <1>2, AtWork
  <2> QED BY <1>1, <2>1 DEF Thread, WorkerOK
<1>4. CASE Record(w)
  <2>1. /\ \A k \in Jobs : k # j => disk'[k] = disk[k]
        /\ unsaved' \in {unsaved, unsaved \cup {j}}
        /\ disk'[j] = th[w].snap \/ (disk'[j] = disk[j] /\ j \in unsaved')
        /\ seen' = seen
    BY <1>2, <1>3, <1>4, StoringMine DEF Record
  <2>2. CASE j \notin unsaved'
    <3>1. disk[j].state \in Unfinished \/ (disk[j].state = "cancelled" /\ th[w].goal = "cancelled")
      BY <1>1, <1>2, <1>3, <1>4, <2>1, <2>2 DEF WorkerOK, JobOK, Unfinished, Record, At
    <3>2. Entered(j)
      BY <1>3, <2>1, <2>2, <3>1 DEF Entered
    <3> QED BY <1>3, <2>1, <3>2, ContractOfOne DEF Control
  <2>3. CASE j \in unsaved'
    BY <1>3, <2>1, <2>3, ContractOfOne DEF Control
  <2> QED BY <2>2, <2>3
<1>5. CASE Show(w)
  <2>1. /\ UNCHANGED <<disk, older, unsaved>> /\ seen'[j] = th[w].goal
        /\ \A k \in Jobs : k # j => seen'[k] = seen[k]
    BY <1>2, <1>3, <1>5 DEF Show, TypeOK
  <2>2. CASE j \notin unsaved
    <3>1. disk[j].state = th[w].goal /\ (seen[j] \in Promised => seen[j] = th[w].goal)
      BY <1>2, <1>3, <1>5, <2>2 DEF WorkerOK, JobOK, Show, At
    <3>2. Entered(j)
      BY <1>3, <2>1, <3>1 DEF Entered
    <3> QED BY <1>3, <2>1, <3>2, ContractOfOne DEF Control
  <2>3. CASE j \in unsaved
    BY <1>3, <2>1, <2>3, ContractOfOne DEF Control
  <2> QED BY <2>2, <2>3
<1> QED BY <1>4, <1>5

\* A submission is on disk before it is accepted, and off disk when it is refused.
LEMMA ContractOfSubmission ==
    ASSUME Control, Control', NEW u \in Users,
           Withdraw(u) \/ \E j \in Jobs, k \in Kinds : Submit(u, j, k)
    PROVE  [Contract!Next]_(Contract!vars)
<1>1. TypeOK /\ TypeOK'
  BY DEF Control
<1>2. CASE Withdraw(u)
  <2>1. PICK j \in Jobs : th[u].job = j
    BY <1>2 DEF Withdraw, At, Control, UserOK
  <2>2. /\ seen[j] = "none"
        /\ j \notin unsaved => disk[j].state \in Unfinished \cup {"cancelled"}
    BY <1>2, <2>1 DEF Withdraw, At, Control, UserOK, Submits
  <2>3. /\ disk'[j] = NoJob /\ seen'[j] = "refused" /\ UNCHANGED unsaved
        /\ \A i \in Jobs : i # j => disk'[i] = disk[i] /\ seen'[i] = seen[i]
    BY <1>1, <1>2, <2>1 DEF Withdraw, Changed, TypeOK
  <2>4. CASE j \notin unsaved
    <3>1. Entered(j)
      BY <2>2, <2>3, <2>4, IdleTyped DEF Entered, Unfinished
    <3> QED BY <1>1, <2>3, <3>1, ContractOfOne
  <2>5. CASE j \in unsaved
    BY <1>1, <2>3, <2>5, ContractOfOne
  <2> QED BY <2>4, <2>5
<1>3. ASSUME NEW j \in Jobs, NEW k \in Kinds, Submit(u, j, k)
      PROVE  [Contract!Next]_(Contract!vars)
  <2>1. /\ disk[j] = NoJob /\ disk'[j] = NewJob(k) /\ UNCHANGED <<seen, unsaved>>
        /\ \A i \in Jobs : i # j => disk'[i] = disk[i]
    <3>1. disk[j] = NoJob /\ disk' = [disk EXCEPT ![j] = NewJob(k)] /\ UNCHANGED <<seen, unsaved>>
      BY <1>3 DEF Submit, Changed
    <3> QED BY <1>1, <3>1 DEF TypeOK
  <2>2. Entered(j)
    BY <2>1, IdleTyped DEF Entered, Unfinished
  <2> QED BY <1>1, <2>1, <2>2, ContractOfOne
<1> QED BY <1>2, <1>3

\* A power loss may take the last change of some files.
LEMMA ContractOfCrash ==
    ASSUME Control, Control', Crash
    PROVE  [Contract!Next]_(Contract!vars)
<1>1. PICK undone \in SUBSET Jobs :
         /\ disk' = [j \in Jobs |-> IF j \in undone THEN older[j] ELSE disk[j]]
         /\ unsaved' = unsaved \cup undone
         /\ givenUp' = givenUp \cup {r \in Records :
                           owner[r] # NoJobId /\ (owner[r] \in undone \/ ~Named(r))}
  BY Crashing
<1>2. UNCHANGED seen /\ TypeOK'
  BY DEF Crash, Control
<1>3. \A k \in Jobs : disk'[k] \in Job /\ seen'[k] \in {"none", "refused"} \cup Terminal
  BY <1>2 DEF TypeOK
<1>4. \A k \in Jobs :
         /\ (IF disk'[k].state \in {"queued", "running"} THEN "open" ELSE disk'[k].state) \in Contract!Entries
         /\ (IF seen'[k] \in {"succeeded", "failed"} THEN seen'[k] ELSE "none") \in Contract!Tellings
  BY <1>3 DEF Contract!Entries, Contract!Tellings, Contract!Promised, Job, States, Terminal
<1>5. \A k \in Jobs \ undone : disk'[k] = disk[k]
  BY <1>1
<1>6. Contract!Lose(undone)
  BY <1>1, <1>2, <1>4, <1>5 DEF Contract!Lose
<1> QED BY <1>6 DEF Contract!Next

\* Recovery settles a job upstream has whole, and reopens the others.
LEMMA ContractOfRecovery ==
    ASSUME Control, Control', NEW j \in Jobs, Recover(j)
    PROVE  [Contract!Next]_(Contract!vars)
<1>1. TypeOK /\ TypeOK' /\ disk[j] \in Job /\ j \in todo /\ JobOK(j)
  BY DEF Control, TypeOK, Recover, RecoverEnded, RecoverWhole, RecoverRequeue
<1>2. CASE RecoverEnded(j)
  BY <1>2, ContractOfNone DEF RecoverEnded
<1>3. CASE RecoverWhole(j)
  <2> DEFINE done == [disk[j] EXCEPT !.state = "succeeded", !.rec = 0]
  <2>1. done \in Job /\ done.state = "succeeded" /\ disk[j].state \in Unfinished
    BY <1>1, <1>3 DEF Job, States, Terminal, RecoverWhole, JobOK, Unfinished
  <2>2. Stored(j, done) /\ seen' = [seen EXCEPT ![j] = "succeeded"]
    BY <1>3 DEF RecoverWhole
  <2> HIDE DEF done
  <2>3. /\ \A k \in Jobs : k # j => disk'[k] = disk[k] /\ seen'[k] = seen[k]
        /\ unsaved' \in {unsaved, unsaved \cup {j}} /\ seen'[j] = "succeeded"
        /\ disk'[j] = done \/ j \in unsaved'
    BY <1>1, <2>1, <2>2, StoringMine DEF TypeOK
  <2>4. j \in unsaved' \/ Entered(j)
    BY <2>1, <2>3 DEF Entered, Unfinished, Terminal, Promised
  <2> QED BY <1>1, <2>3, <2>4, ContractOfOne
<1>4. CASE RecoverRequeue(j)
  <2> DEFINE again == [disk[j] EXCEPT !.state = "queued", !.rec = 0]
  <2>1. again \in Job /\ again.state = "queued" /\ disk[j].state \in Unfinished
    BY <1>1, <1>4 DEF Job, States, Terminal, RecoverRequeue, JobOK, Unfinished
  <2>2. Stored(j, again) /\ UNCHANGED seen
    BY <1>4 DEF RecoverRequeue
  <2> HIDE DEF again
  <2>3. /\ \A k \in Jobs : k # j => disk'[k] = disk[k]
        /\ unsaved' \in {unsaved, unsaved \cup {j}}
        /\ disk'[j] = again \/ j \in unsaved'
    BY <2>1, <2>2, StoringMine
  <2>4. j \in unsaved' \/ Entered(j)
    BY <2>1, <2>2, <2>3 DEF Entered, Unfinished
  <2> QED BY <1>1, <2>2, <2>3, <2>4, ContractOfOne
<1> QED BY <1>2, <1>3, <1>4 DEF Recover

LEMMA ContractOfNext ==
    Control /\ [Next]_vars => [Contract!Next]_(Contract!vars)
<1> SUFFICES ASSUME Control, [Next]_vars PROVE [Contract!Next]_(Contract!vars)
  OBVIOUS
<1>1. Control'
  BY NextControl
<1>2. ASSUME NEW u \in Users, NEW j \in Jobs, Request(u, j) PROVE [Contract!Next]_(Contract!vars)
  <2>1. CASE handleJobCancel(u, j)
    BY <2>1, ContractOfNone DEF handleJobCancel, CancelRunning, CancelQueued
  <2>2. CASE handleUpload(u, j) \/ handleDownload(u, j)
    BY <1>1, <2>2, ContractOfSubmission DEF handleUpload, handleDownload
  <2> QED BY <1>2, <2>1, <2>2 DEF Request
<1>3. ASSUME NEW u \in Users, RequestStep(u) PROVE [Contract!Next]_(Contract!vars)
  <2>1. CASE Publish(u) \/ Enqueue(u) \/ Retract(u)
    BY <2>1, ContractOfNone DEF Publish, Enqueue, Retract
  <2>2. CASE Withdraw(u)
    BY <1>1, <2>2, ContractOfSubmission
  <2> QED BY <1>3, <2>1, <2>2 DEF RequestStep
<1>4. ASSUME NEW w \in Workers, WorkerStep(w) PROVE [Contract!Next]_(Contract!vars)
  <2>1. CASE Record(w) \/ Show(w)
    BY <1>1, <2>1, ContractOfEnd
  <2>2. CASE ~(Record(w) \/ Show(w))
    <3>1. UNCHANGED <<disk, seen, unsaved>>
      BY <1>4, <2>2
      DEF WorkerStep, Uploading, Take, Leave, Claim, Download, StageFails, CacheUpload, Look, Waited,
          Create, CreateUnheard, Created, Send, Visible, Succeed, Cancelled, GiveUp, Ended, Requeue,
          Snap, Wake, Finish
    <3> QED BY <3>1, ContractOfNone
  <2> QED BY <2>1, <2>2
<1>5. ASSUME NEW t \in Threads, SharedStep(t) PROVE [Contract!Next]_(Contract!vars)
  <2>1. CASE Save(t)
    BY <1>1, <2>1, ContractOfSave
  <2>2. CASE Reclaim(t) \/ Delete(t) \/ Forget(t)
    BY <2>2, ContractOfNone DEF Reclaim, Delete, Forget
  <2> QED BY <1>5, <2>1, <2>2 DEF SharedStep
<1>6. ASSUME NEW j \in Jobs, Recover(j) PROVE [Contract!Next]_(Contract!vars)
  BY <1>1, <1>6, ContractOfRecovery
<1>7. CASE (\E j \in Jobs : GatewayStep(j)) \/ Signal \/ Restart \/ Serve \/ UNCHANGED vars
  BY <1>7, ContractOfNone
  DEF GatewayStep, GatewaySends, GatewayRefuses, GatewayDrops, GatewayReplaces, Signal, Restart, Serve, vars
<1>8. CASE Crash
  BY <1>1, <1>8, ContractOfCrash
<1> QED BY <1>2, <1>3, <1>4, <1>5, <1>6, <1>7, <1>8 DEF Next

\* The engine keeps the contract of JobContract, whatever fails, is cancelled or
\* crashes: no end of a job is shown before it is on disk, and none that was shown is
\* taken back by a retry, a late save or a restart.  (engine.go: finish, persist)
THEOREM ContractIsKept == Spec => ContractKept
<1>1. Init => Contract!Init
  BY IdleTyped DEF Init, Contract!Init
<1> QED BY <1>1, ControlHolds, ContractOfNext, PTL DEF Spec, ContractKept, Contract!Spec

-----------------------------------------------------------------------------
(* The record invariant: whose each upstream record is, who still has to    *)
(* write, reclaim or remember it, and what stands behind a success.         *)

\* Still empty, and not knowingly let go.
Loose(r) == up[r] = "empty" /\ r \notin givenUp

\* The bytes of the job are upstream, or something took its object from its path.
Fine(j) == j \in delivered \/ j \in displaced

\* The records a thread has in hand are of its job.
ThreadRec(t) ==
    LET r == th[t].rec
        j == th[t].job IN
    /\ th[t].pc \in Resting => r = 0 /\ th[t].snap.rec = 0
    /\ r # 0 => owner[r] = j
    /\ th[t].snap.rec # 0 => owner[th[t].snap.rec] = j
    /\ th[t].pc = "delete" => up[r] \in {"empty", "gone"}
    /\ r # 0 /\ (th[t].pc = "forget" \/ (t \in Users /\ th[t].pc = "save")) => ~Loose(r)

\* What a worker has in hand is what its job names, from the moment that is on its
\* way to disk; and a transfer that came out well left the bytes upstream.
WorkerRec(w) ==
    LET r == th[w].rec
        j == th[w].job IN
    /\ th[w].pc \in {"created", "send", "closed"} => r # 0
    /\ th[w].pc \in {"send", "closed", "reclaim", "delete", "forget"} => r = mem[j].rec
    /\ th[w].pc = "save" => IF th[w].then = "send" THEN r = mem[j].rec /\ r # 0 ELSE r = 0
    /\ th[w].pc = "snap" => r = 0
    /\ th[w].pc \in {"save", "record", "show"} => th[w].snap.rec = mem[j].rec
    /\ th[w].pc = "show" /\ th[w].snap.rec # 0 => th[w].snap.rec \in givenUp
    /\ th[w].pc = "closed" => up[r] \in {"whole", "theirs"} /\ j \in delivered
    /\ th[w].pc = "waiting" => obj[j] # "absent" \/ Fine(j)
    /\ th[w].pc = "returned" /\ th[w].res = "ok" => mem[j].kind = "download" \/ Fine(j)
    /\ Ends(w) /\ th[w].goal = "succeeded" => mem[j].kind = "download" \/ Fine(j)

\* A job that is still being submitted has no record upstream, and neither has one
\* that was cancelled and then refused by the queue.
UserRec(u) ==
    Submits(u) \/ (Cancels(u) /\ mem[th[u].job] = NoJob) => \A r \in Records : owner[r] # th[u].job

JobRec(j) ==
    /\ mem[j].rec # 0 => owner[mem[j].rec] = j
    /\ disk[j].rec # 0 => owner[disk[j].rec] = j
    /\ older[j].rec # 0 => owner[older[j].rec] = j
    /\ obj[j] = "clean" => Fine(j)
    /\ obj[j] = "foreign" => j \in displaced
    /\ mem[j].state = "cancelled" /\ mem[j].rec # 0 /\ Loose(mem[j].rec) =>
          \E t \in Threads : th[t].rec = mem[j].rec /\ th[t].pc \in {"reclaim", "delete"}

RecordRec(r) ==
    /\ up[r] = "none" <=> owner[r] = NoJobId
    /\ up[r] # "none" => disk[owner[r]].state # "none" \/ owner[r] \in unsaved
    /\ up[r] = "whole" => owner[r] \in delivered
    /\ Loose(r) => \/ mem[owner[r]].rec = r
                   \/ \E w \in Workers : th[w].pc = "created" /\ th[w].rec = r
                   \/ mem[owner[r]] = NoJob /\ Named(r)
    /\ Loose(r) /\ owner[r] \notin unsaved =>
          \/ Named(r)
          \/ \E t \in Threads : th[t].rec = r /\ th[t].pc \in {"created", "save", "reclaim", "delete"}

Ledger ==
    /\ \A t \in Threads : ThreadRec(t)
    /\ \A w \in Workers : WorkerRec(w)
    /\ \A u \in Users : UserRec(u)
    /\ \A j \in Jobs : JobRec(j)
    /\ \A r \in Records : RecordRec(r)

-----------------------------------------------------------------------------
(* What a step on one job leaves alone.                                     *)

\* Of the world upstream and of the gateway, only what is the job's changes; a
\* record becomes empty only when it is made.
World(j) ==
    /\ \A r \in Records :
          \/ up'[r] = up[r] /\ owner'[r] = owner[r]
          \/ /\ owner'[r] = j /\ up'[r] # "none"
             /\ owner[r] = j \/ up[r] = "none"
             /\ up'[r] = "empty" => up[r] \in {"none", "empty"}
    /\ \A k \in Jobs : k # j => obj'[k] = obj[k] /\ (k \in displaced' <=> k \in displaced)
    /\ delivered' \in {delivered, delivered \cup {j}}
    /\ givenUp \subseteq givenUp'

\* Two things follow of a record that upstream has made.
LEMMA WorldIsMonotone ==
    ASSUME Control, Ledger, NEW j \in Jobs, World(j), NEW r \in Records, owner[r] # NoJobId
    PROVE  /\ owner'[r] = owner[r]
           /\ Loose(r)' => Loose(r)
           /\ owner[r] # j => up'[r] = up[r]
BY DEF World, Ledger, RecordRec, Loose

\* At most the thread t moves, and nothing changes but what is of the job j.
LEMMA LedgerKeeps ==
    ASSUME Control, Control', Ledger, NEW t, NEW j \in Jobs, World(j),
           \A v \in Threads : v # t => th'[v] = th[v],
           \A k \in Jobs : k # j => mem'[k] = mem[k] /\ disk'[k] = disk[k] /\ older'[k] = older[k],
           unsaved' \in {unsaved, unsaved \cup {j}},
           t \in Threads => th[t].rec = 0 \/ th[t].job = j,
           \A v \in Threads : v = t \/ th[v].job = j =>
               /\ ThreadRec(v)'
               /\ v \in Workers => WorkerRec(v)'
               /\ v \in Users => UserRec(v)',
           JobRec(j)', \A r \in Records : owner'[r] = j => RecordRec(r)'
    PROVE  Ledger'
<1>1. /\ \A v \in Threads : th[v] \in Thread /\ th'[v] \in Thread
      /\ \A k \in Jobs : mem[k] \in Job /\ disk[k] \in Job /\ older[k] \in Job
      /\ \A r \in Records : owner[r] \in Jobs \cup {NoJobId} /\ owner'[r] \in Jobs \cup {NoJobId}
  BY DEF Control, TypeOK
<1>2. ASSUME NEW v \in Threads, v # t, th[v].job # j PROVE ThreadRec(v)'
  <2>1. th'[v] = th[v] /\ ThreadRec(v) /\ th[v].rec \in Records \cup {0} /\ th[v].snap \in Job
    BY <1>1, <1>2 DEF Ledger, Thread
  <2>2. th[v].snap.rec \in Records \cup {0}
    BY <2>1 DEF Job
  <2>3. CASE th[v].pc \in Resting
    BY <2>1, <2>3 DEF ThreadRec, Resting
  <2>4. CASE th[v].pc \notin Resting
    <3>1. th[v].job \in Jobs
      BY <1>1, <2>4 DEF Control, WorkerOK, UserOK, Rests, Resting
    <3>2. \A r \in Records : owner[r] = th[v].job =>
             owner'[r] = owner[r] /\ up'[r] = up[r] /\ (Loose(r)' => Loose(r))
      BY <1>2, <3>1, WorldIsMonotone
    <3>3. th[v].pc = "delete" => th[v].rec # 0
      BY DEF Control, WorkerOK, UserOK
    <3>4. th[v].rec # 0 =>
             /\ owner'[th[v].rec] = th[v].job /\ up'[th[v].rec] = up[th[v].rec]
             /\ (up'[th[v].rec] = "empty" /\ th[v].rec \notin givenUp') => Loose(th[v].rec)
      <4>1. th[v].rec # 0 => th[v].rec \in Records /\ owner[th[v].rec] = th[v].job
        BY <2>1 DEF ThreadRec
      <4> QED BY <2>1, <3>2, <4>1 DEF Loose
    <3>5. th[v].snap.rec # 0 => owner'[th[v].snap.rec] = th[v].job
      BY <2>1, <2>2, <3>2 DEF ThreadRec
    <3>6. th[v].rec # 0 /\ (th[v].pc = "forget" \/ (v \in Users /\ th[v].pc = "save")) => ~Loose(th[v].rec)
      BY <2>1 DEF ThreadRec
    <3>7. th[v].pc = "delete" => up[th[v].rec] \in {"empty", "gone"}
      BY <2>1 DEF ThreadRec
    <3> QED BY <2>1, <2>4, <3>3, <3>4, <3>5, <3>6, <3>7 DEF ThreadRec, Loose
  <2> QED BY <2>3, <2>4
<1>3. ASSUME NEW v \in Workers, v # t, th[v].job # j PROVE WorkerRec(v)'
  <2>1. th'[v] = th[v] /\ WorkerRec(v) /\ ThreadRec(v) /\ th[v].rec \in Records \cup {0}
    BY <1>1, <1>3 DEF Ledger, Thread
  <2>2. CASE th[v].pc \in Resting
    BY <2>1, <2>2 DEF WorkerRec, Resting, Ends, Ending
  <2>3. CASE th[v].pc \notin Resting
    <3>1. th[v].job \in Jobs
      BY <2>3 DEF Control, WorkerOK, Rests
    <3>2. /\ mem'[th[v].job] = mem[th[v].job] /\ obj'[th[v].job] = obj[th[v].job]
          /\ th[v].job \in delivered => th[v].job \in delivered'
          /\ th[v].job \in displaced => th[v].job \in displaced'
          /\ givenUp \subseteq givenUp'
      BY <1>3, <3>1 DEF World
    <3>3. \A r \in Records : owner[r] = th[v].job => up'[r] = up[r]
      BY <1>3, <3>1, WorldIsMonotone
    <3>4. th[v].rec # 0 => up'[th[v].rec] = up[th[v].rec]
      BY <2>1, <3>3 DEF ThreadRec
    <3> QED BY <2>1, <3>1, <3>2, <3>4 DEF WorkerRec, Fine, Ends
  <2> QED BY <2>2, <2>3
<1>4. ASSUME NEW u \in Users, u # t, th[u].job # j PROVE UserRec(u)'
  <2>1. th'[u] = th[u] /\ UserRec(u) /\ (Submits(u) \/ Cancels(u) => th[u].job \in Jobs)
    BY <1>4 DEF Ledger, Control, UserOK, Submits, Cancels
  <2> QED BY <1>4, <2>1 DEF UserRec, World, Submits, Cancels
<1>5. ASSUME NEW k \in Jobs, k # j PROVE JobRec(k)'
  <2>1. /\ mem'[k] = mem[k] /\ disk'[k] = disk[k] /\ older'[k] = older[k] /\ JobRec(k)
        /\ obj'[k] = obj[k] /\ (k \in displaced' <=> k \in displaced) /\ delivered \subseteq delivered'
        /\ mem[k].rec \in Records \cup {0} /\ disk[k].rec \in Records \cup {0}
        /\ older[k].rec \in Records \cup {0}
    BY <1>1, <1>5 DEF Ledger, World, Job
  <2>2. \A r \in Records : owner[r] = k => owner'[r] = owner[r] /\ (Loose(r)' => Loose(r))
    BY <1>5, WorldIsMonotone
  <2>3. ASSUME NEW v \in Threads, th[v].rec = mem[k].rec, mem[k].rec # 0, th[v].pc \in {"reclaim", "delete"}
        PROVE  th'[v].rec = mem[k].rec /\ th'[v].pc \in {"reclaim", "delete"}
    BY <1>5, <2>1, <2>3 DEF Ledger, JobRec, Fine, ThreadRec
  <2>4. /\ mem[k].rec # 0 => /\ owner'[mem[k].rec] = k
                             /\ (up'[mem[k].rec] = "empty" /\ mem[k].rec \notin givenUp') => Loose(mem[k].rec)
        /\ disk[k].rec # 0 => owner'[disk[k].rec] = k
        /\ older[k].rec # 0 => owner'[older[k].rec] = k
    BY <2>1, <2>2 DEF JobRec, Fine, Loose
  <2> QED BY <2>1, <2>3, <2>4 DEF JobRec, Fine, Loose
<1>6. ASSUME NEW r \in Records, owner'[r] # j PROVE RecordRec(r)'
  <2>1. up'[r] = up[r] /\ owner'[r] = owner[r] /\ owner[r] # j /\ RecordRec(r) /\ delivered \subseteq delivered'
    BY <1>6 DEF World, Ledger
  <2>2. CASE owner[r] = NoJobId
    BY <2>1, <2>2 DEF RecordRec, Loose
  <2>3. CASE owner[r] # NoJobId
    <3>1. owner[r] \in Jobs
      BY <1>1, <2>3
    <3>2. /\ mem'[owner[r]] = mem[owner[r]] /\ disk'[owner[r]] = disk[owner[r]]
          /\ owner[r] \in unsaved' <=> owner[r] \in unsaved
          /\ Loose(r)' => Loose(r)
      BY <2>1, <2>3, <3>1, WorldIsMonotone
    <3>3. ASSUME NEW v \in Threads, th[v].rec = r
          PROVE  th'[v] = th[v]
      BY <2>1, <3>3 DEF Ledger, ThreadRec
    <3> QED BY <2>1, <3>1, <3>2, <3>3 DEF RecordRec, Named
  <2> QED BY <2>2, <2>3
<1>7. \A v \in Threads : v = t \/ th[v].job = j \/ (v # t /\ th[v].job # j)
  OBVIOUS
<1> QED BY <1>2, <1>3, <1>4, <1>5, <1>6, <1>7 DEF Ledger

-----------------------------------------------------------------------------
(* Steps of a worker.                                                       *)

\* A worker that has a job has it to itself, but for the requests that have
\* cancelled it; those are disturbed neither by what it does to the job nor by
\* what it does upstream.
LEMMA WorkerLedger ==
    ASSUME Control, Control', Ledger, NEW w \in Workers, NEW j \in Jobs, ~Rests(w), th[w].job = j,
           Rests(w)' \/ th'[w].job = j, Rests(w)' => mem'[j].state # "none", OnlyMine(w), World(j),
           \A r \in Records : up[r] \in {"empty", "gone"} =>
               up'[r] \in {"empty", "gone"} \/ mem[j].state = "running",
           ThreadRec(w)', WorkerRec(w)', JobRec(j)',
           \A r \in Records : owner'[r] = j => RecordRec(r)'
    PROVE  Ledger'
<1>1. ASSUME NEW v \in Workers, v # w, th[v].job = j PROVE ThreadRec(v)' /\ WorkerRec(v)'
  <2>1. th'[v] = th[v] /\ th[v].pc \in Resting /\ ThreadRec(v)
    BY <1>1 DEF OnlyMine, Control, OneHolder, Rests, Ledger
  <2> QED BY <2>1 DEF ThreadRec, WorkerRec, Resting, Ends, Ending
<1>2. ASSUME NEW u \in Users, th[u].job = j PROVE ThreadRec(u)' /\ UserRec(u)'
  <2>1. th'[u] = th[u] /\ ThreadRec(u) /\ th[u] \in Thread /\ UserOK(u) /\ WorkerOK(w)
    BY DEF OnlyMine, Ledger, Control, TypeOK
  <2>2. mem[j].state # "none"
    BY <2>1 DEF WorkerOK, Rests, Runs, Waits, Ends
  <2>3. ~Submits(u)
    BY <1>2 DEF Control, OneHolder
  <2>4. th[u].rec \in Records \cup {0} /\ th[u].snap.rec \in Records \cup {0}
    BY <2>1 DEF Thread, Job
  <2>5. \A r \in Records : owner[r] = j => owner'[r] = j /\ (Loose(r)' => Loose(r))
    BY WorldIsMonotone
  <2>6. th[u].rec # 0 =>
           /\ owner'[th[u].rec] = j
           /\ (up'[th[u].rec] = "empty" /\ th[u].rec \notin givenUp') => Loose(th[u].rec)
    BY <1>2, <2>1, <2>4, <2>5 DEF ThreadRec, Loose
  <2>7. th[u].snap.rec # 0 => owner'[th[u].snap.rec] = j
    BY <1>2, <2>1, <2>4, <2>5 DEF ThreadRec
  <2>8. th[u].pc = "delete" => up'[th[u].rec] \in {"empty", "gone"}
    <3>1. th[u].pc = "delete" => /\ mem[j].state = "cancelled" /\ th[u].rec \in Records
                                 /\ up[th[u].rec] \in {"empty", "gone"}
      BY <1>2, <2>1, <2>2, <2>4, IdleTyped DEF UserOK, Cancels, ThreadRec
    <3> QED BY <3>1
  <2>9. th[u].rec # 0 /\ (th[u].pc = "forget" \/ th[u].pc = "save") => ~Loose(th[u].rec)
    BY <2>1 DEF ThreadRec
  <2>10. th[u].pc \in Resting => th[u].rec = 0 /\ th[u].snap.rec = 0
    BY <2>1 DEF ThreadRec
  <2>11. ThreadRec(u)'
    BY <1>2, <2>1, <2>6, <2>7, <2>8, <2>9, <2>10 DEF ThreadRec, Loose
  <2>12. mem'[j] # NoJob
    BY IdleTyped DEF Control, WorkerOK, Rests, Runs, Waits, Ends
  <2> QED BY <1>2, <2>1, <2>3, <2>11, <2>12 DEF UserRec, Submits
<1> QED BY <1>1, <1>2, LedgerKeeps DEF OnlyMine

\* The upload's object comes to its path.
Puts(j) ==
    /\ obj'[j] = "unsent"
    /\ \A k \in Jobs : k # j => obj'[k] = obj[k] /\ (k \in displaced' <=> k \in displaced)

\* A worker that has no record in hand that only it knows moves on, with the same
\* record in its job and nothing done upstream.
LEMMA WorkerMoves ==
    ASSUME Control, Control', Ledger, NEW w \in Workers, NEW j \in Jobs, ~Rests(w), th[w].job = j,
           Rests(w)' \/ th'[w].job = j, Rests(w)' => mem'[j].state # "none", OnlyMine(w),
           th[w].pc \notin {"created", "save", "reclaim", "delete"},
           UNCHANGED <<disk, older, up, owner, delivered, givenUp, unsaved>>,
           Puts(j) \/ UNCHANGED <<obj, displaced>>,
           mem'[j].rec = mem[j].rec, mem'[j].state = "cancelled" => mem[j].state = "cancelled",
           ThreadRec(w)', WorkerRec(w)'
    PROVE  Ledger'
<1>1. World(j)
  BY DEF World, Puts
<1>2. mem[j].state # "none"
  BY DEF Control, WorkerOK, Rests, Runs, Waits, Ends
<1>3. \A v \in Threads : v # w => th'[v] = th[v]
  BY DEF OnlyMine
<1>4. JobRec(j)'
  <2>1. JobRec(j)
    BY DEF Ledger
  <2> QED BY <1>3, <2>1 DEF JobRec, Fine, Loose, Puts
<1>5. ASSUME NEW r \in Records, owner'[r] = j PROVE RecordRec(r)'
  <2>1. RecordRec(r) /\ mem[owner[r]] # NoJob /\ owner[r] = j
    BY <1>2, <1>5, IdleTyped DEF Ledger
  <2> QED BY <1>3, <2>1 DEF RecordRec, Loose, Named
<1> QED BY <1>1, <1>4, <1>5, WorkerLedger

\* What the invariants say of a worker that has a job.
LEMMA AtWorkOn ==
    ASSUME Control, Ledger, NEW w \in Workers, ~Rests(w)
    PROVE  \E j \in Jobs :
             /\ th[w].job = j /\ th[w] \in Thread /\ TypeOK /\ WorkerOK(w) /\ JobOK(j)
             /\ mem[j] \in Job /\ Mine(w) = mem[j] /\ mem[j].rec \in Records \cup {0}
             /\ disk[j] \in Job /\ mem[j].state # "none" /\ mem[j].kind = disk[j].kind
             /\ ThreadRec(w) /\ WorkerRec(w) /\ JobRec(j)
<1>1. /\ th[w] \in Thread /\ TypeOK /\ WorkerOK(w) /\ th[w].job \in Jobs
      /\ Mine(w) \in Job /\ JobOK(th[w].job) /\ crashes \in Nat /\ phase # "down"
  BY AtWork
<1>2. mem[th[w].job].state # "none"
  BY <1>1 DEF WorkerOK, Rests, Runs, Waits, Ends
<1>3. mem[th[w].job] \in Job /\ disk[th[w].job] \in Job
  BY <1>1 DEF TypeOK
<1>4. mem[th[w].job].rec \in Records \cup {0}
  BY <1>3 DEF Job
<1>5. mem[th[w].job].kind = disk[th[w].job].kind
  BY <1>1, <1>2 DEF JobOK
<1> QED BY <1>1, <1>2, <1>3, <1>4, <1>5 DEF Ledger, Mine

\* A transfer returns, and with "ok" only when the bytes are where they should be.
LEMMA ReturnLedger ==
    ASSUME Control, Control', Ledger, NEW w \in Workers, NEW j \in Jobs, th[w].job = j, ~Rests(w),
           th[w].pc \notin {"created", "save", "reclaim", "delete"},
           NEW e \in {"ok", "canceled"} \cup Failures, Return(w, e),
           UNCHANGED <<jobVars, worldVars, lifeVars, pastVars>>,
           e = "ok" => mem[j].kind = "download" \/ Fine(j)
    PROVE  Ledger'
<1>1. /\ Becomes(w, th'[w]) /\ th'[w].pc = "returned" /\ th'[w].job = j /\ th'[w].res = e
      /\ th'[w].snap.rec = 0 /\ th'[w].rec = 0
  BY Returned, IdleTyped DEF Control
<1>2. OnlyMine(w) /\ ~Rests(w)'
  BY <1>1 DEF OnlyMine, Becomes, Rests, Resting
<1>3. ThreadRec(w)' /\ WorkerRec(w)'
  BY <1>1 DEF ThreadRec, WorkerRec, Fine, Resting, Ends, Ending
<1> QED BY <1>1, <1>2, <1>3, WorkerMoves

\* The stages that send nothing themselves.
LEMMA QuietStageLedger ==
    ASSUME Control, Control', Ledger, NEW w \in Workers,
           Download(w) \/ CacheUpload(w) \/ Look(w) \/ Waited(w) \/ StageFails(w)
    PROVE  Ledger'
<1>1. /\ th[w].pc \in {"transfer", "look", "create", "send", "closed", "waiting"}
      /\ UNCHANGED <<jobVars, up, owner, lifeVars, seen, delivered, givenUp, unsaved>>
  BY DEF Download, CacheUpload, Look, Waited, StageFails, At
<1>2. ~Rests(w)
  BY <1>1 DEF Rests, Resting
<1>3. PICK j \in Jobs :
         /\ th[w].job = j /\ th[w] \in Thread /\ TypeOK /\ Mine(w) = mem[j]
         /\ ThreadRec(w) /\ WorkerRec(w) /\ JobRec(j)
  BY <1>2, AtWorkOn
<1>4. ASSUME NEW l \in {"look", "create", "waiting"}, Goto(w, l),
             Puts(j) \/ UNCHANGED <<obj, displaced>>, l = "waiting" => obj'[j] # "absent"
      PROVE  Ledger'
  <2>1. /\ Becomes(w, th'[w]) /\ th'[w].pc = l /\ th'[w].job = j
        /\ th'[w].rec = th[w].rec /\ th'[w].snap = th[w].snap
    <3>1. Becomes(w, [th[w] EXCEPT !.pc = l])
      BY <1>3, <1>4, Relabelled DEF Labels
    <3> QED BY <1>3, <3>1 DEF Becomes, Thread
  <2>2. OnlyMine(w) /\ ~Rests(w)'
    BY <1>1, <1>3, <2>1 DEF OnlyMine, Becomes, Rests, Resting
  <2>3. ThreadRec(w)' /\ WorkerRec(w)'
    BY <1>1, <1>3, <1>4, <2>1, <2>2 DEF ThreadRec, WorkerRec, Fine, Resting, Ends, Ending
  <2> QED BY <1>1, <1>2, <1>3, <1>4, <2>1, <2>2, <2>3, WorkerMoves
<1>5. CASE Download(w)
  BY <1>1, <1>2, <1>3, <1>5, ReturnLedger DEF Download
<1>6. CASE Waited(w)
  <2>1. Fine(j)
    BY <1>3, <1>6 DEF Waited, At, WorkerRec, JobRec, Fine, TypeOK, Unsent
  <2> QED BY <1>1, <1>2, <1>3, <1>6, <2>1, ReturnLedger DEF Waited
<1>7. CASE StageFails(w)
  <2>1. PICK e \in {"canceled"} \cup Failures : Return(w, e)
    BY <1>7 DEF StageFails, Errors
  <2>2. e # "ok"
    BY DEF Failures
  <2> QED BY <1>1, <1>2, <1>3, <1>7, <2>1, <2>2, ReturnLedger DEF StageFails
<1>8. CASE Look(w)
  <2>1. CASE Return(w, "permanent")
    BY <1>1, <1>2, <1>3, <1>8, <2>1, ReturnLedger DEF Look, Failures
  <2>2. CASE obj[j] # "absent" /\ Goto(w, "waiting")
    <3>1. UNCHANGED <<obj, displaced>>
      BY <1>8 DEF Look
    <3> QED BY <1>4, <2>2, <3>1
  <2> QED BY <1>3, <1>8, <2>1, <2>2 DEF Look
<1>9. CASE CacheUpload(w)
  <2>1. CASE PutLocalFile(j) /\ Goto(w, "look")
    BY <1>3, <1>4, <2>1 DEF PutLocalFile, Puts, TypeOK
  <2>2. CASE Goto(w, "create") /\ UNCHANGED <<obj, displaced>>
    BY <1>4, <2>2
  <2> QED BY <1>3, <1>9, <2>1, <2>2 DEF CacheUpload
<1> QED BY <1>5, <1>6, <1>7, <1>8, <1>9

\* The verdict: "succeeded" only for a transfer that returned "ok".
LEMMA VerdictLedger ==
    ASSUME Control, Control', Ledger, NEW w \in Workers, Succeed(w) \/ Cancelled(w) \/ GiveUp(w)
    PROVE  Ledger'
<1>1. th[w].pc = "returned" /\ ~Rests(w)
  BY DEF Succeed, Cancelled, GiveUp, At, Rests, Resting
<1>2. PICK j \in Jobs :
         /\ th[w].job = j /\ th[w] \in Thread /\ TypeOK /\ Mine(w) = mem[j]
         /\ mem[j].rec \in Records \cup {0} /\ ThreadRec(w) /\ WorkerRec(w) /\ JobRec(j)
  BY <1>1, AtWorkOn
<1>3. PICK l \in {"finish", "reclaim"}, g \in Terminal :
         /\ Ended(w, l, g)
         /\ g = "succeeded" => th[w].res = "ok"
  BY DEF Succeed, Cancelled, GiveUp, Terminal
<1> DEFINE x == [Idle EXCEPT !.pc = l, !.job = j, !.goal = g, !.rec = mem[j].rec]
<1>4. x \in Thread /\ x.pc = l /\ x.job = j /\ x.goal = g /\ x.snap = NoJob /\ x.rec = mem[j].rec
  BY <1>2, IdleTyped DEF Thread, Labels
<1>5. Becomes(w, x)
  BY <1>2, <1>3, <1>4, Becoming DEF Ended
<1>6. UNCHANGED <<mem, disk, older, queue, worldVars, lifeVars, pastVars>>
  BY <1>3 DEF Ended
<1> HIDE DEF x
<1>7. th'[w] = x /\ OnlyMine(w) /\ ~Rests(w)'
  BY <1>4, <1>5, <1>6 DEF OnlyMine, Becomes, Rests, Resting
<1>8. ThreadRec(w)'
  BY <1>2, <1>4, <1>6, <1>7, IdleTyped DEF ThreadRec, JobRec, Fine, Resting
<1>9. WorkerRec(w)'
  BY <1>1, <1>2, <1>3, <1>4, <1>6, <1>7 DEF WorkerRec, Fine, Ends, Ending
<1> QED BY <1>1, <1>2, <1>4, <1>6, <1>7, <1>8, <1>9, WorkerMoves

\* A copy of the job is taken, to be saved or to be its end; or the worker sleeps,
\* wakes and claims the job again.  None of this changes what the job names.
LEMMA ClaimLedger ==
    ASSUME Control, Control', Ledger, NEW w \in Workers, Claim(w)
    PROVE  Ledger'
<1>1. th[w].pc = "claim" /\ ~Rests(w)
  BY DEF Claim, At, Rests, Resting
<1>2. PICK j \in Jobs :
         /\ th[w].job = j /\ th[w] \in Thread /\ TypeOK /\ mem[j] \in Job /\ mem[j].state # "none"
         /\ ThreadRec(w) /\ WorkerRec(w) /\ JobRec(j)
  BY <1>1, AtWorkOn
<1>3. UNCHANGED <<disk, older, queue, worldVars, lifeVars, pastVars>>
  BY DEF Claim
<1>4. CASE th' = [th EXCEPT ![w] = Idle] /\ UNCHANGED mem
  <2>1. Becomes(w, Idle)
    BY <1>2, <1>4, IdleTyped, Becoming
  <2>2. th'[w] = Idle /\ OnlyMine(w) /\ Rests(w)'
    BY <1>3, <1>4, <2>1, IdleTyped DEF OnlyMine, Becomes, Rests, Resting
  <2>3. ThreadRec(w)' /\ WorkerRec(w)'
    BY <2>2, IdleTyped DEF ThreadRec, WorkerRec, Ends, Ending
  <2> QED BY <1>1, <1>2, <1>3, <1>4, <2>2, <2>3, WorkerMoves
<1>5. CASE /\ mem' = [mem EXCEPT ![j].state = "running", ![j].tries = @ + 1]
           /\ th' = [th EXCEPT ![w] = [Idle EXCEPT !.pc = "save", !.then = "transfer",
                                                   !.job = j, !.snap = mem'[j]]]
  <2>1. /\ mem'[j] \in Job /\ mem'[j].state = "running" /\ mem'[j].rec = mem[j].rec
        /\ \A k \in Jobs : k # j => mem'[k] = mem[k]
    <3>1. mem'[j] = [mem[j] EXCEPT !.state = "running", !.tries = @ + 1]
      BY <1>2, <1>5 DEF TypeOK, Job
    <3>2. mem'[j] \in Job
      BY DEF Control, TypeOK
    <3> QED BY <1>2, <1>5, <3>1, <3>2 DEF TypeOK, Job
  <2> DEFINE x == [Idle EXCEPT !.pc = "save", !.then = "transfer", !.job = j, !.snap = mem'[j]]
  <2>2. /\ x \in Thread /\ x.pc = "save" /\ x.then = "transfer" /\ x.job = j
        /\ x.snap = mem'[j] /\ x.rec = 0
    BY <2>1, IdleTyped DEF Thread, Labels
  <2>3. th'[w] = x /\ \A v \in Threads : v # w => th'[v] = th[v]
    BY <1>2, <1>5 DEF TypeOK
  <2> HIDE DEF x
  <2>4. OnlyMine(w)
    BY <1>2, <1>3, <2>1, <2>3 DEF OnlyMine
  <2>5. ThreadRec(w)' /\ WorkerRec(w)'
    <3>1. owner' = owner /\ (mem[j].rec # 0 => owner[mem[j].rec] = j)
      BY <1>2, <1>3 DEF JobRec, Fine
    <3>2. ThreadRec(w)'
      BY <2>1, <2>2, <2>3, <3>1 DEF ThreadRec, Resting
    <3>3. WorkerRec(w)'
      BY <2>1, <2>2, <2>3 DEF WorkerRec, Ends, Ending
    <3> QED BY <3>2, <3>3
  <2> QED BY <1>1, <1>2, <1>3, <2>1, <2>2, <2>3, <2>4, <2>5, WorkerMoves
<1> QED BY <1>2, <1>4, <1>5 DEF Claim

LEMMA RequeueLedger ==
    ASSUME Control, Control', Ledger, NEW w \in Workers, Requeue(w)
    PROVE  Ledger'
<1>1. th[w].pc = "returned" /\ ~Rests(w)
  BY DEF Requeue, At, Rests, Resting
<1>2. PICK j \in Jobs :
         /\ th[w].job = j /\ th[w] \in Thread /\ TypeOK /\ mem[j] \in Job /\ Mine(w) = mem[j]
  BY <1>1, AtWorkOn
<1>3. /\ UNCHANGED <<disk, older, queue, worldVars, lifeVars, pastVars>>
      /\ mem' = [mem EXCEPT ![j] = [mem[j] EXCEPT !.state = "queued"]]
  BY <1>2 DEF Requeue, SetMine
<1>4. /\ mem'[j].rec = mem[j].rec /\ mem'[j].state = "queued"
      /\ \A k \in Jobs : k # j => mem'[k] = mem[k]
  <2>1. mem'[j] = [mem[j] EXCEPT !.state = "queued"]
    BY <1>2, <1>3 DEF TypeOK
  <2> QED BY <1>2, <1>3, <2>1 DEF TypeOK, Job
<1> DEFINE x == [Idle EXCEPT !.pc = "snap", !.job = j]
<1>5. x \in Thread /\ x.pc = "snap" /\ x.job = j /\ x.snap = NoJob /\ x.rec = 0
  BY <1>2, IdleTyped DEF Thread, Labels
<1>6. Becomes(w, x)
  BY <1>2, <1>5, Becoming DEF Requeue
<1> HIDE DEF x
<1>7. th'[w] = x /\ OnlyMine(w)
  BY <1>2, <1>3, <1>4, <1>6 DEF OnlyMine, Becomes
<1>8. ThreadRec(w)' /\ WorkerRec(w)'
  BY <1>5, <1>7, IdleTyped DEF ThreadRec, WorkerRec, Resting, Ends, Ending
<1> QED BY <1>1, <1>2, <1>3, <1>4, <1>5, <1>7, <1>8, WorkerMoves

LEMMA SnapLedger ==
    ASSUME Control, Control', Ledger, NEW w \in Workers, Snap(w) \/ Finish(w)
    PROVE  Ledger'
<1>1. th[w].pc \in {"snap", "finish"} /\ ~Rests(w) /\ UNCHANGED <<jobVars, worldVars, lifeVars, pastVars>>
  BY DEF Snap, Finish, At, Rests, Resting
<1>2. PICK j \in Jobs :
         /\ th[w].job = j /\ th[w] \in Thread /\ TypeOK /\ WorkerOK(w)
         /\ mem[j] \in Job /\ Mine(w) = mem[j]
         /\ ThreadRec(w) /\ WorkerRec(w) /\ JobRec(j)
  BY <1>1, AtWorkOn
<1>3. /\ th'[w] \in Thread /\ th'[w].job = j /\ th'[w].snap.rec = mem[j].rec
      /\ \A v \in Threads : v # w => th'[v] = th[v]
      /\ \/ th[w].pc = "snap" /\ th'[w].pc = "save" /\ th'[w].then = "asleep" /\ th'[w].rec = th[w].rec
         \/ /\ th[w].pc = "finish" /\ th'[w].pc = "record" /\ th'[w].goal = th[w].goal
            /\ th'[w].rec = th[w].rec
  <2>1. CASE Snap(w)
    <3>1. Becomes(w, [th[w] EXCEPT !.pc = "save", !.then = "asleep", !.snap = Mine(w)])
      BY <1>2, <2>1, Persisting DEF Snap, Labels
    <3> QED BY <1>2, <2>1, <3>1 DEF Becomes, Thread, Snap, At
  <2>2. CASE Finish(w)
    <3> DEFINE c == [mem[j] EXCEPT !.state = th[w].goal]
               x == [th[w] EXCEPT !.snap = c, !.pc = "record"]
    <3>1. c \in Job /\ c.rec = mem[j].rec
      BY <1>2 DEF Job, States, Thread, Terminal
    <3>2. /\ x \in Thread /\ x.pc = "record" /\ x.job = j /\ x.goal = th[w].goal
          /\ x.snap = c /\ x.rec = th[w].rec
      BY <1>2, <3>1 DEF Thread, Labels
    <3>3. th' = [th EXCEPT ![w] = x]
      BY <1>2, <2>2 DEF Finish, TypeOK
    <3>4. Becomes(w, x)
      BY <1>2, <3>2, <3>3, Becoming
    <3> QED BY <2>2, <3>1, <3>2, <3>4 DEF Becomes, Finish, At
  <2> QED BY <2>1, <2>2
<1>4. OnlyMine(w) /\ ~Rests(w)'
  BY <1>1, <1>3 DEF OnlyMine, Rests, Resting
<1>5. ThreadRec(w)'
  BY <1>1, <1>2, <1>3 DEF ThreadRec, JobRec, Fine, Resting
<1>6. WorkerRec(w)'
  <2>1. CASE th[w].pc = "finish"
    BY <1>1, <1>2, <1>3, <2>1 DEF WorkerRec, Fine, Ends, Ending
  <2>2. CASE th[w].pc = "snap"
    <3>1. th[w].rec = 0
      BY <1>2, <2>2 DEF WorkerRec
    <3> QED BY <1>1, <1>2, <1>3, <2>2, <3>1 DEF WorkerRec, Fine, Ends, Ending
  <2> QED BY <1>1, <2>1, <2>2
<1> QED BY <1>1, <1>2, <1>3, <1>4, <1>5, <1>6, WorkerMoves

LEMMA WakeLedger ==
    ASSUME Control, Control', Ledger, NEW w \in Workers, Wake(w)
    PROVE  Ledger'
<1>1. th[w].pc = "asleep" /\ ~Rests(w) /\ UNCHANGED <<jobVars, worldVars, lifeVars, pastVars>>
  BY DEF Wake, At, Rests, Resting
<1>2. PICK j \in Jobs :
         /\ th[w].job = j /\ th[w] \in Thread /\ TypeOK
         /\ mem[j] \in Job /\ Mine(w) = mem[j] /\ mem[j].rec \in Records \cup {0}
         /\ ThreadRec(w) /\ WorkerRec(w) /\ JobRec(j)
  BY <1>1, AtWorkOn
<1>3. /\ Becomes(w, th'[w]) /\ th'[w].job = j /\ th'[w].snap = th[w].snap
      /\ \/ th'[w].pc = "claim" /\ th'[w].rec = th[w].rec
         \/ th'[w].pc = "reclaim" /\ th'[w].goal = "cancelled" /\ th'[w].rec = mem[j].rec
  <2>1. CASE phase = "ending"
    <3> DEFINE x == [th[w] EXCEPT !.pc = "reclaim", !.goal = "cancelled", !.rec = mem[j].rec]
    <3>1. x \in Thread
      BY <1>2 DEF Thread, Labels, Terminal
    <3>2. th' = [th EXCEPT ![w] = x]
      BY <1>2, <2>1 DEF Wake, TypeOK
    <3>3. Becomes(w, x)
      BY <1>2, <3>1, <3>2, Becoming
    <3> QED BY <1>2, <3>3 DEF Becomes, Thread
  <2>2. CASE phase # "ending"
    <3>1. Becomes(w, [th[w] EXCEPT !.pc = "claim"])
      BY <1>2, <2>2, Relabelled DEF Wake, Labels
    <3> QED BY <1>2, <3>1 DEF Becomes, Thread
  <2> QED BY <2>1, <2>2
<1>4. OnlyMine(w) /\ ~Rests(w)'
  BY <1>1, <1>3 DEF OnlyMine, Becomes, Rests, Resting
<1>5. ThreadRec(w)'
  BY <1>1, <1>2, <1>3 DEF ThreadRec, JobRec, Fine, Resting
<1>6. WorkerRec(w)'
  BY <1>1, <1>2, <1>3 DEF WorkerRec, Fine, Ends, Ending
<1> QED BY <1>1, <1>2, <1>3, <1>4, <1>5, <1>6, WorkerMoves

\* A new record is empty, or it is a file that was there.
LEMMA Making ==
    ASSUME TypeOK, NEW j \in Jobs, NEW s \in Records, MakesRecord(j, s)
    PROVE  /\ up[s] = "none" /\ up'[s] \in {"empty", "theirs"} /\ owner'[s] = j
           /\ \A r \in Records : r # s => up'[r] = up[r] /\ owner'[r] = owner[r]
BY DEF TypeOK, MakesRecord

\* It is in the hands of its maker, or nobody will know of it.
LEMMA CreateLedger ==
    ASSUME Control, Control', Ledger, NEW w \in Workers, Create(w) \/ CreateUnheard(w)
    PROVE  Ledger'
<1>1. /\ th[w].pc = "create" /\ ~Rests(w)
      /\ UNCHANGED <<jobVars, obj, lifeVars, seen, delivered, displaced, unsaved>>
  BY DEF Create, CreateUnheard, At, Rests, Resting
<1>2. PICK j \in Jobs :
         /\ th[w].job = j /\ th[w] \in Thread /\ TypeOK /\ WorkerOK(w) /\ JobOK(j)
         /\ mem[j] \in Job /\ disk[j] \in Job /\ mem[j].state # "none"
         /\ ThreadRec(w) /\ WorkerRec(w) /\ JobRec(j)
  BY <1>1, AtWorkOn
<1>3. PICK s \in Records :
         /\ MakesRecord(j, s)
         /\ \/ th' = [th EXCEPT ![w].pc = "created", ![w].rec = s] /\ givenUp' = givenUp
            \/ givenUp' = givenUp \cup {s} /\ \E e \in {"canceled"} \cup Failures : Return(w, e)
  BY <1>2 DEF Create, CreateUnheard, Errors
<1>4. /\ up[s] = "none" /\ up'[s] \in {"empty", "theirs"} /\ owner'[s] = j
      /\ \A r \in Records : r # s => up'[r] = up[r] /\ owner'[r] = owner[r]
  BY <1>2, <1>3, Making
<1>5. owner[s] = NoJobId /\ \A r \in Records : owner[r] # NoJobId => r # s
  BY <1>4 DEF Ledger, RecordRec
<1>6. /\ Becomes(w, th'[w]) /\ th'[w].job = j
      /\ \/ th'[w].pc = "created" /\ th'[w].rec = s /\ th'[w].snap = th[w].snap
         \/ /\ th'[w].pc = "returned" /\ th'[w].res # "ok"
            /\ th'[w].rec = 0 /\ th'[w].snap = NoJob /\ s \in givenUp'
  <2>1. CASE th' = [th EXCEPT ![w].pc = "created", ![w].rec = s]
    <3> DEFINE x == [th[w] EXCEPT !.pc = "created", !.rec = s]
    <3>1. /\ x \in Thread /\ x.pc = "created" /\ x.job = j /\ x.rec = s /\ x.snap = th[w].snap
      BY <1>2 DEF Thread, Labels
    <3>2. th' = [th EXCEPT ![w] = x]
      BY <1>2, <2>1 DEF TypeOK
    <3>3. Becomes(w, x)
      BY <1>2, <3>1, <3>2, Becoming
    <3> QED BY <3>1, <3>3 DEF Becomes
  <2>2. ASSUME NEW e \in {"canceled"} \cup Failures, Return(w, e), s \in givenUp'
        PROVE  /\ Becomes(w, th'[w]) /\ th'[w].job = j /\ th'[w].pc = "returned" /\ th'[w].res # "ok"
               /\ th'[w].rec = 0 /\ th'[w].snap = NoJob
    BY <1>2, <2>2, Returned DEF Failures
  <2> QED BY <1>3, <2>1, <2>2
<1>7. OnlyMine(w) /\ ~Rests(w)'
  BY <1>1, <1>6 DEF OnlyMine, Becomes, Rests, Resting
<1>8. givenUp \subseteq givenUp' /\ (\A r \in Records : r # s => (r \in givenUp' <=> r \in givenUp))
  BY <1>3
<1>9. World(j)
  BY <1>1, <1>4, <1>8 DEF World
<1>10. \A r \in Records : up[r] \in {"empty", "gone"} => up'[r] = up[r]
  BY <1>4
<1>11. ThreadRec(w)'
  <2>1. th[w].snap.rec # 0 => th[w].snap.rec \in Records /\ owner'[th[w].snap.rec] = j
    BY <1>2, <1>4, <1>5 DEF ThreadRec, Thread, Job
  <2> QED BY <1>4, <1>6, <2>1, IdleTyped DEF ThreadRec, Resting
<1>12. WorkerRec(w)'
  BY <1>6 DEF WorkerRec, Ends, Ending
<1>13. JobRec(j)'
  <2>1. /\ mem[j].rec # 0 => mem[j].rec \in Records /\ owner[mem[j].rec] = j
        /\ disk[j].rec # 0 => disk[j].rec \in Records /\ owner[disk[j].rec] = j
        /\ older[j].rec # 0 => older[j].rec \in Records /\ owner[older[j].rec] = j
    BY <1>2 DEF JobRec, TypeOK, Job
  <2>2. mem[j].state = "running"
    BY <1>1, <1>2 DEF WorkerOK, Runs, Running
  <2> QED BY <1>1, <1>2, <1>4, <1>5, <2>1, <2>2 DEF JobRec, Fine
<1>14. ASSUME NEW r \in Records, owner'[r] = j PROVE RecordRec(r)'
  <2>1. CASE r = s
    <3>1. disk[j].state # "none"
      BY <1>2 DEF JobOK
    <3> QED BY <1>1, <1>4, <1>6, <2>1, <3>1 DEF RecordRec, Loose
  <2>2. CASE r # s
    <3>1. RecordRec(r) /\ up'[r] = up[r] /\ owner'[r] = owner[r] /\ owner[r] = j
          /\ (r \in givenUp' <=> r \in givenUp)
      BY <1>4, <1>8, <1>14, <2>2 DEF Ledger
    <3>2. \A v \in Threads : th[v].pc \in {"created", "save", "reclaim", "delete"} => th'[v] = th[v]
      BY <1>1, <1>6 DEF Becomes
    <3> QED BY <1>1, <3>1, <3>2 DEF RecordRec, Loose, Named
  <2> QED BY <2>1, <2>2
<1> QED BY <1>1, <1>2, <1>6, <1>7, <1>9, <1>10, <1>11, <1>12, <1>13, <1>14, WorkerLedger

\* A record that a worker's job owns, and that is loose, is the one the job names or
\* the one the worker has just made.
LEMMA LooseOfMine ==
    ASSUME Control, Ledger, NEW w \in Workers, ~Rests(w), NEW r \in Records, owner[r] = th[w].job, Loose(r)
    PROVE  mem[th[w].job].rec = r \/ (th[w].pc = "created" /\ th[w].rec = r)
<1>1. mem[th[w].job] # NoJob
  BY IdleTyped DEF Control, WorkerOK, Rests, Runs, Waits, Ends
<1>2. ASSUME NEW v \in Workers, th[v].pc = "created", th[v].rec = r PROVE v = w
  <2>1. th[v].rec # 0
    BY <1>2
  <2>2. th[v].job = th[w].job /\ ~Rests(v)
    BY <1>2, <2>1 DEF Ledger, ThreadRec, Rests, Resting
  <2> QED BY <2>2 DEF Control, OneHolder
<1>3. RecordRec(r)
  BY DEF Ledger
<1> QED BY <1>1, <1>2, <1>3 DEF RecordRec

\* The id of the new record is in the job, and about to be on disk.
LEMMA CreatedLedger ==
    ASSUME Control, Control', Ledger, NEW w \in Workers, Created(w)
    PROVE  Ledger'
<1>1. /\ th[w].pc = "created" /\ ~Rests(w)
      /\ UNCHANGED <<disk, older, queue, cancels, worldVars, lifeVars, seen, displaced, delivered, unsaved>>
  BY DEF Created, At, Rests, Resting
<1>2. PICK j \in Jobs :
         /\ th[w].job = j /\ th[w] \in Thread /\ TypeOK /\ WorkerOK(w) /\ JobOK(j)
         /\ mem[j] \in Job /\ Mine(w) = mem[j] /\ mem[j].kind = disk[j].kind /\ mem[j].state # "none"
         /\ ThreadRec(w) /\ WorkerRec(w) /\ JobRec(j)
  BY <1>1, AtWorkOn
<1>3. PICK s \in Records : th[w].rec = s /\ owner[s] = j
  <2>1. th[w].rec \in Records \cup {0} /\ th[w].rec # 0
    BY <1>1, <1>2 DEF Thread, WorkerRec
  <2> QED BY <1>2, <2>1 DEF ThreadRec
<1> DEFINE m == [mem[j] EXCEPT !.rec = s]
<1>4. m \in Job /\ m.rec = s /\ m.state = mem[j].state
  BY <1>2 DEF Job
<1>5. /\ mem'[j] = m
      /\ \A k \in Jobs : k # j => mem'[k] = mem[k]
  BY <1>2, <1>3, <1>4, SetsMine DEF Created
<1> HIDE DEF m
<1>6. /\ Becomes(w, th'[w]) /\ th'[w].pc = "save" /\ th'[w].then = "send" /\ th'[w].job = j
      /\ th'[w].rec = s /\ th'[w].snap = m
  <2>1. Persist(w, m, "send")
    BY <1>2, <1>5 DEF Created
  <2>2. Becomes(w, [th[w] EXCEPT !.pc = "save", !.then = "send", !.snap = m])
    BY <1>2, <1>4, <2>1, Persisting DEF Labels
  <2> QED BY <1>2, <1>3, <2>2 DEF Becomes, Thread
<1>7. givenUp \subseteq givenUp' /\ (mem[j].rec # 0 => mem[j].rec \in givenUp')
  BY <1>2 DEF Created
<1>8. OnlyMine(w) /\ ~Rests(w)'
  BY <1>1, <1>2, <1>5, <1>6 DEF OnlyMine, Becomes, Rests, Resting
<1>9. World(j)
  BY <1>1, <1>7 DEF World
<1>10. ThreadRec(w)' /\ WorkerRec(w)'
  BY <1>1, <1>3, <1>4, <1>5, <1>6 DEF ThreadRec, WorkerRec, Resting, Ends, Ending
<1>11. mem[j].state = "running"
  BY <1>1, <1>2 DEF WorkerOK, Runs, Running
<1>12. JobRec(j)'
  BY <1>1, <1>2, <1>3, <1>4, <1>5, <1>11 DEF JobRec, Fine
<1>13. ASSUME NEW r \in Records, owner'[r] = j PROVE RecordRec(r)'
  <2>1. RecordRec(r) /\ owner[r] = j
    BY <1>1, <1>13 DEF Ledger
  <2>2. CASE r = s
    BY <1>1, <1>4, <1>5, <1>6, <2>1, <2>2 DEF RecordRec
  <2>3. CASE r # s
    <3>1. Loose(r) => r \in givenUp'
      BY <1>2, <1>3, <1>1, <1>7, <2>1, <2>3, LooseOfMine
    <3>2. ~(up'[r] = "empty" /\ r \notin givenUp')
      BY <1>1, <1>7, <3>1 DEF Loose
    <3> QED BY <1>1, <2>1, <3>2 DEF RecordRec, Loose
  <2> QED BY <2>2, <2>3
<1> QED BY <1>1, <1>2, <1>6, <1>8, <1>9, <1>10, <1>12, <1>13, WorkerLedger

\* The bytes are there: the record is whole, and its job delivered.
LEMMA SendLedger ==
    ASSUME Control, Control', Ledger, NEW w \in Workers, Send(w)
    PROVE  Ledger'
<1>1. /\ th[w].pc = "send" /\ ~Rests(w)
      /\ UNCHANGED <<jobVars, owner, obj, lifeVars, seen, displaced, givenUp, unsaved>>
  BY DEF Send, At, Rests, Resting
<1>2. PICK j \in Jobs :
         /\ th[w].job = j /\ th[w] \in Thread /\ TypeOK /\ WorkerOK(w) /\ JobOK(j)
         /\ mem[j] \in Job /\ mem[j].state # "none"
         /\ ThreadRec(w) /\ WorkerRec(w) /\ JobRec(j)
  BY <1>1, AtWorkOn
<1>3. PICK s \in Records : th[w].rec = s /\ owner[s] = j /\ mem[j].rec = s
  BY <1>1, <1>2 DEF Thread, ThreadRec, WorkerRec
<1>4. /\ up'[s] \in {"whole", "theirs"} /\ \A r \in Records : r # s => up'[r] = up[r]
      /\ up[s] = "theirs" \/ up'[s] = "whole"
      /\ delivered' = delivered \cup {j}
  BY <1>2, <1>3 DEF Send, TypeOK
<1>5. /\ Becomes(w, th'[w]) /\ th'[w].pc = "closed" /\ th'[w].job = j /\ th'[w].rec = s
      /\ th'[w].snap = th[w].snap
  <2>1. Becomes(w, [th[w] EXCEPT !.pc = "closed"])
    BY <1>2, Relabelled DEF Send, Labels
  <2> QED BY <1>2, <1>3, <2>1 DEF Becomes, Thread
<1>6. OnlyMine(w) /\ ~Rests(w)'
  BY <1>1, <1>5 DEF OnlyMine, Becomes, Rests, Resting
<1>7. mem[j].state = "running"
  BY <1>1, <1>2 DEF WorkerOK, Runs, Running
<1>8. World(j)
  BY <1>1, <1>3, <1>4 DEF World
<1>9. ThreadRec(w)'
  BY <1>1, <1>2, <1>3, <1>5 DEF ThreadRec, Resting
<1>10. WorkerRec(w)'
  BY <1>1, <1>3, <1>4, <1>5 DEF WorkerRec, Ends, Ending
<1>11. JobRec(j)'
  BY <1>1, <1>2, <1>4, <1>7 DEF JobRec, Fine
<1>12. ASSUME NEW r \in Records, owner'[r] = j PROVE RecordRec(r)'
  <2>1. RecordRec(r) /\ owner[r] = j
    BY <1>1, <1>12 DEF Ledger
  <2>2. CASE r = s
    BY <1>1, <1>2, <1>4, <2>1, <2>2 DEF RecordRec, Loose, JobOK
  <2>3. CASE r # s
    <3>1. ~Loose(r)
      BY <1>1, <1>2, <1>3, <2>1, <2>3, LooseOfMine
    <3> QED BY <1>1, <1>4, <2>1, <2>3, <3>1 DEF RecordRec, Loose
  <2> QED BY <2>2, <2>3
<1> QED BY <1>1, <1>2, <1>5, <1>6, <1>7, <1>8, <1>9, <1>10, <1>11, <1>12, WorkerLedger

\* A worker's job stops naming a record that is not loose, or is let go of.
LEMMA UnnamedLedger ==
    ASSUME Control, Control', Ledger, NEW w \in Workers, NEW j \in Jobs, ~Rests(w), ~Rests(w)',
           th[w].job = j, th'[w].job = j, OnlyMine(w), th[w].pc # "created",
           UNCHANGED <<disk, older, worldVars, delivered, displaced, givenUp, unsaved>>,
           mem'[j].rec = 0, mem'[j].state = mem[j].state,
           mem[j].rec # 0 => ~Loose(mem[j].rec),
           ThreadRec(w)', WorkerRec(w)'
    PROVE  Ledger'
<1>1. World(j)
  BY DEF World
<1>2. JobRec(j)'
  BY DEF Ledger, JobRec, Fine
<1>3. ASSUME NEW r \in Records, owner'[r] = j PROVE RecordRec(r)'
  <2>1. RecordRec(r) /\ owner[r] = j
    BY <1>3 DEF Ledger
  <2>2. ~Loose(r)
    BY <2>1, LooseOfMine
  <2> QED BY <2>1, <2>2 DEF RecordRec, Loose
<1> QED BY <1>1, <1>2, <1>3, WorkerLedger

\* "The record is no longer an orphan candidate": it is whole.
LEMMA VisibleLedger ==
    ASSUME Control, Control', Ledger, NEW w \in Workers, Visible(w)
    PROVE  Ledger'
<1>1. /\ th[w].pc = "closed" /\ ~Rests(w)
      /\ UNCHANGED <<disk, older, queue, cancels, worldVars, lifeVars, pastVars>>
  BY DEF Visible, At, Rests, Resting
<1>2. PICK j \in Jobs :
         /\ th[w].job = j /\ th[w] \in Thread /\ TypeOK
         /\ mem[j] \in Job /\ Mine(w) = mem[j] /\ ThreadRec(w) /\ WorkerRec(w)
  BY <1>1, AtWorkOn
<1> DEFINE m == [mem[j] EXCEPT !.rec = 0]
<1>3. m \in Job /\ m.rec = 0 /\ m.state = mem[j].state
  BY <1>2 DEF Job
<1>4. mem'[j] = m /\ \A k \in Jobs : k # j => mem'[k] = mem[k]
  BY <1>2, <1>3, SetsMine DEF Visible
<1> HIDE DEF m
<1>5. /\ Becomes(w, th'[w]) /\ th'[w].pc = "returned" /\ th'[w].job = j
      /\ th'[w].snap = NoJob /\ th'[w].rec = 0
  BY <1>2, Returned DEF Visible
<1>6. OnlyMine(w) /\ ~Rests(w)'
  BY <1>1, <1>2, <1>4, <1>5 DEF OnlyMine, Becomes, Rests, Resting
<1>7. ThreadRec(w)' /\ WorkerRec(w)'
  BY <1>1, <1>2, <1>5, IdleTyped DEF ThreadRec, WorkerRec, Fine, Resting, Ends, Ending
<1>8. mem[j].rec # 0 => ~Loose(mem[j].rec)
  BY <1>1, <1>2 DEF WorkerRec, Loose
<1> QED BY <1>1, <1>2, <1>3, <1>4, <1>5, <1>6, <1>7, <1>8, UnnamedLedger

LEMMA WorkerForgetLedger ==
    ASSUME Control, Control', Ledger, NEW w \in Workers, Forget(w)
    PROVE  Ledger'
<1>1. /\ th[w].pc = "forget" /\ ~Rests(w)
      /\ UNCHANGED <<disk, older, queue, cancels, worldVars, lifeVars, pastVars>>
  BY DEF Forget, At, Rests, Resting
<1>2. PICK j \in Jobs :
         /\ th[w].job = j /\ th[w] \in Thread /\ TypeOK
         /\ mem[j] \in Job /\ Mine(w) = mem[j] /\ ThreadRec(w) /\ WorkerRec(w)
  BY <1>1, AtWorkOn
<1> DEFINE m == [mem[j] EXCEPT !.rec = 0]
<1>3. m \in Job /\ m.rec = 0 /\ m.state = mem[j].state /\ m.kind = mem[j].kind
  BY <1>2 DEF Job
<1>4. mem'[j] = m /\ \A k \in Jobs : k # j => mem'[k] = mem[k]
  BY <1>2, <1>3, SetsMine DEF Forget
<1> HIDE DEF m
<1>5. /\ Becomes(w, th'[w]) /\ th'[w].pc = "finish" /\ th'[w].job = j
      /\ th'[w].snap = th[w].snap /\ th'[w].rec = th[w].rec /\ th'[w].goal = th[w].goal
  <2>1. Becomes(w, [th[w] EXCEPT !.pc = "finish"])
    BY <1>2, Relabelled DEF Forget, Labels
  <2> QED BY <1>2, <2>1 DEF Becomes, Thread
<1>6. OnlyMine(w) /\ ~Rests(w)'
  BY <1>1, <1>2, <1>4, <1>5 DEF OnlyMine, Becomes, Rests, Resting
<1>7. ThreadRec(w)' /\ WorkerRec(w)'
  BY <1>1, <1>2, <1>3, <1>4, <1>5 DEF ThreadRec, WorkerRec, Fine, Resting, Ends, Ending
<1>8. mem[j].rec # 0 => ~Loose(mem[j].rec)
  BY <1>1, <1>2 DEF WorkerRec, ThreadRec
<1> QED BY <1>1, <1>2, <1>3, <1>4, <1>5, <1>6, <1>7, <1>8, UnnamedLedger

\* A step of the reclaim, by a worker or by a request: the record is deleted only
\* when upstream has shown it empty, and let go of only knowingly.
LEMMA ReclaimRecords ==
    ASSUME Control, Control', Ledger, NEW t \in Threads, NEW j \in Jobs, th[t].job = j,
           Reclaim(t) \/ Delete(t)
    PROVE  /\ \A r \in Records : r # th[t].rec => up'[r] = up[r] /\ (r \in givenUp' => r \in givenUp)
           /\ UNCHANGED <<jobVars, owner, obj, delivered, displaced, unsaved>> /\ givenUp \subseteq givenUp'
           /\ \A r \in Records : up'[r] = up[r] \/ (up'[r] = "gone" /\ up[r] \in {"empty", "gone"})
           /\ ThreadRec(t)'
           /\ \/ th'[t].pc = "delete"
              \/ th[t].rec # 0 => ~(up'[th[t].rec] = "empty" /\ th[t].rec \notin givenUp')
<1>1. /\ th[t].pc \in {"reclaim", "delete"} /\ th[t] \in Thread
      /\ Becomes(t, th'[t]) /\ th'[t].pc \in {"delete", "forget"}
      /\ th'[t].job = j /\ th'[t].snap = th[t].snap /\ th'[t].rec = th[t].rec
  BY ReclaimMoves
<1>2. /\ TypeOK /\ ThreadRec(t) /\ mem[j] \in Job /\ th[t].rec \in Records \cup {0} /\ Mine(t) = mem[j]
  BY <1>1, ReclaimMoves DEF Control, TypeOK, Ledger, Thread, Mine
<1>3. CASE Reclaim(t)
  <2>1. th[t].pc = "reclaim" /\ UNCHANGED <<jobVars, worldVars, delivered, displaced, unsaved>>
    BY <1>3 DEF Reclaim, At
  <2>2. givenUp' \in {givenUp, givenUp \cup {th[t].rec}}
    BY <1>3 DEF Reclaim, Exempt
  <2>3. th[t] \in Thread /\ \A l \in {"delete", "forget"} : Goto(t, l) => th'[t].pc = l
    BY <1>2, Relabelled DEF Goto, TypeOK, Thread
  <2>5. \/ th'[t].pc = "delete" /\ up[th[t].rec] = "empty"
        \/ /\ th'[t].pc = "forget"
           /\ th[t].rec # 0 => up[th[t].rec] # "empty" \/ th[t].rec \in givenUp'
    BY <1>2, <1>3, <2>3 DEF Reclaim, Candidate, Exempt
  <2>6. ThreadRec(t)'
    BY <1>1, <1>2, <2>1, <2>2, <2>5 DEF ThreadRec, Loose, Resting
  <2> QED BY <1>2, <2>1, <2>2, <2>5, <2>6
<1>4. CASE Delete(t)
  <2>1. /\ th[t].pc = "delete" /\ UNCHANGED <<jobVars, owner, obj, delivered, displaced, unsaved>>
        /\ th[t].rec \in Records /\ up[th[t].rec] \in {"empty", "gone"}
    BY <1>1, <1>2, <1>4 DEF Delete, At, ThreadRec, Control, WorkerOK, UserOK
  <2>2. \/ up' = [up EXCEPT ![th[t].rec] = "gone"] /\ givenUp' = givenUp
        \/ givenUp' = givenUp \cup {th[t].rec} /\ up' = up
    BY <1>4 DEF Delete
  <2>3. /\ givenUp \subseteq givenUp'
        /\ \A r \in Records : r # th[t].rec => up'[r] = up[r] /\ (r \in givenUp' => r \in givenUp)
        /\ \/ up'[th[t].rec] = "gone"
           \/ up'[th[t].rec] = up[th[t].rec] /\ th[t].rec \in givenUp'
    BY <1>2, <2>1, <2>2 DEF TypeOK
  <2>4. ThreadRec(t)'
    BY <1>1, <1>2, <2>1, <2>3 DEF ThreadRec, Loose, Resting
  <2> QED BY <1>2, <2>1, <2>3, <2>4
<1> QED BY <1>3, <1>4

\* What is left of a request's step on a job it has cancelled: its own records and
\* the job's.  A worker that still has the job is between two attempts, or ends it.
LEMMA CancelLedger ==
    ASSUME Control, Control', Ledger, NEW u \in Users, NEW j \in Jobs, th[u].job = j, Cancels(u),
           \A v \in Threads : v # u => th'[v] = th[v],
           \A k \in Jobs : k # j => disk'[k] = disk[k] /\ older'[k] = older[k],
           unsaved' \in {unsaved, unsaved \cup {j}},
           UNCHANGED <<mem, owner, obj, delivered, displaced>>, givenUp \subseteq givenUp',
           \A r \in Records : up'[r] = up[r] \/ (up'[r] = "gone" /\ up[r] \in {"empty", "gone"} /\ owner[r] = j),
           ThreadRec(u)', UserRec(u)', JobRec(j)',
           \A r \in Records : owner'[r] = j => RecordRec(r)'
    PROVE  Ledger'
<1>1. World(j)
  BY DEF World
<1>2. mem[j].state = "cancelled" \/ mem[j].state = "none"
  BY IdleTyped DEF Control, UserOK
<1>3. ASSUME NEW v \in Threads, v # u, th[v].job = j PROVE ThreadRec(v)'
  <2>1. th'[v] = th[v] /\ ThreadRec(v)
    BY <1>3 DEF Ledger
  <2>2. th[v].pc = "delete" => th[v].rec \in Records
    BY DEF Control, TypeOK, Thread, WorkerOK, UserOK
  <2>3. th[v].rec \in Records \cup {0}
    BY DEF Control, TypeOK, Thread
  <2>4. th[v].rec # 0 /\ ~Loose(th[v].rec) => ~(up'[th[v].rec] = "empty" /\ th[v].rec \notin givenUp')
    BY <2>3 DEF Loose
  <2> QED BY <2>1, <2>2, <2>4 DEF ThreadRec, Loose
<1>4. ASSUME NEW v \in Workers, th[v].job = j PROVE WorkerRec(v)'
  <2>1. th'[v] = th[v] /\ WorkerRec(v) /\ th[v].pc # "closed"
    <3>1. th[v].pc # "closed"
      BY <1>2, <1>4, UnknownIsFree DEF Control, WorkerOK, Runs, Running, Rests, Resting
    <3> QED BY <1>4, <3>1 DEF Ledger
  <2> QED BY <2>1 DEF WorkerRec, Fine, Ends
<1>5. ASSUME NEW v \in Users, v # u, th[v].job = j PROVE UserRec(v)'
  <2>1. th'[v] = th[v] /\ UserRec(v)
    BY <1>5 DEF Ledger
  <2> QED BY <2>1 DEF UserRec, Submits, Cancels
<1> QED BY <1>1, <1>3, <1>4, <1>5, LedgerKeeps

LEMMA ReclaimLedger ==
    ASSUME Control, Control', Ledger, NEW t \in Threads, Reclaim(t) \/ Delete(t)
    PROVE  Ledger'
<1>1. /\ th[t].pc \in {"reclaim", "delete"} /\ th[t].job \in Jobs /\ th[t] \in Thread
      /\ Becomes(t, th'[t]) /\ th'[t].pc \in {"delete", "forget"}
      /\ th'[t].job = th[t].job /\ th'[t].rec = th[t].rec /\ th'[t].goal = th[t].goal
      /\ Still
  BY ReclaimMoves
<1>2. PICK j \in Jobs : th[t].job = j
  BY <1>1
<1>3. /\ \A r \in Records : r # th[t].rec => up'[r] = up[r] /\ (r \in givenUp' => r \in givenUp)
      /\ UNCHANGED <<jobVars, owner, obj, delivered, displaced, unsaved>> /\ givenUp \subseteq givenUp'
      /\ \A r \in Records : up'[r] = up[r] \/ (up'[r] = "gone" /\ up[r] \in {"empty", "gone"})
      /\ ThreadRec(t)'
      /\ \/ th'[t].pc = "delete"
         \/ th[t].rec # 0 => ~(up'[th[t].rec] = "empty" /\ th[t].rec \notin givenUp')
  BY <1>2, ReclaimRecords
<1>4. /\ ThreadRec(t) /\ JobRec(j) /\ th[t].rec \in Records \cup {0}
      /\ mem[j].rec \in Records \cup {0}
  BY <1>1 DEF Ledger, Thread, Control, TypeOK, Job
<1>5. \A r \in Records : up'[r] = up[r] \/ (up'[r] = "gone" /\ up[r] \in {"empty", "gone"} /\ owner[r] = j)
  BY <1>2, <1>3, <1>4 DEF ThreadRec
<1>6. \A v \in Threads : v # t => th'[v] = th[v]
  BY <1>1 DEF Becomes
<1>7. JobRec(j)'
  <2>1. ASSUME mem[j].state = "cancelled", mem[j].rec # 0, up'[mem[j].rec] = "empty", mem[j].rec \notin givenUp'
        PROVE  \E v \in Threads : th'[v].rec = mem[j].rec /\ th'[v].pc \in {"reclaim", "delete"}
    <3>1. Loose(mem[j].rec)
      BY <1>3, <1>4, <2>1 DEF Loose
    <3>2. PICK v \in Threads : th[v].rec = mem[j].rec /\ th[v].pc \in {"reclaim", "delete"}
      BY <1>4, <2>1, <3>1 DEF JobRec, Fine
    <3>3. CASE v = t
      BY <1>1, <1>3, <2>1, <3>2, <3>3
    <3>4. CASE v # t
      BY <1>6, <3>2, <3>4
    <3> QED BY <3>3, <3>4
  <2> QED BY <1>3, <1>4, <2>1 DEF JobRec, Fine, Loose
<1>8. ASSUME NEW r \in Records, owner'[r] = j PROVE RecordRec(r)'
  <2>1. RecordRec(r) /\ owner[r] = j
    BY <1>3, <1>8 DEF Ledger
  <2>2. CASE ~(up'[r] = "empty" /\ r \notin givenUp')
    BY <1>3, <2>1, <2>2 DEF RecordRec, Loose
  <2>3. CASE up'[r] = "empty" /\ r \notin givenUp'
    <3>1. Loose(r) /\ up'[r] = up[r]
      BY <1>3, <2>3 DEF Loose
    <3>2. ASSUME NEW v \in Threads, th[v].rec = r, th[v].pc \in {"created", "save", "reclaim", "delete"}
          PROVE  th'[v].rec = r /\ (th'[v].pc = th[v].pc \/ th'[v].pc = "delete")
      BY <1>1, <1>3, <1>6, <2>3, <3>2
    <3>3. ASSUME NEW v \in Workers, th[v].rec = r, th[v].pc = "created" PROVE th'[v] = th[v]
      BY <1>1, <1>6, <3>3
    <3> QED BY <1>3, <2>1, <3>1, <3>2, <3>3 DEF RecordRec, Loose, Named
  <2> QED BY <2>2, <2>3
<1>9. CASE t \in Workers
  <2>1. OnlyMine(t) /\ ~Rests(t) /\ ~Rests(t)' /\ World(j)
    BY <1>1, <1>2, <1>3, <1>5, <1>6 DEF OnlyMine, Still, World, Rests, Resting
  <2>2. WorkerRec(t)'
    <3>1. WorkerRec(t)
      BY <1>9 DEF Ledger
    <3> QED BY <1>1, <1>3, <3>1 DEF WorkerRec, Fine, Ends, Ending
  <2>3. \A r \in Records : up[r] \in {"empty", "gone"} => up'[r] \in {"empty", "gone"}
    BY <1>3
  <2> QED BY <1>1, <1>2, <1>3, <1>7, <1>8, <1>9, <2>1, <2>2, <2>3, WorkerLedger
<1>10. CASE t \in Users
  <2>1. UserRec(t)' /\ Cancels(t)
    <3>1. UserRec(t) /\ Cancels(t)
      BY <1>1, <1>10 DEF Ledger, Cancels
    <3> QED BY <1>1, <1>2, <1>3, <3>1 DEF UserRec, Submits, Cancels
  <2> QED BY <1>1, <1>2, <1>3, <1>5, <1>6, <1>7, <1>8, <1>10, <2>1, CancelLedger
<1> QED BY <1>9, <1>10

\* The worker's own saves: the file names what the job names, and says that it is
\* not over, or else a request has the record of the cancelled job in hand.
LEMMA WorkerSaveLedger ==
    ASSUME Control, Control', Ledger, NEW w \in Workers, Save(w)
    PROVE  Ledger'
<1>1. /\ th[w].pc = "save" /\ ~Rests(w) /\ (Runs(w) \/ Waits(w))
      /\ UNCHANGED <<mem, queue, cancels, worldVars, lifeVars, seen, displaced, delivered, givenUp>>
  BY DEF Save, At, Control, WorkerOK, Rests, Ends, Resting, Ending
<1>2. PICK j \in Jobs :
         /\ th[w].job = j /\ th[w] \in Thread /\ TypeOK /\ WorkerOK(w)
         /\ mem[j] \in Job /\ mem[j].rec \in Records \cup {0}
         /\ ThreadRec(w) /\ WorkerRec(w) /\ JobRec(j)
  BY <1>1, AtWorkOn
<1>3. /\ th[w].then \in {"transfer", "send", "asleep"} /\ th[w].snap \in Job /\ th[w].snap.rec = mem[j].rec
      /\ th[w].snap.state \in Unfinished \/ (th[w].snap.state = "cancelled" /\ mem[j].state = "cancelled")
  BY <1>1, <1>2 DEF WorkerOK, WorkerRec, Thread, Runs, Waits, Running, Waiting, Unfinished
<1>4. /\ \A k \in Jobs : k # j => disk'[k] = disk[k] /\ older'[k] = older[k]
      /\ older'[j] \in {older[j], disk[j]} /\ unsaved' \in {unsaved, unsaved \cup {j}}
      /\ disk'[j] = th[w].snap \/ (disk'[j] = disk[j] /\ j \in unsaved')
  BY <1>2, <1>3, StoringMine DEF Save
<1> DEFINE x == [th[w] EXCEPT !.pc = th[w].then, !.snap = NoJob, !.then = "idle"]
<1>5. x \in Thread /\ x.pc = th[w].then /\ x.job = j /\ x.snap = NoJob /\ x.rec = th[w].rec
  BY <1>2, IdleTyped DEF Thread, Labels
<1>6. Becomes(w, x)
  BY <1>2, <1>3, <1>5, Becoming DEF Save
<1> HIDE DEF x
<1>7. th'[w] = x /\ OnlyMine(w) /\ ~Rests(w)'
  BY <1>1, <1>2, <1>3, <1>4, <1>5, <1>6 DEF OnlyMine, Becomes, Rests, Resting
<1>8. World(j)
  BY <1>1 DEF World
<1>9. ThreadRec(w)' /\ WorkerRec(w)'
  BY <1>1, <1>2, <1>3, <1>5, <1>7, IdleTyped DEF ThreadRec, WorkerRec, Resting, Ends, Ending
<1>10. \A v \in Threads : v # w => th'[v] = th[v]
  BY <1>6 DEF Becomes
<1>11. JobRec(j)'
  <2>1. /\ disk'[j].rec # 0 => owner[disk'[j].rec] = j
        /\ older'[j].rec # 0 => owner[older'[j].rec] = j
    BY <1>2, <1>3, <1>4 DEF JobRec
  <2> QED BY <1>1, <1>2, <1>10, <2>1 DEF JobRec, Fine, Loose
<1>12. ASSUME NEW r \in Records, owner'[r] = j PROVE RecordRec(r)'
  <2>1. RecordRec(r) /\ owner[r] = j
    BY <1>1, <1>12 DEF Ledger
  <2>2. up[r] # "none" => disk'[j].state # "none" \/ j \in unsaved'
    BY <1>3, <1>4, <2>1 DEF Unfinished
  <2>3. Loose(r) => mem[j].rec = r
    BY <1>1, <1>2, <2>1, LooseOfMine
  <2>4. ASSUME Loose(r), j \notin unsaved'
        PROVE  \/ disk'[j].rec = r /\ disk'[j].state \notin Terminal
               \/ \E v \in Threads : th'[v].rec = r /\ th'[v].pc \in {"reclaim", "delete"}
    <3>1. disk'[j] = th[w].snap /\ th[w].snap.rec = r
      BY <1>3, <1>4, <2>3, <2>4
    <3>2. CASE th[w].snap.state \in Unfinished
      BY <3>1, <3>2 DEF Unfinished, Terminal
    <3>3. CASE mem[j].state = "cancelled"
      <4>1. PICK v \in Threads : th[v].rec = r /\ th[v].pc \in {"reclaim", "delete"}
        BY <1>2, <2>3, <2>4, <3>3 DEF JobRec, Fine
      <4> QED BY <1>1, <1>10, <4>1
    <3> QED BY <1>3, <3>2, <3>3
  <2> QED BY <1>1, <2>1, <2>2, <2>3, <2>4 DEF RecordRec, Loose, Named
<1> QED BY <1>1, <1>2, <1>5, <1>7, <1>8, <1>9, <1>11, <1>12, WorkerLedger

\* The end of a job on disk: a record it still names is let go of.
LEMMA RecordLedger ==
    ASSUME Control, Control', Ledger, NEW w \in Workers, Record(w)
    PROVE  Ledger'
<1>1. /\ th[w].pc = "record" /\ ~Rests(w) /\ Ends(w)
      /\ UNCHANGED <<mem, queue, cancels, worldVars, lifeVars, seen, displaced, delivered>>
  BY DEF Record, At, Rests, Resting, Ends, Ending
<1>2. PICK j \in Jobs :
         /\ th[w].job = j /\ th[w] \in Thread /\ TypeOK /\ WorkerOK(w)
         /\ mem[j] \in Job /\ mem[j].rec \in Records \cup {0}
         /\ ThreadRec(w) /\ WorkerRec(w) /\ JobRec(j)
  BY <1>1, AtWorkOn
<1>3. /\ th[w].snap \in Job /\ th[w].snap.rec = mem[j].rec /\ th[w].snap.state \in Terminal
      /\ givenUp' = givenUp \cup ({mem[j].rec} \ {0})
  <2>1. th[w].snap \in Job /\ th[w].snap.rec = mem[j].rec /\ th[w].goal \in Terminal
    BY <1>1, <1>2 DEF Thread, WorkerRec
  <2> QED BY <1>1, <1>2, <2>1 DEF WorkerOK, Record
<1>4. /\ \A k \in Jobs : k # j => disk'[k] = disk[k] /\ older'[k] = older[k]
      /\ older'[j] \in {older[j], disk[j]} /\ unsaved' \in {unsaved, unsaved \cup {j}}
      /\ disk'[j] = th[w].snap \/ (disk'[j] = disk[j] /\ j \in unsaved')
  BY <1>2, <1>3, StoringMine DEF Record
<1>5. /\ Becomes(w, th'[w]) /\ th'[w].pc = "show" /\ th'[w].job = j
      /\ th'[w].goal = th[w].goal /\ th'[w].snap = th[w].snap /\ th'[w].rec = th[w].rec
  <2>1. Becomes(w, [th[w] EXCEPT !.pc = "show"])
    BY <1>2, Relabelled DEF Record, Labels
  <2> QED BY <1>2, <2>1 DEF Becomes, Thread
<1>6. OnlyMine(w) /\ ~Rests(w)'
  BY <1>1, <1>2, <1>4, <1>5 DEF OnlyMine, Becomes, Rests, Resting
<1>7. World(j)
  BY <1>1, <1>3 DEF World
<1>8. ThreadRec(w)' /\ WorkerRec(w)'
  BY <1>1, <1>2, <1>3, <1>5 DEF ThreadRec, WorkerRec, Fine, Resting, Ends, Ending
<1>9. JobRec(j)'
  <2>1. /\ disk'[j].rec # 0 => owner[disk'[j].rec] = j
        /\ older'[j].rec # 0 => owner[older'[j].rec] = j
    BY <1>2, <1>3, <1>4 DEF JobRec
  <2>2. mem[j].rec # 0 => mem[j].rec \in givenUp'
    BY <1>3
  <2> QED BY <1>1, <1>2, <2>1, <2>2 DEF JobRec, Fine, Loose
<1>10. ASSUME NEW r \in Records, owner'[r] = j PROVE RecordRec(r)'
  <2>1. RecordRec(r) /\ owner[r] = j
    BY <1>1, <1>10 DEF Ledger
  <2>2. up[r] # "none" => disk'[j].state # "none" \/ j \in unsaved'
    BY <1>3, <1>4, <2>1 DEF Terminal
  <2>3. ~(up[r] = "empty" /\ r \notin givenUp')
    <3>1. Loose(r) => mem[j].rec = r
      BY <1>1, <1>2, <2>1, LooseOfMine
    <3> QED BY <1>3, <3>1 DEF Loose
  <2> QED BY <1>1, <2>1, <2>2, <2>3 DEF RecordRec, Loose
<1> QED BY <1>1, <1>2, <1>5, <1>6, <1>7, <1>8, <1>9, <1>10, WorkerLedger

LEMMA ShowLedger ==
    ASSUME Control, Control', Ledger, NEW w \in Workers, Show(w)
    PROVE  Ledger'
<1>1. /\ th[w].pc = "show" /\ ~Rests(w)
      /\ UNCHANGED <<disk, older, queue, cancels, worldVars, lifeVars, displaced, delivered, givenUp, unsaved>>
  BY DEF Show, At, Rests, Resting
<1>2. PICK j \in Jobs :
         /\ th[w].job = j /\ th[w] \in Thread /\ TypeOK /\ WorkerOK(w)
         /\ mem[j] \in Job /\ mem[j].rec \in Records \cup {0}
         /\ ThreadRec(w) /\ WorkerRec(w) /\ JobRec(j)
  BY <1>1, AtWorkOn
<1>3. /\ th[w].snap \in Job /\ th[w].snap.rec = mem[j].rec /\ th[w].snap.state # "none"
      /\ mem[j].rec # 0 => mem[j].rec \in givenUp
  BY <1>1, <1>2 DEF Thread, WorkerRec, WorkerOK, Terminal
<1>4. mem'[j] = th[w].snap /\ \A k \in Jobs : k # j => mem'[k] = mem[k]
  BY <1>2, <1>3, SetsMine DEF Show
<1>5. Becomes(w, Idle)
  BY <1>2, IdleTyped, Becoming DEF Show
<1>6. \A k \in Jobs : k # j => seen'[k] = seen[k]
  BY <1>2 DEF Show, TypeOK
<1>7. th'[w] = Idle /\ OnlyMine(w) /\ Rests(w)'
  BY <1>1, <1>2, <1>4, <1>5, <1>6, IdleTyped DEF OnlyMine, Becomes, Rests, Resting
<1>8. World(j)
  BY <1>1 DEF World
<1>9. ThreadRec(w)' /\ WorkerRec(w)'
  BY <1>7, IdleTyped DEF ThreadRec, WorkerRec, Ends, Ending
<1>10. JobRec(j)'
  BY <1>1, <1>2, <1>3, <1>4 DEF JobRec, Fine, Loose
<1>11. ASSUME NEW r \in Records, owner'[r] = j PROVE RecordRec(r)'
  <2>1. RecordRec(r) /\ owner[r] = j
    BY <1>1, <1>11 DEF Ledger
  <2>2. ~Loose(r)
    BY <1>1, <1>2, <1>3, <2>1, LooseOfMine DEF Loose
  <2> QED BY <1>1, <2>1, <2>2 DEF RecordRec, Loose
<1> QED BY <1>1, <1>2, <1>3, <1>4, <1>7, <1>8, <1>9, <1>10, <1>11, WorkerLedger

\* A thread with nothing in hand moves, and only it.
LEMMA BareLedger ==
    ASSUME Control, Control', Ledger, NEW t \in Threads,
           th[t].rec = 0, th[t].pc \notin {"created", "save", "reclaim", "delete"},
           \A v \in Threads : v # t => th'[v] = th[v],
           UNCHANGED <<mem, disk, older, worldVars, delivered, displaced, givenUp, unsaved>>,
           ThreadRec(t)', t \in Workers => WorkerRec(t)', t \in Users => UserRec(t)'
    PROVE  Ledger'
<1>1. ASSUME NEW v \in Threads, v # t
      PROVE  ThreadRec(v)' /\ (v \in Workers => WorkerRec(v)') /\ (v \in Users => UserRec(v)')
  BY <1>1 DEF Ledger, ThreadRec, WorkerRec, UserRec, Loose, Fine, Ends, Submits, Cancels
<1>2. ASSUME NEW j \in Jobs PROVE JobRec(j)'
  <2>1. JobRec(j)
    BY DEF Ledger
  <2> QED BY <2>1 DEF JobRec, Fine, Loose
<1>3. ASSUME NEW r \in Records PROVE RecordRec(r)'
  <2>1. RecordRec(r)
    BY DEF Ledger
  <2> QED BY <2>1 DEF RecordRec, Loose, Named
<1> QED BY <1>1, <1>2, <1>3 DEF Ledger

LEMMA TakeLedger ==
    ASSUME Control, Control', Ledger, NEW w \in Workers, Take(w) \/ Leave(w)
    PROVE  Ledger'
<1>1. /\ th[w].pc = "idle" /\ th[w].rec = 0 /\ th[w].snap.rec = 0 /\ TypeOK /\ th[w] \in Thread
      /\ UNCHANGED <<mem, disk, older, worldVars, delivered, displaced, givenUp, unsaved>>
  BY DEF Take, Leave, At, Ledger, ThreadRec, Resting, Control, TypeOK
<1>2. CASE Take(w)
  <2>1. PICK j \in Jobs : j = Head(queue)
    BY <1>1, <1>2 DEF Take, TypeOK
  <2> DEFINE x == [Idle EXCEPT !.pc = "claim", !.job = j]
  <2>2. x \in Thread /\ x.pc = "claim" /\ x.rec = 0 /\ x.snap = NoJob
    BY IdleTyped DEF Thread, Labels
  <2>3. Becomes(w, x)
    BY <1>1, <1>2, <2>1, <2>2, Becoming DEF Take
  <2> HIDE DEF x
  <2>4. ThreadRec(w)' /\ WorkerRec(w)'
    BY <2>2, <2>3, IdleTyped DEF Becomes, ThreadRec, WorkerRec, Resting, Ends, Ending
  <2> QED BY <1>1, <2>2, <2>3, <2>4, BareLedger DEF Becomes
<1>3. CASE Leave(w)
  <2>1. Becomes(w, th'[w]) /\ th'[w].pc = "gone" /\ th'[w].rec = 0 /\ th'[w].snap = th[w].snap
    <3>1. Becomes(w, [th[w] EXCEPT !.pc = "gone"])
      BY <1>1, <1>3, Relabelled DEF Leave, Labels
    <3> QED BY <1>1, <3>1 DEF Becomes, Thread
  <2>2. ThreadRec(w)' /\ WorkerRec(w)'
    BY <1>1, <2>1 DEF ThreadRec, WorkerRec, Resting, Ends, Ending
  <2> QED BY <1>1, <2>1, <2>2, BareLedger DEF Becomes
<1> QED BY <1>2, <1>3

-----------------------------------------------------------------------------
(* Steps of a request.                                                      *)

\* A job that is being submitted has no record, and is in nobody else's hands but of
\* those who cancelled it.
LEMMA SubmissionLedger ==
    ASSUME Control, Control', Ledger, NEW u \in Users, RequestStep(u)
    PROVE  Ledger'
<1>1. Submits(u) /\ UNCHANGED <<worldVars, delivered, displaced, givenUp, unsaved>>
  BY DEF RequestStep, Publish, Enqueue, Retract, Withdraw, At, Submits
<1>2. PICK j \in Jobs :
         /\ th[u].job = j /\ th[u] \in Thread /\ TypeOK /\ mem[j] \in Job /\ Mine(u) = mem[j]
         /\ disk[j] \in Job /\ older[j] \in Job
         /\ \A w \in Workers : ~Rests(w) => th[w].job # j
         /\ \A v \in Users : v # u /\ th[v].job = j => th[v].pc = "idle" \/ Cancels(v)
  <2>1. /\ th[u].job \in Jobs /\ th[u] \in Thread /\ TypeOK
        /\ \A w \in Workers : ~Rests(w) => th[w].job # th[u].job
        /\ \A v \in Users : v # u /\ th[v].job = th[u].job => th[v].pc = "idle" \/ Cancels(v)
    BY <1>1, Submitting
  <2>2. \A j \in Jobs : mem[j] \in Job /\ disk[j] \in Job /\ older[j] \in Job
    BY <2>1 DEF TypeOK
  <2> QED BY <2>1, <2>2 DEF Mine
<1>3. \A r \in Records : owner[r] # j
  BY <1>1, <1>2 DEF Ledger, UserRec
<1>4. /\ th[u].rec = 0 /\ th[u].snap.rec = 0
      /\ mem[j].rec = 0 /\ disk[j].rec = 0 /\ older[j].rec = 0
  BY <1>2, <1>3 DEF Ledger, ThreadRec, JobRec, Thread, Job
<1>5. ASSUME NEW l \in {"idle", "enqueue", "retract", "withdraw"}, Goto(u, l)
      PROVE  /\ \A v \in Threads : v # u => th'[v] = th[v]
             /\ th'[u].rec = 0 /\ th'[u].snap.rec = 0
             /\ th'[u].pc = l /\ (l # "idle" => th'[u].job = j)
  <2>1. CASE l = "idle"
    <3>1. Becomes(u, Idle)
      BY <1>2, <1>5, <2>1, IdleTyped, Becoming DEF Goto
    <3> QED BY <2>1, <3>1, IdleTyped DEF Becomes
  <2>2. CASE l # "idle"
    <3>1. Becomes(u, [th[u] EXCEPT !.pc = l])
      BY <1>2, <1>5, <2>2, Relabelled DEF Labels
    <3> QED BY <1>2, <1>4, <3>1 DEF Becomes, Thread
  <2> QED BY <2>1, <2>2
<1>6. PICK l \in {"idle", "enqueue", "retract", "withdraw"} : Goto(u, l)
  BY DEF RequestStep, Publish, Enqueue, Retract, Withdraw
<1>7. /\ \A k \in Jobs : k # j => mem'[k] = mem[k] /\ disk'[k] = disk[k] /\ older'[k] = older[k]
      /\ mem'[j].rec = 0 /\ disk'[j].rec = 0 /\ older'[j].rec = 0
  <2>1. CASE Publish(u)
    <3>1. mem'[j] = disk[j] /\ (\A k \in Jobs : k # j => mem'[k] = mem[k]) /\ UNCHANGED <<disk, older>>
      BY <1>2, <2>1, SetsMine DEF Publish
    <3> QED BY <1>4, <3>1
  <2>2. CASE Enqueue(u)
    BY <1>4, <2>2 DEF Enqueue
  <2>3. CASE Retract(u)
    <3>1. mem'[j] = NoJob /\ (\A k \in Jobs : k # j => mem'[k] = mem[k]) /\ UNCHANGED <<disk, older>>
      BY <1>2, <2>3, IdleTyped, SetsMine DEF Retract
    <3> QED BY <1>4, <3>1, IdleTyped
  <2>4. CASE Withdraw(u)
    <3>1. Changed(j, NoJob) /\ mem' = mem
      BY <1>2, <2>4 DEF Withdraw
    <3> QED BY <1>2, <1>4, <3>1, IdleTyped DEF Changed, TypeOK
  <2> QED BY <2>1, <2>2, <2>3, <2>4 DEF RequestStep
<1>8. World(j)
  BY <1>1 DEF World
<1>9. \A r \in Records : owner'[r] # j
  BY <1>1, <1>3
<1>10. ThreadRec(u)' /\ UserRec(u)'
  BY <1>5, <1>6, <1>9 DEF ThreadRec, UserRec, Submits, Cancels
<1>11. ASSUME NEW v \in Threads, v # u, th[v].job = j
       PROVE  ThreadRec(v)' /\ (v \in Workers => WorkerRec(v)') /\ (v \in Users => UserRec(v)')
  <2>1. ThreadRec(v) /\ th'[v] = th[v]
    BY <1>5, <1>6, <1>11 DEF Ledger
  <2>2. ThreadRec(v)'
    BY <1>1, <2>1 DEF ThreadRec, Loose
  <2>3. UserRec(v)'
    BY <1>9, <1>11, <2>1 DEF UserRec
  <2>4. v \in Workers => th[v].pc \in Resting
    BY <1>2, <1>11 DEF Rests
  <2>5. v \in Workers => WorkerRec(v)'
    BY <2>1, <2>4 DEF WorkerRec, Resting, Ends, Ending
  <2> QED BY <2>2, <2>3, <2>5
<1>12. JobRec(j)'
  BY <1>1, <1>7 DEF Ledger, JobRec, Fine
<1> QED BY <1>1, <1>2, <1>4, <1>5, <1>6, <1>7, <1>8, <1>9, <1>10, <1>11, <1>12, LedgerKeeps

\* A job that is not on disk has no record either.
LEMMA SubmitLedger ==
    ASSUME Control, Control', Ledger, NEW u \in Users, NEW j \in Jobs, NEW k \in Kinds, Submit(u, j, k)
    PROVE  Ledger'
<1>1. /\ th[u].pc = "idle" /\ mem[j] = NoJob /\ disk[j] = NoJob /\ TypeOK /\ th[u] \in Thread
      /\ Changed(j, NewJob(k)) /\ j \notin unsaved
      /\ \A v \in Users : th[v].job # j
      /\ UNCHANGED <<mem, queue, cancels, worldVars, lifeVars, pastVars>>
  BY DEF Submit, Starts, Control, TypeOK
<1>2. /\ disk'[j] = NewJob(k) /\ older'[j] = NoJob
      /\ \A i \in Jobs : i # j => disk'[i] = disk[i] /\ older'[i] = older[i]
  BY <1>1 DEF Changed, TypeOK
<1>3. /\ th[u].rec = 0 /\ th[u].snap.rec = 0
      /\ Becomes(u, th'[u]) /\ th'[u].pc = "publish" /\ th'[u].job = j /\ th'[u].snap = th[u].snap
      /\ th'[u].rec = 0
  <2> DEFINE x == [th[u] EXCEPT !.pc = "publish", !.job = j]
  <2>1. x \in Thread
    BY <1>1 DEF Thread, Labels
  <2>2. th' = [th EXCEPT ![u] = x]
    BY <1>1 DEF Submit, TypeOK
  <2>3. Becomes(u, x)
    BY <1>1, <2>1, <2>2, Becoming
  <2>4. th[u].rec = 0 /\ th[u].snap.rec = 0
    BY <1>1 DEF Ledger, ThreadRec, Resting
  <2> QED BY <1>1, <2>3, <2>4 DEF Becomes, Thread
<1>4. \A r \in Records : owner[r] # j
  BY <1>1, IdleTyped DEF Ledger, RecordRec
<1>5. ThreadRec(u)' /\ UserRec(u)'
  BY <1>1, <1>3, <1>4 DEF ThreadRec, UserRec, Resting
<1>6. JobRec(j)'
  BY <1>1, <1>2, IdleTyped DEF Ledger, JobRec, Fine
<1>7. ASSUME NEW v \in Threads, v # u, th[v].job = j
      PROVE  ThreadRec(v)' /\ (v \in Workers => WorkerRec(v)') /\ v \notin Users
  <2>1. v \in Workers /\ th'[v] = th[v] /\ ThreadRec(v) /\ th[v].pc \in Resting
    BY <1>1, <1>3, <1>7, IdleTyped, UnknownIsFree DEF Becomes, Ledger, Rests
  <2> QED BY <1>1, <2>1 DEF ThreadRec, WorkerRec, Resting, Ends, Ending
<1>8. World(j)
  BY <1>1 DEF World
<1> QED BY <1>1, <1>2, <1>3, <1>4, <1>5, <1>6, <1>7, <1>8, LedgerKeeps DEF Becomes

\* A context is cancelled: nothing of what the threads have in hand changes.
LEMMA CancelRunningLedger ==
    ASSUME Control, Control', Ledger, NEW u \in Users, NEW j \in Jobs, CancelRunning(u, j)
    PROVE  Ledger'
<1>1. /\ UNCHANGED <<mem, disk, older, worldVars, delivered, displaced, givenUp, unsaved>>
      /\ \A t \in Threads : th[t] \in Thread
      /\ th' = [t \in Threads |-> IF t = cancels[j] THEN [th[t] EXCEPT !.stop = TRUE] ELSE th[t]]
  BY DEF CancelRunning, Control, TypeOK
<1>2. ASSUME NEW t \in Threads
      PROVE  /\ th'[t].pc = th[t].pc /\ th'[t].job = th[t].job
             /\ th'[t].snap = th[t].snap /\ th'[t].rec = th[t].rec /\ th'[t].res = th[t].res
             /\ th'[t].goal = th[t].goal /\ th'[t].then = th[t].then
  <2>1. CASE t = cancels[j]
    <3>1. th'[t] = [th[t] EXCEPT !.stop = TRUE]
      BY <1>1, <2>1
    <3> QED BY <1>1, <3>1 DEF Thread
  <2>2. CASE t # cancels[j]
    BY <1>1, <2>2
  <2> QED BY <2>1, <2>2
<1>3. \A t \in Threads : ThreadRec(t)'
  BY <1>1, <1>2 DEF Ledger, ThreadRec, Loose
<1>4. ASSUME NEW w \in Workers PROVE WorkerRec(w)'
  <2>1. WorkerRec(w)
    BY DEF Ledger
  <2> QED BY <1>1, <1>2, <2>1 DEF WorkerRec, Fine, Ends
<1>5. \A v \in Users : UserRec(v)'
  BY <1>1, <1>2 DEF Ledger, UserRec, Submits, Cancels
<1>6. \A k \in Jobs : JobRec(k)'
  BY <1>1, <1>2 DEF Ledger, JobRec, Fine, Loose
<1>7. \A r \in Records : RecordRec(r)'
  BY <1>1, <1>2 DEF Ledger, RecordRec, Loose, Named
<1> QED BY <1>3, <1>4, <1>5, <1>6, <1>7 DEF Ledger

\* A queued job is cancelled: the request takes the record in hand that it names.
LEMMA CancelQueuedLedger ==
    ASSUME Control, Control', Ledger, NEW u \in Users, NEW j \in Jobs, CancelQueued(u, j)
    PROVE  Ledger'
<1>1. /\ th[u] \in Thread /\ TypeOK /\ mem[j] \in Job /\ th[u].pc = "idle" /\ mem[j].state = "queued"
      /\ th[u].rec = 0 /\ th[u].snap.rec = 0 /\ JobRec(j)
      /\ UNCHANGED <<disk, older, worldVars, delivered, displaced, givenUp, unsaved>>
  BY DEF Control, TypeOK, CancelQueued, Starts, Ledger, ThreadRec, Resting
<1> DEFINE m == [mem[j] EXCEPT !.state = "cancelled"]
           x == [th[u] EXCEPT !.pc = "reclaim", !.job = j, !.rec = mem[j].rec]
<1>2. /\ m.state = "cancelled" /\ m.rec = mem[j].rec /\ m.kind = mem[j].kind
      /\ mem[j].rec \in Records \cup {0} /\ m # NoJob
  BY <1>1, IdleTyped DEF Job
<1>3. mem' = [mem EXCEPT ![j] = m] /\ th' = [th EXCEPT ![u] = x]
  BY <1>1 DEF CancelQueued, TypeOK
<1>4. /\ x \in Thread /\ x.pc = "reclaim" /\ x.job = j /\ x.snap = th[u].snap /\ x.rec = mem[j].rec
  BY <1>1, <1>2 DEF Thread, Labels
<1> HIDE DEF m, x
<1>5. mem'[j] = m /\ \A k \in Jobs : k # j => mem'[k] = mem[k]
  BY <1>1, <1>3 DEF TypeOK
<1>6. Becomes(u, x)
  BY <1>1, <1>3, <1>4, Becoming
<1>7. \A v \in Threads : v # u => th'[v] = th[v]
  BY <1>6 DEF Becomes
<1>8. th'[u] = x
  BY <1>6 DEF Becomes
<1>9. World(j)
  BY <1>1 DEF World
<1>10. ThreadRec(u)' /\ UserRec(u)'
  BY <1>1, <1>2, <1>4, <1>5, <1>8 DEF ThreadRec, UserRec, JobRec, Submits, Resting
<1>11. ASSUME NEW v \in Threads, v # u, th[v].job = j
       PROVE  ThreadRec(v)' /\ (v \in Workers => WorkerRec(v)') /\ (v \in Users => UserRec(v)')
  <2>1. th'[v] = th[v] /\ ThreadRec(v) /\ (v \in Workers => WorkerRec(v)) /\ (v \in Users => UserRec(v))
    BY <1>7, <1>11 DEF Ledger
  <2>2. ThreadRec(v)' /\ (v \in Users => UserRec(v)')
    BY <1>1, <1>2, <1>5, <1>11, <2>1 DEF ThreadRec, UserRec, Submits, Loose
  <2> QED BY <1>1, <1>2, <1>5, <1>11, <2>1, <2>2 DEF WorkerRec, Fine, Ends
<1>12. JobRec(j)'
  BY <1>1, <1>2, <1>4, <1>5, <1>8 DEF JobRec, Fine
<1>13. ASSUME NEW r \in Records, owner'[r] = j PROVE RecordRec(r)'
  <2>1. RecordRec(r) /\ mem[j] # NoJob
    BY <1>1, IdleTyped DEF Ledger
  <2>2. ASSUME NEW v \in Threads, th[v].pc \in {"created", "save", "reclaim", "delete"} PROVE th'[v] = th[v]
    BY <1>1, <1>7, <2>2
  <2> QED BY <1>1, <1>2, <1>5, <1>13, <2>1, <2>2 DEF RecordRec, Loose, Named
<1>14. \A v \in Threads : v = u \/ th[v].job = j =>
         ThreadRec(v)' /\ (v \in Workers => WorkerRec(v)') /\ (v \in Users => UserRec(v)')
  BY <1>10, <1>11
<1> QED BY <1>1, <1>5, <1>7, <1>9, <1>12, <1>13, <1>14, LedgerKeeps

\* The request has seen to the record, and moves on.
LEMMA ForgottenLedger ==
    ASSUME Control, Control', Ledger, NEW u \in Users, NEW j \in Jobs, th[u].job = j, th[u].pc = "forget",
           \A v \in Threads : v # u => th'[v] = th[v],
           UNCHANGED <<mem, disk, older, worldVars, delivered, displaced, givenUp, unsaved>>,
           ThreadRec(u)', UserRec(u)'
    PROVE  Ledger'
<1>1. ASSUME NEW v \in Threads, th[v].pc \in {"created", "save", "reclaim", "delete"} PROVE th'[v] = th[v]
  BY <1>1
<1>2. JobRec(j)'
  BY <1>1 DEF Ledger, JobRec, Fine, Loose
<1>3. ASSUME NEW r \in Records PROVE RecordRec(r)'
  <2>1. RecordRec(r)
    BY DEF Ledger
  <2> QED BY <1>1, <2>1 DEF RecordRec, Loose, Named
<1> QED BY <1>2, <1>3, CancelLedger DEF Cancels

\* It writes the job down as it is, unless the queue has refused it.
LEMMA RequestForgetLedger ==
    ASSUME Control, Control', Ledger, NEW u \in Users, Forget(u)
    PROVE  Ledger'
<1>1. /\ th[u] \in Thread /\ TypeOK /\ UserOK(u) /\ ThreadRec(u) /\ u \notin Workers
      /\ th[u].pc = "forget" /\ Cancels(u) /\ UserRec(u)
      /\ UNCHANGED <<mem, disk, older, worldVars, delivered, displaced, givenUp, unsaved>>
  BY DEF Control, TypeOK, Forget, At, Cancels, Ledger
<1>2. PICK j \in Jobs : th[u].job = j
  BY <1>1 DEF UserOK
<1>3. mem[j] \in Job /\ Mine(u) = mem[j] /\ JobRec(j)
  BY <1>1, <1>2 DEF TypeOK, Mine, Ledger
<1>4. CASE Goto(u, "idle")
  <2>1. Becomes(u, Idle)
    BY <1>1, <1>4, IdleTyped, Becoming DEF Goto
  <2>2. ThreadRec(u)' /\ UserRec(u)'
    BY <2>1, IdleTyped DEF Becomes, ThreadRec, UserRec, Submits, Cancels
  <2> QED BY <1>1, <1>2, <1>3, <2>1, <2>2, IdleTyped, ForgottenLedger DEF Becomes
<1>5. CASE Persist(u, mem[j], "idle")
  <2>1. Becomes(u, [th[u] EXCEPT !.pc = "save", !.then = "idle", !.snap = mem[j]])
    BY <1>1, <1>3, <1>5, Persisting DEF Labels
  <2>2. /\ th'[u].pc = "save" /\ th'[u].job = j /\ th'[u].snap = mem[j] /\ th'[u].rec = th[u].rec
        /\ \A v \in Threads : v # u => th'[v] = th[v]
    BY <1>1, <1>2, <2>1 DEF Becomes, Thread
  <2>3. ThreadRec(u)'
    BY <1>1, <1>2, <1>3, <2>2 DEF ThreadRec, JobRec, Loose, Resting
  <2>4. UserRec(u)'
    BY <1>1, <1>2, <2>2 DEF UserRec, Submits, Cancels
  <2> QED BY <1>1, <1>2, <1>3, <2>2, <2>3, <2>4, ForgottenLedger
<1> QED BY <1>1, <1>3, <1>4, <1>5 DEF Forget

\* The cancelled job on disk: what it named has been seen to, by this request or
\* by the thread that still has it in hand.
LEMMA RequestSaveLedger ==
    ASSUME Control, Control', Ledger, NEW u \in Users, Save(u)
    PROVE  Ledger'
<1>1. /\ th[u] \in Thread /\ TypeOK /\ UserOK(u) /\ ThreadRec(u) /\ th[u].pc = "save" /\ Cancels(u)
      /\ UNCHANGED <<mem, worldVars, delivered, displaced, givenUp>>
  BY DEF Control, TypeOK, Save, At, Cancels, Ledger
<1>2. PICK j \in Jobs : th[u].job = j
  BY <1>1 DEF UserOK
<1>3. /\ th[u].snap \in Job /\ th[u].then = "idle" /\ JobRec(j)
      /\ th[u].snap.state = "cancelled" /\ UserRec(u)
      /\ mem[j].state = "cancelled" \/ mem[j] = NoJob
  BY <1>1, <1>2 DEF Thread, UserOK, Ledger
<1>4. /\ \A k \in Jobs : k # j => disk'[k] = disk[k] /\ older'[k] = older[k]
      /\ older'[j] \in {older[j], disk[j]} /\ unsaved' \in {unsaved, unsaved \cup {j}}
      /\ disk'[j] = th[u].snap \/ (disk'[j] = disk[j] /\ j \in unsaved')
  BY <1>1, <1>2, <1>3, StoringMine DEF Save
<1>5. Becomes(u, Idle)
  BY <1>1, <1>3, IdleTyped, Becoming DEF Save
<1>6. th'[u] = Idle /\ \A v \in Threads : v # u => th'[v] = th[v]
  BY <1>5 DEF Becomes
<1>7. ThreadRec(u)' /\ UserRec(u)'
  BY <1>6, IdleTyped DEF ThreadRec, UserRec, Submits, Cancels
<1>8. ASSUME NEW v \in Threads, th[v].pc \in {"created", "reclaim", "delete"} PROVE th'[v] = th[v]
  BY <1>1, <1>6, <1>8
<1>9. JobRec(j)'
  <2>1. /\ disk'[j].rec # 0 => owner[disk'[j].rec] = j
        /\ older'[j].rec # 0 => owner[older'[j].rec] = j
    BY <1>1, <1>2, <1>3, <1>4 DEF ThreadRec, JobRec
  <2> QED BY <1>1, <1>3, <1>8, <2>1 DEF JobRec, Fine, Loose
<1>10. ASSUME NEW r \in Records, owner'[r] = j PROVE RecordRec(r)'
  <2>1. RecordRec(r) /\ owner[r] = j /\ mem[j].state = "cancelled"
    BY <1>1, <1>2, <1>3, <1>10 DEF Ledger, UserRec
  <2>2. up[r] # "none" => disk'[j].state # "none" \/ j \in unsaved'
    BY <1>3, <1>4
  <2>3. ASSUME Loose(r) PROVE mem[j].rec = r
    <3>1. ASSUME NEW w \in Workers, th[w].pc = "created", th[w].rec = r PROVE FALSE
      <4>1. th[w].job = j
        BY <2>1, <3>1, AssumeBounds DEF Ledger, ThreadRec
      <4>2. mem[j].state = "running"
        BY <3>1, <4>1 DEF Control, WorkerOK, Runs, Running
      <4> QED BY <2>1, <4>2
    <3> QED BY <2>1, <2>3, <3>1, IdleTyped DEF RecordRec
  <2>4. ASSUME Loose(r)
        PROVE  \E v \in Threads : th'[v].rec = r /\ th'[v].pc \in {"reclaim", "delete"}
    BY <1>3, <1>8, <2>1, <2>3, <2>4 DEF JobRec
  <2> QED BY <1>1, <2>1, <2>2, <2>3, <2>4 DEF RecordRec, Loose
<1> QED BY <1>1, <1>2, <1>4, <1>6, <1>7, <1>9, <1>10, CancelLedger

-----------------------------------------------------------------------------
(* The gateway, SIGTERM, the crash and recovery.                            *)

\* The gateway sends what it holds, or loses it, and what it says it sent is not
\* always the upload's.
LEMMA GatewayLedger ==
    ASSUME Control, Control', Ledger,
           (\E j \in Jobs : GatewayStep(j)) \/ Signal \/ Serve \/ Restart
    PROVE  Ledger'
<1>1. /\ UNCHANGED <<mem, disk, older, th, up, owner, givenUp, unsaved>> /\ TypeOK
      /\ delivered \subseteq delivered' /\ displaced \subseteq displaced'
  BY DEF GatewayStep, GatewaySends, GatewayRefuses, GatewayDrops, GatewayReplaces, Signal, Serve, Restart, Control
<1>2. ASSUME NEW j \in Jobs
      PROVE  /\ obj'[j] = "clean" => Fine(j)'
             /\ obj'[j] = "foreign" => j \in displaced'
             /\ obj[j] # "absent" => obj'[j] # "absent" \/ Fine(j)'
             /\ Fine(j) => Fine(j)'
  <2>1. \/ obj'[j] = obj[j]
        \/ obj'[j] = "clean" /\ ((obj[j] = "unsent" /\ j \in delivered') \/ obj[j] = "foreign")
        \/ obj'[j] = "absent" /\ (obj[j] = "clean" \/ j \in displaced')
        \/ obj'[j] = "foreign" /\ j \in displaced'
    BY <1>1 DEF GatewayStep, GatewaySends, GatewayRefuses, GatewayDrops, GatewayReplaces, Unsent,
                Signal, Serve, Restart, TypeOK
  <2> QED BY <1>1, <2>1 DEF Ledger, JobRec, Fine
<1>3. (\A t \in Threads : ThreadRec(t)') /\ (\A u \in Users : UserRec(u)')
  BY <1>1 DEF Ledger, ThreadRec, UserRec, Loose, Submits, Cancels
<1>4. ASSUME NEW w \in Workers PROVE WorkerRec(w)'
  <2>1. WorkerRec(w)
    BY DEF Ledger
  <2>2. CASE Rests(w)
    BY <1>1, <2>2 DEF WorkerRec, Rests, Resting, Ends, Ending
  <2>3. CASE ~Rests(w)
    <3>1. th[w].job \in Jobs
      BY <2>3 DEF Control, WorkerOK
    <3> QED BY <1>1, <1>2, <2>1, <3>1 DEF WorkerRec, Ends
  <2> QED BY <2>2, <2>3
<1>5. \A j \in Jobs : JobRec(j)'
  BY <1>1, <1>2 DEF Ledger, JobRec, Fine, Loose
<1>6. \A r \in Records : RecordRec(r)'
  BY <1>1 DEF Ledger, RecordRec, Loose, Named
<1> QED BY <1>3, <1>4, <1>5, <1>6 DEF Ledger

\* After a crash what no file names is lost track of, or what the power took with
\* it, and nothing else is.
LEMMA CrashLedger == ASSUME Control, Control', Ledger, Crash PROVE Ledger'
<1>1. /\ mem' = [j \in Jobs |-> NoJob] /\ th' = [t \in Threads |-> Idle]
      /\ UNCHANGED <<older, worldVars, seen, displaced, delivered>>
  BY DEF Crash
<1>2. PICK undone \in SUBSET Jobs :
         /\ disk' = [j \in Jobs |-> IF j \in undone THEN older[j] ELSE disk[j]]
         /\ unsaved' = unsaved \cup undone
         /\ givenUp' = givenUp \cup {r \in Records : owner[r] # NoJobId /\ (owner[r] \in undone \/ ~Named(r))}
  BY Crashing
<1>3. \A t \in Threads : ThreadRec(t)'
  BY <1>1, IdleTyped DEF ThreadRec
<1>4. \A w \in Workers : WorkerRec(w)'
  BY <1>1, IdleTyped DEF WorkerRec, Ends, Ending
<1>5. \A u \in Users : UserRec(u)'
  BY <1>1, IdleTyped DEF UserRec, Submits, Cancels
<1>6. ASSUME NEW j \in Jobs PROVE JobRec(j)'
  <2>1. JobRec(j) /\ disk'[j] \in {older[j], disk[j]} /\ mem'[j] = NoJob
    BY <1>1, <1>2 DEF Ledger
  <2> QED BY <1>1, <2>1, IdleTyped DEF JobRec, Fine
<1>7. ASSUME NEW r \in Records PROVE RecordRec(r)'
  <2>1. RecordRec(r) /\ owner[r] \in Jobs \cup {NoJobId}
    BY DEF Ledger, Control, TypeOK
  <2>2. Loose(r)' => owner[r] \in Jobs \ undone /\ Named(r)
    BY <1>1, <1>2, <2>1 DEF RecordRec, Loose
  <2>3. owner[r] \in Jobs =>
           \/ owner[r] \in undone /\ owner[r] \in unsaved'
           \/ disk'[owner[r]] = disk[owner[r]] /\ unsaved \subseteq unsaved'
    BY <1>2
  <2>4. owner[r] \in Jobs \ undone => disk'[owner[r]] = disk[owner[r]] /\ mem'[owner[r]] = NoJob
    BY <1>1, <1>2
  <2> QED BY <1>1, <2>1, <2>2, <2>3, <2>4 DEF RecordRec, Loose, Named
<1> QED BY <1>3, <1>4, <1>5, <1>6, <1>7 DEF Ledger

\* An empty record of a job that is not loaded yet is the one its file names.
LEMMA LooseOnDisk ==
    ASSUME Control, Ledger, NEW j \in Jobs, mem[j].state = "none",
           NEW r \in Records, owner[r] = j, Loose(r)
    PROVE  disk[j].rec = r /\ disk[j].state \notin Terminal
<1>1. RecordRec(r) /\ mem[j] = NoJob /\ r # 0
  BY DEF Ledger, Control, JobOK
<1>2. ASSUME NEW w \in Workers, th[w].pc = "created", th[w].rec = r PROVE FALSE
  <2>1. th[w].job = j /\ ~Rests(w)
    BY <1>1, <1>2 DEF Ledger, ThreadRec, Rests, Resting
  <2> QED BY <2>1, UnknownIsFree
<1> QED BY <1>1, <1>2, IdleTyped DEF RecordRec, Named, Loose

\* A job is loaded: nobody has it in hand, and none of its records is left empty
\* without having been let go.
LEMMA LoadedLedger ==
    ASSUME Control, Control', Ledger, NEW j \in Jobs, mem[j].state = "none", phase = "recover",
           UNCHANGED <<th, obj, owner, delivered, displaced>>, older'[j] \in {older[j], disk[j]},
           \A k \in Jobs : k # j => mem'[k] = mem[k] /\ disk'[k] = disk[k] /\ older'[k] = older[k],
           unsaved' \in {unsaved, unsaved \cup {j}}, givenUp \subseteq givenUp',
           mem'[j].rec \in {0, disk[j].rec}, disk'[j].rec \in {0, disk[j].rec},
           disk'[j].state # "none",
           \A r \in Records : up'[r] = up[r] \/ (owner[r] = j /\ up[r] # "none" /\ up'[r] = "gone"),
           \A r \in Records : owner[r] = j => ~(up'[r] = "empty" /\ r \notin givenUp')
    PROVE  Ledger'
<1>1. World(j)
  BY DEF World
<1>2. ASSUME NEW v \in Threads, th[v].job = j
      PROVE  ThreadRec(v)' /\ (v \in Workers => WorkerRec(v)') /\ (v \in Users => UserRec(v)')
  <2>1. ThreadRec(v) /\ (v \in Users => UserRec(v))
    BY DEF Ledger
  <2>2. CASE v \in Workers
    <3>1. th[v].pc \in Resting
      BY <1>2, <2>2, UnknownIsFree DEF Rests
    <3> QED BY <2>1, <2>2, <3>1 DEF ThreadRec, WorkerRec, Resting, Ends, Ending
  <2>3. CASE v \in Users
    <3>1. th[v].pc = "idle"
      BY <2>3 DEF Control, UserOK
    <3> QED BY <2>1, <2>3, <3>1 DEF ThreadRec, UserRec, Submits, Cancels, Resting
  <2> QED BY <2>2, <2>3
<1>3. JobRec(j)'
  <2>1. JobRec(j) /\ mem'[j].rec \in Records \cup {0}
    BY DEF Ledger, Control, TypeOK, Job
  <2> QED BY <2>1 DEF JobRec, Fine, Loose
<1>4. ASSUME NEW r \in Records, owner'[r] = j PROVE RecordRec(r)'
  <2>1. RecordRec(r)
    BY DEF Ledger
  <2> QED BY <1>4, <2>1 DEF RecordRec, Loose
<1>5. PICK t : t \notin Threads
  BY NoSetContainsEverything
<1> QED BY <1>1, <1>2, <1>3, <1>4, <1>5, LedgerKeeps

LEMMA RecoverLedger ==
    ASSUME Control, Control', Ledger, NEW j \in Jobs, Recover(j)
    PROVE  Ledger'
<1>1. /\ j \in todo /\ TypeOK /\ JobOK(j) /\ mem[j].state = "none" /\ disk[j] \in Job
      /\ disk[j].state # "none" /\ disk[j].rec \in Records \cup {0} /\ JobRec(j)
      /\ phase = "recover" /\ UNCHANGED <<th, obj, owner, delivered, displaced>>
  BY IdleTyped DEF Control, Recover, RecoverEnded, RecoverWhole, RecoverRequeue, TypeOK, JobOK, Job, Ledger
<1>2. ASSUME NEW r \in Records, owner[r] = j, Loose(r)
      PROVE  disk[j].rec = r /\ disk[j].state \notin Terminal /\ r # 0
  BY <1>1, <1>2, LooseOnDisk
<1>3. CASE RecoverEnded(j)
  <2>1. /\ disk[j].state \in Terminal /\ mem' = [mem EXCEPT ![j] = disk[j]]
        /\ UNCHANGED <<disk, older, worldVars, givenUp, unsaved>>
    BY <1>3 DEF RecoverEnded
  <2>2. mem'[j] = disk[j] /\ \A k \in Jobs : k # j => mem'[k] = mem[k]
    BY <1>1, <2>1 DEF TypeOK
  <2>3. \A r \in Records : owner[r] = j => ~(up'[r] = "empty" /\ r \notin givenUp')
    BY <1>2, <2>1 DEF Loose
  <2> QED BY <1>1, <2>1, <2>2, <2>3, LoadedLedger
<1>4. CASE RecoverWhole(j)
  <2> DEFINE done == [disk[j] EXCEPT !.state = "succeeded", !.rec = 0]
  <2>1. done \in Job /\ done.state = "succeeded" /\ done.rec = 0 /\ done.kind = disk[j].kind
    BY <1>1 DEF Job, States, Terminal
  <2>2. /\ up[disk[j].rec] = "whole" /\ mem' = [mem EXCEPT ![j] = done] /\ Stored(j, done)
        /\ UNCHANGED <<worldVars, givenUp>>
    BY <1>4 DEF RecoverWhole, IsWhole
  <2> HIDE DEF done
  <2>3. mem'[j] = done /\ \A k \in Jobs : k # j => mem'[k] = mem[k]
    BY <1>1, <2>1, <2>2 DEF TypeOK
  <2>4. /\ \A k \in Jobs : k # j => disk'[k] = disk[k] /\ older'[k] = older[k]
        /\ older'[j] \in {older[j], disk[j]} /\ unsaved' \in {unsaved, unsaved \cup {j}}
        /\ disk'[j] \in {done, disk[j]}
    BY <1>1, <2>1, <2>2, StoringMine
  <2>5. \A r \in Records : owner[r] = j => ~(up'[r] = "empty" /\ r \notin givenUp')
    BY <1>2, <2>2 DEF Loose
  <2> QED BY <1>1, <2>1, <2>2, <2>3, <2>4, <2>5, LoadedLedger
<1>5. CASE RecoverRequeue(j)
  <2> DEFINE again == [disk[j] EXCEPT !.state = "queued", !.rec = 0]
  <2>1. again \in Job /\ again.state = "queued" /\ again.rec = 0 /\ again.kind = disk[j].kind
    BY <1>1 DEF Job, States, Terminal
  <2>2. mem' = [mem EXCEPT ![j] = again] /\ Stored(j, again) /\ disk[j].state \notin Terminal
    BY <1>5 DEF RecoverRequeue
  <2> HIDE DEF again
  <2>3. mem'[j] = again /\ \A k \in Jobs : k # j => mem'[k] = mem[k]
    BY <1>1, <2>1, <2>2 DEF TypeOK
  <2>4. /\ \A k \in Jobs : k # j => disk'[k] = disk[k] /\ older'[k] = older[k]
        /\ older'[j] \in {older[j], disk[j]} /\ unsaved' \in {unsaved, unsaved \cup {j}}
        /\ disk'[j] \in {again, disk[j]}
    BY <1>1, <2>1, <2>2, StoringMine
  <2>5. \/ /\ up' = IF Candidate(disk[j].rec, disk[j]) /\ up[disk[j].rec] = "empty"
                     THEN [up EXCEPT ![disk[j].rec] = "gone"] ELSE up
           /\ givenUp' = givenUp \cup Exempt(disk[j].rec, disk[j])
        \/ UNCHANGED up /\ givenUp' = givenUp \cup {disk[j].rec}
    BY <1>5 DEF RecoverRequeue
  <2>6. ASSUME NEW r \in Records
        PROVE  /\ up'[r] = up[r] \/ (owner[r] = j /\ up[r] = "empty" /\ up'[r] = "gone")
               /\ owner[r] = j => ~(up'[r] = "empty" /\ r \notin givenUp')
    <3>1. disk[j].rec = r => owner[r] = j
      BY <1>1 DEF JobRec, Fine
    <3>2. owner[r] = j /\ Loose(r) =>
             disk[j].rec = r /\ (Candidate(r, disk[j]) \/ r \in Exempt(disk[j].rec, disk[j]))
      BY <1>2 DEF Candidate, Exempt
    <3> QED BY <1>1, <2>5, <3>1, <3>2 DEF TypeOK, Loose
  <2> QED BY <1>1, <2>1, <2>3, <2>4, <2>5, <2>6, LoadedLedger
<1> QED BY <1>3, <1>4, <1>5 DEF Recover

-----------------------------------------------------------------------------
(* The record invariant is inductive, and what follows of it.               *)

LEMMA InitLedger == Init => Ledger
<1> SUFFICES ASSUME Init PROVE Ledger
  OBVIOUS
<1>1. \A t \in Threads : th[t] = Idle
  BY DEF Init
<1>2. \A j \in Jobs : mem[j] = NoJob /\ disk[j] = NoJob /\ older[j] = NoJob /\ obj[j] = "absent"
  BY DEF Init
<1>3. \A r \in Records : up[r] = "none" /\ owner[r] = NoJobId
  BY DEF Init
<1>4. \A t \in Threads : ThreadRec(t)
  BY <1>1, IdleTyped DEF ThreadRec
<1>5. \A w \in Workers : WorkerRec(w)
  BY <1>1, IdleTyped DEF WorkerRec, Ends, Ending
<1>6. \A u \in Users : UserRec(u)
  BY <1>1, IdleTyped DEF UserRec, Submits, Cancels
<1>7. \A j \in Jobs : JobRec(j)
  BY <1>2, IdleTyped DEF JobRec, Fine
<1>8. \A r \in Records : RecordRec(r)
  BY <1>3 DEF RecordRec, Loose
<1> QED BY <1>4, <1>5, <1>6, <1>7, <1>8 DEF Ledger

LEMMA NextLedger == Control /\ Control' /\ Ledger /\ [Next]_vars => Ledger'
<1> SUFFICES ASSUME Control, Control', Ledger, [Next]_vars PROVE Ledger'
  OBVIOUS
<1>1. ASSUME NEW u \in Users, NEW j \in Jobs, Request(u, j) PROVE Ledger'
  BY <1>1, SubmitLedger, CancelRunningLedger, CancelQueuedLedger
  DEF Request, handleUpload, handleDownload, handleJobCancel
<1>2. ASSUME NEW u \in Users, RequestStep(u) PROVE Ledger'
  BY <1>2, SubmissionLedger
<1>3. ASSUME NEW w \in Workers, WorkerStep(w) PROVE Ledger'
  BY <1>3, TakeLedger, ClaimLedger, QuietStageLedger, CreateLedger, CreatedLedger, SendLedger,
     VisibleLedger, VerdictLedger, RequeueLedger, SnapLedger, WakeLedger, RecordLedger, ShowLedger
  DEF WorkerStep, Uploading
<1>4. ASSUME NEW t \in Threads, SharedStep(t) PROVE Ledger'
  BY <1>4, WorkerSaveLedger, RequestSaveLedger, ReclaimLedger, WorkerForgetLedger, RequestForgetLedger
  DEF SharedStep
<1>5. ASSUME NEW j \in Jobs, Recover(j) PROVE Ledger'
  BY <1>5, RecoverLedger
<1>6. ASSUME (\E j \in Jobs : GatewayStep(j)) \/ Signal \/ Serve \/ Restart PROVE Ledger'
  BY <1>6, GatewayLedger
<1>7. ASSUME Crash PROVE Ledger'
  BY <1>7, CrashLedger
<1>8. CASE UNCHANGED vars
  <2>1. UNCHANGED <<mem, disk, older, th, up, owner, obj, delivered, displaced, givenUp, unsaved>>
    BY <1>8 DEF vars
  <2>2. (\A t \in Threads : ThreadRec(t)') /\ (\A u \in Users : UserRec(u)')
    BY <2>1 DEF Ledger, ThreadRec, UserRec, Loose, Submits, Cancels
  <2>3. \A w \in Workers : WorkerRec(w)'
    BY <2>1 DEF Ledger, WorkerRec, Fine, Ends
  <2>4. (\A j \in Jobs : JobRec(j)') /\ (\A r \in Records : RecordRec(r)')
    BY <2>1 DEF Ledger, JobRec, Fine, RecordRec, Loose, Named
  <2> QED BY <2>2, <2>3, <2>4 DEF Ledger
<1> QED BY <1>1, <1>2, <1>3, <1>4, <1>5, <1>6, <1>7, <1>8 DEF Next

\* Whose each upstream record is, who has yet to write or to reclaim it, and what
\* stands behind a success, through retries, cancellation, crashes and recovery.
THEOREM LedgerHolds == Spec => []Ledger
BY InitLedger, NextLedger, ControlHolds, PTL DEF Spec

\* No record that upstream made for a job, and that is still empty, is forgotten: it
\* is in the job's file, or in the hands of a thread that is about to write or to
\* reclaim it, unless the engine let it go or never heard of it, or a change of the
\* job's file was lost (OnRecordCreated, reclaim, Recover).
THEOREM OrphansNamed == Spec => []OrphansAreNamed
<1>1. Control /\ Ledger => OrphansAreNamed
  BY DEF Ledger, RecordRec, OrphansAreNamed, Loose
<1> QED BY <1>1, ControlHolds, LedgerHolds, PTL

\* What upstream shows of a record changes in five steps only.
LEMMA WholeIsKept ==
    ASSUME Control, Ledger, Next, NEW r \in Records, up[r] \in {"whole", "theirs"}
    PROVE  up'[r] = up[r]
<1>1. TypeOK
  BY DEF Control
<1>2. ASSUME NEW w \in Workers, WorkerStep(w) PROVE up'[r] = up[r]
  <2>1. CASE Create(w) \/ CreateUnheard(w)
    BY <1>1, <2>1 DEF Create, CreateUnheard, MakesRecord, TypeOK
  <2>2. CASE Send(w)
    <3>1. PICK s : s = th[w].rec
      OBVIOUS
    <3>2. /\ up' = [up EXCEPT ![s] = IF up[s] = "theirs" THEN "theirs" ELSE "whole"]
          /\ th[w].pc = "send" /\ ThreadRec(w) /\ WorkerRec(w)
      BY <2>2, <3>1 DEF Send, At, Ledger
    <3> QED BY <1>1, <3>2 DEF TypeOK
  <2>3. CASE UNCHANGED up
    BY <2>3
  <2> QED BY <1>2, <2>1, <2>2, <2>3
      DEF WorkerStep, Uploading, Take, Leave, Claim, Download, CacheUpload, Look, Waited, Created,
          Visible, StageFails, Succeed, Cancelled, GiveUp, Ended, Requeue, Snap, Wake, Finish, Record, Show
<1>3. ASSUME NEW t \in Threads, SharedStep(t) PROVE up'[r] = up[r]
  <2>1. CASE Delete(t)
    <3>1. /\ th[t].pc = "delete" /\ ThreadRec(t)
          /\ up' = [up EXCEPT ![th[t].rec] = "gone"] \/ UNCHANGED up
      BY <2>1 DEF Delete, At, Ledger
    <3>2. up[th[t].rec] \in {"empty", "gone"}
      BY <3>1 DEF ThreadRec
    <3> QED BY <1>1, <3>1, <3>2 DEF TypeOK
  <2>2. CASE UNCHANGED up
    BY <2>2
  <2> QED BY <1>3, <2>1, <2>2 DEF SharedStep, Save, Reclaim, Forget
<1>4. ASSUME NEW j \in Jobs, Recover(j) PROVE up'[r] = up[r]
  <2>1. \/ UNCHANGED up
        \/ up[disk[j].rec] = "empty" /\ up' = [up EXCEPT ![disk[j].rec] = "gone"]
    BY <1>4 DEF Recover, RecoverEnded, RecoverWhole, RecoverRequeue
  <2> QED BY <1>1, <2>1 DEF TypeOK
<1>5. ASSUME NEW u \in Users, RequestStep(u) \/ \E j \in Jobs : Request(u, j) PROVE UNCHANGED up
  BY <1>5 DEF RequestStep, Publish, Enqueue, Retract, Withdraw, Request, handleUpload, handleDownload, handleJobCancel,
             Submit, CancelRunning, CancelQueued
<1>6. ASSUME (\E j \in Jobs : GatewayStep(j)) \/ Signal \/ Serve \/ Restart \/ Crash
      PROVE  UNCHANGED up
  BY <1>6 DEF GatewayStep, GatewaySends, GatewayRefuses, GatewayDrops, GatewayReplaces, Signal, Serve, Restart, Crash
<1> QED BY <1>2, <1>3, <1>4, <1>5, <1>6 DEF Next

\* Of a file that is whole, or was there before the upload, nothing is ever deleted:
\* by no failed or cancelled job, and by no recovery after a crash between the close
\* and the record of it (reclaim, Recover).
THEOREM WholeFilesKept == Spec => WholeFilesAreKept
<1>1. Control /\ Ledger /\ [Next]_vars
        => [\A r \in Records : up[r] \in {"whole", "theirs"} => up'[r] = up[r]]_vars
  BY WholeIsKept DEF vars
<1> QED BY <1>1, ControlHolds, LedgerHolds, PTL DEF Spec, WholeFilesAreKept

\* An end is shown by the worker that brought the job there, or by recovery that
\* found the record whole.
LEMMA SuccessHasBytes ==
    ASSUME Control, Ledger, Next, NEW j \in Jobs, seen'[j] = "succeeded", seen[j] # "succeeded",
           mem'[j].kind \in {"upload", "overwrite"}
    PROVE  Fine(j)
<1>1. TypeOK
  BY DEF Control
<1>2. CASE \E w \in Workers : Show(w)
  <2>1. PICK w \in Workers : Show(w)
    BY <1>2
  <2>2. th[w].pc = "show" /\ ~Rests(w) /\ Ends(w)
    BY <2>1 DEF Show, At, Rests, Resting, Ends, Ending
  <2>3. PICK i \in Jobs :
           /\ th[w].job = i /\ th[w] \in Thread /\ WorkerOK(w)
           /\ mem[i].kind = disk[i].kind /\ WorkerRec(w)
    BY <2>2, AtWorkOn
  <2>4. seen' = [seen EXCEPT ![i] = th[w].goal] /\ SetMine(w, th[w].snap)
    BY <2>1, <2>3 DEF Show
  <2>5. i = j /\ th[w].goal = "succeeded"
    BY <1>1, <2>4 DEF TypeOK
  <2>6. mem'[j] = th[w].snap
    BY <1>1, <2>3, <2>4, <2>5 DEF SetMine, TypeOK
  <2>7. mem[j].kind # "download"
    BY <2>2, <2>3, <2>5, <2>6 DEF WorkerOK
  <2> QED BY <2>2, <2>3, <2>5, <2>7 DEF WorkerRec
<1>3. CASE \E i \in Jobs : RecoverWhole(i)
  <2>1. PICK i \in Jobs : RecoverWhole(i)
    BY <1>3
  <2>2. seen' = [seen EXCEPT ![i] = "succeeded"] /\ disk[i].rec # 0 /\ up[disk[i].rec] = "whole"
    BY <2>1 DEF RecoverWhole, Candidate, IsWhole
  <2>3. i = j
    BY <1>1, <2>2 DEF TypeOK
  <2>4. disk[j].rec \in Records /\ owner[disk[j].rec] = j
    BY <1>1, <2>2, <2>3 DEF TypeOK, Job, Ledger, JobRec, Fine
  <2> QED BY <2>2, <2>3, <2>4 DEF Ledger, RecordRec, Fine
<1>4. CASE \E u \in Users : Withdraw(u)
  BY <1>1, <1>4 DEF Withdraw, TypeOK
<1>5. CASE UNCHANGED seen
  BY <1>5
<1>6. ASSUME NEW u \in Users, (\E i \in Jobs : Request(u, i)) \/ RequestStep(u)
      PROVE  UNCHANGED seen \/ Withdraw(u)
  BY <1>6 DEF RequestStep, Publish, Enqueue, Retract, Request, handleUpload, handleDownload, handleJobCancel,
             Submit, CancelRunning, CancelQueued
<1>7. ASSUME NEW w \in Workers, WorkerStep(w) PROVE UNCHANGED seen \/ Show(w)
  BY <1>7 DEF WorkerStep, Uploading, Take, Leave, Claim, Download, CacheUpload, Look, Waited, Create,
             CreateUnheard, Created, Send, Visible, StageFails, Succeed, Cancelled, GiveUp, Ended, Requeue, Snap, Wake,
             Finish, Record
<1>8. ASSUME NEW t \in Threads, SharedStep(t) PROVE UNCHANGED seen
  BY <1>8 DEF SharedStep, Save, Reclaim, Delete, Forget
<1>9. ASSUME NEW i \in Jobs, GatewayStep(i) \/ Recover(i)
      PROVE  UNCHANGED seen \/ RecoverWhole(i)
  BY <1>9 DEF GatewayStep, GatewaySends, GatewayRefuses, GatewayDrops, GatewayReplaces, Recover, RecoverEnded, RecoverRequeue
<1>10. ASSUME Signal \/ Crash \/ Restart \/ Serve PROVE UNCHANGED seen
  BY <1>10 DEF Signal, Crash, Restart, Serve
<1> QED BY <1>2, <1>3, <1>4, <1>5, <1>6, <1>7, <1>8, <1>9, <1>10 DEF Next

\* An upload that a client is told has succeeded is one whose bytes upstream has had,
\* or whose object another write, a delete or the cache took from its path since it
\* was put there; through retries, crashes and what recovery concludes (run,
\* Recover, WaitUntilSent).
THEOREM SuccessIsUpstream == Spec => SucceededIsUpstream
<1>1. Control /\ Ledger /\ [Next]_vars
        => [\A j \in Jobs :
              (seen'[j] = "succeeded" /\ seen[j] # "succeeded" /\ mem'[j].kind \in {"upload", "overwrite"})
                => j \in delivered \cup displaced]_vars
  BY SuccessHasBytes DEF vars, Fine
<1> QED BY <1>1, ControlHolds, LedgerHolds, PTL DEF Spec, SucceededIsUpstream
=============================================================================
