------------------------------ MODULE JobEngine ------------------------------
(***************************************************************************)
(* The transfer jobs of internal/jobs: submission, the worker pool, the    *)
(* retry loop, cancellation, the store of one file per job, the reclaiming *)
(* of upstream records, and recovery after a restart.                      *)
(*                                                                         *)
(* Threads are workers and API requests.  A step is one section under      *)
(* Engine.mu, or one call made outside it: saving a job, asking upstream   *)
(* about a record, deleting it, one stage of a transfer.                   *)
(***************************************************************************)
EXTENDS Integers, Sequences

CONSTANTS
    Jobs,           \* job ids; each is submitted at most once
    Kinds,          \* what jobs may be asked for, see AssumeJobs
    Gateway,        \* whether there is a write-back cache to go through
    Workers, Users, \* worker goroutines, API requests
    NoJobId, NoWorker,
    MaxAttempts,    \* Engine.attempts
    QueueCap,       \* the capacity of Engine.queue
    Records,        \* upstream file ids create_file may hand out, 1 .. n
    MaxCrashes,     \* bound on restarts
    Faults          \* what else may go wrong, see AssumeFaults

\* "overwrite": an upload with Spec.Overwrite.
ASSUME AssumeJobs    == Kinds \subseteq {"upload", "overwrite", "download"}
                          /\ Gateway \in BOOLEAN /\ NoJobId \notin Jobs
ASSUME AssumeThreads == Workers \cap Users = {} /\ NoWorker \notin Workers
ASSUME AssumeBounds  == MaxAttempts \in Nat \ {0} /\ QueueCap \in Nat
                          /\ MaxCrashes \in Nat /\ Records \subseteq Nat \ {0}
\* "fail": a transfer fails; "unreachable": upstream cannot be asked about a
\* record or does not delete it; "save": a job file cannot be written; "power": a
\* crash undoes the last change of a job file; "remove": the cached object is
\* deleted by its user, or the cache loses it; "replace": something else is written
\* to its path; "refuse": upstream refuses it for good; "signal": SIGTERM; "full":
\* jobs that are not in Jobs fill the queue.
ASSUME AssumeFaults  == Faults \subseteq {"fail", "unreachable", "save", "power", "remove", "replace",
                                          "refuse", "signal", "full"}

VARIABLES
    mem,        \* Engine.jobs
    disk,       \* the job files
    older,      \* what each was before its last change
    queue,      \* Engine.queue
    cancels,    \* whose context Engine.cancels would cancel, per job
    th,         \* the threads
    up, owner,  \* upstream: the state of each record, and the job that made it
    obj,        \* the cached object at the path of each upload: absent, unsent, clean,
                \* or foreign: unsent, and not what the upload put there
    refused,    \* the uploads whose object upstream has refused for good
    phase,      \* "up", "down", "recover" (todo not yet loaded), "ending" (SIGTERM)
    todo,
    crashes,
    seen,       \* history: the terminal state a client could have read
    delivered,  \* history: the jobs whose bytes upstream has had
    displaced,  \* history: the jobs whose object went, or was replaced, since they put it
    givenUp,    \* history: the records the engine has let go of, or never heard of
    unsaved     \* history: the jobs whose file could not be written once, or lost a change

jobVars   == <<mem, disk, older, queue, cancels>>
worldVars == <<up, owner, obj, refused>>
lifeVars  == <<phase, todo, crashes>>
pastVars  == <<seen, delivered, displaced, givenUp, unsaved>>
vars      == <<jobVars, th, worldVars, lifeVars, pastVars>>

Threads == Workers \cup Users

Terminal == {"succeeded", "failed", "cancelled"}
States   == {"none", "queued", "running"} \cup Terminal

\* State.Unsent: the objects the gateway still has to send.
Unsent == {"unsent", "foreign"}

\* Of a job: its state, its attempts, and the upstream record it names (0: none).
Job       == [state : States, tries : 0 .. MaxAttempts + MaxCrashes,
              rec : Records \cup {0}, kind : Kinds \cup {"none"}]
NoJob     == [state |-> "none", tries |-> 0, rec |-> 0, kind |-> "none"]
NewJob(k) == [NoJob EXCEPT !.state = "queued", !.kind = k]

Idle == [pc |-> "idle", job |-> NoJobId, snap |-> NoJob, rec |-> 0,
         res |-> "ok", goal |-> "succeeded", then |-> "idle", stop |-> FALSE]

\* How a stage of a transfer fails: an error the classifier calls temporary, one
\* it gives a smaller budget, a permanent one.
Failures == {"temporary", "weak", "permanent"}

\* Where a thread is.
Labels == {"idle", "gone", "publish", "enqueue", "retract", "withdraw", "save", "reclaim", "delete", "forget",
           "claim", "transfer", "look", "waiting", "create", "created", "send", "closed",
           "returned", "snap", "asleep", "finish", "record", "show"}

Thread == [pc : Labels, job : Jobs \cup {NoJobId}, snap : Job, rec : Records \cup {0},
           res : {"ok", "canceled"} \cup Failures, goal : Terminal, then : Labels,
           stop : BOOLEAN]

At(t, label)    == phase # "down" /\ th[t].pc = label
Goto(t, label)  == th' = [th EXCEPT ![t] = IF label = "idle" THEN Idle ELSE [@ EXCEPT !.pc = label]]
Mine(t)         == mem[th[t].job]
SetMine(t, j)   == mem' = [mem EXCEPT ![th[t].job] = j]

\* A worker's context: the job's own, derived from that of the daemon.
Stopped(w) == th[w].stop \/ phase = "ending"

-----------------------------------------------------------------------------
(* persist: a copy taken under the lock, saved outside it.                  *)

Persist(t, j, label) ==
    th' = [th EXCEPT ![t].pc = "save", ![t].then = label, ![t].snap = j]

\* A job file changes: all or nothing, by a rename or a removal.  No fsync of the
\* directory follows, so that a power loss may undo it (see Crash).
Changed(j, file) ==
    /\ disk' = [disk EXCEPT ![j] = file]
    /\ older' = [older EXCEPT ![j] = disk[j]]

\* FileStore.Save.  A failure is only logged; bounded to one per job.
Stored(j, snap) ==
    \/ Changed(j, snap) /\ UNCHANGED unsaved
    \/ /\ "save" \in Faults /\ j \notin unsaved /\ unsaved' = unsaved \cup {j}
       /\ UNCHANGED <<disk, older>>

Save(t) ==
    /\ At(t, "save")
    /\ Stored(th[t].job, th[t].snap)
    /\ th' = [th EXCEPT ![t] = IF th[t].then = "idle" THEN Idle
                 ELSE [th[t] EXCEPT !.pc = th[t].then, !.snap = NoJob, !.then = "idle"]]
    /\ UNCHANGED <<mem, queue, cancels, worldVars, lifeVars, seen, displaced, delivered, givenUp>>

-----------------------------------------------------------------------------
(* reclaim: a record is deleted once upstream has shown it is empty.        *)

\* What create_file answered an overwrite with may have been there before, so it is
\* never reclaimed, although it may also be a record made for this upload.
Candidate(r, j) == r # 0 /\ j.kind # "overwrite"
Exempt(r, j)    == IF j.kind = "overwrite" THEN {r} \ {0} ELSE {}

\* Mutant: the record is deleted without asking what it is.
ReclaimUnasked(t) ==
    /\ At(t, "reclaim")
    /\ Goto(t, IF Candidate(th[t].rec, Mine(t)) THEN "delete" ELSE "forget")
    /\ UNCHANGED <<jobVars, worldVars, lifeVars, pastVars>>

Reclaim(t) ==
    LET r == th[t].rec IN
    /\ At(t, "reclaim")
    /\ \/ /\ Candidate(r, Mine(t)) => up[r] # "empty"
          /\ Goto(t, "forget") /\ givenUp' = givenUp \cup Exempt(r, Mine(t))
       \/ /\ Candidate(r, Mine(t)) /\ up[r] = "empty"
          /\ Goto(t, "delete") /\ UNCHANGED givenUp
       \/ /\ Candidate(r, Mine(t)) /\ "unreachable" \in Faults
          /\ Goto(t, "forget") /\ givenUp' = givenUp \cup {r}
    /\ UNCHANGED <<jobVars, worldVars, lifeVars, seen, displaced, delivered, unsaved>>

Delete(t) ==
    LET r == th[t].rec IN
    /\ At(t, "delete")
    /\ Goto(t, "forget")
    /\ \/ up' = [up EXCEPT ![r] = "gone"] /\ UNCHANGED givenUp
       \/ "unreachable" \in Faults /\ givenUp' = givenUp \cup {r} /\ UNCHANGED up
    /\ UNCHANGED <<jobVars, owner, obj, refused, lifeVars, seen, displaced, delivered, unsaved>>

\* reclaimByID takes the record's id out of the job; Cancel only saves the job, if
\* the queue has not refused it meanwhile.
Forget(t) ==
    /\ At(t, "forget")
    /\ \/ t \in Workers /\ SetMine(t, [Mine(t) EXCEPT !.rec = 0]) /\ Goto(t, "finish")
       \/ t \in Users /\ Mine(t) = NoJob /\ Goto(t, "idle") /\ UNCHANGED mem
       \/ t \in Users /\ Mine(t) # NoJob /\ Persist(t, Mine(t), "idle") /\ UNCHANGED mem
    /\ UNCHANGED <<disk, older, queue, cancels, worldVars, lifeVars, pastVars>>

-----------------------------------------------------------------------------
(* Requests: Submit and Cancel.                                             *)

Starts(u) == phase = "up" /\ th[u].pc = "idle"

\* Saved before anything else knows the job; its id is new.
Submit(u, j, k) ==
    /\ Starts(u)
    /\ mem[j] = NoJob /\ disk[j] = NoJob /\ seen[j] = "none" /\ j \notin unsaved
    /\ \A v \in Users : th[v].job # j
    /\ Changed(j, NewJob(k))
    /\ th' = [th EXCEPT ![u].pc = "publish", ![u].job = j]
    /\ UNCHANGED <<mem, queue, cancels, worldVars, lifeVars, pastVars>>

\* The two outcomes of the select on the queue's channel.
HasRoom == Len(queue) < QueueCap
IsFull  == ~HasRoom \/ "full" \in Faults

\* From here on List and Get show the job, and it can be cancelled.
Publish(u) ==
    /\ At(u, "publish")
    /\ SetMine(u, disk[th[u].job])
    /\ Goto(u, "enqueue")
    /\ UNCHANGED <<disk, older, queue, cancels, worldVars, lifeVars, pastVars>>

\* Put on the queue; when that is full the job is taken back.
Enqueue(u) ==
    /\ At(u, "enqueue")
    /\ \/ HasRoom /\ queue' = Append(queue, th[u].job) /\ Goto(u, "idle")
       \/ IsFull /\ Goto(u, "retract") /\ UNCHANGED queue
    /\ UNCHANGED <<mem, disk, older, cancels, worldVars, lifeVars, pastVars>>

\* From memory, and then from disk: whatever has become of it.
Retract(u) ==
    /\ At(u, "retract")
    /\ SetMine(u, NoJob)
    /\ Goto(u, "withdraw")
    /\ UNCHANGED <<disk, older, queue, cancels, worldVars, lifeVars, pastVars>>

Withdraw(u) ==
    /\ At(u, "withdraw")
    /\ Changed(th[u].job, NoJob)
    /\ seen' = [seen EXCEPT ![th[u].job] = "refused"]
    /\ Goto(u, "idle")
    /\ UNCHANGED <<mem, queue, cancels, worldVars, lifeVars, displaced, delivered, givenUp, unsaved>>

\* A running job is interrupted, if its transfer is still going on.
CancelRunning(u, j) ==
    /\ Starts(u) /\ mem[j].state = "running"
    /\ th' = [t \in Threads |->
                 IF t = cancels[j] THEN [th[t] EXCEPT !.stop = TRUE] ELSE th[t]]
    /\ UNCHANGED <<jobVars, worldVars, lifeVars, seen, delivered, displaced, givenUp, unsaved>>

\* A queued one, which may be asleep between two attempts, is finished here.
CancelQueued(u, j) ==
    /\ Starts(u) /\ mem[j].state = "queued"
    /\ mem' = [mem EXCEPT ![j].state = "cancelled"]
    /\ th' = [th EXCEPT ![u].pc = "reclaim", ![u].job = j, ![u].rec = mem[j].rec]
    /\ UNCHANGED <<disk, older, queue, cancels, worldVars, lifeVars, seen, delivered, displaced, givenUp, unsaved>>

-----------------------------------------------------------------------------
(* The worker: take, claim, transfer, judge, finish.                        *)

\* select chooses at random between the queue and the two reasons to stop, so a
\* job may be taken while the daemon ends.
Take(w) ==
    /\ At(w, "idle") /\ queue # <<>>
    /\ queue' = Tail(queue)
    /\ th' = [th EXCEPT ![w] = [Idle EXCEPT !.pc = "claim", !.job = Head(queue)]]
    /\ UNCHANGED <<mem, disk, older, cancels, worldVars, lifeVars, pastVars>>

\* Mutant: the worker looks at the reasons to stop only when the queue wakes it.
LeaveLate(w) ==
    /\ At(w, "idle") /\ phase = "ending" /\ queue # <<>>
    /\ Goto(w, "gone")
    /\ UNCHANGED <<jobVars, worldVars, lifeVars, pastVars>>

Leave(w) ==
    /\ At(w, "idle") /\ phase = "ending"
    /\ Goto(w, "gone")
    /\ UNCHANGED <<jobVars, worldVars, lifeVars, pastVars>>

Claim(w) ==
    LET j == th[w].job IN
    /\ At(w, "claim")
    /\ IF mem[j].state \in Terminal \cup {"none"}
       THEN /\ th' = [th EXCEPT ![w] = Idle]
            /\ UNCHANGED <<mem, cancels>>
       ELSE /\ mem' = [mem EXCEPT ![j].state = "running", ![j].tries = @ + 1]
            /\ cancels' = [cancels EXCEPT ![j] = w]
            /\ th' = [th EXCEPT ![w] = [Idle EXCEPT !.pc = "save", !.then = "transfer",
                                                    !.job = j, !.snap = mem'[j]]]
    /\ UNCHANGED <<disk, older, queue, worldVars, lifeVars, pastVars>>

\* What a stage of a transfer may return with: a failure, or its context's error.
Errors(w) ==
    (IF "fail" \in Faults THEN Failures ELSE {})
        \cup (IF Stopped(w) THEN {"canceled"} ELSE {})

Return(w, res) ==
    th' = [th EXCEPT ![w] = [Idle EXCEPT !.pc = "returned", !.job = th[w].job, !.res = res]]

\* Any call of a transfer may fail, and fails once the context is cancelled.
StageFails(w) ==
    /\ phase # "down"
    /\ th[w].pc \in {"transfer", "create", "send", "closed"}
          \/ (th[w].pc = "waiting" /\ Stopped(w))
    /\ \E e \in IF th[w].pc = "waiting" THEN {"canceled"} ELSE Errors(w) : Return(w, e)
    /\ UNCHANGED <<jobVars, worldVars, lifeVars, pastVars>>

\* runDownload: from the cache, or resumed from the local file.
Download(w) ==
    /\ At(w, "transfer") /\ Mine(w).kind = "download"
    /\ Return(w, "ok")
    /\ UNCHANGED <<jobVars, worldVars, lifeVars, pastVars>>

\* PutLocalFile: the gateway's own copy, which is the gateway's to deliver now.
PutLocalFile(j) ==
    /\ obj' = [obj EXCEPT ![j] = "unsent"]
    /\ refused' = refused \ {j} /\ displaced' = displaced \ {j}

\* uploadThroughCache: the copy into the gateway, unless it has no room.
CacheUpload(w) ==
    LET j == th[w].job IN
    /\ At(w, "transfer") /\ Mine(w).kind # "download"
    /\ \/ /\ Gateway
          /\ PutLocalFile(j)
          /\ Goto(w, "look")
       \/ Goto(w, "create") /\ UNCHANGED <<obj, refused, displaced>>
    /\ UNCHANGED <<jobVars, up, owner, lifeVars, seen, delivered, givenUp, unsaved>>

\* WaitUntilSent refuses an object that is not there when it looks first, and
\* then waits while there is an unsent one at its path, whoever put it there.
Look(w) ==
    /\ At(w, "look")
    /\ IF obj[th[w].job] = "absent" THEN Return(w, "permanent") ELSE Goto(w, "waiting")
    /\ UNCHANGED <<jobVars, worldVars, lifeVars, pastVars>>

\* Mutant: the wait for the object to be sent is left out.
WaitedNot(w) ==
    /\ At(w, "waiting")
    /\ Return(w, "ok")
    /\ UNCHANGED <<jobVars, worldVars, lifeVars, pastVars>>

Waited(w) ==
    /\ At(w, "waiting") /\ obj[th[w].job] \notin Unsent
    /\ Return(w, "ok")
    /\ UNCHANGED <<jobVars, worldVars, lifeVars, pastVars>>

\* create_file makes an empty record before any byte moves; an overwrite gets the
\* file that is there, if one is.
MakesRecord(j, r) ==
    /\ up[r] = "none" /\ \A s \in Records : s < r => up[s] # "none"
    /\ \E made \in {"empty"} \cup (IF mem[j].kind = "overwrite" THEN {"theirs"} ELSE {}) :
          up' = [up EXCEPT ![r] = made]
    /\ owner' = [owner EXCEPT ![r] = j]

Create(w) ==
    /\ At(w, "create")
    /\ \E r \in Records :
          /\ MakesRecord(th[w].job, r)
          /\ th' = [th EXCEPT ![w].pc = "created", ![w].rec = r]
    /\ UNCHANGED <<jobVars, obj, refused, lifeVars, pastVars>>

\* The answer of create_file is lost: nobody knows the record.
CreateUnheard(w) ==
    /\ At(w, "create")
    /\ \E r \in Records :
          /\ MakesRecord(th[w].job, r)
          /\ givenUp' = givenUp \cup {r}
    /\ \E e \in Errors(w) : Return(w, e)
    /\ UNCHANGED <<jobVars, obj, refused, lifeVars, seen, delivered, displaced, unsaved>>

\* Mutant: the bytes are sent before the record's id is on disk.
CreatedUnsaved(w) ==
    /\ At(w, "created")
    /\ SetMine(w, [Mine(w) EXCEPT !.rec = th[w].rec])
    /\ givenUp' = givenUp \cup ({Mine(w).rec} \ {0})
    /\ Goto(w, "send")
    /\ UNCHANGED <<disk, older, queue, cancels, worldVars, lifeVars, seen, displaced, delivered, unsaved>>

\* OnRecordCreated: the id is in the job, and on disk, before a byte moves.  The
\* record of an attempt before this one is named no more.
Created(w) ==
    /\ At(w, "created")
    /\ SetMine(w, [Mine(w) EXCEPT !.rec = th[w].rec])
    /\ givenUp' = givenUp \cup ({Mine(w).rec} \ {0})
    /\ Persist(w, mem'[th[w].job], "send")
    /\ UNCHANGED <<disk, older, queue, cancels, worldVars, lifeVars, seen, displaced, delivered, unsaved>>

\* The chunks and close_file_upload: from here on upstream has a whole file.
Send(w) ==
    LET r == th[w].rec IN
    /\ At(w, "send")
    /\ up' = [up EXCEPT ![r] = IF up[r] = "theirs" THEN "theirs" ELSE "whole"]
    /\ delivered' = delivered \cup {th[w].job}
    /\ Goto(w, "closed")
    /\ UNCHANGED <<jobVars, owner, obj, refused, lifeVars, seen, displaced, givenUp, unsaved>>

\* The answer to the close, and the file is visible: "the record is no longer an
\* orphan candidate."
Visible(w) ==
    /\ At(w, "closed")
    /\ SetMine(w, [Mine(w) EXCEPT !.rec = 0])
    /\ Return(w, "ok")
    /\ UNCHANGED <<disk, older, queue, cancels, worldVars, lifeVars, pastVars>>

\* Mutant: the last attempt of the budget is not counted.
BudgetPast(res) == IF res = "weak" THEN 1 ELSE MaxAttempts + 1

Budget(res) == IF res = "weak" THEN 1 ELSE MaxAttempts

Ended(w, label, goal) ==
    /\ cancels' = [cancels EXCEPT ![th[w].job] = NoWorker]
    /\ th' = [th EXCEPT ![w] = [Idle EXCEPT !.pc = label, !.job = th[w].job,
                                            !.goal = goal, !.rec = Mine(w).rec]]
    /\ UNCHANGED <<mem, disk, older, queue, worldVars, lifeVars, pastVars>>

\* The transfer has returned: it can be cancelled no more, and the verdict falls.
\* Only this worker changes a running job, so what the code does in two sections
\* is one step.
Succeed(w) ==
    /\ At(w, "returned") /\ th[w].res = "ok"
    /\ Ended(w, "finish", "succeeded")

Cancelled(w) ==
    /\ At(w, "returned") /\ th[w].res = "canceled"
    /\ Ended(w, "reclaim", "cancelled")

GiveUp(w) ==
    /\ At(w, "returned") /\ th[w].res \in Failures
    /\ th[w].res = "permanent" \/ Mine(w).tries >= Budget(th[w].res)
    /\ Ended(w, "reclaim", "failed")

\* The failure was temporary: the job is queued again by name only; the worker
\* keeps it, saves it and sleeps.
Requeue(w) ==
    /\ At(w, "returned") /\ th[w].res \in Failures \ {"permanent"}
    /\ Mine(w).tries < Budget(th[w].res)
    /\ SetMine(w, [Mine(w) EXCEPT !.state = "queued"])
    /\ cancels' = [cancels EXCEPT ![th[w].job] = NoWorker]
    /\ th' = [th EXCEPT ![w] = [Idle EXCEPT !.pc = "snap", !.job = th[w].job]]
    /\ UNCHANGED <<disk, older, queue, worldVars, lifeVars, pastVars>>

\* persist locks anew, and a Cancel may have come between.
Snap(w) ==
    /\ At(w, "snap")
    /\ Persist(w, Mine(w), "asleep")
    /\ UNCHANGED <<jobVars, worldVars, lifeVars, pastVars>>

\* Mutant: the worker goes back to the queue, which does not have the job.
WakeIdle(w) ==
    /\ At(w, "asleep")
    /\ Goto(w, "idle")
    /\ UNCHANGED <<jobVars, worldVars, lifeVars, pastVars>>

Wake(w) ==
    /\ At(w, "asleep")
    /\ IF phase = "ending"
       THEN th' = [th EXCEPT ![w].pc = "reclaim", ![w].goal = "cancelled", ![w].rec = Mine(w).rec]
       ELSE Goto(w, "claim")
    /\ UNCHANGED <<jobVars, worldVars, lifeVars, pastVars>>

\* Mutant: the end of a job is visible before it is on disk.
FinishVisible(w) ==
    /\ At(w, "finish")
    /\ th' = [th EXCEPT ![w].snap = [Mine(w) EXCEPT !.state = th[w].goal], ![w].pc = "record"]
    /\ SetMine(w, [Mine(w) EXCEPT !.state = th[w].goal])
    /\ seen' = [seen EXCEPT ![th[w].job] = th[w].goal]
    /\ UNCHANGED <<disk, older, queue, cancels, worldVars, lifeVars, displaced, delivered, givenUp, unsaved>>

\* finish: a copy with the terminal state is saved, and only then published.
Finish(w) ==
    /\ At(w, "finish")
    /\ th' = [th EXCEPT ![w].snap = [Mine(w) EXCEPT !.state = th[w].goal], ![w].pc = "record"]
    /\ UNCHANGED <<jobVars, worldVars, lifeVars, pastVars>>

\* A job that succeeded through the gateway still names the record of an attempt
\* that went around it.
Record(w) ==
    /\ At(w, "record")
    /\ Stored(th[w].job, th[w].snap)
    /\ Goto(w, "show")
    /\ givenUp' = givenUp \cup ({th[w].snap.rec} \ {0})
    /\ UNCHANGED <<mem, queue, cancels, worldVars, lifeVars, seen, displaced, delivered>>

Show(w) ==
    /\ At(w, "show")
    /\ SetMine(w, th[w].snap)
    /\ seen' = [seen EXCEPT ![th[w].job] = th[w].goal]
    /\ th' = [th EXCEPT ![w] = Idle]
    /\ UNCHANGED <<disk, older, queue, cancels, worldVars, lifeVars, displaced, delivered, givenUp, unsaved>>

-----------------------------------------------------------------------------
(* Around the engine: the gateway, SIGTERM, the crash, recovery.            *)

\* The gateway's workers send the object (see DataCache), at last even one that was
\* refused, for every sweep tries again.
GatewaySends(j) ==
    /\ phase # "down" /\ obj[j] \in Unsent
    /\ obj' = [obj EXCEPT ![j] = "clean"]
    /\ delivered' = IF obj[j] = "unsent" THEN delivered \cup {j} ELSE delivered
    /\ refused' = refused \ {j}
    /\ UNCHANGED <<jobVars, th, up, owner, lifeVars, seen, displaced, givenUp, unsaved>>

\* A permanent error leaves the object as it is.
GatewayRefuses(j) ==
    /\ phase # "down" /\ obj[j] \in Unsent /\ "refuse" \in Faults
    /\ refused' = refused \cup {j}
    /\ UNCHANGED <<jobVars, th, up, owner, obj, lifeVars, pastVars>>

\* Eviction takes a clean object; its user's delete, an eviction that races a write
\* or a replay that finds it torn takes any (see DataCache).
GatewayDrops(j) ==
    /\ phase # "down" /\ obj[j] # "absent"
    /\ obj[j] = "clean" \/ "remove" \in Faults
    /\ obj' = [obj EXCEPT ![j] = "absent"]
    /\ displaced' = IF obj[j] = "clean" THEN displaced ELSE displaced \cup {j}
    /\ refused' = refused \ {j}
    /\ UNCHANGED <<jobVars, th, up, owner, lifeVars, seen, delivered, givenUp, unsaved>>

\* Another job, or a client, writes to the path.  Bounded to once per attempt.
GatewayReplaces(j) ==
    /\ phase # "down" /\ "replace" \in Faults
    /\ obj[j] \in {"unsent", "clean"} /\ j \notin displaced
    /\ obj' = [obj EXCEPT ![j] = "foreign"]
    /\ displaced' = displaced \cup {j}
    /\ refused' = refused \ {j}
    /\ UNCHANGED <<jobVars, th, up, owner, lifeVars, seen, delivered, givenUp, unsaved>>

\* main's context ends: every transfer's context ends with it, and Stop waits.
Signal ==
    /\ phase = "up" /\ "signal" \in Faults
    /\ phase' = "ending"
    /\ UNCHANGED <<jobVars, th, worldVars, todo, crashes, pastVars>>

\* The job file that will have the record reclaimed after a restart.
Named(r) == disk[owner[r]].rec = r /\ disk[owner[r]].state \notin Terminal

\* The process dies, or main returns: it does not wait for Stop.  With the power
\* the last change of some job files goes too (bounded to one each).
Crash ==
    /\ phase # "down" /\ crashes < MaxCrashes
    /\ phase' = "down" /\ todo' = {} /\ crashes' = crashes + 1
    /\ mem' = [j \in Jobs |-> NoJob] /\ queue' = <<>>
    /\ cancels' = [j \in Jobs |-> NoWorker]
    /\ th' = [t \in Threads |-> Idle]
    /\ \E undone \in SUBSET (IF "power" \in Faults THEN Jobs ELSE {}) :
          /\ disk' = [j \in Jobs |-> IF j \in undone THEN older[j] ELSE disk[j]]
          /\ unsaved' = unsaved \cup undone
          /\ givenUp' = givenUp \cup {r \in Records : owner[r] # NoJobId /\ (owner[r] \in undone \/ ~Named(r))}
    /\ UNCHANGED <<older, worldVars, seen, displaced, delivered>>

\* main starts the workers, then loads the jobs, then listens.
Restart ==
    /\ phase = "down"
    /\ phase' = "recover"
    /\ todo' = {j \in Jobs : disk[j] # NoJob}
    /\ UNCHANGED <<jobVars, th, worldVars, crashes, pastVars>>

\* recordIsWholeFile: a record reports a hash, and its size, once it is closed.
IsWhole(r) == up[r] = "whole"

Loaded(j) == todo' = todo \ {j}

\* Nothing will be done for a job that had ended.
RecoverEnded(j) ==
    /\ phase = "recover" /\ j \in todo /\ disk[j].state \in Terminal
    /\ mem' = [mem EXCEPT ![j] = disk[j]]
    /\ Loaded(j)
    /\ UNCHANGED <<disk, older, queue, cancels, th, worldVars, phase, crashes, pastVars>>

\* "Upstream shows the upload had in fact finished."
RecoverWhole(j) ==
    LET r == disk[j].rec
        done == [disk[j] EXCEPT !.state = "succeeded", !.rec = 0] IN
    /\ phase = "recover" /\ j \in todo /\ disk[j].state \notin Terminal
    /\ Candidate(r, disk[j]) /\ IsWhole(r)
    /\ Stored(j, done)
    /\ mem' = [mem EXCEPT ![j] = done]
    /\ seen' = [seen EXCEPT ![j] = "succeeded"]
    /\ Loaded(j)
    /\ UNCHANGED <<queue, cancels, th, worldVars, phase, crashes, displaced, delivered, givenUp>>

\* Everything else is run again, its record reclaimed if upstream lets it, and
\* its id dropped in any case.
RecoverRequeue(j) ==
    LET r == disk[j].rec
        again == [disk[j] EXCEPT !.state = "queued", !.rec = 0]
        mine == Candidate(r, disk[j]) IN
    /\ phase = "recover" /\ j \in todo /\ disk[j].state \notin Terminal
    /\ \/ /\ mine => ~IsWhole(r)
          /\ up' = IF mine /\ up[r] = "empty" THEN [up EXCEPT ![r] = "gone"] ELSE up
          /\ givenUp' = givenUp \cup Exempt(r, disk[j])
       \/ /\ mine /\ "unreachable" \in Faults
          /\ givenUp' = givenUp \cup {r} /\ UNCHANGED up
    /\ Stored(j, again)
    /\ mem' = [mem EXCEPT ![j] = again]
    /\ \/ HasRoom /\ queue' = Append(queue, j) /\ Loaded(j)
       \/ IsFull /\ todo' = {} /\ UNCHANGED queue      \* Recover gives up
    /\ UNCHANGED <<cancels, th, owner, obj, refused, phase, crashes, seen, displaced, delivered>>

Serve ==
    /\ phase = "recover" /\ todo = {}
    /\ phase' = "up"
    /\ UNCHANGED <<jobVars, th, worldVars, todo, crashes, pastVars>>

-----------------------------------------------------------------------------

Init ==
    /\ mem = [j \in Jobs |-> NoJob]
    /\ disk = [j \in Jobs |-> NoJob] /\ older = [j \in Jobs |-> NoJob]
    /\ queue = <<>> /\ cancels = [j \in Jobs |-> NoWorker]
    /\ th = [t \in Threads |-> Idle]
    /\ up = [r \in Records |-> "none"] /\ owner = [r \in Records |-> NoJobId]
    /\ obj = [j \in Jobs |-> "absent"] /\ refused = {}
    /\ phase = "up" /\ todo = {} /\ crashes = 0
    /\ seen = [j \in Jobs |-> "none"] /\ delivered = {} /\ displaced = {}
    /\ givenUp = {} /\ unsaved = {}

\* The requests of the REST API; those it refuses change nothing here.
handleUpload(u, j)    == \E k \in Kinds \ {"download"} : Submit(u, j, k)
handleDownload(u, j)  == "download" \in Kinds /\ Submit(u, j, "download")
handleJobCancel(u, j) == CancelRunning(u, j) \/ CancelQueued(u, j)

Request(u, j) == handleUpload(u, j) \/ handleDownload(u, j) \/ handleJobCancel(u, j)

RequestStep(u) == Publish(u) \/ Enqueue(u) \/ Retract(u) \/ Withdraw(u)

SharedStep(t) == Save(t) \/ Reclaim(t) \/ Delete(t) \/ Forget(t)

Uploading(w) ==
    \/ CacheUpload(w) \/ Look(w) \/ Waited(w)
    \/ Create(w) \/ CreateUnheard(w) \/ Created(w) \/ Send(w) \/ Visible(w)

WorkerStep(w) ==
    \/ Take(w) \/ Leave(w) \/ Claim(w) \/ Download(w) \/ Uploading(w) \/ StageFails(w)
    \/ Succeed(w) \/ Cancelled(w) \/ GiveUp(w) \/ Requeue(w) \/ Snap(w) \/ Wake(w) \/ Finish(w) \/ Record(w) \/ Show(w)

GatewayStep(j) == GatewaySends(j) \/ GatewayRefuses(j) \/ GatewayDrops(j) \/ GatewayReplaces(j)

Recover(j) == RecoverEnded(j) \/ RecoverWhole(j) \/ RecoverRequeue(j)

Next ==
    \/ \E u \in Users : (\E j \in Jobs : Request(u, j)) \/ RequestStep(u)
    \/ \E w \in Workers : WorkerStep(w)
    \/ \E t \in Threads : SharedStep(t)
    \/ \E j \in Jobs : GatewayStep(j) \/ Recover(j)
    \/ Signal \/ Crash \/ Restart \/ Serve

Spec == Init /\ [][Next]_vars

\* Goroutines run on: every call they make returns, because it has a timeout or a
\* context, and the gateway sends what it holds (DataCache, FlushSchedule), unless
\* upstream has refused it for good.
FairSpec ==
    /\ Spec
    /\ \A t \in Threads : WF_vars(SharedStep(t))
    /\ \A u \in Users : WF_vars(RequestStep(u))
    /\ \A w \in Workers : WF_vars(WorkerStep(w))
    /\ \A j \in Jobs : WF_vars(j \notin refused /\ GatewaySends(j)) /\ WF_vars(Recover(j))
    /\ WF_vars(Restart) /\ WF_vars(Serve)

-----------------------------------------------------------------------------

\* The values of the variables; what upstream calls a record is "none" until it
\* has made it.
TypeOK ==
    /\ mem \in [Jobs -> Job] /\ disk \in [Jobs -> Job] /\ older \in [Jobs -> Job]
    /\ queue \in Seq(Jobs) /\ Len(queue) <= QueueCap
    /\ cancels \in [Jobs -> Workers \cup {NoWorker}]
    /\ th \in [Threads -> Thread]
    /\ up \in [Records -> {"none", "empty", "whole", "theirs", "gone"}]
    /\ owner \in [Records -> Jobs \cup {NoJobId}]
    /\ obj \in [Jobs -> {"absent", "unsent", "clean", "foreign"}] /\ refused \subseteq Jobs
    /\ phase \in {"up", "down", "recover", "ending"} /\ todo \subseteq Jobs
    /\ crashes \in 0 .. MaxCrashes
    /\ seen \in [Jobs -> {"none", "refused"} \cup Terminal]
    /\ delivered \subseteq Jobs /\ displaced \subseteq Jobs /\ unsaved \subseteq Jobs
    /\ givenUp \subseteq Records

\* Of a file that is whole, or was there before, no interrupted upload deletes
\* anything: not a failed or cancelled one, not recovery after a crash between
\* the close and the record of it.  (engine.go: reclaim)
WholeFilesAreKept == [][\A r \in Records : up[r] \in {"whole", "theirs"} => up'[r] = up[r]]_vars

\* A record that upstream made for a job and that is still empty is in the job's
\* file, so that a restart can reclaim it, or in the hands of a thread that is
\* about to write or to reclaim it; except those the engine let go of, an
\* overwrite's among them, or never heard of, and those of a job whose file could
\* not be written.  (engine.go: OnRecordCreated, reclaim, Recover)
OrphansAreNamed ==
    \A r \in Records : (up[r] = "empty" /\ r \notin givenUp /\ owner[r] \notin unsaved) =>
        \/ Named(r)
        \/ \E t \in Threads : th[t].rec = r
               /\ th[t].pc \in {"created", "save", "reclaim", "delete"}

\* An upload that is told to have succeeded is one whose bytes upstream has had,
\* or whose object another write, a delete or the cache took from its path since
\* it was put there; through retries, crashes and what recovery concludes.
\* (engine.go: run, Recover; datacache/jobs.go: WaitUntilSent)
SucceededIsUpstream ==
    [][\A j \in Jobs :
        (seen'[j] = "succeeded" /\ seen[j] # "succeeded" /\ mem'[j].kind \in {"upload", "overwrite"})
            => j \in delivered \cup displaced]_vars

\* The contract of JobContract, with the job file for the record and the end a
\* client has read in Get for what it was told.
Contract == INSTANCE JobContract WITH
    record <- [j \in Jobs |-> IF disk[j].state \in {"queued", "running"} THEN "open" ELSE disk[j].state],
    told   <- [j \in Jobs |-> IF seen[j] \in {"succeeded", "failed"} THEN seen[j] ELSE "none"],
    lost   <- unsaved

\* No end of a job is shown before it is on disk, and none that was shown is
\* taken back by a retry, a late save or a restart.  (engine.go: finish, persist)
ContractKept == Contract!Spec

\* A job on the queue ends, unless the daemon does, or a worker waits for an object
\* upstream has refused for good: it then waits until somebody helps, and has
\* neither the job's end nor time for another.  (engine.go: run, maxAttempts;
\* writeback.go:274)
JobsEnd ==
    \A j \in Jobs :
        (phase = "up" /\ \E i \in DOMAIN queue : queue[i] = j)
            ~> \/ mem[j].state \in Terminal \/ phase # "up"
               \/ \E w \in Workers : th[w].pc = "waiting" /\ th[w].job \in refused

\* Once the daemon is told to stop, its workers come to an end, however many jobs
\* are running or queued; a job asleep between two attempts does not hold them.
\* (engine.go: Stop, worker, run)
StopReturns == (phase = "ending") ~> (phase # "ending" \/ \A w \in Workers : th[w].pc = "gone")

\* "The engine never leaves an artefact upstream."  (job.go:14)  When a job has
\* ended and nobody has it in hand, none of its records is left empty.
NoArtefact ==
    \A r \in Records : up[r] = "empty" =>
        \/ mem[owner[r]].state \notin Terminal
        \/ \E t \in Threads : th[t].job = owner[r]

\* "WaitUntilSent blocks until the object has reached OpenDrive."  (cache.go:37)
SucceededIsSent ==
    [][\A j \in Jobs :
        (seen'[j] = "succeeded" /\ seen[j] # "succeeded" /\ mem'[j].kind \in {"upload", "overwrite"})
            => j \in delivered]_vars

\* "A queued job never starts; a running one is interrupted."  (engine.go:269)
NoAttemptAfterCancel == [][\A w \in Workers : th[w].stop => th'[w].pc # "snap"]_vars

\* "Nothing acknowledged before it is durable."  (engine.go:683)
AcknowledgedIsDurable ==
    \A j \in Jobs : seen[j] \in {"succeeded", "failed"} => disk[j].state = seen[j]
=============================================================================
