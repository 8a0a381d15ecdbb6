# OpenDrive Bridge: specifications, checks and proofs

TLA+ modules that model the parts of OpenDrive Bridge whose correctness depends
on the order of events, the TLC runs that check them on small instances, and
TLAPS proofs for every value of the constants. Paths are relative to the
repository.

    tlc -config cache_turns.cfg MCDataCache      # a run of the cache
    tlc -config jobs.cfg JobEngine               # the run of the job engine
    tlapm DataCacheProofs.tla                    # the proofs about the cache

A module `XProofs` extends `X` and holds the theorems about it; every one of its
leaves is checked by `tlapm`, with no assumption but those `X` names.

## 1. The system

The bridge is a local daemon, `opendrived`, with a REST API on 127.0.0.1 in
front of OpenDrive's, a command line client `odctl` and a small web page.

| part | where | state | operations | what makes it correct |
|---|---|---|---|---|
| data cache: store and journal | `internal/datacache/{store,journal,object}.go` | index `objs`, counters `dirty` and `bytes`, a content file per path, an append-only journal | Put, Fill, commit, Get, forget, evict, replay at start | an accepted write survives until it is upstream; the counters are exact; recovery brings back what was promised |
| data cache: write-back | `internal/datacache/{writeback,upstream}.go` | `inFlight`, `flushQueue`, `waiters`, `closed` | flushOne, setState, sweep, Refresh, Clear, Remove, Flush, Drain, Close | clean means upstream has it; one upload per path; everything is sent in the end; shutdown ends and names what it leaves |
| data cache: jobs, durability, lock | `internal/datacache/{jobs,durability,lock}.go` | a flock | PutLocalFile, CopyTo, WaitUntilSent; a probe of the mount | one process per directory; a job's success means sent |
| job engine | `internal/jobs` | jobs, cancel functions, queue, one file per job | Submit, worker, retry, Cancel, Stop, Recover | a job ends in the state it reports; upstream records are reclaimed, whole files never |
| authentication | `pkg/opendrive/{auth,session,oauth2}.go` | session or tokens, renewal gate | login, refresh, logout | one renewal for one expiry; a terminal refusal is not repeated; the store agrees with memory |
| request loop | `pkg/opendrive/{client,classify,errors}.go` | the probe's result, witnesses | Do, DoStream: send, classify, probe, refresh once, retry | only what may be repeated is repeated; every request ends |
| chunked transfer | `pkg/opendrive/{upload,download}.go` | offset, open upstream record, local file | create, open, chunks, close, reclaim; probe, resume, verify | no gap and no overlap after a lost answer; success means whole |
| folders and path cache | `pkg/opendrive/{path,folder}.go`, `internal/cache` | `byPath`, `byID` | resolve, ensure, lookup, store, invalidate, evict; create, rename, move, copy, trash | no stale identifier after a change; concurrent creators agree |
| REST server | `internal/server` | none of its own | handlers over all of the above | order of cache and upstream in uploads, deletes, listings and folder writes |
| keystore | `internal/keystore` | an encrypted file, an environment file | read, atomic rewrite | what is read back is what was saved |
| clients and tools | `internal/cli`, `internal/ui`, `cmd`, `scripts`, `deploy`, `tools` | none | single calls, formatting | not modelled |

The server's handlers call the data cache for uploads and downloads when
write-back is on, and the job engine for transfers; the data cache's workers and
the job engine call the SDK; the SDK's requests share one authenticator, which
the keystore serves. Folder paths are resolved through the path cache by handlers,
flush workers and job workers alike. At SIGTERM the listener stops, the job engine
is stopped in a goroutine, and `main` runs the cache's Drain and Close.

The core is the data cache. It is the one part that can lose a user's bytes: it
answers 202 when the bytes are on the local disk and sends them later. What is
hard in the system is concurrency (request goroutines, flush and job workers,
calls made outside a lock), crashes between any two steps, answers of upstream
that are lost, late or say nothing, and work that must go on until it is done.

## 2. Modules

| module | models |
|---|---|
| `DataCache` | the store, the journal as recovery reads it, flushing, every operation that discards an object, the crash and the restart |
| `MCDataCache` | values of its constants for TLC, and the symmetry of its threads |
| `DataCacheProofs` | the theorems about it: types, clean means upstream, one upload per path, the journal's lead, the promise, the counters |
| `FlushSchedule` | the flush queue, the sweep, the workers, flushes and listings at a user's request, Drain and Close |
| `FlushScheduleProofs` | types, listings |
| `JobContract` | what is promised of a job's end (abstract) |
| `JobContractProofs` | the theorems about it |
| `JobEngine` | transfer jobs: submission, workers, retry, cancel, saving, reclaiming, SIGTERM, crash and recovery; implements `JobContract` |
| `JobEngineProofs` | its types, that it implements `JobContract`, and what it does with upstream's records |
| `Classification` | what an answer from upstream is taken for |
| `Requests` | the request loop over the two authenticators, the renewal gate, the probe and the credential store; extends `Classification` |
| `RequestsProofs` | the theorems about it |
| `Uploads` | one chunked upload and the upstream that assembles it |
| `Downloads`, `MCDownloads` | downloads to a file, to the server's clients and out of the cache; values for TLC |
| `UploadsProofs`, `DownloadsProofs` | the theorems about them |
| `Paths`, `MCPaths` | folders upstream, the path cache, EnsurePath and the folder writes; values for TLC |
| `PathsProofs` | types, ids that find their entries, EnsurePath's answer, nothing stale after a write |

### DataCache

A step is one section under `DataCache.mu`, or one call outside it (rename,
directory fsync, journal append, unlink, open, upload), so all interleavings the
lock allows are there. Threads are request goroutines (`Clients`) and flush
workers (`Workers`); `th[t].pc` says where a thread is.

| variables | code |
|---|---|
| `index`, `dirty`, `bytes` | `objs`, `dirty`, `bytes` of `DataCache`; an object is its `StoredAt` (`ver`) and its state |
| `inFlight`, `cancelled` | `inFlight`, and whose cancel function Remove has called |
| `files`, `disk` | the content file as the kernel shows it, and the set of what a crash may leave of it: a rename or unlink adds to the set, an fsync of the directory settles it |
| `jnl`, `torn` | what `replayJournal` makes of the journal: `applyRecord` per path, and whether a partial record, left by a crash or a failed append, hides what follows it |
| `up`, `held` | upstream's content per path, and every content it has had |
| `body`, `clock` | the content each version was given; the last `StoredAt` |
| `promised`, `exposed` | history: the accepted version still owed, and the paths whose content a later Put has already replaced or whose newest record lies behind a tear |
| `unchecked` | history: the versions taken for upstream's that are not, with nothing to tell by |

| actions | code |
|---|---|
| `PutBegin`, `FillBegin`, `Seal`, `Rename`, `SyncDir(Fails)`, `JournalPut(Fails)`, `IndexPut`, `Abort` | `newWriter`, `Commit`/`CommitClean`, `writer.commit` |
| `Evict`, `ForgetIndex`, `Unlink`, `Drop` | `evictIfNeeded`, `forget` |
| `GetHit`, `GetOpen`, `Refresh`, `Clear` | `Get`, `Refresh`, `Clear` and their handlers |
| `RemoveBegin`, `RemoveCheck`, `RemoveGivesUp`, `DeleteUpstream` | `RemoveTree`, `Remove`, `handleRemove` |
| `Claim`, `SetCheck`, `SetAppend`, `SetApply`, `OpenContent`, `UploadLands`, `UploadAnswers`, `UploadFails`, `UploadStopped`, `End` | `flushOne`, `setState`, `SDKUploader.Upload` |
| `Crash`, `Open` | the process dies; `lockDir`, `replayJournal`, `verifyAgainstDisk`, `compactJournal` |

What is abstracted: bytes are a member of `Bodies`, which stands for their MD5
too; the least-recently-used order of an eviction is any order; touch records,
attempts, last errors and file identifiers are left out; any worker may claim any
unsent path at any time (`FlushSchedule` says when it does); the two critical
sections of `flushOne`'s deferred function are one step, since nothing but
`notifyWaiters` lies between them; compaction at start happens or not. A journal
append that fails (`AppendFails`) leaves the whole record, nothing, or a part of it;
the daemon goes on appending, and behind a part nothing is read at replay
(`journal.go:155`, `:243`). An upload may be answered without a hash, which is then
not compared (`writeback.go:285`, `Hashed`), and a download whose length upstream did
not give may be cut short unnoticed (`transfers.go:320`, `Arrived`). Left out: the
shortcut for a file upstream already has, write-back switched off.

### FlushSchedule

The same workers seen from the outside: an object is its `StoredAt` and whether
it is unsent, an upload is its outcome. `Take` and `Sweep` are the branches of
`flushWorker`'s select, which Go chooses between at random; `Claim` is the first
section of `flushOne`, `Succeeds`, `Fails`, `IsRefused` and `Cancelled` the
outcomes of its upload, `End` its deferred function, a step apart from the state
change because a commit may fall between them. `Init` holds what an earlier run
left, as `requeueUnsent` queues it. `Flush` queues at a user's request.
`ListBegin`, `ListAnswered`, `ListEnds` are `handleList`: upstream is asked first,
the cache is read afterwards. `DrainBegin` to `Closed` are Drain and Close as
`main` calls them, `Overrun` the HTTP server's shutdown that runs out of its 20
seconds and has `main` leave without either. An open writer outlives Drain and
Close, as it does in the code. `owed` is history.

### JobEngine and JobContract

Threads are workers and API requests; a step is one section under `Engine.mu`, or
one call outside it. `mem` and `disk` are `Engine.jobs` and the job files, and the
distance between them is the subject: `Persist` takes a copy under the lock,
`Save` writes it later, `Finish`/`Record`/`Show` write first and publish then.
`older` is what each file was before its last change: the rename is not followed by an
fsync of the directory, so a power loss may undo it (`store.go:126`).
`up` and `owner` are upstream's records, empty from `create_file` until the close; an
overwrite is given the file that is there ("theirs") or a new empty record, and the
answer may be lost (`CreateUnheard`).
`Submit`, `Publish`, `Enqueue`, `Retract`, `Withdraw` are the sections of
`Engine.Submit`: from `Publish` on `List` shows the id, and `CancelQueued` may come
before the queue refuses the job. `CancelRunning` and `CancelQueued` are `Cancel`;
`Take` to `Wake` are `Engine.run` and its two transfers, in the order of the code;
`Reclaim`, `Delete`, `Forget` are `reclaim`; `RecoverEnded`, `RecoverWhole`,
`RecoverRequeue` are the branches of `Recover`. The gateway, which `DataCache` models
in full, is an environment here. `obj` is the object at a job's path, where the cache
keeps one whoever put it: it is sent, refused for good (`refused`: it stays unsent),
evicted, deleted, or replaced by the write of another job or client ("foreign"), and
`WaitUntilSent`, which looks at the path only, takes any of these but the refusal for
success once nothing unsent is there. `phase` is the life of the daemon: main does not
wait for the engine to stop, so `Crash` is also the end of `main`. `seen`, `delivered`,
`displaced`, `givenUp`, `unsaved` are history.

Bounded: one failed save and one undone change per job file, one replacement of an
object per attempt. Left out: progress and speed; the additional save of `setPhase`; a
close that upstream acts on after reclaim has looked. A record nobody names after a
crash counts as given up: the code has no way to find it.

`JobContract` is what the engine promises of a job's end: a client that has read
"succeeded" or "failed" finds it on record for ever. A cancellation is promised
less, because the code keeps less: two goroutines may save their copies in the
other order, so a cancelled job may be found open after a restart (`Reopen`); one
cancelled while the full queue refuses it is deleted (`Refuse`), or its file comes back
as cancelled when the Cancel saves its copy after that (`Linger`). Nothing is promised
of a job whose file could not be written or lost a change in a power loss (`Lose`).

### Classification and Requests

`Classification` is a pure function of an `Evidence` (status, shape of the body,
group of phrases): `classify` with its rules in the code's order, and the
predicates `drivesAuth`, `Temporary`, `replaySafe` that the loop acts on.

`Requests` gives each caller a stack of calls: the one it makes, and the probe on
top of it. `lock` is the authenticator's mutex while it is held across calls. A
call goes through `Credentials` or `SessionID`, then upstream, and `Judged` is
`Do`'s verdict: one refresh for a refused token, retries within the budget for
what may be repeated, the probe for what is ambiguous. `RefreshGrant`,
`PasswordGrant`, `Graded`, `Mint` are the renewal ladder, `Save` and `Keep` are
`adopt`, with the store first. `Status` is `/v1/auth/status`, `Begin` also stands
for `handleLogin` and `handleLogout`. Upstream is an environment that issues,
refuses and forgets tickets.

The credential file has no field for `IssuedAt` and `RefreshExpiry`
(`internal/keystore/env.go:341-412`), so `Stored` drops them: after a restart no
token is ever stale for `EnsureFresh`, which is what `main` calls it for, and the
30 days of a refresh token are not looked at, though `oauth2.go:136-138` says
they are. Left out: `InvalidateSessionID`, which has no caller; a second process
(`odctl --direct`) on the same store; login options.

### Uploads and Downloads

`Uploads`: content is a sequence of cells, each its place on the wire, so what
upstream assembles can be compared with what was to be sent. `Create`, `Open`, `ChunkTaken`,
`ChunkRefused`, `ChunkFails`, `ChunkLost`, `Exhausted`, `Close`, `Reclaim` are the
SDK's requests with their answers; `ActLate` is upstream acting on a request its
caller no longer waits for, `Forget` upstream losing its temporary file. That
upstream takes a chunk only at the offset it has reached, and compares size and
hash at the close, is inferred from `serverOffset`, `sendChunkResuming` and
`closeFile`.

`Downloads`: content is a sequence of cells `<<version, position>>`, and each version
has its own length (`LengthOf`), so a file may be replaced by a longer or a shorter one
while it is read; the local file is not truncated (`download.go:174`). `CallFile`,
`CallServer`, `CallHit`, `CallArchive` begin one; `Answer` is upstream's, which may
ignore a Range header; `Skip`, `Copy`, `Break`, `End` are the stream and its
verdict; `Serve` is `CopyTo`'s rename of a complete copy over the local path.
All readers of a file share one local path.

### Paths

`place` is upstream's tree of three levels, `byPath` and `byID` the two maps of the
path cache; any entry may have expired when it is looked up. Three levels are the
fewest at which there is something to check: a write drops what lies below the
parents of its paths, which in a tree of two levels is everything. `Lookup`, `Ask`,
`Keep`, `Create`, `InvalidateIDs`, `Write` are `EnsurePath` for a flush or a job;
`Call` to `InvalidateSubtree` are the folder requests: resolve, change upstream,
drop by id (the SDK), drop by path (the server); `handleMkdir` makes one level after
the other and drops after each. `raced` is history: what was
looked up before a change and stored after it. Left out: `Observe`, reached only by
SDK users of `ListPath`; folders beyond the first page of a listing, which
`resolve` does not see; folders that would come to lie deeper than three levels.

## 3. Runs

| run | checks | instance |
|---|---|---|
| `turns` | `PromiseKept`: what was accepted is in index, file and journal, and would come back after a crash now | 2 clients, 1 worker, 1 path, 3 versions, 2 sizes, 2 crashes, appends that fail or are torn |
| `storm` | `CleanIsUpstream`, `JournalLeads`, `Accounting` with requests overlapping freely | 2 clients, 1 worker, 1 path, 1 crash, a cache that must evict, failing appends, missing hashes, short downloads |
| `pool` | `TypeOK`, `SingleFlight`, `WaiterIsWoken` with deletes and failed commits | 2 clients, 2 workers, 1 path, 2 versions |
| `schedule` | `TypeOK`, `ListingShowsAccepted`, `ShutdownCompletes`, `EverythingIsSent`; uploads may hang | 2 workers, a queue of 1, 2 paths of which one is refused, a temporary failure, 2 writes, a flush and a listing, a stop at any point |
| `jobs` | `TypeOK`, `OrphansAreNamed`, `SucceededIsUpstream`, `WholeFilesAreKept`, `ContractKept` (the refinement of `JobContract`), `JobsEnd`, `StopReturns` | 1 job of any kind, 1 worker, 2 requests, 2 attempts, 3 records, 1 crash, all nine kinds of fault |
| `requests` | `TypeOK`, `AtMostOnce`, `RequestsEnd` | 2 callers, both authenticators, 1 retry, lost, busy, refused and proxied answers, a forgotten session |
| `signin` | `RotatedOnce`, `SessionStopsDead`, `StoreLeads`, `SpentIsExcused` | 2 callers, both authenticators, password kept or not, 3 tickets, 2 events among expiry, changed password and crash |
| `downloads` | `TypeOK`, `EachCellInPlace`, `SuccessIsWhole`, `FreshIsVerified` | 2 readers with 2 calls each, 2 versions of 3 and of 2 cells |
| `uploads` | `TypeOK`, `AssembledInOrder`, `ClosedWhole`, `OrphanTakenBack`, `UploadEnds` | 3 chunks of 2 or 3 cells, 3 faults of 6 kinds |
| `paths` | `TypeOK`, `NothingStaleIsLeft`, `EnsureAgrees`, `FoundByID` | 2 ensurers, 1 user, 4 folders, 14 paths of which 3 are asked for, a cache of 2, 1 fault |

**Bounds.** Every hazard of the cache is about two threads and one path, or one
path and the total: two versions make a rewrite, a third a rewrite of a rewrite;
two crashes make a crash after a recovery; two contents of different size make
what `verifyAgainstDisk` can tell apart. A queue of one overflows with two writes.
`Capacity` and `Batch` are 4096 and 8 in the code; what matters is being below, at
and above them. Jobs share the queue, the worker and, if they have one remote path, the
cached object: one job meets all of its own interleavings, a queue filled by others is
the fault `"full"`, an object others write is `"replace"`. Two
attempts make a retry with the record of another attempt, three records the one
after a crash. Two callers make one that finds the other renewing; with 1 retry a
call has a first, a repeated and a replayed attempt. Three chunks have a first, a
middle and a last; three faults allow a loss, a resumption and another loss. Two
ensurers and one user make every pair of a lookup and a change; a cache of two
entries must evict with the three folders of one path.

**Assumptions of single runs.** `turns` sets `TakeTurns`: requests for one path
do not overlap, and its cache is large enough never to evict. The code ensures
neither (the last table of this section). `turns` also leaves out deletes and commits
that fail after their rename: after either a worker may find no file and `forget` a
newer accepted object (`writeback.go:241`). `requests`
leaves out grants that are refused ambiguously: `requests_wedged` is about them.

**Exceptions in properties.** They are what the code really does. `CleanIsUpstream`
excepts versions in `unchecked`: an upload of other bytes answered without a hash, and
a fill cut short where upstream gave no length. `JournalLeads` is about a journal that can be read
to its end (`~torn`), and `PromiseKept` excepts what is accepted behind a tear, by a
crash or by a failed append, until its upload: a restart does not find it. Of a write
that was accepted in front of a tear it says that later tears do not hurt it.
`OrphansAreNamed` excepts records the engine let go (one it could not check or delete,
one replaced by that of a later attempt, one nobody names at a crash), one whose
`create_file` was not answered, one that an overwrite made for itself, since reclaim
never touches what an overwrite was given, and jobs whose file was not written.
`SucceededIsUpstream` excepts an upload whose object was replaced, deleted or dropped
since it was put, since `WaitUntilSent` waits for the path. `ContractKept` leaves out
the jobs in `unsaved`, and `JobsEnd` a worker that waits for an object upstream has
refused for good: such an object stays unsent (`writeback.go:274`), and the job and its
worker wait until somebody helps. `SpentIsExcused` excepts a refresh token whose
successor nobody could save: the grant's answer was lost, a crash came between the
answer and the save, or upstream revoked the token itself; see
`RotationSurvivesCrash` below. `RotatedOnce` excepts uploads of
chunks, whose 401 does not say which token it means, and `EnsureFresh`.
`SuccessIsWhole` excepts bodies that end early where upstream gave no length, and asks
of downloads that overlap at one path only that nothing is missing: one of them may
leave the end of a longer version behind, see `SuccessIsExact` below. `ClosedWhole` a source declared empty, which is not measured.
`NothingStaleIsLeft` excepts answers in flight during a change, and a change whose
answer is lost or whose second request fails, since nothing is invalidated then. It
is checked, and proved, for folder writes that do not overlap. With two users TLC
refutes it: a remove looks its folder up, another request moves that folder, an
ensurer caches a path below its new place, and the remove drops what was at the old
one (`paths` with `Users = {u1, u2}`, `Ensurers = {e1}`, `Ops = {"move", "remove"}`,
`MaxEntries = 1`, `MaxCalls = 2`, `Goals` of `<<x, y, x>>` and `<<y, x>>`, `Asked` of
`<<x, y, x>>` and `<<y>>`).

**Fairness.** `pool`: a worker in a flush goes on. Its steps are a goroutine's
own, and an upload returns because its context can be cancelled. `schedule`:
workers and Drain go on, but an upload may never return; Close's cancellation is
what ends it. A worker in its select takes something, whichever branch Go picks.
`EverythingIsSent` alone assumes more, in its statement (`AnswersCome`): upstream
answers every upload in the end; temporary failures are bounded. `jobs`: threads
go on, since each call has a timeout or a context, the gateway sends what it holds
unless upstream has refused it for good (no fairness is assumed for such an object),
and a daemon that is down is restarted. `requests`: a caller that can take a step
does; HTTP calls have timeouts. `uploads`: the same of its one caller.

Deadlock is not checked: with all versions used, everything sent, all calls made or
the daemon stopped, nothing is left to do.

### What the code says and does not keep

Two runs check one statement of the repository each and find it violated; the
quotations are in `PROJECT.json`.

| run | statement | what happens |
|---|---|---|
| `overwrite_crash` | a crash costs the in-flight bytes and nothing else | a rewrite replaces the accepted content before its own record is durable |
| `requests_wedged` | a Client is safe for concurrent use | the probe for an ambiguously refused grant waits for the mutex that is held across the grant |

The others keep their definitions at the end of their modules, each with the words
it takes from the code. TLC refutes each with the configuration named, its
properties replaced by this one and without fairness.

| property | configuration | what happens |
|---|---|---|
| `OnlyCleanIsDiscarded` (`datacache.go:33`) | `cache_storm`, `Ops = {"put"}`, `Faults = {}`, no symmetry | an eviction chosen before a rewrite drops the rewrite; Refresh and Clear do the same |
| `AcceptedIsKept`, torn journal (`journal.go:53`) | `cache_overwrite_crash`, `Bodies = {a}`, `SizeOf <- SameSize`, and `Faults = {"crash", "io"}`, or `{"crash", "torn"}` with `MaxCrashes = 2` | the journal is continued behind a record cut short, by an append that failed (`journal.go:155`) or by a crash after which it was too short to be compacted, and later records are never read |
| `CleanIsConfirmed` (`writeback.go:282`) | `cache_storm`, `Faults = {"upstream", "unhashed", "corrupt"}` | an upload answered without a hash is marked clean unchecked |
| `RestartAgrees` (`writeback.go:331`) | `cache_storm`, `Faults = {"crash", "io", "upstream"}` | behind a record that a failed append cut short, a later "clean" is not read at replay, while the index says clean |
| `AcceptedIsKept`, fill race (`store.go:517`) | `cache_overwrite_crash`, 2 clients, `Ops = {"put", "fill"}`, `Faults = {"upstream"}`, `TakeTurns = FALSE` | a late fill replaces an accepted object by a clean one |
| `NoUploadOutlivesDelete` (`writeback.go:484`) | `cache_pool` | a worker claims between Remove's check and its forget |
| `TemporaryIsRetried` (`writeback.go:153`) | `flush_schedule`, `Batch = 1` | refused objects fill every sweep |
| `QuietExitIsSafe` (`writeback.go:581`) | `flush_schedule` | Drain says nothing is waiting while all that is unsent is being uploaded |
| `ListingIsCurrent` (`store.go:745`) | `flush_schedule` | upstream is listed before the cache is read; what is sent in between is in neither |
| `ExitsDrained` (`main.go:224`) | `flush_schedule` | a request that outlasts 20 s makes `main` return without Drain and Close (`server.go:286`) |
| `NoArtefact` (`job.go:14`) | `jobs`, `Faults = {"fail"}` | a record that was replaced by a later attempt's, was never heard of, or was made by an overwrite stays; so does one that cannot be checked |
| `NoAttemptAfterCancel` (`engine.go:269`) | `jobs`, `Faults = {"fail"}` | a Cancel between a transfer's temporary failure and its verdict has no effect |
| `SucceededIsSent` (`cache.go:37`) | `jobs`, `Faults = {"replace"}` or `{"remove"}` | the object a job waits for is replaced, or gone from its path, and the wait ends with success though the job's bytes were not sent |
| `AcknowledgedIsDurable` (`engine.go:683`) | `jobs`, `Faults = {"power"}` | no fsync of the directory follows the rename of a job file (`store.go:126`) |
| `StopsDead` (`oauth2.go:22`) | `signin` | `Credentials` opens a gate that was shut for good when the token is not yet due (`oauth2.go:107`) |
| `RotationSurvivesCrash` (`oauth2.go:389`) | `signin`, `Faults = {"age", "crash"}` | a crash after a refresh grant was answered and before the save leaves a refresh token on disk that upstream has invalidated |
| `SuccessIsExact` (`download.go:184`) | `downloads` | the file is replaced by a shorter one; of two downloads to one path the later leaves the end of the longer version |
| `NoSilentCorruption` (`download.go:67`) | `downloads` | a resumed file is not verified and may mix two versions |
| `NoTruncatedAnswer` (`transfers.go:251`) | `downloads` | after the first buffer a failure ends a 200 early |
| `CacheIsCurrent` (`paths.go:229`) | `paths` | an answer asked for before a change is stored after it |

Met while modelling, with no property: two commits to one path can leave the hash
of one with the content of the other (`object.go:49`); writers that start together
pass MaxDirtyBytes together (`datacache.go:71`); a rewrite between the end of an
upload and its release is turned away (`writeback.go:225`); a refused object is sent
again at every sweep (`writeback.go:274`), and `flush --wait` on one never returns;
a retry budget of 1 means no retry, against "worth one more attempt" (`maxAttempts`);
a queue that is full during Recover leaves the rest of the jobs marked queued with
nobody to take them; a failed save of credentials is found out by reading the file
back, and an older file that is still readable hides it (`server/auth.go:72-86`);
`SessionAuth.Logout` deletes the store after it has unlocked and can erase a login
made meanwhile; renames, moves and copies do not reach the data cache, which goes on
serving and sending the old path.

## 4. Proofs

Every theorem is for all values of the constants that satisfy the assumptions its
module names: sizes and bounds are naturals, null values are fresh, threads of
different kinds are different, `Ops`, `Faults` and `Kinds` hold known names. So
they are for any number of threads, paths, jobs, chunks and crashes, and, unless a
theorem says otherwise, for all faults together, where a run takes some.

Nearly all have the same form. The property is not inductive, because between the
step that sees the evidence and the step that acts on it others move. The inductive
invariant says, of each place a thread can be in, what it may rely on there. There
is a lemma for each action, a few lemmas for the steps many actions share ("only
this thread moves, and what the others rely on is left alone"), and a temporal step
at the end. TLC has checked each invariant before its proof.

| module | inductive invariant | theorems |
|---|---|---|
| `DataCacheProofs` | `CleanInvariant` | `TypesHold`, `CleanMeansUpstream`, `OneUploadPerPath` |
| | `Leading` | `JournalIsAhead` |
| | `Keeping` | `AcceptedIsSafe` (under `OneAtATime`, within the high watermark) |
| | `Counted` | `CountersAreTrue` (finitely many paths) |
| `FlushScheduleProofs` | `Schedule` | `TypesHold`, `AcceptedIsListed` |
| `JobContractProofs` | `ToldIsOnRecord` | `WhatIsToldIsOnRecord`, `WhatIsToldIsFinal` |
| `JobEngineProofs` | `Control` | `TypesHold`, `ContractIsKept` (the refinement) |
| | `Ledger`, on `Control` | `OrphansNamed`, `WholeFilesKept`, `SuccessIsUpstream` |
| `RequestsProofs` | `Sound` | `TypesHold`, `OnlyOnce`, `OneRotation`, `SessionStops`, `StoreIsLed` |
| `UploadsProofs` | `Assembly` | `TypesHold`, `InOrder`, `WholeWhenClosed`, `OrphanGoes` |
| `DownloadsProofs` | `Placed` | `TypesHold`, `CellsInPlace`, `SuccessWhole`, `FreshVerified` |
| `PathsProofs` | `Inv` | `TypesHold`, `IDsFindTheirEntries`, `EnsuredIsNamed`, `OneWriterLeavesNothingStale` (under `OneUser`) |

**The cache.** "Clean" is written several steps after the evidence was seen, when
the hash agreed, or was missing, or the download was read. In `CleanInvariant`, `Backed` says what
each thread has seen, `Issued` that every version in use was given out, so that
`Seal`, which gives a version its content, changes that of none, `WellFormed` ties a
thread's fields to its label, and `UpIsHeld` covers what a download reads. Given
that, `SingleFlight` is inductive: only `Claim`, `End` and `Crash` change who holds a
path.

`JournalLeads` is about two writes, the journal's and the index's, and about who can
come between them for the same version. `Leading` says nobody: a version that is
being committed is nobody else's (`NewVersion`), and what a worker has claimed stays
unsent while it sends it (`StillUnsent`); between the two halves the journal has the
change, unless it has moved on to another version or is torn. A torn record hides the
change from a restart, so the property speaks of a journal that is not; the theorem has
no hypothesis about faults.

`AcceptedIsSafe` is `PromiseKept`, the cache's purpose. It has the hypotheses of the
run `turns`, now for any number of clients, workers, paths, versions and crashes:
requests for one path take turns, nobody deletes, no commit fails past its rename
(`OneAtATime`), and `bytes` stays within `High`. Each is needed: without it TLC finds
an accepted write that is lost (section 3). Appends may fail and records be torn: what
was accepted while the journal could be read stays readable, since all that is lost
lies behind the tear. Two arguments meet
in `Keeping`. A path is in the hands of one client at a time (`Turns`), so what a
commit has renamed, synced and appended is still so when it moves the index
(`ClientCalm`). And a worker finds what it holds unsent, its file there, so it never
discards it, and calls clean only what is no longer owed (`WorkerCalm`). The crash
keeps what was synced, and recovery takes it because its size is that of the version
on record, whose content is known (`Given`).

`CountersAreTrue` is `Accounting`: `bytes` and `dirty`, which the code moves by
differences in commits, forgets and state changes and computes afresh in recovery, are the sums over the
index that admission and eviction take them for, under all interleavings and faults.
`Counted` is `Accounting` with both counters as sums over all paths, an entry that
has been sent counting nothing towards `dirty`, so that it is inductive beside
`CleanInvariant` and `Given`. The work is in what a sum is: `MapThenSumSet` is a
recursion over subsets that takes their elements in an unknown order. `UnfoldExists`
builds the recursive function one size of subset after another, `Unfolded` shows that
any element may be taken first, and from these follow `SumMoves` (one weight changes)
and `SumOfSome` (what weighs nothing may be left out). `Paths` is finite, or there is
no sum. Where a version is given its content is the one step that could change the
size of an object without touching a counter; nothing has that version yet (`Issued`).

**The schedule.** A listing shows what was unsent when it was asked for because each
such file is unsent still, or upstream had it in time for its answer, or was sent
since. `Schedule` also says that no two unsent files have the same age: a sweep
takes the oldest ones, and that a set can be put in that order at all is an induction
over its size, made as a search for the least size at which it fails.

**The engine.** A client reads the end of a job in memory, and a restart reads the
file; several goroutines hold copies to be written. `Control` says who has which
job, that a job is with one worker, one submission or once on the queue, and of each
place a worker or request is in which states of memory, file and copy go together. A
submission the queue refuses may meet a Cancel that holds a copy of the job: `Control`
says what may be left of it in memory and on disk until that copy is saved.
Each step is then a step of the contract or leaves it alone; `JobContractProofs` says
what the contract comes to: the end a client was told is the one on record, and it
is never told another. `Ledger` adds whose each of upstream's records is and who may
still write, reclaim or remember it, and of a job that was told of success that its
bytes were sent or its object displaced. The exceptions of section 3 are in the
statements, and nothing else is.

**Requests and sessions.** The mutex is held across requests, by a caller or by a
probe on top of it. `Sound` says where the holder can be and what memory, store and
gate hold meanwhile: a session that is renewed has been dropped first; a token that
is given up was refused, so of two callers who meet one expiry the second sees the
first one's exchange; the store has what memory is about to adopt; a refused
password is being graded, replaced, or has shut the gate.

**Transfers.** `Assembly` says of what upstream holds, of the request being sent and
of every request that may still be acted on that it is the piece of the wire at its
offset; so the order in which upstream acts on them is immaterial. `Placed` ties
where a download started, what it has written and how far the body has come to the
file both readers may have open.

**Folder paths.** Two facts about trees carry `PathsProofs`, for any number of folders
and names: no two paths name one folder (`OnePath`); a folder that is made takes no
path away (`KeptByMaking`), and one that is renamed, moved or removed takes along what
lies below its path and nothing else (`KeptElsewhere`). `Inv` says of an entry that
nobody is about to drop that it names the folder that is there (`Entries`), of an
ensurer that no write has overtaken that it creates in the folder above and stores the
folder itself (`Knows`), and of a folder write that it changes the folder its path
still names (`Aimed`). So a write makes wrong only entries below its own path, and
these are among those `invalidateSubtree` drops. `Aimed`, and with it the theorem
about stale entries, holds for one folder write at a time, the hypothesis `OneUser`;
section 3 has the counterexample for two. The number of levels is `Depth`, three: the
induction over a path is made step by step.

**Only model-checked:** all liveness (`WaiterIsWoken`, `EverythingIsSent`,
`ShutdownCompletes`, `JobsEnd`, `StopReturns`, `RequestsEnd`, `UploadEnds`), which with
ENABLED and fairness is out of the prover's reach, and `SpentIsExcused`. Every other
property of a passing run is stated by a theorem, some of them under the hypotheses of the table above.

## 5. Plan

Models to come: an abstract `AcceptedWrites` that `DataCache` implements when
requests take turns; the journal's records as a sequence, shown to implement
`jnl`; the shutdown of engine and cache in one module.

**Not modelled, and why:** request building and decoding in the SDK (file metadata,
sharing, users), routing, middleware and error mapping in the server, redaction,
flags and logging: they keep no state that more than one actor changes. File-level
renames, moves and copies: one request each, and neither cache is told. Encryption
and parsing in the keystore: pure functions of one file. `odctl`, the web page,
scripts and deployment files.
