------------------------------- MODULE Paths -------------------------------
(***************************************************************************)
(* Folder paths: the path cache (internal/cache), EnsurePath's mkdir -p    *)
(* for a flush or a job, and the folder writes of the REST server, which   *)
(* change the tree upstream and then drop what the cache held of it.       *)
(*                                                                         *)
(* A path is a sequence of one to three names; the root is the empty one.  *)
(* Three levels are the fewest at which a write leaves anything cached: it *)
(* drops what is below the parents of the paths it is about.  A step is one*)
(* request upstream, or one call into the cache.                           *)
(***************************************************************************)
EXTENDS Integers, SequencesExt

CONSTANTS
    Names,
    Folders,        \* folder ids upstream may hand out, 1 .. n; the root is 0
    Ensurers,       \* flush workers and job workers
    Goals,          \* the paths they ask for
    Users,          \* API requests
    Asked,          \* the paths those are about
    Ops,            \* what those do, see AssumeOps
    MaxEntries,     \* WithMaxEntries
    MaxCalls,       \* bound on the calls of each ensurer and of each user
    MaxFaults,      \* bound on failing requests
    Faults          \* "fail": a request fails upstream; "lost": its answer is lost

ASSUME AssumeFolders == Folders \subseteq Nat \ {0}
ASSUME AssumeOps     == Ops \subseteq {"mkdir", "rename", "move", "copy", "remove"}
ASSUME AssumeBounds  == {MaxEntries, MaxCalls} \subseteq Nat \ {0} /\ MaxFaults \in Nat
ASSUME AssumeFaults  == Faults \subseteq {"fail", "lost"} /\ Users \cap Ensurers = {}

VARIABLES
    place,          \* upstream: <<parent, name>> of each folder, or Trash, or Unmade
    byPath, byID,   \* PathCache
    th,             \* the callers
    faults,
    raced           \* history: cached paths that were looked up before a change, or
                    \* that no caller could drop after it

vars      == <<place, byPath, byID, th, faults, raced>>
cacheVars == <<byPath, byID, raced>>

Threads == Ensurers \cup Users
Root    == 0
None    == -1
Trash   == <<-2, "trash">>
Unmade  == <<-3, "unmade">>
Depth   == 3
Paths   == UNION {[1 .. i -> Names] : i \in 1 .. Depth}

ASSUME AssumeGoals == Goals \cup Asked \subseteq Paths

\* The folder a path names, if any, when the folders are placed so.
Child(at, f, n) ==
    IF \E g \in Folders : at[g] = <<f, n>>
    THEN CHOOSE g \in Folders : at[g] = <<f, n>> ELSE None
Descend(at, f, p, i) == IF f = None \/ Len(p) < i THEN f ELSE Child(at, f, p[i])
IdIn(at, p) == Descend(at, Descend(at, Descend(at, Root, p, 1), p, 2), p, 3)
IdAt(p)     == IdIn(place, p)

\* Upstream's next folder id.
NextId      == {f \in Folders : place[f] = Unmade /\ \A g \in Folders : place[g] = Unmade => f <= g}
LiveIn(at, f) == f = Root \/ \E p \in Paths : IdIn(at, p) = f
Live(f)     == LiveIn(place, f)
Parent(p)   == SubSeq(p, 1, Len(p) - 1)
Cached      == {p \in Paths : byPath[p] # None}

Idle == [pc |-> "idle", op |-> "ensure", goal |-> <<>>, lvl |-> 0, id |-> Root, to |-> Root,
         got |-> None, again |-> FALSE, fresh |-> TRUE, dst |-> <<>>, out |-> "none", calls |-> 0]

At(t, label)   == th[t].pc = label
Set(t, r)      == th' = [th EXCEPT ![t] = r]
Goto(t, label) == Set(t, [th[t] EXCEPT !.pc = label])
\* Of a call that is over its goal and its answer are kept.
Over(t, out)   == [Idle EXCEPT !.calls = th[t].calls, !.goal = th[t].goal, !.out = out,
                               !.got = IF t \in Ensurers THEN th[t].id ELSE None]
Ends(t, out)   == Set(t, Over(t, out))
\* Upstream has done the write, and the cache is yet to hear of it.
Changing       == {u \in Users : th[u].pc \in {"byid", "purge", "subtree"}}
Wrong(kind)    == kind \in Faults /\ faults < MaxFaults /\ faults' = faults + 1

Folder == Folders \cup {Root}
Places == (Folder \X Names) \cup {Trash, Unmade}
Labels == {"idle", "lookup", "ask", "store", "write", "create", "byid", "parent",
           "src", "dst", "change", "purge", "subtree"}
Thread == [pc : Labels, op : Ops \cup {"ensure"}, goal : Paths \cup {<<>>}, lvl : 0 .. Depth,
           id : Folder \cup {None}, to : Folder \cup {None}, got : Folder \cup {None},
           again : BOOLEAN, fresh : BOOLEAN, dst : Seq(Names),
           out : {"none", "ok", "error"}, calls : 0 .. MaxCalls]

\* The types, and the cache's bound.
TypeOK ==
    /\ place \in [Folders -> Places]
    /\ byPath \in [Paths -> Folders \cup {None}] /\ byID \in [Folders -> Paths \cup {<<>>}]
    /\ Cardinality(Cached) <= MaxEntries /\ raced \subseteq Cached
    /\ th \in [Threads -> Thread] /\ faults \in 0 .. MaxFaults

-----------------------------------------------------------------------------
(* The cache.  dropPathLocked forgets an id only while it leads to the path. *)

Drop(S) ==
    /\ byPath' = [p \in Paths |-> IF p \in S THEN None ELSE byPath[p]]
    /\ byID' = [f \in Folders |->
                   IF byID[f] \in S /\ byPath[byID[f]] = f THEN <<>> ELSE byID[f]]
    /\ raced' = raced \ S

\* dropSubtreeLocked; below the root is everything.
Subtree(p) == {q \in Paths : IsPrefix(p, q)}

\* InvalidateID finds what to drop by the folder's own entry.
Below(f) == IF f = Root \/ byID[f] = <<>> THEN {} ELSE Subtree(byID[f])

\* Mutant: the cache is as large as it gets.
NoEviction(p) == {{}}
\* evictLocked: the least recently used go, never the one just stored; which of the
\* others that is, is left open.
Evictions(p) ==
    {gone \in SUBSET (Cached \ {p}) :
        Cardinality(gone) = IF Cardinality(Cached \cup {p}) > MaxEntries
                            THEN Cardinality(Cached \cup {p}) - MaxEntries ELSE 0}

\* Mutant: the id is not recorded.
Unfound(p, f, gone) == byID
\* The id leads to the path stored last.
Named(p, f, gone) ==
    [[g \in Folders |-> IF byID[g] \in gone /\ byPath[byID[g]] = g THEN <<>> ELSE byID[g]]
     EXCEPT ![f] = p]

Store(p, f, late) ==
    \E gone \in Evictions(p) :
        /\ byPath' = [q \in Paths |-> IF q = p THEN f ELSE IF q \in gone THEN None ELSE byPath[q]]
        /\ byID' = Named(p, f, gone)
        /\ raced' = (raced \ (gone \cup {p})) \cup (IF late THEN {p} ELSE {})

-----------------------------------------------------------------------------
(* EnsurePath: down to a folder that is there, then up again creating.       *)

Here(t) == SubSeq(th[t].goal, 1, th[t].lvl)

\* The folder of this level is known: the path is done, or its child is next.
Found(t, f, fresh) ==
    Set(t, IF Here(t) = th[t].goal
           THEN [th[t] EXCEPT !.pc = "write", !.id = f, !.fresh = fresh]
           ELSE [th[t] EXCEPT !.pc = "create", !.id = f, !.fresh = fresh, !.lvl = @ + 1, !.again = FALSE])

Ensure(e, goal) ==
    /\ At(e, "idle") /\ th[e].calls < MaxCalls
    /\ Set(e, [Idle EXCEPT !.pc = "lookup", !.goal = goal, !.lvl = Len(goal), !.calls = th[e].calls + 1])
    /\ UNCHANGED <<place, cacheVars, faults>>

\* ResolvePath: the root needs no request, a hit none either; an entry may expire.
Lookup(e) ==
    /\ At(e, "lookup")
    /\ \/ th[e].lvl = 0 /\ Found(e, Root, TRUE) /\ UNCHANGED cacheVars
       \/ /\ th[e].lvl > 0 /\ Here(e) \in Cached /\ UNCHANGED cacheVars
          /\ Found(e, byPath[Here(e)], Here(e) \notin raced /\ Changing = {})
       \/ th[e].lvl > 0 /\ Goto(e, "ask") /\ Drop({Here(e)} \cap Cached)
    /\ UNCHANGED <<place, faults>>

Ask(e) ==
    LET f == IdAt(Here(e)) IN
    /\ At(e, "ask")
    /\ \/ f # None /\ Set(e, [th[e] EXCEPT !.pc = "store", !.got = f, !.fresh = TRUE]) /\ UNCHANGED faults
       \/ f = None /\ ~th[e].again /\ UNCHANGED faults
          /\ Set(e, [th[e] EXCEPT !.pc = "lookup", !.lvl = @ - 1])
       \/ f = None /\ th[e].again /\ Ends(e, "error") /\ UNCHANGED faults
       \/ Wrong("fail") /\ Ends(e, "error")
    /\ UNCHANGED <<place, cacheVars>>

Keep(e) ==
    /\ At(e, "store")
    /\ Store(Here(e), th[e].got, ~th[e].fresh)
    /\ Found(e, th[e].got, th[e].fresh)
    /\ UNCHANGED <<place, faults>>

\* The flush or the job creates its file there: createFile.
Write(e) ==
    /\ At(e, "write")
    /\ Ends(e, "ok")
    /\ Drop(Below(th[e].id))
    /\ UNCHANGED <<place, faults>>

\* Mutant: a create that failed is final.
NotCreatedFinal(t) == Ends(t, "error")
\* A create that failed is followed by one more lookup in EnsurePath, by none in mkdir.
NotCreated(t) ==
    IF t \in Ensurers THEN Set(t, [th[t] EXCEPT !.pc = "lookup", !.again = TRUE]) ELSE Ends(t, "error")

Makes(t, f)   == place' = [place EXCEPT ![f] = <<th[t].id, th[t].goal[th[t].lvl]>>]
MayMake(t)    == Live(th[t].id) /\ Child(place, th[t].id, th[t].goal[th[t].lvl]) = None
Create(t) ==
    /\ At(t, "create")
    /\ \/ /\ MayMake(t) /\ UNCHANGED faults
          /\ \E f \in NextId :
                Makes(t, f) /\ Set(t, [th[t] EXCEPT !.pc = "byid", !.got = f])
       \/ ~MayMake(t) /\ NotCreated(t) /\ UNCHANGED <<place, faults>>
       \/ Wrong("fail") /\ NotCreated(t) /\ UNCHANGED place
       \/ Wrong("lost") /\ MayMake(t) /\ NotCreated(t) /\ \E f \in NextId : Makes(t, f)
    /\ UNCHANGED cacheVars

-----------------------------------------------------------------------------
(* The server's writes: the ids are looked up without the cache.             *)

Makeable(u, p) == Set(u, [Idle EXCEPT !.pc = "parent", !.op = "mkdir", !.goal = p, !.lvl = Len(p),
                                      !.calls = th[u].calls + 1])
Request(u, op, p) ==
    [Idle EXCEPT !.pc = "src", !.op = op, !.goal = p, !.calls = th[u].calls + 1]

\* A new name beside the old one.
Renaming(u, p) == \E n \in Names : Set(u, [Request(u, "rename", p) EXCEPT !.dst = Append(Parent(p), n)])
Moving(u, op, p) == \E q \in Asked : Set(u, [Request(u, op, p) EXCEPT !.dst = q])

Call(u) ==
    /\ At(u, "idle") /\ th[u].calls < MaxCalls
    /\ \E op \in Ops, p \in Asked :
          \/ op = "mkdir" /\ Makeable(u, p)
          \/ op = "remove" /\ Set(u, Request(u, op, p))
          \/ op = "rename" /\ Renaming(u, p)
          \/ op \in {"move", "copy"} /\ Moving(u, op, p)
    /\ UNCHANGED <<place, cacheVars, faults>>

\* mkdir: a missing parent is made first, and looked up again.
FindParent(u) ==
    LET f == IdAt(Parent(Here(u))) IN
    /\ At(u, "parent")
    /\ IF f # None THEN Set(u, [th[u] EXCEPT !.pc = "create", !.id = f])
       ELSE \/ Set(u, [th[u] EXCEPT !.lvl = @ - 1]) /\ ~th[u].again
            \/ Ends(u, "error")
    /\ UNCHANGED <<place, cacheVars, faults>>

\* resolve, of what is renamed, moved or removed.
FindSource(u) ==
    LET f == IdAt(th[u].goal) IN
    /\ At(u, "src")
    /\ IF f = None THEN Ends(u, "error")
       ELSE Set(u, [th[u] EXCEPT !.id = f, !.pc = IF th[u].op \in {"move", "copy"} THEN "dst" ELSE "change"])
    /\ UNCHANGED <<place, cacheVars, faults>>

\* destination: an existing folder is moved into, any other path names the result.
FindTarget(u) ==
    LET q == th[u].dst
        r == th[u]
    IN
    /\ At(u, "dst")
    /\ IF IdAt(q) # None
       THEN Set(u, [r EXCEPT !.to = IdAt(q), !.dst = Append(q, Last(r.goal)), !.pc = "change"])
       ELSE IF IdAt(Parent(q)) = None THEN Ends(u, "error")
       ELSE Set(u, [r EXCEPT !.to = IdAt(Parent(q)), !.pc = "change"])
    /\ UNCHANGED <<place, cacheVars, faults>>

\* What upstream makes of each request, if it can do it: names are unique, a folder
\* cannot be put inside itself, and here not deeper than Depth.
Trashed(r) == {[place EXCEPT ![r.id] = Trash]}

Renamed(r) ==
    LET parent == place[r.id][1] IN
    IF Child(place, parent, Last(r.dst)) # None THEN {}
    ELSE {[place EXCEPT ![r.id] = <<parent, Last(r.dst)>>]}

\* What is put there has a path, and so has all that had one.
Fits(at) == \A f \in Folders : Live(f) \/ at[f] # place[f] => LiveIn(at, f)

Moved(r) ==
    {at \in {[place EXCEPT ![f] = <<r.to, Last(r.dst)>>] : f \in IF r.op = "move" THEN {r.id} ELSE NextId} :
        Child(place, r.to, Last(r.dst)) = None /\ Fits(at)}

Placed(u) ==
    CASE th[u].op = "remove" -> Trashed(th[u])
      [] th[u].op = "rename" -> Renamed(th[u])
      [] OTHER               -> Moved(th[u])

\* An answer to be stored is older than the change.
Stale(except) == [t \in Threads |-> IF t = except THEN th[t] ELSE [th[t] EXCEPT !.fresh = FALSE]]

\* After a lost answer nobody invalidates anything.
Change(u) ==
    LET able == Live(th[u].id) /\ Placed(u) # {} IN
    /\ At(u, "change")
    /\ \/ /\ able /\ place' \in Placed(u) /\ UNCHANGED <<faults, raced>>
          /\ th' = [Stale(u) EXCEPT ![u].pc = "byid"]
       \/ /\ able /\ place' \in Placed(u) /\ Wrong("lost") /\ raced' = Cached
          /\ th' = [Stale(u) EXCEPT ![u] = Over(u, "error")]
       \/ ~able /\ Ends(u, "error") /\ UNCHANGED <<place, faults, raced>>
       \/ able /\ Wrong("fail") /\ Ends(u, "error") /\ UNCHANGED <<place, raced>>
    /\ UNCHANGED <<byPath, byID>>

\* FolderService.invalidate, one id after the other: a created folder's parent, a
\* moved one's own and its new parent's.
InvalidateIDs(t) ==
    LET r == th[t] IN
    /\ At(t, "byid")
    /\ Drop(Below(r.id) \cup (IF r.op \in {"move", "copy"} THEN Below(r.to) ELSE {}))
    /\ Goto(t, IF t \in Ensurers THEN "store" ELSE IF r.op = "remove" THEN "purge" ELSE "subtree")
    /\ UNCHANGED <<place, faults>>

\* handleRemove with "permanent": the second request may fail, and ends the first too.
Purge(u) ==
    /\ At(u, "purge")
    /\ \/ Goto(u, "subtree") /\ UNCHANGED <<faults, raced>>
       \/ Wrong("fail") /\ Ends(u, "error") /\ raced' = Cached
    /\ UNCHANGED <<place, byPath, byID>>

\* Mutant: the SDK has dropped what the change was about.
SubtreesOf(r) == {}
\* invalidateSubtree, of the paths of the request: each, and what is below its parent.
Touched(r) ==
    LET p == IF r.op = "mkdir" THEN SubSeq(r.goal, 1, r.lvl) ELSE r.goal
        S == {p} \cup IF r.op \in {"move", "copy"} THEN {r.dst, Parent(r.dst)} ELSE {Parent(p)}
    IN  UNION {Subtree(q) \cup Subtree(Parent(q)) : q \in S}

InvalidateSubtree(u) ==
    /\ At(u, "subtree")
    /\ Drop(Touched(th[u]))
    /\ IF th[u].op = "mkdir" /\ th[u].lvl < Len(th[u].goal)
       THEN Set(u, [th[u] EXCEPT !.pc = "parent", !.lvl = @ + 1, !.again = TRUE]) ELSE Ends(u, "ok")
    /\ UNCHANGED <<place, faults>>

Init ==
    /\ place = [f \in Folders |-> Unmade]
    /\ byPath = [p \in Paths |-> None] /\ byID = [f \in Folders |-> <<>>]
    /\ th = [t \in Threads |-> Idle]
    /\ faults = 0 /\ raced = {}

EnsureStep(e) ==
    Lookup(e) \/ Ask(e) \/ Keep(e) \/ Write(e)
UserStep(u) ==
    FindParent(u) \/ FindSource(u) \/ FindTarget(u) \/ Change(u) \/ Purge(u) \/ InvalidateSubtree(u)

Next ==
    \/ \E e \in Ensurers : EnsureStep(e) \/ \E goal \in Goals : Ensure(e, goal)
    \/ \E u \in Users : UserStep(u) \/ Call(u)
    \/ \E t \in Threads : Create(t) \/ InvalidateIDs(t)

Spec == Init /\ [][Next]_vars

-----------------------------------------------------------------------------
(* Correctness.                                                             *)

\* Between writes, none of which overlaps another, the cache says nothing that is not so,
\* except what was looked up before a write and stored after it, and after a write that
\* ended half-way (invalidateSubtree; InvalidateID alone misses what lies below an
\* evicted entry).
NothingStaleIsLeft ==
    Changing = {} => \A p \in Cached \ raced : IdAt(p) = byPath[p]

\* While nobody else writes, EnsurePath ends with the folder its path names, also
\* when two make it at once or the answer of a create is lost; it fails only when
\* a request has (EnsurePath).
EnsureAgrees ==
    (\A u \in Users : th[u].calls = 0) =>
        \A e \in Ensurers :
            /\ th[e].out = "ok" => th[e].got = IdAt(th[e].goal)
            /\ th[e].out = "error" => faults > 0

\* What InvalidateID goes by: while no folder changes its path, every entry is found by
\* its id, through expiry, eviction and two callers storing it (dropPathLocked).
FoundByID ==
    (\A u \in Users : th[u].calls = 0) => \A p \in Cached : byID[byPath[p]] = p

\* paths.go:229: "Every write calls it. [...] a stale cache entry would outlive the
\* change that invalidated it".
CacheIsCurrent == Changing = {} => \A p \in Cached : IdAt(p) = byPath[p]
=============================================================================
