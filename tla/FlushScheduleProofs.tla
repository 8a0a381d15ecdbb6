------------------------- MODULE FlushScheduleProofs -------------------------
(***************************************************************************)
(* Proofs about FlushSchedule, for every pool of workers, queue and sweep   *)
(* size: the types, and that a listing shows what was accepted before it    *)
(* was asked for.                                                           *)
(*                                                                         *)
(* The inductive invariant is Schedule.  Its types need that a set of       *)
(* unsent objects can be put in order of age at all: that is an induction   *)
(* over the size of the set, made here as a search for the least size at    *)
(* which it fails.                                                          *)
(***************************************************************************)
EXTENDS FlushSchedule, FiniteSetTheorems, WellFoundedInduction, TLAPS

USE PoolIsSized, LoadIsBounded, AsksAreBounded

-----------------------------------------------------------------------------
(* The invariant.                                                           *)

\* The clock is ahead of every object, and no two unsent ones are of the same age.
AgesOK ==
    /\ \A p \in Paths : stored[p] <= writes
    /\ \A p, q \in unsent : stored[p] = stored[q] => p = q

\* What was unsent when the listing was asked for is unsent, or upstream has it in
\* time for its answer, or it was sent since.
ListOK ==
    /\ list.pc = "asked" => list.owed \subseteq there \cup unsent
    /\ list.pc = "merge" => list.owed \ list.sent \subseteq list.shown \cup unsent

\* The journal is closed after the last worker has returned.
StoppedOK == drain = "closed" => closed /\ \A w \in Workers : worker[w].pc = "gone"

Schedule == TypeOK /\ AgesOK /\ ListOK /\ StoppedOK

-----------------------------------------------------------------------------
(* A set of objects can be put in order of age.                             *)

LEMMA LeastNatural == ASSUME NEW T, T \subseteq Nat, T # {} PROVE \E x \in T : \A y \in T : x <= y
<1> DEFINE R == {z \in Nat \X Nat : z[1] < z[2]}
<1>1. IsWellFoundedOn(R, Nat)
  BY NatLessThanWellFounded DEF OpToRel
<1>2. PICK x \in T : \A y \in T : ~ (<<y, x>> \in R)
  <2> HIDE DEF R
  <2> QED BY <1>1, WFMin
<1>3. ASSUME NEW y \in T PROVE x <= y
  <2>1. x \in Nat /\ y \in Nat
    OBVIOUS
  <2>2. ~(y < x)
    BY <1>2, <2>1
  <2> QED BY <2>1, <2>2
<1> QED BY <1>3

LEMMA Youngest ==
    ASSUME stored \in [Paths -> 0 .. MaxWrites], NEW T, T \subseteq Paths, T # {}
    PROVE  \E p \in T : \A q \in T : stored[q] <= stored[p]
<1> DEFINE U == {MaxWrites - stored[q] : q \in T}
<1>1. \A q \in T : stored[q] \in 0 .. MaxWrites
  OBVIOUS
<1>2. U \subseteq Nat /\ U # {}
  BY <1>1
<1>3. PICK x \in U : \A y \in U : x <= y
  <2> HIDE DEF U
  <2> QED BY <1>2, LeastNatural
<1>4. PICK p \in T : x = MaxWrites - stored[p]
  BY <1>3
<1>5. ASSUME NEW q \in T PROVE stored[q] <= stored[p]
  <2>1. x <= MaxWrites - stored[q]
    BY <1>3
  <2> QED BY <1>1, <1>4, <2>1
<1> QED BY <1>5

\* The first n natural numbers name the members of T in order of age.
Ordered(s, n, T) == s \in [1 .. n -> T] /\ \A i, j \in 1 .. n : i < j => stored[s[i]] < stored[s[j]]

\* A longer order, from that of all but the youngest.
LEMMA OrderedMore ==
    ASSUME stored \in [Paths -> 0 .. MaxWrites], NEW n \in Nat, NEW T, T \subseteq Paths,
           \A p, q \in T : stored[p] = stored[q] => p = q,
           NEW m \in T, \A q \in T : stored[q] <= stored[m], NEW s, Ordered(s, n, T \ {m})
    PROVE  \E t : Ordered(t, n + 1, T)
<1> DEFINE t == [i \in 1 .. n + 1 |-> IF i = n + 1 THEN m ELSE s[i]]
<1>1. \A i \in 1 .. n : s[i] \in T \ {m}
  BY DEF Ordered
<1>2. \A i \in 1 .. n + 1 : i = n + 1 \/ i \in 1 .. n
  OBVIOUS
<1>3. t \in [1 .. n + 1 -> T]
  BY <1>1, <1>2
<1>4. \A q \in T : stored[q] \in Nat
  OBVIOUS
<1>5. ASSUME NEW i \in 1 .. n + 1, NEW j \in 1 .. n + 1, i < j PROVE stored[t[i]] < stored[t[j]]
  <2>1. i \in 1 .. n /\ t[i] = s[i] /\ s[i] \in T /\ s[i] # m
    BY <1>1, <1>5
  <2>2. CASE j = n + 1
    <3>1. t[j] = m /\ stored[s[i]] <= stored[m] /\ stored[s[i]] # stored[m]
      BY <2>1, <2>2
    <3> QED BY <1>4, <2>1, <3>1
  <2>3. CASE j \in 1 .. n
    <3>1. t[j] = s[j]
      BY <2>3
    <3> QED BY <1>5, <2>1, <2>3, <3>1 DEF Ordered
  <2> QED BY <1>2, <2>2, <2>3
<1> HIDE DEF t
<1> QED BY <1>3, <1>5 DEF Ordered

LEMMA OrderExists ==
    ASSUME stored \in [Paths -> 0 .. MaxWrites], NEW S, S \subseteq Paths, IsFiniteSet(S),
           \A p, q \in S : stored[p] = stored[q] => p = q
    PROVE  \E s : Ordered(s, Cardinality(S), S)
<1> DEFINE Lacks(n) == \E T \in SUBSET S : Cardinality(T) = n /\ ~ \E s : Ordered(s, n, T)
           Bad == {n \in Nat : Lacks(n)}
<1>1. SUFFICES ASSUME Bad # {} PROVE FALSE
  <2>1. Cardinality(S) \in Nat
    BY FS_CardinalityType
  <2> QED BY <1>1, <2>1
<1>2. PICK n \in Bad : \A k \in Bad : n <= k
  <2>1. Bad \subseteq Nat
    OBVIOUS
  <2> HIDE DEF Bad
  <2> QED BY <1>1, <2>1, LeastNatural
<1>3. PICK T \in SUBSET S : Cardinality(T) = n /\ ~ \E s : Ordered(s, n, T)
  BY <1>2
<1>4. IsFiniteSet(T) /\ n \in Nat
  BY <1>2, FS_Subset
<1>5. CASE n = 0
  <2>1. T = {}
    BY <1>3, <1>4, <1>5, FS_EmptySet
  <2>2. Ordered(<<>>, 0, {})
    BY DEF Ordered
  <2> QED BY <1>3, <1>5, <2>1, <2>2
<1>6. CASE n # 0
  <2>1. T # {}
    BY <1>3, <1>4, <1>6, FS_EmptySet
  <2>2. PICK m \in T : \A q \in T : stored[q] <= stored[m]
    BY <2>1, Youngest
  <2>3. Cardinality(T \ {m}) = n - 1 /\ n - 1 \in Nat
    <3>1. Cardinality(T \ {m}) = Cardinality(T) - 1
      BY <1>4, FS_RemoveElement
    <3> QED BY <1>3, <1>4, <1>6, <3>1
  <2>4. ~Lacks(n - 1)
    BY <1>2, <1>4, <2>3
  <2>5. PICK s : Ordered(s, n - 1, T \ {m})
    BY <2>3, <2>4
  <2>6. \E t : Ordered(t, (n - 1) + 1, T)
    BY <2>2, <2>3, <2>5, OrderedMore
  <2> QED BY <1>3, <1>4, <2>6
<1> QED BY <1>5, <1>6

LEMMA SeqOfFunction ==
    ASSUME NEW S, NEW n \in Nat, NEW s \in [1 .. n -> S]
    PROVE  s \in Seq(S) /\ Len(s) = n
OBVIOUS

LEMMA OldestFirstIsSeq ==
    ASSUME stored \in [Paths -> 0 .. MaxWrites], NEW S, S \subseteq Paths,
           \A p, q \in S : stored[p] = stored[q] => p = q
    PROVE  IsFiniteSet(S) /\ OldestFirst(S) \in Seq(Paths) /\ Len(OldestFirst(S)) = Cardinality(S)
<1>1. IsFiniteSet(S)
  <2> DEFINE f == [p \in S |-> stored[p]]
  <2>1. f \in Injection(S, 0 .. MaxWrites)
    BY DEF Injection, IsInjective
  <2>2. IsFiniteSet(0 .. MaxWrites)
    BY FS_Interval
  <2> QED BY <2>1, <2>2, FS_Injection
<1>2. Cardinality(S) \in Nat
  BY <1>1, FS_CardinalityType
<1>3. Ordered(OldestFirst(S), Cardinality(S), S)
  <2>1. PICK s : Ordered(s, Cardinality(S), S)
    BY <1>1, OrderExists
  <2> QED BY <2>1 DEF Ordered, OldestFirst
<1>4. OldestFirst(S) \in [1 .. Cardinality(S) -> Paths]
  BY <1>3 DEF Ordered
<1> QED BY <1>1, <1>2, <1>4, SeqOfFunction

-----------------------------------------------------------------------------
(* The queue.                                                               *)

\* What fits is queued.
LEMMA EnqueuedFits ==
    ASSUME NEW q \in Seq(Paths), Len(q) <= Capacity, NEW s \in Seq(Paths)
    PROVE  Enqueued(q, s) \in Seq(Paths) /\ Len(Enqueued(q, s)) <= Capacity
<1> DEFINE n == IF Len(s) <= Capacity - Len(q) THEN Len(s) ELSE Capacity - Len(q)
           t == SubSeq(s, 1, n)
<1>1. n \in 0 .. Len(s) /\ n <= Capacity - Len(q) /\ Len(q) \in Nat
  OBVIOUS
<1>2. t \in Seq(Paths) /\ Len(t) = n
  <2> HIDE DEF n
  <2> QED BY <1>1
<1>3. Enqueued(q, s) = q \o t
  BY DEF Enqueued
<1> HIDE DEF n, t
<1>4. q \o t \in Seq(Paths) /\ Len(q \o t) = Len(q) + Len(t)
  BY <1>2
<1> QED BY <1>1, <1>2, <1>3, <1>4

LEMMA WaitingIsSeq == ASSUME TypeOK, AgesOK PROVE Waiting \in Seq(Paths)
<1>1. unsent \ InFlight \subseteq Paths /\ stored \in [Paths -> 0 .. MaxWrites]
  BY DEF TypeOK
<1>2. \A p, q \in unsent \ InFlight : stored[p] = stored[q] => p = q
  BY DEF AgesOK
<1> QED BY <1>1, <1>2, OldestFirstIsSeq DEF Waiting

LEMMA SweepIsSeq ==
    ASSUME TypeOK, AgesOK PROVE OldestUnsent \in Seq(Paths) /\ Len(OldestUnsent) <= Batch
<1>1. Waiting \in Seq(Paths)
  BY WaitingIsSeq
<1>2. Len(Waiting) \in Nat /\ Batch \in Nat
  BY <1>1
<1>3. ~(Len(Waiting) <= Batch) => /\ SubSeq(Waiting, 1, Batch) \in Seq(Paths)
                                  /\ Len(SubSeq(Waiting, 1, Batch)) = Batch
  BY <1>1, <1>2
<1> QED BY <1>1, <1>2, <1>3 DEF OldestUnsent

-----------------------------------------------------------------------------
(* Workers.                                                                 *)

LEMMA RestingWorker ==
    /\ Resting \in Worker /\ Resting.pc = "select" /\ Resting.todo = <<>> /\ Resting.path \in Paths
<1>1. PICK p \in Paths : p = CHOOSE q \in Paths : TRUE
  OBVIOUS
<1>2. Resting = [pc |-> "select", path |-> p, of |-> 0, todo |-> <<>>, sweeping |-> FALSE,
                 superseded |-> FALSE]
  BY <1>1 DEF Resting
<1>3. 0 \in 0 .. MaxWrites /\ <<>> \in Seq(Paths)
  OBVIOUS
<1> QED BY <1>2, <1>3 DEF Worker

\* A worker moves on to x, and nothing but the queue and the listing with it.
LEMMA WorkerKeeps ==
    ASSUME Schedule, NEW w \in Workers, NEW x \in Worker, worker' = [worker EXCEPT ![w] = x],
           worker[w].pc # "gone", Len(x.todo) <= Batch, x.pc = "next" => x.todo # <<>>,
           queue' \in Seq(Paths), Len(queue') <= Capacity,
           UNCHANGED <<objectVars, drainVars, there, askVars>>, failures' \in 0 .. MaxFailures
    PROVE  Schedule'
<1>1. /\ worker' \in [Workers -> Worker] /\ worker'[w] = x
      /\ \A v \in Workers : v # w => worker'[v] = worker[v]
  BY DEF Schedule, TypeOK
<1>2. TypeOK'
  BY <1>1 DEF Schedule, TypeOK, objectVars, drainVars, askVars
<1>3. AgesOK' /\ ListOK'
  BY DEF Schedule, AgesOK, ListOK, objectVars, askVars
<1>4. StoppedOK'
  BY DEF Schedule, StoppedOK, drainVars
<1> QED BY <1>2, <1>3, <1>4 DEF Schedule

LEMMA TakeKeeps == ASSUME Schedule, NEW w \in Workers, Take(w) PROVE Schedule'
<1>1. /\ queue \in Seq(Paths) /\ queue # <<>> /\ Len(queue) <= Capacity /\ worker[w].pc = "select"
      /\ failures' \in 0 .. MaxFailures
      /\ UNCHANGED <<objectVars, drainVars, there, askVars>> /\ queue' = Tail(queue)
      /\ worker' = [worker EXCEPT ![w] = [Resting EXCEPT !.pc = "next", !.todo = <<Head(queue)>>]]
  BY DEF Schedule, TypeOK, Take, Doing
<1> DEFINE x == [Resting EXCEPT !.pc = "next", !.todo = <<Head(queue)>>]
<1>2. Head(queue) \in Paths /\ Tail(queue) \in Seq(Paths) /\ Len(Tail(queue)) = Len(queue) - 1
  BY <1>1
<1>3. <<Head(queue)>> \in Seq(Paths) /\ Len(<<Head(queue)>>) = 1 /\ <<Head(queue)>> # <<>>
  BY <1>2
<1>4. x \in Worker /\ x.pc = "next" /\ x.todo = <<Head(queue)>>
  BY <1>3, RestingWorker DEF Worker
<1> HIDE DEF x
<1>5. Len(queue') <= Capacity /\ queue' \in Seq(Paths)
  BY <1>1, <1>2
<1>6. Len(x.todo) <= Batch /\ x.todo # <<>>
  BY <1>3, <1>4
<1>7. worker' = [worker EXCEPT ![w] = x]
  BY <1>1 DEF x
<1> QED BY <1>1, <1>4, <1>5, <1>6, <1>7, WorkerKeeps

LEMMA SweepKeeps == ASSUME Schedule, NEW w \in Workers, Sweep(w) PROVE Schedule'
<1> DEFINE x == [Resting EXCEPT !.pc = "next", !.todo = OldestUnsent, !.sweeping = TRUE]
<1>1. /\ queue' \in Seq(Paths) /\ Len(queue') <= Capacity /\ worker[w].pc = "select"
      /\ failures' \in 0 .. MaxFailures
      /\ UNCHANGED <<objectVars, drainVars, there, askVars>>
      /\ worker' = [worker EXCEPT ![w] = x] /\ OldestUnsent # <<>>
  BY DEF Schedule, TypeOK, Sweep, Doing
<1>2. OldestUnsent \in Seq(Paths) /\ Len(OldestUnsent) <= Batch
  BY SweepIsSeq DEF Schedule
<1>3. x \in Worker /\ x.pc = "next" /\ x.todo = OldestUnsent
  BY <1>2, RestingWorker DEF Worker
<1> HIDE DEF x
<1> QED BY <1>1, <1>2, <1>3, WorkerKeeps

LEMMA ClaimKeeps == ASSUME Schedule, NEW w \in Workers, Claim(w) PROVE Schedule'
<1>1. /\ queue' \in Seq(Paths) /\ Len(queue') <= Capacity /\ worker[w].pc = "next"
      /\ failures' \in 0 .. MaxFailures
      /\ UNCHANGED <<objectVars, drainVars, there, askVars>>
      /\ worker \in [Workers -> Worker] /\ worker[w] \in Worker /\ stored \in [Paths -> 0 .. MaxWrites]
      /\ worker[w].todo # <<>> /\ Len(worker[w].todo) <= Batch
  BY DEF Schedule, TypeOK, Claim, Doing
<1>2. worker[w].todo \in Seq(Paths)
  BY <1>1 DEF Worker
<1>3. PICK p \in Paths, rest \in Seq(Paths) :
        /\ p = Head(worker[w].todo) /\ rest = Tail(worker[w].todo)
        /\ Len(rest) = Len(worker[w].todo) - 1 /\ stored[p] \in 0 .. MaxWrites
  <2>1. /\ Head(worker[w].todo) \in Paths /\ Tail(worker[w].todo) \in Seq(Paths)
        /\ Len(Tail(worker[w].todo)) = Len(worker[w].todo) - 1
    BY <1>1, <1>2
  <2> QED BY <1>1, <2>1
<1>4. Len(rest) <= Batch /\ (Len(worker[w].todo) # 1 => rest # <<>>)
  <2>1. PICK n \in Nat : n = Len(worker[w].todo)
    BY <1>2
  <2>2. Len(rest) = n - 1 /\ n <= Batch
    BY <1>1, <1>3, <2>1
  <2>3. n # 1 => Len(rest) # 0
    BY <2>2
  <2>4. n # 1 => rest # <<>>
    BY <2>3
  <2> QED BY <2>1, <2>2, <2>4
<1>5. CASE worker' = [worker EXCEPT ![w].pc = "upload", ![w].path = p, ![w].of = stored[p],
                                    ![w].todo = Tail(@)]
  <2> DEFINE x == [worker[w] EXCEPT !.pc = "upload", !.path = p, !.of = stored[p], !.todo = rest]
  <2>1. x \in Worker /\ x.pc = "upload" /\ x.todo = rest
    BY <1>1, <1>3 DEF Worker
  <2>2. worker' = [worker EXCEPT ![w] = x]
    BY <1>1, <1>3, <1>5 DEF Worker
  <2> HIDE DEF x
  <2> QED BY <1>1, <1>4, <2>1, <2>2, WorkerKeeps
<1>6. CASE worker' = [worker EXCEPT ![w].todo = Tail(@),
                                    ![w].pc = IF Len(worker[w].todo) = 1 THEN "select" ELSE "next"]
  <2> DEFINE x == [worker[w] EXCEPT !.todo = rest,
                                    !.pc = IF Len(worker[w].todo) = 1 THEN "select" ELSE "next"]
  <2>1. x \in Worker /\ x.pc = (IF Len(worker[w].todo) = 1 THEN "select" ELSE "next") /\ x.todo = rest
    BY <1>1, <1>3 DEF Worker
  <2>2. worker' = [worker EXCEPT ![w] = x]
    BY <1>1, <1>3, <1>6 DEF Worker
  <2> HIDE DEF x
  <2> QED BY <1>1, <1>4, <2>1, <2>2, WorkerKeeps
<1> QED BY <1>3, <1>5, <1>6 DEF Claim

\* The upload is over without having changed the object.
LEMMA FailureKeeps ==
    ASSUME Schedule, NEW w \in Workers, Fails(w) \/ IsRefused(w) \/ Cancelled(w) PROVE Schedule'
<1>1. /\ queue' \in Seq(Paths) /\ Len(queue') <= Capacity /\ worker[w].pc = "upload"
      /\ failures' \in 0 .. MaxFailures
      /\ UNCHANGED <<objectVars, drainVars, there, askVars>>
      /\ worker \in [Workers -> Worker] /\ worker[w] \in Worker /\ Len(worker[w].todo) <= Batch
      /\ worker' = [worker EXCEPT ![w].pc = "end"]
  BY DEF Schedule, TypeOK, Fails, IsRefused, Cancelled, Doing
<1> DEFINE x == [worker[w] EXCEPT !.pc = "end"]
<1>2. x \in Worker /\ x.pc = "end" /\ x.todo = worker[w].todo
  BY <1>1 DEF Worker
<1>3. worker' = [worker EXCEPT ![w] = x]
  BY <1>1
<1> HIDE DEF x
<1> QED BY <1>1, <1>2, <1>3, WorkerKeeps

LEMMA EndKeeps == ASSUME Schedule, NEW w \in Workers, End(w) PROVE Schedule'
<1>1. /\ queue \in Seq(Paths) /\ Len(queue) <= Capacity /\ worker[w].pc = "end"
      /\ failures' \in 0 .. MaxFailures
      /\ UNCHANGED <<objectVars, drainVars, there, askVars>>
      /\ worker[w] \in Worker /\ Len(worker[w].todo) <= Batch
      /\ queue' = (IF worker[w].superseded THEN Enqueued(queue, <<worker[w].path>>) ELSE queue)
      /\ worker' = [worker EXCEPT ![w] = Onward(w)]
  BY DEF Schedule, TypeOK, End, Doing
<1>2. queue' \in Seq(Paths) /\ Len(queue') <= Capacity
  <2>1. <<worker[w].path>> \in Seq(Paths)
    BY <1>1 DEF Worker
  <2>2. /\ Enqueued(queue, <<worker[w].path>>) \in Seq(Paths)
        /\ Len(Enqueued(queue, <<worker[w].path>>)) <= Capacity
    BY <1>1, <2>1, EnqueuedFits
  <2> QED BY <1>1, <2>2
<1>3. /\ Onward(w) \in Worker /\ Onward(w).todo = worker[w].todo
      /\ Onward(w).pc = "next" => worker[w].todo # <<>>
  <2>1. worker[w].todo \in Seq(Paths) /\ worker[w].sweeping \in BOOLEAN
    BY <1>1 DEF Worker
  <2> QED BY <2>1, RestingWorker DEF Onward, Worker
<1> QED BY <1>1, <1>2, <1>3, WorkerKeeps

LEMMA GoneWorker ==
    [Resting EXCEPT !.pc = "gone"] \in Worker /\ [Resting EXCEPT !.pc = "gone"].pc = "gone"
        /\ [Resting EXCEPT !.pc = "gone"].todo = <<>>
BY RestingWorker DEF Worker

LEMMA LeaveKeeps == ASSUME Schedule, NEW w \in Workers, Leave(w) PROVE Schedule'
<1>1. /\ queue' \in Seq(Paths) /\ Len(queue') <= Capacity /\ worker[w].pc # "gone"
      /\ failures' \in 0 .. MaxFailures
      /\ UNCHANGED <<objectVars, drainVars, there, askVars>>
      /\ worker' = [worker EXCEPT ![w] = [Resting EXCEPT !.pc = "gone"]]
  BY DEF Schedule, TypeOK, Leave, Doing
<1>2. Len(<<>>) <= Batch
  OBVIOUS
<1> QED BY <1>1, <1>2, GoneWorker, WorkerKeeps

\* The version that was sent is clean: what was owed to a listing was sent in time
\* for upstream's answer, or is marked.
LEMMA SucceedsKeeps == ASSUME Schedule, NEW w \in Workers, Succeeds(w) PROVE Schedule'
<1>1. /\ worker \in [Workers -> Worker] /\ worker[w] \in Worker /\ worker[w].pc = "upload"
      /\ Len(worker[w].todo) <= Batch /\ list \in Listing
      /\ UNCHANGED <<stored, writing, writes, queue, failures, drainVars, asked>>
      /\ there' = there \cup {worker[w].path} /\ there \subseteq Paths /\ unsent \subseteq Paths
  BY DEF Schedule, TypeOK, Succeeds, Doing
<1>2. worker[w].path \in Paths
  BY <1>1 DEF Worker
<1>3. PICK superseded \in BOOLEAN :
        worker' = [worker EXCEPT ![w] = [worker[w] EXCEPT !.pc = "end", !.superseded = superseded]]
  <2>1. CASE worker' = [worker EXCEPT ![w].pc = "end"]
    <3>1. worker[w].superseded \in BOOLEAN
      BY <1>1 DEF Worker
    <3>2. [worker[w] EXCEPT !.pc = "end"]
             = [worker[w] EXCEPT !.pc = "end", !.superseded = worker[w].superseded]
      BY <1>1 DEF Worker
    <3> QED BY <2>1, <3>1, <3>2
  <2>2. CASE worker' = [worker EXCEPT ![w].pc = "end", ![w].superseded = TRUE]
    <3>1. worker' = [worker EXCEPT ![w] = [worker[w] EXCEPT !.pc = "end", !.superseded = TRUE]]
      BY <1>1, <2>2 DEF Worker
    <3> QED BY <3>1
  <2> QED BY <2>1, <2>2 DEF Succeeds
<1> DEFINE x == [worker[w] EXCEPT !.pc = "end", !.superseded = superseded]
<1>4. x \in Worker /\ x.pc = "end" /\ x.todo = worker[w].todo
  BY <1>1 DEF Worker
<1> HIDE DEF x
<1>5. /\ worker' \in [Workers -> Worker] /\ worker'[w] = x
      /\ \A v \in Workers : v # w => worker'[v] = worker[v]
  BY <1>1, <1>3, <1>4 DEF x
<1>6. /\ unsent' = unsent \/ unsent' = unsent \ {worker[w].path}
      /\ \/ list' = list /\ (list.pc = "merge" => unsent' = unsent)
         \/ list.pc = "merge" /\ list' = [list EXCEPT !.sent = list.sent \cup {worker[w].path}]
  BY <1>1 DEF Succeeds, Listing
<1>7. /\ list' \in Listing /\ list'.pc = list.pc /\ list'.owed = list.owed /\ list'.shown = list.shown
      /\ \/ list'.sent = list.sent /\ (list.pc = "merge" => unsent' = unsent)
         \/ list'.sent = list.sent \cup {worker[w].path} /\ list.pc = "merge"
  <2>1. CASE list' = list /\ (list.pc = "merge" => unsent' = unsent)
    BY <1>1, <2>1
  <2>2. CASE list.pc = "merge" /\ list' = [list EXCEPT !.sent = list.sent \cup {worker[w].path}]
    <3>1. list.sent \cup {worker[w].path} \in SUBSET Paths
      BY <1>1, <1>2 DEF Listing
    <3> QED BY <1>1, <2>2, <3>1 DEF Listing
  <2> QED BY <1>6, <2>1, <2>2
<1>8. TypeOK'
  BY <1>1, <1>2, <1>4, <1>5, <1>6, <1>7 DEF Schedule, TypeOK, drainVars
<1>9. AgesOK'
  BY <1>1, <1>6 DEF Schedule, AgesOK
<1>10. ListOK'
  BY <1>1, <1>6, <1>7 DEF Schedule, ListOK
<1>11. StoppedOK'
  BY <1>1 DEF Schedule, StoppedOK, drainVars
<1> QED BY <1>8, <1>9, <1>10, <1>11 DEF Schedule

-----------------------------------------------------------------------------
(* Writers.                                                                 *)

LEMMA CommitKeeps == ASSUME Schedule, NEW p \in Paths, Commit(p) PROVE Schedule'
<1>1. /\ writes < MaxWrites /\ drain # "closed" /\ writes' = writes + 1 /\ writes \in 0 .. MaxWrites
      /\ stored' = [stored EXCEPT ![p] = writes + 1] /\ stored \in [Paths -> 0 .. MaxWrites]
      /\ unsent' = unsent \cup {p} /\ unsent \subseteq Paths
      /\ writing' = writing \ {p} /\ queue' = Enqueued(queue, <<p>>)
      /\ queue \in Seq(Paths) /\ Len(queue) <= Capacity
      /\ UNCHANGED <<worker, failures, drainVars, there, askVars>>
  BY DEF Schedule, TypeOK, Commit
<1>2. queue' \in Seq(Paths) /\ Len(queue') <= Capacity
  <2>1. <<p>> \in Seq(Paths)
    OBVIOUS
  <2> QED BY <1>1, <2>1, EnqueuedFits
<1>3. /\ stored' \in [Paths -> 0 .. MaxWrites] /\ stored'[p] = writes + 1
      /\ \A q \in Paths : q # p => stored'[q] = stored[q]
  BY <1>1
<1>4. TypeOK'
  BY <1>1, <1>2, <1>3 DEF Schedule, TypeOK, drainVars, askVars
<1>5. AgesOK'
  <2>1. \A q \in Paths : stored[q] <= writes /\ stored[q] \in Nat
    BY <1>1 DEF Schedule, AgesOK
  <2>2. ASSUME NEW q \in Paths PROVE stored'[q] <= writes'
    BY <1>1, <1>3, <2>1
  <2>3. ASSUME NEW q \in unsent', NEW r \in unsent', stored'[q] = stored'[r] PROVE q = r
    <3>1. q \in Paths /\ r \in Paths
      BY <1>1
    <3>2. CASE q # p /\ r # p
      BY <1>1, <1>3, <2>3, <3>1, <3>2 DEF Schedule, AgesOK
    <3>3. CASE q = p /\ r # p
      BY <1>1, <1>3, <2>1, <2>3, <3>1, <3>3
    <3>4. CASE q # p /\ r = p
      BY <1>1, <1>3, <2>1, <2>3, <3>1, <3>4
    <3> QED BY <3>2, <3>3, <3>4
  <2> QED BY <2>2, <2>3 DEF AgesOK
<1>6. ListOK' /\ StoppedOK'
  BY <1>1 DEF Schedule, ListOK, StoppedOK, drainVars, askVars
<1> QED BY <1>4, <1>5, <1>6 DEF Schedule

LEMMA WriterKeeps == ASSUME Schedule, NEW p \in Paths, PutBegin(p) \/ Abort(p) PROVE Schedule'
<1>1. /\ writing' \subseteq Paths
      /\ UNCHANGED <<stored, unsent, writes, queue, worker, failures, drainVars, there, askVars>>
  BY DEF Schedule, TypeOK, PutBegin, Abort
<1> QED BY <1>1 DEF Schedule, TypeOK, AgesOK, ListOK, StoppedOK, drainVars, askVars

-----------------------------------------------------------------------------
(* What users ask for.                                                      *)

LEMMA FlushKeeps == ASSUME Schedule, Flush PROVE Schedule'
<1>1. /\ asked < MaxAsks /\ asked' = asked + 1 /\ asked \in 0 .. MaxAsks
      /\ queue \in Seq(Paths) /\ Len(queue) <= Capacity
      /\ UNCHANGED <<objectVars, worker, failures, drainVars, there, list>>
  BY DEF Schedule, TypeOK, Flush
<1>2. PICK s \in Flushable : queue' = Enqueued(queue, s)
  BY DEF Flush
<1>3. s \in Seq(Paths)
  <2>1. Waiting \in Seq(Paths)
    BY WaitingIsSeq DEF Schedule
  <2>2. s = Waiting \/ \E p \in Paths : s = <<p>>
    BY DEF Flushable
  <2>3. \A p \in Paths : <<p>> \in Seq(Paths)
    OBVIOUS
  <2> QED BY <2>1, <2>2, <2>3
<1>4. queue' \in Seq(Paths) /\ Len(queue') <= Capacity
  BY <1>1, <1>2, <1>3, EnqueuedFits
<1>5. TypeOK'
  BY <1>1, <1>4 DEF Schedule, TypeOK, objectVars, drainVars
<1> QED BY <1>1, <1>5 DEF Schedule, AgesOK, ListOK, StoppedOK, objectVars, drainVars

LEMMA ListKeeps == ASSUME Schedule, ListBegin \/ ListAnswered \/ ListEnds PROVE Schedule'
<1>1. /\ asked' \in 0 .. MaxAsks /\ list \in Listing /\ unsent \subseteq Paths /\ there \subseteq Paths
      /\ UNCHANGED <<objectVars, queue, worker, failures, drainVars, there>>
  BY DEF Schedule, TypeOK, ListBegin, ListAnswered, ListEnds
<1>2. /\ list' \in Listing
      /\ list'.pc = "asked" => list'.owed = unsent
      /\ list'.pc = "merge" => /\ list.pc = "asked" /\ list'.owed = list.owed
                               /\ list'.shown = there
  <2>1. CASE ListBegin
    BY <1>1, <2>1 DEF ListBegin, NoList, Listing
  <2>2. CASE ListAnswered
    BY <1>1, <2>2 DEF ListAnswered, Listing
  <2>3. CASE ListEnds
    BY <2>3 DEF ListEnds, NoList, Listing
  <2> QED BY <2>1, <2>2, <2>3
<1>3. TypeOK'
  BY <1>1, <1>2 DEF Schedule, TypeOK, objectVars, drainVars
<1>4. ListOK'
  BY <1>1, <1>2 DEF Schedule, ListOK, objectVars
<1> QED BY <1>1, <1>3, <1>4 DEF Schedule, AgesOK, StoppedOK, objectVars, drainVars

-----------------------------------------------------------------------------
(* Shutting down.                                                           *)

LEMMA DrainKeeps ==
    ASSUME Schedule, DrainBegin \/ DrainLook \/ DrainEnds \/ Close PROVE Schedule'
<1>1. /\ UNCHANGED <<objectVars, queue, worker, failures, there, askVars>>
      /\ unsent \subseteq Paths /\ owed \subseteq Paths
      /\ drain' \in {"look", "nothing", "enqueue", "listed", "sent"} \/ (drain' = drain /\ closed' = TRUE)
      /\ owed' \subseteq Paths /\ closed' \in BOOLEAN
  BY DEF Schedule, TypeOK, DrainBegin, DrainLook, DrainEnds, Close
<1>2. TypeOK'
  BY <1>1 DEF Schedule, TypeOK, objectVars, askVars
<1> QED BY <1>1, <1>2 DEF Schedule, AgesOK, ListOK, StoppedOK, objectVars, askVars

LEMMA DrainEnqueueKeeps == ASSUME Schedule, DrainEnqueue PROVE Schedule'
<1>1. /\ queue' = Enqueued(queue, Waiting) /\ drain' = "wait"
      /\ queue \in Seq(Paths) /\ Len(queue) <= Capacity
      /\ UNCHANGED <<objectVars, worker, failures, closed, owed, there, askVars>>
  BY DEF Schedule, TypeOK, DrainEnqueue
<1>2. queue' \in Seq(Paths) /\ Len(queue') <= Capacity
  BY <1>1, WaitingIsSeq, EnqueuedFits DEF Schedule
<1>3. TypeOK'
  BY <1>1, <1>2 DEF Schedule, TypeOK, objectVars, askVars
<1> QED BY <1>1, <1>3 DEF Schedule, AgesOK, ListOK, StoppedOK, objectVars, askVars

LEMMA ClosedKeeps == ASSUME Schedule, Closed PROVE Schedule'
<1>1. /\ drain' = "closed" /\ closed /\ \A w \in Workers : worker[w].pc = "gone"
      /\ UNCHANGED <<objectVars, queue, worker, failures, closed, owed, there, askVars>>
  BY DEF Closed, Doing
<1>2. TypeOK'
  BY <1>1 DEF Schedule, TypeOK, objectVars, askVars
<1> QED BY <1>1, <1>2 DEF Schedule, AgesOK, ListOK, StoppedOK, objectVars, askVars

LEMMA OverrunKeeps == ASSUME Schedule, Overrun PROVE Schedule'
<1>1. /\ drain' = "skipped" /\ writing' = {} /\ list' = NoList /\ queue' = <<>>
      /\ worker' = [w \in Workers |-> [Resting EXCEPT !.pc = "gone"]]
      /\ UNCHANGED <<stored, unsent, writes, failures, closed, owed, there, asked>>
  BY DEF Overrun
<1>2. NoList \in Listing /\ NoList.pc = "off"
  BY DEF NoList, Listing
<1>3. worker' \in [Workers -> Worker] /\ \A w \in Workers : worker'[w] = [Resting EXCEPT !.pc = "gone"]
  BY <1>1, GoneWorker
<1>4. \A w \in Workers : Len(worker'[w].todo) <= Batch /\ worker'[w].pc # "next"
  <2>1. Len(<<>>) <= Batch
    OBVIOUS
  <2> QED BY <1>3, <2>1, GoneWorker
<1>5. queue' \in Seq(Paths) /\ Len(queue') <= Capacity
  BY <1>1
<1>6. TypeOK'
  BY <1>1, <1>2, <1>3, <1>4, <1>5 DEF Schedule, TypeOK
<1> QED BY <1>1, <1>2, <1>6 DEF Schedule, AgesOK, ListOK, StoppedOK

-----------------------------------------------------------------------------
(* Every state of the schedule is sound.                                    *)

LEMMA InitSchedule == Init => Schedule
<1> SUFFICES ASSUME Init PROVE Schedule
  OBVIOUS
<1>1. writes \in Nat
  BY FS_CardinalityType DEF Init
<1>2. /\ stored \in [Paths -> 0 .. MaxWrites] /\ writes \in 0 .. MaxWrites /\ unsent \subseteq Paths
      /\ \A p \in Paths : stored[p] <= writes
      /\ \A p, q \in unsent : stored[p] = stored[q] => p = q
  <2>1. stored \in [Paths -> 0 .. writes] /\ writes <= MaxWrites
    BY DEF Init
  <2>2. \A p \in Paths : stored[p] \in 0 .. writes /\ stored[p] \in 0 .. MaxWrites
    BY <1>1, <2>1
  <2> QED BY <1>1, <2>1, <2>2 DEF Init
<1>3. queue \in Seq(Paths) /\ Len(queue) <= Capacity
  <2>1. OldestFirst(unsent) \in Seq(Paths)
    BY <1>2, OldestFirstIsSeq
  <2>2. <<>> \in Seq(Paths) /\ Len(<<>>) <= Capacity
    OBVIOUS
  <2>3. Enqueued(<<>>, OldestFirst(unsent)) \in Seq(Paths) /\ Len(Enqueued(<<>>, OldestFirst(unsent))) <= Capacity
    BY <2>1, <2>2, EnqueuedFits
  <2> QED BY <2>3 DEF Init, Requeued
<1>4. worker \in [Workers -> Worker] /\ \A w \in Workers : worker[w] = Resting
  BY RestingWorker DEF Init
<1>5. \A w \in Workers : Len(worker[w].todo) <= Batch /\ worker[w].pc # "next"
  BY <1>4, RestingWorker
<1>6. NoList \in Listing /\ NoList.pc = "off"
  BY DEF NoList, Listing
<1>7. TypeOK
  <2>1. /\ writing = {} /\ failures = 0 /\ drain = "off" /\ closed = FALSE /\ owed = {}
        /\ there = {} /\ list = NoList /\ asked = 0
    BY DEF Init
  <2>2. 0 \in 0 .. MaxFailures /\ 0 \in 0 .. MaxAsks
    OBVIOUS
  <2> QED BY <1>2, <1>3, <1>4, <1>5, <1>6, <2>1, <2>2 DEF TypeOK
<1> QED BY <1>2, <1>6, <1>7 DEF Init, Schedule, AgesOK, ListOK, StoppedOK

LEMMA NextSchedule == Schedule /\ [Next]_vars => Schedule'
<1> SUFFICES ASSUME Schedule, [Next]_vars PROVE Schedule'
  OBVIOUS
<1>1. ASSUME NEW p \in Paths, PutBegin(p) \/ Commit(p) \/ Abort(p) PROVE Schedule'
  BY <1>1, CommitKeeps, WriterKeeps
<1>2. CASE Flush \/ ListBegin \/ ListAnswered \/ ListEnds
  BY <1>2, FlushKeeps, ListKeeps
<1>3. ASSUME NEW w \in Workers, OwnStep(w) PROVE Schedule'
  BY <1>3, TakeKeeps, SweepKeeps, ClaimKeeps, FailureKeeps, EndKeeps, LeaveKeeps DEF OwnStep
<1>4. ASSUME NEW w \in Workers, Answer(w) PROVE Schedule'
  BY <1>4, SucceedsKeeps, FailureKeeps DEF Answer
<1>5. CASE DrainBegin \/ Overrun \/ DrainStep
  BY <1>5, DrainKeeps, DrainEnqueueKeeps, ClosedKeeps, OverrunKeeps DEF DrainStep
<1>6. CASE UNCHANGED vars
  BY <1>6 DEF vars, objectVars, drainVars, askVars, Schedule, TypeOK, AgesOK, ListOK, StoppedOK
<1> QED BY <1>1, <1>2, <1>3, <1>4, <1>5, <1>6 DEF Next

\* Objects and their ages, the queue, the workers and the listing stay consistent, and the
\* journal is closed only after the last worker has returned (Close).
THEOREM ScheduleHolds == Spec => []Schedule
BY InitSchedule, NextSchedule, PTL DEF Spec

\* The variables of FlushSchedule keep their types: the queue never outgrows its capacity,
\* nor a sweep its batch (enqueue, oldestUnsent).
THEOREM TypesHold == Spec => []TypeOK
<1>1. Schedule => TypeOK
  BY DEF Schedule
<1> QED BY <1>1, ScheduleHolds, PTL

\* A listing shows what was accepted before it was asked for, unless that reached upstream
\* between upstream's listing and the look into the cache (mergePending, Unsent).
THEOREM AcceptedIsListed == Spec => []ListingShowsAccepted
<1>1. Schedule => ListingShowsAccepted
  BY DEF Schedule, ListOK, ListingShowsAccepted, Merged, Pending
<1> QED BY <1>1, ScheduleHolds, PTL
=============================================================================
