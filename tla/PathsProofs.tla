----------------------------- MODULE PathsProofs -----------------------------
(***************************************************************************)
(* Proofs about Paths, for every set of names, folders, callers and goals  *)
(* and every size of the cache.                                            *)
(*                                                                         *)
(* The inductive invariant says three things beyond the types: an entry    *)
(* that no write is about to drop names the folder that is there (Entries);*)
(* an ensurer that was not overtaken by a write knows the folder it creates*)
(* in and the one it stores (Knows); and the one user there is changes the *)
(* folder its path names (Aimed).  It is carried by a fact about trees: a  *)
(* folder that is made takes no path away (KeptByMaking), and one that is  *)
(* moved takes along what is below it and nothing else (KeptElsewhere).    *)
(***************************************************************************)
EXTENDS Paths, FiniteSetTheorems, SequenceTheorems, TLAPS

\* No two folder writes of the server overlap.
OneUser   == \A u, v \in Users : u = v
\* No folder write of the server has begun.
Untouched == \A u \in Users : th[u].calls = 0
Prefix(p, i) == SubSeq(p, 1, i)

\* Upstream's rule: one folder of a name in each folder.
Unique(at) == \A f, g \in Folders : at[f] = at[g] /\ at[f] \notin {Trash, Unmade} => f = g

\* What a flush worker or a job worker carries at each point of EnsurePath.
EnsurerShape(r) ==
    /\ r.pc \in {"idle", "lookup", "ask", "store", "write", "create", "byid"}
    /\ r.op = "ensure"
    /\ r.pc = "lookup" => r.lvl \in 0 .. Len(r.goal)
    /\ r.pc \in {"ask", "store", "create", "byid"} => r.lvl \in 1 .. Len(r.goal)
    /\ r.pc = "lookup" /\ r.again => r.lvl > 0
    /\ r.pc \in {"store", "byid"} => r.got \in Folders
    /\ r.pc \in {"create", "byid", "write"} => r.id \in Folder

\* What a request of the server carries at each point.
UserShape(r) ==
    /\ r.pc \in {"idle", "parent", "create", "byid", "src", "dst", "change", "purge", "subtree"}
    /\ r.pc \in {"parent", "create"} => r.op = "mkdir"
    /\ r.pc \in {"src", "dst", "change", "purge"} => r.op # "mkdir"
    /\ r.pc = "dst" => r.op \in {"move", "copy"}
    /\ r.pc # "idle" => r.op \in Ops /\ r.calls > 0
    /\ r.pc # "idle" /\ r.op = "mkdir" => r.lvl \in 1 .. Len(r.goal)
    /\ r.pc # "idle" /\ r.op \in {"rename", "move", "copy"} => r.dst # <<>>
    /\ r.pc \in {"src", "dst"} /\ r.op \in {"move", "copy"} => r.dst \in Paths
    /\ r.pc \in {"create", "byid"} => r.id \in Folder
    /\ r.pc \in {"dst", "change"} => r.id \in Folders
    /\ r.pc = "change" /\ r.op \in {"move", "copy"} => r.to \in Folder

Fine(t, r) ==
    /\ r \in Thread
    /\ t \in Ensurers => EnsurerShape(r)
    /\ t \in Users => UserShape(r)
    /\ r.pc # "idle" => r.goal \in Paths

ThreadsOK == th \in [Threads -> Thread] /\ \A t \in Threads : Fine(t, th[t])

CacheOK ==
    /\ byPath \in [Paths -> Folders \cup {None}] /\ byID \in [Folders -> Paths \cup {<<>>}]
    /\ IsFiniteSet(Cached) /\ Cardinality(Cached) <= MaxEntries /\ raced \subseteq Cached

World == place \in [Folders -> Places] /\ Unique(place) /\ faults \in 0 .. MaxFaults

Typed == World /\ CacheOK /\ ThreadsOK

\* An entry nobody is about to drop, and that was not stored late.
Trusted(p) ==
    Untouched \/ (OneUser /\ p \notin raced /\ \A u \in Changing : p \notin Touched(th[u]))

\* What the cache says of a trusted path is so, and its ids lead back to their paths.
Entries ==
    /\ \A p \in Cached : Trusted(p) => byPath[p] = IdAt(p)
    /\ Untouched => \A p \in Cached : byID[byPath[p]] = p

\* What this caller found, it found after the last write.
Sure(e) == Untouched \/ (OneUser /\ th[e].fresh)

\* Then it creates in the folder above, and stores the folder itself.
Knows(e) ==
    LET r == th[e] IN
    /\ r.pc = "create" => r.id = IdAt(Prefix(r.goal, r.lvl - 1))
    /\ r.pc \in {"store", "byid"} => r.got = IdAt(Here(e))

\* Before any folder write, an EnsurePath that is done, or about to be, has the right
\* folder; one that looks a second time finds the folder, unless a request has failed.
Agrees(e) ==
    LET r == th[e] IN
    /\ r.pc # "idle" => r.out = "none"
    /\ r.pc = "write" => r.id = IdAt(r.goal)
    /\ r.pc \in {"lookup", "ask"} /\ r.again => faults > 0 \/ IdAt(Here(e)) # None
    /\ r.out = "ok" => r.got = IdAt(r.goal) /\ r.got # None
    /\ r.out = "error" => faults > 0

\* A lone folder write changes the folder its path named, and still names.
Aimed(u) == OneUser /\ th[u].pc \in {"dst", "change"} => th[u].id = IdAt(th[u].goal)

Lookups ==
    /\ \A e \in Ensurers : (Sure(e) => Knows(e)) /\ (Untouched => Agrees(e))
    /\ \A u \in Users : Aimed(u)

Inv == Typed /\ Entries /\ Lookups

-----------------------------------------------------------------------------
(* Paths as sequences.                                                      *)

AnyPath == Paths \cup {<<>>}

\* Among all sequences of names, those of one to Depth names.
LEMMA PathTyped ==
    ASSUME NEW p \in AnyPath
    PROVE  /\ p \in Seq(Names) /\ Len(p) \in 0 .. Depth
           /\ p \in Paths <=> Len(p) \in 1 .. Depth
           /\ \A i \in 1 .. Len(p) : p[i] \in Names
<1>1. CASE p = <<>>
  <2>1. p \in Seq(Names) /\ Len(p) = 0  BY <1>1, EmptySeq
  <2>2. p \notin Paths
    <3> SUFFICES ASSUME NEW i \in 1 .. Depth, p \in [1 .. i -> Names] PROVE FALSE  BY DEF Paths
    <3>1. Len(p) = i
      <4>1. DOMAIN p = 1 .. i  OBVIOUS
      <4>2. DOMAIN p = 1 .. Len(p)  BY <2>1, LenProperties
      <4> QED BY <4>1, <4>2, <2>1 DEF Depth
    <3> QED BY <3>1, <2>1 DEF Depth
  <2> QED BY <2>1, <2>2 DEF Depth
<1>2. CASE p \in Paths
  <2>1. PICK i \in 1 .. Depth : p \in [1 .. i -> Names]  BY <1>2 DEF Paths
  <2>2. p \in Seq(Names)  BY <2>1, SeqDef DEF Depth
  <2>3. DOMAIN p = 1 .. i /\ DOMAIN p = 1 .. Len(p) /\ Len(p) \in Nat  BY <2>1, <2>2, LenProperties
  <2>4. Len(p) = i  BY <2>3 DEF Depth
  <2> QED BY <1>2, <2>1, <2>2, <2>4 DEF Depth
<1> QED BY <1>1, <1>2 DEF AnyPath

\* A sequence of names of the right length is a path.
LEMMA PathMade ==
    ASSUME NEW p \in Seq(Names), Len(p) \in 1 .. Depth
    PROVE  p \in Paths
BY LenProperties DEF Paths

LEMMA SamePath ==
    ASSUME NEW p \in AnyPath, NEW q \in AnyPath, Len(p) = Len(q),
           \A i \in 1 .. Len(p) : p[i] = q[i]
    PROVE  p = q
BY PathTyped, SeqEqual

LEMMA PrefixIs ==
    ASSUME NEW p \in AnyPath, NEW i \in 0 .. Len(p)
    PROVE  /\ Prefix(p, i) \in AnyPath /\ Len(Prefix(p, i)) = i
           /\ \A j \in 1 .. i : Prefix(p, i)[j] = p[j]
           /\ i > 0 => Prefix(p, i) \in Paths
<1>1. p \in Seq(Names) /\ Len(p) \in 0 .. Depth /\ \A j \in 1 .. Len(p) : p[j] \in Names  BY PathTyped
<1>2. /\ Prefix(p, i) \in Seq(Names) /\ Len(Prefix(p, i)) = i
      /\ \A j \in 1 .. i : Prefix(p, i)[j] = p[j]
  <2>1. i \in Int /\ \A j \in 1 .. i : p[j] \in Names  BY <1>1 DEF Depth
  <2>2. /\ SubSeq(p, 1, i) \in Seq(Names)
        /\ Len(SubSeq(p, 1, i)) = IF 1 <= i THEN i - 1 + 1 ELSE 0
        /\ \A j \in 1 .. i - 1 + 1 : SubSeq(p, 1, i)[j] = p[1 + j - 1]
    BY <2>1, SubSeqProperties
  <2> QED BY <1>1, <2>2 DEF Prefix, Depth
<1>3. ASSUME i > 0 PROVE Prefix(p, i) \in Paths
  <2>1. Len(Prefix(p, i)) \in 1 .. Depth  BY <1>1, <1>2, <1>3 DEF Depth
  <2>2. Prefix(p, i) \in Seq(Names)  BY <1>2
  <2> HIDE DEF Prefix
  <2> QED BY <2>1, <2>2, PathMade
<1>4. i = 0 => Prefix(p, i) = <<>>  BY <1>2, EmptySeq
<1> QED BY <1>1, <1>2, <1>3, <1>4 DEF AnyPath, Depth

LEMMA WholePrefix ==
    ASSUME NEW p \in AnyPath
    PROVE  Prefix(p, Len(p)) = p /\ Prefix(p, 0) = <<>> /\ Len(<<>>) = 0
<1>1. Len(p) \in 0 .. Depth  BY PathTyped
<1>2. Prefix(p, Len(p)) = p  BY <1>1, PrefixIs, SamePath DEF Depth
<1>3. Prefix(p, 0) = <<>>
  <2>1. 0 \in 0 .. Len(p)  BY <1>1 DEF Depth
  <2>2. Len(Prefix(p, 0)) = 0 /\ Prefix(p, 0) \in AnyPath  BY <2>1, PrefixIs
  <2>3. Prefix(p, 0) \in Seq(Names)  BY <2>2, PathTyped
  <2> QED BY <2>2, <2>3, EmptySeq
<1> QED BY <1>2, <1>3, EmptySeq

LEMMA ParentIs ==
    ASSUME NEW p \in Paths
    PROVE  /\ Parent(p) = Prefix(p, Len(p) - 1) /\ Parent(p) \in AnyPath
           /\ Len(Parent(p)) = Len(p) - 1 /\ Last(p) = p[Len(p)] /\ Last(p) \in Names
<1>1. p \in AnyPath /\ Len(p) \in 1 .. Depth /\ \A i \in 1 .. Len(p) : p[i] \in Names
  BY PathTyped DEF AnyPath
<1>2. Len(p) - 1 \in 0 .. Len(p) /\ Len(p) \in 1 .. Len(p)  BY <1>1 DEF Depth
<1> QED BY <1>1, <1>2, PrefixIs DEF Parent, Prefix, Last

\* Of a longer path, the shorter of two prefixes is a prefix of the other.
LEMMA PrefixOfPrefix ==
    ASSUME NEW p \in AnyPath, NEW i \in 0 .. Len(p), NEW j \in 0 .. i
    PROVE  Prefix(Prefix(p, i), j) = Prefix(p, j)
<1>1. Len(p) \in 0 .. Depth  BY PathTyped
<1>2. j \in 0 .. Len(p)  BY <1>1 DEF Depth
<1>3. Prefix(p, i) \in AnyPath /\ Len(Prefix(p, i)) = i /\ \A k \in 1 .. i : Prefix(p, i)[k] = p[k]
  BY PrefixIs
<1>4. Prefix(p, j) \in AnyPath /\ Len(Prefix(p, j)) = j /\ \A k \in 1 .. j : Prefix(p, j)[k] = p[k]
  BY <1>2, PrefixIs
<1>5. /\ Prefix(Prefix(p, i), j) \in AnyPath /\ Len(Prefix(Prefix(p, i), j)) = j
      /\ \A k \in 1 .. j : Prefix(Prefix(p, i), j)[k] = Prefix(p, i)[k]
  BY <1>3, PrefixIs
<1> QED BY <1>1, <1>3, <1>4, <1>5, SamePath DEF Depth

-----------------------------------------------------------------------------
(* The folder a path names.                                                 *)

LEMMA ChildTyped ==
    ASSUME NEW at, NEW f, NEW n
    PROVE  /\ Child(at, f, n) \in Folders \cup {None}
           /\ Child(at, f, n) # None => at[Child(at, f, n)] = <<f, n>>
           /\ Child(at, f, n) = None <=> \A g \in Folders : at[g] # <<f, n>>
<1>1. None \notin Folders  BY AssumeFolders DEF None
<1>2. CASE \E g \in Folders : at[g] = <<f, n>>
  <2>1. Child(at, f, n) \in Folders /\ at[Child(at, f, n)] = <<f, n>>  BY <1>2, Zenon DEF Child
  <2> QED BY <1>1, <1>2, <2>1
<1>3. CASE ~\E g \in Folders : at[g] = <<f, n>>
  <2>1. Child(at, f, n) = None  BY <1>3 DEF Child
  <2> QED BY <1>3, <2>1
<1> QED BY <1>2, <1>3

LEMMA ChildIs ==
    ASSUME NEW at, Unique(at), NEW g \in Folders, NEW f \in Folder, NEW n, at[g] = <<f, n>>
    PROVE  Child(at, f, n) = g
<1>1. Child(at, f, n) # None  BY ChildTyped
<1>2. Child(at, f, n) \in Folders /\ at[Child(at, f, n)] = at[g]  BY <1>1, ChildTyped
<1>3. at[g] \notin {Trash, Unmade}  BY AssumeFolders DEF Trash, Unmade, Folder, Root
<1> QED BY <1>2, <1>3 DEF Unique

LEMMA IdOfRoot == ASSUME NEW at PROVE IdIn(at, <<>>) = Root
BY WholePrefix DEF IdIn, Descend, AnyPath

\* One level at a time.
LEMMA IdOfPrefix ==
    ASSUME NEW at, NEW p \in AnyPath, NEW i \in 1 .. Len(p)
    PROVE  IdIn(at, Prefix(p, i)) =
               IF IdIn(at, Prefix(p, i - 1)) = None THEN None
               ELSE Child(at, IdIn(at, Prefix(p, i - 1)), p[i])
<1> DEFINE q == Prefix(p, i)
           o == Prefix(p, i - 1)
<1>1. Len(p) \in 0 .. Depth  BY PathTyped
<1>2. i \in 0 .. Len(p) /\ i - 1 \in 0 .. Len(p)  BY <1>1 DEF Depth
<1>3. Len(q) = i /\ \A j \in 1 .. i : q[j] = p[j]  BY <1>2, PrefixIs
<1>4. Len(o) = i - 1 /\ \A j \in 1 .. i - 1 : o[j] = p[j]  BY <1>2, PrefixIs
<1> HIDE DEF q, o
<1>5. i = 1 \/ i = 2 \/ i = 3
  <2>1. Len(p) \in 0 .. 3  BY PathTyped DEF Depth
  <2>2. \A k \in 0 .. 3 : \A j \in 1 .. k : j = 1 \/ j = 2 \/ j = 3  OBVIOUS
  <2> QED BY <2>1, <2>2, Zenon
<1>6. Root # None  BY DEF Root, None
<1>7. CASE i = 1
  <2>1. IdIn(at, o) = Root  BY <1>4, <1>6, <1>7 DEF IdIn, Descend
  <2>2. IdIn(at, q) = Child(at, Root, p[1])  BY <1>3, <1>6, <1>7 DEF IdIn, Descend
  <2> QED BY <2>1, <2>2, <1>6, <1>7 DEF q, o
<1>8. CASE i = 2
  <2>1. IdIn(at, o) = Child(at, Root, p[1])  BY <1>4, <1>6, <1>8 DEF IdIn, Descend
  <2>2. IdIn(at, q) = IF Child(at, Root, p[1]) = None THEN None
                      ELSE Child(at, Child(at, Root, p[1]), p[2])
    BY <1>3, <1>6, <1>8 DEF IdIn, Descend
  <2> QED BY <2>1, <2>2, <1>8 DEF q, o
<1>9. CASE i = 3
  <2> DEFINE c == IF Child(at, Root, p[1]) = None THEN None
                  ELSE Child(at, Child(at, Root, p[1]), p[2])
  <2>1. IdIn(at, o) = c  BY <1>4, <1>6, <1>9 DEF IdIn, Descend
  <2>2. IdIn(at, q) = IF c = None THEN None ELSE Child(at, c, p[3])
    BY <1>3, <1>6, <1>9 DEF IdIn, Descend
  <2> QED BY <2>1, <2>2, <1>9 DEF q, o
<1> QED BY <1>5, <1>7, <1>8, <1>9 DEF q, o

LEMMA IdOfPath ==
    ASSUME NEW at, NEW p \in Paths
    PROVE  IdIn(at, p) = IF IdIn(at, Parent(p)) = None THEN None
                         ELSE Child(at, IdIn(at, Parent(p)), Last(p))
<1>1. p \in AnyPath /\ Len(p) \in 1 .. Depth  BY PathTyped DEF AnyPath
<1>2. Len(p) \in 1 .. Len(p)  BY <1>1 DEF Depth
<1>3. Prefix(p, Len(p)) = p  BY <1>1, WholePrefix
<1> QED BY <1>1, <1>2, <1>3, IdOfPrefix, ParentIs

LEMMA IdTyped ==
    ASSUME NEW at, NEW p \in AnyPath
    PROVE  /\ IdIn(at, p) \in Folder \cup {None}
           /\ p \in Paths => IdIn(at, p) \in Folders \cup {None}
           /\ p \in Paths /\ IdIn(at, p) # None =>
                  /\ IdIn(at, Parent(p)) \in Folder
                  /\ at[IdIn(at, p)] = <<IdIn(at, Parent(p)), Last(p)>>
<1>1. \A q \in Paths : IdIn(at, q) \in Folders \cup {None}
  BY IdOfPath, ChildTyped
<1>2. \A q \in AnyPath : IdIn(at, q) \in Folder \cup {None}
  BY <1>1, IdOfRoot DEF AnyPath, Folder
<1>3. ASSUME p \in Paths, IdIn(at, p) # None
      PROVE  /\ IdIn(at, Parent(p)) \in Folder
             /\ at[IdIn(at, p)] = <<IdIn(at, Parent(p)), Last(p)>>
  <2>1. IdIn(at, Parent(p)) # None /\ IdIn(at, p) = Child(at, IdIn(at, Parent(p)), Last(p))
    BY <1>3, IdOfPath
  <2>2. IdIn(at, Parent(p)) \in Folder  BY <1>2, <1>3, <2>1, ParentIs
  <2> QED BY <1>3, <2>1, <2>2, ChildTyped
<1> QED BY <1>1, <1>2, <1>3

\* No two paths name one folder.
LEMMA OnePath ==
    ASSUME NEW at, NEW p \in AnyPath, NEW q \in AnyPath,
           IdIn(at, p) = IdIn(at, q), IdIn(at, p) # None
    PROVE  p = q
<1> DEFINE P(n) == \A a, b \in AnyPath :
                       Len(a) = n /\ IdIn(at, a) = IdIn(at, b) /\ IdIn(at, a) # None => a = b
<1>1. \A a \in AnyPath : (a \in Paths <=> a # <<>>) /\ (Len(a) = 0 <=> a = <<>>)
  BY PathTyped, EmptySeq DEF AnyPath, Depth
<1>2. \A a \in AnyPath : IdIn(at, a) = Root <=> a = <<>>
  BY <1>1, IdOfRoot, IdTyped, AssumeFolders DEF Root, None
<1>3. P(0)  BY <1>1, <1>2
<1>4. ASSUME NEW n \in 0 .. 2, P(n) PROVE P(n + 1)
  <2> SUFFICES ASSUME NEW a \in AnyPath, NEW b \in AnyPath, Len(a) = n + 1,
                      IdIn(at, a) = IdIn(at, b), IdIn(at, a) # None
               PROVE  a = b
    OBVIOUS
  <2>1. a \in Paths /\ b \in Paths  BY <1>1, <1>2
  <2>2. IdIn(at, Parent(a)) = IdIn(at, Parent(b)) /\ IdIn(at, Parent(a)) # None /\ Last(a) = Last(b)
    BY <2>1, IdTyped, AssumeFolders DEF Folder, Root, None
  <2>3. Parent(a) = Parent(b)
    <3>1. Parent(a) \in AnyPath /\ Parent(b) \in AnyPath /\ Len(Parent(a)) = n
      BY <2>1, ParentIs
    <3> QED BY <1>4, <2>2, <3>1
  <2>4. Len(a) = Len(b)
    <3>1. Len(a) \in 1 .. Depth /\ Len(b) \in 1 .. Depth  BY <2>1, PathTyped
    <3> QED BY <2>1, <2>3, <3>1, ParentIs DEF Depth
  <2>5. \A i \in 1 .. Len(a) : a[i] = b[i]
    <3> SUFFICES ASSUME NEW i \in 1 .. Len(a) PROVE a[i] = b[i]  OBVIOUS
    <3>1. Len(a) \in 1 .. Depth  BY <2>1, PathTyped
    <3>2. CASE i = Len(a)  BY <2>1, <2>2, <2>4, <3>2, ParentIs
    <3>3. CASE i # Len(a)
      <4>1. i \in 1 .. Len(a) - 1 /\ Len(a) - 1 \in 0 .. Len(a)  BY <3>1, <3>3 DEF Depth
      <4>2. Parent(a) = Prefix(a, Len(a) - 1) /\ Parent(b) = Prefix(b, Len(a) - 1)
        BY <2>1, <2>4, ParentIs
      <4>3. Prefix(a, Len(a) - 1)[i] = a[i]  BY <4>1, PrefixIs
      <4>4. Prefix(b, Len(a) - 1)[i] = b[i]  BY <2>4, <4>1, PrefixIs
      <4> QED BY <2>3, <4>2, <4>3, <4>4
    <3> QED BY <3>2, <3>3
  <2> QED BY <2>4, <2>5, SamePath
<1>5. P(1)  BY <1>3, <1>4
<1>6. P(2)  BY <1>5, <1>4
<1>7. P(3)  BY <1>6, <1>4
<1>8. Len(p) \in {0, 1, 2, 3}  BY PathTyped DEF Depth
<1> QED BY <1>3, <1>5, <1>6, <1>7, <1>8

-----------------------------------------------------------------------------
(* What a change of one folder's place leaves as it was.                    *)

LEMMA Kept ==
    ASSUME NEW at, NEW bt, Unique(bt), NEW p \in AnyPath, IdIn(at, p) # None,
           \A i \in 1 .. Len(p) : IdIn(at, Prefix(p, i)) # None =>
               bt[IdIn(at, Prefix(p, i))] = at[IdIn(at, Prefix(p, i))]
    PROVE  IdIn(bt, p) = IdIn(at, p)
<1> DEFINE P(n) == n <= Len(p) /\ IdIn(at, Prefix(p, n)) # None =>
                       IdIn(bt, Prefix(p, n)) = IdIn(at, Prefix(p, n))
<1>1. Len(p) \in 0 .. 3  BY PathTyped DEF Depth
<1>2. P(0)  BY WholePrefix, IdOfRoot
<1>3. ASSUME NEW n \in 0 .. 2, P(n) PROVE P(n + 1)
  <2> SUFFICES ASSUME n + 1 <= Len(p), IdIn(at, Prefix(p, n + 1)) # None
               PROVE  IdIn(bt, Prefix(p, n + 1)) = IdIn(at, Prefix(p, n + 1))
    OBVIOUS
  <2> DEFINE f == IdIn(at, Prefix(p, n))
             g == IdIn(at, Prefix(p, n + 1))
             m == p[n + 1]
  <2>1. n + 1 \in 1 .. Len(p) /\ n \in 0 .. Len(p) /\ n + 1 - 1 = n  BY <1>1
  <2>2. \A ct : IdIn(ct, Prefix(p, n + 1)) =
                   IF IdIn(ct, Prefix(p, n)) = None THEN None ELSE Child(ct, IdIn(ct, Prefix(p, n)), m)
    <3> DEFINE k == n + 1
    <3>1. k \in 1 .. Len(p) /\ k - 1 = n  BY <2>1
    <3> HIDE DEF k
    <3>2. \A ct : IdIn(ct, Prefix(p, k)) =
                       IF IdIn(ct, Prefix(p, k - 1)) = None THEN None
                       ELSE Child(ct, IdIn(ct, Prefix(p, k - 1)), p[k])
      BY <3>1, IdOfPrefix
    <3> QED BY <3>1, <3>2 DEF k
  <2>3. f # None /\ g = Child(at, f, m)  BY <2>2
  <2>4. f \in Folder
    <3>1. Prefix(p, n) \in AnyPath  BY <2>1, PrefixIs
    <3> QED BY <2>3, <3>1, IdTyped
  <2>5. IdIn(bt, Prefix(p, n)) = f  BY <1>1, <1>3, <2>1, <2>3
  <2>6. g \in Folders /\ at[g] = <<f, m>>  BY <2>3, ChildTyped
  <2>7. bt[g] = <<f, m>>  BY <2>1, <2>6
  <2>8. IdIn(bt, Prefix(p, n + 1)) = Child(bt, f, m)  BY <2>3, <2>5, <2>2
  <2> HIDE DEF f, g, m
  <2>9. Child(bt, f, m) = g  BY <2>4, <2>6, <2>7, ChildIs
  <2> QED BY <2>8, <2>9 DEF g
<1>4. P(1)  BY <1>2, <1>3
<1>5. P(2)  BY <1>4, <1>3
<1>6. P(3)  BY <1>5, <1>3
<1>7. Len(p) \in {0, 1, 2, 3} /\ Len(p) <= Len(p)  BY <1>1
<1>8. P(Len(p))  BY <1>2, <1>4, <1>5, <1>6, <1>7
<1> QED BY <1>7, <1>8, WholePrefix

\* What is made takes nothing away.
LEMMA KeptByMaking ==
    ASSUME NEW at, NEW bt, Unique(bt), NEW f \in Folders, at[f] = Unmade,
           \A g \in Folders \ {f} : bt[g] = at[g],
           NEW p \in AnyPath, IdIn(at, p) # None
    PROVE  IdIn(bt, p) = IdIn(at, p)
<1> SUFFICES ASSUME NEW i \in 1 .. Len(p), IdIn(at, Prefix(p, i)) # None
             PROVE  bt[IdIn(at, Prefix(p, i))] = at[IdIn(at, Prefix(p, i))]
    BY Kept
<1>1. Prefix(p, i) \in Paths
  <2>1. Len(p) \in 0 .. Depth  BY PathTyped
  <2>2. i \in 0 .. Len(p) /\ i > 0  BY <2>1 DEF Depth
  <2> QED BY <2>2, PrefixIs
<1>2. /\ IdIn(at, Prefix(p, i)) \in Folders /\ IdIn(at, Parent(Prefix(p, i))) \in Folder
      /\ at[IdIn(at, Prefix(p, i))] = <<IdIn(at, Parent(Prefix(p, i))), Last(Prefix(p, i))>>
  BY <1>1, IdTyped DEF AnyPath
<1>3. IdIn(at, Prefix(p, i)) # f  BY <1>2, AssumeFolders DEF Unmade, Folder, Root
<1> QED BY <1>2, <1>3

\* What is moved or removed takes along what is below it, and no other path.
LEMMA KeptElsewhere ==
    ASSUME NEW at, NEW bt, Unique(bt), NEW f \in Folders,
           \A g \in Folders \ {f} : bt[g] = at[g],
           NEW q \in Paths, IdIn(at, q) = f,
           NEW p \in AnyPath, ~IsPrefix(q, p), IdIn(at, p) # None
    PROVE  IdIn(bt, p) = IdIn(at, p)
<1> SUFFICES ASSUME NEW i \in 1 .. Len(p), IdIn(at, Prefix(p, i)) # None
             PROVE  bt[IdIn(at, Prefix(p, i))] = at[IdIn(at, Prefix(p, i))]
    BY Kept
<1>1. Len(p) \in 0 .. Depth  BY PathTyped
<1>2. i \in 0 .. Len(p) /\ i > 0 /\ i <= Len(p)  BY <1>1 DEF Depth
<1>3. Prefix(p, i) \in Paths /\ Prefix(p, i) \in AnyPath /\ Len(Prefix(p, i)) = i  BY <1>2, PrefixIs
<1>4. IdIn(at, Prefix(p, i)) \in Folders  BY <1>3, IdTyped
<1>5. IdIn(at, Prefix(p, i)) # f
  <2> SUFFICES ASSUME IdIn(at, Prefix(p, i)) = f PROVE FALSE  OBVIOUS
  <2>1. q = Prefix(p, i)  BY <1>3, <1>4, OnePath DEF AnyPath
  <2>2. Len(q) = i  BY <2>1, <1>3
  <2>3. SubSeq(q, 1, Len(q)) = q  BY WholePrefix DEF AnyPath, Prefix
  <2>4. SubSeq(q, 1, Len(q)) = SubSeq(p, 1, Len(q))  BY <2>1, <2>2, <2>3 DEF Prefix
  <2> QED BY <1>2, <2>2, <2>4 DEF IsPrefix
<1> QED BY <1>4, <1>5

\* Names stay unique as long as none is given twice.
LEMMA StillUnique ==
    ASSUME NEW at \in [Folders -> Places], Unique(at), NEW f \in Folders, NEW x \in Places,
           x \in {Trash, Unmade} \/ \A g \in Folders : at[g] # x
    PROVE  Unique([at EXCEPT ![f] = x]) /\ [at EXCEPT ![f] = x] \in [Folders -> Places]
BY DEF Unique

-----------------------------------------------------------------------------
(* The cache.                                                               *)

\* The entries that stay are found by their ids if they were.
IDsStay(S) == \A p \in S : byPath'[p] = byPath[p] /\ (byID[byPath[p]] = p => byID'[byPath[p]] = p)

LEMMA DropKeeps ==
    ASSUME CacheOK, NEW S, Drop(S)
    PROVE  CacheOK' /\ Cached' = Cached \ S /\ raced' = raced \ S /\ IDsStay(Cached')
<1>1. byPath' \in [Paths -> Folders \cup {None}] /\ byID' \in [Folders -> Paths \cup {<<>>}]
  BY DEF CacheOK, Drop
<1>2. Cached' = Cached \ S  BY DEF CacheOK, Drop, Cached
<1>3. raced' = raced \ S  BY DEF Drop
<1>4. IDsStay(Cached')
  <2> SUFFICES ASSUME NEW p \in Cached'
               PROVE  byPath'[p] = byPath[p] /\ (byID[byPath[p]] = p => byID'[byPath[p]] = p)
    BY DEF IDsStay
  <2>1. p \in Paths /\ p \notin S /\ byPath[p] # None  BY <1>2 DEF Cached
  <2>2. byPath'[p] = byPath[p]  BY <2>1 DEF Drop
  <2>3. byPath[p] \in Folders  BY <2>1 DEF CacheOK
  <2> QED BY <2>1, <2>2, <2>3 DEF Drop
<1>5. IsFiniteSet(Cached') /\ Cardinality(Cached') <= MaxEntries
  <2>1. Cached' \subseteq Cached  BY <1>2
  <2>2. IsFiniteSet(Cached') /\ Cardinality(Cached') <= Cardinality(Cached)
    BY <2>1, FS_Subset DEF CacheOK
  <2>3. Cardinality(Cached') \in Nat /\ Cardinality(Cached) \in Nat
    BY <2>2, FS_CardinalityType DEF CacheOK
  <2>4. MaxEntries \in Nat  BY AssumeBounds
  <2> QED BY <2>2, <2>3, <2>4 DEF CacheOK
<1>6. raced' \subseteq Cached'  BY <1>2, <1>3 DEF CacheOK
<1> QED BY <1>1, <1>2, <1>3, <1>4, <1>5, <1>6 DEF CacheOK

LEMMA StoreKeeps ==
    ASSUME CacheOK, NEW p \in Paths, NEW f \in Folders, NEW late \in BOOLEAN, Store(p, f, late)
    PROVE  /\ CacheOK'
           /\ p \in Cached' /\ byPath'[p] = f /\ byID'[f] = p
           /\ p \in raced' <=> late
           /\ \A q \in Cached' \ {p} :
                  /\ q \in Cached /\ byPath'[q] = byPath[q]
                  /\ q \in raced <=> q \in raced'
                  /\ byID[byPath[q]] = q /\ byPath[q] # f => byID'[byPath[q]] = q
<1>1. PICK gone \in Evictions(p) :
          /\ byPath' = [q \in Paths |-> IF q = p THEN f ELSE IF q \in gone THEN None ELSE byPath[q]]
          /\ byID' = Named(p, f, gone)
          /\ raced' = (raced \ (gone \cup {p})) \cup (IF late THEN {p} ELSE {})
  BY DEF Store
<1>2. gone \subseteq Cached \ {p}  BY DEF Evictions
<1>3. f # None  BY AssumeFolders DEF None
<1>4. Cached' = (Cached \cup {p}) \ gone  BY <1>1, <1>2, <1>3 DEF Cached, CacheOK
<1>5. byPath' \in [Paths -> Folders \cup {None}]  BY <1>1 DEF CacheOK
<1>6. byID' \in [Folders -> Paths \cup {<<>>}]  BY <1>1 DEF CacheOK, Named
<1>7. p \in Cached' /\ byPath'[p] = f /\ byID'[f] = p
  BY <1>1, <1>2, <1>4 DEF CacheOK, Named
<1>8. (p \in raced' <=> late) /\ raced' \subseteq Cached'
  BY <1>1, <1>2, <1>4 DEF CacheOK
<1>9. ASSUME NEW q \in Cached' \ {p}
      PROVE  /\ q \in Cached /\ byPath'[q] = byPath[q]
             /\ q \in raced <=> q \in raced'
             /\ byID[byPath[q]] = q /\ byPath[q] # f => byID'[byPath[q]] = q
  <2>1. q \in Cached /\ q \notin gone /\ q \in Paths  BY <1>4 DEF Cached
  <2>2. byPath'[q] = byPath[q]  BY <1>1, <2>1
  <2>3. q \in raced <=> q \in raced'  BY <1>1, <2>1
  <2>4. byPath[q] \in Folders  BY <2>1 DEF CacheOK, Cached
  <2>5. ASSUME byID[byPath[q]] = q, byPath[q] # f PROVE byID'[byPath[q]] = q
    BY <1>1, <2>1, <2>4, <2>5 DEF Named
  <2> QED BY <2>1, <2>2, <2>3, <2>5
<1>10. IsFiniteSet(Cached') /\ Cardinality(Cached') <= MaxEntries
  <2> DEFINE all == Cached \cup {p}
  <2>1. IsFiniteSet(all)  BY FS_AddElement DEF CacheOK
  <2>2. gone \subseteq all  BY <1>2
  <2>3. IsFiniteSet(gone) /\ IsFiniteSet(all \ gone)  BY <2>1, <2>2, FS_Subset
  <2>4. Cardinality(all \ gone) = Cardinality(all) - Cardinality(gone)
    <3>1. Cardinality(all \ gone) = Cardinality(all) - Cardinality(all \cap gone)
      BY <2>1, <2>3, FS_Difference
    <3>2. all \cap gone = gone  BY <2>2
    <3> QED BY <3>1, <3>2
  <2>5. Cardinality(all) \in Nat /\ Cardinality(gone) \in Nat  BY <2>1, <2>3, FS_CardinalityType
  <2>6. Cardinality(gone) = IF Cardinality(all) > MaxEntries THEN Cardinality(all) - MaxEntries ELSE 0
    BY DEF Evictions
  <2>7. MaxEntries \in Nat  BY AssumeBounds
  <2> HIDE DEF all
  <2>8. Cardinality(all \ gone) <= MaxEntries  BY <2>4, <2>5, <2>6, <2>7
  <2> QED BY <1>4, <2>3, <2>8 DEF all
<1> QED BY <1>5, <1>6, <1>7, <1>8, <1>9, <1>10 DEF CacheOK

-----------------------------------------------------------------------------
(* What the threads are in the middle of.                                   *)

LEMMA SetFine ==
    ASSUME ThreadsOK, NEW t \in Threads, NEW r, Fine(t, r), Set(t, r)
    PROVE  ThreadsOK'
<1>1. th' \in [Threads -> Thread]  BY DEF ThreadsOK, Set, Fine
<1>2. \A s \in Threads : Fine(s, th'[s])
  BY DEF ThreadsOK, Set
<1> QED BY <1>1, <1>2 DEF ThreadsOK, Fine, EnsurerShape, UserShape, Thread

LEMMA HereIs ==
    ASSUME NEW t \in Threads, th[t].goal \in Paths, th[t].lvl \in 0 .. Len(th[t].goal)
    PROVE  /\ Here(t) = Prefix(th[t].goal, th[t].lvl) /\ Here(t) \in AnyPath
           /\ th[t].lvl > 0 => Here(t) \in Paths
           /\ Here(t) = th[t].goal <=> th[t].lvl = Len(th[t].goal)
           /\ th[t].lvl = 0 => Here(t) = <<>>
<1>1. th[t].goal \in AnyPath  BY DEF AnyPath
<1>2. Here(t) = Prefix(th[t].goal, th[t].lvl)  BY DEF Here, Prefix
<1>3. /\ Here(t) \in AnyPath /\ Len(Here(t)) = th[t].lvl
      /\ th[t].lvl > 0 => Here(t) \in Paths
  BY <1>1, <1>2, PrefixIs
<1>4. th[t].lvl = Len(th[t].goal) => Here(t) = th[t].goal  BY <1>1, <1>2, WholePrefix
<1>5. th[t].lvl = 0 => Here(t) = <<>>  BY <1>1, <1>2, WholePrefix
<1> QED BY <1>2, <1>3, <1>4, <1>5

LEMMA IdleTyped == Idle \in Thread /\ Idle.pc = "idle" /\ Idle.op = "ensure"
<1>1. <<>> \in Seq(Names)  BY EmptySeq
<1>2. 0 \in 0 .. MaxCalls  BY AssumeBounds
<1> QED BY <1>1, <1>2 DEF Idle, Thread, Labels, Folder, None, Root, Depth

LEMMA OverFine ==
    ASSUME ThreadsOK, NEW t \in Threads, NEW out \in {"ok", "error"}
    PROVE  Fine(t, Over(t, out))
<1>1. th[t] \in Thread  BY DEF ThreadsOK
<1>2. Over(t, out) \in Thread
  <2> DEFINE got == IF t \in Ensurers THEN th[t].id ELSE None
  <2>1. got \in Folder \cup {None} /\ th[t].calls \in 0 .. MaxCalls /\ th[t].goal \in Paths \cup {<<>>}
    BY <1>1 DEF Thread
  <2> HIDE DEF got
  <2>2. [Idle EXCEPT !.calls = th[t].calls, !.goal = th[t].goal, !.out = out, !.got = got] \in Thread
    BY <2>1, IdleTyped DEF Thread
  <2> QED BY <2>2 DEF Over, got
<1>3. Over(t, out).pc = "idle" /\ Over(t, out).op = "ensure"
  BY IdleTyped DEF Over, Thread
<1> QED BY <1>2, <1>3 DEF Fine, EnsurerShape, UserShape

LEMMA FoundFine ==
    ASSUME ThreadsOK, NEW e \in Ensurers, th[e].goal \in Paths,
           th[e].lvl \in 0 .. Len(th[e].goal), NEW f \in Folder, NEW fresh \in BOOLEAN,
           Found(e, f, fresh)
    PROVE  ThreadsOK'
<1>1. e \in Threads /\ e \notin Users /\ th[e] \in Thread /\ Fine(e, th[e])
  BY AssumeFaults DEF Threads, ThreadsOK
<1>2. Len(th[e].goal) \in 1 .. Depth  BY PathTyped DEF AnyPath
<1>3. CASE Here(e) = th[e].goal
  <2> DEFINE r == [th[e] EXCEPT !.pc = "write", !.id = f, !.fresh = fresh]
  <2>1. r \in Thread  BY <1>1 DEF Thread, Labels
  <2>2. Fine(e, r)  BY <1>1, <2>1 DEF Fine, EnsurerShape, Thread
  <2> QED BY <1>1, <1>3, <2>2, SetFine DEF Found
<1>4. CASE Here(e) # th[e].goal
  <2> DEFINE r == [th[e] EXCEPT !.pc = "create", !.id = f, !.fresh = fresh, !.lvl = @ + 1, !.again = FALSE]
  <2>1. th[e].lvl + 1 \in 1 .. Len(th[e].goal) /\ th[e].lvl + 1 \in 0 .. Depth
    <3>1. th[e].lvl # Len(th[e].goal)  BY <1>1, <1>4, HereIs
    <3>2. \A k \in 1 .. 3 : \A j \in 0 .. k : j # k => j + 1 \in 1 .. k /\ j + 1 \in 0 .. 3  OBVIOUS
    <3> QED BY <1>2, <3>1, <3>2 DEF Depth
  <2>2. r \in Thread  BY <1>1, <2>1 DEF Thread, Labels
  <2>3. Fine(e, r)  BY <1>1, <2>1, <2>2 DEF Fine, EnsurerShape, Thread
  <2> QED BY <1>1, <1>4, <2>3, SetFine DEF Found
<1> QED BY <1>3, <1>4

-----------------------------------------------------------------------------
(* Types, step by step.                                                     *)

LEMMA CacheSame == CacheOK /\ UNCHANGED cacheVars => CacheOK' /\ Cached' = Cached
BY DEF CacheOK, Cached, cacheVars

LEMMA WorldSame == World /\ UNCHANGED <<place, faults>> => World'
BY DEF World, Unique

LEMMA WorldFaulty ==
    ASSUME World, NEW kind, Wrong(kind)
    PROVE  faults' \in 1 .. MaxFaults /\ (UNCHANGED place => World')
<1>1. faults' \in 1 .. MaxFaults  BY AssumeBounds DEF World, Wrong
<1> QED BY <1>1 DEF World, Unique

LEMMA EndsTyped ==
    ASSUME ThreadsOK, NEW t \in Threads, NEW out \in {"ok", "error"}, Ends(t, out)
    PROVE  ThreadsOK'
BY OverFine, SetFine DEF Ends

LEMMA EnsureTyped ==
    ASSUME Typed, NEW e \in Ensurers, NEW goal \in Goals, Ensure(e, goal)
    PROVE  Typed'
<1>1. e \in Threads /\ e \notin Users /\ th[e] \in Thread
  BY AssumeFaults DEF Threads, Typed, ThreadsOK
<1>2. goal \in Paths /\ Len(goal) \in 1 .. Depth  BY AssumeGoals, PathTyped DEF AnyPath
<1> DEFINE r == [Idle EXCEPT !.pc = "lookup", !.goal = goal, !.lvl = Len(goal), !.calls = th[e].calls + 1]
<1>3. th[e].calls + 1 \in 0 .. MaxCalls  BY <1>1, AssumeBounds DEF Thread, Ensure
<1>4. r \in Thread
  <2> DEFINE n == Len(goal)
             c == th[e].calls + 1
  <2>1. n \in 0 .. Depth  BY <1>2 DEF Depth
  <2> HIDE DEF n, c
  <2>2. [Idle EXCEPT !.pc = "lookup", !.goal = goal, !.lvl = n, !.calls = c] \in Thread
    BY <1>2, <1>3, <2>1, IdleTyped DEF Thread, Labels, c
  <2> QED BY <2>2 DEF n, c
<1>5. r.pc = "lookup" /\ r.goal = goal /\ r.lvl = Len(goal) /\ r.op = "ensure" /\ r.again = FALSE
  BY IdleTyped DEF Thread, Idle
<1>6. r.lvl \in 0 .. Len(r.goal)  BY <1>2, <1>5 DEF Depth
<1> HIDE DEF r
<1>7. Fine(e, r)  BY <1>1, <1>2, <1>4, <1>5, <1>6 DEF Fine, EnsurerShape
<1>8. Set(e, r)  BY DEF Ensure, r
<1> QED BY <1>1, <1>7, <1>8, SetFine, CacheSame, WorldSame DEF Typed, Ensure

LEMMA LookupTyped ==
    ASSUME Typed, NEW e \in Ensurers, Lookup(e)
    PROVE  Typed'
<1>1. e \in Threads /\ e \notin Users /\ th[e] \in Thread /\ Fine(e, th[e])
  BY AssumeFaults DEF Threads, Typed, ThreadsOK
<1>2. /\ th[e].goal \in Paths /\ th[e].lvl \in 0 .. Len(th[e].goal)
      /\ th[e].pc = "lookup"
  BY <1>1 DEF Lookup, At, Fine, EnsurerShape
<1>3. World'  BY WorldSame DEF Typed, Lookup
<1>4. CASE th[e].lvl = 0 /\ Found(e, Root, TRUE) /\ UNCHANGED cacheVars
  <2>1. Root \in Folder  BY DEF Folder
  <2> QED BY <1>2, <1>3, <1>4, <2>1, FoundFine, CacheSame DEF Typed
<1>5. CASE /\ th[e].lvl > 0 /\ Here(e) \in Cached /\ UNCHANGED cacheVars
           /\ Found(e, byPath[Here(e)], Here(e) \notin raced /\ Changing = {})
  <2>1. byPath[Here(e)] \in Folder  BY <1>5 DEF Cached, Typed, CacheOK, Folder
  <2>2. (Here(e) \notin raced /\ Changing = {}) \in BOOLEAN  OBVIOUS
  <2> QED BY <1>2, <1>3, <1>5, <2>1, <2>2, FoundFine, CacheSame DEF Typed
<1>6. CASE th[e].lvl > 0 /\ Goto(e, "ask") /\ Drop({Here(e)} \cap Cached)
  <2> DEFINE r == [th[e] EXCEPT !.pc = "ask"]
  <2>1. r \in Thread  BY <1>1 DEF Thread, Labels
  <2>2. th[e].lvl \in 1 .. Len(th[e].goal)
    <3>1. Len(th[e].goal) \in Nat  BY <1>2, PathTyped DEF AnyPath, Depth
    <3> QED BY <1>2, <1>6, <3>1
  <2>3. Fine(e, r)  BY <1>1, <1>2, <2>1, <2>2 DEF Fine, EnsurerShape, Thread
  <2>4. ThreadsOK'  BY <1>1, <1>6, <2>3, SetFine DEF Goto, Typed
  <2>5. CacheOK'  BY <1>6, DropKeeps DEF Typed
  <2> QED BY <1>3, <2>4, <2>5 DEF Typed
<1> QED BY <1>4, <1>5, <1>6 DEF Lookup

LEMMA AskTyped ==
    ASSUME Typed, NEW e \in Ensurers, Ask(e)
    PROVE  Typed'
<1> DEFINE f == IdAt(Here(e))
<1>1. e \in Threads /\ e \notin Users /\ th[e] \in Thread /\ Fine(e, th[e])
  BY AssumeFaults DEF Threads, Typed, ThreadsOK
<1>2. /\ th[e].goal \in Paths /\ th[e].lvl \in 1 .. Len(th[e].goal)
      /\ th[e].pc = "ask"
  BY <1>1 DEF Ask, At, Fine, EnsurerShape
<1>3. Len(th[e].goal) \in 1 .. Depth  BY <1>2, PathTyped DEF AnyPath
<1>4. th[e].lvl \in 0 .. Len(th[e].goal) /\ th[e].lvl > 0 /\ th[e].lvl - 1 \in 0 .. Len(th[e].goal)
      /\ th[e].lvl - 1 \in 0 .. Depth
  <2>1. \A k \in 1 .. 3 : \A j \in 1 .. k : j \in 0 .. k /\ j > 0 /\ j - 1 \in 0 .. k /\ j - 1 \in 0 .. 3
    OBVIOUS
  <2> QED BY <1>2, <1>3, <2>1 DEF Depth
<1>5. f \in Folders \cup {None}  BY <1>1, <1>2, <1>4, HereIs, IdTyped DEF IdAt
<1>6. CacheOK' /\ (UNCHANGED faults => World')
  BY CacheSame, WorldSame DEF Typed, Ask
<1>7. CASE f # None /\ Set(e, [th[e] EXCEPT !.pc = "store", !.got = f, !.fresh = TRUE]) /\ UNCHANGED faults
  <2> DEFINE r == [th[e] EXCEPT !.pc = "store", !.got = f, !.fresh = TRUE]
  <2> HIDE DEF f
  <2>1. f \in Folders /\ f \in Folder  BY <1>5, <1>7 DEF Folder
  <2>2. r \in Thread  BY <1>1, <2>1 DEF Thread, Labels
  <2>3. Fine(e, r)  BY <1>1, <1>2, <2>1, <2>2 DEF Fine, EnsurerShape, Thread
  <2> QED BY <1>1, <1>6, <1>7, <2>3, SetFine DEF Typed
<1>8. CASE /\ f = None /\ ~th[e].again /\ UNCHANGED faults
           /\ Set(e, [th[e] EXCEPT !.pc = "lookup", !.lvl = @ - 1])
  <2> DEFINE r == [th[e] EXCEPT !.pc = "lookup", !.lvl = @ - 1]
  <2>1. r \in Thread  BY <1>1, <1>4 DEF Thread, Labels
  <2>2. r.pc = "lookup" /\ r.goal = th[e].goal /\ r.lvl = th[e].lvl - 1 /\ r.op = th[e].op /\ r.again = th[e].again
    BY <1>1 DEF Thread
  <2> HIDE DEF r
  <2>3. Fine(e, r)  BY <1>1, <1>2, <1>4, <1>8, <2>1, <2>2 DEF Fine, EnsurerShape
  <2> QED BY <1>1, <1>6, <1>8, <2>3, SetFine DEF Typed, r
<1>9. CASE f = None /\ th[e].again /\ Ends(e, "error") /\ UNCHANGED faults
  BY <1>1, <1>6, <1>9, EndsTyped DEF Typed
<1>10. CASE Wrong("fail") /\ Ends(e, "error")
  <2>1. World'  BY <1>10, WorldFaulty DEF Typed, Ask
  <2> QED BY <1>1, <1>6, <1>10, <2>1, EndsTyped DEF Typed
<1> QED BY <1>7, <1>8, <1>9, <1>10 DEF Ask

LEMMA KeepTyped ==
    ASSUME Typed, NEW e \in Ensurers, Keep(e)
    PROVE  Typed' /\ Here(e) \in Paths /\ th[e].got \in Folders
<1>1. e \in Threads /\ e \notin Users /\ th[e] \in Thread /\ Fine(e, th[e])
  BY AssumeFaults DEF Threads, Typed, ThreadsOK
<1>2. /\ th[e].goal \in Paths /\ th[e].lvl \in 1 .. Len(th[e].goal)
      /\ th[e].got \in Folders
  BY <1>1 DEF Keep, At, Fine, EnsurerShape
<1>3. th[e].lvl \in 0 .. Len(th[e].goal) /\ th[e].lvl > 0
  <2>1. Len(th[e].goal) \in 1 .. Depth  BY <1>2, PathTyped DEF AnyPath
  <2> QED BY <1>2, <2>1 DEF Depth
<1>4. Here(e) \in Paths  BY <1>1, <1>2, <1>3, HereIs
<1>5. th[e].fresh \in BOOLEAN  BY <1>1 DEF Thread
<1>6. ThreadsOK'  BY <1>2, <1>3, <1>5, FoundFine DEF Keep, Typed, Folder
<1>7. CacheOK'
  <2>1. (~th[e].fresh) \in BOOLEAN  BY <1>5
  <2> QED BY <1>2, <1>4, <2>1, StoreKeeps DEF Keep, Typed
<1> QED BY <1>2, <1>4, <1>6, <1>7, WorldSame DEF Keep, Typed

LEMMA WriteTyped ==
    ASSUME Typed, NEW e \in Ensurers, Write(e)
    PROVE  Typed'
<1>1. e \in Threads  BY DEF Threads
<1> QED BY <1>1, EndsTyped, DropKeeps, WorldSame DEF Typed, Write

LEMMA UserAt ==
    ASSUME Typed, NEW u \in Users
    PROVE  /\ u \in Threads /\ u \notin Ensurers
           /\ th[u] \in Thread /\ UserShape(th[u])
           /\ th[u].pc # "idle" => th[u].goal \in Paths
BY AssumeFaults DEF Threads, Typed, ThreadsOK, Fine

LEMMA EnsurerAt ==
    ASSUME Typed, NEW e \in Ensurers
    PROVE  /\ e \in Threads /\ e \notin Users
           /\ th[e] \in Thread /\ EnsurerShape(th[e])
           /\ th[e].pc # "idle" => th[e].goal \in Paths
BY AssumeFaults DEF Threads, Typed, ThreadsOK, Fine

LEMMA LevelIs ==
    ASSUME NEW t \in Threads, th[t].goal \in Paths, th[t].lvl \in 1 .. Len(th[t].goal)
    PROVE  /\ th[t].lvl \in 0 .. Len(th[t].goal) /\ th[t].lvl > 0
           /\ th[t].lvl - 1 \in 0 .. Len(th[t].goal) /\ th[t].lvl - 1 \in 0 .. Depth
           /\ th[t].lvl > 1 => th[t].lvl - 1 \in 1 .. Len(th[t].goal)
           /\ th[t].lvl < Len(th[t].goal) =>
                  th[t].lvl + 1 \in 1 .. Len(th[t].goal) /\ th[t].lvl + 1 \in 0 .. Depth
           /\ th[t].goal[th[t].lvl] \in Names
<1>1. Len(th[t].goal) \in 1 .. 3 /\ \A i \in 1 .. Len(th[t].goal) : th[t].goal[i] \in Names
  BY PathTyped DEF AnyPath, Depth
<1>2. \A k \in 1 .. 3 : \A j \in 1 .. k :
          /\ j \in 0 .. k /\ j > 0 /\ j - 1 \in 0 .. k /\ j - 1 \in 0 .. 3
          /\ j > 1 => j - 1 \in 1 .. k
          /\ j < k => j + 1 \in 1 .. k /\ j + 1 \in 0 .. 3
  OBVIOUS
<1> QED BY <1>1, <1>2, Zenon DEF Depth

LEMMA CreatingAt ==
    ASSUME Typed, NEW t \in Threads, At(t, "create")
    PROVE  /\ th[t].goal \in Paths /\ th[t].lvl \in 1 .. Len(th[t].goal) /\ th[t].id \in Folder
           /\ th[t].goal[th[t].lvl] \in Names
<1>1. th[t].goal \in Paths /\ th[t].lvl \in 1 .. Len(th[t].goal) /\ th[t].id \in Folder
  <2>1. CASE t \in Ensurers  BY <2>1, EnsurerAt DEF At, EnsurerShape
  <2>2. CASE t \in Users  BY <2>2, UserAt DEF At, UserShape
  <2> QED BY <2>1, <2>2 DEF Threads
<1> QED BY <1>1, LevelIs

LEMMA MadeTyped ==
    ASSUME Typed, NEW t \in Threads, At(t, "create"), MayMake(t), NEW f \in NextId, Makes(t, f)
    PROVE  /\ place' \in [Folders -> Places] /\ Unique(place')
           /\ f \in Folders /\ place[f] = Unmade /\ \A g \in Folders \ {f} : place'[g] = place[g]
           /\ place'[f] = <<th[t].id, th[t].goal[th[t].lvl]>>
<1> DEFINE x == <<th[t].id, th[t].goal[th[t].lvl]>>
<1>1. f \in Folders /\ place[f] = Unmade  BY DEF NextId
<1>2. x \in Places  BY CreatingAt DEF Places
<1>3. \A g \in Folders : place[g] # x  BY ChildTyped DEF MayMake
<1>4. place' = [place EXCEPT ![f] = x]  BY DEF Makes
<1>5. place \in [Folders -> Places] /\ Unique(place)  BY DEF Typed, World
<1> HIDE DEF x
<1>6. place' \in [Folders -> Places] /\ Unique(place')  BY <1>1, <1>2, <1>3, <1>4, <1>5, StillUnique
<1> QED BY <1>1, <1>4, <1>5, <1>6 DEF x

LEMMA CreateTyped ==
    ASSUME Typed, NEW t \in Threads, Create(t)
    PROVE  Typed'
<1>1. /\ At(t, "create") /\ th[t].goal \in Paths /\ th[t].lvl \in 1 .. Len(th[t].goal)
      /\ th[t].id \in Folder /\ th[t] \in Thread /\ Fine(t, th[t])
  BY CreatingAt DEF Create, Typed, ThreadsOK
<1>2. CacheOK'  BY CacheSame DEF Typed, Create
<1>3. ASSUME NotCreated(t) PROVE ThreadsOK'
  <2>1. CASE t \in Ensurers
    <3> DEFINE r == [th[t] EXCEPT !.pc = "lookup", !.again = TRUE]
    <3>1. r \in Thread  BY <1>1 DEF Thread, Labels
    <3>2. t \notin Users  BY <2>1, AssumeFaults
    <3>3. Fine(t, r)  BY <1>1, <2>1, <3>1, <3>2, LevelIs DEF Fine, EnsurerShape, Thread, At
    <3> QED BY <1>3, <2>1, <3>3, SetFine DEF NotCreated, Typed
  <2> QED BY <1>3, <2>1, EndsTyped DEF NotCreated, Typed
<1>4. ASSUME MayMake(t), UNCHANGED faults, NEW f \in NextId,
             Makes(t, f), Set(t, [th[t] EXCEPT !.pc = "byid", !.got = f])
      PROVE  Typed'
  <2> DEFINE r == [th[t] EXCEPT !.pc = "byid", !.got = f]
  <2>1. f \in Folders /\ f \in Folder  BY DEF NextId, Folder
  <2>2. r \in Thread  BY <1>1, <2>1 DEF Thread, Labels
  <2>3. Fine(t, r)
    <3>1. CASE t \in Ensurers
      <4>1. t \notin Users  BY <3>1, AssumeFaults
      <4> QED BY <1>1, <2>1, <2>2, <3>1, <4>1 DEF Fine, EnsurerShape, Thread
    <3>2. CASE t \in Users
      <4>1. t \notin Ensurers  BY <3>2, AssumeFaults
      <4> QED BY <1>1, <2>1, <2>2, <3>2, <4>1 DEF Fine, UserShape, Thread, At
    <3> QED BY <3>1, <3>2 DEF Threads
  <2>4. ThreadsOK'  BY <1>4, <2>3, SetFine DEF Typed
  <2>5. World'  BY <1>1, <1>4, MadeTyped DEF World, Typed
  <2> QED BY <1>2, <2>4, <2>5 DEF Typed
<1>5. CASE ~MayMake(t) /\ NotCreated(t) /\ UNCHANGED <<place, faults>>
  BY <1>2, <1>3, <1>5, WorldSame DEF Typed
<1>6. CASE Wrong("fail") /\ NotCreated(t) /\ UNCHANGED place
  BY <1>2, <1>3, <1>6, WorldFaulty DEF Typed
<1>7. CASE Wrong("lost") /\ MayMake(t) /\ NotCreated(t) /\ \E f \in NextId : Makes(t, f)
  <2>1. faults' \in 0 .. MaxFaults
    <3>1. faults' \in 1 .. MaxFaults  BY <1>7, WorldFaulty DEF Typed
    <3> QED BY <3>1, AssumeBounds
  <2>2. World'  BY <1>1, <1>7, <2>1, MadeTyped DEF World, Typed
  <2> QED BY <1>2, <1>3, <1>7, <2>2 DEF Typed
<1> QED BY <1>4, <1>5, <1>6, <1>7 DEF Create

LEMMA InvalidateIDsTyped ==
    ASSUME Typed, NEW t \in Threads, InvalidateIDs(t)
    PROVE  Typed'
<1>1. th[t] \in Thread /\ Fine(t, th[t]) /\ th[t].pc = "byid"
  BY DEF Typed, ThreadsOK, InvalidateIDs, At
<1> DEFINE next == IF t \in Ensurers THEN "store" ELSE IF th[t].op = "remove" THEN "purge" ELSE "subtree"
           r == [th[t] EXCEPT !.pc = next]
<1>2. r \in Thread  BY <1>1 DEF Thread, Labels
<1>3. Fine(t, r)
  <2>1. CASE t \in Ensurers
    <3>1. t \notin Users  BY <2>1, AssumeFaults
    <3> QED BY <1>1, <1>2, <2>1, <3>1 DEF Fine, EnsurerShape, Thread
  <2>2. CASE t \in Users
    <3>1. t \notin Ensurers  BY <2>2, AssumeFaults
    <3> QED BY <1>1, <1>2, <2>2, <3>1 DEF Fine, UserShape, Thread
  <2> QED BY <2>1, <2>2 DEF Threads
<1>4. ThreadsOK'  BY <1>3, SetFine DEF InvalidateIDs, Goto, Typed
<1>5. CacheOK'  BY DropKeeps DEF InvalidateIDs, Typed
<1> QED BY <1>4, <1>5, WorldSame DEF InvalidateIDs, Typed

LEMMA RequestTyped ==
    ASSUME Typed, NEW u \in Users, NEW op \in Ops \ {"mkdir"}, NEW p \in Asked, NEW dst \in Seq(Names),
           At(u, "idle"), th[u].calls < MaxCalls,
           op # "remove" => dst # <<>>, op \in {"move", "copy"} => dst \in Paths
    PROVE  Fine(u, [Request(u, op, p) EXCEPT !.dst = dst])
<1>1. u \notin Ensurers /\ th[u] \in Thread  BY UserAt
<1>2. p \in Paths  BY AssumeGoals
<1> DEFINE c == th[u].calls + 1
           r == [Request(u, op, p) EXCEPT !.dst = dst]
<1>3. c \in 0 .. MaxCalls /\ c > 0  BY <1>1, AssumeBounds DEF Thread
<1> HIDE DEF c
<1>4. Request(u, op, p) = [Idle EXCEPT !.pc = "src", !.op = op, !.goal = p, !.calls = c]
  BY DEF Request, c
<1>5. /\ r \in Thread /\ r.pc = "src" /\ r.op = op /\ r.goal = p /\ r.calls = c /\ r.dst = dst
  BY <1>2, <1>3, <1>4, IdleTyped DEF Thread, Labels
<1> HIDE DEF r
<1>6. UserShape(r)  BY <1>3, <1>5 DEF UserShape
<1> QED BY <1>1, <1>2, <1>5, <1>6 DEF Fine, r

LEMMA CallTyped ==
    ASSUME Typed, NEW u \in Users, Call(u)
    PROVE  Typed' /\ th'[u].calls > 0
<1>1. u \in Threads /\ u \notin Ensurers /\ th[u] \in Thread  BY UserAt
<1>2. PICK op \in Ops, p \in Asked :
          \/ op = "mkdir" /\ Makeable(u, p)
          \/ op = "remove" /\ Set(u, Request(u, op, p))
          \/ op = "rename" /\ Renaming(u, p)
          \/ op \in {"move", "copy"} /\ Moving(u, op, p)
  BY DEF Call
<1>3. p \in Paths /\ Len(p) \in 1 .. Depth  BY AssumeGoals, PathTyped DEF AnyPath
<1>4. At(u, "idle") /\ th[u].calls < MaxCalls  BY DEF Call
<1>5. CacheOK' /\ World'  BY CacheSame, WorldSame DEF Typed, Call
<1> DEFINE Goes(r) == Set(u, r) /\ Fine(u, r) /\ r.calls > 0
<1>6. SUFFICES \E r : Goes(r)
  <2>1. ASSUME NEW r, Goes(r) PROVE ThreadsOK' /\ th'[u].calls > 0
    <3>1. ThreadsOK'  BY <1>1, <2>1, SetFine DEF Typed
    <3>2. th'[u] = r  BY <1>1, <2>1 DEF Set, Typed, ThreadsOK
    <3> QED BY <2>1, <3>1, <3>2
  <2> QED BY <1>5, <1>6, <2>1 DEF Typed
<1>7. CASE op = "mkdir" /\ Makeable(u, p)
  <2> DEFINE c == th[u].calls + 1
             n == Len(p)
             r == [Idle EXCEPT !.pc = "parent", !.op = "mkdir", !.goal = p, !.lvl = n, !.calls = c]
  <2>1. c \in 0 .. MaxCalls /\ c > 0  BY <1>1, <1>4, AssumeBounds DEF Thread
  <2>2. n \in 0 .. Depth /\ n \in 1 .. n  BY <1>3 DEF Depth
  <2>3. Set(u, r)  BY <1>7 DEF Makeable
  <2>4. n = Len(p)  OBVIOUS
  <2> HIDE DEF c, n
  <2>5. /\ r \in Thread /\ r.pc = "parent" /\ r.op = "mkdir" /\ r.goal = p /\ r.calls = c /\ r.lvl = n
    BY <1>3, <1>7, <2>1, <2>2, IdleTyped DEF Thread, Labels
  <2> HIDE DEF r
  <2>6. UserShape(r)  BY <1>7, <2>1, <2>2, <2>4, <2>5 DEF UserShape
  <2>7. Fine(u, r) /\ r.calls > 0  BY <1>1, <1>3, <2>1, <2>5, <2>6 DEF Fine
  <2> QED BY <2>3, <2>7
<1>8. ASSUME op # "mkdir", NEW dst \in Seq(Names), Set(u, [Request(u, op, p) EXCEPT !.dst = dst]),
             op # "remove" => dst # <<>>, op \in {"move", "copy"} => dst \in Paths
      PROVE  \E r : Goes(r)
  <2> DEFINE r == [Request(u, op, p) EXCEPT !.dst = dst]
  <2>1. Fine(u, r)  BY <1>4, <1>8, RequestTyped
  <2>2. r.calls > 0
    <3>1. r.pc = "src"  BY IdleTyped DEF Request, Idle
    <3> QED BY <2>1, <3>1 DEF Fine, UserShape
  <2> QED BY <1>8, <2>1, <2>2
<1>9. CASE op = "remove" /\ Set(u, Request(u, op, p))
  <2>1. <<>> \in Seq(Names)  BY EmptySeq
  <2>2. [Request(u, op, p) EXCEPT !.dst = <<>>] = Request(u, op, p)
    <3> DEFINE c == th[u].calls + 1
    <3>1. c \in 0 .. MaxCalls  BY <1>1, <1>4, AssumeBounds DEF Thread
    <3>2. Request(u, op, p) = [Idle EXCEPT !.pc = "src", !.op = op, !.goal = p, !.calls = c]
      BY DEF Request
    <3> HIDE DEF c
    <3>3. Request(u, op, p) \in Thread  BY <1>3, <3>1, <3>2, IdleTyped DEF Thread, Labels
    <3>4. Idle.dst = <<>>  BY DEF Idle
    <3>5. Request(u, op, p).dst = <<>>  BY <3>2, <3>4, IdleTyped DEF Thread
    <3> QED BY <3>3, <3>5 DEF Thread
  <2> QED BY <1>8, <1>9, <2>1, <2>2
<1>10. CASE op = "rename" /\ Renaming(u, p)
  <2>1. PICK n \in Names : Set(u, [Request(u, "rename", p) EXCEPT !.dst = Append(Parent(p), n)])
    BY <1>10 DEF Renaming
  <2>2. Parent(p) \in Seq(Names)  BY <1>3, ParentIs, PathTyped
  <2>3. Append(Parent(p), n) \in Seq(Names) /\ Append(Parent(p), n) # <<>>
    BY <2>2, AppendProperties, EmptySeq
  <2> QED BY <1>8, <1>10, <2>1, <2>3
<1>11. CASE op \in {"move", "copy"} /\ Moving(u, op, p)
  <2>1. PICK q \in Asked : Set(u, [Request(u, op, p) EXCEPT !.dst = q])  BY <1>11 DEF Moving
  <2>2. q \in Paths  BY AssumeGoals
  <2>3. q \in Seq(Names) /\ q # <<>>  BY <2>2, PathTyped, EmptySeq DEF AnyPath, Depth
  <2> QED BY <1>8, <1>11, <2>1, <2>2, <2>3
<1> QED BY <1>2, <1>7, <1>9, <1>10, <1>11

LEMMA FindParentTyped ==
    ASSUME Typed, NEW u \in Users, FindParent(u)
    PROVE  Typed'
<1> DEFINE f == IdAt(Parent(Here(u)))
<1>1. u \in Threads /\ u \notin Ensurers /\ th[u] \in Thread /\ UserShape(th[u]) /\ th[u].pc = "parent"
      /\ th[u].goal \in Paths
  BY UserAt DEF FindParent, At
<1>2. CacheOK' /\ World'  BY CacheSame, WorldSame DEF Typed, FindParent
<1>3. th[u].op = "mkdir" /\ th[u].lvl \in 1 .. Len(th[u].goal)  BY <1>1 DEF UserShape
<1>4. Here(u) \in Paths /\ Here(u) = Prefix(th[u].goal, th[u].lvl)  BY <1>1, <1>3, LevelIs, HereIs
<1>5. Parent(Here(u)) \in AnyPath /\ f \in Folder \cup {None}  BY <1>4, ParentIs, IdTyped DEF IdAt
<1>6. CASE f # None
  <2> DEFINE r == [th[u] EXCEPT !.pc = "create", !.id = f]
  <2>1. Set(u, r)  BY <1>6 DEF FindParent
  <2> HIDE DEF f
  <2>2. r \in Thread  BY <1>1, <1>5 DEF Thread, Labels
  <2>3. Fine(u, r)  BY <1>1, <1>5, <1>6, <2>2 DEF Fine, UserShape, Thread
  <2> QED BY <1>1, <1>2, <2>1, <2>3, SetFine DEF Typed
<1>7. CASE f = None /\ Set(u, [th[u] EXCEPT !.lvl = @ - 1])
  <2>1. th[u].lvl > 1
    <3> SUFFICES ASSUME ~(th[u].lvl > 1) PROVE FALSE  OBVIOUS
    <3>1. th[u].lvl = 1  BY <1>1, <1>3 DEF Thread, Depth
    <3>2. th[u].goal \in AnyPath /\ th[u].lvl \in 0 .. Len(th[u].goal)
      BY <1>1, <1>3, LevelIs DEF AnyPath
    <3>3. Len(Here(u)) = 1  BY <1>4, <3>1, <3>2, PrefixIs
    <3>4. Parent(Here(u)) = Prefix(Here(u), 0)
      BY <1>4, <3>3, ParentIs
    <3>5. Parent(Here(u)) = <<>>  BY <1>4, <3>4, WholePrefix DEF AnyPath
    <3>6. f = Root  BY <3>5, IdOfRoot DEF IdAt
    <3> QED BY <1>7, <3>6 DEF Root, None
  <2> DEFINE k == th[u].lvl - 1
             r == [th[u] EXCEPT !.lvl = k]
  <2>2. k \in 1 .. Len(th[u].goal) /\ k \in 0 .. Depth  BY <1>1, <1>3, <2>1, LevelIs
  <2>3. Set(u, r)  BY <1>7
  <2> HIDE DEF k
  <2>4. r \in Thread  BY <1>1, <2>2 DEF Thread
  <2>5. Fine(u, r)  BY <1>1, <2>2, <2>4 DEF Fine, UserShape, Thread
  <2> QED BY <1>1, <1>2, <2>3, <2>5, SetFine DEF Typed
<1>8. CASE f = None /\ Ends(u, "error")
  BY <1>1, <1>2, <1>8, EndsTyped DEF Typed
<1> QED BY <1>6, <1>7, <1>8 DEF FindParent

LEMMA FindSourceTyped ==
    ASSUME Typed, NEW u \in Users, FindSource(u)
    PROVE  Typed'
<1> DEFINE f == IdAt(th[u].goal)
<1>1. u \in Threads /\ u \notin Ensurers /\ th[u] \in Thread /\ UserShape(th[u]) /\ th[u].pc = "src"
      /\ th[u].goal \in Paths
  BY UserAt DEF FindSource, At
<1>2. CacheOK' /\ World'  BY CacheSame, WorldSame DEF Typed, FindSource
<1>3. f \in Folders \cup {None}  BY <1>1, IdTyped DEF IdAt, AnyPath
<1>4. CASE f = None
  BY <1>1, <1>2, <1>4, EndsTyped DEF Typed, FindSource
<1>5. CASE f # None
  <2> DEFINE to == IF th[u].op \in {"move", "copy"} THEN "dst" ELSE "change"
             r == [th[u] EXCEPT !.id = f, !.pc = to]
  <2>1. Set(u, r)  BY <1>5 DEF FindSource
  <2> HIDE DEF f
  <2>2. r \in Thread  BY <1>1, <1>3, <1>5 DEF Thread, Labels, Folder
  <2>3. Fine(u, r)
    <3>1. CASE th[u].op \in {"move", "copy"}
      BY <1>1, <1>3, <1>5, <2>2, <3>1 DEF Fine, UserShape, Thread
    <3>2. CASE th[u].op \notin {"move", "copy"}
      BY <1>1, <1>3, <1>5, <2>2, <3>2 DEF Fine, UserShape, Thread
    <3> QED BY <3>1, <3>2
  <2> QED BY <1>1, <1>2, <2>1, <2>3, SetFine DEF Typed
<1> QED BY <1>4, <1>5

LEMMA FindTargetTyped ==
    ASSUME Typed, NEW u \in Users, FindTarget(u)
    PROVE  Typed'
<1> DEFINE q == th[u].dst
<1>1. u \in Threads /\ u \notin Ensurers /\ th[u] \in Thread /\ UserShape(th[u]) /\ th[u].pc = "dst"
      /\ th[u].goal \in Paths
  BY UserAt DEF FindTarget, At
<1>2. CacheOK' /\ World'  BY CacheSame, WorldSame DEF Typed, FindTarget
<1>3. th[u].op \in {"move", "copy"} /\ q \in Paths /\ q \in AnyPath  BY <1>1 DEF UserShape, AnyPath
<1>4. IdAt(q) \in Folder \cup {None} /\ IdAt(Parent(q)) \in Folder \cup {None}
  BY <1>3, ParentIs, IdTyped DEF IdAt
<1>5. CASE IdAt(q) # None
  <2> DEFINE f == IdAt(q)
             d == Append(q, Last(th[u].goal))
             r == [th[u] EXCEPT !.to = f, !.dst = d, !.pc = "change"]
  <2>1. Set(u, r)  BY <1>5 DEF FindTarget
  <2>2. d \in Seq(Names) /\ d # <<>>
    <3>1. q \in Seq(Names)  BY <1>3, PathTyped
    <3>2. Last(th[u].goal) \in Names  BY <1>1, ParentIs
    <3> QED BY <3>1, <3>2, AppendProperties, EmptySeq
  <2>3. f \in Folder  BY <1>4, <1>5
  <2> HIDE DEF f, d
  <2>4. r \in Thread  BY <1>1, <2>2, <2>3 DEF Thread, Labels
  <2>5. Fine(u, r)  BY <1>1, <1>3, <2>2, <2>3, <2>4 DEF Fine, UserShape, Thread
  <2> QED BY <1>1, <1>2, <2>1, <2>5, SetFine DEF Typed
<1>6. CASE IdAt(q) = None /\ IdAt(Parent(q)) = None
  <2>1. Ends(u, "error")  BY <1>6 DEF FindTarget
  <2> QED BY <1>1, <1>2, <2>1, EndsTyped DEF Typed
<1>7. CASE IdAt(q) = None /\ IdAt(Parent(q)) # None
  <2> DEFINE f == IdAt(Parent(q))
             r == [th[u] EXCEPT !.to = f, !.pc = "change"]
  <2>1. Set(u, r)  BY <1>7 DEF FindTarget
  <2>2. f \in Folder  BY <1>4, <1>7
  <2> HIDE DEF f
  <2>3. r \in Thread  BY <1>1, <2>2 DEF Thread, Labels
  <2>4. Fine(u, r)  BY <1>1, <1>3, <2>2, <2>3 DEF Fine, UserShape, Thread
  <2> QED BY <1>1, <1>2, <2>1, <2>4, SetFine DEF Typed
<1> QED BY <1>5, <1>6, <1>7

LEMMA LiveAt ==
    ASSUME Typed, NEW f \in Folders, Live(f)
    PROVE  place[f][1] \in Folder
<1>1. PICK p \in Paths : IdIn(place, p) = f  BY AssumeFolders DEF Live, LiveIn, Root
<1>2. f # None  BY AssumeFolders DEF None
<1> QED BY <1>1, <1>2, IdTyped DEF AnyPath

\* What one write does to the tree: one folder has another place, and no name is taken.
LEMMA PlacedTyped ==
    ASSUME Typed, NEW u \in Users, At(u, "change"), Live(th[u].id), NEW at \in Placed(u)
    PROVE  /\ at \in [Folders -> Places] /\ Unique(at)
           /\ \E f \in Folders : /\ f = th[u].id \/ place[f] = Unmade
                                 /\ \A g \in Folders \ {f} : at[g] = place[g]
<1>1. th[u] \in Thread /\ UserShape(th[u]) /\ th[u].pc = "change"
  BY UserAt DEF At
<1>2. th[u].op \in {"rename", "move", "copy", "remove"} /\ th[u].id \in Folders
  BY <1>1, AssumeOps DEF UserShape
<1>3. place \in [Folders -> Places] /\ Unique(place)  BY DEF Typed, World
<1>4. ASSUME th[u].op # "remove" PROVE Last(th[u].dst) \in Names
  <2>1. th[u].dst \in Seq(Names) /\ th[u].dst # <<>>  BY <1>1, <1>2, <1>4 DEF UserShape, Thread
  <2>2. Len(th[u].dst) \in 1 .. Len(th[u].dst)  BY <2>1, EmptySeq
  <2> QED BY <2>1, <2>2, ElementOfSeq DEF Last
<1>5. ASSUME NEW f \in Folders, NEW x \in Places,
             x \in {Trash, Unmade} \/ \A g \in Folders : place[g] # x,
             at = [place EXCEPT ![f] = x],
             f = th[u].id \/ place[f] = Unmade
      PROVE  /\ at \in [Folders -> Places] /\ Unique(at)
             /\ \E g \in Folders : /\ g = th[u].id \/ place[g] = Unmade
                                   /\ \A h \in Folders \ {g} : at[h] = place[h]
  <2>1. at \in [Folders -> Places] /\ Unique(at)  BY <1>3, <1>5, StillUnique
  <2>2. \A h \in Folders \ {f} : at[h] = place[h]  BY <1>3, <1>5
  <2> QED BY <1>5, <2>1, <2>2
<1>6. CASE th[u].op = "remove"
  <2>1. at = [place EXCEPT ![th[u].id] = Trash]  BY <1>6 DEF Placed, Trashed
  <2>2. Trash \in Places  BY DEF Places
  <2> QED BY <1>2, <1>5, <2>1, <2>2
<1>7. CASE th[u].op = "rename"
  <2> DEFINE parent == place[th[u].id][1]
             x == <<parent, Last(th[u].dst)>>
  <2>1. Child(place, parent, Last(th[u].dst)) = None /\ at = [place EXCEPT ![th[u].id] = x]
    BY <1>7 DEF Placed, Renamed
  <2>2. parent \in Folder  BY <1>2, LiveAt
  <2>3. x \in Places  BY <1>4, <1>7, <2>2 DEF Places
  <2>4. \A g \in Folders : place[g] # x  BY <2>1, ChildTyped
  <2> HIDE DEF x
  <2> QED BY <1>2, <1>5, <2>1, <2>3, <2>4
<1>8. CASE th[u].op \in {"move", "copy"}
  <2> DEFINE x == <<th[u].to, Last(th[u].dst)>>
  <2>1. at \in Moved(th[u])  BY <1>8 DEF Placed
  <2>2. PICK f \in IF th[u].op = "move" THEN {th[u].id} ELSE NextId : at = [place EXCEPT ![f] = x]
    BY <2>1 DEF Moved
  <2>3. Child(place, th[u].to, Last(th[u].dst)) = None  BY <2>1 DEF Moved
  <2>4. f \in Folders /\ (f = th[u].id \/ place[f] = Unmade)  BY <1>2, <2>2 DEF NextId
  <2>5. x \in Places  BY <1>1, <1>4, <1>8 DEF Places, UserShape
  <2>6. \A g \in Folders : place[g] # x  BY <2>3, ChildTyped
  <2> HIDE DEF x
  <2> QED BY <1>5, <2>2, <2>4, <2>5, <2>6
<1> QED BY <1>2, <1>6, <1>7, <1>8

LEMMA StaleFine ==
    ASSUME ThreadsOK, NEW u \in Threads, NEW r, Fine(u, r), th' = [Stale(u) EXCEPT ![u] = r]
    PROVE  ThreadsOK'
<1>1. \A t \in Threads : th'[t] = IF t = u THEN r ELSE [th[t] EXCEPT !.fresh = FALSE]
  BY DEF Stale
<1>2. ASSUME NEW t \in Threads PROVE Fine(t, [th[t] EXCEPT !.fresh = FALSE])
  <2> DEFINE s == [th[t] EXCEPT !.fresh = FALSE]
  <2>1. th[t] \in Thread /\ Fine(t, th[t])  BY DEF ThreadsOK
  <2>2. s \in Thread  BY <2>1 DEF Thread
  <2>3. /\ s.pc = th[t].pc /\ s.op = th[t].op /\ s.goal = th[t].goal /\ s.lvl = th[t].lvl
        /\ s.id = th[t].id /\ s.to = th[t].to /\ s.got = th[t].got /\ s.again = th[t].again
        /\ s.dst = th[t].dst /\ s.calls = th[t].calls
    BY <2>1 DEF Thread
  <2> HIDE DEF s
  <2>4. EnsurerShape(th[t]) => EnsurerShape(s)  BY <2>3 DEF EnsurerShape
  <2>5. UserShape(th[t]) => UserShape(s)  BY <2>3 DEF UserShape
  <2> QED BY <2>1, <2>2, <2>3, <2>4, <2>5 DEF Fine, s
<1>3. \A t \in Threads : Fine(t, th'[t])  BY <1>1, <1>2
<1>4. th' \in [Threads -> Thread]
  <2>1. DOMAIN th' = Threads /\ th' = [t \in Threads |-> th'[t]]  BY DEF Stale
  <2> QED BY <1>3, <2>1 DEF Fine
<1> QED BY <1>3, <1>4 DEF ThreadsOK, Fine, Thread, EnsurerShape, UserShape

LEMMA ChangeTyped ==
    ASSUME Typed, NEW u \in Users, Change(u)
    PROVE  Typed'
<1>1. u \in Threads /\ u \notin Ensurers /\ th[u] \in Thread /\ UserShape(th[u]) /\ th[u].pc = "change"
      /\ th[u].goal \in Paths
  BY UserAt DEF Change, At
<1>2. /\ byPath \in [Paths -> Folders \cup {None}] /\ byID \in [Folders -> Paths \cup {<<>>}]
      /\ IsFiniteSet(Cached) /\ Cardinality(Cached) <= MaxEntries /\ raced \subseteq Cached
      /\ byPath' = byPath /\ byID' = byID /\ Cached' = Cached
  BY DEF Change, Typed, CacheOK, Cached
<1>3. ASSUME raced' \in {raced, Cached} PROVE CacheOK'
  BY <1>2, <1>3 DEF CacheOK
<1>4. ASSUME Live(th[u].id), place' \in Placed(u), faults' \in 0 .. MaxFaults
      PROVE  World'
  BY <1>1, <1>4, PlacedTyped DEF World, At
<1>5. ASSUME NEW kind, Wrong(kind) PROVE faults' \in 0 .. MaxFaults
  <2>1. faults' \in 1 .. MaxFaults  BY <1>5, WorldFaulty DEF Typed
  <2> QED BY <2>1, AssumeBounds
<1>6. CASE /\ Live(th[u].id) /\ place' \in Placed(u) /\ UNCHANGED <<faults, raced>>
           /\ th' = [Stale(u) EXCEPT ![u].pc = "byid"]
  <2> DEFINE r == [th[u] EXCEPT !.pc = "byid"]
  <2>1. r \in Thread  BY <1>1 DEF Thread, Labels
  <2>2. Fine(u, r)  BY <1>1, <2>1 DEF Fine, UserShape, Thread, Folder
  <2>3. th' = [Stale(u) EXCEPT ![u] = r]  BY <1>1, <1>6 DEF Stale
  <2>4. ThreadsOK'  BY <1>1, <2>2, <2>3, StaleFine DEF Typed
  <2>5. World'  BY <1>4, <1>6 DEF Typed, World
  <2> QED BY <1>3, <1>6, <2>4, <2>5 DEF Typed
<1>7. CASE /\ Live(th[u].id) /\ place' \in Placed(u) /\ Wrong("lost") /\ raced' = Cached
           /\ th' = [Stale(u) EXCEPT ![u] = Over(u, "error")]
  <2>1. ThreadsOK'  BY <1>1, <1>7, OverFine, StaleFine DEF Typed
  <2> QED BY <1>3, <1>4, <1>5, <1>7, <2>1 DEF Typed
<1>8. CASE Ends(u, "error") /\ UNCHANGED <<place, faults, raced>>
  <2>1. ThreadsOK'  BY <1>1, <1>8, EndsTyped DEF Typed
  <2> QED BY <1>3, <1>8, <2>1, WorldSame DEF Typed
<1>9. CASE Wrong("fail") /\ Ends(u, "error") /\ UNCHANGED <<place, raced>>
  <2>1. ThreadsOK'  BY <1>1, <1>9, EndsTyped DEF Typed
  <2> QED BY <1>3, <1>9, <2>1, WorldFaulty DEF Typed
<1> QED BY <1>6, <1>7, <1>8, <1>9 DEF Change

LEMMA PurgeTyped ==
    ASSUME Typed, NEW u \in Users, Purge(u)
    PROVE  Typed'
<1>1. u \in Threads /\ u \notin Ensurers /\ th[u] \in Thread /\ UserShape(th[u]) /\ th[u].pc = "purge"
      /\ th[u].goal \in Paths
  BY UserAt DEF Purge, At
<1>2. ASSUME raced' \in {raced, Cached} PROVE CacheOK'
  BY <1>2 DEF Purge, Typed, CacheOK, Cached
<1>3. CASE Goto(u, "subtree") /\ UNCHANGED <<faults, raced>>
  <2> DEFINE r == [th[u] EXCEPT !.pc = "subtree"]
  <2>1. r \in Thread  BY <1>1 DEF Thread, Labels
  <2>2. Fine(u, r)  BY <1>1, <2>1 DEF Fine, UserShape, Thread
  <2>3. ThreadsOK'  BY <1>1, <1>3, <2>2, SetFine DEF Typed, Goto
  <2> QED BY <1>2, <1>3, <2>3, WorldSame DEF Typed, Purge
<1>4. CASE Wrong("fail") /\ Ends(u, "error") /\ raced' = Cached
  <2>1. ThreadsOK'  BY <1>1, <1>4, EndsTyped DEF Typed
  <2> QED BY <1>2, <1>4, <2>1, WorldFaulty DEF Typed, Purge
<1> QED BY <1>3, <1>4 DEF Purge

LEMMA InvalidateSubtreeTyped ==
    ASSUME Typed, NEW u \in Users, InvalidateSubtree(u)
    PROVE  Typed'
<1>1. u \in Threads /\ u \notin Ensurers /\ th[u] \in Thread /\ UserShape(th[u]) /\ th[u].pc = "subtree"
      /\ th[u].goal \in Paths
  BY UserAt DEF InvalidateSubtree, At
<1>2. CacheOK' /\ World'  BY DropKeeps, WorldSame DEF Typed, InvalidateSubtree
<1>3. CASE th[u].op = "mkdir" /\ th[u].lvl < Len(th[u].goal)
  <2> DEFINE k == th[u].lvl + 1
             r == [th[u] EXCEPT !.pc = "parent", !.lvl = k, !.again = TRUE]
  <2>1. k \in 1 .. Len(th[u].goal) /\ k \in 0 .. Depth  BY <1>1, <1>3, LevelIs DEF UserShape
  <2>2. Set(u, r)  BY <1>3 DEF InvalidateSubtree
  <2> HIDE DEF k
  <2>3. r \in Thread  BY <1>1, <2>1 DEF Thread, Labels
  <2>4. Fine(u, r)  BY <1>1, <1>3, <2>1, <2>3 DEF Fine, UserShape, Thread
  <2> QED BY <1>1, <1>2, <2>2, <2>4, SetFine DEF Typed
<1>4. CASE ~(th[u].op = "mkdir" /\ th[u].lvl < Len(th[u].goal))
  BY <1>1, <1>2, <1>4, EndsTyped DEF InvalidateSubtree, Typed
<1> QED BY <1>3, <1>4

\* Every step keeps the types, action by action.
LEMMA TypedStep == Typed /\ [Next]_vars => Typed'
<1> SUFFICES ASSUME Typed, [Next]_vars PROVE Typed'  OBVIOUS
<1>1. CASE UNCHANGED vars
  BY <1>1, CacheSame, WorldSame
     DEF Typed, vars, cacheVars, ThreadsOK, Fine, EnsurerShape, UserShape, Thread
<1>2. ASSUME NEW e \in Ensurers, EnsureStep(e) \/ \E goal \in Goals : Ensure(e, goal) PROVE Typed'
  BY <1>2, EnsureTyped, LookupTyped, AskTyped, KeepTyped, WriteTyped DEF EnsureStep
<1>3. ASSUME NEW u \in Users, UserStep(u) \/ Call(u) PROVE Typed'
  BY <1>3, CallTyped, FindParentTyped, FindSourceTyped, FindTargetTyped, ChangeTyped,
     PurgeTyped, InvalidateSubtreeTyped DEF UserStep
<1>4. ASSUME NEW t \in Threads, Create(t) \/ InvalidateIDs(t) PROVE Typed'
  BY <1>4, CreateTyped, InvalidateIDsTyped
<1> QED BY <1>1, <1>2, <1>3, <1>4 DEF Next

LEMMA InitTyped == Init => Typed
<1> SUFFICES ASSUME Init PROVE Typed  OBVIOUS
<1>1. World  BY AssumeBounds DEF Init, World, Unique, Places
<1>2. CacheOK
  <2>1. Cached = {}  BY DEF Init, Cached
  <2>2. IsFiniteSet({}) /\ Cardinality({}) = 0  BY FS_EmptySet
  <2> QED BY <2>1, <2>2, AssumeBounds DEF Init, CacheOK
<1>3. ThreadsOK
  BY IdleTyped DEF Init, ThreadsOK, Fine, EnsurerShape, UserShape
<1> QED BY <1>1, <1>2, <1>3 DEF Typed

\* The path cache and everybody's place in a call have their types, and the cache
\* its bound (pathcache.go: evictLocked).
THEOREM TypesHold == Spec => []TypeOK
<1>1. Typed => TypeOK  BY DEF Typed, World, CacheOK, ThreadsOK, TypeOK
<1> QED BY <1>1, InitTyped, TypedStep, PTL DEF Spec

-----------------------------------------------------------------------------
(* What the cache and the callers may rely on.                              *)

\* No path loses the folder it names.
Grows == \A q \in AnyPath : IdAt(q) # None => IdIn(place', q) = IdAt(q)

Others(t) == \A s \in Threads \ {t} : th'[s] = th[s]

LEMMA GrowsSame == UNCHANGED place => Grows
BY DEF Grows, IdAt

LEMMA GrowsMade ==
    ASSUME Typed, NEW t \in Threads, At(t, "create"), MayMake(t), NEW f \in NextId, Makes(t, f)
    PROVE  Grows
BY MadeTyped, KeptByMaking DEF Grows, IdAt

LEMMA SetOthers ==
    ASSUME Typed, NEW t \in Threads, NEW r, Set(t, r)
    PROVE  th'[t] = r /\ Others(t)
BY DEF Set, Others, Typed, ThreadsOK

LEMMA EntriesKept ==
    ASSUME Typed, Entries, Grows, Cached' \subseteq Cached, IDsStay(Cached'),
           Untouched' => Untouched,
           \A p \in Cached' : Trusted(p)' => Trusted(p)
    PROVE  Entries'
<1>1. ASSUME NEW p \in Cached', Trusted(p)' PROVE byPath'[p] = IdIn(place', p)
  <2>1. byPath[p] = IdAt(p) /\ byPath'[p] = byPath[p]  BY <1>1 DEF Entries, IDsStay
  <2>2. byPath[p] # None /\ p \in AnyPath  BY <1>1 DEF Cached, AnyPath
  <2> QED BY <2>1, <2>2 DEF Grows
<1>2. ASSUME Untouched', NEW p \in Cached' PROVE byID'[byPath'[p]] = p
  BY <1>2 DEF Entries, IDsStay
<1> QED BY <1>1, <1>2 DEF Entries, IdAt

LEMMA SameIDs == CacheOK /\ UNCHANGED cacheVars => Cached' \subseteq Cached /\ IDsStay(Cached') /\ raced' = raced
BY DEF IDsStay, Cached, cacheVars

\* A step of an ensurer changes nobody's trust but in what it races.
LEMMA TrustOfEnsurers ==
    ASSUME Typed, NEW e \in Ensurers, Others(e)
    PROVE  /\ Untouched' <=> Untouched
           /\ \A p : (p \in raced => p \in raced') /\ Trusted(p)' => Trusted(p)
<1>1. \A u \in Users : th'[u] = th[u]  BY AssumeFaults DEF Others, Threads
<1>2. Untouched' <=> Untouched  BY <1>1 DEF Untouched
<1>3. Changing' = Changing  BY <1>1 DEF Changing
<1>4. \A u \in Changing : Touched(th[u])' = Touched(th[u])
  <2>1. \A u \in Changing : th'[u] = th[u]  BY <1>1 DEF Changing
  <2> QED BY <2>1 DEF Touched
<1> QED BY <1>2, <1>3, <1>4 DEF Trusted

LEMMA TrustOfUsers ==
    ASSUME Typed, NEW u \in Users, Others(u), th'[u].calls > 0,
           u \in Changing => u \in Changing' /\ Touched(th'[u]) = Touched(th[u])
    PROVE  /\ ~Untouched'
           /\ \A p : (p \in raced => p \in raced') /\ Trusted(p)' => Trusted(p)
<1>1. ~Untouched'
  <2>1. ASSUME th'[u].calls = 0 PROVE FALSE  BY <2>1
  <2> QED BY <2>1 DEF Untouched
<1>2. ASSUME NEW p, p \in raced => p \in raced', Trusted(p)' PROVE Trusted(p)
  <2>1. OneUser /\ p \notin raced /\ \A v \in Changing' : p \notin Touched(th'[v])
    BY <1>1, <1>2 DEF Trusted, OneUser
  <2>2. \A v \in Users : v = u  BY <2>1 DEF OneUser
  <2>3. ASSUME NEW v \in Changing PROVE p \notin Touched(th[v])
    <3>1. v = u  BY <2>2 DEF Changing
    <3> QED BY <2>1, <3>1
  <2> QED BY <2>1, <2>3 DEF Trusted
<1> QED BY <1>1, <1>2

LEMMA KnowsKept ==
    ASSUME Typed, Grows, NEW e \in Ensurers, th'[e] = th[e], Knows(e)
    PROVE  Knows(e)'
<1>1. th[e] \in Thread /\ EnsurerShape(th[e]) /\ e \in Threads /\ (th[e].pc # "idle" => th[e].goal \in Paths)
  BY EnsurerAt
<1>2. Here(e)' = Here(e)  BY DEF Here
<1>3. ASSUME th[e].pc = "create" PROVE th[e].id = IdIn(place', Prefix(th[e].goal, th[e].lvl - 1))
  <2>1. th[e].id # None /\ th[e].id = IdAt(Prefix(th[e].goal, th[e].lvl - 1))
    BY <1>1, <1>3, AssumeFolders DEF EnsurerShape, Knows, Folder, Root, None
  <2>2. Prefix(th[e].goal, th[e].lvl - 1) \in AnyPath
    <3>1. th[e].goal \in AnyPath /\ th[e].lvl - 1 \in 0 .. Len(th[e].goal)
      BY <1>1, <1>3, LevelIs DEF EnsurerShape, AnyPath
    <3> QED BY <3>1, PrefixIs
  <2> QED BY <2>1, <2>2 DEF Grows
<1>4. ASSUME th[e].pc \in {"store", "byid"} PROVE th[e].got = IdIn(place', Here(e))
  <2>1. th[e].got # None /\ th[e].got = IdAt(Here(e))
    BY <1>1, <1>4, AssumeFolders DEF EnsurerShape, Knows, None
  <2>2. Here(e) \in AnyPath
    BY <1>1, <1>4, LevelIs, HereIs DEF EnsurerShape
  <2> QED BY <2>1, <2>2 DEF Grows
<1> QED BY <1>2, <1>3, <1>4 DEF Knows, IdAt

LEMMA AgreesKept ==
    ASSUME Typed, Grows, faults' \in Nat, faults' >= faults, NEW e \in Ensurers, th'[e] = th[e], Agrees(e)
    PROVE  Agrees(e)'
<1>1. th[e] \in Thread /\ EnsurerShape(th[e]) /\ e \in Threads /\ (th[e].pc # "idle" => th[e].goal \in Paths)
  BY EnsurerAt
<1>2. Here(e)' = Here(e)  BY DEF Here
<1>3. faults \in Nat /\ faults' \in Nat /\ (faults > 0 => faults' > 0)
  BY DEF Typed, World
<1>4. ASSUME th[e].pc = "write" PROVE th[e].id = IdIn(place', th[e].goal)
  <2>1. th[e].id # None /\ th[e].id = IdAt(th[e].goal) /\ th[e].goal \in AnyPath
    BY <1>1, <1>4, AssumeFolders DEF EnsurerShape, Agrees, Folder, Root, None, AnyPath
  <2> QED BY <2>1 DEF Grows
<1>5. ASSUME th[e].pc \in {"lookup", "ask"}, th[e].again
      PROVE  faults' > 0 \/ IdIn(place', Here(e)) # None
  <2>1. Here(e) \in AnyPath
    BY <1>1, <1>5, LevelIs, HereIs DEF EnsurerShape
  <2>2. faults > 0 \/ IdAt(Here(e)) # None  BY <1>5 DEF Agrees
  <2> QED BY <1>3, <2>1, <2>2 DEF Grows
<1>6. ASSUME th[e].out = "ok" PROVE th[e].got = IdIn(place', th[e].goal) /\ th[e].got # None
  <2>1. th[e].got = IdAt(th[e].goal) /\ th[e].got # None  BY <1>6 DEF Agrees
  <2>2. th[e].goal \in AnyPath  BY <1>1 DEF Thread, AnyPath
  <2> QED BY <2>1, <2>2 DEF Grows
<1> QED BY <1>2, <1>3, <1>4, <1>5, <1>6 DEF Agrees, IdAt

LEMMA AimedKept ==
    ASSUME Typed, Grows, NEW u \in Users, th'[u] = th[u], Aimed(u)
    PROVE  Aimed(u)'
<1>1. th[u] \in Thread /\ UserShape(th[u]) /\ (th[u].pc # "idle" => th[u].goal \in Paths)
  BY UserAt
<1>2. ASSUME OneUser, th[u].pc \in {"dst", "change"} PROVE th[u].id = IdIn(place', th[u].goal)
  <2>1. th[u].id = IdAt(th[u].goal)  BY <1>2 DEF Aimed
  <2>2. th[u].id # None  BY <1>1, <1>2, AssumeFolders DEF UserShape, None
  <2>3. th[u].goal \in AnyPath  BY <1>1, <1>2 DEF AnyPath
  <2> QED BY <2>1, <2>2, <2>3 DEF Grows
<1>3. OneUser' = OneUser  BY DEF OneUser
<1> QED BY <1>2, <1>3 DEF Aimed, IdAt

\* A step of one thread, as to the others.
LEMMA LookupsKept ==
    ASSUME Typed, Lookups, Grows, faults' \in Nat, faults' >= faults, Untouched' => Untouched,
           NEW t \in Threads, Others(t),
           t \in Ensurers => (Sure(t)' => Knows(t)') /\ (Untouched' => Agrees(t)'),
           t \in Users => Aimed(t)'
    PROVE  Lookups'
<1>1. ASSUME NEW e \in Ensurers PROVE (Sure(e)' => Knows(e)') /\ (Untouched' => Agrees(e)')
  <2>1. CASE e = t  BY <2>1
  <2>2. CASE e # t
    <3>1. th'[e] = th[e]  BY <2>2 DEF Others, Threads
    <3>2. Sure(e)' => Sure(e)  BY <3>1 DEF Sure, OneUser
    <3> QED BY <3>1, <3>2, KnowsKept, AgreesKept DEF Lookups
  <2> QED BY <2>1, <2>2
<1>2. ASSUME NEW u \in Users PROVE Aimed(u)'
  <2>1. CASE u = t  BY <2>1
  <2>2. CASE u # t
    <3>1. th'[u] = th[u]  BY <2>2 DEF Others, Threads
    <3> QED BY <3>1, AimedKept DEF Lookups
  <2> QED BY <2>1, <2>2
<1> QED BY <1>1, <1>2 DEF Lookups

-----------------------------------------------------------------------------
(* The ensurers' steps.                                                     *)

LEMMA FaultsGrow ==
    Typed /\ (UNCHANGED faults \/ \E kind : Wrong(kind)) => faults' \in Nat /\ faults' >= faults
BY DEF Typed, World, Wrong

\* A cache hit, and what is found upstream, is as good as what it was found by.
LEMMA FoundKnows ==
    ASSUME Typed, UNCHANGED place, NEW e \in Ensurers, th[e].goal \in Paths,
           th[e].lvl \in 0 .. Len(th[e].goal), th[e].pc # "idle", NEW f \in Folder, NEW fresh \in BOOLEAN,
           Found(e, f, fresh),
           Untouched \/ (OneUser /\ fresh) => f = IdAt(Here(e))
    PROVE  /\ Others(e)
           /\ Sure(e)' => Knows(e)'
           /\ Untouched' /\ (Untouched => Agrees(e)) => Agrees(e)'
<1>1. e \in Threads /\ th[e] \in Thread  BY EnsurerAt
<1>2. Len(th[e].goal) \in 1 .. Depth  BY PathTyped DEF AnyPath
<1>3. CASE Here(e) = th[e].goal
  <2> DEFINE r == [th[e] EXCEPT !.pc = "write", !.id = f, !.fresh = fresh]
  <2>1. th'[e] = r /\ Others(e)  BY <1>1, <1>3, SetOthers DEF Found
  <2>2. /\ th'[e].pc = "write" /\ th'[e].id = f /\ th'[e].goal = th[e].goal /\ th'[e].out = th[e].out
    BY <1>1, <2>1 DEF Thread
  <2>3. Untouched' <=> Untouched  BY <2>1, TrustOfEnsurers
  <2>4. Knows(e)'  BY <2>2 DEF Knows
  <2>5. ASSUME Untouched', Agrees(e) PROVE Agrees(e)'
    BY <1>3, <2>2, <2>3, <2>5 DEF Agrees, IdAt
  <2> QED BY <2>1, <2>3, <2>4, <2>5
<1>4. CASE Here(e) # th[e].goal
  <2> DEFINE r == [th[e] EXCEPT !.pc = "create", !.id = f, !.fresh = fresh, !.lvl = @ + 1, !.again = FALSE]
  <2>1. th'[e] = r /\ Others(e)  BY <1>1, <1>4, SetOthers DEF Found
  <2>2. /\ th'[e].pc = "create" /\ th'[e].id = f /\ th'[e].goal = th[e].goal /\ th'[e].out = th[e].out
        /\ th'[e].lvl = th[e].lvl + 1 /\ th'[e].fresh = fresh
    BY <1>1, <2>1 DEF Thread
  <2>3. Untouched' <=> Untouched  BY <2>1, TrustOfEnsurers
  <2>4. th'[e].lvl - 1 = th[e].lvl  BY <1>1, <2>2 DEF Thread
  <2>5. ASSUME Sure(e)' PROVE Knows(e)'
    <3>1. f = IdAt(Here(e))  BY <2>2, <2>3, <2>5 DEF Sure, OneUser
    <3>2. Here(e) = Prefix(th[e].goal, th[e].lvl)  BY <1>1, HereIs
    <3> QED BY <2>2, <2>4, <3>1, <3>2 DEF Knows, IdAt
  <2>6. ASSUME Agrees(e) PROVE Agrees(e)'
    BY <2>2, <2>6 DEF Agrees
  <2> QED BY <2>1, <2>3, <2>5, <2>6
<1> QED BY <1>3, <1>4

\* A step of an ensurer that leaves the tree alone, or adds to it.
LEMMA EnsurerKeeps ==
    ASSUME Inv, Typed', Grows, faults' \in Nat, faults' >= faults, NEW e \in Ensurers, Others(e),
           Cached' \subseteq Cached, IDsStay(Cached'), raced \cap Cached' \subseteq raced',
           Sure(e)' => Knows(e)', Untouched' => Agrees(e)'
    PROVE  Inv'
<1>1. e \in Threads /\ e \notin Users  BY EnsurerAt DEF Inv
<1>2. /\ Untouched' <=> Untouched
      /\ \A p : (p \in raced => p \in raced') /\ Trusted(p)' => Trusted(p)
  BY TrustOfEnsurers DEF Inv
<1>3. Entries'
  <2>1. \A p \in Cached' : Trusted(p)' => Trusted(p)  BY <1>2
  <2> QED BY <1>2, <2>1, EntriesKept DEF Inv
<1>4. Lookups'  BY <1>1, <1>2, LookupsKept DEF Inv
<1> QED BY <1>3, <1>4 DEF Inv

LEMMA EnsureKeeps ==
    ASSUME Inv, NEW e \in Ensurers, NEW goal \in Goals, Ensure(e, goal)
    PROVE  Inv'
<1>1. e \in Threads /\ Typed /\ Typed' /\ CacheOK  BY EnsurerAt, EnsureTyped DEF Inv, Typed
<1> DEFINE r == [Idle EXCEPT !.pc = "lookup", !.goal = goal, !.lvl = Len(goal), !.calls = th[e].calls + 1]
<1>2. th'[e] = r /\ Others(e)  BY <1>1, SetOthers DEF Ensure
<1>3. th'[e].pc = "lookup" /\ th'[e].again = FALSE /\ th'[e].out = "none"
  BY <1>2, IdleTyped DEF Thread, Idle
<1>4. Knows(e)' /\ Agrees(e)'  BY <1>3 DEF Knows, Agrees
<1>5. faults' \in Nat /\ faults' >= faults /\ Grows
  BY <1>1, FaultsGrow, GrowsSame DEF Ensure
<1> QED BY <1>1, <1>2, <1>4, <1>5, SameIDs, EnsurerKeeps DEF Ensure

LEMMA LookupKeeps ==
    ASSUME Inv, NEW e \in Ensurers, Lookup(e)
    PROVE  Inv'
<1>1. /\ e \in Threads /\ Typed /\ Typed' /\ CacheOK /\ th[e] \in Thread
      /\ th[e].pc = "lookup" /\ th[e].goal \in Paths /\ th[e].lvl \in 0 .. Len(th[e].goal)
  BY EnsurerAt, LookupTyped DEF Inv, Typed, EnsurerShape, Lookup, At
<1>2. faults' \in Nat /\ faults' >= faults /\ Grows /\ UNCHANGED place
  BY <1>1, FaultsGrow, GrowsSame DEF Lookup
<1>3. Untouched => Agrees(e)  BY DEF Inv, Lookups
<1>4. CASE th[e].lvl = 0 /\ Found(e, Root, TRUE) /\ UNCHANGED cacheVars
  <2>1. Root = IdAt(Here(e)) /\ Root \in Folder  BY <1>1, <1>4, HereIs, IdOfRoot DEF IdAt, Folder
  <2>2. Others(e) /\ (Sure(e)' => Knows(e)') /\ (Untouched' => Agrees(e)')
    BY <1>1, <1>2, <1>3, <1>4, <2>1, FoundKnows
  <2> QED BY <1>1, <1>2, <1>4, <2>2, SameIDs, EnsurerKeeps
<1>5. CASE /\ th[e].lvl > 0 /\ Here(e) \in Cached /\ UNCHANGED cacheVars
           /\ Found(e, byPath[Here(e)], Here(e) \notin raced /\ Changing = {})
  <2> DEFINE f == byPath[Here(e)]
             fresh == Here(e) \notin raced /\ Changing = {}
  <2>1. f \in Folder  BY <1>1, <1>5 DEF Cached, CacheOK, Folder
  <2>2. fresh \in BOOLEAN  OBVIOUS
  <2>3. Untouched \/ (OneUser /\ fresh) => f = IdAt(Here(e))
    <3>1. Untouched \/ (OneUser /\ fresh) => Trusted(Here(e))  BY DEF Trusted
    <3> QED BY <1>5, <3>1 DEF Inv, Entries
  <2>4. Found(e, f, fresh)  BY <1>5
  <2> HIDE DEF f, fresh
  <2>5. Others(e) /\ (Sure(e)' => Knows(e)') /\ (Untouched' => Agrees(e)')
    BY <1>1, <1>2, <1>3, <2>1, <2>2, <2>3, <2>4, FoundKnows
  <2> QED BY <1>1, <1>2, <1>5, <2>5, SameIDs, EnsurerKeeps
<1>6. CASE th[e].lvl > 0 /\ Goto(e, "ask") /\ Drop({Here(e)} \cap Cached)
  <2>1. th'[e] = [th[e] EXCEPT !.pc = "ask"] /\ Others(e)  BY <1>1, <1>6, SetOthers DEF Goto
  <2>2. /\ th'[e].pc = "ask" /\ th'[e].goal = th[e].goal /\ th'[e].lvl = th[e].lvl
        /\ th'[e].again = th[e].again /\ th'[e].out = th[e].out
    BY <1>1, <2>1 DEF Thread
  <2>3. Knows(e)'  BY <2>2 DEF Knows
  <2>4. Untouched' <=> Untouched  BY <1>1, <2>1, TrustOfEnsurers
  <2>5. Here(e)' = Here(e)  BY <2>2 DEF Here
  <2>6. Untouched' => Agrees(e)'
    BY <1>1, <1>2, <1>3, <2>2, <2>4, <2>5 DEF Agrees, IdAt, Lookup
  <2>7. Cached' = Cached \ ({Here(e)} \cap Cached) /\ raced' = raced \ ({Here(e)} \cap Cached) /\ IDsStay(Cached')
    BY <1>1, <1>6, DropKeeps
  <2> QED BY <1>1, <1>2, <2>1, <2>3, <2>6, <2>7, EnsurerKeeps
<1> QED BY <1>4, <1>5, <1>6 DEF Lookup

LEMMA AskKeeps ==
    ASSUME Inv, NEW e \in Ensurers, Ask(e)
    PROVE  Inv'
<1> DEFINE f == IdAt(Here(e))
<1>1. /\ e \in Threads /\ Typed /\ Typed' /\ CacheOK /\ th[e] \in Thread
      /\ th[e].pc = "ask" /\ th[e].goal \in Paths
  BY EnsurerAt, AskTyped DEF Inv, Typed, Ask, At
<1>2. faults' \in Nat /\ faults' >= faults /\ Grows /\ UNCHANGED place
  BY <1>1, FaultsGrow, GrowsSame DEF Ask
<1>3. Untouched => Agrees(e)  BY DEF Inv, Lookups
<1>4. Cached' \subseteq Cached /\ IDsStay(Cached') /\ raced' = raced  BY <1>1, SameIDs DEF Ask
<1>5. SUFFICES Others(e) /\ (Sure(e)' => Knows(e)') /\ (Untouched' => Agrees(e)')
  BY <1>1, <1>2, <1>4, EnsurerKeeps
<1>6. CASE f # None /\ Set(e, [th[e] EXCEPT !.pc = "store", !.got = f, !.fresh = TRUE]) /\ UNCHANGED faults
  <2>1. th'[e] = [th[e] EXCEPT !.pc = "store", !.got = f, !.fresh = TRUE] /\ Others(e)
    BY <1>1, <1>6, SetOthers
  <2>2. /\ th'[e].pc = "store" /\ th'[e].got = f /\ th'[e].goal = th[e].goal
        /\ th'[e].lvl = th[e].lvl /\ th'[e].out = th[e].out
    BY <1>1, <2>1 DEF Thread
  <2>3. Untouched' <=> Untouched  BY <1>1, <2>1, TrustOfEnsurers
  <2>4. Here(e)' = Here(e)  BY <2>2 DEF Here
  <2>5. Knows(e)'  BY <1>2, <2>2, <2>4 DEF Knows, IdAt
  <2>6. Untouched' => Agrees(e)'  BY <1>1, <1>3, <2>2, <2>3 DEF Agrees
  <2> QED BY <2>1, <2>5, <2>6
<1>7. CASE /\ f = None /\ ~th[e].again /\ UNCHANGED faults
           /\ Set(e, [th[e] EXCEPT !.pc = "lookup", !.lvl = @ - 1])
  <2>1. th'[e] = [th[e] EXCEPT !.pc = "lookup", !.lvl = @ - 1] /\ Others(e)
    BY <1>1, <1>7, SetOthers
  <2>2. th'[e].pc = "lookup" /\ th'[e].again = th[e].again /\ th'[e].out = th[e].out
    BY <1>1, <2>1 DEF Thread
  <2>3. Untouched' <=> Untouched  BY <1>1, <2>1, TrustOfEnsurers
  <2>4. Knows(e)'  BY <2>2 DEF Knows
  <2>5. Untouched' => Agrees(e)'  BY <1>1, <1>3, <1>7, <2>2, <2>3 DEF Agrees
  <2> QED BY <2>1, <2>4, <2>5
<1>8. ASSUME Ends(e, "error"), Untouched => faults' > 0
      PROVE  Others(e) /\ (Sure(e)' => Knows(e)') /\ (Untouched' => Agrees(e)')
  <2>1. th'[e] = Over(e, "error") /\ Others(e)  BY <1>1, <1>8, SetOthers DEF Ends
  <2>2. th'[e].pc = "idle" /\ th'[e].out = "error"
    BY <1>1, <2>1, IdleTyped DEF Over, Thread
  <2>3. Untouched' <=> Untouched  BY <1>1, <2>1, TrustOfEnsurers
  <2> QED BY <1>8, <2>1, <2>2, <2>3 DEF Knows, Agrees
<1>9. CASE f = None /\ th[e].again /\ Ends(e, "error") /\ UNCHANGED faults
  <2>1. Untouched => faults > 0  BY <1>1, <1>3, <1>9 DEF Agrees
  <2> QED BY <1>8, <1>9, <2>1
<1>10. CASE Wrong("fail") /\ Ends(e, "error")
  <2>1. faults' > 0
    <3>1. faults' \in 1 .. MaxFaults  BY <1>1, <1>10, WorldFaulty DEF Typed
    <3> QED BY <3>1
  <2> QED BY <1>8, <1>10, <2>1
<1> QED BY <1>6, <1>7, <1>9, <1>10 DEF Ask

LEMMA KeepKeeps ==
    ASSUME Inv, NEW e \in Ensurers, Keep(e)
    PROVE  Inv'
<1> DEFINE h == Here(e)
           f == th[e].got
           late == ~th[e].fresh
<1>1. /\ e \in Threads /\ e \notin Users /\ Typed /\ Typed' /\ CacheOK /\ th[e] \in Thread
      /\ th[e].pc = "store" /\ th[e].goal \in Paths /\ th[e].lvl \in 1 .. Len(th[e].goal)
      /\ h \in Paths /\ f \in Folders
  BY EnsurerAt, KeepTyped DEF Inv, Typed, EnsurerShape, Keep, At
<1>2. faults' \in Nat /\ faults' >= faults /\ Grows /\ UNCHANGED place
  BY <1>1, FaultsGrow, GrowsSame DEF Keep
<1>3. (Untouched => Agrees(e)) /\ (Sure(e) => Knows(e))  BY DEF Inv, Lookups
<1>4. late \in BOOLEAN /\ th[e].fresh \in BOOLEAN  BY <1>1 DEF Thread
<1>5. /\ h \in Cached' /\ byPath'[h] = f /\ byID'[f] = h
      /\ h \in raced' <=> late
      /\ \A q \in Cached' \ {h} :
             /\ q \in Cached /\ byPath'[q] = byPath[q]
             /\ q \in raced <=> q \in raced'
             /\ byID[byPath[q]] = q /\ byPath[q] # f => byID'[byPath[q]] = q
  <2>1. Store(h, f, late)  BY DEF Keep
  <2> HIDE DEF h, f, late
  <2> QED BY <1>1, <1>4, <2>1, StoreKeeps
<1>6. Sure(e) => f = IdAt(h)  BY <1>1, <1>3 DEF Knows
<1>7. Others(e) /\ (Sure(e)' => Knows(e)') /\ (Untouched' => Agrees(e)')
  <2>1. th[e].lvl \in 0 .. Len(th[e].goal)  BY <1>1, LevelIs
  <2>2. f \in Folder  BY <1>1 DEF Folder
  <2>3. Untouched \/ (OneUser /\ th[e].fresh) => f = IdAt(h)  BY <1>6 DEF Sure
  <2>4. Found(e, f, th[e].fresh)  BY DEF Keep
  <2> QED BY <1>1, <1>2, <1>3, <1>4, <2>1, <2>2, <2>3, <2>4, FoundKnows
<1>8. /\ Untouched' <=> Untouched
      /\ \A p : (p \in raced => p \in raced') /\ Trusted(p)' => Trusted(p)
  BY <1>1, <1>7, TrustOfEnsurers
<1>9. Lookups'  BY <1>1, <1>2, <1>7, <1>8, LookupsKept DEF Inv
<1>10. ASSUME NEW p \in Cached', Trusted(p)' PROVE byPath'[p] = IdIn(place', p)
  <2>1. CASE p = h
    <3>1. Sure(e)
      <4>1. CASE Untouched'  BY <1>8, <4>1 DEF Sure
      <4>2. CASE ~Untouched'
        <5>1. OneUser /\ p \notin raced'  BY <1>10, <4>2 DEF Trusted, OneUser
        <5> QED BY <1>5, <2>1, <5>1 DEF Sure
      <4> QED BY <4>1, <4>2
    <3> QED BY <1>2, <1>5, <1>6, <2>1, <3>1 DEF IdAt
  <2>2. CASE p # h
    <3>1. p \in Cached /\ byPath'[p] = byPath[p] /\ Trusted(p)  BY <1>5, <1>8, <1>10, <2>2
    <3> QED BY <1>2, <3>1 DEF Inv, Entries, IdAt
  <2> QED BY <2>1, <2>2
<1>11. ASSUME Untouched', NEW p \in Cached' PROVE byID'[byPath'[p]] = p
  <2>1. CASE p = h  BY <1>5, <2>1
  <2>2. CASE p # h
    <3>1. p \in Cached /\ byPath'[p] = byPath[p] /\ byID[byPath[p]] = p /\ byPath[p] = IdAt(p)
      BY <1>5, <1>8, <1>11, <2>2 DEF Inv, Entries, Trusted
    <3>2. f = IdAt(h)  BY <1>6, <1>8, <1>11 DEF Sure
    <3>3. byPath[p] # f
      <4> SUFFICES ASSUME byPath[p] = f PROVE FALSE  OBVIOUS
      <4>1. IdIn(place, p) = IdIn(place, h) /\ IdIn(place, p) # None
        <5>1. f # None  BY <1>1, AssumeFolders DEF None
        <5> QED BY <3>1, <3>2, <5>1 DEF IdAt
      <4>2. p \in AnyPath /\ h \in AnyPath  BY <1>1, <3>1 DEF AnyPath, Cached
      <4> QED BY <2>2, <4>1, <4>2, OnePath
    <3> QED BY <1>5, <2>2, <3>1, <3>3
  <2> QED BY <2>1, <2>2
<1> QED BY <1>1, <1>9, <1>10, <1>11 DEF Inv, Entries, IdAt

LEMMA WriteKeeps ==
    ASSUME Inv, NEW e \in Ensurers, Write(e)
    PROVE  Inv'
<1>1. /\ e \in Threads /\ Typed /\ Typed' /\ CacheOK /\ th[e] \in Thread
      /\ th[e].pc = "write" /\ th[e].goal \in Paths /\ th[e].id \in Folder
  BY EnsurerAt, WriteTyped DEF Inv, Typed, EnsurerShape, Write, At
<1>2. faults' \in Nat /\ faults' >= faults /\ Grows /\ UNCHANGED place
  BY <1>1, FaultsGrow, GrowsSame DEF Write
<1>3. Untouched => Agrees(e)  BY DEF Inv, Lookups
<1>4. th'[e] = Over(e, "ok") /\ Others(e)  BY <1>1, SetOthers DEF Write, Ends
<1>5. /\ th'[e].pc = "idle" /\ th'[e].out = "ok" /\ th'[e].goal = th[e].goal
      /\ th'[e].got = th[e].id
  BY <1>1, <1>4, IdleTyped DEF Over, Thread
<1>6. Untouched' <=> Untouched  BY <1>1, <1>4, TrustOfEnsurers
<1>7. th[e].id # None  BY <1>1, AssumeFolders DEF Folder, Root, None
<1>8. Untouched' => Agrees(e)'
  BY <1>1, <1>2, <1>3, <1>5, <1>6, <1>7 DEF Agrees, IdAt
<1>9. Knows(e)'  BY <1>5 DEF Knows
<1>10. Cached' = Cached \ Below(th[e].id) /\ raced' = raced \ Below(th[e].id) /\ IDsStay(Cached')
  BY <1>1, DropKeeps DEF Write
<1> QED BY <1>1, <1>2, <1>4, <1>8, <1>9, <1>10, EnsurerKeeps

-----------------------------------------------------------------------------
(* The users' steps, and those of both.                                     *)

\* A step of a user that leaves the tree alone, or adds to it.
LEMMA UserKeeps ==
    ASSUME Inv, Typed', Grows, faults' \in Nat, faults' >= faults, NEW u \in Users, Others(u),
           th'[u].calls > 0, u \in Changing => u \in Changing' /\ Touched(th'[u]) = Touched(th[u]),
           Cached' \subseteq Cached, IDsStay(Cached'), raced \cap Cached' \subseteq raced', Aimed(u)'
    PROVE  Inv'
<1>1. u \in Threads /\ u \notin Ensurers  BY UserAt DEF Inv
<1>2. /\ ~Untouched'
      /\ \A p : (p \in raced => p \in raced') /\ Trusted(p)' => Trusted(p)
  BY TrustOfUsers DEF Inv
<1>3. Entries'
  <2>1. \A p \in Cached' : Trusted(p)' => Trusted(p)  BY <1>2
  <2> QED BY <1>2, <2>1, EntriesKept DEF Inv
<1>4. Lookups'  BY <1>1, <1>2, LookupsKept DEF Inv
<1> QED BY <1>3, <1>4 DEF Inv

\* In the next level down is what has just been made there.
LEMMA MadeHere ==
    ASSUME Typed, NEW t \in Threads, At(t, "create"), MayMake(t), NEW f \in NextId, Makes(t, f),
           th[t].id = IdAt(Prefix(th[t].goal, th[t].lvl - 1))
    PROVE  IdIn(place', Here(t)) = f
<1> DEFINE o == Prefix(th[t].goal, th[t].lvl - 1)
<1>1. /\ th[t].goal \in Paths /\ th[t].lvl \in 1 .. Len(th[t].goal) /\ th[t].id \in Folder
  BY CreatingAt
<1>2. th[t].goal \in AnyPath /\ Here(t) = Prefix(th[t].goal, th[t].lvl)
      /\ th[t].lvl - 1 \in 0 .. Len(th[t].goal)
  BY <1>1, LevelIs, HereIs DEF AnyPath
<1>3. o \in AnyPath  BY <1>2, PrefixIs
<1>4. th[t].id # None  BY <1>1, AssumeFolders DEF Folder, Root, None
<1>5. IdIn(place', o) = th[t].id  BY <1>3, <1>4, GrowsMade DEF Grows
<1>6. IdIn(place', Here(t)) = Child(place', th[t].id, th[t].goal[th[t].lvl])
  BY <1>1, <1>2, <1>4, <1>5, IdOfPrefix
<1>7. Child(place', th[t].id, th[t].goal[th[t].lvl]) = f
  <2>1. f \in Folders /\ Unique(place') /\ place'[f] = <<th[t].id, th[t].goal[th[t].lvl]>>
    BY MadeTyped
  <2> QED BY <1>1, <2>1, ChildIs
<1> QED BY <1>6, <1>7

\* What keeps a level from being made is that it is there.
LEMMA NotMadeHere ==
    ASSUME Typed, NEW t \in Threads, At(t, "create"), ~MayMake(t),
           th[t].id = IdAt(Prefix(th[t].goal, th[t].lvl - 1))
    PROVE  IdAt(Here(t)) # None
<1> DEFINE o == Prefix(th[t].goal, th[t].lvl - 1)
<1>1. /\ th[t].goal \in Paths /\ th[t].lvl \in 1 .. Len(th[t].goal) /\ th[t].id \in Folder
  BY CreatingAt
<1>2. th[t].goal \in AnyPath /\ Here(t) = Prefix(th[t].goal, th[t].lvl)
      /\ th[t].lvl - 1 \in 0 .. Len(th[t].goal)
  BY <1>1, LevelIs, HereIs DEF AnyPath
<1>3. o \in AnyPath  BY <1>2, PrefixIs
<1>4. th[t].id # None  BY <1>1, AssumeFolders DEF Folder, Root, None
<1>5. Live(th[t].id)
  <2>1. CASE o \in Paths  BY <2>1 DEF Live, LiveIn, IdAt
  <2>2. CASE o = <<>>  BY <2>2, IdOfRoot DEF Live, LiveIn, IdAt
  <2> QED BY <1>3, <2>1, <2>2 DEF AnyPath
<1>6. Child(place, th[t].id, th[t].goal[th[t].lvl]) # None  BY <1>5 DEF MayMake
<1>7. IdIn(place, Here(t)) = Child(place, th[t].id, th[t].goal[th[t].lvl])
  BY <1>1, <1>2, <1>4, IdOfPrefix DEF IdAt
<1> QED BY <1>6, <1>7 DEF IdAt

LEMMA CreateGrows ==
    ASSUME Typed, NEW t \in Threads, Create(t)
    PROVE  faults' \in Nat /\ faults' >= faults /\ Grows
<1>1. faults' \in Nat /\ faults' >= faults  BY FaultsGrow DEF Create
<1>2. CASE UNCHANGED place  BY <1>1, <1>2, GrowsSame
<1>3. CASE MayMake(t) /\ \E f \in NextId : Makes(t, f)
  BY <1>1, <1>3, GrowsMade DEF Create
<1> QED BY <1>2, <1>3 DEF Create

LEMMA EnsurerCreateKeeps ==
    ASSUME Inv, NEW e \in Ensurers, Create(e)
    PROVE  Inv'
<1>1. /\ e \in Threads /\ Typed /\ Typed' /\ CacheOK /\ th[e] \in Thread
      /\ th[e].pc = "create" /\ At(e, "create")
  BY EnsurerAt, CreateTyped DEF Inv, Typed, Create, At
<1>2. faults' \in Nat /\ faults' >= faults /\ Grows  BY <1>1, CreateGrows
<1>3. (Untouched => Agrees(e)) /\ (Sure(e) => Knows(e))  BY DEF Inv, Lookups
<1>4. Cached' \subseteq Cached /\ IDsStay(Cached') /\ raced' = raced  BY <1>1, SameIDs DEF Create
<1>5. SUFFICES Others(e) /\ (Sure(e)' => Knows(e)') /\ (Untouched' => Agrees(e)')
  BY <1>1, <1>2, <1>4, EnsurerKeeps
<1>6. ASSUME MayMake(e), NEW f \in NextId, Makes(e, f), Set(e, [th[e] EXCEPT !.pc = "byid", !.got = f])
      PROVE  Others(e) /\ (Sure(e)' => Knows(e)') /\ (Untouched' => Agrees(e)')
  <2>1. th'[e] = [th[e] EXCEPT !.pc = "byid", !.got = f] /\ Others(e)  BY <1>1, <1>6, SetOthers
  <2>2. /\ th'[e].pc = "byid" /\ th'[e].got = f /\ th'[e].goal = th[e].goal
        /\ th'[e].lvl = th[e].lvl /\ th'[e].out = th[e].out /\ th'[e].fresh = th[e].fresh
    BY <1>1, <2>1 DEF Thread
  <2>3. Untouched' <=> Untouched  BY <1>1, <2>1, TrustOfEnsurers
  <2>4. Here(e)' = Here(e)  BY <2>2 DEF Here
  <2>5. ASSUME Sure(e)' PROVE Knows(e)'
    <3>1. Sure(e)  BY <2>2, <2>3, <2>5 DEF Sure, OneUser
    <3>2. th[e].id = IdAt(Prefix(th[e].goal, th[e].lvl - 1))  BY <1>1, <1>3, <3>1 DEF Knows
    <3>3. IdIn(place', Here(e)) = f  BY <1>1, <1>6, <3>2, MadeHere
    <3> QED BY <2>2, <2>4, <3>3 DEF Knows, IdAt
  <2>6. Untouched' => Agrees(e)'  BY <1>1, <1>3, <2>2, <2>3 DEF Agrees
  <2> QED BY <2>1, <2>5, <2>6
<1>7. ASSUME NotCreated(e), Untouched => faults' > 0 \/ IdIn(place', Here(e)) # None
      PROVE  Others(e) /\ (Sure(e)' => Knows(e)') /\ (Untouched' => Agrees(e)')
  <2>1. th'[e] = [th[e] EXCEPT !.pc = "lookup", !.again = TRUE] /\ Others(e)
    BY <1>1, <1>7, SetOthers DEF NotCreated
  <2>2. /\ th'[e].pc = "lookup" /\ th'[e].goal = th[e].goal
        /\ th'[e].lvl = th[e].lvl /\ th'[e].out = th[e].out
    BY <1>1, <2>1 DEF Thread
  <2>3. Untouched' <=> Untouched  BY <1>1, <2>1, TrustOfEnsurers
  <2>4. Here(e)' = Here(e)  BY <2>2 DEF Here
  <2>5. Knows(e)'  BY <2>2 DEF Knows
  <2>6. Untouched' => Agrees(e)'
    BY <1>1, <1>3, <1>7, <2>2, <2>3, <2>4 DEF Agrees, IdAt
  <2> QED BY <2>1, <2>5, <2>6
<1>8. ASSUME NEW kind, Wrong(kind) PROVE faults' > 0
  <2>1. faults' \in 1 .. MaxFaults  BY <1>1, <1>8, WorldFaulty DEF Typed
  <2> QED BY <2>1
<1>9. CASE ~MayMake(e) /\ NotCreated(e) /\ UNCHANGED <<place, faults>>
  <2>1. ASSUME Untouched PROVE IdIn(place', Here(e)) # None
    <3>1. th[e].id = IdAt(Prefix(th[e].goal, th[e].lvl - 1))
      BY <1>1, <1>3, <2>1 DEF Knows, Sure
    <3> QED BY <1>1, <1>9, <3>1, NotMadeHere DEF IdAt
  <2> QED BY <1>7, <1>9, <2>1
<1> QED BY <1>6, <1>7, <1>8, <1>9 DEF Create

\* Of a user's request the count stays, and what it is about while it changes the tree.
LEMMA UserStays ==
    ASSUME Typed, NEW u \in Users, NEW r, Set(u, r), th[u].pc # "idle", r.calls = th[u].calls,
           u \notin Changing
    PROVE  /\ th'[u] = r /\ Others(u) /\ th'[u].calls > 0
           /\ u \in Changing => u \in Changing' /\ Touched(th'[u]) = Touched(th[u])
BY UserAt, SetOthers DEF UserShape

LEMMA OverIs ==
    ASSUME NEW t \in Threads, NEW out, th[t] \in Thread
    PROVE  Over(t, out).pc = "idle" /\ Over(t, out).calls = th[t].calls
BY IdleTyped DEF Over, Thread

LEMMA UserCreateKeeps ==
    ASSUME Inv, NEW u \in Users, Create(u)
    PROVE  Inv'
<1>1. /\ u \in Threads /\ u \notin Ensurers /\ Typed /\ Typed' /\ CacheOK /\ th[u] \in Thread
      /\ th[u].pc = "create"
  BY UserAt, CreateTyped DEF Inv, Typed, Create, At
<1>2. faults' \in Nat /\ faults' >= faults /\ Grows  BY <1>1, CreateGrows
<1>3. Cached' \subseteq Cached /\ IDsStay(Cached') /\ raced' = raced  BY <1>1, SameIDs DEF Create
<1>4. u \notin Changing  BY <1>1 DEF Changing
<1>5. ASSUME NEW r, Set(u, r), r.calls = th[u].calls, r.pc \in {"byid", "idle"} PROVE Inv'
  <2>1. /\ th'[u] = r /\ Others(u) /\ th'[u].calls > 0
        /\ u \in Changing => u \in Changing' /\ Touched(th'[u]) = Touched(th[u])
    BY <1>1, <1>4, <1>5, UserStays
  <2>2. Aimed(u)'  BY <1>5, <2>1 DEF Aimed
  <2> QED BY <1>1, <1>2, <1>3, <2>1, <2>2, UserKeeps
<1>6. ASSUME NEW f, Set(u, [th[u] EXCEPT !.pc = "byid", !.got = f]) PROVE Inv'
  <2> DEFINE r == [th[u] EXCEPT !.pc = "byid", !.got = f]
  <2>1. r.calls = th[u].calls /\ r.pc = "byid"  BY <1>1 DEF Thread
  <2> QED BY <1>5, <1>6, <2>1
<1>7. ASSUME NotCreated(u) PROVE Inv'
  BY <1>1, <1>5, <1>7, OverIs DEF NotCreated, Ends
<1> QED BY <1>6, <1>7 DEF Create

LEMMA EnsurerInvalidatesKeeps ==
    ASSUME Inv, NEW e \in Ensurers, InvalidateIDs(e)
    PROVE  Inv'
<1>1. /\ e \in Threads /\ Typed /\ Typed' /\ CacheOK /\ th[e] \in Thread /\ th[e].pc = "byid"
  BY EnsurerAt, InvalidateIDsTyped DEF Inv, Typed, InvalidateIDs, At
<1>2. faults' \in Nat /\ faults' >= faults /\ Grows /\ UNCHANGED place
  BY <1>1, FaultsGrow, GrowsSame DEF InvalidateIDs
<1>3. (Untouched => Agrees(e)) /\ (Sure(e) => Knows(e))  BY DEF Inv, Lookups
<1>4. Cached' \subseteq Cached /\ IDsStay(Cached') /\ raced \cap Cached' \subseteq raced'
  BY <1>1, DropKeeps DEF InvalidateIDs
<1>5. th'[e] = [th[e] EXCEPT !.pc = "store"] /\ Others(e)
  BY <1>1, SetOthers DEF InvalidateIDs, Goto
<1>6. /\ th'[e].pc = "store" /\ th'[e].goal = th[e].goal /\ th'[e].lvl = th[e].lvl
      /\ th'[e].got = th[e].got /\ th'[e].out = th[e].out /\ th'[e].fresh = th[e].fresh
  BY <1>1, <1>5 DEF Thread
<1>7. Here(e)' = Here(e)  BY <1>6 DEF Here
<1>8. Untouched' <=> Untouched  BY <1>1, <1>5, TrustOfEnsurers
<1>9. ASSUME Sure(e)' PROVE Knows(e)'
  <2>1. Sure(e)  BY <1>6, <1>8, <1>9 DEF Sure, OneUser
  <2> QED BY <1>1, <1>2, <1>3, <1>6, <1>7, <2>1 DEF Knows, IdAt
<1>10. Untouched' => Agrees(e)'  BY <1>1, <1>3, <1>6, <1>8 DEF Agrees
<1> QED BY <1>1, <1>2, <1>4, <1>5, <1>9, <1>10, EnsurerKeeps

LEMMA UserInvalidatesKeeps ==
    ASSUME Inv, NEW u \in Users, InvalidateIDs(u)
    PROVE  Inv'
<1>1. /\ u \in Threads /\ u \notin Ensurers /\ Typed /\ Typed' /\ CacheOK /\ th[u] \in Thread
      /\ th[u].pc = "byid" /\ th[u].calls > 0
  BY UserAt, InvalidateIDsTyped DEF Inv, Typed, InvalidateIDs, At, UserShape
<1>2. faults' \in Nat /\ faults' >= faults /\ Grows
  BY <1>1, FaultsGrow, GrowsSame DEF InvalidateIDs
<1>3. Cached' \subseteq Cached /\ IDsStay(Cached') /\ raced \cap Cached' \subseteq raced'
  BY <1>1, DropKeeps DEF InvalidateIDs
<1> DEFINE next == IF th[u].op = "remove" THEN "purge" ELSE "subtree"
<1>4. th'[u] = [th[u] EXCEPT !.pc = next] /\ Others(u)
  BY <1>1, SetOthers DEF InvalidateIDs, Goto
<1>5. next \in {"purge", "subtree"}  OBVIOUS
<1> HIDE DEF next
<1>6. /\ th'[u].pc = next /\ th'[u].op = th[u].op /\ th'[u].goal = th[u].goal
      /\ th'[u].lvl = th[u].lvl /\ th'[u].dst = th[u].dst /\ th'[u].calls = th[u].calls
  BY <1>1, <1>4 DEF Thread
<1>7. u \in Changing' /\ Touched(th'[u]) = Touched(th[u]) /\ Aimed(u)'
  BY <1>5, <1>6 DEF Changing, Touched, Aimed
<1> QED BY <1>1, <1>2, <1>3, <1>4, <1>6, <1>7, UserKeeps

\* A lookup of a user, or a call that is over before it has changed anything.
LEMMA UserLooksKeeps ==
    ASSUME Inv, Typed', NEW u \in Users, th[u].pc # "idle", u \notin Changing, NEW r, Set(u, r),
           r.calls = th[u].calls,
           OneUser /\ r.pc \in {"dst", "change"} => r.id = IdAt(r.goal),
           UNCHANGED <<place, byPath, byID>>, UNCHANGED faults \/ \E kind : Wrong(kind),
           raced' = raced
    PROVE  Inv'
<1>1. Typed /\ CacheOK  BY DEF Inv, Typed
<1>2. faults' \in Nat /\ faults' >= faults /\ Grows  BY <1>1, FaultsGrow, GrowsSame
<1>3. Cached' \subseteq Cached /\ IDsStay(Cached')  BY <1>1, SameIDs DEF cacheVars
<1>4. /\ th'[u] = r /\ Others(u) /\ th'[u].calls > 0
      /\ u \in Changing => u \in Changing' /\ Touched(th'[u]) = Touched(th[u])
  BY <1>1, UserStays
<1>5. Aimed(u)'  BY <1>4 DEF Aimed, OneUser, IdAt
<1> QED BY <1>1, <1>2, <1>3, <1>4, <1>5, UserKeeps

LEMMA CallKeeps ==
    ASSUME Inv, NEW u \in Users, Call(u)
    PROVE  Inv'
<1>1. /\ u \in Threads /\ Typed /\ Typed' /\ CacheOK /\ th[u] \in Thread
      /\ th[u].pc = "idle" /\ th'[u].calls > 0
  BY UserAt, CallTyped DEF Inv, Typed, Call, At
<1>2. faults' \in Nat /\ faults' >= faults /\ Grows /\ Cached' \subseteq Cached /\ IDsStay(Cached')
      /\ raced' = raced
  BY <1>1, FaultsGrow, GrowsSame, SameIDs DEF Call
<1>3. PICK r : Set(u, r) /\ r.pc \in {"parent", "src"}
  <2>1. PICK op \in Ops, p \in Asked :
            \/ op = "mkdir" /\ Makeable(u, p)
            \/ op = "remove" /\ Set(u, Request(u, op, p))
            \/ op = "rename" /\ Renaming(u, p)
            \/ op \in {"move", "copy"} /\ Moving(u, op, p)
    BY DEF Call
  <2>2. ASSUME NEW q, Set(u, [Request(u, op, p) EXCEPT !.dst = q])
        PROVE  \E r : Set(u, r) /\ r.pc \in {"parent", "src"}
    <3> DEFINE r == [Request(u, op, p) EXCEPT !.dst = q]
    <3>1. r.pc = "src"  BY DEF Request, Idle
    <3> HIDE DEF r
    <3> QED BY <2>2, <3>1 DEF r
  <2>3. CASE op = "mkdir" /\ Makeable(u, p)
    <3> DEFINE r == [Idle EXCEPT !.pc = "parent", !.op = "mkdir", !.goal = p, !.lvl = Len(p),
                                 !.calls = th[u].calls + 1]
    <3>1. r.pc = "parent" /\ Set(u, r)  BY <2>3 DEF Idle, Makeable
    <3> HIDE DEF r
    <3> QED BY <3>1
  <2>4. CASE op = "remove" /\ Set(u, Request(u, op, p))
    <3>1. Request(u, op, p).pc = "src"  BY DEF Request, Idle
    <3> HIDE DEF Request
    <3> QED BY <2>4, <3>1
  <2>5. CASE op = "rename" /\ Renaming(u, p)  BY <2>2, <2>5 DEF Renaming
  <2>6. CASE op \in {"move", "copy"} /\ Moving(u, op, p)  BY <2>2, <2>6 DEF Moving
  <2> QED BY <2>1, <2>3, <2>4, <2>5, <2>6
<1>4. th'[u] = r /\ Others(u)  BY <1>1, <1>3, SetOthers
<1>5. Aimed(u)' /\ u \notin Changing  BY <1>1, <1>3, <1>4 DEF Aimed, Changing
<1> QED BY <1>1, <1>2, <1>4, <1>5, UserKeeps

LEMMA FindParentKeeps ==
    ASSUME Inv, NEW u \in Users, FindParent(u)
    PROVE  Inv'
<1>1. Typed' /\ th[u] \in Thread /\ th[u].pc = "parent" /\ u \notin Changing
  BY UserAt, FindParentTyped DEF Inv, FindParent, At, Changing
<1>2. UNCHANGED <<place, byPath, byID>> /\ UNCHANGED faults /\ raced' = raced
  BY DEF FindParent, cacheVars
<1>3. ASSUME NEW r, Set(u, r), r.calls = th[u].calls, r.pc \in {"parent", "create", "idle"}
      PROVE  Inv'
  BY <1>1, <1>2, <1>3, UserLooksKeeps
<1>4. ASSUME NEW f, Set(u, [th[u] EXCEPT !.pc = "create", !.id = f]) PROVE Inv'
  <2> DEFINE r == [th[u] EXCEPT !.pc = "create", !.id = f]
  <2>1. r.calls = th[u].calls /\ r.pc = "create"  BY <1>1 DEF Thread
  <2> QED BY <1>3, <1>4, <2>1
<1>5. CASE Set(u, [th[u] EXCEPT !.lvl = @ - 1])
  <2> DEFINE r == [th[u] EXCEPT !.lvl = @ - 1]
  <2>1. r.calls = th[u].calls /\ r.pc = "parent"  BY <1>1 DEF Thread
  <2> QED BY <1>3, <1>5, <2>1
<1>6. CASE Ends(u, "error")
  <2>1. u \in Threads  BY DEF Threads
  <2> QED BY <1>1, <1>3, <1>6, <2>1, OverIs DEF Ends
<1> QED BY <1>4, <1>5, <1>6 DEF FindParent

LEMMA FindSourceKeeps ==
    ASSUME Inv, NEW u \in Users, FindSource(u)
    PROVE  Inv'
<1>1. Typed' /\ u \in Threads /\ th[u] \in Thread /\ th[u].pc = "src" /\ u \notin Changing
  BY UserAt, FindSourceTyped DEF Inv, FindSource, At, Changing
<1>2. UNCHANGED <<place, byPath, byID>> /\ UNCHANGED faults /\ raced' = raced
  BY DEF FindSource, cacheVars
<1>3. CASE IdAt(th[u].goal) = None
  <2>1. Set(u, Over(u, "error"))  BY <1>3 DEF FindSource, Ends
  <2>2. Over(u, "error").pc = "idle" /\ Over(u, "error").calls = th[u].calls  BY <1>1, OverIs
  <2> QED BY <1>1, <1>2, <2>1, <2>2, UserLooksKeeps
<1>4. CASE IdAt(th[u].goal) # None
  <2> DEFINE f == IdAt(th[u].goal)
             to == IF th[u].op \in {"move", "copy"} THEN "dst" ELSE "change"
             r == [th[u] EXCEPT !.id = f, !.pc = to]
  <2>1. Set(u, r)  BY <1>4 DEF FindSource
  <2>2. r.calls = th[u].calls /\ r.id = IdAt(r.goal)
    <3>1. f = IdAt(th[u].goal)  OBVIOUS
    <3> HIDE DEF f, to
    <3>2. r.calls = th[u].calls /\ r.id = f /\ r.goal = th[u].goal  BY <1>1 DEF Thread
    <3> QED BY <3>1, <3>2
  <2> HIDE DEF r
  <2> QED BY <1>1, <1>2, <2>1, <2>2, UserLooksKeeps
<1> QED BY <1>3, <1>4

LEMMA FindTargetKeeps ==
    ASSUME Inv, NEW u \in Users, FindTarget(u)
    PROVE  Inv'
<1> DEFINE q == th[u].dst
<1>1. Typed' /\ u \in Threads /\ th[u] \in Thread /\ th[u].pc = "dst" /\ u \notin Changing
  BY UserAt, FindTargetTyped DEF Inv, FindTarget, At, Changing
<1>2. UNCHANGED <<place, byPath, byID>> /\ UNCHANGED faults /\ raced' = raced
  BY DEF FindTarget, cacheVars
<1>3. OneUser => th[u].id = IdAt(th[u].goal)  BY <1>1 DEF Inv, Lookups, Aimed
<1>4. ASSUME NEW r, Set(u, r), r.calls = th[u].calls, r.id = th[u].id, r.goal = th[u].goal
      PROVE  Inv'
  BY <1>1, <1>2, <1>3, <1>4, UserLooksKeeps
<1>5. ASSUME NEW f, NEW d, Set(u, [th[u] EXCEPT !.to = f, !.dst = d, !.pc = "change"]) PROVE Inv'
  <2> DEFINE r == [th[u] EXCEPT !.to = f, !.dst = d, !.pc = "change"]
  <2>1. r.calls = th[u].calls /\ r.id = th[u].id /\ r.goal = th[u].goal  BY <1>1 DEF Thread
  <2> HIDE DEF r
  <2>2. Set(u, r)  BY <1>5 DEF r
  <2> QED BY <1>4, <2>1, <2>2
<1>6. ASSUME NEW f, Set(u, [th[u] EXCEPT !.to = f, !.pc = "change"]) PROVE Inv'
  <2> DEFINE r == [th[u] EXCEPT !.to = f, !.pc = "change"]
  <2>1. r.calls = th[u].calls /\ r.id = th[u].id /\ r.goal = th[u].goal  BY <1>1 DEF Thread
  <2> HIDE DEF r
  <2>2. Set(u, r)  BY <1>6 DEF r
  <2> QED BY <1>4, <2>1, <2>2
<1>7. ASSUME Ends(u, "error") PROVE Inv'
  <2>1. Over(u, "error").pc = "idle" /\ Over(u, "error").calls = th[u].calls  BY <1>1, OverIs
  <2> QED BY <1>1, <1>2, <1>7, <2>1, UserLooksKeeps DEF Ends
<1>8. CASE IdAt(q) # None  BY <1>5, <1>8 DEF FindTarget
<1>9. CASE IdAt(q) = None /\ IdAt(Parent(q)) = None  BY <1>7, <1>9 DEF FindTarget
<1>10. CASE IdAt(q) = None /\ IdAt(Parent(q)) # None  BY <1>6, <1>10 DEF FindTarget
<1> QED BY <1>8, <1>9, <1>10

-----------------------------------------------------------------------------
(* The steps that change the tree, or drop what was said of it.             *)

\* After a write that nobody will tell the cache about, and while one is under way, no
\* caller is sure of anything.
LEMMA NobodySure ==
    ASSUME Typed, NEW u \in Users, th'[u].calls > 0, th'[u].pc \notin {"dst", "change"},
           \A e \in Ensurers : th'[e].fresh = FALSE
    PROVE  ~Untouched' /\ Lookups'
<1>1. ~Untouched'
  <2>1. ASSUME th'[u].calls = 0 PROVE FALSE  BY <2>1
  <2> QED BY <2>1 DEF Untouched
<1>2. \A e \in Ensurers : ~Sure(e)'  BY <1>1 DEF Sure
<1>3. ASSUME NEW v \in Users PROVE Aimed(v)'
  <2>1. OneUser => v = u  BY DEF OneUser
  <2>2. v = u => Aimed(v)'  BY DEF Aimed
  <2>3. ~OneUser => Aimed(v)'  BY DEF Aimed, OneUser
  <2> QED BY <2>1, <2>2, <2>3
<1> QED BY <1>1, <1>2, <1>3 DEF Lookups

\* What a write leaves cached outside the subtrees it touches is still so.
LEMMA ChangedElsewhere ==
    ASSUME Inv, NEW u \in Users, OneUser, At(u, "change"), Live(th[u].id), place' \in Placed(u),
           NEW p \in Cached \ raced, p \notin Touched(th[u])
    PROVE  byPath[p] = IdIn(place', p)
<1>1. /\ Typed /\ th[u] \in Thread /\ th[u].pc = "change" /\ th[u].goal \in Paths
      /\ th[u].op # "mkdir" /\ th[u].id \in Folders
  BY UserAt DEF Inv, At, UserShape
<1>2. Changing = {}  BY <1>1 DEF Changing, OneUser
<1>3. byPath[p] = IdAt(p)  BY <1>2 DEF Inv, Entries, Trusted
<1>4. p \in Paths /\ p \in AnyPath /\ IdIn(place, p) # None
  BY <1>3 DEF Cached, AnyPath, IdAt
<1>5. ~IsPrefix(th[u].goal, p)
  <2>1. Subtree(th[u].goal) \subseteq Touched(th[u])  BY <1>1 DEF Touched
  <2>2. p \notin Subtree(th[u].goal)  BY <2>1
  <2> QED BY <1>4, <2>2 DEF Subtree
<1>6. IdIn(place, th[u].goal) = th[u].id  BY <1>1 DEF Inv, Lookups, Aimed, IdAt
<1>7. PICK f \in Folders : /\ f = th[u].id \/ place[f] = Unmade
                           /\ \A g \in Folders \ {f} : place'[g] = place[g]
  BY <1>1, PlacedTyped
<1>8. Unique(place')  BY <1>1, PlacedTyped
<1>9. CASE f = th[u].id
  BY <1>1, <1>4, <1>5, <1>6, <1>7, <1>8, <1>9, <1>3, KeptElsewhere DEF IdAt
<1>10. CASE place[f] = Unmade
  BY <1>4, <1>7, <1>8, <1>10, <1>3, KeptByMaking DEF IdAt
<1> QED BY <1>7, <1>9, <1>10

LEMMA ChangeKeeps ==
    ASSUME Inv, NEW u \in Users, Change(u)
    PROVE  Inv'
<1>1. /\ Typed /\ Typed' /\ u \in Threads /\ u \notin Ensurers /\ th[u] \in Thread
      /\ th[u].pc = "change" /\ th[u].calls > 0 /\ th[u].op # "mkdir" /\ u \notin Changing
  BY UserAt, ChangeTyped DEF Inv, Change, At, UserShape, Changing
<1>2. byPath' = byPath /\ byID' = byID /\ Cached' = Cached  BY DEF Change, Cached
<1>3. ASSUME NEW r, th' = [Stale(u) EXCEPT ![u] = r]
      PROVE  th'[u] = r /\ \A e \in Ensurers : th'[e].fresh = FALSE
  <2>1. \A t \in Threads : th'[t] = IF t = u THEN r ELSE [th[t] EXCEPT !.fresh = FALSE]
    BY <1>3 DEF Stale
  <2>2. ASSUME NEW e \in Ensurers PROVE th'[e].fresh = FALSE
    <3>1. e \in Threads /\ e # u /\ th[e] \in Thread  BY <1>1, EnsurerAt
    <3> QED BY <2>1, <3>1 DEF Thread
  <2> QED BY <1>1, <2>1, <2>2
<1>4. CASE /\ Live(th[u].id) /\ place' \in Placed(u) /\ UNCHANGED <<faults, raced>>
           /\ th' = [Stale(u) EXCEPT ![u].pc = "byid"]
  <2> DEFINE r == [th[u] EXCEPT !.pc = "byid"]
  <2>1. th' = [Stale(u) EXCEPT ![u] = r]  BY <1>1, <1>4 DEF Stale
  <2>2. th'[u] = r /\ \A e \in Ensurers : th'[e].fresh = FALSE  BY <1>3, <2>1
  <2>3. /\ th'[u].pc = "byid" /\ th'[u].calls > 0 /\ th'[u].op = th[u].op
        /\ th'[u].goal = th[u].goal /\ th'[u].lvl = th[u].lvl /\ th'[u].dst = th[u].dst
    BY <1>1, <2>2 DEF Thread
  <2>4. ~Untouched' /\ Lookups'  BY <1>1, <2>2, <2>3, NobodySure
  <2>5. u \in Changing' /\ Touched(th'[u]) = Touched(th[u])  BY <2>3 DEF Changing, Touched
  <2>6. ASSUME NEW p \in Cached', Trusted(p)' PROVE byPath'[p] = IdIn(place', p)
    <3>1. OneUser /\ p \notin raced' /\ p \notin Touched(th'[u])
      BY <2>4, <2>5, <2>6 DEF Trusted, OneUser
    <3>2. p \in Cached \ raced /\ p \notin Touched(th[u])  BY <1>2, <1>4, <2>5, <3>1
    <3>3. At(u, "change")  BY <1>1 DEF At
    <3> QED BY <1>2, <1>4, <3>1, <3>2, <3>3, ChangedElsewhere
  <2>7. Entries'  BY <2>4, <2>6 DEF Entries, IdAt
  <2> QED BY <1>1, <2>4, <2>7 DEF Inv
<1>5. CASE /\ Live(th[u].id) /\ place' \in Placed(u) /\ Wrong("lost") /\ raced' = Cached
           /\ th' = [Stale(u) EXCEPT ![u] = Over(u, "error")]
  <2>1. th'[u] = Over(u, "error") /\ \A e \in Ensurers : th'[e].fresh = FALSE  BY <1>3, <1>5
  <2>2. th'[u].pc = "idle" /\ th'[u].calls > 0  BY <1>1, <2>1, OverIs
  <2>3. ~Untouched' /\ Lookups'  BY <1>1, <2>1, <2>2, NobodySure
  <2>4. \A p \in Cached' : ~Trusted(p)'  BY <1>2, <1>5, <2>3 DEF Trusted
  <2> QED BY <1>1, <2>3, <2>4 DEF Inv, Entries
<1>6. ASSUME Ends(u, "error"), UNCHANGED <<place, raced>>, UNCHANGED faults \/ \E kind : Wrong(kind)
      PROVE  Inv'
  <2>1. Set(u, Over(u, "error"))  BY <1>6 DEF Ends
  <2>2. Over(u, "error").pc = "idle" /\ Over(u, "error").calls = th[u].calls  BY <1>1, OverIs
  <2> QED BY <1>1, <1>2, <1>6, <2>1, <2>2, UserLooksKeeps
<1> QED BY <1>4, <1>5, <1>6 DEF Change

LEMMA PurgeKeeps ==
    ASSUME Inv, NEW u \in Users, Purge(u)
    PROVE  Inv'
<1>1. /\ Typed /\ Typed' /\ u \in Threads /\ u \notin Ensurers /\ th[u] \in Thread /\ CacheOK
      /\ th[u].pc = "purge" /\ th[u].calls > 0
  BY UserAt, PurgeTyped DEF Inv, Typed, Purge, At, UserShape
<1>2. faults' \in Nat /\ faults' >= faults /\ Grows  BY <1>1, FaultsGrow, GrowsSame DEF Purge
<1>3. CASE Goto(u, "subtree") /\ UNCHANGED <<faults, raced>>
  <2>1. th'[u] = [th[u] EXCEPT !.pc = "subtree"] /\ Others(u)  BY <1>1, <1>3, SetOthers DEF Goto
  <2>2. /\ th'[u].pc = "subtree" /\ th'[u].calls > 0 /\ th'[u].op = th[u].op
        /\ th'[u].goal = th[u].goal /\ th'[u].lvl = th[u].lvl /\ th'[u].dst = th[u].dst
    BY <1>1, <2>1 DEF Thread
  <2>3. u \in Changing' /\ Touched(th'[u]) = Touched(th[u]) /\ Aimed(u)'
    BY <2>2 DEF Changing, Touched, Aimed
  <2>4. Cached' \subseteq Cached /\ IDsStay(Cached') /\ raced' = raced
    BY <1>1, <1>3, SameIDs DEF Purge, cacheVars
  <2> QED BY <1>1, <1>2, <2>1, <2>2, <2>3, <2>4, UserKeeps
<1>4. CASE Wrong("fail") /\ Ends(u, "error") /\ raced' = Cached
  <2>1. th'[u] = Over(u, "error") /\ Others(u)  BY <1>1, <1>4, SetOthers DEF Ends
  <2>2. th'[u].pc = "idle" /\ th'[u].calls > 0  BY <1>1, <2>1, OverIs
  <2>3. ~Untouched'
    <3>1. ASSUME th'[u].calls = 0 PROVE FALSE  BY <2>2, <3>1
    <3> QED BY <3>1 DEF Untouched
  <2>4. Cached' = Cached  BY DEF Purge, Cached
  <2>5. \A p \in Cached' : ~Trusted(p)'  BY <1>4, <2>3, <2>4 DEF Trusted
  <2>6. Aimed(u)'  BY <2>2 DEF Aimed
  <2>7. Lookups'  BY <1>1, <1>2, <2>1, <2>3, <2>6, LookupsKept DEF Inv
  <2> QED BY <1>1, <2>3, <2>5, <2>7 DEF Inv, Entries
<1> QED BY <1>3, <1>4 DEF Purge

\* What is left cached was not touched, and was trusted all along.
LEMMA InvalidateSubtreeKeeps ==
    ASSUME Inv, NEW u \in Users, InvalidateSubtree(u)
    PROVE  Inv'
<1>1. /\ Typed /\ Typed' /\ u \in Threads /\ u \notin Ensurers /\ th[u] \in Thread /\ CacheOK
      /\ th[u].pc = "subtree" /\ th[u].calls > 0
  BY UserAt, InvalidateSubtreeTyped DEF Inv, Typed, InvalidateSubtree, At, UserShape
<1>2. faults' \in Nat /\ faults' >= faults /\ Grows
  BY <1>1, FaultsGrow, GrowsSame DEF InvalidateSubtree
<1>3. /\ Cached' = Cached \ Touched(th[u]) /\ raced' = raced \ Touched(th[u]) /\ IDsStay(Cached')
  BY <1>1, DropKeeps DEF InvalidateSubtree
<1>4. PICK r : Set(u, r) /\ r.pc \in {"parent", "idle"} /\ r.calls = th[u].calls
  <2>1. CASE Set(u, [th[u] EXCEPT !.pc = "parent", !.lvl = @ + 1, !.again = TRUE])
    <3> DEFINE r == [th[u] EXCEPT !.pc = "parent", !.lvl = @ + 1, !.again = TRUE]
    <3>1. r.pc = "parent" /\ r.calls = th[u].calls  BY <1>1 DEF Thread
    <3> HIDE DEF r
    <3> QED BY <2>1, <3>1 DEF r
  <2>2. CASE Ends(u, "ok")
    <3>1. Over(u, "ok").pc = "idle" /\ Over(u, "ok").calls = th[u].calls  BY <1>1, OverIs
    <3> QED BY <2>2, <3>1 DEF Ends
  <2> QED BY <2>1, <2>2 DEF InvalidateSubtree
<1>5. th'[u] = r /\ Others(u)  BY <1>1, <1>4, SetOthers
<1>6. ~Untouched'
  <2>1. ASSUME th'[u].calls = 0 PROVE FALSE  BY <1>1, <1>4, <1>5, <2>1
  <2> QED BY <2>1 DEF Untouched
<1>7. ASSUME NEW p \in Cached', Trusted(p)' PROVE Trusted(p)
  <2>1. OneUser /\ p \notin raced'  BY <1>6, <1>7 DEF Trusted, OneUser
  <2>2. p \notin Touched(th[u]) /\ p \notin raced  BY <1>3, <2>1
  <2>3. \A v \in Changing : v = u  BY <2>1 DEF OneUser, Changing
  <2> QED BY <2>1, <2>2, <2>3 DEF Trusted
<1>8. Entries'
  <2>1. Cached' \subseteq Cached  BY <1>3
  <2> QED BY <1>1, <1>2, <1>3, <1>6, <1>7, <2>1, EntriesKept DEF Inv
<1>9. Aimed(u)'  BY <1>4, <1>5 DEF Aimed
<1>10. Lookups'  BY <1>1, <1>2, <1>5, <1>6, <1>9, LookupsKept DEF Inv
<1> QED BY <1>1, <1>8, <1>10 DEF Inv

-----------------------------------------------------------------------------
(* The theorems.                                                            *)

LEMMA StutterKeeps == Inv /\ UNCHANGED vars => Inv'
<1> SUFFICES ASSUME Inv, UNCHANGED vars PROVE Inv'  OBVIOUS
<1>1. Typed'  BY TypedStep DEF Inv
<1>2. /\ UNCHANGED <<place, byPath, byID, th, faults, raced>> /\ Cached' = Cached /\ Changing' = Changing
  BY DEF vars, cacheVars, Cached, Changing
<1>3. Entries'
  <2>1. \A p : Trusted(p)' <=> Trusted(p)  BY <1>2 DEF Trusted, Untouched, OneUser, Touched
  <2> QED BY <1>2, <2>1 DEF Inv, Entries, IdAt, Untouched
<1>4. ASSUME NEW e \in Ensurers PROVE (Sure(e)' => Knows(e)') /\ (Untouched' => Agrees(e)')
  <2>1. (Sure(e) => Knows(e)) /\ (Untouched => Agrees(e))  BY DEF Inv, Lookups
  <2> QED BY <1>2, <2>1 DEF Sure, Knows, Agrees, Untouched, OneUser, IdAt, Here
<1>5. ASSUME NEW u \in Users PROVE Aimed(u)'
  <2>1. Aimed(u)  BY DEF Inv, Lookups
  <2> QED BY <1>2, <2>1 DEF Aimed, OneUser, IdAt
<1> QED BY <1>1, <1>3, <1>4, <1>5 DEF Inv, Lookups

\* Every step keeps the invariant, action by action.
LEMMA InvStep == Inv /\ [Next]_vars => Inv'
<1> SUFFICES ASSUME Inv, [Next]_vars PROVE Inv'  OBVIOUS
<1>1. CASE UNCHANGED vars  BY <1>1, StutterKeeps
<1>2. ASSUME NEW e \in Ensurers, EnsureStep(e) \/ \E goal \in Goals : Ensure(e, goal) PROVE Inv'
  BY <1>2, EnsureKeeps, LookupKeeps, AskKeeps, KeepKeeps, WriteKeeps DEF EnsureStep
<1>3. ASSUME NEW u \in Users, UserStep(u) \/ Call(u) PROVE Inv'
  BY <1>3, CallKeeps, FindParentKeeps, FindSourceKeeps, FindTargetKeeps, ChangeKeeps,
     PurgeKeeps, InvalidateSubtreeKeeps DEF UserStep
<1>4. ASSUME NEW t \in Threads, Create(t) \/ InvalidateIDs(t) PROVE Inv'
  BY <1>4, EnsurerCreateKeeps, UserCreateKeeps, EnsurerInvalidatesKeeps, UserInvalidatesKeeps DEF Threads
<1> QED BY <1>1, <1>2, <1>3, <1>4 DEF Next

LEMMA InitInv == Init => Inv
<1> SUFFICES ASSUME Init PROVE Inv  OBVIOUS
<1>1. Cached = {}  BY DEF Init, Cached
<1>2. \A t \in Threads : th[t].pc = "idle" /\ th[t].out = "none"  BY DEF Init, Idle
<1>3. Entries  BY <1>1 DEF Entries
<1>4. Lookups  BY <1>2 DEF Lookups, Knows, Agrees, Aimed, Threads
<1> QED BY <1>3, <1>4, InitTyped DEF Inv

\* The invariant that the theorems below are read off from: the cache, the callers in the
\* middle of a call and the tree upstream agree (pathcache.go, path.go: EnsurePath).
THEOREM InvHolds == Spec => []Inv
BY InitInv, InvStep, PTL DEF Spec

\* While no folder changes its path, InvalidateID finds every entry by its id, through
\* expiry, eviction and two callers storing it (pathcache.go: dropPathLocked, Store).
THEOREM IDsFindTheirEntries == Spec => []FoundByID
<1>1. Inv => FoundByID  BY DEF Inv, Entries, FoundByID, Untouched
<1> QED BY <1>1, InvHolds, PTL

\* While nobody else writes, EnsurePath ends with the folder its path names, whoever made
\* it and whichever answer was lost, and fails only after a request has (path.go).
THEOREM EnsuredIsNamed == Spec => []EnsureAgrees
<1>1. Inv => EnsureAgrees  BY DEF Inv, Lookups, Agrees, EnsureAgrees, Untouched
<1> QED BY <1>1, InvHolds, PTL

\* When folder writes do not overlap, one that has ended has left nothing stale cached,
\* but what was looked up before it and stored after it, and what a write that ended
\* half-way could not drop (paths.go: invalidateSubtree).  With writes that overlap this
\* is false.
THEOREM OneWriterLeavesNothingStale ==
    ASSUME OneUser PROVE Spec => []NothingStaleIsLeft
<1>1. Inv => NothingStaleIsLeft  BY DEF Inv, Entries, Trusted, NothingStaleIsLeft
<1> QED BY <1>1, InvHolds, PTL
=============================================================================
