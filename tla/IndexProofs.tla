------------------------------ MODULE IndexProofs ------------------------------
(***************************************************************************)
(* Theorems about the directory index and the path rules, for every tree,  *)
(* request and limit: an accepted index is exactly the tree below its      *)
(* roots or says that it is not, the entry limit refuses for a reason, and *)
(* a reference falls back on a bare name last.                             *)
(***************************************************************************)
EXTENDS IndexProperties, FoldTheorems, SequenceTheorems

Phases == {"begin", "refused", "options", "walk", "indexed", "too_many_files", "too_many_entries"}

Walking == phase \in {"walk", "indexed"}

WellTyped ==
  /\ fs \in FileSystems /\ request \in Request
  /\ phase \in Phases
  /\ scanning \in Nat /\ entriesSeen \in Nat
  /\ partial \in BOOLEAN
  /\ files \in Seq(IndexedFile)
  /\ roots \in Seq(DOMAIN fs.listing)
  /\ \A r, s \in DOMAIN roots : roots[r] = roots[s] => r = s
  /\ phase \in {"begin", "options"} => scanning = 0 /\ files = <<>> /\ pending = {} /\ entries = {} /\ entriesSeen = 0
  /\ phase = "options" \/ Walking => roots # <<>>

\* An option was passed over.
OptionLost ==
  \/ \E m \in DOMAIN mappingRoots : mappingRoots[m] = NONE
  \/ \E s \in DOMAIN searchRoots : searchRoots[s] = NONE

OptionsTaken ==
  /\ mappingRoots \in Seq(Nat \cup {NONE}) /\ searchRoots \in Seq(Nat \cup {NONE})
  /\ Len(mappingRoots) <= Len(request.mappings)
  /\ \A m \in DOMAIN mappingRoots : mappingRoots[m] # NONE =>
       mappingRoots[m] \in DOMAIN roots /\ roots[mappingRoots[m]] = request.mappings[m].target
  /\ \A s \in DOMAIN searchRoots : searchRoots[s] # NONE => searchRoots[s] \in DOMAIN roots
  /\ phase \in {"begin", "options"} => (partial <=> OptionLost)
  /\ phase = "begin" => mappingRoots = <<>> /\ searchRoots = <<>> /\ roots = <<>>

-----------------------------------------------------------------------------
(***************************************************************************)
(* How far the walk of a root has come.                                    *)
(***************************************************************************)
\* The walk of the current root still has to read the directory d.
Ahead(d) ==
  \/ \E p \in pending : IsPrefix(p, d)
  \/ \E e \in entries : e.kind = "directory" /\ IsPrefix(directory \o <<e.name>>, d)

\* Nothing the walk has to do lies below anything else it has to do.
WalkInOrder ==
  /\ scanning \in DOMAIN roots
  /\ pending \subseteq WalkedDirectories(roots[scanning])
  /\ \A p, q \in pending : IsPrefix(p, q) => p = q
  /\ entries # {} =>
       /\ directory \in WalkedDirectories(roots[scanning]) \ fs.closed
       /\ entries \subseteq {e \in fs.listing[directory] : e.kind # "unreadable"}
       /\ \A p \in pending : ~IsPrefix(p, directory)
       /\ \A p \in pending, e \in entries : ~IsPrefix(directory \o <<e.name>>, p)
  /\ phase = "indexed" => pending = {} /\ entries = {} /\ scanning = Len(roots)

Reached(r, d) ==
  /\ r \in 1 .. scanning
  /\ d \in WalkedDirectories(roots[r])
  /\ r = scanning => ~Ahead(d)

\* The walk of root r has taken the entry e of the directory d.
Taken(r, d, e) ==
  /\ Reached(r, d) /\ d \notin fs.closed
  /\ e \in fs.listing[d] /\ e.kind # "unreadable"
  /\ ~(r = scanning /\ d = directory /\ e \in entries)

FoundSoFar(r, path) ==
  \E d \in DOMAIN fs.listing : \E e \in fs.listing[d] :
    Taken(r, d, e) /\ e.kind = "file" /\ e.name \in CadNames /\ path = d \o <<e.name>>

RootsSoFar(path) == {r \in 1 .. scanning : FoundSoFar(r, path)}

Lost(r, d) ==
  \/ d \in fs.closed
  \/ \E e \in fs.listing[d] : e.kind = "unreadable" \/ (e.kind = "untyped" /\ Taken(r, d, e))

AllEntries == UNION {EntriesBelow(roots[r]) : r \in DOMAIN roots}

Counted ==
  {path \in AllEntries :
     \E r \in 1 .. scanning : \E d \in DOMAIN fs.listing : \E e \in fs.listing[d] :
       Taken(r, d, e) /\ path = d \o <<e.name>>}

RootsApart == \A r, s \in DOMAIN roots : IsPrefix(roots[r], roots[s]) => r = s

\* The index is the tree as far as it has been walked.
FilesInv ==
  /\ \A i, j \in DOMAIN files : files[i].path = files[j].path => i = j
  /\ \A r \in 1 .. scanning : \A path \in Found(roots[r]) :
       FoundSoFar(r, path) => \E i \in DOMAIN files : files[i].path = path
  /\ \A i \in DOMAIN files :
       LET met == RootsSoFar(files[i].path)
       IN /\ files[i].members = IF met = {} THEN {1} ELSE met
          /\ met = {} => /\ request.document # NONE /\ files[i].path = request.document
                         /\ pending = {} /\ entries = {} /\ scanning = Len(roots)
  /\ phase = "indexed" /\ request.document # NONE =>
       \E i \in DOMAIN files : files[i].path = request.document

LossInv ==
  partial <=> OptionLost \/ \E r \in 1 .. scanning : \E d \in DOMAIN fs.listing :
                              Reached(r, d) /\ Lost(r, d)

CountInv ==
  /\ entriesSeen <= MaxProjectEntries
  /\ Cardinality(Counted) <= entriesSeen
  /\ RootsApart => Cardinality(Counted) = entriesSeen

IndexInv ==
  /\ WellTyped
  /\ OptionsTaken
  /\ Walking => WalkInOrder /\ FilesInv /\ LossInv /\ CountInv
  /\ EntryLimitIsHonest

\* An answer is given on a finished index, which does not change any more.
AnswerInv ==
  answer # NONE =>
    /\ phase = "indexed"
    /\ answer.source \in DOMAIN files /\ answer.stored \in StoredPaths
    /\ answer.result = Resolve(answer.source, answer.stored)

Inv == IndexInv /\ AnswerInv

-----------------------------------------------------------------------------
(***************************************************************************)
(* Paths.                                                                  *)
(***************************************************************************)
LEMMA PrefixByName ==
  ASSUME NEW p \in Path, NEW q \in Path
  PROVE  IsPrefix(p, q) <=> /\ Len(p) <= Len(q)
                            /\ \A i \in 1 .. Len(p) : p[i] = q[i]
<1>1. Len(p) \in Nat /\ Len(q) \in Nat
  BY DEF Path
<1>2. SubSeq(p, 1, Len(p)) = [i \in 1 .. Len(p) |-> p[i]]
  <2>1. DOMAIN SubSeq(p, 1, Len(p)) = 1 .. Len(p) /\ \A i \in 1 .. Len(p) : SubSeq(p, 1, Len(p))[i] = p[i]
    BY <1>1, SubSeqProperties DEF Path
  <2>2. SubSeq(p, 1, Len(p)) \in Seq(Names)
    BY <1>1, SubSeqProperties DEF Path
  <2> QED
    BY <2>1, <2>2
<1>3. ASSUME Len(p) <= Len(q)
      PROVE  SubSeq(q, 1, Len(p)) = [i \in 1 .. Len(p) |-> q[i]]
  <2>1. DOMAIN SubSeq(q, 1, Len(p)) = 1 .. Len(p) /\ \A i \in 1 .. Len(p) : SubSeq(q, 1, Len(p))[i] = q[i]
    BY <1>1, <1>3, SubSeqProperties DEF Path
  <2>2. SubSeq(q, 1, Len(p)) \in Seq(Names)
    BY <1>1, <1>3, SubSeqProperties DEF Path
  <2> QED
    BY <2>1, <2>2
<1> QED
  BY <1>1, <1>2, <1>3 DEF IsPrefix

\* The path of an entry: its directory, then its name.
LEMMA EntryPath ==
  ASSUME NEW d \in Path, NEW n \in Names
  PROVE  /\ d \o <<n>> \in Path /\ Len(d \o <<n>>) = Len(d) + 1 /\ Len(d) \in Nat
         /\ \A i \in 1 .. Len(d) : (d \o <<n>>)[i] = d[i]
         /\ (d \o <<n>>)[Len(d) + 1] = n
         /\ IsPrefix(d, d \o <<n>>)
<1>1. <<n>> \in Seq(Names)
  OBVIOUS
<1>2. /\ d \o <<n>> \in Path /\ Len(d \o <<n>>) = Len(d) + 1 /\ Len(d) \in Nat
      /\ \A i \in 1 .. Len(d) : (d \o <<n>>)[i] = d[i]
      /\ (d \o <<n>>)[Len(d) + 1] = n
  BY <1>1 DEF Path
<1>3. IsPrefix(d, d \o <<n>>)
  <2> DEFINE e == d \o <<n>>
  <2>1. e \in Path /\ Len(d) <= Len(e) /\ \A i \in 1 .. Len(d) : d[i] = e[i]
    BY <1>2
  <2> HIDE DEF e
  <2>2. IsPrefix(d, e)
    BY <2>1, PrefixByName
  <2> QED
    BY <2>2 DEF e
<1> QED
  BY <1>2, <1>3

LEMMA EntryPathUnique ==
  ASSUME NEW c \in Path, NEW m \in Names, NEW d \in Path, NEW n \in Names,
         c \o <<m>> = d \o <<n>>
  PROVE  c = d /\ m = n
<1>1. /\ Len(c \o <<m>>) = Len(c) + 1 /\ Len(c) \in Nat /\ (c \o <<m>>)[Len(c) + 1] = m
      /\ \A i \in 1 .. Len(c) : (c \o <<m>>)[i] = c[i]
  BY EntryPath
<1>2. /\ Len(d \o <<n>>) = Len(d) + 1 /\ Len(d) \in Nat /\ (d \o <<n>>)[Len(d) + 1] = n
      /\ \A i \in 1 .. Len(d) : (d \o <<n>>)[i] = d[i]
  BY EntryPath
<1>3. Len(c) = Len(d)
  BY <1>1, <1>2
<1>4. m = n /\ \A i \in 1 .. Len(c) : c[i] = d[i]
  BY <1>1, <1>2, <1>3
<1> QED
  BY <1>3, <1>4, SeqEqual DEF Path

LEMMA PrefixTransitive ==
  ASSUME NEW p \in Path, NEW q \in Path, NEW r \in Path, IsPrefix(p, q), IsPrefix(q, r)
  PROVE  IsPrefix(p, r)
<1>1. Len(p) \in Nat /\ Len(q) \in Nat
  BY DEF Path
<1> QED
  BY <1>1, PrefixByName

LEMMA PrefixAntisymmetric ==
  ASSUME NEW p \in Path, NEW q \in Path, IsPrefix(p, q), IsPrefix(q, p)
  PROVE  p = q
<1>1. Len(p) \in Nat /\ Len(q) \in Nat
  BY DEF Path
<1>2. Len(p) = Len(q) /\ \A i \in 1 .. Len(p) : p[i] = q[i]
  BY <1>1, PrefixByName
<1> QED
  BY <1>2, SeqEqual DEF Path

LEMMA PrefixReflexive == \A p \in Path : IsPrefix(p, p)
<1> TAKE p \in Path
<1>1. Len(p) \in Nat
  BY DEF Path
<1> QED
  BY <1>1, PrefixByName

\* Two prefixes of one path: one is a prefix of the other.
LEMMA PrefixesCompare ==
  ASSUME NEW p \in Path, NEW q \in Path, NEW r \in Path, IsPrefix(p, r), IsPrefix(q, r)
  PROVE  IsPrefix(p, q) \/ IsPrefix(q, p)
<1>1. Len(p) \in Nat /\ Len(q) \in Nat
  BY DEF Path
<1> QED
  BY <1>1, PrefixByName

\* What lies above an entry is its directory or above it.
LEMMA AboveEntry ==
  ASSUME NEW p \in Path, NEW d \in Path, NEW n \in Names, IsPrefix(p, d \o <<n>>)
  PROVE  p = d \o <<n>> \/ IsPrefix(p, d)
<1> DEFINE e == d \o <<n>>
<1>1. e \in Path /\ Len(e) = Len(d) + 1 /\ Len(d) \in Nat /\ \A i \in 1 .. Len(d) : e[i] = d[i]
  BY EntryPath
<1>2. Len(p) \in Nat
  BY DEF Path
<1>3. Len(p) <= Len(e) /\ \A i \in 1 .. Len(p) : p[i] = e[i]
  BY <1>1, PrefixByName
<1>4. CASE Len(p) = Len(e)
  <2>1. p = e
    BY <1>1, <1>3, <1>4, SeqEqual DEF Path
  <2> QED
    BY <2>1
<1>5. CASE Len(p) # Len(e)
  <2>1. Len(p) <= Len(d)
    BY <1>1, <1>2, <1>3, <1>5
  <2>2. \A i \in 1 .. Len(p) : p[i] = d[i]
    <3> SUFFICES ASSUME NEW i \in 1 .. Len(p) PROVE p[i] = d[i]
      OBVIOUS
    <3>1. i \in 1 .. Len(d)
      BY <2>1, <1>1, <1>2
    <3> QED
      BY <3>1, <1>1, <1>3
  <2> QED
    BY <2>1, <2>2, PrefixByName
<1> QED
  BY <1>4, <1>5

\* A path strictly below a directory goes through an entry of it.
LEMMA ThroughEntry ==
  ASSUME NEW p \in Path, NEW d \in Path, IsPrefix(p, d), p # d
  PROVE  /\ Len(p) < Len(d) /\ SubSeq(d, 1, Len(p)) = p
         /\ d[Len(p) + 1] \in Names /\ IsPrefix(p \o <<d[Len(p) + 1]>>, d)
<1>1. Len(p) \in Nat /\ Len(d) \in Nat
  BY DEF Path
<1>2. Len(p) <= Len(d) /\ \A i \in 1 .. Len(p) : p[i] = d[i]
  BY PrefixByName
<1>3. Len(p) # Len(d)
  BY <1>2, SeqEqual DEF Path
<1>4. Len(p) < Len(d)
  BY <1>1, <1>2, <1>3
<1>5. SubSeq(d, 1, Len(p)) = p
  <2>1. /\ SubSeq(d, 1, Len(p)) \in Seq(Names) /\ Len(SubSeq(d, 1, Len(p))) = Len(p)
        /\ \A i \in 1 .. Len(p) : SubSeq(d, 1, Len(p))[i] = d[i]
    BY <1>1, <1>4, SubSeqProperties DEF Path
  <2> QED
    BY <2>1, <1>2, SeqEqual DEF Path
<1>6. d[Len(p) + 1] \in Names
  BY <1>1, <1>4 DEF Path
<1> DEFINE e == p \o <<d[Len(p) + 1]>>
<1>7. e \in Path /\ Len(e) = Len(p) + 1 /\ (\A i \in 1 .. Len(p) : e[i] = p[i]) /\ e[Len(p) + 1] = d[Len(p) + 1]
  BY <1>6, EntryPath
<1>8. \A i \in 1 .. Len(e) : e[i] = d[i]
  BY <1>1, <1>2, <1>7
<1> HIDE DEF e
<1>9. IsPrefix(e, d)
  BY <1>1, <1>4, <1>7, <1>8, PrefixByName
<1> QED
  BY <1>4, <1>5, <1>6, <1>9 DEF e

-----------------------------------------------------------------------------
(***************************************************************************)
(* The order in which directories and entries are taken.                   *)
(***************************************************************************)
LEMMA BeforeTotal ==
  ASSUME NEW p \in Path, NEW q \in Path, p # q
  PROVE  Before(p, q) \/ Before(q, p)
<1> DEFINE D == {i \in DOMAIN p \cap DOMAIN q : p[i] # q[i]}
<1>1. Len(p) \in Nat /\ Len(q) \in Nat /\ DOMAIN p = 1 .. Len(p) /\ DOMAIN q = 1 .. Len(q)
  BY DEF Path
<1>2. CASE D = {}
  <2>1. \A i \in DOMAIN p \cap DOMAIN q : p[i] = q[i]
    BY <1>2
  <2> HIDE DEF D
  <2>2. CASE Len(p) <= Len(q)
    <3>1. IsPrefix(p, q)
      BY <2>1, <2>2, <1>1, PrefixByName
    <3> QED
      BY <3>1 DEF Before, IsStrictPrefix
  <2>3. CASE Len(q) <= Len(p)
    <3>1. IsPrefix(q, p)
      BY <2>1, <2>3, <1>1, PrefixByName
    <3> QED
      BY <3>1 DEF Before, IsStrictPrefix
  <2> QED
    BY <1>1, <2>2, <2>3
<1>3. CASE D # {}
  <2>1. D \in SUBSET Nat
    BY <1>1
  <2>2. PICK i \in D : \A m \in D : i <= m
    BY <2>1, <1>3, LeastIs
  <2>3. \A j \in 1 .. i - 1 : p[j] = q[j]
    <3> SUFFICES ASSUME NEW j \in 1 .. i - 1 PROVE p[j] = q[j]
      OBVIOUS
    <3>1. j \in DOMAIN p \cap DOMAIN q /\ ~(i <= j)
      BY <1>1
    <3> QED
      BY <2>2, <3>1
  <2>4. i \in DOMAIN p \cap DOMAIN q /\ p[i] # q[i] /\ p[i] \in Names /\ q[i] \in Names
    BY DEF Path
  <2>5. Rank[p[i]] < Rank[q[i]] \/ Rank[q[i]] < Rank[p[i]]
    BY <2>4, RankAssumption
  <2> QED
    BY <2>3, <2>4, <2>5 DEF Before
<1> QED
  BY <1>2, <1>3

LEMMA BeforeTransitive ==
  ASSUME NEW p \in Path, NEW q \in Path, NEW r \in Path, Before(p, q), Before(q, r)
  PROVE  Before(p, r)
<1> DEFINE Parts(s, t, i) == /\ i \in DOMAIN s \cap DOMAIN t /\ Rank[s[i]] < Rank[t[i]]
                             /\ \A j \in 1 .. i - 1 : s[j] = t[j]
<1>1. /\ Len(p) \in Nat /\ Len(q) \in Nat /\ Len(r) \in Nat
      /\ DOMAIN p = 1 .. Len(p) /\ DOMAIN q = 1 .. Len(q) /\ DOMAIN r = 1 .. Len(r)
  BY DEF Path
<1>2. CASE IsStrictPrefix(p, q) /\ IsStrictPrefix(q, r)
  <2>1. IsPrefix(p, r)
    BY <1>2, PrefixTransitive DEF IsStrictPrefix
  <2>2. p # r
    BY <1>2, PrefixAntisymmetric DEF IsStrictPrefix
  <2> QED
    BY <2>1, <2>2 DEF Before, IsStrictPrefix
<1>3. ASSUME IsStrictPrefix(p, q), NEW i, Parts(q, r, i)
      PROVE  Before(p, r)
  <2>1. Len(p) <= Len(q) /\ \A j \in 1 .. Len(p) : p[j] = q[j]
    BY <1>3, PrefixByName DEF IsStrictPrefix
  <2>2. CASE i <= Len(p)
    <3>1. Parts(p, r, i)
      BY <1>1, <1>3, <2>1, <2>2
    <3> QED
      BY <3>1 DEF Before
  <2>3. CASE ~(i <= Len(p))
    <3>1. Len(p) <= Len(r) /\ Len(p) # Len(r) /\ \A j \in 1 .. Len(p) : p[j] = r[j]
      <4>1. i \in 1 .. Len(r) /\ Len(p) < i /\ \A j \in 1 .. i - 1 : q[j] = r[j]
        BY <1>1, <1>3, <2>3
      <4>2. ASSUME NEW j \in 1 .. Len(p) PROVE p[j] = r[j]
        <5>1. j \in 1 .. i - 1
          BY <1>1, <4>1
        <5> QED
          BY <2>1, <4>1, <5>1
      <4>3. i <= Len(r) /\ i \in Nat /\ Len(p) < i
        BY <1>1, <4>1
      <4> DEFINE m == Len(p)
                 n == Len(r)
      <4>5. m \in Nat /\ n \in Nat /\ i \in Nat /\ i <= n /\ m < i
        BY <1>1, <4>3
      <4> HIDE DEF m, n
      <4>6. m <= n /\ m # n
        BY <4>5
      <4>4. Len(p) <= Len(r) /\ Len(p) # Len(r)
        BY <4>6 DEF m, n
      <4> QED
        BY <4>2, <4>4
    <3>2. IsPrefix(p, r)
      BY <3>1, PrefixByName
    <3> QED
      BY <3>1, <3>2 DEF Before, IsStrictPrefix
  <2> QED
    BY <2>2, <2>3
<1>4. ASSUME NEW i, Parts(p, q, i), IsStrictPrefix(q, r)
      PROVE  Before(p, r)
  <2>1. Len(q) <= Len(r) /\ \A j \in 1 .. Len(q) : q[j] = r[j]
    BY <1>4, PrefixByName DEF IsStrictPrefix
  <2>2. Parts(p, r, i)
    BY <1>1, <1>4, <2>1
  <2> QED
    BY <2>2 DEF Before
<1>5. ASSUME NEW i, Parts(p, q, i), NEW k, Parts(q, r, k)
      PROVE  Before(p, r)
  <2>1. /\ Rank[p[i]] \in Nat /\ Rank[q[i]] \in Nat
        /\ Rank[q[k]] \in Nat /\ Rank[r[k]] \in Nat
    <3>1. p[i] \in Names /\ q[i] \in Names /\ q[k] \in Names /\ r[k] \in Names
      BY <1>5 DEF Path
    <3> QED
      BY <3>1, RankAssumption
  <2>2. CASE i < k
    <3>1. Parts(p, r, i)
      BY <1>1, <1>5, <2>2
    <3> QED
      BY <3>1 DEF Before
  <2>3. CASE i = k
    <3>1. Rank[p[i]] < Rank[r[i]]
      BY <1>5, <2>1, <2>3
    <3>2. Parts(p, r, i)
      BY <1>1, <1>5, <2>3, <3>1
    <3> QED
      BY <3>2 DEF Before
  <2>4. CASE k < i
    <3>1. Parts(p, r, k)
      BY <1>1, <1>5, <2>4
    <3> QED
      BY <3>1 DEF Before
  <2> QED
    BY <1>1, <1>5, <2>2, <2>3, <2>4
<1>6. IsStrictPrefix(p, q) \/ \E i : Parts(p, q, i)
  BY DEF Before
<1>7. IsStrictPrefix(q, r) \/ \E i : Parts(q, r, i)
  BY DEF Before
<1> QED
  BY <1>2, <1>3, <1>4, <1>5, <1>6, <1>7

\* The next directory is one of those that are pending.
LEMMA FirstIsIn ==
  ASSUME NEW S \in SUBSET Path, IsFiniteSet(S), S # {}
  PROVE  First(S) \in S
<1> DEFINE Leads(p, T) == \A q \in T \ {p} : Before(p, q)
           Headless(n) == \E T \in SUBSET S : T # {} /\ Cardinality(T) = n /\ ~\E p \in T : Leads(p, T)
           Bad == {n \in Nat : Headless(n)}
<1>1. Bad = {}
  <2> SUFFICES ASSUME Bad # {} PROVE FALSE
    OBVIOUS
  <2>1. PICK n \in Bad : \A m \in Bad : n <= m
    <3>1. Bad \in SUBSET Nat
      OBVIOUS
    <3> HIDE DEF Bad
    <3> QED
      BY <3>1, LeastIs
  <2>2. PICK T \in SUBSET S : T # {} /\ Cardinality(T) = n /\ ~\E p \in T : Leads(p, T)
    OBVIOUS
  <2>3. PICK x \in T : TRUE
    BY <2>2
  <2> DEFINE U == T \ {x}
  <2>4. IsFiniteSet(T) /\ IsFiniteSet(U) /\ Cardinality(U) = Cardinality(T) - 1
    BY FS_Subset, FS_RemoveElement
  <2>5. Cardinality(U) \in Nat /\ Cardinality(T) \in Nat
    BY <2>4, FS_CardinalityType
  <2>6. U # {}
    BY <2>2
  <2>7. Cardinality(U) \notin Bad
    <3>1. n \in Nat /\ Cardinality(U) < n
      BY <2>2, <2>4, <2>5
    <3>2. ~(n <= Cardinality(U))
      BY <3>1, <2>5
    <3> HIDE DEF Bad, U
    <3> QED
      BY <3>2, <2>1
  <2>8. PICK m \in U : Leads(m, U)
    BY ZenonT(30), <2>5, <2>6, <2>7
  <2>9. CASE Before(x, m)
    <3>1. Leads(x, T)
      <4> SUFFICES ASSUME NEW q \in T \ {x} PROVE Before(x, q)
        OBVIOUS
      <4>1. q = m \/ Before(m, q)
        BY <2>8
      <4> QED
        BY <4>1, <2>9, BeforeTransitive
    <3> QED
      BY <3>1, <2>2
  <2>10. CASE Before(m, x)
    <3>1. Leads(m, T)
      BY <2>8, <2>10
    <3> QED
      BY <3>1, <2>2
  <2>11. Before(x, m) \/ Before(m, x)
    BY BeforeTotal
  <2> QED
    BY <2>9, <2>10, <2>11
<1>2. Cardinality(S) \in Nat
  BY FS_CardinalityType
<1>3. \E p \in S : Leads(p, S)
  BY <1>1, <1>2
<1> QED
  BY <1>3 DEF First

\* So is the next entry, for entries have names of their own.
LEMMA FirstEntryIsIn ==
  ASSUME NEW S \in SUBSET Entry, S # {}, \A e, o \in S : e.name = o.name => e = o
  PROVE  FirstEntry(S) \in S
<1> DEFINE Ranks == {Rank[e.name] : e \in S}
<1>1. \A e \in S : Rank[e.name] \in Nat /\ e.name \in Names
  BY RankAssumption DEF Entry
<1>2. Ranks \in SUBSET Nat /\ Ranks # {}
  BY <1>1
<1> HIDE DEF Ranks
<1>3. PICK n \in Ranks : \A m \in Ranks : n <= m
  BY <1>2, LeastIs
<1>4. PICK e \in S : n = Rank[e.name]
  BY <1>3 DEF Ranks
<1>5. ASSUME NEW o \in S \ {e} PROVE Rank[e.name] < Rank[o.name]
  <2>1. n <= Rank[o.name]
    BY <1>3 DEF Ranks
  <2>2. e.name # o.name
    OBVIOUS
  <2>3. Rank[e.name] # Rank[o.name]
    BY <2>2, <1>1, RankAssumption
  <2> QED
    BY <1>1, <1>4, <2>1, <2>3
<1> QED
  BY <1>4, <1>5 DEF FirstEntry

-----------------------------------------------------------------------------
(***************************************************************************)
(* The tree, and the roots the options name in it.                         *)
(***************************************************************************)
LEMMA TreeTyped ==
  ASSUME WellTyped
  PROVE  /\ DOMAIN fs.listing \subseteq Path /\ IsFiniteSet(DOMAIN fs.listing)
         /\ \A d \in DOMAIN fs.listing :
              /\ d \in Path /\ fs.listing[d] \subseteq Entry /\ IsFiniteSet(fs.listing[d])
              /\ \A e, o \in fs.listing[d] : e.name = o.name => e = o
              /\ \A e \in fs.listing[d] : e.kind = "directory" => d \o <<e.name>> \in DOMAIN fs.listing
         /\ \A r \in DOMAIN roots : roots[r] \in DOMAIN fs.listing
<1>1. IsFileSystem(fs)
  BY TreeAssumption DEF WellTyped
<1>2. \A r \in DOMAIN roots : roots[r] \in DOMAIN fs.listing
  BY DEF WellTyped
<1> QED
  BY <1>1, <1>2 DEF IsFileSystem

LEMMA EntryNamed ==
  ASSUME WellTyped, NEW d \in DOMAIN fs.listing, NEW e \in fs.listing[d]
  PROVE  e.name \in Names /\ e = [name |-> e.name, kind |-> e.kind]
<1>1. e \in Entry
  BY TreeTyped
<1> QED
  BY <1>1 DEF Entry

LEMMA InitTyped == ResolutionInit => Inv
<1> SUFFICES ASSUME ResolutionInit PROVE Inv
  OBVIOUS
<1>1. fs \in FileSystems /\ request \in Request
  BY RequestAssumption DEF ResolutionInit, Init
<1>2. WellTyped
  <2>1. files \in Seq(IndexedFile) /\ roots \in Seq(DOMAIN fs.listing) /\ DOMAIN roots = {}
    BY DEF ResolutionInit, Init
  <2>2. phase = "begin" /\ scanning = 0 /\ entriesSeen = 0 /\ partial = FALSE /\ files = <<>> /\ pending = {} /\ entries = {}
    BY DEF ResolutionInit, Init
  <2> QED
    BY <1>1, <2>1, <2>2 DEF WellTyped, Phases, Walking
<1>3. OptionsTaken
  <2>1. request.mappings \in Seq(Mapping)
    BY <1>1 DEF Request
  <2> QED
    BY <2>1 DEF ResolutionInit, Init, OptionsTaken, OptionLost
<1>4. ~Walking /\ phase = "begin" /\ answer = NONE
  BY DEF ResolutionInit, Init, Walking
<1> QED
  BY <1>2, <1>3, <1>4 DEF Inv, IndexInv, AnswerInv, EntryLimitIsHonest

LEMMA RootAdded ==
  ASSUME WellTyped, NEW path \in DOMAIN fs.listing, AddRoot(path)
  PROVE  /\ roots' \in Seq(DOMAIN fs.listing) /\ roots' # <<>>
         /\ \A r, s \in DOMAIN roots' : roots'[r] = roots'[s] => r = s
         /\ RootId(path) \in Nat /\ RootId(path) \in DOMAIN roots' /\ roots'[RootId(path)] = path
         /\ \A r \in DOMAIN roots : r \in DOMAIN roots' /\ roots'[r] = roots[r]
<1>1. roots \in Seq(DOMAIN fs.listing) /\ DOMAIN roots = 1 .. Len(roots) /\ Len(roots) \in Nat
  BY DEF WellTyped
<1>2. CASE Contains(roots, path)
  <2>1. roots' = roots
    BY <1>2 DEF AddRoot
  <2>2. PICK r \in DOMAIN roots : roots[r] = path
    BY <1>1, <1>2 DEF Contains
  <2>3. RootId(path) \in DOMAIN roots /\ roots[RootId(path)] = path
    BY <1>2, <2>2 DEF RootId
  <2> QED
    BY <1>1, <2>1, <2>2, <2>3 DEF WellTyped
<1>3. CASE ~Contains(roots, path)
  <2>1. roots' = Append(roots, path) /\ RootId(path) = Len(roots) + 1
    BY <1>3 DEF AddRoot, RootId
  <2>2. /\ roots' \in Seq(DOMAIN fs.listing) /\ Len(roots') = Len(roots) + 1
        /\ \A i \in 1 .. Len(roots) : roots'[i] = roots[i]
        /\ roots'[Len(roots) + 1] = path
    BY <1>1, <2>1
  <2>3. \A i \in DOMAIN roots : roots[i] # path
    BY <1>1, <1>3 DEF Contains
  <2>4. DOMAIN roots' = 1 .. Len(roots) + 1
    BY <2>2
  <2>5. ASSUME NEW r \in DOMAIN roots', NEW s \in DOMAIN roots', roots'[r] = roots'[s]
        PROVE  r = s
    BY <1>1, <2>2, <2>3, <2>4, <2>5 DEF WellTyped
  <2>6. roots' # <<>>
    BY <1>1, <2>2
  <2> QED
    BY <1>1, <2>1, <2>2, <2>4, <2>5, <2>6
<1> QED
  BY <1>2, <1>3

LEMMA RootTaken ==
  ASSUME NEW ids \in Seq(Nat \cup {NONE}), NEW id \in Nat \cup {NONE}
  PROVE  /\ Append(ids, id) \in Seq(Nat \cup {NONE})
         /\ Len(Append(ids, id)) = Len(ids) + 1
         /\ \A m \in DOMAIN Append(ids, id) :
              \/ m \in DOMAIN ids /\ Append(ids, id)[m] = ids[m]
              \/ m = Len(ids) + 1 /\ Append(ids, id)[m] = id
         /\ (\E m \in DOMAIN Append(ids, id) : Append(ids, id)[m] = NONE)
              <=> (\E m \in DOMAIN ids : ids[m] = NONE) \/ id = NONE
<1> DEFINE t == Append(ids, id)
<1>1. /\ t \in Seq(Nat \cup {NONE}) /\ Len(t) = Len(ids) + 1 /\ Len(ids) \in Nat
      /\ \A i \in 1 .. Len(ids) : t[i] = ids[i]
      /\ t[Len(ids) + 1] = id
  OBVIOUS
<1>2. DOMAIN t = 1 .. Len(ids) + 1 /\ DOMAIN ids = 1 .. Len(ids)
  BY <1>1
<1>3. \A m \in DOMAIN t : m \in DOMAIN ids \/ m = Len(ids) + 1
  BY <1>1, <1>2
<1>4. (\A m \in DOMAIN ids : m \in DOMAIN t) /\ Len(ids) + 1 \in DOMAIN t
  BY <1>1, <1>2
<1> HIDE DEF t
<1>5. \A m \in DOMAIN ids : t[m] = ids[m]
  BY <1>1, <1>2
<1>6. (\E m \in DOMAIN t : t[m] = NONE) <=> (\E m \in DOMAIN ids : ids[m] = NONE) \/ id = NONE
  BY <1>1, <1>3, <1>4, <1>5
<1>7. \A m \in DOMAIN t : \/ m \in DOMAIN ids /\ t[m] = ids[m]
                          \/ m = Len(ids) + 1 /\ t[m] = id
  BY <1>1, <1>3, <1>5
<1> QED
  BY <1>1, <1>6, <1>7 DEF t

LEMMA OneRoot ==
  ASSUME NEW S, NEW x \in S
  PROVE  <<x>> \in Seq(S) /\ <<x>> # <<>> /\ DOMAIN <<x>> = {1}
<1>1. <<x>> \in Seq(S) /\ Len(<<x>>) = 1 /\ Len(<<>>) = 0
  OBVIOUS
<1>2. DOMAIN <<x>> = 1 .. 1
  BY <1>1
<1> QED
  BY <1>1, <1>2

LEMMA BeginKeeps == IndexInv /\ Begin => IndexInv'
<1> SUFFICES ASSUME IndexInv, Begin PROVE IndexInv'
  OBVIOUS
<1>0. WellTyped /\ OptionsTaken
  BY DEF IndexInv
<1>1. UNCHANGED <<fs, request, files, scanning, pending, directory, entries, entriesSeen, mappingRoots, searchRoots, partial>>
  BY DEF Begin, Unscanned
<1>2. phase = "begin" /\ phase' \in {"refused", "options"}
  BY DEF Begin
<1>3. roots' \in Seq(DOMAIN fs.listing) /\ (\A r, s \in DOMAIN roots' : roots'[r] = roots'[s] => r = s)
      /\ (phase' = "options" => roots' # <<>>)
  <2>1. CASE Refusal
    BY <2>1 DEF Begin
  <2>2. CASE ~Refusal
    <3>1. ProjectRoot \in DOMAIN fs.listing
      BY <2>2 DEF Refusal, IsDirectory
    <3>2. roots' = <<ProjectRoot>>
      BY <2>2 DEF Begin
    <3>3. DOMAIN roots' = {1} /\ roots' # <<>> /\ roots' \in Seq(DOMAIN fs.listing)
      BY <3>1, <3>2, OneRoot
    <3> QED
      BY <3>3
  <2> QED
    BY <2>1, <2>2
<1>4. WellTyped'
  BY <1>0, <1>1, <1>2, <1>3 DEF WellTyped, Phases, Walking
<1>5. OptionsTaken'
  <2>1. mappingRoots = <<>> /\ searchRoots = <<>> /\ ~OptionLost /\ ~partial
    BY <1>0, <1>2 DEF OptionsTaken, OptionLost, WellTyped
  <2>2. mappingRoots' = <<>> /\ searchRoots' = <<>> /\ ~OptionLost' /\ ~partial'
    BY <1>1, <2>1 DEF OptionLost
  <2>3. Len(mappingRoots') <= Len(request'.mappings)
    BY <1>0, <1>1 DEF OptionsTaken
  <2> QED
    BY <1>2, <2>2, <2>3 DEF OptionsTaken
<1>6. EntryLimitIsHonest' /\ ~Walking'
  BY <1>2 DEF EntryLimitIsHonest, Walking
<1> QED
  BY <1>4, <1>5, <1>6 DEF IndexInv

LEMMA TakeMappingKeeps == IndexInv /\ TakeMapping => IndexInv'
<1> SUFFICES ASSUME IndexInv, TakeMapping PROVE IndexInv'
  OBVIOUS
<1>0. WellTyped /\ OptionsTaken
  BY DEF IndexInv
<1>1. UNCHANGED <<fs, request, files, scanning, pending, directory, entries, entriesSeen, phase, searchRoots>>
  BY DEF TakeMapping, Unscanned
<1>2. phase = "options" /\ Len(mappingRoots) < Len(request.mappings)
  BY DEF TakeMapping
<1> DEFINE n == Len(mappingRoots) + 1
           mapping == request.mappings[n]
           id == RootId(mapping.target)
<1>3. mappingRoots \in Seq(Nat \cup {NONE}) /\ Len(mappingRoots) \in Nat
  BY <1>0 DEF OptionsTaken
<1>4. request.mappings \in Seq(Mapping) /\ Len(request.mappings) \in Nat
  BY <1>0 DEF WellTyped, Request
<1>5. CASE mapping.prefix # <<>> /\ mapping.target # NONE /\ IsDirectory(mapping.target)
  <2>1. AddRoot(mapping.target) /\ mappingRoots' = Append(mappingRoots, id) /\ partial' = partial
    BY <1>5 DEF TakeMapping
  <2>2. mapping.target \in DOMAIN fs.listing
    BY <1>5 DEF IsDirectory
  <2> HIDE DEF mapping
  <2>3. /\ roots' \in Seq(DOMAIN fs.listing) /\ roots' # <<>>
        /\ \A r, s \in DOMAIN roots' : roots'[r] = roots'[s] => r = s
        /\ id \in Nat /\ id \in DOMAIN roots' /\ roots'[id] = mapping.target
        /\ \A r \in DOMAIN roots : r \in DOMAIN roots' /\ roots'[r] = roots[r]
    BY <1>0, <2>1, <2>2, RootAdded
  <2> HIDE DEF id
  <2>4. WellTyped'
    BY <1>0, <1>1, <1>2, <2>1, <2>3 DEF WellTyped, Phases, Walking
  <2>5. OptionsTaken'
    <3>1. id # NONE
      BY <2>3, IndexNoneAssumption
    <3>2. /\ mappingRoots' \in Seq(Nat \cup {NONE}) /\ Len(mappingRoots') = n
          /\ \A m \in DOMAIN mappingRoots' :
               \/ m \in DOMAIN mappingRoots /\ mappingRoots'[m] = mappingRoots[m]
               \/ m = n /\ mappingRoots'[m] = id
          /\ (\E m \in DOMAIN mappingRoots' : mappingRoots'[m] = NONE)
               <=> (\E m \in DOMAIN mappingRoots : mappingRoots[m] = NONE)
      <4>1. id \in Nat \cup {NONE}
        BY <2>3
      <4>2. /\ Append(mappingRoots, id) \in Seq(Nat \cup {NONE})
            /\ Len(Append(mappingRoots, id)) = Len(mappingRoots) + 1
            /\ \A m \in DOMAIN Append(mappingRoots, id) :
                 \/ m \in DOMAIN mappingRoots /\ Append(mappingRoots, id)[m] = mappingRoots[m]
                 \/ m = Len(mappingRoots) + 1 /\ Append(mappingRoots, id)[m] = id
            /\ (\E m \in DOMAIN Append(mappingRoots, id) : Append(mappingRoots, id)[m] = NONE)
                 <=> (\E m \in DOMAIN mappingRoots : mappingRoots[m] = NONE) \/ id = NONE
        BY <1>3, <4>1, RootTaken
      <4> QED
        BY <2>1, <3>1, <4>2
    <3>3. OptionLost' <=> OptionLost
      BY <3>2, <1>1 DEF OptionLost
    <3>4. \A m \in DOMAIN mappingRoots' : mappingRoots'[m] # NONE =>
            mappingRoots'[m] \in DOMAIN roots' /\ roots'[mappingRoots'[m]] = request'.mappings[m].target
      BY <3>2, <2>3, <1>0, <1>1 DEF OptionsTaken, mapping
    <3>5. \A s \in DOMAIN searchRoots' : searchRoots'[s] # NONE => searchRoots'[s] \in DOMAIN roots'
      BY <2>3, <1>0, <1>1 DEF OptionsTaken
    <3>6. Len(mappingRoots') <= Len(request'.mappings)
      BY <3>2, <1>1, <1>2, <1>3, <1>4
    <3>7. searchRoots' \in Seq(Nat \cup {NONE}) /\ (partial' <=> OptionLost') /\ phase' = "options"
      BY <1>0, <1>1, <1>2, <2>1, <3>3 DEF OptionsTaken
    <3> QED
      BY <3>2, <3>4, <3>5, <3>6, <3>7 DEF OptionsTaken
  <2> QED
    BY <2>4, <2>5, <1>1, <1>2 DEF IndexInv, EntryLimitIsHonest, Walking
<1>6. CASE ~(mapping.prefix # <<>> /\ mapping.target # NONE /\ IsDirectory(mapping.target))
  <2>1. roots' = roots /\ mappingRoots' = Append(mappingRoots, NONE) /\ partial' = TRUE
    BY <1>6 DEF TakeMapping
  <2>2. WellTyped'
    BY <1>0, <1>1, <1>2, <2>1 DEF WellTyped, Phases, Walking
  <2>3. OptionsTaken'
    <3>2. /\ mappingRoots' \in Seq(Nat \cup {NONE}) /\ Len(mappingRoots') = n
          /\ \A m \in DOMAIN mappingRoots' :
               \/ m \in DOMAIN mappingRoots /\ mappingRoots'[m] = mappingRoots[m]
               \/ m = n /\ mappingRoots'[m] = NONE
          /\ \E m \in DOMAIN mappingRoots' : mappingRoots'[m] = NONE
      BY <1>3, <2>1, RootTaken
    <3>3. OptionLost'
      BY <3>2 DEF OptionLost
    <3>4. \A m \in DOMAIN mappingRoots' : mappingRoots'[m] # NONE =>
            mappingRoots'[m] \in DOMAIN roots' /\ roots'[mappingRoots'[m]] = request'.mappings[m].target
      BY <3>2, <2>1, <1>0, <1>1 DEF OptionsTaken
    <3>6. Len(mappingRoots') <= Len(request'.mappings)
      BY <3>2, <1>1, <1>2, <1>3, <1>4
    <3> QED
      BY <3>2, <3>3, <3>4, <3>6, <2>1, <1>0, <1>1, <1>2 DEF OptionsTaken
  <2> QED
    BY <2>2, <2>3, <1>1, <1>2 DEF IndexInv, EntryLimitIsHonest, Walking
<1> QED
  BY <1>5, <1>6

LEMMA TakeSearchDirectoryKeeps == IndexInv /\ TakeSearchDirectory => IndexInv'
<1> SUFFICES ASSUME IndexInv, TakeSearchDirectory PROVE IndexInv'
  OBVIOUS
<1>0. WellTyped /\ OptionsTaken
  BY DEF IndexInv
<1>1. UNCHANGED <<fs, request, files, scanning, pending, directory, entries, entriesSeen, phase, mappingRoots>>
  BY DEF TakeSearchDirectory, Unscanned
<1>2. phase = "options"
  BY DEF TakeSearchDirectory
<1> DEFINE n == Len(searchRoots) + 1
           path == request.searches[n]
           id == RootId(path)
<1>3. searchRoots \in Seq(Nat \cup {NONE}) /\ Len(searchRoots) \in Nat
  BY <1>0 DEF OptionsTaken
<1>5. CASE path # NONE /\ IsDirectory(path)
  <2>1. AddRoot(path) /\ searchRoots' = Append(searchRoots, id) /\ partial' = partial
    BY <1>5 DEF TakeSearchDirectory
  <2>2. path \in DOMAIN fs.listing
    BY <1>5 DEF IsDirectory
  <2> HIDE DEF path
  <2>3. /\ roots' \in Seq(DOMAIN fs.listing) /\ roots' # <<>>
        /\ \A r, s \in DOMAIN roots' : roots'[r] = roots'[s] => r = s
        /\ id \in Nat /\ id \in DOMAIN roots' /\ roots'[id] = path
        /\ \A r \in DOMAIN roots : r \in DOMAIN roots' /\ roots'[r] = roots[r]
    BY <1>0, <2>1, <2>2, RootAdded
  <2> HIDE DEF id
  <2>4. WellTyped'
    BY <1>0, <1>1, <1>2, <2>1, <2>3 DEF WellTyped, Phases, Walking
  <2>5. OptionsTaken'
    <3>1. id # NONE
      BY <2>3, IndexNoneAssumption
    <3>2. /\ searchRoots' \in Seq(Nat \cup {NONE}) /\ Len(searchRoots') = n
          /\ \A m \in DOMAIN searchRoots' :
               \/ m \in DOMAIN searchRoots /\ searchRoots'[m] = searchRoots[m]
               \/ m = n /\ searchRoots'[m] = id
          /\ (\E m \in DOMAIN searchRoots' : searchRoots'[m] = NONE)
               <=> (\E m \in DOMAIN searchRoots : searchRoots[m] = NONE)
      <4>1. id \in Nat \cup {NONE}
        BY <2>3
      <4>2. /\ Append(searchRoots, id) \in Seq(Nat \cup {NONE})
            /\ Len(Append(searchRoots, id)) = Len(searchRoots) + 1
            /\ \A m \in DOMAIN Append(searchRoots, id) :
                 \/ m \in DOMAIN searchRoots /\ Append(searchRoots, id)[m] = searchRoots[m]
                 \/ m = Len(searchRoots) + 1 /\ Append(searchRoots, id)[m] = id
            /\ (\E m \in DOMAIN Append(searchRoots, id) : Append(searchRoots, id)[m] = NONE)
                 <=> (\E m \in DOMAIN searchRoots : searchRoots[m] = NONE) \/ id = NONE
        BY <1>3, <4>1, RootTaken
      <4> QED
        BY <2>1, <3>1, <4>2
    <3>3. OptionLost' <=> OptionLost
      BY <3>2, <1>1 DEF OptionLost
    <3>4. \A m \in DOMAIN mappingRoots' : mappingRoots'[m] # NONE =>
            mappingRoots'[m] \in DOMAIN roots' /\ roots'[mappingRoots'[m]] = request'.mappings[m].target
      BY <2>3, <1>0, <1>1 DEF OptionsTaken
    <3>5. \A s \in DOMAIN searchRoots' : searchRoots'[s] # NONE => searchRoots'[s] \in DOMAIN roots'
      BY <3>2, <2>3, <1>0, <1>1 DEF OptionsTaken
    <3>6. mappingRoots' \in Seq(Nat \cup {NONE}) /\ Len(mappingRoots') <= Len(request'.mappings)
      BY <1>0, <1>1 DEF OptionsTaken
    <3>7. (partial' <=> OptionLost') /\ phase' = "options"
      BY <1>0, <1>1, <1>2, <2>1, <3>3 DEF OptionsTaken
    <3> QED
      BY <3>2, <3>4, <3>5, <3>6, <3>7 DEF OptionsTaken
  <2> QED
    BY <2>4, <2>5, <1>1, <1>2 DEF IndexInv, EntryLimitIsHonest, Walking
<1>6. CASE ~(path # NONE /\ IsDirectory(path))
  <2>1. roots' = roots /\ searchRoots' = Append(searchRoots, NONE) /\ partial' = TRUE
    BY <1>6 DEF TakeSearchDirectory
  <2>2. WellTyped'
    BY <1>0, <1>1, <1>2, <2>1 DEF WellTyped, Phases, Walking
  <2>3. OptionsTaken'
    <3>2. /\ searchRoots' \in Seq(Nat \cup {NONE})
          /\ \A m \in DOMAIN searchRoots' :
               \/ m \in DOMAIN searchRoots /\ searchRoots'[m] = searchRoots[m]
               \/ m = n /\ searchRoots'[m] = NONE
          /\ \E m \in DOMAIN searchRoots' : searchRoots'[m] = NONE
      BY <1>3, <2>1, RootTaken
    <3>3. OptionLost'
      BY <3>2 DEF OptionLost
    <3>4. \A s \in DOMAIN searchRoots' : searchRoots'[s] # NONE => searchRoots'[s] \in DOMAIN roots'
      BY <3>2, <2>1, <1>0, <1>1 DEF OptionsTaken
    <3> QED
      BY <3>2, <3>3, <3>4, <2>1, <1>0, <1>1, <1>2 DEF OptionsTaken
  <2> QED
    BY <2>2, <2>3, <1>1, <1>2 DEF IndexInv, EntryLimitIsHonest, Walking
<1> QED
  BY <1>5, <1>6

-----------------------------------------------------------------------------
(***************************************************************************)
(* Where a walk comes to.                                                  *)
(***************************************************************************)
LEMMA WalkFromRoot ==
  ASSUME WellTyped, NEW root \in DOMAIN fs.listing
  PROVE  root \in WalkedDirectories(root)
<1>1. root \in Path /\ Len(root) \in Nat
  BY TreeTyped DEF Path
<1>2. Len(root) .. Len(root) - 1 = {}
  BY <1>1
<1> QED
  BY <1>1, <1>2, PrefixReflexive DEF WalkedDirectories, Walked

LEMMA WalkDown ==
  ASSUME WellTyped, NEW root \in DOMAIN fs.listing, NEW d \in WalkedDirectories(root),
         d \notin fs.closed, NEW e \in fs.listing[d], e.kind = "directory"
  PROVE  d \o <<e.name>> \in WalkedDirectories(root)
<1>1. root \in Path /\ d \in Path /\ e.name \in Names /\ e = [name |-> e.name, kind |-> "directory"]
  BY TreeTyped, EntryNamed DEF WalkedDirectories
<1> DEFINE x == d \o <<e.name>>
<1>2. /\ x \in Path /\ Len(x) = Len(d) + 1 /\ Len(d) \in Nat
      /\ \A i \in 1 .. Len(d) : x[i] = d[i]
      /\ x[Len(d) + 1] = e.name /\ IsPrefix(d, x)
  BY <1>1, EntryPath
<1>3. x \in DOMAIN fs.listing
  BY TreeTyped DEF WalkedDirectories
<1>4. Walked(root, d)
  BY DEF WalkedDirectories
<1> HIDE DEF x
<1>5. IsPrefix(root, x)
  BY <1>1, <1>2, <1>4, PrefixTransitive DEF Walked
<1>6. Len(root) \in Nat
  BY <1>1 DEF Path
<1>7. ASSUME NEW n \in Len(root) .. Len(x) - 1
      PROVE  /\ SubSeq(x, 1, n) \notin fs.closed
             /\ [name |-> x[n + 1], kind |-> "directory"] \in fs.listing[SubSeq(x, 1, n)]
  <2>1. n \in Nat /\ n <= Len(d) /\ n <= Len(x)
    BY <1>2, <1>6
  <2>2. SubSeq(x, 1, n) = SubSeq(d, 1, n)
    <3>1. /\ SubSeq(x, 1, n) \in Seq(Names) /\ Len(SubSeq(x, 1, n)) = n
          /\ \A i \in 1 .. n : SubSeq(x, 1, n)[i] = x[i]
      BY <1>2, <2>1, SubSeqProperties DEF Path
    <3>2. /\ SubSeq(d, 1, n) \in Seq(Names) /\ Len(SubSeq(d, 1, n)) = n
          /\ \A i \in 1 .. n : SubSeq(d, 1, n)[i] = d[i]
      BY <1>1, <1>2, <2>1, SubSeqProperties DEF Path
    <3>3. \A i \in 1 .. n : x[i] = d[i]
      BY <1>2, <2>1
    <3> QED
      BY <3>1, <3>2, <3>3, SeqEqual
  <2>3. CASE n < Len(d)
    <3>1. n \in Len(root) .. Len(d) - 1 /\ n + 1 \in 1 .. Len(d)
      BY <1>2, <1>6, <2>1, <2>3
    <3>2. x[n + 1] = d[n + 1]
      BY <1>2, <3>1
    <3> QED
      BY <1>4, <2>2, <3>1, <3>2 DEF Walked
  <2>4. CASE n = Len(d)
    <3>1. SubSeq(d, 1, n) = d
      <4>1. /\ SubSeq(d, 1, n) \in Seq(Names) /\ Len(SubSeq(d, 1, n)) = Len(d)
            /\ \A i \in 1 .. Len(d) : SubSeq(d, 1, n)[i] = d[i]
        BY <1>1, <1>2, <2>4, SubSeqProperties DEF Path
      <4> QED
        BY <1>1, <4>1, SeqEqual DEF Path
    <3> QED
      BY <1>1, <1>2, <2>2, <2>4, <3>1
  <2> QED
    BY <1>2, <2>1, <2>3, <2>4
<1> QED
  BY <1>3, <1>5, <1>7 DEF WalkedDirectories, Walked, x

LEMMA WalkThrough ==
  ASSUME WellTyped, NEW root \in DOMAIN fs.listing, NEW next \in Path, IsPrefix(root, next),
         NEW d \in WalkedDirectories(root), IsPrefix(next, d), next # d
  PROVE  /\ next \notin fs.closed
         /\ \E e \in fs.listing[next] : e.kind = "directory" /\ IsPrefix(next \o <<e.name>>, d)
<1>1. root \in Path /\ d \in Path /\ Walked(root, d)
  BY TreeTyped DEF WalkedDirectories
<1>2. /\ Len(next) < Len(d) /\ SubSeq(d, 1, Len(next)) = next
      /\ IsPrefix(next \o <<d[Len(next) + 1]>>, d)
  BY <1>1, ThroughEntry
<1>3. Len(next) \in Len(root) .. Len(d) - 1
  <2>1. Len(root) \in Nat /\ Len(next) \in Nat /\ Len(d) \in Nat /\ Len(root) <= Len(next)
    BY <1>1, PrefixByName DEF Path
  <2> QED
    BY <2>1, <1>2
<1> DEFINE e == [name |-> d[Len(next) + 1], kind |-> "directory"]
<1>4. next \notin fs.closed /\ e \in fs.listing[next]
  BY <1>1, <1>2, <1>3 DEF Walked
<1>5. e.kind = "directory" /\ IsPrefix(next \o <<e.name>>, d)
  BY <1>2
<1> QED
  BY <1>4, <1>5

LEMMA IsFound ==
  ASSUME NEW root, NEW path
  PROVE  path \in Found(root) <=>
           \E d \in WalkedDirectories(root) \ fs.closed : \E e \in fs.listing[d] :
             e.kind = "file" /\ e.name \in CadNames /\ path = d \o <<e.name>>
<1> DEFINE In(d) == {d \o <<e.name>> : e \in {x \in fs.listing[d] : x.kind = "file" /\ x.name \in CadNames}}
<1>1. Found(root) = UNION {In(d) : d \in WalkedDirectories(root) \ fs.closed}
  BY DEF Found
<1>2. \A d : path \in In(d) <=> \E e \in fs.listing[d] :
               e.kind = "file" /\ e.name \in CadNames /\ path = d \o <<e.name>>
  OBVIOUS
<1> HIDE DEF In
<1>3. path \in Found(root) <=> \E d \in WalkedDirectories(root) \ fs.closed : path \in In(d)
  BY <1>1
<1> QED
  BY <1>2, <1>3

LEMMA IsBelow ==
  ASSUME NEW root, NEW path
  PROVE  path \in EntriesBelow(root) <=>
           \E d \in WalkedDirectories(root) \ fs.closed : \E e \in fs.listing[d] :
             e.kind # "unreadable" /\ path = d \o <<e.name>>
<1> DEFINE In(d) == {d \o <<e.name>> : e \in {x \in fs.listing[d] : x.kind # "unreadable"}}
<1>1. EntriesBelow(root) = UNION {In(d) : d \in WalkedDirectories(root) \ fs.closed}
  BY DEF EntriesBelow
<1>2. \A d : path \in In(d) <=> \E e \in fs.listing[d] : e.kind # "unreadable" /\ path = d \o <<e.name>>
  OBVIOUS
<1> HIDE DEF In
<1>3. path \in EntriesBelow(root) <=> \E d \in WalkedDirectories(root) \ fs.closed : path \in In(d)
  BY <1>1
<1> QED
  BY <1>2, <1>3

LEMMA WalkedListed == \A root : WalkedDirectories(root) \subseteq DOMAIN fs.listing
  BY DEF WalkedDirectories

\* What a walk has found lies below its root.
LEMMA FoundIsFound ==
  ASSUME NEW r, NEW path, FoundSoFar(r, path)
  PROVE  r \in 1 .. scanning /\ path \in Found(roots[r])
<1>1. PICK d \in DOMAIN fs.listing : \E e \in fs.listing[d] :
        Taken(r, d, e) /\ e.kind = "file" /\ e.name \in CadNames /\ path = d \o <<e.name>>
  BY DEF FoundSoFar
<1>2. PICK e \in fs.listing[d] :
        Taken(r, d, e) /\ e.kind = "file" /\ e.name \in CadNames /\ path = d \o <<e.name>>
  BY <1>1
<1>3. r \in 1 .. scanning /\ d \in WalkedDirectories(roots[r]) \ fs.closed
  BY <1>2 DEF Taken, Reached
<1> QED
  BY <1>2, <1>3, IsFound

-----------------------------------------------------------------------------
(***************************************************************************)
(* Steps that take no entry.                                               *)
(***************************************************************************)
LEMMA NothingTaken ==
  ASSUME UNCHANGED <<fs, roots>>, scanning \in Nat, scanning' \in Nat, scanning <= scanning',
         \A r, d, e : Taken(r, d, e)' <=> Taken(r, d, e)
  PROVE  /\ \A r, path : FoundSoFar(r, path)' <=> FoundSoFar(r, path)
         /\ \A path : RootsSoFar(path)' = RootsSoFar(path)
         /\ Counted' = Counted
<1>1. ASSUME NEW r, NEW path PROVE FoundSoFar(r, path)' <=> FoundSoFar(r, path)
  BY DEF FoundSoFar
<1>2. \A r, d, e : Taken(r, d, e) => r \in 1 .. scanning
  BY DEF Taken, Reached
<1>3. 1 .. scanning \subseteq 1 .. scanning'
  OBVIOUS
<1>4. ASSUME NEW path PROVE RootsSoFar(path)' = RootsSoFar(path)
  <2>1. \A r : FoundSoFar(r, path) => r \in 1 .. scanning
    BY FoundIsFound
  <2>2. RootsSoFar(path)' = {r \in 1 .. scanning' : FoundSoFar(r, path)'}
    BY DEF RootsSoFar
  <2> QED
    BY <1>1, <1>3, <2>1, <2>2 DEF RootsSoFar
<1>5. Counted' = Counted
  <2>2. AllEntries' = AllEntries
    BY DEF AllEntries, EntriesBelow, WalkedDirectories, Walked
  <2>3. ASSUME NEW path
        PROVE  (\E r \in 1 .. scanning' : \E d \in DOMAIN fs.listing : \E e \in fs.listing[d] :
                  Taken(r, d, e)' /\ path = d \o <<e.name>>)
               <=> (\E r \in 1 .. scanning : \E d \in DOMAIN fs.listing : \E e \in fs.listing[d] :
                      Taken(r, d, e) /\ path = d \o <<e.name>>)
    BY <1>2, <1>3
  <2> DEFINE Met(path) == \E r \in 1 .. scanning : \E d \in DOMAIN fs.listing : \E e \in fs.listing[d] :
                            Taken(r, d, e) /\ path = d \o <<e.name>>
  <2>4. ASSUME NEW path PROVE Met(path)' <=> Met(path)
    <3>1. fs' = fs
      OBVIOUS
    <3>2. Met(path)' <=> \E r \in 1 .. scanning' : \E d \in DOMAIN fs.listing : \E e \in fs.listing[d] :
                            Taken(r, d, e)' /\ path = d \o <<e.name>>
      BY <3>1
    <3> QED
      BY <2>3, <3>2
  <2>5. Counted = {path \in AllEntries : Met(path)} /\ Counted' = {path \in AllEntries' : Met(path)'}
    BY DEF Counted
  <2> HIDE DEF Met
  <2> QED
    BY <2>2, <2>4, <2>5
<1> QED
  BY <1>1, <1>4, <1>5

\* Steps of a walk before its end: every indexed file was met below a root.
LEMMA QuietStepKeeps ==
  ASSUME WellTyped, scanning' \in Nat, scanning <= scanning', FilesInv, CountInv,
         UNCHANGED <<fs, request, roots, files, entriesSeen>>,
         phase' # "indexed",
         \A i \in DOMAIN files : RootsSoFar(files[i].path) # {},
         \A r, d, e : Taken(r, d, e)' <=> Taken(r, d, e)
  PROVE  FilesInv' /\ CountInv'
<1>1. /\ \A r, path : FoundSoFar(r, path)' <=> FoundSoFar(r, path)
      /\ \A path : RootsSoFar(path)' = RootsSoFar(path)
      /\ Counted' = Counted
  BY NothingTaken DEF WellTyped
<1>2. FilesInv'
  <2>1. \A i, j \in DOMAIN files' : files'[i].path = files'[j].path => i = j
    BY DEF FilesInv
  <2>2. ASSUME NEW r \in 1 .. scanning', NEW path \in Found(roots[r])', FoundSoFar(r, path)'
        PROVE  \E i \in DOMAIN files' : files'[i].path = path
    <3>1. FoundSoFar(r, path)
      BY <1>1, <2>2
    <3>2. r \in 1 .. scanning /\ path \in Found(roots[r])
      BY <3>1, FoundIsFound
    <3> QED
      BY <3>1, <3>2 DEF FilesInv
  <2>3. \A i \in DOMAIN files' : /\ RootsSoFar(files[i].path)' # {}
                                 /\ files'[i].members = RootsSoFar(files[i].path)'
    BY <1>1 DEF FilesInv
  <2> QED
    BY <2>1, <2>2, <2>3 DEF FilesInv
<1>3. CountInv'
  BY <1>1 DEF CountInv, RootsApart
<1> QED
  BY <1>2, <1>3

LEMMA EnterRootKeeps == IndexInv /\ EnterRoot => IndexInv'
<1> SUFFICES ASSUME IndexInv, EnterRoot PROVE IndexInv'
  OBVIOUS
<1>0. WellTyped /\ OptionsTaken
  BY DEF IndexInv
<1> DEFINE root == roots[scanning + 1]
<1>1. /\ UNCHANGED <<fs, request, roots, mappingRoots, searchRoots, files, directory, entries, entriesSeen, partial>>
      /\ phase' = "walk" /\ scanning' = scanning + 1 /\ pending' = {root} /\ scanning < Len(roots)
  BY DEF EnterRoot
<1>2. pending = {} /\ entries = {} /\ phase \in {"options", "walk"} /\ (phase = "options" => scanning = 0 /\ files = <<>> /\ entriesSeen = 0)
  BY <1>0 DEF EnterRoot, WellTyped
<1>3. /\ scanning \in Nat /\ Len(roots) \in Nat /\ DOMAIN roots = 1 .. Len(roots)
      /\ scanning + 1 \in DOMAIN roots /\ root \in DOMAIN fs.listing /\ root \in Path
  <2>1. scanning \in Nat /\ roots \in Seq(DOMAIN fs.listing)
    BY <1>0 DEF WellTyped
  <2>2. scanning + 1 \in DOMAIN roots
    BY <1>1, <2>1
  <2>3. root \in DOMAIN fs.listing
    BY <2>2, <1>0, TreeTyped
  <2> QED
    BY <2>1, <2>2, <2>3, <1>0, TreeTyped
<1> HIDE DEF root
<1>4. WellTyped'
  BY <1>0, <1>1, <1>2, <1>3 DEF WellTyped, Phases, Walking
<1>5. OptionsTaken'
  BY <1>0, <1>1 DEF OptionsTaken
<1>6. \A d : WalkedDirectories(d)' = WalkedDirectories(d)
  BY <1>1 DEF WalkedDirectories, Walked
<1>7. ASSUME NEW r, NEW d PROVE Reached(r, d)' <=> Reached(r, d)
  <2>1. ~Ahead(d)
    BY <1>2 DEF Ahead
  <2>2. CASE r \in 1 .. scanning
    <3>1. r \in 1 .. scanning' /\ r # scanning'
      BY <1>1, <1>3, <2>2
    <3> QED
      BY <1>1, <2>1, <2>2, <3>1 DEF Reached, WalkedDirectories, Walked
  <2>3. CASE r = scanning'
    <3>1. ~Reached(r, d)
      BY <1>1, <1>3, <2>3 DEF Reached
    <3>2. ASSUME Reached(r, d)' PROVE FALSE
      <4>1. d \in WalkedDirectories(root)
        BY <1>1, <2>3, <3>2 DEF Reached, WalkedDirectories, Walked, root
      <4>2. IsPrefix(root, d)
        BY <4>1 DEF WalkedDirectories, Walked
      <4>3. Ahead(d)'
        BY <1>1, <4>2 DEF Ahead
      <4> QED
        BY <4>3, <3>2, <2>3 DEF Reached
    <3> QED
      BY <3>1, <3>2
  <2>4. CASE r \notin 1 .. scanning'
    BY <1>1, <1>3, <2>4 DEF Reached
  <2> QED
    BY <1>1, <1>3, <2>2, <2>3, <2>4
<1>8. \A r, d, e : Taken(r, d, e)' <=> Taken(r, d, e)
  BY <1>1, <1>2, <1>7 DEF Taken
<1>9. WalkInOrder'
  <2>1. roots'[scanning'] = root
    BY <1>1 DEF root
  <2>2. root \in WalkedDirectories(root)
    BY <1>0, <1>3, WalkFromRoot
  <2>3. pending' \subseteq WalkedDirectories(roots[scanning])'
    BY <1>1, <1>6, <2>1, <2>2 DEF WalkedDirectories, Walked
  <2> QED
    BY <1>1, <1>2, <1>3, <2>3 DEF WalkInOrder
<1>10. FilesInv /\ LossInv /\ CountInv
  <2>1. CASE phase = "walk"
    BY <2>1 DEF IndexInv, Walking
  <2>2. CASE phase = "options"
    <3>1. 1 .. scanning = {} /\ DOMAIN files = {}
      BY <1>2, <2>2
    <3>2. Counted = {} /\ Cardinality(Counted) = 0
      BY <3>1, FS_EmptySet DEF Counted
    <3>3. FilesInv
      BY <3>1, <2>2 DEF FilesInv
    <3>4. LossInv
      BY <1>0, <2>2, <3>1 DEF LossInv, OptionsTaken
    <3> QED
      BY <1>2, <2>2, <3>2, <3>3, <3>4, IndexLimitAssumption DEF CountInv
  <2> QED
    BY <1>2, <2>1, <2>2
<1>11. \A i \in DOMAIN files : RootsSoFar(files[i].path) # {}
  <2>1. scanning # Len(roots)
    <3> DEFINE m == scanning
               n == Len(roots)
    <3>1. m \in Nat /\ n \in Nat /\ m < n
      BY <1>1, <1>3
    <3> HIDE DEF m, n
    <3>2. m # n
      BY <3>1
    <3> QED
      BY <3>2 DEF m, n
  <2>2. \A i \in DOMAIN files : RootsSoFar(files[i].path) = {} => scanning = Len(roots)
    BY <1>10 DEF FilesInv
  <2> QED
    BY <2>1, <2>2
<1>12. FilesInv' /\ CountInv'
  BY <1>0, <1>1, <1>3, <1>8, <1>10, <1>11, QuietStepKeeps
<1>13. LossInv'
  <2>1. OptionLost' <=> OptionLost
    BY <1>1 DEF OptionLost
  <2>2. \A r, d : Lost(r, d)' <=> Lost(r, d)
    BY <1>1, <1>8 DEF Lost
  <2>3. \A r, d : Reached(r, d) => r \in 1 .. scanning /\ r \in 1 .. scanning'
    BY <1>1, <1>3 DEF Reached
  <2> QED
    BY <1>1, <1>7, <1>10, <2>1, <2>2, <2>3 DEF LossInv
<1>14. EntryLimitIsHonest'
  BY <1>1 DEF EntryLimitIsHonest
<1> QED
  BY <1>4, <1>5, <1>9, <1>12, <1>13, <1>14 DEF IndexInv

LEMMA ReadDirectoryKeeps == IndexInv /\ ReadDirectory => IndexInv'
<1> SUFFICES ASSUME IndexInv, ReadDirectory PROVE IndexInv'
  OBVIOUS
<1> DEFINE next == First(pending)
           listed == IF next \in fs.closed THEN {} ELSE fs.listing[next]
           root == roots[scanning]
<1>0. WellTyped /\ OptionsTaken /\ WalkInOrder /\ FilesInv /\ LossInv /\ CountInv
  BY DEF IndexInv, ReadDirectory, Walking
<1>1. /\ UNCHANGED <<fs, request, phase, roots, mappingRoots, searchRoots, files, scanning, entriesSeen>>
      /\ phase = "walk" /\ entries = {} /\ pending # {}
      /\ pending' = pending \ {next} /\ directory' = next
      /\ entries' = {e \in listed : e.kind # "unreadable"}
      /\ partial' = (partial \/ next \in fs.closed \/ \E e \in listed : e.kind = "unreadable")
  BY DEF ReadDirectory
<1>2. /\ scanning \in Nat /\ scanning \in DOMAIN roots /\ root \in DOMAIN fs.listing
      /\ scanning \in 1 .. scanning
  BY <1>0, TreeTyped DEF WellTyped, WalkInOrder
<1>3. pending \subseteq WalkedDirectories(root) /\ pending \subseteq Path
  BY <1>0, TreeTyped DEF WalkInOrder, WalkedDirectories
<1>4. next \in pending
  <2>1. IsFiniteSet(pending)
    BY <1>0, <1>3, TreeTyped, FS_Subset, WalkedListed
  <2> QED
    BY <1>1, <1>3, <2>1, FirstIsIn
<1> HIDE DEF next, root
<1>5. /\ next \in WalkedDirectories(root) /\ next \in Path /\ next \in DOMAIN fs.listing
      /\ IsPrefix(root, next)
  BY <1>3, <1>4 DEF WalkedDirectories, Walked
<1>6. \A p, q \in pending : IsPrefix(p, q) => p = q
  BY <1>0 DEF WalkInOrder
<1>7. \A e \in listed : e.name \in Names /\ next \o <<e.name>> \in Path /\ ~IsPrefix(next \o <<e.name>>, next)
                        /\ IsPrefix(next, next \o <<e.name>>)
  <2> SUFFICES ASSUME NEW e \in listed
               PROVE  e.name \in Names /\ next \o <<e.name>> \in Path /\ ~IsPrefix(next \o <<e.name>>, next)
                      /\ IsPrefix(next, next \o <<e.name>>)
    OBVIOUS
  <2>1. e.name \in Names
    BY <1>0, <1>5, EntryNamed
  <2>2. next \o <<e.name>> \in Path /\ Len(next \o <<e.name>>) = Len(next) + 1 /\ Len(next) \in Nat
        /\ IsPrefix(next, next \o <<e.name>>)
    BY <1>5, <2>1, EntryPath
  <2>3. ~(Len(next \o <<e.name>>) <= Len(next))
    BY <2>2
  <2> QED
    BY <2>1, <2>2, <2>3 DEF IsPrefix
\* What is still ahead after the step, but for the directory read in it.
<1>8. ASSUME NEW d \in WalkedDirectories(root) PROVE Ahead(d)' <=> Ahead(d) /\ d # next
  <2>0. d \in Path
    BY <1>0, TreeTyped DEF WalkedDirectories
  <2>1. ASSUME Ahead(d)' PROVE Ahead(d) /\ d # next
    <3>1. CASE \E p \in pending' : IsPrefix(p, d)
      <4>1. PICK p \in pending' : IsPrefix(p, d)
        BY <3>1
      <4>2. p \in pending /\ p # next
        BY <1>1, <4>1
      <4>3. ~IsPrefix(p, next)
        BY <1>4, <1>6, <4>2
      <4> QED
        BY <4>1, <4>2, <4>3 DEF Ahead
    <3>2. CASE \E e \in entries' : e.kind = "directory" /\ IsPrefix(directory' \o <<e.name>>, d)
      <4>1. PICK e \in listed : IsPrefix(next \o <<e.name>>, d)
        BY <1>1, <3>2
      <4>2. IsPrefix(next, d)
        BY <1>5, <1>7, <2>0, <4>1, PrefixTransitive
      <4>3. d # next
        BY <1>7, <4>1
      <4> QED
        BY <1>4, <4>2, <4>3 DEF Ahead
    <3> QED
      BY <2>1, <3>1, <3>2 DEF Ahead
  <2>2. ASSUME Ahead(d), d # next PROVE Ahead(d)'
    <3>1. PICK p \in pending : IsPrefix(p, d)
      BY <2>2, <1>1 DEF Ahead
    <3>2. CASE p # next
      <4>1. p \in pending'
        BY <1>1, <3>1, <3>2
      <4> QED
        BY <3>1, <4>1 DEF Ahead
    <3>3. CASE p = next
      <4>1. /\ next \notin fs.closed
            /\ \E e \in fs.listing[next] : e.kind = "directory" /\ IsPrefix(next \o <<e.name>>, d)
        BY <1>0, <1>2, <1>5, <2>2, <3>1, <3>3, WalkThrough DEF root
      <4>2. PICK e \in listed : e.kind = "directory" /\ IsPrefix(next \o <<e.name>>, d)
        BY <4>1
      <4>3. e \in entries'
        BY <1>1, <4>2
      <4> QED
        BY <1>1, <4>2, <4>3 DEF Ahead
    <3> QED
      BY <3>2, <3>3
  <2> QED
    BY <2>1, <2>2
<1>9. Ahead(next)
  BY <1>4, <1>5, PrefixReflexive DEF Ahead
<1>10. ASSUME NEW r, NEW d PROVE Reached(r, d)' <=> Reached(r, d) \/ (r = scanning /\ d = next)
  <2>1. WalkedDirectories(roots[r])' = WalkedDirectories(roots[r])
    BY <1>1 DEF WalkedDirectories, Walked
  <2>2. CASE r = scanning
    <3>1. Reached(r, d)' <=> d \in WalkedDirectories(root) /\ ~Ahead(d)'
      BY <1>1, <1>2, <2>1, <2>2 DEF Reached, root
    <3>2. Reached(r, d) <=> d \in WalkedDirectories(root) /\ ~Ahead(d)
      BY <1>2, <2>2 DEF Reached, root
    <3> QED
      BY <1>5, <1>8, <1>9, <2>2, <3>1, <3>2
  <2>3. CASE r # scanning
    BY <1>1, <2>1, <2>3 DEF Reached
  <2> QED
    BY <2>2, <2>3
<1>11. ASSUME NEW r, NEW d, NEW e PROVE Taken(r, d, e)' <=> Taken(r, d, e)
  <2>1. CASE r = scanning /\ d = next
    <3>1. ~Reached(r, d)
      BY <1>9, <2>1 DEF Reached
    <3>2. d \notin fs.closed /\ e \in fs.listing[d] /\ e.kind # "unreadable" => e \in entries'
      BY <1>1, <2>1
    <3> QED
      BY <1>1, <2>1, <3>1, <3>2 DEF Taken
  <2>2. CASE ~(r = scanning /\ d = next)
    BY <1>1, <1>10, <2>2 DEF Taken
  <2> QED
    BY <2>1, <2>2
<1>12. WellTyped'
  BY <1>0, <1>1 DEF WellTyped, Phases, Walking
<1>13. OptionsTaken'
  BY <1>0, <1>1 DEF OptionsTaken
<1>14. WalkInOrder'
  <2>1. pending' \subseteq WalkedDirectories(roots[scanning])'
    BY <1>1, <1>3 DEF WalkedDirectories, Walked, root
  <2>2. \A p, q \in pending' : IsPrefix(p, q) => p = q
    BY <1>1, <1>6
  <2>3. \A p \in pending' : ~IsPrefix(p, next)
    BY <1>1, <1>4, <1>6
  <2>4. \A p \in pending' : \A e \in listed : ~IsPrefix(next \o <<e.name>>, p)
    <3> SUFFICES ASSUME NEW p \in pending', NEW e \in listed, IsPrefix(next \o <<e.name>>, p) PROVE FALSE
      OBVIOUS
    <3>1. p \in pending /\ p # next /\ p \in Path
      BY <1>1, <1>3
    <3>2. IsPrefix(next, p)
      BY <1>5, <1>7, <3>1, PrefixTransitive
    <3> QED
      BY <1>4, <1>6, <3>1, <3>2
  <2>5. entries' # {} => next \notin fs.closed
    BY <1>1
  <2>6. next \in WalkedDirectories(roots[scanning])'
    BY <1>1, <1>5 DEF WalkedDirectories, Walked, root
  <2>7. entries' # {} =>
          /\ directory' \in WalkedDirectories(roots[scanning])' \ fs'.closed
          /\ entries' \subseteq {e \in fs'.listing[directory'] : e.kind # "unreadable"}
          /\ \A p \in pending' : ~IsPrefix(p, directory')
          /\ \A p \in pending', e \in entries' : ~IsPrefix(directory' \o <<e.name>>, p)
    BY <1>1, <2>3, <2>4, <2>5, <2>6
  <2> QED
    BY <1>1, <1>2, <2>1, <2>2, <2>7 DEF WalkInOrder
<1>15. \A i \in DOMAIN files : RootsSoFar(files[i].path) # {}
  BY <1>0, <1>1 DEF FilesInv
<1>16. FilesInv' /\ CountInv'
  BY <1>0, <1>1, <1>2, <1>11, <1>15, QuietStepKeeps
<1>17. LossInv'
  <2>1. OptionLost' <=> OptionLost
    BY <1>1 DEF OptionLost
  <2>2. \A r, d : Lost(r, d)' <=> Lost(r, d)
    BY <1>1, <1>11 DEF Lost
  <2>3. Lost(scanning, next) <=> next \in fs.closed \/ \E e \in listed : e.kind = "unreadable"
    <3>1. \A e : ~Taken(scanning, next, e)
      BY <1>9 DEF Taken, Reached
    <3> QED
      BY <3>1 DEF Lost
  <2>4. (\E r \in 1 .. scanning : \E d \in DOMAIN fs.listing : Reached(r, d)' /\ Lost(r, d)')
          <=> \/ \E r \in 1 .. scanning : \E d \in DOMAIN fs.listing : Reached(r, d) /\ Lost(r, d)
              \/ Lost(scanning, next)
    BY <1>2, <1>5, <1>10, <2>2
  <2>5. partial' <=> partial \/ Lost(scanning, next)
    BY <1>1, <2>3
  <2> QED
    BY <1>0, <1>1, <2>1, <2>4, <2>5 DEF LossInv
<1>18. EntryLimitIsHonest'
  BY <1>1 DEF EntryLimitIsHonest
<1> QED
  BY <1>12, <1>13, <1>14, <1>16, <1>17, <1>18 DEF IndexInv

-----------------------------------------------------------------------------
(***************************************************************************)
(* Taking an entry.                                                        *)
(***************************************************************************)
\* The entry taken next.
LEMMA EntryNext ==
  ASSUME WellTyped, WalkInOrder, entries # {},
         NEW entry, entry = FirstEntry(entries)
  PROVE  /\ entry \in entries /\ directory \in DOMAIN fs.listing /\ entry \in fs.listing[directory]
         /\ entry.kind # "unreadable" /\ entry.name \in Names
         /\ directory \in Path /\ directory \in WalkedDirectories(roots[scanning])
         /\ Reached(scanning, directory) /\ directory \notin fs.closed
         /\ ~Taken(scanning, directory, entry)
         /\ scanning \in DOMAIN roots /\ scanning \in 1 .. scanning
<1> DEFINE root == roots[scanning]
<1>2. /\ directory \in WalkedDirectories(root) /\ directory \notin fs.closed
      /\ entries \subseteq {e \in fs.listing[directory] : e.kind # "unreadable"}
      /\ \A p \in pending : ~IsPrefix(p, directory)
      /\ scanning \in DOMAIN roots /\ scanning \in 1 .. scanning
  BY DEF WalkInOrder, WellTyped
<1> HIDE DEF root
<1>3. directory \in DOMAIN fs.listing /\ directory \in Path
  BY <1>2, TreeTyped DEF WalkedDirectories
<1>4. entry \in entries /\ entry \in fs.listing[directory] /\ entry.kind # "unreadable"
  <2>1. entries \in SUBSET Entry /\ \A e, o \in entries : e.name = o.name => e = o
    BY <1>2, <1>3, TreeTyped
  <2>2. entry \in entries
    BY <2>1, FirstEntryIsIn
  <2> QED
    BY <1>2, <2>2
<1>5. entry.name \in Names
  BY <1>3, <1>4, EntryNamed
<1>8. Reached(scanning, directory)
  <2>1. \A e \in entries : ~IsPrefix(directory \o <<e.name>>, directory)
    <3> SUFFICES ASSUME NEW e \in entries PROVE ~IsPrefix(directory \o <<e.name>>, directory)
      OBVIOUS
    <3>1. e.name \in Names
      BY <1>2, <1>3, EntryNamed
    <3>2. Len(directory \o <<e.name>>) = Len(directory) + 1 /\ Len(directory) \in Nat
      BY <1>3, <3>1, EntryPath
    <3>3. ~(Len(directory \o <<e.name>>) <= Len(directory))
      BY <3>2
    <3> QED
      BY <3>3 DEF IsPrefix
  <2>2. ~Ahead(directory)
    BY <1>2, <2>1 DEF Ahead
  <2> QED
    BY <1>2, <2>2 DEF Reached, root
<1>9. ~Taken(scanning, directory, entry)
  BY <1>4 DEF Taken
<1> QED
  BY <1>2, <1>3, <1>4, <1>5, <1>8, <1>9 DEF root

\* What is walked and taken after it.
LEMMA EntryTaken ==
  ASSUME WellTyped, WalkInOrder, TakeEntry, phase' # "too_many_entries",
         NEW entry, entry = FirstEntry(entries), NEW path, path = directory \o <<entry.name>>
  PROVE  /\ entry \in entries /\ directory \in DOMAIN fs.listing /\ entry \in fs.listing[directory]
         /\ directory \in Path /\ entry.name \in Names
         /\ \A r, d : Reached(r, d)' <=> Reached(r, d)
         /\ Reached(scanning, directory) /\ directory \notin fs.closed
         /\ ~Taken(scanning, directory, entry)
         /\ \A r, d, e : Taken(r, d, e)' <=>
              Taken(r, d, e) \/ (r = scanning /\ d = directory /\ e = entry)
<1>1. /\ UNCHANGED <<fs, request, roots, scanning, directory>>
      /\ entries # {} /\ entries' = entries \ {entry}
      /\ pending' = IF entry.kind = "directory" THEN pending \cup {path} ELSE pending
  BY DEF TakeEntry
<1>4. /\ entry \in entries /\ directory \in DOMAIN fs.listing /\ entry \in fs.listing[directory]
      /\ entry.kind # "unreadable" /\ entry.name \in Names
      /\ directory \in Path /\ Reached(scanning, directory) /\ directory \notin fs.closed
      /\ ~Taken(scanning, directory, entry)
  BY <1>1, EntryNext
<1>6. ASSUME NEW d PROVE Ahead(d)' <=> Ahead(d)
  <2>1. CASE entry.kind = "directory"
    <3>1. (\E p \in pending' : IsPrefix(p, d)) <=> (\E p \in pending : IsPrefix(p, d)) \/ IsPrefix(path, d)
      BY <1>1, <2>1
    <3>2. (\E e \in entries : e.kind = "directory" /\ IsPrefix(directory \o <<e.name>>, d))
            <=> (\E e \in entries' : e.kind = "directory" /\ IsPrefix(directory \o <<e.name>>, d)) \/ IsPrefix(path, d)
      BY <1>1, <1>4, <2>1
    <3> QED
      BY <1>1, <3>1, <3>2 DEF Ahead
  <2>2. CASE entry.kind # "directory"
    BY <1>1, <1>4, <2>2 DEF Ahead
  <2> QED
    BY <2>1, <2>2
<1>7. ASSUME NEW r, NEW d PROVE Reached(r, d)' <=> Reached(r, d)
  BY <1>1, <1>6 DEF Reached, WalkedDirectories, Walked
<1>10. ASSUME NEW r, NEW d, NEW e
       PROVE  Taken(r, d, e)' <=> Taken(r, d, e) \/ (r = scanning /\ d = directory /\ e = entry)
  <2>1. Taken(r, d, e)' <=> /\ Reached(r, d) /\ d \notin fs.closed
                            /\ e \in fs.listing[d] /\ e.kind # "unreadable"
                            /\ ~(r = scanning /\ d = directory /\ e \in entries /\ e # entry)
    BY <1>1, <1>7 DEF Taken
  <2>2. CASE r = scanning /\ d = directory /\ e = entry
    BY <1>4, <2>1, <2>2
  <2>3. CASE ~(r = scanning /\ d = directory /\ e = entry)
    BY <2>1, <2>3 DEF Taken
  <2> QED
    BY <2>2, <2>3
<1> QED
  BY <1>4, <1>7, <1>10

LEMMA TakeEntryInOrder ==
  ASSUME WellTyped, WalkInOrder, TakeEntry, phase' # "too_many_entries"
  PROVE  WalkInOrder'
<1> DEFINE entry == FirstEntry(entries)
           path == directory \o <<entry.name>>
           root == roots[scanning]
<1>1. /\ UNCHANGED <<fs, request, roots, scanning, directory>>
      /\ entries # {} /\ entries' = entries \ {entry}
      /\ pending' = IF entry.kind = "directory" THEN pending \cup {path} ELSE pending
  BY DEF TakeEntry
<1>2. /\ entry \in entries /\ entry \in fs.listing[directory]
      /\ directory \in DOMAIN fs.listing /\ directory \in Path /\ entry.name \in Names
  BY EntryTaken
<1>3. /\ directory \in WalkedDirectories(root) /\ directory \notin fs.closed
      /\ entries \subseteq {e \in fs.listing[directory] : e.kind # "unreadable"}
      /\ \A p \in pending : ~IsPrefix(p, directory)
      /\ \A p \in pending, e \in entries : ~IsPrefix(directory \o <<e.name>>, p)
      /\ pending \subseteq WalkedDirectories(root) /\ pending \subseteq Path
      /\ \A p, q \in pending : IsPrefix(p, q) => p = q
      /\ scanning \in DOMAIN roots /\ root \in DOMAIN fs.listing
  BY <1>1, TreeTyped DEF WalkInOrder, WalkedDirectories
<1>4. phase' # "indexed"
  BY DEF TakeEntry, AddIndexedFile
<1>5. path \in Path /\ IsPrefix(directory, path) /\ Len(path) = Len(directory) + 1 /\ Len(directory) \in Nat
  BY <1>2, EntryPath
<1>6. ~IsPrefix(path, directory)
  <2>1. ~(Len(path) <= Len(directory))
    BY <1>5
  <2> QED
    BY <2>1 DEF IsPrefix
<1> HIDE DEF entry, root
<1>7. \A e \in entries' : e.name \in Names /\ e.name # entry.name /\ e \in entries
  BY <1>1, <1>2, <1>3, TreeTyped, EntryNamed
<1>8. \A e \in entries' : ~IsPrefix(directory \o <<e.name>>, path)
  <2> SUFFICES ASSUME NEW e \in entries', IsPrefix(directory \o <<e.name>>, path) PROVE FALSE
    OBVIOUS
  <2>1. /\ directory \o <<e.name>> \in Path /\ Len(directory \o <<e.name>>) = Len(directory) + 1
    BY <1>2, <1>7, EntryPath
  <2>2. directory \o <<e.name>> = path \/ IsPrefix(directory \o <<e.name>>, directory)
    BY <1>2, <2>1, AboveEntry
  <2>3. ~(Len(directory \o <<e.name>>) <= Len(directory))
    BY <1>5, <2>1
  <2>4. directory \o <<e.name>> = path
    BY <2>2, <2>3 DEF IsPrefix
  <2> QED
    BY <1>2, <1>7, <2>4, EntryPathUnique
<1>9. CASE entry.kind = "directory"
  <2>1. path \in WalkedDirectories(root)
    BY <1>2, <1>3, <1>9, WalkDown
  <2> HIDE DEF path
  <2>2. pending' = pending \cup {path}
    BY <1>1, <1>9
  <2>3. \A p \in pending : ~IsPrefix(p, path)
    <3> SUFFICES ASSUME NEW p \in pending, IsPrefix(p, path) PROVE FALSE
      OBVIOUS
    <3>1. p = path \/ IsPrefix(p, directory)
      BY <1>2, <1>3, AboveEntry DEF path
    <3>2. p = path
      BY <1>3, <3>1
    <3>3. IsPrefix(directory \o <<entry.name>>, p)
      BY <1>5, <3>2, PrefixReflexive DEF path
    <3> QED
      BY <1>2, <1>3, <3>3
  <2>4. \A p \in pending : ~IsPrefix(path, p)
    BY <1>2, <1>3 DEF path
  <2>5. \A p, q \in pending' : IsPrefix(p, q) => p = q
    BY <1>3, <2>2, <2>3, <2>4
  <2>6. pending' \subseteq WalkedDirectories(roots[scanning])'
    BY <1>1, <1>3, <2>1, <2>2 DEF WalkedDirectories, Walked, root
  <2>7. \A p \in pending' : ~IsPrefix(p, directory)
    BY <1>3, <1>6, <2>2
  <2>8. \A p \in pending' : \A e \in entries' : ~IsPrefix(directory \o <<e.name>>, p)
    BY <1>3, <1>7, <1>8, <2>2
  <2>9. directory \in WalkedDirectories(roots[scanning])'
    BY <1>1, <1>3 DEF WalkedDirectories, Walked, root
  <2> QED
    BY <1>1, <1>3, <1>4, <2>5, <2>6, <2>7, <2>8, <2>9 DEF WalkInOrder
<1>10. CASE entry.kind # "directory"
  <2>1. pending' = pending
    BY <1>1, <1>10
  <2>2. pending' \subseteq WalkedDirectories(roots[scanning])' /\ directory \in WalkedDirectories(roots[scanning])'
    BY <1>1, <1>3, <2>1 DEF WalkedDirectories, Walked, root
  <2> QED
    BY <1>1, <1>3, <1>4, <1>7, <2>1, <2>2 DEF WalkInOrder
<1> QED
  BY <1>9, <1>10

LEMMA AllFinite ==
  ASSUME WellTyped PROVE IsFiniteSet(AllEntries)
<1> DEFINE Names_(d) == {d \o <<e.name>> : e \in fs.listing[d]}
           Every == {Names_(d) : d \in DOMAIN fs.listing}
<1>1. ASSUME NEW d \in DOMAIN fs.listing PROVE IsFiniteSet(Names_(d))
  <2> DEFINE Named == [e \in fs.listing[d] |-> d \o <<e.name>>]
  <2>1. Named \in Surjection(fs.listing[d], Names_(d))
    BY DEF Surjection
  <2>2. IsFiniteSet(fs.listing[d])
    BY TreeTyped
  <2> HIDE DEF Named, Names_
  <2> QED
    BY <2>1, <2>2, FS_Surjection
<1>2. IsFiniteSet(Every)
  <2> HIDE DEF Names_
  <2> DEFINE Named == [d \in DOMAIN fs.listing |-> Names_(d)]
  <2>1. Named \in Surjection(DOMAIN fs.listing, Every)
    BY DEF Surjection
  <2>2. IsFiniteSet(DOMAIN fs.listing)
    BY TreeTyped
  <2> HIDE DEF Named, Every
  <2> QED
    BY <2>1, <2>2, FS_Surjection
<1>3. \A T \in Every : IsFiniteSet(T)
  BY <1>1
<1>4. IsFiniteSet(UNION Every)
  <2> HIDE DEF Every
  <2> QED
    BY <1>2, <1>3, FS_UNION
<1>5. ASSUME NEW path \in AllEntries PROVE path \in UNION Every
  <2>1. PICK r \in DOMAIN roots : path \in EntriesBelow(roots[r])
    BY DEF AllEntries
  <2>2. PICK d \in WalkedDirectories(roots[r]) \ fs.closed : \E e \in fs.listing[d] :
          e.kind # "unreadable" /\ path = d \o <<e.name>>
    BY <2>1, IsBelow
  <2>3. d \in DOMAIN fs.listing
    BY WalkedListed
  <2>4. path \in Names_(d)
    BY <2>2
  <2>5. Names_(d) \in Every
    BY <2>3
  <2> HIDE DEF Names_, Every
  <2> QED
    BY <2>4, <2>5
<1> QED
  BY <1>4, <1>5, FS_Subset

LEMMA TakenIsBelow ==
  ASSUME WellTyped, scanning <= Len(roots), NEW r, NEW d, NEW e, Taken(r, d, e)
  PROVE  d \o <<e.name>> \in AllEntries /\ d \in DOMAIN fs.listing /\ r \in DOMAIN roots
<1>1. r \in 1 .. scanning /\ d \in WalkedDirectories(roots[r]) \ fs.closed /\ e \in fs.listing[d] /\ e.kind # "unreadable"
  BY DEF Taken, Reached
<1>2. r \in DOMAIN roots
  BY <1>1 DEF WellTyped
<1>3. d \o <<e.name>> \in EntriesBelow(roots[r])
  BY <1>1, IsBelow
<1> QED
  BY <1>1, <1>2, <1>3, WalkedListed DEF AllEntries

\* The entry taken next counts; it counted before only where roots overlap.
LEMMA EntryCounts ==
  ASSUME WellTyped, WalkInOrder, entries # {},
         NEW entry, entry = FirstEntry(entries), NEW path, path = directory \o <<entry.name>>
  PROVE  path \in AllEntries /\ (RootsApart => path \notin Counted)
<1>1. /\ entry \in entries /\ directory \in DOMAIN fs.listing /\ entry \in fs.listing[directory]
      /\ entry.kind # "unreadable" /\ entry.name \in Names
      /\ directory \in Path /\ directory \in WalkedDirectories(roots[scanning])
      /\ directory \notin fs.closed
      /\ ~Taken(scanning, directory, entry)
      /\ scanning \in DOMAIN roots
  BY EntryNext
<1>2. path \in AllEntries
  <2>1. path \in EntriesBelow(roots[scanning])
    BY <1>1, IsBelow
  <2> QED
    BY <1>1, <2>1 DEF AllEntries
<1>3. ASSUME RootsApart, path \in Counted PROVE FALSE
  <2>1. PICK r \in 1 .. scanning : \E d \in DOMAIN fs.listing : \E e \in fs.listing[d] :
          Taken(r, d, e) /\ path = d \o <<e.name>>
    BY <1>3 DEF Counted
  <2>2. PICK d \in DOMAIN fs.listing : \E e \in fs.listing[d] : Taken(r, d, e) /\ path = d \o <<e.name>>
    BY <2>1
  <2>3. PICK e \in fs.listing[d] : Taken(r, d, e) /\ path = d \o <<e.name>>
    BY <2>2
  <2>4. d \in Path /\ e.name \in Names
    BY <2>2, <2>3, TreeTyped, EntryNamed
  <2>5. d = directory /\ e.name = entry.name
    BY <1>1, <2>3, <2>4, EntryPathUnique
  <2>6. e = entry
    BY <1>1, <2>3, <2>5, TreeTyped
  <2>7. r \in DOMAIN roots
    BY <1>1 DEF WellTyped
  <2>8. roots[r] \in Path /\ roots[scanning] \in Path
    BY <1>1, <2>7, TreeTyped
  <2>9. IsPrefix(roots[r], directory) /\ IsPrefix(roots[scanning], directory)
    BY <1>1, <2>3, <2>5 DEF Taken, Reached, WalkedDirectories, Walked
  <2>10. IsPrefix(roots[r], roots[scanning]) \/ IsPrefix(roots[scanning], roots[r])
    BY <1>1, <2>8, <2>9, PrefixesCompare
  <2>11. r = scanning
    BY <1>1, <1>3, <2>7, <2>10 DEF RootsApart
  <2> QED
    BY <1>1, <2>3, <2>5, <2>6, <2>11
<1> QED
  BY <1>2, <1>3

LEMMA CountedFinite ==
  ASSUME WellTyped
  PROVE  IsFiniteSet(Counted) /\ Cardinality(Counted) \in Nat
<1>1. Counted \subseteq AllEntries
  BY DEF Counted
<1>2. IsFiniteSet(Counted)
  BY <1>1, AllFinite, FS_Subset
<1> QED
  BY <1>2, FS_CardinalityType

\* The limit refuses for a reason.
LEMMA RefusalIsHonest ==
  ASSUME WellTyped, WalkInOrder, CountInv, entries # {}, entriesSeen + 1 > MaxProjectEntries
  PROVE  \/ Cardinality(AllEntries) > MaxProjectEntries
         \/ \E r, s \in DOMAIN roots : r # s /\ IsPrefix(roots[r], roots[s])
<1> SUFFICES ASSUME RootsApart PROVE Cardinality(AllEntries) > MaxProjectEntries
  BY DEF RootsApart
<1> DEFINE entry == FirstEntry(entries)
           path == directory \o <<entry.name>>
           More == Counted \cup {path}
<1>1. path \in AllEntries /\ path \notin Counted
  BY EntryCounts
<1>2. IsFiniteSet(Counted) /\ Cardinality(Counted) = entriesSeen /\ entriesSeen \in Nat
  BY CountedFinite DEF CountInv, WellTyped
<1> HIDE DEF path
<1>3. IsFiniteSet(More) /\ Cardinality(More) = entriesSeen + 1
  BY <1>1, <1>2, FS_AddElement
<1>4. More \subseteq AllEntries
  BY <1>1 DEF Counted
<1>5. Cardinality(More) <= Cardinality(AllEntries) /\ Cardinality(AllEntries) \in Nat
  BY <1>4, AllFinite, FS_Subset, FS_CardinalityType
<1> HIDE DEF More
<1> QED
  BY <1>2, <1>3, <1>5, IndexLimitAssumption

LEMMA TakeEntryCounts ==
  ASSUME WellTyped, WalkInOrder, CountInv, TakeEntry, phase' # "too_many_entries"
  PROVE  CountInv'
<1> DEFINE entry == FirstEntry(entries)
           path == directory \o <<entry.name>>
<1>1. /\ UNCHANGED <<fs, request, roots, scanning>>
      /\ entries # {} /\ entriesSeen' = entriesSeen + 1 /\ entriesSeen + 1 <= MaxProjectEntries
      /\ entriesSeen \in Nat
  BY IndexLimitAssumption DEF TakeEntry, WellTyped
<1>2. \A r, d, e : Taken(r, d, e)' <=> Taken(r, d, e) \/ (r = scanning /\ d = directory /\ e = entry)
  BY EntryTaken
<1>3. path \in AllEntries /\ (RootsApart => path \notin Counted)
  BY <1>1, EntryCounts
<1>4. AllEntries' = AllEntries
  BY <1>1 DEF AllEntries, EntriesBelow, WalkedDirectories, Walked
<1>5. /\ entry \in fs.listing[directory] /\ directory \in DOMAIN fs.listing /\ scanning \in 1 .. scanning
  BY <1>1, EntryNext
<1> HIDE DEF entry
<1> DEFINE Met(p) == \E r \in 1 .. scanning : \E d \in DOMAIN fs.listing : \E e \in fs.listing[d] :
                       Taken(r, d, e) /\ p = d \o <<e.name>>
<1>6. ASSUME NEW p PROVE Met(p)' <=> Met(p) \/ p = path
  <2>1. Met(p)' <=> \E r \in 1 .. scanning : \E d \in DOMAIN fs.listing : \E e \in fs.listing[d] :
                      Taken(r, d, e)' /\ p = d \o <<e.name>>
    BY <1>1
  <2>2. ASSUME Met(p)' PROVE Met(p) \/ p = path
    BY <1>2, <2>1, <2>2
  <2>3. ASSUME Met(p) PROVE Met(p)'
    BY <1>2, <2>1, <2>3
  <2>4. ASSUME p = path PROVE Met(p)'
    BY <1>2, <1>5, <2>1, <2>4
  <2> QED
    BY <2>2, <2>3, <2>4
<1>7. Counted = {p \in AllEntries : Met(p)} /\ Counted' = {p \in AllEntries' : Met(p)'}
  BY DEF Counted
<1> HIDE DEF Met, path
<1>8. Counted' = Counted \cup {path}
  BY <1>3, <1>4, <1>6, <1>7
<1>9. IsFiniteSet(Counted) /\ Cardinality(Counted) \in Nat
  BY CountedFinite
<1>10. Cardinality(Counted') = IF path \in Counted THEN Cardinality(Counted) ELSE Cardinality(Counted) + 1
  BY <1>8, <1>9, FS_AddElement
<1>11. RootsApart' <=> RootsApart
  BY <1>1 DEF RootsApart
<1>12. Cardinality(Counted') <= entriesSeen'
  BY <1>1, <1>9, <1>10 DEF CountInv
<1>13. RootsApart => Cardinality(Counted') = entriesSeen'
  BY <1>1, <1>3, <1>10 DEF CountInv
<1> QED
  BY <1>1, <1>11, <1>12, <1>13 DEF CountInv

LEMMA TakeEntryLoses ==
  ASSUME WellTyped, WalkInOrder, LossInv, TakeEntry, phase' # "too_many_entries"
  PROVE  LossInv'
<1> DEFINE entry == FirstEntry(entries)
           path == directory \o <<entry.name>>
<1>1. /\ UNCHANGED <<fs, request, roots, scanning, mappingRoots, searchRoots>>
      /\ entries # {} /\ partial' = (partial \/ entry.kind = "untyped")
  BY DEF TakeEntry
<1>2. /\ \A r, d, e : Taken(r, d, e)' <=> Taken(r, d, e) \/ (r = scanning /\ d = directory /\ e = entry)
      /\ \A r, d : Reached(r, d)' <=> Reached(r, d)
  BY EntryTaken
<1>3. /\ entry \in fs.listing[directory] /\ directory \in DOMAIN fs.listing /\ scanning \in 1 .. scanning
      /\ Reached(scanning, directory)
  BY <1>1, EntryNext
<1> HIDE DEF entry
<1>4. OptionLost' <=> OptionLost
  BY <1>1 DEF OptionLost
<1>5. ASSUME NEW r, NEW d
      PROVE  Lost(r, d)' <=> Lost(r, d) \/ (r = scanning /\ d = directory /\ entry.kind = "untyped")
  BY <1>1, <1>2, <1>3 DEF Lost
<1>6. (\E r \in 1 .. scanning : \E d \in DOMAIN fs.listing : Reached(r, d)' /\ Lost(r, d)')
        <=> \/ \E r \in 1 .. scanning : \E d \in DOMAIN fs.listing : Reached(r, d) /\ Lost(r, d)
            \/ entry.kind = "untyped"
  BY <1>2, <1>3, <1>5
<1>7. partial' \in BOOLEAN /\ partial \in BOOLEAN
  BY <1>1 DEF WellTyped
<1> QED
  BY <1>1, <1>4, <1>6, <1>7 DEF LossInv

\* What the walk finds with an entry.
LEMMA EntryFound ==
  ASSUME WellTyped, WalkInOrder, TakeEntry, phase' # "too_many_entries",
         NEW entry, entry = FirstEntry(entries), NEW path, path = directory \o <<entry.name>>,
         NEW cad \in BOOLEAN, cad <=> entry.kind = "file" /\ entry.name \in CadNames
  PROVE  /\ \A r, p : FoundSoFar(r, p)' <=> FoundSoFar(r, p) \/ (r = scanning /\ cad /\ p = path)
         /\ \A p : RootsSoFar(p)' = IF cad /\ p = path THEN RootsSoFar(p) \cup {scanning} ELSE RootsSoFar(p)
<1>1. UNCHANGED <<fs, request, roots, scanning>> /\ entries # {}
  BY DEF TakeEntry
<1>2. \A r, d, e : Taken(r, d, e)' <=> Taken(r, d, e) \/ (r = scanning /\ d = directory /\ e = entry)
  BY EntryTaken
<1>3. entry \in fs.listing[directory] /\ directory \in DOMAIN fs.listing /\ scanning \in 1 .. scanning
  BY <1>1, EntryNext
<1>4. ASSUME NEW r, NEW p PROVE FoundSoFar(r, p)' <=> FoundSoFar(r, p) \/ (r = scanning /\ cad /\ p = path)
  <2>1. FoundSoFar(r, p)' <=> \E d \in DOMAIN fs.listing : \E e \in fs.listing[d] :
          Taken(r, d, e)' /\ e.kind = "file" /\ e.name \in CadNames /\ p = d \o <<e.name>>
    BY <1>1 DEF FoundSoFar
  <2>2. ASSUME FoundSoFar(r, p)' PROVE FoundSoFar(r, p) \/ (r = scanning /\ cad /\ p = path)
    BY <1>2, <2>1, <2>2 DEF FoundSoFar
  <2>3. ASSUME FoundSoFar(r, p) PROVE FoundSoFar(r, p)'
    BY <1>2, <2>1, <2>3 DEF FoundSoFar
  <2>4. ASSUME r = scanning, cad, p = path PROVE FoundSoFar(r, p)'
    BY <1>2, <1>3, <2>1, <2>4
  <2> QED
    BY <2>2, <2>3, <2>4
<1>5. ASSUME NEW p
      PROVE  RootsSoFar(p)' = IF cad /\ p = path THEN RootsSoFar(p) \cup {scanning} ELSE RootsSoFar(p)
  <2>1. RootsSoFar(p)' = {r \in 1 .. scanning : FoundSoFar(r, p)'}
    BY <1>1 DEF RootsSoFar
  <2> QED
    BY <1>3, <1>4, <2>1 DEF RootsSoFar
<1> QED
  BY <1>4, <1>5

LEMMA IndexedOnce ==
  ASSUME NEW path, NEW root
  PROVE  /\ AddIndexedFile(root, path) /\ IndexedAt(path) # {} =>
              /\ phase' = phase /\ DOMAIN files' = DOMAIN files
              /\ \A i \in DOMAIN files : /\ files[i].path = path => files'[i] = [files[i] EXCEPT !.members = @ \cup {root}]
                                         /\ files[i].path # path => files'[i] = files[i]
         /\ AddIndexedFile(root, path) /\ IndexedAt(path) = {} =>
              \/ phase' = "too_many_files" /\ files' = files
              \/ phase' = phase /\ files' = Append(files, [path |-> path, members |-> {root}])
         /\ IndexedAt(path) = {} <=> ~\E i \in DOMAIN files : files[i].path = path
<1>1. \A i \in DOMAIN files : i \in IndexedAt(path) <=> files[i].path = path
  BY DEF IndexedAt
<1>2. ASSUME AddIndexedFile(root, path), IndexedAt(path) # {}
      PROVE  /\ phase' = phase /\ DOMAIN files' = DOMAIN files
             /\ \A i \in DOMAIN files : /\ files[i].path = path => files'[i] = [files[i] EXCEPT !.members = @ \cup {root}]
                                        /\ files[i].path # path => files'[i] = files[i]
  <2>1. phase' = phase /\ files' = [i \in DOMAIN files |->
                      IF i \in IndexedAt(path)
                      THEN [files[i] EXCEPT !.members = @ \cup {root}] ELSE files[i]]
    BY <1>2 DEF AddIndexedFile
  <2> QED
    BY <1>1, <2>1
<1>3. ASSUME AddIndexedFile(root, path), IndexedAt(path) = {}
      PROVE  \/ phase' = "too_many_files" /\ files' = files
             \/ phase' = phase /\ files' = Append(files, [path |-> path, members |-> {root}])
  BY <1>3 DEF AddIndexedFile
<1>4. IndexedAt(path) = {} <=> ~\E i \in DOMAIN files : files[i].path = path
  BY DEF IndexedAt
<1> QED
  BY <1>2, <1>3, <1>4

\* A file added to the index keeps it typed.
LEMMA FilesTyped ==
  ASSUME files \in Seq(IndexedFile), NEW path \in Path, NEW root \in Nat, AddIndexedFile(root, path)
  PROVE  files' \in Seq(IndexedFile)
<1>2. DOMAIN files = 1 .. Len(files) /\ Len(files) \in Nat
  OBVIOUS
<1>3. CASE IndexedAt(path) # {}
  <2>1. files' = [i \in DOMAIN files |->
                      IF i \in IndexedAt(path)
                      THEN [files[i] EXCEPT !.members = @ \cup {root}] ELSE files[i]]
    BY <1>3 DEF AddIndexedFile
  <2>2. ASSUME NEW i \in DOMAIN files
        PROVE  (IF i \in IndexedAt(path) THEN [files[i] EXCEPT !.members = @ \cup {root}] ELSE files[i]) \in IndexedFile
    <3>1. files[i] \in IndexedFile
      OBVIOUS
    <3> QED
      BY <3>1 DEF IndexedFile
  <2>3. files' \in [1 .. Len(files) -> IndexedFile]
    BY <1>2, <2>1, <2>2
  <2> QED
    BY <1>2, <2>3
<1>4. CASE IndexedAt(path) = {}
  <2>1. [path |-> path, members |-> {root}] \in IndexedFile
    BY DEF IndexedFile
  <2>2. files' = files \/ files' = Append(files, [path |-> path, members |-> {root}])
    BY <1>4, IndexedOnce
  <2> QED
    BY <2>1, <2>2
<1> QED
  BY <1>3, <1>4

LEMMA TakeEntryIndexes ==
  ASSUME WellTyped, WalkInOrder, FilesInv, TakeEntry, phase = "walk", phase' = "walk"
  PROVE  FilesInv'
<1> DEFINE entry == FirstEntry(entries)
           path == directory \o <<entry.name>>
           cad == entry.kind = "file" /\ entry.name \in CadNames
<1>1. /\ UNCHANGED <<fs, request, roots, scanning, directory>> /\ entries # {}
      /\ IF cad THEN AddIndexedFile(scanning, path) ELSE UNCHANGED files
  BY DEF TakeEntry
<1>2. /\ \A r, p : FoundSoFar(r, p)' <=> FoundSoFar(r, p) \/ (r = scanning /\ cad /\ p = path)
      /\ \A p : RootsSoFar(p)' = IF cad /\ p = path THEN RootsSoFar(p) \cup {scanning} ELSE RootsSoFar(p)
  BY EntryFound
<1> HIDE DEF path, cad
<1>3. \A r, p : FoundSoFar(r, p) => r \in 1 .. scanning /\ p \in Found(roots[r])
  BY FoundIsFound
<1>4. /\ \A i, j \in DOMAIN files : files[i].path = files[j].path => i = j
      /\ \A r, p : FoundSoFar(r, p) => \E i \in DOMAIN files : files[i].path = p
      /\ \A i \in DOMAIN files : files[i].members = RootsSoFar(files[i].path) /\ RootsSoFar(files[i].path) # {}
  BY <1>1, <1>3 DEF FilesInv
<1> SUFFICES /\ \A i, j \in DOMAIN files' : files'[i].path = files'[j].path => i = j
             /\ \A r, p : FoundSoFar(r, p)' => \E i \in DOMAIN files' : files'[i].path = p
             /\ \A i \in DOMAIN files' : files'[i].members = RootsSoFar(files[i].path)' /\ RootsSoFar(files[i].path)' # {}
  BY <1>1 DEF FilesInv
<1>5. CASE ~cad
  BY <1>1, <1>2, <1>4, <1>5
<1>6. CASE cad /\ IndexedAt(path) # {}
  <2>1. /\ DOMAIN files' = DOMAIN files
        /\ \A i \in DOMAIN files : /\ files[i].path = path => files'[i] = [files[i] EXCEPT !.members = @ \cup {scanning}]
                                   /\ files[i].path # path => files'[i] = files[i]
    BY <1>1, <1>6, IndexedOnce
  <2>2. \A i \in DOMAIN files : files[i] \in IndexedFile
    BY DEF WellTyped
  <2>3. \A i \in DOMAIN files :
          /\ files'[i].path = files[i].path
          /\ files'[i].members = IF files[i].path = path THEN files[i].members \cup {scanning} ELSE files[i].members
    BY <2>1, <2>2 DEF IndexedFile
  <2>4. \E i \in DOMAIN files : files[i].path = path
    BY <1>6, IndexedOnce
  <2>5. \A i, j \in DOMAIN files' : files'[i].path = files'[j].path => i = j
    BY <1>4, <2>1, <2>3
  <2>6. ASSUME NEW r, NEW p, FoundSoFar(r, p)' PROVE \E i \in DOMAIN files' : files'[i].path = p
    <3>1. \E i \in DOMAIN files : files[i].path = p
      BY <1>2, <1>4, <2>4, <2>6
    <3> QED
      BY <2>1, <2>3, <3>1
  <2>7. ASSUME NEW i \in DOMAIN files'
        PROVE  files'[i].members = RootsSoFar(files[i].path)' /\ RootsSoFar(files[i].path)' # {}
    <3> DEFINE here == files[i].path
    <3>1. i \in DOMAIN files
      BY <2>1
    <3>2. files'[i].path = here
      BY <2>3, <3>1
    <3>3. \A p : p = here => RootsSoFar(files[i].path)' = IF p = path THEN RootsSoFar(p) \cup {scanning} ELSE RootsSoFar(p)
      <4> SUFFICES ASSUME NEW p, p = here
                   PROVE  RootsSoFar(files[i].path)' = IF p = path THEN RootsSoFar(p) \cup {scanning} ELSE RootsSoFar(p)
        OBVIOUS
      <4>1. RootsSoFar(files[i].path)' = RootsSoFar(p)'
        BY <3>2 DEF RootsSoFar, FoundSoFar
      <4> QED
        BY <1>2, <1>6, <4>1
    <3>4. RootsSoFar(files[i].path)' = IF here = path THEN RootsSoFar(here) \cup {scanning} ELSE RootsSoFar(here)
      <4> HIDE DEF here
      <4> QED
        BY <3>3
    <3> QED
      BY <1>4, <2>3, <3>1, <3>4
  <2> QED
    BY <2>5, <2>6, <2>7
<1>7. CASE cad /\ IndexedAt(path) = {}
  <2>1. files' = Append(files, [path |-> path, members |-> {scanning}])
    BY <1>1, <1>7, IndexedOnce
  <2>2. \A i \in DOMAIN files : files[i].path # path
    BY <1>7, IndexedOnce
  <2>3. files \in Seq(IndexedFile) /\ Len(files) \in Nat /\ DOMAIN files = 1 .. Len(files)
    BY DEF WellTyped
  <2> DEFINE last == Len(files) + 1
  <2>4. /\ DOMAIN files' = 1 .. last
        /\ \A i \in DOMAIN files : files'[i] = files[i]
        /\ files'[last].path = path /\ files'[last].members = {scanning}
        /\ last \in DOMAIN files'
    BY <2>1, <2>3
  <2>5. \A i \in DOMAIN files' : i \in DOMAIN files \/ i = last
    BY <2>3, <2>4
  <2>6. DOMAIN files \subseteq DOMAIN files'
    BY <2>3, <2>4
  <2> HIDE DEF last
  <2>7. \A i, j \in DOMAIN files' : files'[i].path = files'[j].path => i = j
    BY <1>4, <2>2, <2>4, <2>5
  <2>8. ASSUME NEW r, NEW p, FoundSoFar(r, p)' PROVE \E i \in DOMAIN files' : files'[i].path = p
    <3>1. CASE p = path
      BY <2>4, <3>1
    <3>2. CASE p # path
      <4>1. FoundSoFar(r, p)
        BY <1>2, <2>8, <3>2
      <4>2. PICK i \in DOMAIN files : files[i].path = p
        BY <1>4, <4>1
      <4> QED
        BY <2>4, <2>6, <4>2
    <3> QED
      BY <3>1, <3>2
  <2>9. RootsSoFar(path) = {}
    <3>1. \A r : ~FoundSoFar(r, path)
      BY <1>4, <2>2
    <3> QED
      BY <3>1 DEF RootsSoFar
  <2>10. ASSUME NEW i \in DOMAIN files'
         PROVE  files'[i].members = RootsSoFar(files[i].path)' /\ RootsSoFar(files[i].path)' # {}
    <3> DEFINE here == files'[i].path
    <3>1. \A p : p = here => RootsSoFar(files[i].path)' = IF p = path THEN RootsSoFar(p) \cup {scanning} ELSE RootsSoFar(p)
      <4> SUFFICES ASSUME NEW p, p = here
                   PROVE  RootsSoFar(files[i].path)' = IF p = path THEN RootsSoFar(p) \cup {scanning} ELSE RootsSoFar(p)
        OBVIOUS
      <4>1. RootsSoFar(files[i].path)' = RootsSoFar(p)'
        BY DEF RootsSoFar, FoundSoFar
      <4> QED
        BY <1>2, <1>7, <4>1
    <3>2. CASE i = last
      BY <2>4, <2>9, <3>1, <3>2
    <3>3. CASE i \in DOMAIN files
      BY <1>4, <2>2, <2>4, <3>1, <3>3
    <3> QED
      BY <2>5, <3>2, <3>3
  <2> QED
    BY <2>7, <2>8, <2>10
<1> QED
  BY <1>5, <1>6, <1>7

LEMMA TakeEntryKeeps == IndexInv /\ TakeEntry => IndexInv'
<1> SUFFICES ASSUME IndexInv, TakeEntry PROVE IndexInv'
  OBVIOUS
<1> DEFINE entry == FirstEntry(entries)
           path == directory \o <<entry.name>>
<1>0. WellTyped /\ OptionsTaken /\ WalkInOrder /\ FilesInv /\ LossInv /\ CountInv
  BY DEF IndexInv, TakeEntry, Walking
<1>1. /\ UNCHANGED <<fs, request, roots, mappingRoots, searchRoots, scanning, directory>>
      /\ phase = "walk" /\ entries # {}
      /\ entriesSeen' = entriesSeen + 1
  BY DEF TakeEntry
<1>2. directory \in Path /\ entry.name \in Names /\ scanning \in Nat
  BY <1>0, <1>1, EntryNext DEF WellTyped
<1>3. CASE entriesSeen + 1 > MaxProjectEntries
  <2>1. phase' = "too_many_entries" /\ files' = files /\ partial' = partial
    BY <1>3 DEF TakeEntry
  <2>2. WellTyped'
    BY <1>0, <1>1, <2>1 DEF WellTyped, Phases, Walking
  <2>3. OptionsTaken'
    BY <1>0, <1>1, <2>1 DEF OptionsTaken
  <2>4. \/ Cardinality(AllEntries) > MaxProjectEntries
        \/ \E r, s \in DOMAIN roots : r # s /\ IsPrefix(roots[r], roots[s])
    BY <1>0, <1>1, <1>3, RefusalIsHonest
  <2>5. AllEntries' = AllEntries /\ AllEntries = UNION {EntriesBelow(roots[r]) : r \in DOMAIN roots}
    BY <1>1 DEF AllEntries, EntriesBelow, WalkedDirectories, Walked
  <2>6. EntryLimitIsHonest'
    BY <1>1, <2>1, <2>4, <2>5 DEF EntryLimitIsHonest, AllEntries
  <2> QED
    BY <2>1, <2>2, <2>3, <2>6 DEF IndexInv, Walking
<1>4. CASE ~(entriesSeen + 1 > MaxProjectEntries)
  <2>1. /\ partial' = (partial \/ entry.kind = "untyped")
        /\ IF entry.kind = "file" /\ entry.name \in CadNames
           THEN AddIndexedFile(scanning, path) ELSE UNCHANGED <<files, phase>>
    BY <1>4 DEF TakeEntry
  <2>2. phase' \in {"walk", "too_many_files"}
    BY <1>1, <2>1 DEF AddIndexedFile
  <2>3. files' \in Seq(IndexedFile)
    <3>1. path \in Path
      BY <1>2, EntryPath
    <3>2. files \in Seq(IndexedFile)
      BY <1>0 DEF WellTyped
    <3> HIDE DEF path
    <3> QED
      BY <1>2, <2>1, <3>1, <3>2, FilesTyped
  <2>4. WellTyped'
    BY <1>0, <1>1, <2>1, <2>2, <2>3 DEF WellTyped, Phases, Walking
  <2>5. OptionsTaken'
    BY <1>0, <1>1, <2>2 DEF OptionsTaken
  <2>6. phase' = "walk" => FilesInv'
    BY <1>0, <1>1, TakeEntryIndexes
  <2>7. WalkInOrder' /\ LossInv' /\ CountInv'
    BY <1>0, <2>2, TakeEntryInOrder, TakeEntryLoses, TakeEntryCounts
  <2>8. EntryLimitIsHonest'
    BY <2>2 DEF EntryLimitIsHonest
  <2> QED
    BY <2>2, <2>4, <2>5, <2>6, <2>7, <2>8 DEF IndexInv, Walking
<1> QED
  BY <1>3, <1>4

-----------------------------------------------------------------------------
(***************************************************************************)
(* The end of the walk.                                                    *)
(***************************************************************************)
LEMMA AddRootDocumentKeeps == IndexInv /\ AddRootDocument => IndexInv'
<1> SUFFICES ASSUME IndexInv, AddRootDocument PROVE IndexInv'
  OBVIOUS
<1> DEFINE document == request.document
<1>0. WellTyped /\ OptionsTaken /\ WalkInOrder /\ FilesInv /\ LossInv /\ CountInv
  BY DEF IndexInv, AddRootDocument, Walking
<1>1. /\ UNCHANGED <<fs, request, roots, mappingRoots, searchRoots, scanning, pending, directory, entries, entriesSeen, partial>>
      /\ phase = "walk" /\ pending = {} /\ entries = {} /\ scanning = Len(roots)
      /\ document # NONE /\ IndexedAt(document) = {} /\ AddIndexedFile(1, document)
  BY DEF AddRootDocument
<1>2. \/ phase' = "too_many_files" /\ files' = files
      \/ phase' = phase /\ files' = Append(files, [path |-> document, members |-> {1}])
  BY <1>1, IndexedOnce
<1>3. document \in Path
  BY <1>0, <1>1 DEF WellTyped, Request
<1>4. files' \in Seq(IndexedFile)
  <2>1. files \in Seq(IndexedFile)
    BY <1>0 DEF WellTyped
  <2> QED
    BY <1>1, <1>3, <2>1, FilesTyped
<1>5. WellTyped'
  BY <1>0, <1>1, <1>2, <1>4 DEF WellTyped, Phases, Walking
<1>6. OptionsTaken'
  BY <1>0, <1>1, <1>2 DEF OptionsTaken
<1>7. EntryLimitIsHonest'
  BY <1>1, <1>2 DEF EntryLimitIsHonest
<1>8. CASE phase' = "too_many_files"
  BY <1>5, <1>6, <1>7, <1>8 DEF IndexInv, Walking
<1>9. CASE phase' = phase /\ files' = Append(files, [path |-> document, members |-> {1}])
  <2>1. WalkInOrder'
    BY <1>0, <1>1, <1>9 DEF WalkInOrder, WalkedDirectories, Walked
  <2>2. \A r, d, e : /\ Reached(r, d)' <=> Reached(r, d)
                     /\ Taken(r, d, e)' <=> Taken(r, d, e)
    BY <1>1 DEF Taken, Reached, Ahead, WalkedDirectories, Walked
  <2>3. /\ \A r, p : FoundSoFar(r, p)' <=> FoundSoFar(r, p)
        /\ \A p : RootsSoFar(p)' = RootsSoFar(p)
        /\ Counted' = Counted
    <3>1. scanning \in Nat /\ scanning' \in Nat /\ scanning <= scanning'
      BY <1>0, <1>1 DEF WellTyped
    <3> QED
      BY <1>1, <2>2, <3>1, NothingTaken
  <2>4. CountInv'
    BY <1>0, <1>1, <2>3 DEF CountInv, RootsApart
  <2>5. LossInv'
    BY <1>0, <1>1, <2>2 DEF LossInv, OptionLost, Lost
  <2>6. FilesInv'
    <3>1. \A i \in DOMAIN files : files[i].path # document
      BY <1>1, IndexedOnce
    <3>2. files \in Seq(IndexedFile) /\ Len(files) \in Nat /\ DOMAIN files = 1 .. Len(files)
      BY <1>0 DEF WellTyped
    <3> DEFINE last == Len(files) + 1
    <3>3. /\ DOMAIN files' = 1 .. last
          /\ \A i \in DOMAIN files : files'[i] = files[i]
          /\ files'[last].path = document /\ files'[last].members = {1}
          /\ last \in DOMAIN files'
      BY <1>9, <3>2
    <3>4. \A i \in DOMAIN files' : i \in DOMAIN files \/ i = last
      BY <3>2, <3>3
    <3>5. DOMAIN files \subseteq DOMAIN files'
      BY <3>2, <3>3
    <3> HIDE DEF last, document
    <3>6. \A r, p : FoundSoFar(r, p) => \E i \in DOMAIN files : files[i].path = p
      BY <1>0, FoundIsFound DEF FilesInv
    <3>7. RootsSoFar(document) = {}
      <4>1. \A r : ~FoundSoFar(r, document)
        BY <3>1, <3>6
      <4> QED
        BY <4>1 DEF RootsSoFar
    <3>8. \A i, j \in DOMAIN files' : files'[i].path = files'[j].path => i = j
      <4>1. \A i, j \in DOMAIN files : files[i].path = files[j].path => i = j
        BY <1>0 DEF FilesInv
      <4> QED
        BY <3>1, <3>3, <3>4, <4>1
    <3>9. ASSUME NEW r, NEW p, FoundSoFar(r, p)' PROVE \E i \in DOMAIN files' : files'[i].path = p
      <4>1. PICK i \in DOMAIN files : files[i].path = p
        BY <2>3, <3>6, <3>9
      <4> QED
        BY <3>3, <3>5, <4>1
    <3>10. ASSUME NEW i \in DOMAIN files'
           PROVE  LET met == RootsSoFar(files[i].path)'
                  IN /\ files'[i].members = IF met = {} THEN {1} ELSE met
                     /\ met = {} => files'[i].path = document
      <4> DEFINE here == files'[i].path
      <4>1. \A p : p = here => RootsSoFar(files[i].path)' = RootsSoFar(p)
        <5> SUFFICES ASSUME NEW p, p = here PROVE RootsSoFar(files[i].path)' = RootsSoFar(p)
          OBVIOUS
        <5>1. RootsSoFar(files[i].path)' = RootsSoFar(p)'
          BY DEF RootsSoFar, FoundSoFar
        <5> QED
          BY <2>3, <5>1
      <4>2. CASE i = last
        BY <3>3, <3>7, <4>1, <4>2
      <4>3. CASE i \in DOMAIN files
        <5>1. /\ files[i].members = IF RootsSoFar(files[i].path) = {} THEN {1} ELSE RootsSoFar(files[i].path)
              /\ RootsSoFar(files[i].path) = {} => files[i].path = document
          BY <1>0, <4>3 DEF FilesInv, document
        <5> QED
          BY <3>3, <4>1, <4>3, <5>1
      <4> QED
        BY <3>4, <4>2, <4>3
    <3>11. phase' # "indexed" /\ request'.document = document /\ document # NONE
      BY <1>1, <1>9 DEF document
    <3> QED
      BY <1>1, <3>8, <3>9, <3>10, <3>11 DEF FilesInv
  <2> QED
    BY <1>5, <1>6, <1>7, <2>1, <2>4, <2>5, <2>6 DEF IndexInv
<1> QED
  BY <1>2, <1>8, <1>9

\* When nothing is ahead any more, the walks have taken the whole tree.
LEMMA WalkedThrough ==
  ASSUME WellTyped, pending = {}, entries = {}, scanning = Len(roots)
  PROVE  /\ 1 .. scanning = DOMAIN roots
         /\ \A r, d : Reached(r, d) <=> r \in DOMAIN roots /\ d \in WalkedDirectories(roots[r])
         /\ \A r, path : FoundSoFar(r, path) <=> r \in DOMAIN roots /\ path \in Found(roots[r])
         /\ Counted = AllEntries
<1>1. 1 .. scanning = DOMAIN roots
  BY DEF WellTyped
<1>2. ASSUME NEW r, NEW d PROVE Reached(r, d) <=> r \in DOMAIN roots /\ d \in WalkedDirectories(roots[r])
  BY <1>1 DEF Reached, Ahead
<1>3. ASSUME NEW r, NEW d, NEW e
      PROVE  Taken(r, d, e) <=> /\ r \in DOMAIN roots /\ d \in WalkedDirectories(roots[r]) \ fs.closed
                                /\ e \in fs.listing[d] /\ e.kind # "unreadable"
  BY <1>2 DEF Taken
<1>4. ASSUME NEW r, NEW path PROVE FoundSoFar(r, path) <=> r \in DOMAIN roots /\ path \in Found(roots[r])
  <2>1. ASSUME r \in DOMAIN roots, path \in Found(roots[r]) PROVE FoundSoFar(r, path)
    <3>1. PICK d \in WalkedDirectories(roots[r]) \ fs.closed : \E e \in fs.listing[d] :
             e.kind = "file" /\ e.name \in CadNames /\ path = d \o <<e.name>>
      BY ZenonT(30), <2>1, IsFound
    <3>2. PICK e \in fs.listing[d] : e.kind = "file" /\ e.name \in CadNames /\ path = d \o <<e.name>>
      BY <3>1
    <3>3. d \in DOMAIN fs.listing
      BY WalkedListed
    <3>4. Taken(r, d, e)
      BY <1>3, <2>1, <3>2
    <3> QED
      BY <3>2, <3>3, <3>4 DEF FoundSoFar
  <2> QED
    BY <1>1, <2>1, FoundIsFound
<1>5. ASSUME NEW path \in AllEntries PROVE path \in Counted
  <2>1. PICK r \in DOMAIN roots : path \in EntriesBelow(roots[r])
    BY DEF AllEntries
  <2>2. PICK d \in WalkedDirectories(roots[r]) \ fs.closed : \E e \in fs.listing[d] :
          e.kind # "unreadable" /\ path = d \o <<e.name>>
    BY <2>1, IsBelow
  <2>3. PICK e \in fs.listing[d] : e.kind # "unreadable" /\ path = d \o <<e.name>>
    BY <2>2
  <2>4. Taken(r, d, e) /\ d \in DOMAIN fs.listing /\ r \in 1 .. scanning
    BY <1>1, <1>3, <2>3, WalkedListed
  <2> QED
    BY <2>3, <2>4 DEF Counted
<1>6. Counted \subseteq AllEntries
  BY DEF Counted
<1> QED
  BY <1>1, <1>2, <1>4, <1>5, <1>6

LEMMA FinishIndexKeeps == IndexInv /\ FinishIndex => IndexInv'
<1> SUFFICES ASSUME IndexInv, FinishIndex PROVE IndexInv'
  OBVIOUS
<1>0. WellTyped /\ OptionsTaken /\ WalkInOrder /\ FilesInv /\ LossInv /\ CountInv
  BY DEF IndexInv, FinishIndex, Walking
<1>1. /\ UNCHANGED <<fs, request, roots, mappingRoots, searchRoots, files, scanning, pending, directory, entries, entriesSeen, partial>>
      /\ pending = {} /\ entries = {} /\ scanning = Len(roots) /\ phase = "walk" /\ phase' = "indexed"
      /\ request.document # NONE => IndexedAt(request.document) # {}
  BY DEF FinishIndex
<1>2. WellTyped'
  BY <1>0, <1>1 DEF WellTyped, Phases, Walking
<1>3. OptionsTaken'
  BY <1>0, <1>1 DEF OptionsTaken
<1>4. WalkInOrder'
  BY <1>0, <1>1 DEF WalkInOrder, WalkedDirectories, Walked
<1>5. \A r, d, e : /\ Reached(r, d)' <=> Reached(r, d)
                   /\ Taken(r, d, e)' <=> Taken(r, d, e)
  BY <1>1 DEF Taken, Reached, Ahead, WalkedDirectories, Walked
<1>6. /\ \A r, p : FoundSoFar(r, p)' <=> FoundSoFar(r, p)
      /\ \A p : RootsSoFar(p)' = RootsSoFar(p)
      /\ Counted' = Counted
  <2>1. scanning \in Nat /\ scanning' \in Nat /\ scanning <= scanning'
    BY <1>0, <1>1 DEF WellTyped
  <2> QED
    BY <1>1, <1>5, <2>1, NothingTaken
<1>7. CountInv'
  BY <1>0, <1>1, <1>6 DEF CountInv, RootsApart
<1>8. LossInv'
  BY <1>0, <1>1, <1>5 DEF LossInv, OptionLost, Lost
<1>9. FilesInv'
  <2>1. request.document # NONE => \E i \in DOMAIN files : files[i].path = request.document
    BY <1>1, IndexedOnce
  <2>2. \A r : Found(roots[r])' = Found(roots[r])
    BY <1>1 DEF Found, WalkedDirectories, Walked
  <2>3. \A r \in 1 .. scanning : \A path \in Found(roots[r]) :
          FoundSoFar(r, path)' => \E i \in DOMAIN files : files[i].path = path
    BY <1>0, <1>6 DEF FilesInv
  <2>4. ASSUME NEW i \in DOMAIN files
        PROVE  LET met == RootsSoFar(files[i].path)'
               IN /\ files[i].members = IF met = {} THEN {1} ELSE met
                  /\ met = {} => request.document # NONE /\ files[i].path = request.document
    <3>1. RootsSoFar(files[i].path)' = RootsSoFar(files[i].path)
      <4> DEFINE here == files[i].path
      <4>1. \A p : p = here => RootsSoFar(files[i].path)' = RootsSoFar(p)
        <5> SUFFICES ASSUME NEW p, p = here PROVE RootsSoFar(files[i].path)' = RootsSoFar(p)
          OBVIOUS
        <5>1. RootsSoFar(files[i].path)' = RootsSoFar(p)'
          BY <1>1 DEF RootsSoFar, FoundSoFar
        <5> QED
          BY <1>6, <5>1
      <4> HIDE DEF here
      <4>2. RootsSoFar(files[i].path)' = RootsSoFar(here)
        BY <4>1
      <4> QED
        BY <4>2 DEF here
    <3> QED
      BY <1>0, <3>1 DEF FilesInv
  <2>5. \A i, j \in DOMAIN files : files[i].path = files[j].path => i = j
    BY <1>0 DEF FilesInv
  <2>6. \A r \in 1 .. scanning' : \A path \in Found(roots[r])' :
          FoundSoFar(r, path)' => \E i \in DOMAIN files' : files'[i].path = path
    BY <1>1, <2>2, <2>3
  <2>7. \A i \in DOMAIN files' :
          LET met == RootsSoFar(files[i].path)'
          IN /\ files'[i].members = IF met = {} THEN {1} ELSE met
             /\ met = {} => /\ request'.document # NONE /\ files'[i].path = request'.document
                            /\ pending' = {} /\ entries' = {} /\ scanning' = Len(roots')
    <3> SUFFICES ASSUME NEW i \in DOMAIN files'
                 PROVE  LET met == RootsSoFar(files[i].path)'
                        IN /\ files'[i].members = IF met = {} THEN {1} ELSE met
                           /\ met = {} => /\ request'.document # NONE /\ files'[i].path = request'.document
                                          /\ pending' = {} /\ entries' = {} /\ scanning' = Len(roots')
      OBVIOUS
    <3> DEFINE met == RootsSoFar(files[i].path)'
    <3>1. /\ files[i].members = IF met = {} THEN {1} ELSE met
          /\ met = {} => request.document # NONE /\ files[i].path = request.document
      BY <1>1, <2>4
    <3> HIDE DEF met
    <3>2. /\ files'[i].members = IF met = {} THEN {1} ELSE met
          /\ met = {} => /\ request'.document # NONE /\ files'[i].path = request'.document
                         /\ pending' = {} /\ entries' = {} /\ scanning' = Len(roots')
      BY <1>1, <3>1
    <3> QED
      BY <3>2 DEF met
  <2>8. \A i, j \in DOMAIN files' : files'[i].path = files'[j].path => i = j
    BY <1>1, <2>5
  <2>9. request'.document # NONE => \E i \in DOMAIN files' : files'[i].path = request'.document
    BY <1>1, <2>1
  <2> QED
    BY <2>6, <2>7, <2>8, <2>9 DEF FilesInv
<1>10. EntryLimitIsHonest'
  <2>1. Counted = AllEntries
    BY <1>0, <1>1, WalkedThrough
  <2>2. Cardinality(AllEntries) <= MaxProjectEntries
    <3>1. Cardinality(Counted) \in Nat /\ entriesSeen \in Nat
      BY <1>0, CountedFinite DEF WellTyped
    <3> QED
      BY <1>0, <2>1, <3>1, IndexLimitAssumption DEF CountInv
  <2>3. AllEntries' = AllEntries
    BY <1>1 DEF AllEntries, EntriesBelow, WalkedDirectories, Walked
  <2> QED
    BY <1>1, <2>2, <2>3 DEF EntryLimitIsHonest, AllEntries
<1> QED
  BY <1>2, <1>3, <1>4, <1>7, <1>8, <1>9, <1>10 DEF IndexInv

-----------------------------------------------------------------------------
(***************************************************************************)
(* Every step of an index and of the answers given on it.                  *)
(***************************************************************************)
LEMMA AnswersStay ==
  ASSUME UNCHANGED vars, NEW source, NEW stored
  PROVE  Resolve(source, stored)' = Resolve(source, stored)
<1>1. UNCHANGED <<files, roots, mappingRoots, searchRoots, request>>
  BY DEF vars
<1>2. Selected(source, stored)' = Selected(source, stored)
  BY <1>1 DEF Selected, LookupHost, LookupRootBasename, MappingCandidates, Longest, Fitting,
              SearchRelativeCandidates, SearchBasenameCandidates, SearchRoots
<1> DEFINE Deciding(selected) == {i \in 1 .. Len(RuleOrder) : selected[RuleOrder[i]] # {}}
           From(selected) ==
             LET deciding == IF Deciding(selected) # {} THEN Min(Deciding(selected)) ELSE 0
             IN IF deciding = 0 THEN Unanswered("missing")
                ELSE Classify(RuleOrder[deciding], selected[RuleOrder[deciding]])
<1>3. Resolve(source, stored) = IF stored = NONE THEN Unanswered("no_stored_path")
                                ELSE From(Selected(source, stored))
  BY DEF Resolve, SelectInSeq
<1>4. Resolve(source, stored)' = IF stored = NONE THEN Unanswered("no_stored_path")
                                 ELSE From(Selected(source, stored)')
  BY DEF Resolve, SelectInSeq
<1> HIDE DEF From
<1> QED
  BY <1>2, <1>3, <1>4

LEMMA IndexStays == IndexInv /\ UNCHANGED vars => IndexInv'
<1> SUFFICES ASSUME IndexInv, UNCHANGED vars PROVE IndexInv'
  OBVIOUS
<1>1. UNCHANGED <<fs, request, phase, roots, mappingRoots, searchRoots, files, scanning,
                  pending, directory, entries, entriesSeen, partial>>
  BY DEF vars
<1>2. \A r, d : Reached(r, d)' <=> Reached(r, d)
  BY <1>1 DEF Reached, Ahead, WalkedDirectories, Walked
<1>3. \A r, d, e : Taken(r, d, e)' <=> Taken(r, d, e)
  BY <1>1, <1>2 DEF Taken
<1>4. WellTyped'
  BY <1>1 DEF IndexInv, WellTyped, Walking
<1>5. OptionsTaken' /\ (OptionLost' <=> OptionLost)
  BY <1>1 DEF IndexInv, OptionsTaken, OptionLost
<1>6. EntryLimitIsHonest'
  BY <1>1 DEF IndexInv, EntryLimitIsHonest, EntriesBelow, WalkedDirectories, Walked
<1>7. ASSUME Walking PROVE WalkInOrder' /\ FilesInv' /\ LossInv' /\ CountInv'
  <2>0. WellTyped /\ WalkInOrder /\ FilesInv /\ LossInv /\ CountInv
    BY <1>7 DEF IndexInv
  <2>1. WalkInOrder'
    BY <1>1, <2>0 DEF WalkInOrder, WalkedDirectories, Walked
  <2>2. LossInv'
    <3>1. \A r, d : Lost(r, d)' <=> Lost(r, d)
      BY <1>1, <1>3 DEF Lost
    <3> QED
      BY <1>1, <1>2, <1>5, <3>1, <2>0 DEF LossInv
  <2>3. /\ \A r, path : FoundSoFar(r, path)' <=> FoundSoFar(r, path)
        /\ \A path : RootsSoFar(path)' = RootsSoFar(path)
        /\ Counted' = Counted
    <3>1. scanning \in Nat /\ scanning' \in Nat /\ scanning <= scanning'
      BY <1>1, <2>0 DEF WellTyped
    <3> QED
      BY <1>1, <1>3, <3>1, NothingTaken
  <2>4. FilesInv'
    <3>1. \A root : Found(root)' = Found(root)
      BY <1>1 DEF Found, WalkedDirectories, Walked
    <3>2. \A i \in DOMAIN files : RootsSoFar(files[i].path)' = RootsSoFar(files[i].path)
      <4> SUFFICES ASSUME NEW i \in DOMAIN files PROVE RootsSoFar(files[i].path)' = RootsSoFar(files[i].path)
        OBVIOUS
      <4> DEFINE here == files[i].path
      <4>1. \A p : p = here => RootsSoFar(files[i].path)' = RootsSoFar(p)
        BY <1>1, <2>3
      <4> QED
        BY <4>1
    <3> QED
      BY <1>1, <2>0, <2>3, <3>1, <3>2 DEF FilesInv
  <2>5. CountInv'
    BY <1>1, <2>0, <2>3 DEF CountInv, RootsApart
  <2> QED
    BY <2>1, <2>2, <2>4, <2>5
<1>8. Walking' <=> Walking
  BY <1>1 DEF Walking
<1> QED
  BY <1>4, <1>5, <1>6, <1>7, <1>8 DEF IndexInv

LEMMA BuildingKeeps == IndexInv /\ Next => IndexInv'
  BY BeginKeeps, TakeMappingKeeps, TakeSearchDirectoryKeeps, EnterRootKeeps, ReadDirectoryKeeps,
     TakeEntryKeeps, AddRootDocumentKeeps, FinishIndexKeeps DEF Next

LEMMA StepKeeps == Inv /\ [ResolutionNext]_<<vars, answer>> => Inv'
<1> SUFFICES ASSUME Inv, [ResolutionNext]_<<vars, answer>> PROVE Inv'
  OBVIOUS
<1>0. IndexInv /\ AnswerInv
  BY DEF Inv
<1>1. CASE BuildIndex
  <2>1. IndexInv' /\ answer' = answer
    BY <1>0, <1>1, BuildingKeeps DEF BuildIndex
  <2>2. phase # "indexed"
    BY <1>1 DEF BuildIndex, Next, Begin, TakeMapping, TakeSearchDirectory, EnterRoot, ReadDirectory,
                TakeEntry, AddRootDocument, FinishIndex
  <2>3. answer = NONE
    BY <1>0, <2>2 DEF AnswerInv
  <2> QED
    BY <2>1, <2>3 DEF Inv, AnswerInv
<1>2. ASSUME NEW source \in DOMAIN files, NEW stored \in StoredPaths, ResolveReference(source, stored)
      PROVE  Inv'
  <2>1. /\ UNCHANGED vars /\ phase = "indexed"
        /\ answer' = [source |-> source, stored |-> stored, result |-> Resolve(source, stored)]
    BY <1>2 DEF ResolveReference
  <2>2. IndexInv'
    BY <1>0, <2>1, IndexStays
  <2>3. UNCHANGED <<phase, files>>
    BY <2>1 DEF vars
  <2>4. Resolve(source, stored)' = Resolve(source, stored)
    BY <2>1, AnswersStay
  <2>5. answer'.source = source /\ answer'.stored = stored /\ answer'.result = Resolve(source, stored)
    BY <2>1
  <2>6. \A s, t : s = source /\ t = stored => Resolve(s, t)' = Resolve(source, stored)
    BY <2>4
  <2>7. Resolve(answer.source, answer.stored)' = answer'.result
    BY <2>5, <2>6
  <2> QED
    BY <2>1, <2>2, <2>3, <2>5, <2>7 DEF Inv, AnswerInv
<1>3. CASE UNCHANGED <<vars, answer>>
  <2>1. UNCHANGED vars /\ answer' = answer
    BY <1>3
  <2>2. IndexInv'
    BY <1>0, <2>1, IndexStays
  <2>3. UNCHANGED <<phase, files>>
    BY <2>1 DEF vars
  <2>4. Resolve(answer.source, answer.stored)' = Resolve(answer.source, answer.stored)
    <3> DEFINE source == answer.source
               stored == answer.stored
    <3>1. \A s, t : Resolve(s, t)' = Resolve(s, t)
      BY <2>1, AnswersStay
    <3>2. answer'.source = source /\ answer'.stored = stored
      BY <2>1
    <3> QED
      BY <3>1, <3>2
  <2> QED
    BY <1>0, <2>1, <2>2, <2>3, <2>4 DEF Inv, AnswerInv
<1> QED
  BY <1>1, <1>2, <1>3 DEF ResolutionNext

\* The index never strays from the tree it has walked so far, and an answer
\* is the answer of the finished index (build_index, resolve).
THEOREM IndexFollowsTheWalk == ResolutionSpec => []Inv
<1> QED
  BY InitTyped, StepKeeps, PTL DEF ResolutionSpec

-----------------------------------------------------------------------------
(***************************************************************************)
(* What a finished index is.                                               *)
(***************************************************************************)
LEMMA FinishedIndex ==
  ASSUME Inv, phase = "indexed"
  PROVE  /\ WellTyped /\ OptionsTaken /\ FilesInv /\ LossInv
         /\ 1 .. scanning = DOMAIN roots
         /\ \A r, d : Reached(r, d) <=> r \in DOMAIN roots /\ d \in WalkedDirectories(roots[r])
         /\ \A r, path : FoundSoFar(r, path) <=> r \in DOMAIN roots /\ path \in Found(roots[r])
         /\ entries = {}
<1>1. WellTyped /\ OptionsTaken /\ WalkInOrder /\ FilesInv /\ LossInv
  BY DEF Inv, IndexInv, Walking
<1>2. pending = {} /\ entries = {} /\ scanning = Len(roots)
  BY <1>1 DEF WalkInOrder
<1> QED
  BY <1>1, <1>2, WalkedThrough

LEMMA TreeIndexed == Inv => IndexIsTheTree
<1> SUFFICES ASSUME Inv, phase = "indexed"
             PROVE  /\ \A i, j \in DOMAIN files : files[i].path = files[j].path => i = j
                    /\ {files[i].path : i \in DOMAIN files} =
                         (UNION {Found(roots[r]) : r \in DOMAIN roots})
                         \cup (IF request.document = NONE THEN {} ELSE {request.document})
                    /\ \A i \in DOMAIN files :
                         files[i].members = IF RootIds(files[i].path) = {} THEN {1} ELSE RootIds(files[i].path)
  BY DEF IndexIsTheTree
<1>1. /\ FilesInv /\ 1 .. scanning = DOMAIN roots
      /\ \A r, path : FoundSoFar(r, path) <=> r \in DOMAIN roots /\ path \in Found(roots[r])
  BY FinishedIndex
<1>2. \A path : RootsSoFar(path) = RootIds(path)
  BY <1>1 DEF RootsSoFar, RootIds
<1>3. \A i, j \in DOMAIN files : files[i].path = files[j].path => i = j
  BY <1>1 DEF FilesInv
<1>4. \A i \in DOMAIN files :
        files[i].members = IF RootIds(files[i].path) = {} THEN {1} ELSE RootIds(files[i].path)
  BY <1>1, <1>2 DEF FilesInv
<1> DEFINE Reachable == (UNION {Found(roots[r]) : r \in DOMAIN roots})
           Asked == IF request.document = NONE THEN {} ELSE {request.document}
<1>5. ASSUME NEW i \in DOMAIN files PROVE files[i].path \in Reachable \cup Asked
  <2>1. CASE RootIds(files[i].path) = {}
    BY <1>1, <1>2, <2>1 DEF FilesInv
  <2>2. CASE RootIds(files[i].path) # {}
    BY <2>2 DEF RootIds
  <2> QED
    BY <2>1, <2>2
<1>6. ASSUME NEW path \in Reachable PROVE \E i \in DOMAIN files : files[i].path = path
  <2>1. PICK r \in DOMAIN roots : path \in Found(roots[r])
    OBVIOUS
  <2>2. FoundSoFar(r, path) /\ r \in 1 .. scanning
    BY <1>1, <2>1
  <2> QED
    BY <1>1, <2>1, <2>2 DEF FilesInv
<1>7. ASSUME NEW path \in Asked PROVE \E i \in DOMAIN files : files[i].path = path
  BY <1>1 DEF FilesInv
<1>8. {files[i].path : i \in DOMAIN files} = Reachable \cup Asked
  <2> HIDE DEF Reachable, Asked
  <2> QED
    BY <1>5, <1>6, <1>7
<1> QED
  BY <1>3, <1>4, <1>8

LEMMA LossSeen == Inv => LossIsAnnounced
<1> SUFFICES ASSUME Inv, phase = "indexed"
             PROVE  partial <=> \/ \E m \in DOMAIN mappingRoots : mappingRoots[m] = NONE
                                \/ \E s \in DOMAIN searchRoots : searchRoots[s] = NONE
                                \/ \E r \in DOMAIN roots : \E d \in WalkedDirectories(roots[r]) :
                                     \/ d \in fs.closed
                                     \/ \E e \in fs.listing[d] : e.kind \in {"untyped", "unreadable"}
  BY DEF LossIsAnnounced
<1>1. /\ LossInv /\ 1 .. scanning = DOMAIN roots /\ entries = {}
      /\ \A r, d : Reached(r, d) <=> r \in DOMAIN roots /\ d \in WalkedDirectories(roots[r])
  BY FinishedIndex
<1> DEFINE Missing(d) == d \in fs.closed \/ \E e \in fs.listing[d] : e.kind \in {"untyped", "unreadable"}
<1>2. ASSUME NEW r, NEW d, Reached(r, d) PROVE Lost(r, d) <=> Missing(d)
  <2>1. ASSUME d \notin fs.closed, NEW e \in fs.listing[d], e.kind = "untyped" PROVE Taken(r, d, e)
    BY <1>1, <1>2, <2>1 DEF Taken
  <2> QED
    BY <2>1 DEF Lost
<1> HIDE DEF Missing
<1>3. (\E r \in 1 .. scanning : \E d \in DOMAIN fs.listing : Reached(r, d) /\ Lost(r, d))
        <=> \E r \in DOMAIN roots : \E d \in WalkedDirectories(roots[r]) : Missing(d)
  BY <1>1, <1>2, WalkedListed
<1>4. partial <=> OptionLost \/ \E r \in DOMAIN roots : \E d \in WalkedDirectories(roots[r]) : Missing(d)
  BY <1>1, <1>3 DEF LossInv
<1> QED
  BY <1>4 DEF Missing, OptionLost

\* A finished index holds each CAD file below its roots once, with exactly the
\* roots that reach it, and besides them only the root document
\* (scan_index_root, add_indexed_file).
THEOREM IndexIsWhole == ResolutionSpec => []IndexIsTheTree
<1> QED
  BY IndexFollowsTheWalk, TreeIndexed, PTL

\* An index is partial exactly when an option or something below a root was
\* lost (build_index, scan_index_root).
THEOREM LossIsSeen == ResolutionSpec => []LossIsAnnounced
<1> QED
  BY IndexFollowsTheWalk, LossSeen, PTL

\* The entry limit refuses a project of few entries only for overlapping
\* roots, and accepts none of more entries than the limit (scan_index_root).
THEOREM EntryLimitRefusesForAReason == ResolutionSpec => []EntryLimitIsHonest
<1>1. Inv => EntryLimitIsHonest
  BY DEF Inv, IndexInv
<1> QED
  BY <1>1, IndexFollowsTheWalk, PTL

-----------------------------------------------------------------------------
(***************************************************************************)
(* What an answer is.                                                      *)
(***************************************************************************)
LEMMA RulesAre ==
  /\ Len(RuleOrder) = 8 /\ DOMAIN RuleOrder = 1 .. 8
  /\ RuleOrder[1] = "document_relative" /\ RuleOrder[2] = "project_root_relative"
  /\ RuleOrder[3] = "host_absolute" /\ RuleOrder[4] = "windows_prefix_mapping"
  /\ RuleOrder[5] = "search_directory_relative" /\ RuleOrder[6] = "document_basename"
  /\ RuleOrder[7] = "project_root_basename" /\ RuleOrder[8] = "search_directory_basename"
  BY DEF RuleOrder

\* The first rule that selects anything decides.
LEMMA FirstRuleDecides ==
  ASSUME NEW source, NEW stored, stored # NONE
  PROVE  LET selected == Selected(source, stored)
             result == Resolve(source, stored)
         IN \/ result = Unanswered("missing")
            \/ \E k \in 1 .. 8 :
                 /\ result = Classify(RuleOrder[k], selected[RuleOrder[k]])
                 /\ \A j \in 1 .. 8 : j < k => selected[RuleOrder[j]] = {}
<1> DEFINE selected == Selected(source, stored)
           deciding == {i \in 1 .. Len(RuleOrder) : selected[RuleOrder[i]] # {}}
           first == CHOOSE x \in deciding : \A y \in deciding : x <= y
<1>1. Resolve(source, stored) =
        LET at == IF deciding # {} THEN first ELSE 0
        IN IF at = 0 THEN Unanswered("missing")
           ELSE Classify(RuleOrder[at], selected[RuleOrder[at]])
  BY DEF Resolve, SelectInSeq, Min
<1>2. deciding \in SUBSET Nat /\ deciding \subseteq 1 .. 8 /\ \A i \in 1 .. 8 : i \in deciding <=> selected[RuleOrder[i]] # {}
  BY RulesAre
<1> HIDE DEF selected, deciding
<1>3. CASE deciding = {}
  BY <1>1, <1>3
<1>4. CASE deciding # {}
  <2>1. \E x \in deciding : \A y \in deciding : x <= y
    BY <1>2, <1>4, LeastIs
  <2>2. first \in deciding /\ \A y \in deciding : first <= y
    BY <2>1
  <2> HIDE DEF first
  <2>3. first \in 1 .. 8 /\ \A j \in 1 .. 8 : j < first => selected[RuleOrder[j]] = {}
    BY <1>2, <2>2
  <2>4. Resolve(source, stored) = Classify(RuleOrder[first], selected[RuleOrder[first]])
    BY <1>1, <1>4, <2>3
  <2> QED
    BY <2>3, <2>4 DEF selected
<1> QED
  BY <1>3, <1>4

LEMMA AnsweredByRule ==
  ASSUME NEW source, NEW stored, NEW result, result = Resolve(source, stored), result.basis # NONE
  PROVE  \E k \in 1 .. 8 :
           /\ result.basis = RuleOrder[k] /\ result.candidates = Selected(source, stored)[RuleOrder[k]]
           /\ \A j \in 1 .. 8 : j < k => Selected(source, stored)[RuleOrder[j]] = {}
<1>1. stored # NONE
  BY DEF Resolve, Unanswered
<1>2. result # Unanswered("missing")
  BY DEF Unanswered
<1> QED
  BY <1>1, <1>2, FirstRuleDecides DEF Classify

LEMMA NameComesLast ==
  ASSUME NEW source, NEW stored, NEW result, result = Resolve(source, stored), result.basis \in ByName
  PROVE  /\ \A place \in NamedPlaces(source, stored) : LookupHost(place) = {}
         /\ stored.form = "windows" => MappingCandidates(stored.parts) = {}
<1> DEFINE selected == Selected(source, stored)
<1>1. result.basis # NONE
  BY BasisAssumption, RulesAre DEF ByName
<1>2. PICK k \in 1 .. 8 : result.basis = RuleOrder[k] /\ \A j \in 1 .. 8 : j < k => selected[RuleOrder[j]] = {}
  BY <1>1, AnsweredByRule
<1>3. k \notin 1 .. 5
  BY <1>2, RulesAre DEF ByName
<1>4. \A j \in 1 .. 5 : selected[RuleOrder[j]] = {}
  BY <1>2, <1>3
<1>5. /\ selected.document_relative = {} /\ selected.project_root_relative = {}
      /\ selected.host_absolute = {} /\ selected.windows_prefix_mapping = {}
      /\ selected.search_directory_relative = {}
  BY <1>4, RulesAre
<1> DEFINE at(base) == Join(base, stored.parts)
<1>6. /\ stored.form = "relative" =>
           LookupHost(at(Front(files[source].path))) = {} /\ LookupHost(at(roots[1])) = {}
      /\ stored.form = "host" => LookupHost(at(<<>>)) = {}
      /\ stored.form = "windows" => MappingCandidates(stored.parts) = {}
      /\ SearchRelativeCandidates(stored.parts) = {}
  BY <1>5 DEF Selected
<1>7. ASSUME NEW r \in SearchRoots PROVE LookupHost(at(roots[r])) = {}
  BY <1>6 DEF SearchRelativeCandidates
<1> HIDE DEF at
<1>8. ASSUME NEW place \in NamedPlaces(source, stored) PROVE LookupHost(place) = {}
  <2>1. \/ stored.form = "relative" /\ place \in {at(Front(files[source].path)), at(roots[1])}
        \/ stored.form = "host" /\ place = at(<<>>)
        \/ \E r \in SearchRoots : place = at(roots[r])
    BY DEF NamedPlaces, at
  <2> QED
    BY <1>6, <1>7, <2>1
<1> QED
  BY <1>6, <1>8

\* A file that only shares its name with the stored path is taken only when
\* nothing lies at any place the path names (resolve).
THEOREM NameIsTheLastResort == ResolutionSpec => []NameIsLastResort
<1>1. Inv => NameIsLastResort
  BY NameComesLast DEF Inv, AnswerInv, NameIsLastResort
<1> QED
  BY <1>1, IndexFollowsTheWalk, PTL

-----------------------------------------------------------------------------
(***************************************************************************)
(* What a stored path names, and the names a reference may mean.           *)
(***************************************************************************)
PathPart == Names \cup {Up}

LEMMA PartsLeft ==
  ASSUME NEW parts \in Seq(PathPart)
  PROVE  /\ Undriven(parts) \in Seq(PathPart)
         /\ Undriven(parts) # <<>> => parts # <<>> /\ Last(Undriven(parts)) = Last(parts)
<1>1. CASE ~(parts # <<>> /\ parts[1] \in Drives)
  BY <1>1 DEF Undriven
<1>2. CASE parts # <<>> /\ parts[1] \in Drives
  <2> DEFINE t == Tail(parts)
  <2>1. Undriven(parts) = t
    BY <1>2 DEF Undriven
  <2>2. t \in Seq(PathPart) /\ Len(t) = Len(parts) - 1 /\ Len(parts) \in Nat
        /\ \A i \in 1 .. Len(t) : t[i] = parts[i + 1]
    BY <1>2
  <2> HIDE DEF t
  <2>3. ASSUME t # <<>> PROVE Last(t) = Last(parts)
    <3>1. Len(t) \in 1 .. Len(t)
      BY <2>2, <2>3
    <3> QED
      BY <2>2, <3>1 DEF Last
  <2> QED
    BY <1>2, <2>1, <2>2, <2>3
<1> QED
  BY <1>1, <1>2

\* One component of a stored path, on the path so far.
Taking(path, part) ==
  IF part # Up THEN Append(path, part) ELSE IF path = <<>> THEN <<>> ELSE Front(path)

LEMMA TakingIs ==
  ASSUME NEW path \in Path, NEW part \in PathPart
  PROVE  /\ Taking(path, part) \in Path
         /\ part # Up => Taking(path, part) # <<>> /\ Last(Taking(path, part)) = part
<1>1. CASE part # Up
  <2>1. part \in Names
    BY <1>1 DEF PathPart
  <2> DEFINE t == Append(path, part)
  <2>2. t \in Seq(Names) /\ Len(t) = Len(path) + 1 /\ t[Len(path) + 1] = part /\ Len(path) \in Nat
    BY <2>1 DEF Path
  <2> HIDE DEF t
  <2>3. t # <<>> /\ Last(t) = part
    BY <2>2 DEF Last
  <2>4. Taking(path, part) = t
    BY <1>1 DEF Taking, t
  <2> QED
    BY <2>2, <2>3, <2>4 DEF Path
<1>2. CASE part = Up /\ path = <<>>
  BY <1>2 DEF Taking, Path
<1>3. CASE part = Up /\ path # <<>>
  <2>1. Len(path) \in Nat /\ Len(path) # 0
    BY <1>3 DEF Path
  <2>2. Front(path) \in Path
    BY <2>1, SubSeqProperties DEF Front, Path
  <2> QED
    BY <1>3, <2>2 DEF Taking
<1> QED
  BY <1>1, <1>2, <1>3

\* A stored path under a directory is a path, and ends in the name the stored
\* path ends in.
LEMMA JoinIs ==
  ASSUME NEW base \in Path, NEW parts \in Seq(PathPart)
  PROVE  /\ Join(base, parts) \in Path
         /\ NamesAFile(parts) => Join(base, parts) # <<>> /\ Last(Join(base, parts)) = Last(parts)
<1> DEFINE rest == Undriven(parts)
           n == Len(rest)
           D == 1 .. n
           Folding(f) == f = [s \in SUBSET D |-> IF s = {} THEN base
                                                 ELSE Taking(f[s \ {Max(s)}], rest[Max(s)])]
           iter == CHOOSE f : Folding(f)
           pick == [s \in SUBSET D |-> Max(s)]
           step == [z \in D \X Path |-> Taking(z[2], rest[z[1]])]
<1>1. rest \in Seq(PathPart) /\ n \in Nat /\ DOMAIN rest = D /\ IsFiniteSet(D)
  BY PartsLeft, FS_Interval
<1>2. Join(base, parts) = iter[D]
  <2>1. Join(base, parts) =
          (CHOOSE f : f = [s \in SUBSET DOMAIN rest |-> IF s = {} THEN base
                              ELSE Taking(f[s \ {Max(s)}], rest[Max(s)])])[DOMAIN rest]
    BY DEF Join, FoldLeft, MapThenFoldSet, Taking
  <2> QED
    BY <1>1, <2>1
<1>3. \A x \in D, v \in Path : step[<<x, v>>] = Taking(v, rest[x])
  OBVIOUS
<1>4. step \in [D \X Path -> Path]
  <2>1. ASSUME NEW z \in D \X Path PROVE Taking(z[2], rest[z[1]]) \in Path
    <3>1. z[2] \in Path /\ rest[z[1]] \in PathPart
      BY <1>1
    <3> QED
      BY <3>1, TakingIs
  <2> QED
    BY <2>1
<1>5. \A s \in SUBSET D : pick[s] = Max(s)
  OBVIOUS
<1> HIDE DEF rest
<1> HIDE DEF step, pick
<1>6. \A s \in SUBSET D : s # {} => Max(s) \in s /\ pick[s] \in s
  BY <1>1, <1>5, MaxIs
<1>7. PICK f \in [SUBSET D -> Path] : IsFold(f, D, base, pick, step)
  BY <1>1, <1>4, <1>6, FoldExists
<1>8. Folding(f)
  <2>1. ASSUME NEW s \in SUBSET D
        PROVE  f[s] = IF s = {} THEN base ELSE Taking(f[s \ {Max(s)}], rest[Max(s)])
    <3>1. s # {} => f[s] = step[<<Max(s), f[s \ {Max(s)}]>>] /\ Max(s) \in D
      BY <1>5, <1>6, <1>7 DEF IsFold
    <3>2. f[s \ {Max(s)}] \in Path
      BY <1>7
    <3> QED
      BY <1>3, <1>7, <3>1, <3>2 DEF IsFold
  <2>2. f = [s \in SUBSET D |-> f[s]]
    BY <1>7
  <2> QED
    BY <2>1, <2>2
<1>9. Folding(iter)
  <2> HIDE DEF Folding
  <2> QED
    BY <1>8
<1> HIDE DEF iter
<1>10. \A s \in SUBSET D : iter[s] = IF s = {} THEN base ELSE Taking(iter[s \ {Max(s)}], rest[Max(s)])
  BY <1>9
<1> HIDE DEF Folding
<1>11. FoldsWithin(iter, D, Path, base, pick, step)
  <2>1. iter[{}] = base
    BY <1>10
  <2>2. ASSUME NEW s \in SUBSET D, s # {}, iter[s \ {pick[s]}] \in Path
        PROVE  iter[s] = step[<<pick[s], iter[s \ {pick[s]}]>>]
    <3>1. pick[s] = Max(s) /\ Max(s) \in D
      BY <1>5, <1>6, <2>2
    <3>2. iter[s] = Taking(iter[s \ {Max(s)}], rest[Max(s)])
      BY <1>10, <2>2
    <3> QED
      BY <1>3, <2>2, <3>1, <3>2
  <2> QED
    BY <2>1, <2>2 DEF FoldsWithin
<1>12. \A s \in SUBSET D : iter[s] \in Path
  BY <1>1, <1>4, <1>6, <1>11, FoldTyped
<1>13. ASSUME NamesAFile(parts) PROVE iter[D] # <<>> /\ Last(iter[D]) = Last(parts)
  <2>1. rest # <<>> /\ Last(parts) # Up /\ Last(rest) = Last(parts)
    BY <1>13, PartsLeft DEF NamesAFile, rest
  <2>2. n \in D /\ D # {}
    BY <1>1, <2>1
  <2>3. Max(D) = n
    <3>1. Max(D) \in D /\ n <= Max(D)
      BY <1>1, <2>2, MaxIs
    <3> QED
      BY <1>1, <3>1
  <2>4. iter[D] = Taking(iter[D \ {n}], rest[n])
    BY <1>10, <2>2, <2>3
  <2>5. iter[D \ {n}] \in Path /\ rest[n] \in PathPart /\ rest[n] = Last(rest)
    BY <1>1, <1>12, <2>2 DEF Last
  <2> QED
    BY <2>1, <2>4, <2>5, TakingIs
<1> QED
  BY <1>2, <1>12, <1>13

LEMMA BasenameIs ==
  ASSUME NEW parts \in Seq(PathPart), parts # <<>>, Last(parts) # Up
  PROVE  Basename(parts) = Last(parts)
<1> DEFINE n == Len(parts)
           named == {i \in 1 .. n : parts[i] # Up}
<1>1. n \in Nat /\ n \in 1 .. n /\ parts[n] # Up
  BY DEF Last
<1>2. Basename(parts) =
        LET at == IF named # {} THEN Max(named) ELSE 0 IN IF at = 0 THEN NONE ELSE parts[at]
  BY DEF Basename, SelectLastInSeq
<1>3. named \in SUBSET (1 .. n) /\ n \in named
  BY <1>1
<1> HIDE DEF named
<1>4. Max(named) \in named /\ n <= Max(named)
  BY <1>1, <1>3, MaxIs
<1>5. Max(named) = n
  <2>1. Max(named) \in 1 .. n
    BY <1>3, <1>4
  <2> QED
    BY <1>1, <1>4, <2>1
<1> QED
  BY <1>1, <1>2, <1>3, <1>5 DEF Last

\* Paths that differ in case only bear the same name.
LEMMA SameName ==
  ASSUME NEW p \in Path, NEW q \in Path, q # <<>>, FoldPath(p) = FoldPath(q)
  PROVE  Folded[Last(p)] = Folded[Last(q)]
<1>1. Len(p) \in Nat /\ Len(q) \in Nat /\ DOMAIN p = 1 .. Len(p) /\ DOMAIN q = 1 .. Len(q) /\ Len(q) # 0
  BY DEF Path
<1>2. DOMAIN FoldPath(p) = 1 .. Len(p) /\ DOMAIN FoldPath(q) = 1 .. Len(q)
  BY <1>1 DEF FoldPath
<1>3. Len(p) = Len(q)
  <2> DEFINE m == Len(p)
             k == Len(q)
  <2>1. 1 .. m = 1 .. k /\ m \in Nat /\ k \in Nat
    BY <1>1, <1>2
  <2> HIDE DEF m, k
  <2>2. m = k
    BY <2>1
  <2> QED
    BY <2>2 DEF m, k
<1>4. Len(p) \in DOMAIN p /\ Len(q) \in DOMAIN q
  BY <1>1, <1>3
<1>5. FoldPath(p)[Len(p)] = Folded[Last(p)] /\ FoldPath(q)[Len(q)] = Folded[Last(q)]
  BY <1>4 DEF FoldPath, Last
<1> QED
  BY <1>3, <1>5

LEMMA FoundBearsTheName ==
  ASSUME NEW base \in Path, NEW parts \in Seq(PathPart), NEW path \in Path, NamesAFile(parts),
         FoldPath(path) = FoldPath(Join(base, parts))
  PROVE  Folded[Last(path)] = Folded[Last(parts)]
<1>1. Join(base, parts) \in Path /\ Join(base, parts) # <<>> /\ Last(Join(base, parts)) = Last(parts)
  BY JoinIs
<1> QED
  BY <1>1, SameName

LEMMA PlacesAreTyped ==
  ASSUME WellTyped, OptionsTaken, NEW source \in DOMAIN files
  PROVE  /\ \A i \in DOMAIN files : files[i].path \in Path
         /\ Front(files[source].path) \in Path
         /\ \A r \in DOMAIN roots : roots[r] \in Path
         /\ SearchRoots \subseteq DOMAIN roots
         /\ 1 \in DOMAIN roots \/ ~Walking
         /\ <<>> \in Path
<1>1. ASSUME NEW i \in DOMAIN files PROVE files[i].path \in Path
  <2>1. files[i] \in IndexedFile
    BY DEF WellTyped
  <2> QED
    BY <2>1 DEF IndexedFile
<1>2. Front(files[source].path) \in Path
  <2> DEFINE p == files[source].path
  <2>1. p \in Seq(Names) /\ Len(p) \in Nat
    BY <1>1 DEF Path
  <2> HIDE DEF p
  <2>2. CASE Len(p) = 0
    <3>1. \A i \in 1 .. Len(p) - 1 : p[i] \in Names
      BY <2>2
    <3>2. Len(p) - 1 = -1
      BY <2>2
    <3>3. SubSeq(p, 1, -1) \in Seq(Names)
      OBVIOUS
    <3> QED
      BY <3>2, <3>3 DEF Front, Path, p
  <2>3. CASE Len(p) # 0
    <3>1. SubSeq(p, 1, Len(p) - 1) \in Seq(Names)
      BY <2>1, <2>3, SubSeqProperties
    <3> QED
      BY <3>1 DEF Front, Path, p
  <2> QED
    BY <2>2, <2>3
<1>3. \A r \in DOMAIN roots : roots[r] \in Path
  BY TreeTyped
<1>4. SearchRoots \subseteq DOMAIN roots
  BY DEF SearchRoots, OptionsTaken
<1>5. 1 \in DOMAIN roots \/ ~Walking
  BY DEF WellTyped
<1> QED
  BY <1>1, <1>2, <1>3, <1>4, <1>5 DEF Path

LEMMA CandidateNamed ==
  ASSUME WellTyped, OptionsTaken, Walking, NEW source \in DOMAIN files, NEW stored \in StoredPaths,
         NEW result, result = Resolve(source, stored), NEW c \in result.candidates
  PROVE  LET path == files[c].path
             parts == stored.parts
             named == Folded[Last(path)] = Folded[Basename(parts)]
         IN IF result.basis = "windows_prefix_mapping"
            THEN \E m \in Fitting(parts) :
                   LET prefix == request.mappings[m].prefix
                       rest == SubSeq(parts, Len(prefix) + 1, Len(parts))
                   IN /\ \A o \in Fitting(parts) : Len(request.mappings[o].prefix) <= Len(prefix)
                      /\ FoldPath(path) = FoldPath(Join(request.mappings[m].target, rest))
                      /\ NamesAFile(rest) => named
            ELSE NamesAFile(parts) => named
<1> DEFINE path == files[c].path
           parts == stored.parts
           named == Folded[Last(path)] = Folded[Basename(parts)]
           selected == Selected(source, stored)
<1>1. result.basis # NONE
  <2>1. stored # NONE
    BY DEF Resolve, Unanswered
  <2>2. result # Unanswered("missing")
    BY DEF Unanswered
  <2>3. PICK k \in 1 .. 8 : result.basis = RuleOrder[k]
    BY <2>1, <2>2, FirstRuleDecides DEF Classify
  <2> QED
    BY <2>3, BasisAssumption, RulesAre
<1>2. PICK k \in 1 .. 8 : result.basis = RuleOrder[k] /\ result.candidates = selected[RuleOrder[k]]
  BY <1>1, AnsweredByRule
<1>3. stored \in StoredPath /\ parts \in Seq(PathPart)
  <2>1. stored # NONE
    BY DEF Resolve, Unanswered
  <2> QED
    BY <2>1, StoredAssumption DEF StoredPath, PathPart
<1>4. /\ \A i \in DOMAIN files : files[i].path \in Path
      /\ Front(files[source].path) \in Path
      /\ \A r \in DOMAIN roots : roots[r] \in Path
      /\ SearchRoots \subseteq DOMAIN roots
      /\ 1 \in DOMAIN roots /\ <<>> \in Path
  BY PlacesAreTyped
<1>5. NamesAFile(parts) => parts # <<>> /\ Basename(parts) = Last(parts)
  BY <1>3, PartsLeft, BasenameIs DEF NamesAFile
<1>6. ASSUME NEW base \in Path, c \in LookupHost(Join(base, parts)) PROVE NamesAFile(parts) => named
  BY <1>3, <1>4, <1>5, <1>6, FoundBearsTheName DEF LookupHost
<1>7. ASSUME NEW root, NEW name, c \in LookupRootBasename(root, name) PROVE Folded[Last(path)] = Folded[name]
  BY <1>7 DEF LookupRootBasename
<1>8. CASE k = 4
  <2>1. result.basis = "windows_prefix_mapping" /\ c \in MappingCandidates(parts)
    BY <1>2, <1>8, RulesAre DEF Selected
  <2>2. PICK m \in Longest(parts) :
          c \in LookupHost(Join(roots[mappingRoots[m]],
                                SubSeq(parts, Len(request.mappings[m].prefix) + 1, Len(parts))))
    BY <2>1 DEF MappingCandidates
  <2> DEFINE prefix == request.mappings[m].prefix
             rest == SubSeq(parts, Len(prefix) + 1, Len(parts))
  <2>3. /\ m \in Fitting(parts) /\ m \in DOMAIN mappingRoots /\ mappingRoots[m] # NONE
        /\ \A o \in Fitting(parts) : Len(request.mappings[o].prefix) <= Len(prefix)
        /\ IsPrefixOf(request.mappings[m], parts)
    BY DEF Longest, Fitting
  <2>4. roots[mappingRoots[m]] = request.mappings[m].target /\ roots[mappingRoots[m]] \in Path
    BY <1>4, <2>3 DEF OptionsTaken
  <2>5. FoldPath(path) = FoldPath(Join(request.mappings[m].target, rest)) /\ c \in DOMAIN files
    BY <2>2, <2>4 DEF LookupHost
  <2>6. request.mappings[m].prefix \in Seq(Names)
    <3>1. m \in DOMAIN request.mappings
      <4>1. DOMAIN mappingRoots = 1 .. Len(mappingRoots) /\ Len(mappingRoots) <= Len(request.mappings)
            /\ Len(mappingRoots) \in Nat
        BY DEF OptionsTaken
      <4>2. request.mappings \in Seq(Mapping)
        BY DEF WellTyped, Request
      <4> QED
        BY <2>3, <4>1, <4>2
    <3>2. request.mappings[m] \in Mapping
      BY <3>1 DEF WellTyped, Request
    <3> QED
      BY <3>2 DEF Mapping, Path
  <2>7. rest \in Seq(PathPart) /\ (rest # <<>> => parts # <<>> /\ Last(rest) = Last(parts))
    <3> DEFINE a == Len(prefix)
               b == Len(parts)
    <3>1. a \in Nat /\ b \in Nat /\ a <= b
      BY <1>3, <2>3, <2>6 DEF IsPrefixOf
    <3>2. /\ rest \in Seq(PathPart) /\ Len(rest) = b - a
          /\ \A i \in 1 .. b - a : rest[i] = parts[a + i]
      <4> HIDE DEF a, b
      <4>1. SubSeq(parts, a + 1, b) \in Seq(PathPart) /\ Len(SubSeq(parts, a + 1, b)) = b - a
            /\ \A i \in 1 .. b - a : SubSeq(parts, a + 1, b)[i] = parts[a + i]
        BY <1>3, <3>1, SubSeqProperties DEF b
      <4> QED
        BY <4>1 DEF a, b
    <3> HIDE DEF rest
    <3>3. ASSUME rest # <<>> PROVE parts # <<>> /\ Last(rest) = Last(parts)
      <4>1. b - a # 0 /\ b - a \in 1 .. b - a
        BY <3>1, <3>2, <3>3
      <4>2. rest[b - a] = parts[b]
        <5> HIDE DEF a, b
        <5>1. rest[b - a] = parts[a + (b - a)] /\ a + (b - a) = b
          BY <3>1, <3>2, <4>1
        <5> QED
          BY <5>1
      <4>3. parts # <<>>
        <5>1. b # 0
          BY <3>1, <4>1
        <5> QED
          BY <5>1
      <4> QED
        BY <3>2, <4>2, <4>3 DEF Last
    <3> QED
      BY <3>2, <3>3
  <2> HIDE DEF rest
  <2>8. ASSUME NamesAFile(rest) PROVE named
    <3>1. rest # <<>> /\ Last(rest) # Up
      BY <2>7, <2>8, PartsLeft DEF NamesAFile
    <3>2. Basename(parts) = Last(rest)
      BY <1>3, <2>7, <3>1, BasenameIs
    <3>3. Folded[Last(path)] = Folded[Last(rest)]
      BY <1>4, <2>4, <2>5, <2>7, <2>8, FoundBearsTheName
    <3> QED
      BY <3>2, <3>3
  <2> QED
    BY <2>1, <2>3, <2>5, <2>8 DEF rest
<1>9. ASSUME k # 4 PROVE result.basis # "windows_prefix_mapping" /\ (NamesAFile(parts) => named)
  <2>1. result.basis # "windows_prefix_mapping"
    BY <1>2, <1>9, RulesAre
  <2> DEFINE If(condition, found) == IF condition THEN found ELSE {}
             name == Basename(parts)
  <2>2. /\ k = 1 => c \in LookupHost(Join(Front(files[source].path), parts))
        /\ k = 2 => c \in LookupHost(Join(roots[1], parts))
        /\ k = 3 => c \in LookupHost(Join(<<>>, parts))
        /\ k = 5 => c \in SearchRelativeCandidates(parts)
        /\ k = 6 => name # NONE /\ c \in LookupHost(Append(Front(files[source].path), name))
        /\ k = 7 => c \in LookupRootBasename(1, name)
        /\ k = 8 => c \in SearchBasenameCandidates(name)
    BY <1>2, RulesAre DEF Selected
  <2>3. CASE k \in {1, 2, 3}
    BY <1>4, <1>6, <2>1, <2>2, <2>3
  <2>4. CASE k = 5
    <3>1. PICK r \in SearchRoots : c \in LookupHost(Join(roots[r], parts))
      BY <2>2, <2>4 DEF SearchRelativeCandidates
    <3>2. roots[r] \in Path
      BY <1>4
    <3> QED
      BY <1>6, <2>1, <3>1, <3>2
  <2>5. ASSUME k = 6, NamesAFile(parts) PROVE named
    <3> DEFINE parent == Front(files[source].path)
               place == Append(parent, name)
    <3>1. name = Last(parts) /\ parts # <<>> /\ Last(parts) # Up
      BY <1>5, <2>5 DEF NamesAFile
    <3>2. Last(parts) \in PathPart
      BY <1>3, <3>1 DEF Last
    <3>3. name \in Names /\ parent \in Path
      BY <1>4, <3>1, <3>2 DEF PathPart
    <3> HIDE DEF parent
    <3>4. Taking(parent, name) = place /\ name \in PathPart
      BY <3>1, <3>3 DEF Taking, PathPart
    <3>5. place \in Path /\ place # <<>> /\ Last(place) = name
      BY <3>1, <3>3, <3>4, TakingIs
    <3>6. FoldPath(path) = FoldPath(place) /\ c \in DOMAIN files
      BY <2>2, <2>5 DEF LookupHost, parent
    <3> HIDE DEF place
    <3> QED
      BY <1>4, <3>5, <3>6, SameName
  <2>6. CASE k = 7
    BY <1>7, <2>1, <2>2, <2>6
  <2>7. CASE k = 8
    <3>1. PICK r \in SearchRoots : c \in LookupRootBasename(r, name)
      BY <2>2, <2>7 DEF SearchBasenameCandidates
    <3> QED
      BY <1>7, <2>1, <3>1
  <2>8. k \in {1, 2, 3} \/ k = 5 \/ k = 6 \/ k = 7 \/ k = 8
    BY <1>9
  <2> QED
    BY <2>1, <2>3, <2>4, <2>5, <2>6, <2>7, <2>8
<1> QED
  BY <1>8, <1>9

\* A file a reference may mean bears the stored name, and a mapped one lies
\* where the most specific mapping puts it (resolve, mapping_candidates).
THEOREM CandidatesAreNamed == ResolutionSpec => []CandidatesBearTheName
<1>1. Inv => CandidatesBearTheName
  <2> SUFFICES ASSUME Inv, answer # NONE, NEW c \in answer.result.candidates
               PROVE  LET path == files[c].path
                          parts == answer.stored.parts
                          named == Folded[Last(path)] = Folded[Basename(parts)]
                      IN IF answer.result.basis = "windows_prefix_mapping"
                         THEN \E m \in Fitting(parts) :
                                LET prefix == request.mappings[m].prefix
                                    rest == SubSeq(parts, Len(prefix) + 1, Len(parts))
                                IN /\ \A o \in Fitting(parts) : Len(request.mappings[o].prefix) <= Len(prefix)
                                   /\ FoldPath(path) = FoldPath(Join(request.mappings[m].target, rest))
                                   /\ NamesAFile(rest) => named
                         ELSE NamesAFile(parts) => named
    BY DEF CandidatesBearTheName
  <2>1. /\ phase = "indexed" /\ answer.source \in DOMAIN files /\ answer.stored \in StoredPaths
        /\ answer.result = Resolve(answer.source, answer.stored)
    BY DEF Inv, AnswerInv
  <2>2. WellTyped /\ OptionsTaken /\ Walking
    BY <2>1 DEF Inv, IndexInv, Walking
  <2> QED
    BY <2>1, <2>2, CandidateNamed
<1> QED
  BY <1>1, IndexFollowsTheWalk, PTL

=============================================================================
