---------------------------- MODULE GeometryProofs ----------------------------
(***************************************************************************)
(* Theorems about geometry decoding, for every inventory, every answer of  *)
(* the codec and every limit: what is called active was read, the budget   *)
(* is never overdrawn, a nested stream is lost only with a diagnostic, and *)
(* a complete partition accounts for every stream.                         *)
(***************************************************************************)
EXTENDS GeometryProperties, FoldTheorems, SequenceTheorems

\* Nothing has been searched.
Untouched ==
  /\ candidates = <<>> /\ opened = <<>> /\ domains = <<>>
  /\ budget = FreshBudget /\ coverage = NoCoverage

Decoded == \E s \in Sources : entries = s.entries /\ facts = s.facts

BudgetIs ==
  /\ budget \in [probes: Nat, streams: Nat, bytes: Nat, limitHit: BOOLEAN]
  /\ KeptIsPaid

\* Entries are opened once each, and only those to be searched.
OpenedIs ==
  /\ opened \in Seq(Searched)
  /\ step = "search" => opened # <<>> /\ entries[Last(opened)].extracts
                        /\ part \in 0 .. Len(Parts)
  /\ \A i, j \in DOMAIN opened : opened[i] = opened[j] => i = j
  /\ step \in {"check", "done"} => Unopened = {}

\* A domain is a stream of an entry that was searched.
DomainsAre ==
  /\ domains \in Seq([entry: Nat, offset: Nat, spelling: STRING, stream: StreamBytes])
  /\ \A i \in DOMAIN domains :
       LET d == domains[i]
       IN /\ d.entry \in DOMAIN entries
          /\ d.offset \in DOMAIN entries[d.entry].payload.parts
          /\ d.stream = Bytes(entries[d.entry].payload.parts[d.offset])

\* Whether the search has come to part i of the entry e.
Tried(e, i) ==
  /\ e \in ToSet(opened)
  /\ step = "search" /\ e = Last(opened) => i <= part

\* Until the limit is hit everything findable so far is found.
FoundIs ==
  ~budget.limitHit =>
    /\ Found = {site \in Findable : Tried(site[1], site[2])}
    /\ step = "search" /\ Payload.storage = "wrapped" =>
         kept = {Bytes(Parts[j]) : j \in {k \in 1 .. part : HasRole(Parts[k]) /\ FitsAlone(Parts[k])}}

CoverageIs ==
  coverage = NoCoverage \/ (step \in {"check", "done"} /\ ~budget.limitHit
                            /\ coverage = Normalize(domains, facts.ledger))

SearchInv == OpenedIs /\ DomainsAre /\ FoundIs

Inv ==
  /\ BudgetIs
  /\ \/ step \in {"gate", "done"} /\ Untouched /\ entries = <<>>
     \/ step = "select" /\ Untouched /\ Decoded
     \/ /\ step \in {"open", "search", "check", "done"}
        /\ Decoded /\ candidates = Candidates
        /\ SearchInv /\ CoverageIs

-----------------------------------------------------------------------------
(***************************************************************************)
(* What the sources are.                                                   *)
(***************************************************************************)
LEMMA SourceTyped ==
  ASSUME Decoded
  PROVE  /\ entries \in Seq(InventoryEntry) /\ facts \in CodecFacts /\ NamesWhatItRead(entries, facts)
         /\ \A e \in DOMAIN entries :
              /\ e \in Nat /\ entries[e] \in InventoryEntry
              /\ entries[e].path # NONE /\ entries[e].extracts \in BOOLEAN
              /\ entries[e].payload.storage \in {"direct", "wrapped"}
              /\ entries[e].payload.parts \in Seq(NestedStream)
              /\ \A i \in DOMAIN entries[e].payload.parts :
                   HasRole(entries[e].payload.parts[i]) => entries[e].payload.parts[i].len >= HeaderLen
<1>1. PICK s \in Sources : entries = s.entries /\ facts = s.facts
  BY DEF Decoded
<1>2. entries \in Seq(InventoryEntry) /\ facts \in CodecFacts /\ NamesWhatItRead(entries, facts)
  BY <1>1, SourceAssumption
<1>3. ASSUME NEW e \in DOMAIN entries
      PROVE  /\ e \in Nat /\ entries[e] \in InventoryEntry
             /\ entries[e].path # NONE /\ entries[e].extracts \in BOOLEAN
             /\ entries[e].payload.storage \in {"direct", "wrapped"}
             /\ entries[e].payload.parts \in Seq(NestedStream)
  <2>1. e \in Nat /\ entries[e] \in InventoryEntry
    BY <1>2
  <2> QED
    BY <2>1, GeometryAssumption DEF InventoryEntry
<1>4. \A e \in DOMAIN entries : \A i \in DOMAIN entries[e].payload.parts :
        HasRole(entries[e].payload.parts[i]) => entries[e].payload.parts[i].len >= HeaderLen
  BY <1>1, SourceAssumption
<1> QED
  BY <1>2, <1>3, <1>4

LEMMA SearchedListed ==
  ASSUME candidates = Candidates
  PROVE  Searched \subseteq DOMAIN entries
  BY DEF Searched, Candidates, Eligible

LEMMA FindableIs ==
  ASSUME NEW site
  PROVE  site \in Findable <=>
           \E e \in Searched : /\ entries[e].extracts
                               /\ \E i \in DOMAIN entries[e].payload.parts :
                                    IsFindable(e, i) /\ site = <<e, i>>
<1> DEFINE In(e) == {<<e, i>> : i \in {k \in DOMAIN entries[e].payload.parts : IsFindable(e, k)}}
<1>1. Findable = UNION {In(e) : e \in {d \in Searched : entries[d].extracts}}
  BY DEF Findable
<1>2. \A e : site \in In(e) <=> \E i \in DOMAIN entries[e].payload.parts : IsFindable(e, i) /\ site = <<e, i>>
  OBVIOUS
<1> HIDE DEF In
<1>3. site \in Findable <=> \E e \in {d \in Searched : entries[d].extracts} : site \in In(e)
  BY <1>1
<1> QED
  BY <1>2, <1>3

\* A stream an entry keeps is one domain more.
LEMMA OneDomainMore ==
  ASSUME NEW e \in DOMAIN entries, NEW i \in DOMAIN entries[e].payload.parts, Decoded, DomainsAre,
         domains' = Append(domains, DomainOf(e, i)),
         entries' = entries
  PROVE  /\ DomainsAre' /\ Found' = Found \cup {<<e, i>>} /\ Len(domains') = Len(domains) + 1
         /\ SumFunctionOnSet([k \in DOMAIN domains |-> domains[k].stream.len], DOMAIN domains) \in Nat
         /\ SumFunctionOnSet([k \in DOMAIN domains' |-> domains'[k].stream.len], DOMAIN domains')
              = SumFunctionOnSet([k \in DOMAIN domains |-> domains[k].stream.len], DOMAIN domains)
                + entries[e].payload.parts[i].len
<1> DEFINE D == [entry: Nat, offset: Nat, spelling: STRING, stream: StreamBytes]
           d == DomainOf(e, i)
           n == Len(domains)
<1>1. e \in Nat /\ i \in Nat /\ entries[e].payload.parts[i] \in NestedStream
  <2>1. entries[e].payload.parts \in Seq(NestedStream) /\ e \in Nat
    BY SourceTyped
  <2> QED
    BY <2>1
<1>2. d \in D
  <2>1. entries[e].spelling \in STRING
    BY SourceTyped DEF InventoryEntry
  <2> QED
    BY <1>1, <2>1 DEF DomainOf, Bytes, NestedStream, StreamBytes
<1>3. domains \in Seq(D)
  BY DEF DomainsAre
<1>4. d.entry = e /\ d.offset = i /\ d.stream = Bytes(entries[e].payload.parts[i])
  BY DEF DomainOf
<1> HIDE DEF D, d
<1>5. /\ domains' \in Seq(D) /\ Len(domains') = n + 1 /\ n \in Nat /\ DOMAIN domains = 1 .. n
      /\ DOMAIN domains' = 1 .. n + 1 /\ domains'[n + 1] = d /\ \A k \in 1 .. n : domains'[k] = domains[k]
  <2>1. domains' = Append(domains, d)
    BY DEF d
  <2> QED
    BY <1>2, <1>3, <2>1
<1> HIDE DEF n
<1>6. \A k \in 1 .. n + 1 : k \in 1 .. n \/ k = n + 1
  BY <1>5
<1>7. DomainsAre'
  <2>1. ASSUME NEW k \in DOMAIN domains'
        PROVE  /\ domains'[k].entry \in DOMAIN entries
               /\ domains'[k].offset \in DOMAIN entries[domains'[k].entry].payload.parts
               /\ domains'[k].stream = Bytes(entries[domains'[k].entry].payload.parts[domains'[k].offset])
    <3>1. CASE k \in 1 .. n
      BY <1>5, <3>1 DEF DomainsAre
    <3>2. CASE k = n + 1
      BY <1>4, <1>5, <3>2
    <3> QED
      BY <1>5, <1>6, <3>1, <3>2
  <2> QED
    BY <1>5, <2>1 DEF DomainsAre, D
<1>8. Found' = Found \cup {<<e, i>>}
  <2>1. Found' = {<<domains'[k].entry, domains'[k].offset>> : k \in 1 .. n + 1}
    BY <1>5 DEF Found
  <2>2. Found = {<<domains[k].entry, domains[k].offset>> : k \in 1 .. n}
    BY <1>5 DEF Found
  <2>3. 1 .. n + 1 = 1 .. n \cup {n + 1}
    BY <1>5
  <2> QED
    BY <1>4, <1>5, <2>1, <2>2, <2>3
<1>9. /\ \A k \in 1 .. n : domains[k].stream.len \in Nat
      /\ d.stream.len = entries[e].payload.parts[i].len /\ d.stream.len \in Nat
  <2>1. \A k \in 1 .. n : domains[k] \in D
    BY <1>3, <1>5
  <2> QED
    BY <1>1, <1>4, <2>1 DEF D, NestedStream, StreamBytes, Bytes
<1> DEFINE f == [k \in DOMAIN domains |-> domains[k].stream.len]
           g == [k \in DOMAIN domains' |-> domains'[k].stream.len]
<1>10. /\ DOMAIN f = 1 .. n /\ DOMAIN g = 1 .. n + 1 /\ n \in Nat
       /\ \A k \in 1 .. n : f[k] \in Nat /\ g[k] = f[k]
       /\ g[n + 1] = entries[e].payload.parts[i].len /\ g[n + 1] \in Nat
  BY <1>5, <1>6, <1>9
<1>11. DOMAIN domains = 1 .. n /\ DOMAIN domains' = 1 .. n + 1
  BY <1>5
<1> HIDE DEF f, g
<1>12. SumFunctionOnSet(f, 1 .. n) \in Nat /\ SumFunctionOnSet(g, 1 .. n + 1) = SumFunctionOnSet(f, 1 .. n) + g[n + 1]
  BY SMTT(30), <1>10, SumOfOneMore
<1>13. SumFunctionOnSet(f, DOMAIN domains) \in Nat
       /\ SumFunctionOnSet(g, DOMAIN domains') = SumFunctionOnSet(f, DOMAIN domains) + entries[e].payload.parts[i].len
  BY <1>10, <1>11, <1>12
<1> QED
  BY <1>5, <1>7, <1>8, <1>13 DEF f, g, n

-----------------------------------------------------------------------------
(***************************************************************************)
(* The steps before and after the search.                                  *)
(***************************************************************************)
LEMMA FreshBudgetIs ==
  ASSUME budget = FreshBudget, domains = <<>>
  PROVE  BudgetIs /\ ~budget.limitHit
<1>1. {MaxStreams, MaxProbes} \in SUBSET Nat /\ {MaxStreams, MaxProbes} # {}
  BY GeometryAssumption
<1>2. Min({MaxStreams, MaxProbes}) \in Nat
  <2>1. Min({MaxStreams, MaxProbes}) \in {MaxStreams, MaxProbes}
    BY <1>1, MinIs
  <2> QED
    BY <1>1, <2>1
<1>3. budget \in [probes: Nat, streams: Nat, bytes: Nat, limitHit: BOOLEAN]
      /\ budget.streams = MaxStreams /\ budget.bytes = MaxTotalBytes /\ budget.limitHit = FALSE
  BY <1>2, GeometryAssumption DEF FreshBudget
<1>4. Len(domains) = 0 /\ DOMAIN domains = {}
  OBVIOUS
<1> DEFINE f == [k \in DOMAIN domains |-> domains[k].stream.len]
<1>5. SumFunctionOnSet(f, {}) = 0
  <2>1. IsFiniteSet({}) /\ \A x \in {} : f[x] \in Nat
    BY FS_EmptySet
  <2> HIDE DEF f
  <2> QED
    BY <2>1, SumIs
<1>6. SumFunctionOnSet(f, DOMAIN domains) = 0
  BY <1>4, <1>5
<1> HIDE DEF f
<1>7. Len(domains) <= MaxStreams - budget.streams /\ SumFunctionOnSet(f, DOMAIN domains) <= MaxTotalBytes - budget.bytes
  BY <1>3, <1>4, <1>6, GeometryAssumption
<1> QED
  BY <1>3, <1>7 DEF BudgetIs, KeptIsPaid, f

LEMMA BudgetStays ==
  ASSUME BudgetIs, UNCHANGED <<budget, domains>>
  PROVE  BudgetIs'
  BY DEF BudgetIs, KeptIsPaid

LEMMA InitHolds == GeometryInit => Inv
<1> SUFFICES ASSUME GeometryInit PROVE Inv
  OBVIOUS
<1>1. BudgetIs
  BY FreshBudgetIs DEF GeometryInit
<1> QED
  BY <1>1 DEF GeometryInit, Inv, Untouched

LEMMA RefuseKeeps == Inv /\ Refuse => Inv'
<1> SUFFICES ASSUME Inv, Refuse PROVE Inv'
  OBVIOUS
<1>1. /\ UNCHANGED <<entries, candidates, opened, budget, domains, coverage>>
      /\ step = "gate" /\ step' = "done"
  BY DEF Refuse
<1>2. Untouched' /\ entries' = <<>>
  BY <1>1 DEF Inv, Untouched, FreshBudget, NoCoverage
<1>3. BudgetIs'
  BY <1>1, BudgetStays DEF Inv
<1> QED
  BY <1>1, <1>2, <1>3 DEF Inv

LEMMA DecodeKeeps == Inv /\ Decode => Inv'
<1> SUFFICES ASSUME Inv, Decode PROVE Inv'
  OBVIOUS
<1>1. /\ UNCHANGED <<candidates, opened, budget, domains, coverage>>
      /\ step = "gate" /\ step' = "select"
  BY DEF Decode
<1>2. Untouched'
  BY <1>1 DEF Inv, Untouched, FreshBudget, NoCoverage
<1>3. Decoded'
  BY DEF Decode, Decoded
<1>4. BudgetIs'
  BY <1>1, BudgetStays DEF Inv
<1> QED
  BY <1>1, <1>2, <1>3, <1>4 DEF Inv

LEMMA SelectStreamsKeeps == Inv /\ SelectStreams => Inv'
<1> SUFFICES ASSUME Inv, SelectStreams PROVE Inv'
  OBVIOUS
<1>1. /\ UNCHANGED <<entries, facts, opened, budget, domains, coverage>>
      /\ step = "select" /\ step' = "open" /\ candidates' = Candidates
  BY DEF SelectStreams
<1>2. Untouched /\ Decoded
  BY <1>1 DEF Inv
<1>3. candidates' = Candidates'
  BY <1>1 DEF Candidates, Eligible, SoleCandidate, Partitions, SelectionOf, UniquePath, LedgerNames, SourceStreams
<1>4. BudgetIs' /\ Decoded'
  BY <1>1, <1>2, BudgetStays DEF Inv, Decoded
<1>5. opened' = <<>> /\ domains' = <<>> /\ coverage' = NoCoverage
  BY <1>1, <1>2 DEF Untouched
<1>6. OpenedIs'
  BY <1>1, <1>5 DEF OpenedIs
<1>7. DomainsAre'
  BY <1>5 DEF DomainsAre
<1>8. FoundIs'
  <2>1. Found' = {}
    BY <1>5 DEF Found
  <2>2. \A e, i : ~Tried(e, i)'
    BY <1>5 DEF Tried, ToSet
  <2> QED
    BY <1>1, <2>1, <2>2 DEF FoundIs
<1>9. CoverageIs'
  BY <1>5 DEF CoverageIs, NoCoverage
<1> QED
  BY <1>1, <1>3, <1>4, <1>6, <1>7, <1>8, <1>9 DEF Inv, SearchInv

\* The part of the invariant that a step of the search works on.
LEMMA Searching ==
  ASSUME Inv, step \in {"open", "search", "check"}
  PROVE  /\ BudgetIs /\ Decoded /\ candidates = Candidates
         /\ OpenedIs /\ DomainsAre /\ FoundIs /\ CoverageIs
         /\ step # "check" => coverage = NoCoverage
  BY DEF Inv, SearchInv, CoverageIs

LEMMA SourcesStay ==
  ASSUME UNCHANGED <<entries, facts, candidates>>
  PROVE  /\ Decoded => Decoded'
         /\ candidates = Candidates => candidates' = Candidates'
         /\ Searched' = Searched /\ Findable' = Findable
         /\ \A e, i : IsFindable(e, i)' <=> IsFindable(e, i)
<1>1. Decoded => Decoded'
  BY DEF Decoded
<1>2. Candidates' = Candidates
  BY DEF Candidates, Eligible, SoleCandidate, Partitions, SelectionOf, UniquePath, LedgerNames, SourceStreams
<1>3. Searched' = Searched
  BY DEF Searched
<1>4. \A e, i : IsFindable(e, i)' <=> IsFindable(e, i)
  BY DEF IsFindable
<1>5. Findable' = Findable
  BY <1>3, <1>4 DEF Findable
<1> QED
  BY <1>1, <1>2, <1>3, <1>4, <1>5

LEMMA EndSearchKeeps == Inv /\ EndSearch => Inv'
<1> SUFFICES ASSUME Inv, EndSearch PROVE Inv'
  OBVIOUS
<1>1. /\ UNCHANGED <<entries, facts, candidates, opened, budget, part, kept, domains>>
      /\ step = "open" /\ step' = "check" /\ Unopened = {}
      /\ coverage' = IF budget.limitHit THEN NoCoverage ELSE Normalize(domains, facts.ledger)
  BY DEF EndSearch
<1>2. BudgetIs /\ Decoded /\ candidates = Candidates /\ OpenedIs /\ DomainsAre /\ FoundIs
  BY <1>1, Searching
<1>3. Decoded' /\ candidates' = Candidates' /\ Searched' = Searched /\ Findable' = Findable
  BY <1>1, <1>2, SourcesStay
<1>4. BudgetIs'
  BY <1>1, <1>2, BudgetStays
<1>5. OpenedIs'
  BY <1>1, <1>2, <1>3 DEF OpenedIs, Unopened
<1>6. DomainsAre'
  BY <1>1, <1>2 DEF DomainsAre
<1>7. FoundIs'
  <2>1. \A e, i : Tried(e, i)' <=> Tried(e, i)
    BY <1>1 DEF Tried
  <2>2. Found' = Found
    BY <1>1 DEF Found
  <2> QED
    BY <1>1, <1>2, <1>3, <2>1, <2>2 DEF FoundIs
<1>8. CoverageIs'
  BY <1>1 DEF CoverageIs, NoCoverage
<1> QED
  BY <1>1, <1>3, <1>4, <1>5, <1>6, <1>7, <1>8 DEF Inv, SearchInv

LEMMA ConcludeKeeps == Inv /\ Conclude => Inv'
<1> SUFFICES ASSUME Inv, Conclude PROVE Inv'
  OBVIOUS
<1>1. /\ UNCHANGED <<entries, facts, candidates, opened, budget, part, kept, domains, coverage>>
      /\ step = "check" /\ step' = "done"
  BY DEF Conclude
<1>2. BudgetIs /\ Decoded /\ candidates = Candidates /\ OpenedIs /\ DomainsAre /\ FoundIs /\ CoverageIs
  BY <1>1, Searching
<1>3. Decoded' /\ candidates' = Candidates' /\ Searched' = Searched /\ Findable' = Findable
  BY <1>1, <1>2, SourcesStay
<1>4. BudgetIs'
  BY <1>1, <1>2, BudgetStays
<1>5. OpenedIs'
  BY <1>1, <1>2, <1>3 DEF OpenedIs, Unopened
<1>6. DomainsAre'
  BY <1>1, <1>2 DEF DomainsAre
<1>7. FoundIs'
  <2>1. \A e, i : Tried(e, i)' <=> Tried(e, i)
    BY <1>1 DEF Tried
  <2>2. Found' = Found
    BY <1>1 DEF Found
  <2> QED
    BY <1>1, <1>2, <1>3, <2>1, <2>2 DEF FoundIs
<1>8. CoverageIs'
  <2>1. Normalize(domains, facts.ledger)' = Normalize(domains, facts.ledger)
    BY <1>1 DEF Normalize
  <2> QED
    BY <1>1, <1>2, <2>1 DEF CoverageIs, NoCoverage
<1> QED
  BY <1>1, <1>3, <1>4, <1>5, <1>6, <1>7, <1>8 DEF Inv, SearchInv

-----------------------------------------------------------------------------
(***************************************************************************)
(* The steps of the search.                                                *)
(***************************************************************************)
LEMMA OpenEntryKeeps == Inv /\ OpenEntry => Inv'
<1> SUFFICES ASSUME Inv, OpenEntry PROVE Inv'
  OBVIOUS
<1> DEFINE e == Min(Unopened)
<1>1. /\ UNCHANGED <<entries, facts, candidates, budget, domains, coverage>>
      /\ step = "open" /\ Unopened # {} /\ opened' = Append(opened, e)
      /\ step' = (IF entries[e].extracts THEN "search" ELSE "open")
      /\ part' = 0 /\ kept' = {}
  BY DEF OpenEntry
<1>2. BudgetIs /\ Decoded /\ candidates = Candidates /\ OpenedIs /\ DomainsAre /\ FoundIs /\ coverage = NoCoverage
  BY <1>1, Searching
<1>3. Decoded' /\ candidates' = Candidates' /\ Searched' = Searched /\ Findable' = Findable
  BY <1>1, <1>2, SourcesStay
<1>4. e \in Searched /\ e \in DOMAIN entries /\ e \notin ToSet(opened)
  <2>1. Unopened \in SUBSET Nat
    BY <1>2, SearchedListed, SourceTyped DEF Unopened
  <2>2. e \in Unopened
    BY <1>1, <2>1, MinIs
  <2> QED
    BY <1>2, <2>2, SearchedListed DEF Unopened
<1> HIDE DEF e
<1>5. /\ opened' \in Seq(Searched) /\ Len(opened') = Len(opened) + 1 /\ Len(opened) \in Nat
      /\ DOMAIN opened = 1 .. Len(opened) /\ DOMAIN opened' = 1 .. Len(opened) + 1
      /\ opened'[Len(opened) + 1] = e /\ \A i \in 1 .. Len(opened) : opened'[i] = opened[i]
  BY <1>1, <1>2, <1>4 DEF OpenedIs
<1>6. opened' # <<>> /\ Last(opened)' = e /\ Last(opened') = e
  BY <1>5 DEF Last
<1>7. ToSet(opened)' = ToSet(opened) \cup {e} /\ e \notin ToSet(opened)
  <2> DEFINE n == Len(opened)
  <2>1. \A i \in 1 .. n + 1 : i \in 1 .. n \/ i = n + 1
    BY <1>5
  <2>2. ToSet(opened)' = {opened'[i] : i \in 1 .. n + 1}
    BY <1>5 DEF ToSet
  <2>3. ToSet(opened) = {opened[i] : i \in 1 .. n}
    BY <1>5 DEF ToSet
  <2>4. \A i \in 1 .. n : i \in 1 .. n + 1
    BY <1>5
  <2>5. n + 1 \in 1 .. n + 1
    BY <1>5
  <2> HIDE DEF n
  <2>6. /\ \A i \in 1 .. n : opened'[i] = opened[i]
        /\ opened'[n + 1] = e
    BY <1>5 DEF n
  <2> QED
    BY <1>4, <2>1, <2>2, <2>3, <2>4, <2>5, <2>6
<1>8. BudgetIs'
  BY <1>1, <1>2, BudgetStays
<1>9. OpenedIs'
  <2>1. opened' \in Seq(Searched')
    BY <1>3, <1>5
  <2>2. step' = "search" => opened' # <<>> /\ entries'[Last(opened')].extracts /\ part' \in 0 .. Len(Parts)'
    <3> SUFFICES ASSUME step' = "search" PROVE entries[e].extracts /\ 0 \in 0 .. Len(Parts)'
      BY <1>1, <1>6
    <3>1. entries[e].extracts
      BY <1>1, SourceTyped
    <3>2. Parts' = entries[e].payload.parts
      BY <1>1, <1>6 DEF Parts, Payload
    <3>3. Len(entries[e].payload.parts) \in Nat
      BY <1>2, <1>4, SourceTyped
    <3> QED
      BY <3>1, <3>2, <3>3
  <2>3. \A i, j \in DOMAIN opened' : opened'[i] = opened'[j] => i = j
    <3>1. \A i \in 1 .. Len(opened) : opened[i] # e
      BY <1>5, <1>7 DEF ToSet
    <3>2. \A i \in DOMAIN opened' : i \in 1 .. Len(opened) \/ i = Len(opened) + 1
      BY <1>5
    <3>3. \A i, j \in 1 .. Len(opened) : opened[i] = opened[j] => i = j
      BY <1>2, <1>5 DEF OpenedIs
    <3> QED
      BY <1>5, <3>1, <3>2, <3>3
  <2>4. step' \notin {"check", "done"}
    BY <1>1
  <2> QED
    BY <2>1, <2>2, <2>3, <2>4 DEF OpenedIs
<1>10. DomainsAre'
  BY <1>1, <1>2 DEF DomainsAre
<1>11. FoundIs'
  <2> SUFFICES ASSUME ~budget.limitHit PROVE FoundIs'
    BY <1>1 DEF FoundIs
  <2>1. Found = {site \in Findable : Tried(site[1], site[2])} /\ Found' = Found
    BY <1>1, <1>2 DEF FoundIs, Found
  <2>2. ASSUME NEW site \in Findable PROVE Tried(site[1], site[2])' <=> Tried(site[1], site[2])
    <3>1. PICK d \in Searched : /\ entries[d].extracts
                                /\ \E i \in DOMAIN entries[d].payload.parts : site = <<d, i>>
      BY FindableIs
    <3>2. PICK i \in DOMAIN entries[d].payload.parts : site = <<d, i>>
      BY <3>1
    <3>3. i >= 1 /\ i \in Nat
      BY <1>2, SearchedListed, SourceTyped
    <3>4. Tried(d, i) <=> d \in ToSet(opened)
      BY <1>1 DEF Tried
    <3>5. Tried(d, i)' <=> d \in ToSet(opened) \cup {e} /\ (step' = "search" /\ d = e => i <= 0)
      BY <1>1, <1>6, <1>7 DEF Tried
    <3>6. d = e => step' = "search"
      BY <1>1, <3>1
    <3>7. Tried(d, i)' <=> Tried(d, i)
      BY <1>7, <3>3, <3>4, <3>5, <3>6
    <3>8. site[1] = d /\ site[2] = i
      BY <3>2
    <3> QED
      BY <3>7, <3>8
  <2>3. Found' = {site \in Findable' : Tried(site[1], site[2])'}
    BY <1>3, <2>1, <2>2
  <2>4. {stream \in ToSet(Parts)' :
            HasRole(stream) /\ FitsAlone(stream) /\ \E j \in 1 .. part' : Parts'[j] = stream} = {}
    <3>1. 1 .. part' = {}
      BY <1>1
    <3> QED
      BY <3>1
  <2> QED
    BY <1>1, <2>3, <2>4 DEF FoundIs
<1>12. CoverageIs'
  BY <1>1, <1>2 DEF CoverageIs, NoCoverage
<1> QED
  BY <1>1, <1>3, <1>8, <1>9, <1>10, <1>11, <1>12 DEF Inv, SearchInv

LEMMA CloseEntryKeeps == Inv /\ CloseEntry => Inv'
<1> SUFFICES ASSUME Inv, CloseEntry PROVE Inv'
  OBVIOUS
<1>1. /\ UNCHANGED <<entries, facts, candidates, opened, budget, part, kept, domains, coverage>>
      /\ step = "search" /\ step' = "open" /\ part = Len(Parts)
  BY DEF CloseEntry
<1>2. BudgetIs /\ Decoded /\ candidates = Candidates /\ OpenedIs /\ DomainsAre /\ FoundIs /\ coverage = NoCoverage
  BY <1>1, Searching
<1>3. Decoded' /\ candidates' = Candidates' /\ Searched' = Searched /\ Findable' = Findable
  BY <1>1, <1>2, SourcesStay
<1>4. BudgetIs'
  BY <1>1, <1>2, BudgetStays
<1>5. OpenedIs'
  BY <1>1, <1>2, <1>3 DEF OpenedIs
<1>6. DomainsAre'
  BY <1>1, <1>2 DEF DomainsAre
<1>7. FoundIs'
  <2>1. Found' = Found
    BY <1>1 DEF Found
  <2>2. ASSUME NEW site \in Findable PROVE Tried(site[1], site[2])' <=> Tried(site[1], site[2])
    <3>1. PICK d \in Searched : \E i \in DOMAIN entries[d].payload.parts : site = <<d, i>>
      BY FindableIs
    <3>2. PICK i \in DOMAIN entries[d].payload.parts : site = <<d, i>>
      BY <3>1
    <3>3. d = Last(opened) => i <= part
      <4>1. entries[d].payload.parts \in Seq(NestedStream)
        BY <1>2, SearchedListed, SourceTyped
      <4>2. i <= Len(entries[d].payload.parts)
        BY <4>1
      <4> QED
        BY <1>1, <4>2 DEF Parts, Payload
    <3>4. Tried(d, i)' <=> Tried(d, i)
      BY <1>1, <3>3 DEF Tried
    <3>5. site[1] = d /\ site[2] = i
      BY <3>2
    <3> QED
      BY <3>4, <3>5
  <2> QED
    BY <1>1, <1>2, <1>3, <2>1, <2>2 DEF FoundIs
<1>8. CoverageIs'
  BY <1>1, <1>2 DEF CoverageIs, NoCoverage
<1> QED
  BY <1>1, <1>3, <1>4, <1>5, <1>6, <1>7, <1>8 DEF Inv, SearchInv

-----------------------------------------------------------------------------
(***************************************************************************)
(* The steps that take a part of the open entry.                           *)
(***************************************************************************)
\* Where the search is.
LEMMA OpenEntryIs ==
  ASSUME Decoded, candidates = Candidates, OpenedIs, step = "search", part < Len(Parts)
  PROVE  /\ Last(opened) \in Searched /\ Last(opened) \in ToSet(opened)
         /\ Last(opened) \in DOMAIN entries /\ entries[Last(opened)].extracts
         /\ part \in Nat /\ part + 1 \in DOMAIN Parts /\ Len(Parts) \in Nat
         /\ Parts = entries[Last(opened)].payload.parts /\ Parts \in Seq(NestedStream)
         /\ Parts[part + 1] \in NestedStream /\ Parts[part + 1].len \in Nat
         /\ Parts[part + 1].cap \in Nat
         /\ HasRole(Parts[part + 1]) => Parts[part + 1].len >= HeaderLen
<1> DEFINE e == Last(opened)
<1>1. opened \in Seq(Searched) /\ opened # <<>> /\ entries[e].extracts /\ part \in 0 .. Len(Parts)
  BY DEF OpenedIs
<1>2. Len(opened) \in 1 .. Len(opened) /\ DOMAIN opened = 1 .. Len(opened) /\ e = opened[Len(opened)]
  BY <1>1 DEF Last
<1>3. e \in Searched /\ e \in ToSet(opened)
  BY <1>1, <1>2 DEF ToSet
<1>4. e \in DOMAIN entries
  BY <1>3, SearchedListed
<1> HIDE DEF e
<1>5. entries[e].payload.parts \in Seq(NestedStream)
      /\ \A i \in DOMAIN entries[e].payload.parts :
           HasRole(entries[e].payload.parts[i]) => entries[e].payload.parts[i].len >= HeaderLen
  BY <1>4, SourceTyped
<1>6. Parts = entries[e].payload.parts
  BY DEF Parts, Payload, e
<1> DEFINE parts == Parts
<1>7. parts \in Seq(NestedStream) /\ part \in 0 .. Len(parts) /\ part < Len(parts)
  BY <1>1, <1>5, <1>6
<1> HIDE DEF parts
<1>8. Len(parts) \in Nat /\ part \in Nat /\ part + 1 \in DOMAIN parts /\ parts[part + 1] \in NestedStream
  BY <1>7
<1>9. parts[part + 1].len \in Nat /\ parts[part + 1].cap \in Nat
  BY <1>8 DEF NestedStream
<1> QED
  BY <1>1, <1>3, <1>4, <1>5, <1>6, <1>7, <1>8, <1>9 DEF parts, e

LEMMA PartTaken ==
  ASSUME Decoded, candidates = Candidates, OpenedIs, step = "search", part < Len(Parts),
         UNCHANGED <<step, entries, facts, candidates, opened>>, part' = part + 1
  PROVE  /\ OpenedIs'
         /\ Found = {site \in Findable : Tried(site[1], site[2])} =>
              (Found \cup (IF IsFindable(Last(opened), part + 1) THEN {<<Last(opened), part + 1>>} ELSE {})
                 = {site \in Findable' : Tried(site[1], site[2])'})
<1> DEFINE e == Last(opened)
           new == <<e, part + 1>>
<1>1. /\ e \in Searched /\ e \in ToSet(opened) /\ entries[e].extracts
      /\ part \in Nat /\ part + 1 \in DOMAIN Parts /\ Len(Parts) \in Nat /\ Parts = entries[e].payload.parts
  BY OpenEntryIs
<1>2. Searched' = Searched /\ Findable' = Findable /\ Parts' = Parts
  BY SourcesStay DEF Parts, Payload
<1>3. OpenedIs'
  <2>1. part' \in 0 .. Len(Parts)'
    <3> DEFINE n == Len(Parts)
    <3>1. n \in Nat /\ part \in Nat /\ part < n /\ part' = part + 1 /\ n' = n
      BY <1>1, <1>2
    <3> QED
      BY <3>1
  <2> QED
    BY <1>2, <2>1 DEF OpenedIs
<1>4. ASSUME NEW site \in Findable
      PROVE  Tried(site[1], site[2])' <=> (Tried(site[1], site[2]) \/ site = new)
  <2>1. PICK d \in Searched : \E i \in DOMAIN entries[d].payload.parts : site = <<d, i>>
    BY FindableIs
  <2>2. PICK i \in DOMAIN entries[d].payload.parts : site = <<d, i>>
    BY <2>1
  <2>3. i \in Nat
    <3>1. entries[d].payload.parts \in Seq(NestedStream)
      BY <2>1, SearchedListed, SourceTyped
    <3> QED
      BY <3>1
  <2>4. Tried(d, i) <=> d \in ToSet(opened) /\ (d = e => i <= part)
    BY DEF Tried
  <2>5. Tried(d, i)' <=> d \in ToSet(opened) /\ (d = e => i <= part + 1)
    BY DEF Tried
  <2>6. site = new <=> d = e /\ i = part + 1
    BY <2>2
  <2>7. Tried(d, i)' <=> (Tried(d, i) \/ site = new)
    BY <1>1, <2>3, <2>4, <2>5, <2>6
  <2>8. site[1] = d /\ site[2] = i
    BY <2>2
  <2> QED
    BY <2>7, <2>8
<1>5. new \in Findable <=> IsFindable(e, part + 1)
  <2>1. IsFindable(e, part + 1) => new \in Findable
    BY <1>1, FindableIs
  <2>2. ASSUME new \in Findable PROVE IsFindable(e, part + 1)
    <3>1. PICK d \in Searched : \E i \in DOMAIN entries[d].payload.parts : IsFindable(d, i) /\ new = <<d, i>>
      BY <2>2, FindableIs
    <3> QED
      BY <3>1
  <2> QED
    BY <2>1, <2>2
<1> HIDE DEF new
<1>6. Found = {site \in Findable : Tried(site[1], site[2])} =>
        Found \cup (IF IsFindable(e, part + 1) THEN {new} ELSE {})
          = {site \in Findable : Tried(site[1], site[2])'}
  BY <1>4, <1>5
<1> QED
  BY <1>2, <1>3, <1>6 DEF new

\* Giving up the entry for want of budget.
LEMMA GivenUp ==
  ASSUME Inv, step = "search", GiveUp,
         UNCHANGED <<gate, entries, facts, candidates, opened, coverage, status>>
  PROVE  Inv'
<1>1. /\ UNCHANGED <<part, kept, domains>> /\ step' = "open"
      /\ budget' = [budget EXCEPT !.limitHit = TRUE]
  BY DEF GiveUp
<1>2. BudgetIs /\ Decoded /\ candidates = Candidates /\ OpenedIs /\ DomainsAre /\ coverage = NoCoverage
  BY Searching
<1>3. Decoded' /\ candidates' = Candidates' /\ Searched' = Searched
  BY <1>2, SourcesStay
<1>4. /\ budget' \in [probes: Nat, streams: Nat, bytes: Nat, limitHit: BOOLEAN] /\ budget'.limitHit
      /\ budget'.streams = budget.streams /\ budget'.bytes = budget.bytes
  BY <1>1, <1>2 DEF BudgetIs
<1>5. BudgetIs'
  BY <1>1, <1>2, <1>4 DEF BudgetIs, KeptIsPaid
<1>6. OpenedIs'
  BY <1>1, <1>2, <1>3 DEF OpenedIs
<1>7. DomainsAre'
  BY <1>1, <1>2 DEF DomainsAre
<1>8. FoundIs'
  BY <1>4 DEF FoundIs
<1>9. CoverageIs'
  BY <1>2 DEF CoverageIs, NoCoverage
<1> QED
  BY <1>1, <1>3, <1>5, <1>6, <1>7, <1>8, <1>9 DEF Inv, SearchInv

\* Taking a part keeps the books: what is kept is paid for.
LEMMA PaidFor ==
  ASSUME BudgetIs, Decoded, DomainsAre, UNCHANGED entries,
         NEW e \in DOMAIN entries, NEW i \in DOMAIN entries[e].payload.parts,
         budget' \in [probes: Nat, streams: Nat, bytes: Nat, limitHit: BOOLEAN],
         budget'.streams <= budget.streams, budget'.bytes <= budget.bytes,
         \/ UNCHANGED domains
         \/ /\ domains' = Append(domains, DomainOf(e, i))
            /\ budget'.streams + 1 <= budget.streams
            /\ budget'.bytes + entries[e].payload.parts[i].len <= budget.bytes
  PROVE  BudgetIs' /\ DomainsAre'
<1> DEFINE f == [k \in DOMAIN domains |-> domains[k].stream.len]
           sum == SumFunctionOnSet(f, DOMAIN domains)
           new == DomainOf(e, i)
           len == entries[e].payload.parts[i].len
           n == Len(domains)
<1>1. n <= MaxStreams - budget.streams /\ sum <= MaxTotalBytes - budget.bytes
      /\ budget \in [probes: Nat, streams: Nat, bytes: Nat, limitHit: BOOLEAN] /\ n \in Nat
  BY DEF BudgetIs, KeptIsPaid, DomainsAre
<1>2. len \in Nat
  <2>1. entries[e].payload.parts \in Seq(NestedStream)
    BY SourceTyped
  <2>2. entries[e].payload.parts[i] \in NestedStream
    BY <2>1
  <2> QED
    BY <2>2 DEF NestedStream
<1>3. CASE UNCHANGED domains
  <2>1. DomainsAre'
    BY <1>3 DEF DomainsAre
  <2>2. n' = n /\ sum' = sum /\ sum \in Int
    <3>1. sum \in Nat
      <4>1. DOMAIN domains = 1 .. n /\ IsFiniteSet(1 .. n)
        BY <1>1, FS_Interval DEF DomainsAre
      <4>2. \A k \in DOMAIN domains : f[k] \in Nat
        <5> DEFINE D == [entry: Nat, offset: Nat, spelling: STRING, stream: StreamBytes]
        <5>1. domains \in Seq(D)
          BY DEF DomainsAre
        <5>2. \A d \in D : d.stream.len \in Nat
          BY DEF StreamBytes
        <5> HIDE DEF D
        <5>3. \A k \in DOMAIN domains : domains[k] \in D
          BY <5>1
        <5> QED
          BY <5>2, <5>3
      <4> HIDE DEF f, n
      <4> QED
        BY <4>1, <4>2, SumIs
    <3> QED
      BY <1>3, <3>1
  <2> HIDE DEF n, sum
  <2>3. n <= MaxStreams - budget'.streams /\ sum <= MaxTotalBytes - budget'.bytes
    BY <1>1, <2>2, GeometryAssumption
  <2>4. KeptIsPaid'
    BY <2>2, <2>3 DEF KeptIsPaid, n, sum, f
  <2> QED
    BY <2>1, <2>4 DEF BudgetIs
<1>4. CASE /\ domains' = Append(domains, new)
           /\ budget'.streams + 1 <= budget.streams /\ budget'.bytes + len <= budget.bytes
  <2>1. DomainsAre' /\ n' = n + 1 /\ sum \in Nat /\ sum' = sum + len
    BY <1>4, OneDomainMore
  <2>2. /\ budget.streams \in Nat /\ budget.bytes \in Nat /\ budget'.streams \in Nat /\ budget'.bytes \in Nat
        /\ budget'.streams + 1 <= budget.streams /\ budget'.bytes + len <= budget.bytes
    BY <1>1, <1>4
  <2> HIDE DEF n, sum, len, new
  <2>4. n + 1 <= MaxStreams - budget'.streams /\ sum + len <= MaxTotalBytes - budget'.bytes
    BY SMTT(30), <1>1, <1>2, <2>1, <2>2, GeometryAssumption
  <2>3. KeptIsPaid'
    BY <2>1, <2>4 DEF KeptIsPaid, n, sum, f
  <2> QED
    BY <2>1, <2>3 DEF BudgetIs
<1> QED
  BY <1>3, <1>4

LEMMA TakeDirectKeeps == Inv /\ TakeDirect => Inv'
<1> SUFFICES ASSUME Inv, TakeDirect PROVE Inv'
  OBVIOUS
<1> DEFINE e == Last(opened)
           stream == Parts[part + 1]
<1>1. /\ UNCHANGED <<gate, entries, facts, candidates, opened, coverage, status>>
      /\ step = "search" /\ Payload.storage = "direct" /\ part < Len(Parts)
  BY DEF TakeDirect
<1>2. BudgetIs /\ Decoded /\ candidates = Candidates /\ OpenedIs /\ DomainsAre /\ FoundIs /\ coverage = NoCoverage
  BY <1>1, Searching
<1>3. Decoded' /\ candidates' = Candidates' /\ Searched' = Searched /\ Payload' = Payload
  BY <1>1, <1>2, SourcesStay DEF Payload
<1>4. /\ e \in DOMAIN entries /\ part + 1 \in DOMAIN entries[e].payload.parts
      /\ Parts = entries[e].payload.parts /\ stream.len \in Nat /\ stream = entries[e].payload.parts[part + 1]
  BY <1>1, <1>2, OpenEntryIs
<1>5. IsFindable(e, part + 1) <=> HasRole(stream) /\ IsStart(Parts, part + 1)
  BY <1>1, <1>4 DEF IsFindable, Payload
<1>6. CASE GiveUp
  BY <1>1, <1>6, GivenUp
<1>7. CASE ~GiveUp
  <2>1. /\ part' = part + 1 /\ UNCHANGED step
        /\ \/ ~IsStart(Parts, part + 1) /\ UNCHANGED <<budget, kept, domains>>
           \/ /\ IsStart(Parts, part + 1) /\ ~(budget.streams = 0 \/ stream.len > budget.bytes)
              /\ budget' = [budget EXCEPT !.streams = @ - 1, !.bytes = @ - stream.len]
              /\ IF HasRole(stream) THEN Keep(stream) ELSE UNCHANGED <<kept, domains>>
    BY <1>7 DEF TakeDirect
  <2> HIDE DEF stream
  <2>2. /\ budget \in [probes: Nat, streams: Nat, bytes: Nat, limitHit: BOOLEAN]
        /\ budget' \in [probes: Nat, streams: Nat, bytes: Nat, limitHit: BOOLEAN]
        /\ budget'.limitHit = budget.limitHit
        /\ budget'.streams <= budget.streams /\ budget'.bytes <= budget.bytes
        /\ budget' # budget =>
             budget'.streams + 1 <= budget.streams /\ budget'.bytes + stream.len <= budget.bytes
    <3>1. budget \in [probes: Nat, streams: Nat, bytes: Nat, limitHit: BOOLEAN]
      BY <1>2 DEF BudgetIs
    <3>2. CASE budget' = budget
      BY <3>1, <3>2
    <3>3. CASE /\ ~(budget.streams = 0 \/ stream.len > budget.bytes)
               /\ budget' = [budget EXCEPT !.streams = @ - 1, !.bytes = @ - stream.len]
      <4>1. budget.streams \in Nat /\ budget.bytes \in Nat /\ budget.streams # 0 /\ stream.len <= budget.bytes
        BY <1>4, <3>1, <3>3
      <4>2. budget.streams - 1 \in Nat /\ budget.bytes - stream.len \in Nat
        BY <1>4, <4>1
      <4>3. /\ budget' \in [probes: Nat, streams: Nat, bytes: Nat, limitHit: BOOLEAN]
            /\ budget'.limitHit = budget.limitHit
            /\ budget'.streams = budget.streams - 1 /\ budget'.bytes = budget.bytes - stream.len
        BY <3>1, <3>3, <4>2
      <4> QED
        BY <1>4, <3>1, <4>1, <4>3
    <3> QED
      BY <2>1, <3>2, <3>3
  <2>3. \/ ~IsFindable(e, part + 1) /\ UNCHANGED <<kept, domains>>
        \/ /\ IsFindable(e, part + 1) /\ budget' # budget
           /\ domains' = Append(domains, DomainOf(e, part + 1))
    <3>1. budget \in [probes: Nat, streams: Nat, bytes: Nat, limitHit: BOOLEAN]
      BY <1>2 DEF BudgetIs
    <3>2. ASSUME budget' = [budget EXCEPT !.streams = @ - 1, !.bytes = @ - stream.len]
          PROVE budget' # budget
      <4>1. budget'.streams = budget.streams - 1 /\ budget.streams \in Nat
        BY <3>1, <3>2
      <4> QED
        BY <4>1
    <3> QED
      BY <1>4, <1>5, <2>1, <3>2 DEF Keep
  <2>4. BudgetIs' /\ DomainsAre'
    BY <1>1, <1>2, <1>4, <2>2, <2>3, PaidFor
  <2>5. OpenedIs' /\ (Found = {site \in Findable : Tried(site[1], site[2])} =>
              (Found \cup (IF IsFindable(e, part + 1) THEN {<<e, part + 1>>} ELSE {})
                 = {site \in Findable' : Tried(site[1], site[2])'}))
    BY <1>1, <1>2, <2>1, PartTaken
  <2>6. Found' = Found \cup (IF IsFindable(e, part + 1) THEN {<<e, part + 1>>} ELSE {})
    <3>1. CASE UNCHANGED domains /\ ~IsFindable(e, part + 1)
      BY <3>1 DEF Found
    <3>2. CASE /\ IsFindable(e, part + 1)
               /\ domains' = Append(domains, DomainOf(e, part + 1))
      BY <1>1, <1>2, <1>4, <3>2, OneDomainMore
    <3> QED
      BY <2>3, <3>1, <3>2
  <2>7. FoundIs'
    BY <1>1, <1>2, <1>3, <2>2, <2>5, <2>6 DEF FoundIs
  <2>8. CoverageIs'
    BY <1>1, <1>2 DEF CoverageIs, NoCoverage
  <2> QED
    BY <1>1, <1>3, <2>1, <2>4, <2>5, <2>7, <2>8 DEF Inv, SearchInv
<1> QED
  BY <1>6, <1>7

\* What a probe expands to, and when it does so as it would without a budget.
LEMMA ProbeIs ==
  ASSUME NEW stream \in NestedStream, NEW remaining \in Nat, remaining > 0,
         NEW limit, limit = InflateLimit(stream, remaining),
         NEW expanded, expanded = Expanded(stream, limit)
  PROVE  /\ expanded \in Nat /\ Spend(expanded, remaining) \in Nat
         /\ Spend(expanded, remaining) <= remaining /\ expanded <= remaining + 1
         /\ Spend(expanded, remaining) = IF expanded > remaining THEN 0 ELSE remaining - expanded
         /\ Inflates(stream, limit) =>
              expanded = stream.len /\ stream.len <= remaining
              /\ Spend(expanded, remaining) + stream.len = remaining
         /\ stream.len > 0 /\ ~CutShort(expanded, remaining) =>
              (Inflates(stream, limit) <=> FitsAlone(stream))
<1> DEFINE len == stream.len
           cap == stream.cap
           Limits == {MaxFileSize, MaxTotalBytes, remaining, cap}
           Alone == Min({MaxFileSize, MaxTotalBytes, cap})
           spent == Spend(expanded, remaining)
<1>1. len \in Nat /\ cap \in Nat /\ MaxFileSize \in Nat /\ MaxTotalBytes \in Nat
  BY GeometryAssumption DEF NestedStream
<1> HIDE DEF len, cap
<1>2. limit \in Limits /\ \A x \in Limits : limit <= x
  <2>1. Limits \in SUBSET Nat /\ Limits # {}
    BY <1>1
  <2>2. limit = Min(Limits)
    BY DEF InflateLimit, cap
  <2> HIDE DEF Limits
  <2> QED
    BY <2>1, <2>2, MinIs
<1>3. /\ limit \in Nat /\ limit \in {MaxFileSize, MaxTotalBytes, remaining, cap}
      /\ limit <= MaxFileSize /\ limit <= MaxTotalBytes /\ limit <= remaining /\ limit <= cap
  BY <1>1, <1>2
<1>4. /\ Alone \in {MaxFileSize, MaxTotalBytes, cap} /\ Alone \in Nat
      /\ Alone <= MaxFileSize /\ Alone <= MaxTotalBytes /\ Alone <= cap
  <2> DEFINE S == {MaxFileSize, MaxTotalBytes, cap}
  <2>1. S \in SUBSET Nat /\ S # {}
    BY <1>1
  <2> HIDE DEF S
  <2>2. Min(S) \in S /\ \A x \in S : Min(S) <= x
    BY <2>1, MinIs
  <2> QED
    BY <1>1, <2>2 DEF S
<1>5. /\ limit = 0 => expanded = 0
      /\ limit > 0 => /\ expanded \in {len, limit + 1}
                      /\ expanded <= len /\ expanded <= limit + 1
      /\ expanded \in Nat
  <2> DEFINE S == {len, limit + 1}
  <2>1. S \in SUBSET Nat /\ S # {}
    BY <1>1, <1>3
  <2>2. limit > 0 => expanded = Min(S)
    BY <1>3 DEF Expanded, len
  <2>3. limit = 0 => expanded = 0
    BY DEF Expanded
  <2> HIDE DEF S
  <2>4. Min(S) \in S /\ \A x \in S : Min(S) <= x
    BY <2>1, MinIs
  <2> QED
    BY <1>1, <1>3, <2>1, <2>2, <2>3, <2>4 DEF S
<1>6. spent = IF expanded > remaining THEN 0 ELSE remaining - expanded
  <2> DEFINE d == remaining - expanded
  <2>1. spent = Max({0, d}) /\ d \in Int
    BY <1>5 DEF Spend
  <2>2. (d < 0 <=> expanded > remaining) /\ remaining \in Int
    BY <1>5
  <2>3. Max({0, d}) = CHOOSE x \in {0, d} : \A y \in {0, d} : x >= y
    BY DEF Max
  <2> HIDE DEF d
  <2>4. \A x : x = (CHOOSE z \in {0, d} : \A y \in {0, d} : z >= y) => x = IF d < 0 THEN 0 ELSE d
    BY <2>1
  <2>5. Max({0, d}) = IF d < 0 THEN 0 ELSE d
    BY <2>3, <2>4
  <2> QED
    BY <2>1, <2>2, <2>5 DEF d
<1>7. Inflates(stream, limit) <=> stream.sound /\ limit > 0 /\ expanded <= limit
  BY DEF Inflates
<1>8. FitsAlone(stream) <=> stream.sound /\ cap > 0 /\ len <= Alone
  BY DEF FitsAlone, len, cap
<1> HIDE DEF Alone, Limits, spent
<1>9. spent \in Nat /\ spent <= remaining /\ expanded <= remaining + 1
  BY <1>3, <1>5, <1>6
<1>10. Inflates(stream, limit) => expanded = len /\ len <= remaining /\ spent + len = remaining
  BY <1>1, <1>3, <1>5, <1>6, <1>7
<1>11. ASSUME len > 0, ~(expanded > remaining)
       PROVE Inflates(stream, limit) <=> FitsAlone(stream)
  <2>1. limit > 0 /\ expanded <= limit => cap > 0 /\ len <= Alone
    BY <1>1, <1>3, <1>4, <1>5
  <2>2. ASSUME cap > 0, len <= Alone PROVE limit > 0 /\ expanded <= limit
    BY <1>1, <1>3, <1>4, <1>5, <1>11, <2>2
  <2> QED
    BY <1>7, <1>8, <2>1, <2>2
<1> QED
  BY <1>5, <1>6, <1>9, <1>10, <1>11 DEF spent, len, CutShort

LEMMA TakeProbeKeeps == Inv /\ TakeProbe => Inv'
<1> SUFFICES ASSUME Inv, TakeProbe PROVE Inv'
  OBVIOUS
<1> DEFINE e == Last(opened)
           stream == Parts[part + 1]
           limit == InflateLimit(stream, budget.bytes)
           expanded == Expanded(stream, limit)
           accepted == Inflates(stream, limit) /\ HasRole(stream) /\ Bytes(stream) \notin kept
<1>1. /\ UNCHANGED <<gate, entries, facts, candidates, opened, coverage, status>>
      /\ step = "search" /\ Payload.storage = "wrapped" /\ part < Len(Parts)
  BY DEF TakeProbe
<1>2. BudgetIs /\ Decoded /\ candidates = Candidates /\ OpenedIs /\ DomainsAre /\ FoundIs /\ coverage = NoCoverage
  BY <1>1, Searching
<1>3. Decoded' /\ candidates' = Candidates' /\ Searched' = Searched /\ Payload' = Payload /\ Parts' = Parts
  BY <1>1, <1>2, SourcesStay DEF Payload, Parts
<1>4. /\ e \in DOMAIN entries /\ part + 1 \in DOMAIN entries[e].payload.parts /\ part \in Nat
      /\ part + 1 \in DOMAIN Parts
      /\ Parts = entries[e].payload.parts /\ stream \in NestedStream /\ stream.len \in Nat
      /\ stream = entries[e].payload.parts[part + 1]
      /\ HasRole(stream) => stream.len >= 1
  BY <1>1, <1>2, OpenEntryIs DEF HeaderLen
<1>5. CASE 0 \in {budget.probes, budget.bytes, budget.streams}
  <2>1. GiveUp
    BY <1>5 DEF TakeProbe
  <2> QED
    BY <1>1, <2>1, GivenUp
<1>6. CASE 0 \notin {budget.probes, budget.bytes, budget.streams}
  <2>1. /\ budget' = [probes |-> budget.probes - 1,
                      streams |-> budget.streams - (IF accepted THEN 1 ELSE 0),
                      bytes |-> Spend(expanded, budget.bytes),
                      limitHit |-> budget.limitHit \/ CutShort(expanded, budget.bytes)]
        /\ part' = part + 1 /\ UNCHANGED step
        /\ IF accepted THEN Keep(stream) ELSE UNCHANGED <<kept, domains>>
    BY <1>6 DEF TakeProbe
  <2>2. /\ budget.probes \in Nat /\ budget.streams \in Nat /\ budget.bytes \in Nat
        /\ budget.limitHit \in BOOLEAN
        /\ budget.probes > 0 /\ budget.streams > 0 /\ budget.bytes > 0
    <3>1. budget \in [probes: Nat, streams: Nat, bytes: Nat, limitHit: BOOLEAN]
      BY <1>2 DEF BudgetIs
    <3> QED
      BY <1>6, <3>1
  <2>3. /\ expanded \in Nat /\ Spend(expanded, budget.bytes) \in Nat
        /\ Spend(expanded, budget.bytes) <= budget.bytes
        /\ Inflates(stream, limit) => Spend(expanded, budget.bytes) + stream.len = budget.bytes
        /\ stream.len > 0 /\ ~CutShort(expanded, budget.bytes) =>
             (Inflates(stream, limit) <=> FitsAlone(stream))
    BY <1>4, <2>2, ProbeIs
  <2>4. CutShort(expanded, budget.bytes) \in BOOLEAN
    BY DEF CutShort
  <2> DEFINE one == IF accepted THEN 1 ELSE 0
             spend == Spend(expanded, budget.bytes)
             cut == CutShort(expanded, budget.bytes)
  <2>5. one \in {0, 1} /\ (accepted => one = 1 /\ spend + stream.len = budget.bytes)
    BY <2>3
  <2> HIDE DEF stream, expanded, limit, accepted, spend, one, cut
  <2>6. /\ budget'.probes = budget.probes - 1 /\ budget'.streams = budget.streams - one
        /\ budget'.bytes = spend /\ budget'.limitHit = (budget.limitHit \/ cut)
        /\ budget' \in [probes: Nat, streams: Nat, bytes: Nat, limitHit: BOOLEAN]
    <3>1. budget' = [probes |-> budget.probes - 1, streams |-> budget.streams - one,
                     bytes |-> spend, limitHit |-> budget.limitHit \/ cut]
      BY <2>1 DEF one, spend, cut
    <3>2. budget.probes - 1 \in Nat /\ budget.streams - one \in Nat /\ spend \in Nat
          /\ (budget.limitHit \/ cut) \in BOOLEAN
      BY <2>2, <2>3, <2>5 DEF spend
    <3> QED
      BY <3>1, <3>2
  <2>7. budget'.streams <= budget.streams /\ budget'.bytes <= budget.bytes
        /\ (accepted => budget'.streams + 1 <= budget.streams
                        /\ budget'.bytes + stream.len <= budget.bytes)
    <3>1. spend \in Nat /\ spend <= budget.bytes
      BY <2>3 DEF spend
    <3> QED
      BY <1>4, <2>2, <2>5, <2>6, <3>1
  <2>8. \/ ~accepted /\ UNCHANGED <<kept, domains>>
        \/ /\ accepted /\ kept' = kept \cup {Bytes(stream)}
           /\ domains' = Append(domains, DomainOf(e, part + 1))
    BY <1>4, <2>1 DEF Keep
  <2>9. BudgetIs' /\ DomainsAre'
    BY <1>1, <1>2, <1>4, <2>6, <2>7, <2>8, PaidFor
  <2>10. OpenedIs' /\ (Found = {site \in Findable : Tried(site[1], site[2])} =>
              (Found \cup (IF IsFindable(e, part + 1) THEN {<<e, part + 1>>} ELSE {})
                 = {site \in Findable' : Tried(site[1], site[2])'}))
    BY <1>1, <1>2, <2>1, PartTaken
  <2>11. Found' = Found \cup (IF accepted THEN {<<e, part + 1>>} ELSE {})
    <3>1. CASE UNCHANGED domains /\ ~accepted
      BY <3>1 DEF Found
    <3>2. CASE /\ accepted
               /\ domains' = Append(domains, DomainOf(e, part + 1))
      BY <1>1, <1>2, <1>4, <3>2, OneDomainMore
    <3> QED
      BY <2>8, <3>1, <3>2
  <2>12. FoundIs'
    <3> SUFFICES ASSUME ~budget'.limitHit PROVE FoundIs'
      BY DEF FoundIs
    <3>1. ~budget.limitHit /\ ~cut
      BY <2>6
    <3> DEFINE Keepable(s) == HasRole(s) /\ FitsAlone(s)
               Known == \E j \in 1 .. part : FitsAlone(Parts[j]) /\ Bytes(Parts[j]) = Bytes(stream)
    <3>2. /\ Found = {site \in Findable : Tried(site[1], site[2])}
          /\ kept = {Bytes(Parts[j]) : j \in {k \in 1 .. part : Keepable(Parts[k])}}
      BY <1>1, <1>2, <3>1 DEF FoundIs
    <3>3. HasRole(stream) => (Inflates(stream, limit) <=> FitsAlone(stream))
      BY <1>4, <2>3, <3>1 DEF cut
    <3>4. stream = Parts[part + 1]
      BY DEF stream
    <3>5. HasRole(stream) => (Bytes(stream) \in kept <=> Known)
      <4>1. ASSUME HasRole(stream), NEW j \in 1 .. part, Bytes(Parts[j]) = Bytes(stream) PROVE HasRole(Parts[j])
        BY <4>1 DEF Bytes, HasRole
      <4> QED
        BY <3>2, <4>1
    <3>6. IsFindable(e, part + 1) <=> HasRole(stream) /\ FitsAlone(stream) /\ ~Known
      <4>1. 1 .. part + 1 - 1 = 1 .. part
        BY <1>4
      <4> QED
        BY <1>1, <1>4, <4>1 DEF IsFindable, Payload
    <3>7. accepted <=> IsFindable(e, part + 1)
      BY <3>3, <3>5, <3>6 DEF accepted
    <3>8. Found' = {site \in Findable' : Tried(site[1], site[2])'}
      BY <2>10, <2>11, <3>2, <3>7
    <3>9. kept' = {Bytes(Parts[j]) : j \in {k \in 1 .. part + 1 : Keepable(Parts[k])}}
      <4>1. \A j : j \in 1 .. part + 1 <=> j \in 1 .. part \/ j = part + 1
        BY <1>4
      <4>2. kept' = kept \cup (IF Keepable(stream) THEN {Bytes(stream)} ELSE {})
        BY <2>8, <3>3, <3>5, <3>6, <3>7
      <4> QED
        BY <3>2, <3>4, <4>1, <4>2
    <3> QED
      BY <1>3, <2>1, <3>8, <3>9 DEF FoundIs
  <2>13. CoverageIs'
    BY <1>1, <1>2 DEF CoverageIs, NoCoverage
  <2> QED
    BY <1>1, <1>3, <2>1, <2>9, <2>10, <2>12, <2>13 DEF Inv, SearchInv
<1> QED
  BY <1>5, <1>6

-----------------------------------------------------------------------------
(***************************************************************************)
(* What the invariant says of the report.                                  *)
(***************************************************************************)
LEMMA InvIsInductive == Inv /\ [GeometryNext]_vars => Inv'
<1> SUFFICES ASSUME Inv, [GeometryNext]_vars PROVE Inv'
  OBVIOUS
<1>1. CASE Refuse
  BY <1>1, RefuseKeeps
<1>2. CASE Decode
  BY <1>2, DecodeKeeps
<1>3. CASE SelectStreams
  BY <1>3, SelectStreamsKeeps
<1>4. CASE OpenEntry
  BY <1>4, OpenEntryKeeps
<1>5. CASE CloseEntry
  BY <1>5, CloseEntryKeeps
<1>6. CASE TakeDirect
  BY <1>6, TakeDirectKeeps
<1>7. CASE TakeProbe
  BY <1>7, TakeProbeKeeps
<1>8. CASE EndSearch
  BY <1>8, EndSearchKeeps
<1>9. CASE Conclude
  BY <1>9, ConcludeKeeps
<1>10. CASE UNCHANGED vars
  <2>1. /\ UNCHANGED <<step, entries, facts, candidates, opened, budget, part, kept, domains, coverage>>
    BY <1>10 DEF vars
  <2>2. Decoded => Decoded'
    BY <2>1, SourcesStay
  <2>3. candidates = Candidates => candidates' = Candidates'
    BY <2>1, SourcesStay
  <2>4. Searched' = Searched /\ Findable' = Findable /\ Found' = Found /\ Parts' = Parts /\ Payload' = Payload
    BY <2>1, SourcesStay DEF Found, Parts, Payload
  <2>5. BudgetIs'
    BY <2>1, BudgetStays DEF Inv
  <2>6. OpenedIs => OpenedIs'
    BY <2>1, <2>4 DEF OpenedIs, Unopened
  <2>7. DomainsAre => DomainsAre'
    BY <2>1 DEF DomainsAre
  <2>8. FoundIs => FoundIs'
    <3>1. \A e, i : Tried(e, i)' <=> Tried(e, i)
      BY <2>1 DEF Tried
    <3> QED
      BY <2>1, <2>4, <3>1 DEF FoundIs
  <2>9. CoverageIs => CoverageIs'
    <3>1. Normalize(domains, facts.ledger)' = Normalize(domains, facts.ledger)
      BY <2>1 DEF Normalize
    <3> QED
      BY <2>1, <3>1 DEF CoverageIs, NoCoverage
  <2>10. Untouched => Untouched'
    BY <2>1 DEF Untouched, FreshBudget, NoCoverage
  <2> QED
    BY <2>1, <2>2, <2>3, <2>5, <2>6, <2>7, <2>8, <2>9, <2>10 DEF Inv, SearchInv
<1> QED
  BY <1>1, <1>2, <1>3, <1>4, <1>5, <1>6, <1>7, <1>8, <1>9, <1>10 DEF GeometryNext

\* The search invariant: the budget is typed and shared, entries are opened
\* once each, domains are streams of searched entries, and until the budget is
\* hit the domains found are the findable streams of what was tried so far.
THEOREM SearchFollowsTheEntries == GeometrySpec => []Inv
<1>1. GeometryInit => Inv
  BY InitHolds
<1>2. Inv /\ [GeometryNext]_vars => Inv'
  BY InvIsInductive
<1> QED
  BY <1>1, <1>2, PTL DEF GeometrySpec

LEMMA CandidatesAreRead ==
  ASSUME Decoded, candidates = Candidates
  PROVE  ActiveWasRead
<1> SUFFICES ASSUME NEW e \in DOMAIN candidates, candidates[e] = "active",
                    ~(SoleCandidate /\ e \in Partitions)
             PROVE  e \in facts.read
  BY DEF ActiveWasRead
<1>1. e \in Eligible /\ e \in DOMAIN entries /\ entries[e].decoded /\ SelectionOf(e) = "active"
  BY DEF Candidates, Eligible
<1>2. NamesWhatItRead(entries, facts) /\ entries[e].path # NONE
  BY <1>1, SourceTyped
<1>3. ASSUME UniquePath(e), entries[e].path \in SourceStreams(facts) \cup ({facts.active} \ {NONE})
      PROVE  e \in facts.read
  <2>1. PICK d \in facts.read : entries[d].path = entries[e].path
    BY <1>2, <1>3 DEF NamesWhatItRead
  <2>2. d \in DOMAIN entries /\ entries[d].decoded
    BY <1>2 DEF NamesWhatItRead
  <2>3. d = e
    BY <1>3, <2>1, <2>2 DEF UniquePath
  <2> QED
    BY <2>3
<1>4. ASSUME LedgerNames(e) PROVE e \in facts.read
  BY <1>1, <1>2, <1>4 DEF LedgerNames, NamesWhatItRead
<1>5. \/ UniquePath(e) /\ facts.active = entries[e].path
      \/ UniquePath(e) /\ entries[e].path \in SourceStreams(facts)
      \/ LedgerNames(e)
  BY <1>1 DEF SelectionOf
<1> QED
  BY <1>2, <1>3, <1>4, <1>5

\* A stream is called active on the word of the codec only if the codec read
\* that very entry, whatever paths repeat (stream_candidates).
THEOREM ActiveStreamsWereRead == GeometrySpec => []ActiveWasRead
<1>1. Inv => ActiveWasRead
  <2>1. Untouched => ActiveWasRead
    BY DEF Untouched, ActiveWasRead
  <2> QED
    BY <2>1, CandidatesAreRead DEF Inv
<1> QED
  BY <1>1, SearchFollowsTheEntries, PTL

LEMMA FoundAtTheEnd ==
  ASSUME Inv
  PROVE  LossReported
<1> SUFFICES ASSUME step \in {"check", "done"}, ~budget.limitHit PROVE Found = Findable
  BY DEF LossReported
<1>1. CASE Untouched /\ entries = <<>>
  <2>1. Found = {}
    BY <1>1 DEF Untouched, Found
  <2>2. Searched = {}
    BY <1>1 DEF Untouched, Searched
  <2>3. Findable = {}
    <3> SUFFICES ASSUME NEW site \in Findable PROVE FALSE
      OBVIOUS
    <3> QED
      BY <2>2, FindableIs
  <2> QED
    BY <2>1, <2>3
<1>2. CASE Decoded /\ candidates = Candidates /\ SearchInv
  <2>1. Found = {site \in Findable : Tried(site[1], site[2])} /\ Searched \ ToSet(opened) = {}
    BY <1>2 DEF SearchInv, OpenedIs, FoundIs, Unopened
  <2>2. ASSUME NEW site \in Findable PROVE Tried(site[1], site[2])
    <3>1. PICK d \in Searched : \E i \in DOMAIN entries[d].payload.parts : site = <<d, i>>
      BY FindableIs
    <3> QED
      BY <2>1, <3>1 DEF Tried
  <2> QED
    BY <2>1, <2>2
<1> QED
  BY <1>1, <1>2 DEF Inv

\* Without the diagnostic geometry.byte_domain_limit the domains are exactly
\* those that a search without a budget finds (discover_nested_parasolid).
THEOREM LossIsReported == GeometrySpec => []LossReported
  BY FoundAtTheEnd, SearchFollowsTheEntries, PTL

\* Two lists of the same length without repetition, one within the other.
Distinct(f, n) == (\E V : f \in [1 .. n -> V]) /\ IsInjective(f)
Among(f, g, n) == \A i \in 1 .. n : \E j \in 1 .. n : g[j] = f[i]

LEMMA SameMembers ==
  ASSUME NEW n \in Nat, NEW f, NEW g, Distinct(f, n), Distinct(g, n), Among(f, g, n)
  PROVE  Among(g, f, n)
<1> DEFINE T == {g[i] : i \in 1 .. n}
<1>1. IsFiniteSet(1 .. n)
  <2>1. 1 \in Int /\ n \in Int
    OBVIOUS
  <2> QED
    BY <2>1, FS_Interval
<1>2. g \in Injection(1 .. n, T) /\ g \in Surjection(1 .. n, T)
  BY DEF Distinct, Injection, Surjection
<1>3. f \in Injection(1 .. n, T)
  BY DEF Distinct, Among, Injection
<1> HIDE DEF T
<1>4. IsFiniteSet(T) /\ Cardinality(T) = Cardinality(1 .. n)
  BY <1>1, <1>2, FS_Surjection
<1>5. f \in Surjection(1 .. n, T)
  BY <1>3, <1>4, FS_Injection
<1>6. (\A i \in 1 .. n : f[i] \in T) /\ (\A t \in T : \E i \in 1 .. n : f[i] = t)
  BY <1>5 DEF Surjection
<1> QED
  BY <1>6 DEF Among, T

\* Where the domains that were found lie, those of the ledger do.
LEMMA SitesAgree ==
  ASSUME NEW found \in Seq([entry: Nat, offset: Nat, spelling: STRING, stream: StreamBytes]),
         NEW actual \in Seq(LedgerDomain), DomainsAgree(found, actual)
  PROVE  /\ {<<found[i].entry, found[i].offset>> : i \in DOMAIN found}
              = {<<actual[i].entry, actual[i].offset>> : i \in DOMAIN actual}
         /\ \A i \in DOMAIN actual : \E j \in DOMAIN found :
              /\ found[j].entry = actual[i].entry /\ found[j].offset = actual[i].offset
              /\ found[j].stream = actual[i].stream
<1> DEFINE n == Len(found)
           f == Sites(actual)
           g == Sites(found)
<1>1. DOMAIN found = 1 .. n /\ DOMAIN actual = 1 .. n /\ n \in Nat
  <2>1. Len(actual) = Len(found)
    BY DEF DomainsAgree
  <2> QED
    BY <2>1
<1>2. /\ IsInjective(g) /\ IsInjective(f)
      /\ \A i \in DOMAIN actual : \E j \in DOMAIN found :
           g[j] = f[i] /\ found[j].stream = actual[i].stream
  BY DEF DomainsAgree
<1>3. /\ f = [i \in 1 .. n |-> <<actual[i].entry, actual[i].offset>>]
      /\ g = [i \in 1 .. n |-> <<found[i].entry, found[i].offset>>]
  BY <1>1 DEF Sites
<1> HIDE DEF f, g, n
<1>4. {f[i] : i \in 1 .. n} = {g[i] : i \in 1 .. n}
  <2> DEFINE V == {f[i] : i \in 1 .. n} \cup {g[i] : i \in 1 .. n}
  <2>1. f \in [1 .. n -> V] /\ g \in [1 .. n -> V]
    BY <1>3
  <2> HIDE DEF V
  <2>2. Among(f, g, n)
    BY <1>1, <1>2 DEF Among
  <2>3. Distinct(f, n) /\ Distinct(g, n)
    BY <1>2, <2>1 DEF Distinct
  <2>4. Among(g, f, n)
    BY <1>1, <2>2, <2>3, SameMembers
  <2>5. /\ \A i \in 1 .. n : \E j \in 1 .. n : g[j] = f[i]
        /\ \A i \in 1 .. n : \E j \in 1 .. n : f[j] = g[i]
    BY <2>2, <2>4 DEF Among
  <2>6. \A i \in 1 .. n : f[i] \in {g[j] : j \in 1 .. n}
    BY <2>5
  <2>7. \A i \in 1 .. n : g[i] \in {f[j] : j \in 1 .. n}
    BY <2>5
  <2> QED
    BY <2>6, <2>7
<1>5. /\ {<<actual[i].entry, actual[i].offset>> : i \in DOMAIN actual} = {f[i] : i \in 1 .. n}
      /\ {<<found[i].entry, found[i].offset>> : i \in DOMAIN found} = {g[i] : i \in 1 .. n}
  BY <1>1, <1>3
<1>6. ASSUME NEW i \in DOMAIN actual
      PROVE  \E j \in DOMAIN found :
               /\ found[j].entry = actual[i].entry /\ found[j].offset = actual[i].offset
               /\ found[j].stream = actual[i].stream
  <2>1. PICK j \in DOMAIN found : g[j] = f[i] /\ found[j].stream = actual[i].stream
    BY <1>2
  <2>2. <<found[j].entry, found[j].offset>> = <<actual[i].entry, actual[i].offset>>
    BY <1>1, <1>3, <2>1
  <2>3. found[j].entry = actual[i].entry /\ found[j].offset = actual[i].offset
    BY <2>2
  <2> QED
    BY <2>1, <2>3
<1> QED
  BY <1>4, <1>5, <1>6

\* What a complete partition rests on.
LEMMA CompletePartition ==
  ASSUME Inv, coverage.outcome = "complete"
  PROVE  /\ Decoded /\ SearchInv /\ ~budget.limitHit /\ step \in {"check", "done"}
         /\ coverage = Normalize(domains, facts.ledger) /\ DomainsAgree(domains, facts.ledger.domains)
         /\ domains \in Seq([entry: Nat, offset: Nat, spelling: STRING, stream: StreamBytes])
         /\ facts.ledger.domains \in Seq(LedgerDomain)
<1>1. coverage # NoCoverage
  BY DEF NoCoverage
<1>2. /\ Decoded /\ SearchInv /\ ~budget.limitHit /\ step \in {"check", "done"}
      /\ coverage = Normalize(domains, facts.ledger)
  BY <1>1 DEF Inv, Untouched, CoverageIs
<1>3. DomainsAgree(domains, facts.ledger.domains)
  BY <1>2 DEF Normalize
<1>4. /\ domains \in Seq([entry: Nat, offset: Nat, spelling: STRING, stream: StreamBytes])
      /\ facts.ledger.domains \in Seq(LedgerDomain)
  BY <1>2, SourceTyped DEF SearchInv, DomainsAre, CodecFacts
<1> QED
  BY <1>2, <1>3, <1>4

\* A complete partition accounts for every nested stream of the active entries
\* with the content the codec read there (byte_partition::normalize).
THEOREM CompleteAccountsForAll == GeometrySpec => []CompleteIsAccounted
<1>1. Inv => CompleteIsAccounted
  <2> SUFFICES ASSUME Inv, coverage.outcome = "complete" PROVE CompleteIsAccounted
    BY DEF CompleteIsAccounted
  <2> DEFINE actual == facts.ledger.domains
  <2>1. /\ domains \in Seq([entry: Nat, offset: Nat, spelling: STRING, stream: StreamBytes])
        /\ actual \in Seq(LedgerDomain) /\ DomainsAgree(domains, actual)
    BY CompletePartition
  <2>2. SearchInv /\ Findable = Found
    BY CompletePartition, FoundAtTheEnd DEF LossReported
  <2> HIDE DEF actual
  <2>3. Found = {<<actual[i].entry, actual[i].offset>> : i \in DOMAIN actual}
    BY <2>1, SitesAgree DEF Found
  <2>4. ASSUME NEW i \in DOMAIN actual
        PROVE  Bytes(entries[actual[i].entry].payload.parts[actual[i].offset]) = actual[i].stream
    <3>1. PICK j \in DOMAIN domains :
            /\ domains[j].entry = actual[i].entry /\ domains[j].offset = actual[i].offset
            /\ domains[j].stream = actual[i].stream
      BY <2>1, SitesAgree
    <3>2. domains[j].stream = Bytes(entries[domains[j].entry].payload.parts[domains[j].offset])
      BY <2>2 DEF SearchInv, DomainsAre
    <3> QED
      BY <3>1, <3>2
  <2> QED
    BY <2>2, <2>3, <2>4 DEF CompleteIsAccounted, actual
<1> QED
  BY <1>1, SearchFollowsTheEntries, PTL

-----------------------------------------------------------------------------
(***************************************************************************)
(* The byte ranges.                                                        *)
(***************************************************************************)
Classes == {"typed", "uninterpreted"}
Pieces == [offset: Int, len: Int, class: Classes]

Holds(b, piece) == piece.offset <= b /\ b < piece.offset + piece.len

\* Every byte before the end is in one piece, typed when it is one of T.
Tiles(pieces, T, end) ==
  /\ pieces \in Seq(Pieces)
  /\ \A i \in DOMAIN pieces : pieces[i].offset + pieces[i].len <= end
  /\ \A b \in 0 .. end - 1 :
       \E i \in DOMAIN pieces :
         /\ Holds(b, pieces[i]) /\ \A j \in DOMAIN pieces : Holds(b, pieces[j]) => j = i
         /\ pieces[i].class = "typed" <=> b \in T

LEMMA PieceTiles ==
  ASSUME NEW T, NEW x \in Nat, NEW y \in Nat, x <= y, NEW pieces, Tiles(pieces, T, x),
         NEW class \in Classes, \A b \in x .. y - 1 : class = "typed" <=> b \in T
  PROVE  Tiles(pieces \o Piece(x, y, class), T, y)
<1> DEFINE n == Len(pieces)
           w == pieces \o Piece(x, y, class)
<1>1. n \in Nat /\ pieces \in Seq(Pieces) /\ DOMAIN pieces = 1 .. n
  BY DEF Tiles
<1>2. CASE x = y
  <2>1. w = pieces
    BY <1>1, <1>2 DEF Piece
  <2> QED
    BY <1>2, <2>1
<1>3. CASE x # y
  <2> DEFINE p == [offset |-> x, len |-> y - x, class |-> class]
  <2>1. p \in Pieces /\ p.offset = x /\ p.offset + p.len = y /\ p.class = class
    BY DEF Pieces
  <2>2. w = pieces \o <<p>>
    BY <1>3 DEF Piece
  <2> HIDE DEF p
  <2>3. /\ w \in Seq(Pieces) /\ DOMAIN w = 1 .. n + 1 /\ w[n + 1] = p
        /\ \A i \in 1 .. n : w[i] = pieces[i]
    BY <1>1, <2>1, <2>2
  <2>4. \A i \in 1 .. n : pieces[i] \in Pieces
    <3> HIDE DEF n
    <3> QED
      BY <1>1
  <2>5. \A i \in 1 .. n : pieces[i].offset \in Int /\ pieces[i].len \in Int /\ pieces[i].offset + pieces[i].len <= x
    BY <1>1, <2>4 DEF Tiles, Pieces
  <2> HIDE DEF w, n
  <2>6. /\ \A i \in 1 .. n + 1 : i = n + 1 \/ i \in 1 .. n
        /\ n + 1 \in 1 .. n + 1 /\ \A i \in 1 .. n : i \in 1 .. n + 1
    BY <1>1
  <2>7. \A i \in 1 .. n + 1 : w[i].offset + w[i].len <= y
    BY <2>1, <2>3, <2>5, <2>6
  <2>8. ASSUME NEW b \in 0 .. y - 1
        PROVE  \E i \in 1 .. n + 1 :
                 /\ Holds(b, w[i]) /\ \A j \in 1 .. n + 1 : Holds(b, w[j]) => j = i
                 /\ w[i].class = "typed" <=> b \in T
    <3>1. CASE b < x
      <4>1. b \in 0 .. x - 1
        BY <3>1
      <4>2. PICK i \in 1 .. n :
              /\ Holds(b, pieces[i]) /\ \A j \in 1 .. n : Holds(b, pieces[j]) => j = i
              /\ pieces[i].class = "typed" <=> b \in T
        BY <1>1, <4>1 DEF Tiles
      <4>3. ~Holds(b, w[n + 1])
        BY <2>1, <2>3, <3>1 DEF Holds
      <4> QED
        BY <2>3, <2>6, <4>2, <4>3
    <3>2. CASE ~(b < x)
      <4>1. b \in x .. y - 1
        BY <3>2
      <4>2. Holds(b, w[n + 1]) /\ (w[n + 1].class = "typed" <=> b \in T)
        BY <2>1, <2>3, <4>1 DEF Holds
      <4>3. \A j \in 1 .. n : ~Holds(b, w[j])
        BY SMTT(30), <2>3, <2>5, <3>2 DEF Holds
      <4> QED
        BY <2>6, <4>2, <4>3
    <3> QED
      BY <3>1, <3>2
  <2>9. Tiles(w, T, y)
    BY <2>3, <2>7, <2>8 DEF Tiles
  <2> QED
    BY <2>9 DEF w
<1> QED
  BY <1>2, <1>3

\* The states of a derivation: each typed range takes what lies before it along.
Deriving(u, t) ==
  /\ t[0] = [cursor |-> 0, ranges |-> <<>>]
  /\ \A k \in 1 .. Len(u) : t[k] = Extend(t[k - 1], u[k])

LEMMA DerivedTiles ==
  ASSUME NEW length \in Nat, NEW u, Tidy(u), LiesIn(u, 0, length), NEW t, Deriving(u, t)
  PROVE  Tiles(t[Len(u)].ranges \o Piece(t[Len(u)].cursor, length, "uninterpreted"),
               {b \in Int : Covers(u, b)}, length)
<1> DEFINE n == Len(u)
           T == {b \in Int : Covers(u, b)}
           from == [i \in 0 .. n |-> IF i = 0 THEN 0 ELSE u[i][2]]
           to == [i \in 0 .. n |-> IF i = n THEN length ELSE u[i + 1][1]]
           B == {k \in 0 .. n : t[k].cursor = from[k] /\ Tiles(t[k].ranges, T, from[k])}
<1>1. n \in Nat /\ DOMAIN u = 1 .. n /\ u \in Seq(Int \X Int)
  BY DEF Tidy
<1>2. \A i \in 1 .. n : u[i] \in Int \X Int
  <2> HIDE DEF n
  <2> QED
    BY <1>1
<1>3. /\ \A i \in 1 .. n : /\ u[i][1] \in Nat /\ u[i][2] \in Nat /\ u[i][1] < u[i][2] /\ u[i][2] <= length
      /\ \A i, j \in 1 .. n : i < j => u[i][2] < u[j][1]
  <2>1. \A i \in 1 .. n : u[i][1] \in Int /\ u[i][2] \in Int
    <3> HIDE DEF n
    <3> QED
      BY <1>2
  <2>2. \A i \in 1 .. n : u[i][1] < u[i][2] /\ 0 <= u[i][1] /\ u[i][2] <= length
    BY <1>1 DEF Tidy, LiesIn
  <2>3. \A i \in 1 .. n : u[i][1] \in Nat /\ u[i][2] \in Nat
    <3> HIDE DEF n
    <3> QED
      BY <2>1, <2>2
  <2>4. \A i, j \in 1 .. n : i < j => u[i][2] < u[j][1]
    BY <1>1 DEF Tidy
  <2> QED
    BY <2>2, <2>3, <2>4
<1>4. \A b \in 0 .. length - 1, i \in 0 .. n : InRange(b, <<from[i], to[i]>>) => b \notin T
  <2>1. from = [i \in 0 .. Len(u) |-> IF i = 0 THEN 0 ELSE u[i][2]]
        /\ to = [i \in 0 .. Len(u) |-> IF i = Len(u) THEN length ELSE u[i + 1][1]]
    OBVIOUS
  <2> HIDE DEF from, to
  <2> SUFFICES ASSUME NEW b \in 0 .. length - 1, NEW i \in 0 .. n, InRange(b, <<from[i], to[i]>>)
               PROVE  ~Covers(u, b)
    OBVIOUS
  <2> QED
    BY <2>1, GapsAre
<1>5. /\ \A i \in 0 .. n : i # 0 => from[i] = u[i][2]
      /\ from[0] = 0 /\ 0 \in 0 .. n /\ n \in 0 .. n /\ to[n] = length
      /\ \A i \in 0 .. n : i # n => to[i] = u[i + 1][1]
  <2>1. 0 \in 0 .. n /\ n \in 0 .. n
    BY <1>1
  <2> HIDE DEF n
  <2> QED
    BY <2>1
<1>6. t[0] = [cursor |-> 0, ranges |-> <<>>] /\ \A k \in 1 .. n : t[k] = Extend(t[k - 1], u[k])
  BY DEF Deriving
<1>7. \A i \in 1 .. n : \A b \in u[i][1] .. u[i][2] - 1 : b \in T
  <2> SUFFICES ASSUME NEW i \in 1 .. n, NEW b \in u[i][1] .. u[i][2] - 1
               PROVE  Covers(u, b)
    BY <1>3
  <2>1. InRange(b, u[i])
    BY <1>3 DEF InRange
  <2> QED
    BY <1>1, <2>1 DEF Covers
<1> HIDE DEF n, from, to, T
<1>8. \A i \in 0 .. n : from[i] \in Nat /\ from[i] <= length
  <2> SUFFICES ASSUME NEW i \in 0 .. n PROVE from[i] \in Nat /\ from[i] <= length
    OBVIOUS
  <2>1. CASE i = 0
    BY <1>5, <2>1
  <2>2. CASE i # 0
    <3>1. i \in 1 .. n /\ from[i] = u[i][2]
      BY <1>1, <1>5, <2>2
    <3> QED
      BY <1>3, <3>1
  <2> QED
    BY <2>1, <2>2
<1>9. 0 \in B
  <2>1. t[0].cursor = 0 /\ t[0].ranges = <<>> /\ <<>> \in Seq(Pieces) /\ DOMAIN <<>> = {} /\ 0 .. 0 - 1 = {}
    BY <1>6
  <2>2. Tiles(<<>>, T, 0)
    BY <2>1 DEF Tiles
  <2> QED
    BY <1>5, <2>1, <2>2
<1>10. ASSUME NEW k \in 1 .. n, k - 1 \in B PROVE k \in B
  <2> DEFINE c == from[k - 1]
             s == u[k][1]
             e == u[k][2]
             r == t[k - 1].ranges
             gap == r \o Piece(c, s, "uninterpreted")
             next == gap \o Piece(s, e, "typed")
  <2>1. k \in 0 .. n /\ k - 1 \in 0 .. n /\ k # 0 /\ k - 1 # n /\ k - 1 + 1 = k
    BY <1>1
  <2>2. t[k - 1].cursor = c /\ Tiles(r, T, c)
    BY <1>10
  <2>3. t[k] = [cursor |-> e, ranges |-> next]
    BY <1>6, <2>2 DEF Extend
  <2>4. c \in Nat /\ s \in Nat /\ e \in Nat /\ s < e /\ e <= length
    BY <1>3, <1>8, <2>1
  <2>5. c <= s
    <3>1. CASE k - 1 = 0
      BY <1>5, <2>4, <3>1
    <3>2. CASE k - 1 # 0
      <4>1. k - 1 \in 1 .. n /\ k - 1 < k /\ c = u[k - 1][2]
        BY <1>1, <1>5, <2>1, <3>2
      <4>2. u[k - 1][2] < u[k][1]
        BY <1>3, <4>1
      <4> QED
        BY <2>4, <4>1, <4>2
    <3> QED
      BY <3>1, <3>2
  <2>6. from[k] = e /\ to[k - 1] = s
    BY <1>5, <2>1
  <2>7. \A b \in c .. s - 1 : b \notin T
    <3> SUFFICES ASSUME NEW b \in c .. s - 1 PROVE b \notin T
      OBVIOUS
    <3> HIDE DEF c, s, e
    <3>1. b \in 0 .. length - 1 /\ c <= b /\ b < s
      BY <2>4
    <3>2. InRange(b, <<from[k - 1], to[k - 1]>>)
      BY <2>6, <3>1 DEF InRange, c
    <3> QED
      BY <1>4, <2>1, <3>1, <3>2
  <2>8. \A b \in s .. e - 1 : b \in T
    BY <1>7
  <2>9. "typed" \in Classes /\ "uninterpreted" \in Classes /\ "typed" # "uninterpreted"
    BY DEF Classes
  <2> HIDE DEF c, s, e, r
  <2>10. Tiles(gap, T, s)
    BY <2>2, <2>4, <2>5, <2>7, <2>9, PieceTiles
  <2> HIDE DEF gap
  <2>11. Tiles(next, T, e)
    BY <2>4, <2>8, <2>9, <2>10, PieceTiles
  <2> HIDE DEF next
  <2>12. t[k].cursor = from[k] /\ Tiles(t[k].ranges, T, from[k])
    BY <2>3, <2>6, <2>11
  <2> QED
    BY <2>1, <2>12
<1>11. n \in B
  <2>1. \A k \in 0 .. n : k \in B
    <3> HIDE DEF B
    <3> QED
      BY <1>1, <1>9, <1>10, Upwards
  <2> QED
    BY <1>5, <2>1
<1>12. \A b \in from[n] .. length - 1 : b \notin T
  <2> SUFFICES ASSUME NEW b \in from[n] .. length - 1 PROVE b \notin T
    OBVIOUS
  <2>1. b \in 0 .. length - 1 /\ from[n] <= b /\ b < length
    BY <1>5, <1>8
  <2>2. InRange(b, <<from[n], to[n]>>)
    BY <1>5, <2>1 DEF InRange
  <2> QED
    BY <1>4, <1>5, <2>1, <2>2
<1>13. Tiles(t[n].ranges \o Piece(t[n].cursor, length, "uninterpreted"), T, length)
  <2>1. "uninterpreted" \in Classes /\ "typed" # "uninterpreted"
    BY DEF Classes
  <2>2. from[n] \in Nat /\ from[n] <= length
    BY <1>5, <1>8
  <2>3. t[n].cursor = from[n] /\ Tiles(t[n].ranges, T, from[n])
    BY <1>11
  <2> QED
    BY <1>12, <2>1, <2>2, <2>3, PieceTiles
<1> QED
  BY <1>13 DEF n, T

LEMMA RangesTile ==
  ASSUME NEW length \in Nat, NEW u, Tidy(u), LiesIn(u, 0, length)
  PROVE  LET done == FoldLeft(Extend, [cursor |-> 0, ranges |-> <<>>], u)
         IN Tiles(done.ranges \o Piece(done.cursor, length, "uninterpreted"), {b \in Int : Covers(u, b)}, length)
<1> DEFINE D == DOMAIN u
           n == Len(u)
           V == [cursor: Int, ranges: Seq(Pieces)]
           base == [cursor |-> 0, ranges |-> <<>>]
           taking == [z \in D \X V |-> Extend(z[2], u[z[1]])]
           Folding(f) == f = [s \in SUBSET D |-> IF s = {} THEN base
                                                 ELSE Extend(f[s \ {Max(s)}], u[Max(s)])]
           g == CHOOSE f : Folding(f)
<1>1. FoldLeft(Extend, base, u) = g[D]
  BY DEF FoldLeft, MapThenFoldSet
<1>2. n \in Nat /\ D = 1 .. n /\ \A k \in D : u[k] \in Int \X Int
  <2>1. u \in Seq(Int \X Int)
    BY DEF Tidy
  <2>2. n \in Nat /\ D = 1 .. n
    BY <2>1
  <2> HIDE DEF n
  <2> QED
    BY <2>1, <2>2
<1>3. base \in V
  <2>1. <<>> \in Seq(Pieces)
    OBVIOUS
  <2> QED
    BY <2>1
<1>4. \A k \in D, m \in V : taking[<<k, m>>] = Extend(m, u[k]) /\ Extend(m, u[k]) \in V
  <2>1. ASSUME NEW x \in Int, NEW y \in Int, NEW class \in Classes
        PROVE  Piece(x, y, class) \in Seq(Pieces)
    <3>1. [offset |-> x, len |-> y - x, class |-> class] \in Pieces
      BY DEF Pieces
    <3> QED
      BY <3>1 DEF Piece
  <2>2. ASSUME NEW m \in V, NEW r \in Int \X Int PROVE Extend(m, r) \in V
    <3>1. m.cursor \in Int /\ m.ranges \in Seq(Pieces) /\ r[1] \in Int /\ r[2] \in Int
      OBVIOUS
    <3>2. "typed" \in Classes /\ "uninterpreted" \in Classes
      BY DEF Classes
    <3>3. Piece(m.cursor, r[1], "uninterpreted") \in Seq(Pieces) /\ Piece(r[1], r[2], "typed") \in Seq(Pieces)
      BY <2>1, <3>1, <3>2
    <3>4. \A a, b, c \in Seq(Pieces) : a \o b \o c \in Seq(Pieces)
      OBVIOUS
    <3>5. m.ranges \o Piece(m.cursor, r[1], "uninterpreted") \o Piece(r[1], r[2], "typed") \in Seq(Pieces)
      BY <3>1, <3>3, <3>4
    <3> QED
      BY <3>1, <3>5 DEF Extend
  <2> HIDE DEF V
  <2> QED
    BY <1>2, <2>2
<1>5. taking \in [D \X V -> V]
  <2>1. taking = [z \in D \X V |-> taking[z]]
    OBVIOUS
  <2>2. \A z \in D \X V : z = <<z[1], z[2]>> /\ z[1] \in D /\ z[2] \in V
    OBVIOUS
  <2> HIDE DEF taking, D, V
  <2> QED
    BY <1>4, <2>1, <2>2
<1> HIDE DEF taking, base
<1>6. PICK f \in [SUBSET D -> V] : RunsBy(f, D, V, base, taking)
  <2> HIDE DEF D, V
  <2> QED
    BY <1>2, <1>3, <1>5, RunExists
<1>7. Folding(f)
  <2>1. ASSUME NEW s \in SUBSET D
        PROVE  f[s] = IF s = {} THEN base ELSE Extend(f[s \ {Max(s)}], u[Max(s)])
    <3>1. s # {} => Max(s) \in D /\ s \ {Max(s)} \in SUBSET D
      <4> HIDE DEF D
      <4> QED
        BY <1>2, MaxIs
    <3>2. s # {} => f[s \ {Max(s)}] \in V
      BY <3>1
    <3> HIDE DEF D, V
    <3> QED
      BY <1>4, <1>6, <2>1, <3>1, <3>2 DEF RunsBy
  <2>2. f = [s \in SUBSET D |-> f[s]]
    OBVIOUS
  <2> QED
    BY <2>1, <2>2
<1>8. Folding(g)
  <2> HIDE DEF Folding
  <2> QED
    BY <1>7
<1>9. RunsBy(g, D, V, base, taking)
  <2>1. \A s \in SUBSET D : g[s] = IF s = {} THEN base ELSE Extend(g[s \ {Max(s)}], u[Max(s)])
    <3> HIDE DEF g
    <3> QED
      BY <1>8
  <2>2. \A s \in SUBSET D : s # {} => Max(s) \in D
    <3> HIDE DEF D
    <3> QED
      BY <1>2, MaxIs
  <2> HIDE DEF g, D, V, Folding
  <2> QED
    BY <1>4, <2>1, <2>2 DEF RunsBy
<1>10. PICK t \in [0 .. n -> V] :
         t[0] = base /\ (\A k \in 1 .. n : t[k] = taking[<<k, t[k - 1]>>]) /\ t[n] = g[D]
  <2>1. n \in Nat /\ D = 1 .. n
    BY <1>2
  <2> HIDE DEF g, D, V, n, Folding
  <2>2. Runs(g, n, D, V, base, taking)
    BY <1>3, <1>5, <1>9, <2>1, RunIs
  <2> QED
    BY <2>2 DEF Runs
<1>11. Deriving(u, t)
  <2>1. ASSUME NEW k \in 1 .. n PROVE t[k] = Extend(t[k - 1], u[k])
    <3> HIDE DEF D, V, n
    <3>1. k \in D /\ k - 1 \in 0 .. n /\ t[k - 1] \in V
      BY <1>2
    <3> QED
      BY <1>4, <1>10, <3>1
  <2> QED
    BY <1>10, <2>1 DEF Deriving, base
<1> HIDE DEF g, D, V
<1>12. Tiles(t[n].ranges \o Piece(t[n].cursor, length, "uninterpreted"), {b \in Int : Covers(u, b)}, length)
  BY <1>11, DerivedTiles
<1> HIDE DEF n
<1> QED
  BY <1>1, <1>10, <1>12 DEF base

\* The intervals of the reads of a class.
LEMMA IntervalsAre ==
  ASSUME NEW spans \in Seq(Span), NEW length, length \in Int, SpansValid(spans, length), NEW class
  PROVE  LET S == IntervalsOf(spans, class)
         IN /\ S \in SUBSET (Int \X Int) /\ IsFiniteSet(S)
            /\ \A r \in S : r[1] < r[2] /\ 0 <= r[1] /\ r[2] <= length
            /\ \A b : (\E r \in S : InRange(b, r)) <=> \E s \in ToSet(spans) : s.class = class /\ Holds(b, s)
<1> DEFINE S == IntervalsOf(spans, class)
           n == Len(spans)
           D == {i \in 1 .. n : spans[i].class = class}
           g == [i \in D |-> <<spans[i].offset, spans[i].offset + spans[i].len>>]
<1>1. n \in Nat /\ DOMAIN spans = 1 .. n
  OBVIOUS
<1>2. \A i \in 1 .. n : spans[i].offset \in Nat /\ spans[i].len \in Nat
  <2>1. \A i \in 1 .. n : spans[i] \in Span
    <3> HIDE DEF n
    <3> QED
      BY <1>1
  <2> QED
    BY <2>1 DEF Span
<1>3. ToSet(spans) = {spans[i] : i \in 1 .. n}
  BY <1>1 DEF ToSet
<1>4. S = {<<spans[i].offset, spans[i].offset + spans[i].len>> : i \in D}
  <2> HIDE DEF n
  <2> QED
    BY <1>3 DEF IntervalsOf
<1>5. IsFiniteSet(D)
  <2>1. 1 \in Int /\ n \in Int
    BY <1>1
  <2>2. IsFiniteSet(1 .. n)
    BY <2>1, FS_Interval
  <2>3. D \in SUBSET (1 .. n)
    OBVIOUS
  <2> QED
    BY <2>2, <2>3, FS_Subset
<1>6. g \in Surjection(D, S)
  BY <1>4 DEF Surjection
<1>7. IsFiniteSet(S)
  <2> HIDE DEF S, D, g
  <2> QED
    BY <1>5, <1>6, FS_Surjection
<1>8. \A i \in D : spans[i].len > 0 /\ spans[i].offset + spans[i].len <= length
  BY <1>1 DEF SpansValid
<1>9. \A i \in D : i \in 1 .. n /\ spans[i].class = class
  OBVIOUS
<1>10. \A r \in S : r \in Int \X Int /\ r[1] < r[2] /\ 0 <= r[1] /\ r[2] <= length
  <2> HIDE DEF S, n, D
  <2> SUFFICES ASSUME NEW i \in D
               PROVE  LET r == <<spans[i].offset, spans[i].offset + spans[i].len>>
                      IN r \in Int \X Int /\ r[1] < r[2] /\ 0 <= r[1] /\ r[2] <= length
    BY <1>4
  <2> QED
    BY <1>2, <1>8, <1>9
<1>11. \A b : (\E r \in S : InRange(b, r)) <=> \E s \in ToSet(spans) : s.class = class /\ Holds(b, s)
  <2> SUFFICES ASSUME NEW b
               PROVE  (\E i \in D : InRange(b, <<spans[i].offset, spans[i].offset + spans[i].len>>))
                        <=> \E i \in 1 .. n : spans[i].class = class /\ Holds(b, spans[i])
    <3> HIDE DEF S, n, D
    <3> QED
      BY <1>3, <1>4
  <2> QED
    BY DEF InRange, Holds
<1> HIDE DEF S
<1> QED
  BY <1>7, <1>10, <1>11 DEF S

\* The ranges derived from valid reads whose classes do not touch.
LEMMA RangesAre ==
  ASSUME NEW spans \in Seq(Span), NEW length \in Nat, SpansValid(spans, length), ClassesApart(spans),
         NEW b \in 0 .. length - 1
  PROVE  LET ranges == RangesOf(spans, length)
         IN \E i \in DOMAIN ranges :
              /\ \A j \in DOMAIN ranges : Holds(b, ranges[j]) <=> j = i
              /\ ranges[i].class = "typed" <=> \E s \in ToSet(spans) : s.class = "typed" /\ Holds(b, s)
              /\ ranges[i].class = "typed" =>
                   ~\E s \in ToSet(spans) : s.class = "uninterpreted" /\ Holds(b, s)
<1> DEFINE S == IntervalsOf(spans, "typed")
           U == IntervalsOf(spans, "uninterpreted")
           s == Union(S)
           u == Union(U)
           ranges == RangesOf(spans, length)
           T == {x \in Int : Covers(s, x)}
<1>0. length \in Int
  OBVIOUS
<1>1. /\ S \in SUBSET (Int \X Int) /\ IsFiniteSet(S)
      /\ \A r \in S : r[1] < r[2] /\ 0 <= r[1] /\ r[2] <= length
      /\ \A x : (\E r \in S : InRange(x, r)) <=> \E q \in ToSet(spans) : q.class = "typed" /\ Holds(x, q)
  BY <1>0, IntervalsAre, Zenon
<1>2. /\ U \in SUBSET (Int \X Int) /\ IsFiniteSet(U)
      /\ \A r \in U : r[1] < r[2] /\ 0 <= r[1] /\ r[2] <= length
      /\ \A x : (\E r \in U : InRange(x, r)) <=> \E q \in ToSet(spans) : q.class = "uninterpreted" /\ Holds(x, q)
  BY <1>0, IntervalsAre, Zenon
<1>3. b \in Int /\ 0 \in Int /\ length \in Int
  OBVIOUS
<1> HIDE DEF S, U
<1>4. Tidy(s) /\ LiesIn(s, 0, length) /\ \A x \in Int : Covers(s, x) <=> \E r \in S : InRange(x, r)
  BY <1>1, <1>3, UnionIs DEF Union
<1>5. Tidy(u) /\ \A x \in Int : Covers(u, x) <=> \E r \in U : InRange(x, r)
  BY <1>2, UnionIs DEF Union
<1>6. Tiles(ranges, T, length)
  <2> HIDE DEF s
  <2>1. ranges = LET done == FoldLeft(Extend, [cursor |-> 0, ranges |-> <<>>], s)
                 IN done.ranges \o Piece(done.cursor, length, "uninterpreted")
    BY DEF RangesOf, S, s
  <2> QED
    BY <1>4, <2>1, RangesTile
<1> HIDE DEF ranges
<1>7. PICK i \in DOMAIN ranges :
        /\ Holds(b, ranges[i]) /\ \A j \in DOMAIN ranges : Holds(b, ranges[j]) => j = i
        /\ ranges[i].class = "typed" <=> b \in T
  BY <1>6 DEF Tiles
<1>8. b \in T <=> \E q \in ToSet(spans) : q.class = "typed" /\ Holds(b, q)
  BY <1>1, <1>3, <1>4
<1>9. ASSUME b \in T, NEW q \in ToSet(spans), q.class = "uninterpreted", Holds(b, q) PROVE FALSE
  <2>1. Covers(s, b) /\ Covers(u, b)
    BY <1>2, <1>3, <1>5, <1>9
  <2>2. PICK k \in DOMAIN s : InRange(b, s[k])
    BY <2>1 DEF Covers
  <2>3. PICK m \in DOMAIN u : InRange(b, u[m])
    BY <2>1 DEF Covers
  <2>4. s[k] \in ToSet(s) /\ u[m] \in ToSet(u)
    BY DEF ToSet
  <2>5. s[k][2] <= u[m][1] \/ u[m][2] <= s[k][1]
    BY <2>4 DEF ClassesApart, s, u, S, U
  <2>6. s[k] \in Int \X Int /\ u[m] \in Int \X Int
    <3>1. s \in Seq(Int \X Int) /\ u \in Seq(Int \X Int)
      BY <1>4, <1>5 DEF Tidy
    <3> HIDE DEF s, u
    <3> QED
      BY <3>1
  <2> HIDE DEF s, u
  <2> QED
    BY <1>3, <2>2, <2>3, <2>5, <2>6 DEF InRange
<1>10. \A j \in DOMAIN ranges : Holds(b, ranges[j]) <=> j = i
  BY <1>7
<1> HIDE DEF T
<1> QED
  BY <1>7, <1>8, <1>9, <1>10 DEF ranges

\* The spans a domain is given are those the ledger lists for its place.
LEMMA SpansAre ==
  ASSUME NEW found \in Seq([entry: Nat, offset: Nat, spelling: STRING, stream: StreamBytes]),
         NEW actual \in Seq(LedgerDomain), DomainsAgree(found, actual), NEW d \in DOMAIN found
  PROVE  SpansOf(found[d], actual) \in Seq(Span)
<1> DEFINE Matches(i) == actual[i].entry = found[d].entry /\ actual[i].offset = found[d].offset
           k == CHOOSE i \in DOMAIN actual : Matches(i)
<1>1. \E i \in DOMAIN actual : Matches(i)
  <2>1. PICK i \in DOMAIN actual :
          <<found[d].entry, found[d].offset>> = <<actual[i].entry, actual[i].offset>>
    <3>1. <<found[d].entry, found[d].offset>> \in {<<found[i].entry, found[i].offset>> : i \in DOMAIN found}
      OBVIOUS
    <3>2. {<<found[i].entry, found[i].offset>> : i \in DOMAIN found}
            = {<<actual[i].entry, actual[i].offset>> : i \in DOMAIN actual}
      BY SitesAgree
    <3> QED
      BY <3>1, <3>2
  <2> QED
    BY <2>1
<1>2. k \in DOMAIN actual
  <2> HIDE DEF Matches
  <2> QED
    BY <1>1
<1> HIDE DEF k
<1>3. actual[k] \in LedgerDomain
  BY <1>2
<1>4. actual[k].spans \in Seq(Span)
  BY <1>3 DEF LedgerDomain
<1> QED
  BY <1>4 DEF SpansOf, k

\* Of a complete partition every byte of a body lies in exactly one range, and
\* the range is typed exactly when a typed read took the byte, whatever reads
\* nest or overlap (byte_partition::normalize, interval_union).
THEOREM PartitionsAreExact == GeometrySpec => []PartitionIsExact
<1>1. Inv => PartitionIsExact
  <2> DEFINE actual == facts.ledger.domains
             Within(b, r) == r.offset <= b /\ b < r.offset + r.len
  <2> SUFFICES ASSUME Inv, coverage.outcome = "complete", NEW d \in DOMAIN domains,
                      NEW b \in 0 .. BodyLen(domains[d].stream) - 1
               PROVE  LET ranges == coverage.ranges[d]
                          spans == ToSet(SpansOf(domains[d], actual))
                      IN /\ Cardinality({i \in DOMAIN ranges : Within(b, ranges[i])}) = 1
                         /\ \A i \in DOMAIN ranges : Within(b, ranges[i]) =>
                              /\ (ranges[i].class = "typed") <=>
                                   \E s \in spans : s.class = "typed" /\ Within(b, s)
                              /\ ranges[i].class = "typed" =>
                                   ~\E s \in spans : s.class = "uninterpreted" /\ Within(b, s)
    BY DEF PartitionIsExact
  <2> DEFINE length == BodyLen(domains[d].stream)
             spans == SpansOf(domains[d], actual)
             ranges == coverage.ranges[d]
  <2>1. /\ domains \in Seq([entry: Nat, offset: Nat, spelling: STRING, stream: StreamBytes])
        /\ actual \in Seq(LedgerDomain) /\ DomainsAgree(domains, actual)
        /\ coverage = Normalize(domains, facts.ledger)
    BY CompletePartition
  <2>2. spans \in Seq(Span)
    <3> HIDE DEF actual
    <3> QED
      BY <2>1, SpansAre
  <2>3. SpansValid(spans, length) /\ ClassesApart(spans)
    BY <2>1 DEF Normalize
  <2>4. ranges = RangesOf(spans, length)
    BY <2>1 DEF Normalize
  <2>5. length \in Nat
    <3>1. domains[d].stream \in StreamBytes
      <4> DEFINE R == [entry: Nat, offset: Nat, spelling: STRING, stream: StreamBytes]
      <4>1. domains \in Seq(R)
        BY <2>1
      <4>2. domains[d] \in R
        <5> HIDE DEF R
        <5> QED
          BY <4>1
      <4> QED
        BY <4>2
    <3>2. length \in Int
      BY <3>1 DEF StreamBytes, BodyLen, HeaderLen
    <3> HIDE DEF length
    <3>3. b \in 0 .. length - 1
      BY DEF length
    <3> QED
      BY <3>2, <3>3
  <2> HIDE DEF length, spans, ranges, actual
  <2>6. PICK i \in DOMAIN ranges :
          /\ \A j \in DOMAIN ranges : Holds(b, ranges[j]) <=> j = i
          /\ ranges[i].class = "typed" <=> \E s \in ToSet(spans) : s.class = "typed" /\ Holds(b, s)
          /\ ranges[i].class = "typed" =>
               ~\E s \in ToSet(spans) : s.class = "uninterpreted" /\ Holds(b, s)
    <3>1. b \in 0 .. length - 1
      BY DEF length
    <3> QED
      BY <2>2, <2>3, <2>4, <2>5, <3>1, RangesAre
  <2>7. {j \in DOMAIN ranges : Holds(b, ranges[j])} = {i}
    BY <2>6
  <2>8. Cardinality({j \in DOMAIN ranges : Holds(b, ranges[j])}) = 1
    BY <2>7, FS_Singleton
  <2> QED
    BY <2>6, <2>8 DEF Holds, ranges, spans
<1> QED
  BY <1>1, SearchFollowsTheEntries, PTL
-----------------------------------------------------------------------------
(***************************************************************************)
(* What the search costs.                                                  *)
(***************************************************************************)
\* Every probe the meter counted left the budget; so did every byte, but for
\* the one read past a limit that was the rest of the budget.
Metered ==
  /\ probed \in Nat /\ taken \in Nat
  /\ probed + budget.probes = Min({MaxStreams, MaxProbes})
  /\ \/ taken + budget.bytes <= MaxTotalBytes
     \/ budget.bytes = 0 /\ taken <= MaxTotalBytes + 1

LEMMA MeterOnlyWatches == MeterSpec => GeometrySpec
<1>1. MeterInit => GeometryInit
  BY DEF MeterInit
<1>2. [MeterNext]_meteredVars => [GeometryNext]_vars
  BY DEF MeterNext, MeteredProbe, MeteredDirect, Unmetered, meteredVars, GeometryNext
<1> QED
  BY <1>1, <1>2, PTL DEF MeterSpec, GeometrySpec

LEMMA MeterInitHolds == MeterInit => Metered
<1> SUFFICES ASSUME MeterInit PROVE Metered
  OBVIOUS
<1>1. budget = FreshBudget /\ domains = <<>> /\ probed = 0 /\ taken = 0
  BY DEF MeterInit, GeometryInit
<1>2. budget \in [probes: Nat, streams: Nat, bytes: Nat, limitHit: BOOLEAN]
  BY <1>1, FreshBudgetIs DEF BudgetIs
<1>3. budget.probes = Min({MaxStreams, MaxProbes}) /\ budget.bytes = MaxTotalBytes
  BY <1>1 DEF FreshBudget
<1> QED
  BY <1>1, <1>2, <1>3, GeometryAssumption DEF Metered

LEMMA GivenUpCostsNothing ==
  ASSUME Inv, Metered, GiveUp, UNCHANGED meter
  PROVE  Metered'
<1>1. budget \in [probes: Nat, streams: Nat, bytes: Nat, limitHit: BOOLEAN]
  BY DEF Inv, BudgetIs
<1>2. budget'.probes = budget.probes /\ budget'.bytes = budget.bytes
  BY <1>1 DEF GiveUp
<1> QED
  BY <1>2 DEF Metered, meter

LEMMA ProbesAreMetered ==
  ASSUME Inv, Metered, MeteredProbe
  PROVE  Metered'
<1> DEFINE stream == Parts[part + 1]
           expanded == Expanded(stream, InflateLimit(stream, budget.bytes))
           spent == Spend(expanded, budget.bytes)
<1>1. TakeProbe /\ step = "search" /\ part < Len(Parts)
  BY DEF MeteredProbe, TakeProbe
<1>2. BudgetIs /\ part \in Nat /\ stream \in NestedStream
  BY <1>1, Searching, OpenEntryIs
<1>3. budget.probes \in Nat /\ budget.bytes \in Nat
  BY <1>2 DEF BudgetIs
<1>4. CASE 0 \in {budget.probes, budget.bytes, budget.streams}
  <2>1. GiveUp /\ UNCHANGED meter
    BY <1>1, <1>4 DEF TakeProbe, MeteredProbe, Advanced, GiveUp
  <2> QED
    BY <2>1, GivenUpCostsNothing
<1>5. CASE 0 \notin {budget.probes, budget.bytes, budget.streams}
  <2>1. part' = part + 1 /\ budget'.probes = budget.probes - 1 /\ budget'.bytes = spent
    BY <1>1, <1>5 DEF TakeProbe
  <2>2. probed' = probed + 1 /\ taken' = taken + expanded
    BY <1>2, <2>1 DEF MeteredProbe, Advanced
  <2>3. /\ expanded \in Nat /\ expanded <= budget.bytes + 1
        /\ spent = IF expanded > budget.bytes THEN 0 ELSE budget.bytes - expanded
    <3>1. budget.bytes > 0
      BY <1>3, <1>5
    <3> HIDE DEF stream
    <3> QED
      BY <1>2, <1>3, <3>1, ProbeIs
  <2> HIDE DEF expanded, spent
  <2>4. probed' \in Nat /\ taken' \in Nat /\ probed' + budget'.probes = probed + budget.probes
    BY <1>3, <2>1, <2>2, <2>3 DEF Metered
  <2>5. taken + budget.bytes <= MaxTotalBytes
    BY <1>3, <1>5 DEF Metered
  <2>6. CASE expanded > budget.bytes
    <3>1. budget'.bytes = 0 /\ taken' <= MaxTotalBytes + 1
      BY <1>3, <2>1, <2>2, <2>3, <2>5, <2>6, GeometryAssumption DEF Metered
    <3> QED
      BY <2>4, <3>1 DEF Metered
  <2>7. CASE ~(expanded > budget.bytes)
    <3>1. taken' + budget'.bytes <= MaxTotalBytes
      BY <1>3, <2>1, <2>2, <2>3, <2>5, <2>7, GeometryAssumption DEF Metered
    <3> QED
      BY <2>4, <3>1 DEF Metered
  <2> QED
    BY <2>6, <2>7
<1> QED
  BY <1>4, <1>5

LEMMA DirectIsMetered ==
  ASSUME Inv, Metered, MeteredDirect
  PROVE  Metered'
<1> DEFINE stream == Parts[part + 1]
<1>1. TakeDirect /\ step = "search" /\ part < Len(Parts) /\ probed' = probed
  BY DEF MeteredDirect, TakeDirect
<1>2. BudgetIs /\ part \in Nat /\ stream.len \in Nat
  BY <1>1, Searching, OpenEntryIs
<1>3. /\ budget \in [probes: Nat, streams: Nat, bytes: Nat, limitHit: BOOLEAN]
      /\ budget.probes \in Nat /\ budget.bytes \in Nat
  BY <1>2 DEF BudgetIs
<1>4. CASE ~IsStart(Parts, part + 1)
  <2>1. UNCHANGED <<budget, meter>>
    BY <1>1, <1>4 DEF TakeDirect, MeteredDirect, meter
  <2> QED
    BY <2>1 DEF Metered, meter
<1>5. CASE IsStart(Parts, part + 1) /\ (budget.streams = 0 \/ stream.len > budget.bytes)
  <2>1. GiveUp
    BY <1>1, <1>5 DEF TakeDirect
  <2>2. UNCHANGED meter
    BY <1>1, <2>1 DEF GiveUp, MeteredDirect, Advanced, meter
  <2> QED
    BY <2>1, <2>2, GivenUpCostsNothing
<1>6. CASE IsStart(Parts, part + 1) /\ ~(budget.streams = 0 \/ stream.len > budget.bytes)
  <2>1. part' = part + 1 /\ budget' = [budget EXCEPT !.streams = @ - 1, !.bytes = @ - stream.len]
    BY <1>1, <1>6 DEF TakeDirect
  <2>2. taken' = taken + stream.len
    BY <1>2, <1>6, <2>1 DEF MeteredDirect, Advanced
  <2>3. budget'.probes = budget.probes /\ budget'.bytes = budget.bytes - stream.len
    BY <1>3, <2>1
  <2> HIDE DEF stream
  <2>4. stream.len <= budget.bytes
    BY <1>2, <1>3, <1>6
  <2>5. taken' \in Nat /\ probed' \in Nat /\ probed' + budget'.probes = probed + budget.probes
    BY <1>1, <1>2, <2>2, <2>3 DEF Metered
  <2>6. CASE taken + budget.bytes <= MaxTotalBytes
    <3>1. taken' + budget'.bytes <= MaxTotalBytes
      BY <1>2, <1>3, <2>2, <2>3, <2>4, <2>6, GeometryAssumption DEF Metered
    <3> QED
      BY <2>5, <3>1 DEF Metered
  <2>7. CASE budget.bytes = 0 /\ taken <= MaxTotalBytes + 1
    <3>1. stream.len = 0 /\ budget'.bytes = 0 /\ taken' = taken
      BY <1>2, <2>2, <2>3, <2>4, <2>7 DEF Metered
    <3> QED
      BY <2>5, <2>7, <3>1 DEF Metered
  <2> QED
    BY <2>6, <2>7 DEF Metered
<1> QED
  BY <1>4, <1>5, <1>6

LEMMA MeterKeepsPace == Inv /\ Metered /\ [MeterNext]_meteredVars => Metered'
<1> SUFFICES ASSUME Inv, Metered, [MeterNext]_meteredVars PROVE Metered'
  OBVIOUS
<1>1. CASE MeteredProbe
  BY <1>1, ProbesAreMetered
<1>2. CASE MeteredDirect
  BY <1>2, DirectIsMetered
<1>3. CASE Unmetered
  <2>1. UNCHANGED <<budget, probed, taken>>
    BY <1>3 DEF Unmetered, meter, Refuse, Decode, SelectStreams, OpenEntry, CloseEntry, EndSearch, Conclude
  <2> QED
    BY <2>1 DEF Metered
<1>4. CASE UNCHANGED meteredVars
  BY <1>4 DEF meteredVars, vars, meter, Metered
<1> QED
  BY <1>1, <1>2, <1>3, <1>4 DEF MeterNext

\* The searches of all entries together hand no more members to the inflater
\* than the probe limit, and take up no more bytes than the total limit and the
\* one that shows a member to be too long, whatever fails, is cut or is thrown
\* away; and what the domains hold was paid for (NestedStreamBudget,
\* inflate_zlib_bounded).
THEOREM BudgetIsNeverOverdrawn == MeterSpec => []BudgetIsShared
<1>1. MeterSpec => []Inv
  BY MeterOnlyWatches, SearchFollowsTheEntries, PTL
<1>2. MeterSpec => []Metered
  BY <1>1, MeterInitHolds, MeterKeepsPace, PTL DEF MeterSpec
<1>3. Inv /\ Metered => BudgetIsShared
  <2> SUFFICES ASSUME Inv, Metered PROVE BudgetIsShared
    OBVIOUS
  <2>1. KeptIsPaid /\ budget.probes \in Nat /\ budget.bytes \in Nat
    BY DEF Inv, BudgetIs
  <2>2. probed <= Min({MaxStreams, MaxProbes}) /\ taken <= MaxTotalBytes + 1
    BY <2>1, GeometryAssumption DEF Metered
  <2> QED
    BY <2>1, <2>2 DEF BudgetIsShared
<1> QED
  BY <1>1, <1>2, <1>3, PTL
===============================================================================
