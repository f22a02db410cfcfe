--------------------------- MODULE GeometryProperties ---------------------------
(***************************************************************************)
(* What the geometry report promises about streams, domains and bytes.     *)
(***************************************************************************)
EXTENDS GeometryMeter

\* A stream is called active because of its path, its provenance or the ledger
\* only if the codec read that very entry, although paths repeat and differ in
\* case (stream_candidates, docs/geometry.md: duplicate paths stay unresolved).
ActiveWasRead ==
  \A e \in DOMAIN candidates :
    candidates[e] = "active" /\ ~(SoleCandidate /\ e \in Partitions) => e \in facts.read

\* What the domains hold was paid for from the budget, whether the stream lay
\* in the payload or was inflated from it.
KeptIsPaid ==
  /\ Len(domains) <= MaxStreams - budget.streams
  /\ SumFunctionOnSet([i \in DOMAIN domains |-> domains[i].stream.len], DOMAIN domains)
       <= MaxTotalBytes - budget.bytes

\* The budget is one for all entries: the members probed in all of them
\* together, those that failed, were cut or were thrown away included, and the
\* bytes taken up in all of them stay within it.  The inflater may read the one
\* byte by which it sees that a member is too long (NestedStreamBudget).
BudgetIsShared ==
  /\ KeptIsPaid
  /\ probed <= Min({MaxStreams, MaxProbes})
  /\ taken <= MaxTotalBytes + 1

\* Nested streams a search without a shared budget would find.
FitsAlone(stream) ==
  stream.sound /\ stream.cap > 0 /\ stream.len <= Min({MaxFileSize, MaxTotalBytes, stream.cap})

IsFindable(e, i) ==
  LET parts == entries[e].payload.parts
  IN /\ HasRole(parts[i])
     /\ IF entries[e].payload.storage = "direct" THEN IsStart(parts, i)
        ELSE /\ FitsAlone(parts[i])
             /\ ~\E j \in 1 .. i - 1 : FitsAlone(parts[j]) /\ Bytes(parts[j]) = Bytes(parts[i])

Findable ==
  UNION {{<<e, i>> : i \in {k \in DOMAIN entries[e].payload.parts : IsFindable(e, k)}} :
         e \in {d \in Searched : entries[d].extracts}}

Found == {<<domains[i].entry, domains[i].offset>> : i \in DOMAIN domains}

\* Without the diagnostic geometry.byte_domain_limit the domains are those an
\* unlimited search finds: no order of entries, failed member or member cut in
\* the middle loses a stream silently to the budget.
LossReported == step \in {"check", "done"} /\ ~budget.limitHit => Found = Findable

\* Bytes reported typed are exactly those of the typed reads, every other byte
\* of a body is in one uninterpreted range, whatever reads nest or overlap.
PartitionIsExact ==
  coverage.outcome = "complete" =>
    \A d \in DOMAIN domains :
      LET ranges == coverage.ranges[d]
          spans == ToSet(SpansOf(domains[d], facts.ledger.domains))
          Within(b, r) == r.offset <= b /\ b < r.offset + r.len
      IN \A b \in 0 .. BodyLen(domains[d].stream) - 1 :
           /\ Cardinality({i \in DOMAIN ranges : Within(b, ranges[i])}) = 1
           /\ \A i \in DOMAIN ranges : Within(b, ranges[i]) =>
                /\ (ranges[i].class = "typed") <=>
                     \E s \in spans : s.class = "typed" /\ Within(b, s)
                /\ ranges[i].class = "typed" =>
                     ~\E s \in spans : s.class = "uninterpreted" /\ Within(b, s)

\* A complete partition accounts for every nested stream of the active entries
\* with the content the codec read there: none left to the budget, none that
\* only the codec or only the search found.
CompleteIsAccounted ==
  coverage.outcome = "complete" =>
    LET actual == facts.ledger.domains
    IN /\ Findable = {<<actual[i].entry, actual[i].offset>> : i \in DOMAIN actual}
       /\ \A i \in DOMAIN actual :
            Bytes(entries[actual[i].entry].payload.parts[actual[i].offset]) = actual[i].stream
===============================================================================
