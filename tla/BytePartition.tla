----------------------------- MODULE BytePartition -----------------------------
(***************************************************************************)
(* The read ledger of the geometry decoder checked against the nested      *)
(* streams sldkit extracted itself, and the byte ranges derived from it    *)
(* (geometry/byte_partition.rs).                                           *)
(*                                                                         *)
(* A domain is [entry, offset, spelling, stream], a domain of the ledger   *)
(* carries also its ordinal and its spans [offset, len, class, sound].     *)
(* Equality of streams stands for equal identities, lengths and digests; a *)
(* span is sound when it is tagged and its digest is that of the bytes it  *)
(* names.                                                                  *)
(***************************************************************************)
EXTENDS ByteRanges

HeaderLen == 1   \* the bytes before the body of every nested stream, scaled

BodyLen(stream) == stream.len - HeaderLen

Span == [offset: Nat, len: Nat, class: {"typed", "uninterpreted"}, sound: BOOLEAN]

\* Where each domain lies.
Sites(domains) == [i \in DOMAIN domains |-> <<domains[i].entry, domains[i].offset>>]

\* Mutant: places are compared, contents are not.
DomainsPlaced(domains, actual) ==
  {<<d.entry, d.offset>> : d \in ToSet(domains)} = {<<d.entry, d.offset>> : d \in ToSet(actual)}

\* One ledger domain for each extracted one, of the same place and identity.
DomainsAgree(domains, actual) ==
  LET Selected == {domains[i].entry : i \in DOMAIN domains}
  IN /\ IsInjective(Sites(domains))
     /\ \A i \in DOMAIN actual : actual[i].entry \in Selected
     /\ IsInjective(Sites(actual))
     /\ IsInjective([i \in DOMAIN actual |-> <<actual[i].entry, actual[i].ordinal>>])
     /\ \A i \in DOMAIN actual : \E j \in DOMAIN domains :
          /\ Sites(domains)[j] = Sites(actual)[i]
          /\ domains[j].spelling = actual[i].spelling
          /\ domains[j].stream = actual[i].stream
     /\ Len(actual) = Len(domains)

SpansValid(spans, length) ==
  \A i \in DOMAIN spans :
    /\ spans[i].len > 0
    /\ spans[i].offset + spans[i].len <= length
    /\ spans[i].sound

-----------------------------------------------------------------------------
Union(intervals) == FoldLeft(JoinRange, <<>>, Ascending(intervals))

IntervalsOf(spans, class) ==
  {<<s.offset, s.offset + s.len>> : s \in {t \in ToSet(spans) : t.class = class}}

\* Typed and uninterpreted reads share no byte, checked on their unions.
ClassesApart(spans) ==
  \A t \in ToSet(Union(IntervalsOf(spans, "typed"))),
     u \in ToSet(Union(IntervalsOf(spans, "uninterpreted"))) :
    t[2] <= u[1] \/ u[2] <= t[1]

Piece(start, end, class) ==
  IF start = end THEN <<>>
  ELSE <<[offset |-> start, len |-> end - start, class |-> class]>>

\* A typed range takes what lies before it along.
Extend(acc, t) ==
  [cursor |-> t[2],
   ranges |-> acc.ranges \o Piece(acc.cursor, t[1], "uninterpreted") \o Piece(t[1], t[2], "typed")]

\* The typed union and its complement in the body, in order.
RangesOf(spans, length) ==
  LET done == FoldLeft(Extend, [cursor |-> 0, ranges |-> <<>>], Union(IntervalsOf(spans, "typed")))
  IN done.ranges \o Piece(done.cursor, length, "uninterpreted")

-----------------------------------------------------------------------------
SpansOf(domain, actual) ==
  actual[CHOOSE i \in DOMAIN actual :
           actual[i].entry = domain.entry /\ actual[i].offset = domain.offset].spans

\* Only version 1 is understood; without it, without domains or without a
\* ledger the coverage stays incomplete, anything that disagrees is invalid.
Normalize(domains, ledger) ==
  IF domains = <<>> \/ ledger.version # 1 \/ ledger.domains = <<>>
  THEN [outcome |-> "incomplete", ranges |-> <<>>]
  ELSE IF /\ DomainsAgree(domains, ledger.domains)
          /\ \A i \in DOMAIN domains :
               LET spans == SpansOf(domains[i], ledger.domains)
               IN SpansValid(spans, BodyLen(domains[i].stream)) /\ ClassesApart(spans)
       THEN [outcome |-> "complete",
             ranges |-> [i \in DOMAIN domains |->
                           RangesOf(SpansOf(domains[i], ledger.domains),
                                    BodyLen(domains[i].stream))]]
       ELSE [outcome |-> "invalid", ranges |-> <<>>]
===============================================================================
