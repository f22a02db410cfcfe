---------------------------- MODULE GeometryDomains ----------------------------
(***************************************************************************)
(* Geometry decoding around the CAD codec (sldkit-parser/src/geometry.rs): *)
(* the gate, the choice of the streams the codec read, the discovery of    *)
(* the nested Parasolid streams under a shared budget, and the verdict.    *)
(*                                                                         *)
(* The codec is external: it answers with an error or with facts, which    *)
(* name the entries it read.  A nested stream is a record                  *)
(* [len, cap, sound, header, body]: the bytes it expands to before it ends *)
(* or breaks, the bytes the compression ratio allows it, whether it        *)
(* inflates, what its Parasolid header describes, and its content.         *)
(* Only len, header and body are its bytes.                                *)
(***************************************************************************)
EXTENDS BytePartition, FiniteSetsExt

CONSTANTS
  NONE,          \* an absent optional value
  Gates,         \* inspections, document kinds and errors of the codec
  Sources,       \* inventories with what the codec made of them
  MaxFileSize, MaxTotalBytes, MaxStreams, \* ResourceLimits
  MaxProbes      \* MAX_NESTED_STREAM_PROBES

VARIABLES
  step,          \* "gate", "select", "open", "search", "check", "done"
  gate,          \* what happens before the codec has decoded
  entries,       \* the inventory
  facts,         \* what the codec reports
  candidates,    \* source streams, by entry
  opened,        \* entries searched so far, the last one still open
  budget,        \* NestedStreamBudget
  part,          \* nested streams of the open entry already tried
  kept,          \* bytes of the nested streams kept from the open entry
  domains,       \* byte domains found
  coverage,      \* partition of the domains
  status         \* GeometryStatus, NONE while running

vars == <<step, gate, entries, facts, candidates, opened, budget, part, kept, domains,
          coverage, status>>

NestedStream == [len: Nat, cap: Nat, sound: BOOLEAN, header: STRING, body: STRING]
StreamBytes == [len: Nat, header: STRING, body: STRING]
Bytes(stream) == [len |-> stream.len, header |-> stream.header, body |-> stream.body]

\* An outer stream: its path in lower case with the words in it, how the path
\* is spelled, and what the payload holds.
OuterPath == [name: STRING, words: SUBSET STRING]
InventoryEntry ==
  [path: OuterPath, spelling: STRING, decoded: BOOLEAN, extracts: BOOLEAN,
   payload: [storage: {"direct", "wrapped"}, parts: Seq(NestedStream)]]

\* What the codec reports of its reads, by path, by provenance and by ledger.
LedgerDomain ==
  [entry: Nat, offset: Nat, spelling: STRING, ordinal: Nat, stream: StreamBytes, spans: Seq(Span)]
Provenance ==
  [path: OuterPath, exactness: {"byte_exact", "derived", "inferred", "unknown"}]
CodecFacts ==
  [read: SUBSET Nat, active: OuterPath \cup {NONE}, provenance: SUBSET Provenance,
   transferred: BOOLEAN, flawed: BOOLEAN,
   ledger: [version: Nat, domains: Seq(LedgerDomain)]]

\* Streams that entities come from, those merely derived or inferred left out.
SourceStreams(f) ==
  {p.path : p \in {q \in f.provenance : q.exactness \notin {"derived", "inferred"}}}

\* The codec observes only what it read.  What it derives may name any path,
\* and its ledger places that do not exist.
NamesWhatItRead(inventory, f) ==
  /\ f.read \subseteq {e \in DOMAIN inventory : inventory[e].decoded}
  /\ SourceStreams(f) \cup ({f.active} \ {NONE}) \subseteq {inventory[e].path : e \in f.read}
  /\ \A i \in DOMAIN f.ledger.domains :
       f.ledger.domains[i].entry \in DOMAIN inventory => f.ledger.domains[i].entry \in f.read

HasRole(stream) == stream.header \in {"partition", "deltas"}

ASSUME GeometryAssumption ==
  /\ MaxFileSize \in Nat /\ MaxTotalBytes \in Nat /\ MaxStreams \in Nat /\ MaxProbes \in Nat
  /\ NONE \notin STRING \cup OuterPath
ASSUME SourceAssumption ==
  \A s \in Sources :
    /\ s.entries \in Seq(InventoryEntry) /\ s.facts \in CodecFacts
    /\ NamesWhatItRead(s.entries, s.facts)
    /\ \A e \in DOMAIN s.entries :
         LET parts == s.entries[e].payload.parts
         IN \A i \in DOMAIN parts : HasRole(parts[i]) => parts[i].len >= HeaderLen

NoCoverage == [outcome |-> "incomplete", ranges |-> <<>>]

FreshBudget ==
  [probes |-> Min({MaxStreams, MaxProbes}), streams |-> MaxStreams, bytes |-> MaxTotalBytes,
   limitHit |-> FALSE]

GeometryInit ==
  /\ step = "gate" /\ gate \in Gates
  /\ entries = <<>> /\ facts = NONE /\ candidates = <<>> /\ opened = <<>>
  /\ budget = FreshBudget /\ part = 0 /\ kept = {} /\ domains = <<>>
  /\ coverage = NoCoverage /\ status = NONE

-----------------------------------------------------------------------------
(***************************************************************************)
(* Before the codec: a failed inspection, another envelope, a rejected     *)
(* semantic pass and another document kind end the request.                *)
(***************************************************************************)
InspectionFailure(g) ==
  CASE g.inspected = "rejected" -> "rejected"
    [] g.inspected = "malformed" -> "malformed"
    [] g.inspected = "unsupported" /\ ~g.inventory -> "unsupported"
    [] OTHER -> NONE

\* An error of the codec, or of turning what it decoded into the source model.
DecoderFailure(error) ==
  CASE error \in {"wrong_format", "not_implemented"} -> "unsupported"
    [] error \in {"resource_limit", "serialization"} -> "rejected"
    [] OTHER -> "malformed"

EarlyAnswer(g) ==
  IF InspectionFailure(g) # NONE THEN InspectionFailure(g)
  ELSE IF ~g.inventory \/ g.envelope # "modern_chunk" THEN "unsupported"
  ELSE IF g.rejected THEN "rejected"
  ELSE IF g.kind \in {"assembly", "drawing"} THEN "unsupported"
  ELSE IF g.error # NONE THEN DecoderFailure(g.error)
  ELSE NONE

Refuse ==
  /\ step = "gate" /\ EarlyAnswer(gate) # NONE
  /\ status' = EarlyAnswer(gate) /\ step' = "done"
  /\ UNCHANGED <<gate, entries, facts, candidates, opened, budget, part, kept, domains, coverage>>

Decode ==
  /\ step = "gate" /\ EarlyAnswer(gate) = NONE
  /\ \E s \in Sources : entries' = s.entries /\ facts' = s.facts
  /\ step' = "select"
  /\ UNCHANGED <<gate, candidates, opened, budget, part, kept, domains, coverage, status>>

-----------------------------------------------------------------------------
(***************************************************************************)
(* Which outer streams the codec read (stream_candidates).  Paths are      *)
(* compared without case and may repeat: a path is evidence only when one  *)
(* decoded entry bears it.  The ledger names entries by their position and *)
(* the path as it is spelled.                                              *)
(***************************************************************************)
RoleOf(path) ==
  LET own == path.words \cap {"ghost", "resolvedfeatures"} = {}
  IN IF "deltas" \in path.words /\ own THEN "deltas"
     ELSE IF "partition" \in path.words /\ own THEN "partition"
     ELSE IF path.words \cap {"displaylists", "lwdata"} # {} THEN "tessellation"
     ELSE NONE

\* Mutant: a path is evidence whoever bears it.
AnyPath(e) == TRUE

UniquePath(e) ==
  \A d \in DOMAIN entries : entries[d].decoded /\ entries[d].path = entries[e].path => d = e

LedgerNames(e) ==
  /\ facts.ledger.version = 1
  /\ \E i \in DOMAIN facts.ledger.domains :
       /\ facts.ledger.domains[i].entry = e
       /\ facts.ledger.domains[i].spelling = entries[e].spelling

SelectionOf(e) ==
  LET role == RoleOf(entries[e].path)
      isActive == UniquePath(e) /\ facts.active = entries[e].path
      contributes == UniquePath(e) /\ entries[e].path \in SourceStreams(facts)
  IN IF isActive THEN "active"
     ELSE IF (contributes \/ LedgerNames(e)) /\ role # "tessellation" THEN "active"
     ELSE IF role = "tessellation" THEN "supporting"
     ELSE IF facts.transferred THEN "alternate" ELSE "candidate"

Eligible == {e \in DOMAIN entries : entries[e].decoded /\ RoleOf(entries[e].path) # NONE}
Partitions == {e \in Eligible : RoleOf(entries[e].path) = "partition"}

\* Without a stream named by the codec a single partition is taken for the one.
SoleCandidate == facts.active = NONE /\ facts.transferred /\ Cardinality(Partitions) = 1

Candidates ==
  [e \in Eligible |-> IF SoleCandidate /\ e \in Partitions THEN "active" ELSE SelectionOf(e)]

SelectStreams ==
  /\ step = "select"
  /\ candidates' = Candidates /\ step' = "open"
  /\ UNCHANGED <<gate, entries, facts, opened, budget, part, kept, domains, coverage, status>>

-----------------------------------------------------------------------------
(***************************************************************************)
(* Nested streams of the active partition and deltas entries, one by one.  *)
(* A payload holds streams directly, or behind a wrapper prefix zlib       *)
(* members, each of which costs a probe whatever it expands to.            *)
(***************************************************************************)
Searched ==
  {e \in DOMAIN candidates : candidates[e] = "active" /\ RoleOf(entries[e].path) # "tessellation"}
Unopened == Searched \ ToSet(opened)
Payload == entries[Last(opened)].payload
Parts == Payload.parts

OpenEntry ==
  /\ step = "open" /\ Unopened # {}
  /\ LET e == Min(Unopened)
     IN /\ opened' = Append(opened, e)
        /\ step' = IF entries[e].extracts THEN "search" ELSE "open"
  /\ part' = 0 /\ kept' = {}
  /\ UNCHANGED <<gate, entries, facts, candidates, budget, domains, coverage, status>>

CloseEntry ==
  /\ step = "search" /\ part = Len(Parts)
  /\ step' = "open"
  /\ UNCHANGED <<gate, entries, facts, candidates, opened, budget, part, kept, domains,
                 coverage, status>>

GiveUp ==
  /\ budget' = [budget EXCEPT !.limitHit = TRUE] /\ step' = "open"
  /\ UNCHANGED <<part, kept, domains>>

DomainOf(e, i) ==
  [entry |-> e, offset |-> i, spelling |-> entries[e].spelling,
   stream |-> Bytes(entries[e].payload.parts[i])]

Keep(stream) ==
  /\ kept' = kept \cup {Bytes(stream)}
  /\ domains' = Append(domains, DomainOf(Last(opened), part + 1))

\* A direct stream begins where the rest of the payload has a readable header,
\* so a payload over the file size loses the streams at its front.
IsStart(parts, i) ==
  FoldLeft(LAMBDA n, s : n + s.len, 0, SubSeq(parts, i, Len(parts))) <= MaxFileSize

TakeDirect ==
  /\ step = "search" /\ Payload.storage = "direct" /\ part < Len(Parts)
  /\ LET stream == Parts[part + 1]
     IN IF ~IsStart(Parts, part + 1)
        THEN part' = part + 1 /\ UNCHANGED <<step, budget, kept, domains>>
        ELSE IF budget.streams = 0 \/ stream.len > budget.bytes THEN GiveUp
        ELSE /\ budget' = [budget EXCEPT !.streams = @ - 1, !.bytes = @ - stream.len]
             /\ part' = part + 1
             /\ IF HasRole(stream) THEN Keep(stream) ELSE UNCHANGED <<kept, domains>>
             /\ UNCHANGED step
  /\ UNCHANGED <<gate, entries, facts, candidates, opened, coverage, status>>

InflateLimit(stream, remaining) == Min({MaxFileSize, MaxTotalBytes, remaining, stream.cap})

\* The reader is cut one byte past the limit.
Expanded(stream, limit) == IF limit = 0 THEN 0 ELSE Min({stream.len, limit + 1})

Inflates(stream, limit) == stream.sound /\ limit > 0 /\ Expanded(stream, limit) <= limit

\* Mutant: a member cut by the budget is skipped without a word.
CutUnnoticed(expanded, remaining) == FALSE

CutShort(expanded, remaining) == expanded > remaining

Spend(expanded, remaining) == Max({0, remaining - expanded})

\* Mutant: a member that keeps nothing costs nothing.
TakeProbeOnCredit ==
  /\ step = "search" /\ Payload.storage = "wrapped" /\ part < Len(Parts)
  /\ IF 0 \in {budget.probes, budget.bytes, budget.streams} THEN GiveUp
     ELSE LET stream == Parts[part + 1]
              limit == InflateLimit(stream, budget.bytes)
              expanded == Expanded(stream, limit)
              accepted == Inflates(stream, limit) /\ HasRole(stream) /\ Bytes(stream) \notin kept
          IN /\ budget' = IF ~accepted THEN [budget EXCEPT !.limitHit = @ \/ CutShort(expanded, budget.bytes)]
                          ELSE [probes |-> budget.probes - 1, streams |-> budget.streams - 1,
                                bytes |-> Spend(expanded, budget.bytes),
                                limitHit |-> budget.limitHit]
             /\ part' = part + 1
             /\ IF accepted THEN Keep(stream) ELSE UNCHANGED <<kept, domains>>
             /\ UNCHANGED step
  /\ UNCHANGED <<gate, entries, facts, candidates, opened, coverage, status>>

TakeProbe ==
  /\ step = "search" /\ Payload.storage = "wrapped" /\ part < Len(Parts)
  /\ IF 0 \in {budget.probes, budget.bytes, budget.streams} THEN GiveUp
     ELSE LET stream == Parts[part + 1]
              limit == InflateLimit(stream, budget.bytes)
              expanded == Expanded(stream, limit)
              accepted == Inflates(stream, limit) /\ HasRole(stream) /\ Bytes(stream) \notin kept
          IN /\ budget' = [probes |-> budget.probes - 1,
                           streams |-> budget.streams - (IF accepted THEN 1 ELSE 0),
                           bytes |-> Spend(expanded, budget.bytes),
                           limitHit |-> budget.limitHit \/ CutShort(expanded, budget.bytes)]
             /\ part' = part + 1
             /\ IF accepted THEN Keep(stream) ELSE UNCHANGED <<kept, domains>>
             /\ UNCHANGED step
  /\ UNCHANGED <<gate, entries, facts, candidates, opened, coverage, status>>

-----------------------------------------------------------------------------
(***************************************************************************)
(* The verdict: an incomplete search leaves the ledger unchecked, a ledger *)
(* that disagrees with the streams found rejects the document.             *)
(***************************************************************************)
EndSearch ==
  /\ step = "open" /\ Unopened = {}
  /\ coverage' = IF budget.limitHit THEN NoCoverage ELSE Normalize(domains, facts.ledger)
  /\ step' = "check"
  /\ UNCHANGED <<gate, entries, facts, candidates, opened, budget, part, kept, domains, status>>

GeometryStatus ==
  IF coverage.outcome = "invalid" THEN "rejected"
  ELSE IF ~facts.transferred \/ facts.flawed THEN "partial" ELSE "decoded"

Conclude ==
  /\ step = "check"
  /\ status' = GeometryStatus /\ step' = "done"
  /\ UNCHANGED <<gate, entries, facts, candidates, opened, budget, part, kept, domains, coverage>>

GeometryNext ==
  \/ Refuse \/ Decode \/ SelectStreams \/ OpenEntry \/ CloseEntry
  \/ TakeDirect \/ TakeProbe \/ EndSearch \/ Conclude

GeometrySpec == GeometryInit /\ [][GeometryNext]_vars
===============================================================================
