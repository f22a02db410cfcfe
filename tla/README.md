# TLA+ models of sldkit

sldkit reads SolidWorks documents: it inspects their containers, parses
document structure, decodes geometry and display data, walks the references
between the documents of a project, and makes bills of materials. This directory
holds TLA+ models of the parts whose behaviour is hard to test, the TLC
configurations that check them on small instances, and theorems about them whose
proofs TLAPS checks.

File names below are relative to `src/crates/`; `PROJECT.json` maps every
definition to the lines it models.

## 1. The system

The crates form a pipeline of sequential, mostly pure passes (docs/architecture.md):

    probe -> inspect -> extract -> parse -> drawing / geometry / display -> evaluate
                                     |
                                     +-> project index -> project scan -> bill of materials

Nothing runs concurrently inside the program and nothing is persisted. What is
hard is elsewhere: a recursion over cyclic data with a shared, growing graph;
limits that stop a walk in the middle; budgets spent in several places, by failed
attempts too; facts that several streams claim, in any order of storage; a
verdict (`complete`, `partial`, `rejected`) collected from failures in many
places; a file that other programs write between two reads of it.

| Component | State | Operations | What makes it correct |
|---|---|---|---|
| Project scanner (`sldkit-parser/src/project.rs`, `Scanner`) | graph nodes, edges, parsed documents, processed configurations, flags; the call stack | `visit`, `load_document`, `select_configurations`, `process_reference`, `register_embedded_documents`, `finish` | each reference handled once; cycles cut on the path only; bounded recursion; a verdict exactly as good as the graph |
| Directory index (`project.rs`, `build_index`, `scan_index_root`) | roots, indexed files with their memberships, counters | `add_root`, the walk of each root, `add_indexed_file` | each file once whatever the overlap of roots; limits refuse, unreadable entries make it partial |
| Reference resolution (`project.rs`, `ProjectIndex::resolve`) | none of its own | eight rules over the index | the first rule that selects anything decides; a name alone is the last resort |
| Bill of materials (`sldkit-parser/src/bom.rs`) | occurrence tree, stack of pending expansions, flags | `expand_root`, `expand`, `occurrence_for_edge`, `finish`, `aggregate_items` | the tree is the unrolled graph; quantities multiply; hidden branches are not counted |
| Container inventory (`sldkit-container`) | entries, retained payloads, accounted ranges, decompressed total, faults | probe, three walkers, extraction | every byte accounted for; the budget holds over all streams; only validated payloads are released |
| Document parser (`sldkit-parser/src/lib.rs`, `modern_semantics.rs`, `legacy_semantics.rs`) | the builder of a profile, coverage, the read of a path | bounded read, dispatch, one reader per stream, resolution of names, parents, components, properties, previews | a stream is kept or dropped whole; the order of streams does not matter; a resource is released as described |
| Geometry decoder (`geometry.rs`, `geometry/byte_partition.rs`) | selected streams, nested-stream budget, domains, partition | gate, selection, discovery, check of the read ledger | a stream called active was read; the budget is shared; no loss goes unreported |
| Geometry evaluation, curve checks, drawing inventory, display mesh | per-call budgets | one pass each | numeric |
| Core types, command line, Python API, viewer, scripts, vendored codec | none of their own | - | - |

How they interact: the walk of a container yields the inventory a parser profile
reads; the profile turns decoded streams into a document with configurations,
components and references. A project scan indexes directories, parses each file
once, on its first visit, and resolves a stored path to the files the rules
select; documents embedded in others join the index while the scan runs. When the
scan is over its graph - nodes, edges, status - is all the bill sees. The geometry
decoder starts from the inventory again, with what a third-party codec says it
read.

Hard behaviours (all listed with their lines under "hazards" in
`PROJECT.json`): a document visited repeatedly under different requested
configurations; a cycle told from a diamond; a target that has a node but was
never parsed; limits met in the middle of a recursion, an expansion or a search;
index roots that overlap; rules whose order decides what a path means; markers
inside payloads; declared sizes that lie; a section that fails after another
was decoded; names that only a later stream provides; a file replaced between
description and extraction; repeated stream paths; reads that nest and overlap.

## 2. Modules

| Modules | What they are |
|---|---|
| `ProjectScan`, `ProjectScanProperties`, `MCProjectScan` | the scanner, its properties, its small projects |
| `ReferenceGraph` | abstract specification of a scan, which `ProjectScan` implements |
| `ProjectScanProofs`, `ProjectVerdictProofs` | theorems about the scanner: its walk; its refinement and its verdict |
| `Bom`, `ScanBom`, `MCScanBom` | the bill of materials over any graph; a scan followed by a bill over the graph it returned; small projects |
| `BomProofs` | theorems about the bill |
| `ProjectIndex`, `ReferenceResolution`, `IndexProperties`, `MCIndex` | the directory index; the rules for stored paths over that index; properties; small trees |
| `IndexProofs` | theorems about the index and the rules |
| `ContainerCommon`, `ModernScan`, `ZipScan`, `Ole2Scan`, `ContainerScan` | byte ranges, budget and artifacts; one walker each; probe, dispatch and extraction |
| `ContainerProperties`, `MCContainers`, `ContainerProofs` | properties of every walk; small files; theorems |
| `SemanticFacts`, `ModernSemantics`, `ModernResolution`, `LegacySemantics`, `DocumentParser` | what the profiles share; readers of modern streams; what is resolved from them at the end; the legacy profile; paths, dispatch and extraction |
| `ParserProperties`, `MCParser`, `ParserProofs` | properties of a parsed document; small documents; theorems |
| `ByteRanges` | ranges of bytes, their order and how they are merged: shared by the container walk and the geometry decoder |
| `BytePartition`, `GeometryDomains`, `GeometryMeter`, `GeometryProperties`, `MCGeometry`, `GeometryProofs` | union and partition of byte ranges; the geometry request; the request with what its searches spent added up; properties; small inventories; theorems |
| `FoldTheorems` | lemmas about the folds and sums of the community modules and about merged ranges, for the proofs of several components |

### ProjectScan and project.rs

The mutual recursion `visit -> process_reference -> visit` is turned into an
explicit stack of frames, so that each step between two calls is a state. A frame
is one activation of `visit`: its file, depth, requested configuration and
ancestor set, and where it stands in its loops.

| Action | Code |
|---|---|
| `VisitRoot` | the calls of `visit` in `scan_project_path` and `index_project_path` |
| `VisitParsed`, `VisitUnparsed` | the start of `visit`: `load_document` (node, parse, embedded documents, flags), then `select_configurations` |
| `SkipComponentReference` | the `continue` for component references met among document references |
| `RefuseReference` | `process_reference` returning because the edge limit is reached |
| `ProcessReference` | the rest of `process_reference`: resolution, target node, traversal status, edge, recursive call |
| `NextConfiguration` | the loop over selected configurations with the `processed` set |
| `Return` | the end of `visit` |
| `Finish` | `validate_expected_document_kinds` and the status in `finish` |

A file is a number: host files first, in index order, then embedded documents as
they are registered. Parsing is a nondeterministic choice from `ParseResults`,
made once per file and kept in `parsed`, so a run explores every project that can
be put together from those documents. A stored reference carries the set of host
files its path selects (`candidates`); which files that can be is what
`ReferenceResolution` models. That virtual components look first among the
documents embedded in their own assembly, and then fall back to the path rules, is
modelled. Diagnostics are left out: they are written, never read.

`ReferenceGraph` knows neither a stack nor an order. References become owed when
documents are read or configurations selected (`Discover`); one owed reference at
a time becomes an edge, once, below the limit (`Handle`); the scan concludes when
nothing is owed, or when the limit is met and the verdict is `rejected`
(`Conclude`). `ProjectScan` implements it under the mapping
`owed <- Owed, handled <- Handled, verdict <- status`.

### ProjectIndex, ReferenceResolution and project.rs

`Begin`, `TakeMapping` and `TakeSearchDirectory` are `build_index` up to its
walks; `EnterRoot`, `ReadDirectory` and `TakeEntry` are `scan_index_root`, one step
per directory and per entry; `AddRootDocument` and `FinishIndex` its end. A path is
the sequence of its names; a tree gives every directory its entries, some of
which cannot be read, and some directories do not open. `Resolve` in
`ReferenceResolution` is the eight rules of `ProjectIndex::resolve` in order, over
the index the walk ended with. Folding is taken to keep the length of a name,
labels are left out, and a mapping with a blank prefix is one with an empty one.

### Bom, ScanBom and bom.rs

`Bom` reads `graph`, a record of the status, root, nodes and edges that
`ScanResult` publishes. `Pop`, `ExpandEdge`, `HitLimit` and `PushChildren` are the
steps of the expansion loop; `Refuse` and `ExpandRoot` the two outcomes of
choosing a root; `FinishBill` the verdict. Aggregation (`ItemKey`, `Bucket`,
`Amount`) is a pure function of the occurrence tree. `ScanBom` puts `Scan` before
`MakeBill`, so the bill is only ever made over graphs a scan can really return.
`build_bill_of_materials` borrows the scan result immutably, so `MakeBill` leaves
the scan's variables alone by construction.

### The container modules and sldkit-container

An input is what its bytes decode to: the frame behind every marker, the record at
every offset, the streams of a compound file, each with its declared and its
actual sizes and whether its checksum holds. So the walkers see every
combination of true and false declarations. One action of a walker is one
iteration of its loop, split by outcome (`TakeBlock`, `TakeMetadata`,
`RejectMarker`, `BlockOverLimit`; `ReadStored`, `ReadOpaque`, `ReadMismatched`,
`FailEntry`; and so on). All share `ContainerCommon`: `Inflate` is
`inflate_bounded`, `Merged` and `Complement` are `RangeSet`, `Accept` is what
happens to a decoded stream. Byte positions and header sizes are scaled down by
constants. The `cfb` and `flate2` libraries are external: what they yield is part
of the input. Sums cannot overflow on the 64-bit platforms the crates are
built for, since the input fits in memory; the corresponding failures are left out,
as are name-decoding diagnostics. Artifact ids are positions; the bounded
walk of a compound file counts in `markers`.

### The parser modules and sldkit-parser

`ParserSpec` is one path with two jobs: `parse_path` and, once a document is
known, `extract_resource_path` for one of its descriptors. Others may write the
path at any point (`Rewrite`). The read is three steps, as in
`read_path_bounded`: open, size check, bounded read. `disk = NONE` is a path
that cannot be read. Other path operations of the crates go through the same
function and are not repeated.

A profile is a walk over the entries of the inventory, one action per stream
reader (`DecodeFeatures`, `DecodeTree`, `DecodeHeader`, `DecodePropertySet`, ...),
and a final step that resolves the facts (`ModernFinish`, `LegacyFinish`). A reader
ends with the first thing it cannot accept (`FirstFailure`); what it leaves in the
builder then is nothing, as in the code, which works on a copy or validates first.
What a stream says of its configurations is gathered by configuration (`Claims`,
`Gather`), which is what the loops of the code leave in its maps.
A stream is a record of what its bytes say. Attributes that do not parse are
absent; attributes that are only copied, transforms, and the evidence beyond the
first entry are left out; the digest of a payload is the payload. A second walk
of the same bytes yields the same inventory. `result.status` is never
`parsed`: the code has no path to it.

### The geometry modules and geometry.rs

`Refuse` and `Decode` are the gate before and after the codec, `SelectStreams` is
`stream_candidates`, `OpenEntry`, `TakeDirect` and `TakeProbe` are the search for
nested Parasolid streams under `NestedStreamBudget`, `EndSearch` is
`normalize_byte_domains`, `Conclude` the status. The codec is third-party code and
external: its facts name the entries it read, an active path, provenance records
(of which only those that are neither derived nor inferred count), a read ledger
and how mapping its model went, a failed serialization included; it reads only
entries the inventory decoded. Sizes are scaled; a body is its stream without one
unit of header; digests and identities are the equality of the bytes.
`GeometryMeter` changes nothing of that: it adds up, over all entries, the members
handed to the inflater and the bytes taken from it, which the code only subtracts
from a budget and which the budget therefore cannot tell by itself. A direct stream is only recognised where the rest of
the payload is within `max_file_size`, which is modelled. `take(budget.streams + 1)`
in the search has no effect, since the budget is checked inside the loop, and is
left out.

## 3. What the runs check

| Run | Question | Properties |
|---|---|---|
| `scan_projects` | Do cycles, diamonds, repeated components and revisits under other configurations confuse a scan? Is exactly what was requested processed, once? | `TypeOK`, `NothingTwice`, `FirstContact`, `CycleClosesAPath`, `NothingOverlooked`, `ImplementsReferenceGraph`, `NeverRevised`, `Terminates` |
| `index_project` | In an index, where each document becomes a root in label order, at depth limit 1 and an edge limit that is met: does the verdict show every failure, and only those? | `BoundedRecursion`, `VerdictIsWarranted`, `UnparsedWasHeldBack` |
| `bom_expanded` | Are expansions exact and quantities the number of counted paths, with suppressed branches, with configurations that call each other, and where one bears an alternate name of another? Does every bill end? | `NothingBelowItself`, `ExpansionIsExact`, `CountedFollowsThePath`, `CompleteBillIsWhole`, `QuantitiesMultiply`, `ExpandedInFull`, `BillTerminates` |
| `resolve_paths` | Is the index the tree, or does it say that it is not? What does a stored path fall back to? | `IndexIsTheTree`, `LossIsAnnounced`, `EntryLimitIsHonest`, `NameIsLastResort`, `CandidatesBearTheName` |
| `containers` | Do damaged, overlapping and oversized files keep the accounting, the budget and the release of payloads in order? | `BytesPartitioned`, `BudgetHolds`, `FramesApart`, `CompleteIsWhole`, `OnlyValidatedIsReleased` |
| `parse_document` | Does the order of the streams, or a stream that fails, show in the document? | `FailedStreamLeavesNothing`, `NamesByPrecedence`, `NothingOrphaned`, `SheetPreviewsFollowNames` |
| `parse_path` | What does a path that is rewritten meanwhile do to a parse and an extraction? | `ReadIsBounded`, `ReleasedAsDescribed`, `ParseEnds` |
| `geometry` | Repeated paths, streams competing for the budget, ledgers that disagree: is what is reported true, and is every loss reported? | `ActiveWasRead`, `BudgetIsShared`, `LossReported`, `PartitionIsExact`, `CompleteIsAccounted` |
| `doc_virtual` | (a statement of the source that the code does not keep, section 6) | `VirtualAsDocumented` |
| `doc_scalar` | (likewise) | `ScalarsInsideTheirProperty` |
| `doc_bill` | (likewise) | `CompleteBillAsDocumented` |
| `doc_counted` | (likewise) | `CountedAsDocumented` |

The properties worth an explanation:

- `VerdictIsWarranted` recomputes the status from the finished graph (failed
  documents, unresolved and depth-limited edges, kind mismatches, failed requests,
  embedded documents left out, edges refused) and demands equality both ways: no
  failure is lost and none is invented. In the code seven places set `partial` and two
  set `rejected`.
- `FirstContact`: exactly one `followed` edge leads to each parsed document that
  did not start as a root, and `reused` edges only come after it. The code reads
  the target's parse status *before* visiting it.
- `CycleClosesAPath`: an edge is `cycle` only if traversed edges already lead from
  its target back to its source.
- `QuantitiesMultiply` compares the aggregated quantities with the number of
  counted paths, computed by dynamic programming over the edges and not by
  unrolling the tree.
- `ExpandedInFull`: components that are not in the graph must never be taken for
  none. The scan refuses a request that an alternate name makes ambiguous and leaves
  that configuration unwalked; the bill, which knows only canonical names, finds the
  configuration available. What keeps it from listing an assembly without parts is
  the check of `bom.rs:356`, and nothing but that.
- `NothingBelowItself`: the bill has no cycle check of its own. It ends because the
  scan cut every cycle between configurations; the composed model is what shows it.
  Where configurations bear names of each other a bill cut at its limit is excepted,
  and TLC finds one that repeats itself without that exception.
- `CountedFollowsThePath` says what the code, the documentation of the bill and the
  quantities agree on; the comment on the field says the reverse (section 6).
- `IndexIsTheTree` compares the index with the set of files reachable from each
  root, defined without any walk; `LossIsAnnounced` demands the same of what
  could not be read.
- `BytesPartitioned` compares the reported gaps with the accounted ranges byte by
  byte; `CompleteIsWhole` says for each container what a `complete` verdict owes.
- `NamesByPrecedence` collects the claims to a name from the streams themselves,
  without the builder, and compares ranks: the resolved name must not depend on the
  order of storage.
- `BudgetIsShared` counts what was spent, not what was kept: members that failed to
  inflate, were cut or were thrown away as repeated are probes and bytes all the same.
- `LossReported` compares the domains found with those an unlimited search would
  find; without the announcement of a loss they must be equal.

For every property of a passing run, `PROJECT.json` names a plausible bug of the
code (a mutated definition, kept next to the one it mutates and marked `Mutant:`)
under which TLC finds that property violated.

### Bounds

| Bound | Value | Why it is enough |
|---|---|---|
| host files | 3 | a cycle through a third document, a diamond, a self-reference, and a root met from another root |
| components per configuration | 2 (1 with two configurations) | a repeated occurrence, and a second reference after returning from the first |
| configurations per document | 2 | one name canonical, one alternate; requested, absent and ambiguous; for the bill, one whose alternate name is the name of the other |
| `MaxReferenceDepth` | 2, 1 in the index, 3 where all paths should be open | with three files both the limit and the longest simple path are met |
| `MaxProjectEdges` | 8, 5 in the index, 12 for bills | met in the index, not met where references must not be lost |
| `MaxProjectFiles` | 4 in the index | room for one of two embedded documents |
| `MaxOccurrences` | 8 | in the middle of an expansion in some projects, never in others |
| trees | four directories, up to five CAD files | nested and overlapping roots, names that differ in case only, an untyped and an unreadable entry |
| `MaxProjectEntries`, `MaxProjectFiles`, `MaxProjectRoots` of `resolve_paths` | 8, 5, 4 | all met when roots overlap, none by one root alone |
| container files | up to 14 scaled bytes, three frames or records, three streams | a marker inside a payload, an entry after a bad one, the budget met by the second stream |
| documents | three streams, four with drawing sheets, in every order | two contradicting claims and a third reader between them |
| `MaxChanges` | 2 | one rewrite during the read, one between parsing and extraction |
| inventories for geometry | three entries, four nested streams each | a repeated path and a third entry; a budget met in the first, in the second, and by a failed member |

The state spaces are finite without further constraints. Deadlock is checked in
the runs of the scanner and the bill, whose models rest in their final states
(`Finished`, `BothDone`); `resolve_paths`, `containers`, `parse_*` and `geometry`
model calls that end, and say `CHECK_DEADLOCK FALSE`.

### Fairness

The programs are single-threaded and never wait: while a step is possible, the
program takes one. `FairSpec` therefore has weak fairness on `Step`,
`FairScanBomSpec` on `Scan \/ MakeBill`, `ParserSpec` on the steps of the call under
way; no action is singled out. Nobody has to write a file (`Rewrite`), and nobody
has to ask for a resource (`ExtractResource`). The other specifications check
safety only and state no fairness.

## 4. What is proved

### The scanner

`ProjectScanProofs` and `ProjectVerdictProofs` prove for the `Spec` of `ProjectScan`,
for all files, documents, options and limits:

| Theorem | Statement |
|---|---|
| `TypeCorrect` | `Spec => []TypeOK` |
| `RecursionIsBounded` | `Spec => []BoundedRecursion`: at most `MaxReferenceDepth + 1` frames, on distinct documents |
| `CompleteIsResolved` | `Spec => []CompleteMeansResolved`: in a `complete` scan every edge is resolved, to a parsed document unless suppressed |
| `GraphOnlyGrows` | `Spec => NeverRevised`: no step rewrites an edge or a document, moves a node deeper or takes back a failure |
| `ReferencesOnce` | `Spec => []NothingTwice`: no reference is handled twice, however often its document is visited |
| `FirstContactHolds` | `Spec => []FirstContact`: one `followed` edge per document that did not start as a root, and `reused` only after it |
| `UnparsedWasKeptAway` | `Spec => []UnparsedWasHeldBack`: a node never parsed is one every edge was kept from |
| `EveryReferenceHandled` | `Spec => []NothingOverlooked`: below the edge limit, exactly the owed references have edges at the end |
| `ScanImplementsReferenceGraph` | `Spec => ImplementsReferenceGraph`: the walk implements `ReferenceGraph` |
| `CyclesAreReal` | `Spec => []CycleClosesAPath`: a reported cycle is a cycle of traversed edges |
| `VerdictFitsTheGraph` | `Spec => []VerdictIsWarranted`: the status is exactly the one the returned graph warrants |

The assumptions are those of `ProjectScan`: `NONE` is not a value of another
kind, the limits are natural numbers and the index respects the file limit, a
scan has one root and an index asks for no configuration, and parse results are
well-formed records.

None of these is inductive by itself. The invariant `Inv` adds to `TypeOK`:

- `Stacked`: frame *i* has depth *i - 1*, its ancestors are exactly the files of
  the frames up to it, those files are distinct, only the innermost frame may just
  have been called, and walking frames have a document. Without the equality of
  ancestors and stack the cycle test says nothing about the recursion; without the
  equality of depth and position the depth test bounds nothing.
- `NodesSettled` and `EdgeSettled`: a document that failed has left the scan
  partial or rejected; a traversed edge has led to a parsed document or is about
  to (its call is on top of the stack).
- `status = "complete"` only with `~partial` and an empty stack.

`InitStep` and `NextStep` prove it inductive, the latter from one lemma per
action, and each of those from lemmas on the stack operations (`StackPush`,
`StackPop`, `StackReplace`, `StackUnderGrowth`) and on the node operations
(`EnsureNodeFacts`, `RecordParseFacts`, ...). The same lemmas prove `Grows`.

The other scanner theorems add three invariants to `Inv`:

- `Once`: what marks a list as walked - `referenced` for the
  references of a document, `processed` for a configuration - is set when the walk
  of the list begins, and every edge of a list that a frame is walking lies behind
  the frame's position. Together: two visits of one document never walk the same
  list, and one visit never returns to a position. `NothingTwice` follows, and it
  is not inductive alone because the edges say nothing about the frames.
- `Contact`: the edges are ordered as `FirstContact` says;
  every parsed file is a root or behind a `followed` edge; a `followed` or `reused`
  edge to a file not parsed yet has its call on top of the stack. The last part is
  the gap between reading the target's status and visiting it: while that call is
  on top, nothing else can append an edge.
- `Ledger`: selections name configurations of parsed
  documents; every edge is of an owed reference; and, until a reference is refused,
  every owed reference has an edge or is still `Ahead` of some frame on the stack,
  in the list it is walking or in a configuration it still has pending. When the
  stack is empty nothing is ahead, so nothing is overlooked.

For the refinement, in `ProjectVerdictProofs`, `MapsToInit` and one lemma per abstract action (`MapsToDiscover`,
`MapsToHandle`, `MapsToConclude`) show where each step goes: `ProcessReference`
handles the current reference, visits discover (a document that is read, more
configurations selected), `Finish` concludes, the rest stutters. `ReferenceGraph`
counts handled references and the scanner counts edges; `HandledCount` says they are
as many, by `NothingTwice` and a bijection.

The same module then asks what the returned graph shows by itself:

- `Linked`: a chain of traversed edges leads from each frame of the stack down to
  every frame above it. An ancestor of the current frame is therefore a place from
  which the edges come back to it, which is `CycleClosesAPath`.
- `Rejection`: a file that failed sits behind a traversed edge or has rejected the
  scan, and the scan is rejected only by such a root (`RootLost`) or by an owed
  reference that found the edge limit reached (`Refused`). While a root is entered
  no other visit is under way (`RootAlone`), so the failure is the root's own.
- `Course`: the configuration a visit is asked for is the one written in the edge
  that called it, or the caller's for a root; only the lowest frame is a root; and
  an embedded document belongs to a container that was parsed.
- `Tally`: the flag `partial` is raised only when the graph has something loose (an
  edge not traversed, a failed file, a configuration not found, an embedded document
  left out) and for each of these, with one exception: a traversed edge whose visit
  is still `Pending` on top of the stack. At the end the stack is empty, the
  exception is gone and the flag is the graph's.

The verdict needs all of it: the code raises two flags as it goes and reads them
once at the end, while `VerdictIsWarranted` recomputes them from nodes and edges.

### The bill

`BomProofs` proves for `ScanBomSpec`, a scan followed by a bill over its graph, for
all documents, options and limits:

| Theorem | Statement |
|---|---|
| `ExpansionsAreExact` | `ScanBomSpec => []ExpansionIsExact`: one child for each component edge of an expanded occurrence, none elsewhere |
| `ExpansionsAreInFull` | `ScanBomSpec => []ExpandedInFull`: what a bill within the limit expands below the root has an occurrence for each of its components, however partial the scan is |
| `CountedAlongThePath` | `ScanBomSpec => []CountedFollowsThePath`: counted means that nothing on the path hides it |
| `NothingIsBelowItself` | `ScanBomSpec => []NothingBelowItself`: no document configuration is expanded below itself, whatever cycles the references form, unless names are ambiguous and the bill was cut at its limit |
| `QuantitiesAreProducts` | `ScanBomSpec => []QuantitiesMultiply`: the quantity of an item is the number of counted paths through the graph that end with one of its edges |
| `CompleteBillsAreWhole` | `ScanBomSpec => [](Followed => CompleteBillIsWhole)`: complete means whole, if the scan followed what the bill includes |

The theorems of the scanner hold under a bill, which cannot touch the scan
(`ScanUnderBill`, a lemma that only carries them over). The one assumption added is
that `NONE` is no expansion record. `Followed` is needed:
finding 3 of section 6 is what happens without it. The invariant is
`Bills == Inv /\ Grounded /\ BillTypes /\ Grown /\ Whole`:

- `Grounded` is what the bill relies on in the scan: targets of edges are nodes, only
  suppressed references stay untraversed for being suppressed, and a finished scan
  has parsed its roots.
- `Grown`: each occurrence carries the target and the flags of its edge and is counted
  as its parent and its own flags say; and `Scheduled`, the discipline of the two
  stacks of pending expansions (`agenda` and the children found for the occurrence in
  hand): no occurrence is pending twice, and each pending one carries the chain flags
  of the occurrence it stands for.
- `Whole`: for each occurrence, the edges that have become children and those that are
  `Left` - all of them while it is pending, the rest while it is in hand - are together
  the component edges of its configuration, and no edge becomes a child twice. Without
  the schedule this is not inductive: a second pending entry would double the children.

`CountedFollowsThePath` speaks of `Ancestors`, a recursive function; `AboveExists`
and `AboveUnique` show by least counterexample that the recursion is well-founded
(parents come before their children) and that paths are prefixes of one another.

`ExpandedInFull` puts the two halves together. An edge bears a configuration only if
it is of a component, and a rejected scan has no bill (`Sourced`), so the ledger of
the scan has an edge for every component of every configuration that was selected;
the bill opens only selected ones below the root, and by `ExpansionIsExact` it has a
child for each of their edges. No hypothesis on names is needed, other than for the
next.

That nothing is expanded below itself is a fact about the scan, although only the bill
can show it. The graph may have cycles of traversed edges, and the cycle test of the
scan compares documents, not configurations; what cuts the cycles between
configurations is that `visit` takes each configuration once, and
depth first. `Laid` adds to the scan's invariants what that order guarantees:

- `Postorder`: a configuration is `Closed` when its components were walked and it is no
  longer on the stack. A traversed edge has led to closed configurations of its target
  or is the one in the frame below its target (`Settled`), a frame has left, is in or
  still has to come to each configuration it selected (`Combed`), and in every set of
  closed configurations there is one whose edges all lead out of the set
  (`NoWayRound`). The last is well-foundedness in a form that needs no numbering: a
  configuration that closes is added on top of what it led to.
- `Published`: the configuration names of a node are those of its document, so the
  bill reads the names that the scan matched.
- `Traced` (of the bill): an occurrence hangs by an edge of the configuration its
  parent instantiates, so a path of occurrences is a path of edges.

A configuration below itself would give a set of closed configurations, those on the
path in between, with no way out. `OpenedWasClosed` is the bridge, and the only place
where `Unambiguous` is used: no configuration bears an alternate name of another. The
scan matches alternate names and the bill does not, so without it the scan may refuse
a request that the bill takes, and the bill opens what the scan never walked. Such an
expansion repeats for ever below the repeated configuration, so it stops at the
occurrence limit and nowhere else: that is the other half of the theorem, by the last
occurrence that repeats one above it.

`QuantitiesMultiply` compares the tree with a count that never builds it. The counted
occurrences of an edge, `n` edges below the root (`Line`), are paired off by their
parents with those, one level up, of the edges that open the configuration it belongs
to (`NextLine`, `PairedOff`, `SumOfSizes`), and no path is longer than there are edges,
since by the theorem before no edge occurs twice on one (`EdgesOfPathDiffer`).

### The containers

`ContainerProofs` proves for `ContainerSpec`, for all inputs and limits:

| Theorem | Statement |
|---|---|
| `BudgetNeverExceeded` | `ContainerSpec => []WithinBudget`: no container makes a scan decompress more than `max_total_uncompressed_bytes` |
| `BudgetIsTheSum` | `ContainerSpec => []BudgetHolds`: and what is charged is exactly the size of the entries reported as decoded |
| `FramesNeverOverlap` | `ContainerSpec => []FramesApart`: frames of the modern container lie apart and in order |
| `CompleteInventoryIsWhole` | `ContainerSpec => []CompleteIsWhole`: a complete inventory has every frame, record or stream of the file, none of them malformed |
| `ReleaseIsValidated` | `ContainerSpec => []OnlyValidatedIsReleased`: decoded payloads are those of the wanted entries that were validated, at every point of every walk |
| `EveryByteIsPlaced` | `ContainerSpec => []BytesPartitioned`: the uninterpreted ranges are exactly the bytes that no accounted range covers |

The assumptions are the types of the limits and of the scaled header and sector
sizes, that an input is a well-formed record (`InputAssumption`) and that `NONE` is neither a number
nor a verdict; what the fields of an input say of each other is left entirely open.
Three invariants are proved. The first is
`WellTyped /\ Paid /\ Ordered /\ OnlyValidatedIsReleased`. `Paid` is needed because
the ZIP walker does not consult the budget when it decodes: it adds up the sizes
the directory *declares*, refuses the directory when they exceed the limit, and
decodes an entry only at its declared size, so the invariant is
`decodedBytes <= markers <= MaxTotalBytes` for as long as that walker runs. `Ordered`
says that the modern walker has left every frame behind its cursor, without which
"in order" is not inductive, and that each walker only runs on its own envelope,
without which nothing is known of the entries when another walker is done.

The second, `Books == Summed /\ Honest /\ Whole`, is about what is written down:
`Summed`, the budget is the sum over the decoded entries; `Honest`, a malformed entry
has left a fault and a fault is not in a complete verdict; `Whole`, how far a walker
has come without a fault: the modern one has explained every marker `Seen` behind its
cursor, the entries of the ZIP directory have `Tiled` it up to the cursor, and the
OLE2 walker has inventoried the streams before its own. `CompleteIsWhole` is what
that says at the end of the file. Each walker's actions fall into a few shapes
(`EndsIncomplete`, `ModernGoesOn`, `DirectoryGoesOn`, `StreamsGoOn`), proved once.

The third, `Accounting`, is small - the accounted ranges are finitely many pairs of
naturals - and what follows from it is not: `RangeSet` clips them to the file, sorts
and merges them, and the gaps are what lies between. `MergedRanges` says that the
merged ranges are in order, do not touch and cover the same bytes, `ComplementIs` that
the gaps cover the others.

### The index and the path rules

`IndexProofs` proves for `ResolutionSpec`, a directory walk followed by references
resolved on its index, for every tree, request and limit:

| Theorem | Statement |
|---|---|
| `IndexIsWhole` | `ResolutionSpec => []IndexIsTheTree`: a finished index is exactly the tree below its roots |
| `LossIsSeen` | `ResolutionSpec => []LossIsAnnounced`: it is partial exactly when something could not be read |
| `EntryLimitRefusesForAReason` | `ResolutionSpec => []EntryLimitIsHonest`: the entry limit refuses only trees over it, or roots that overlap |
| `NameIsTheLastResort` | `ResolutionSpec => []NameIsLastResort`: a bare name decides only when nothing lies where the path points |
| `CandidatesAreNamed` | `ResolutionSpec => []CandidatesBearTheName`: what is proposed bears the stored name, and a mapped path lies under the target of a longest prefix |

The assumptions are about the file system and the request: finitely many directories
with finitely many entries each, one per name, and every directory entry is itself
listed (`IsFileSystem`); requests are well-formed records (`RequestAssumption`); and
`NONE` is not the name of a rule (`BasisAssumption`).

The invariant (`IndexFollowsTheWalk`) says at every step of the walk how far it has
come. `Ahead` are the directories the walk of the current root still has below
something `pending` or below an entry not taken yet; `Reached` the others; and the
index, the loss and the count are those of the tree as far as it is reached
(`FilesInv`, `LossInv`, `CountInv`). `WalkInOrder` is the strengthening: nothing the
walk has to do lies below anything else it has to do. Without it a directory could be
read twice, the count would not be the number of entries, and a step that takes an
entry could make a directory reached that is still ahead elsewhere. When nothing is
ahead, `FoundSoFar` is `Found`. The rules are a function of the finished index:
`FirstRuleDecides` says that an answer is that of the first rule with candidates, and
the two theorems on names go through the rules one by one.

### The geometry decoder

`GeometryProofs` proves for `GeometrySpec`, for every inventory, every answer of the
codec and every limit, and the first for `MeterSpec`, the same requests with their
expense added up:

| Theorem | Statement |
|---|---|
| `BudgetIsNeverOverdrawn` | `MeterSpec => []BudgetIsShared`: all entries together hand no more members to the inflater than there are probes, and take no more bytes from it than the budget and one, whatever is discarded afterwards |
| `ActiveStreamsWereRead` | `GeometrySpec => []ActiveWasRead`: an active stream is one the codec read, however paths repeat |
| `LossIsReported` | `GeometrySpec => []LossReported`: unless the limit is reported, the domains are those an unlimited search finds |
| `CompleteAccountsForAll` | `GeometrySpec => []CompleteIsAccounted`: a complete partition accounts for every nested stream, with the content the codec read |
| `PartitionsAreExact` | `GeometrySpec => []PartitionIsExact`: every byte of a body lies in exactly one range, typed exactly when a typed read took it |

The assumptions are the types of the limits and of the sources, that a nested stream
is no shorter than its header, and that the codec tells only of entries it read
(`NamesWhatItRead`): its active path, its provenance and the entries of its ledger that
exist. That is what the code relies on when it takes a path for evidence.

The search invariant (`SearchFollowsTheEntries`) says that every entry is opened once,
that each domain is a stream of an opened entry, and, as long as the limit was not
hit, that the domains are exactly the findable streams among those `Tried`, and
`kept` the distinct streams of the open entry that were kept. A search that gives up,
skips a failed member or finds the budget used up has either hit the limit or lost
nothing findable, action by action; in the end everything is tried.

For the budget, `Metered` relates the sums to what is left of it: probes made and left
are the probes there were, and bytes taken and left do not exceed the limit, whichever
way an attempt ended. The one byte more is what the inflater may read to see that a member is too
long; it is taken once, because a budget without bytes ends the search.

The ranges of a domain are not state the walk builds up but a function of the ledger,
so `PartitionsAreExact` rests on what that function computes for every list of reads:
the union of the typed reads is in order and covers what they cover (`UnionIs`); cut
out of the body, its members and the pieces between them `Tile` it, each piece starting
where the one before ends (`RangesTile`); and in a tiling each byte lies in one piece.

### The parser

`ParserProofs` proves for `ParserSpec`, for every file, every way others write to the
path and every limit:

| Theorem | Statement |
|---|---|
| `ReadsAreBounded` | `ParserSpec => []ReadIsBounded`: what is held of a path is within the limit, even if the file grows between the question for its length and the read |
| `ResourcesAreAsDescribed` | `ParserSpec => []ReleasedAsDescribed`: an image is released byte for byte as described or not at all, and from an unchanged file it is released |
| `PreviewsFollowNames` | `ParserSpec => []SheetPreviewsFollowNames`: a sheet preview goes to one sheet at most, of the name it was stored under |
| `FailedStreamsLeaveNothing` | `ParserSpec => []FailedStreamLeavesNothing`: whatever the document states cites a stream that was read, in either profile |
| `NoOrphans` | `ParserSpec => []NothingOrphaned`: properties, references, components and parent names belong to configurations of the document |
| `BestNameWins` | `ParserSpec => []NamesByPrecedence`: the name of a configuration is a best-ranked claim and the other names claimed are its alternates, each once, whatever the order of the streams |

The assumptions are the types of the limits, that `NONE` is neither a result nor a
claimed name (`NoneAssumption`), and what the readers take for granted of a decoded
stream (`FileAssumption`): its bytes, names, elements and records are lists, its
counts are naturals, names are text, an element is ranked 0 or 1, and the path of a
stream of a configuration has its number. What the streams say, and of how many
entries, in what order, is left open.

The invariant `ParserInv` has to look through the whole parse, because a descriptor
that leaves the document is checked only when somebody asks for it, against a file
that may be another by then:

- `JobsInOrder`: a path is parsed once and something is extracted only after that, so
  what a job refers to does not change under it.
- `Held`: what was parsed is a file within the limit and, as long as nobody wrote to
  the path, the file that is still there.
- `Pictured`: every image the builder keeps is `Sound`, that is, it is in a decoded
  entry of a walked container, inside its stream, and its digest is that of the bytes
  at its place. `PngInside` is the heart: a walk over chunks that ends with an image
  ends at a chunk of the stream. Every reader, of either profile, keeps it.
- `DescriptorsSound`: the resolution of the facts takes its images from the builder,
  so what the facts describe is `Sound` too. Hence the last part of
  `ReleasedAsDescribed`: an unchanged file passes every test of the extraction.

`PreviewsFollowNames` adds that sheets and names are lists and previews are kept under
the number in their path. A sheet finds its preview through the last position of its
name, names may repeat in either list, and only the first sheet of a name is served;
that two sheets never share one follows from both facts together.

The last three theorems share two more invariants, each inductive by what `ParserInv`
says of the content:

- `BuilderTold`: while the walk is at an entry, what the builder holds comes from the
  streams before it. Every fact cites one of the entries that were read so far
  (`ModernTold`, `LegacyTold`, over `ReadOf`); an entry the walk has not reached has
  no class but those a walk starts with (`ClassesKept`), so that reading it leaves the
  class of a stream that was read; what belongs to a
  configuration belongs to one of the builder, and a configuration has as many
  components as references were made for it (`Grounded`, by `MadeCounts`); and the
  names held of a configuration are the union of what the streams so far call it
  (`NamesHeard`). There is one lemma per reader (`FeaturesTold`, `HeaderTold`,
  `PropertySetTold`, ...), and two for all of them: an entry that was read adds what it
  says (`ReadTold`), one that failed adds nothing (`FailedTold`).
- `FactsFinished`: the facts are what the final step makes of the builder, at the end
  of the walk, and stay so while the path is rewritten and images are extracted.

What remains is about the final step alone, a function of the builder. It adds names
and inferred configurations without losing a claim (`Resolved`), merges what is claimed
(`NamesMerged`: each value once, a least rank first) and cites only what the builder
cites (`ModernCites`, `LegacyCites`). That a failed stream is never cited then follows
from classes: one that was read is not among those `Accounting` calls unknown for being
malformed or uninterpreted. For the names, the union of `NamesHeard` over all entries is the set of
claims the property collects stream by stream (`AllClaimsHeard`), so the order in which
the streams are stored is gone; and the alternates are counted by pairing them off with
the claimed values (`RanksDecide`, by `PairedOff`).

Where a proof has to know what a filtered list holds, the models choose its elements
by their positions (`Picked`): `PickedIs` says which, and in what order, while nothing
can be proved of `SelectSeq`, which is recursive and takes an operator.

### Folds and ranges

Sums and folds of the community modules are recursive functions over the subsets of
a finite set. The library's induction theorems cannot be used for them, since they
take an operator; `FoldTheorems` proves what is needed by least counterexample: that
such a function exists, that its values stay in a set closed under the step
(`FoldTyped`), that a sum does not depend on the order of its terms (`SumIs`), and that the
sizes of disjoint sets sum up to that of their union (`SumOfSizes`).
A fold over a sequence is the same recursion, taken from the last position, so that it
runs through the sequence from the front (`RunIs`): there is a value for every prefix,
and an invariant of the steps holds of the last one. On that rest sorting
(`AscendingIs`), merging (`RangeJoins`, `MergedIs`, `UnionIs`) and the gaps between
merged ranges (`GapsAre`), for the container walk and the geometry decoder alike.

### Only model-checked

- `Terminates`, `BillTerminates`, `ParseEnds`: liveness, out of the prover's reach.
- The four statements of section 6 that the code does not keep: each has a
  counterexample in a small instance, which is all that can be said of it.

Every other property of the runs is a theorem, under the hypotheses section 4 names.

## 5. What is not modelled

- Numerical evaluation of geometry, classification of curves and loops, meshes:
  floating point.
- What `map_model` copies (its failure is modelled), topology metrics and coverage counts of the geometry decoder, the
  drawing inventory and the display tables: single passes that copy.
- The project compatibility report and the summary counts of a bill.
- Diagnostics, labels and display names.
- Byte-level decoding of names, numbers and headers: an input says what they decode
  to, well or badly.
- The command line, the Python API and the viewer: wrappers without state.
- `vendor/`: third-party code; `cfb` and `flate2`.

The composition is by interface: `ProjectScan` takes `candidates` and parse results
as given, where `ReferenceResolution` and `DocumentParser` model how they come
about, and the parser takes an inventory as given. The models assume in between
that a file parses the same way whenever it is parsed (the scanner parses it once).

## 6. What we found

Where the documentation says something else than the code does:

1. The path of a virtual component does select a project file when its assembly
   embeds no document of that name (`doc_virtual`). The comment in `project.rs:650`
   denies it; docs/project-scanning.md:42 documents this fallback, so the
   disagreement is between comment and guide, and the code follows the guide.
2. A scalar of an OLE property is checked against the end of the stream, not of
   its property, and may be read from the bytes of the next one (`doc_scalar`).
3. With `include_suppressed` over a scan without `follow_suppressed`, a suppressed
   subassembly that was never parsed has no document kind, so the bill takes it for
   a part: it is counted as one, no diagnostic tells, and scan and bill are both
   `complete` although its components are missing (`doc_bill`).
4. `BomOccurrence::counted` is documented in `sldkit-core/src/bom.rs:83` as true when
   the occurrence or an ancestor is suppressed or excluded; `bom.rs:240` computes the
   negation, and docs/project-scanning.md and the quantities agree with the code
   (`doc_counted`). The comment has lost a "not".

Effects of the code that a reader should know:

- The walk is depth-first. A reference cut by the depth limit keeps
  `depth_limited` even if its target is later reached by a shorter path, and the
  depths of documents below an already visited one are not lowered with it. The
  result of an index near the depth limit therefore depends on label order.
- A bad document rejects an index only when it is first met as a root; if an
  earlier root's reference led to it, the index is `partial`.
- The cycle test compares documents, not configurations: a component that asks for
  another configuration of a document on the path is reported as a cycle and does
  not select that configuration. Conversely the edges of a finished graph may form
  a cycle without any being called one, when the documents were walked under
  different configurations.
- The scan accepts alternate configuration names, the bill only canonical ones. A
  complete scan may so give `configuration_unresolved`, and with alternate
  names a cycle between configurations may be unrolled up to the occurrence limit
  (never in a bill below the limit, as section 4 proves). What the scan left
  unwalked for that reason the bill reports and does not open (`ExpandedInFull`).
- `max_occurrences = 0` still yields the root occurrence; occurrences pending when
  the limit is met keep the state `expanded`, and a depth-limited target is
  reported as `leaf` (`bom.rs:206`, `bom.rs:266`).
- With `include_suppressed` an occurrence that is suppressed and also excluded still
  counts as suppressed (`bom.rs:482`).
- The configuration of the root is chosen among the available ones and never
  compared with those the scan processed (`bom.rs:378`): a bill that asks for another
  one has a childless root marked `expanded` and may be `complete`, where the same
  mismatch further down is `bom.configuration_not_scanned` and makes it partial.
- A complete scan does not imply a complete bill, nor the other way round.
- Entries of overlapping index roots count once for each root that meets them.
- A nested geometry stream over `max_compression_ratio` or `max_file_size` is
  dropped without `geometry.byte_domain_limit`; if the codec read it, its ledger
  then disagrees with the search and the document is rejected.
- A read ledger without domains makes the partition `incomplete`, where
  docs/geometry.md says that missing domains reject.
- A sole partition stream is called active although the codec named none; this
  inference is excepted from `ActiveWasRead`.

## 7. What is left

1. A composition of the parser with the container walk, in place of the
   interface between them.
2. The drawing inventory and the display tables, should they come to decide
   something.
3. Names whose case folding changes their length.
