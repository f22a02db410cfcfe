----------------------------- MODULE ProjectScan -----------------------------
(***************************************************************************)
(* The project scanner of sldkit-parser (project.rs): a depth-first walk   *)
(* over the documents that a bounded directory index found, following the  *)
(* references each parsed document stores.  scan_project_path walks from   *)
(* one root document, index_project_path from every document of the        *)
(* project root.                                                           *)
(*                                                                         *)
(* The recursion visit -> process_reference -> visit is an explicit stack  *)
(* of activation frames, so every intermediate state of the walk can be    *)
(* talked about.  What a file parses to is chosen when it is parsed; which *)
(* host files the path rules select for a stored reference is part of the  *)
(* reference.                                                              *)
(***************************************************************************)
EXTENDS Naturals, Sequences, FiniteSets

CONSTANTS
  NONE,               \* an absent optional value
  Names,              \* configuration names
  Paths,              \* stored paths, up to folding (their basenames)
  Streams,            \* names of documents embedded in a container
  IndexedFiles,       \* number of files the directory index holds
  ParseResults,       \* what parsing one file may yield
  Roots,              \* the files the walk starts from, in order
  WholeProject,       \* index_project_path rather than scan_project_path
  RootConfiguration,  \* configuration asked of the roots, or NONE
  FollowSuppressed,   \* ProjectScanOptions::follow_suppressed
  IndexPartial,       \* the directory index was already incomplete
  MaxReferenceDepth, MaxProjectFiles, MaxProjectEdges \* ResourceLimits

VARIABLES
  files,        \* the index: host files, then embedded documents as found
  nodes,        \* file -> graph node, for the files met so far
  parsed,       \* file -> its document (or NONE), for the files parsed so far
  processed,    \* file -> configurations whose components were processed
  referenced,   \* files whose document references were processed
  edges,        \* one entry per processed reference, in order
  partial,      \* something was left unresolved
  rejected,     \* the graph cannot be used
  roots,        \* roots still to be visited
  stack,        \* activation frames of visit, innermost last
  status        \* verdict of finish, "running" before it

vars == <<files, nodes, parsed, processed, referenced, edges,
          partial, rejected, roots, stack, status>>

-----------------------------------------------------------------------------
(***************************************************************************)
(* Data.  A document lists its configurations by increasing index; the     *)
(* index is represented by the position in that list.                      *)
(***************************************************************************)
Flag == {"yes", "no", "unknown"}
ParseStatus == {"parsed", "partial", "unsupported", "malformed", "rejected"}
DocumentKind == {"part", "assembly", "drawing", "unknown"}
ReferenceKind == {"component", "external"}
HostFile == 1 .. IndexedFiles

\* A stored reference: "candidates" are the host files the path rules select
\* for its path, "stems" the embedded names its basename stands for.
Seed == [kind: ReferenceKind, path: Paths \cup {NONE}, candidates: SUBSET HostFile,
         virtual: BOOLEAN, stems: SUBSET Streams,
         configuration: Names \cup {NONE}, suppressed: Flag, excluded: Flag,
         expected: DocumentKind \cup {NONE}]

\* What a configuration lists are components of the assembly.
Component == {seed \in Seed : seed.kind = "component"}

Configuration == [name: Names \cup {NONE}, alternates: SUBSET Names,
                  components: Seq(Component)]

Document == [kind: DocumentKind, configurations: Seq(Configuration),
             references: Seq(Seed), embedded: Seq(Streams)]

ParseResult == [status: ParseStatus, document: Document \cup {NONE}]

ASSUME NoneAssumption ==
  /\ NONE \notin Names \cup Paths \cup Streams \cup DocumentKind \cup ParseStatus
  /\ NONE \notin Nat
ASSUME LimitAssumption ==
  /\ IndexedFiles \in Nat \ {0}
  /\ MaxReferenceDepth \in Nat
  /\ MaxProjectFiles \in Nat
  /\ MaxProjectEdges \in Nat
  /\ IndexedFiles <= MaxProjectFiles
ASSUME OptionAssumption ==
  /\ FollowSuppressed \in BOOLEAN
  /\ IndexPartial \in BOOLEAN
  /\ WholeProject \in BOOLEAN
  /\ ~WholeProject => Len(Roots) = 1
  /\ WholeProject => RootConfiguration = NONE
  /\ RootConfiguration \in Names \cup {NONE}
  /\ Roots \in Seq(HostFile)
ASSUME ParseAssumption == ParseResults \subseteq ParseResult

\* A map with one binding added or replaced.
Put(map, key, value) ==
  [k \in DOMAIN map \cup {key} |-> IF k = key THEN value ELSE map[k]]

-----------------------------------------------------------------------------
(***************************************************************************)
(* Graph nodes.                                                            *)
(***************************************************************************)
FreshNode(depth, isRoot) ==
  [root |-> isRoot, depth |-> depth, status |-> NONE, kind |-> NONE,
   configurations |-> <<>>, selected |-> {}, requested |-> {}]

\* Mutant: a node is updated when it is there, never inserted.
UpdateNode(ns, file, depth, isRoot) ==
  IF file \in DOMAIN ns
  THEN [ns EXCEPT ![file].depth = IF depth < @ THEN depth ELSE @,
                  ![file].root = @ \/ isRoot]
  ELSE ns

\* Every meeting with a file lowers its depth and may promote it to a root.
EnsureNode(ns, file, depth, isRoot) ==
  Put(ns, file,
      IF file \in DOMAIN ns
      THEN [ns[file] EXCEPT !.depth = IF depth < @ THEN depth ELSE @,
                            !.root = @ \/ isRoot]
      ELSE FreshNode(depth, isRoot))

RecordRequest(ns, file, name) ==
  IF name = NONE THEN ns
  ELSE [ns EXCEPT ![file].requested = @ \cup {name}]

\* Mutant: a later visit replaces the selection of an earlier one.
ReplaceSelected(ns, file, indices) == [ns EXCEPT ![file].selected = indices]

RecordSelected(ns, file, indices) ==
  [ns EXCEPT ![file].selected = @ \cup indices]

\* The identities finish publishes for a node: index (position) and name.
Identities(document) ==
  [c \in 1 .. Len(document.configurations) |-> document.configurations[c].name]

\* Mutant: a parse without a document leaves the node as it was.
RecordDocument(ns, file, result) ==
  IF result.document = NONE THEN ns
  ELSE [ns EXCEPT ![file].status = result.status,
                  ![file].kind = result.document.kind,
                  ![file].configurations = Identities(result.document)]

RecordParse(ns, file, result) ==
  IF result.document = NONE
  THEN [ns EXCEPT ![file].status = result.status]
  ELSE [ns EXCEPT ![file].status = result.status,
                  ![file].kind = result.document.kind,
                  ![file].configurations = Identities(result.document)]

\* Configurations a request names, by canonical or alternate name.
Matching(document, name) ==
  {c \in 1 .. Len(document.configurations) :
     \/ document.configurations[c].name = name
     \/ name \in document.configurations[c].alternates}

\* A request must name exactly one configuration; no request selects them all.
Selection(document, requested) ==
  IF requested = NONE THEN 1 .. Len(document.configurations)
  ELSE IF Cardinality(Matching(document, requested)) = 1
       THEN Matching(document, requested)
       ELSE {}

RequestFails(document, requested) ==
  requested # NONE /\ Cardinality(Matching(document, requested)) # 1

-----------------------------------------------------------------------------
(***************************************************************************)
(* Resolution of one reference.  A virtual component is looked up among    *)
(* the documents embedded in its own assembly before any path rule.        *)
(***************************************************************************)
EmbeddedCandidates(source, seed) ==
  {i \in 1 .. Len(files) :
     seed.path # NONE /\ files[i].container = source /\ files[i].name \in seed.stems}

Candidates(source, seed) ==
  IF seed.virtual /\ EmbeddedCandidates(source, seed) # {}
  THEN EmbeddedCandidates(source, seed)
  ELSE IF seed.path # NONE THEN seed.candidates ELSE {}

Resolution(source, seed) ==
  LET found == Candidates(source, seed)
  IN CASE Cardinality(found) = 1 -> "resolved"
       [] Cardinality(found) > 1 -> "ambiguous"
       [] found = {} /\ seed.path # NONE -> "missing"
       [] found = {} /\ seed.path = NONE -> "no_stored_path"

Target(source, seed) ==
  IF Resolution(source, seed) = "resolved"
  THEN CHOOSE t \in Candidates(source, seed) : TRUE
  ELSE NONE

-----------------------------------------------------------------------------
(***************************************************************************)
(* Activation frames.  "config" is 0 while the document references are     *)
(* walked, then the configuration whose components are; "next" is the      *)
(* position in that list; "pending" are the selected configurations still  *)
(* to come.                                                                *)
(***************************************************************************)
Call(file, depth, requested, ancestors, isRoot) ==
  [file |-> file, depth |-> depth, requested |-> requested,
   ancestors |-> ancestors, root |-> isRoot,
   phase |-> "called", config |-> 0, next |-> 1, pending |-> {}]

Top == stack[Len(stack)]
Pop == [i \in 1 .. Len(stack) - 1 |-> stack[i]]
ReplaceTop(frame) == [stack EXCEPT ![Len(stack)] = frame]

References(frame) ==
  IF frame.config = 0 THEN parsed[frame.file].references
  ELSE parsed[frame.file].configurations[frame.config].components

Running == status = "running"
Active(phase) == Running /\ stack # <<>> /\ Top.phase = phase
\* Mutant: the last reference of a list is not looked at.
ExhaustedEarly == Top.next >= Len(References(Top))
Exhausted == Top.next > Len(References(Top))
Current == References(Top)[Top.next]
\* Mutant: a processed reference stays the current one.
NotAdvanced == Top
Advanced == [Top EXCEPT !.next = @ + 1]

-----------------------------------------------------------------------------
(***************************************************************************)
(* Entering visit: load_document, then select_configurations.              *)
(***************************************************************************)
Usable(result) == result.status \in {"parsed", "partial"} /\ result.document # NONE

\* Embedded documents join the index until it is full.
Admitted(document) ==
  LET room == MaxProjectFiles - Len(files)
  IN IF Len(files) >= MaxProjectFiles THEN 0
     ELSE IF Len(document.embedded) < room THEN Len(document.embedded) ELSE room

RegisterEmbedded(file, document) ==
  files \o [i \in 1 .. Admitted(document) |->
              [container |-> file, name |-> document.embedded[i]]]

\* The rest of visit's prologue, once a document is at hand.
Enter(document, ns, incomplete) ==
  LET chosen == Selection(document, Top.requested)
  IN /\ nodes' = RecordSelected(RecordRequest(ns, Top.file, Top.requested),
                                Top.file, chosen)
     /\ partial' = (incomplete \/ RequestFails(document, Top.requested))
     /\ referenced' = referenced \cup {Top.file}
     /\ stack' = ReplaceTop(
          [Top EXCEPT !.phase = "walking", !.pending = chosen,
                      !.next = IF Top.file \in referenced
                               THEN Len(document.references) + 1 ELSE 1])

\* A document that never came to be has nothing to walk.
Leave(ns, incomplete) ==
  /\ nodes' = ns
  /\ partial' = incomplete
  /\ referenced' = referenced
  /\ stack' = Pop

VisitParsed ==
  /\ Active("called")
  /\ Top.file \in DOMAIN parsed
  /\ LET ns == EnsureNode(nodes, Top.file, Top.depth, Top.root)
     IN IF parsed[Top.file] = NONE THEN Leave(ns, partial)
        ELSE Enter(parsed[Top.file], ns, partial)
  /\ UNCHANGED <<files, parsed, processed, edges, rejected, roots, status>>

VisitUnparsed(result) ==
  /\ Active("called")
  /\ Top.file \notin DOMAIN parsed
  /\ parsed' = Put(parsed, Top.file, result.document)
  /\ rejected' = (rejected \/ (~Usable(result) /\ Top.root))
  /\ LET ns == RecordParse(EnsureNode(nodes, Top.file, Top.depth, Top.root),
                           Top.file, result)
         document == result.document
     IN IF document = NONE
        THEN /\ Leave(ns, TRUE)
             /\ UNCHANGED files
        ELSE /\ files' = RegisterEmbedded(Top.file, document)
             /\ Enter(document, ns,
                      \/ partial
                      \/ ~Usable(result)
                      \/ Admitted(document) < Len(document.embedded))
  /\ UNCHANGED <<processed, edges, roots, status>>

-----------------------------------------------------------------------------
(***************************************************************************)
(* process_reference.                                                      *)
(***************************************************************************)
\* Mutant: no document is taken for an ancestor.
NeverAncestor(target) == FALSE
\* Mutant: every document entered before is taken for an ancestor.
EnteredBefore(target) == target \in referenced
IsAncestor(target) == target \in Top.ancestors

\* Mutant: the limit is met one level too late.
TooDeepLate == Top.depth > MaxReferenceDepth
TooDeep == Top.depth >= MaxReferenceDepth

\* Mutant: a parsed document is taken for a new one.
NeverParsed(target) == FALSE
HasParseStatus(target) == target \in DOMAIN nodes /\ nodes[target].status # NONE

TraversalStatus(target, seed) ==
  IF target = NONE THEN "unresolved"
  ELSE IF seed.suppressed = "yes" /\ ~FollowSuppressed THEN "suppressed"
  ELSE IF IsAncestor(target) THEN "cycle"
  ELSE IF TooDeep THEN "depth_limited"
  ELSE IF HasParseStatus(target) THEN "reused"
  ELSE "followed"

Edge(source, frame, seed) ==
  [source |-> source, config |-> frame.config, ref |-> frame.next,
   kind |-> seed.kind, path |-> seed.path, requested |-> seed.configuration,
   suppressed |-> seed.suppressed, excluded |-> seed.excluded,
   expected |-> seed.expected, resolution |-> Resolution(source, seed),
   target |-> Target(source, seed),
   traversal |-> TraversalStatus(Target(source, seed), seed)]

\* A component also listed among the document references is left to its
\* configuration.
SkipComponentReference ==
  /\ Active("walking") /\ ~Exhausted
  /\ Top.config = 0 /\ Current.kind = "component"
  /\ stack' = ReplaceTop(Advanced)
  /\ UNCHANGED <<files, nodes, parsed, processed, referenced, edges,
                 partial, rejected, roots, status>>

AtReference ==
  /\ Active("walking") /\ ~Exhausted
  /\ ~(Top.config = 0 /\ Current.kind = "component")

EdgeLimitReached == Len(edges) >= MaxProjectEdges

\* Mutant: a reference beyond the limit is dropped without a word.
DropReference ==
  /\ AtReference
  /\ EdgeLimitReached
  /\ stack' = ReplaceTop(Advanced)
  /\ UNCHANGED <<files, nodes, parsed, processed, referenced, edges,
                 partial, rejected, roots, status>>

RefuseReference ==
  /\ AtReference
  /\ EdgeLimitReached
  /\ rejected' = TRUE
  /\ stack' = ReplaceTop(Advanced)
  /\ UNCHANGED <<files, nodes, parsed, processed, referenced, edges,
                 partial, roots, status>>

ProcessReference ==
  /\ AtReference
  /\ ~EdgeLimitReached
  /\ LET edge == Edge(Top.file, Top, Current)
         target == edge.target
     IN /\ edges' = Append(edges, edge)
        /\ partial' = (partial \/ edge.traversal \in {"unresolved", "depth_limited"})
        /\ nodes' = IF target = NONE THEN nodes
                    ELSE RecordRequest(EnsureNode(nodes, target, Top.depth + 1, FALSE),
                                       target, Current.configuration)
        /\ stack' = IF edge.traversal \in {"followed", "reused"}
                    THEN Append(ReplaceTop(Advanced),
                                Call(target, Top.depth + 1, Current.configuration,
                                     Top.ancestors \cup {target}, FALSE))
                    ELSE ReplaceTop(Advanced)
  /\ UNCHANGED <<files, parsed, processed, referenced, rejected, roots, status>>

\* Mutant: nothing is remembered about processed configurations.
NothingProcessed(file) == {}
\* Mutant: one processed configuration stands for all of its document.
ProcessedByFile(file) == IF file \in DOMAIN processed THEN Nat ELSE {}
ProcessedOf(file) == IF file \in DOMAIN processed THEN processed[file] ELSE {}

\* The next selected configuration, unless an earlier visit processed it.
NextConfiguration ==
  /\ Active("walking") /\ Exhausted
  /\ \E c \in Top.pending :
       /\ \A other \in Top.pending : c <= other
       /\ IF c \in ProcessedOf(Top.file)
          THEN /\ stack' = ReplaceTop([Top EXCEPT !.pending = @ \ {c}])
               /\ UNCHANGED processed
          ELSE /\ stack' = ReplaceTop([Top EXCEPT !.pending = @ \ {c},
                                                 !.config = c, !.next = 1])
               /\ processed' = Put(processed, Top.file, ProcessedOf(Top.file) \cup {c})
  /\ UNCHANGED <<files, nodes, parsed, referenced, edges,
                 partial, rejected, roots, status>>

Return ==
  /\ Active("walking") /\ Exhausted /\ Top.pending = {}
  /\ stack' = Pop
  /\ UNCHANGED <<files, nodes, parsed, processed, referenced, edges,
                 partial, rejected, roots, status>>

-----------------------------------------------------------------------------
(***************************************************************************)
(* The entry points and finish.                                            *)
(***************************************************************************)
VisitRoot ==
  /\ Running /\ stack = <<>> /\ roots # <<>>
  /\ stack' = <<Call(Head(roots), 0, RootConfiguration, {Head(roots)}, TRUE)>>
  /\ roots' = Tail(roots)
  /\ UNCHANGED <<files, nodes, parsed, processed, referenced, edges,
                 partial, rejected, status>>

KindMismatch(edge) ==
  /\ edge.target # NONE /\ edge.expected # NONE
  /\ nodes[edge.target].kind \notin {NONE, edge.expected}

Finish ==
  /\ Running /\ stack = <<>> /\ roots = <<>>
  /\ partial' = (partial \/ \E i \in DOMAIN edges : KindMismatch(edges[i]))
  /\ status' = IF rejected THEN "rejected" ELSE IF partial' THEN "partial" ELSE "complete"
  /\ UNCHANGED <<files, nodes, parsed, processed, referenced, edges,
                 rejected, roots, stack>>

\* The graph handed to the caller; an index has no root node.
ScanResult ==
  [status |-> status, nodes |-> nodes, edges |-> edges,
   root |-> IF WholeProject THEN NONE ELSE Roots[1]]

Finished == ~Running /\ UNCHANGED vars

Init ==
  /\ files = [i \in HostFile |-> [container |-> 0, name |-> NONE]]
  /\ nodes = <<>>
  /\ parsed = <<>>
  /\ processed = <<>>
  /\ referenced = {}
  /\ edges = <<>>
  /\ partial = IndexPartial
  /\ rejected = FALSE
  /\ roots = Roots
  /\ stack = <<>>
  /\ status = "running"

Step ==
  \/ VisitRoot
  \/ VisitParsed
  \/ \E result \in ParseResults : VisitUnparsed(result)
  \/ SkipComponentReference
  \/ RefuseReference
  \/ ProcessReference
  \/ NextConfiguration
  \/ Return
  \/ Finish

Next == Step \/ Finished

Spec == Init /\ [][Next]_vars

\* The scanner is a sequential program: while it can take a step, it does.
FairSpec == Spec /\ WF_vars(Step)
=============================================================================
