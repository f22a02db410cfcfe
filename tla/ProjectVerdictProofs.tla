------------------------- MODULE ProjectVerdictProofs -------------------------
(***************************************************************************)
(* What a scan comes to, for every project, every option and every limit.  *)
(* The depth-first walk implements ReferenceGraph: whatever the order of   *)
(* visits, the references a scan comes to owe each become one edge, and    *)
(* none is left when it ends, unless the edge limit rejected it.  Then     *)
(* what the graph it returns shows by itself: that cycles close a path of  *)
(* traversed edges, and that the verdict is the one the graph warrants.    *)
(***************************************************************************)
EXTENDS ProjectScanProofs, FunctionTheorems

\* The configurations recorded as selected for a file.
Sel(ns, f) == IF f \in DOMAIN ns THEN ns[f].selected ELSE {}

\* Reference i of list c of file f is owed an edge.
Owes(p, ns, f, c, i) ==
  /\ Documented(p, f)
  /\ \/ /\ c = 0
        /\ i \in DOMAIN p[f].references
        /\ p[f].references[i].kind # "component"
     \/ /\ c # 0
        /\ c \in Sel(ns, f)
        /\ i \in DOMAIN p[f].configurations[c].components

HasEdge(es, f, c, i) == \E e \in DOMAIN es : Identity(es[e]) = <<f, c, i>>

\* A frame still comes to the reference: it is ahead in the list being walked,
\* or in a configuration to be walked later.
Ahead(frame, done, f, c, i) ==
  /\ frame.phase = "walking" /\ frame.file = f
  /\ \/ frame.config = c /\ frame.next <= i
     \/ c # 0 /\ c \in frame.pending /\ c \notin ProcessedIn(done, f)

\* A frame walks what was selected.
WalksSelected(frame, ns) ==
  frame.phase = "walking" =>
    /\ frame.pending \subseteq Sel(ns, frame.file)
    /\ frame.config # 0 => frame.config \in Sel(ns, frame.file)

\* Nothing owed is out of sight, until a reference is refused.
InSight ==
  Len(edges) < MaxProjectEdges \/ ~rejected =>
    \A f, c, i : Owes(parsed, nodes, f, c, i) =>
      \/ HasEdge(edges, f, c, i)
      \/ \E k \in DOMAIN stack : Ahead(stack[k], processed, f, c, i)

\* Selections name configurations of parsed documents, and what is processed
\* was selected.
Selected(p, ns, done) ==
  /\ \A f : Documented(p, f) => Sel(ns, f) \subseteq 1 .. Len(p[f].configurations)
  /\ \A f : f \notin DOMAIN p => Sel(ns, f) = {}
  /\ \A f : ProcessedIn(done, f) \subseteq Sel(ns, f)

Ledger ==
  /\ Selected(parsed, nodes, processed)
  /\ \A k \in DOMAIN stack : WalksSelected(stack[k], nodes)
  /\ \A e \in DOMAIN edges :
       Owes(parsed, nodes, edges[e].source, edges[e].config, edges[e].ref)
  /\ Len(edges) <= MaxProjectEdges
  /\ InSight

-----------------------------------------------------------------------------
(***************************************************************************)
(* Which operations on the nodes select.                                   *)
(***************************************************************************)
LEMMA EnsureSelects ==
  ASSUME NEW ns, NodesOK(ns), NEW file, NEW depth \in Nat, NEW isRoot \in BOOLEAN, NEW g
  PROVE  Sel(EnsureNode(ns, file, depth, isRoot), g) = Sel(ns, g)
<1> DEFINE ms == EnsureNode(ns, file, depth, isRoot)
<1>1. /\ DOMAIN ms = DOMAIN ns \cup {file}
      /\ \A f \in DOMAIN ns : f # file => ms[f] = ns[f]
  BY DEF EnsureNode, Put
<1>2. ASSUME file \in DOMAIN ns PROVE ms[file].selected = ns[file].selected
  <2>1. ns[file] \in Node
    BY <1>2 DEF NodesOK
  <2> DEFINE nearer == IF depth < ns[file].depth THEN depth ELSE ns[file].depth
  <2>2. ms[file] = [ns[file] EXCEPT !.depth = nearer, !.root = ns[file].root \/ isRoot]
    BY <1>2 DEF EnsureNode, Put
  <2> HIDE DEF nearer, ms
  <2> QED
    BY <2>1, <2>2 DEF Node
<1>3. ASSUME file \notin DOMAIN ns PROVE ms[file].selected = {}
  BY <1>3 DEF EnsureNode, Put, FreshNode
<1> HIDE DEF ms
<1>4. Sel(ms, g) = Sel(ns, g)
  BY <1>1, <1>2, <1>3 DEF Sel
<1> QED
  BY <1>4 DEF ms

LEMMA RequestSelects ==
  ASSUME NEW ns, NodesOK(ns), NEW file, NEW name, NEW g
  PROVE  Sel(RecordRequest(ns, file, name), g) = Sel(ns, g)
<1>1. ASSUME g \in DOMAIN ns PROVE ns[g] \in Node
  BY <1>1 DEF NodesOK
<1> QED
  BY <1>1 DEF RecordRequest, Sel, Node

LEMMA ParseSelects ==
  ASSUME NEW ns, NodesOK(ns), NEW file, NEW result, NEW g
  PROVE  Sel(RecordParse(ns, file, result), g) = Sel(ns, g)
<1>1. ASSUME g \in DOMAIN ns PROVE ns[g] \in Node
  BY <1>1 DEF NodesOK
<1> QED
  BY <1>1 DEF RecordParse, Sel, Node

LEMMA SelectedSelects ==
  ASSUME NEW ns, NodesOK(ns), NEW file \in DOMAIN ns, NEW indices, NEW g
  PROVE  Sel(RecordSelected(ns, file, indices), g)
           = IF g = file THEN Sel(ns, g) \cup indices ELSE Sel(ns, g)
<1>1. ASSUME g \in DOMAIN ns PROVE ns[g] \in Node
  BY <1>1 DEF NodesOK
<1> QED
  BY <1>1 DEF RecordSelected, Sel, Node

LEMMA EnterSelects ==
  ASSUME NEW ns, NodesOK(ns), NEW file \in DOMAIN ns, NEW name \in Names \cup {NONE},
         NEW indices, NEW g
  PROVE  Sel(RecordSelected(RecordRequest(ns, file, name), file, indices), g)
           = IF g = file THEN Sel(ns, g) \cup indices ELSE Sel(ns, g)
<1> DEFINE ls == RecordRequest(ns, file, name)
<1>1. DOMAIN ls = DOMAIN ns /\ NodesOK(ls) /\ Sel(ls, g) = Sel(ns, g)
  BY RequestSelects, RecordRequestFacts
<1> HIDE DEF ls
<1>2. Sel(RecordSelected(ls, file, indices), g)
        = IF g = file THEN Sel(ls, g) \cup indices ELSE Sel(ls, g)
  BY <1>1, SelectedSelects
<1> QED
  BY <1>1, <1>2 DEF ls

-----------------------------------------------------------------------------
(***************************************************************************)
(* The abstract state, read off the scanner's.                             *)
(***************************************************************************)
LEMMA OwedIs ==
  ASSUME Inv, Ledger
  PROVE  \A x : x \in Owed <=> \E f, c, i : x = <<f, c, i>> /\ Owes(parsed, nodes, f, c, i)
<1>1. \A f : HasDocument(f) <=> Documented(parsed, f)
  BY DEF HasDocument, Documented
<1>2. \A f \in DOMAIN parsed : f \in DOMAIN nodes /\ nodes[f].selected = Sel(nodes, f)
  BY DEF Inv, TypeOK, Sel
<1>3. ASSUME NEW f, NEW c, NEW i, Documented(parsed, f)
      PROVE  <<f, c, i>> \in OwedReferences(f) <=> Owes(parsed, nodes, f, c, i)
  <2>1. nodes[f].selected = Sel(nodes, f) /\ 0 \notin Sel(nodes, f)
    BY <1>2, <1>3 DEF Ledger, Selected, Documented
  <2> QED
    BY <1>3, <2>1 DEF OwedReferences, Owes
<1>4. ASSUME NEW f, NEW x \in OwedReferences(f)
      PROVE  \E c, i : x = <<f, c, i>>
  BY DEF OwedReferences
<1>5. \A x : x \in Owed <=> \E f : HasDocument(f) /\ x \in OwedReferences(f)
  BY DEF Owed, HasDocument
<1> QED
  BY <1>1, <1>3, <1>4, <1>5 DEF Owes

LEMMA HandledIs ==
  \A f, c, i : <<f, c, i>> \in Handled <=> HasEdge(edges, f, c, i)
  BY DEF Handled, HasEdge

LEMMA HandledIsOwed == Inv /\ Ledger => Handled \subseteq Owed
<1> SUFFICES ASSUME Inv, Ledger, NEW e \in DOMAIN edges
             PROVE  Identity(edges[e]) \in Owed
  BY DEF Handled
<1>1. Owes(parsed, nodes, edges[e].source, edges[e].config, edges[e].ref)
  BY DEF Ledger
<1> QED
  BY <1>1, OwedIs DEF Identity

\* One edge each: as many references are handled as there are edges.
LEMMA HandledCount ==
  ASSUME Inv, NothingTwice
  PROVE  Cardinality(Handled) = Len(edges)
<1>1. Len(edges) \in Nat /\ DOMAIN edges = 1 .. Len(edges)
  BY DEF Inv, TypeOK
<1> DEFINE name == [e \in 1 .. Len(edges) |-> Identity(edges[e])]
<1>2. name \in [1 .. Len(edges) -> Handled]
  BY <1>1 DEF Handled
<1>3. \A d, e \in 1 .. Len(edges) : name[d] = name[e] => d = e
  BY <1>1 DEF NothingTwice
<1>4. \A x \in Handled : \E e \in 1 .. Len(edges) : name[e] = x
  BY <1>1 DEF Handled
<1> HIDE DEF name
<1>5. name \in Bijection(1 .. Len(edges), Handled)
  BY <1>2, <1>3, <1>4, Fun_IsBij
<1>6. ExistsBijection(1 .. Len(edges), Handled)
  BY <1>5 DEF ExistsBijection
<1> QED
  BY <1>1, <1>6, FS_CountingElements

-----------------------------------------------------------------------------
(***************************************************************************)
(* Where the frames of a stack go.                                         *)
(***************************************************************************)
LEMMA FramesStay ==
  ASSUME Inv, stack # <<>>
  PROVE  /\ \A frame : /\ Len(stack) \in DOMAIN ReplaceTop(frame)
                       /\ ReplaceTop(frame)[Len(stack)] = frame
         /\ \A frame : \A k \in DOMAIN stack : k # Len(stack) =>
              k \in DOMAIN ReplaceTop(frame) /\ ReplaceTop(frame)[k] = stack[k]
         /\ \A k \in DOMAIN stack : k # Len(stack) => k \in DOMAIN Pop /\ Pop[k] = stack[k]
<1>1. stack \in Seq(Frame) /\ Len(stack) \in Nat \ {0} /\ DOMAIN stack = 1 .. Len(stack)
  BY TopFacts
<1> QED
  BY <1>1 DEF ReplaceTop, Pop

\* What a step that leaves documents, selections and edges alone has to keep.
LEMMA LedgerKept ==
  ASSUME Inv, Ledger, UNCHANGED <<nodes, parsed, edges>>,
         \A f : ProcessedIn(processed', f) \subseteq Sel(nodes, f),
         \A k \in DOMAIN stack' : \/ \E j \in DOMAIN stack : stack'[k] = stack[j]
                                  \/ WalksSelected(stack'[k], nodes),
         rejected => rejected',
         \A f, c, i : \A k \in DOMAIN stack :
           /\ Len(edges) < MaxProjectEdges \/ ~rejected'
           /\ Owes(parsed, nodes, f, c, i)
           /\ Ahead(stack[k], processed, f, c, i)
           => \/ HasEdge(edges, f, c, i)
              \/ \E l \in DOMAIN stack' : Ahead(stack'[l], processed', f, c, i)
  PROVE  Ledger'
<1>1. InSight'
  BY DEF Ledger, InSight
<1>2. \A k \in DOMAIN stack' : WalksSelected(stack'[k], nodes)
  BY DEF Ledger
<1> QED
  BY <1>1, <1>2 DEF Ledger, Selected

LEMMA TopWalksSelected ==
  ASSUME Inv, Ledger, stack # <<>>
  PROVE  WalksSelected(Top, nodes)
<1>1. Len(stack) \in DOMAIN stack
  BY TopFacts
<1> QED
  BY <1>1 DEF Ledger, Top

\* Processed configurations stay within the selected ones.
LEMMA ProcessedSelected ==
  ASSUME Ledger PROVE \A f : ProcessedIn(processed, f) \subseteq Sel(nodes, f)
  BY DEF Ledger, Selected

-----------------------------------------------------------------------------
LEMMA LedgerInit == Init => Ledger
<1> SUFFICES ASSUME Init PROVE Ledger
  OBVIOUS
<1>1. /\ DOMAIN edges = {} /\ DOMAIN parsed = {} /\ DOMAIN stack = {} /\ DOMAIN nodes = {}
      /\ DOMAIN processed = {} /\ Len(edges) = 0
  BY DEF Init
<1> QED
  BY <1>1, LimitAssumption DEF Ledger, Selected, InSight, Owes, Documented, Sel, ProcessedIn

LEMMA OwesPosition ==
  ASSUME Inv, Ledger, NEW f, NEW c, NEW i, Owes(parsed, nodes, f, c, i)
  PROVE  i \in Nat \ {0}
<1>1. CASE c = 0
  <2>1. parsed[f].references \in Seq(Seed) /\ i \in DOMAIN parsed[f].references
    BY <1>1 DEF Owes, Documented, Inv, TypeOK, Document
  <2> QED
    BY <2>1
<1>2. CASE c # 0
  <2>1. /\ parsed[f].configurations \in Seq(Configuration)
        /\ c \in 1 .. Len(parsed[f].configurations)
        /\ i \in DOMAIN parsed[f].configurations[c].components
    BY <1>2 DEF Owes, Documented, Inv, TypeOK, Document, Ledger, Selected
  <2>2. parsed[f].configurations[c] \in Configuration
    BY <2>1, ElementOfSeq
  <2>3. parsed[f].configurations[c].components \in Seq(Seed)
    BY <2>2, ComponentsAreSeeds DEF Configuration
  <2> QED
    BY <2>1, <2>3
<1> QED
  BY <1>1, <1>2

LEMMA LedgerSkip == Inv /\ Ledger /\ SkipComponentReference => Ledger'
<1> SUFFICES ASSUME Inv, Ledger, SkipComponentReference PROVE Ledger'
  OBVIOUS
<1>1. /\ stack # <<>> /\ Top.phase = "walking" /\ Top.config = 0
      /\ Current.kind = "component" /\ stack' = ReplaceTop(Advanced)
      /\ UNCHANGED <<nodes, parsed, edges, processed, rejected>>
  BY DEF SkipComponentReference, Active
<1>2. /\ Advanced.phase = "walking" /\ Advanced.file = Top.file /\ Advanced.config = Top.config
      /\ Advanced.pending = Top.pending /\ Advanced.next = Top.next + 1 /\ Top.next \in Nat
  BY <1>1, TopFacts DEF Advanced, Frame
<1>3. WalksSelected(Advanced, nodes)
  BY <1>1, <1>2, TopWalksSelected DEF WalksSelected
<1>4. \A k \in DOMAIN stack' : \/ \E j \in DOMAIN stack : stack'[k] = stack[j]
                               \/ WalksSelected(stack'[k], nodes)
  BY <1>1, <1>3, ReplacedFrames
<1>5. ASSUME NEW f, NEW c, NEW i, NEW k \in DOMAIN stack,
             Owes(parsed, nodes, f, c, i), Ahead(stack[k], processed, f, c, i)
      PROVE  \E l \in DOMAIN stack' : Ahead(stack'[l], processed', f, c, i)
  <2>1. CASE k # Len(stack)
    BY <1>1, <1>5, <2>1, FramesStay
  <2>2. CASE k = Len(stack)
    <3>1. Ahead(Top, processed, f, c, i)
      BY <1>5, <2>2 DEF Top
    <3>2. ~(c = 0 /\ i = Top.next /\ f = Top.file)
      BY <1>1, <1>5 DEF Owes, Current, References
    <3>3. i \in Nat
      BY <1>5, OwesPosition
    <3>4. Ahead(Advanced, processed, f, c, i)
      BY <1>1, <1>2, <3>1, <3>2, <3>3 DEF Ahead
    <3> QED
      BY <1>1, <3>4, FramesStay
  <2> QED
    BY <2>1, <2>2
<1> QED
  BY <1>1, <1>4, <1>5, LedgerKept, ProcessedSelected

\* The first refused reference ends what the ledger says of the others.
LEMMA LedgerRefuse == Inv /\ Ledger /\ RefuseReference => Ledger'
<1> SUFFICES ASSUME Inv, Ledger, RefuseReference PROVE Ledger'
  OBVIOUS
<1>1. /\ stack # <<>> /\ Top.phase = "walking" /\ stack' = ReplaceTop(Advanced)
      /\ rejected' = TRUE /\ ~(Len(edges) < MaxProjectEdges)
      /\ UNCHANGED <<nodes, parsed, edges, processed>>
  <2>1. Len(edges) \in Nat /\ MaxProjectEdges \in Nat
    BY LimitAssumption DEF Inv, TypeOK
  <2> QED
    BY <2>1 DEF RefuseReference, AtReference, Active, EdgeLimitReached
<1>2. /\ Advanced.phase = "walking" /\ Advanced.file = Top.file /\ Advanced.config = Top.config
      /\ Advanced.pending = Top.pending
  BY <1>1, TopFacts DEF Advanced, Frame
<1>3. WalksSelected(Advanced, nodes)
  BY <1>1, <1>2, TopWalksSelected DEF WalksSelected
<1>4. \A k \in DOMAIN stack' : \/ \E j \in DOMAIN stack : stack'[k] = stack[j]
                               \/ WalksSelected(stack'[k], nodes)
  BY <1>1, <1>3, ReplacedFrames
<1> QED
  BY <1>1, <1>4, LedgerKept, ProcessedSelected

\* An exhausted list has no reference ahead.
LEMMA ExhaustedBehind ==
  ASSUME Inv, Ledger, stack # <<>>, Top.phase = "walking", Exhausted,
         NEW f, NEW c, NEW i, Owes(parsed, nodes, f, c, i), Top.file = f, Top.config = c
  PROVE  ~(Top.next <= i)
<1>1. References(Top) \in Seq(Seed) /\ Top.next \in Nat
  BY WalkingFacts, TopFacts DEF Frame
<1>2. i \in DOMAIN References(Top)
  BY DEF Owes, References
<1> QED
  BY <1>1, <1>2 DEF Exhausted

LEMMA LedgerReturn == Inv /\ Ledger /\ Return => Ledger'
<1> SUFFICES ASSUME Inv, Ledger, Return PROVE Ledger'
  OBVIOUS
<1>1. /\ stack # <<>> /\ Top.phase = "walking" /\ Exhausted /\ Top.pending = {}
      /\ stack' = Pop /\ UNCHANGED <<nodes, parsed, edges, processed, rejected>>
  BY DEF Return, Active
<1>2. ASSUME NEW f, NEW c, NEW i, NEW k \in DOMAIN stack,
             Owes(parsed, nodes, f, c, i), Ahead(stack[k], processed, f, c, i)
      PROVE  \E l \in DOMAIN stack' : Ahead(stack'[l], processed', f, c, i)
  <2>1. k # Len(stack)
    <3> SUFFICES ASSUME Ahead(Top, processed, f, c, i) PROVE FALSE
      BY <1>2 DEF Top
    <3> QED
      BY <1>1, <1>2, ExhaustedBehind DEF Ahead
  <2> QED
    BY <1>1, <1>2, <2>1, FramesStay
<1>3. \A k \in DOMAIN stack' : \E j \in DOMAIN stack : stack'[k] = stack[j]
  BY <1>1, PoppedFrames
<1> QED
  BY <1>1, <1>2, <1>3, LedgerKept, ProcessedSelected

\* The next pending configuration is entered from its first reference, or left
\* out because its references were met before.
LEMMA LedgerNextConfiguration == Inv /\ Ledger /\ NextConfiguration => Ledger'
<1> SUFFICES ASSUME Inv, Ledger, NextConfiguration PROVE Ledger'
  OBVIOUS
<1>1. /\ stack # <<>> /\ Top.phase = "walking" /\ Top \in Frame /\ Exhausted
      /\ UNCHANGED <<nodes, parsed, edges, rejected>>
  BY TopFacts DEF NextConfiguration, Active
<1>2. PICK c \in Top.pending :
        IF c \in ProcessedOf(Top.file)
        THEN /\ stack' = ReplaceTop([Top EXCEPT !.pending = @ \ {c}])
             /\ UNCHANGED processed
        ELSE /\ stack' = ReplaceTop([Top EXCEPT !.pending = @ \ {c},
                                               !.config = c, !.next = 1])
             /\ processed' = Put(processed, Top.file, ProcessedOf(Top.file) \cup {c})
  BY DEF NextConfiguration
<1>3. WalksSelected(Top, nodes) /\ c \in Sel(nodes, Top.file)
  BY <1>1, TopWalksSelected DEF WalksSelected
<1>4. ASSUME NEW frame, frame.phase = "walking", frame.file = Top.file,
             frame.pending = Top.pending \ {c},
             \/ /\ c \in ProcessedIn(processed, Top.file)
                /\ frame.config = Top.config /\ frame.next = Top.next
                /\ processed' = processed
             \/ /\ frame.config = c /\ frame.next = 1
                /\ ProcessedIn(processed', Top.file)
                     = ProcessedIn(processed, Top.file) \cup {c}
                /\ \A f : f # Top.file =>
                     ProcessedIn(processed', f) = ProcessedIn(processed, f),
             stack' = ReplaceTop(frame)
      PROVE  Ledger'
  <2>1. \A f : ProcessedIn(processed', f) \subseteq Sel(nodes, f)
    BY <1>3, <1>4, ProcessedSelected
  <2>2. WalksSelected(frame, nodes)
    BY <1>1, <1>3, <1>4 DEF WalksSelected
  <2>3. \A k \in DOMAIN stack' : \/ \E j \in DOMAIN stack : stack'[k] = stack[j]
                                 \/ WalksSelected(stack'[k], nodes)
    BY <1>1, <1>4, <2>2, ReplacedFrames
  <2>4. ASSUME NEW f, NEW d, NEW i, NEW k \in DOMAIN stack,
               Owes(parsed, nodes, f, d, i), Ahead(stack[k], processed, f, d, i)
        PROVE  \E l \in DOMAIN stack' : Ahead(stack'[l], processed', f, d, i)
    <3>1. CASE k # Len(stack)
      <4>1. stack[k].file # Top.file /\ stack[k].file = f
        BY <1>1, <2>4, <3>1, OtherFiles DEF Ahead
      <4>2. Ahead(stack[k], processed', f, d, i)
        BY <1>4, <2>4, <4>1 DEF Ahead
      <4> QED
        BY <1>1, <1>4, <3>1, <4>2, FramesStay
    <3>2. CASE k = Len(stack)
      <4>1. Ahead(Top, processed, f, d, i)
        BY <2>4, <3>2 DEF Top
      <4>2. /\ Top.file = f /\ d # 0 /\ d \in Top.pending
            /\ d \notin ProcessedIn(processed, f)
        BY <1>1, <2>4, <4>1, ExhaustedBehind DEF Ahead
      <4>3. i \in Nat \ {0}
        BY <2>4, OwesPosition
      <4>4. Ahead(frame, processed', f, d, i)
        BY <1>4, <4>2, <4>3 DEF Ahead
      <4> QED
        BY <1>1, <1>4, <4>4, FramesStay
    <3> QED
      BY <3>1, <3>2
  <2> QED
    BY <1>1, <2>1, <2>3, <2>4, LedgerKept
<1>5. ProcessedOf(Top.file) = ProcessedIn(processed, Top.file)
  BY DEF ProcessedOf, ProcessedIn
<1>6. CASE c \in ProcessedOf(Top.file)
  <2> DEFINE frame == [Top EXCEPT !.pending = @ \ {c}]
  <2>1. /\ frame.phase = "walking" /\ frame.file = Top.file
        /\ frame.pending = Top.pending \ {c}
        /\ frame.config = Top.config /\ frame.next = Top.next
    BY <1>1 DEF Frame
  <2>2. stack' = ReplaceTop(frame) /\ processed' = processed
    BY <1>2, <1>6
  <2> HIDE DEF frame
  <2> QED
    BY <1>4, <1>5, <1>6, <2>1, <2>2
<1>7. CASE c \notin ProcessedOf(Top.file)
  <2> DEFINE frame == [Top EXCEPT !.pending = @ \ {c}, !.config = c, !.next = 1]
  <2>1. /\ frame.phase = "walking" /\ frame.file = Top.file
        /\ frame.pending = Top.pending \ {c} /\ frame.config = c /\ frame.next = 1
    BY <1>1 DEF Frame
  <2>2. /\ stack' = ReplaceTop(frame)
        /\ processed' = Put(processed, Top.file, ProcessedOf(Top.file) \cup {c})
    BY <1>2, <1>7
  <2>3. /\ ProcessedIn(processed', Top.file) = ProcessedIn(processed, Top.file) \cup {c}
        /\ \A f : f # Top.file => ProcessedIn(processed', f) = ProcessedIn(processed, f)
    BY <1>5, <2>2 DEF Put, ProcessedIn
  <2> HIDE DEF frame
  <2> QED
    BY <1>4, <2>1, <2>2, <2>3
<1> QED
  BY <1>6, <1>7

LEMMA LedgerVisitRoot == Inv /\ Ledger /\ VisitRoot => Ledger'
<1> SUFFICES ASSUME Inv, Ledger, VisitRoot PROVE Ledger'
  OBVIOUS
<1> DEFINE frame == Call(Head(roots), 0, RootConfiguration, {Head(roots)}, TRUE)
<1>1. /\ stack' = <<frame>> /\ stack = <<>> /\ frame.phase = "called"
      /\ UNCHANGED <<nodes, parsed, edges, processed, rejected>>
  BY DEF VisitRoot, Call
<1> HIDE DEF frame
<1>2. \A k \in DOMAIN stack' : WalksSelected(stack'[k], nodes)
  BY <1>1 DEF WalksSelected
<1>3. DOMAIN stack = {}
  BY <1>1
<1> QED
  BY <1>1, <1>2, <1>3, LedgerKept, ProcessedSelected

\* A document that never came to be owes nothing.
LEMMA LedgerLeft ==
  ASSUME Inv, Ledger, Active("called"), stack' = Pop,
         \A f : Sel(nodes', f) = Sel(nodes, f),
         \A f : Documented(parsed', f) => Documented(parsed, f),
         DOMAIN parsed \subseteq DOMAIN parsed',
         \A f \in DOMAIN parsed : parsed'[f] = parsed[f],
         rejected => rejected', UNCHANGED <<processed, edges>>
  PROVE  Ledger'
<1>1. stack # <<>> /\ Top.phase = "called"
  BY DEF Active
<1>2. \A f, c, i : Owes(parsed', nodes', f, c, i) <=> Owes(parsed, nodes, f, c, i)
  BY DEF Owes, Documented
<1>3. Selected(parsed', nodes', processed')
  BY DEF Ledger, Selected, Documented
<1>4. \A k \in DOMAIN stack' : WalksSelected(stack'[k], nodes')
  <2>1. \A k \in DOMAIN stack : WalksSelected(stack[k], nodes')
    BY DEF Ledger, WalksSelected
  <2> QED
    BY <1>1, <2>1, PoppedFrames
<1>5. InSight'
  <2> SUFFICES ASSUME Len(edges) < MaxProjectEdges \/ ~rejected', NEW f, NEW c, NEW i,
                      Owes(parsed, nodes, f, c, i), ~HasEdge(edges, f, c, i)
               PROVE  \E l \in DOMAIN stack' : Ahead(stack'[l], processed, f, c, i)
    BY <1>2 DEF InSight
  <2>1. PICK k \in DOMAIN stack : Ahead(stack[k], processed, f, c, i)
    BY DEF Ledger, InSight
  <2>2. k # Len(stack)
    BY <1>1, <2>1 DEF Ahead, Top
  <2> QED
    BY <1>1, <2>1, <2>2, FramesStay
<1> QED
  BY <1>2, <1>3, <1>4, <1>5 DEF Ledger

\* Entering a document puts all it newly owes ahead.
LEMMA LedgerEntered ==
  ASSUME Inv, Ledger, Active("called"), NEW document \in Document, document # NONE,
         NEW ns, NodesOK(ns), Top.file \in DOMAIN ns, \A g : Sel(ns, g) = Sel(nodes, g),
         NEW incomplete, Enter(document, ns, incomplete),
         DOMAIN parsed' = DOMAIN parsed \cup {Top.file}, parsed'[Top.file] = document,
         \A f \in DOMAIN parsed : parsed'[f] = parsed[f],
         Top.file \notin DOMAIN parsed => Top.file \notin referenced,
         rejected => rejected', UNCHANGED <<processed, edges>>
  PROVE  Ledger'
<1> DEFINE chosen == Selection(document, Top.requested)
           next == IF Top.file \in referenced THEN Len(document.references) + 1 ELSE 1
           frame == [Top EXCEPT !.phase = "walking", !.pending = chosen, !.next = next]
<1>1. /\ stack # <<>> /\ Top.phase = "called" /\ Top \in Frame /\ Top.config = 0
      /\ Top.requested \in Names \cup {NONE}
  BY TopFacts DEF Active, Placed, Frame
<1>2. chosen \subseteq 1 .. Len(document.configurations)
  BY SelectionFacts
<1>3. stack' = ReplaceTop(frame)
  BY DEF Enter
<1>4. /\ frame.phase = "walking" /\ frame.file = Top.file /\ frame.config = 0
      /\ frame.pending = chosen /\ frame.next = next
  BY <1>1 DEF Frame
<1> HIDE DEF chosen, frame
<1>5. \A g : Sel(nodes', g) = IF g = Top.file THEN Sel(nodes, g) \cup chosen ELSE Sel(nodes, g)
  <2>1. nodes' = RecordSelected(RecordRequest(ns, Top.file, Top.requested), Top.file, chosen)
    BY DEF Enter, chosen
  <2> SUFFICES ASSUME NEW g
               PROVE  Sel(nodes', g) = IF g = Top.file THEN Sel(nodes, g) \cup chosen
                                                       ELSE Sel(nodes, g)
    OBVIOUS
  <2>2. ASSUME NEW indices, NEW file, file = Top.file, NEW name, name = Top.requested
        PROVE  Sel(RecordSelected(RecordRequest(ns, file, name), file, indices), g)
                 = IF g = file THEN Sel(ns, g) \cup indices ELSE Sel(ns, g)
    <3>1. file \in DOMAIN ns /\ name \in Names \cup {NONE}
      BY <1>1, <2>2
    <3> QED
      BY <3>1, EnterSelects
  <2> QED
    BY <2>1, <2>2
<1>6. \A f : f # Top.file => (Documented(parsed', f) <=> Documented(parsed, f))
  BY DEF Documented
<1>7. Documented(parsed', Top.file)
  BY DEF Documented
<1>8. Selected(parsed', nodes', processed')
  <2>1. ASSUME NEW f, Documented(parsed', f)
        PROVE  Sel(nodes', f) \subseteq 1 .. Len(parsed'[f].configurations)
    <3>1. CASE f # Top.file
      <4>1. Documented(parsed, f) /\ parsed'[f] = parsed[f]
        BY <1>6, <2>1, <3>1 DEF Documented
      <4> QED
        BY <1>5, <3>1, <4>1 DEF Ledger, Selected
    <3>2. CASE f = Top.file /\ f \in DOMAIN parsed
      <4>1. Documented(parsed, f) /\ parsed[f] = document
        BY <3>2 DEF Documented
      <4>2. Sel(nodes, f) \subseteq 1 .. Len(document.configurations)
        BY <4>1 DEF Ledger, Selected
      <4> QED
        BY <1>2, <1>5, <3>2, <4>2
    <3>3. CASE f = Top.file /\ f \notin DOMAIN parsed
      <4>1. Sel(nodes, f) = {}
        BY <3>3 DEF Ledger, Selected
      <4> QED
        BY <1>2, <1>5, <3>3, <4>1
    <3> QED
      BY <3>1, <3>2, <3>3
  <2>2. \A f : f \notin DOMAIN parsed' => Sel(nodes', f) = {}
    BY <1>5 DEF Ledger, Selected
  <2>3. \A f : ProcessedIn(processed', f) \subseteq Sel(nodes', f)
    BY <1>5 DEF Ledger, Selected
  <2> QED
    BY <2>1, <2>2, <2>3 DEF Selected
<1>9. \A k \in DOMAIN stack' : WalksSelected(stack'[k], nodes')
  <2>1. WalksSelected(frame, nodes')
    BY <1>4, <1>5 DEF WalksSelected
  <2>2. \A k \in DOMAIN stack : WalksSelected(stack[k], nodes')
    <3>1. \A f : Sel(nodes, f) \subseteq Sel(nodes', f)
      BY <1>5
    <3> QED
      BY <3>1 DEF Ledger, WalksSelected
  <2> QED
    BY <1>1, <1>3, <2>1, <2>2, ReplacedFrames
<1>10. ASSUME NEW f, NEW c, NEW i, Owes(parsed, nodes, f, c, i)
       PROVE  Owes(parsed', nodes', f, c, i)
  <2>1. Documented(parsed, f)
    BY <1>10 DEF Owes
  <2>2. Documented(parsed', f) /\ parsed'[f] = parsed[f] /\ Sel(nodes, f) \subseteq Sel(nodes', f)
    BY <1>5, <2>1 DEF Documented
  <2> QED
    BY <1>10, <2>2 DEF Owes
<1>11. ASSUME NEW f, NEW c, NEW i, Owes(parsed', nodes', f, c, i),
              ~Owes(parsed, nodes, f, c, i)
       PROVE  Ahead(frame, processed, f, c, i)
  <2>1. f = Top.file
    <3> SUFFICES ASSUME f # Top.file PROVE FALSE
      OBVIOUS
    <3>1. Documented(parsed, f) /\ parsed'[f] = parsed[f] /\ Sel(nodes', f) = Sel(nodes, f)
      BY <1>5, <1>6, <1>11 DEF Owes, Documented
    <3> QED
      BY <1>11, <3>1 DEF Owes
  <2>2. Top.file \in DOMAIN parsed => Documented(parsed, f) /\ parsed[f] = document
    BY <2>1 DEF Documented
  <2>3. CASE c = 0
    <3>1. Top.file \notin DOMAIN parsed
      BY <1>11, <2>1, <2>2, <2>3 DEF Owes
    <3>2. i \in DOMAIN document.references /\ document.references \in Seq(Seed)
      BY <1>11, <2>1, <2>3 DEF Owes, Document
    <3>3. next = 1 /\ 1 <= i
      BY <3>1, <3>2
    <3> QED
      BY <1>4, <2>1, <2>3, <3>3 DEF Ahead
  <2>4. CASE c # 0
    <3>1. c \in Sel(nodes', f) /\ i \in DOMAIN document.configurations[c].components
      BY <1>11, <2>1, <2>4 DEF Owes
    <3>2. c \notin Sel(nodes, f)
      <4>1. CASE Top.file \in DOMAIN parsed
        BY <1>11, <2>2, <2>4, <3>1, <4>1 DEF Owes
      <4>2. CASE Top.file \notin DOMAIN parsed
        BY <2>1, <4>2 DEF Ledger, Selected
      <4> QED
        BY <4>1, <4>2
    <3>3. c \in chosen /\ c \notin ProcessedIn(processed, f)
      BY <1>5, <2>1, <3>1, <3>2, ProcessedSelected
    <3> QED
      BY <1>4, <2>1, <2>4, <3>3 DEF Ahead
  <2> QED
    BY <2>3, <2>4
<1>12. InSight'
  <2> SUFFICES ASSUME Len(edges) < MaxProjectEdges \/ ~rejected', NEW f, NEW c, NEW i,
                      Owes(parsed', nodes', f, c, i), ~HasEdge(edges, f, c, i)
               PROVE  \E l \in DOMAIN stack' : Ahead(stack'[l], processed, f, c, i)
    BY DEF InSight
  <2>1. CASE Owes(parsed, nodes, f, c, i)
    <3>1. PICK k \in DOMAIN stack : Ahead(stack[k], processed, f, c, i)
      BY <2>1 DEF Ledger, InSight
    <3>2. k # Len(stack)
      BY <1>1, <3>1 DEF Ahead, Top
    <3> QED
      BY <1>1, <1>3, <3>1, <3>2, FramesStay
  <2>2. CASE ~Owes(parsed, nodes, f, c, i)
    BY <1>1, <1>3, <1>11, <2>2, FramesStay
  <2> QED
    BY <2>1, <2>2
<1> QED
  BY <1>8, <1>9, <1>10, <1>12 DEF Ledger

LEMMA LedgerVisitParsed == Inv /\ Ledger /\ VisitParsed => Ledger'
<1> SUFFICES ASSUME Inv, Ledger, VisitParsed PROVE Ledger'
  OBVIOUS
<1> DEFINE ns == EnsureNode(nodes, Top.file, Top.depth, Top.root)
<1>1. /\ Active("called") /\ Top.file \in DOMAIN parsed /\ stack # <<>>
      /\ UNCHANGED <<parsed, processed, edges, rejected>>
  BY DEF VisitParsed, Active
<1>2. Top \in Frame /\ Top.depth \in Nat /\ Top.root \in BOOLEAN
  BY <1>1, TopFacts DEF Frame
<1>3. NodesOK(nodes)
  BY NodesUnchanged
<1>4. NodesOK(ns) /\ Top.file \in DOMAIN ns /\ \A g : Sel(ns, g) = Sel(nodes, g)
  <2>1. Met(nodes, Top.file, ns) /\ \A g : Sel(ns, g) = Sel(nodes, g)
    BY <1>2, <1>3, EnsureNodeFacts, EnsureSelects
  <2> HIDE DEF ns
  <2> QED
    BY <2>1 DEF Met
<1> HIDE DEF ns
<1>5. CASE parsed[Top.file] = NONE
  <2>1. stack' = Pop /\ nodes' = ns
    BY <1>5 DEF VisitParsed, Leave, ns
  <2> QED
    BY <1>1, <1>4, <2>1, LedgerLeft
<1>6. CASE parsed[Top.file] # NONE
  <2>1. Enter(parsed[Top.file], ns, partial)
    BY <1>6 DEF VisitParsed, ns
  <2>2. parsed[Top.file] \in Document
    BY <1>1, <1>6 DEF Inv, TypeOK
  <2> QED
    BY <1>1, <1>4, <1>6, <2>1, <2>2, LedgerEntered
<1> QED
  BY <1>5, <1>6

LEMMA LedgerVisitUnparsed ==
  ASSUME Inv, Ledger, NEW result \in ParseResults, VisitUnparsed(result)
  PROVE  Ledger'
<1> DEFINE document == result.document
           met == EnsureNode(nodes, Top.file, Top.depth, Top.root)
           ns == RecordParse(met, Top.file, result)
           incomplete == \/ partial
                         \/ ~Usable(result)
                         \/ Admitted(document) < Len(document.embedded)
<1>1. /\ Active("called") /\ Top.file \notin DOMAIN parsed /\ stack # <<>>
      /\ parsed' = Put(parsed, Top.file, document)
      /\ rejected' = (rejected \/ (~Usable(result) /\ Top.root))
      /\ UNCHANGED <<processed, edges>>
  BY DEF VisitUnparsed, Active
<1>2. Top \in Frame /\ Top.depth \in Nat /\ Top.root \in BOOLEAN
  BY <1>1, TopFacts DEF Frame
<1>3. NodesOK(met) /\ Top.file \in DOMAIN met /\ \A g : Sel(met, g) = Sel(nodes, g)
  <2>1. Met(nodes, Top.file, met) /\ \A g : Sel(met, g) = Sel(nodes, g)
    BY <1>2, NodesUnchanged, EnsureNodeFacts, EnsureSelects
  <2> HIDE DEF met
  <2> QED
    BY <2>1 DEF Met
<1> HIDE DEF met
<1>4. NodesOK(ns) /\ Top.file \in DOMAIN ns /\ \A g : Sel(ns, g) = Sel(nodes, g)
  <2>1. result \in ParseResult
    BY ParseAssumption
  <2>2. ParsedAs(met, Top.file, result.status, ns) /\ \A g : Sel(ns, g) = Sel(met, g)
    BY <1>3, <2>1, RecordParseFacts, ParseSelects
  <2> HIDE DEF ns
  <2> QED
    BY <1>3, <2>2 DEF ParsedAs
<1> HIDE DEF ns
<1>5. /\ DOMAIN parsed' = DOMAIN parsed \cup {Top.file} /\ parsed'[Top.file] = document
      /\ \A f \in DOMAIN parsed : parsed'[f] = parsed[f]
      /\ rejected => rejected'
  BY <1>1 DEF Put
<1>6. Top.file \notin referenced
  BY <1>1 DEF Inv, TypeOK
<1>7. CASE document = NONE
  <2>1. stack' = Pop /\ nodes' = ns
    BY <1>7 DEF VisitUnparsed, Leave, ns, met
  <2>2. \A f : Documented(parsed', f) => Documented(parsed, f)
    BY <1>5, <1>7 DEF Documented
  <2> QED
    BY <1>1, <1>4, <1>5, <2>1, <2>2, LedgerLeft
<1>8. CASE document # NONE
  <2>1. Enter(document, ns, incomplete)
    BY <1>8 DEF VisitUnparsed, ns, met
  <2>2. document \in Document
    BY <1>8, ParseAssumption DEF ParseResult
  <2> HIDE DEF document, incomplete
  <2> QED
    BY <1>1, <1>4, <1>5, <1>6, <1>8, <2>1, <2>2, LedgerEntered
<1> QED
  BY <1>7, <1>8

-----------------------------------------------------------------------------
(***************************************************************************)
(* Processing a reference.                                                 *)
(***************************************************************************)
\* The current reference is owed, and the selections stay what they are.
LEMMA CurrentOwed ==
  ASSUME Inv, Ledger, AtReference
  PROVE  Owes(parsed, nodes, Top.file, Top.config, Top.next)
<1>1. /\ stack # <<>> /\ Top.phase = "walking" /\ ~Exhausted
      /\ ~(Top.config = 0 /\ Current.kind = "component")
  BY DEF AtReference, Active
<1>2. /\ References(Top) \in Seq(Seed) /\ Top.next \in Nat \ {0} /\ Documented(parsed, Top.file)
  BY <1>1, WalkingFacts, TopFacts DEF Frame, Documented
<1>3. Top.next \in DOMAIN References(Top)
  BY <1>1, <1>2 DEF Exhausted
<1>4. Top.config # 0 => Top.config \in Sel(nodes, Top.file)
  BY <1>1, TopWalksSelected DEF WalksSelected
<1> QED
  BY <1>1, <1>2, <1>3, <1>4 DEF Owes, References, Current

LEMMA ProcessSelects ==
  ASSUME Inv, ProcessReference
  PROVE  \A g : Sel(nodes', g) = Sel(nodes, g)
<1> DEFINE target == Target(Top.file, Current)
           ls == EnsureNode(nodes, target, Top.depth + 1, FALSE)
<1>1. /\ stack # <<>> /\ Top.phase = "walking" /\ ~Exhausted
      /\ nodes' = IF target = NONE THEN nodes
                  ELSE RecordRequest(ls, target, Current.configuration)
  BY DEF ProcessReference, AtReference, Active, Edge
<1>2. Top.depth + 1 \in Nat
  BY <1>1, TopFacts DEF Frame
<1>3. NodesOK(ls) /\ \A g : Sel(ls, g) = Sel(nodes, g)
  <2>1. NodesOK(nodes)
    BY NodesUnchanged
  <2>2. Met(nodes, target, ls)
    BY <1>2, <2>1, EnsureNodeFacts
  <2>3. \A g : Sel(ls, g) = Sel(nodes, g)
    BY <1>2, <2>1, EnsureSelects
  <2> HIDE DEF ls
  <2> QED
    BY <2>2, <2>3 DEF Met
<1> HIDE DEF target, ls
<1>4. CASE target = NONE
  BY <1>1, <1>4
<1>5. CASE target # NONE
  <2>1. nodes' = RecordRequest(ls, target, Current.configuration)
    BY <1>1, <1>5
  <2> QED
    BY <1>3, <2>1, RequestSelects
<1> QED
  BY <1>4, <1>5

\* The edges after it: one more, with the identity of the current reference.
LEMMA ProcessEdges ==
  ASSUME Inv, ProcessReference
  PROVE  /\ Len(edges') = Len(edges) + 1 /\ Len(edges) \in Nat
         /\ \A f, c, i : HasEdge(edges', f, c, i) <=>
              HasEdge(edges, f, c, i) \/ <<f, c, i>> = <<Top.file, Top.config, Top.next>>
         /\ \A e \in DOMAIN edges' :
              \/ e \in DOMAIN edges /\ edges'[e] = edges[e]
              \/ /\ edges'[e].source = Top.file /\ edges'[e].config = Top.config
                 /\ edges'[e].ref = Top.next
<1> DEFINE edge == Edge(Top.file, Top, Current)
<1>1. /\ stack # <<>> /\ Top.phase = "walking" /\ ~Exhausted
      /\ edges' = Append(edges, edge)
  BY DEF ProcessReference, AtReference, Active
<1>2. edge.source = Top.file /\ edge.config = Top.config /\ edge.ref = Top.next
  BY DEF Edge
<1>3. edge \in EdgeRecord
  BY <1>1, EdgeFacts
<1> HIDE DEF edge
<1>4. edges \in Seq(EdgeRecord) /\ Len(edges) \in Nat /\ DOMAIN edges = 1 .. Len(edges)
  BY DEF Inv, TypeOK
<1>5. /\ edges' \in Seq(EdgeRecord) /\ Len(edges') = Len(edges) + 1
      /\ \A i \in 1 .. Len(edges) : edges'[i] = edges[i]
      /\ edges'[Len(edges) + 1] = edge
  BY <1>1, <1>3, <1>4, AppendProperties
<1>6. /\ DOMAIN edges' = DOMAIN edges \cup {Len(edges) + 1}
      /\ \A e \in DOMAIN edges : edges'[e] = edges[e]
  BY <1>4, <1>5
<1>7. Identity(edge) = <<Top.file, Top.config, Top.next>>
  BY <1>2 DEF Identity
<1>8. ASSUME NEW f, NEW c, NEW i
      PROVE  HasEdge(edges', f, c, i) <=>
               HasEdge(edges, f, c, i) \/ <<f, c, i>> = <<Top.file, Top.config, Top.next>>
  BY <1>5, <1>6, <1>7 DEF HasEdge
<1> QED
  BY <1>2, <1>4, <1>5, <1>6, <1>8

LEMMA LedgerProcess == Inv /\ Ledger /\ ProcessReference => Ledger'
<1> SUFFICES ASSUME Inv, Ledger, ProcessReference PROVE Ledger'
  OBVIOUS
<1> DEFINE frame == Call(Target(Top.file, Current), Top.depth + 1, Current.configuration,
                         Top.ancestors \cup {Target(Top.file, Current)}, FALSE)
<1>1. /\ stack # <<>> /\ Top.phase = "walking" /\ AtReference /\ ~EdgeLimitReached
      /\ stack' = ReplaceTop(Advanced) \/ stack' = Append(ReplaceTop(Advanced), frame)
      /\ UNCHANGED <<parsed, processed, rejected>>
  BY DEF ProcessReference, AtReference, Active, Edge
<1>2. frame.phase = "called"
  BY DEF Call
<1> HIDE DEF frame
<1>3. /\ Advanced.phase = "walking" /\ Advanced.file = Top.file /\ Advanced.config = Top.config
      /\ Advanced.pending = Top.pending /\ Advanced.next = Top.next + 1 /\ Top.next \in Nat
  BY <1>1, TopFacts DEF Advanced, Frame
<1>4. \A g : Sel(nodes', g) = Sel(nodes, g)
  BY ProcessSelects
<1>5. \A f, c, i : Owes(parsed', nodes', f, c, i) <=> Owes(parsed, nodes, f, c, i)
  BY <1>1, <1>4 DEF Owes
<1>6. Selected(parsed', nodes', processed')
  BY <1>1, <1>4 DEF Ledger, Selected
\* The frames of the new stack.
<1>7. /\ \A k \in DOMAIN stack' : \/ stack'[k] = frame
                                  \/ k \in DOMAIN ReplaceTop(Advanced)
                                     /\ stack'[k] = ReplaceTop(Advanced)[k]
      /\ \A k \in DOMAIN ReplaceTop(Advanced) :
           k \in DOMAIN stack' /\ stack'[k] = ReplaceTop(Advanced)[k]
  <2> DEFINE base == ReplaceTop(Advanced)
  <2>1. base \in Seq(Frame)
    BY <1>1, AdvancedFacts DEF Stacked
  <2>2. stack' = base \/ stack' = Append(base, frame)
    BY <1>1
  <2> HIDE DEF base
  <2>3. /\ \A k \in DOMAIN stack' : stack'[k] = frame \/ (k \in DOMAIN base /\ stack'[k] = base[k])
        /\ \A k \in DOMAIN base : k \in DOMAIN stack' /\ stack'[k] = base[k]
    <3>1. CASE stack' = base
      BY <3>1
    <3>2. CASE stack' = Append(base, frame)
      <4>1. DOMAIN base = 1 .. Len(base) /\ Len(base) \in Nat
        BY <2>1
      <4>2. /\ DOMAIN stack' = 1 .. Len(base) + 1
            /\ \A k \in 1 .. Len(base) : stack'[k] = base[k]
            /\ stack'[Len(base) + 1] = frame
        BY <2>1, <3>2
      <4> QED
        BY <4>1, <4>2
    <3> QED
      BY <2>2, <3>1, <3>2
  <2> QED
    BY <2>3 DEF base
<1>8. \A k \in DOMAIN stack' : WalksSelected(stack'[k], nodes')
  <2>1. WalksSelected(Advanced, nodes')
    BY <1>1, <1>3, <1>4, TopWalksSelected DEF WalksSelected
  <2>2. WalksSelected(frame, nodes')
    BY <1>2 DEF WalksSelected
  <2>3. \A k \in DOMAIN stack : WalksSelected(stack[k], nodes')
    BY <1>4 DEF Ledger, WalksSelected
  <2>4. \A k \in DOMAIN ReplaceTop(Advanced) : WalksSelected(ReplaceTop(Advanced)[k], nodes')
    BY <1>1, <2>1, <2>3, ReplacedFrames
  <2> QED
    BY <1>7, <2>2, <2>4
<1>9. \A e \in DOMAIN edges' :
        Owes(parsed', nodes', edges'[e].source, edges'[e].config, edges'[e].ref)
  <2>1. Owes(parsed, nodes, Top.file, Top.config, Top.next)
    BY <1>1, CurrentOwed
  <2> QED
    BY <1>5, <2>1, ProcessEdges DEF Ledger
<1>10. Len(edges') <= MaxProjectEdges
  BY <1>1, ProcessEdges, LimitAssumption DEF EdgeLimitReached
<1>11. InSight'
  <2> SUFFICES ASSUME Len(edges') < MaxProjectEdges \/ ~rejected', NEW f, NEW c, NEW i,
                      Owes(parsed, nodes, f, c, i), ~HasEdge(edges', f, c, i)
               PROVE  \E l \in DOMAIN stack' : Ahead(stack'[l], processed', f, c, i)
    BY <1>5 DEF InSight
  <2>1. Len(edges) < MaxProjectEdges \/ ~rejected
    BY <1>1, ProcessEdges, LimitAssumption
  <2>2. ~HasEdge(edges, f, c, i) /\ <<f, c, i>> # <<Top.file, Top.config, Top.next>>
    BY ProcessEdges
  <2>3. PICK k \in DOMAIN stack : Ahead(stack[k], processed, f, c, i)
    BY <2>1, <2>2 DEF Ledger, InSight
  <2>4. PICK l \in DOMAIN ReplaceTop(Advanced) :
          Ahead(ReplaceTop(Advanced)[l], processed, f, c, i)
    <3>1. CASE k # Len(stack)
      BY <1>1, <2>3, <3>1, FramesStay
    <3>2. CASE k = Len(stack)
      <4>1. Ahead(Top, processed, f, c, i) /\ i \in Nat
        BY <2>3, <3>2, OwesPosition DEF Top
      <4>2. Ahead(Advanced, processed, f, c, i)
        BY <1>1, <1>3, <2>2, <4>1 DEF Ahead
      <4> QED
        BY <1>1, <4>2, FramesStay
    <3> QED
      BY <3>1, <3>2
  <2> QED
    BY <1>1, <1>7, <2>4
<1> QED
  BY <1>6, <1>8, <1>9, <1>10, <1>11 DEF Ledger

LEMMA LedgerStep == Inv /\ Ledger /\ [Next]_vars => Ledger'
<1> SUFFICES ASSUME Inv, Ledger, [Next]_vars PROVE Ledger'
  OBVIOUS
<1>1. CASE SkipComponentReference
  BY <1>1, LedgerSkip
<1>2. CASE RefuseReference
  BY <1>2, LedgerRefuse
<1>3. CASE Return
  BY <1>3, LedgerReturn
<1>4. CASE VisitRoot
  BY <1>4, LedgerVisitRoot
<1>5. CASE VisitParsed
  BY <1>5, LedgerVisitParsed
<1>6. CASE \E result \in ParseResults : VisitUnparsed(result)
  BY <1>6, LedgerVisitUnparsed
<1>7. CASE ProcessReference
  BY <1>7, LedgerProcess
<1>8. CASE NextConfiguration
  BY <1>8, LedgerNextConfiguration
<1>9. CASE Finish
  BY <1>9 DEF Finish, Ledger, InSight
<1>10. CASE Finished \/ UNCHANGED vars
  BY <1>10 DEF Finished, vars, Ledger, InSight
<1> QED
  BY <1>1, <1>2, <1>3, <1>4, <1>5, <1>6, <1>7, <1>8, <1>9, <1>10 DEF Next, Step

-----------------------------------------------------------------------------
(***************************************************************************)
(* The theorems.                                                           *)
(***************************************************************************)
Account == Inv /\ Once /\ Contact /\ Ledger

LEMMA AccountInvariant == Init => Account
  BY InitStep, OnceInit, ContactInit, LedgerInit DEF Account

LEMMA AccountStep == Account /\ [Next]_vars => Account'
  BY NextStep, OnceStep, ContactStep, LedgerStep DEF Account

\* With no frame left, what is owed has an edge unless a reference was refused.
LEMMA AllHandled ==
  ASSUME Inv, Ledger, stack = <<>>, Len(edges) < MaxProjectEdges \/ ~rejected
  PROVE  Handled = Owed
<1>1. DOMAIN stack = {}
  OBVIOUS
<1>2. \A f, c, i : Owes(parsed, nodes, f, c, i) => HasEdge(edges, f, c, i)
  BY <1>1 DEF Ledger, InSight
<1>3. Owed \subseteq Handled
  BY <1>2, OwedIs, HandledIs
<1> QED
  BY <1>3, HandledIsOwed

\* A scan that ends below the edge limit has one edge for exactly the document
\* references of the documents it read and the components of the configurations
\* it selected, whichever visit selected them.
THEOREM EveryReferenceHandled == Spec => []NothingOverlooked
<1>1. Account => NothingOverlooked
  BY AllHandled DEF Account, Contact, NothingOverlooked, Done
<1> QED
  BY <1>1, AccountInvariant, AccountStep, PTL DEF Spec

\* Owed references stay owed.
OwedListed ==
  \A x : x \in Owed <=> \E f, c, i : x = <<f, c, i>> /\ Owes(parsed, nodes, f, c, i)

LEMMA OwedListedNow == Inv /\ Ledger => OwedListed
  BY OwedIs DEF OwedListed

LEMMA OwedListedNext == (Inv /\ Ledger)' => OwedListed'
  BY OwedListedNow, PTL

LEMMA OwedGrows ==
  ASSUME Account, Account', Grows
  PROVE  Owed \subseteq Owed'
<1>1. ASSUME NEW f, NEW c, NEW i, Owes(parsed, nodes, f, c, i)
      PROVE  Owes(parsed', nodes', f, c, i)
  <2>1. Documented(parsed', f) /\ parsed'[f] = parsed[f]
    BY <1>1 DEF Owes, Documented, Grows
  <2>2. Sel(nodes, f) \subseteq Sel(nodes', f)
    BY DEF Sel, Grows
  <2> QED
    BY <1>1, <2>1, <2>2 DEF Owes
<1> QED
  BY <1>1, OwedListedNow, OwedListedNext DEF OwedListed, Account

LEMMA OwedKept ==
  ASSUME Account, Account', parsed' = parsed, \A g : Sel(nodes', g) = Sel(nodes, g)
  PROVE  Owed' = Owed
<1>1. \A f, c, i : Owes(parsed', nodes', f, c, i) <=> Owes(parsed, nodes, f, c, i)
  BY DEF Owes
<1> QED
  BY <1>1, OwedListedNow, OwedListedNext DEF OwedListed, Account

\* Each step of the walk is a step of the abstract scan, or none.
LEMMA MapsToDiscover ==
  ASSUME Account, Account', Grows, Running, UNCHANGED <<edges, status>>
  PROVE  Graph!Discover
<1>1. Handled' = Handled
  BY DEF Handled
<1> QED
  BY <1>1, OwedGrows DEF Graph!Discover, Running

LEMMA SameCardinality == \A S : Graph!Cardinality(S) = Cardinality(S)
  BY DEF Graph!Cardinality, Cardinality

LEMMA MapsToHandle ==
  ASSUME Account, Account', ProcessReference
  PROVE  Graph!Handle
<1> DEFINE reference == <<Top.file, Top.config, Top.next>>
<1>1. /\ status = "running" /\ status' = "running" /\ AtReference /\ ~EdgeLimitReached
      /\ stack # <<>> /\ Top.phase = "walking" /\ parsed' = parsed
  BY DEF ProcessReference, AtReference, Active, Running
<1>2. Owed' = Owed
  BY <1>1, OwedKept, ProcessSelects DEF Account
<1>3. reference \in Owed
  BY <1>1, CurrentOwed, OwedIs DEF Account
<1>4. reference \notin Handled
  <2> SUFFICES ASSUME NEW e \in DOMAIN edges, Identity(edges[e]) = reference PROVE FALSE
    BY DEF Handled
  <2>1. /\ edges[e].source = Top.file /\ edges[e].config = Top.config
        /\ edges[e].ref = Top.next
    BY DEF Identity
  <2>2. Behind(Top, edges, referenced, processed) /\ Top.next \in Nat
    BY <1>1, TopBehind, TopFacts DEF Account, Frame
  <2> QED
    BY <1>1, <2>1, <2>2 DEF Behind, Past
<1>5. Cardinality(Handled) < MaxProjectEdges
  <2>1. Len(edges) \in Nat /\ MaxProjectEdges \in Nat
    BY LimitAssumption DEF Account, Inv, TypeOK
  <2> QED
    BY <1>1, <2>1, HandledCount DEF EdgeLimitReached, Account, Once
<1>6. Handled' = Handled \cup {reference}
  <2>1. /\ \A x : x \in Handled => \E f, c, i : x = <<f, c, i>>
        /\ \A x : x \in Handled' => \E f, c, i : x = <<f, c, i>>
    BY DEF Handled, Identity
  <2>2. \A f, c, i : <<f, c, i>> \in Handled' <=> HasEdge(edges', f, c, i)
    BY DEF Handled, HasEdge
  <2>3. \A f, c, i : HasEdge(edges', f, c, i) <=>
          HasEdge(edges, f, c, i) \/ <<f, c, i>> = reference
    BY ProcessEdges DEF Account
  <2>4. \A f, c, i : <<f, c, i>> \in Handled' <=>
          <<f, c, i>> \in Handled \/ <<f, c, i>> = reference
    BY <2>2, <2>3, HandledIs
  <2>5. \E f, c, i : reference = <<f, c, i>>
    OBVIOUS
  <2> HIDE DEF reference
  <2>6. \A x : x \in Handled' <=> x \in Handled \/ x = reference
    BY <2>1, <2>4, <2>5
  <2> QED
    BY <2>6
<1> HIDE DEF reference
<1> QED
  BY <1>1, <1>2, <1>3, <1>4, <1>5, <1>6, SameCardinality DEF Graph!Handle

LEMMA MapsToConclude ==
  ASSUME Account, Finish
  PROVE  Graph!Conclude
<1>1. /\ status = "running" /\ stack = <<>> /\ status' \in {"complete", "partial", "rejected"}
      /\ rejected => status' = "rejected"
      /\ UNCHANGED <<nodes, parsed, edges>>
  BY DEF Finish, Running
<1>2. Owed' = Owed /\ Handled' = Handled
  BY <1>1 DEF Owed, Handled, HasDocument, OwedReferences
<1>3. CASE Len(edges) < MaxProjectEdges \/ ~rejected
  BY <1>1, <1>2, <1>3, AllHandled DEF Account, Graph!Conclude
<1>4. CASE ~(Len(edges) < MaxProjectEdges) /\ rejected
  <2>1. Len(edges) = MaxProjectEdges
    BY <1>4, LimitAssumption DEF Account, Ledger, Inv, TypeOK
  <2>2. Cardinality(Handled) = MaxProjectEdges
    BY <2>1, HandledCount DEF Account, Once
  <2> QED
    BY <1>1, <1>2, <1>4, <2>2, SameCardinality DEF Graph!Conclude
<1> QED
  BY <1>3, <1>4

LEMMA MapsToInit == Init => Graph!Init
<1> SUFFICES ASSUME Init PROVE Graph!Init
  OBVIOUS
<1>1. DOMAIN parsed = {} /\ DOMAIN edges = {} /\ status = "running"
  BY DEF Init
<1> QED
  BY <1>1 DEF Graph!Init, Owed, Handled, HasDocument

LEMMA MapsToStep == Account /\ Account' /\ [Next]_vars => [Graph!Next]_(Graph!vars)
<1> SUFFICES ASSUME Account, Account', [Next]_vars
             PROVE  Graph!Next \/ UNCHANGED <<Owed, Handled, status>>
  BY DEF Graph!vars
<1>1. [Grows]_vars
  BY NextStep DEF Account
<1>2. CASE UNCHANGED vars
  BY <1>2 DEF vars, Owed, Handled, HasDocument, OwedReferences
<1>3. CASE ProcessReference
  BY <1>3, MapsToHandle DEF Graph!Next
<1>4. CASE Finish
  BY <1>4, MapsToConclude DEF Graph!Next
<1>5. CASE ~UNCHANGED vars /\ Next /\ ~ProcessReference /\ ~Finish
  <2>1. Grows
    BY <1>1, <1>5
  <2>2. Running /\ UNCHANGED <<edges, status>>
    BY <1>5 DEF Next, Step, Finished, VisitRoot, VisitParsed, VisitUnparsed,
                SkipComponentReference, RefuseReference, NextConfiguration, Return,
                AtReference, Active
  <2> QED
    BY <2>1, <2>2, MapsToDiscover DEF Graph!Next
<1> QED
  BY <1>2, <1>3, <1>4, <1>5

\* The depth-first walk, with its revisits, cycles, limits and failures, does
\* what ReferenceGraph promises: owed references become edges once each, and the
\* scan ends with none left or is rejected at the limit.
THEOREM ScanImplementsReferenceGraph == Spec => ImplementsReferenceGraph
<1>1. Init => Graph!Init
  BY MapsToInit
<1>2. Account /\ Account' /\ [Next]_vars => [Graph!Next]_(Graph!vars)
  BY MapsToStep
<1> QED
  BY <1>1, <1>2, AccountInvariant, AccountStep, PTL DEF Spec, ImplementsReferenceGraph, Graph!Spec

-----------------------------------------------------------------------------
(***************************************************************************)
(* Paths of traversed edges.                                               *)
(***************************************************************************)
LEMMA LeadsItself == ASSUME NEW es, NEW f, NEW n PROVE LeadsTo(es, f, f, n)
  BY DEF LeadsTo

LEMMA LeadsFurther ==
  ASSUME NEW es, NEW f, NEW g, NEW n \in Nat, LeadsTo(es, f, g, n),
         NEW i \in 1 .. n, Traversed(es[i]), es[i].source = g
  PROVE  LeadsTo(es, f, es[i].target, n)
  BY DEF LeadsTo

\* More edges lead at least as far.
LEMMA LeadsStill ==
  ASSUME NEW es, NEW fs, NEW n \in Nat, NEW m \in Nat, n <= m,
         \A i \in 1 .. n : fs[i] = es[i], NEW f, NEW g, LeadsTo(es, f, g, n)
  PROVE  LeadsTo(fs, f, g, m)
<1> DEFINE early == {i \in 1 .. n : Traversed(es[i])}
           late == {i \in 1 .. m : Traversed(fs[i])}
           near == {f} \cup {es[i].target : i \in early}
<1> SUFFICES ASSUME NEW met \in SUBSET ({f} \cup {fs[i].target : i \in late}), f \in met,
                    \A i \in late : fs[i].source \in met => fs[i].target \in met
             PROVE  g \in met
  BY DEF LeadsTo
<1>1. \A i \in early : i \in late /\ fs[i] = es[i]
  OBVIOUS
<1>2. \A i \in early : es[i].source \in met \cap near => es[i].target \in met \cap near
  BY <1>1
<1>3. met \cap near \in SUBSET near /\ f \in met \cap near
  OBVIOUS
<1>4. \A set \in SUBSET near :
        f \in set /\ (\A i \in early : es[i].source \in set => es[i].target \in set) => g \in set
  BY DEF LeadsTo
<1> HIDE DEF early, late, near
<1> QED
  BY <1>2, <1>3, <1>4

\* Traversed edges lead down the stack, and back along every cycle.
Linked ==
  /\ \A k \in DOMAIN stack : \A j \in 1 .. k :
       LeadsTo(edges, stack[j].file, stack[k].file, Len(edges))
  /\ CycleClosesAPath

\* The innermost frame moves on in its document, or the visit returns.
Onward ==
  \E frame : /\ frame.phase = "walking" /\ frame.file = Top.file /\ frame.root = Top.root
             /\ stack' = ReplaceTop(frame) \/ stack' = Pop

LEMMA OnwardFacts ==
  ASSUME Inv, stack # <<>>, Onward
  PROVE  /\ \A k \in DOMAIN stack' : k \in Nat /\ \A j \in 1 .. k :
              j \in DOMAIN stack /\ stack'[j].file = stack[j].file /\ stack'[j].root = stack[j].root
         /\ stack' # <<>> => stack'[Len(stack')].phase = "walking"
<1>1. stack \in Seq(Frame) /\ Len(stack) \in Nat \ {0} /\ DOMAIN stack = 1 .. Len(stack)
  BY TopFacts
<1>2. PICK frame : /\ frame.phase = "walking" /\ frame.file = Top.file /\ frame.root = Top.root
                   /\ stack' = ReplaceTop(frame) \/ stack' = Pop
  BY DEF Onward
<1>3. CASE stack' = ReplaceTop(frame)
  <2>1. DOMAIN stack' = DOMAIN stack /\ Len(stack') = Len(stack)
    BY <1>1, <1>3 DEF ReplaceTop
  <2>2. \A j \in DOMAIN stack : stack'[j].file = stack[j].file /\ stack'[j].root = stack[j].root
    BY <1>1, <1>2, <1>3 DEF ReplaceTop, Top
  <2>3. stack'[Len(stack)] = frame
    BY <1>1, <1>3 DEF ReplaceTop
  <2> QED
    BY <1>1, <1>2, <2>1, <2>2, <2>3
<1>4. CASE stack' = Pop
  <2>1. /\ DOMAIN stack' = 1 .. Len(stack) - 1 /\ Len(stack') = Len(stack) - 1
        /\ \A j \in 1 .. Len(stack) - 1 : stack'[j] = stack[j]
    BY <1>1, <1>4 DEF Pop
  <2>2. ASSUME Len(stack) # 1 PROVE stack[Len(stack) - 1].phase = "walking"
    <3>1. Len(stack) - 1 \in 1 .. Len(stack) /\ stack[Len(stack) - 1] \in Frame
      BY <1>1, <2>2
    <3>2. OnPath(stack, Len(stack) - 1, files)
      BY <3>1 DEF Inv, Stacked
    <3> QED
      BY <1>1, <3>1, <3>2 DEF OnPath, Frame
  <2>3. stack' # <<>> => Len(stack) # 1
    BY <1>1, <1>4, <2>1
  <2>4. stack' # <<>> => stack'[Len(stack')].phase = "walking"
    BY <1>1, <2>1, <2>2, <2>3
  <2> QED
    BY <1>1, <2>1, <2>4
<1> QED
  BY <1>2, <1>3, <1>4

\* Entering or leaving a document, on arrival.
LEMMA ArrivalIsOnward ==
  ASSUME Inv, Active("called"), NEW document, NEW ns, NEW incomplete,
         Enter(document, ns, incomplete) \/ Leave(ns, incomplete)
  PROVE  Onward
<1> DEFINE next == IF Top.file \in referenced THEN Len(document.references) + 1 ELSE 1
           frame == [Top EXCEPT !.phase = "walking",
                                !.pending = Selection(document, Top.requested),
                                !.next = next]
<1>1. Top \in Frame
  BY TopFacts DEF Active
<1>2. frame.phase = "walking" /\ frame.file = Top.file /\ frame.root = Top.root
  BY <1>1 DEF Frame
<1>3. stack' = ReplaceTop(frame) \/ stack' = Pop
  BY DEF Enter, Leave
<1> HIDE DEF frame
<1> QED
  BY <1>2, <1>3 DEF Onward

LEMMA VisitsGoOnward ==
  ASSUME Inv, VisitParsed \/ \E result \in ParseResults : VisitUnparsed(result)
  PROVE  Active("called") /\ stack # <<>> /\ Onward /\ edges' = edges
<1>1. CASE VisitParsed
  BY <1>1, ArrivalIsOnward DEF VisitParsed, Active
<1>2. CASE \E result \in ParseResults : VisitUnparsed(result)
  <2>1. PICK result \in ParseResults : VisitUnparsed(result)
    BY <1>2
  <2>2. \E document, ns, incomplete :
          Enter(document, ns, incomplete) \/ Leave(ns, incomplete)
    BY <2>1 DEF VisitUnparsed
  <2> QED
    BY <2>1, <2>2, ArrivalIsOnward DEF VisitUnparsed, Active
<1> QED
  BY <1>1, <1>2

\* Walking steps that record nothing.
Quiet == SkipComponentReference \/ RefuseReference \/ NextConfiguration \/ Return

LEMMA QuietGoesOnward ==
  ASSUME Inv, Quiet
  PROVE  /\ Running /\ stack # <<>> /\ Top.phase = "walking" /\ Onward
         /\ UNCHANGED <<files, nodes, parsed, edges, partial, status>>
<1>1. /\ Running /\ stack # <<>> /\ Top.phase = "walking"
      /\ UNCHANGED <<files, nodes, parsed, edges, partial, status>>
  BY DEF Quiet, SkipComponentReference, RefuseReference, Return, NextConfiguration,
         AtReference, Active
<1>2. Top \in Frame
  BY <1>1, TopFacts
<1>3. CASE SkipComponentReference \/ RefuseReference \/ Return
  <2>1. Advanced.phase = "walking" /\ Advanced.file = Top.file /\ Advanced.root = Top.root
    BY <1>1, <1>2 DEF Advanced, Frame
  <2>2. stack' = ReplaceTop(Advanced) \/ stack' = Pop
    BY <1>3 DEF SkipComponentReference, RefuseReference, Return
  <2> QED
    BY <1>1, <2>1, <2>2 DEF Onward
<1>4. CASE NextConfiguration
  <2>1. PICK c \in Top.pending :
          \/ stack' = ReplaceTop([Top EXCEPT !.pending = @ \ {c}])
          \/ stack' = ReplaceTop([Top EXCEPT !.pending = @ \ {c}, !.config = c, !.next = 1])
    BY <1>4 DEF NextConfiguration
  <2> DEFINE skipped == [Top EXCEPT !.pending = @ \ {c}]
             entered == [Top EXCEPT !.pending = @ \ {c}, !.config = c, !.next = 1]
  <2>2. skipped.phase = "walking" /\ skipped.file = Top.file /\ skipped.root = Top.root
    BY <1>1, <1>2 DEF Frame
  <2>3. entered.phase = "walking" /\ entered.file = Top.file /\ entered.root = Top.root
    BY <1>1, <1>2 DEF Frame
  <2>4. stack' = ReplaceTop(skipped) \/ stack' = ReplaceTop(entered)
    BY <2>1
  <2> HIDE DEF skipped, entered
  <2> QED
    BY <1>1, <2>2, <2>3, <2>4 DEF Onward
<1> QED
  BY <1>1, <1>3, <1>4 DEF Quiet

\* A stack is kept when its files are.
LEMMA LinkedKept ==
  ASSUME Linked, edges' = edges,
         \A k \in DOMAIN stack' : k \in Nat /\ \A j \in 1 .. k :
           j \in DOMAIN stack /\ stack'[j].file = stack[j].file
  PROVE  Linked'
<1>1. ASSUME NEW k \in DOMAIN stack', NEW j \in 1 .. k
      PROVE  LeadsTo(edges', stack'[j].file, stack'[k].file, Len(edges'))
  <2>1. k \in 1 .. k /\ k \in DOMAIN stack /\ stack'[k].file = stack[k].file
    OBVIOUS
  <2>2. stack'[j].file = stack[j].file
    OBVIOUS
  <2> QED
    BY <2>1, <2>2 DEF Linked
<1> QED
  BY <1>1 DEF Linked, CycleClosesAPath

LEMMA LinkedProcess == Inv /\ Linked /\ ProcessReference => Linked'
<1> SUFFICES ASSUME Inv, Linked, ProcessReference PROVE Linked'
  OBVIOUS
<1> DEFINE edge == Edge(Top.file, Top, Current)
           target == Target(Top.file, Current)
           frame == Call(target, Top.depth + 1, Current.configuration,
                         Top.ancestors \cup {target}, FALSE)
           base == ReplaceTop(Advanced)
           n == Len(edges)
           m == Len(stack)
<1>1. /\ stack # <<>> /\ Top.phase = "walking" /\ ~Exhausted
      /\ edges' = Append(edges, edge)
      /\ \/ stack' = base
         \/ /\ edge.traversal \in {"followed", "reused"}
            /\ stack' = Append(base, frame)
  BY DEF ProcessReference, AtReference, Active, Edge
<1>2. /\ edge.target = target /\ edge.traversal = TraversalStatus(target, Current)
      /\ edge.source = Top.file /\ edge \in EdgeRecord /\ frame.file = target
  BY <1>1, EdgeFacts DEF Call, Edge
<1>3. /\ n \in Nat /\ DOMAIN edges = 1 .. n /\ Len(edges') = n + 1
      /\ DOMAIN edges' = 1 .. n + 1
      /\ \A i \in 1 .. n : edges'[i] = edges[i]
      /\ edges'[n + 1] = edge
  <2>1. edges \in Seq(EdgeRecord) /\ Len(edges) \in Nat
    BY DEF Inv, TypeOK
  <2>2. /\ edges' \in Seq(EdgeRecord) /\ Len(edges') = Len(edges) + 1
        /\ \A i \in 1 .. Len(edges) : edges'[i] = edges[i]
        /\ edges'[Len(edges) + 1] = edge
    BY <1>1, <1>2, <2>1, AppendProperties
  <2> QED
    BY <2>1, <2>2
<1>4. /\ m \in Nat \ {0} /\ DOMAIN stack = 1 .. m /\ Top = stack[m]
      /\ base \in Seq(Frame) /\ Len(base) = m /\ DOMAIN base = 1 .. m
      /\ \A k \in 1 .. m : base[k].file = stack[k].file
  <2>1. stack \in Seq(Frame) /\ m \in Nat \ {0} /\ Top \in Frame
    BY <1>1, TopFacts
  <2>2. base \in Seq(Frame) /\ Len(base) = m /\ base[m] = Advanced /\ Advanced.file = Top.file
    BY <1>1, AdvancedFacts DEF Stacked
  <2>3. \A k \in 1 .. m : k # m => base[k] = stack[k]
    BY <2>1 DEF ReplaceTop
  <2> QED
    BY <2>1, <2>2, <2>3 DEF Top
<1>5. ASSUME edge.traversal = "cycle" PROVE \E j \in 1 .. m : stack[j].file = target
  <2>1. target \in Top.ancestors
    BY <1>2, <1>5 DEF TraversalStatus, IsAncestor
  <2>2. OnPath(stack, m, files)
    BY <1>4 DEF Inv, Stacked
  <2> QED
    BY <1>4, <2>1, <2>2 DEF OnPath
<1> HIDE DEF edge, target, frame, base, n, m
<1>6. ASSUME NEW j \in 1 .. m, NEW k \in 1 .. m, j <= k
      PROVE  LeadsTo(edges, stack[j].file, stack[k].file, n)
  BY <1>4, <1>6 DEF Linked, n
<1>7. ASSUME NEW j \in 1 .. m, NEW k \in 1 .. m, j <= k
      PROVE  LeadsTo(edges', stack[j].file, stack[k].file, n + 1)
  BY <1>3, <1>6, <1>7, LeadsStill
<1>8. CycleClosesAPath'
  <2> SUFFICES ASSUME NEW i \in DOMAIN edges', edges'[i].traversal = "cycle"
               PROVE  LeadsTo(edges', edges'[i].target, edges'[i].source, i - 1)
    BY DEF CycleClosesAPath
  <2>1. CASE i \in 1 .. n
    <3>1. LeadsTo(edges, edges[i].target, edges[i].source, i - 1)
      BY <1>3, <2>1 DEF Linked, CycleClosesAPath
    <3>2. i - 1 \in Nat /\ \A j \in 1 .. i - 1 : edges'[j] = edges[j]
      BY <1>3, <2>1
    <3>3. LeadsTo(edges', edges[i].target, edges[i].source, i - 1)
      BY <3>1, <3>2, LeadsStill
    <3> QED
      BY <1>3, <2>1, <3>3
  <2>2. CASE i = n + 1
    <3>1. PICK j \in 1 .. m : stack[j].file = target
      BY <1>3, <1>5, <2>2
    <3>2. LeadsTo(edges, target, Top.file, n)
      BY <1>4, <1>6, <3>1
    <3>3. i - 1 = n /\ \A k \in 1 .. n : edges'[k] = edges[k]
      BY <1>3, <2>2
    <3>4. LeadsTo(edges', target, Top.file, n)
      BY <1>3, <3>2, LeadsStill
    <3> QED
      BY <1>2, <1>3, <2>2, <3>3, <3>4
  <2> QED
    BY <1>3, <2>1, <2>2
<1>9. ASSUME NEW k \in DOMAIN stack', NEW j \in 1 .. k
      PROVE  LeadsTo(edges', stack'[j].file, stack'[k].file, n + 1)
  <2>1. CASE stack' = base
    BY <1>4, <1>7, <2>1
  <2>2. CASE /\ edge.traversal \in {"followed", "reused"}
             /\ stack' = Append(base, frame)
    <3>1. /\ DOMAIN stack' = 1 .. m + 1 /\ stack'[m + 1] = frame
          /\ \A l \in 1 .. m : stack'[l] = base[l]
      BY <1>4, <2>2
    <3>2. CASE k \in 1 .. m
      BY <1>4, <1>7, <3>1, <3>2
    <3>3. CASE k = m + 1 /\ j \in 1 .. m
      <4>1. LeadsTo(edges', stack[j].file, Top.file, n + 1)
        BY <1>4, <1>7, <3>3
      <4>2. n + 1 \in 1 .. n + 1 /\ Traversed(edges'[n + 1]) /\ edges'[n + 1].source = Top.file
        BY <1>2, <1>3, <2>2 DEF Traversed
      <4>3. n + 1 \in Nat
        BY <1>3
      <4>4. LeadsTo(edges', stack[j].file, edges'[n + 1].target, n + 1)
        BY <4>1, <4>2, <4>3, LeadsFurther
      <4> QED
        BY <1>2, <1>3, <1>4, <3>1, <3>3, <4>4
    <3>4. CASE k = m + 1 /\ j = m + 1
      BY <3>4, LeadsItself
    <3> QED
      BY <1>4, <3>1, <3>2, <3>3, <3>4
  <2> QED
    BY <1>1, <2>1, <2>2
<1> QED
  BY <1>3, <1>8, <1>9 DEF Linked

LEMMA LinkedStep == Inv /\ Linked /\ [Next]_vars => Linked'
<1> SUFFICES ASSUME Inv, Linked, [Next]_vars PROVE Linked'
  OBVIOUS
<1>1. CASE ProcessReference
  BY <1>1, LinkedProcess
<1>2. CASE VisitRoot
  <2> DEFINE frame == Call(Head(roots), 0, RootConfiguration, {Head(roots)}, TRUE)
  <2>1. stack' = <<frame>> /\ edges' = edges
    BY <1>2 DEF VisitRoot
  <2> HIDE DEF frame
  <2>2. ASSUME NEW k \in DOMAIN stack', NEW j \in 1 .. k
        PROVE  LeadsTo(edges', stack'[j].file, stack'[k].file, Len(edges'))
    <3>1. k = 1 /\ j = 1
      BY <2>1
    <3> QED
      BY <3>1, LeadsItself
  <2> QED
    BY <2>1, <2>2 DEF Linked, CycleClosesAPath
<1>3. CASE Quiet \/ VisitParsed \/ \E result \in ParseResults : VisitUnparsed(result)
  <2>1. stack # <<>> /\ Onward /\ edges' = edges
    BY <1>3, QuietGoesOnward, VisitsGoOnward
  <2> QED
    BY <2>1, OnwardFacts, LinkedKept
<1>4. CASE Finish \/ Finished \/ UNCHANGED vars
  BY <1>4 DEF Finish, Finished, vars, Linked, CycleClosesAPath
<1> QED
  BY <1>1, <1>2, <1>3, <1>4 DEF Next, Step, Quiet

\* An edge is a cycle only when traversed edges found before it lead from its target
\* back to its source: the code compares the ancestors a frame inherits, and each of
\* those frames was pushed by an edge.
THEOREM CyclesAreReal == Spec => []CycleClosesAPath
<1>1. Init => Inv /\ Linked
  <2> SUFFICES ASSUME Init PROVE Linked
    BY InitStep
  <2>1. DOMAIN edges = {} /\ DOMAIN stack = {}
    BY DEF Init
  <2> QED
    BY <2>1 DEF Linked, CycleClosesAPath
<1>2. Inv /\ Linked /\ [Next]_vars => Inv' /\ Linked'
  BY NextStep, LinkedStep
<1>3. Linked => CycleClosesAPath
  BY DEF Linked
<1> QED
  BY <1>1, <1>2, <1>3, PTL DEF Spec

-----------------------------------------------------------------------------
(***************************************************************************)
(* What the steps that meet a document do to its node and to the flags.    *)
(***************************************************************************)
\* The parse status of a parsed file stays, whatever meets it again.
StatusStays == \A f \in DOMAIN parsed : nodes'[f].status = nodes[f].status

LEMMA EnterKeepsStatus ==
  ASSUME NEW ns, NodesOK(ns), NEW f \in DOMAIN ns, NEW document, NEW incomplete,
         Enter(document, ns, incomplete)
  PROVE  nodes'[f].status = ns[f].status
<1> DEFINE ls == RecordRequest(ns, Top.file, Top.requested)
<1>1. f \in DOMAIN ls /\ "status" \in DOMAIN ls[f] /\ ls[f].status = ns[f].status
  <2>1. ns[f] \in Node
    BY DEF NodesOK
  <2> QED
    BY <2>1 DEF RecordRequest, Node
<1>2. nodes' = RecordSelected(ls, Top.file, Selection(document, Top.requested))
  BY DEF Enter
<1> HIDE DEF ls
<1> QED
  BY <1>1, <1>2 DEF RecordSelected

LEMMA VisitParsedEffect ==
  ASSUME Inv, VisitParsed
  PROVE  /\ StatusStays
         /\ Top.file \in DOMAIN parsed
         /\ partial' = (partial \/ (/\ parsed[Top.file] # NONE
                                   /\ RequestFails(parsed[Top.file], Top.requested)))
         /\ UNCHANGED <<files, parsed, edges, rejected, status>>
<1> DEFINE ns == EnsureNode(nodes, Top.file, Top.depth, Top.root)
<1>1. /\ Active("called") /\ stack # <<>> /\ Top.file \in DOMAIN parsed
      /\ UNCHANGED <<files, parsed, edges, rejected, status>>
  BY DEF VisitParsed, Active
<1>2. Met(nodes, Top.file, ns)
  BY <1>1, TopFacts, NodesUnchanged, EnsureNodeFacts DEF Frame
<1>3. DOMAIN parsed \subseteq DOMAIN nodes /\ partial \in BOOLEAN
  BY DEF Inv, TypeOK
<1> HIDE DEF ns
<1>4. CASE parsed[Top.file] = NONE
  BY <1>1, <1>2, <1>3, <1>4 DEF VisitParsed, Leave, StatusStays, Met, ns
<1>5. CASE parsed[Top.file] # NONE
  <2>1. Enter(parsed[Top.file], ns, partial)
    BY <1>5 DEF VisitParsed, ns
  <2>2. ASSUME NEW f \in DOMAIN parsed PROVE nodes'[f].status = nodes[f].status
    <3>1. f \in DOMAIN ns /\ ns[f].status = nodes[f].status /\ NodesOK(ns)
      BY <1>2, <1>3 DEF Met
    <3> QED
      BY <2>1, <3>1, EnterKeepsStatus
  <2>3. partial' = (partial \/ RequestFails(parsed[Top.file], Top.requested))
    BY <2>1 DEF Enter
  <2> QED
    BY <1>1, <1>5, <2>2, <2>3 DEF StatusStays
<1> QED
  BY <1>4, <1>5

\* What goes wrong on the first visit of a document.
Setback(result, requested) ==
  \/ ~Usable(result)
  \/ /\ result.document # NONE
     /\ \/ Admitted(result.document) < Len(result.document.embedded)
        \/ RequestFails(result.document, requested)

LEMMA VisitUnparsedEffect ==
  ASSUME Inv, NEW result \in ParseResults, VisitUnparsed(result)
  PROVE  /\ StatusStays
         /\ Top.file \notin DOMAIN parsed
         /\ nodes'[Top.file].status = result.status
         /\ parsed'[Top.file] = result.document
         /\ DOMAIN parsed' = DOMAIN parsed \cup {Top.file}
         /\ partial' <=> partial \/ Setback(result, Top.requested)
         /\ rejected' <=> rejected \/ (~Usable(result) /\ Top.root)
         /\ files' = IF result.document = NONE THEN files
                     ELSE RegisterEmbedded(Top.file, result.document)
         /\ UNCHANGED <<edges, status>>
<1> DEFINE document == result.document
           met == EnsureNode(nodes, Top.file, Top.depth, Top.root)
           ns == RecordParse(met, Top.file, result)
           incomplete == \/ partial
                         \/ ~Usable(result)
                         \/ Admitted(document) < Len(document.embedded)
<1>1. /\ Active("called") /\ stack # <<>> /\ Top.file \notin DOMAIN parsed
      /\ parsed' = Put(parsed, Top.file, document)
      /\ rejected' = (rejected \/ (~Usable(result) /\ Top.root))
      /\ files' = IF document = NONE THEN files ELSE RegisterEmbedded(Top.file, document)
      /\ UNCHANGED <<edges, status>>
  BY DEF VisitUnparsed, Active
<1>2. Met(nodes, Top.file, met)
  BY <1>1, TopFacts, NodesUnchanged, EnsureNodeFacts DEF Frame
<1>3. /\ DOMAIN parsed \subseteq DOMAIN nodes /\ partial \in BOOLEAN
      /\ DOMAIN nodes \subseteq DOMAIN met /\ Top.file \in DOMAIN met /\ NodesOK(met)
  BY <1>2 DEF Inv, TypeOK, Met
<1> HIDE DEF met
<1>4. ParsedAs(met, Top.file, result.status, ns)
  BY <1>3, ParseAssumption, RecordParseFacts
<1> HIDE DEF ns
<1>5. CASE document = NONE
  <2>1. nodes' = ns /\ partial' = TRUE
    BY <1>5 DEF VisitUnparsed, Leave, ns, met
  <2>2. ~Usable(result)
    BY <1>5 DEF Usable
  <2>3. StatusStays /\ nodes'[Top.file].status = result.status
    BY <1>1, <1>2, <1>3, <1>4, <2>1 DEF StatusStays, Met, ParsedAs
  <2> QED
    BY <1>1, <2>1, <2>2, <2>3 DEF Put, Setback
<1>6. CASE document # NONE
  <2>1. Enter(document, ns, incomplete)
    BY <1>6 DEF VisitUnparsed, ns, met
  <2>2. ASSUME NEW f \in DOMAIN met PROVE nodes'[f].status = ns[f].status
    <3>1. f \in DOMAIN ns /\ NodesOK(ns)
      BY <1>4 DEF ParsedAs
    <3> QED
      BY <2>1, <3>1, EnterKeepsStatus
  <2>3. StatusStays /\ nodes'[Top.file].status = result.status
    BY <1>1, <1>2, <1>3, <1>4, <2>2 DEF StatusStays, Met, ParsedAs
  <2>4. partial' = (incomplete \/ RequestFails(document, Top.requested))
    BY <2>1 DEF Enter
  <2>5. partial' <=> partial \/ Setback(result, Top.requested)
    BY <1>6, <2>4 DEF Setback
  <2> QED
    BY <1>1, <1>6, <2>3, <2>5 DEF Put
<1> QED
  BY <1>5, <1>6

\* Following a reference: what is appended, pushed and met.
LEMMA ProcessEffect ==
  ASSUME Inv, Contact, ProcessReference
  PROVE  LET edge == Edge(Top.file, Top, Current)
             target == edge.target
         IN /\ Running /\ stack # <<>> /\ Top.phase = "walking"
            /\ edge \in EdgeRecord /\ edge.requested = Current.configuration
            /\ Len(edges) \in Nat /\ DOMAIN edges = 1 .. Len(edges)
            /\ Len(edges') = Len(edges) + 1 /\ DOMAIN edges' = 1 .. Len(edges) + 1
            /\ \A i \in 1 .. Len(edges) : edges'[i] = edges[i]
            /\ edges'[Len(edges) + 1] = edge
            /\ edge.traversal = "followed" => target \notin DOMAIN parsed
            /\ edge.traversal = "reused" => target \in DOMAIN parsed
            /\ StatusStays
            /\ partial' <=> partial \/ edge.traversal \in {"unresolved", "depth_limited"}
            /\ stack' = IF Traversed(edge)
                        THEN Append(ReplaceTop(Advanced),
                                    Call(target, Top.depth + 1, Current.configuration,
                                         Top.ancestors \cup {target}, FALSE))
                        ELSE ReplaceTop(Advanced)
            /\ UNCHANGED <<files, parsed, rejected, status>>
<1> DEFINE edge == Edge(Top.file, Top, Current)
           target == edge.target
<1>1. /\ Running /\ stack # <<>> /\ Top.phase = "walking" /\ ~Exhausted
      /\ edges' = Append(edges, edge)
      /\ partial' = (partial \/ edge.traversal \in {"unresolved", "depth_limited"})
      /\ nodes' = IF target = NONE THEN nodes
                  ELSE RecordRequest(EnsureNode(nodes, target, Top.depth + 1, FALSE),
                                     target, Current.configuration)
      /\ stack' = IF edge.traversal \in {"followed", "reused"}
                  THEN Append(ReplaceTop(Advanced),
                              Call(target, Top.depth + 1, Current.configuration,
                                   Top.ancestors \cup {target}, FALSE))
                  ELSE ReplaceTop(Advanced)
      /\ UNCHANGED <<files, parsed, rejected, status>>
  BY DEF ProcessReference, AtReference, Active
<1>2. /\ edge \in EdgeRecord /\ edge.requested = Current.configuration
      /\ edge.traversal = TraversalStatus(target, Current)
  BY <1>1, EdgeFacts DEF Edge
<1>3. /\ edge.traversal = "followed" => target \notin DOMAIN parsed
      /\ edge.traversal = "reused" => target \in DOMAIN parsed
  BY <1>1, <1>2, TraversalFacts
<1>4. /\ Len(edges) \in Nat /\ DOMAIN edges = 1 .. Len(edges)
      /\ Len(edges') = Len(edges) + 1 /\ DOMAIN edges' = 1 .. Len(edges) + 1
      /\ \A i \in 1 .. Len(edges) : edges'[i] = edges[i]
      /\ edges'[Len(edges) + 1] = edge
  <2>1. edges \in Seq(EdgeRecord) /\ Len(edges) \in Nat
    BY DEF Inv, TypeOK
  <2>2. /\ edges' \in Seq(EdgeRecord) /\ Len(edges') = Len(edges) + 1
        /\ \A i \in 1 .. Len(edges) : edges'[i] = edges[i]
        /\ edges'[Len(edges) + 1] = edge
    BY <1>1, <1>2, <2>1, AppendProperties
  <2> QED
    BY <2>1, <2>2
<1>5. StatusStays
  <2>1. CASE target = NONE
    BY <1>1, <2>1 DEF StatusStays
  <2>2. CASE target # NONE
    <3>1. Top.depth + 1 \in Nat /\ Current.configuration \in Names \cup {NONE}
      BY <1>1, TopFacts, CurrentFacts DEF Frame, Seed
    <3>2. Met(nodes, target, nodes')
      BY <1>1, <2>2, <3>1, NodesUnchanged, TargetFacts
    <3>3. DOMAIN parsed \subseteq DOMAIN nodes
      BY DEF Inv, TypeOK
    <3> QED
      BY <3>2, <3>3 DEF Met, StatusStays
  <2> QED
    BY <2>1, <2>2
<1> HIDE DEF edge
<1>6. partial' <=> partial \/ edge.traversal \in {"unresolved", "depth_limited"}
  BY <1>1
<1> QED
  BY <1>1, <1>2, <1>3, <1>4, <1>5, <1>6 DEF Traversed, edge

-----------------------------------------------------------------------------
(***************************************************************************)
(* Why a scan is rejected.                                                 *)
(***************************************************************************)
FailedIn(f, p, ns) ==
  f \in DOMAIN p /\ (ns[f].status \notin {"parsed", "partial"} \/ p[f] = NONE)

Arriving == stack # <<>> /\ Top.phase = "called"

\* A root failed that no reference had led to before.
RootLost == \E f : RootFile(f) /\ FailedIn(f, parsed, nodes) /\ ~Led(edges, Len(edges), f)

\* An owed reference found the limit reached.
Refused ==
  /\ Len(edges) >= MaxProjectEdges
  /\ \E f, c, i : Owes(parsed, nodes, f, c, i) /\ ~HasEdge(edges, f, c, i)

\* While a root is entered, nothing else is under way.
RootAlone ==
  Arriving /\ Top.root =>
    \A i \in DOMAIN edges : Traversed(edges[i]) => edges[i].target \in DOMAIN parsed

Rejection ==
  /\ \A f : FailedIn(f, parsed, nodes) => rejected \/ Led(edges, Len(edges), f)
  /\ rejected => RootLost \/ Refused
  /\ RootAlone

\* What a step may do to a file that was parsed before: nothing.
LEMMA Stays ==
  ASSUME Inv, Contact, [Next]_vars
  PROVE  /\ StatusStays
         /\ \A f \in DOMAIN parsed : /\ f \in DOMAIN parsed' /\ parsed'[f] = parsed[f]
                                     /\ Led(edges', Len(edges'), f) <=> Led(edges, Len(edges), f)
         /\ partial => partial'
         /\ rejected => rejected'
<1>1. /\ \A f \in DOMAIN parsed : f \in DOMAIN parsed' /\ parsed'[f] = parsed[f]
      /\ partial => partial'
      /\ rejected => rejected'
  <2>1. CASE UNCHANGED vars
    BY <2>1 DEF vars
  <2>2. CASE Grows
    BY <2>2 DEF Grows
  <2> QED
    BY <2>1, <2>2, NextStep
<1>2. CASE ProcessReference
  <2> DEFINE edge == Edge(Top.file, Top, Current)
             n == Len(edges)
  <2>1. /\ StatusStays /\ n \in Nat /\ Len(edges') = n + 1
        /\ \A i \in 1 .. n : edges'[i] = edges[i]
        /\ edges'[n + 1] = edge
        /\ edge.traversal = "followed" => edge.target \notin DOMAIN parsed
    BY <1>2, ProcessEffect
  <2> HIDE DEF edge, n
  <2>2. ASSUME NEW f \in DOMAIN parsed PROVE Led(edges', n + 1, f) <=> Led(edges, n, f)
    BY <2>1 DEF Led
  <2> QED
    BY <1>1, <2>1, <2>2 DEF n
<1>3. CASE VisitParsed \/ \E result \in ParseResults : VisitUnparsed(result)
  BY <1>1, <1>3, VisitParsedEffect, VisitUnparsedEffect
<1>4. CASE Quiet
  BY <1>1, <1>4, QuietGoesOnward DEF StatusStays
<1>5. CASE VisitRoot \/ Finish \/ Finished \/ UNCHANGED vars
  BY <1>1, <1>5 DEF VisitRoot, Finish, Finished, vars, StatusStays
<1> QED
  BY <1>2, <1>3, <1>4, <1>5 DEF Next, Step, Quiet

LEMMA FailureStays ==
  ASSUME Inv, Contact, [Next]_vars, NEW f \in DOMAIN parsed
  PROVE  FailedIn(f, parsed', nodes') <=> FailedIn(f, parsed, nodes)
  BY Stays DEF FailedIn, StatusStays

LEMMA RootLostStays == Inv /\ Contact /\ [Next]_vars /\ RootLost => RootLost'
<1> SUFFICES ASSUME Inv, Contact, [Next]_vars, RootLost PROVE RootLost'
  OBVIOUS
<1>1. PICK f : RootFile(f) /\ FailedIn(f, parsed, nodes) /\ ~Led(edges, Len(edges), f)
  BY DEF RootLost
<1>2. f \in DOMAIN parsed
  BY <1>1 DEF FailedIn
<1>3. FailedIn(f, parsed', nodes') /\ ~Led(edges', Len(edges'), f)
  BY <1>1, <1>2, FailureStays, Stays
<1> QED
  BY <1>1, <1>3 DEF RootLost

LEMMA RefusedStays == Inv /\ Contact /\ [Next]_vars /\ Refused => Refused'
<1> SUFFICES ASSUME Inv, Contact, [Next]_vars, Refused PROVE Refused'
  OBVIOUS
<1>1. edges' = edges
  BY DEF Refused, Next, Step, Finished, VisitRoot, VisitParsed, VisitUnparsed,
         SkipComponentReference, RefuseReference, ProcessReference, NextConfiguration, Return,
         Finish, EdgeLimitReached, vars
<1>2. PICK f, c, i : Owes(parsed, nodes, f, c, i) /\ ~HasEdge(edges, f, c, i)
  BY DEF Refused
<1>3. Owes(parsed', nodes', f, c, i)
  <2>1. Documented(parsed', f) /\ parsed'[f] = parsed[f]
    BY <1>2, Stays DEF Owes, Documented
  <2>2. Sel(nodes, f) \subseteq Sel(nodes', f)
    <3>1. CASE UNCHANGED vars
      BY <3>1 DEF vars
    <3>2. CASE Grows
      BY <3>2 DEF Sel, Grows
    <3> QED
      BY <3>1, <3>2, NextStep
  <2> QED
    BY <1>2, <2>1, <2>2 DEF Owes
<1> QED
  BY <1>1, <1>2, <1>3 DEF Refused

LEMMA RejectionVisit ==
  ASSUME Account, Rejection, NEW result \in ParseResults, VisitUnparsed(result)
  PROVE  Rejection'
<1>1. /\ Inv /\ Contact /\ [Next]_vars
      /\ stack # <<>> /\ Active("called") /\ Onward /\ Arriving
  BY VisitsGoOnward DEF Account, Next, Step, Active, Arriving
<1>2. /\ nodes'[Top.file].status = result.status /\ parsed'[Top.file] = result.document
      /\ DOMAIN parsed' = DOMAIN parsed \cup {Top.file} /\ Top.file \notin DOMAIN parsed
      /\ rejected' <=> rejected \/ (~Usable(result) /\ Top.root)
      /\ edges' = edges
  BY <1>1, VisitUnparsedEffect
<1>3. Sent(Top, parsed, edges)
  BY <1>1, TopSent
<1>4. FailedIn(Top.file, parsed', nodes') <=> ~Usable(result)
  BY <1>2 DEF FailedIn, Usable
<1>5. ASSUME NEW f, FailedIn(f, parsed', nodes') PROVE rejected' \/ Led(edges', Len(edges'), f)
  <2>1. CASE f \in DOMAIN parsed
    BY <1>1, <1>2, <1>5, <2>1, FailureStays DEF Rejection
  <2>2. CASE f = Top.file
    BY <1>1, <1>2, <1>3, <1>4, <1>5, <2>2 DEF Sent, Arriving
  <2> QED
    BY <1>2, <1>5, <2>1, <2>2 DEF FailedIn
<1>6. ASSUME rejected' PROVE RootLost' \/ Refused'
  <2>1. CASE rejected
    BY <1>1, <2>1, RootLostStays, RefusedStays DEF Rejection
  <2>2. CASE ~Usable(result) /\ Top.root
    <3>1. ~Led(edges, Len(edges), Top.file)
      BY <1>1, <1>2, <2>2 DEF Rejection, RootAlone, Led, Traversed, Inv, TypeOK
    <3>2. RootFile(Top.file)
      BY <1>3, <2>2 DEF Sent
    <3>3. RootFile(Top.file) /\ FailedIn(Top.file, parsed', nodes') /\ ~Led(edges', Len(edges'), Top.file)
      BY <1>2, <1>4, <2>2, <3>1, <3>2
    <3> QED
      BY <3>3 DEF RootLost
  <2> QED
    BY <1>2, <1>6, <2>1, <2>2
<1>7. RootAlone'
  BY <1>1, OnwardFacts DEF RootAlone, Arriving, Top
<1> QED
  BY <1>5, <1>6, <1>7 DEF Rejection

LEMMA RejectionStep == Account /\ Rejection /\ [Next]_vars => Rejection'
<1> SUFFICES ASSUME Account, Rejection, [Next]_vars PROVE Rejection'
  OBVIOUS
<1>1. Inv /\ Contact /\ Once /\ Ledger
  BY DEF Account
<1>2. CASE \E result \in ParseResults : VisitUnparsed(result)
  BY <1>2, RejectionVisit
<1>3. ASSUME ~ \E result \in ParseResults : VisitUnparsed(result) PROVE parsed' = parsed
  BY <1>3 DEF Next, Step, Finished, VisitRoot, VisitParsed, Finish, ProcessReference,
              SkipComponentReference, RefuseReference, NextConfiguration, Return, vars
<1>4. ASSUME ~ \E result \in ParseResults : VisitUnparsed(result), NEW f, FailedIn(f, parsed', nodes')
      PROVE  rejected' \/ Led(edges', Len(edges'), f)
  <2>1. f \in DOMAIN parsed
    BY <1>3, <1>4 DEF FailedIn
  <2>2. FailedIn(f, parsed, nodes)
    BY <1>1, <1>4, <2>1, FailureStays
  <2> QED
    BY <1>1, <2>1, <2>2, Stays DEF Rejection
<1>5. ASSUME rejected PROVE RootLost' \/ Refused'
  BY <1>1, <1>5, RootLostStays, RefusedStays DEF Rejection
<1>6. CASE RefuseReference
  <2>1. /\ stack # <<>> /\ Top.phase = "walking" /\ AtReference /\ EdgeLimitReached
        /\ UNCHANGED <<edges, parsed, nodes>>
    BY <1>6 DEF RefuseReference, AtReference, Active
  <2>2. Owes(parsed, nodes, Top.file, Top.config, Top.next)
    BY <1>1, <2>1, CurrentOwed
  <2>3. ~HasEdge(edges, Top.file, Top.config, Top.next)
    <3> SUFFICES ASSUME NEW e \in DOMAIN edges,
                        Identity(edges[e]) = <<Top.file, Top.config, Top.next>>
                 PROVE  FALSE
      BY DEF HasEdge
    <3>1. /\ edges[e].source = Top.file /\ edges[e].config = Top.config
          /\ edges[e].ref = Top.next
      BY DEF Identity
    <3>2. Behind(Top, edges, referenced, processed) /\ Top.next \in Nat
      BY <1>1, <2>1, TopBehind, TopFacts DEF Frame
    <3> QED
      BY <2>1, <3>1, <3>2 DEF Behind, Past
  <2>4. Refused'
    BY <2>1, <2>2, <2>3 DEF Refused, EdgeLimitReached
  <2>5. RootAlone'
    BY <1>1, <1>6, QuietGoesOnward, OnwardFacts DEF Quiet, RootAlone, Arriving, Top
  <2>6. ~ \E result \in ParseResults : VisitUnparsed(result)
    BY <2>1 DEF VisitUnparsed, Active
  <2> QED
    BY <1>4, <2>4, <2>5, <2>6 DEF Rejection
<1>7. CASE ProcessReference
  <2>1. ~ \E result \in ParseResults : VisitUnparsed(result)
    BY <1>7 DEF ProcessReference, AtReference, VisitUnparsed, Active
  <2>2. RootAlone'
    <3> DEFINE frame == Call(Edge(Top.file, Top, Current).target, Top.depth + 1,
                             Current.configuration,
                             Top.ancestors \cup {Edge(Top.file, Top, Current).target}, FALSE)
               base == ReplaceTop(Advanced)
    <3>1. stack # <<>> /\ Top.phase = "walking" /\ (stack' = base \/ stack' = Append(base, frame))
      BY <1>1, <1>7, ProcessEffect
    <3>2. frame.root = FALSE
      BY DEF Call
    <3>3. /\ base \in Seq(Frame) /\ Len(base) = Len(stack) /\ Len(stack) \in Nat
          /\ base[Len(stack)].phase = "walking"
      BY <1>1, <3>1, AdvancedFacts, TopFacts DEF Stacked
    <3> HIDE DEF frame, base
    <3>4. CASE stack' = base
      BY <3>3, <3>4 DEF RootAlone, Arriving, Top
    <3>5. CASE stack' = Append(base, frame)
      <4>1. stack'[Len(stack')] = frame
        BY <3>3, <3>5
      <4> QED
        BY <3>2, <4>1 DEF RootAlone, Arriving, Top
    <3> QED
      BY <3>1, <3>4, <3>5
  <2>3. rejected' = rejected
    BY <1>7 DEF ProcessReference
  <2> QED
    BY <1>4, <1>5, <2>1, <2>2, <2>3 DEF Rejection
<1>8. CASE VisitRoot
  <2>1. stack = <<>> /\ UNCHANGED <<parsed, edges, rejected>>
    BY <1>8 DEF VisitRoot
  <2>2. ~ \E result \in ParseResults : VisitUnparsed(result)
    BY <2>1 DEF VisitUnparsed, Active
  <2>3. \A i \in DOMAIN edges : Traversed(edges[i]) => edges[i].target \in DOMAIN parsed
    BY <1>1, <2>1 DEF Inv, EdgeSettled, Awaited, Traversed
  <2>4. RootAlone'
    BY <2>1, <2>3 DEF RootAlone
  <2> QED
    BY <1>4, <1>5, <2>1, <2>2, <2>4 DEF Rejection
<1>9. CASE VisitParsed \/ SkipComponentReference \/ NextConfiguration \/ Return
  <2>1. stack # <<>> /\ Onward
    BY <1>1, <1>9, VisitsGoOnward, QuietGoesOnward DEF Quiet
  <2>2. rejected' = rejected
    BY <1>9 DEF VisitParsed, SkipComponentReference, NextConfiguration, Return
  <2>3. ~ \E result \in ParseResults : VisitUnparsed(result)
    BY <1>9 DEF VisitUnparsed, VisitParsed, SkipComponentReference, NextConfiguration, Return, Active
  <2>4. RootAlone'
    BY <1>1, <2>1, OnwardFacts DEF RootAlone, Arriving, Top
  <2> QED
    BY <1>4, <1>5, <2>2, <2>3, <2>4 DEF Rejection
<1>10. CASE Finish \/ Finished \/ UNCHANGED vars
  <2>1. UNCHANGED <<parsed, edges, nodes, stack, rejected>>
    BY <1>10 DEF Finish, Finished, vars
  <2>2. \A f : FailedIn(f, parsed', nodes') <=> FailedIn(f, parsed, nodes)
    BY <2>1 DEF FailedIn
  <2> QED
    BY <1>5, <2>1, <2>2 DEF Rejection, RootAlone, Arriving, Top
<1> QED
  BY <1>2, <1>6, <1>7, <1>8, <1>9, <1>10 DEF Next, Step

-----------------------------------------------------------------------------
(***************************************************************************)
(* Where visits come from, and where embedded documents lie.               *)
(***************************************************************************)
\* A visit asks for what its root or the edge that led to it asked for.
Asked ==
  Arriving =>
    IF Top.root THEN Top.requested = RootConfiguration
    ELSE \E i \in DOMAIN edges : /\ Traversed(edges[i]) /\ edges[i].target = Top.file
                                 /\ edges[i].requested = Top.requested

Rooted == \A k \in DOMAIN stack : stack[k].root <=> k = 1

\* Embedded documents belong to files that were parsed.
Contained == \A i \in DOMAIN files : files[i].container = 0 \/ files[i].container \in DOMAIN parsed

Course == Asked /\ Rooted /\ Contained

Held(fs, f) == {i \in 1 .. Len(fs) : fs[i].container = f}

LEMMA AdmittedFacts ==
  ASSUME Inv, NEW document \in Document
  PROVE  Admitted(document) \in Nat
<1>1. Len(files) \in Nat /\ MaxProjectFiles \in Nat
  BY LimitAssumption DEF Inv, TypeOK
<1>2. Len(document.embedded) \in Nat
  <2>1. document.embedded \in Seq(Streams)
    BY DEF Document
  <2> QED
    BY <2>1
<1> QED
  BY <1>1, <1>2 DEF Admitted

\* Registering embedded documents: they are the new files, and as many as fit.
LEMMA RegisterHolds ==
  ASSUME Inv, Contained, NEW document \in Document, NEW file \in Nat \ {0},
         file \notin DOMAIN parsed
  PROVE  /\ Cardinality(Held(RegisterEmbedded(file, document), file)) = Admitted(document)
         /\ \A f : f # file => Held(RegisterEmbedded(file, document), f) = Held(files, f)
         /\ \A i \in DOMAIN RegisterEmbedded(file, document) :
              \/ RegisterEmbedded(file, document)[i].container = file
              \/ i \in DOMAIN files /\ RegisterEmbedded(file, document)[i] = files[i]
<1> DEFINE a == Admitted(document)
           n == Len(files)
           more == [i \in 1 .. a |-> [container |-> file, name |-> document.embedded[i]]]
           fs == files \o more
<1>1. a \in Nat /\ n \in Nat /\ DOMAIN files = 1 .. n
  BY AdmittedFacts DEF Inv, TypeOK
<1>2. Len(more) = a /\ \A i \in 1 .. a : more[i].container = file
  BY <1>1
<1> HIDE DEF a, more
<1>3. /\ DOMAIN fs = 1 .. n + a /\ Len(fs) = n + a
      /\ \A i \in 1 .. n : fs[i] = files[i]
      /\ \A i \in 1 .. n + a : i > n => fs[i].container = file
  <2>1. DOMAIN fs = 1 .. n + a /\ Len(fs) = n + a
    BY <1>1, <1>2
  <2>2. \A i \in 1 .. n + a : fs[i] = IF i <= n THEN files[i] ELSE more[i - n]
    BY <1>1, <1>2
  <2>3. \A i \in 1 .. n + a : i > n => i - n \in 1 .. a
    BY <1>1
  <2> HIDE DEF fs
  <2>4. \A i \in 1 .. n : fs[i] = files[i]
    BY <1>1, <2>2
  <2>5. \A i \in 1 .. n + a : i > n => fs[i].container = file
    BY <1>1, <1>2, <2>2, <2>3
  <2> QED
    BY <2>1, <2>4, <2>5
<1>4. \A i \in 1 .. n : files[i].container # file
  BY <1>1 DEF Contained
<1>5. RegisterEmbedded(file, document) = fs
  BY DEF RegisterEmbedded, a, more
<1> HIDE DEF fs, n
<1>6. Held(fs, file) = n + 1 .. n + a
  <2>1. ASSUME NEW i \in Held(fs, file) PROVE i \in n + 1 .. n + a
    BY <1>1, <1>3, <1>4 DEF Held
  <2>2. ASSUME NEW i \in n + 1 .. n + a PROVE i \in Held(fs, file)
    BY <1>1, <1>3 DEF Held
  <2> QED
    BY <2>1, <2>2
<1>7. Cardinality(Held(fs, file)) = a
  <2>1. Cardinality(n + 1 .. n + a) = IF n + 1 > n + a THEN 0 ELSE (n + a) - (n + 1) + 1
    BY <1>1, FS_Interval
  <2> QED
    BY <1>1, <1>6, <2>1
<1>8. ASSUME NEW f, f # file PROVE Held(fs, f) = Held(files, f)
  <2>1. \A i : i \in Held(fs, f) <=> i \in Held(files, f)
    BY <1>1, <1>3, <1>8 DEF Held, n
  <2> QED
    BY <2>1
<1>9. ASSUME NEW i \in DOMAIN fs
      PROVE  fs[i].container = file \/ (i \in DOMAIN files /\ fs[i] = files[i])
  BY <1>1, <1>3
<1> QED
  BY <1>5, <1>7, <1>8, <1>9 DEF a

\* What a visit on first sight holds afterwards.
LEMMA VisitHolds ==
  ASSUME Inv, Contained, NEW result \in ParseResults, VisitUnparsed(result)
  PROVE  /\ result.document # NONE => Cardinality(Held(files', Top.file)) = Admitted(result.document)
         /\ \A f \in DOMAIN parsed : Held(files', f) = Held(files, f)
         /\ Contained'
<1>1. /\ Top.file \notin DOMAIN parsed /\ DOMAIN parsed' = DOMAIN parsed \cup {Top.file}
      /\ files' = IF result.document = NONE THEN files
                  ELSE RegisterEmbedded(Top.file, result.document)
  BY VisitUnparsedEffect
<1>2. Top.file \in Nat \ {0}
  BY TopFacts DEF VisitUnparsed, Active, Inv, TypeOK
<1>3. result.document # NONE => result.document \in Document
  BY ParseAssumption DEF ParseResult
<1>4. CASE result.document = NONE
  BY <1>1, <1>4 DEF Contained
<1>5. CASE result.document # NONE
  BY <1>1, <1>2, <1>3, <1>5, RegisterHolds DEF Contained
<1> QED
  BY <1>4, <1>5

LEMMA CourseStep == Inv /\ Contact /\ Course /\ [Next]_vars => Course'
<1> SUFFICES ASSUME Inv, Contact, Course, [Next]_vars PROVE Course'
  OBVIOUS
<1>1. CASE \/ Quiet \/ VisitParsed
           \/ \E result \in ParseResults : VisitUnparsed(result)
  <2>1. stack # <<>> /\ Onward
    BY <1>1, QuietGoesOnward, VisitsGoOnward
  <2>2. Asked'
    BY <2>1, OnwardFacts DEF Asked, Arriving, Top
  <2>3. Rooted'
    <3> SUFFICES ASSUME NEW k \in DOMAIN stack' PROVE stack'[k].root <=> k = 1
      BY DEF Rooted
    <3>1. k \in Nat /\ \A j \in 1 .. k : j \in DOMAIN stack /\ stack'[j].root = stack[j].root
      BY <2>1, OnwardFacts
    <3>2. k \in 1 .. k
      <4>1. stack' \in Seq(Frame)
        BY NextStep DEF Inv, TypeOK
      <4> QED
        BY <4>1
    <3> QED
      BY <3>1, <3>2 DEF Course, Rooted
  <2>4. Contained'
    <3>1. CASE Quiet \/ VisitParsed
      <4>1. files' = files /\ parsed' = parsed
        BY <3>1, QuietGoesOnward, VisitParsedEffect
      <4> QED
        BY <4>1 DEF Course, Contained
    <3>2. CASE \E result \in ParseResults : VisitUnparsed(result)
      BY <3>2, VisitHolds DEF Course
    <3> QED
      BY <1>1, <3>1, <3>2
  <2> QED
    BY <2>2, <2>3, <2>4 DEF Course
<1>2. CASE ProcessReference
  <2> DEFINE edge == Edge(Top.file, Top, Current)
             frame == Call(edge.target, Top.depth + 1, Current.configuration,
                           Top.ancestors \cup {edge.target}, FALSE)
             base == ReplaceTop(Advanced)
             n == Len(edges)
             m == Len(stack)
  <2>1. /\ stack # <<>> /\ Top.phase = "walking" /\ files' = files /\ parsed' = parsed
        /\ n \in Nat /\ DOMAIN edges' = 1 .. n + 1 /\ edges'[n + 1] = edge
        /\ edge.requested = Current.configuration
        /\ stack' = IF Traversed(edge) THEN Append(base, frame) ELSE base
    BY <1>2, ProcessEffect
  <2>2. /\ frame.root = FALSE /\ frame.file = edge.target
        /\ frame.requested = Current.configuration
    BY DEF Call
  <2>3. /\ base \in Seq(Frame) /\ Len(base) = m /\ m \in Nat \ {0} /\ DOMAIN stack = 1 .. m
        /\ base[m].phase = "walking" /\ base[m].root = stack[m].root
        /\ \A k \in 1 .. m : k # m => base[k] = stack[k]
    <3>1. /\ Stacked(base, files, parsed) /\ Len(base) = m /\ base[m] = Advanced
          /\ Advanced.phase = "walking" /\ m \in Nat \ {0} /\ stack \in Seq(Frame) /\ Top \in Frame
      BY <2>1, AdvancedFacts, TopFacts
    <3>2. Advanced.root = Top.root
      BY <3>1 DEF Advanced, Frame
    <3>3. DOMAIN base = 1 .. m /\ base \in Seq(Frame)
      BY <3>1 DEF Stacked
    <3>4. \A k \in 1 .. m : k # m => base[k] = stack[k]
      BY <2>1, <3>3, ReplacedFrames
    <3>5. base[m].phase = "walking" /\ base[m].root = stack[m].root
      BY <3>1, <3>2 DEF Top
    <3>6. DOMAIN stack = 1 .. m
      BY <3>1
    <3> QED
      BY <3>1, <3>3, <3>4, <3>5, <3>6
  <2> HIDE DEF edge, frame, base, n, m
  <2>4. \A k \in 1 .. m : base[k].root <=> k = 1
    BY <2>3 DEF Course, Rooted
  <2>5. Contained'
    BY <2>1 DEF Course, Contained
  <2>6. CASE Traversed(edge)
    <3>1. /\ DOMAIN stack' = 1 .. m + 1 /\ Len(stack') = m + 1 /\ stack'[m + 1] = frame
          /\ \A k \in 1 .. m : stack'[k] = base[k]
      BY <2>1, <2>3, <2>6
    <3>2. Asked'
      <4>1. n + 1 \in DOMAIN edges'
        BY <2>1
      <4> QED
        BY <2>1, <2>2, <2>6, <3>1, <4>1 DEF Asked, Arriving, Top
    <3>3. Rooted'
      BY <2>2, <2>3, <2>4, <3>1 DEF Rooted
    <3> QED
      BY <2>5, <3>2, <3>3 DEF Course
  <2>7. CASE ~Traversed(edge)
    <3>1. stack' = base
      BY <2>1, <2>7
    <3>2. Asked'
      BY <2>3, <3>1 DEF Asked, Arriving, Top
    <3>3. Rooted'
      BY <2>3, <2>4, <3>1 DEF Rooted
    <3> QED
      BY <2>5, <3>2, <3>3 DEF Course
  <2> QED
    BY <2>6, <2>7
<1>3. CASE VisitRoot
  <2> DEFINE frame == Call(Head(roots), 0, RootConfiguration, {Head(roots)}, TRUE)
  <2>1. stack' = <<frame>> /\ files' = files /\ parsed' = parsed
    BY <1>3 DEF VisitRoot
  <2>2. frame.root = TRUE /\ frame.requested = RootConfiguration
    BY DEF Call
  <2> HIDE DEF frame
  <2>3. DOMAIN stack' = {1} /\ Len(stack') = 1 /\ stack'[1] = frame
    BY <2>1
  <2> QED
    BY <2>1, <2>2, <2>3 DEF Course, Asked, Arriving, Top, Rooted, Contained
<1>4. CASE Finish \/ Finished \/ UNCHANGED vars
  BY <1>4 DEF Finish, Finished, vars, Course, Asked, Arriving, Top, Rooted, Contained
<1> QED
  BY <1>1, <1>2, <1>3, <1>4 DEF Next, Step, Quiet

-----------------------------------------------------------------------------
(***************************************************************************)
(* Why a scan is partial.                                                  *)
(***************************************************************************)
Unheard(e, p) == Documented(p, e.target) /\ RequestFails(p[e.target], e.requested)
RootUnheard(f, p) == Documented(p, f) /\ RequestFails(p[f], RootConfiguration)
LeftOut(f, fs, p) == Documented(p, f) /\ Cardinality(Held(fs, f)) < Len(p[f].embedded)
Cut(e) == e.traversal \in {"unresolved", "depth_limited"}

\* LooseEnd before the kinds of documents are compared.
Loose ==
  \/ IndexPartial
  \/ \E f : FailedIn(f, parsed, nodes)
  \/ \E i \in DOMAIN edges : Cut(edges[i])
  \/ \E f : RootFile(f) /\ RootUnheard(f, parsed)
  \/ \E i \in DOMAIN edges : Traversed(edges[i]) /\ Unheard(edges[i], parsed)
  \/ \E f : LeftOut(f, files, parsed)

\* The visit over a traversed edge is still to come.
Pending(s, e) ==
  /\ s # <<>> /\ s[Len(s)].phase = "called" /\ ~s[Len(s)].root
  /\ s[Len(s)].file = e.target /\ s[Len(s)].requested = e.requested

\* The request of a traversed edge was put to its document.
Answered(e, p, incomplete) == e.target \in DOMAIN p /\ (Unheard(e, p) => incomplete)

Tally ==
  /\ Running /\ partial => Loose
  /\ IndexPartial => partial
  /\ \A f : FailedIn(f, parsed, nodes) => partial
  /\ \A f : RootFile(f) /\ RootUnheard(f, parsed) => partial
  /\ \A f : LeftOut(f, files, parsed) => partial
  /\ \A i \in DOMAIN edges :
       Traversed(edges[i]) => Pending(stack, edges[i]) \/ Answered(edges[i], parsed, partial)

\* Old edges are where they were.
LEMMA EdgesStay ==
  ASSUME Inv, [Next]_vars, NEW i \in DOMAIN edges
  PROVE  i \in DOMAIN edges' /\ edges'[i] = edges[i]
<1>1. /\ edges \in Seq(EdgeRecord) /\ edges' \in Seq(EdgeRecord)
      /\ Len(edges) \in Nat /\ i \in 1 .. Len(edges)
  BY NextStep DEF Inv, TypeOK
<1>2. CASE Grows
  <2>1. Len(edges) <= Len(edges') /\ SubSeq(edges', 1, Len(edges)) = edges
    BY <1>2 DEF Grows
  <2>2. SubSeq(edges', 1, Len(edges))[i] = edges'[i]
    BY <1>1, <2>1
  <2> QED
    BY <1>1, <2>1, <2>2
<1>3. CASE UNCHANGED vars
  BY <1>3 DEF vars
<1> QED
  BY <1>2, <1>3, NextStep

LEMMA HeldStays ==
  ASSUME Inv, Contained, [Next]_vars, NEW f \in DOMAIN parsed
  PROVE  Held(files', f) = Held(files, f)
<1>1. CASE \E result \in ParseResults : VisitUnparsed(result)
  BY <1>1, VisitHolds
<1>2. CASE ~ \E result \in ParseResults : VisitUnparsed(result)
  <2>1. files' = files
    BY <1>2 DEF Next, Step, Finished, VisitRoot, VisitParsed, Finish, ProcessReference,
                SkipComponentReference, RefuseReference, NextConfiguration, Return, vars
  <2> QED
    BY <2>1
<1> QED
  BY <1>1, <1>2

\* What is known of parsed files stays as it is.
LEMMA KnownStays ==
  ASSUME Inv, Contact, Contained, [Next]_vars, NEW f \in DOMAIN parsed
  PROVE  /\ f \in DOMAIN parsed'
         /\ FailedIn(f, parsed', nodes') <=> FailedIn(f, parsed, nodes)
         /\ RootUnheard(f, parsed') <=> RootUnheard(f, parsed)
         /\ LeftOut(f, files', parsed') <=> LeftOut(f, files, parsed)
         /\ \A e : e.target = f => (Unheard(e, parsed') <=> Unheard(e, parsed))
<1>1. f \in DOMAIN parsed' /\ parsed'[f] = parsed[f] /\ Held(files', f) = Held(files, f)
  BY Stays, HeldStays
<1> QED
  BY <1>1, FailureStays DEF RootUnheard, LeftOut, Unheard, Documented

LEMMA LooseStays == Inv /\ Contact /\ Contained /\ [Next]_vars /\ Loose => Loose'
<1> SUFFICES ASSUME Inv, Contact, Contained, [Next]_vars, Loose PROVE Loose'
  OBVIOUS
<1>1. CASE IndexPartial
  BY <1>1 DEF Loose
<1>2. CASE \E f : FailedIn(f, parsed, nodes)
  <2>1. PICK f : FailedIn(f, parsed, nodes)
    BY <1>2
  <2>2. FailedIn(f, parsed', nodes')
    BY <2>1, KnownStays DEF FailedIn
  <2> QED
    BY <2>2 DEF Loose
<1>3. CASE \E i \in DOMAIN edges : Cut(edges[i])
  BY <1>3, EdgesStay DEF Loose
<1>4. CASE \E f : RootFile(f) /\ RootUnheard(f, parsed)
  <2>1. PICK f : RootFile(f) /\ RootUnheard(f, parsed)
    BY <1>4
  <2>2. RootFile(f) /\ RootUnheard(f, parsed')
    BY <2>1, KnownStays DEF RootUnheard, Documented
  <2> QED
    BY <2>2 DEF Loose
<1>5. CASE \E i \in DOMAIN edges : Traversed(edges[i]) /\ Unheard(edges[i], parsed)
  <2>1. PICK i \in DOMAIN edges : Traversed(edges[i]) /\ Unheard(edges[i], parsed)
    BY <1>5
  <2>2. Unheard(edges[i], parsed')
    BY <2>1, KnownStays DEF Unheard, Documented
  <2>3. i \in DOMAIN edges' /\ edges'[i] = edges[i]
    BY <2>1, EdgesStay
  <2>4. Traversed(edges'[i]) /\ Unheard(edges'[i], parsed')
    BY <2>1, <2>2, <2>3
  <2> QED
    BY <2>3, <2>4 DEF Loose
<1>6. CASE \E f : LeftOut(f, files, parsed)
  <2>1. PICK f : LeftOut(f, files, parsed)
    BY <1>6
  <2>2. LeftOut(f, files', parsed')
    BY <2>1, KnownStays DEF LeftOut, Documented
  <2> QED
    BY <2>2 DEF Loose
<1> QED
  BY <1>1, <1>2, <1>3, <1>4, <1>5, <1>6 DEF Loose

\* A step that parses nothing and answers what was pending.
LEMMA TallyKept ==
  ASSUME Inv, Contact, Course, Tally, [Next]_vars, parsed' = parsed,
         Running' /\ partial' /\ ~partial => Loose',
         Running' => Running,
         \A i \in DOMAIN edges' : Traversed(edges'[i]) =>
           \/ Pending(stack', edges'[i]) \/ Answered(edges'[i], parsed, partial')
  PROVE  Tally'
<1>1. Contained /\ (partial => partial')
  BY Stays DEF Course
<1>2. Running' /\ partial' => Loose'
  BY <1>1, LooseStays DEF Tally
<1>3. ASSUME NEW f, FailedIn(f, parsed', nodes') PROVE partial'
  <2>1. f \in DOMAIN parsed
    BY <1>3 DEF FailedIn
  <2> QED
    BY <1>1, <1>3, <2>1, KnownStays DEF Tally
<1>4. ASSUME NEW f, RootFile(f), RootUnheard(f, parsed') PROVE partial'
  BY <1>1, <1>4 DEF Tally
<1>5. ASSUME NEW f, LeftOut(f, files', parsed') PROVE partial'
  <2>1. f \in DOMAIN parsed
    BY <1>5 DEF LeftOut, Documented
  <2> QED
    BY <1>1, <1>5, <2>1, KnownStays DEF Tally
<1> QED
  BY <1>1, <1>2, <1>3, <1>4, <1>5 DEF Tally

\* Once nothing is pending, the edges of before are answered.
LEMMA AnsweredStays ==
  ASSUME Tally, ~Arriving, NEW i \in DOMAIN edges, Traversed(edges[i]), NEW incomplete,
         partial => incomplete
  PROVE  Answered(edges[i], parsed, incomplete)
  BY DEF Tally, Pending, Answered, Arriving, Top

\* A request that fails on arrival fails for a root or for an edge.
LEMMA RequestIsSomeones ==
  ASSUME Inv, Contact, Course, Arriving, NEW p, Documented(p, Top.file),
         RequestFails(p[Top.file], Top.requested)
  PROVE  \/ \E f : RootFile(f) /\ RootUnheard(f, p)
         \/ \E i \in DOMAIN edges : Traversed(edges[i]) /\ Unheard(edges[i], p)
<1>1. Sent(Top, parsed, edges)
  BY TopSent DEF Arriving
<1>2. CASE Top.root
  BY <1>1, <1>2 DEF Course, Asked, Sent, RootUnheard
<1>3. CASE ~Top.root
  <2>1. PICK i \in DOMAIN edges : /\ Traversed(edges[i]) /\ edges[i].target = Top.file
                                 /\ edges[i].requested = Top.requested
    BY <1>3 DEF Course, Asked
  <2>2. Unheard(edges[i], p)
    BY <2>1 DEF Unheard
  <2> QED
    BY <2>1, <2>2
<1> QED
  BY <1>2, <1>3

LEMMA TallyVisitParsed == Inv /\ Contact /\ Course /\ Tally /\ VisitParsed => Tally'
<1> SUFFICES ASSUME Inv, Contact, Course, Tally, VisitParsed PROVE Tally'
  OBVIOUS
<1>1. /\ [Next]_vars /\ Arriving /\ Running /\ partial \in BOOLEAN
  BY DEF Next, Step, VisitParsed, Active, Arriving, Inv, TypeOK
<1>2. /\ Top.file \in DOMAIN parsed
      /\ partial' <=> partial \/ (/\ parsed[Top.file] # NONE
                                 /\ RequestFails(parsed[Top.file], Top.requested))
      /\ UNCHANGED <<files, parsed, edges, status>>
  BY <1>1, VisitParsedEffect
<1>3. ASSUME partial', ~partial PROVE Loose'
  <2>1. Documented(parsed, Top.file) /\ RequestFails(parsed[Top.file], Top.requested)
    BY <1>2, <1>3 DEF Documented
  <2> QED
    BY <1>1, <1>2, <2>1, RequestIsSomeones DEF Loose
<1>4. ASSUME NEW i \in DOMAIN edges, Traversed(edges[i])
      PROVE  Answered(edges[i], parsed, partial')
  <2>1. CASE Pending(stack, edges[i])
    <3>1. Top.file = edges[i].target /\ Top.requested = edges[i].requested
      BY <2>1 DEF Pending, Top
    <3> QED
      BY <1>2, <3>1 DEF Answered, Unheard, Documented
  <2>2. CASE Answered(edges[i], parsed, partial)
    BY <1>2, <2>2 DEF Answered
  <2> QED
    BY <1>4, <2>1, <2>2 DEF Tally
<1> QED
  BY <1>1, <1>2, <1>3, <1>4, TallyKept DEF Running

LEMMA TallyProcess == Inv /\ Contact /\ Course /\ Tally /\ ProcessReference => Tally'
<1> SUFFICES ASSUME Inv, Contact, Course, Tally, ProcessReference PROVE Tally'
  OBVIOUS
<1> DEFINE edge == Edge(Top.file, Top, Current)
           frame == Call(edge.target, Top.depth + 1, Current.configuration,
                         Top.ancestors \cup {edge.target}, FALSE)
           base == ReplaceTop(Advanced)
           n == Len(edges)
<1>1. /\ Running /\ stack # <<>> /\ Top.phase = "walking"
      /\ edge.requested = Current.configuration
      /\ n \in Nat /\ DOMAIN edges = 1 .. n /\ DOMAIN edges' = 1 .. n + 1
      /\ \A i \in 1 .. n : edges'[i] = edges[i]
      /\ edges'[n + 1] = edge
      /\ partial' <=> partial \/ edge.traversal \in {"unresolved", "depth_limited"}
      /\ stack' = IF Traversed(edge) THEN Append(base, frame) ELSE base
      /\ UNCHANGED <<files, parsed, rejected, status>>
  BY ProcessEffect
<1>2. /\ frame.root = FALSE /\ frame.file = edge.target /\ frame.phase = "called"
      /\ frame.requested = Current.configuration
  BY DEF Call
<1>3. base \in Seq(Frame)
  BY <1>1, AdvancedFacts DEF Stacked
<1> HIDE DEF edge, frame, base, n
<1>4. [Next]_vars /\ ~Arriving
  BY <1>1 DEF Next, Step, Arriving
<1>5. ASSUME partial', ~partial PROVE Loose'
  <2>1. n + 1 \in DOMAIN edges' /\ Cut(edges'[n + 1])
    BY <1>1, <1>5 DEF Cut
  <2> QED
    BY <2>1 DEF Loose
<1>6. ASSUME NEW i \in DOMAIN edges', Traversed(edges'[i])
      PROVE  Pending(stack', edges'[i]) \/ Answered(edges'[i], parsed, partial')
  <2>1. CASE i \in 1 .. n
    <3>1. i \in DOMAIN edges /\ Traversed(edges[i]) /\ (partial => partial')
      BY <1>1, <1>6, <2>1
    <3> QED
      BY <1>1, <1>4, <2>1, <3>1, AnsweredStays
  <2>2. CASE i = n + 1
    <3>1. stack' = Append(base, frame)
      BY <1>1, <1>6, <2>2
    <3>2. stack' # <<>> /\ stack'[Len(stack')] = frame
      BY <1>3, <3>1
    <3> QED
      BY <1>1, <1>2, <2>2, <3>2 DEF Pending
  <2> QED
    BY <1>1, <2>1, <2>2
<1> QED
  BY <1>1, <1>4, <1>5, <1>6, TallyKept DEF Running

\* With a configuration asked of the only root, a document that is first met
\* over a reference is not that root: the root came first.
LEMMA RootCameFirst ==
  ASSUME Inv, Contact, Course, Arriving, Top.file \notin DOMAIN parsed, ~Top.root,
         RootFile(Top.file)
  PROVE  RootConfiguration = NONE
<1> SUFFICES ASSUME RootConfiguration # NONE PROVE FALSE
  OBVIOUS
<1>1. Len(Roots) = 1 /\ DOMAIN Roots = {1}
  BY OptionAssumption
<1>2. /\ stack \in Seq(Frame) /\ Len(stack) \in Nat \ {0} /\ DOMAIN stack = 1 .. Len(stack)
      /\ Top = stack[Len(stack)]
  BY TopFacts DEF Arriving, Top
<1>3. Len(stack) # 1 /\ 1 \in DOMAIN stack /\ stack[1].root
  BY <1>2 DEF Course, Rooted
<1>4. RootFile(stack[1].file)
  BY <1>3 DEF Contact, Sent
<1>5. stack[1].file = Top.file
  BY <1>1, <1>4 DEF RootFile
<1>6. stack[1].phase = "walking" /\ Placed(stack[1], parsed)
  <2>1. OnPath(stack, 1, files) /\ Placed(stack[1], parsed) /\ stack[1] \in Frame
    BY <1>2, <1>3 DEF Inv, Stacked
  <2> QED
    BY <1>3, <2>1 DEF OnPath, Frame
<1> QED
  BY <1>5, <1>6 DEF Placed, Documented

LEMMA TallyVisitUnparsed ==
  ASSUME Inv, Contact, Course, Tally, NEW result \in ParseResults, VisitUnparsed(result)
  PROVE  Tally'
<1> DEFINE document == result.document
           f == Top.file
<1>1. /\ [Next]_vars /\ Arriving /\ Running /\ Contained
      /\ f \notin DOMAIN parsed /\ DOMAIN parsed' = DOMAIN parsed \cup {f}
      /\ nodes'[f].status = result.status /\ parsed'[f] = document
      /\ partial' <=> partial \/ Setback(result, Top.requested)
      /\ UNCHANGED <<edges, status>>
  BY VisitUnparsedEffect DEF Next, Step, VisitUnparsed, Active, Arriving, Course
<1>2. FailedIn(f, parsed', nodes') <=> ~Usable(result)
  BY <1>1 DEF FailedIn, Usable
<1>3. document # NONE => (LeftOut(f, files', parsed') <=>
                            Admitted(document) < Len(document.embedded))
  BY <1>1, VisitHolds DEF LeftOut, Documented
<1>4. document = NONE => ~LeftOut(f, files', parsed') /\ ~RootUnheard(f, parsed')
  BY <1>1 DEF LeftOut, RootUnheard, Documented
<1>5. Running' /\ partial' => Loose'
  <2> SUFFICES ASSUME partial' PROVE Loose'
    OBVIOUS
  <2>1. CASE partial
    BY <1>1, <2>1, LooseStays DEF Tally
  <2>2. CASE ~Usable(result)
    BY <1>2, <2>2 DEF Loose
  <2>3. CASE document # NONE /\ Admitted(document) < Len(document.embedded)
    BY <1>3, <2>3 DEF Loose
  <2>4. CASE document # NONE /\ RequestFails(document, Top.requested)
    <3>1. Documented(parsed', f) /\ RequestFails(parsed'[f], Top.requested)
      BY <1>1, <2>4 DEF Documented
    <3> HIDE DEF f
    <3>2. \/ \E g : RootFile(g) /\ RootUnheard(g, parsed')
          \/ \E i \in DOMAIN edges : Traversed(edges[i]) /\ Unheard(edges[i], parsed')
      BY <1>1, <3>1, RequestIsSomeones DEF f
    <3> QED
      BY <1>1, <3>2 DEF Loose
  <2> QED
    BY <1>1, <2>1, <2>2, <2>3, <2>4 DEF Setback
<1>6. ASSUME NEW g, FailedIn(g, parsed', nodes') PROVE partial'
  <2>1. CASE g \in DOMAIN parsed
    BY <1>1, <1>6, <2>1, KnownStays DEF Tally
  <2>2. CASE g = f
    BY <1>1, <1>2, <1>6, <2>2 DEF Setback
  <2> QED
    BY <1>1, <1>6, <2>1, <2>2 DEF FailedIn
<1>7. ASSUME NEW g, LeftOut(g, files', parsed') PROVE partial'
  <2>1. CASE g \in DOMAIN parsed
    BY <1>1, <1>7, <2>1, KnownStays DEF Tally
  <2>2. CASE g = f
    BY <1>1, <1>3, <1>4, <1>7, <2>2 DEF Setback
  <2> QED
    BY <1>1, <1>7, <2>1, <2>2 DEF LeftOut, Documented
<1>8. ASSUME NEW g, RootFile(g), RootUnheard(g, parsed') PROVE partial'
  <2>1. CASE g \in DOMAIN parsed
    BY <1>1, <1>8, <2>1, KnownStays DEF Tally
  <2>2. CASE g = f
    <3>1. document # NONE /\ RequestFails(document, RootConfiguration)
      BY <1>1, <1>8, <2>2 DEF RootUnheard, Documented
    <3>2. Top.root
      BY <1>1, <1>8, <2>2, <3>1, RootCameFirst DEF RequestFails
    <3>3. Top.requested = RootConfiguration
      BY <1>1, <3>2 DEF Course, Asked
    <3> QED
      BY <1>1, <3>1, <3>3 DEF Setback
  <2> QED
    BY <1>1, <1>8, <2>1, <2>2 DEF RootUnheard, Documented
<1>9. ASSUME NEW i \in DOMAIN edges', Traversed(edges'[i])
      PROVE  Answered(edges'[i], parsed', partial')
  <2>1. i \in DOMAIN edges /\ edges'[i] = edges[i] /\ Traversed(edges[i])
    BY <1>1, <1>9
  <2>2. CASE Pending(stack, edges[i])
    <3>1. f = edges[i].target /\ Top.requested = edges[i].requested
      BY <2>2 DEF Pending, Top
    <3> QED
      BY <1>1, <2>1, <3>1 DEF Answered, Unheard, Documented, Setback
  <2>3. CASE Answered(edges[i], parsed, partial)
    <3>1. edges[i].target \in DOMAIN parsed
      BY <2>3 DEF Answered
    <3>2. Unheard(edges[i], parsed') <=> Unheard(edges[i], parsed)
      BY <1>1, <3>1, KnownStays
    <3> QED
      BY <1>1, <2>1, <2>3, <3>1, <3>2 DEF Answered
  <2> QED
    BY <2>1, <2>2, <2>3 DEF Tally
<1>10. IndexPartial => partial'
  BY <1>1 DEF Tally
<1> QED
  BY <1>5, <1>6, <1>7, <1>8, <1>9, <1>10 DEF Tally

LEMMA TallyStep == Inv /\ Contact /\ Course /\ Tally /\ [Next]_vars => Tally'
<1> SUFFICES ASSUME Inv, Contact, Course, Tally, [Next]_vars PROVE Tally'
  OBVIOUS
<1>1. CASE \E result \in ParseResults : VisitUnparsed(result)
  BY <1>1, TallyVisitUnparsed
<1>2. CASE VisitParsed
  BY <1>2, TallyVisitParsed
<1>3. CASE ProcessReference
  BY <1>3, TallyProcess
<1>4. CASE Quiet \/ VisitRoot \/ Finish
  <2>1. /\ Running /\ ~Arriving /\ edges' = edges /\ parsed' = parsed
        /\ Running' => partial' = partial
    BY <1>4, QuietGoesOnward DEF VisitRoot, Finish, Arriving, Running
  <2>2. partial => partial'
    BY Stays
  <2>3. \A i \in DOMAIN edges' : Traversed(edges'[i]) => Answered(edges'[i], parsed, partial')
    BY <2>1, <2>2, AnsweredStays
  <2> QED
    BY <2>1, <2>3, TallyKept
<1>5. CASE Finished \/ UNCHANGED vars
  <2>1. UNCHANGED vars
    BY <1>5 DEF Finished
  <2> QED
    BY <2>1 DEF vars, Tally, Loose, Running
<1> QED
  BY <1>1, <1>2, <1>3, <1>4, <1>5 DEF Next, Step, Quiet

-----------------------------------------------------------------------------
(***************************************************************************)
(* The verdict.                                                            *)
(***************************************************************************)
LEMMA LooseEndIs ==
  ASSUME Inv
  PROVE  LooseEnd <=> Loose \/ \E i \in DOMAIN edges : KindMismatch(edges[i])
<1>1. (\E f \in DOMAIN parsed : Failed(f)) <=> \E f : FailedIn(f, parsed, nodes)
  BY DEF Failed, FailedIn
<1>2. RequestFailed <=> \/ \E f : RootFile(f) /\ RootUnheard(f, parsed)
                        \/ \E i \in DOMAIN edges :
                             Traversed(edges[i]) /\ Unheard(edges[i], parsed)
  BY DEF RequestFailed, RootFile, RootUnheard, Unheard, HasDocument, Documented
<1>3. EmbeddedLeftOut <=> \E f : LeftOut(f, files, parsed)
  BY DEF EmbeddedLeftOut, LeftOut, Held, HasDocument, Documented
<1>4. (\E i \in DOMAIN edges : edges[i].traversal \in {"unresolved", "depth_limited"})
        <=> \E i \in DOMAIN edges : Cut(edges[i])
  BY DEF Cut
<1> QED
  BY <1>1, <1>2, <1>3, <1>4 DEF LooseEnd, Loose

LEMMA RootFailedIs ==
  ASSUME Inv
  PROVE  RootFailed <=> RootLost
<1>1. DOMAIN edges = 1 .. Len(edges)
  BY DEF Inv, TypeOK
<1>2. \A f : Led(edges, Len(edges), f) <=>
             \E i \in DOMAIN edges : edges[i].traversal = "followed" /\ edges[i].target = f
  BY <1>1 DEF Led
<1>3. \A f : Failed(f) <=> FailedIn(f, parsed, nodes)
  BY DEF Failed, FailedIn
<1> QED
  BY <1>2, <1>3 DEF RootFailed, RootLost, RootFile

LEMMA RejectedIs ==
  ASSUME Account, Rejection, stack = <<>>
  PROVE  rejected <=> RootFailed \/ ~(Owed \subseteq Handled)
<1>1. Inv /\ Ledger
  BY DEF Account
<1>2. ASSUME Refused PROVE ~(Owed \subseteq Handled)
  <2>1. PICK f, c, i : Owes(parsed, nodes, f, c, i) /\ ~HasEdge(edges, f, c, i)
    BY <1>2 DEF Refused
  <2>2. <<f, c, i>> \in Owed /\ <<f, c, i>> \notin Handled
    BY <1>1, <2>1, OwedIs, HandledIs
  <2> QED
    BY <2>2
<1>3. ASSUME RootLost PROVE rejected
  BY <1>3 DEF RootLost, Rejection
<1>4. ASSUME ~(Owed \subseteq Handled) PROVE rejected
  <2> SUFFICES ASSUME ~rejected PROVE FALSE
    OBVIOUS
  <2> QED
    BY <1>1, <1>4, AllHandled
<1> QED
  BY <1>1, <1>2, <1>3, <1>4, RootFailedIs DEF Rejection

LEMMA VerdictOnFinish ==
  ASSUME Account, Rejection, Tally, Finish
  PROVE  VerdictIsWarranted'
<1>1. /\ Inv /\ Running /\ stack = <<>>
      /\ partial' = (partial \/ \E i \in DOMAIN edges : KindMismatch(edges[i]))
      /\ status' = IF rejected THEN "rejected" ELSE IF partial' THEN "partial" ELSE "complete"
      /\ UNCHANGED <<files, nodes, parsed, edges>>
  BY DEF Account, Finish
<1>2. partial <=> Loose
  <2>1. ASSUME NEW i \in DOMAIN edges, Traversed(edges[i]), Unheard(edges[i], parsed)
        PROVE  partial
    BY <1>1, <2>1 DEF Tally, Pending, Answered
  <2>2. ASSUME NEW i \in DOMAIN edges, Cut(edges[i]) PROVE partial
    BY <1>1, <2>2 DEF Inv, EdgeSettled, Cut
  <2> QED
    BY <1>1, <2>1, <2>2 DEF Tally, Loose
<1>3. partial' <=> LooseEnd
  BY <1>1, <1>2, LooseEndIs
<1>4. rejected <=> RootFailed \/ ~(Owed \subseteq Handled)
  BY <1>1, RejectedIs
<1>5. /\ RootFailed' <=> RootFailed
      /\ LooseEnd' <=> LooseEnd
      /\ Owed' = Owed /\ Handled' = Handled
  BY <1>1 DEF RootFailed, Failed, LooseEnd, RequestFailed, EmbeddedLeftOut, KindMismatch,
              HasDocument, Owed, OwedReferences, Handled
<1> QED
  BY <1>1, <1>3, <1>4, <1>5 DEF VerdictIsWarranted, Done

Warrant == Account /\ Rejection /\ Course /\ Tally /\ VerdictIsWarranted

LEMMA WarrantInit == Init => Warrant
<1> SUFFICES ASSUME Init PROVE Warrant
  OBVIOUS
<1>1. /\ DOMAIN edges = {} /\ DOMAIN parsed = {} /\ stack = <<>> /\ DOMAIN stack = {}
      /\ partial = IndexPartial /\ rejected = FALSE /\ status = "running"
      /\ files = [i \in HostFile |-> [container |-> 0, name |-> NONE]]
  BY DEF Init
<1>2. Rejection
  BY <1>1 DEF Rejection, FailedIn, RootAlone, Arriving
<1>3. Course
  BY <1>1 DEF Course, Asked, Arriving, Rooted, Contained
<1>4. Tally
  BY <1>1 DEF Tally, Loose, FailedIn, RootUnheard, LeftOut, Documented
<1>5. VerdictIsWarranted
  BY <1>1 DEF VerdictIsWarranted, Done
<1> QED
  BY <1>2, <1>3, <1>4, <1>5, AccountInvariant DEF Warrant

LEMMA WarrantStep == Warrant /\ [Next]_vars => Warrant'
<1> SUFFICES ASSUME Warrant, [Next]_vars PROVE Warrant'
  OBVIOUS
<1>1. /\ Account /\ Inv /\ Contact /\ Rejection /\ Course /\ Tally /\ VerdictIsWarranted
  BY DEF Warrant, Account
<1>2. Account' /\ Rejection' /\ Course' /\ Tally'
  BY <1>1, AccountStep, RejectionStep, CourseStep, TallyStep
<1>3. VerdictIsWarranted'
  <2>1. CASE Finish
    BY <1>1, <2>1, VerdictOnFinish
  <2>2. CASE Finished \/ UNCHANGED vars
    <3>1. UNCHANGED <<files, nodes, parsed, edges, status>>
      BY <2>2 DEF Finished, vars
    <3>2. /\ RootFailed' <=> RootFailed
          /\ LooseEnd' <=> LooseEnd
          /\ Owed' = Owed /\ Handled' = Handled
      BY <3>1 DEF RootFailed, Failed, LooseEnd, RequestFailed, EmbeddedLeftOut, KindMismatch,
                  HasDocument, Owed, OwedReferences, Handled
    <3> QED
      BY <1>1, <3>1, <3>2 DEF VerdictIsWarranted, Done
  <2>3. CASE Step /\ ~Finish
    <3>1. status' = "running"
      BY <2>3 DEF Step, VisitRoot, VisitParsed, VisitUnparsed, ProcessReference,
                  SkipComponentReference, RefuseReference, NextConfiguration, Return,
                  AtReference, Active, Running
    <3> QED
      BY <3>1 DEF VerdictIsWarranted, Done
  <2> QED
    BY <2>1, <2>2, <2>3 DEF Next
<1> QED
  BY <1>2, <1>3 DEF Warrant

\* The status finish reports is the one that the returned graph warrants: it is
\* "rejected" only for a root that could not be used or a reference refused,
\* "partial" only for a loose end the graph shows, and for each of them.
THEOREM VerdictFitsTheGraph == Spec => []VerdictIsWarranted
<1>1. Warrant => VerdictIsWarranted
  BY DEF Warrant
<1> QED
  BY <1>1, WarrantInit, WarrantStep, PTL DEF Spec
==============================================================================
