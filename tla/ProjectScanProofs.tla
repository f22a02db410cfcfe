-------------------------- MODULE ProjectScanProofs --------------------------
(***************************************************************************)
(* Theorems about the project scanner, for every project, every option and *)
(* every limit, in three parts.  First the inductive invariant: the types, *)
(* the discipline of the recursion stack, and what the edges recorded so   *)
(* far say about the documents they lead to.  Then that no reference is    *)
(* processed twice.  Then how a document is met for the first time: as a   *)
(* root or over one "followed" edge, which every "reused" edge comes after.*)
(***************************************************************************)
EXTENDS ProjectScanProperties, FiniteSetTheorems, SequenceTheorems, TLAPS

Documented(p, f) == f \in DOMAIN p /\ p[f] # NONE

\* A walking frame stands somewhere in its own document.
Placed(frame, p) ==
  /\ frame.phase = "called" => frame.config = 0
  /\ frame.phase = "walking" =>
       /\ Documented(p, frame.file)
       /\ frame.config \in 0 .. Len(p[frame.file].configurations)
       /\ frame.pending \subseteq 1 .. Len(p[frame.file].configurations)

\* Frame i of a stack stands on the path above it: the path is one of distinct
\* documents, which the frame knows, and only the innermost may just be called.
OnPath(s, i, fs) ==
  /\ s[i].file \in 1 .. Len(fs)
  /\ s[i].depth = i - 1
  /\ s[i].next # 0
  /\ s[i].phase = "called" => i = Len(s)
  /\ \A j \in 1 .. i : s[j].file \in s[i].ancestors
  /\ \A a \in s[i].ancestors : \E j \in 1 .. i : s[j].file = a
  /\ \A j \in 1 .. i - 1 : s[j].file # s[i].file

\* The recursion is one bounded path.
Stacked(s, fs, p) ==
  /\ s \in Seq(Frame)
  /\ Len(s) <= MaxReferenceDepth + 1
  /\ \A i \in 1 .. Len(s) : OnPath(s, i, fs) /\ Placed(s[i], p)

-----------------------------------------------------------------------------
(***************************************************************************)
(* The stack operations keep the discipline.                               *)
(***************************************************************************)
\* The index and the parsed documents may grow under a stack.
LEMMA StackUnderGrowth ==
  ASSUME NEW s, NEW fs, NEW gs, NEW p, NEW q,
         Stacked(s, fs, p), Len(fs) \in Nat, Len(gs) \in Nat, Len(fs) <= Len(gs),
         \A f \in DOMAIN p : f \in DOMAIN q /\ q[f] = p[f]
  PROVE  Stacked(s, gs, q)
<1>1. ASSUME NEW frame, Placed(frame, p) PROVE Placed(frame, q)
  BY <1>1 DEF Placed, Documented
<1>2. ASSUME NEW i, OnPath(s, i, fs) PROVE OnPath(s, i, gs)
  BY <1>2 DEF OnPath
<1> QED
  BY <1>1, <1>2 DEF Stacked

\* A place on the path depends on the files above it and on its own frame.
LEMMA SamePath ==
  ASSUME NEW s, NEW t, NEW fs, NEW i \in Nat, OnPath(s, i, fs),
         \A j \in 1 .. i : t[j].file = s[j].file, i # 0,
         t[i].depth = s[i].depth, t[i].ancestors = s[i].ancestors,
         t[i].next # 0, t[i].phase = "called" => i = Len(t)
  PROVE  OnPath(t, i, fs)
<1>1. t[i].file = s[i].file /\ t[i].file \in 1 .. Len(fs) /\ t[i].depth = i - 1
  BY DEF OnPath
<1>2. \A j \in 1 .. i : t[j].file \in t[i].ancestors
  BY DEF OnPath
<1>3. \A a \in t[i].ancestors : \E j \in 1 .. i : t[j].file = a
  BY DEF OnPath
<1>4. ASSUME NEW j \in 1 .. i - 1 PROVE t[j].file # t[i].file
  <2>1. j \in 1 .. i
    OBVIOUS
  <2> QED
    BY <1>1, <2>1 DEF OnPath
<1> QED
  BY <1>1, <1>2, <1>3, <1>4 DEF OnPath

\* Returning from a visit.
LEMMA StackPop ==
  ASSUME NEW s, NEW fs, NEW p, Stacked(s, fs, p), s # <<>>
  PROVE  Stacked([i \in 1 .. Len(s) - 1 |-> s[i]], fs, p)
<1> DEFINE t == [i \in 1 .. Len(s) - 1 |-> s[i]]
<1>1. s \in Seq(Frame) /\ Len(s) \in Nat /\ Len(s) > 0
  BY DEF Stacked
<1>2. t \in Seq(Frame) /\ Len(t) = Len(s) - 1 /\ \A i \in 1 .. Len(t) : t[i] = s[i]
  BY <1>1
<1> HIDE DEF t
<1>3. ASSUME NEW i \in 1 .. Len(t)
      PROVE  OnPath(t, i, fs) /\ Placed(t[i], p)
  <2>1. i \in 1 .. Len(s) /\ i # Len(s) /\ t[i] = s[i]
    BY <1>1, <1>2
  <2>2. OnPath(s, i, fs) /\ Placed(s[i], p)
    BY <2>1 DEF Stacked
  <2>3. \A j \in 1 .. i : t[j] = s[j]
    BY <1>1, <1>2
  <2>4. t[i].next # 0 /\ (t[i].phase = "called" => i = Len(t))
    BY <1>1, <2>1, <2>2 DEF OnPath
  <2>5. OnPath(t, i, fs)
    BY <1>1, <2>1, <2>2, <2>3, <2>4, SamePath
  <2> QED
    BY <2>1, <2>2, <2>5
<1>4. Len(t) <= MaxReferenceDepth + 1
  BY <1>1, <1>2, LimitAssumption DEF Stacked
<1>5. Stacked(t, fs, p)
  BY <1>2, <1>3, <1>4 DEF Stacked
<1> QED
  BY <1>5 DEF t

\* Moving the innermost frame within its own document.
LEMMA StackReplace ==
  ASSUME NEW s, NEW fs, NEW p, Stacked(s, fs, p), s # <<>>,
         NEW frame \in Frame,
         frame.file = s[Len(s)].file, frame.depth = s[Len(s)].depth,
         frame.ancestors = s[Len(s)].ancestors,
         frame.phase = "walking", frame.next # 0, Placed(frame, p)
  PROVE  Stacked([s EXCEPT ![Len(s)] = frame], fs, p)
<1> DEFINE t == [s EXCEPT ![Len(s)] = frame]
<1>1. s \in Seq(Frame) /\ Len(s) \in Nat /\ Len(s) > 0
  BY DEF Stacked
<1>2. /\ t \in Seq(Frame) /\ Len(t) = Len(s)
      /\ \A i \in 1 .. Len(s) : t[i] = IF i = Len(s) THEN frame ELSE s[i]
  BY <1>1, ExceptSeq
<1> HIDE DEF t
<1>3. \A i \in 1 .. Len(s) : /\ t[i].file = s[i].file /\ t[i].depth = s[i].depth
                             /\ t[i].ancestors = s[i].ancestors
  BY <1>1, <1>2
<1>4. ASSUME NEW i \in 1 .. Len(s)
      PROVE  OnPath(t, i, fs) /\ Placed(t[i], p)
  <2>1. OnPath(s, i, fs) /\ Placed(s[i], p)
    BY DEF Stacked
  <2>2. \A j \in 1 .. i : t[j].file = s[j].file
    BY <1>1, <1>3
  <2>3. t[i].next # 0 /\ (t[i].phase = "called" => i = Len(t)) /\ Placed(t[i], p)
    BY <1>1, <1>2, <2>1 DEF OnPath
  <2>4. OnPath(t, i, fs)
    BY <1>1, <1>3, <2>1, <2>2, <2>3, SamePath
  <2> QED
    BY <2>3, <2>4
<1>5. Stacked(t, fs, p)
  BY <1>2, <1>4 DEF Stacked
<1> QED
  BY <1>5 DEF t

\* Visiting a document that is not on the path yet.
LEMMA StackPush ==
  ASSUME NEW s, NEW fs, NEW p, Stacked(s, fs, p), s # <<>>,
         s[Len(s)].phase = "walking", s[Len(s)].depth < MaxReferenceDepth,
         NEW frame \in Frame, frame.file \in 1 .. Len(fs),
         frame.file \notin s[Len(s)].ancestors,
         frame.depth = s[Len(s)].depth + 1, frame.phase = "called", frame.next = 1,
         frame.config = 0,
         frame.ancestors = s[Len(s)].ancestors \cup {frame.file}
  PROVE  Stacked(Append(s, frame), fs, p)
<1> DEFINE t == Append(s, frame)
<1>1. s \in Seq(Frame) /\ Len(s) \in Nat /\ Len(s) > 0
  BY DEF Stacked
<1>2. OnPath(s, Len(s), fs)
  BY <1>1 DEF Stacked
<1>3. frame.depth = Len(s) /\ Len(s) <= MaxReferenceDepth
  BY <1>1, <1>2, LimitAssumption DEF OnPath
<1>4. /\ t \in Seq(Frame) /\ Len(t) = Len(s) + 1
      /\ \A i \in 1 .. Len(s) : t[i] = s[i]
      /\ t[Len(s) + 1] = frame
  BY <1>1, AppendProperties
<1> HIDE DEF t
<1>5. ASSUME NEW i \in 1 .. Len(s)
      PROVE  OnPath(t, i, fs) /\ Placed(t[i], p)
  <2>1. OnPath(s, i, fs) /\ Placed(s[i], p)
    BY DEF Stacked
  <2>2. s[i].phase # "called"
    BY <1>1, <2>1 DEF OnPath
  <2>3. t[i] = s[i] /\ \A j \in 1 .. i : t[j] = s[j]
    BY <1>1, <1>4
  <2>4. OnPath(t, i, fs)
    <3>1. t[i].next # 0
      BY <2>1, <2>3 DEF OnPath
    <3> QED
      BY <1>1, <2>1, <2>2, <2>3, <3>1, SamePath
  <2> QED
    BY <2>1, <2>3, <2>4
<1>6. OnPath(t, Len(t), fs)
  <2>1. \A j \in 1 .. Len(s) : s[j].file \in s[Len(s)].ancestors
    BY <1>1, <1>2 DEF OnPath
  <2>2. \A a \in s[Len(s)].ancestors : \E j \in 1 .. Len(s) : s[j].file = a
    BY <1>1, <1>2 DEF OnPath
  <2>3. \A j \in 1 .. Len(t) : t[j] = frame \/ (j \in 1 .. Len(s) /\ t[j] = s[j])
    BY <1>1, <1>4
  <2>4. \A j \in 1 .. Len(t) : t[j].file \in frame.ancestors
    BY <2>1, <2>3
  <2>5. \A a \in frame.ancestors : \E j \in 1 .. Len(t) : t[j].file = a
    BY <1>1, <1>4, <2>2
  <2>6. \A j \in 1 .. Len(t) - 1 : t[j].file # frame.file
    BY <1>1, <1>4, <2>1
  <2> QED
    BY <1>1, <1>3, <1>4, <2>4, <2>5, <2>6 DEF OnPath
<1>7. Placed(t[Len(t)], p)
  BY <1>1, <1>4 DEF Placed
<1>8. Stacked(t, fs, p)
  BY <1>1, <1>3, <1>4, <1>5, <1>6, <1>7, LimitAssumption DEF Stacked
<1> QED
  BY <1>8 DEF t

\* Visiting a root: the path starts anew.
LEMMA StackRoot ==
  ASSUME NEW fs, NEW p, NEW frame \in Frame, frame.file \in 1 .. Len(fs),
         frame.depth = 0, frame.phase = "called", frame.next = 1, frame.config = 0,
         frame.ancestors = {frame.file}
  PROVE  Stacked(<<frame>>, fs, p)
<1>1. /\ <<frame>> \in Seq(Frame) /\ Len(<<frame>>) = 1 /\ <<frame>>[1] = frame
  OBVIOUS
<1>2. OnPath(<<frame>>, 1, fs) /\ Placed(<<frame>>[1], p)
  BY <1>1 DEF OnPath, Placed
<1> QED
  BY <1>1, <1>2, LimitAssumption DEF Stacked

-----------------------------------------------------------------------------
(***************************************************************************)
(* What the operations on maps and nodes return.                           *)
(***************************************************************************)
NodesOK(ns) == \A f \in DOMAIN ns : ns[f] \in Node

\* A later map of nodes: none is lost, moved deeper or selects less.
Later(ns, ms) ==
  \A f \in DOMAIN ns :
    /\ f \in DOMAIN ms
    /\ ms[f].depth <= ns[f].depth
    /\ ns[f].selected \subseteq ms[f].selected

LEMMA LaterTransitive ==
  ASSUME NEW ns, NEW ms, NEW ls, NodesOK(ns), NodesOK(ms), NodesOK(ls),
         Later(ns, ms), Later(ms, ls)
  PROVE  Later(ns, ls)
<1> SUFFICES ASSUME NEW f \in DOMAIN ns
             PROVE  /\ f \in DOMAIN ls
                    /\ ls[f].depth <= ns[f].depth
                    /\ ns[f].selected \subseteq ls[f].selected
  BY DEF Later
<1>1. f \in DOMAIN ms /\ ms[f].depth <= ns[f].depth /\ ns[f].selected \subseteq ms[f].selected
  BY DEF Later
<1>2. f \in DOMAIN ls /\ ls[f].depth <= ms[f].depth /\ ms[f].selected \subseteq ls[f].selected
  BY <1>1 DEF Later
<1>3. ns[f].depth \in Nat /\ ms[f].depth \in Nat /\ ls[f].depth \in Nat
  BY <1>1, <1>2 DEF NodesOK, Node
<1> QED
  BY <1>1, <1>2, <1>3

\* Meeting a file gives it a node and changes no parse status.
Met(ns, file, ls) ==
  /\ DOMAIN ls = DOMAIN ns \cup {file}
  /\ NodesOK(ls)
  /\ Later(ns, ls)
  /\ \A f \in DOMAIN ns : ls[f].status = ns[f].status
  /\ file \notin DOMAIN ns => ls[file].status = NONE

LEMMA EnsureNodeFacts ==
  ASSUME NEW ns, NodesOK(ns), NEW file, NEW depth \in Nat, NEW isRoot \in BOOLEAN
  PROVE  Met(ns, file, EnsureNode(ns, file, depth, isRoot))
<1> DEFINE node == IF file \in DOMAIN ns
                   THEN [ns[file] EXCEPT !.depth = IF depth < @ THEN depth ELSE @,
                                         !.root = @ \/ isRoot]
                   ELSE FreshNode(depth, isRoot)
           ms == Put(ns, file, node)
<1>1. /\ DOMAIN ms = DOMAIN ns \cup {file} /\ ms[file] = node
      /\ \A f \in DOMAIN ns : f # file => ms[f] = ns[f]
  <2> HIDE DEF node
  <2> QED
    BY DEF Put
<1>2. CASE file \in DOMAIN ns
  <2>1. ns[file] \in Node
    BY <1>2 DEF NodesOK
  <2>2. /\ node \in Node /\ node.status = ns[file].status
        /\ node.depth <= ns[file].depth /\ node.selected = ns[file].selected
    <3> DEFINE nearer == IF depth < ns[file].depth THEN depth ELSE ns[file].depth
    <3>1. nearer \in Nat /\ nearer <= ns[file].depth
      BY <2>1 DEF Node
    <3>2. (ns[file].root \/ isRoot) \in BOOLEAN
      BY <2>1 DEF Node
    <3>3. node = [ns[file] EXCEPT !.depth = nearer, !.root = ns[file].root \/ isRoot]
      BY <1>2
    <3> HIDE DEF nearer, node
    <3> QED
      BY <2>1, <3>1, <3>2, <3>3 DEF Node
  <2>3. \A f \in DOMAIN ns : ns[f].depth \in Nat
    BY DEF NodesOK, Node
  <2> HIDE DEF node, ms
  <2>4. NodesOK(ms) /\ Later(ns, ms) /\ \A f \in DOMAIN ns : ms[f].status = ns[f].status
    BY <1>1, <2>2, <2>3 DEF NodesOK, Later
  <2> QED
    BY <1>1, <1>2, <2>4 DEF EnsureNode, ms, node, Met
<1>3. CASE file \notin DOMAIN ns
  <2>1. node \in Node /\ node.status = NONE
    BY <1>3 DEF FreshNode, Node
  <2>2. \A f \in DOMAIN ns : ns[f].depth \in Nat
    BY DEF NodesOK, Node
  <2> HIDE DEF node, ms
  <2>3. NodesOK(ms) /\ Later(ns, ms) /\ \A f \in DOMAIN ns : ms[f].status = ns[f].status
    BY <1>1, <1>3, <2>1, <2>2 DEF NodesOK, Later
  <2> QED
    BY <1>1, <2>1, <2>3 DEF EnsureNode, ms, node, Met
<1> QED
  BY <1>2, <1>3

\* Recording a request, a selection or a parse touches one node only.
LEMMA RecordRequestFacts ==
  ASSUME NEW ns, NodesOK(ns), NEW file, NEW name \in Names \cup {NONE}
  PROVE  /\ DOMAIN RecordRequest(ns, file, name) = DOMAIN ns
         /\ NodesOK(RecordRequest(ns, file, name))
         /\ Later(ns, RecordRequest(ns, file, name))
         /\ \A f \in DOMAIN ns : RecordRequest(ns, file, name)[f].status = ns[f].status
<1>1. \A f \in DOMAIN ns : ns[f].depth \in Nat
  BY DEF NodesOK, Node
<1>2. CASE name = NONE
  BY <1>1, <1>2 DEF RecordRequest, Later
<1>3. CASE name # NONE
  <2> DEFINE ms == [ns EXCEPT ![file].requested = @ \cup {name}]
  <2>1. /\ DOMAIN ms = DOMAIN ns
        /\ \A f \in DOMAIN ns :
             ms[f] = IF f = file THEN [ns[f] EXCEPT !.requested = @ \cup {name}] ELSE ns[f]
    OBVIOUS
  <2>2. ASSUME NEW f \in DOMAIN ns
        PROVE  /\ ms[f] \in Node /\ ms[f].status = ns[f].status
               /\ ms[f].depth = ns[f].depth /\ ms[f].selected = ns[f].selected
    <3>1. ns[f] \in Node
      BY DEF NodesOK
    <3> QED
      BY <1>3, <2>1, <3>1 DEF Node
  <2> HIDE DEF ms
  <2>3. NodesOK(ms) /\ Later(ns, ms)
    BY <1>1, <2>1, <2>2 DEF NodesOK, Later
  <2> QED
    BY <1>3, <2>1, <2>2, <2>3 DEF RecordRequest, ms
<1> QED
  BY <1>2, <1>3

LEMMA RecordSelectedFacts ==
  ASSUME NEW ns, NodesOK(ns), NEW file, NEW indices \in SUBSET Nat
  PROVE  /\ DOMAIN RecordSelected(ns, file, indices) = DOMAIN ns
         /\ NodesOK(RecordSelected(ns, file, indices))
         /\ Later(ns, RecordSelected(ns, file, indices))
         /\ \A f \in DOMAIN ns : RecordSelected(ns, file, indices)[f].status = ns[f].status
<1> DEFINE ms == [ns EXCEPT ![file].selected = @ \cup indices]
<1>1. \A f \in DOMAIN ns : ns[f].depth \in Nat
  BY DEF NodesOK, Node
<1>2. /\ DOMAIN ms = DOMAIN ns
      /\ \A f \in DOMAIN ns :
           ms[f] = IF f = file THEN [ns[f] EXCEPT !.selected = @ \cup indices] ELSE ns[f]
  OBVIOUS
<1>3. ASSUME NEW f \in DOMAIN ns
      PROVE  /\ ms[f] \in Node /\ ms[f].status = ns[f].status
             /\ ms[f].depth = ns[f].depth /\ ns[f].selected \subseteq ms[f].selected
  <2>1. ns[f] \in Node
    BY DEF NodesOK
  <2> QED
    BY <1>2, <2>1 DEF Node
<1> HIDE DEF ms
<1>4. NodesOK(ms) /\ Later(ns, ms)
  BY <1>1, <1>2, <1>3 DEF NodesOK, Later
<1> QED
  BY <1>2, <1>3, <1>4 DEF RecordSelected, ms

ParsedAs(ns, file, parseStatus, ls) ==
  /\ DOMAIN ls = DOMAIN ns
  /\ NodesOK(ls)
  /\ Later(ns, ls)
  /\ ls[file].status = parseStatus
  /\ \A f \in DOMAIN ns : f # file => ls[f].status = ns[f].status

LEMMA RecordParseFacts ==
  ASSUME NEW ns, NodesOK(ns), NEW file \in DOMAIN ns, NEW result \in ParseResult
  PROVE  ParsedAs(ns, file, result.status, RecordParse(ns, file, result))
<1> DEFINE ms == RecordParse(ns, file, result)
<1>1. \A f \in DOMAIN ns : ns[f] \in Node /\ ns[f].depth \in Nat
  BY DEF NodesOK, Node
<1>2. DOMAIN ms = DOMAIN ns /\ \A f \in DOMAIN ns : f # file => ms[f] = ns[f]
  BY DEF RecordParse
<1>3. /\ ms[file] \in Node /\ ms[file].status = result.status
      /\ ms[file].depth = ns[file].depth /\ ms[file].selected = ns[file].selected
  <2>1. result.status \in ParseStatus
    BY DEF ParseResult
  <2>2. CASE result.document = NONE
    BY <1>1, <2>1, <2>2 DEF RecordParse, Node
  <2>3. CASE result.document # NONE
    <3>1. result.document \in Document
      BY <2>3 DEF ParseResult
    <3>2. Identities(result.document) \in Seq(Names \cup {NONE})
      <4>1. result.document.configurations \in Seq(Configuration)
        BY <3>1 DEF Document
      <4>2. \A c \in 1 .. Len(result.document.configurations) :
              result.document.configurations[c].name \in Names \cup {NONE}
        <5>1. \A c \in 1 .. Len(result.document.configurations) :
                result.document.configurations[c] \in Configuration
          BY <4>1, ElementOfSeq
        <5> QED
          BY <5>1 DEF Configuration
      <4> QED
        BY <4>1, <4>2 DEF Identities
    <3>3. result.document.kind \in DocumentKind
      BY <3>1 DEF Document
    <3>4. ms[file] = [ns[file] EXCEPT !.status = result.status,
                                      !.kind = result.document.kind,
                                      !.configurations = Identities(result.document)]
      BY <2>3 DEF RecordParse
    <3> QED
      BY <1>1, <2>1, <3>2, <3>3, <3>4 DEF Node
  <2> QED
    BY <2>2, <2>3
<1> HIDE DEF ms
<1>4. NodesOK(ms) /\ Later(ns, ms)
  BY <1>1, <1>2, <1>3 DEF NodesOK, Later
<1>5. ParsedAs(ns, file, result.status, ms)
  BY <1>2, <1>3, <1>4 DEF ParsedAs
<1> QED
  BY <1>5 DEF ms

-----------------------------------------------------------------------------
(***************************************************************************)
(* The inductive invariant.                                                *)
(***************************************************************************)
Awaited(s, f) == s # <<>> /\ s[Len(s)].phase = "called" /\ s[Len(s)].file = f

\* An edge that leaves something open has made the scan partial, and one that
\* was traversed leads to a parsed document or to the one about to be parsed.
EdgeSettled(e, p, incomplete, s) ==
  /\ e.resolution # "resolved" => incomplete
  /\ e.traversal \in {"unresolved", "depth_limited"} => incomplete
  /\ e.traversal \in {"followed", "reused", "cycle"} => e.target \in DOMAIN p \/ Awaited(s, e.target)

\* The parsed files are those whose node has a parse status, and a bad one has
\* made the scan partial.
NodesSettled(ns, p, incomplete) ==
  /\ \A f \in DOMAIN ns : f \in DOMAIN p <=> ns[f].status # NONE
  /\ \A f \in DOMAIN p : ns[f].status \notin {"parsed", "partial"} => incomplete

Inv ==
  /\ TypeOK
  /\ IndexedFiles <= Len(files)
  /\ Stacked(stack, files, parsed)
  /\ NodesSettled(nodes, parsed, partial)
  /\ \A i \in DOMAIN edges : EdgeSettled(edges[i], parsed, partial, stack)
  /\ status = "complete" => ~partial /\ stack = <<>>

\* The innermost frame and the references it walks.
LEMMA TopFacts ==
  ASSUME Inv, stack # <<>>
  PROVE  /\ stack \in Seq(Frame) /\ Len(stack) \in Nat \ {0}
         /\ Top \in Frame /\ Top.file \in 1 .. Len(files) /\ Top.next # 0
         /\ Top.depth = Len(stack) - 1
         /\ Placed(Top, parsed)
<1>1. stack \in Seq(Frame) /\ Len(stack) \in Nat \ {0}
  BY DEF Inv, Stacked
<1>2. OnPath(stack, Len(stack), files) /\ Placed(stack[Len(stack)], parsed)
  BY <1>1 DEF Inv, Stacked
<1> QED
  BY <1>1, <1>2 DEF OnPath, Top

\* Components are references like others.
LEMMA ComponentsAreSeeds == Seq(Component) \subseteq Seq(Seed)
<1> SUFFICES ASSUME NEW s \in Seq(Component) PROVE s \in Seq(Seed)
  OBVIOUS
<1>1. Len(s) \in Nat /\ s \in [1 .. Len(s) -> Component]
  OBVIOUS
<1>2. s \in [1 .. Len(s) -> Seed]
  BY <1>1 DEF Component
<1> QED
  BY <1>1, <1>2

LEMMA WalkingFacts ==
  ASSUME Inv, stack # <<>>, Top.phase = "walking"
  PROVE  /\ Top.file \in DOMAIN parsed /\ parsed[Top.file] # NONE
         /\ parsed[Top.file] \in Document
         /\ References(Top) \in Seq(Seed)
<1>1. Top.file \in DOMAIN parsed /\ parsed[Top.file] # NONE
      /\ Top.config \in 0 .. Len(parsed[Top.file].configurations)
  BY TopFacts DEF Placed, Documented
<1>2. parsed[Top.file] \in Document
  BY <1>1 DEF Inv, TypeOK
<1>3. /\ parsed[Top.file].references \in Seq(Seed)
      /\ parsed[Top.file].configurations \in Seq(Configuration)
  BY <1>2 DEF Document
<1>4. CASE Top.config = 0
  BY <1>1, <1>2, <1>3, <1>4 DEF References
<1>5. CASE Top.config # 0
  <2>1. Top.config \in 1 .. Len(parsed[Top.file].configurations)
    BY <1>1, <1>3, <1>5
  <2>2. parsed[Top.file].configurations[Top.config] \in Configuration
    BY <1>3, <2>1, ElementOfSeq
  <2>3. parsed[Top.file].configurations[Top.config].components \in Seq(Seed)
    BY <2>2, ComponentsAreSeeds DEF Configuration
  <2> QED
    BY <1>1, <1>2, <1>5, <2>3 DEF References
<1> QED
  BY <1>4, <1>5

LEMMA CurrentFacts ==
  ASSUME Inv, stack # <<>>, Top.phase = "walking", ~Exhausted
  PROVE  Current \in Seed
<1>1. References(Top) \in Seq(Seed)
  BY WalkingFacts
<1>2. Top.next \in 1 .. Len(References(Top))
  <2>1. Top.next \in Nat /\ Top.next # 0
    BY TopFacts DEF Frame
  <2> QED
    BY <1>1, <2>1 DEF Exhausted
<1> QED
  BY <1>1, <1>2, ElementOfSeq DEF Current

\* Resolution answers one of its four verdicts, and only "resolved" comes with
\* a target, which the index holds.
LEMMA ResolutionFacts ==
  ASSUME Inv, NEW source, NEW seed \in Seed
  PROVE  /\ Resolution(source, seed) \in {"resolved", "missing", "ambiguous", "no_stored_path"}
         /\ Resolution(source, seed) # "resolved" => Target(source, seed) = NONE
         /\ Target(source, seed) # NONE => Target(source, seed) \in 1 .. Len(files)
<1> DEFINE found == Candidates(source, seed)
<1>1. Len(files) \in Nat /\ IndexedFiles \in Nat /\ IndexedFiles <= Len(files)
  BY LimitAssumption DEF Inv, TypeOK
<1>2. found \subseteq 1 .. Len(files)
  <2>1. seed.candidates \subseteq 1 .. IndexedFiles
    BY DEF Seed, HostFile
  <2> QED
    BY <1>1, <2>1 DEF Candidates, EmbeddedCandidates
<1>3. IsFiniteSet(found)
  <2>1. IsFiniteSet(1 .. Len(files))
    BY <1>1, FS_Interval
  <2> HIDE DEF found
  <2> QED
    BY <1>2, <2>1, FS_Subset
<1>4. Cardinality(found) \in Nat /\ (Cardinality(found) = 0 <=> found = {})
  BY <1>3, FS_CardinalityType, FS_EmptySet
<1>5. \/ Cardinality(found) = 1 /\ found # {}
      \/ Cardinality(found) > 1 /\ Cardinality(found) # 1 /\ found # {}
      \/ found = {} /\ Cardinality(found) = 0
  BY <1>4
<1> HIDE DEF found
<1>6. Resolution(source, seed) \in {"resolved", "missing", "ambiguous", "no_stored_path"}
  BY <1>5 DEF Resolution, found
<1>7. Resolution(source, seed) = "resolved" => Cardinality(found) = 1
  BY <1>5 DEF Resolution, found
<1>8. Cardinality(found) = 1 => (CHOOSE t \in found : TRUE) \in 1 .. Len(files)
  <2>1. SUFFICES ASSUME Cardinality(found) = 1
                 PROVE  (CHOOSE t \in found : TRUE) \in found
    BY <1>2
  <2>2. PICK t \in found : TRUE
    BY <1>5, <2>1
  <2> QED
    BY <2>2
<1> QED
  BY <1>6, <1>7, <1>8 DEF Target, found

LEMMA EdgeFacts ==
  ASSUME Inv, stack # <<>>, Top.phase = "walking", ~Exhausted
  PROVE  /\ Edge(Top.file, Top, Current) \in EdgeRecord
         /\ Edge(Top.file, Top, Current).target = Target(Top.file, Current)
         /\ Edge(Top.file, Top, Current).resolution = Resolution(Top.file, Current)
         /\ Edge(Top.file, Top, Current).traversal
              = TraversalStatus(Target(Top.file, Current), Current)
<1> DEFINE target == Target(Top.file, Current)
<1>1. Current \in Seed
  BY CurrentFacts
<1>2. /\ Resolution(Top.file, Current) \in {"resolved", "missing", "ambiguous", "no_stored_path"}
      /\ target \in Nat \cup {NONE}
  <2>1. Len(files) \in Nat
    BY DEF Inv, TypeOK
  <2> QED
    BY <1>1, <2>1, ResolutionFacts
<1>3. TraversalStatus(target, Current) \in
        {"followed", "reused", "suppressed", "cycle", "depth_limited", "unresolved"}
  BY DEF TraversalStatus
<1>4. Top.file \in Nat /\ Top.config \in Nat /\ Top.next \in Nat
  BY TopFacts DEF Frame
<1>5. /\ Current.kind \in ReferenceKind /\ Current.path \in Paths \cup {NONE}
      /\ Current.configuration \in Names \cup {NONE}
      /\ Current.suppressed \in Flag /\ Current.excluded \in Flag
      /\ Current.expected \in DocumentKind \cup {NONE}
  BY <1>1 DEF Seed
<1> QED
  BY <1>2, <1>3, <1>4, <1>5 DEF Edge, EdgeRecord

\* The last writes to the nodes when a document is entered.
LEMMA EnterNodesFacts ==
  ASSUME NEW ns, NodesOK(ns), NEW file, NEW name \in Names \cup {NONE},
         NEW indices \in SUBSET Nat, NEW ms,
         ms = RecordSelected(RecordRequest(ns, file, name), file, indices)
  PROVE  /\ DOMAIN ms = DOMAIN ns /\ NodesOK(ms) /\ Later(ns, ms)
         /\ \A f \in DOMAIN ns : ms[f].status = ns[f].status
<1> DEFINE ls == RecordRequest(ns, file, name)
<1>1. /\ DOMAIN ls = DOMAIN ns /\ NodesOK(ls) /\ Later(ns, ls)
      /\ \A f \in DOMAIN ns : ls[f].status = ns[f].status
  BY RecordRequestFacts
<1>2. ms = RecordSelected(ls, file, indices)
  OBVIOUS
<1> HIDE DEF ls
<1>3. /\ DOMAIN ms = DOMAIN ls /\ NodesOK(ms) /\ Later(ls, ms)
      /\ \A f \in DOMAIN ls : ms[f].status = ls[f].status
  BY <1>1, <1>2, RecordSelectedFacts
<1> QED
  BY <1>1, <1>3, LaterTransitive

\* Nothing a step leaves alone has to be shown to grow.
LEMMA EdgesUnchanged ==
  ASSUME Inv, edges' = edges
  PROVE  Len(edges) <= Len(edges') /\ SubSeq(edges', 1, Len(edges)) = edges
<1>1. edges \in Seq(EdgeRecord) /\ Len(edges) \in Nat
  BY DEF Inv, TypeOK
<1> QED
  BY <1>1, SubSeqFull

LEMMA NodesUnchanged ==
  ASSUME Inv PROVE Later(nodes, nodes) /\ NodesOK(nodes)
<1>1. NodesOK(nodes)
  BY DEF Inv, TypeOK, NodesOK
<1>2. \A f \in DOMAIN nodes : nodes[f].depth \in Nat
  BY <1>1 DEF NodesOK, Node
<1> QED
  BY <1>1, <1>2 DEF Later

-----------------------------------------------------------------------------
(***************************************************************************)
(* Each action keeps the invariant and only makes the graph grow.          *)
(***************************************************************************)
LEMMA InitStep == Init => Inv
<1> SUFFICES ASSUME Init PROVE Inv
  OBVIOUS
<1>1. IndexedFiles \in Nat /\ Len(files) = IndexedFiles
  BY LimitAssumption DEF Init, HostFile
<1>2. files \in Seq([container: Nat, name: Streams \cup {NONE}])
  BY <1>1 DEF Init, HostFile
<1>3. TypeOK
  <2>1. DOMAIN nodes = {} /\ DOMAIN parsed = {} /\ DOMAIN processed = {}
    BY DEF Init
  <2>2. edges \in Seq(EdgeRecord) /\ stack \in Seq(Frame)
    BY DEF Init
  <2>3. /\ referenced = {} /\ partial \in BOOLEAN /\ rejected \in BOOLEAN
        /\ roots \in Seq(HostFile) /\ status = "running"
    BY OptionAssumption DEF Init
  <2> QED
    BY <1>2, <2>1, <2>2, <2>3 DEF TypeOK
<1>4. Stacked(stack, files, parsed)
  BY LimitAssumption DEF Stacked, Init
<1>5. NodesSettled(nodes, parsed, partial)
  BY DEF NodesSettled, Init
<1> QED
  BY <1>1, <1>3, <1>4, <1>5 DEF Inv, Init

LEMMA VisitRootStep == Inv /\ VisitRoot => Inv' /\ Grows
<1> SUFFICES ASSUME Inv, VisitRoot PROVE Inv' /\ Grows
  OBVIOUS
<1> DEFINE frame == Call(Head(roots), 0, RootConfiguration, {Head(roots)}, TRUE)
<1> USE DEF VisitRoot
<1>1. roots \in Seq(HostFile) /\ roots # <<>>
  BY DEF Inv, TypeOK
<1>2. Head(roots) \in HostFile /\ Tail(roots) \in Seq(HostFile)
  BY <1>1, HeadTailProperties
<1>3. Len(files) \in Nat /\ Head(roots) \in 1 .. Len(files)
  BY <1>2, LimitAssumption DEF Inv, TypeOK, HostFile
<1>4. Stacked(stack', files', parsed')
  <2>1. /\ frame \in Frame /\ frame.file = Head(roots) /\ frame.depth = 0
        /\ frame.phase = "called" /\ frame.next = 1 /\ frame.config = 0
        /\ frame.ancestors = {frame.file}
    BY <1>3, OptionAssumption DEF Call, Frame
  <2> HIDE DEF frame
  <2>2. Stacked(<<frame>>, files, parsed)
    BY <1>3, <2>1, StackRoot
  <2> QED
    BY <2>2 DEF frame
<1>5. TypeOK'
  BY <1>2, <1>4 DEF Inv, TypeOK, Stacked
<1>6. \A i \in DOMAIN edges' : EdgeSettled(edges'[i], parsed', partial', stack')
  <2>1. \A i \in DOMAIN edges : EdgeSettled(edges[i], parsed, partial, stack)
    BY DEF Inv
  <2>2. \A f : Awaited(stack, f) => f \in DOMAIN parsed
    BY DEF Awaited
  <2>3. \A i \in DOMAIN edges : EdgeSettled(edges[i], parsed, partial, stack')
    BY <2>1, <2>2 DEF EdgeSettled
  <2> QED
    BY <2>3
<1>7. Inv'
  BY <1>4, <1>5, <1>6 DEF Inv, Running
<1>8. Grows
  BY EdgesUnchanged, NodesUnchanged DEF Grows, Later
<1> QED
  BY <1>7, <1>8

\* Stepping past a reference keeps the discipline of the stack.
LEMMA AdvancedFacts ==
  ASSUME Inv, stack # <<>>, Top.phase = "walking"
  PROVE  /\ Stacked(ReplaceTop(Advanced), files, parsed)
         /\ Len(ReplaceTop(Advanced)) = Len(stack)
         /\ ReplaceTop(Advanced)[Len(stack)] = Advanced
         /\ Advanced.phase = "walking" /\ Advanced.file = Top.file
         /\ Advanced.depth = Top.depth /\ Advanced.ancestors = Top.ancestors
<1>1. /\ stack \in Seq(Frame) /\ Len(stack) \in Nat \ {0}
      /\ Top \in Frame /\ Placed(Top, parsed)
  BY TopFacts
<1>2. /\ Advanced \in Frame /\ Advanced.next # 0 /\ Advanced.phase = "walking"
      /\ Advanced.file = Top.file /\ Advanced.depth = Top.depth
      /\ Advanced.ancestors = Top.ancestors /\ Advanced.config = Top.config
      /\ Advanced.pending = Top.pending
  <2> DEFINE following == Top.next + 1
  <2>1. following \in Nat /\ following # 0
    BY <1>1 DEF Frame
  <2>2. Advanced = [Top EXCEPT !.next = following]
    BY DEF Advanced
  <2> HIDE DEF following
  <2> QED
    BY <1>1, <2>1, <2>2 DEF Frame
<1>3. Placed(Advanced, parsed)
  BY <1>1, <1>2 DEF Placed
<1>4. Stacked(ReplaceTop(Advanced), files, parsed)
  BY <1>2, <1>3, StackReplace DEF Inv, ReplaceTop, Top
<1>5. /\ Len(ReplaceTop(Advanced)) = Len(stack)
      /\ ReplaceTop(Advanced)[Len(stack)] = Advanced
  BY <1>1, <1>2, ExceptSeq DEF ReplaceTop
<1> QED
  BY <1>2, <1>4, <1>5

\* A step of a walking frame that leaves the graph alone.
LEMMA QuietStep ==
  ASSUME Inv, stack # <<>>, Top.phase = "walking", Running,
         Stacked(stack', files, parsed), rejected' \in BOOLEAN, rejected => rejected',
         DOMAIN processed' \subseteq DOMAIN parsed,
         \A f \in DOMAIN processed' : processed'[f] \subseteq Nat,
         UNCHANGED <<files, nodes, parsed, referenced, edges, partial, roots, status>>
  PROVE  Inv' /\ Grows
<1>1. TypeOK'
  BY DEF Inv, TypeOK, Stacked
<1>2. ASSUME NEW i \in DOMAIN edges
      PROVE  EdgeSettled(edges[i], parsed, partial, stack')
  <2>1. EdgeSettled(edges[i], parsed, partial, stack)
    BY DEF Inv
  <2>2. ~Awaited(stack, edges[i].target)
    BY DEF Awaited, Top
  <2> QED
    BY <2>1, <2>2 DEF EdgeSettled
<1>3. Inv'
  BY <1>1, <1>2 DEF Inv, Running
<1>4. Grows
  BY EdgesUnchanged, NodesUnchanged DEF Grows, Later
<1> QED
  BY <1>3, <1>4

LEMMA SkipStep == Inv /\ SkipComponentReference => Inv' /\ Grows
<1> SUFFICES ASSUME Inv, SkipComponentReference PROVE Inv' /\ Grows
  OBVIOUS
<1>1. stack # <<>> /\ Top.phase = "walking" /\ Running
  BY DEF SkipComponentReference, Active
<1>2. Stacked(stack', files, parsed)
  BY <1>1, AdvancedFacts DEF SkipComponentReference
<1>3. DOMAIN processed \subseteq DOMAIN parsed /\ rejected \in BOOLEAN
      /\ \A f \in DOMAIN processed : processed[f] \subseteq Nat
  BY DEF Inv, TypeOK
<1> QED
  BY <1>1, <1>2, <1>3, QuietStep DEF SkipComponentReference

LEMMA RefuseStep == Inv /\ RefuseReference => Inv' /\ Grows
<1> SUFFICES ASSUME Inv, RefuseReference PROVE Inv' /\ Grows
  OBVIOUS
<1>1. stack # <<>> /\ Top.phase = "walking" /\ Running
  BY DEF RefuseReference, AtReference, Active
<1>2. Stacked(stack', files, parsed)
  BY <1>1, AdvancedFacts DEF RefuseReference
<1>3. DOMAIN processed \subseteq DOMAIN parsed
      /\ \A f \in DOMAIN processed : processed[f] \subseteq Nat
  BY DEF Inv, TypeOK
<1> QED
  BY <1>1, <1>2, <1>3, QuietStep DEF RefuseReference

LEMMA ReturnStep == Inv /\ Return => Inv' /\ Grows
<1> SUFFICES ASSUME Inv, Return PROVE Inv' /\ Grows
  OBVIOUS
<1>1. stack # <<>> /\ Top.phase = "walking" /\ Running
  BY DEF Return, Active
<1>2. Stacked(stack', files, parsed)
  BY <1>1, StackPop DEF Return, Pop, Inv
<1>3. DOMAIN processed \subseteq DOMAIN parsed /\ rejected \in BOOLEAN
      /\ \A f \in DOMAIN processed : processed[f] \subseteq Nat
  BY DEF Inv, TypeOK
<1> QED
  BY <1>1, <1>2, <1>3, QuietStep DEF Return

LEMMA NextConfigurationStep == Inv /\ NextConfiguration => Inv' /\ Grows
<1> SUFFICES ASSUME Inv, NextConfiguration PROVE Inv' /\ Grows
  OBVIOUS
<1>1. stack # <<>> /\ Top.phase = "walking" /\ Running
  BY DEF NextConfiguration, Active
<1>2. PICK c \in Top.pending :
        IF c \in ProcessedOf(Top.file)
        THEN /\ stack' = ReplaceTop([Top EXCEPT !.pending = @ \ {c}])
             /\ UNCHANGED processed
        ELSE /\ stack' = ReplaceTop([Top EXCEPT !.pending = @ \ {c},
                                               !.config = c, !.next = 1])
             /\ processed' = Put(processed, Top.file, ProcessedOf(Top.file) \cup {c})
  BY DEF NextConfiguration
<1>3. /\ Top \in Frame /\ Placed(Top, parsed) /\ Top.next # 0 /\ c \in Nat
      /\ Top.file \in DOMAIN parsed /\ parsed[Top.file] \in Document
      /\ c \in 1 .. Len(parsed[Top.file].configurations)
  BY <1>1, <1>2, TopFacts, WalkingFacts DEF Placed, Frame
<1>4. DOMAIN processed \subseteq DOMAIN parsed /\ rejected \in BOOLEAN
      /\ \A f \in DOMAIN processed : processed[f] \subseteq Nat
  BY DEF Inv, TypeOK
<1>5. CASE c \in ProcessedOf(Top.file)
  <2> DEFINE frame == [Top EXCEPT !.pending = @ \ {c}]
  <2>1. /\ frame \in Frame /\ frame.next # 0 /\ frame.phase = "walking"
        /\ frame.file = Top.file /\ frame.depth = Top.depth
        /\ frame.ancestors = Top.ancestors /\ frame.config = Top.config
        /\ frame.pending \subseteq Top.pending
    BY <1>1, <1>3 DEF Frame
  <2>2. stack' = ReplaceTop(frame) /\ processed' = processed
    BY <1>2, <1>5
  <2> HIDE DEF frame
  <2>3. Placed(frame, parsed)
    BY <1>1, <1>3, <2>1 DEF Placed
  <2>4. Stacked(stack', files, parsed)
    BY <1>1, <2>1, <2>2, <2>3, StackReplace DEF Inv, ReplaceTop, Top
  <2> QED
    BY <1>1, <1>4, <2>2, <2>4, QuietStep DEF NextConfiguration
<1>6. CASE c \notin ProcessedOf(Top.file)
  <2> DEFINE frame == [Top EXCEPT !.pending = @ \ {c}, !.config = c, !.next = 1]
  <2>1. /\ frame \in Frame /\ frame.next # 0 /\ frame.phase = "walking"
        /\ frame.file = Top.file /\ frame.depth = Top.depth
        /\ frame.ancestors = Top.ancestors /\ frame.config = c
        /\ frame.pending \subseteq Top.pending
    <3>1. Top.pending \ {c} \in SUBSET Nat /\ Top.pending \ {c} \subseteq Top.pending
      BY <1>3 DEF Frame
    <3>2. frame = [Top EXCEPT !.pending = Top.pending \ {c}, !.config = c, !.next = 1]
      BY <1>3
    <3>3. 1 \in Nat /\ 1 # 0
      OBVIOUS
    <3> HIDE DEF frame
    <3> QED
      BY <1>1, <1>3, <3>1, <3>2, <3>3 DEF Frame
  <2>2. /\ stack' = ReplaceTop(frame)
        /\ processed' = Put(processed, Top.file, ProcessedOf(Top.file) \cup {c})
    BY <1>2, <1>6
  <2> HIDE DEF frame
  <2>3. Placed(frame, parsed)
    BY <1>1, <1>3, <2>1 DEF Placed, Document
  <2>4. Stacked(stack', files, parsed)
    BY <1>1, <2>1, <2>2, <2>3, StackReplace DEF Inv, ReplaceTop, Top
  <2>5. ProcessedOf(Top.file) \cup {c} \subseteq Nat
    BY <1>3, <1>4 DEF ProcessedOf
  <2>6. /\ DOMAIN processed' \subseteq DOMAIN parsed
        /\ \A f \in DOMAIN processed' : processed'[f] \subseteq Nat
    BY <1>3, <1>4, <2>2, <2>5 DEF Put
  <2> QED
    BY <1>1, <1>4, <2>4, <2>6, QuietStep DEF NextConfiguration
<1> QED
  BY <1>5, <1>6

LEMMA FinishStep == Inv /\ Finish => Inv' /\ Grows
<1> SUFFICES ASSUME Inv, Finish PROVE Inv' /\ Grows
  OBVIOUS
<1>1. /\ partial' \in BOOLEAN /\ (partial => partial') /\ stack = <<>>
      /\ status' \in {"rejected", "partial", "complete"}
      /\ status' = "complete" => ~partial'
  BY DEF Finish, Inv, TypeOK
<1>2. TypeOK'
  BY <1>1 DEF Inv, TypeOK, Finish
<1>3. ASSUME NEW i \in DOMAIN edges
      PROVE  EdgeSettled(edges[i], parsed, partial', stack)
  BY <1>1 DEF Inv, EdgeSettled
<1>4. Inv'
  BY <1>1, <1>2, <1>3 DEF Inv, Finish, NodesSettled
<1>5. Grows
  BY <1>1, EdgesUnchanged, NodesUnchanged DEF Grows, Later, Finish
<1> QED
  BY <1>4, <1>5

\* What every start of a visit has in common: the called document is parsed
\* afterwards, and the index, the nodes and the parsed documents only grow.
LEMMA VisitStep ==
  ASSUME Inv, Active("called"),
         files' \in Seq([container: Nat, name: Streams \cup {NONE}]), Len(files) <= Len(files'),
         \A f \in DOMAIN parsed : parsed'[f] = parsed[f],
         DOMAIN parsed' = DOMAIN parsed \cup {Top.file},
         \A f \in DOMAIN parsed' : parsed'[f] \in Document \cup {NONE},
         NodesOK(nodes'), DOMAIN nodes' = DOMAIN nodes \cup {Top.file}, Later(nodes, nodes'),
         NodesSettled(nodes', parsed', partial'),
         partial' \in BOOLEAN, partial => partial',
         rejected' \in BOOLEAN, rejected => rejected',
         Stacked(stack', files', parsed'), referenced' \subseteq DOMAIN parsed',
         UNCHANGED <<processed, edges, roots, status>>
  PROVE  Inv' /\ Grows
<1>1. /\ stack # <<>> /\ Running /\ Top.phase = "called" /\ Top.file \in 1 .. Len(files)
      /\ Len(files) \in Nat /\ Len(files') \in Nat
  BY TopFacts DEF Active, Inv, TypeOK
<1>2. TypeOK'
  <2>1. DOMAIN nodes' \subseteq 1 .. Len(files')
    BY <1>1 DEF Inv, TypeOK
  <2>2. DOMAIN parsed' \subseteq DOMAIN nodes' /\ DOMAIN processed' \subseteq DOMAIN parsed'
    BY DEF Inv, TypeOK
  <2>3. \A f \in DOMAIN nodes' : nodes'[f] \in Node
    BY DEF NodesOK
  <2>4. /\ \A f \in DOMAIN processed' : processed'[f] \subseteq Nat
        /\ edges' \in Seq(EdgeRecord) /\ roots' \in Seq(HostFile)
        /\ status' \in {"running", "complete", "partial", "rejected"}
        /\ stack' \in Seq(Frame)
    BY DEF Inv, TypeOK, Stacked
  <2> QED
    BY <2>1, <2>2, <2>3, <2>4 DEF TypeOK
<1>3. ASSUME NEW i \in DOMAIN edges
      PROVE  EdgeSettled(edges[i], parsed', partial', stack')
  <2>1. EdgeSettled(edges[i], parsed, partial, stack)
    BY DEF Inv
  <2>2. Awaited(stack, edges[i].target) => edges[i].target \in DOMAIN parsed'
    BY DEF Awaited, Top
  <2> QED
    BY <2>1, <2>2 DEF EdgeSettled
<1>4. IndexedFiles <= Len(files')
  BY <1>1, LimitAssumption DEF Inv
<1>5. Inv'
  BY <1>1, <1>2, <1>3, <1>4 DEF Inv, Running
<1>6. Grows
  BY EdgesUnchanged DEF Grows, Later
<1> QED
  BY <1>5, <1>6

LEMMA SelectionFacts ==
  ASSUME NEW document, NEW requested
  PROVE  Selection(document, requested) \subseteq 1 .. Len(document.configurations)
BY DEF Selection, Matching

\* Entering a document: what becomes of the nodes, the stack and the verdict.
LEMMA EnterFacts ==
  ASSUME Inv, Active("called"), NEW fs, NEW p, Stacked(stack, fs, p),
         NEW document \in Document, Documented(p, Top.file), p[Top.file] = document,
         NEW ns, NodesOK(ns), Later(nodes, ns), NEW incomplete \in BOOLEAN,
         Enter(document, ns, incomplete)
  PROVE  /\ NodesOK(nodes') /\ DOMAIN nodes' = DOMAIN ns /\ Later(nodes, nodes')
         /\ \A f \in DOMAIN ns : nodes'[f].status = ns[f].status
         /\ Stacked(stack', fs, p)
         /\ partial' \in BOOLEAN /\ (incomplete => partial')
         /\ referenced' = referenced \cup {Top.file}
<1> DEFINE chosen == Selection(document, Top.requested)
           next == IF Top.file \in referenced THEN Len(document.references) + 1 ELSE 1
           frame == [Top EXCEPT !.phase = "walking", !.pending = chosen, !.next = next]
<1>1. /\ stack # <<>> /\ Top \in Frame /\ Placed(Top, parsed) /\ Top.phase = "called"
  BY TopFacts DEF Active
<1>2. /\ document.configurations \in Seq(Configuration)
      /\ document.references \in Seq(Seed)
  BY DEF Document
<1>3. chosen \subseteq 1 .. Len(document.configurations) /\ chosen \in SUBSET Nat
  BY <1>2, SelectionFacts
<1>4. next \in Nat /\ next # 0
  BY <1>2
<1>5. /\ nodes' = RecordSelected(RecordRequest(ns, Top.file, Top.requested), Top.file, chosen)
      /\ partial' = (incomplete \/ RequestFails(document, Top.requested))
      /\ referenced' = referenced \cup {Top.file}
      /\ stack' = ReplaceTop(frame)
  BY DEF Enter
<1> HIDE DEF chosen, next
<1>6. Top.requested \in Names \cup {NONE}
  BY <1>1 DEF Frame
<1>7. /\ DOMAIN nodes' = DOMAIN ns /\ NodesOK(nodes') /\ Later(ns, nodes')
      /\ \A f \in DOMAIN ns : nodes'[f].status = ns[f].status
  BY <1>3, <1>5, <1>6, EnterNodesFacts
<1>8. Later(nodes, nodes')
  BY <1>7, LaterTransitive, NodesUnchanged
<1>9. Stacked(stack', fs, p)
  <2>1. /\ frame \in Frame /\ frame.next # 0 /\ frame.phase = "walking"
        /\ frame.file = Top.file /\ frame.depth = Top.depth
        /\ frame.ancestors = Top.ancestors /\ frame.config = Top.config
        /\ frame.pending = chosen
    BY <1>1, <1>3, <1>4 DEF Frame
  <2>2. Top.config = 0 /\ Len(document.configurations) \in Nat
    BY <1>1, <1>2 DEF Placed
  <2> HIDE DEF frame
  <2>3. Placed(frame, p)
    BY <1>3, <2>1, <2>2 DEF Placed
  <2> QED
    BY <1>1, <1>5, <2>1, <2>3, StackReplace DEF ReplaceTop, Top
<1>10. partial' \in BOOLEAN /\ (incomplete => partial')
  BY <1>5 DEF RequestFails
<1> QED
  BY <1>5, <1>7, <1>8, <1>9, <1>10

LEMMA VisitParsedStep == Inv /\ VisitParsed => Inv' /\ Grows
<1> SUFFICES ASSUME Inv, VisitParsed PROVE Inv' /\ Grows
  OBVIOUS
<1> DEFINE ns == EnsureNode(nodes, Top.file, Top.depth, Top.root)
<1>1. /\ Active("called") /\ Top.file \in DOMAIN parsed /\ stack # <<>>
      /\ UNCHANGED <<files, parsed, processed, edges, rejected, roots, status>>
  BY DEF VisitParsed, Active
<1>2. Top \in Frame /\ Top.depth \in Nat /\ Top.root \in BOOLEAN
  BY <1>1, TopFacts DEF Frame
<1>3. /\ DOMAIN ns = DOMAIN nodes /\ NodesOK(ns) /\ Later(nodes, ns)
      /\ \A f \in DOMAIN nodes : ns[f].status = nodes[f].status
  <2>1. NodesOK(nodes)
    BY NodesUnchanged
  <2>2. DOMAIN nodes = DOMAIN nodes \cup {Top.file}
    BY <1>1 DEF Inv, TypeOK
  <2>3. /\ DOMAIN ns = DOMAIN nodes \cup {Top.file} /\ NodesOK(ns) /\ Later(nodes, ns)
        /\ \A f \in DOMAIN nodes : ns[f].status = nodes[f].status
    <3>1. Met(nodes, Top.file, ns)
      BY <1>2, <2>1, EnsureNodeFacts
    <3> HIDE DEF ns
    <3> QED
      BY <3>1 DEF Met
  <2> QED
    BY <2>2, <2>3
<1>4. /\ files \in Seq([container: Nat, name: Streams \cup {NONE}]) /\ Len(files) \in Nat
      /\ \A f \in DOMAIN parsed : parsed[f] \in Document \cup {NONE}
      /\ DOMAIN parsed = DOMAIN parsed \cup {Top.file}
      /\ DOMAIN nodes = DOMAIN nodes \cup {Top.file}
      /\ partial \in BOOLEAN /\ rejected \in BOOLEAN /\ referenced \subseteq DOMAIN parsed
      /\ NodesSettled(nodes, parsed, partial) /\ Stacked(stack, files, parsed)
  <2>1. Top.file \in DOMAIN parsed /\ Top.file \in DOMAIN nodes
    BY <1>1 DEF Inv, TypeOK
  <2>2. /\ DOMAIN parsed = DOMAIN parsed \cup {Top.file}
        /\ DOMAIN nodes = DOMAIN nodes \cup {Top.file}
    BY <2>1
  <2>3. /\ files \in Seq([container: Nat, name: Streams \cup {NONE}])
        /\ \A f \in DOMAIN parsed : parsed[f] \in Document \cup {NONE}
        /\ partial \in BOOLEAN /\ rejected \in BOOLEAN /\ referenced \subseteq DOMAIN parsed
        /\ NodesSettled(nodes, parsed, partial) /\ Stacked(stack, files, parsed)
    BY DEF Inv, TypeOK
  <2> QED
    BY <2>2, <2>3
<1> HIDE DEF ns
<1>5. CASE parsed[Top.file] = NONE
  <2>1. nodes' = ns /\ partial' = partial /\ referenced' = referenced /\ stack' = Pop
    BY <1>5 DEF VisitParsed, Leave, ns
  <2>2. Stacked(stack', files, parsed)
    BY <1>1, <1>4, <2>1, StackPop DEF Pop
  <2>3. NodesSettled(nodes', parsed, partial)
    BY <1>3, <1>4, <2>1 DEF NodesSettled, Inv, TypeOK
  <2> QED
    BY <1>1, <1>3, <1>4, <2>1, <2>2, <2>3, VisitStep
<1>6. CASE parsed[Top.file] # NONE
  <2>1. Enter(parsed[Top.file], ns, partial)
    BY <1>6 DEF VisitParsed, ns
  <2>2. parsed[Top.file] \in Document /\ Documented(parsed, Top.file)
    BY <1>1, <1>4, <1>6 DEF Documented
  <2>3. /\ NodesOK(nodes') /\ DOMAIN nodes' = DOMAIN ns /\ Later(nodes, nodes')
        /\ \A f \in DOMAIN ns : nodes'[f].status = ns[f].status
        /\ Stacked(stack', files, parsed)
        /\ partial' \in BOOLEAN /\ (partial => partial')
        /\ referenced' = referenced \cup {Top.file}
    BY <1>1, <1>3, <1>4, <2>1, <2>2, EnterFacts
  <2>4. NodesSettled(nodes', parsed, partial')
    BY <1>3, <1>4, <2>3 DEF NodesSettled, Inv, TypeOK
  <2>5. referenced' \subseteq DOMAIN parsed
    BY <1>1, <1>4, <2>3
  <2> QED
    BY <1>1, <1>3, <1>4, <2>3, <2>4, <2>5, VisitStep
<1> QED
  BY <1>5, <1>6

\* Embedded documents only extend the index.
Index == Seq([container: Nat, name: Streams \cup {NONE}])
Extended(fs, gs) == gs \in Index /\ Len(fs) <= Len(gs)

LEMMA RegisterFacts ==
  ASSUME Inv, NEW document \in Document, NEW file \in Nat
  PROVE  Extended(files, RegisterEmbedded(file, document))
<1> DEFINE entry(i) == [container |-> file, name |-> document.embedded[i]]
           n == Admitted(document)
           Entry == [container: Nat, name: Streams \cup {NONE}]
           added == [i \in 1 .. n |-> entry(i)]
<1>1. files \in Index /\ Len(files) \in Nat
  BY DEF Inv, TypeOK, Index
<1>2. document.embedded \in Seq(Streams) /\ Len(document.embedded) \in Nat
  BY DEF Document
<1>3. Admitted(document) \in Nat /\ Admitted(document) <= Len(document.embedded)
  BY <1>1, <1>2, LimitAssumption DEF Admitted
<1>4. \A i \in 1 .. Admitted(document) : document.embedded[i] \in Streams
  BY <1>2, <1>3
<1>5. added \in Index /\ Len(added) \in Nat
  <2>1. n \in Nat /\ \A i \in 1 .. n : entry(i) \in Entry
    BY <1>3, <1>4
  <2> HIDE DEF entry, n, Entry
  <2>2. added \in Seq(Entry) /\ Len(added) = n
    BY <2>1
  <2> QED
    BY <2>1, <2>2 DEF Index, Entry
<1> HIDE DEF added
<1>6. files \o added \in Index /\ Len(files \o added) = Len(files) + Len(added)
  BY <1>1, <1>5, ConcatProperties DEF Index
<1>7. Extended(files, files \o added)
  BY <1>1, <1>5, <1>6 DEF Extended
<1> QED
  BY <1>7 DEF RegisterEmbedded, added

LEMMA VisitUnparsedStep ==
  ASSUME Inv, NEW result \in ParseResults, VisitUnparsed(result)
  PROVE  Inv' /\ Grows
<1> DEFINE document == result.document
           met == EnsureNode(nodes, Top.file, Top.depth, Top.root)
           ns == RecordParse(met, Top.file, result)
<1>1. /\ Active("called") /\ Top.file \notin DOMAIN parsed /\ stack # <<>>
      /\ parsed' = Put(parsed, Top.file, document)
      /\ rejected' = (rejected \/ (~Usable(result) /\ Top.root))
      /\ UNCHANGED <<processed, edges, roots, status>>
  BY DEF VisitUnparsed, Active
<1>2. /\ Top \in Frame /\ Top.depth \in Nat /\ Top.root \in BOOLEAN /\ Top.file \in Nat
      /\ Top.file \in 1 .. Len(files)
  BY <1>1, TopFacts DEF Frame
<1>3. result \in ParseResult
  BY ParseAssumption
<1>4. /\ result.status \in ParseStatus /\ result.status # NONE
      /\ document \in Document \cup {NONE}
  BY <1>3, NoneAssumption DEF ParseResult
<1>5. Met(nodes, Top.file, met)
  BY <1>2, EnsureNodeFacts, NodesUnchanged
<1> HIDE DEF met
<1>6. ParsedAs(met, Top.file, result.status, ns)
  <2>1. Top.file \in DOMAIN met /\ NodesOK(met)
    BY <1>5 DEF Met
  <2> QED
    BY <1>3, <2>1, RecordParseFacts
<1> HIDE DEF ns
<1>7. /\ DOMAIN ns = DOMAIN nodes \cup {Top.file} /\ NodesOK(ns) /\ Later(nodes, ns)
      /\ ns[Top.file].status = result.status
      /\ \A f \in DOMAIN nodes : f # Top.file => ns[f].status = nodes[f].status
  <2>1. Later(nodes, ns)
    BY <1>5, <1>6, LaterTransitive, NodesUnchanged DEF Met, ParsedAs
  <2> QED
    BY <1>5, <1>6, <2>1 DEF Met, ParsedAs
<1>8. /\ DOMAIN parsed' = DOMAIN parsed \cup {Top.file} /\ parsed'[Top.file] = document
      /\ \A f \in DOMAIN parsed : parsed'[f] = parsed[f]
  BY <1>1 DEF Put
<1>9. /\ files \in Seq([container: Nat, name: Streams \cup {NONE}]) /\ Len(files) \in Nat
      /\ \A f \in DOMAIN parsed' : parsed'[f] \in Document \cup {NONE}
      /\ partial \in BOOLEAN /\ rejected' \in BOOLEAN /\ (rejected => rejected')
      /\ referenced \subseteq DOMAIN parsed
      /\ NodesSettled(nodes, parsed, partial) /\ Stacked(stack, files, parsed)
  <2>1. \A f \in DOMAIN parsed : parsed[f] \in Document \cup {NONE}
    BY DEF Inv, TypeOK
  <2>2. \A f \in DOMAIN parsed' : parsed'[f] \in Document \cup {NONE}
    BY <1>4, <1>8, <2>1
  <2>3. rejected' \in BOOLEAN /\ (rejected => rejected')
    BY <1>1 DEF Inv, TypeOK
  <2> QED
    BY <2>2, <2>3 DEF Inv, TypeOK
\* Whatever the verdict becomes, it counts an unusable result.
<1>10. ASSUME NEW ms, DOMAIN ms = DOMAIN ns, NEW incomplete,
              \A f \in DOMAIN ns : ms[f].status = ns[f].status,
              partial => incomplete,
              result.status \notin {"parsed", "partial"} => incomplete
       PROVE  NodesSettled(ms, parsed', incomplete)
  <2>1. ASSUME NEW f \in DOMAIN ms
        PROVE  f \in DOMAIN parsed' <=> ms[f].status # NONE
    BY <1>1, <1>4, <1>7, <1>8, <1>9, <1>10 DEF NodesSettled
  <2>2. ASSUME NEW f \in DOMAIN parsed', ms[f].status \notin {"parsed", "partial"}
        PROVE  incomplete
    <3>1. DOMAIN parsed \subseteq DOMAIN nodes
      BY DEF Inv, TypeOK
    <3>2. f \in DOMAIN ns /\ ns[f].status \notin {"parsed", "partial"}
      BY <1>7, <1>8, <1>10, <2>2, <3>1
    <3>3. CASE f = Top.file
      BY <1>7, <1>10, <3>2, <3>3
    <3>4. CASE f # Top.file
      BY <1>7, <1>8, <1>9, <1>10, <3>1, <3>2, <3>4 DEF NodesSettled
    <3> QED
      BY <3>3, <3>4
  <2> QED
    BY <2>1, <2>2 DEF NodesSettled
<1>11. CASE document = NONE
  <2>1. /\ nodes' = ns /\ partial' = TRUE /\ referenced' = referenced
        /\ stack' = Pop /\ files' = files
    BY <1>11 DEF VisitUnparsed, Leave, ns, met
  <2>2. Stacked(stack', files', parsed')
    <3>1. Stacked(stack, files, parsed')
      BY <1>8, <1>9, StackUnderGrowth
    <3> QED
      BY <1>1, <2>1, <3>1, StackPop DEF Pop
  <2>3. NodesSettled(nodes', parsed', partial')
    BY <1>10, <2>1
  <2>4. Len(files) <= Len(files') /\ partial' \in BOOLEAN /\ (partial => partial')
        /\ referenced' \subseteq DOMAIN parsed'
    BY <1>8, <1>9, <2>1
  <2> QED
    BY <1>1, <1>7, <1>8, <1>9, <2>1, <2>2, <2>3, <2>4, VisitStep
<1>12. CASE document # NONE
  <2> DEFINE incomplete == \/ partial \/ ~Usable(result)
                           \/ Admitted(document) < Len(document.embedded)
  <2>1. files' = RegisterEmbedded(Top.file, document) /\ Enter(document, ns, incomplete)
    BY <1>12 DEF VisitUnparsed, ns, met
  <2>2. document \in Document
    BY <1>4, <1>12
  <2>3. /\ files' \in Seq([container: Nat, name: Streams \cup {NONE}])
        /\ Len(files) <= Len(files') /\ Len(files') \in Nat
    <3>1. Extended(files, files')
      BY <1>2, <2>1, <2>2, RegisterFacts
    <3> QED
      BY <3>1 DEF Extended, Index
  <2>4. Stacked(stack, files', parsed')
    BY <1>8, <1>9, <2>3, StackUnderGrowth
  <2>5. Documented(parsed', Top.file)
    BY <1>8, <1>12 DEF Documented
  <2>6. /\ incomplete \in BOOLEAN /\ (partial => incomplete)
        /\ result.status \notin {"parsed", "partial"} => incomplete
    BY DEF Usable
  <2> HIDE DEF incomplete
  <2>7. /\ NodesOK(nodes') /\ DOMAIN nodes' = DOMAIN ns /\ Later(nodes, nodes')
        /\ \A f \in DOMAIN ns : nodes'[f].status = ns[f].status
        /\ Stacked(stack', files', parsed')
        /\ partial' \in BOOLEAN /\ (incomplete => partial')
        /\ referenced' = referenced \cup {Top.file}
    BY <1>1, <1>7, <1>8, <2>1, <2>2, <2>4, <2>5, <2>6, EnterFacts
  <2>8. NodesSettled(nodes', parsed', partial')
    BY <1>10, <2>6, <2>7
  <2>9. referenced' \subseteq DOMAIN parsed' /\ (partial => partial')
    BY <1>8, <1>9, <2>6, <2>7
  <2> QED
    BY <1>1, <1>7, <1>8, <1>9, <2>3, <2>7, <2>8, <2>9, VisitStep
<1> QED
  BY <1>11, <1>12

\* Appending an edge keeps the ones before it.
LEMMA AppendEdge ==
  ASSUME Inv, NEW edge \in EdgeRecord, edges' = Append(edges, edge)
  PROVE  /\ edges' \in Seq(EdgeRecord) /\ Len(edges) <= Len(edges')
         /\ SubSeq(edges', 1, Len(edges)) = edges
         /\ \A i \in DOMAIN edges' : edges'[i] = edge \/ (i \in DOMAIN edges /\ edges'[i] = edges[i])
<1>1. edges \in Seq(EdgeRecord) /\ Len(edges) \in Nat
  BY DEF Inv, TypeOK
<1>2. /\ edges' \in Seq(EdgeRecord) /\ Len(edges') = Len(edges) + 1
      /\ \A i \in 1 .. Len(edges) : edges'[i] = edges[i]
      /\ edges'[Len(edges) + 1] = edge
  BY <1>1, AppendProperties
<1>3. SubSeq(edges', 1, Len(edges)) = edges
  <2>1. /\ SubSeq(edges', 1, Len(edges)) \in Seq(EdgeRecord)
        /\ Len(SubSeq(edges', 1, Len(edges))) = Len(edges)
        /\ \A i \in 1 .. Len(edges) : SubSeq(edges', 1, Len(edges))[i] = edges'[i]
    BY <1>1, <1>2, SubSeqProperties
  <2> QED
    BY <1>1, <1>2, <2>1, SeqEqual
<1> QED
  BY <1>1, <1>2, <1>3

\* What the nodes become when a reference resolves to a file.
LEMMA TargetFacts ==
  ASSUME NEW ns, NodesOK(ns), NEW target, NEW depth \in Nat, NEW name \in Names \cup {NONE},
         NEW ms, ms = RecordRequest(EnsureNode(ns, target, depth, FALSE), target, name)
  PROVE  Met(ns, target, ms)
<1> DEFINE ls == EnsureNode(ns, target, depth, FALSE)
<1>1. Met(ns, target, ls)
  BY EnsureNodeFacts
<1>2. ms = RecordRequest(ls, target, name)
  OBVIOUS
<1> HIDE DEF ls
<1>3. /\ DOMAIN ms = DOMAIN ls /\ NodesOK(ms) /\ Later(ls, ms)
      /\ \A f \in DOMAIN ls : ms[f].status = ls[f].status
  <2> DEFINE qs == RecordRequest(ls, target, name)
  <2>1. NodesOK(ls)
    BY <1>1 DEF Met
  <2>2. /\ DOMAIN qs = DOMAIN ls /\ NodesOK(qs) /\ Later(ls, qs)
        /\ \A f \in DOMAIN ls : qs[f].status = ls[f].status
    BY <2>1, RecordRequestFacts
  <2> QED
    BY <1>2, <2>2
<1>4. Later(ns, ms)
  BY <1>1, <1>3, LaterTransitive DEF Met
<1> QED
  BY <1>1, <1>3, <1>4 DEF Met

LEMMA ProcessReferenceStep == Inv /\ ProcessReference => Inv' /\ Grows
<1> SUFFICES ASSUME Inv, ProcessReference PROVE Inv' /\ Grows
  OBVIOUS
<1> DEFINE edge == Edge(Top.file, Top, Current)
           target == Target(Top.file, Current)
           visited == edge.traversal \in {"followed", "reused"}
           frame == Call(target, Top.depth + 1, Current.configuration,
                         Top.ancestors \cup {target}, FALSE)
<1>1. /\ stack # <<>> /\ Top.phase = "walking" /\ Running /\ ~Exhausted
      /\ UNCHANGED <<files, parsed, processed, referenced, rejected, roots, status>>
  BY DEF ProcessReference, AtReference, Active
<1>2. /\ edge \in EdgeRecord /\ edge.target = target
      /\ edge.resolution = Resolution(Top.file, Current)
      /\ edge.traversal = TraversalStatus(target, Current)
  BY <1>1, EdgeFacts
<1>3. /\ edge.resolution # "resolved" => target = NONE
      /\ target # NONE => target \in 1 .. Len(files)
      /\ Current.configuration \in Names \cup {NONE}
  BY <1>1, <1>2, CurrentFacts, ResolutionFacts DEF Seed
<1>4. /\ target = NONE => edge.traversal = "unresolved"
      /\ visited => /\ target # NONE /\ target \notin Top.ancestors
                    /\ ~(Top.depth >= MaxReferenceDepth)
      /\ edge.traversal = "cycle" => target \in Top.ancestors
  BY <1>2 DEF TraversalStatus, IsAncestor, TooDeep
<1>5. /\ edges' = Append(edges, edge)
      /\ partial' = (partial \/ edge.traversal \in {"unresolved", "depth_limited"})
      /\ nodes' = IF target = NONE THEN nodes
                  ELSE RecordRequest(EnsureNode(nodes, target, Top.depth + 1, FALSE),
                                     target, Current.configuration)
      /\ stack' = IF visited THEN Append(ReplaceTop(Advanced), frame) ELSE ReplaceTop(Advanced)
  BY <1>2 DEF ProcessReference
<1>6. /\ Top \in Frame /\ Top.depth \in Nat /\ Top.ancestors \in SUBSET Nat
      /\ Len(stack) \in Nat \ {0} /\ Len(files) \in Nat
  <2>1. Top \in Frame /\ Len(stack) \in Nat \ {0}
    BY <1>1, TopFacts
  <2>2. Top.depth \in Nat /\ Top.ancestors \in SUBSET Nat
    BY <2>1 DEF Frame
  <2>3. Len(files) \in Nat
    BY DEF Inv, TypeOK
  <2> QED
    BY <2>1, <2>2, <2>3
<1> HIDE DEF edge, target
<1>7. /\ NodesOK(nodes') /\ Later(nodes, nodes')
      /\ DOMAIN nodes' \subseteq 1 .. Len(files) /\ DOMAIN nodes \subseteq DOMAIN nodes'
      /\ NodesSettled(nodes', parsed, partial')
  <2>1. DOMAIN nodes \subseteq 1 .. Len(files) /\ NodesSettled(nodes, parsed, partial)
        /\ DOMAIN parsed \subseteq DOMAIN nodes
    BY DEF Inv, TypeOK
  <2>2. CASE target = NONE
    BY <1>5, <2>1, <2>2, NodesUnchanged DEF NodesSettled
  <2>3. CASE target # NONE
    <3> DEFINE deeper == Top.depth + 1
               name == Current.configuration
    <3>1. Met(nodes, target, nodes')
      <4>1. /\ deeper \in Nat /\ name \in Names \cup {NONE} /\ NodesOK(nodes)
            /\ nodes' = RecordRequest(EnsureNode(nodes, target, deeper, FALSE), target, name)
        BY <1>3, <1>5, <1>6, <2>3, NodesUnchanged
      <4> HIDE DEF deeper, name
      <4> QED
        BY <4>1, TargetFacts
    <3>2. NodesOK(nodes') /\ Later(nodes, nodes') /\ DOMAIN nodes' = DOMAIN nodes \cup {target}
      BY <3>1 DEF Met
    <3>3. NodesSettled(nodes', parsed, partial')
      BY <1>5, <2>1, <3>1 DEF Met, NodesSettled
    <3> QED
      BY <1>3, <2>1, <2>3, <3>2, <3>3
  <2> QED
    BY <2>2, <2>3
<1>8. /\ Stacked(ReplaceTop(Advanced), files, parsed)
      /\ Len(ReplaceTop(Advanced)) = Len(stack)
      /\ ReplaceTop(Advanced)[Len(stack)] = Advanced
      /\ Advanced.phase = "walking" /\ Advanced.file = Top.file
      /\ Advanced.depth = Top.depth /\ Advanced.ancestors = Top.ancestors
  BY <1>1, AdvancedFacts
<1>9. Stacked(stack', files, parsed) /\ (visited => Awaited(stack', target))
  <2>1. CASE visited
    <3> DEFINE s == ReplaceTop(Advanced)
    <3>1. /\ frame \in Frame /\ frame.file = target /\ frame.depth = Top.depth + 1
          /\ frame.phase = "called" /\ frame.next = 1 /\ frame.config = 0
          /\ frame.ancestors = Top.ancestors \cup {target}
      BY <1>3, <1>4, <1>6, <2>1 DEF Call, Frame
    <3> HIDE DEF frame
    <3>2. /\ s # <<>> /\ s[Len(s)] = Advanced /\ Len(s) = Len(stack)
          /\ s \in Seq(Frame) /\ Stacked(s, files, parsed)
      BY <1>6, <1>8 DEF Stacked
    <3> HIDE DEF s
    <3>3. Top.depth < MaxReferenceDepth
      BY <1>4, <1>6, <2>1, LimitAssumption
    <3>4. target \in 1 .. Len(files) /\ target \notin Top.ancestors
      BY <1>3, <1>4, <2>1
    <3>5. Stacked(Append(s, frame), files, parsed)
      BY <1>8, <3>1, <3>2, <3>3, <3>4, StackPush
    <3>6. /\ stack' = Append(s, frame) /\ stack' # <<>>
          /\ stack'[Len(stack')] = frame
      <4>1. stack' = Append(s, frame)
        BY <1>5, <2>1 DEF s
      <4> QED
        BY <1>6, <3>1, <3>2, <4>1, AppendProperties
    <3> QED
      BY <3>1, <3>5, <3>6 DEF Awaited
  <2>2. CASE ~visited
    BY <1>5, <1>8, <2>2
  <2> QED
    BY <2>1, <2>2
<1>10. /\ edges' \in Seq(EdgeRecord) /\ Len(edges) <= Len(edges')
       /\ SubSeq(edges', 1, Len(edges)) = edges
       /\ \A i \in DOMAIN edges' : \/ edges'[i] = edge
                                   \/ i \in DOMAIN edges /\ edges'[i] = edges[i]
  BY <1>2, <1>5, AppendEdge
<1>11. partial' \in BOOLEAN /\ (partial => partial')
  BY <1>5 DEF Inv, TypeOK
<1>12. TypeOK'
  <2>1. \A f \in DOMAIN nodes' : nodes'[f] \in Node
    BY <1>7 DEF NodesOK
  <2>2. DOMAIN parsed \subseteq DOMAIN nodes'
    BY <1>7 DEF Inv, TypeOK
  <2>3. stack' \in Seq(Frame)
    BY <1>9 DEF Stacked
  <2> QED
    BY <1>1, <1>7, <1>10, <1>11, <2>1, <2>2, <2>3 DEF Inv, TypeOK
<1>13. EdgeSettled(edge, parsed, partial', stack')
  <2>1. ASSUME edge.traversal = "cycle" PROVE target \in DOMAIN parsed
    <3>1. target \in stack[Len(stack)].ancestors
      BY <1>4, <2>1 DEF Top
    <3>2. PICK j \in 1 .. Len(stack) : stack[j].file = target
      BY <1>6, <3>1 DEF Inv, Stacked, OnPath
    <3>3. OnPath(stack, j, files) /\ Placed(stack[j], parsed) /\ stack[j] \in Frame
      BY <3>2 DEF Inv, Stacked
    <3>4. stack[j].phase = "walking"
      BY <1>1, <3>3 DEF OnPath, Top, Frame
    <3> QED
      BY <3>2, <3>3, <3>4 DEF Placed, Documented
  <2> QED
    BY <1>2, <1>3, <1>4, <1>5, <1>9, <2>1 DEF EdgeSettled
<1>14. ASSUME NEW i \in DOMAIN edges
       PROVE  EdgeSettled(edges[i], parsed, partial', stack')
  <2>1. EdgeSettled(edges[i], parsed, partial, stack)
    BY DEF Inv
  <2>2. ~Awaited(stack, edges[i].target)
    BY <1>1 DEF Awaited, Top
  <2> QED
    BY <1>11, <2>1, <2>2 DEF EdgeSettled
<1>15. \A i \in DOMAIN edges' : EdgeSettled(edges'[i], parsed, partial', stack')
  BY <1>10, <1>13, <1>14
<1>16. Inv'
  BY <1>1, <1>7, <1>9, <1>12, <1>15 DEF Inv, Running
<1>17. Grows
  BY <1>1, <1>7, <1>10, <1>11 DEF Grows, Later
<1> QED
  BY <1>16, <1>17
-----------------------------------------------------------------------------
(***************************************************************************)
(* The theorems.                                                           *)
(***************************************************************************)
LEMMA NextStep == Inv /\ [Next]_vars => Inv' /\ [Grows]_vars
<1> SUFFICES ASSUME Inv, [Next]_vars PROVE Inv' /\ [Grows]_vars
  OBVIOUS
<1>1. CASE VisitRoot
  BY <1>1, VisitRootStep
<1>2. CASE VisitParsed
  BY <1>2, VisitParsedStep
<1>3. CASE \E result \in ParseResults : VisitUnparsed(result)
  BY <1>3, VisitUnparsedStep
<1>4. CASE SkipComponentReference
  BY <1>4, SkipStep
<1>5. CASE RefuseReference
  BY <1>5, RefuseStep
<1>6. CASE ProcessReference
  BY <1>6, ProcessReferenceStep
<1>7. CASE NextConfiguration
  BY <1>7, NextConfigurationStep
<1>8. CASE Return
  BY <1>8, ReturnStep
<1>9. CASE Finish
  BY <1>9, FinishStep
<1>10. CASE UNCHANGED vars
  BY <1>10 DEF vars, Inv, TypeOK, Running, Stacked, NodesSettled, EdgeSettled, Awaited
<1> QED
  BY <1>1, <1>2, <1>3, <1>4, <1>5, <1>6, <1>7, <1>8, <1>9, <1>10 DEF Next, Step, Finished

\* The invariant holds in every state of every scan.
THEOREM Invariance == Spec => []Inv
  BY InitStep, NextStep, PTL DEF Spec

\* The scanner's maps, frames and edges keep their types: every node and every
\* parsed document belongs to an indexed file, whatever the documents hold.
THEOREM TypeCorrect == Spec => []TypeOK
<1>1. Inv => TypeOK
  BY DEF Inv
<1> QED
  BY <1>1, Invariance, PTL

\* The recursion visit -> process_reference -> visit is at most one frame
\* deeper than max_reference_depth and never re-enters a document that is
\* being visited, however the references of a project form cycles.
THEOREM RecursionIsBounded == Spec => []BoundedRecursion
<1>1. Inv => BoundedRecursion
  <2> SUFFICES ASSUME Inv PROVE BoundedRecursion
    OBVIOUS
  <2>1. stack \in Seq(Frame) /\ Len(stack) \in Nat /\ Len(stack) <= MaxReferenceDepth + 1
    BY DEF Inv, Stacked
  <2>2. ASSUME NEW i \in DOMAIN stack, NEW j \in DOMAIN stack, i < j
        PROVE  stack[i].file # stack[j].file
    <3>1. i \in 1 .. j - 1 /\ j \in 1 .. Len(stack)
      BY <2>1, <2>2
    <3>2. OnPath(stack, j, files)
      BY <3>1 DEF Inv, Stacked
    <3> QED
      BY <3>1, <3>2 DEF OnPath
  <2>3. \A i, j \in DOMAIN stack : stack[i].file = stack[j].file => i = j
    BY <2>1, <2>2
  <2> QED
    BY <2>1, <2>3 DEF BoundedRecursion
<1> QED
  BY <1>1, Invariance, PTL

\* A scan is only reported complete when every reference it recorded was
\* resolved, and what it resolved to was parsed unless it was suppressed.
THEOREM CompleteIsResolved == Spec => []CompleteMeansResolved
<1>1. Inv => CompleteMeansResolved
  <2> SUFFICES ASSUME Inv, status = "complete", NEW i \in DOMAIN edges
               PROVE  /\ edges[i].resolution = "resolved"
                      /\ \/ edges[i].traversal = "suppressed"
                         \/ nodes[edges[i].target].status \in {"parsed", "partial"}
    BY DEF CompleteMeansResolved
  <2>1. ~partial /\ stack = <<>> /\ EdgeSettled(edges[i], parsed, partial, stack)
        /\ NodesSettled(nodes, parsed, partial)
    BY DEF Inv
  <2>2. edges[i] \in EdgeRecord
    BY DEF Inv, TypeOK
  <2>3. edges[i].traversal \in {"followed", "reused", "suppressed", "cycle",
                                "depth_limited", "unresolved"}
    BY <2>2 DEF EdgeRecord
  <2>4. edges[i].traversal # "suppressed" => edges[i].target \in DOMAIN parsed
    BY <2>1, <2>3 DEF EdgeSettled, Awaited
  <2> QED
    BY <2>1, <2>4 DEF EdgeSettled, NodesSettled
<1> QED
  BY <1>1, Invariance, PTL

\* No visit rewrites what an earlier one recorded: edges and parsed documents
\* stay, nodes only come nearer to a root, and no failure is taken back.
THEOREM GraphOnlyGrows == Spec => NeverRevised
  BY InitStep, NextStep, PTL DEF Spec, NeverRevised

-----------------------------------------------------------------------------
(***************************************************************************)
(* A list of references is walked once: what marks it as walked (the set   *)
(* "referenced", the processed configurations) is set when it is entered,  *)
(* and within it the position only moves on.                               *)
(***************************************************************************)
ProcessedIn(done, f) == IF f \in DOMAIN done THEN done[f] ELSE {}

\* The list that holds the reference of edge e has been entered.
Entered(e, p, marked, done) ==
  /\ e.config = 0 => e.source \in marked /\ e.ref <= Len(p[e.source].references)
  /\ e.config # 0 => e.config \in ProcessedIn(done, e.source)

\* A frame has marked the list it walks.
Marks(frame, marked, done) ==
  frame.phase = "walking" =>
    /\ frame.config = 0 => frame.file \in marked
    /\ frame.config # 0 => frame.config \in ProcessedIn(done, frame.file)

\* A frame is past the reference of edge e when that is in the list it walks.
Past(frame, e) ==
  frame.phase = "walking" /\ frame.file = e.source /\ frame.config = e.config
    => e.ref < frame.next

Behind(frame, es, marked, done) ==
  Marks(frame, marked, done) /\ \A i \in DOMAIN es : Past(frame, es[i])

Once ==
  /\ \A i \in DOMAIN edges : Entered(edges[i], parsed, referenced, processed)
  /\ \A k \in DOMAIN stack : Behind(stack[k], edges, referenced, processed)
  /\ NothingTwice

\* Lists stay marked.
LEMMA MarksGrow ==
  ASSUME NEW marked, NEW more, marked \subseteq more,
         NEW done, NEW further, \A f : ProcessedIn(done, f) \subseteq ProcessedIn(further, f),
         NEW es, NEW frame, Behind(frame, es, marked, done)
  PROVE  Behind(frame, es, more, further)
  BY DEF Behind, Marks

\* A step that adds no edge keeps Once when every frame is an old one or has
\* no edge of its list ahead of it.
LEMMA OnceKept ==
  ASSUME Inv, Once, edges' = edges, referenced \subseteq referenced',
         \A f : ProcessedIn(processed, f) \subseteq ProcessedIn(processed', f),
         \A f \in DOMAIN parsed : parsed'[f] = parsed[f],
         \A k \in DOMAIN stack' : \/ \E j \in DOMAIN stack : stack'[k] = stack[j]
                                  \/ Behind(stack'[k], edges, referenced', processed')
  PROVE  Once'
<1>1. ASSUME NEW i \in DOMAIN edges
      PROVE  Entered(edges[i], parsed', referenced', processed')
  <2>1. Entered(edges[i], parsed, referenced, processed)
    BY DEF Once
  <2>2. referenced \subseteq DOMAIN parsed
    BY DEF Inv, TypeOK
  <2> QED
    BY <2>1, <2>2 DEF Entered
<1>2. ASSUME NEW k \in DOMAIN stack'
      PROVE  Behind(stack'[k], edges, referenced', processed')
  BY MarksGrow DEF Once
<1>3. NothingTwice'
  BY DEF Once, NothingTwice
<1> QED
  BY <1>1, <1>2, <1>3 DEF Once

\* The frames of a stack whose innermost one was replaced.
LEMMA ReplacedFrames ==
  ASSUME Inv, stack # <<>>, NEW frame, NEW k \in DOMAIN ReplaceTop(frame)
  PROVE  \/ k = Len(stack) /\ ReplaceTop(frame)[k] = frame
         \/ k \in DOMAIN stack /\ k # Len(stack) /\ ReplaceTop(frame)[k] = stack[k]
  BY TopFacts DEF ReplaceTop

LEMMA PoppedFrames ==
  ASSUME Inv, stack # <<>>, NEW k \in DOMAIN Pop
  PROVE  \E j \in DOMAIN stack : Pop[k] = stack[j]
<1>1. stack \in Seq(Frame) /\ Len(stack) \in Nat \ {0}
  BY TopFacts
<1>2. k \in 1 .. Len(stack) - 1 /\ Pop[k] = stack[k]
  BY DEF Pop
<1>3. k \in DOMAIN stack
  BY <1>1, <1>2
<1> QED
  BY <1>2, <1>3

\* Frames other than the innermost walk other documents.
LEMMA OtherFiles ==
  ASSUME Inv, stack # <<>>, NEW k \in DOMAIN stack, k # Len(stack)
  PROVE  stack[k].file # Top.file
<1>1. stack \in Seq(Frame) /\ Len(stack) \in Nat \ {0} /\ k \in 1 .. Len(stack) - 1
  BY TopFacts
<1>2. OnPath(stack, Len(stack), files)
  BY <1>1 DEF Inv, Stacked
<1> QED
  BY <1>1, <1>2 DEF OnPath, Top

LEMMA TopBehind ==
  ASSUME Inv, Once, stack # <<>>
  PROVE  Behind(Top, edges, referenced, processed)
<1>1. Len(stack) \in DOMAIN stack
  BY TopFacts
<1> QED
  BY <1>1 DEF Once, Top

LEMMA EdgeTyped ==
  ASSUME Inv, NEW i \in DOMAIN edges
  PROVE  edges[i] \in EdgeRecord /\ edges[i].ref \in Nat /\ edges[i].config \in Nat
<1>1. edges \in Seq(EdgeRecord) /\ i \in 1 .. Len(edges)
  BY DEF Inv, TypeOK
<1>2. edges[i] \in EdgeRecord
  BY <1>1, ElementOfSeq
<1> QED
  BY <1>2 DEF EdgeRecord

\* Moving on in a list leaves no edge of it ahead.
LEMMA AdvancedBehind ==
  ASSUME Inv, Once, stack # <<>>, Top.phase = "walking"
  PROVE  /\ Behind(Advanced, edges, referenced, processed)
         /\ Advanced.config = Top.config /\ Advanced.next = Top.next + 1
<1>1. /\ Advanced.phase = Top.phase /\ Advanced.file = Top.file
      /\ Advanced.config = Top.config /\ Advanced.next = Top.next + 1 /\ Top.next \in Nat
  BY TopFacts DEF Advanced, Frame
<1>2. Behind(Top, edges, referenced, processed)
  BY TopBehind
<1>3. \A i \in DOMAIN edges : edges[i].ref \in Nat
  BY EdgeTyped
<1> QED
  BY <1>1, <1>2, <1>3 DEF Behind, Marks, Past

-----------------------------------------------------------------------------
LEMMA OnceInit == Init => Once
  BY DEF Init, Once, NothingTwice

\* Steps past a reference that adds no edge, and back from a visit.
LEMMA OnceQuiet ==
  ASSUME Inv, Once, stack # <<>>, Top.phase = "walking",
         stack' = ReplaceTop(Advanced) \/ stack' = Pop,
         UNCHANGED <<edges, parsed, referenced, processed>>
  PROVE  Once'
<1>1. ASSUME NEW k \in DOMAIN stack'
      PROVE  \/ \E j \in DOMAIN stack : stack'[k] = stack[j]
             \/ Behind(stack'[k], edges, referenced', processed')
  <2>1. CASE stack' = Pop
    BY <2>1, PoppedFrames
  <2>2. CASE stack' = ReplaceTop(Advanced)
    <3>1. \/ k = Len(stack) /\ stack'[k] = Advanced
          \/ k \in DOMAIN stack /\ stack'[k] = stack[k]
      BY <2>2, ReplacedFrames
    <3> QED
      BY <3>1, AdvancedBehind
  <2> QED
    BY <2>1, <2>2
<1> QED
  BY <1>1, OnceKept

\* A first visit finds no edge of its document, a later one skips the list.
LEMMA OnceEnter ==
  ASSUME Inv, Once, Active("called"), NEW document, NEW ns, NEW incomplete,
         document \in Document, Enter(document, ns, incomplete),
         Top.file \in referenced => document = parsed[Top.file],
         \A f \in DOMAIN parsed : parsed'[f] = parsed[f],
         UNCHANGED <<edges, processed>>
  PROVE  Once'
<1> DEFINE next == IF Top.file \in referenced THEN Len(document.references) + 1 ELSE 1
           frame == [Top EXCEPT !.phase = "walking",
                                !.pending = Selection(document, Top.requested), !.next = next]
<1>1. stack # <<>> /\ Top \in Frame /\ Top.config = 0
  BY TopFacts DEF Active, Placed
<1>2. stack' = ReplaceTop(frame) /\ referenced' = referenced \cup {Top.file}
  BY DEF Enter
<1>3. /\ frame.file = Top.file /\ frame.config = 0 /\ frame.next = next
  BY <1>1 DEF Frame
<1>4. ASSUME NEW i \in DOMAIN edges PROVE Past(frame, edges[i])
  <2> SUFFICES ASSUME edges[i].source = Top.file, edges[i].config = 0
               PROVE  edges[i].ref < next
    BY <1>3 DEF Past
  <2>1. Top.file \in referenced /\ edges[i].ref <= Len(parsed[Top.file].references)
    BY DEF Once, Entered
  <2>2. edges[i].ref \in Nat
    BY EdgeTyped
  <2>3. Len(document.references) \in Nat
    BY DEF Document
  <2> QED
    BY <2>1, <2>2, <2>3
<1> HIDE DEF next, frame
<1>5. Behind(frame, edges, referenced', processed')
  BY <1>2, <1>3, <1>4 DEF Behind, Marks
<1>6. \A k \in DOMAIN stack' : \/ \E j \in DOMAIN stack : stack'[k] = stack[j]
                               \/ Behind(stack'[k], edges, referenced', processed')
  BY <1>1, <1>2, <1>5, ReplacedFrames
<1> QED
  BY <1>2, <1>6, OnceKept

LEMMA OnceVisitParsed == Inv /\ Once /\ VisitParsed => Once'
<1> SUFFICES ASSUME Inv, Once, VisitParsed PROVE Once'
  OBVIOUS
<1> DEFINE ns == EnsureNode(nodes, Top.file, Top.depth, Top.root)
<1>1. /\ Active("called") /\ Top.file \in DOMAIN parsed /\ stack # <<>>
      /\ UNCHANGED <<files, parsed, processed, edges, rejected, roots, status>>
  BY DEF VisitParsed, Active
<1>2. CASE parsed[Top.file] = NONE
  <2>1. stack' = Pop /\ referenced' = referenced
    BY <1>2 DEF VisitParsed, Leave
  <2>2. \A k \in DOMAIN stack' : \E j \in DOMAIN stack : stack'[k] = stack[j]
    BY <1>1, <2>1, PoppedFrames
  <2> QED
    BY <1>1, <2>1, <2>2, OnceKept
<1>3. CASE parsed[Top.file] # NONE
  <2>1. Enter(parsed[Top.file], ns, partial)
    BY <1>3 DEF VisitParsed
  <2>2. parsed[Top.file] \in Document
    BY <1>1, <1>3 DEF Inv, TypeOK
  <2> HIDE DEF ns
  <2> QED
    BY <1>1, <2>1, <2>2, OnceEnter
<1> QED
  BY <1>2, <1>3

LEMMA OnceVisitUnparsed ==
  ASSUME Inv, Once, NEW result \in ParseResults, VisitUnparsed(result)
  PROVE  Once'
<1> DEFINE document == result.document
           ns == RecordParse(EnsureNode(nodes, Top.file, Top.depth, Top.root),
                             Top.file, result)
           incomplete == \/ partial
                         \/ ~Usable(result)
                         \/ Admitted(document) < Len(document.embedded)
<1>1. /\ Active("called") /\ Top.file \notin DOMAIN parsed /\ stack # <<>>
      /\ parsed' = Put(parsed, Top.file, document)
      /\ UNCHANGED <<processed, edges, roots, status>>
  BY DEF VisitUnparsed, Active
<1>2. Top.file \notin referenced /\ \A f \in DOMAIN parsed : parsed'[f] = parsed[f]
  BY <1>1 DEF Inv, TypeOK, Put
<1>3. CASE document = NONE
  <2>1. stack' = Pop /\ referenced' = referenced
    BY <1>3 DEF VisitUnparsed, Leave
  <2>2. \A k \in DOMAIN stack' : \E j \in DOMAIN stack : stack'[k] = stack[j]
    BY <1>1, <2>1, PoppedFrames
  <2> QED
    BY <1>1, <1>2, <2>1, <2>2, OnceKept
<1>4. CASE document # NONE
  <2>1. Enter(document, ns, incomplete)
    BY <1>4 DEF VisitUnparsed
  <2>2. document \in Document
    BY <1>4, ParseAssumption DEF ParseResult
  <2> HIDE DEF ns, incomplete, document
  <2> QED
    BY <1>1, <1>2, <2>1, <2>2, OnceEnter
<1> QED
  BY <1>3, <1>4

LEMMA OnceVisitRoot == Inv /\ Once /\ VisitRoot => Once'
<1> SUFFICES ASSUME Inv, Once, VisitRoot PROVE Once'
  OBVIOUS
<1> DEFINE frame == Call(Head(roots), 0, RootConfiguration, {Head(roots)}, TRUE)
<1>1. /\ stack' = <<frame>> /\ frame.phase = "called"
      /\ UNCHANGED <<files, nodes, parsed, processed, referenced, edges>>
  BY DEF VisitRoot, Call
<1> HIDE DEF frame
<1>2. \A k \in DOMAIN stack' : stack'[k] = frame
  BY <1>1
<1>3. Behind(frame, edges, referenced', processed')
  BY <1>1 DEF Behind, Marks, Past
<1> QED
  BY <1>1, <1>2, <1>3, OnceKept

\* A configuration is entered when it was not processed: no edge has it.
LEMMA OnceNextConfiguration == Inv /\ Once /\ NextConfiguration => Once'
<1> SUFFICES ASSUME Inv, Once, NextConfiguration PROVE Once'
  OBVIOUS
<1>1. /\ stack # <<>> /\ Top.phase = "walking" /\ Top \in Frame
      /\ UNCHANGED <<files, nodes, parsed, referenced, edges>>
  BY TopFacts DEF NextConfiguration, Active
<1>2. PICK c \in Top.pending :
        IF c \in ProcessedOf(Top.file)
        THEN /\ stack' = ReplaceTop([Top EXCEPT !.pending = @ \ {c}])
             /\ UNCHANGED processed
        ELSE /\ stack' = ReplaceTop([Top EXCEPT !.pending = @ \ {c},
                                               !.config = c, !.next = 1])
             /\ processed' = Put(processed, Top.file, ProcessedOf(Top.file) \cup {c})
  BY DEF NextConfiguration
<1>3. c # 0
  BY <1>1, TopFacts DEF Placed
<1>4. CASE c \in ProcessedOf(Top.file)
  <2> DEFINE frame == [Top EXCEPT !.pending = @ \ {c}]
  <2>1. stack' = ReplaceTop(frame) /\ processed' = processed
    BY <1>2, <1>4
  <2>2. /\ frame.phase = Top.phase /\ frame.file = Top.file
        /\ frame.config = Top.config /\ frame.next = Top.next
    BY <1>1 DEF Frame
  <2> HIDE DEF frame
  <2>3. Behind(frame, edges, referenced', processed')
    BY <1>1, <2>1, <2>2, TopBehind DEF Behind, Marks, Past
  <2>4. \A k \in DOMAIN stack' : \/ \E j \in DOMAIN stack : stack'[k] = stack[j]
                                 \/ Behind(stack'[k], edges, referenced', processed')
    BY <1>1, <2>1, <2>3, ReplacedFrames
  <2> QED
    BY <1>1, <2>1, <2>4, OnceKept
<1>5. CASE c \notin ProcessedOf(Top.file)
  <2> DEFINE frame == [Top EXCEPT !.pending = @ \ {c}, !.config = c, !.next = 1]
  <2>1. /\ stack' = ReplaceTop(frame)
        /\ processed' = Put(processed, Top.file, ProcessedOf(Top.file) \cup {c})
    BY <1>2, <1>5
  <2>2. frame.file = Top.file /\ frame.config = c
    BY <1>1 DEF Frame
  <2>3. /\ \A f : ProcessedIn(processed, f) \subseteq ProcessedIn(processed', f)
        /\ c \in ProcessedIn(processed', Top.file)
    BY <2>1 DEF ProcessedIn, ProcessedOf, Put
  <2> HIDE DEF frame
  <2>4. ASSUME NEW i \in DOMAIN edges PROVE Past(frame, edges[i])
    <3>1. Entered(edges[i], parsed, referenced, processed)
      BY DEF Once
    <3>2. ~(edges[i].source = Top.file /\ edges[i].config = c)
      BY <1>3, <1>5, <3>1 DEF Entered, ProcessedIn, ProcessedOf
    <3> QED
      BY <2>2, <3>2 DEF Past
  <2>5. Behind(frame, edges, referenced', processed')
    BY <1>3, <2>2, <2>3, <2>4 DEF Behind, Marks
  <2>6. \A k \in DOMAIN stack' : \/ \E j \in DOMAIN stack : stack'[k] = stack[j]
                                 \/ Behind(stack'[k], edges, referenced', processed')
    BY <1>1, <2>1, <2>5, ReplacedFrames
  <2> QED
    BY <1>1, <2>3, <2>6, OnceKept
<1> QED
  BY <1>4, <1>5

\* The edge of the current reference has an identity of its own, because the
\* frame was past every edge of its list.
LEMMA OnceProcess == Inv /\ Once /\ ProcessReference => Once'
<1> SUFFICES ASSUME Inv, Once, ProcessReference PROVE Once'
  OBVIOUS
<1> DEFINE edge == Edge(Top.file, Top, Current)
           frame == Call(edge.target, Top.depth + 1, Current.configuration,
                         Top.ancestors \cup {edge.target}, FALSE)
<1>1. /\ stack # <<>> /\ Top.phase = "walking" /\ ~Exhausted
      /\ edges' = Append(edges, edge)
      /\ stack' = ReplaceTop(Advanced) \/ stack' = Append(ReplaceTop(Advanced), frame)
      /\ UNCHANGED <<parsed, processed, referenced>>
  BY DEF ProcessReference, AtReference, Active
<1>2. /\ edge.source = Top.file /\ edge.config = Top.config /\ edge.ref = Top.next
      /\ frame.phase = "called"
  BY DEF Edge, Call
<1>3. edge \in EdgeRecord
  BY <1>1, EdgeFacts
<1> HIDE DEF edge, frame
<1>4. /\ DOMAIN edges' = DOMAIN edges \cup {Len(edges) + 1} /\ Len(edges) + 1 \notin DOMAIN edges
      /\ \A i \in DOMAIN edges : edges'[i] = edges[i]
      /\ edges'[Len(edges) + 1] = edge
  <2>1. edges \in Seq(EdgeRecord) /\ Len(edges) \in Nat
    BY DEF Inv, TypeOK
  <2>2. /\ edges' \in Seq(EdgeRecord) /\ Len(edges') = Len(edges) + 1
        /\ \A i \in 1 .. Len(edges) : edges'[i] = edges[i]
        /\ edges'[Len(edges) + 1] = edge
    BY <1>1, <1>3, <2>1, AppendProperties
  <2> QED
    BY <2>1, <2>2
<1>5. Behind(Top, edges, referenced, processed)
  BY <1>1, TopBehind
<1>6. Entered(edge, parsed, referenced, processed)
  <2>1. CASE Top.config = 0
    <3>1. Top.next \in Nat /\ References(Top) \in Seq(Seed)
      BY <1>1, TopFacts, WalkingFacts DEF Frame
    <3>2. References(Top) = parsed[Top.file].references
      BY <2>1 DEF References
    <3>3. Top.next <= Len(parsed[Top.file].references)
      BY <1>1, <3>1, <3>2 DEF Exhausted
    <3> QED
      BY <1>1, <1>2, <1>5, <2>1, <3>3 DEF Entered, Behind, Marks
  <2>2. CASE Top.config # 0
    BY <1>1, <1>2, <1>5, <2>2 DEF Entered, Behind, Marks
  <2> QED
    BY <2>1, <2>2
<1>7. NothingTwice'
  <2>1. \A i \in DOMAIN edges : Identity(edges[i]) # Identity(edge)
    <3> SUFFICES ASSUME NEW i \in DOMAIN edges, Identity(edges[i]) = Identity(edge)
                 PROVE  FALSE
      OBVIOUS
    <3>1. /\ edges[i].source = Top.file /\ edges[i].config = Top.config
          /\ edges[i].ref = Top.next
      BY <1>2 DEF Identity
    <3>2. Top.next \in Nat
      BY <1>1, TopFacts DEF Frame
    <3> QED
      BY <1>1, <1>5, <3>1, <3>2 DEF Behind, Past
  <2>2. \A i, j \in DOMAIN edges : Identity(edges[i]) = Identity(edges[j]) => i = j
    BY DEF Once, NothingTwice
  <2>3. ASSUME NEW i \in DOMAIN edges', NEW j \in DOMAIN edges',
               Identity(edges'[i]) = Identity(edges'[j])
        PROVE  i = j
    BY <1>4, <2>1, <2>2, <2>3
  <2> QED
    BY <2>3 DEF NothingTwice
<1>8. \A i \in DOMAIN edges' : Entered(edges'[i], parsed', referenced', processed')
  BY <1>1, <1>4, <1>6 DEF Once
<1>9. Behind(Advanced, edges', referenced', processed')
  <2>1. /\ Behind(Advanced, edges, referenced, processed)
        /\ Advanced.next = Top.next + 1 /\ Top.next \in Nat
    BY <1>1, AdvancedBehind, TopFacts DEF Frame
  <2>2. Past(Advanced, edge)
    BY <1>2, <2>1 DEF Past
  <2> QED
    BY <1>1, <1>4, <2>1, <2>2 DEF Behind
<1>10. ASSUME NEW j \in DOMAIN stack, j # Len(stack)
       PROVE  Behind(stack[j], edges', referenced', processed')
  <2>1. Behind(stack[j], edges, referenced, processed)
    BY DEF Once
  <2>2. Past(stack[j], edge)
    BY <1>1, <1>2, <1>10, OtherFiles DEF Past
  <2> QED
    BY <1>1, <1>4, <2>1, <2>2 DEF Behind
<1>11. ASSUME NEW k \in DOMAIN ReplaceTop(Advanced)
       PROVE  Behind(ReplaceTop(Advanced)[k], edges', referenced', processed')
  BY <1>1, <1>9, <1>10, ReplacedFrames
<1>12. Behind(frame, edges', referenced', processed')
  BY <1>2 DEF Behind, Marks, Past
<1>13. ASSUME NEW k \in DOMAIN stack'
       PROVE  Behind(stack'[k], edges', referenced', processed')
  <2>1. CASE stack' = ReplaceTop(Advanced)
    BY <1>11, <2>1
  <2>2. CASE stack' = Append(ReplaceTop(Advanced), frame)
    <3> DEFINE base == ReplaceTop(Advanced)
    <3>1. base \in Seq(Frame)
      BY <1>1, AdvancedFacts DEF Stacked
    <3> HIDE DEF base
    <3>2. (k \in DOMAIN base /\ stack'[k] = base[k]) \/ stack'[k] = frame
      BY <2>2, <3>1 DEF base
    <3> QED
      BY <1>11, <1>12, <3>2 DEF base
  <2> QED
    BY <1>1, <2>1, <2>2
<1> QED
  BY <1>7, <1>8, <1>13 DEF Once

LEMMA OnceUnchanged ==
  ASSUME Inv, Once, UNCHANGED <<edges, parsed, referenced, processed, stack>>
  PROVE  Once'
  BY DEF Once, NothingTwice

LEMMA OnceStep == Inv /\ Once /\ [Next]_vars => Once'
<1> SUFFICES ASSUME Inv, Once, [Next]_vars PROVE Once'
  OBVIOUS
<1>1. CASE SkipComponentReference
  BY <1>1, OnceQuiet DEF SkipComponentReference, Active
<1>2. CASE RefuseReference
  BY <1>2, OnceQuiet DEF RefuseReference, AtReference, Active
<1>3. CASE Return
  BY <1>3, OnceQuiet DEF Return, Active
<1>4. CASE VisitRoot
  BY <1>4, OnceVisitRoot
<1>5. CASE VisitParsed
  BY <1>5, OnceVisitParsed
<1>6. CASE \E result \in ParseResults : VisitUnparsed(result)
  BY <1>6, OnceVisitUnparsed
<1>7. CASE ProcessReference
  BY <1>7, OnceProcess
<1>8. CASE NextConfiguration
  BY <1>8, OnceNextConfiguration
<1>9. CASE Finish
  BY <1>9, OnceUnchanged DEF Finish
<1>10. CASE Finished \/ UNCHANGED vars
  BY <1>10, OnceUnchanged DEF Finished, vars
<1> QED
  BY <1>1, <1>2, <1>3, <1>4, <1>5, <1>6, <1>7, <1>8, <1>9, <1>10 DEF Next, Step

\* However often a document or a configuration is visited, each stored
\* reference becomes at most one edge of the graph.
THEOREM ReferencesOnce == Spec => []NothingTwice
<1>1. Init => Inv /\ Once
  BY InitStep, OnceInit
<1>2. Inv /\ Once /\ [Next]_vars => Inv' /\ Once'
  BY NextStep, OnceStep
<1>3. Once => NothingTwice
  BY DEF Once
<1> QED
  BY <1>1, <1>2, <1>3, PTL DEF Spec

-----------------------------------------------------------------------------
(***************************************************************************)
(* Documents met for the first time.                                       *)
(***************************************************************************)
RootFile(f) == \E r \in DOMAIN Roots : Roots[r] = f

\* A followed edge among the first n leads to the file.
Led(es, n, f) ==
  \E i \in 1 .. n : es[i].traversal = "followed" /\ es[i].target = f

\* What the edges say of each other.
EdgesInOrder(es) ==
  /\ \A i, j \in DOMAIN es :
       /\ es[i].traversal = "followed" /\ es[j].traversal = "followed"
       /\ es[i].target = es[j].target
       => i = j
  /\ \A j \in DOMAIN es : es[j].traversal = "reused" =>
       RootFile(es[j].target) \/ Led(es, j - 1, es[j].target)
  /\ \A j \in DOMAIN es : es[j].traversal = "unresolved" => es[j].target = NONE

\* A parsed file was a root or followed; its node remembers a root.
FirstMet(f, ns, es) ==
  /\ RootFile(f) \/ Led(es, Len(es), f)
  /\ ns[f].root \/ Led(es, Len(es), f)

\* A frame of a root visit is at a root; a file about to be parsed was followed
\* unless it is visited as a root.
Sent(frame, p, es) ==
  /\ frame.root => RootFile(frame.file)
  /\ frame.phase = "called" /\ frame.file \notin DOMAIN p
       => frame.root \/ Led(es, Len(es), frame.file)

Contact ==
  /\ EdgesInOrder(edges)
  /\ \A f \in DOMAIN parsed : FirstMet(f, nodes, edges)
  /\ \A k \in DOMAIN stack : Sent(stack[k], parsed, edges)
  /\ \A i \in DOMAIN roots : RootFile(roots[i])
  /\ status # "running" => stack = <<>>

-----------------------------------------------------------------------------
(***************************************************************************)
(* A node once marked as a root stays one.                                 *)
(***************************************************************************)
KeepsRoots(ns, ms) == \A f \in DOMAIN ns : ns[f].root => ms[f].root

LEMMA EnsureKeepsRoots ==
  ASSUME NEW ns, NodesOK(ns), NEW file, NEW depth \in Nat, NEW isRoot \in BOOLEAN
  PROVE  /\ KeepsRoots(ns, EnsureNode(ns, file, depth, isRoot))
         /\ isRoot => EnsureNode(ns, file, depth, isRoot)[file].root
<1> DEFINE ms == EnsureNode(ns, file, depth, isRoot)
<1>1. \A f \in DOMAIN ns : f # file => ms[f] = ns[f]
  BY DEF EnsureNode, Put
<1>2. CASE file \in DOMAIN ns
  <2>1. ns[file] \in Node
    BY <1>2 DEF NodesOK
  <2> DEFINE nearer == IF depth < ns[file].depth THEN depth ELSE ns[file].depth
  <2>2. ms[file] = [ns[file] EXCEPT !.depth = nearer, !.root = ns[file].root \/ isRoot]
    BY <1>2 DEF EnsureNode, Put
  <2> HIDE DEF nearer, ms
  <2>3. ms[file].root = (ns[file].root \/ isRoot)
    BY <2>1, <2>2 DEF Node
  <2>4. KeepsRoots(ns, ms) /\ (isRoot => ms[file].root)
    BY <1>1, <2>3 DEF KeepsRoots
  <2> QED
    BY <2>4 DEF ms
<1>3. CASE file \notin DOMAIN ns
  <2>1. ms[file].root = isRoot
    BY <1>3 DEF EnsureNode, Put, FreshNode
  <2> QED
    BY <1>1, <1>3, <2>1 DEF KeepsRoots
<1> QED
  BY <1>2, <1>3

LEMMA RequestKeepsRoots ==
  ASSUME NEW ns, NodesOK(ns), NEW file, NEW name
  PROVE  KeepsRoots(ns, RecordRequest(ns, file, name))
<1> SUFFICES ASSUME NEW f \in DOMAIN ns PROVE RecordRequest(ns, file, name)[f].root = ns[f].root
  BY DEF KeepsRoots
<1>1. ns[f] \in Node
  BY DEF NodesOK
<1> QED
  BY <1>1 DEF RecordRequest, Node

LEMMA SelectedKeepsRoots ==
  ASSUME NEW ns, NodesOK(ns), NEW file, NEW indices
  PROVE  KeepsRoots(ns, RecordSelected(ns, file, indices))
<1> SUFFICES ASSUME NEW f \in DOMAIN ns
             PROVE  RecordSelected(ns, file, indices)[f].root = ns[f].root
  BY DEF KeepsRoots
<1>1. ns[f] \in Node
  BY DEF NodesOK
<1> QED
  BY <1>1 DEF RecordSelected, Node

LEMMA ParseKeepsRoots ==
  ASSUME NEW ns, NodesOK(ns), NEW file, NEW result
  PROVE  KeepsRoots(ns, RecordParse(ns, file, result))
<1> SUFFICES ASSUME NEW f \in DOMAIN ns
             PROVE  RecordParse(ns, file, result)[f].root = ns[f].root
  BY DEF KeepsRoots
<1>1. ns[f] \in Node
  BY DEF NodesOK
<1> QED
  BY <1>1 DEF RecordParse, Node

\* Entering a document.
LEMMA EnterKeepsRoots ==
  ASSUME NEW ns, NodesOK(ns), NEW file \in DOMAIN ns, NEW name \in Names \cup {NONE},
         NEW indices, NEW ms, ms = RecordSelected(RecordRequest(ns, file, name), file, indices)
  PROVE  KeepsRoots(ns, ms)
<1> DEFINE ls == RecordRequest(ns, file, name)
<1>1. DOMAIN ls = DOMAIN ns /\ NodesOK(ls) /\ KeepsRoots(ns, ls)
  BY RequestKeepsRoots, RecordRequestFacts
<1>2. ms = RecordSelected(ls, file, indices)
  OBVIOUS
<1> HIDE DEF ls
<1>3. KeepsRoots(ls, ms)
  BY <1>1, <1>2, SelectedKeepsRoots
<1> QED
  BY <1>1, <1>3 DEF KeepsRoots

-----------------------------------------------------------------------------
\* A step that adds no edge: what it parses was a root or followed, and its
\* frames are old ones or walk where the innermost one did.
LEMMA ContactKept ==
  ASSUME Inv, Contact, edges' = edges, KeepsRoots(nodes, nodes'),
         DOMAIN parsed \subseteq DOMAIN parsed',
         \A f \in DOMAIN parsed' \ DOMAIN parsed : FirstMet(f, nodes', edges),
         \A k \in DOMAIN stack' : \/ \E j \in DOMAIN stack : stack'[k] = stack[j]
                                  \/ Sent(stack'[k], parsed', edges),
         \A i \in DOMAIN roots' : RootFile(roots'[i]),
         status' # "running" => stack' = <<>>
  PROVE  Contact'
<1>1. ASSUME NEW f \in DOMAIN parsed PROVE FirstMet(f, nodes', edges)
  <2>1. FirstMet(f, nodes, edges) /\ f \in DOMAIN nodes
    BY DEF Contact, Inv, TypeOK
  <2> QED
    BY <2>1 DEF FirstMet, KeepsRoots
<1>2. ASSUME NEW j \in DOMAIN stack PROVE Sent(stack[j], parsed', edges)
  BY DEF Contact, Sent
<1>3. \A f \in DOMAIN parsed' : FirstMet(f, nodes', edges)
  BY <1>1
<1>4. \A k \in DOMAIN stack' : Sent(stack'[k], parsed', edges)
  BY <1>2
<1> QED
  BY <1>3, <1>4 DEF Contact

LEMMA TopSent ==
  ASSUME Inv, Contact, stack # <<>>
  PROVE  Sent(Top, parsed, edges)
<1>1. Len(stack) \in DOMAIN stack
  BY TopFacts
<1> QED
  BY <1>1 DEF Contact, Top

\* Steps of a walking frame that leave the graph alone.
LEMMA ContactQuiet ==
  ASSUME Inv, Contact, stack # <<>>, NEW frame,
         frame.phase = "walking", frame.file = Top.file, frame.root = Top.root,
         stack' = ReplaceTop(frame) \/ stack' = Pop, Running,
         UNCHANGED <<edges, parsed, nodes, roots, status>>
  PROVE  Contact'
<1>1. Sent(frame, parsed, edges)
  BY TopSent DEF Sent
<1>2. ASSUME NEW k \in DOMAIN stack'
      PROVE  (\E j \in DOMAIN stack : stack'[k] = stack[j]) \/ Sent(stack'[k], parsed', edges)
  BY <1>1, PoppedFrames, ReplacedFrames
<1>3. KeepsRoots(nodes, nodes') /\ \A i \in DOMAIN roots' : RootFile(roots'[i])
  BY DEF KeepsRoots, Contact
<1>4. status' # "running" => stack' = <<>>
  BY DEF Running
<1> QED
  BY <1>2, <1>3, <1>4, ContactKept

LEMMA ContactInit == Init => Contact
<1> SUFFICES ASSUME Init PROVE Contact
  OBVIOUS
<1>1. /\ DOMAIN edges = {} /\ DOMAIN parsed = {} /\ DOMAIN stack = {}
      /\ roots = Roots /\ stack = <<>>
  BY DEF Init
<1> QED
  BY <1>1 DEF Contact, EdgesInOrder, RootFile

LEMMA ContactVisitRoot == Inv /\ Contact /\ VisitRoot => Contact'
<1> SUFFICES ASSUME Inv, Contact, VisitRoot PROVE Contact'
  OBVIOUS
<1> DEFINE frame == Call(Head(roots), 0, RootConfiguration, {Head(roots)}, TRUE)
<1>1. /\ stack' = <<frame>> /\ roots' = Tail(roots) /\ roots # <<>> /\ Running
      /\ UNCHANGED <<nodes, parsed, edges, status>>
  BY DEF VisitRoot
<1>2. frame.file = Head(roots) /\ frame.root = TRUE
  BY DEF Call
<1>3. roots \in Seq(HostFile)
  BY DEF Inv, TypeOK
<1>4. Head(roots) = roots[1] /\ 1 \in DOMAIN roots
      /\ \A i \in DOMAIN Tail(roots) : i + 1 \in DOMAIN roots /\ Tail(roots)[i] = roots[i + 1]
  BY <1>1, <1>3
<1> HIDE DEF frame
<1>5. Sent(frame, parsed', edges)
  BY <1>2, <1>4 DEF Sent, Contact
<1>6. \A k \in DOMAIN stack' : Sent(stack'[k], parsed', edges)
  BY <1>1, <1>5
<1>7. \A i \in DOMAIN roots' : RootFile(roots'[i])
  BY <1>1, <1>4 DEF Contact
<1> QED
  BY <1>1, <1>6, <1>7, ContactKept DEF KeepsRoots, Running

LEMMA ContactNextConfiguration == Inv /\ Contact /\ NextConfiguration => Contact'
<1> SUFFICES ASSUME Inv, Contact, NextConfiguration PROVE Contact'
  OBVIOUS
<1>1. /\ stack # <<>> /\ Top.phase = "walking" /\ Top \in Frame /\ Running
      /\ UNCHANGED <<nodes, parsed, edges, roots, status>>
  BY TopFacts DEF NextConfiguration, Active
<1>2. PICK c \in Top.pending :
        \/ stack' = ReplaceTop([Top EXCEPT !.pending = @ \ {c}])
        \/ stack' = ReplaceTop([Top EXCEPT !.pending = @ \ {c}, !.config = c, !.next = 1])
  BY DEF NextConfiguration
<1> DEFINE skipped == [Top EXCEPT !.pending = @ \ {c}]
           entered == [Top EXCEPT !.pending = @ \ {c}, !.config = c, !.next = 1]
<1>3. skipped.phase = "walking" /\ skipped.file = Top.file /\ skipped.root = Top.root
  BY <1>1 DEF Frame
<1>4. entered.phase = "walking" /\ entered.file = Top.file /\ entered.root = Top.root
  BY <1>1 DEF Frame
<1>5. stack' = ReplaceTop(skipped) \/ stack' = ReplaceTop(entered)
  BY <1>2
<1> HIDE DEF skipped, entered
<1> QED
  BY <1>1, <1>3, <1>4, <1>5, ContactQuiet

\* Entering a document replaces the innermost frame by one that walks it.
LEMMA EnteredSent ==
  ASSUME Inv, Contact, Active("called"), NEW document, NEW ns, NEW incomplete,
         Enter(document, ns, incomplete), NEW k \in DOMAIN stack', NEW p
  PROVE  (\E j \in DOMAIN stack : stack'[k] = stack[j]) \/ Sent(stack'[k], p, edges)
<1> DEFINE next == IF Top.file \in referenced THEN Len(document.references) + 1 ELSE 1
           frame == [Top EXCEPT !.phase = "walking",
                                !.pending = Selection(document, Top.requested), !.next = next]
<1>1. stack # <<>> /\ Top \in Frame /\ Sent(Top, parsed, edges)
  BY TopFacts, TopSent DEF Active
<1>2. stack' = ReplaceTop(frame)
  BY DEF Enter
<1>3. frame.phase = "walking" /\ frame.file = Top.file /\ frame.root = Top.root
  BY <1>1 DEF Frame
<1> HIDE DEF frame
<1>4. Sent(frame, p, edges)
  BY <1>1, <1>3 DEF Sent
<1> QED
  BY <1>1, <1>2, <1>4, ReplacedFrames

LEMMA ContactVisitParsed == Inv /\ Contact /\ VisitParsed => Contact'
<1> SUFFICES ASSUME Inv, Contact, VisitParsed PROVE Contact'
  OBVIOUS
<1> DEFINE ns == EnsureNode(nodes, Top.file, Top.depth, Top.root)
<1>1. /\ Active("called") /\ Top.file \in DOMAIN parsed /\ stack # <<>> /\ Running
      /\ UNCHANGED <<parsed, edges, roots, status>>
  BY DEF VisitParsed, Active
<1>2. Top \in Frame /\ Top.depth \in Nat /\ Top.root \in BOOLEAN
      /\ Top.requested \in Names \cup {NONE}
  BY <1>1, TopFacts DEF Frame
<1>3. NodesOK(ns) /\ KeepsRoots(nodes, ns) /\ Top.file \in DOMAIN ns /\ DOMAIN nodes \subseteq DOMAIN ns
  <2>1. Met(nodes, Top.file, ns) /\ KeepsRoots(nodes, ns)
    BY <1>2, NodesUnchanged, EnsureNodeFacts, EnsureKeepsRoots
  <2> QED
    BY <2>1 DEF Met
<1> HIDE DEF ns
<1>4. CASE parsed[Top.file] = NONE
  <2>1. stack' = Pop /\ nodes' = ns
    BY <1>4 DEF VisitParsed, Leave, ns
  <2>2. \A k \in DOMAIN stack' : \E j \in DOMAIN stack : stack'[k] = stack[j]
    BY <1>1, <2>1, PoppedFrames
  <2> QED
    BY <1>1, <1>3, <2>1, <2>2, ContactKept DEF Contact, Running
<1>5. CASE parsed[Top.file] # NONE
  <2>1. Enter(parsed[Top.file], ns, partial)
    BY <1>5 DEF VisitParsed, ns
  <2>2. KeepsRoots(ns, nodes')
    BY <1>2, <1>3, <2>1, EnterKeepsRoots DEF Enter
  <2>3. KeepsRoots(nodes, nodes')
    BY <1>3, <2>2 DEF KeepsRoots
  <2>4. \A k \in DOMAIN stack' : \/ \E j \in DOMAIN stack : stack'[k] = stack[j]
                                 \/ Sent(stack'[k], parsed', edges)
    BY <1>1, <2>1, EnteredSent
  <2> QED
    BY <1>1, <2>3, <2>4, ContactKept DEF Contact, Running
<1> QED
  BY <1>4, <1>5

LEMMA ContactVisitUnparsed ==
  ASSUME Inv, Contact, NEW result \in ParseResults, VisitUnparsed(result)
  PROVE  Contact'
<1> DEFINE document == result.document
           met == EnsureNode(nodes, Top.file, Top.depth, Top.root)
           ns == RecordParse(met, Top.file, result)
           incomplete == \/ partial
                         \/ ~Usable(result)
                         \/ Admitted(document) < Len(document.embedded)
<1>1. /\ Active("called") /\ Top.file \notin DOMAIN parsed /\ stack # <<>> /\ Running
      /\ parsed' = Put(parsed, Top.file, document)
      /\ UNCHANGED <<edges, roots, status>>
  BY DEF VisitUnparsed, Active
<1>2. /\ Top \in Frame /\ Top.depth \in Nat /\ Top.root \in BOOLEAN
      /\ Top.requested \in Names \cup {NONE} /\ Top.phase = "called"
      /\ Sent(Top, parsed, edges)
  BY <1>1, TopFacts, TopSent DEF Frame, Active
<1>3. DOMAIN parsed' = DOMAIN parsed \cup {Top.file}
  BY <1>1 DEF Put
<1>4. /\ NodesOK(met) /\ KeepsRoots(nodes, met) /\ Top.file \in DOMAIN met
      /\ DOMAIN nodes \subseteq DOMAIN met /\ (Top.root => met[Top.file].root)
  <2>1. /\ Met(nodes, Top.file, met) /\ KeepsRoots(nodes, met)
        /\ Top.root => met[Top.file].root
    BY <1>2, NodesUnchanged, EnsureNodeFacts, EnsureKeepsRoots
  <2> QED
    BY <2>1 DEF Met
<1> HIDE DEF met
<1>5. DOMAIN ns = DOMAIN met /\ NodesOK(ns) /\ KeepsRoots(met, ns)
  <2>1. result \in ParseResult
    BY ParseAssumption
  <2>2. ParsedAs(met, Top.file, result.status, ns)
    BY <1>4, <2>1, RecordParseFacts
  <2> QED
    BY <1>4, <2>2, ParseKeepsRoots DEF ParsedAs
<1> HIDE DEF ns
<1>6. KeepsRoots(ns, nodes')
  <2>1. CASE document = NONE
    BY <2>1 DEF VisitUnparsed, Leave, KeepsRoots, ns, met
  <2>2. CASE document # NONE
    <3>1. Enter(document, ns, incomplete)
      BY <2>2 DEF VisitUnparsed, ns, met
    <3> QED
      BY <1>2, <1>4, <1>5, <3>1, EnterKeepsRoots DEF Enter
  <2> QED
    BY <2>1, <2>2
<1>7. KeepsRoots(nodes, nodes') /\ (Top.root => nodes'[Top.file].root)
  BY <1>4, <1>5, <1>6 DEF KeepsRoots
<1>8. FirstMet(Top.file, nodes', edges)
  BY <1>1, <1>2, <1>7 DEF FirstMet, Sent
<1>9. ASSUME NEW k \in DOMAIN stack'
      PROVE  (\E j \in DOMAIN stack : stack'[k] = stack[j]) \/ Sent(stack'[k], parsed', edges)
  <2>1. CASE document = NONE
    <3>1. stack' = Pop
      BY <2>1 DEF VisitUnparsed, Leave
    <3> QED
      BY <1>1, <3>1, PoppedFrames
  <2>2. CASE document # NONE
    <3>1. Enter(document, ns, incomplete)
      BY <2>2 DEF VisitUnparsed, ns, met
    <3> QED
      BY <1>1, <3>1, EnteredSent
  <2> QED
    BY <2>1, <2>2
<1> QED
  BY <1>1, <1>3, <1>7, <1>8, <1>9, ContactKept DEF Contact, Running

\* What a traversal status says of the target.
LEMMA TraversalFacts ==
  ASSUME Inv, Contact, stack # <<>>, Top.phase = "walking", NEW target, NEW seed
  PROVE  /\ TraversalStatus(target, seed) = "unresolved" <=> target = NONE
         /\ TraversalStatus(target, seed) = "followed" =>
              target \notin DOMAIN parsed
              /\ ~ \E i \in DOMAIN edges : edges[i].traversal = "followed"
                                           /\ edges[i].target = target
         /\ TraversalStatus(target, seed) = "reused" => target \in DOMAIN parsed
<1>1. TraversalStatus(target, seed) = "unresolved" <=> target = NONE
  BY DEF TraversalStatus
<1>2. target \in DOMAIN parsed <=> HasParseStatus(target)
  <2>1. DOMAIN parsed \subseteq DOMAIN nodes /\ NodesSettled(nodes, parsed, partial)
    BY DEF Inv, TypeOK
  <2> QED
    BY <2>1 DEF NodesSettled, HasParseStatus
<1>3. TraversalStatus(target, seed) = "followed" => ~HasParseStatus(target)
  BY DEF TraversalStatus
<1>4. TraversalStatus(target, seed) = "reused" => HasParseStatus(target)
  BY DEF TraversalStatus
<1>5. ASSUME NEW i \in DOMAIN edges, edges[i].traversal = "followed"
      PROVE  edges[i].target \in DOMAIN parsed
  BY <1>5 DEF Inv, EdgeSettled, Awaited, Top
<1> QED
  BY <1>1, <1>2, <1>3, <1>4, <1>5

LEMMA ContactProcess == Inv /\ Contact /\ ProcessReference => Contact'
<1> SUFFICES ASSUME Inv, Contact, ProcessReference PROVE Contact'
  OBVIOUS
<1> DEFINE edge == Edge(Top.file, Top, Current)
           target == Target(Top.file, Current)
           frame == Call(target, Top.depth + 1, Current.configuration,
                         Top.ancestors \cup {target}, FALSE)
           n == Len(edges)
<1>1. /\ stack # <<>> /\ Top.phase = "walking" /\ ~Exhausted /\ Running
      /\ edges' = Append(edges, edge)
      /\ nodes' = IF target = NONE THEN nodes
                  ELSE RecordRequest(EnsureNode(nodes, target, Top.depth + 1, FALSE),
                                     target, Current.configuration)
      /\ \/ stack' = ReplaceTop(Advanced)
         \/ /\ edge.traversal \in {"followed", "reused"}
            /\ stack' = Append(ReplaceTop(Advanced), frame)
      /\ UNCHANGED <<parsed, roots, status>>
  BY DEF ProcessReference, AtReference, Active, Edge
<1>2. /\ edge.target = target /\ edge.traversal = TraversalStatus(target, Current)
      /\ edge \in EdgeRecord /\ Top \in Frame
      /\ frame.phase = "called" /\ frame.file = target /\ frame.root = FALSE
  BY <1>1, EdgeFacts, TopFacts DEF Call
<1>3. KeepsRoots(nodes, nodes')
  <2>1. CASE target = NONE
    BY <1>1, <2>1 DEF KeepsRoots
  <2>2. CASE target # NONE
    <3> DEFINE ls == EnsureNode(nodes, target, Top.depth + 1, FALSE)
    <3>1. Top.depth + 1 \in Nat
      BY <1>2 DEF Frame
    <3>2. KeepsRoots(nodes, ls) /\ NodesOK(ls) /\ DOMAIN nodes \subseteq DOMAIN ls
      <4>1. Met(nodes, target, ls) /\ KeepsRoots(nodes, ls)
        BY <3>1, NodesUnchanged, EnsureNodeFacts, EnsureKeepsRoots
      <4> HIDE DEF ls
      <4> QED
        BY <4>1 DEF Met
    <3>3. nodes' = RecordRequest(ls, target, Current.configuration)
      BY <1>1, <2>2
    <3> HIDE DEF ls
    <3>4. KeepsRoots(ls, nodes')
      BY <3>2, <3>3, RequestKeepsRoots
    <3> QED
      BY <3>2, <3>4 DEF KeepsRoots
  <2> QED
    BY <2>1, <2>2
<1>4. /\ edge.traversal = "unresolved" => edge.target = NONE
      /\ edge.traversal = "followed" =>
           ~ \E i \in DOMAIN edges : edges[i].traversal = "followed"
                                     /\ edges[i].target = edge.target
      /\ edge.traversal = "reused" => edge.target \in DOMAIN parsed
  BY <1>1, <1>2, TraversalFacts
<1>5. /\ n \in Nat /\ DOMAIN edges = 1 .. n /\ Len(edges') = n + 1
      /\ DOMAIN edges' = 1 .. n + 1
      /\ \A i \in 1 .. n : edges'[i] = edges[i]
      /\ edges'[n + 1] = edge
  <2>1. edges \in Seq(EdgeRecord) /\ Len(edges) \in Nat
    BY DEF Inv, TypeOK
  <2>2. /\ edges' \in Seq(EdgeRecord) /\ Len(edges') = Len(edges) + 1
        /\ \A i \in 1 .. Len(edges) : edges'[i] = edges[i]
        /\ edges'[Len(edges) + 1] = edge
    BY <1>1, <1>2, <2>1, AppendProperties
  <2> QED
    BY <2>1, <2>2
<1> HIDE DEF edge, frame, target, n
<1>6. ASSUME NEW m \in 0 .. n, NEW f PROVE Led(edges', m, f) <=> Led(edges, m, f)
  BY <1>5 DEF Led
<1>7. ASSUME NEW f, Led(edges, n, f) PROVE Led(edges', n + 1, f)
  BY <1>5, <1>7 DEF Led
<1>8. EdgesInOrder(edges')
  <2>1. ASSUME NEW i \in DOMAIN edges', NEW j \in DOMAIN edges',
               edges'[i].traversal = "followed", edges'[j].traversal = "followed",
               edges'[i].target = edges'[j].target
        PROVE  i = j
    <3>1. CASE i \in 1 .. n /\ j \in 1 .. n
      BY <1>5, <2>1, <3>1 DEF Contact, EdgesInOrder
    <3>2. CASE i = n + 1 /\ j = n + 1
      BY <3>2
    <3>3. CASE i = n + 1 /\ j \in 1 .. n
      BY <1>4, <1>5, <2>1, <3>3
    <3>4. CASE j = n + 1 /\ i \in 1 .. n
      BY <1>4, <1>5, <2>1, <3>4
    <3> QED
      BY <1>5, <3>1, <3>2, <3>3, <3>4
  <2>2. ASSUME NEW j \in DOMAIN edges', edges'[j].traversal = "reused"
        PROVE  RootFile(edges'[j].target) \/ Led(edges', j - 1, edges'[j].target)
    <3>1. CASE j \in 1 .. n
      <4>1. j - 1 \in 0 .. n
        BY <1>5, <3>1
      <4>2. RootFile(edges[j].target) \/ Led(edges, j - 1, edges[j].target)
        BY <1>5, <2>2, <3>1 DEF Contact, EdgesInOrder
      <4> QED
        BY <1>5, <1>6, <3>1, <4>1, <4>2
    <3>2. CASE j = n + 1
      <4>1. FirstMet(edge.target, nodes, edges)
        BY <1>4, <1>5, <2>2, <3>2 DEF Contact
      <4>2. RootFile(edge.target) \/ Led(edges, n, edge.target)
        BY <4>1 DEF FirstMet, n
      <4>3. n \in 0 .. n /\ j - 1 = n
        BY <1>5, <3>2
      <4> QED
        BY <1>5, <1>6, <3>2, <4>2, <4>3
    <3> QED
      BY <1>5, <3>1, <3>2
  <2>3. ASSUME NEW j \in DOMAIN edges', edges'[j].traversal = "unresolved"
        PROVE  edges'[j].target = NONE
    BY <1>4, <1>5, <2>3 DEF Contact, EdgesInOrder
  <2> QED
    BY <2>1, <2>2, <2>3 DEF EdgesInOrder
<1>9. ASSUME NEW f \in DOMAIN parsed PROVE FirstMet(f, nodes', edges')
  <2>1. FirstMet(f, nodes, edges) /\ f \in DOMAIN nodes
    BY DEF Contact, Inv, TypeOK
  <2>2. Len(edges) = n /\ Len(edges') = n + 1
    BY <1>5 DEF n
  <2> QED
    BY <1>3, <1>7, <2>1, <2>2 DEF FirstMet, KeepsRoots
<1>10. ASSUME NEW g, Sent(g, parsed, edges) PROVE Sent(g, parsed, edges')
  <2>1. Len(edges) = n /\ Len(edges') = n + 1
    BY <1>5 DEF n
  <2> QED
    BY <1>7, <1>10, <2>1 DEF Sent
<1>11. ASSUME NEW k \in DOMAIN ReplaceTop(Advanced)
       PROVE  Sent(ReplaceTop(Advanced)[k], parsed, edges')
  <2>1. Advanced.phase = "walking" /\ Advanced.file = Top.file /\ Advanced.root = Top.root
    BY <1>1, <1>2 DEF Advanced, Frame
  <2>2. Sent(Advanced, parsed, edges)
    BY <1>1, <2>1, TopSent DEF Sent
  <2>3. \A j \in DOMAIN stack : Sent(stack[j], parsed, edges)
    BY DEF Contact
  <2> QED
    BY <1>1, <1>10, <2>2, <2>3, ReplacedFrames
<1>12. ASSUME edge.traversal \in {"followed", "reused"}
       PROVE  Sent(frame, parsed, edges')
  <2>1. CASE edge.traversal = "followed"
    <3>1. Led(edges', n + 1, target)
      BY <1>2, <1>5, <2>1 DEF Led
    <3> QED
      BY <1>2, <1>5, <3>1 DEF Sent
  <2>2. CASE edge.traversal = "reused"
    BY <1>2, <1>4, <2>2 DEF Sent
  <2> QED
    BY <1>12, <2>1, <2>2
<1>13. ASSUME NEW k \in DOMAIN stack' PROVE Sent(stack'[k], parsed, edges')
  <2>1. CASE stack' = ReplaceTop(Advanced)
    BY <1>11, <2>1
  <2>2. CASE /\ edge.traversal \in {"followed", "reused"}
             /\ stack' = Append(ReplaceTop(Advanced), frame)
    <3> DEFINE base == ReplaceTop(Advanced)
    <3>1. base \in Seq(Frame)
      BY <1>1, AdvancedFacts DEF Stacked
    <3> HIDE DEF base
    <3>2. (k \in DOMAIN base /\ stack'[k] = base[k]) \/ stack'[k] = frame
      BY <2>2, <3>1 DEF base
    <3> QED
      BY <1>11, <1>12, <2>2, <3>2 DEF base
  <2> QED
    BY <1>1, <2>1, <2>2
<1>14. (\A i \in DOMAIN roots' : RootFile(roots'[i])) /\ (status' # "running" => stack' = <<>>)
  BY <1>1 DEF Contact, Running
<1> QED
  BY <1>1, <1>8, <1>9, <1>13, <1>14 DEF Contact

LEMMA ContactStep == Inv /\ Contact /\ [Next]_vars => Contact'
<1> SUFFICES ASSUME Inv, Contact, [Next]_vars PROVE Contact'
  OBVIOUS
<1>1. CASE SkipComponentReference \/ RefuseReference \/ Return
  <2>1. /\ stack # <<>> /\ Top.phase = "walking" /\ Running /\ Top \in Frame
        /\ stack' = ReplaceTop(Advanced) \/ stack' = Pop
        /\ UNCHANGED <<edges, parsed, nodes, roots, status>>
    BY <1>1, TopFacts DEF SkipComponentReference, RefuseReference, Return, AtReference, Active
  <2>2. Advanced.phase = "walking" /\ Advanced.file = Top.file /\ Advanced.root = Top.root
    BY <2>1 DEF Advanced, Frame
  <2> QED
    BY <2>1, <2>2, ContactQuiet
<1>2. CASE VisitRoot
  BY <1>2, ContactVisitRoot
<1>3. CASE VisitParsed
  BY <1>3, ContactVisitParsed
<1>4. CASE \E result \in ParseResults : VisitUnparsed(result)
  BY <1>4, ContactVisitUnparsed
<1>5. CASE ProcessReference
  BY <1>5, ContactProcess
<1>6. CASE NextConfiguration
  BY <1>6, ContactNextConfiguration
<1>7. CASE Finish
  BY <1>7 DEF Finish, Contact
<1>8. CASE Finished \/ UNCHANGED vars
  BY <1>8 DEF Finished, vars, Contact
<1> QED
  BY <1>1, <1>2, <1>3, <1>4, <1>5, <1>6, <1>7, <1>8 DEF Next, Step

LEMMA ContactInvariant == Spec => [](Inv /\ Contact)
<1>1. Init => Inv /\ Contact
  BY InitStep, ContactInit
<1>2. Inv /\ Contact /\ [Next]_vars => Inv' /\ Contact'
  BY NextStep, ContactStep
<1> QED
  BY <1>1, <1>2, PTL DEF Spec

\* A document is parsed as a root or behind the one edge that followed it, and
\* every "reused" edge comes after that, in whatever order references lead to it.
THEOREM FirstContactHolds == Spec => []FirstContact
<1>1. Inv /\ Contact => FirstContact
  <2> SUFFICES ASSUME Inv, Contact PROVE FirstContact
    OBVIOUS
  <2>1. EdgesInOrder(edges) /\ \A f \in DOMAIN parsed : FirstMet(f, nodes, edges)
    BY DEF Contact
  <2>2. DOMAIN edges = 1 .. Len(edges)
    BY DEF Inv, TypeOK
  <2> QED
    BY <2>1, <2>2 DEF FirstContact, EdgesInOrder, FirstMet, Led, RootFile
<1> QED
  BY <1>1, ContactInvariant, PTL

\* When the scan is over, a node nothing was parsed for is one that every edge
\* to it kept away: suppressed, or beyond the depth limit.
THEOREM UnparsedWasKeptAway == Spec => []UnparsedWasHeldBack
<1>1. Inv /\ Contact => UnparsedWasHeldBack
  <2> SUFFICES ASSUME Inv, Contact, Done, NEW f \in DOMAIN nodes, nodes[f].status = NONE,
                      NEW i \in DOMAIN edges, edges[i].target = f
               PROVE  edges[i].traversal \in {"suppressed", "depth_limited"}
    BY DEF UnparsedWasHeldBack
  <2>1. f \notin DOMAIN parsed /\ f # NONE
    <3>1. f \in Nat
      BY DEF Inv, TypeOK
    <3> QED
      BY <3>1, NoneAssumption DEF Inv, NodesSettled
  <2>2. stack = <<>>
    BY DEF Contact, Done
  <2>3. edges[i].traversal \notin {"followed", "reused", "cycle"}
    BY <2>1, <2>2 DEF Inv, EdgeSettled, Awaited
  <2>4. edges[i].traversal # "unresolved"
    BY <2>1 DEF Contact, EdgesInOrder
  <2> QED
    BY <2>3, <2>4, EdgeTyped DEF EdgeRecord
<1> QED
  BY <1>1, ContactInvariant, PTL
==============================================================================
