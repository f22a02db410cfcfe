------------------------------ MODULE BomProofs ------------------------------
(***************************************************************************)
(* Theorems about a bill of materials made after a scan, for every project *)
(* and every option: occurrences are counted along their paths, every      *)
(* expansion is exact and misses no component, nothing is expanded below   *)
(* itself, quantities multiply along the paths, and a complete bill over a *)
(* complete scan leaves nothing out if the scan followed what the bill     *)
(* includes.                                                               *)
(***************************************************************************)
EXTENDS ScanBom, ProjectVerdictProofs, FoldTheorems

-----------------------------------------------------------------------------
(***************************************************************************)
(* The scan under the bill.                                                *)
(***************************************************************************)
LEMMA ScanUnderStep == [ScanBomNext]_allVars => [Next]_vars
  BY DEF ScanBomNext, Scan, MakeBill, BothDone, Next, allVars, vars

\* What holds of every scan holds under a bill, whose steps leave the scan alone.
LEMMA ScanUnderBill == ScanBomSpec => Spec
<1>1. ScanBomInit => Init
  BY DEF ScanBomInit
<1> QED
  BY <1>1, ScanUnderStep, PTL DEF ScanBomSpec, Spec

RootMet(f) ==
  \/ f \in DOMAIN parsed
  \/ \E i \in DOMAIN roots : roots[i] = f
  \/ stack # <<>> /\ Top.phase = "called" /\ Top.file = f

\* What the bill relies on: edges lead to nodes, only those of suppressed
\* references stay untraversed for it, and a finished scan has parsed its roots.
Grounded ==
  /\ Done => stack = <<>> /\ roots = <<>>
  /\ \A i \in DOMAIN edges :
       /\ edges[i].target = NONE \/ edges[i].target \in DOMAIN nodes
       /\ edges[i].traversal = "suppressed" => edges[i].suppressed = "yes" /\ ~FollowSuppressed
  /\ \A r \in DOMAIN Roots : RootMet(Roots[r])

LEMMA GroundedInit == Init => Grounded
<1> SUFFICES ASSUME Init PROVE Grounded
  OBVIOUS
<1>1. DOMAIN edges = {} /\ roots = Roots /\ ~Done
  BY DEF Init, Done
<1> QED
  BY <1>1 DEF Grounded, RootMet

\* Steps that add no edge and meet no root.
LEMMA GroundedKept ==
  ASSUME Inv, Grounded, Grows, UNCHANGED <<edges, roots, status>>, Running,
         stack # <<>> /\ Top.phase = "called" => Top.file \in DOMAIN parsed'
  PROVE  Grounded'
<1>1. \A f \in DOMAIN nodes : f \in DOMAIN nodes'
  BY DEF Grows
<1>2. \A f \in DOMAIN parsed : f \in DOMAIN parsed'
  BY DEF Grows
<1>3. ~Done'
  BY DEF Running, Done
<1>4. ASSUME NEW r \in DOMAIN Roots PROVE RootMet(Roots[r])'
  BY <1>2 DEF Grounded, RootMet
<1> QED
  BY <1>1, <1>3, <1>4 DEF Grounded

LEMMA GroundedVisitRoot ==
  ASSUME Inv, Grounded, VisitRoot
  PROVE  Grounded'
<1>1. /\ Running /\ stack = <<>> /\ roots # <<>> /\ roots \in Seq(HostFile)
      /\ stack' = <<Call(Head(roots), 0, RootConfiguration, {Head(roots)}, TRUE)>>
      /\ roots' = Tail(roots)
      /\ UNCHANGED <<nodes, parsed, edges, status>>
  BY DEF VisitRoot, Inv, TypeOK
<1>2. /\ stack' # <<>> /\ Top'.phase = "called" /\ Top'.file = roots[1]
  BY <1>1 DEF Top, Call
<1>3. ASSUME NEW i \in DOMAIN roots, i # 1
      PROVE  i - 1 \in DOMAIN roots' /\ roots'[i - 1] = roots[i]
  BY <1>1, <1>3
<1>4. ASSUME NEW r \in DOMAIN Roots PROVE RootMet(Roots[r])'
  <2>1. Roots[r] \in DOMAIN parsed \/ \E i \in DOMAIN roots : roots[i] = Roots[r]
    BY <1>1 DEF Grounded, RootMet
  <2> QED
    BY <1>1, <1>2, <1>3, <2>1 DEF RootMet
<1>5. ~Done'
  BY <1>1 DEF Running, Done
<1> QED
  BY <1>1, <1>4, <1>5 DEF Grounded

LEMMA GroundedProcess ==
  ASSUME Inv, Grounded, Grows, ProcessReference
  PROVE  Grounded'
<1> DEFINE edge == Edge(Top.file, Top, Current)
<1>1. /\ Running /\ stack # <<>> /\ Top.phase = "walking" /\ ~Exhausted
      /\ edges' = Append(edges, edge)
      /\ nodes' = IF edge.target = NONE THEN nodes
                  ELSE RecordRequest(EnsureNode(nodes, edge.target, Top.depth + 1, FALSE),
                                     edge.target, Current.configuration)
      /\ UNCHANGED <<parsed, roots, status>>
  BY DEF ProcessReference, AtReference, Active
<1>2. /\ edge \in EdgeRecord
      /\ edge.target = Target(Top.file, Current)
      /\ edge.traversal = TraversalStatus(Target(Top.file, Current), Current)
      /\ edge.suppressed = Current.suppressed
  BY <1>1, EdgeFacts DEF Edge
<1>3. Top.depth + 1 \in Nat /\ Current.configuration \in Names \cup {NONE} /\ NodesOK(nodes)
  BY SMTT(30), <1>1, TopFacts, CurrentFacts, NodesUnchanged DEF Frame, Seed
<1> HIDE DEF edge
<1>4. edge.target = NONE \/ edge.target \in DOMAIN nodes'
  <2>1. CASE edge.target # NONE
    <3>1. Met(nodes, edge.target, nodes')
      BY <1>1, <1>3, <2>1, TargetFacts
    <3> QED
      BY <3>1 DEF Met
  <2> QED
    BY <2>1
<1>5. edge.traversal = "suppressed" => edge.suppressed = "yes" /\ ~FollowSuppressed
  BY <1>2 DEF TraversalStatus
<1>6. \A i \in DOMAIN edges' : edges'[i] = edge \/ (i \in DOMAIN edges /\ edges'[i] = edges[i])
  BY <1>1, <1>2, AppendEdge
<1>7. \A f \in DOMAIN nodes : f \in DOMAIN nodes'
  BY DEF Grows
<1>8. ASSUME NEW r \in DOMAIN Roots PROVE RootMet(Roots[r])'
  BY <1>1 DEF Grounded, RootMet
<1>9. ~Done'
  BY <1>1 DEF Running, Done
<1> QED
  BY <1>4, <1>5, <1>6, <1>7, <1>8, <1>9 DEF Grounded

LEMMA GroundedStep ==
  ASSUME Inv, Grounded, [Next]_vars
  PROVE  Grounded'
<1>1. [Grows]_vars
  BY NextStep
<1>2. CASE UNCHANGED vars
  BY <1>2 DEF vars, Grounded, RootMet, Top, Done
<1>3. CASE Grows /\ ~(UNCHANGED vars)
  <2>1. CASE VisitRoot
    BY <2>1, GroundedVisitRoot
  <2>2. CASE ProcessReference
    BY <1>3, <2>2, GroundedProcess
  <2>3. CASE VisitParsed
    BY <1>3, <2>3, GroundedKept DEF VisitParsed, Active
  <2>4. ASSUME NEW result \in ParseResults, VisitUnparsed(result) PROVE Grounded'
    <3>1. Top.file \in DOMAIN parsed'
      BY <2>4 DEF VisitUnparsed, Put
    <3>2. Running /\ UNCHANGED <<edges, roots, status>>
      BY <2>4 DEF VisitUnparsed, Active
    <3> QED
      BY <1>3, <3>1, <3>2, GroundedKept
  <2>5. CASE SkipComponentReference \/ RefuseReference \/ NextConfiguration \/ Return
    <3>1. Running /\ Top.phase = "walking" /\ UNCHANGED <<edges, roots, status>>
      BY <2>5 DEF SkipComponentReference, RefuseReference, NextConfiguration, Return,
                  AtReference, Active
    <3> QED
      BY <1>3, <3>1, GroundedKept
  <2>6. CASE Finish
    <3>1. stack = <<>> /\ roots = <<>> /\ UNCHANGED <<nodes, parsed, edges, roots, stack>>
      BY <2>6 DEF Finish
    <3> QED
      BY <3>1 DEF Grounded, RootMet, Top
  <2> QED
    BY <1>3, <2>1, <2>2, <2>3, <2>4, <2>5, <2>6 DEF Next, Step, Finished
<1> QED
  BY <1>1, <1>2, <1>3

-----------------------------------------------------------------------------
(***************************************************************************)
(* The order in which the scan is done with configurations.  The walk is   *)
(* depth first: when it is done with the components of a configuration, it *)
(* is done with those of everything they led to.  So the traversed edges   *)
(* never lead from such a configuration back to itself.                    *)
(***************************************************************************)
\* A configuration whose components were walked and that is not being walked.
Closed(s, done, f, c) ==
  /\ c # 0 /\ c \in ProcessedIn(done, f)
  /\ \A k \in DOMAIN s : ~(s[k].file = f /\ s[k].config = c)

\* The configurations an edge asks of its target.
Calls(p, e) ==
  IF Documented(p, e.target) THEN Selection(p[e.target], e.requested) ELSE {}

Delivered(e, p, s, done) ==
  e.target \in DOMAIN p /\ \A c \in Calls(p, e) : Closed(s, done, e.target, c)

Called(e, s) ==
  \E k \in DOMAIN s :
    /\ k - 1 \in DOMAIN s
    /\ s[k - 1].file = e.source /\ s[k - 1].config = e.config
    /\ s[k].file = e.target /\ s[k].requested = e.requested

\* A frame still has to come to a selected configuration, is in it, or left it.
Combed(frame, p, s, done) ==
  frame.phase = "walking" =>
    /\ frame.config \notin frame.pending
    /\ \A c \in Selection(p[frame.file], frame.requested) :
         c \in frame.pending \/ c = frame.config \/ Closed(s, done, frame.file, c)

\* No traversed edge of x leads into S.
Sink(x, S, es, p) ==
  \A i \in DOMAIN es :
    Traversed(es[i]) /\ <<es[i].source, es[i].config>> = x
      => \A c \in Calls(p, es[i]) : <<es[i].target, c>> \notin S

\* Whatever closed configurations one takes, the edges lead out of one of them.
NoWayRound(s, done, es, p) ==
  \A S : /\ S # {}
         /\ \A x \in S : \E f, c : x = <<f, c>> /\ Closed(s, done, f, c)
         => \E x \in S : Sink(x, S, es, p)

Settled(es, p, s, done) ==
  \A i \in DOMAIN es : Traversed(es[i]) => Delivered(es[i], p, s, done) \/ Called(es[i], s)

Postorder ==
  /\ Settled(edges, parsed, stack, processed)
  /\ \A k \in DOMAIN stack : Combed(stack[k], parsed, stack, processed)
  /\ NoWayRound(stack, processed, edges, parsed)

\* A configuration stays closed: none is walked twice.
LEMMA ClosedStays ==
  ASSUME \A f : ProcessedIn(processed, f) \subseteq ProcessedIn(processed', f),
         \A k \in DOMAIN stack' :
           \/ stack'[k].config = 0
           \/ stack'[k].config \notin ProcessedIn(processed, stack'[k].file)
           \/ \E j \in DOMAIN stack : /\ stack'[k].file = stack[j].file
                                      /\ stack'[k].config = stack[j].config,
         NEW f, NEW c, Closed(stack, processed, f, c)
  PROVE  Closed(stack', processed', f, c)
BY DEF Closed

LEMMA CallerIsOpen ==
  ASSUME NEW e, Called(e, stack)
  PROVE  ~Closed(stack, processed, e.source, e.config)
BY DEF Called, Closed

\* What is known of a file is not unlearnt, so what was delivered stays so.
LEMMA DeliveredStays ==
  ASSUME NEW e, Delivered(e, parsed, stack, processed),
         \A f \in DOMAIN parsed : f \in DOMAIN parsed' /\ parsed'[f] = parsed[f],
         \A f, c : Closed(stack, processed, f, c) => Closed(stack', processed', f, c)
  PROVE  Delivered(e, parsed', stack', processed') /\ Calls(parsed', e) = Calls(parsed, e)
BY DEF Delivered, Calls, Documented

\* At most one more configuration is closed, whose edges lead to closed ones.
LEMMA NoWayRoundKept ==
  ASSUME Postorder, NEW f, NEW c, ~Closed(stack, processed, f, c),
         \A g, d : Closed(stack', processed', g, d) =>
                     Closed(stack, processed, g, d) \/ (g = f /\ d = c),
         \A h \in DOMAIN parsed : h \in DOMAIN parsed' /\ parsed'[h] = parsed[h],
         \A i \in DOMAIN edges' :
           /\ Traversed(edges'[i])
           /\ Closed(stack', processed', edges'[i].source, edges'[i].config)
           => /\ i \in DOMAIN edges /\ edges'[i] = edges[i]
              /\ Delivered(edges[i], parsed, stack, processed)
  PROVE  NoWayRound(stack', processed', edges', parsed')
<1> SUFFICES ASSUME NEW S, S # {},
                    \A x \in S : \E g, d : x = <<g, d>> /\ Closed(stack', processed', g, d)
             PROVE  \E x \in S : Sink(x, S, edges', parsed')
  BY DEF NoWayRound
<1> DEFINE new == <<f, c>>
           old == S \ {new}
<1>1. \A x \in old : \E g, d : x = <<g, d>> /\ Closed(stack, processed, g, d)
  OBVIOUS
<1>2. new \notin old
  OBVIOUS
<1>3. ASSUME NEW x \in S, NEW i \in DOMAIN edges', Traversed(edges'[i]),
             <<edges'[i].source, edges'[i].config>> = x,
             NEW d \in Calls(parsed', edges'[i])
      PROVE  /\ i \in DOMAIN edges /\ edges'[i] = edges[i]
             /\ d \in Calls(parsed, edges[i])
             /\ Closed(stack, processed, edges[i].target, d)
  <2>1. PICK g, b : x = <<g, b>> /\ Closed(stack', processed', g, b)
    OBVIOUS
  <2>2. edges'[i].source = g /\ edges'[i].config = b
    BY <1>3, <2>1
  <2>3. /\ i \in DOMAIN edges /\ edges'[i] = edges[i]
        /\ Delivered(edges[i], parsed, stack, processed)
    BY <1>3, <2>1, <2>2
  <2>4. Calls(parsed', edges[i]) = Calls(parsed, edges[i])
    BY <2>3 DEF Delivered, Calls, Documented
  <2>5. d \in Calls(parsed, edges[i])
    BY <2>3, <2>4
  <2> QED
    BY <2>3, <2>5 DEF Delivered
<1>4. CASE old # {}
  <2>1. PICK x \in old : Sink(x, old, edges, parsed)
    BY <1>1, <1>4 DEF Postorder, NoWayRound
  <2>2. Sink(x, S, edges', parsed')
    <3> SUFFICES ASSUME NEW i \in DOMAIN edges', Traversed(edges'[i]),
                        <<edges'[i].source, edges'[i].config>> = x,
                        NEW d \in Calls(parsed', edges'[i]), <<edges'[i].target, d>> \in S
                 PROVE  FALSE
      BY DEF Sink
    <3>1. /\ i \in DOMAIN edges /\ edges'[i] = edges[i] /\ d \in Calls(parsed, edges[i])
          /\ Closed(stack, processed, edges[i].target, d)
      BY <1>3
    <3>2. <<edges[i].target, d>> # new
      BY <3>1
    <3> QED
      BY <2>1, <3>1, <3>2 DEF Sink
  <2> QED
    BY <2>1, <2>2
<1>5. CASE old = {}
  <2>1. S = {new}
    BY <1>5
  <2>2. Sink(new, S, edges', parsed')
    <3> SUFFICES ASSUME NEW i \in DOMAIN edges', Traversed(edges'[i]),
                        <<edges'[i].source, edges'[i].config>> = new,
                        NEW d \in Calls(parsed', edges'[i]), <<edges'[i].target, d>> \in S
                 PROVE  FALSE
      BY DEF Sink
    <3>1. edges'[i] = edges[i] /\ Closed(stack, processed, edges[i].target, d)
      BY <1>3, <2>1
    <3>2. <<edges[i].target, d>> # new
      BY <3>1
    <3> QED
      BY <2>1, <3>1, <3>2
  <2> QED
    BY <2>1, <2>2
<1> QED
  BY <1>4, <1>5

\* Steps that neither record an edge nor close anything but what the top frame is in.
LEMMA PostorderKept ==
  ASSUME Postorder, edges' = edges, NEW f, NEW c, ~Closed(stack, processed, f, c),
         \A g, d : Closed(stack, processed, g, d) => Closed(stack', processed', g, d),
         \A g, d : Closed(stack', processed', g, d) =>
                     Closed(stack, processed, g, d) \/ (g = f /\ d = c),
         \A h \in DOMAIN parsed : h \in DOMAIN parsed' /\ parsed'[h] = parsed[h],
         \A i \in DOMAIN edges :
           Traversed(edges[i]) /\ edges[i].source = f /\ edges[i].config = c
             => Delivered(edges[i], parsed, stack, processed)
                \/ ~Closed(stack', processed', f, c),
         \A i \in DOMAIN edges :
           Called(edges[i], stack) =>
             Called(edges[i], stack') \/ Delivered(edges[i], parsed', stack', processed'),
         \A k \in DOMAIN stack' : Combed(stack'[k], parsed', stack', processed')
  PROVE  Postorder'
<1>1. Settled(edges', parsed', stack', processed')
  BY DeliveredStays DEF Postorder, Settled
<1>2. ASSUME NEW i \in DOMAIN edges, Traversed(edges[i]),
             Closed(stack', processed', edges[i].source, edges[i].config)
      PROVE  Delivered(edges[i], parsed, stack, processed)
  <2>1. CASE Closed(stack, processed, edges[i].source, edges[i].config)
    BY <1>2, <2>1, CallerIsOpen DEF Postorder, Settled
  <2>2. CASE edges[i].source = f /\ edges[i].config = c
    BY <1>2, <2>2
  <2> QED
    BY <1>2, <2>1, <2>2
<1>3. NoWayRound(stack', processed', edges', parsed')
  BY <1>2, NoWayRoundKept
<1> QED
  BY <1>1, <1>3 DEF Postorder

\* A frame that was combed stays so while its list stays.
LEMMA CombedStays ==
  ASSUME Inv, NEW j \in DOMAIN stack, Combed(stack[j], parsed, stack, processed),
         \A g, d : Closed(stack, processed, g, d) => Closed(stack', processed', g, d),
         \A h \in DOMAIN parsed : h \in DOMAIN parsed' /\ parsed'[h] = parsed[h]
  PROVE  Combed(stack[j], parsed', stack', processed')
<1>1. stack[j].phase = "walking" => stack[j].file \in DOMAIN parsed
  <2>1. stack \in Seq(Frame) /\ j \in 1 .. Len(stack)
    BY DEF Inv, TypeOK
  <2> QED
    BY <2>1 DEF Inv, Stacked, Placed, Documented
<1> QED
  BY <1>1 DEF Combed

\* The call of a frame stands as long as the frame and its caller do.
LEMMA CallsStand ==
  ASSUME Inv, stack # <<>>, NEW frame, frame.file = Top.file,
         frame.requested = Top.requested,
         NEW e, Called(e, stack)
  PROVE  Called(e, ReplaceTop(frame))
<1>1. /\ stack \in Seq(Frame) /\ Len(stack) \in Nat \ {0} /\ DOMAIN stack = 1 .. Len(stack)
  BY TopFacts
<1>2. PICK k \in DOMAIN stack :
        /\ k - 1 \in DOMAIN stack
        /\ stack[k - 1].file = e.source /\ stack[k - 1].config = e.config
        /\ stack[k].file = e.target /\ stack[k].requested = e.requested
  BY DEF Called
<1>3. /\ k \in DOMAIN ReplaceTop(frame) /\ k - 1 \in DOMAIN ReplaceTop(frame)
      /\ ReplaceTop(frame)[k - 1] = stack[k - 1]
      /\ ReplaceTop(frame)[k] = IF k = Len(stack) THEN frame ELSE stack[k]
  BY <1>1, <1>2 DEF ReplaceTop
<1> QED
  BY <1>2, <1>3 DEF Called, Top

LEMMA CallsStandBelow ==
  ASSUME Inv, stack # <<>>, NEW e, Called(e, stack)
  PROVE  \/ Called(e, Pop)
         \/ Top.file = e.target /\ Top.requested = e.requested
<1>1. /\ stack \in Seq(Frame) /\ Len(stack) \in Nat \ {0} /\ DOMAIN stack = 1 .. Len(stack)
  BY TopFacts
<1>2. PICK k \in DOMAIN stack :
        /\ k - 1 \in DOMAIN stack
        /\ stack[k - 1].file = e.source /\ stack[k - 1].config = e.config
        /\ stack[k].file = e.target /\ stack[k].requested = e.requested
  BY DEF Called
<1>3. CASE k # Len(stack)
  <2>1. k \in 1 .. Len(stack) - 1 /\ k - 1 \in 1 .. Len(stack) - 1
    BY <1>1, <1>2, <1>3
  <2>2. /\ DOMAIN Pop = 1 .. Len(stack) - 1
        /\ Pop[k] = stack[k] /\ Pop[k - 1] = stack[k - 1]
    BY <2>1 DEF Pop
  <2> QED
    BY <1>2, <2>1, <2>2 DEF Called
<1> QED
  BY <1>2, <1>3 DEF Top

\* What the top frame is in is open, and its caller is another frame.
LEMMA TopIsOpen ==
  ASSUME Inv, stack # <<>>
  PROVE  /\ ~Closed(stack, processed, Top.file, Top.config)
         /\ \A e : Called(e, stack) => ~(e.source = Top.file /\ e.config = Top.config)
<1>1. /\ stack \in Seq(Frame) /\ Len(stack) \in Nat \ {0} /\ DOMAIN stack = 1 .. Len(stack)
  BY TopFacts
<1>2. ASSUME NEW e, Called(e, stack) PROVE e.source # Top.file
  <2>1. PICK k \in DOMAIN stack : k - 1 \in DOMAIN stack /\ stack[k - 1].file = e.source
    BY <1>2 DEF Called
  <2>2. k - 1 # Len(stack)
    BY <1>1, <2>1
  <2> QED
    BY <2>1, <2>2, OtherFiles
<1>3. ~Closed(stack, processed, Top.file, Top.config)
  BY <1>1 DEF Closed, Top
<1> QED
  BY <1>2, <1>3

\* The top frame moves on within its list, or comes to the first of its selection.
LEMMA PostorderReplace ==
  ASSUME Inv, Postorder, stack # <<>>, NEW frame,
         stack' = ReplaceTop(frame), edges' = edges, processed' = processed,
         frame.file = Top.file, frame.requested = Top.requested, frame.config = Top.config,
         \A h \in DOMAIN parsed : h \in DOMAIN parsed' /\ parsed'[h] = parsed[h],
         Combed(frame, parsed', stack, processed)
  PROVE  Postorder'
<1>1. /\ stack \in Seq(Frame) /\ Len(stack) \in Nat \ {0} /\ DOMAIN stack = 1 .. Len(stack)
  BY TopFacts
<1>2. /\ DOMAIN stack' = DOMAIN stack
      /\ \A k \in DOMAIN stack : /\ stack'[k].file = stack[k].file
                                 /\ stack'[k].config = stack[k].config
  BY <1>1 DEF ReplaceTop, Top
<1>3. \A g, d : Closed(stack', processed', g, d) <=> Closed(stack, processed, g, d)
  BY <1>2 DEF Closed
<1>4. \A k \in DOMAIN stack' : Combed(stack'[k], parsed', stack', processed')
  <2>1. Combed(frame, parsed', stack', processed')
    BY <1>3 DEF Combed
  <2>2. \A j \in DOMAIN stack : Combed(stack[j], parsed', stack', processed')
    BY <1>3, CombedStays DEF Postorder
  <2> QED
    BY <2>1, <2>2, ReplacedFrames
<1>5. \A i \in DOMAIN edges : Called(edges[i], stack) => Called(edges[i], stack')
  BY CallsStand
<1> QED
  BY <1>3, <1>4, <1>5, TopIsOpen, PostorderKept

\* The visit of a document returns; its selection is closed then.
LEMMA PostorderPop ==
  ASSUME Inv, Once, Postorder, stack # <<>>, stack' = Pop,
         edges' = edges, processed' = processed,
         \A h \in DOMAIN parsed : h \in DOMAIN parsed' /\ parsed'[h] = parsed[h],
         Top.file \in DOMAIN parsed',
         Documented(parsed', Top.file) =>
           \A c \in Selection(parsed'[Top.file], Top.requested) :
             Closed(stack', processed', Top.file, c)
  PROVE  Postorder'
<1>1. /\ stack \in Seq(Frame) /\ Len(stack) \in Nat \ {0} /\ DOMAIN stack = 1 .. Len(stack)
  BY TopFacts
<1>2. /\ \A k \in DOMAIN stack' : \E j \in DOMAIN stack : stack'[k] = stack[j]
      /\ \A k \in DOMAIN stack : k # Len(stack) => k \in DOMAIN stack' /\ stack'[k] = stack[k]
  BY PoppedFrames, FramesStay
<1>3. \A g, d : Closed(stack, processed, g, d) => Closed(stack', processed', g, d)
  BY <1>2 DEF Closed
<1>4. ASSUME NEW g, NEW d, Closed(stack', processed', g, d), ~Closed(stack, processed, g, d)
      PROVE  g = Top.file /\ d = Top.config
  <2>1. PICK k \in DOMAIN stack : stack[k].file = g /\ stack[k].config = d
    BY <1>4 DEF Closed
  <2>2. k = Len(stack)
    BY <1>2, <1>4, <2>1 DEF Closed
  <2> QED
    BY <2>1, <2>2 DEF Top
<1>5. \A k \in DOMAIN stack' : Combed(stack'[k], parsed', stack', processed')
  <2>1. \A j \in DOMAIN stack : Combed(stack[j], parsed', stack', processed')
    BY <1>3, CombedStays DEF Postorder
  <2> QED
    BY <1>2, <2>1
<1>6. ASSUME NEW i \in DOMAIN edges, Called(edges[i], stack), ~Called(edges[i], stack')
      PROVE  Delivered(edges[i], parsed', stack', processed')
  <2>1. Top.file = edges[i].target /\ Top.requested = edges[i].requested
    BY <1>6, CallsStandBelow
  <2> QED
    BY <2>1 DEF Delivered, Calls
<1>7. \A i \in DOMAIN edges :
        Traversed(edges[i]) /\ edges[i].source = Top.file /\ edges[i].config = Top.config
          => Delivered(edges[i], parsed, stack, processed)
  BY TopIsOpen DEF Postorder, Settled
<1>8. ~Closed(stack, processed, Top.file, Top.config)
  BY TopIsOpen
<1> QED
  BY <1>3, <1>4, <1>5, <1>6, <1>7, <1>8, PostorderKept

LEMMA PostorderReturn == Inv /\ Once /\ Postorder /\ Return => Postorder'
<1> SUFFICES ASSUME Inv, Once, Postorder, Return PROVE Postorder'
  OBVIOUS
<1>1. /\ stack # <<>> /\ Top.phase = "walking" /\ Top.pending = {} /\ stack' = Pop
      /\ UNCHANGED <<parsed, processed, edges>>
  BY DEF Return, Active
<1>2. Documented(parsed, Top.file)
  BY <1>1, WalkingFacts DEF Documented
<1>3. Combed(Top, parsed, stack, processed)
  BY <1>1, TopFacts DEF Postorder, Top
<1>4. ASSUME NEW c \in Selection(parsed[Top.file], Top.requested)
      PROVE  Closed(stack', processed', Top.file, c)
  <2>1. c # 0
    BY <1>2, SelectionFacts
  <2>2. c = Top.config \/ Closed(stack, processed, Top.file, c)
    BY <1>1, <1>3 DEF Combed
  <2>3. c = Top.config => c \in ProcessedIn(processed, Top.file)
    BY <1>1, <2>1, TopBehind DEF Behind, Marks
  <2>4. c \in ProcessedIn(processed', Top.file)
    BY <1>1, <2>2, <2>3 DEF Closed
  <2>5. ASSUME NEW k \in DOMAIN stack' PROVE stack'[k].file # Top.file
    <3>1. PICK j \in DOMAIN stack : j # Len(stack) /\ stack'[k] = stack[j]
      BY <1>1, TopFacts DEF Pop
    <3> QED
      BY <1>1, <3>1, OtherFiles
  <2> QED
    BY <2>1, <2>4, <2>5 DEF Closed
<1> QED
  BY <1>1, <1>2, <1>4, PostorderPop DEF Documented

LEMMA PostorderNext == Account /\ Postorder /\ NextConfiguration => Postorder'
<1> SUFFICES ASSUME Account, Postorder, NextConfiguration PROVE Postorder'
  OBVIOUS
<1>1. /\ Inv /\ Once /\ stack # <<>> /\ Top.phase = "walking" /\ Top \in Frame
      /\ UNCHANGED <<parsed, edges>>
  BY TopFacts DEF NextConfiguration, Active, Account
<1>2. PICK c \in Top.pending :
        IF c \in ProcessedOf(Top.file)
        THEN /\ stack' = ReplaceTop([Top EXCEPT !.pending = @ \ {c}])
             /\ UNCHANGED processed
        ELSE /\ stack' = ReplaceTop([Top EXCEPT !.pending = @ \ {c},
                                               !.config = c, !.next = 1])
             /\ processed' = Put(processed, Top.file, ProcessedOf(Top.file) \cup {c})
  BY DEF NextConfiguration
<1>3. c # 0 /\ Documented(parsed, Top.file)
  BY <1>1, TopFacts DEF Placed
<1>4. ProcessedOf(Top.file) = ProcessedIn(processed, Top.file)
  BY DEF ProcessedOf, ProcessedIn
<1>5. /\ stack \in Seq(Frame) /\ Len(stack) \in Nat \ {0} /\ DOMAIN stack = 1 .. Len(stack)
  BY <1>1, TopFacts
<1>6. /\ Top.config \notin Top.pending
      /\ \A d \in Selection(parsed[Top.file], Top.requested) :
           d \in Top.pending \/ d = Top.config \/ Closed(stack, processed, Top.file, d)
  BY <1>1, <1>5 DEF Postorder, Combed, Top
<1>7. CASE c \in ProcessedOf(Top.file)
  <2> DEFINE frame == [Top EXCEPT !.pending = @ \ {c}]
  <2>1. stack' = ReplaceTop(frame) /\ processed' = processed
    BY <1>2, <1>7
  <2>2. /\ frame.phase = "walking" /\ frame.file = Top.file
        /\ frame.requested = Top.requested
        /\ frame.config = Top.config /\ frame.pending = Top.pending \ {c}
    BY <1>1 DEF Frame
  <2> HIDE DEF frame
  <2>3. Closed(stack, processed, Top.file, c)
    <3>1. \A k \in DOMAIN stack : stack[k].file = Top.file => stack[k].config # c
      BY <1>1, <1>6, OtherFiles DEF Top
    <3> QED
      BY <1>3, <1>4, <1>7, <3>1 DEF Closed
  <2>4. Combed(frame, parsed', stack, processed)
    BY <1>1, <1>6, <2>2, <2>3 DEF Combed
  <2> QED
    BY <1>1, <2>1, <2>2, <2>4, PostorderReplace
<1>8. CASE c \notin ProcessedOf(Top.file)
  <2> DEFINE frame == [Top EXCEPT !.pending = @ \ {c}, !.config = c, !.next = 1]
  <2>1. /\ stack' = ReplaceTop(frame)
        /\ processed' = Put(processed, Top.file, ProcessedOf(Top.file) \cup {c})
    BY <1>2, <1>8
  <2>2. /\ frame.phase = "walking" /\ frame.file = Top.file
        /\ frame.requested = Top.requested
        /\ frame.config = c /\ frame.pending = Top.pending \ {c}
    BY <1>1 DEF Frame
  <2>3. /\ ProcessedIn(processed', Top.file) = ProcessedIn(processed, Top.file) \cup {c}
        /\ \A f : f # Top.file => ProcessedIn(processed', f) = ProcessedIn(processed, f)
    BY <1>4, <2>1 DEF Put, ProcessedIn
  <2> HIDE DEF frame
  <2>4. /\ DOMAIN stack' = DOMAIN stack
        /\ \A k \in DOMAIN stack : stack'[k] = IF k = Len(stack) THEN frame ELSE stack[k]
    BY <1>5, <2>1 DEF ReplaceTop
  <2>5. ASSUME NEW g, NEW d, Closed(stack, processed, g, d)
        PROVE  Closed(stack', processed', g, d)
    BY <1>4, <1>8, <2>2, <2>3, <2>4, <2>5 DEF Closed
  <2>6. ASSUME NEW g, NEW d, Closed(stack', processed', g, d)
        PROVE  Closed(stack, processed, g, d) \/ (g = Top.file /\ d = Top.config)
    <3>1. ~(g = Top.file /\ d = c)
      BY <1>5, <2>2, <2>4, <2>6 DEF Closed
    <3>2. d \in ProcessedIn(processed, g) /\ d # 0
      BY <2>3, <2>6, <3>1 DEF Closed
    <3>3. \A k \in DOMAIN stack : k # Len(stack) => ~(stack[k].file = g /\ stack[k].config = d)
      BY <2>4, <2>6 DEF Closed
    <3> QED
      BY <3>2, <3>3 DEF Closed, Top
  <2>7. Combed(frame, parsed', stack', processed')
    <3> SUFFICES ASSUME NEW d \in Selection(parsed[Top.file], Top.requested),
                        d \notin frame.pending, d # c
                 PROVE  Closed(stack', processed', Top.file, d)
      BY <1>1, <2>2 DEF Combed
    <3>1. CASE d = Top.config
      <4>1. d # 0
        BY <1>3, SelectionFacts
      <4>2. d \in ProcessedIn(processed, Top.file)
        BY <1>1, <3>1, <4>1, TopBehind DEF Behind, Marks
      <4>3. \A k \in DOMAIN stack' : ~(stack'[k].file = Top.file /\ stack'[k].config = d)
        BY <1>1, <2>2, <2>4, OtherFiles
      <4> QED
        BY <2>3, <4>1, <4>2, <4>3 DEF Closed
    <3>2. CASE d # Top.config
      BY <1>6, <2>2, <2>5, <3>2
    <3> QED
      BY <3>1, <3>2
  <2>8. \A k \in DOMAIN stack' : Combed(stack'[k], parsed', stack', processed')
    <3>1. \A j \in DOMAIN stack : Combed(stack[j], parsed', stack', processed')
      BY <1>1, <2>5, CombedStays DEF Postorder
    <3> QED
      BY <2>4, <2>7, <3>1
  <2>9. \A i \in DOMAIN edges : Called(edges[i], stack) => Called(edges[i], stack')
    BY <1>1, <2>1, <2>2, CallsStand
  <2>10. \A i \in DOMAIN edges :
           Traversed(edges[i]) /\ edges[i].source = Top.file /\ edges[i].config = Top.config
             => Delivered(edges[i], parsed, stack, processed)
    BY <1>1, TopIsOpen DEF Postorder, Settled
  <2>11. ~Closed(stack, processed, Top.file, Top.config)
    BY <1>1, TopIsOpen
  <2> QED
    BY <1>1, <2>5, <2>6, <2>8, <2>9, <2>10, <2>11, PostorderKept
<1> QED
  BY <1>7, <1>8

LEMMA PostorderVisit ==
  ASSUME Account, Postorder, VisitParsed \/ \E result \in ParseResults : VisitUnparsed(result)
  PROVE  Postorder'
<1>1. /\ Inv /\ Once /\ Active("called") /\ stack # <<>> /\ Top \in Frame
      /\ UNCHANGED <<processed, edges>>
  BY TopFacts DEF VisitParsed, VisitUnparsed, Active, Account
<1>2. Top.config = 0
  BY <1>1, TopFacts DEF Placed, Active
<1>3. /\ \A h \in DOMAIN parsed : h \in DOMAIN parsed' /\ parsed'[h] = parsed[h]
      /\ Top.file \in DOMAIN parsed'
  BY DEF VisitParsed, VisitUnparsed, Put
<1>4. \/ \E ns, part : Leave(ns, part) /\ parsed'[Top.file] = NONE
      \/ \E ns, part : Enter(parsed'[Top.file], ns, part)
  <2>1. CASE VisitParsed
    BY <2>1 DEF VisitParsed
  <2>2. ASSUME NEW result \in ParseResults, VisitUnparsed(result)
        PROVE  \/ \E ns, part : Leave(ns, part) /\ parsed'[Top.file] = NONE
               \/ \E ns, part : Enter(parsed'[Top.file], ns, part)
    <3>1. parsed'[Top.file] = result.document
      BY <2>2 DEF VisitUnparsed, Put
    <3>2. CASE result.document = NONE
      <4>1. \E ns, part : Leave(ns, part)
        BY <2>2, <3>2 DEF VisitUnparsed
      <4> QED
        BY <3>1, <3>2, <4>1
    <3>3. CASE result.document # NONE
      <4>1. \E ns, part : Enter(result.document, ns, part)
        BY <2>2, <3>3 DEF VisitUnparsed
      <4> QED
        BY <3>1, <4>1
    <3> QED
      BY <3>2, <3>3
  <2> QED
    BY <2>1, <2>2
<1>5. ASSUME NEW ns, NEW part, Leave(ns, part), parsed'[Top.file] = NONE
      PROVE  Postorder'
  BY <1>1, <1>3, <1>5, PostorderPop DEF Leave, Documented
<1>6. ASSUME NEW ns, NEW part, Enter(parsed'[Top.file], ns, part)
      PROVE  Postorder'
  <2> DEFINE document == parsed'[Top.file]
             next == IF Top.file \in referenced THEN Len(document.references) + 1 ELSE 1
             frame == [Top EXCEPT !.phase = "walking",
                                  !.pending = Selection(document, Top.requested),
                                  !.next = next]
  <2>1. stack' = ReplaceTop(frame)
    BY <1>6 DEF Enter
  <2>2. /\ frame.phase = "walking" /\ frame.file = Top.file
        /\ frame.requested = Top.requested /\ frame.config = Top.config
        /\ frame.pending = Selection(document, Top.requested)
    BY <1>1 DEF Frame
  <2>3. 0 \notin Selection(document, Top.requested)
    BY SelectionFacts
  <2> HIDE DEF frame
  <2>4. Combed(frame, parsed', stack, processed)
    BY <1>2, <2>2, <2>3 DEF Combed
  <2> QED
    BY <1>1, <1>3, <2>1, <2>2, <2>4, PostorderReplace
<1> QED
  BY <1>4, <1>5, <1>6

LEMMA PostorderAdvance ==
  ASSUME Account, Postorder, SkipComponentReference \/ RefuseReference
  PROVE  Postorder'
<1>1. /\ Inv /\ Once /\ stack # <<>> /\ Top.phase = "walking" /\ Top \in Frame
      /\ stack' = ReplaceTop(Advanced) /\ UNCHANGED <<parsed, processed, edges>>
  BY TopFacts DEF SkipComponentReference, RefuseReference, AtReference, Active, Account
<1>2. /\ Advanced.phase = "walking" /\ Advanced.file = Top.file
      /\ Advanced.requested = Top.requested /\ Advanced.config = Top.config
      /\ Advanced.pending = Top.pending
  BY <1>1 DEF Advanced, Frame
<1>3. Combed(Top, parsed, stack, processed)
  BY <1>1, TopFacts DEF Postorder, Top
<1>4. Combed(Advanced, parsed', stack, processed)
  BY <1>1, <1>2, <1>3 DEF Combed
<1> QED
  BY <1>1, <1>2, <1>4, PostorderReplace

LEMMA PostorderProcess == Account /\ Postorder /\ ProcessReference => Postorder'
<1> SUFFICES ASSUME Account, Postorder, ProcessReference PROVE Postorder'
  OBVIOUS
<1> DEFINE edge == Edge(Top.file, Top, Current)
           frame == Call(edge.target, Top.depth + 1, Current.configuration,
                         Top.ancestors \cup {edge.target}, FALSE)
           base == ReplaceTop(Advanced)
           n == Len(edges)
           m == Len(stack)
<1>1. /\ Inv /\ Once /\ stack # <<>> /\ Top.phase = "walking" /\ Top \in Frame
      /\ UNCHANGED <<parsed, processed>>
      /\ n \in Nat /\ DOMAIN edges = 1 .. n /\ DOMAIN edges' = 1 .. n + 1
      /\ \A i \in 1 .. n : edges'[i] = edges[i]
      /\ edges'[n + 1] = edge /\ edge.requested = Current.configuration
      /\ stack' = IF Traversed(edge) THEN Append(base, frame) ELSE base
  BY TopFacts, ProcessEffect DEF Account, ProcessReference
<1>2. edge.source = Top.file /\ edge.config = Top.config
  BY DEF Edge
<1>3. /\ frame.file = edge.target /\ frame.requested = Current.configuration
      /\ frame.config = 0 /\ frame.phase = "called"
  BY DEF Call
<1>4. /\ Advanced.phase = "walking" /\ Advanced.file = Top.file
      /\ Advanced.requested = Top.requested /\ Advanced.config = Top.config
      /\ Advanced.pending = Top.pending
  BY <1>1 DEF Advanced, Frame
<1>5. /\ m \in Nat \ {0} /\ DOMAIN stack = 1 .. m /\ m \in DOMAIN stack /\ Top = stack[m]
      /\ base \in Seq(Frame) /\ DOMAIN base = 1 .. m /\ Len(base) = m
      /\ \A k \in 1 .. m : base[k] = IF k = m THEN Advanced ELSE stack[k]
  <2>1. stack \in Seq(Frame) /\ m \in Nat \ {0} /\ base \in Seq(Frame)
    BY <1>1, TopFacts, AdvancedFacts DEF Stacked
  <2>2. base = [stack EXCEPT ![m] = Advanced]
    BY DEF ReplaceTop
  <2>3. Top = stack[m] /\ DOMAIN stack = 1 .. m
    BY <2>1 DEF Top
  <2>4. Len(base) = m
    BY <1>1, AdvancedFacts
  <2> HIDE DEF base, m
  <2>5. DOMAIN base = DOMAIN stack
    BY <2>2
  <2>6. \A k \in 1 .. m : base[k] = IF k = m THEN Advanced ELSE stack[k]
    BY <2>2, <2>3
  <2> QED
    BY <2>1, <2>3, <2>4, <2>5, <2>6
<1> HIDE DEF edge, frame, base, n, m
<1>6. /\ m \in DOMAIN stack' /\ DOMAIN stack \subseteq DOMAIN stack'
      /\ \A k \in DOMAIN stack : stack'[k] = base[k]
      /\ \A k \in DOMAIN stack' : k \in DOMAIN stack \/ stack'[k] = frame
      /\ Traversed(edge) => m + 1 \in DOMAIN stack' /\ stack'[m + 1] = frame
  <2>1. CASE Traversed(edge)
    <3>1. stack' = Append(base, frame)
      BY <1>1, <2>1
    <3> QED
      BY <1>5, <3>1
  <2>2. CASE ~Traversed(edge)
    BY <1>1, <1>5, <2>2
  <2> QED
    BY <2>1, <2>2
<1>7. \A k \in DOMAIN stack : /\ stack'[k].file = stack[k].file
                              /\ stack'[k].config = stack[k].config
                              /\ stack'[k].requested = stack[k].requested
  BY <1>4, <1>5, <1>6
<1>8. \A g, d : Closed(stack', processed', g, d) <=> Closed(stack, processed, g, d)
  BY SMTT(30), <1>1, <1>3, <1>6, <1>7 DEF Closed
<1>9. ASSUME NEW e, Called(e, stack) PROVE Called(e, stack')
  BY <1>6, <1>7, <1>9 DEF Called
<1>10. Traversed(edge) => Called(edge, stack')
  <2> SUFFICES ASSUME Traversed(edge) PROVE Called(edge, stack')
    OBVIOUS
  <2>1. m + 1 \in DOMAIN stack' /\ (m + 1) - 1 = m /\ m \in DOMAIN stack
    BY <1>5, <1>6
  <2>2. stack'[m].file = edge.source /\ stack'[m].config = edge.config
    BY <1>2, <1>5, <1>7
  <2> QED
    BY ZenonT(40), <1>1, <1>3, <1>6, <2>1, <2>2 DEF Called
<1>11. Settled(edges', parsed', stack', processed')
  <2> SUFFICES ASSUME NEW i \in DOMAIN edges', Traversed(edges'[i])
               PROVE  \/ Delivered(edges'[i], parsed', stack', processed')
                      \/ Called(edges'[i], stack')
    BY DEF Settled
  <2>1. CASE i = n + 1
    BY <1>1, <1>10, <2>1
  <2>2. CASE i \in DOMAIN edges
    <3>1. Delivered(edges[i], parsed, stack, processed) \/ Called(edges[i], stack)
      BY <1>1, <2>2 DEF Postorder, Settled
    <3> QED
      BY <1>1, <1>8, <1>9, <2>2, <3>1 DEF Delivered
  <2> QED
    BY <1>1, <2>1, <2>2
<1>12. \A k \in DOMAIN stack' : Combed(stack'[k], parsed', stack', processed')
  <2>1. \A j \in DOMAIN stack : Combed(stack[j], parsed', stack', processed')
    BY <1>1, <1>8, CombedStays DEF Postorder
  <2>2. Combed(Advanced, parsed', stack', processed')
    <3>1. Combed(Top, parsed', stack', processed')
      BY <1>5, <2>1
    <3> QED
      BY <1>1, <1>4, <3>1 DEF Combed
  <2>3. Combed(frame, parsed', stack', processed')
    BY <1>3 DEF Combed
  <2> QED
    BY <1>5, <1>6, <2>1, <2>2, <2>3
<1>13. ASSUME NEW i \in DOMAIN edges', Traversed(edges'[i]),
              Closed(stack', processed', edges'[i].source, edges'[i].config)
       PROVE  /\ i \in DOMAIN edges /\ edges'[i] = edges[i]
              /\ Delivered(edges[i], parsed, stack, processed)
  <2>1. i # n + 1
    BY <1>1, <1>2, <1>8, <1>13, TopIsOpen
  <2>2. i \in DOMAIN edges /\ edges'[i] = edges[i]
    BY <1>1, <2>1
  <2> QED
    BY <1>8, <1>13, <2>2, CallerIsOpen DEF Postorder, Settled
<1>14. NoWayRound(stack', processed', edges', parsed')
  <2>1. ~Closed(stack, processed, Top.file, Top.config)
    BY <1>1, TopIsOpen
  <2>2. \A h \in DOMAIN parsed : h \in DOMAIN parsed' /\ parsed'[h] = parsed[h]
    BY <1>1
  <2> QED
    BY <1>8, <1>13, <2>1, <2>2, NoWayRoundKept
<1> QED
  BY <1>11, <1>12, <1>14 DEF Postorder

LEMMA PostorderRoot == Account /\ Postorder /\ VisitRoot => Postorder'
<1> SUFFICES ASSUME Account, Postorder, VisitRoot PROVE Postorder'
  OBVIOUS
<1> DEFINE frame == Call(Head(roots), 0, RootConfiguration, {Head(roots)}, TRUE)
<1>1. stack = <<>> /\ stack' = <<frame>> /\ UNCHANGED <<parsed, processed, edges>>
  BY DEF VisitRoot
<1>2. frame.config = 0 /\ frame.phase = "called"
  BY DEF Call
<1> HIDE DEF frame
<1>3. DOMAIN stack = {} /\ DOMAIN stack' = {1} /\ stack'[1] = frame
  BY <1>1
<1>4. \A g, d : Closed(stack', processed', g, d) <=> Closed(stack, processed, g, d)
  BY <1>1, <1>2, <1>3 DEF Closed
<1>5. \A e : ~Called(e, stack)
  BY <1>3 DEF Called
<1>6. \A k \in DOMAIN stack' : Combed(stack'[k], parsed', stack', processed')
  BY <1>2, <1>3 DEF Combed
<1>7. ~Closed(stack, processed, 0, 0)
  BY DEF Closed
<1>8. \A h \in DOMAIN parsed : h \in DOMAIN parsed' /\ parsed'[h] = parsed[h]
  BY <1>1
<1>9. edges' = edges /\ ~Closed(stack', processed', 0, 0)
  BY <1>1, <1>4, <1>7
<1> QED
  BY <1>4, <1>5, <1>6, <1>7, <1>8, <1>9, PostorderKept

LEMMA PostorderInit == Init => Postorder
<1> SUFFICES ASSUME Init PROVE Postorder
  OBVIOUS
<1>1. DOMAIN edges = {} /\ DOMAIN stack = {} /\ DOMAIN processed = {}
  BY DEF Init
<1>2. \A f, c : ~Closed(stack, processed, f, c)
  BY <1>1 DEF Closed, ProcessedIn
<1> QED
  BY <1>1, <1>2 DEF Postorder, Settled, NoWayRound

LEMMA PostorderStep == Account /\ Postorder /\ [Next]_vars => Postorder'
<1> SUFFICES ASSUME Account, Postorder, [Next]_vars PROVE Postorder'
  OBVIOUS
<1>1. CASE VisitParsed \/ \E result \in ParseResults : VisitUnparsed(result)
  BY <1>1, PostorderVisit
<1>2. CASE SkipComponentReference \/ RefuseReference
  BY <1>2, PostorderAdvance
<1>3. CASE Finish \/ Finished \/ UNCHANGED vars
  BY <1>3 DEF Finish, Finished, vars, Postorder
<1> QED
  BY <1>1, <1>2, <1>3, PostorderNext, PostorderProcess, PostorderRoot, PostorderReturn
  DEF Next, Step, Account

-----------------------------------------------------------------------------
(***************************************************************************)
(* A node shows the configurations of its document, once it was parsed.    *)
(***************************************************************************)
Shown(ns, f) == IF f \in DOMAIN ns THEN ns[f].configurations ELSE <<>>
Published ==
  \A f : Shown(nodes, f) = IF Documented(parsed, f) THEN Identities(parsed[f]) ELSE <<>>

LEMMA EnsureShows ==
  ASSUME NEW ns, NodesOK(ns), NEW file, NEW depth \in Nat, NEW isRoot \in BOOLEAN, NEW g
  PROVE  Shown(EnsureNode(ns, file, depth, isRoot), g) = Shown(ns, g)
<1> DEFINE ms == EnsureNode(ns, file, depth, isRoot)
<1>1. /\ DOMAIN ms = DOMAIN ns \cup {file}
      /\ \A f \in DOMAIN ns : f # file => ms[f] = ns[f]
  BY DEF EnsureNode, Put
<1>2. ASSUME file \in DOMAIN ns PROVE ms[file].configurations = ns[file].configurations
  <2>1. ns[file] \in Node
    BY <1>2 DEF NodesOK
  <2> DEFINE nearer == IF depth < ns[file].depth THEN depth ELSE ns[file].depth
  <2>2. ms[file] = [ns[file] EXCEPT !.depth = nearer, !.root = ns[file].root \/ isRoot]
    BY <1>2 DEF EnsureNode, Put
  <2> HIDE DEF nearer, ms
  <2> QED
    BY <2>1, <2>2 DEF Node
<1>3. ASSUME file \notin DOMAIN ns PROVE ms[file].configurations = <<>>
  BY <1>3 DEF EnsureNode, Put, FreshNode
<1> HIDE DEF ms
<1>4. Shown(ms, g) = Shown(ns, g)
  BY <1>1, <1>2, <1>3 DEF Shown
<1> QED
  BY <1>4 DEF ms

LEMMA RequestShows ==
  ASSUME NEW ns, NodesOK(ns), NEW file, NEW name, NEW g
  PROVE  Shown(RecordRequest(ns, file, name), g) = Shown(ns, g)
<1>1. ASSUME g \in DOMAIN ns PROVE ns[g] \in Node
  BY <1>1 DEF NodesOK
<1> QED
  BY <1>1 DEF RecordRequest, Shown, Node

LEMMA SelectedShows ==
  ASSUME NEW ns, NodesOK(ns), NEW file, NEW indices, NEW g
  PROVE  Shown(RecordSelected(ns, file, indices), g) = Shown(ns, g)
<1>1. ASSUME g \in DOMAIN ns PROVE ns[g] \in Node
  BY <1>1 DEF NodesOK
<1> QED
  BY <1>1 DEF RecordSelected, Shown, Node

LEMMA ParseShows ==
  ASSUME NEW ns, NodesOK(ns), NEW file \in DOMAIN ns, NEW result, NEW g
  PROVE  Shown(RecordParse(ns, file, result), g)
           = IF g = file /\ result.document # NONE THEN Identities(result.document)
             ELSE Shown(ns, g)
<1>1. ASSUME g \in DOMAIN ns PROVE ns[g] \in Node
  BY <1>1 DEF NodesOK
<1> DEFINE ids == Identities(result.document)
<1>2. RecordParse(ns, file, result)
        = IF result.document = NONE
          THEN [ns EXCEPT ![file].status = result.status]
          ELSE [ns EXCEPT ![file].status = result.status,
                          ![file].kind = result.document.kind,
                          ![file].configurations = ids]
  BY DEF RecordParse
<1> HIDE DEF ids
<1>3. Shown(RecordParse(ns, file, result), g)
        = IF g = file /\ result.document # NONE THEN ids ELSE Shown(ns, g)
  BY <1>1, <1>2 DEF Shown, Node
<1> QED
  BY <1>3 DEF ids

LEMMA EnterShows ==
  ASSUME NEW ns, NodesOK(ns), NEW document, NEW part, Enter(document, ns, part),
         Inv, Active("called"), NEW g
  PROVE  Shown(nodes', g) = Shown(ns, g)
<1> DEFINE ls == RecordRequest(ns, Top.file, Top.requested)
<1>1. nodes' = RecordSelected(ls, Top.file, Selection(document, Top.requested))
  BY DEF Enter
<1>2. Top.requested \in Names \cup {NONE}
  BY TopFacts DEF Active, Frame
<1>3. NodesOK(ls) /\ Shown(ls, g) = Shown(ns, g)
  BY <1>2, RecordRequestFacts, RequestShows
<1> HIDE DEF ls
<1> QED
  BY <1>1, <1>3, SelectedShows

LEMMA PublishedVisitParsed == Inv /\ Published /\ VisitParsed => Published'
<1> SUFFICES ASSUME Inv, Published, VisitParsed PROVE Published'
  OBVIOUS
<1> DEFINE ns == EnsureNode(nodes, Top.file, Top.depth, Top.root)
<1>1. /\ Active("called") /\ stack # <<>> /\ parsed' = parsed
      /\ \/ \E part : Leave(ns, part)
         \/ \E document, part : Enter(document, ns, part)
  BY DEF VisitParsed, Active
<1>2. Top.depth \in Nat /\ Top.root \in BOOLEAN
  BY <1>1, TopFacts DEF Frame
<1>3. NodesOK(ns) /\ \A g : Shown(ns, g) = Shown(nodes, g)
  <2>1. Met(nodes, Top.file, ns) /\ \A g : Shown(ns, g) = Shown(nodes, g)
    BY <1>2, NodesUnchanged, EnsureNodeFacts, EnsureShows
  <2> HIDE DEF ns
  <2> QED
    BY <2>1 DEF Met
<1> HIDE DEF ns
<1>4. \A g : Shown(nodes', g) = Shown(ns, g)
  BY <1>1, <1>3, EnterShows DEF Leave
<1> QED
  BY <1>1, <1>3, <1>4 DEF Published

LEMMA PublishedVisitUnparsed ==
  ASSUME Inv, Published, NEW result \in ParseResults, VisitUnparsed(result)
  PROVE  Published'
<1> DEFINE met == EnsureNode(nodes, Top.file, Top.depth, Top.root)
           ns == RecordParse(met, Top.file, result)
<1>1. /\ Active("called") /\ stack # <<>> /\ Top.file \notin DOMAIN parsed
      /\ parsed' = Put(parsed, Top.file, result.document)
      /\ \/ \E part : Leave(ns, part)
         \/ \E document, part : Enter(document, ns, part)
  BY DEF VisitUnparsed, Active
<1>2. Top.depth \in Nat /\ Top.root \in BOOLEAN
  BY <1>1, TopFacts DEF Frame
<1>3. NodesOK(met) /\ Top.file \in DOMAIN met /\ \A g : Shown(met, g) = Shown(nodes, g)
  <2>1. Met(nodes, Top.file, met) /\ \A g : Shown(met, g) = Shown(nodes, g)
    BY <1>2, NodesUnchanged, EnsureNodeFacts, EnsureShows
  <2> HIDE DEF met
  <2> QED
    BY <2>1 DEF Met
<1> HIDE DEF met
<1>4. /\ NodesOK(ns)
      /\ \A g : Shown(ns, g) = IF g = Top.file /\ result.document # NONE
                               THEN Identities(result.document) ELSE Shown(nodes, g)
  <2>1. result \in ParseResult
    BY ParseAssumption
  <2>2. ParsedAs(met, Top.file, result.status, ns)
    BY <1>3, <2>1, RecordParseFacts
  <2>3. \A g : Shown(ns, g) = IF g = Top.file /\ result.document # NONE
                              THEN Identities(result.document) ELSE Shown(met, g)
    BY <1>3, ParseShows
  <2> HIDE DEF ns
  <2> QED
    BY <1>3, <2>2, <2>3 DEF ParsedAs
<1> HIDE DEF ns
<1>5. \A g : Shown(nodes', g) = Shown(ns, g)
  BY <1>1, <1>4, EnterShows DEF Leave
<1>6. /\ \A f : f # Top.file => (Documented(parsed', f) <=> Documented(parsed, f))
      /\ \A f : Documented(parsed, f) => parsed'[f] = parsed[f]
      /\ ~Documented(parsed, Top.file)
      /\ Documented(parsed', Top.file) <=> result.document # NONE
      /\ parsed'[Top.file] = result.document
  BY <1>1 DEF Put, Documented
<1>7. ASSUME NEW f
      PROVE  Shown(nodes', f) = IF Documented(parsed', f) THEN Identities(parsed'[f])
                                ELSE <<>>
  <2>1. Shown(nodes, f) = IF Documented(parsed, f) THEN Identities(parsed[f]) ELSE <<>>
    BY DEF Published
  <2>2. CASE f = Top.file
    BY <1>4, <1>5, <1>6, <2>1, <2>2
  <2>3. CASE f # Top.file
    <3>1. Shown(nodes', f) = Shown(nodes, f)
      BY <1>4, <1>5, <2>3
    <3> QED
      BY <1>6, <2>1, <2>3, <3>1
  <2> QED
    BY <2>2, <2>3
<1> QED
  BY <1>7 DEF Published

LEMMA PublishedProcess == Inv /\ Published /\ ProcessReference => Published'
<1> SUFFICES ASSUME Inv, Published, ProcessReference PROVE Published'
  OBVIOUS
<1> DEFINE target == Target(Top.file, Current)
           ls == EnsureNode(nodes, target, Top.depth + 1, FALSE)
<1>1. /\ stack # <<>> /\ parsed' = parsed
      /\ \/ nodes' = nodes
         \/ nodes' = RecordRequest(ls, target, Current.configuration)
  BY DEF ProcessReference, AtReference, Active, Edge
<1>2. Top.depth + 1 \in Nat
  BY <1>1, TopFacts DEF Frame
<1>3. NodesOK(ls) /\ \A g : Shown(ls, g) = Shown(nodes, g)
  <2>1. Met(nodes, target, ls) /\ \A g : Shown(ls, g) = Shown(nodes, g)
    BY <1>2, NodesUnchanged, EnsureNodeFacts, EnsureShows
  <2> HIDE DEF ls
  <2> QED
    BY <2>1 DEF Met
<1> HIDE DEF target, ls
<1>4. \A g : Shown(nodes', g) = Shown(nodes, g)
  BY <1>1, <1>3, RequestShows
<1> QED
  BY <1>1, <1>4 DEF Published

LEMMA PublishedStep == Inv /\ Published /\ [Next]_vars => Published'
<1> SUFFICES ASSUME Inv, Published, [Next]_vars PROVE Published'
  OBVIOUS
<1>1. CASE Quiet
  <2>1. UNCHANGED <<nodes, parsed>>
    BY <1>1, QuietGoesOnward
  <2> QED
    BY <2>1 DEF Published
<1>2. CASE VisitRoot \/ Finish \/ Finished \/ UNCHANGED vars
  BY <1>2 DEF VisitRoot, Finish, Finished, vars, Published
<1> QED
  BY <1>1, <1>2, PublishedVisitParsed, PublishedVisitUnparsed, PublishedProcess
  DEF Next, Step, Quiet

LEMMA PublishedInit == Init => Published
  BY DEF Init, Published, Shown, Documented

\* What a bill may rely on once the scan is over.
Laid == Account /\ Postorder /\ Published

LEMMA LaidInit == Init => Laid
  BY AccountInvariant, PostorderInit, PublishedInit DEF Laid

LEMMA LaidStep == Laid /\ [Next]_vars => Laid'
  BY AccountStep, PostorderStep, PublishedStep DEF Laid, Account

-----------------------------------------------------------------------------
(***************************************************************************)
(* The records of the bill and where they come from.                       *)
(***************************************************************************)
ChildrenStates ==
  {"expanded", "leaf", "suppressed", "unresolved", "configuration_unresolved",
   "not_traversed", "limit_reached"}

OccurrenceRecord ==
  [parent: Nat, edge: Nat, node: Nat \cup {NONE}, path: Paths \cup {NONE},
   requested: Names \cup {NONE}, config: Nat, depth: Nat, suppressed: Flag,
   excluded: Flag, children: ChildrenStates, counted: BOOLEAN]

BillTypes ==
  /\ occurrences \in Seq(OccurrenceRecord)
  /\ agenda \in Seq(PendingRecord)
  /\ current \in CurrentRecord \cup {NONE}
  /\ limited \in BOOLEAN
  /\ bill \in {"expanding", "rejected", "partial", "complete"}

BillRoot == IF WholeProject THEN NONE ELSE Roots[1]

Child(e, parent) == Bill!Occurrence(e, parent)
Hidden(r) == Bill!HiddenBySuppression(r) \/ Bill!HiddenByExclusion(r)

\* The first occurrence is the root, every other one instantiates an edge.
RootOccurrence(r, lim) ==
  /\ r.parent = 0 /\ r.node = BillRoot /\ r.node # NONE /\ r.counted
  /\ r.suppressed = "unknown" /\ r.excluded = "unknown"
  /\ r.children = "expanded" \/ (r.children = "limit_reached" /\ lim)

Instance(r, lim) ==
  /\ r.edge \in DOMAIN edges
  /\ r.node = edges[r.edge].target
  /\ r.suppressed = edges[r.edge].suppressed /\ r.excluded = edges[r.edge].excluded
  /\ \/ r.children = Bill!ChildrenState(edges[r.edge])
     \/ r.children = "limit_reached" /\ lim

\* What an occurrence is to be expanded into.
Wants(r) ==
  IF r.children = "expanded" THEN Bill!ComponentEdges(r.node, r.config) ELSE {}

\* A pending expansion carries what its occurrence and those above it impose.
JobFits(p, occ, lim) ==
  /\ p.occurrence \in DOMAIN occ
  /\ p.node = occ[p.occurrence].node /\ p.config = occ[p.occurrence].config
  /\ (p.suppressed \/ p.excluded) <=> ~occ[p.occurrence].counted
  /\ ~lim => occ[p.occurrence].children = "expanded"

Jobs(seq, occ, lim) == \A i \in DOMAIN seq : JobFits(seq[i], occ, lim)
Owners(seq) == {seq[i].occurrence : i \in DOMAIN seq}
Distinct(seq) ==
  \A i, j \in DOMAIN seq : seq[i].occurrence = seq[j].occurrence => i = j

\* Every occurrence waits, is in hand or was expanded, and only once.
Scheduled(occ, ag, cur, lim) ==
  /\ Jobs(ag, occ, lim) /\ Distinct(ag)
  /\ cur # NONE =>
       /\ JobFits(cur.pending, occ, lim)
       /\ Jobs(cur.found, occ, lim) /\ Distinct(cur.found)
       /\ Owners(cur.found) \cap Owners(ag) = {}
       /\ cur.pending.occurrence \notin Owners(cur.found) \cup Owners(ag)
       /\ cur.edges \subseteq Bill!ComponentEdges(cur.pending.node, cur.pending.config)

\* An occurrence below the root.
Attached(occ, o, lim) ==
  /\ Instance(occ[o], lim)
  /\ occ[o].parent \in 1 .. o - 1
  /\ occ[o].counted <=> occ[occ[o].parent].counted /\ ~Hidden(occ[o])

Grown ==
  /\ ~Done => occurrences = <<>>
  /\ occurrences = <<>> => /\ agenda = <<>> /\ current = NONE /\ ~limited
                           /\ bill \in {"expanding", "rejected"}
  /\ occurrences # <<>> => RootOccurrence(occurrences[1], limited)
  /\ \A o \in DOMAIN occurrences \ {1} : Attached(occurrences, o, limited)
  /\ limited => current = NONE
  /\ Scheduled(occurrences, agenda, current, limited)
  /\ bill # "expanding" => current = NONE /\ (limited \/ agenda = <<>>)
  /\ bill = "complete" =>
       ~limited /\ \A o \in DOMAIN occurrences : ~Bill!Unsettled(occurrences[o])

Born(occ, o, e) == \E c \in DOMAIN occ : occ[c].parent = o /\ occ[c].edge = e

\* The edges of an occurrence that are still to be instantiated.
Left(o, r, ag, cur) ==
  IF cur # NONE /\ cur.pending.occurrence = o THEN cur.edges
  ELSE IF o \in Owners(ag) \/ (cur # NONE /\ o \in Owners(cur.found)) THEN Wants(r)
  ELSE {}

Exact(occ, ag, cur) ==
  \A o \in DOMAIN occ, e \in DOMAIN edges :
    Born(occ, o, e) <=> e \in Wants(occ[o]) /\ e \notin Left(o, occ[o], ag, cur)

NoTwins(occ) ==
  \A c, d \in DOMAIN occ \ {1} :
    occ[c].parent = occ[d].parent /\ occ[c].edge = occ[d].edge => c = d

Whole == NoTwins(occurrences) /\ (~limited => Exact(occurrences, agenda, current))

Bills == Inv /\ Grounded /\ BillTypes /\ Grown /\ Whole

\* A graph that stays gives the same occurrences.
LEMMA SameGraph ==
  ASSUME UNCHANGED vars
  PROVE  /\ \A r, lim : Instance(r, lim)' <=> Instance(r, lim)
         /\ \A r : Wants(r)' = Wants(r)
         /\ \A n, c : Bill!ComponentEdges(n, c)' = Bill!ComponentEdges(n, c)
         /\ Inv' <=> Inv
         /\ Grounded' <=> Grounded
         /\ Done' <=> Done
<1>1. \A r, lim : Instance(r, lim)' <=> Instance(r, lim)
  BY DEF vars, Instance, Bill!ChildrenState, Bill!IsAssembly, Bill!Instantiable,
         Bill!TargetCandidates, Bill!Named, Bill!Available, ScanResult
<1>2. \A n, c : Bill!ComponentEdges(n, c)' = Bill!ComponentEdges(n, c)
  BY DEF vars, Bill!ComponentEdges, ScanResult
<1>3. Inv' <=> Inv
  BY DEF vars, Inv, TypeOK, Running, Stacked, NodesSettled, EdgeSettled, Awaited
<1>4. Grounded' <=> Grounded
  BY DEF vars, Grounded, RootMet, Top, Done
<1>5. \A r : Wants(r)' = Wants(r)
  BY <1>2 DEF Wants
<1> QED
  BY <1>1, <1>2, <1>3, <1>4, <1>5 DEF vars, Done

\* Configurations of a node are positions.
LEMMA CandidatesArePositions ==
  ASSUME Inv, NEW n \in DOMAIN nodes
  PROVE  /\ DOMAIN nodes[n].configurations \subseteq Nat
         /\ \A c \in DOMAIN nodes[n].configurations :
              nodes[n].configurations[c] \in Names \cup {NONE}
<1>1. nodes[n].configurations \in Seq(Names \cup {NONE})
  BY DEF Inv, TypeOK, Node
<1> QED
  BY <1>1

LEMMA NotEmptyByCount ==
  ASSUME NEW S, Bill!Cardinality(S) = 1
  PROVE  S # {}
<1>1. Bill!Cardinality(S) = Cardinality(S)
  BY DEF Bill!Cardinality, Bill!IsFiniteSet, Cardinality, IsFiniteSet
<1> QED
  BY <1>1, FS_EmptySet

\* What the occurrence of an edge is.
LEMMA OccurrenceFacts ==
  ASSUME Inv, Grounded, NEW e \in DOMAIN edges, NEW parent \in PendingRecord
  PROVE  /\ Child(e, parent) \in OccurrenceRecord
         /\ Instance(Child(e, parent), FALSE)
         /\ Child(e, parent).edge = e
         /\ Child(e, parent).parent = parent.occurrence
         /\ Child(e, parent).counted <=> /\ ~(parent.suppressed \/ parent.excluded)
                                         /\ ~Hidden(Child(e, parent))
<1> DEFINE edge == edges[e]
           state == Bill!ChildrenState(edge)
           config == IF state = "expanded"
                     THEN CHOOSE c \in Bill!TargetCandidates(edge) : TRUE ELSE 0
           hidden == \/ parent.suppressed \/ parent.excluded
                     \/ Bill!HiddenBySuppression(edge) \/ Bill!HiddenByExclusion(edge)
           child == Child(e, parent)
<1>1. edge \in EdgeRecord /\ e \in Nat
  BY DEF Inv, TypeOK
<1>2. state \in ChildrenStates
  BY DEF Bill!ChildrenState, ChildrenStates
<1>3. config \in Nat
  <2>1. CASE state = "expanded"
    <3>1. edge.target \in DOMAIN nodes /\ Bill!Instantiable(edge)
      BY <2>1 DEF Grounded, Bill!ChildrenState
    <3>2. Bill!Cardinality(Bill!TargetCandidates(edge)) = 1
      BY <3>1 DEF Bill!Instantiable
    <3>3. Bill!TargetCandidates(edge) # {}
      BY <3>2, NotEmptyByCount
    <3>4. Bill!TargetCandidates(edge) \subseteq DOMAIN nodes[edge.target].configurations
      BY DEF Bill!TargetCandidates, Bill!Available, Bill!Named, ScanResult
    <3>5. Bill!TargetCandidates(edge) \subseteq Nat
      BY <3>1, <3>4, CandidatesArePositions
    <3> QED
      BY <2>1, <3>3, <3>5
  <2> QED
    BY <2>1
<1>4. child = [parent |-> parent.occurrence, edge |-> e, node |-> edge.target,
               path |-> edge.path, requested |-> edge.requested, config |-> config,
               depth |-> parent.depth + 1, suppressed |-> edge.suppressed,
               excluded |-> edge.excluded, children |-> state, counted |-> ~hidden]
  BY DEF Child, Bill!Occurrence, ScanResult
<1>5. hidden \in BOOLEAN
  BY DEF Bill!HiddenBySuppression, Bill!HiddenByExclusion, PendingRecord
<1>6. parent.occurrence \in Nat /\ parent.depth + 1 \in Nat
  BY DEF PendingRecord
<1> HIDE DEF config, state, child
<1>7. child \in OccurrenceRecord /\ child.counted = ~hidden
  <2> HIDE DEF hidden
  <2> QED
    BY <1>1, <1>2, <1>3, <1>4, <1>5, <1>6 DEF EdgeRecord, OccurrenceRecord
<1>8. /\ child.edge = e /\ child.parent = parent.occurrence
      /\ child.node = edge.target /\ child.children = state
      /\ child.suppressed = edge.suppressed /\ child.excluded = edge.excluded
  BY <1>4
<1>9. Hidden(child) <=> Bill!HiddenBySuppression(edge) \/ Bill!HiddenByExclusion(edge)
  BY <1>8 DEF Hidden, Bill!HiddenBySuppression, Bill!HiddenByExclusion
<1>10. child.counted <=> ~(parent.suppressed \/ parent.excluded) /\ ~Hidden(child)
  BY <1>7, <1>9
<1>11. Instance(child, FALSE)
  BY <1>8 DEF Instance, state
<1> QED
  BY <1>7, <1>8, <1>10, <1>11 DEF child

-----------------------------------------------------------------------------
(***************************************************************************)
(* Positions and sequences of pending expansions.                          *)
(***************************************************************************)
LEMMA FirstIs ==
  ASSUME NEW S, S \subseteq Nat, S # {}
  PROVE  Bill!Least(S) \in S /\ \A y \in S : Bill!Least(S) <= y
<1> DEFINE R == OpToRel(<, Nat)
<1>1. IsWellFoundedOn(R, Nat)
  BY NatLessThanWellFounded, Zenon
<1>2. \A x, y \in Nat : y < x => <<y, x>> \in R
  BY Zenon DEF OpToRel
<1> HIDE DEF R
<1>3. PICK x \in S : \A y \in S : ~(<<y, x>> \in R)
  BY <1>1, WFMin
<1>4. ASSUME NEW y \in S PROVE x <= y
  <2>1. x \in Nat /\ y \in Nat
    OBVIOUS
  <2>2. ~(y < x)
    BY <1>2, <1>3, <2>1
  <2> QED
    BY <2>1, <2>2
<1> QED
  BY <1>4 DEF Bill!Least

LEMMA Joined ==
  ASSUME NEW s \in Seq(PendingRecord), NEW t \in Seq(PendingRecord),
         Distinct(s), Distinct(t), Owners(s) \cap Owners(t) = {}
  PROVE  /\ s \o t \in Seq(PendingRecord) /\ Distinct(s \o t)
         /\ Owners(s \o t) = Owners(s) \cup Owners(t)
         /\ \A i \in DOMAIN (s \o t) :
              \/ \E j \in DOMAIN s : (s \o t)[i] = s[j]
              \/ \E j \in DOMAIN t : (s \o t)[i] = t[j]
<1> DEFINE u == s \o t
<1>1. /\ u \in Seq(PendingRecord) /\ Len(u) = Len(s) + Len(t)
      /\ \A i \in 1 .. Len(s) : u[i] = s[i]
      /\ \A i \in 1 .. Len(t) : u[Len(s) + i] = t[i]
      /\ Len(s) \in Nat /\ Len(t) \in Nat
  BY ConcatProperties
<1> HIDE DEF u
<1>2. /\ DOMAIN s = 1 .. Len(s) /\ DOMAIN t = 1 .. Len(t)
      /\ DOMAIN u = 1 .. Len(s) + Len(t)
  BY <1>1
<1>3. ASSUME NEW i \in DOMAIN u
      PROVE  \/ i \in DOMAIN s /\ u[i] = s[i]
             \/ i - Len(s) \in DOMAIN t /\ u[i] = t[i - Len(s)]
  <2>1. CASE i <= Len(s)
    BY <1>1, <1>2, <2>1
  <2>2. CASE ~(i <= Len(s))
    <3>1. i - Len(s) \in 1 .. Len(t) /\ Len(s) + (i - Len(s)) = i
      BY <1>1, <1>2, <2>2
    <3> QED
      BY <1>1, <1>2, <3>1
  <2> QED
    BY <2>1, <2>2
<1>4. \A i \in DOMAIN s : i \in DOMAIN u /\ u[i] = s[i]
  BY <1>1, <1>2
<1>5. \A i \in DOMAIN t : Len(s) + i \in DOMAIN u /\ u[Len(s) + i] = t[i]
  BY <1>1, <1>2
<1>6. Owners(u) = Owners(s) \cup Owners(t)
  BY <1>3, <1>4, <1>5 DEF Owners
<1>7. Distinct(u)
  <2> SUFFICES ASSUME NEW i \in DOMAIN u, NEW j \in DOMAIN u,
                      u[i].occurrence = u[j].occurrence
               PROVE  i = j
    BY DEF Distinct
  <2>1. i \in Nat /\ j \in Nat
    BY <1>2
  <2>2. \A k \in DOMAIN s, l \in DOMAIN t : s[k].occurrence # t[l].occurrence
    BY DEF Owners
  <2>3. CASE i \in DOMAIN s /\ u[i] = s[i] /\ j \in DOMAIN s /\ u[j] = s[j]
    BY <2>3 DEF Distinct
  <2>4. CASE /\ i - Len(s) \in DOMAIN t /\ u[i] = t[i - Len(s)]
             /\ j - Len(s) \in DOMAIN t /\ u[j] = t[j - Len(s)]
    <3>1. i - Len(s) = j - Len(s)
      BY <2>4 DEF Distinct
    <3> QED
      BY <1>1, <2>1, <3>1
  <2> QED
    BY <1>3, <2>2, <2>3, <2>4
<1> QED
  BY <1>1, <1>3, <1>6, <1>7 DEF u

LEMMA Taken ==
  ASSUME NEW s \in Seq(PendingRecord), s # <<>>, Distinct(s)
  PROVE  LET t == SubSeq(s, 1, Len(s) - 1)
         IN /\ s[Len(s)] \in PendingRecord /\ Len(s) \in DOMAIN s
            /\ t \in Seq(PendingRecord) /\ Distinct(t)
            /\ Owners(t) = Owners(s) \ {s[Len(s)].occurrence}
            /\ \A i \in DOMAIN t : i \in DOMAIN s /\ t[i] = s[i]
<1> DEFINE t == SubSeq(s, 1, Len(s) - 1)
<1>1. Len(s) \in Nat /\ Len(s) > 0 /\ DOMAIN s = 1 .. Len(s)
  OBVIOUS
<1>2. /\ t \in Seq(PendingRecord) /\ DOMAIN t = 1 .. Len(s) - 1
      /\ \A i \in 1 .. Len(s) - 1 : t[i] = s[i]
  BY <1>1, SubSeqProperties
<1> HIDE DEF t
<1>3. \A i \in DOMAIN t : i \in DOMAIN s /\ t[i] = s[i] /\ i # Len(s)
  BY <1>1, <1>2
<1>4. \A i \in DOMAIN s : i # Len(s) => i \in DOMAIN t /\ t[i] = s[i]
  BY <1>1, <1>2
<1>5. Owners(t) = Owners(s) \ {s[Len(s)].occurrence}
  <2>1. \A i \in DOMAIN s : i # Len(s) => s[i].occurrence # s[Len(s)].occurrence
    BY <1>1 DEF Distinct
  <2> QED
    BY <1>1, <1>3, <1>4, <2>1 DEF Owners
<1>6. Distinct(t)
  BY <1>3 DEF Distinct
<1> QED
  BY <1>1, <1>2, <1>3, <1>5, <1>6 DEF t

LEMMA NoOwners == Owners(<<>>) = {} /\ Distinct(<<>>)
  BY DEF Owners, Distinct

-----------------------------------------------------------------------------
(***************************************************************************)
(* The steps.                                                              *)
(***************************************************************************)
LEMMA EmptyTypes == <<>> \in Seq(OccurrenceRecord) /\ <<>> \in Seq(PendingRecord)
  OBVIOUS

LEMMA BillsInit == ScanBomInit => Bills
<1> SUFFICES ASSUME ScanBomInit PROVE Bills
  OBVIOUS
<1>1. /\ occurrences = <<>> /\ agenda = <<>> /\ current = NONE
      /\ limited = FALSE /\ bill = "expanding"
  BY DEF ScanBomInit, Bill!BomInit
<1>2. Inv /\ Grounded
  BY InitStep, GroundedInit DEF ScanBomInit
<1>3. BillTypes
  BY <1>1, EmptyTypes DEF BillTypes
<1>4. Grown
  BY <1>1, NoOwners DEF Grown, Scheduled, Jobs
<1>5. Whole
  BY <1>1 DEF Whole, NoTwins, Exact
<1> QED
  BY <1>2, <1>3, <1>4, <1>5 DEF Bills

\* While the scan runs there is no bill.
LEMMA BillsScan ==
  ASSUME Bills, Scan
  PROVE  Bills'
<1>1. UNCHANGED billVars /\ Step
  BY DEF Scan
<1>2. occurrences = <<>> /\ bill \in {"expanding", "rejected"}
  <2>1. ~Done
    BY <1>1 DEF Step, VisitRoot, VisitParsed, VisitUnparsed, SkipComponentReference,
                RefuseReference, ProcessReference, NextConfiguration, Return, Finish,
                AtReference, Active, Running, Done
  <2> QED
    BY <2>1 DEF Bills, Grown
<1>3. /\ occurrences' = <<>> /\ agenda' = <<>> /\ current' = NONE
      /\ limited' = FALSE /\ bill' \in {"expanding", "rejected"}
  BY <1>1, <1>2 DEF billVars, Bills, Grown, BillTypes
<1>4. Inv' /\ Grounded'
  BY <1>1, NextStep, GroundedStep DEF Bills, Next
<1>5. BillTypes'
  BY <1>3, EmptyTypes DEF BillTypes
<1>6. Grown'
  BY <1>3, NoOwners DEF Grown, Scheduled, Jobs
<1>7. Whole'
  BY <1>3 DEF Whole, NoTwins, Exact
<1> QED
  BY <1>4, <1>5, <1>6, <1>7 DEF Bills

\* Steps that leave the tree and the schedule as they are.
LEMMA BillsSettle ==
  ASSUME Bills, UNCHANGED <<vars, occurrences, agenda, current, limited>>,
         bill' \in {"expanding", "rejected", "partial", "complete"},
         occurrences = <<>> => bill' \in {"expanding", "rejected"},
         bill' # "expanding" => current = NONE /\ (limited \/ agenda = <<>>),
         bill' = "complete" =>
           ~limited /\ \A o \in DOMAIN occurrences : ~Bill!Unsettled(occurrences[o])
  PROVE  Bills'
<1>1. Inv' /\ Grounded' /\ (Done' <=> Done)
  BY SameGraph DEF Bills
<1>2. BillTypes'
  BY DEF Bills, BillTypes
<1>3. /\ \A r, lim : Instance(r, lim)' <=> Instance(r, lim)
      /\ \A r : Wants(r)' = Wants(r)
      /\ \A n, c : Bill!ComponentEdges(n, c)' = Bill!ComponentEdges(n, c)
      /\ edges' = edges
  BY SameGraph DEF vars
<1>4. \A o \in DOMAIN occurrences \ {1} : Attached(occurrences, o, limited)'
  BY <1>3 DEF Bills, Grown, Attached
<1>5. Scheduled(occurrences, agenda, current, limited)'
  BY <1>3 DEF Bills, Grown, Scheduled
<1>6. Grown'
  BY <1>1, <1>4, <1>5 DEF Bills, Grown, Bill!Unsettled
<1>7. Whole'
  BY <1>3 DEF Bills, Whole, NoTwins, Exact, Left
<1> QED
  BY <1>1, <1>2, <1>6, <1>7 DEF Bills

LEMMA BillsRefuse ==
  ASSUME Bills, UNCHANGED vars, Bill!Refuse
  PROVE  Bills'
<1>1. /\ occurrences = <<>> /\ bill' = "rejected"
      /\ UNCHANGED <<occurrences, agenda, current, limited>>
  BY DEF Bill!Refuse
<1>2. agenda = <<>> /\ current = NONE
  BY <1>1 DEF Bills, Grown
<1> QED
  BY <1>1, <1>2, BillsSettle

LEMMA BillsFinish ==
  ASSUME Bills, UNCHANGED vars, Bill!FinishBill
  PROVE  Bills'
<1>1. /\ occurrences # <<>> /\ current = NONE /\ (limited \/ agenda = <<>>)
      /\ bill' = IF \/ incomplete \/ limited
                    \/ \E o \in DOMAIN occurrences : Bill!Unsettled(occurrences[o])
                 THEN "partial" ELSE "complete"
      /\ UNCHANGED <<occurrences, agenda, current, limited>>
  BY DEF Bill!FinishBill
<1>2. bill' \in {"partial", "complete"}
  BY <1>1
<1>3. bill' = "complete" =>
        ~limited /\ \A o \in DOMAIN occurrences : ~Bill!Unsettled(occurrences[o])
  BY <1>1
<1> QED
  BY <1>1, <1>2, <1>3, BillsSettle

\* The root: a configuration of the first document, expanded from nothing.
LEMMA BillsRoot ==
  ASSUME Bills, UNCHANGED vars, Bill!ExpandRoot, Done
  PROVE  Bills'
<1>1. /\ occurrences = <<>> /\ ~Bill!Refusable /\ bill = "expanding"
      /\ UNCHANGED <<current, limited, bill>>
  BY DEF Bill!ExpandRoot, Bill!Expanding
<1>2. PICK c \in Bill!RootCandidates :
        /\ occurrences' = <<[parent |-> 0, edge |-> 0, node |-> BillRoot, path |-> NONE,
                             requested |-> nodes[BillRoot].configurations[c],
                             config |-> c, depth |-> 0, suppressed |-> "unknown",
                             excluded |-> "unknown", children |-> "expanded",
                             counted |-> TRUE]>>
        /\ agenda' = <<[occurrence |-> 1, node |-> BillRoot, config |-> c, depth |-> 0,
                        suppressed |-> FALSE, excluded |-> FALSE]>>
  BY DEF Bill!ExpandRoot, ScanResult, BillRoot
<1>3. current = NONE /\ ~limited
  BY <1>1 DEF Bills, Grown
<1>4. BillRoot # NONE /\ ~WholeProject /\ BillRoot = Roots[1] /\ BillRoot \in Nat
  <2>1. BillRoot # NONE
    BY <1>1 DEF Bill!Refusable, ScanResult, BillRoot
  <2>2. ~WholeProject /\ BillRoot = Roots[1]
    BY <2>1 DEF BillRoot
  <2>3. Len(Roots) = 1 /\ Roots \in Seq(HostFile)
    BY <2>2, OptionAssumption
  <2> QED
    BY <2>1, <2>2, <2>3, LimitAssumption DEF HostFile
<1>5. BillRoot \in DOMAIN nodes
  <2>1. 1 \in DOMAIN Roots
    BY <1>4, OptionAssumption
  <2>2. stack = <<>> /\ roots = <<>> /\ RootMet(Roots[1])
    BY <2>1 DEF Bills, Grounded
  <2>3. Roots[1] \in DOMAIN parsed
    BY <2>2 DEF RootMet
  <2> QED
    BY <1>4, <2>3 DEF Bills, Inv, TypeOK
<1>6. Bill!RootCandidates \subseteq DOMAIN nodes[BillRoot].configurations
  BY DEF Bill!RootCandidates, Bill!Named, Bill!Available, ScanResult, BillRoot
<1>7. c \in Nat /\ nodes[BillRoot].configurations[c] \in Names \cup {NONE}
  BY <1>2, <1>5, <1>6, CandidatesArePositions DEF Bills
<1> DEFINE root == [parent |-> 0, edge |-> 0, node |-> BillRoot, path |-> NONE,
                    requested |-> nodes[BillRoot].configurations[c],
                    config |-> c, depth |-> 0, suppressed |-> "unknown",
                    excluded |-> "unknown", children |-> "expanded",
                    counted |-> TRUE]
           job == [occurrence |-> 1, node |-> BillRoot, config |-> c, depth |-> 0,
                   suppressed |-> FALSE, excluded |-> FALSE]
<1>8. root \in OccurrenceRecord /\ job \in PendingRecord
  BY <1>4, <1>7 DEF OccurrenceRecord, PendingRecord, Flag, ChildrenStates
<1>9. JobFits(job, <<root>>, FALSE) /\ RootOccurrence(root, FALSE)
  BY <1>4 DEF JobFits, RootOccurrence
<1>10. /\ root.parent = 0 /\ job.occurrence = 1
  OBVIOUS
<1> HIDE DEF root, job
<1>11. occurrences' = <<root>> /\ agenda' = <<job>>
  BY <1>2 DEF root, job
<1>12. Inv' /\ Grounded' /\ (Done' <=> Done)
  BY SameGraph DEF Bills
<1>13. BillTypes'
  BY <1>1, <1>3, <1>8, <1>11 DEF Bills, BillTypes
<1>14. Distinct(<<job>>) /\ Owners(<<job>>) = {1} /\ Jobs(<<job>>, <<root>>, FALSE)
  <2>1. DOMAIN <<job>> = {1} /\ <<job>>[1] = job
    OBVIOUS
  <2> QED
    BY <1>9, <1>10, <2>1 DEF Distinct, Owners, Jobs
<1>15. DOMAIN occurrences' = {1} /\ occurrences'[1] = root /\ occurrences' # <<>>
  BY <1>11
<1>16. limited' = FALSE /\ current' = NONE /\ bill' = "expanding"
  BY <1>1, <1>3 DEF Bills, BillTypes
<1>17. Grown'
  <2>2. Scheduled(occurrences, agenda, current, limited)'
    BY <1>11, <1>14, <1>16 DEF Scheduled
  <2>3. RootOccurrence(occurrences'[1], limited')
    BY <1>9, <1>15, <1>16
  <2> QED
    BY <1>12, <1>15, <1>16, <2>2, <2>3 DEF Grown
<1>18. Whole'
  <2>1. \A e : ~Born(occurrences, 1, e)'
    BY <1>10, <1>15 DEF Born
  <2>3. Exact(occurrences, agenda, current)'
    <3>1. 1 \in Owners(agenda)'
      BY <1>11, <1>14
    <3> QED
      BY <1>15, <1>16, <2>1, <3>1 DEF Exact, Left
  <2> QED
    BY <1>15, <2>3 DEF Whole, NoTwins
<1> QED
  BY <1>12, <1>13, <1>17, <1>18 DEF Bills

\* What stays when the graph does.
LEMMA SameOccurrences ==
  ASSUME Bills, UNCHANGED vars
  PROVE  /\ Inv' /\ Grounded' /\ (Done' <=> Done) /\ edges' = edges
         /\ \A occ, o, lim : Instance(occ[o], lim)' <=> Instance(occ[o], lim)
         /\ \A r : Wants(r)' = Wants(r)
         /\ \A n, c : Bill!ComponentEdges(n, c)' = Bill!ComponentEdges(n, c)
         /\ \A n, c : /\ Bill!ComponentEdges(n, c) \subseteq DOMAIN edges
                      /\ Bill!ComponentEdges(n, c) \subseteq Nat
<1>1. /\ Inv' /\ Grounded' /\ (Done' <=> Done) /\ edges' = edges
      /\ \A r : Wants(r)' = Wants(r)
      /\ \A n, c : Bill!ComponentEdges(n, c)' = Bill!ComponentEdges(n, c)
  BY SameGraph DEF Bills, vars
<1>2. \A occ, o, lim : Instance(occ[o], lim)' <=> Instance(occ[o], lim)
  BY SameGraph
<1>3. \A n, c : Bill!ComponentEdges(n, c) \subseteq DOMAIN edges
  BY DEF Bill!ComponentEdges, ScanResult
<1>4. DOMAIN edges \subseteq Nat
  BY DEF Bills, Inv, TypeOK
<1> QED
  BY <1>1, <1>2, <1>3, <1>4

LEMMA BillsPop ==
  ASSUME Bills, UNCHANGED vars, Bill!Pop
  PROVE  Bills'
<1> DEFINE next == agenda[Len(agenda)]
           taken == Bill!ComponentEdges(next.node, next.config)
           cur == [pending |-> next, found |-> <<>>, edges |-> taken]
<1>1. /\ bill = "expanding" /\ current = NONE /\ ~limited /\ agenda # <<>>
      /\ current' = cur
      /\ agenda' = SubSeq(agenda, 1, Len(agenda) - 1)
      /\ UNCHANGED <<occurrences, limited, bill>>
  BY DEF Bill!Pop, Bill!Expanding
<1>2. agenda \in Seq(PendingRecord) /\ Distinct(agenda) /\ Jobs(agenda, occurrences, FALSE)
  BY <1>1 DEF Bills, BillTypes, Grown, Scheduled
<1>3. /\ next \in PendingRecord /\ Len(agenda) \in DOMAIN agenda
      /\ agenda' \in Seq(PendingRecord) /\ Distinct(agenda')
      /\ Owners(agenda') = Owners(agenda) \ {next.occurrence}
      /\ \A i \in DOMAIN agenda' : i \in DOMAIN agenda /\ agenda'[i] = agenda[i]
  BY <1>1, <1>2, Taken
<1>4. JobFits(next, occurrences, FALSE) /\ Jobs(agenda', occurrences, FALSE)
  BY <1>2, <1>3 DEF Jobs
<1>5. taken \subseteq Nat
  BY SameOccurrences
<1> HIDE DEF next, taken
<1>6. /\ cur \in CurrentRecord /\ cur # NONE
      /\ cur.pending = next /\ cur.found = <<>> /\ cur.edges = taken
  <2>1. cur \in CurrentRecord
    BY <1>3, <1>5, EmptyTypes DEF CurrentRecord
  <2> QED
    BY <2>1, NoExpansionAssumption
<1> HIDE DEF cur
<1>7. BillTypes'
  BY <1>1, <1>3, <1>6 DEF Bills, BillTypes
<1>8. Scheduled(occurrences, agenda, current, limited)'
  <2>1. Jobs(<<>>, occurrences, FALSE)
    BY DEF Jobs
  <2>2. limited' = FALSE /\ occurrences' = occurrences
    BY <1>1 DEF Bills, BillTypes
  <2>3. \A n, c : Bill!ComponentEdges(n, c)' = Bill!ComponentEdges(n, c)
    BY SameOccurrences
  <2>4. taken = Bill!ComponentEdges(next.node, next.config)
    BY DEF taken
  <2>5. current'.pending = next /\ current'.found = <<>> /\ current'.edges = taken
    BY <1>1, <1>6
  <2>6. next.occurrence \notin Owners(agenda')
    BY <1>3
  <2> QED
    BY <1>3, <1>4, <2>1, <2>2, <2>3, <2>4, <2>5, <2>6, NoOwners DEF Scheduled
<1>9. occurrences # <<>>
  BY <1>1 DEF Bills, Grown
<1>10. \A o \in DOMAIN occurrences \ {1} : Attached(occurrences, o, limited)'
  BY <1>1, SameGraph DEF Bills, Grown, Attached, Hidden, Bill!HiddenBySuppression,
                         Bill!HiddenByExclusion
<1>11. Grown'
  BY <1>1, <1>8, <1>9, <1>10, SameOccurrences DEF Bills, Grown
<1>12. next.occurrence \in Owners(agenda)
  BY <1>3 DEF Owners, next
<1>13. taken = Wants(occurrences[next.occurrence])
  BY <1>4 DEF JobFits, Wants, taken
<1>14. \A o \in DOMAIN occurrences :
         Left(o, occurrences[o], agenda, current)' = Left(o, occurrences[o], agenda, current)
  BY <1>1, <1>3, <1>6, <1>12, <1>13, NoOwners, SameOccurrences DEF Left
<1>15. Whole'
  BY <1>1, <1>14, SameOccurrences DEF Bills, Whole, NoTwins, Exact, Born
<1> QED
  BY <1>7, <1>11, <1>15, SameOccurrences DEF Bills

LEMMA BillsPush ==
  ASSUME Bills, UNCHANGED vars, Bill!PushChildren
  PROVE  Bills'
<1>1. /\ bill = "expanding" /\ current # NONE /\ current.edges = {}
      /\ agenda' = agenda \o current.found /\ current' = NONE
      /\ UNCHANGED <<occurrences, limited, bill>>
  BY DEF Bill!PushChildren, Bill!InProgress, Bill!Expanding
<1>2. /\ agenda \in Seq(PendingRecord) /\ current.found \in Seq(PendingRecord)
  BY <1>1 DEF Bills, BillTypes, CurrentRecord
<1>3. /\ Distinct(agenda) /\ Distinct(current.found)
      /\ Owners(agenda) \cap Owners(current.found) = {}
      /\ Jobs(agenda, occurrences, limited) /\ Jobs(current.found, occurrences, limited)
      /\ current.pending.occurrence \notin Owners(current.found) \cup Owners(agenda)
  BY <1>1 DEF Bills, Grown, Scheduled
<1>4. /\ agenda' \in Seq(PendingRecord) /\ Distinct(agenda')
      /\ Owners(agenda') = Owners(agenda) \cup Owners(current.found)
      /\ \A i \in DOMAIN agenda' : \/ \E j \in DOMAIN agenda : agenda'[i] = agenda[j]
                                   \/ \E j \in DOMAIN current.found :
                                        agenda'[i] = current.found[j]
  <2> DEFINE joined == agenda \o current.found
  <2>1. /\ joined \in Seq(PendingRecord) /\ Distinct(joined)
        /\ Owners(joined) = Owners(agenda) \cup Owners(current.found)
        /\ \A i \in DOMAIN joined : \/ \E j \in DOMAIN agenda : joined[i] = agenda[j]
                                   \/ \E j \in DOMAIN current.found :
                                        joined[i] = current.found[j]
    BY <1>2, <1>3, Joined
  <2> HIDE DEF joined
  <2>2. agenda' = joined
    BY <1>1 DEF joined
  <2> QED
    BY <2>1, <2>2
<1>5. Jobs(agenda', occurrences, limited)
  BY <1>3, <1>4 DEF Jobs
<1>6. BillTypes'
  BY <1>1, <1>4 DEF Bills, BillTypes
<1>7. Scheduled(occurrences, agenda, current, limited)'
  BY <1>1, <1>4, <1>5 DEF Scheduled
<1>8. occurrences # <<>> /\ ~limited
  BY <1>1 DEF Bills, Grown
<1>9. \A o \in DOMAIN occurrences \ {1} : Attached(occurrences, o, limited)'
  BY <1>1, SameGraph DEF Bills, Grown, Attached, Hidden, Bill!HiddenBySuppression,
                         Bill!HiddenByExclusion
<1>10. Grown'
  BY <1>1, <1>7, <1>8, <1>9, SameOccurrences DEF Bills, Grown
<1>11. \A o \in DOMAIN occurrences :
         Left(o, occurrences[o], agenda, current)' = Left(o, occurrences[o], agenda, current)
  BY <1>1, <1>3, <1>4, SameOccurrences DEF Left
<1>12. Whole'
  BY <1>1, <1>11, SameOccurrences DEF Bills, Whole, NoTwins, Exact, Born
<1> QED
  BY <1>6, <1>10, <1>12, SameOccurrences DEF Bills

LEMMA BillsLimit ==
  ASSUME Bills, UNCHANGED vars, Bill!HitLimit
  PROVE  Bills'
<1> DEFINE o == current.pending.occurrence
<1>1. /\ bill = "expanding" /\ current # NONE
      /\ limited' = TRUE /\ current' = NONE
      /\ occurrences' = [occurrences EXCEPT ![o].children = "limit_reached"]
      /\ UNCHANGED <<agenda, bill>>
  BY DEF Bill!HitLimit, Bill!InProgress, Bill!Expanding
<1>2. o \in DOMAIN occurrences /\ Jobs(agenda, occurrences, limited) /\ Distinct(agenda)
  BY <1>1 DEF Bills, Grown, Scheduled, JobFits
<1>3. occurrences \in Seq(OccurrenceRecord)
  BY DEF Bills, BillTypes
<1>4. occurrences[o] \in OccurrenceRecord
  BY <1>2, <1>3
<1> DEFINE cut == [occurrences[o] EXCEPT !.children = "limit_reached"]
<1>5. /\ cut \in OccurrenceRecord /\ cut.children = "limit_reached"
      /\ cut.parent = occurrences[o].parent /\ cut.edge = occurrences[o].edge
      /\ cut.node = occurrences[o].node /\ cut.config = occurrences[o].config
      /\ cut.suppressed = occurrences[o].suppressed
      /\ cut.excluded = occurrences[o].excluded /\ cut.counted = occurrences[o].counted
  BY <1>4 DEF OccurrenceRecord, ChildrenStates
<1>6. occurrences' = [occurrences EXCEPT ![o] = cut]
  BY <1>1
<1> HIDE DEF cut, o
<1>7. /\ occurrences' \in Seq(OccurrenceRecord) /\ DOMAIN occurrences' = DOMAIN occurrences
      /\ \A p \in DOMAIN occurrences :
           occurrences'[p] = IF p = o THEN cut ELSE occurrences[p]
  BY <1>2, <1>3, <1>5, <1>6
<1>8. \A p \in DOMAIN occurrences :
        /\ occurrences'[p].parent = occurrences[p].parent
        /\ occurrences'[p].edge = occurrences[p].edge
        /\ occurrences'[p].node = occurrences[p].node
        /\ occurrences'[p].config = occurrences[p].config
        /\ occurrences'[p].suppressed = occurrences[p].suppressed
        /\ occurrences'[p].excluded = occurrences[p].excluded
        /\ occurrences'[p].counted = occurrences[p].counted
        /\ \/ occurrences'[p].children = occurrences[p].children
           \/ occurrences'[p].children = "limit_reached"
  BY <1>5, <1>7
<1>9. BillTypes'
  BY <1>1, <1>7 DEF Bills, BillTypes
<1>10. ~limited /\ occurrences # <<>> /\ DOMAIN occurrences = 1 .. Len(occurrences)
       /\ Len(occurrences) \in Nat
  BY <1>1, <1>3 DEF Bills, Grown
<1>11. 1 \in DOMAIN occurrences /\ occurrences' # <<>>
  BY <1>3, <1>7, <1>10
<1>12. ASSUME NEW p \in DOMAIN occurrences \ {1}
       PROVE  Attached(occurrences, p, limited)'
  <2>1. Attached(occurrences, p, limited) /\ p \in Nat
    BY <1>10 DEF Bills, Grown
  <2>2. occurrences[p].parent \in DOMAIN occurrences
    BY <1>10, <2>1 DEF Attached
  <2>3. Instance(occurrences'[p], TRUE)
    BY <1>8, <1>10, <2>1 DEF Attached, Instance
  <2>4. Instance(occurrences[p], limited)'
    BY <1>1, <2>3, SameGraph
  <2>5. Hidden(occurrences[p])' <=> Hidden(occurrences[p])
    BY <1>8 DEF Hidden, Bill!HiddenBySuppression, Bill!HiddenByExclusion
  <2> QED
    BY <1>8, <2>1, <2>2, <2>4, <2>5 DEF Attached
<1>13. Jobs(agenda, occurrences, limited)'
  BY <1>1, <1>2, <1>7, <1>8 DEF Jobs, JobFits
<1>14. Scheduled(occurrences, agenda, current, limited)'
  BY <1>1, <1>2, <1>13 DEF Scheduled
<1>15. RootOccurrence(occurrences[1], limited)'
  <2>1. RootOccurrence(occurrences[1], limited)
    BY <1>10 DEF Bills, Grown
  <2> QED
    BY <1>1, <1>8, <1>11, <2>1 DEF RootOccurrence
<1>16. Grown'
  BY <1>1, <1>7, <1>10, <1>11, <1>12, <1>14, <1>15, SameOccurrences DEF Bills, Grown
<1>17. Whole'
  BY <1>1, <1>7, <1>8 DEF Bills, Whole, NoTwins
<1> QED
  BY <1>9, <1>16, <1>17, SameOccurrences DEF Bills

\* Work left for a tree stays right when an occurrence is added to the tree.
LEMMA JobsStay ==
  ASSUME NEW seq, NEW occ, NEW more, NEW lim, Jobs(seq, occ, lim),
         \A o \in DOMAIN occ : o \in DOMAIN more /\ more[o] = occ[o]
  PROVE  Jobs(seq, more, lim)
  BY DEF Jobs, JobFits

NewJob(child) == Bill!Pending(Len(occurrences) + 1, child, current.pending)

LEMMA NewJobFacts ==
  ASSUME NEW child \in OccurrenceRecord, current.pending \in PendingRecord,
         Len(occurrences) \in Nat,
         child.counted <=> /\ ~(current.pending.suppressed \/ current.pending.excluded)
                           /\ ~Hidden(child)
  PROVE  /\ NewJob(child) \in PendingRecord
         /\ NewJob(child).occurrence = Len(occurrences) + 1
         /\ NewJob(child).node = child.node /\ NewJob(child).config = child.config
         /\ (NewJob(child).suppressed \/ NewJob(child).excluded) <=> ~child.counted
<1> DEFINE p == current.pending
           sup == p.suppressed \/ Bill!HiddenBySuppression(child)
           exc == p.excluded \/ Bill!HiddenByExclusion(child)
<1>1. NewJob(child) = [occurrence |-> Len(occurrences) + 1, node |-> child.node,
                       config |-> child.config, depth |-> p.depth + 1,
                       suppressed |-> sup, excluded |-> exc]
  BY DEF NewJob, Bill!Pending
<1>2. sup \in BOOLEAN /\ exc \in BOOLEAN
  BY DEF PendingRecord, Bill!HiddenBySuppression, Bill!HiddenByExclusion
<1>3. sup \/ exc <=> ~child.counted
  BY DEF Hidden
<1>4. /\ child.node \in Nat \cup {NONE} /\ child.config \in Nat
      /\ p.depth + 1 \in Nat /\ Len(occurrences) + 1 \in Nat
  BY DEF OccurrenceRecord, PendingRecord
<1> HIDE DEF sup, exc, p
<1>5. /\ NewJob(child).suppressed = sup /\ NewJob(child).excluded = exc
      /\ NewJob(child).occurrence = Len(occurrences) + 1
      /\ NewJob(child).node = child.node /\ NewJob(child).config = child.config
  BY <1>1
<1>6. NewJob(child) \in PendingRecord
  BY <1>1, <1>2, <1>4 DEF PendingRecord
<1> QED
  BY <1>3, <1>5, <1>6

\* The occurrence of the least edge in hand.
LeastEdge == Bill!Least(current.edges)
Newborn == Child(LeastEdge, current.pending)

LEMMA InHandFacts ==
  ASSUME Bills, current # NONE, current.edges # {}
  PROVE  /\ ~limited /\ occurrences # <<>> /\ current \in CurrentRecord
         /\ current.pending \in PendingRecord
         /\ current.pending.occurrence \in DOMAIN occurrences
         /\ LeastEdge \in current.edges /\ LeastEdge \in DOMAIN edges
         /\ current.edges \subseteq Wants(occurrences[current.pending.occurrence])
         /\ Newborn \in OccurrenceRecord /\ Instance(Newborn, FALSE)
         /\ Newborn.edge = LeastEdge
         /\ Newborn.parent = current.pending.occurrence
         /\ Newborn.counted <=> /\ ~(current.pending.suppressed \/ current.pending.excluded)
                                /\ ~Hidden(Newborn)
         /\ Newborn.counted <=> /\ occurrences[current.pending.occurrence].counted
                                /\ ~Hidden(Newborn)
<1>1. current \in CurrentRecord
  BY DEF Bills, BillTypes
<1>2. current.pending \in PendingRecord /\ current.edges \subseteq Nat
  BY <1>1 DEF CurrentRecord
<1>3. ~limited /\ occurrences # <<>> /\ JobFits(current.pending, occurrences, limited)
      /\ current.edges \subseteq Bill!ComponentEdges(current.pending.node,
                                                     current.pending.config)
  BY DEF Bills, Grown, Scheduled
<1>4. LeastEdge \in current.edges
  BY <1>2, FirstIs DEF LeastEdge
<1>5. LeastEdge \in DOMAIN edges
  BY <1>3, <1>4 DEF Bill!ComponentEdges, ScanResult
<1>6. current.edges \subseteq Wants(occurrences[current.pending.occurrence])
  BY <1>3 DEF JobFits, Wants
<1>7. /\ Newborn \in OccurrenceRecord /\ Instance(Newborn, FALSE)
      /\ Newborn.edge = LeastEdge
      /\ Newborn.parent = current.pending.occurrence
      /\ Newborn.counted <=> /\ ~(current.pending.suppressed \/ current.pending.excluded)
                             /\ ~Hidden(Newborn)
  BY ZenonT(40), <1>2, <1>5, OccurrenceFacts DEF Newborn, Bills
<1>8. Newborn.counted <=> occurrences[current.pending.occurrence].counted /\ ~Hidden(Newborn)
  BY <1>3, <1>7 DEF JobFits
<1> QED
  BY <1>1, <1>2, <1>3, <1>4, <1>5, <1>6, <1>7, <1>8 DEF JobFits

LEMMA FoundFacts ==
  ASSUME Bills, current # NONE, current.edges # {},
         NEW found,
         found = IF Newborn.children = "expanded"
                 THEN <<NewJob(Newborn)>> \o current.found ELSE current.found
  PROVE  LET more == Append(occurrences, Newborn)
             n == Len(occurrences) + 1
         IN /\ found \in Seq(PendingRecord) /\ Distinct(found)
            /\ Jobs(found, more, FALSE)
            /\ Owners(found) = IF Newborn.children = "expanded"
                               THEN Owners(current.found) \cup {n}
                               ELSE Owners(current.found)
<1> DEFINE more == Append(occurrences, Newborn)
           n == Len(occurrences) + 1
           job == NewJob(Newborn)
<1>1. /\ ~limited /\ current \in CurrentRecord /\ current.pending \in PendingRecord
      /\ Newborn \in OccurrenceRecord
      /\ Newborn.counted <=> /\ ~(current.pending.suppressed \/ current.pending.excluded)
                             /\ ~Hidden(Newborn)
  BY InHandFacts
<1>2. /\ occurrences \in Seq(OccurrenceRecord) /\ Len(occurrences) \in Nat
      /\ DOMAIN occurrences = 1 .. Len(occurrences)
  BY DEF Bills, BillTypes
<1>3. /\ job \in PendingRecord /\ job.occurrence = n
      /\ job.node = Newborn.node /\ job.config = Newborn.config
      /\ (job.suppressed \/ job.excluded) <=> ~Newborn.counted
  BY <1>1, <1>2, NewJobFacts
<1>4. /\ \A o \in DOMAIN occurrences : o \in DOMAIN more /\ more[o] = occurrences[o]
      /\ n \in DOMAIN more /\ more[n] = Newborn
      /\ n \notin DOMAIN occurrences
  BY <1>1, <1>2
<1>5. /\ current.found \in Seq(PendingRecord) /\ Distinct(current.found)
      /\ Jobs(current.found, occurrences, FALSE)
  <2>1. limited = FALSE
    BY <1>1 DEF Bills, BillTypes
  <2>2. Distinct(current.found) /\ Jobs(current.found, occurrences, FALSE)
    BY <2>1 DEF Bills, Grown, Scheduled
  <2> QED
    BY <1>1, <2>2 DEF CurrentRecord
<1> HIDE DEF more, n, job
<1>6. Jobs(current.found, more, FALSE)
  BY <1>4, <1>5, JobsStay
<1>7. n \notin Owners(current.found)
  BY <1>4, <1>5 DEF Owners, Jobs, JobFits
<1>8. CASE Newborn.children = "expanded"
  <2>1. <<job>> \in Seq(PendingRecord) /\ DOMAIN <<job>> = {1} /\ <<job>>[1] = job
    BY <1>3
  <2>2. Distinct(<<job>>) /\ Owners(<<job>>) = {n}
    BY <1>3, <2>1 DEF Distinct, Owners
  <2> DEFINE joined == <<job>> \o current.found
  <2>3. /\ joined \in Seq(PendingRecord) /\ Distinct(joined)
        /\ Owners(joined) = {n} \cup Owners(current.found)
        /\ \A i \in DOMAIN joined : \/ \E j \in DOMAIN <<job>> : joined[i] = <<job>>[j]
                                    \/ \E j \in DOMAIN current.found :
                                         joined[i] = current.found[j]
    <3>1. Owners(<<job>>) \cap Owners(current.found) = {}
      BY <1>7, <2>2
    <3> QED
      BY ZenonT(30), <1>5, <2>1, <2>2, <3>1, Joined
  <2>4. found = joined
    BY <1>8 DEF job
  <2> HIDE DEF joined
  <2>5. JobFits(job, more, FALSE)
    BY <1>3, <1>4, <1>8 DEF JobFits
  <2>6. Jobs(joined, more, FALSE)
    BY <1>6, <2>1, <2>3, <2>5 DEF Jobs
  <2> QED
    BY <1>8, <2>3, <2>4, <2>6 DEF more, n
<1>9. CASE Newborn.children # "expanded"
  BY <1>5, <1>6, <1>9 DEF more
<1> QED
  BY <1>8, <1>9

\* One edge in hand becomes an occurrence.
LEMMA ExpandFacts ==
  ASSUME Bills, Bill!ExpandEdge
  PROVE  /\ bill = "expanding" /\ current # NONE /\ current.edges # {}
         /\ UNCHANGED <<agenda, limited, bill>>
         /\ occurrences' = Append(occurrences, Newborn)
         /\ current' \in CurrentRecord /\ current' # NONE
         /\ current'.pending = current.pending
         /\ current'.edges = current.edges \ {LeastEdge}
         /\ current'.found = IF Newborn.children = "expanded"
                             THEN <<NewJob(Newborn)>> \o current.found ELSE current.found
<1>1. /\ bill = "expanding" /\ current # NONE /\ current.edges # {}
      /\ UNCHANGED <<agenda, limited, bill>>
      /\ occurrences' = Append(occurrences, Newborn)
      /\ current' = [current EXCEPT
           !.edges = @ \ {LeastEdge},
           !.found = IF Newborn.children = "expanded"
                     THEN <<NewJob(Newborn)>> \o @ ELSE @]
  BY DEF Bill!ExpandEdge, Bill!InProgress, Bill!Expanding, Newborn, LeastEdge, Child, NewJob
<1>2. current \in CurrentRecord
  BY <1>1, InHandFacts
<1> DEFINE found == IF Newborn.children = "expanded"
                    THEN <<NewJob(Newborn)>> \o current.found ELSE current.found
<1>3. found \in Seq(PendingRecord)
  BY <1>1, FoundFacts
<1>4. current' = [current EXCEPT !.edges = current.edges \ {LeastEdge}, !.found = found]
  BY <1>1
<1> HIDE DEF found
<1>5. /\ current' \in CurrentRecord /\ current'.pending = current.pending
      /\ current'.edges = current.edges \ {LeastEdge} /\ current'.found = found
  BY <1>2, <1>3, <1>4 DEF CurrentRecord
<1>6. current' # NONE
  BY <1>5, NoExpansionAssumption
<1> QED
  BY <1>1, <1>5, <1>6 DEF found

LEMMA BillsExpand ==
  ASSUME Bills, UNCHANGED vars, Bill!ExpandEdge
  PROVE  Bills'
<1> DEFINE n == Len(occurrences) + 1
           o == current.pending.occurrence
<1>1. /\ bill = "expanding" /\ current # NONE /\ current.edges # {}
      /\ UNCHANGED <<agenda, limited, bill>>
      /\ occurrences' = Append(occurrences, Newborn)
      /\ current' \in CurrentRecord /\ current' # NONE
      /\ current'.pending = current.pending
      /\ current'.edges = current.edges \ {LeastEdge}
  BY ExpandFacts
<1>2. /\ ~limited /\ occurrences # <<>> /\ o \in DOMAIN occurrences
      /\ LeastEdge \in current.edges /\ LeastEdge \in DOMAIN edges
      /\ current.edges \subseteq Wants(occurrences[o])
      /\ Newborn \in OccurrenceRecord /\ Instance(Newborn, FALSE)
      /\ Newborn.edge = LeastEdge /\ Newborn.parent = o
      /\ Newborn.counted <=> occurrences[o].counted /\ ~Hidden(Newborn)
  BY <1>1, InHandFacts
<1>3. limited = FALSE /\ limited' = FALSE
  BY <1>1, <1>2 DEF Bills, BillTypes
<1>4. /\ occurrences \in Seq(OccurrenceRecord) /\ Len(occurrences) \in Nat
      /\ DOMAIN occurrences = 1 .. Len(occurrences)
  BY DEF Bills, BillTypes
<1>5. /\ occurrences' \in Seq(OccurrenceRecord)
      /\ DOMAIN occurrences' = DOMAIN occurrences \cup {n}
      /\ \A p \in DOMAIN occurrences : occurrences'[p] = occurrences[p]
      /\ occurrences'[n] = Newborn
      /\ n \notin DOMAIN occurrences
      /\ 1 \in DOMAIN occurrences /\ n # 1 /\ o \in 1 .. n - 1
  BY <1>1, <1>2, <1>4
<1>6. /\ current'.found \in Seq(PendingRecord) /\ Distinct(current'.found)
      /\ Jobs(current'.found, occurrences', FALSE)
      /\ Owners(current'.found) = IF Newborn.children = "expanded"
                                  THEN Owners(current.found) \cup {n}
                                  ELSE Owners(current.found)
  BY <1>1, ExpandFacts, FoundFacts
<1> HIDE DEF n, o
<1>7. BillTypes'
  BY <1>1, <1>5 DEF Bills, BillTypes
<1>8. /\ Jobs(agenda, occurrences, FALSE) /\ Distinct(agenda)
      /\ JobFits(current.pending, occurrences, FALSE)
      /\ Owners(current.found) \cap Owners(agenda) = {}
      /\ o \notin Owners(current.found) \cup Owners(agenda)
      /\ current.edges \subseteq Bill!ComponentEdges(current.pending.node,
                                                     current.pending.config)
  BY <1>1, <1>3 DEF Bills, Grown, Scheduled, o
<1>9. n \notin Owners(agenda)
  BY <1>5, <1>8 DEF Owners, Jobs, JobFits
<1>10. Scheduled(occurrences, agenda, current, limited)'
  <2>1. Jobs(agenda, occurrences', FALSE)
    BY <1>5, <1>8, JobsStay
  <2>2. JobFits(current.pending, occurrences', FALSE)
    BY <1>5, <1>8 DEF JobFits
  <2>3. Owners(current'.found) \cap Owners(agenda) = {}
    BY <1>6, <1>8, <1>9
  <2>4. o \notin Owners(current'.found) \cup Owners(agenda)
    BY <1>2, <1>5, <1>6, <1>8
  <2>5. \A m, c : Bill!ComponentEdges(m, c)' = Bill!ComponentEdges(m, c)
    BY SameOccurrences
  <2>6. current'.edges \subseteq Bill!ComponentEdges(current.pending.node,
                                                      current.pending.config)
    BY <1>1, <1>8
  <2> QED
    BY <1>1, <1>3, <1>6, <1>8, <2>1, <2>2, <2>3, <2>4, <2>5, <2>6 DEF Scheduled, o
<1>11. ASSUME NEW p \in DOMAIN occurrences' \ {1}
       PROVE  Attached(occurrences, p, limited)'
  <2>1. \A r : Instance(r, FALSE)' <=> Instance(r, FALSE)
    BY SameGraph
  <2>2. CASE p = n
    <3>1. Instance(occurrences[p], FALSE)'
      BY <1>2, <1>5, <2>1, <2>2
    <3>2. Hidden(occurrences[p])' <=> Hidden(Newborn)
      BY <1>5, <2>2 DEF Hidden, Bill!HiddenBySuppression, Bill!HiddenByExclusion
    <3> QED
      BY <1>2, <1>3, <1>5, <2>2, <2>1, <3>2 DEF Attached
  <2>3. CASE p \in DOMAIN occurrences
    <3>1. Attached(occurrences, p, FALSE)
      BY <1>3, <2>3 DEF Bills, Grown
    <3>2. occurrences[p].parent \in DOMAIN occurrences
      BY <1>4, <2>3, <3>1 DEF Attached
    <3>3. Hidden(occurrences[p])' <=> Hidden(occurrences[p])
      BY <1>5, <2>3 DEF Hidden, Bill!HiddenBySuppression, Bill!HiddenByExclusion
    <3> QED
      BY <1>3, <1>5, <2>1, <2>3, <3>1, <3>2, <3>3 DEF Attached
  <2> QED
    BY <1>5, <2>2, <2>3
<1>12. RootOccurrence(occurrences[1], limited)'
  <2>1. RootOccurrence(occurrences[1], FALSE)
    BY <1>2, <1>3 DEF Bills, Grown
  <2> QED
    BY <1>3, <1>5, <2>1 DEF RootOccurrence
<1>13. Grown'
  <2>1. occurrences' # <<>>
    BY <1>5
  <2>2. Done' /\ bill' = "expanding"
    BY <1>1, <1>2, SameOccurrences DEF Bills, Grown
  <2> QED
    BY <1>3, <1>10, <1>11, <1>12, <2>1, <2>2 DEF Grown
<1>14. Exact(occurrences, agenda, current)
  BY <1>2 DEF Bills, Whole
<1>15. ~Born(occurrences, o, LeastEdge)
  BY <1>1, <1>2, <1>14 DEF Exact, Left, o
<1>16. NoTwins(occurrences)'
  <2>1. \A c \in DOMAIN occurrences : ~(/\ occurrences[c].parent = o
                                        /\ occurrences[c].edge = LeastEdge)
    BY <1>15 DEF Born
  <2>2. NoTwins(occurrences)
    BY DEF Bills, Whole
  <2> QED
    BY <1>2, <1>5, <2>1, <2>2 DEF NoTwins
<1>17. ASSUME NEW p \in DOMAIN occurrences', NEW e \in DOMAIN edges
       PROVE  Born(occurrences, p, e)' <=>
                \/ p \in DOMAIN occurrences /\ Born(occurrences, p, e)
                \/ p = o /\ e = LeastEdge
  <2>1. \A c \in DOMAIN occurrences : occurrences[c].parent # n
    <3>1. ASSUME NEW c \in DOMAIN occurrences \ {1} PROVE occurrences[c].parent < n
      <4>1. occurrences[c].parent \in 1 .. c - 1
        BY DEF Bills, Grown, Attached
      <4> QED
        BY <1>4, <4>1 DEF n
    <3>2. occurrences[1].parent = 0
      BY <1>2 DEF Bills, Grown, RootOccurrence
    <3> QED
      BY <1>4, <3>1, <3>2 DEF n
  <2>2. o # n
    BY <1>2, <1>5
  <2> QED
    BY <1>2, <1>5, <2>1, <2>2 DEF Born
<1>18. Exact(occurrences, agenda, current)'
  <2>1. \A r : Wants(r)' = Wants(r)
    BY SameOccurrences
  <2>2. edges' = edges
    BY SameOccurrences
  <2> SUFFICES ASSUME NEW p \in DOMAIN occurrences', NEW e \in DOMAIN edges
               PROVE  Born(occurrences, p, e)' <=>
                        e \in Wants(occurrences[p])' /\
                        e \notin Left(p, occurrences[p], agenda, current)'
    BY <2>2 DEF Exact
  <2>4. CASE p = n
    <3>1. ~Born(occurrences, p, e)'
      BY <1>2, <1>5, <1>17, <2>4
    <3>2. Newborn.children # "expanded" => Wants(Newborn) = {}
      BY DEF Wants
    <3>3. current'.pending.occurrence # n
      BY <1>1, <1>2, <1>5 DEF o
    <3>4. Newborn.children = "expanded" => n \in Owners(current'.found)
      BY <1>6
    <3>5. Left(p, occurrences[p], agenda, current)' =
            IF n \in Owners(agenda') \/ n \in Owners(current'.found)
            THEN Wants(occurrences[p])' ELSE {}
      BY <1>1, <1>5, <2>4, <3>3 DEF Left
    <3>6. Wants(occurrences[p])' = Wants(Newborn)
      BY <1>5, <2>1, <2>4
    <3> QED
      BY <3>1, <3>2, <3>4, <3>5, <3>6
  <2>5. CASE p = o
    <3>1. Left(p, occurrences[p], agenda, current)' = current.edges \ {LeastEdge}
      BY <1>1, <2>5 DEF Left, o
    <3>2. Left(p, occurrences[p], agenda, current) = current.edges
      BY <1>1, <2>5 DEF Left, o
    <3>3. Wants(occurrences[p])' = Wants(occurrences[p])
      BY <1>2, <1>5, <2>1, <2>5
    <3> QED
      BY <1>2, <1>14, <1>17, <2>5, <3>1, <3>2, <3>3 DEF Exact
  <2>6. CASE p # n /\ p # o
    <3>1. p \in DOMAIN occurrences
      BY <1>5, <2>6
    <3>2. Wants(occurrences[p])' = Wants(occurrences[p])
      BY <1>5, <2>1, <3>1
    <3>3. Left(p, occurrences[p], agenda, current)' =
            IF p \in Owners(agenda) \/ p \in Owners(current.found)
            THEN Wants(occurrences[p]) ELSE {}
      BY <1>1, <1>6, <2>6, <3>2 DEF Left, o
    <3>4. Left(p, occurrences[p], agenda, current) =
            IF p \in Owners(agenda) \/ p \in Owners(current.found)
            THEN Wants(occurrences[p]) ELSE {}
      BY <1>1, <2>6 DEF Left, o
    <3> QED
      BY <1>14, <1>17, <2>6, <3>1, <3>2, <3>3, <3>4 DEF Exact
  <2> QED
    BY <2>4, <2>5, <2>6
<1>19. Whole'
  BY <1>16, <1>18 DEF Whole
<1> QED
  BY <1>7, <1>13, <1>19, SameOccurrences DEF Bills

LEMMA BillsStep == Bills /\ [ScanBomNext]_allVars => Bills'
<1> SUFFICES ASSUME Bills, [ScanBomNext]_allVars PROVE Bills'
  OBVIOUS
<1>1. CASE Scan
  BY <1>1, BillsScan
<1>2. CASE MakeBill
  <2>1. UNCHANGED vars /\ Done /\ Bill!BomNext
    BY <1>2 DEF MakeBill
  <2> QED
    BY <2>1, BillsRefuse, BillsRoot, BillsPop, BillsLimit, BillsExpand, BillsPush,
       BillsFinish DEF Bill!BomNext
<1>3. CASE UNCHANGED allVars
  <2>1. UNCHANGED <<vars, occurrences, agenda, current, limited>> /\ bill' = bill
    BY <1>3 DEF allVars, billVars
  <2> QED
    BY <2>1, BillsSettle DEF Bills, BillTypes, Grown
<1> QED
  BY <1>1, <1>2, <1>3 DEF ScanBomNext, BothDone

LEMMA BillsInvariant == ScanBomSpec => []Bills
  BY BillsInit, BillsStep, PTL DEF ScanBomSpec

-----------------------------------------------------------------------------
(***************************************************************************)
(* What follows.                                                           *)
(***************************************************************************)
\* A suppressed branch is included only when the scan went into it.
Followed == IncludeSuppressed => FollowSuppressed

LEMMA WholeByState ==
  ASSUME Bills, Followed, CompleteMeansResolved, bill = "complete", status = "complete",
         NEW o \in Occ, occurrences[o].counted
  PROVE  /\ occurrences[o].node # NONE
         /\ nodes[occurrences[o].node].status \in {"parsed", "partial"}
         /\ Bill!IsAssembly(occurrences[o].node) => occurrences[o].children = "expanded"
<1>1. ~limited /\ ~Bill!Unsettled(occurrences[o]) /\ occurrences # <<>>
  BY DEF Bills, Grown, Occ
<1>2. CASE o = 1
  <2>1. RootOccurrence(occurrences[1], limited)
    BY <1>1 DEF Bills, Grown
  <2>2. BillRoot # NONE /\ BillRoot = Roots[1] /\ 1 \in DOMAIN Roots
    BY <2>1, OptionAssumption DEF BillRoot, RootOccurrence
  <2>3. Done
    BY DEF Done
  <2>4. BillRoot \in DOMAIN parsed
    BY <2>2, <2>3 DEF Bills, Grounded, RootMet
  <2>5. nodes[BillRoot].status \in {"parsed", "partial"}
    BY <2>4 DEF Bills, Inv, NodesSettled
  <2> QED
    BY <1>1, <1>2, <2>1, <2>5 DEF RootOccurrence
<1>3. CASE o # 1
  <2> DEFINE edge == edges[occurrences[o].edge]
  <2>1. /\ Instance(occurrences[o], limited) /\ ~Hidden(occurrences[o])
    BY <1>3 DEF Bills, Grown, Attached, Occ
  <2>2. /\ occurrences[o].edge \in DOMAIN edges /\ occurrences[o].node = edge.target
        /\ occurrences[o].suppressed = edge.suppressed
        /\ occurrences[o].children = Bill!ChildrenState(edge)
    BY <1>1, <2>1 DEF Instance
  <2>3. edge.traversal # "suppressed"
    <3>1. edge.traversal = "suppressed" => edge.suppressed = "yes" /\ ~FollowSuppressed
      BY <2>2 DEF Bills, Grounded
    <3>2. ~(edge.suppressed = "yes" /\ ~IncludeSuppressed)
      BY <2>1, <2>2 DEF Hidden, Bill!HiddenBySuppression
    <3> QED
      BY <3>1, <3>2 DEF Followed
  <2>4. nodes[edge.target].status \in {"parsed", "partial"}
    BY <2>2, <2>3 DEF CompleteMeansResolved
  <2>5. edge.target # NONE
    BY <1>1, <2>2 DEF Bill!Unsettled, Bill!ChildrenState
  <2>6. Bill!IsAssembly(edge.target) => Bill!ChildrenState(edge) = "expanded"
    BY <1>1, <2>2, <2>3, <2>5 DEF Bill!Unsettled, Bill!ChildrenState
  <2> QED
    BY <2>2, <2>4, <2>5, <2>6
<1> QED
  BY <1>2, <1>3

\* Nothing is missing from a complete bill over a complete scan, provided the
\* scan followed what the bill includes.
THEOREM CompleteBillsAreWhole == ScanBomSpec => [](Followed => CompleteBillIsWhole)
<1>1. Bills /\ CompleteMeansResolved => (Followed => CompleteBillIsWhole)
  BY WholeByState DEF CompleteBillIsWhole
<1> QED
  BY <1>1, BillsInvariant, ScanUnderBill, CompleteIsResolved, PTL

LEMMA ExactByState == Bills => ExpansionIsExact
<1> SUFFICES ASSUME Bills, Billed, ~limited, NEW o \in Occ
             PROVE  /\ {occurrences[c].edge : c \in Children(o)} = Wants(occurrences[o])
                    /\ Cardinality(Children(o)) = Cardinality(Wants(occurrences[o]))
  BY DEF ExpansionIsExact, Wants
<1>1. current = NONE /\ agenda = <<>> /\ occurrences # <<>>
  BY DEF Bills, Grown, Billed
<1>2. /\ occurrences \in Seq(OccurrenceRecord) /\ Len(occurrences) \in Nat
      /\ DOMAIN occurrences = 1 .. Len(occurrences)
  BY DEF Bills, BillTypes
<1>3. Wants(occurrences[o]) \subseteq DOMAIN edges
  BY DEF Wants, Bill!ComponentEdges, ScanResult
<1>4. \A e \in DOMAIN edges : Born(occurrences, o, e) <=> e \in Wants(occurrences[o])
  BY <1>1, NoOwners DEF Bills, Whole, Exact, Left, Occ
<1>5. Children(o) \subseteq DOMAIN occurrences \ {1}
  <2>1. occurrences[1].parent = 0 /\ o # 0
    BY <1>1, <1>2 DEF Bills, Grown, RootOccurrence, Occ
  <2> QED
    BY <2>1 DEF Children, Occ
<1>6. \A c \in Children(o) : occurrences[c].parent = o /\ occurrences[c].edge \in DOMAIN edges
  BY <1>5 DEF Children, Bills, Grown, Attached, Instance
<1>7. {occurrences[c].edge : c \in Children(o)} = Wants(occurrences[o])
  BY <1>3, <1>4, <1>6 DEF Born, Children, Occ
<1> DEFINE f == [c \in Children(o) |-> occurrences[c].edge]
<1>8. IsFiniteSet(Children(o))
  <2>1. IsFiniteSet(1 .. Len(occurrences))
    BY <1>2, FS_Interval
  <2>2. Children(o) \subseteq 1 .. Len(occurrences)
    BY <1>2, <1>5
  <2> QED
    BY <2>1, <2>2, FS_Subset
<1>9. f \in Bijection(Children(o), Wants(occurrences[o]))
  <2>1. f \in [Children(o) -> Wants(occurrences[o])]
    BY <1>7
  <2>2. \A c, d \in Children(o) : f[c] = f[d] => c = d
    BY <1>5, <1>6 DEF Bills, Whole, NoTwins
  <2>3. \A e \in Wants(occurrences[o]) : \E c \in Children(o) : f[c] = e
    BY <1>7
  <2> QED
    BY <2>1, <2>2, <2>3, Fun_IsBij
<1> HIDE DEF f
<1>10. Cardinality(Children(o)) = Cardinality(Wants(occurrences[o]))
  BY <1>8, <1>9, FS_Bijection DEF ExistsBijection
<1> QED
  BY <1>7, <1>10

\* Every occurrence of an unlimited bill is expanded into the component edges
\* of its configuration, one child for each, and no other occurrence has any.
THEOREM ExpansionsAreExact == ScanBomSpec => []ExpansionIsExact
  BY BillsInvariant, ExactByState, PTL

-----------------------------------------------------------------------------
(***************************************************************************)
(* The occurrences above an occurrence.                                    *)
(***************************************************************************)
Above(f, o) ==
  f = [p \in 0 .. o |-> IF p = 0 THEN {} ELSE {p} \cup f[Bill!Parent(p)]]

Upward(n) == \A p \in 1 .. n : Bill!Parent(p) \in 0 .. p - 1

LEMMA AboveExists ==
  ASSUME NEW n \in Nat, Upward(n), NEW o \in 0 .. n
  PROVE  \E f : Above(f, o)
<1> DEFINE S == {k \in 0 .. n : ~ \E f : Above(f, k)}
<1> SUFFICES ASSUME S # {} PROVE FALSE
  OBVIOUS
<1>1. S \subseteq Nat
  OBVIOUS
<1>2. PICK k \in S : \A j \in S : k <= j
  BY <1>1, FirstIs
<1>3. k \in 0 .. n /\ ~ \E f : Above(f, k)
  OBVIOUS
<1>4. k # 0
  <2> DEFINE f == [p \in 0 .. 0 |-> {}]
  <2>1. \A p \in 0 .. 0 : p = 0
    OBVIOUS
  <2>2. Above(f, 0)
    BY <2>1 DEF Above
  <2> QED
    BY <1>3, <2>2
<1>5. k - 1 \in 0 .. n /\ k - 1 \notin S
  BY <1>1, <1>2, <1>3, <1>4
<1>6. PICK g : Above(g, k - 1)
  BY <1>5
<1> DEFINE f == [p \in 0 .. k |-> IF p = k THEN {k} \cup g[Bill!Parent(k)] ELSE g[p]]
<1>7. \A p \in 0 .. k - 1 : g[p] = IF p = 0 THEN {} ELSE {p} \cup g[Bill!Parent(p)]
  BY <1>6, Zenon DEF Above
<1>8. \A p \in 0 .. k : p # 0 => Bill!Parent(p) \in 0 .. k - 1 /\ Bill!Parent(p) # k
  BY <1>3 DEF Upward
<1>9. \A p \in 0 .. k - 1 : p \in 0 .. k /\ p # k /\ f[p] = g[p]
  BY <1>3
<1>10. ASSUME NEW p \in 0 .. k
       PROVE  f[p] = IF p = 0 THEN {} ELSE {p} \cup f[Bill!Parent(p)]
  <2>1. CASE p = k
    <3>1. f[p] = {k} \cup g[Bill!Parent(k)]
      BY <2>1
    <3>2. f[Bill!Parent(p)] = g[Bill!Parent(p)]
      BY <1>4, <1>8, <1>9, <2>1
    <3> QED
      BY <1>4, <2>1, <3>1, <3>2
  <2>2. CASE p # k
    <3>1. p \in 0 .. k - 1
      BY <1>3, <2>2
    <3>2. p # 0 => f[Bill!Parent(p)] = g[Bill!Parent(p)]
      BY <1>8, <1>9
    <3> HIDE DEF f
    <3> QED
      BY <1>7, <1>9, <3>1, <3>2
  <2> QED
    BY <2>1, <2>2
<1>11. f = [p \in 0 .. k |-> f[p]]
  OBVIOUS
<1> HIDE DEF f
<1>12. Above(f, k)
  BY <1>10, <1>11 DEF Above
<1> QED
  BY <1>3, <1>12

LEMMA AboveUnique ==
  ASSUME NEW n \in Nat, Upward(n), NEW o \in 0 .. n, NEW q \in 0 .. n,
         NEW f, NEW g, Above(f, o), Above(g, q),
         NEW p \in 0 .. o, p \in 0 .. q
  PROVE  f[p] = g[p]
<1> DEFINE S == {k \in 0 .. n : k <= o /\ k <= q /\ f[k] # g[k]}
<1> SUFFICES ASSUME S # {} PROVE FALSE
  OBVIOUS
<1>1. S \subseteq Nat
  OBVIOUS
<1>2. PICK k \in S : \A j \in S : k <= j
  BY <1>1, FirstIs
<1>3. /\ \A j \in 0 .. o : f[j] = IF j = 0 THEN {} ELSE {j} \cup f[Bill!Parent(j)]
      /\ \A j \in 0 .. q : g[j] = IF j = 0 THEN {} ELSE {j} \cup g[Bill!Parent(j)]
  BY Zenon DEF Above
<1>4. k \in 0 .. o /\ k \in 0 .. q /\ k \in 0 .. n /\ f[k] # g[k]
  OBVIOUS
<1>5. k # 0
  BY <1>3, <1>4
<1>6. Bill!Parent(k) \in 0 .. k - 1
  BY <1>4, <1>5 DEF Upward
<1>7. f[Bill!Parent(k)] = g[Bill!Parent(k)]
  BY <1>2, <1>4, <1>6
<1> QED
  BY <1>3, <1>4, <1>5, <1>7

LEMMA PathIs ==
  ASSUME NEW n \in Nat, Upward(n), NEW o \in 1 .. n
  PROVE  /\ Bill!Parent(o) = 0 => Path(o) = {o} /\ Bill!Ancestors(o) = {}
         /\ Bill!Parent(o) # 0 => /\ Path(o) = {o} \cup Path(Bill!Parent(o))
                                 /\ Bill!Ancestors(o) = Path(Bill!Parent(o))
<1> DEFINE chain(k) == CHOOSE f : Above(f, k)
           q == Bill!Parent(o)
<1>1. q \in 0 .. o - 1 /\ q \in 0 .. n /\ o \in 0 .. n
  BY DEF Upward
<1>2. \A k \in 0 .. n : Above(chain(k), k)
  BY AboveExists
<1>3. \A k : Bill!Ancestors(k) = chain(k)[Bill!Parent(k)]
  BY DEF Bill!Ancestors, Above
<1> HIDE DEF chain
<1>4. ASSUME NEW k \in 0 .. n, NEW j \in 0 .. k
      PROVE  chain(k)[j] = IF j = 0 THEN {} ELSE {j} \cup chain(k)[Bill!Parent(j)]
  <2>1. chain(k) = [p \in 0 .. k |-> IF p = 0 THEN {} ELSE {p} \cup chain(k)[Bill!Parent(p)]]
    BY <1>2 DEF Above
  <2> QED
    BY <2>1, Zenon
<1>5. CASE q = 0
  <2>1. chain(o)[0] = {}
    <3>1. 0 \in 0 .. o
      BY <1>1
    <3> QED
      BY <1>1, <1>4, <3>1
  <2> QED
    BY <1>3, <1>5, <2>1 DEF Path
<1>6. CASE q # 0
  <2>1. q \in 0 .. q /\ q \in 0 .. o
    BY <1>1
  <2>2. chain(o)[q] = chain(q)[q]
    BY <1>1, <1>2, <2>1, AboveUnique
  <2>3. chain(q)[q] = {q} \cup chain(q)[Bill!Parent(q)]
    BY <1>1, <1>4, <1>6, <2>1
  <2>4. Path(q) = chain(o)[q]
    BY <1>3, <2>2, <2>3 DEF Path
  <2>5. Path(o) = {o} \cup chain(o)[q] /\ Bill!Ancestors(o) = chain(o)[q]
    BY <1>3 DEF Path
  <2> QED
    BY <1>6, <2>4, <2>5
<1> QED
  BY <1>5, <1>6

LEMMA CountedByState == Bills => CountedFollowsThePath
<1> SUFFICES ASSUME Bills PROVE CountedFollowsThePath
  OBVIOUS
<1> DEFINE n == Len(occurrences)
           Clear(o) == \A p \in Path(o) : ~Hidden(occurrences[p])
           S == {o \in 1 .. n : ~(occurrences[o].counted <=> Clear(o))}
<1>1. n \in Nat /\ DOMAIN occurrences = 1 .. n /\ Occ = 1 .. n
  BY DEF Bills, BillTypes, Occ
<1>2. \A o \in 1 .. n : o # 1 => /\ Bill!Parent(o) \in 1 .. o - 1
                                 /\ occurrences[o].counted <=>
                                      occurrences[Bill!Parent(o)].counted /\ ~Hidden(occurrences[o])
  BY <1>1 DEF Bills, Grown, Attached, Bill!Parent
<1>3. 1 \in 1 .. n => RootOccurrence(occurrences[1], limited)
  BY <1>1 DEF Bills, Grown
<1>4. 1 \in 1 .. n => /\ Bill!Parent(1) = 0 /\ occurrences[1].counted
                      /\ ~Hidden(occurrences[1])
  BY <1>3 DEF RootOccurrence, Bill!Parent, Hidden, Bill!HiddenBySuppression,
              Bill!HiddenByExclusion
<1>5. Upward(n)
  BY <1>1, <1>2, <1>4 DEF Upward
<1> HIDE DEF n
<1>6. S = {}
  <2> SUFFICES ASSUME S # {} PROVE FALSE
    OBVIOUS
  <2>1. S \subseteq Nat
    BY <1>1
  <2>2. PICK o \in S : \A j \in S : o <= j
    BY <2>1, FirstIs
  <2>3. o \in 1 .. n /\ ~(occurrences[o].counted <=> Clear(o))
    OBVIOUS
  <2>4. CASE o = 1
    <3>1. Path(o) = {o}
      BY <1>1, <1>4, <1>5, <2>3, <2>4, PathIs
    <3> QED
      BY <1>4, <2>3, <2>4, <3>1
  <2>5. CASE o # 1
    <3> DEFINE q == Bill!Parent(o)
    <3>1. q \in 1 .. o - 1
      BY <1>2, <2>3, <2>5
    <3>2. Path(o) = {o} \cup Path(q)
      BY <1>1, <1>5, <2>3, <3>1, PathIs
    <3>3. q \in 1 .. n /\ q \notin S
      BY <1>1, <2>1, <2>2, <2>3, <3>1
    <3>4. occurrences[q].counted <=> Clear(q)
      BY <3>3
    <3>5. Clear(o) <=> ~Hidden(occurrences[o]) /\ Clear(q)
      BY <3>2
    <3> QED
      BY <1>2, <2>3, <2>5, <3>4, <3>5
  <2> QED
    BY <2>4, <2>5
<1> QED
  BY <1>1, <1>6 DEF CountedFollowsThePath, Hidden

\* An occurrence is counted exactly when nothing on its path from the root is
\* suppressed or excluded without being included.
THEOREM CountedAlongThePath == ScanBomSpec => []CountedFollowsThePath
  BY BillsInvariant, CountedByState, PTL

-----------------------------------------------------------------------------
(***************************************************************************)
(* Where an occurrence hangs.  Every occurrence stands for an edge of the  *)
(* configuration its parent instantiates, so a path of occurrences is a    *)
(* path of traversed edges; those led the scan, which never came round.    *)
(***************************************************************************)
TracedAt(occ, o) ==
  LET e == edges[occ[o].edge]
      p == occ[o].parent
  IN /\ e.kind = "component" /\ e.source = occ[p].node /\ e.config = occ[p].config
     /\ occ[o].path = e.path /\ occ[o].requested = e.requested
     /\ p # 1 => Bill!ChildrenState(edges[occ[p].edge]) = "expanded"
     /\ Bill!ChildrenState(e) = "expanded" => occ[o].config \in Bill!TargetCandidates(e)

Traced == \A o \in DOMAIN occurrences \ {1} : TracedAt(occurrences, o)

LEMMA TracedInit == ScanBomInit => Traced
  BY DEF ScanBomInit, Bill!BomInit, Traced

LEMMA SameTargets ==
  ASSUME UNCHANGED vars
  PROVE  /\ \A e : /\ Bill!ChildrenState(e)' = Bill!ChildrenState(e)
                   /\ Bill!TargetCandidates(e)' = Bill!TargetCandidates(e)
         /\ edges' = edges
<1>1. ScanResult' = ScanResult /\ edges' = edges
  BY DEF vars, ScanResult
<1>2. \A n : Bill!Available(n)' = Bill!Available(n)
  BY <1>1 DEF Bill!Available
<1>3. \A n, name : Bill!Named(n, name)' = Bill!Named(n, name)
  BY <1>1 DEF Bill!Named
<1>4. \A e : Bill!TargetCandidates(e)' = Bill!TargetCandidates(e)
  BY <1>2, <1>3 DEF Bill!TargetCandidates
<1>5. \A e : Bill!Instantiable(e)' = Bill!Instantiable(e)
  BY <1>1, <1>4 DEF Bill!Instantiable
<1>6. \A e : Bill!ChildrenState(e)' = Bill!ChildrenState(e)
  BY <1>1, <1>5 DEF Bill!ChildrenState, Bill!IsAssembly
<1> QED
  BY <1>1, <1>4, <1>6

\* A step that keeps what the occurrences stand for keeps where they hang.
LEMMA TracedKept ==
  ASSUME Bills, Traced, UNCHANGED vars, DOMAIN occurrences' = DOMAIN occurrences,
         \A o \in DOMAIN occurrences : /\ occurrences'[o].parent = occurrences[o].parent
                                       /\ occurrences'[o].edge = occurrences[o].edge
                                       /\ occurrences'[o].node = occurrences[o].node
                                       /\ occurrences'[o].config = occurrences[o].config
                                       /\ occurrences'[o].path = occurrences[o].path
                                       /\ occurrences'[o].requested = occurrences[o].requested
  PROVE  Traced'
<1> SUFFICES ASSUME NEW o \in DOMAIN occurrences \ {1}
             PROVE  TracedAt(occurrences, o)'
  BY DEF Traced
<1>1. occurrences[o].parent \in DOMAIN occurrences
  <2>1. occurrences[o].parent \in 1 .. o - 1
    BY DEF Bills, Grown, Attached
  <2> QED
    BY <2>1 DEF Bills, BillTypes
<1>2. TracedAt(occurrences, o)
  BY DEF Traced
<1> QED
  BY <1>1, <1>2, SameTargets DEF TracedAt

LEMMA TracedExpand ==
  ASSUME Bills, Traced, UNCHANGED vars, Bill!ExpandEdge
  PROVE  Traced'
<1> DEFINE n == Len(occurrences) + 1
           o == current.pending.occurrence
           e == edges[LeastEdge]
<1>1. /\ current # NONE /\ current.edges # {} /\ occurrences' = Append(occurrences, Newborn)
  BY ExpandFacts
<1>2. /\ ~limited /\ o \in DOMAIN occurrences
      /\ LeastEdge \in current.edges /\ LeastEdge \in DOMAIN edges
      /\ current.edges \subseteq Wants(occurrences[o])
      /\ current.pending \in PendingRecord
      /\ Newborn.edge = LeastEdge /\ Newborn.parent = o
  BY <1>1, InHandFacts
<1>3. /\ DOMAIN occurrences' = DOMAIN occurrences \cup {n} /\ n \notin DOMAIN occurrences
      /\ \A p \in DOMAIN occurrences : occurrences'[p] = occurrences[p]
      /\ occurrences'[n] = Newborn
  BY <1>1 DEF Bills, BillTypes
<1>4. /\ occurrences[o].children = "expanded"
      /\ LeastEdge \in Bill!ComponentEdges(occurrences[o].node, occurrences[o].config)
  BY <1>2 DEF Wants
<1>5. /\ e.kind = "component"
      /\ e.source = occurrences[o].node /\ e.config = occurrences[o].config
      /\ Newborn.path = e.path /\ Newborn.requested = e.requested
  BY <1>4 DEF Bill!ComponentEdges, ScanResult, Newborn, Child, Bill!Occurrence
<1>6. o # 1 => Bill!ChildrenState(edges[occurrences[o].edge]) = "expanded"
  <2> SUFFICES ASSUME o # 1 PROVE Bill!ChildrenState(edges[occurrences[o].edge]) = "expanded"
    OBVIOUS
  <2>1. Instance(occurrences[o], limited)
    BY <1>2 DEF Bills, Grown, Attached
  <2> QED
    BY <1>2, <1>4, <2>1 DEF Instance
<1>7. Bill!ChildrenState(e) = "expanded" => Newborn.config \in Bill!TargetCandidates(e)
  <2> SUFFICES ASSUME Bill!ChildrenState(e) = "expanded"
               PROVE  Newborn.config \in Bill!TargetCandidates(e)
    OBVIOUS
  <2>1. Bill!Cardinality(Bill!TargetCandidates(e)) = 1
    BY DEF Bill!ChildrenState, Bill!Instantiable
  <2>2. Bill!TargetCandidates(e) # {}
    BY <2>1, NotEmptyByCount
  <2>3. Newborn.config = CHOOSE c \in Bill!TargetCandidates(e) : TRUE
    BY DEF Newborn, Child, Bill!Occurrence, ScanResult
  <2> QED
    BY <2>2, <2>3
<1> SUFFICES ASSUME NEW q \in DOMAIN occurrences' \ {1}
             PROVE  TracedAt(occurrences, q)'
  BY DEF Traced
<1> HIDE DEF n, o
<1>8. CASE q = n
  <2>1. occurrences'[q] = Newborn /\ occurrences'[o] = occurrences[o]
    BY <1>2, <1>3, <1>8
  <2> QED
    BY <1>2, <1>5, <1>6, <1>7, <2>1, SameTargets DEF TracedAt
<1>9. CASE q \in DOMAIN occurrences
  <2>1. occurrences[q].parent \in 1 .. q - 1
    BY <1>9 DEF Bills, Grown, Attached
  <2>2. occurrences[q].parent \in DOMAIN occurrences
    BY <1>9, <2>1 DEF Bills, BillTypes
  <2>3. TracedAt(occurrences, q)
    BY <1>9 DEF Traced
  <2> QED
    BY <1>3, <1>9, <2>2, <2>3, SameTargets DEF TracedAt
<1> QED
  BY <1>3, <1>8, <1>9

LEMMA TracedStep == Bills /\ Traced /\ [ScanBomNext]_allVars => Traced'
<1> SUFFICES ASSUME Bills, Traced, [ScanBomNext]_allVars PROVE Traced'
  OBVIOUS
<1>1. CASE Scan
  <2>1. occurrences = <<>> /\ occurrences' = occurrences
    <3>1. ~Done /\ UNCHANGED billVars
      BY <1>1 DEF Scan, Step, VisitRoot, VisitParsed, VisitUnparsed, SkipComponentReference,
                  RefuseReference, ProcessReference, NextConfiguration, Return, Finish,
                  AtReference, Active, Running, Done
    <3> QED
      BY <3>1 DEF Bills, Grown, billVars
  <2> QED
    BY <2>1 DEF Traced
<1>2. CASE UNCHANGED allVars
  BY <1>2, TracedKept DEF allVars, billVars
<1>3. CASE MakeBill
  <2>1. UNCHANGED vars
    BY <1>3 DEF MakeBill
  <2>2. CASE Bill!ExpandRoot
    <3>1. DOMAIN occurrences' \ {1} = {}
      BY <2>2 DEF Bill!ExpandRoot
    <3> QED
      BY <3>1 DEF Traced
  <2>3. CASE Bill!HitLimit
    <3> DEFINE o == current.pending.occurrence
    <3>1. /\ current # NONE
          /\ occurrences' = [occurrences EXCEPT ![o].children = "limit_reached"]
      BY <2>3 DEF Bill!HitLimit, Bill!InProgress
    <3>2. occurrences \in Seq(OccurrenceRecord) /\ o \in DOMAIN occurrences
      BY <3>1 DEF Bills, BillTypes, Grown, Scheduled, JobFits
    <3>3. occurrences[o] \in OccurrenceRecord
      BY <3>2
    <3>4. DOMAIN occurrences' = DOMAIN occurrences
      BY <3>1, <3>2
    <3>5. \A q \in DOMAIN occurrences :
            occurrences'[q] = IF q = o THEN [occurrences[o] EXCEPT !.children = "limit_reached"]
                              ELSE occurrences[q]
      BY <3>1, <3>2
    <3> HIDE DEF o
    <3> QED
      BY <2>1, <3>3, <3>4, <3>5, TracedKept DEF OccurrenceRecord
  <2>4. CASE Bill!ExpandEdge
    BY <2>1, <2>4, TracedExpand
  <2>5. CASE Bill!Refuse \/ Bill!Pop \/ Bill!PushChildren \/ Bill!FinishBill
    <3>1. occurrences' = occurrences
      BY <2>5 DEF Bill!Refuse, Bill!Pop, Bill!PushChildren, Bill!FinishBill
    <3> QED
      BY <2>1, <3>1, TracedKept
  <2> QED
    BY <1>3, <2>2, <2>3, <2>4, <2>5 DEF MakeBill, Bill!BomNext
<1> QED
  BY <1>1, <1>2, <1>3 DEF ScanBomNext, BothDone

LEMMA OneTarget ==
  ASSUME Inv, Grounded, NEW i \in DOMAIN edges, Bill!ChildrenState(edges[i]) = "expanded",
         NEW c \in Bill!TargetCandidates(edges[i])
  PROVE  Bill!TargetCandidates(edges[i]) = {c}
<1> DEFINE e == edges[i]
           f == e.target
<1>1. f \in DOMAIN nodes /\ Bill!Cardinality(Bill!TargetCandidates(e)) = 1
  BY DEF Bill!ChildrenState, Bill!Instantiable, Grounded
<1>2. Bill!Cardinality(Bill!TargetCandidates(e)) = Cardinality(Bill!TargetCandidates(e))
  BY DEF Bill!Cardinality, Bill!IsFiniteSet, Cardinality, IsFiniteSet
<1>3. nodes[f].configurations \in Seq(Names \cup {NONE})
  BY <1>1 DEF Inv, TypeOK, Node
<1>4. Bill!TargetCandidates(e) \subseteq 1 .. Len(nodes[f].configurations)
  BY <1>3 DEF Bill!TargetCandidates, Bill!Available, Bill!Named, ScanResult
<1>5. IsFiniteSet(Bill!TargetCandidates(e))
  <2>1. Len(nodes[f].configurations) \in Nat
    BY <1>3
  <2>2. IsFiniteSet(1 .. Len(nodes[f].configurations))
    BY <2>1, FS_Interval
  <2> QED
    BY <1>4, <2>2, FS_Subset
<1> QED
  BY <1>1, <1>2, <1>5, FS_Singleton

LEMMA DocumentedIsListed ==
  ASSUME Inv, NEW f, Documented(parsed, f)
  PROVE  DOMAIN parsed[f].configurations = 1 .. Len(parsed[f].configurations)
<1>1. parsed[f] \in Document
  BY DEF Inv, TypeOK, Documented
<1>2. parsed[f].configurations \in Seq(Configuration)
  BY <1>1 DEF Document
<1> QED
  BY <1>2

\* What the bill opens through an edge, the scan was sent to by that edge.
LEMMA OpenedWasClosed ==
  ASSUME Laid, Grounded, Done, Unambiguous, NEW i \in DOMAIN edges,
         Bill!ChildrenState(edges[i]) = "expanded",
         NEW c \in Bill!TargetCandidates(edges[i])
  PROVE  /\ Traversed(edges[i]) /\ c \in Calls(parsed, edges[i])
         /\ Closed(stack, processed, edges[i].target, c)
<1> DEFINE e == edges[i]
           f == e.target
<1>1. Inv /\ Postorder /\ Published /\ stack = <<>>
  BY DEF Laid, Account, Grounded
<1>2. /\ Traversed(e) /\ f # NONE /\ f \in DOMAIN nodes
      /\ Bill!Cardinality(Bill!TargetCandidates(e)) = 1
  BY DEF Bill!ChildrenState, Bill!Instantiable, Traversed, Grounded
<1>3. Bill!TargetCandidates(e) = {c}
  BY <1>1, OneTarget
<1>4. Shown(nodes, f) = nodes[f].configurations
  BY <1>2 DEF Shown
<1>5. c \in DOMAIN nodes[f].configurations
  BY DEF Bill!TargetCandidates, Bill!Available, Bill!Named, ScanResult
<1>6. Documented(parsed, f) /\ nodes[f].configurations = Identities(parsed[f])
  BY <1>1, <1>4, <1>5 DEF Published
<1>7. c \in Calls(parsed, e)
  <2> DEFINE list == parsed[f].configurations
  <2>1. c \in 1 .. Len(list) /\ DOMAIN nodes[f].configurations = 1 .. Len(list)
    BY <1>5, <1>6 DEF Identities
  <2>2. \A d \in 1 .. Len(list) : nodes[f].configurations[d] = list[d].name
    BY <1>6 DEF Identities
  <2>3. CASE e.requested = NONE
    BY <1>6, <2>1, <2>3 DEF Calls, Selection
  <2>4. CASE e.requested # NONE
    <3>1. \A d \in 1 .. Len(list) : list[d].name = e.requested <=> d = c
      BY <1>3, <2>1, <2>2, <2>4 DEF Bill!TargetCandidates, Bill!Named, ScanResult
    <3>2. \A d \in 1 .. Len(list) : e.requested \in list[d].alternates => d = c
      <4>1. DOMAIN list = 1 .. Len(list)
        BY <1>1, <1>6, DocumentedIsListed
      <4> QED
        BY <1>6, <2>1, <3>1, <4>1 DEF Unambiguous, Documented
    <3>3. Matching(parsed[f], e.requested) = {c}
      BY <2>1, <3>1, <3>2 DEF Matching
    <3>4. Cardinality(Matching(parsed[f], e.requested)) = 1
      BY <3>3, FS_Singleton
    <3> QED
      BY <1>6, <2>4, <3>3, <3>4 DEF Calls, Selection
  <2> QED
    BY <2>3, <2>4
<1>8. Delivered(e, parsed, stack, processed)
  <2>1. ~Called(e, stack)
    BY <1>1 DEF Called
  <2> QED
    BY <1>1, <1>2, <2>1 DEF Postorder, Settled
<1> QED
  BY <1>2, <1>7, <1>8 DEF Delivered

\* Every occurrence above another one is the parent of one on the same path.
LEMMA PathGoesDown ==
  ASSUME NEW n \in Nat, Upward(n), NEW o \in 1 .. n
  PROVE  /\ Path(o) \subseteq 1 .. o /\ o \in Path(o)
         /\ \A q \in Path(o) \ {o} : \E r \in Path(o) : Bill!Parent(r) = q
<1> DEFINE Down(k) == /\ Path(k) \subseteq 1 .. k /\ k \in Path(k)
                      /\ \A q \in Path(k) \ {k} : \E r \in Path(k) : Bill!Parent(r) = q
           S == {k \in 1 .. n : ~Down(k)}
<1> SUFFICES S = {}
  OBVIOUS
<1> SUFFICES ASSUME S # {} PROVE FALSE
  OBVIOUS
<1>1. S \subseteq Nat
  OBVIOUS
<1>2. PICK k \in S : \A j \in S : k <= j
  BY <1>1, FirstIs
<1>3. k \in 1 .. n /\ ~Down(k)
  OBVIOUS
<1>4. Bill!Parent(k) \in 0 .. k - 1
  BY <1>3 DEF Upward
<1>5. CASE Bill!Parent(k) = 0
  <2>1. Path(k) = {k}
    BY <1>3, <1>5, PathIs
  <2> QED
    BY <1>3, <2>1
<1>6. CASE Bill!Parent(k) # 0
  <2> DEFINE p == Bill!Parent(k)
  <2>1. Path(k) = {k} \cup Path(p)
    BY <1>3, <1>6, PathIs
  <2>2. p \in 1 .. n /\ p < k /\ p \notin S
    BY <1>1, <1>2, <1>3, <1>4, <1>6
  <2>3. Down(p)
    BY <2>2
  <2>4. \A q \in Path(k) \ {k} : \E r \in Path(k) : Bill!Parent(r) = q
    <3> SUFFICES ASSUME NEW q \in Path(k), q # k
                 PROVE  \E r \in Path(k) : Bill!Parent(r) = q
      OBVIOUS
    <3>1. CASE q = p
      BY <2>1, <3>1
    <3>2. CASE q # p
      BY <2>1, <2>3, <3>2
    <3> QED
      BY <3>1, <3>2
  <2>5. Path(k) \subseteq 1 .. k
    BY <1>3, <2>1, <2>2, <2>3
  <2> QED
    BY <1>3, <2>1, <2>4, <2>5
<1> QED
  BY <1>5, <1>6

LEMMA AncestorIsAbove ==
  ASSUME NEW n \in Nat, Upward(n), NEW o \in 1 .. n, NEW p \in Bill!Ancestors(o)
  PROVE  p \in Path(o) /\ p # o
<1> DEFINE up == Bill!Parent(o)
<1>1. up # 0 /\ Bill!Ancestors(o) = Path(up)
  BY PathIs
<1>2. up \in 1 .. n /\ up < o
  BY <1>1 DEF Upward
<1>3. Path(up) \subseteq 1 .. up
  BY <1>2, PathGoesDown
<1>4. p \in 1 .. up
  BY <1>1, <1>3
<1> QED
  BY <1>2, <1>4 DEF Path

LEMMA BelowByState ==
  ASSUME Laid, Bills, Traced, Unambiguous
  PROVE  PathsRepeatNothing
<1> DEFINE n == Len(occurrences)
           pair(q) == <<occurrences[q].node, occurrences[q].config>>
           edge(q) == edges[occurrences[q].edge]
<1>1. n \in Nat /\ DOMAIN occurrences = 1 .. n /\ Occ = 1 .. n
  BY DEF Bills, BillTypes, Occ
<1> SUFFICES ASSUME NEW o \in Occ, NEW p \in Bill!Ancestors(o),
                    occurrences[o].children = "expanded", pair(o) = pair(p)
             PROVE  FALSE
  BY DEF PathsRepeatNothing
<1>2. \A q \in 1 .. n : q # 1 => Attached(occurrences, q, limited) /\ TracedAt(occurrences, q)
  BY <1>1 DEF Bills, Grown, Traced
<1>3. \A q \in 1 .. n : q # 1 => Bill!Parent(q) \in 1 .. q - 1
  BY <1>2 DEF Attached, Bill!Parent
<1>4. Upward(n)
  <2>1. 1 \in 1 .. n => Bill!Parent(1) = 0
    BY <1>1 DEF Bills, Grown, RootOccurrence, Bill!Parent
  <2> QED
    BY <1>3, <2>1 DEF Upward
<1> HIDE DEF n
<1>5. /\ Path(o) \subseteq 1 .. o /\ o \in Path(o)
      /\ \A q \in Path(o) \ {o} : \E r \in Path(o) : Bill!Parent(r) = q
  BY <1>1, <1>4, PathGoesDown
<1>6. p \in Path(o) /\ p # o
  BY <1>1, <1>4, AncestorIsAbove
<1>7. Done
  BY <1>1 DEF Bills, Grown
<1> DEFINE Q == {q \in Path(o) : q > p}
           S == {pair(q) : q \in Q}
<1>8. p \in 1 .. o /\ o \in 1 .. n
  BY <1>1, <1>5, <1>6
<1>9. \A q \in Q : q \in 1 .. n /\ q # 1 /\ q > p
  BY <1>1, <1>5, <1>8
\* What hangs below an occurrence of the path that is no earlier than p.
<1>10. ASSUME NEW q \in Path(o), q >= p, q # o
       PROVE  \E r \in Q : /\ edge(r).source = occurrences[q].node
                           /\ edge(r).config = occurrences[q].config
                           /\ q # 1 => Bill!ChildrenState(edge(q)) = "expanded"
  <2>1. PICK r \in Path(o) : Bill!Parent(r) = q
    BY <1>5, <1>10
  <2>2. r \in 1 .. n /\ q \in 1 .. n
    BY <1>1, <1>5, <1>8
  <2>3. r > q
    BY <1>4, <2>1, <2>2 DEF Upward
  <2>4. r \in Q /\ r # 1
    BY <1>8, <1>10, <2>2, <2>3
  <2>5. TracedAt(occurrences, r) /\ occurrences[r].parent = q
    BY <1>2, <2>1, <2>2, <2>4 DEF Bill!Parent
  <2> QED
    BY <2>4, <2>5 DEF TracedAt
<1>11. ASSUME NEW q \in Q
       PROVE  Bill!ChildrenState(edge(q)) = "expanded"
  <2>1. CASE q = o
    <3>1. Attached(occurrences, q, limited)
      BY <1>2, <1>9
    <3> QED
      BY <2>1, <3>1 DEF Attached, Instance
  <2>2. CASE q # o
    BY <1>8, <1>9, <1>10, <2>2
  <2> QED
    BY <2>1, <2>2
<1>12. ASSUME NEW q \in Q
       PROVE  /\ Traversed(edge(q)) /\ occurrences[q].config \in Calls(parsed, edge(q))
              /\ Closed(stack, processed, occurrences[q].node, occurrences[q].config)
              /\ occurrences[q].edge \in DOMAIN edges
              /\ edge(q).target = occurrences[q].node
  <2>1. Attached(occurrences, q, limited) /\ TracedAt(occurrences, q)
    BY <1>2, <1>9
  <2>2. occurrences[q].edge \in DOMAIN edges /\ edge(q).target = occurrences[q].node
    BY <2>1 DEF Attached, Instance
  <2>3. occurrences[q].config \in Bill!TargetCandidates(edge(q))
    BY <1>11, <2>1 DEF TracedAt
  <2>4. Grounded
    BY DEF Bills
  <2> QED
    BY <1>7, <1>11, <2>2, <2>3, <2>4, OpenedWasClosed
<1>13. S # {}
  <2>1. o \in Q
    BY <1>5, <1>6, <1>8
  <2> QED
    BY <2>1
<1>14. \A x \in S : \E f, c : x = <<f, c>> /\ Closed(stack, processed, f, c)
  BY <1>12
<1>15. PICK x \in S : Sink(x, S, edges, parsed)
  BY <1>13, <1>14 DEF Laid, Postorder, NoWayRound
<1>16. PICK q \in Q : x = pair(q)
  OBVIOUS
\* The occurrence whose child is looked at: q, or p when q ends the path.
<1>17. \E m \in Path(o) : m >= p /\ m # o /\ pair(m) = x
  <2>1. CASE q = o
    BY <1>6, <1>8, <1>16, <2>1
  <2>2. CASE q # o
    BY <1>8, <1>9, <1>16, <2>2
  <2> QED
    BY <2>1, <2>2
<1>18. PICK m \in Path(o) : m >= p /\ m # o /\ pair(m) = x
  BY <1>17
<1>19. PICK r \in Q : /\ edge(r).source = occurrences[m].node
                      /\ edge(r).config = occurrences[m].config
  BY <1>10, <1>18
<1>20. <<edge(r).source, edge(r).config>> = x
  BY <1>18, <1>19
<1>21. <<edge(r).target, occurrences[r].config>> \notin S
  BY <1>12, <1>15, <1>20 DEF Sink
<1>22. <<edge(r).target, occurrences[r].config>> = pair(r)
  BY <1>12
<1> QED
  BY <1>21, <1>22

\* The whole of an expansion repeats below a repeated configuration, so one
\* that came to its end has none.
LEMMA UnlimitedByState ==
  ASSUME Bills, Traced, Billed, ~limited
  PROVE  PathsRepeatNothing
<1> DEFINE n == Len(occurrences)
           pair(q) == <<occurrences[q].node, occurrences[q].config>>
           Repeats(q) == /\ occurrences[q].children = "expanded"
                         /\ \E p \in Path(q) : p # q /\ pair(p) = pair(q)
           S == {k \in 0 .. n : Repeats(n - k)}
<1>1. n \in Nat /\ DOMAIN occurrences = 1 .. n /\ Occ = 1 .. n
  BY DEF Bills, BillTypes, Occ
<1>2. \A q \in 1 .. n : q # 1 => Attached(occurrences, q, FALSE) /\ TracedAt(occurrences, q)
  <2>1. limited = FALSE
    BY DEF Bills, BillTypes
  <2> QED
    BY <1>1, <2>1 DEF Bills, Grown, Traced
<1>3. Upward(n) /\ \A q \in 1 .. n : q # 1 => Bill!Parent(q) \in 1 .. q - 1
  <2>1. 1 \in 1 .. n => Bill!Parent(1) = 0
    BY <1>1 DEF Bills, Grown, RootOccurrence, Bill!Parent
  <2>2. \A q \in 1 .. n : q # 1 => Bill!Parent(q) \in 1 .. q - 1
    BY <1>2 DEF Attached, Bill!Parent
  <2> QED
    BY <2>1, <2>2 DEF Upward
<1> HIDE DEF n
<1>4. \A q \in 1 .. n :
        /\ Path(q) \subseteq 1 .. q /\ q \in Path(q)
        /\ \A p \in Path(q) \ {q} : \E r \in Path(q) : Bill!Parent(r) = p
  BY <1>1, <1>3, PathGoesDown
\* An occurrence below a repeated one repeats what is below the first.
<1>5. ASSUME NEW q \in 1 .. n, NEW p \in Path(q), p # q, pair(p) = pair(q),
             occurrences[q].children = "expanded"
      PROVE  \E k \in 1 .. n : k > q /\ Repeats(k)
  <2>1. PICK r \in Path(q) : Bill!Parent(r) = p
    BY <1>4, <1>5
  <2>2. p \in 1 .. n /\ r \in 1 .. n /\ r # 1 /\ r > p
    <3>1. p \in 1 .. q /\ r \in 1 .. q
      BY <1>4
    <3> QED
      BY <1>1, <1>3, <2>1, <3>1 DEF Upward
  <2>3. Attached(occurrences, r, FALSE) /\ TracedAt(occurrences, r) /\ occurrences[r].parent = p
    BY <1>2, <2>1, <2>2 DEF Bill!Parent
  <2> DEFINE i == occurrences[r].edge
  <2>4. occurrences[r].children = "expanded"
    <3>1. CASE r = q
      BY <1>5, <3>1
    <3>2. CASE r # q
      <4>1. PICK d \in Path(q) : Bill!Parent(d) = r
        BY <1>4, <3>2
      <4>2. d \in 1 .. n /\ d # 1
        <5>1. d \in 1 .. q
          BY <1>4
        <5> QED
          BY SMTT(30), <1>1, <1>3, <2>2, <4>1, <5>1 DEF Upward
      <4>3. TracedAt(occurrences, d) /\ occurrences[d].parent = r
        BY <1>2, <4>1, <4>2 DEF Bill!Parent
      <4> QED
        BY <2>2, <2>3, <4>3 DEF TracedAt, Attached, Instance
    <3> QED
      BY <3>1, <3>2
  <2>5. /\ i \in DOMAIN edges /\ Bill!ChildrenState(edges[i]) = "expanded"
        /\ edges[i].source = occurrences[q].node /\ edges[i].config = occurrences[q].config
        /\ occurrences[r].node = edges[i].target
        /\ occurrences[r].config \in Bill!TargetCandidates(edges[i])
    BY <1>5, <2>3, <2>4 DEF Attached, Instance, TracedAt
  <2>6. i \in Bill!ComponentEdges(occurrences[q].node, occurrences[q].config)
    <3>1. p \in Occ /\ r \in Children(p)
      BY <1>1, <2>2, <2>3 DEF Children
    <3>2. ExpansionIsExact
      BY ExactByState
    <3>3. i \in (IF occurrences[p].children = "expanded"
                 THEN Bill!ComponentEdges(occurrences[p].node, occurrences[p].config)
                 ELSE {})
      BY <3>1, <3>2 DEF ExpansionIsExact
    <3> QED
      BY <1>5, <3>3
  <2>7. PICK k \in Children(q) : occurrences[k].edge = i
    <3>1. {occurrences[c].edge : c \in Children(q)}
            = Bill!ComponentEdges(occurrences[q].node, occurrences[q].config)
      BY <1>1, <1>5, ExactByState DEF ExpansionIsExact
    <3> QED
      BY <2>6, <3>1
  <2>8. k \in 1 .. n /\ Bill!Parent(k) = q /\ k # 1 /\ k > q
    <3>1. k \in 1 .. n /\ Bill!Parent(k) = q
      BY <1>1, <2>7 DEF Children, Bill!Parent
    <3> QED
      BY <1>1, <1>3, <3>1 DEF Upward
  <2>9. /\ occurrences[k].children = "expanded" /\ occurrences[k].node = edges[i].target
        /\ occurrences[k].config \in Bill!TargetCandidates(edges[i])
    <3>1. Attached(occurrences, k, FALSE) /\ TracedAt(occurrences, k)
      BY <1>2, <2>8
    <3> QED
      BY <2>5, <2>7, <3>1 DEF Attached, Instance, TracedAt
  <2>10. pair(k) = pair(r)
    <3>1. occurrences[k].config = occurrences[r].config
      BY <2>5, <2>9, OneTarget DEF Bills
    <3> QED
      BY <2>5, <2>9, <3>1
  <2>11. r \in Path(k) /\ r # k
    <3>1. Path(k) = {k} \cup Path(q)
      <4>1. k \in 1 .. n /\ Bill!Parent(k) = q /\ q # 0
        BY <1>1, <2>8
      <4> HIDE DEF Repeats
      <4>2. Bill!Parent(k) # 0 => Path(k) = {k} \cup Path(Bill!Parent(k))
        BY <1>1, <1>3, <4>1, PathIs
      <4> QED
        BY <4>1, <4>2
    <3>2. r \in 1 .. q
      BY <1>4
    <3> QED
      BY <2>8, <3>1, <3>2
  <2> QED
    BY <2>8, <2>9, <2>10, <2>11
<1>6. \A q \in 1 .. n : ~Repeats(q)
  <2> SUFFICES ASSUME NEW q \in 1 .. n, Repeats(q) PROVE FALSE
    OBVIOUS
  <2> HIDE DEF Repeats
  <2>1. n - q \in S /\ S \subseteq Nat
    BY <1>1
  <2>2. PICK m \in S : \A j \in S : m <= j
    BY <2>1, FirstIs
  <2>3. n - m <= n /\ n - m >= q /\ Repeats(n - m)
    BY SMTT(30), <1>1, <2>1, <2>2
  <2>4. n - m \in 1 .. n
    BY <1>1, <2>2, <2>3
  <2>5. PICK k \in 1 .. n : k > n - m /\ Repeats(k)
    BY <1>5, <2>3, <2>4 DEF Repeats
  <2>6. n - k \in S /\ n - k < m
    BY <1>1, <2>2, <2>5
  <2> QED
    BY <1>1, <2>2, <2>5, <2>6
<1> SUFFICES ASSUME NEW o \in Occ, NEW p \in Bill!Ancestors(o),
                    occurrences[o].children = "expanded", pair(o) = pair(p)
             PROVE  FALSE
  BY DEF PathsRepeatNothing
<1>7. p \in Path(o) /\ p # o
  BY <1>1, <1>3, AncestorIsAbove
<1> QED
  BY <1>1, <1>6, <1>7

\* Whatever cycles the references form, no document configuration is expanded
\* below itself, unless configurations bear names of each other and the bill
\* was cut at its limit.
THEOREM NothingIsBelowItself == ScanBomSpec => []NothingBelowItself
<1>1. ScanBomInit => Laid /\ Traced
  BY LaidInit, TracedInit DEF ScanBomInit
<1>2. Laid /\ Traced /\ Bills /\ [ScanBomNext]_allVars => (Laid /\ Traced)'
  BY LaidStep, ScanUnderStep, TracedStep
<1>3. Laid /\ Traced /\ Bills => NothingBelowItself
  BY BelowByState, UnlimitedByState DEF NothingBelowItself
<1> QED
  BY <1>1, <1>2, <1>3, BillsInvariant, PTL DEF ScanBomSpec

-----------------------------------------------------------------------------
(***************************************************************************)
(* Nothing is missing below what is expanded.  The scan that ends without  *)
(* rejecting its graph has an edge for every component of the              *)
(* configurations it selected, and the bill only instantiates those.       *)
(***************************************************************************)
\* Edges of a configuration are those of components, and no rejected graph is
\* expanded.
Sourced ==
  /\ \A i \in DOMAIN edges : edges[i].config # 0 => edges[i].kind = "component"
  /\ occurrences # <<>> => status # "rejected"

LEMMA SourcedInit == ScanBomInit => Sourced
  BY DEF ScanBomInit, Init, Bill!BomInit, Sourced

LEMMA CurrentKind ==
  ASSUME Inv, stack # <<>>, Top.phase = "walking", ~Exhausted, Top.config # 0
  PROVE  Current.kind = "component"
<1>1. /\ Top.file \in DOMAIN parsed /\ parsed[Top.file] \in Document
      /\ References(Top) \in Seq(Seed)
  BY WalkingFacts
<1>2. Top.config \in 0 .. Len(parsed[Top.file].configurations) /\ Top.next \in Nat \ {0}
  BY TopFacts DEF Placed, Frame
<1>3. parsed[Top.file].configurations \in Seq(Configuration)
  BY <1>1 DEF Document
<1>4. Top.config \in 1 .. Len(parsed[Top.file].configurations)
  BY <1>2, <1>3
<1>5. parsed[Top.file].configurations[Top.config] \in Configuration
  BY <1>3, <1>4, ElementOfSeq
<1>6. References(Top) \in Seq(Component)
  BY <1>5 DEF References, Configuration
<1>7. Top.next \in 1 .. Len(References(Top))
  BY <1>1, <1>2 DEF Exhausted
<1>8. Current \in Component
  BY <1>6, <1>7, ElementOfSeq DEF Current
<1> QED
  BY <1>8 DEF Component

LEMMA KindsStay ==
  ASSUME Inv, Sourced, [Next]_vars, NEW i \in DOMAIN edges', edges'[i].config # 0
  PROVE  edges'[i].kind = "component"
<1>1. CASE ProcessReference
  <2> DEFINE edge == Edge(Top.file, Top, Current)
  <2>1. /\ stack # <<>> /\ Top.phase = "walking" /\ ~Exhausted
        /\ edges' = Append(edges, edge)
    BY <1>1 DEF ProcessReference, AtReference, Active
  <2>2. edge \in EdgeRecord
    BY <2>1, EdgeFacts
  <2>3. edge.config # 0 => edge.kind = "component"
    BY <2>1, CurrentKind DEF Edge
  <2> HIDE DEF edge
  <2>4. edges'[i] = edge \/ (i \in DOMAIN edges /\ edges'[i] = edges[i])
    BY <2>1, <2>2, AppendEdge
  <2> QED
    BY <2>3, <2>4 DEF Sourced
<1>2. CASE ~ProcessReference
  <2>1. edges' = edges
    BY <1>2 DEF Next, Step, VisitRoot, VisitParsed, VisitUnparsed,
       SkipComponentReference, RefuseReference, NextConfiguration, Return, Finish,
       Finished, vars
  <2> QED
    BY <2>1 DEF Sourced
<1> QED
  BY <1>1, <1>2

LEMMA SourcedStep == Bills /\ Sourced /\ [ScanBomNext]_allVars => Sourced'
<1> SUFFICES ASSUME Bills, Sourced, [ScanBomNext]_allVars PROVE Sourced'
  OBVIOUS
<1>1. \A i \in DOMAIN edges' : edges'[i].config # 0 => edges'[i].kind = "component"
  BY ScanUnderStep, KindsStay DEF Bills
<1>2. CASE Scan
  <2>1. occurrences' = <<>>
    <3>1. ~Done /\ UNCHANGED billVars
      BY <1>2 DEF Scan, Step, VisitRoot, VisitParsed, VisitUnparsed, SkipComponentReference,
                  RefuseReference, ProcessReference, NextConfiguration, Return, Finish,
                  AtReference, Active, Running, Done
    <3> QED
      BY <3>1 DEF Bills, Grown, billVars
  <2> QED
    BY <1>1, <2>1 DEF Sourced
<1>3. CASE UNCHANGED allVars
  BY <1>1, <1>3 DEF allVars, vars, billVars, Sourced
<1>4. CASE MakeBill
  <2>1. status' = status
    BY <1>4 DEF MakeBill, vars
  <2>2. CASE Bill!ExpandRoot
    <3>1. status # "rejected"
      BY <2>2 DEF Bill!ExpandRoot, Bill!Refusable, ScanResult
    <3> QED
      BY <1>1, <2>1, <3>1 DEF Sourced
  <2>3. CASE Bill!HitLimit \/ Bill!ExpandEdge
    <3>1. current # NONE /\ current.edges # {}
      BY <2>3 DEF Bill!HitLimit, Bill!ExpandEdge, Bill!InProgress
    <3>2. occurrences # <<>>
      BY <3>1, InHandFacts
    <3> QED
      BY <1>1, <2>1, <3>2 DEF Sourced
  <2>4. CASE Bill!Refuse \/ Bill!Pop \/ Bill!PushChildren \/ Bill!FinishBill
    <3>1. occurrences' = occurrences
      BY <2>4 DEF Bill!Refuse, Bill!Pop, Bill!PushChildren, Bill!FinishBill
    <3> QED
      BY <1>1, <2>1, <3>1 DEF Sourced
  <2> QED
    BY <1>4, <2>2, <2>3, <2>4 DEF MakeBill, Bill!BomNext
<1> QED
  BY <1>2, <1>3, <1>4 DEF ScanBomNext, BothDone

LEMMA InFullByState ==
  ASSUME Bills, Laid, VerdictIsWarranted, Traced, Sourced
  PROVE  ExpandedInFull
<1> SUFFICES ASSUME Billed, ~limited, NEW o \in Occ \ {1},
                    occurrences[o].children = "expanded"
             PROVE  {edges[occurrences[c].edge].ref : c \in Children(o)}
                      = DOMAIN ComponentsOf(o)
  BY DEF ExpandedInFull
<1> DEFINE e == edges[occurrences[o].edge]
           f == occurrences[o].node
           config == occurrences[o].config
<1>1. Inv /\ Ledger /\ Published
  BY DEF Laid, Account
<1>2. Done /\ status # "rejected"
  <2>1. occurrences # <<>>
    BY DEF Bills, Grown, Billed
  <2> QED
    BY <2>1 DEF Bills, Grown, Sourced
<1>3. Owed \subseteq Handled
  BY <1>2 DEF VerdictIsWarranted
<1>4. /\ occurrences[o].edge \in DOMAIN edges /\ f = e.target
      /\ Bill!ChildrenState(e) = "expanded" /\ config \in Bill!TargetCandidates(e)
  <2>1. Instance(occurrences[o], limited) /\ TracedAt(occurrences, o)
    BY DEF Bills, Grown, Attached, Traced, Occ
  <2> QED
    BY <2>1 DEF Instance, TracedAt
<1>5. /\ f \in DOMAIN nodes /\ config \in nodes[f].selected
      /\ config \in DOMAIN nodes[f].configurations
  <2>1. e.target # NONE /\ Bill!TargetCandidates(e) \subseteq nodes[e.target].selected
    BY <1>4 DEF Bill!ChildrenState, Bill!Instantiable, ScanResult
  <2>2. e.target \in DOMAIN nodes
    BY <1>4, <2>1 DEF Bills, Grounded
  <2>3. config \in DOMAIN nodes[e.target].configurations
    BY <1>4 DEF Bill!TargetCandidates, Bill!Available, Bill!Named, ScanResult
  <2> QED
    BY <1>4, <2>1, <2>2, <2>3
<1>6. Documented(parsed, f) /\ config \in 1 .. Len(parsed[f].configurations)
  <2>1. Shown(nodes, f) = nodes[f].configurations
    BY <1>5 DEF Shown
  <2>2. Documented(parsed, f) /\ nodes[f].configurations = Identities(parsed[f])
    BY <1>1, <1>5, <2>1 DEF Published
  <2> QED
    BY <1>5, <2>2 DEF Identities
<1>7. \A i : Owes(parsed, nodes, f, config, i) <=> i \in DOMAIN ComponentsOf(o)
  <2>1. config # 0 /\ config \in Sel(nodes, f)
    BY <1>5, <1>6 DEF Sel
  <2> QED
    BY <1>6, <2>1 DEF Owes, ComponentsOf
<1>8. {occurrences[c].edge : c \in Children(o)} = Bill!ComponentEdges(f, config)
  BY ExactByState DEF ExpansionIsExact
<1>9. \A i \in DOMAIN edges : i \in Bill!ComponentEdges(f, config)
                                <=> edges[i].source = f /\ edges[i].config = config
  <2>1. config # 0
    BY <1>6
  <2> QED
    BY <2>1 DEF Bill!ComponentEdges, ScanResult, Sourced
<1>10. Bill!ComponentEdges(f, config) \subseteq DOMAIN edges
  BY DEF Bill!ComponentEdges, ScanResult
<1>11. ASSUME NEW c \in Children(o)
       PROVE  edges[occurrences[c].edge].ref \in DOMAIN ComponentsOf(o)
  <2> DEFINE i == occurrences[c].edge
  <2>1. i \in DOMAIN edges /\ edges[i].source = f /\ edges[i].config = config
    BY <1>8, <1>9, <1>10
  <2>2. Owes(parsed, nodes, edges[i].source, edges[i].config, edges[i].ref)
    BY <1>1, <2>1 DEF Ledger
  <2> QED
    BY <1>7, <2>1, <2>2
<1>12. ASSUME NEW i \in DOMAIN ComponentsOf(o)
       PROVE  \E c \in Children(o) : edges[occurrences[c].edge].ref = i
  <2>1. <<f, config, i>> \in Owed
    BY <1>1, <1>7, OwedIs
  <2>2. HasEdge(edges, f, config, i)
    BY <1>3, <2>1, HandledIs
  <2>3. PICK d \in DOMAIN edges :
          edges[d].source = f /\ edges[d].config = config /\ edges[d].ref = i
    BY <2>2 DEF HasEdge, Identity
  <2>4. d \in {occurrences[c].edge : c \in Children(o)}
    BY <1>8, <1>9, <2>3
  <2> QED
    BY <2>3, <2>4
<1> QED
  BY <1>11, <1>12

\* What a bill within its limit expands below the root is expanded in full,
\* however partial the scan is: components that are not in the graph are never
\* taken for none.
THEOREM ExpansionsAreInFull == ScanBomSpec => []ExpandedInFull
<1>1. ScanBomInit => Laid /\ Traced /\ Sourced
  BY LaidInit, TracedInit, SourcedInit DEF ScanBomInit
<1>2. Laid /\ Traced /\ Sourced /\ Bills /\ [ScanBomNext]_allVars => (Laid /\ Traced /\ Sourced)'
  BY LaidStep, ScanUnderStep, TracedStep, SourcedStep
<1>3. Laid /\ Traced /\ Sourced /\ Bills /\ VerdictIsWarranted => ExpandedInFull
  BY InFullByState
<1> QED
  BY <1>1, <1>2, <1>3, BillsInvariant, ScanUnderBill, VerdictFitsTheGraph, PTL DEF ScanBomSpec

-----------------------------------------------------------------------------
(***************************************************************************)
(* Quantities.  The counted occurrences of an edge at one depth are paired *)
(* off by their parents with the counted occurrences, one level up, of the *)
(* edges that open the configuration it belongs to; no path is longer than *)
(* the edges are many.                                                     *)
(***************************************************************************)
FullBill == Bills /\ Traced /\ Billed /\ ~limited
Pair(o) == <<occurrences[o].node, occurrences[o].config>>

\* Counted occurrences of an edge, n edges below the root or anywhere.
Line(n, e) ==
  {o \in Occ \ {1} : /\ occurrences[o].counted /\ occurrences[o].edge = e
                     /\ Cardinality(Path(o)) = n + 1}
Lines(e) == {o \in Occ \ {1} : occurrences[o].counted /\ occurrences[o].edge = e}

\* A path is a chain: of two occurrences on it one is on the path of the other.
LEMMA PathIsChain ==
  ASSUME NEW n \in Nat, Upward(n), NEW o \in 1 .. n, NEW q \in Path(o)
  PROVE  Path(q) \subseteq Path(o) /\ \A r \in Path(o) : r < q => r \in Path(q)
<1> DEFINE Chain(k) == \A j \in Path(k) : /\ Path(j) \subseteq Path(k)
                                          /\ \A r \in Path(k) : r < j => r \in Path(j)
           S == {k \in 1 .. n : ~Chain(k)}
<1> SUFFICES ASSUME S # {} PROVE FALSE
  OBVIOUS
<1>1. S \subseteq Nat
  OBVIOUS
<1>2. PICK k \in S : \A j \in S : k <= j
  BY <1>1, FirstIs
<1>3. k \in 1 .. n /\ ~Chain(k)
  OBVIOUS
<1> HIDE DEF Chain
<1> DEFINE p == Bill!Parent(k)
<1>4. p \in 0 .. k - 1
  BY <1>3 DEF Upward
<1>5. CASE p = 0
  <2>1. Path(k) = {k}
    BY <1>3, <1>5, PathIs
  <2> QED
    BY <1>3, <2>1 DEF Chain
<1>6. CASE p # 0
  <2>1. Path(k) = {k} \cup Path(p)
    BY <1>3, <1>6, PathIs
  <2>2. p \in 1 .. n /\ p < k /\ p \notin S
    BY <1>1, <1>2, <1>3, <1>4, <1>6
  <2>3. Chain(p)
    BY <2>2
  <2>4. Path(p) \subseteq 1 .. p
    BY <2>2, PathGoesDown
  <2>5. ASSUME NEW j \in Path(k)
        PROVE  Path(j) \subseteq Path(k) /\ \A r \in Path(k) : r < j => r \in Path(j)
    <3>1. CASE j = k
      BY <3>1
    <3>2. CASE j # k
      <4>1. j \in Path(p)
        BY <2>1, <3>2
      <4>2. \A r \in Path(k) : r < j => r \in Path(p)
        <5>1. j \in 1 .. p
          BY <2>4, <4>1
        <5> QED
          BY <1>3, <2>1, <2>2, <5>1
      <4> QED
        BY <2>1, <2>3, <4>1, <4>2 DEF Chain
    <3> QED
      BY <3>1, <3>2
  <2> QED
    BY <1>3, <2>5 DEF Chain
<1> QED
  BY <1>5, <1>6

\* What is known of every occurrence of a bill that came to its end.
LEMMA FullFacts ==
  ASSUME FullBill
  PROVE  /\ Len(occurrences) \in Nat /\ DOMAIN occurrences = 1 .. Len(occurrences)
         /\ Occ = 1 .. Len(occurrences) /\ 1 \in Occ
         /\ Len(edges) \in Nat /\ DOMAIN edges = 1 .. Len(edges)
         /\ Upward(Len(occurrences)) /\ Bill!Parent(1) = 0
         /\ occurrences[1].children = "expanded" /\ occurrences[1].counted
         /\ \A q \in Occ \ {1} :
              /\ Bill!Parent(q) \in Occ /\ Bill!Parent(q) \in 1 .. q - 1
              /\ Attached(occurrences, q, FALSE) /\ TracedAt(occurrences, q)
<1>1. /\ Len(occurrences) \in Nat /\ DOMAIN occurrences = 1 .. Len(occurrences)
      /\ Occ = 1 .. Len(occurrences)
  BY DEF FullBill, Bills, BillTypes, Occ
<1>2. edges \in Seq(EdgeRecord)
  BY DEF FullBill, Bills, Inv, TypeOK
<1>3. occurrences # <<>> /\ limited = FALSE
  BY DEF FullBill, Bills, BillTypes, Grown, Billed
<1>4. 1 \in Occ /\ RootOccurrence(occurrences[1], FALSE)
  <2>1. 1 \in Occ
    <3>1. occurrences \in Seq(OccurrenceRecord)
      BY DEF FullBill, Bills, BillTypes
    <3> QED
      BY <1>1, <1>3, <3>1
  <2>2. RootOccurrence(occurrences[1], limited)
    BY <1>3 DEF FullBill, Bills, Grown
  <2> QED
    BY <1>3, <2>1, <2>2
<1>5. \A q \in Occ \ {1} : Attached(occurrences, q, FALSE) /\ TracedAt(occurrences, q)
  BY <1>1, <1>3 DEF FullBill, Bills, Grown, Traced
<1>6. \A q \in Occ \ {1} : Bill!Parent(q) \in Occ /\ Bill!Parent(q) \in 1 .. q - 1
  <2> SUFFICES ASSUME NEW q \in Occ \ {1}
               PROVE  Bill!Parent(q) \in Occ /\ Bill!Parent(q) \in 1 .. q - 1
    OBVIOUS
  <2>1. Bill!Parent(q) \in 1 .. q - 1
    BY <1>5 DEF Attached, Bill!Parent
  <2> QED
    BY <1>1, <2>1
<1>7. Bill!Parent(1) = 0
  BY <1>4 DEF RootOccurrence, Bill!Parent
<1>8. Upward(Len(occurrences))
  BY <1>1, <1>6, <1>7 DEF Upward
<1>9. occurrences[1].children = "expanded" /\ occurrences[1].counted
  BY <1>4 DEF RootOccurrence
<1>10. Len(edges) \in Nat /\ DOMAIN edges = 1 .. Len(edges)
  BY <1>2
<1> QED
  BY <1>1, <1>4, <1>5, <1>6, <1>7, <1>8, <1>9, <1>10

\* The parent of an occurrence is expanded, and the edge is one it wants.
LEMMA ParentIsOpen ==
  ASSUME FullBill, NEW q \in Occ \ {1}
  PROVE  LET p == Bill!Parent(q)
             e == occurrences[q].edge
         IN /\ p \in Occ /\ occurrences[p].children = "expanded"
            /\ e \in DOMAIN edges /\ edges[e].kind = "component" /\ Origin(e) = Pair(p)
            /\ occurrences[q].node = edges[e].target
            /\ occurrences[q].children = Bill!ChildrenState(edges[e])
            /\ Pair(q) \in Opened(e) \/ occurrences[q].children # "expanded"
            /\ occurrences[q].counted <=> occurrences[p].counted /\ ~Hidden(edges[e])
<1> DEFINE p == Bill!Parent(q)
           e == occurrences[q].edge
<1>1. /\ p \in Occ /\ Attached(occurrences, q, FALSE) /\ TracedAt(occurrences, q)
      /\ p # 1 => Attached(occurrences, p, FALSE)
  BY FullFacts
<1>2. p = occurrences[q].parent
  BY DEF Bill!Parent
<1>3. /\ e \in DOMAIN edges /\ occurrences[q].node = edges[e].target
      /\ occurrences[q].children = Bill!ChildrenState(edges[e])
      /\ occurrences[q].suppressed = edges[e].suppressed
      /\ occurrences[q].excluded = edges[e].excluded
      /\ occurrences[q].counted <=> occurrences[p].counted /\ ~Hidden(occurrences[q])
  BY <1>1, <1>2 DEF Attached, Instance
<1>4. /\ edges[e].kind = "component" /\ Origin(e) = Pair(p)
      /\ Bill!ChildrenState(edges[e]) = "expanded"
           => occurrences[q].config \in Bill!TargetCandidates(edges[e])
      /\ p # 1 => Bill!ChildrenState(edges[occurrences[p].edge]) = "expanded"
  BY <1>1, <1>2 DEF TracedAt, Origin, Pair
<1>5. occurrences[p].children = "expanded"
  <2>1. CASE p = 1
    BY <2>1, FullFacts
  <2>2. CASE p # 1
    BY <1>1, <1>4, <2>2 DEF Attached, Instance
  <2> QED
    BY <2>1, <2>2
<1>6. Hidden(occurrences[q]) <=> Hidden(edges[e])
  BY <1>3 DEF Hidden, Bill!HiddenBySuppression, Bill!HiddenByExclusion
<1>7. Pair(q) \in Opened(e) \/ occurrences[q].children # "expanded"
  BY <1>3, <1>4 DEF Pair, Opened
<1> QED
  BY <1>1, <1>3, <1>4, <1>5, <1>6, <1>7

\* An expanded occurrence has exactly one child for every edge it wants.
LEMMA OneChild ==
  ASSUME FullBill, NEW p \in Occ, occurrences[p].children = "expanded",
         NEW e \in DOMAIN edges, edges[e].kind = "component", Origin(e) = Pair(p)
  PROVE  \E q \in Occ \ {1} : Bill!Parent(q) = p /\ occurrences[q].edge = e
<1>1. e \in Bill!ComponentEdges(occurrences[p].node, occurrences[p].config)
  BY DEF Bill!ComponentEdges, ScanResult, Origin, Pair
<1>2. {occurrences[c].edge : c \in Children(p)}
        = Bill!ComponentEdges(occurrences[p].node, occurrences[p].config)
  BY ExactByState DEF ExpansionIsExact, FullBill
<1>3. PICK q \in Children(p) : occurrences[q].edge = e
  BY <1>1, <1>2
<1>4. q \in Occ /\ Bill!Parent(q) = p
  BY DEF Children, Bill!Parent
<1>5. q # 1
  BY <1>4, FullFacts
<1> QED
  BY <1>3, <1>4, <1>5

LEMMA NoTwinsIn ==
  ASSUME FullBill, NEW q \in Occ \ {1}, NEW r \in Occ \ {1},
         Bill!Parent(q) = Bill!Parent(r), occurrences[q].edge = occurrences[r].edge
  PROVE  q = r
  BY DEF FullBill, Bills, Whole, NoTwins, Bill!Parent, Occ

\* No edge occurs twice on a path.
LEMMA EdgesOfPathDiffer ==
  ASSUME FullBill, NEW o \in Occ, NEW q \in Path(o), NEW r \in Path(o), q # 1, r # 1,
         occurrences[q].edge = occurrences[r].edge
  PROVE  q = r
<1> DEFINE n == Len(occurrences)
           p == Bill!Parent(q)
           s == Bill!Parent(r)
<1>1. n \in Nat /\ Occ = 1 .. n /\ Upward(n)
  BY FullFacts
<1>2. q \in Occ \ {1} /\ r \in Occ \ {1}
  <2>1. Path(o) \subseteq 1 .. o
    BY <1>1, PathGoesDown
  <2> QED
    BY <1>1, <2>1
<1>3. /\ p \in Occ /\ s \in Occ /\ Pair(p) = Pair(s)
      /\ occurrences[p].children = "expanded" /\ occurrences[s].children = "expanded"
  BY <1>2, ParentIsOpen
<1>4. p \in Path(o) /\ s \in Path(o)
  <2>1. p # 0 /\ s # 0
    BY <1>1, <1>3
  <2>2. p \in Path(p) /\ s \in Path(s)
    BY <1>1, <1>3, PathGoesDown
  <2>3. Path(q) = {q} \cup Path(p) /\ Path(r) = {r} \cup Path(s)
    BY <1>1, <1>2, <2>1, PathIs
  <2>4. Path(q) \subseteq Path(o) /\ Path(r) \subseteq Path(o)
    BY <1>1, PathIsChain
  <2> QED
    BY <2>2, <2>3, <2>4
<1>5. ASSUME NEW a \in Path(o), NEW b \in Path(o), a \in Occ, b \in Occ, b < a,
             occurrences[a].children = "expanded", Pair(a) = Pair(b)
      PROVE  FALSE
  <2>1. b \in Path(a)
    BY <1>1, <1>5, PathIsChain
  <2>2. a \in 1 .. n /\ b # a
    BY <1>1, <1>5
  <2>3. b \in Bill!Ancestors(a)
    BY <1>1, <2>1, <2>2, PathIs
  <2>4. PathsRepeatNothing
    BY UnlimitedByState DEF FullBill
  <2> QED
    BY <1>5, <2>3, <2>4 DEF PathsRepeatNothing, Pair
<1>6. p = s
  <2>1. ~(p < s) /\ ~(s < p)
    BY <1>3, <1>4, <1>5
  <2> QED
    BY <1>1, <1>3, <2>1
<1> QED
  BY <1>2, <1>6, NoTwinsIn

\* The lengths of paths: one more than that of the parent's, and bounded.
LEMMA PathLengths ==
  ASSUME FullBill, NEW o \in Occ
  PROVE  /\ IsFiniteSet(Path(o)) /\ Cardinality(Path(o)) \in 1 .. Len(edges) + 1
         /\ o = 1 => Cardinality(Path(o)) = 1
         /\ o # 1 => /\ Cardinality(Path(Bill!Parent(o))) \in Nat \ {0}
                     /\ Cardinality(Path(o)) = Cardinality(Path(Bill!Parent(o))) + 1
<1> DEFINE n == Len(occurrences)
<1>1. n \in Nat /\ Occ = 1 .. n /\ Upward(n)
  BY FullFacts
<1>2. ASSUME NEW k \in Occ
      PROVE  IsFiniteSet(Path(k)) /\ Cardinality(Path(k)) \in Nat \ {0} /\ Path(k) \subseteq 1 .. k
  <2>1. Path(k) \subseteq 1 .. k /\ k \in Path(k) /\ k \in Nat
    BY <1>1, PathGoesDown
  <2>2. IsFiniteSet(1 .. k)
    BY <2>1, FS_Interval
  <2>3. IsFiniteSet(Path(k))
    BY <2>1, <2>2, FS_Subset
  <2> QED
    BY <2>1, <2>3, FS_CardinalityType, FS_EmptySet
<1>3. o = 1 => Cardinality(Path(o)) = 1
  <2> SUFFICES ASSUME o = 1 PROVE Cardinality(Path(o)) = 1
    OBVIOUS
  <2>1. Path(o) = {o}
    BY <1>1, FullFacts, PathIs
  <2> QED
    BY <2>1, FS_Singleton
<1>4. ASSUME o # 1
      PROVE  /\ Cardinality(Path(Bill!Parent(o))) \in Nat \ {0}
             /\ Cardinality(Path(o)) = Cardinality(Path(Bill!Parent(o))) + 1
  <2> DEFINE p == Bill!Parent(o)
  <2>1. p \in Occ /\ p \in 1 .. o - 1
    BY <1>4, FullFacts
  <2>2. Path(o) = {o} \cup Path(p)
    <3>1. p # 0
      BY <2>1
    <3> QED
      BY <1>1, <3>1, PathIs
  <2>3. IsFiniteSet(Path(p)) /\ Cardinality(Path(p)) \in Nat \ {0} /\ o \notin Path(p)
    <3>1. IsFiniteSet(Path(p)) /\ Cardinality(Path(p)) \in Nat \ {0} /\ Path(p) \subseteq 1 .. p
      BY <1>2, <2>1
    <3> QED
      BY <1>1, <2>1, <3>1
  <2>4. Path(o) = Path(p) \cup {o}
    BY <2>2
  <2> HIDE DEF p
  <2>5. Cardinality(Path(p) \cup {o}) = Cardinality(Path(p)) + 1
    BY <2>3, FS_AddElement
  <2> QED
    BY <2>3, <2>4, <2>5 DEF p
<1>5. Cardinality(Path(o)) <= Len(edges) + 1
  <2> DEFINE below == Path(o) \ {1}
             f == [q \in below |-> occurrences[q].edge]
  <2>1. below \subseteq Occ \ {1}
    <3>1. Path(o) \subseteq 1 .. o
      BY <1>2
    <3> QED
      BY <1>1, <3>1
  <2>2. f \in [below -> 1 .. Len(edges)]
    <3>1. \A q \in below : occurrences[q].edge \in 1 .. Len(edges)
      BY <2>1, FullFacts, ParentIsOpen
    <3> QED
      BY <3>1
  <2>3. \A q, r \in below : f[q] = f[r] => q = r
    BY EdgesOfPathDiffer
  <2>4. f \in Injection(below, 1 .. Len(edges))
    BY <2>2, <2>3 DEF Injection, IsInjective
  <2>5. IsFiniteSet(1 .. Len(edges)) /\ Cardinality(1 .. Len(edges)) = Len(edges)
    <3>1. Len(edges) \in Nat
      BY FullFacts
    <3> QED
      BY SMTT(30), <3>1, FS_Interval
  <2> HIDE DEF f
  <2>6. Cardinality(below) <= Len(edges)
    BY <2>4, <2>5, FS_Injection
  <2>7. Cardinality(below) \in {Cardinality(Path(o)), Cardinality(Path(o)) - 1}
    BY <1>2, FS_RemoveElement
  <2> QED
    BY <1>2, <2>6, <2>7, FullFacts
<1> QED
  BY <1>2, <1>3, <1>4, <1>5, FullFacts

LEMMA LinesAreFinite ==
  ASSUME FullBill, NEW e, NEW n
  PROVE  IsFiniteSet(Line(n, e)) /\ IsFiniteSet(Lines(e))
<1>1. IsFiniteSet(Occ)
  BY FullFacts, FS_Interval
<1> QED
  BY <1>1, FS_Subset DEF Line, Lines

\* Nothing is counted through an edge that is no component or is hidden.
LEMMA NotCounting ==
  ASSUME FullBill, NEW e \in DOMAIN edges, NEW o \in Lines(e)
  PROVE  Counting(e)
<1>1. o \in Occ \ {1} /\ occurrences[o].counted /\ occurrences[o].edge = e
  BY DEF Lines
<1> QED
  BY <1>1, ParentIsOpen DEF Counting, Hidden

\* The root has one counted child for each edge of its own that counts.
LEMMA FirstLine ==
  ASSUME FullBill, NEW e \in DOMAIN edges, Counting(e)
  PROVE  Cardinality(Line(1, e)) = IF Origin(e) = Pair(1) THEN 1 ELSE 0
<1>1. \A o \in Line(1, e) : o \in Occ \ {1} /\ Bill!Parent(o) = 1 /\ occurrences[o].edge = e
  <2> SUFFICES ASSUME NEW o \in Line(1, e) PROVE Bill!Parent(o) = 1
    BY DEF Line
  <2> DEFINE p == Bill!Parent(o)
  <2>1. o \in Occ \ {1} /\ Cardinality(Path(o)) = 1 + 1 /\ p \in Occ
    BY FullFacts DEF Line
  <2>2. Cardinality(Path(p)) = 1
    BY <2>1, PathLengths
  <2>3. p # 1 => /\ Cardinality(Path(Bill!Parent(p))) \in Nat \ {0}
                 /\ Cardinality(Path(p)) = Cardinality(Path(Bill!Parent(p))) + 1
    BY <2>1, PathLengths
  <2> QED
    BY <2>2, <2>3
<1>2. CASE Origin(e) = Pair(1)
  <2>1. PICK q \in Occ \ {1} : Bill!Parent(q) = 1 /\ occurrences[q].edge = e
    BY <1>2, FullFacts, OneChild DEF Counting
  <2>2. occurrences[q].counted
    BY <2>1, FullFacts, ParentIsOpen DEF Counting, Hidden
  <2>3. Cardinality(Path(q)) = 1 + 1
    BY <2>1, FullFacts, PathLengths
  <2>4. \A o \in Line(1, e) : o = q
    BY <1>1, <2>1, NoTwinsIn
  <2>5. Line(1, e) = {q}
    <3>1. q \in Line(1, e)
      BY <2>1, <2>2, <2>3 DEF Line
    <3> QED
      BY <2>4, <3>1
  <2> QED
    BY <1>2, <2>5, FS_Singleton
<1>3. CASE Origin(e) # Pair(1)
  <2>1. Line(1, e) = {}
    BY <1>1, <1>3, ParentIsOpen
  <2> QED
    BY <1>3, <2>1, FS_EmptySet
<1> QED
  BY <1>2, <1>3

\* The counted occurrences one level further down.
LEMMA NextLine ==
  ASSUME FullBill, NEW e \in DOMAIN edges, Counting(e), NEW n \in Nat \ {0}, NEW row,
         \A d \in DOMAIN edges : row[d] = Cardinality(Line(n, d))
  PROVE  Cardinality(Line(n + 1, e))
           = SumFunctionOnSet(row, {d \in DOMAIN edges : Origin(e) \in Opened(d)})
<1> DEFINE D == {d \in DOMAIN edges : Origin(e) \in Opened(d)}
           F == [d \in D |-> Line(n, d)]
           T == UNION {F[d] : d \in D}
           S == Line(n + 1, e)
           f == [o \in S |-> Bill!Parent(o)]
<1>1. IsFiniteSet(D)
  <2>1. IsFiniteSet(DOMAIN edges)
    BY FullFacts, FS_Interval
  <2> QED
    BY <2>1, FS_Subset
<1>2. \A d \in D : IsFiniteSet(F[d]) /\ row[d] = Cardinality(F[d])
  BY LinesAreFinite
<1>3. \A d, c \in D : d # c => F[d] \cap F[c] = {}
  BY DEF Line
<1>4. IsFiniteSet(T) /\ SumFunctionOnSet(row, D) = Cardinality(T)
  <2>1. \A x : x \in T <=> \E d \in D : x \in F[d]
    OBVIOUS
  <2> HIDE DEF D, F, T
  <2> QED
    BY <1>1, <1>2, <1>3, <2>1, SumOfSizes
<1>5. \A p : p \in T <=> \E d \in D : p \in Line(n, d)
  OBVIOUS
<1>6. ASSUME NEW o \in S
      PROVE  f[o] \in T
  <2> DEFINE p == Bill!Parent(o)
             d == occurrences[p].edge
  <2>1. /\ o \in Occ \ {1} /\ occurrences[o].counted /\ occurrences[o].edge = e
        /\ Cardinality(Path(o)) = n + 1 + 1
    BY DEF Line
  <2>2. /\ p \in Occ /\ occurrences[p].children = "expanded" /\ Origin(e) = Pair(p)
        /\ occurrences[p].counted
    BY <2>1, ParentIsOpen
  <2>3. Cardinality(Path(p)) = n + 1
    BY <2>1, PathLengths
  <2>4. p # 1
    BY <2>2, <2>3, PathLengths
  <2>5. d \in DOMAIN edges /\ Pair(p) \in Opened(d)
    BY <2>2, <2>4, ParentIsOpen
  <2>6. p \in Line(n, d) /\ d \in D
    BY <2>2, <2>3, <2>4, <2>5 DEF Line
  <2> QED
    BY <1>5, <2>6
<1>7. \A o, q \in S : f[o] = f[q] => o = q
  BY NoTwinsIn DEF Line
<1>8. ASSUME NEW p \in T
      PROVE  \E o \in S : f[o] = p
  <2>1. PICK d \in D : p \in Line(n, d)
    BY <1>5
  <2>2. /\ p \in Occ \ {1} /\ occurrences[p].counted /\ occurrences[p].edge = d
        /\ Cardinality(Path(p)) = n + 1 /\ d \in DOMAIN edges
    BY <2>1 DEF Line
  <2>3. /\ Bill!ChildrenState(edges[d]) = "expanded" /\ Origin(e)[1] = edges[d].target
        /\ Origin(e)[2] \in Bill!TargetCandidates(edges[d])
    BY <2>1 DEF Opened
  <2>4. /\ occurrences[p].children = "expanded" /\ occurrences[p].node = edges[d].target
        /\ occurrences[p].config \in Bill!TargetCandidates(edges[d])
    <3>1. /\ occurrences[p].children = "expanded" /\ occurrences[p].node = edges[d].target
          /\ Pair(p) \in Opened(d)
      BY <2>2, <2>3, ParentIsOpen
    <3> QED
      BY <2>3, <3>1 DEF Opened, Pair
  <2>5. Origin(e) = Pair(p)
    <3>1. Bill!TargetCandidates(edges[d]) = {occurrences[p].config}
      BY <2>2, <2>3, <2>4, OneTarget DEF FullBill, Bills
    <3> QED
      BY <2>3, <2>4, <3>1 DEF Origin, Pair
  <2>6. PICK o \in Occ \ {1} : Bill!Parent(o) = p /\ occurrences[o].edge = e
    BY <2>2, <2>4, <2>5, OneChild DEF Counting
  <2>7. occurrences[o].counted
    BY <2>2, <2>6, ParentIsOpen DEF Counting, Hidden
  <2>8. Cardinality(Path(o)) = n + 1 + 1
    BY <2>2, <2>6, PathLengths
  <2>9. o \in S
    BY <2>6, <2>7, <2>8 DEF Line
  <2> QED
    BY <2>6, <2>9
<1>9. f \in [S -> T]
  BY <1>6
<1> HIDE DEF f, S, T
<1>10. Cardinality(S) = Cardinality(T)
  <2>1. /\ IsFiniteSet(T) /\ \A x, y \in S : f[x] = f[y] => x = y
        /\ \A z \in T : \E x \in S : f[x] = z
    BY <1>4, <1>7, <1>8
  <2> QED
    BY Zenon, <1>9, <2>1, PairedOff
<1> QED
  BY <1>4, <1>10 DEF S

\* The rows of CountedPaths: how many paths of n counted edges end with each.
Rows(f) ==
  f = [n \in 1 .. Len(edges) |->
         [e \in DOMAIN edges |->
            IF ~Counting(e) THEN 0
            ELSE IF n = 1
            THEN IF Origin(e) = <<occurrences[1].node, occurrences[1].config>> THEN 1 ELSE 0
            ELSE SumFunctionOnSet(f[n - 1], {d \in DOMAIN edges : Origin(e) \in Opened(d)})]]

LEMMA RowsAre ==
  ASSUME FullBill, NEW f, Rows(f)
  PROVE  \A n \in 1 .. Len(edges), e \in DOMAIN edges : f[n][e] = Cardinality(Line(n, e))
<1> DEFINE Row(n) == \A e \in DOMAIN edges : f[n][e] = Cardinality(Line(n, e))
           S == {n \in 1 .. Len(edges) : ~Row(n)}
<1> SUFFICES ASSUME S # {} PROVE FALSE
  OBVIOUS
<1>1. S \subseteq Nat
  OBVIOUS
<1>2. PICK n \in S : \A m \in S : n <= m
  BY <1>1, FirstIs
<1>3. n \in 1 .. Len(edges) /\ ~Row(n) /\ Len(edges) \in Nat
  BY FullFacts
<1>4. ASSUME NEW e \in DOMAIN edges
      PROVE  f[n][e] = Cardinality(Line(n, e))
  <2> DEFINE rhs(m, i) ==
               IF ~Counting(i) THEN 0
               ELSE IF m = 1
               THEN IF Origin(i) = <<occurrences[1].node, occurrences[1].config>> THEN 1 ELSE 0
               ELSE SumFunctionOnSet(f[m - 1], {d \in DOMAIN edges : Origin(i) \in Opened(d)})
  <2>1. f[n][e] = rhs(n, e)
    <3>1. f = [m \in 1 .. Len(edges) |-> [i \in DOMAIN edges |-> rhs(m, i)]]
      BY Zenon DEF Rows
    <3> HIDE DEF rhs
    <3>2. f[n] = [i \in DOMAIN edges |-> rhs(n, i)]
      BY <1>3, <3>1, Zenon
    <3> QED
      BY <3>2
  <2>2. CASE ~Counting(e)
    <3>1. Line(n, e) = {}
      BY <2>2, NotCounting DEF Line, Lines
    <3> QED
      BY <2>1, <2>2, <3>1, FS_EmptySet
  <2>3. CASE Counting(e) /\ n = 1
    BY <2>1, <2>3, FirstLine DEF Pair
  <2>4. CASE Counting(e) /\ n # 1
    <3>1. n - 1 \in 1 .. Len(edges) /\ n - 1 \notin S /\ n - 1 \in Nat \ {0} /\ (n - 1) + 1 = n
      BY <1>1, <1>2, <1>3, <2>4
    <3>2. Row(n - 1)
      BY <3>1
    <3> HIDE DEF Row
    <3>3. Cardinality(Line((n - 1) + 1, e))
            = SumFunctionOnSet(f[n - 1], {d \in DOMAIN edges : Origin(e) \in Opened(d)})
      BY <2>4, <3>1, <3>2, NextLine DEF Row
    <3> QED
      BY <2>1, <2>4, <3>1, <3>3
  <2> QED
    BY <2>2, <2>3, <2>4
<1> QED
  BY <1>3, <1>4

LEMMA RowsExist == FullBill => \E f : Rows(f)
<1> SUFFICES ASSUME FullBill PROVE \E f : Rows(f)
  OBVIOUS
<1> DEFINE f == [n \in 1 .. Len(edges) |-> [e \in DOMAIN edges |-> Cardinality(Line(n, e))]]
           rhs(n, e) ==
             IF ~Counting(e) THEN 0
             ELSE IF n = 1
             THEN IF Origin(e) = <<occurrences[1].node, occurrences[1].config>> THEN 1 ELSE 0
             ELSE SumFunctionOnSet(f[n - 1], {d \in DOMAIN edges : Origin(e) \in Opened(d)})
<1>1. ASSUME NEW n \in 1 .. Len(edges), NEW e \in DOMAIN edges
      PROVE  Cardinality(Line(n, e)) = rhs(n, e)
  <2>1. Len(edges) \in Nat
    BY FullFacts
  <2>2. CASE ~Counting(e)
    <3>1. Line(n, e) = {}
      BY <2>2, NotCounting DEF Line, Lines
    <3> QED
      BY <2>2, <3>1, FS_EmptySet
  <2>3. CASE Counting(e) /\ n = 1
    BY <2>3, FirstLine DEF Pair
  <2>4. CASE Counting(e) /\ n # 1
    <3>1. n - 1 \in 1 .. Len(edges) /\ n - 1 \in Nat \ {0} /\ (n - 1) + 1 = n
      BY <2>1, <2>4
    <3>2. \A d \in DOMAIN edges : f[n - 1][d] = Cardinality(Line(n - 1, d))
      BY <3>1
    <3> HIDE DEF f
    <3>3. Cardinality(Line((n - 1) + 1, e))
            = SumFunctionOnSet(f[n - 1], {d \in DOMAIN edges : Origin(e) \in Opened(d)})
      BY <2>4, <3>1, <3>2, NextLine
    <3> QED
      BY <2>4, <3>1, <3>3
  <2> QED
    BY <2>2, <2>3, <2>4
<1>2. f = [n \in 1 .. Len(edges) |-> [e \in DOMAIN edges |-> rhs(n, e)]]
  <2> DEFINE g == [n \in 1 .. Len(edges) |-> [e \in DOMAIN edges |-> rhs(n, e)]]
  <2> HIDE DEF rhs
  <2>1. \A n \in 1 .. Len(edges) : f[n] = g[n]
    BY <1>1
  <2> QED
    BY <2>1
<1>3. Rows(f)
  <2> HIDE DEF f
  <2> QED
    BY <1>2, Zenon DEF Rows
<1> QED
  BY <1>3

LEMMA CountedPathsAre ==
  ASSUME FullBill, NEW e \in DOMAIN edges
  PROVE  CountedPaths[e] = Cardinality(Lines(e))
<1> DEFINE rows == CHOOSE f : Rows(f)
           column == [n \in 1 .. Len(edges) |-> rows[n][e]]
           F == [n \in 1 .. Len(edges) |-> Line(n, e)]
<1>1. Rows(rows)
  BY RowsExist
<1>2. CountedPaths = [d \in DOMAIN edges |->
                        SumFunctionOnSet([n \in 1 .. Len(edges) |-> rows[n][d]], 1 .. Len(edges))]
  BY DEF CountedPaths, Rows
<1> HIDE DEF rows
<1>3. CountedPaths[e] = SumFunctionOnSet(column, 1 .. Len(edges))
  BY <1>2
<1>4. \A n \in 1 .. Len(edges) : IsFiniteSet(F[n]) /\ column[n] = Cardinality(F[n])
  BY <1>1, LinesAreFinite, RowsAre
<1>5. \A n, m \in 1 .. Len(edges) : n # m => F[n] \cap F[m] = {}
  <2> SUFFICES ASSUME NEW n \in 1 .. Len(edges), NEW m \in 1 .. Len(edges), n # m,
                      NEW o, o \in Line(n, e), o \in Line(m, e)
               PROVE  FALSE
    OBVIOUS
  <2>1. n + 1 = m + 1 /\ n \in Nat /\ m \in Nat
    BY FullFacts DEF Line
  <2> QED
    BY <2>1
<1>6. \A o : o \in Lines(e) <=> \E n \in 1 .. Len(edges) : o \in F[n]
  <2>1. ASSUME NEW o \in Lines(e)
        PROVE  \E n \in 1 .. Len(edges) : o \in F[n]
    <3>1. o \in Occ \ {1}
      BY DEF Lines
    <3>2. /\ Cardinality(Path(o)) \in 1 .. Len(edges) + 1
          /\ Cardinality(Path(Bill!Parent(o))) \in Nat \ {0}
          /\ Cardinality(Path(o)) = Cardinality(Path(Bill!Parent(o))) + 1
      BY <3>1, PathLengths
    <3> DEFINE n == Cardinality(Path(o)) - 1
    <3>3. n \in 1 .. Len(edges) /\ Cardinality(Path(o)) = n + 1
      BY <3>2, FullFacts
    <3>4. o \in Line(n, e)
      BY <3>3 DEF Line, Lines
    <3> QED
      BY <3>3, <3>4
  <2>2. \A n \in 1 .. Len(edges) : \A o \in F[n] : o \in Lines(e)
    BY DEF Line, Lines
  <2> QED
    BY <2>1, <2>2
<1>7. IsFiniteSet(1 .. Len(edges))
  BY FullFacts, FS_Interval
<1> HIDE DEF F, column
<1>8. SumFunctionOnSet(column, 1 .. Len(edges)) = Cardinality(Lines(e))
  BY SMTT(30), <1>4, <1>5, <1>6, <1>7, SumOfSizes
<1> QED
  BY <1>3, <1>8

LEMMA QuantitiesByState == FullBill => QuantitiesMultiply
<1> SUFFICES ASSUME FullBill, NEW e \in DOMAIN edges
             PROVE  Bill!Amount(ItemOf(e), "quantity")
                      = SumFunctionOnSet(CountedPaths, {d \in DOMAIN edges : ItemOf(d) = ItemOf(e)})
  BY DEF QuantitiesMultiply
<1> DEFINE D == {d \in DOMAIN edges : ItemOf(d) = ItemOf(e)}
           F == [d \in D |-> Lines(d)]
           T == {o \in Bill!Listed : /\ Bill!ItemKey(occurrences[o]) = ItemOf(e)
                                     /\ Bill!Bucket(o) = "quantity"}
<1>1. Bill!Amount(ItemOf(e), "quantity") = Cardinality(T)
  BY DEF Bill!Amount, Bill!Cardinality, Bill!IsFiniteSet, Cardinality, IsFiniteSet
<1>2. \A o : Bill!Bucket(o) = "quantity" <=> occurrences[o].counted
  BY DEF Bill!Bucket
<1>3. \A o \in Occ \ {1} : /\ occurrences[o].edge \in DOMAIN edges
                           /\ Bill!ItemKey(occurrences[o]) = ItemOf(occurrences[o].edge)
  <2> SUFFICES ASSUME NEW o \in Occ \ {1}
               PROVE  /\ occurrences[o].edge \in DOMAIN edges
                      /\ Bill!ItemKey(occurrences[o]) = ItemOf(occurrences[o].edge)
    OBVIOUS
  <2>1. TracedAt(occurrences, o) /\ Attached(occurrences, o, FALSE)
    BY FullFacts
  <2> DEFINE i == occurrences[o].edge
  <2>2. /\ i \in DOMAIN edges /\ occurrences[o].node = edges[i].target
        /\ occurrences[o].path = edges[i].path /\ occurrences[o].requested = edges[i].requested
    BY <2>1 DEF TracedAt, Attached, Instance
  <2> QED
    BY <2>2 DEF ItemOf, Bill!ItemKey
<1>4. Bill!Listed = Occ \ {1}
  BY DEF Bill!Listed, Occ
<1>5. \A o : o \in T <=> \E d \in D : o \in F[d]
  BY <1>2, <1>3, <1>4 DEF Lines
<1>6. \A d \in D : IsFiniteSet(F[d]) /\ CountedPaths[d] = Cardinality(F[d])
  BY CountedPathsAre, LinesAreFinite
<1>7. \A d, c \in D : d # c => F[d] \cap F[c] = {}
  BY DEF Lines
<1>8. IsFiniteSet(D)
  <2>1. IsFiniteSet(DOMAIN edges)
    BY FullFacts, FS_Interval
  <2> QED
    BY <2>1, FS_Subset
<1>9. SumFunctionOnSet(CountedPaths, D) = Cardinality(T)
  <2> HIDE DEF D, F, T
  <2> QED
    BY <1>5, <1>6, <1>7, <1>8, SumOfSizes
<1> QED
  BY <1>1, <1>9

\* The quantity of an item is the number of counted paths through the scanned
\* graph that end with one of its edges: quantities multiply along shared
\* subassemblies, and the tree and the items describe the same expansion.
THEOREM QuantitiesAreProducts == ScanBomSpec => []QuantitiesMultiply
<1>1. ScanBomInit => Traced
  BY TracedInit
<1>2. Traced /\ Bills => QuantitiesMultiply
  BY QuantitiesByState DEF FullBill, QuantitiesMultiply
<1> QED
  BY <1>1, <1>2, BillsInvariant, TracedStep, PTL DEF ScanBomSpec

=============================================================================
