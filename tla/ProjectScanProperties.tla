------------------------ MODULE ProjectScanProperties ------------------------
(***************************************************************************)
(* What the project scanner promises about the graph it returns.           *)
(***************************************************************************)
EXTENDS ProjectScan

Frame == [file: Nat, depth: Nat, requested: Names \cup {NONE},
          ancestors: SUBSET Nat, root: BOOLEAN, phase: {"called", "walking"},
          config: Nat, next: Nat, pending: SUBSET Nat]

Node == [root: BOOLEAN, depth: Nat, status: ParseStatus \cup {NONE},
         kind: DocumentKind \cup {NONE}, configurations: Seq(Names \cup {NONE}),
         selected: SUBSET Nat, requested: SUBSET Names]

EdgeRecord ==
  [source: Nat, config: Nat, ref: Nat, kind: ReferenceKind,
   path: Paths \cup {NONE},
   requested: Names \cup {NONE}, suppressed: Flag, excluded: Flag,
   expected: DocumentKind \cup {NONE},
   resolution: {"resolved", "missing", "ambiguous", "no_stored_path"},
   target: Nat \cup {NONE},
   traversal: {"followed", "reused", "suppressed", "cycle", "depth_limited", "unresolved"}]

\* The shape of the scanner's state: which maps know which files, and what
\* every record holds.
TypeOK ==
  /\ files \in Seq([container: Nat, name: Streams \cup {NONE}])
  /\ DOMAIN nodes \subseteq 1 .. Len(files)
  /\ \A f \in DOMAIN nodes : nodes[f] \in Node
  /\ DOMAIN parsed \subseteq DOMAIN nodes
  /\ \A f \in DOMAIN parsed : parsed[f] \in Document \cup {NONE}
  /\ DOMAIN processed \subseteq DOMAIN parsed
  /\ \A f \in DOMAIN processed : processed[f] \subseteq Nat
  /\ referenced \subseteq DOMAIN parsed
  /\ edges \in Seq(EdgeRecord)
  /\ partial \in BOOLEAN
  /\ rejected \in BOOLEAN
  /\ roots \in Seq(HostFile)
  /\ stack \in Seq(Frame)
  /\ status \in {"running", "complete", "partial", "rejected"}

-----------------------------------------------------------------------------
HasDocument(f) == f \in DOMAIN parsed /\ parsed[f] # NONE
Done == status # "running"
Traversed(edge) == edge.traversal \in {"followed", "reused"}

\* Identities of the references the graph owes an edge: the document
\* references of a document, and the components of its selected configurations.
OwedReferences(f) ==
  {<<f, 0, i>> : i \in {j \in DOMAIN parsed[f].references :
                          parsed[f].references[j].kind # "component"}}
    \cup UNION {{<<f, c, i>> : i \in DOMAIN parsed[f].configurations[c].components} :
                  c \in nodes[f].selected}

Owed == UNION {OwedReferences(f) : f \in {g \in DOMAIN parsed : HasDocument(g)}}
Identity(edge) == <<edge.source, edge.config, edge.ref>>
Handled == {Identity(edges[i]) : i \in DOMAIN edges}

\* No reference is processed twice, however often its document is visited.
NothingTwice ==
  \A i, j \in DOMAIN edges : Identity(edges[i]) = Identity(edges[j]) => i = j

\* When the scan ends below the edge limit, exactly the references of the
\* visited documents and of their selected configurations have an edge.
NothingOverlooked ==
  Done /\ Len(edges) < MaxProjectEdges => Handled = Owed

\* The recursion of visit is bounded by the depth limit and never re-enters a
\* document that is being visited.
BoundedRecursion ==
  /\ Len(stack) <= MaxReferenceDepth + 1
  /\ \A i, j \in DOMAIN stack : stack[i].file = stack[j].file => i = j

\* The first edge that reaches a document is the one that is "followed", it is
\* the only one, and "reused" edges come after the document was parsed.
FirstContact ==
  /\ \A i, j \in DOMAIN edges :
       /\ edges[i].traversal = "followed" /\ edges[j].traversal = "followed"
       /\ edges[i].target = edges[j].target
       => i = j
  /\ \A j \in DOMAIN edges : edges[j].traversal = "reused" =>
       \/ \E r \in DOMAIN Roots : Roots[r] = edges[j].target
       \/ \E i \in 1 .. j - 1 : /\ edges[i].traversal = "followed"
                                /\ edges[i].target = edges[j].target
  /\ \A f \in DOMAIN parsed :
       \/ nodes[f].root
       \/ \E i \in DOMAIN edges : edges[i].traversal = "followed" /\ edges[i].target = f

\* A node without a parse status was left out on purpose: every edge to it is
\* suppressed or beyond the depth limit.
UnparsedWasHeldBack ==
  Done => \A f \in DOMAIN nodes : nodes[f].status = NONE =>
            \A i \in DOMAIN edges : edges[i].target = f =>
              edges[i].traversal \in {"suppressed", "depth_limited"}

\* Along the first n traversed edges a file leads to another: every set of files
\* that holds the one and is closed under those edges holds the other.
LeadsTo(es, from, to, n) ==
  LET walked == {i \in 1 .. n : Traversed(es[i])}
  IN \A met \in SUBSET ({from} \cup {es[i].target : i \in walked}) :
       /\ from \in met
       /\ \A i \in walked : es[i].source \in met => es[i].target \in met
       => to \in met

\* An edge is only called a cycle when traversed edges lead back from its
\* target to its source.
CycleClosesAPath ==
  \A i \in DOMAIN edges : edges[i].traversal = "cycle" =>
    LeadsTo(edges, edges[i].target, edges[i].source, i - 1)

-----------------------------------------------------------------------------
(***************************************************************************)
(* The verdict, read off the returned graph alone.                         *)
(***************************************************************************)
Failed(f) ==
  f \in DOMAIN parsed
    /\ (nodes[f].status \notin {"parsed", "partial"} \/ parsed[f] = NONE)

\* A root that failed when it was parsed as a root.
RootFailed ==
  \E r \in DOMAIN Roots :
    /\ Failed(Roots[r])
    /\ ~ \E i \in DOMAIN edges : /\ edges[i].traversal = "followed"
                                 /\ edges[i].target = Roots[r]

\* A visit that asked for a configuration its document does not have once.
RequestFailed ==
  \/ \E r \in DOMAIN Roots :
       HasDocument(Roots[r]) /\ RequestFails(parsed[Roots[r]], RootConfiguration)
  \/ \E i \in DOMAIN edges :
       /\ Traversed(edges[i])
       /\ HasDocument(edges[i].target)
       /\ RequestFails(parsed[edges[i].target], edges[i].requested)

EmbeddedLeftOut ==
  \E f \in DOMAIN parsed :
    /\ HasDocument(f)
    /\ Cardinality({i \in 1 .. Len(files) : files[i].container = f})
         < Len(parsed[f].embedded)

LooseEnd ==
  \/ IndexPartial
  \/ \E f \in DOMAIN parsed : Failed(f)
  \/ \E i \in DOMAIN edges : edges[i].traversal \in {"unresolved", "depth_limited"}
  \/ \E i \in DOMAIN edges : KindMismatch(edges[i])
  \/ RequestFailed
  \/ EmbeddedLeftOut

\* The status finish reports is exactly what the graph warrants: "rejected"
\* for an unusable root or an edge left out, "partial" for any loose end.
VerdictIsWarranted ==
  Done => status = IF RootFailed \/ ~(Owed \subseteq Handled) THEN "rejected"
                   ELSE IF LooseEnd THEN "partial"
                   ELSE "complete"

\* docs/compatibility.md: "complete" means every reference required by the
\* traversal was resolved - and what it resolved to was parsed.
CompleteMeansResolved ==
  status = "complete" =>
    \A i \in DOMAIN edges :
      /\ edges[i].resolution = "resolved"
      /\ \/ edges[i].traversal = "suppressed"
         \/ nodes[edges[i].target].status \in {"parsed", "partial"}

\* The graph only grows: a later visit never rewrites an edge or a parsed
\* document, moves a node deeper, or takes back a failure.
Grows ==
  /\ Len(edges) <= Len(edges') /\ SubSeq(edges', 1, Len(edges)) = edges
  /\ \A f \in DOMAIN parsed : f \in DOMAIN parsed' /\ parsed'[f] = parsed[f]
  /\ \A f \in DOMAIN nodes :
       /\ f \in DOMAIN nodes'
       /\ nodes'[f].depth <= nodes[f].depth
       /\ nodes[f].selected \subseteq nodes'[f].selected
  /\ (partial => partial') /\ (rejected => rejected')

NeverRevised == [][Grows]_vars

\* The depth-first walk implements the order-free promise of ReferenceGraph.
Graph == INSTANCE ReferenceGraph WITH
           owed <- Owed, handled <- Handled, verdict <- status,
           Limit <- MaxProjectEdges
ImplementsReferenceGraph == Graph!Spec

\* Every scan ends, whatever cycles the references form.
Terminates == <>Done

\* project.rs on resolve_reference: the stored temporary path of a virtual
\* component never identifies a project file by itself.
VirtualAsDocumented ==
  \A i \in DOMAIN edges :
    LET reference == References([file |-> edges[i].source, config |-> edges[i].config])
    IN reference[edges[i].ref].virtual /\ edges[i].target # NONE
         => files[edges[i].target].container = edges[i].source
=============================================================================
