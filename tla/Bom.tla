--------------------------------- MODULE Bom ---------------------------------
(***************************************************************************)
(* build_bill_of_materials (bom.rs): expands the occurrence tree of a      *)
(* scanned project graph and aggregates quantities.  Only the graph is     *)
(* read; documents are not.  The loop over an explicit stack of pending    *)
(* occurrences is modelled one edge at a time.                             *)
(***************************************************************************)
EXTENDS Naturals, Sequences, FiniteSets

CONSTANTS
  NONE,               \* an absent optional value
  BomConfiguration,   \* BomOptions::root_configuration, or NONE
  IncludeSuppressed,  \* BomOptions::include_suppressed
  IncludeExcluded,    \* BomOptions::include_excluded
  MaxOccurrences      \* BomOptions::max_occurrences

VARIABLES
  graph,        \* the scanned graph: [status, root, nodes, edges]
  occurrences,  \* the occurrence tree, in creation order; 1 is the root
  agenda,       \* pending expansions, the next one last
  current,      \* the expansion in progress, or NONE
  incomplete,   \* Expansion::partial
  limited,      \* Expansion::limit_reached
  bill          \* status of the bill, "expanding" before it is known

bomVars == <<graph, occurrences, agenda, current, incomplete, limited, bill>>

Least(S) == CHOOSE x \in S : \A y \in S : x <= y

-----------------------------------------------------------------------------
(***************************************************************************)
(* Reading the graph.                                                      *)
(***************************************************************************)
\* Edge positions of the components of one configuration of one document.
ComponentEdges(node, config) ==
  {e \in DOMAIN graph.edges :
     /\ graph.edges[e].kind = "component"
     /\ graph.edges[e].source = node
     /\ graph.edges[e].config = config}

\* Configurations of a node that carry a name: the canonical one only.
Named(node, name) ==
  {c \in DOMAIN graph.nodes[node].configurations :
     graph.nodes[node].configurations[c] = name}

Available(node) == DOMAIN graph.nodes[node].configurations

RootCandidates ==
  LET root == graph.root
  IN IF BomConfiguration # NONE THEN Named(root, BomConfiguration)
     ELSE IF Cardinality(graph.nodes[root].selected) = 1
          THEN Available(root) \cap graph.nodes[root].selected
          ELSE Available(root)

\* The configuration an edge instantiates on its target: named exactly once,
\* and scanned.
TargetCandidates(edge) ==
  IF edge.requested = NONE THEN Available(edge.target)
  ELSE Named(edge.target, edge.requested)

\* Mutant: a configuration the scan did not process counts as available.
InstantiableUnscanned(edge) == Cardinality(TargetCandidates(edge)) = 1

Instantiable(edge) ==
  /\ Cardinality(TargetCandidates(edge)) = 1
  /\ TargetCandidates(edge) \subseteq graph.nodes[edge.target].selected

-----------------------------------------------------------------------------
(***************************************************************************)
(* One occurrence (occurrence_for_edge).                                   *)
(***************************************************************************)
IsAssembly(node) == graph.nodes[node].kind = "assembly"

ChildrenState(edge) ==
  IF edge.target = NONE THEN "unresolved"
  ELSE IF edge.traversal = "suppressed" /\ ~IncludeSuppressed THEN "suppressed"
  ELSE IF ~IsAssembly(edge.target) THEN "leaf"
  ELSE IF edge.traversal \notin {"followed", "reused"} THEN "not_traversed"
  ELSE IF Instantiable(edge) THEN "expanded"
  ELSE "configuration_unresolved"

HiddenBySuppression(edge) == edge.suppressed = "yes" /\ ~IncludeSuppressed
HiddenByExclusion(edge) == edge.excluded = "yes" /\ ~IncludeExcluded

Occurrence(e, parent) ==
  LET edge == graph.edges[e]
      state == ChildrenState(edge)
  IN [parent |-> parent.occurrence, edge |-> e, node |-> edge.target,
      path |-> edge.path, requested |-> edge.requested,
      config |-> IF state = "expanded"
                 THEN CHOOSE c \in TargetCandidates(edge) : TRUE ELSE 0,
      depth |-> parent.depth + 1, suppressed |-> edge.suppressed,
      excluded |-> edge.excluded, children |-> state,
      counted |-> ~(\/ parent.suppressed \/ parent.excluded
                    \/ HiddenBySuppression(edge) \/ HiddenByExclusion(edge))]

\* Mutant: an occurrence knows its own flags, not those of its ancestors.
PendingAlone(index, occurrence, parent) ==
  [occurrence |-> index, node |-> occurrence.node, config |-> occurrence.config,
   depth |-> parent.depth + 1,
   suppressed |-> HiddenBySuppression(occurrence),
   excluded |-> HiddenByExclusion(occurrence)]

\* What is left to do for an occurrence, with the state its ancestors impose.
Pending(index, occurrence, parent) ==
  [occurrence |-> index, node |-> occurrence.node, config |-> occurrence.config,
   depth |-> parent.depth + 1,
   suppressed |-> parent.suppressed \/ HiddenBySuppression(occurrence),
   excluded |-> parent.excluded \/ HiddenByExclusion(occurrence)]

Expanding == bill = "expanding"

-----------------------------------------------------------------------------
(***************************************************************************)
(* Start: refuse a graph without a usable root, or open the root.          *)
(***************************************************************************)
Refusable ==
  \/ graph.root = NONE
  \/ graph.status = "rejected"
  \/ Cardinality(RootCandidates) # 1

Refuse ==
  /\ Expanding /\ occurrences = <<>>
  /\ Refusable
  /\ bill' = "rejected"
  /\ UNCHANGED <<graph, occurrences, agenda, current, incomplete, limited>>

\* The root occurrence is pushed before any limit is looked at.
ExpandRoot ==
  /\ Expanding /\ occurrences = <<>>
  /\ ~Refusable
  /\ \E c \in RootCandidates :
       /\ occurrences' = <<[parent |-> 0, edge |-> 0, node |-> graph.root, path |-> NONE,
                            requested |-> graph.nodes[graph.root].configurations[c],
                            config |-> c, depth |-> 0, suppressed |-> "unknown",
                            excluded |-> "unknown", children |-> "expanded",
                            counted |-> TRUE]>>
       /\ agenda' = <<[occurrence |-> 1, node |-> graph.root, config |-> c, depth |-> 0,
                       suppressed |-> FALSE, excluded |-> FALSE]>>
  /\ UNCHANGED <<graph, current, incomplete, limited, bill>>

-----------------------------------------------------------------------------
(***************************************************************************)
(* The expansion loop: pop a pending occurrence, create one occurrence per *)
(* component edge, push those that can be expanded in reverse order.       *)
(***************************************************************************)
\* Mutant: the next expansion is looked at, not taken.
Peek ==
  /\ Expanding /\ current = NONE /\ ~limited /\ agenda # <<>>
  /\ LET next == agenda[Len(agenda)]
     IN current' = [pending |-> next, found |-> <<>>,
                    edges |-> ComponentEdges(next.node, next.config)]
  /\ UNCHANGED <<graph, occurrences, agenda, incomplete, limited, bill>>

Pop ==
  /\ Expanding /\ current = NONE /\ ~limited /\ agenda # <<>>
  /\ LET next == agenda[Len(agenda)]
     IN current' = [pending |-> next, found |-> <<>>,
                    edges |-> ComponentEdges(next.node, next.config)]
  /\ agenda' = SubSeq(agenda, 1, Len(agenda) - 1)
  /\ UNCHANGED <<graph, occurrences, incomplete, limited, bill>>

InProgress == Expanding /\ current # NONE

HitLimit ==
  /\ InProgress /\ current.edges # {}
  /\ Len(occurrences) >= MaxOccurrences
  /\ limited' = TRUE
  /\ incomplete' = TRUE
  /\ occurrences' = [occurrences EXCEPT ![current.pending.occurrence].children =
                       "limit_reached"]
  /\ current' = NONE
  /\ UNCHANGED <<graph, agenda, bill>>

ExpandEdge ==
  /\ InProgress /\ current.edges # {}
  /\ Len(occurrences) < MaxOccurrences
  /\ LET e == Least(current.edges)
         child == Occurrence(e, current.pending)
     IN /\ occurrences' = Append(occurrences, child)
        /\ current' = [current EXCEPT
             !.edges = @ \ {e},
             !.found = IF child.children = "expanded"
                       THEN <<Pending(Len(occurrences) + 1, child, current.pending)>> \o @
                       ELSE @]
        /\ incomplete' = (incomplete \/ child.children = "configuration_unresolved")
  /\ UNCHANGED <<graph, agenda, limited, bill>>

\* Mutant: the children replace what was left to expand.
PushOverAgenda ==
  /\ InProgress /\ current.edges = {}
  /\ agenda' = current.found
  /\ current' = NONE
  /\ UNCHANGED <<graph, occurrences, incomplete, limited, bill>>

PushChildren ==
  /\ InProgress /\ current.edges = {}
  /\ agenda' = agenda \o current.found
  /\ current' = NONE
  /\ UNCHANGED <<graph, occurrences, incomplete, limited, bill>>

\* Mutant: a target the scan did not traverse does not make a bill partial.
UnsettledIfFollowed(occurrence) ==
  occurrence.children \in {"unresolved", "configuration_unresolved", "limit_reached"}

Unsettled(occurrence) ==
  occurrence.children \in
    {"unresolved", "configuration_unresolved", "not_traversed", "limit_reached"}

FinishBill ==
  /\ Expanding /\ occurrences # <<>> /\ current = NONE
  /\ limited \/ agenda = <<>>
  /\ bill' = IF \/ incomplete \/ limited
                \/ \E o \in DOMAIN occurrences : Unsettled(occurrences[o])
             THEN "partial" ELSE "complete"
  /\ UNCHANGED <<graph, occurrences, agenda, current, incomplete, limited>>

BomInit ==
  /\ occurrences = <<>>
  /\ agenda = <<>>
  /\ current = NONE
  /\ incomplete = FALSE
  /\ limited = FALSE
  /\ bill = "expanding"

BomNext ==
  \/ Refuse
  \/ ExpandRoot
  \/ Pop
  \/ HitLimit
  \/ ExpandEdge
  \/ PushChildren
  \/ FinishBill

-----------------------------------------------------------------------------
(***************************************************************************)
(* Aggregation (aggregate_items): one item per document and requested      *)
(* configuration, or per stored path when no document resolved.            *)
(***************************************************************************)
ItemKey(o) ==
  [node |-> o.node, path |-> IF o.node = NONE THEN o.path ELSE NONE,
   configuration |-> o.requested]

Parent(o) == occurrences[o].parent

\* The occurrences an occurrence lies below, the root included.
Ancestors(o) ==
  LET above[p \in 0 .. o] ==
        IF p = 0 THEN {} ELSE {p} \cup above[Parent(p)]
  IN above[Parent(o)]

AncestorSuppressed(o) ==
  \E p \in Ancestors(o) : occurrences[p].suppressed = "yes"

Bucket(o) ==
  IF occurrences[o].counted THEN "quantity"
  ELSE IF occurrences[o].suppressed = "yes" \/ AncestorSuppressed(o)
       THEN "suppressed_quantity"
       ELSE "excluded_quantity"

Listed == DOMAIN occurrences \ {1}
Amount(key, bucket) ==
  Cardinality({o \in Listed : ItemKey(occurrences[o]) = key /\ Bucket(o) = bucket})
=============================================================================
