------------------------------- MODULE ScanBom -------------------------------
(***************************************************************************)
(* A project scan followed by a bill of materials over the graph it        *)
(* returned: the bill starts when the scan is over and never changes it.   *)
(***************************************************************************)
EXTENDS ProjectScanProperties, FiniteSetsExt

CONSTANTS BomConfiguration, IncludeSuppressed, IncludeExcluded, MaxOccurrences

ASSUME BomOptionAssumption ==
  /\ BomConfiguration \in Names \cup {NONE}
  /\ IncludeSuppressed \in BOOLEAN
  /\ IncludeExcluded \in BOOLEAN
  /\ MaxOccurrences \in Nat

\* What an expansion in progress consists of; NONE stands for no expansion.
PendingRecord ==
  [occurrence: Nat, node: Nat \cup {NONE}, config: Nat, depth: Nat,
   suppressed: BOOLEAN, excluded: BOOLEAN]
CurrentRecord ==
  [pending: PendingRecord, found: Seq(PendingRecord), edges: SUBSET Nat]

ASSUME NoExpansionAssumption == NONE \notin CurrentRecord

VARIABLES occurrences, agenda, current, incomplete, limited, bill

Bill == INSTANCE Bom WITH graph <- ScanResult

billVars == <<occurrences, agenda, current, incomplete, limited, bill>>
allVars == <<vars, billVars>>

ScanBomInit == Init /\ Bill!BomInit

Scan == Step /\ UNCHANGED billVars
MakeBill == Done /\ UNCHANGED vars /\ Bill!BomNext
BothDone == Done /\ bill # "expanding" /\ UNCHANGED allVars

ScanBomNext == Scan \/ MakeBill \/ BothDone
ScanBomSpec == ScanBomInit /\ [][ScanBomNext]_allVars

\* Both programs are sequential and run to their end.
FairScanBomSpec == ScanBomSpec /\ WF_allVars(Scan \/ MakeBill)

-----------------------------------------------------------------------------
Occ == DOMAIN occurrences
Children(o) == {c \in Occ : occurrences[c].parent = o}
Path(o) == {o} \cup Bill!Ancestors(o)
Billed == bill \in {"complete", "partial"}

\* Without hitting the limit, an expanded occurrence has one child for every
\* component edge of the configuration it instantiates, and others have none.
ExpansionIsExact ==
  Billed /\ ~limited =>
    \A o \in Occ :
      LET expected == IF occurrences[o].children = "expanded"
                      THEN Bill!ComponentEdges(occurrences[o].node, occurrences[o].config)
                      ELSE {}
      IN /\ {occurrences[c].edge : c \in Children(o)} = expected
         /\ Cardinality(Children(o)) = Cardinality(expected)

\* An occurrence is counted unless it or an occurrence above it is suppressed
\* or excluded without being included by the options.  The comment on the field
\* "counted" in the core model says the reverse (CountedAsDocumented); this is
\* what the code, docs/project-scanning.md and the item quantities agree on.
CountedFollowsThePath ==
  \A o \in Occ \ {1} :
    occurrences[o].counted <=>
      \A p \in Path(o) : /\ ~Bill!HiddenBySuppression(occurrences[p])
                         /\ ~Bill!HiddenByExclusion(occurrences[p])

\* bom.rs of sldkit-core on the field "counted": true when this occurrence or
\* an ancestor is suppressed or excluded.
CountedAsDocumented ==
  \A o \in Occ :
    (\E p \in Path(o) : "yes" \in {occurrences[p].suppressed, occurrences[p].excluded})
      => occurrences[o].counted

\* No name of a configuration is an alternate name of another one.
Unambiguous ==
  \A f \in DOMAIN parsed : parsed[f] # NONE =>
    \A c, d \in DOMAIN parsed[f].configurations :
      c # d => parsed[f].configurations[c].name \notin parsed[f].configurations[d].alternates

PathsRepeatNothing ==
  \A o \in Occ : \A p \in Bill!Ancestors(o) :
    occurrences[o].children = "expanded" =>
      <<occurrences[o].node, occurrences[o].config>>
        # <<occurrences[p].node, occurrences[p].config>>

\* No document configuration is expanded below itself, although the bill has no
\* cycle check: the scan cut the cycles, so an expansion without limit ends.
\* Where the scan matches an alternate name that the bill does not know, an
\* expansion may repeat itself, but only up to the occurrence limit.
NothingBelowItself == Unambiguous \/ (Billed /\ ~limited) => PathsRepeatNothing

\* Edges an occurrence is counted through, the configuration each one opens,
\* and the number of paths of such edges from the root that end with each.
Counting(e) == /\ edges[e].kind = "component"
               /\ ~Bill!HiddenBySuppression(edges[e])
               /\ ~Bill!HiddenByExclusion(edges[e])
Origin(e) == <<edges[e].source, edges[e].config>>
Opened(e) == IF Bill!ChildrenState(edges[e]) = "expanded"
             THEN {edges[e].target} \X Bill!TargetCandidates(edges[e]) ELSE {}
CountedPaths ==
  LET paths[n \in 1 .. Len(edges)] ==
        [e \in DOMAIN edges |->
           IF ~Counting(e) THEN 0
           ELSE IF n = 1
           THEN IF Origin(e) = <<occurrences[1].node, occurrences[1].config>> THEN 1 ELSE 0
           ELSE SumFunctionOnSet(paths[n - 1],
                                 {d \in DOMAIN edges : Origin(e) \in Opened(d)})]
  IN [e \in DOMAIN edges |->
        SumFunctionOnSet([n \in 1 .. Len(edges) |-> paths[n][e]], 1 .. Len(edges))]

ItemOf(e) == Bill!ItemKey([node |-> edges[e].target, path |-> edges[e].path,
                           requested |-> edges[e].requested])

\* docs/project-scanning.md: the indented tree and the aggregated items
\* describe the same expansion.  The quantity of an item is the number of
\* counted paths through the graph that end with one of its edges, quantities
\* multiplying along shared subassemblies.
QuantitiesMultiply ==
  Billed /\ ~limited =>
    LET counted == CountedPaths
    IN \A e \in DOMAIN edges :
         Bill!Amount(ItemOf(e), "quantity") =
           SumFunctionOnSet(counted, {d \in DOMAIN edges : ItemOf(d) = ItemOf(e)})

\* A complete bill over a complete scan leaves nothing out: each counted
\* occurrence is a parsed document and each counted assembly is expanded.
CompleteBillIsWhole ==
  bill = "complete" /\ status = "complete" =>
    \A o \in Occ : occurrences[o].counted =>
      /\ occurrences[o].node # NONE
      /\ nodes[occurrences[o].node].status \in {"parsed", "partial"}
      /\ Bill!IsAssembly(occurrences[o].node) => occurrences[o].children = "expanded"

\* The components its document lists for the configuration of an occurrence.
ComponentsOf(o) ==
  parsed[occurrences[o].node].configurations[occurrences[o].config].components

\* However partial the scan is, what a bill without limit expands below the
\* root has a child for every component that its document lists: components
\* that are not in the graph, because the scan could not tell which
\* configuration was meant, are never taken for none (bom.rs:356).  The
\* configuration of the root is not checked that way (bom.rs:378).
ExpandedInFull ==
  Billed /\ ~limited =>
    \A o \in Occ \ {1} : occurrences[o].children = "expanded" =>
      {edges[occurrences[c].edge].ref : c \in Children(o)} = DOMAIN ComponentsOf(o)

\* docs/project-scanning.md: a suppressed subassembly that the scan did not
\* traverse cannot be expanded; docs/compatibility.md: then a bill is partial,
\* also when the scan, told not to follow what is suppressed, is complete.
CompleteBillAsDocumented ==
  bill = "complete" /\ status = "complete" =>
    \A o \in Occ \ {1} :
      LET edge == edges[occurrences[o].edge]
      IN occurrences[o].counted /\ edge.expected = "assembly" => edge.traversal # "suppressed"

\* Every bill is finished, on whatever graph the scan returned.
BillTerminates == <>(bill # "expanding")
=============================================================================
