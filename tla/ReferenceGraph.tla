---------------------------- MODULE ReferenceGraph ----------------------------
(***************************************************************************)
(* What a scan promises, whatever order it walks the documents in: the     *)
(* references it comes to owe are each handled once, one at a time and     *)
(* never more than Limit of them, and the scan is over when none is left   *)
(* or the limit was met - which only a "rejected" verdict admits.          *)
(***************************************************************************)
EXTENDS Naturals, FiniteSets

CONSTANT Limit

VARIABLES
  owed,     \* references of the documents read so far
  handled,  \* references that became edges of the graph
  verdict   \* "running" until the scan is over

vars == <<owed, handled, verdict>>

Init ==
  /\ owed = {}
  /\ handled = {}
  /\ verdict = "running"

\* Reading a document, or selecting more of its configurations.
Discover ==
  /\ verdict = "running"
  /\ owed \subseteq owed'
  /\ UNCHANGED <<handled, verdict>>

Handle ==
  /\ verdict = "running"
  /\ Cardinality(handled) < Limit
  /\ \E reference \in owed \ handled : handled' = handled \cup {reference}
  /\ UNCHANGED <<owed, verdict>>

Conclude ==
  /\ verdict = "running"
  /\ verdict' \in {"complete", "partial", "rejected"}
  /\ owed = handled \/ (Cardinality(handled) = Limit /\ verdict' = "rejected")
  /\ UNCHANGED <<owed, handled>>

Next == Discover \/ Handle \/ Conclude

Spec == Init /\ [][Next]_vars
=============================================================================
