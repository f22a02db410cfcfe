------------------------------- MODULE ByteRanges -------------------------------
(***************************************************************************)
(* Half-open ranges <<start, end>> of bytes and their order, in which both *)
(* the container walk and the geometry decoder merge what was read         *)
(* (sort_unstable on pairs).                                               *)
(***************************************************************************)
EXTENDS Integers, Sequences, FiniteSets, SequencesExt

InRange(b, r) == r[1] <= b /\ b < r[2]

Precedes(a, b) == a[1] < b[1] \/ (a[1] = b[1] /\ a[2] < b[2])

\* The range before which exactly i - 1 others come is the i-th.
Ascending(ranges) ==
  [i \in 1 .. Cardinality(ranges) |->
     CHOOSE r \in ranges : Cardinality({q \in ranges : Precedes(q, r)}) = i - 1]

\* Mutant: a range inside the last one shortens it.
JoinRangeShort(merged, range) ==
  IF merged # <<>> /\ range[1] <= Last(merged)[2]
  THEN Append(Front(merged), <<Last(merged)[1], range[2]>>)
  ELSE Append(merged, range)

\* One more range, in order of start, joins the last when it touches it.
JoinRange(merged, range) ==
  IF merged # <<>> /\ range[1] <= Last(merged)[2]
  THEN Append(Front(merged),
              <<Last(merged)[1],
                IF range[2] > Last(merged)[2] THEN range[2] ELSE Last(merged)[2]>>)
  ELSE Append(merged, range)
===============================================================================
