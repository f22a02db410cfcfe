---------------------------- MODULE ContainerCommon ----------------------------
(***************************************************************************)
(* What the three container walkers of sldkit-container share (common.rs): *)
(* the accounting of input bytes, the budget of decompressed bytes, and    *)
(* the artifacts of one scan.  Modules ModernScan, ZipScan and Ole2Scan    *)
(* add a walker each, module ContainerScan composes them.                  *)
(*                                                                         *)
(* Byte positions are scaled down and payloads are only lengths.  Sums do  *)
(* not overflow: the input fits in memory.                                 *)
(***************************************************************************)
EXTENDS ByteRanges

CONSTANTS
  NONE,                  \* an absent optional value
  Inputs,                \* the files a scan may be given
  MaxFileSize, MaxTotalBytes, MaxRatio, MaxStreams, MaxNameBytes, MaxDepth \* ResourceLimits

VARIABLES
  input,           \* the file, with what its bytes decode to
  wanted,          \* ids of the entries whose payloads the caller wants
  phase,           \* which walker runs, "finished" when none
  cursor,          \* its position
  markers,         \* markers or declared bytes counted against a limit
  entries,         \* the inventory
  stored, decoded, \* ids of the entries whose payload was retained
  accounted,       \* byte ranges that were interpreted
  decodedBytes,    \* decompressed bytes of the accepted streams
  faults,          \* what went wrong so far
  status           \* verdict, NONE while running

vars == <<input, wanted, phase, cursor, markers, entries, stored, decoded, accounted,
          decodedBytes, faults, status>>

Fault == {"fatal", "malformed", "unsupported"}
EntryState == {"decoded", "metadata_only", "unsupported", "malformed"}
InventoryStatus == {"complete", "partial", "unsupported", "malformed", "rejected"}

ASSUME ContainerAssumption ==
  /\ MaxFileSize \in Nat /\ MaxTotalBytes \in Nat /\ MaxRatio \in Nat
  /\ MaxStreams \in Nat /\ MaxNameBytes \in Nat /\ MaxDepth \in Nat
  /\ NONE \notin Nat \cup Fault \cup InventoryStatus

Smaller(a, b) == IF a < b THEN a ELSE b
Larger(a, b) == IF a > b THEN a ELSE b

-----------------------------------------------------------------------------
(***************************************************************************)
(* Byte ranges.                                                            *)
(***************************************************************************)
Add(ranges, start, end) == IF start < end THEN ranges \cup {<<start, end>>} ELSE ranges

\* Mutant: a range that lies inside the last one shortens it.
MergeShort(merged, range, total) ==
  LET end == Smaller(range[2], total)
  IN IF range[1] >= end THEN merged ELSE JoinRangeShort(merged, <<range[1], end>>)

\* What lies beyond the end is cut off.
Merge(merged, range, total) ==
  LET end == Smaller(range[2], total)
  IN IF range[1] >= end THEN merged ELSE JoinRange(merged, <<range[1], end>>)

Merged(ranges, total) == FoldLeft(LAMBDA m, r : Merge(m, r, total), <<>>, Ascending(ranges))

\* The gaps before, between and after the merged ranges.
Complement(ranges, total) ==
  LET merged == Merged(ranges, total)
      from(i) == IF i = 0 THEN 0 ELSE merged[i][2]
      to(i) == IF i = Len(merged) THEN total ELSE merged[i + 1][1]
  IN {gap \in {<<from(i), to(i)>> : i \in 0 .. Len(merged)} : gap[1] < gap[2]}

-----------------------------------------------------------------------------
(***************************************************************************)
(* Decompression under the budget.  "actual" is the length the payload     *)
(* really inflates to, NONE when it is no valid stream.                    *)
(***************************************************************************)
\* Mutant: what was decoded before does not count.
InflateAlone(compressed, expected, actual, already) ==
  IF expected > MaxTotalBytes THEN "declared_size_limit"
  ELSE IF expected > 0 /\ expected > compressed * MaxRatio THEN "compression_ratio"
  ELSE IF actual = NONE THEN "io"
  ELSE IF actual # expected THEN "size_mismatch"
  ELSE "inflated"

Inflate(compressed, expected, actual, already) ==
  IF expected > Larger(MaxTotalBytes - already, 0) THEN "declared_size_limit"
  ELSE IF expected > 0 /\ (compressed = 0 \/ expected > compressed * MaxRatio)
  THEN "compression_ratio"
  ELSE IF actual = NONE THEN "io"
  ELSE IF Smaller(actual, expected + 1) # expected THEN "size_mismatch"
  ELSE "inflated"

LimitFailure == {"declared_size_limit", "compression_ratio"}

-----------------------------------------------------------------------------
(***************************************************************************)
(* Artifacts.                                                              *)
(***************************************************************************)
Entry(id, state, range, size) == [id |-> id, state |-> state, range |-> range, size |-> size]

Push(entry) == entries' = Append(entries, entry)

Keep(ids, id) == IF id \in wanted THEN ids \cup {id} ELSE ids

\* A decoded stream: inventoried, counted against the budget, retained when wanted.
Accept(id, range, size) ==
  /\ Push(Entry(id, "decoded", range, size))
  /\ decodedBytes' = decodedBytes + size
  /\ stored' = Keep(stored, id)
  /\ decoded' = Keep(decoded, id)

NothingDecoded == UNCHANGED <<decoded, decodedBytes>>
NothingRetained == UNCHANGED <<entries, stored, decoded, decodedBytes>>

Finish(verdict) == phase' = "finished" /\ status' = verdict
Going == UNCHANGED <<phase, status>>
=============================================================================
