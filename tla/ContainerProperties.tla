-------------------------- MODULE ContainerProperties --------------------------
(***************************************************************************)
(* What a scan of a container promises, whichever walker makes it.         *)
(***************************************************************************)
EXTENDS ContainerScan

RangesApart(r, s) == r[2] <= s[1] \/ s[2] <= r[1]

\* The reported uninterpreted ranges are exactly the bytes no walker
\* interpreted: no byte is in both and none in neither, however the accounted
\* ranges nest or overlap (RangeSet::complement).
BytesPartitioned ==
  Finished =>
    \A b \in 0 .. input.size - 1 :
      (\E gap \in Uninterpreted : InRange(b, gap))
        <=> ~\E r \in accounted : InRange(b, r)

\* What was decompressed so far stays under the limit on the total.
WithinBudget == decodedBytes <= MaxTotalBytes

\* The total of decompressed bytes stays under the limit in every container
\* although each walker spends the budget at other places, and it is the total
\* of the streams reported as decoded: a failed attempt costs nothing.
BudgetHolds ==
  /\ WithinBudget
  /\ decodedBytes =
       SumFunctionOnSet([i \in DOMAIN entries |-> entries[i].size],
                        {i \in DOMAIN entries : entries[i].state = "decoded"})

\* Frames of the modern container do not overlap, so no bytes are taken both as
\* a payload and as a frame of their own (the markers inside an accepted frame).
FramesApart ==
  phase = "modern" \/ (Finished /\ Probe = "modern") =>
    \A i, j \in DOMAIN entries :
      i < j => /\ RangesApart(entries[i].range, entries[j].range)
               /\ entries[i].range[2] <= entries[j].range[1]

Explained(o) ==
  \/ \E i \in DOMAIN entries : InRange(o, entries[i].range)
  \/ /\ ~IsCell(o) /\ ~IsDirectoryEntry(o)
     /\ BlockAttempt(o) = "implausible"

WholeModern ==
  \A o \in DOMAIN input.frames :
    o >= OuterHeader /\ o + MarkerLen <= input.size => Explained(o)

\* The entries tile the central directory the end record declares.
WholeZip ==
  \A b \in Directory.start .. CentralDirectoryEnd - 1 :
    \E i \in DOMAIN entries : InRange(b, <<entries[i].id, CentralEnd(entries[i].id)>>)

WholeOle2 == Inventoried = DOMAIN input.streams

\* A complete inventory is whole: every frame, directory entry or stream of the
\* file is in it and none is malformed; anything skipped or cut short shows in
\* the verdict (the status computations at the end of the walks).
CompleteIsWhole ==
  status = "complete" =>
    /\ \A i \in DOMAIN entries : entries[i].state # "malformed"
    /\ CASE Probe = "modern" -> WholeModern
         [] Probe = "zip" -> WholeZip
         [] Probe = "ole2" -> WholeOle2

\* A caller receives decoded bytes of exactly the wanted entries whose payload
\* was validated, whatever happened to the others and however the scan ends.
OnlyValidatedIsReleased ==
  /\ decoded = {id \in wanted : \E i \in DOMAIN entries :
                                  entries[i].id = id /\ entries[i].state = "decoded"}
  /\ decoded \subseteq stored
  /\ stored \subseteq wanted \cap Inventoried

=============================================================================
