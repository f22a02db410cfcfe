---------------------------- MODULE ContainerProofs ----------------------------
(***************************************************************************)
(* Theorems about the container scan, for every input and every limit: the *)
(* budget of decompressed bytes is never exceeded, frames of the modern    *)
(* container never overlap, and only validated payloads are released.      *)
(***************************************************************************)
EXTENDS ContainerProperties, FoldTheorems, SequenceTheorems

Entries == [id: Nat, state: EntryState, range: Nat \X Nat, size: Nat]

Phases == {"probe", "modern", "zip", "zip_directory", "ole2", "ole2_streams", "finished"}

WellTyped ==
  /\ input \in Inputs
  /\ phase \in Phases
  /\ entries \in Seq(Entries)
  /\ decodedBytes \in Nat /\ markers \in Nat
  /\ phase \in {"probe", "modern"} => cursor \in Nat
  /\ phase = "ole2_streams" => cursor \in Nat \ {0}

\* A ZIP directory is paid for by declared sizes, which "markers" adds up.
Paid ==
  /\ WithinBudget
  /\ phase = "probe" => decodedBytes = 0
  /\ phase \in {"zip", "zip_directory"} => decodedBytes <= markers

InOrder == \A i, j \in DOMAIN entries : i < j => entries[i].range[2] <= entries[j].range[1]

\* Each walker runs on its own envelope; the modern one has left every frame
\* it took behind its position.
Ordered ==
  /\ phase = "probe" => entries = <<>>
  /\ phase = "modern" => /\ Probe = "modern"
                         /\ \A i \in DOMAIN entries : entries[i].range[2] <= cursor
  /\ phase \in {"zip", "zip_directory"} => Probe = "zip"
  /\ phase \in {"ole2", "ole2_streams"} => Probe = "ole2"
  /\ phase \in {"modern", "finished"} /\ Probe = "modern" => InOrder

-----------------------------------------------------------------------------
(***************************************************************************)
(* What the actions of all walkers are made of.                            *)
(***************************************************************************)
LEMMA InputTyped ==
  ASSUME WellTyped
  PROVE  /\ input.size \in Nat
         /\ DOMAIN input.frames \subseteq Nat
         /\ \A o \in DOMAIN input.frames : input.frames[o] \in Frame
         /\ DOMAIN input.records \subseteq Nat
         /\ \A o \in DOMAIN input.records : input.records[o] \in Record
         /\ input.streams \in Seq(Fact)
  BY InputAssumption DEF WellTyped

LEMMA EntryTyped ==
  ASSUME WellTyped, NEW i \in DOMAIN entries
  PROVE  entries[i].range[1] \in Nat /\ entries[i].range[2] \in Nat
<1>1. entries[i] \in Entries
  BY DEF WellTyped
<1>2. entries[i].range \in Nat \X Nat
  BY <1>1 DEF Entries
<1> QED
  BY <1>2

\* What inflates fits into what is left of the budget.
LEMMA InflatesWithinBudget ==
  ASSUME NEW compressed, NEW expected \in Nat, NEW actual,
         decodedBytes \in Nat, WithinBudget,
         Inflate(compressed, expected, actual, decodedBytes) = "inflated"
  PROVE  decodedBytes + expected <= MaxTotalBytes
<1>1. expected <= Larger(MaxTotalBytes - decodedBytes, 0)
  <2>1. Larger(MaxTotalBytes - decodedBytes, 0) \in Int
    BY ContainerAssumption DEF Larger
  <2> QED
    BY <2>1 DEF Inflate
<1> QED
  BY <1>1, ContainerAssumption DEF Larger, WithinBudget

LEMMA AcceptTyped ==
  ASSUME WellTyped, NEW id \in Nat, NEW range \in Nat \X Nat, NEW size \in Nat,
         Accept(id, range, size)
  PROVE  /\ entries' \in Seq(Entries) /\ decodedBytes' \in Nat
         /\ entries' = Append(entries, Entry(id, "decoded", range, size))
<1>1. Entry(id, "decoded", range, size) \in Entries
  BY DEF Entry, Entries, EntryState
<1> QED
  BY <1>1 DEF Accept, Push, WellTyped

LEMMA PushTyped ==
  ASSUME WellTyped, NEW id \in Nat, NEW state \in EntryState, NEW range \in Nat \X Nat,
         NEW size \in Nat, Push(Entry(id, state, range, size))
  PROVE  entries' \in Seq(Entries)
<1>1. Entry(id, state, range, size) \in Entries
  BY DEF Entry, Entries
<1> QED
  BY <1>1 DEF Push, WellTyped

-----------------------------------------------------------------------------
(***************************************************************************)
(* The modern walker.                                                      *)
(***************************************************************************)
LEMMA MarkerTyped ==
  ASSUME WellTyped, AtMarker
  PROVE  /\ cursor \in Nat /\ NextMarker \in Nat /\ NextMarker >= cursor
         /\ NextMarker + MarkerLen <= input.size
         /\ NextMarker \in DOMAIN input.frames /\ input.frames[NextMarker] \in Frame
         /\ \A c \in Candidates : NextMarker <= c
<1>1. Candidates # {} /\ Candidates \subseteq Nat
  BY InputTyped DEF AtMarker, HasMarker, Candidates
<1>2. \E o \in Candidates : \A c \in Candidates : o <= c
  BY <1>1, LeastIs
<1> QED
  BY <1>1, <1>2, InputTyped DEF NextMarker, Candidates, AtMarker, InModern, WellTyped

LEMMA FrameEnds ==
  ASSUME WellTyped, AtMarker
  PROVE  /\ NextMarker + FrameHeader \in Nat
         /\ BlockEnd(NextMarker) \in Nat /\ BlockEnd(NextMarker) > NextMarker
         /\ CellEnd(NextMarker) \in Nat /\ CellEnd(NextMarker) > NextMarker
         /\ DirectoryEnd(NextMarker) \in Nat /\ DirectoryEnd(NextMarker) > NextMarker
         /\ input.frames[NextMarker].expected \in Nat
  BY MarkerTyped, FrameAssumption DEF BlockEnd, CellEnd, DirectoryEnd, Frame

-----------------------------------------------------------------------------
(***************************************************************************)
(* Released payloads: what a step may do to them.                          *)
(***************************************************************************)
LEMMA QuietReleases ==
  ASSUME OnlyValidatedIsReleased, UNCHANGED wanted, NothingRetained
  PROVE  OnlyValidatedIsReleased'
  BY DEF OnlyValidatedIsReleased, Inventoried, NothingRetained

LEMMA AcceptReleases ==
  ASSUME WellTyped, OnlyValidatedIsReleased, UNCHANGED wanted,
         NEW id \in Nat, NEW range \in Nat \X Nat, NEW size \in Nat, Accept(id, range, size)
  PROVE  OnlyValidatedIsReleased'
<1> DEFINE e == Entry(id, "decoded", range, size)
<1>1. /\ entries \in Seq(Entries) /\ e \in Entries /\ e.id = id /\ e.state = "decoded"
      /\ entries' = Append(entries, e)
      /\ stored' = Keep(stored, id) /\ decoded' = Keep(decoded, id)
  BY DEF Accept, Push, WellTyped, Entry, Entries, EntryState
<1> HIDE DEF e
<1>2. /\ DOMAIN entries' = DOMAIN entries \cup {Len(entries) + 1}
      /\ \A i \in DOMAIN entries : entries'[i] = entries[i]
      /\ entries'[Len(entries) + 1] = e
  BY <1>1
<1>3. Inventoried' = Inventoried \cup {id}
  BY <1>1, <1>2 DEF Inventoried
<1>4. \A x : (\E i \in DOMAIN entries' : entries'[i].id = x /\ entries'[i].state = "decoded")
             <=> (x = id \/ \E i \in DOMAIN entries : entries[i].id = x /\ entries[i].state = "decoded")
  BY <1>1, <1>2
<1>5. decoded' = {x \in wanted' : \E i \in DOMAIN entries' :
                                    entries'[i].id = x /\ entries'[i].state = "decoded"}
  <2>1. CASE id \in wanted
    <3>1. decoded' = decoded \cup {id}
      BY <1>1, <2>1 DEF Keep
    <3> QED
      BY <1>4, <2>1, <3>1 DEF OnlyValidatedIsReleased
  <2>2. CASE id \notin wanted
    <3>1. decoded' = decoded
      BY <1>1, <2>2 DEF Keep
    <3> QED
      BY <1>4, <2>2, <3>1 DEF OnlyValidatedIsReleased
  <2> QED
    BY <2>1, <2>2
<1>6. decoded' \subseteq stored' /\ stored' \subseteq wanted' \cap Inventoried'
  BY <1>1, <1>3 DEF OnlyValidatedIsReleased, Keep
<1> QED
  BY <1>5, <1>6 DEF OnlyValidatedIsReleased

LEMMA PushReleases ==
  ASSUME WellTyped, OnlyValidatedIsReleased, UNCHANGED wanted, UNCHANGED decoded,
         NEW id \in Nat, NEW state \in EntryState \ {"decoded"}, NEW range \in Nat \X Nat,
         NEW size \in Nat, Push(Entry(id, state, range, size)),
         stored' \in {stored, Keep(stored, id)}
  PROVE  OnlyValidatedIsReleased'
<1> DEFINE e == Entry(id, state, range, size)
<1>1. /\ entries \in Seq(Entries) /\ e \in Entries /\ e.id = id /\ e.state # "decoded"
      /\ entries' = Append(entries, e)
  BY DEF Push, WellTyped, Entry, Entries
<1> HIDE DEF e
<1>2. /\ DOMAIN entries' = DOMAIN entries \cup {Len(entries) + 1}
      /\ \A i \in DOMAIN entries : entries'[i] = entries[i]
      /\ entries'[Len(entries) + 1] = e
  BY <1>1
<1>3. Inventoried' = Inventoried \cup {id}
  BY <1>1, <1>2 DEF Inventoried
<1>4. \A x : (\E i \in DOMAIN entries' : entries'[i].id = x /\ entries'[i].state = "decoded")
             <=> \E i \in DOMAIN entries : entries[i].id = x /\ entries[i].state = "decoded"
  BY <1>1, <1>2
<1>5. decoded' = {x \in wanted' : \E i \in DOMAIN entries' :
                                    entries'[i].id = x /\ entries'[i].state = "decoded"}
  BY <1>4 DEF OnlyValidatedIsReleased
<1>6. decoded' \subseteq stored' /\ stored' \subseteq wanted' \cap Inventoried'
  BY <1>3 DEF OnlyValidatedIsReleased, Keep
<1> QED
  BY <1>5, <1>6 DEF OnlyValidatedIsReleased

-----------------------------------------------------------------------------
(***************************************************************************)
(* Order of the frames: what a step may do to it.                          *)
(***************************************************************************)
LEMMA ProbeIsStable ==
  ASSUME UNCHANGED input
  PROVE  Probe' = Probe
  BY DEF Probe, MarkerInWindow

\* The walkers of the other envelopes.
LEMMA ElsewhereOrdered ==
  ASSUME Ordered, UNCHANGED input, phase \in {"zip", "zip_directory", "ole2", "ole2_streams"},
         phase \in {"zip", "zip_directory"} => phase' \in {"zip", "zip_directory", "finished"},
         phase \in {"ole2", "ole2_streams"} => phase' \in {"ole2", "ole2_streams", "finished"}
  PROVE  Ordered'
  BY ProbeIsStable DEF Ordered

\* A marker that yields nothing, or the end of the modern walk.
LEMMA QuietOrdered ==
  ASSUME WellTyped, Ordered, phase = "modern", UNCHANGED <<input, entries>>,
         phase' \in {"modern", "finished"}, cursor' \in Nat, cursor' >= cursor
  PROVE  Ordered'
<1>1. InOrder' /\ Probe' = "modern"
  BY ProbeIsStable DEF Ordered, InOrder
<1>2. ASSUME NEW i \in DOMAIN entries' PROVE entries'[i].range[2] <= cursor'
  <2>1. i \in DOMAIN entries /\ entries'[i] = entries[i]
    OBVIOUS
  <2>2. entries[i].range[2] \in Nat /\ cursor \in Nat
    BY <2>1, EntryTyped DEF WellTyped
  <2>3. entries[i].range[2] <= cursor
    BY <2>1 DEF Ordered
  <2> QED
    BY <2>1, <2>2, <2>3
<1> QED
  BY <1>1, <1>2 DEF Ordered

\* A frame is taken from the position on, and the position moves past it.
LEMMA TakeOrdered ==
  ASSUME WellTyped, Ordered, phase = "modern", UNCHANGED <<input, phase>>,
         NEW e \in Entries, entries' = Append(entries, e), cursor' \in Nat,
         cursor <= e.range[1], e.range[1] <= e.range[2], e.range[2] <= cursor'
  PROVE  Ordered'
<1>1. /\ entries \in Seq(Entries) /\ cursor \in Nat
      /\ e.range[1] \in Nat /\ e.range[2] \in Nat
  BY DEF WellTyped, Entries
<1>2. /\ DOMAIN entries' = DOMAIN entries \cup {Len(entries) + 1}
      /\ \A i \in DOMAIN entries : entries'[i] = entries[i]
      /\ entries'[Len(entries) + 1] = e
      /\ DOMAIN entries = 1 .. Len(entries) /\ Len(entries) \in Nat
  BY <1>1
<1>3. ASSUME NEW i \in DOMAIN entries
      PROVE  entries[i].range[2] \in Nat /\ entries[i].range[2] <= cursor
  BY EntryTyped DEF Ordered
<1>4. ASSUME NEW i \in DOMAIN entries' PROVE entries'[i].range[2] <= cursor'
  <2>1. CASE i \in DOMAIN entries
    BY <1>1, <1>2, <1>3, <2>1
  <2>2. CASE i = Len(entries) + 1
    BY <1>2, <2>2
  <2> QED
    BY <1>2, <2>1, <2>2
<1>5. ASSUME NEW i \in DOMAIN entries', NEW j \in DOMAIN entries', i < j
      PROVE  entries'[i].range[2] <= entries'[j].range[1]
  <2>1. CASE j \in DOMAIN entries
    <3>1. i \in DOMAIN entries
      BY <1>2, <1>5, <2>1
    <3> QED
      BY <1>2, <1>5, <2>1, <3>1 DEF Ordered, InOrder
  <2>2. CASE j = Len(entries) + 1
    <3>1. i \in DOMAIN entries
      BY <1>2, <1>5, <2>2
    <3> QED
      BY <1>1, <1>2, <1>3, <2>2, <3>1
  <2> QED
    BY <1>2, <2>1, <2>2
<1>6. Probe' = "modern"
  BY ProbeIsStable DEF Ordered
<1> QED
  BY <1>4, <1>5, <1>6 DEF Ordered, InOrder

-----------------------------------------------------------------------------
(***************************************************************************)
(* The inductive invariant, and the shapes its steps come in.              *)
(***************************************************************************)
Inv == WellTyped /\ Paid /\ Ordered /\ OnlyValidatedIsReleased

\* The phases of the ZIP and of the OLE2 walker, which never mix.
SameWalker(p, q) ==
  \/ p \in {"zip", "zip_directory"} /\ q \in {"zip", "zip_directory", "finished"}
  \/ p \in {"ole2", "ole2_streams"} /\ q \in {"ole2", "ole2_streams", "finished"}

LEMMA ModernQuiet ==
  ASSUME Inv, InModern, UNCHANGED <<input, wanted>>, NothingRetained, markers' \in Nat,
         phase' \in {"modern", "finished"}, cursor' \in Nat, cursor' >= cursor
  PROVE  Inv'
<1>1. WellTyped' /\ Paid'
  BY DEF Inv, WellTyped, Paid, WithinBudget, NothingRetained, Phases
<1>2. Ordered'
  BY QuietOrdered DEF Inv, InModern, NothingRetained
<1>3. OnlyValidatedIsReleased'
  BY QuietReleases DEF Inv
<1> QED
  BY <1>1, <1>2, <1>3 DEF Inv

LEMMA ElsewhereQuiet ==
  ASSUME Inv, SameWalker(phase, phase'), UNCHANGED <<input, wanted, markers>>, NothingRetained,
         phase' = "ole2_streams" => cursor' \in Nat \ {0}
  PROVE  Inv'
<1>1. WellTyped' /\ Paid'
  BY DEF Inv, WellTyped, Paid, WithinBudget, NothingRetained, Phases, SameWalker
<1>2. Ordered'
  BY ElsewhereOrdered DEF Inv, SameWalker
<1>3. OnlyValidatedIsReleased'
  BY QuietReleases DEF Inv
<1> QED
  BY <1>1, <1>2, <1>3 DEF Inv

LEMMA ElsewherePushed ==
  ASSUME Inv, SameWalker(phase, phase'), UNCHANGED <<input, wanted>>, NothingDecoded,
         phase' = "ole2_streams" => cursor' \in Nat \ {0},
         markers' \in Nat, markers' >= markers,
         NEW id \in Nat, NEW state \in EntryState \ {"decoded"}, NEW range \in Nat \X Nat,
         Push(Entry(id, state, range, 0)), stored' \in {stored, Keep(stored, id)}
  PROVE  Inv'
<1>1. entries' \in Seq(Entries)
  BY PushTyped DEF Inv
<1>2. WellTyped' /\ Paid'
  BY <1>1 DEF Inv, WellTyped, Paid, WithinBudget, NothingDecoded, Phases, SameWalker
<1>3. Ordered'
  BY ElsewhereOrdered DEF Inv, SameWalker
<1>4. OnlyValidatedIsReleased'
  BY PushReleases DEF Inv, NothingDecoded
<1> QED
  BY <1>2, <1>3, <1>4 DEF Inv

LEMMA ElsewhereAccepted ==
  ASSUME Inv, SameWalker(phase, phase'), UNCHANGED <<input, wanted>>, markers' \in Nat,
         phase' = "ole2_streams" => cursor' \in Nat \ {0},
         NEW id \in Nat, NEW range \in Nat \X Nat, NEW size \in Nat, Accept(id, range, size),
         decodedBytes + size <= MaxTotalBytes,
         phase \in {"zip", "zip_directory"} => decodedBytes + size <= markers'
  PROVE  Inv'
<1>1. entries' \in Seq(Entries) /\ decodedBytes' \in Nat /\ decodedBytes' = decodedBytes + size
  BY AcceptTyped DEF Inv, Accept
<1>2. WellTyped' /\ Paid'
  BY <1>1 DEF Inv, WellTyped, Paid, WithinBudget, Phases, SameWalker
<1>3. Ordered'
  BY ElsewhereOrdered DEF Inv, SameWalker
<1>4. OnlyValidatedIsReleased'
  BY AcceptReleases DEF Inv
<1> QED
  BY <1>2, <1>3, <1>4 DEF Inv

-----------------------------------------------------------------------------
(***************************************************************************)
(* Every step keeps the invariant.                                         *)
(***************************************************************************)
LEMMA DispatchKeeps ==
  ASSUME Inv, Dispatch
  PROVE  Inv'
<1>1. UNCHANGED <<input, wanted, cursor, markers>> /\ NothingRetained /\ phase = "probe"
  BY DEF Dispatch
<1>2. Probe' = Probe
  BY <1>1, ProbeIsStable
<1>3. \/ Probe \in Envelopes /\ phase' = Probe
      \/ Probe \notin Envelopes /\ phase' = "finished"
  BY DEF Dispatch, Finish
<1>4. WellTyped' /\ Paid'
  BY <1>1, <1>3 DEF Inv, WellTyped, Paid, WithinBudget, NothingRetained, Phases, Envelopes
<1>5. entries' = <<>> /\ InOrder' /\ \A i \in DOMAIN entries' : entries'[i].range[2] <= cursor'
  <2>1. entries' = <<>>
    BY <1>1 DEF Inv, Ordered, NothingRetained
  <2> QED
    BY <2>1 DEF InOrder
<1>6. Ordered'
  BY <1>2, <1>3, <1>5 DEF Ordered, Envelopes
<1>7. OnlyValidatedIsReleased'
  BY <1>1, QuietReleases DEF Inv
<1> QED
  BY <1>4, <1>6, <1>7 DEF Inv

\* A block is taken within the budget.
LEMMA TakeBlockKeeps ==
  ASSUME Inv, TakeBlock
  PROVE  Inv'
<1> DEFINE o == NextMarker
           range == <<o, BlockEnd(o)>>
           size == input.frames[o].expected
<1>1. /\ AtMarker /\ BlockAttempt(o) = "valid" /\ Accept(o, range, size)
      /\ markers' = markers + 1 /\ cursor' = Larger(BlockEnd(o), o + 1)
      /\ UNCHANGED <<input, wanted, phase>> /\ phase = "modern"
  BY DEF TakeBlock, CountMarker, Consume, Going, AtMarker, InModern
<1>2. WellTyped /\ Paid /\ Ordered /\ OnlyValidatedIsReleased
  BY DEF Inv
<1>3. /\ o \in Nat /\ o >= cursor /\ BlockEnd(o) \in Nat /\ BlockEnd(o) >= o
      /\ size \in Nat /\ range \in Nat \X Nat
  BY <1>1, <1>2, MarkerTyped, FrameEnds
<1>4. cursor' \in Nat /\ cursor' >= BlockEnd(o)
  BY <1>1, <1>3 DEF Larger
<1>5. Inflate(input.frames[o].compressed, size, input.frames[o].inflated, decodedBytes) = "inflated"
  BY <1>1 DEF BlockAttempt
<1>6. decodedBytes + size <= MaxTotalBytes
  BY <1>2, <1>3, <1>5, InflatesWithinBudget DEF WellTyped, Paid
<1> HIDE DEF o, range, size
<1>7. /\ entries' \in Seq(Entries) /\ decodedBytes' = decodedBytes + size
      /\ decodedBytes' \in Nat /\ entries' = Append(entries, Entry(o, "decoded", range, size))
  BY <1>1, <1>2, <1>3, AcceptTyped DEF Accept
<1>8. WellTyped' /\ Paid'
  BY <1>1, <1>2, <1>4, <1>6, <1>7 DEF WellTyped, Paid, WithinBudget
<1>9. Entry(o, "decoded", range, size) \in Entries
  BY <1>3 DEF Entry, Entries, EntryState
<1>10. /\ Entry(o, "decoded", range, size).range[1] = o
       /\ Entry(o, "decoded", range, size).range[2] = BlockEnd(o)
  BY DEF Entry, range
<1>11. cursor \in Nat
  BY <1>1, <1>2 DEF WellTyped
<1>12. Ordered'
  BY <1>1, <1>2, <1>3, <1>4, <1>7, <1>9, <1>10, TakeOrdered
<1>13. OnlyValidatedIsReleased'
  BY <1>1, <1>2, <1>3, AcceptReleases
<1> QED
  BY <1>8, <1>12, <1>13 DEF Inv

\* A cache cell or a directory entry is taken without a payload.
LEMMA TakeMetadataKeeps ==
  ASSUME Inv, TakeMetadata
  PROVE  Inv'
<1> DEFINE o == NextMarker
           end == IF IsCell(o) THEN CellEnd(o) ELSE DirectoryEnd(o)
           range == <<o, end>>
           e == Entry(o, "metadata_only", range, 0)
<1>1. /\ AtMarker /\ Push(e) /\ UNCHANGED stored /\ NothingDecoded
      /\ markers' = markers + 1 /\ cursor' = Larger(end, o + 1)
      /\ UNCHANGED <<input, wanted, phase>> /\ phase = "modern"
  BY DEF TakeMetadata, CountMarker, Consume, Going, AtMarker, InModern
<1>2. WellTyped /\ Paid /\ Ordered /\ OnlyValidatedIsReleased
  BY DEF Inv
<1>3. /\ o \in Nat /\ o >= cursor /\ end \in Nat /\ end >= o /\ range \in Nat \X Nat
  BY <1>1, <1>2, MarkerTyped, FrameEnds
<1>4. cursor' \in Nat /\ cursor' >= end
  BY <1>1, <1>3 DEF Larger
<1>5. e \in Entries /\ e.range[1] = o /\ e.range[2] = end
  BY <1>3 DEF Entry, Entries, EntryState
<1>6. entries' = Append(entries, e) /\ entries' \in Seq(Entries)
  BY <1>1, <1>2, <1>5 DEF Push, WellTyped
<1>7. OnlyValidatedIsReleased'
  <2>1. "metadata_only" \in EntryState \ {"decoded"}
    BY DEF EntryState
  <2> QED
    BY <1>1, <1>2, <1>3, <2>1, PushReleases DEF NothingDecoded
<1> HIDE DEF o, end, range, e
<1>8. WellTyped' /\ Paid'
  BY <1>1, <1>2, <1>4, <1>6 DEF WellTyped, Paid, WithinBudget, NothingDecoded
<1>9. Ordered'
  BY <1>1, <1>2, <1>3, <1>4, <1>5, <1>6, TakeOrdered
<1> QED
  BY <1>7, <1>8, <1>9 DEF Inv

LEMMA ModernKeeps ==
  ASSUME Inv, ModernNext
  PROVE  Inv'
<1>1. CASE ModernBegin
  <2>1. cursor' \in Nat /\ cursor' >= cursor /\ cursor \in Nat
    BY <1>1, FrameAssumption DEF ModernBegin, Inv, WellTyped, InModern
  <2> QED
    BY <1>1, <2>1, ModernQuiet DEF ModernBegin, Finish, Going, InModern, Inv, WellTyped
<1>2. CASE TooManyMarkers
  BY <1>2, ModernQuiet DEF TooManyMarkers, AtMarker, InModern, CountMarker, Stop, Finish, Inv, WellTyped
<1>3. CASE TruncatedFrame
  <2>1. AtMarker /\ cursor' = input.size
    BY <1>3 DEF TruncatedFrame
  <2>2. cursor' \in Nat /\ cursor' >= cursor
    BY <2>1, MarkerTyped, InputTyped, FrameAssumption DEF Inv
  <2> QED
    BY <1>3, <2>2, ModernQuiet DEF TruncatedFrame, AtMarker, InModern, CountMarker, Going, Inv, WellTyped
<1>4. CASE NameTooLong
  BY <1>4, ModernQuiet DEF NameTooLong, AtMarker, InModern, CountMarker, Stop, Finish, Inv, WellTyped
<1>5. CASE TakeBlock
  BY <1>5, TakeBlockKeeps
<1>6. CASE TakeMetadata
  BY <1>6, TakeMetadataKeeps
<1>7. CASE RejectMarker
  <2>1. AtMarker /\ cursor' = NextMarker + 1
    BY <1>7 DEF RejectMarker
  <2>2. cursor' \in Nat /\ cursor' >= cursor
    BY <2>1, MarkerTyped DEF Inv
  <2> QED
    BY <1>7, <2>2, ModernQuiet DEF RejectMarker, AtMarker, InModern, CountMarker, Going, Inv, WellTyped
<1>8. CASE BlockOverLimit
  BY <1>8, ModernQuiet DEF BlockOverLimit, AtMarker, InModern, CountMarker, Stop, Finish, Inv, WellTyped
<1>9. CASE ModernEnd
  BY <1>9, ModernQuiet DEF ModernEnd, InModern, Finish, Inv, WellTyped
<1> QED
  BY <1>1, <1>2, <1>3, <1>4, <1>5, <1>6, <1>7, <1>8, <1>9 DEF ModernNext

\* A ZIP entry is only read when the declared sizes up to it fit in the budget.
LEMMA EntryReads ==
  ASSUME Inv, ReadsEntry
  PROVE  /\ cursor \in DOMAIN input.records /\ input.records[cursor] \in Record
         /\ cursor \in Nat /\ markers' \in Nat
         /\ markers' = markers + input.records[cursor].uncompressed
         /\ markers' <= MaxTotalBytes
         /\ LocalRange(input.records[cursor]) \in Nat \X Nat
         /\ SameWalker(phase, phase') /\ phase' # "ole2_streams" /\ UNCHANGED <<input, wanted>>
<1>1. EntryFailure(cursor) = NONE /\ markers' = Declared(cursor)
  BY DEF ReadsEntry
<1>2. HeaderFailure(cursor) = NONE
  BY <1>1 DEF EntryFailure
<1>3. cursor \in DOMAIN input.records
  BY <1>2, ContainerAssumption DEF HeaderFailure, Fault
<1>4. /\ input.records[cursor] \in Record /\ cursor \in Nat /\ markers \in Nat
  BY <1>3, InputTyped DEF Inv, WellTyped
<1>5. Declared(cursor) \in Nat /\ markers' = markers + input.records[cursor].uncompressed
  BY <1>1, <1>4 DEF Declared, Record
<1>6. ~(Declared(cursor) > MaxTotalBytes)
  BY <1>1, <1>2, ContainerAssumption DEF EntryFailure, Fault
<1>7. LocalRange(input.records[cursor]) \in Nat \X Nat
  BY <1>4, ZipAssumption DEF LocalRange, FrameEnd, PayloadEnd, PayloadStart, Record
<1>8. SameWalker(phase, phase') /\ phase' # "ole2_streams" /\ UNCHANGED <<input, wanted>>
  BY DEF ReadsEntry, InDirectory, Going, SameWalker
<1> QED
  BY <1>1, <1>3, <1>4, <1>5, <1>6, <1>7, <1>8, ContainerAssumption

LEMMA ZipKeeps ==
  ASSUME Inv, ZipNext
  PROVE  Inv'
<1>1. CASE OpenDirectory
  BY <1>1, ElsewhereQuiet DEF OpenDirectory, InZip, Finish, SameWalker
<1>2. CASE FailEntry
  BY <1>2, ElsewhereQuiet DEF FailEntry, InDirectory, Close, Finish, SameWalker
<1>3. CASE ReadOpaque
  <2>1. ReadsEntry /\ Push(Entry(cursor, "unsupported", LocalRange(input.records[cursor]), 0))
    BY <1>3 DEF ReadOpaque
  <2>2. "unsupported" \in EntryState \ {"decoded"}
    BY DEF EntryState
  <2>3. markers' >= markers
    BY <2>1, EntryReads DEF Inv, WellTyped, Record
  <2> QED
    BY <1>3, <2>1, <2>2, <2>3, EntryReads, ElsewherePushed DEF ReadOpaque
<1>4. CASE ReadStored
  <2> DEFINE size == input.records[cursor].uncompressed
  <2>1. ReadsEntry /\ Accept(cursor, LocalRange(input.records[cursor]), size)
    BY <1>4 DEF ReadStored
  <2>2. /\ size \in Nat /\ markers' = markers + size /\ markers' <= MaxTotalBytes
        /\ decodedBytes \in Nat /\ markers \in Nat
    BY <2>1, EntryReads DEF Inv, WellTyped, Record
  <2>3. decodedBytes <= markers
    BY <2>1 DEF Inv, Paid, ReadsEntry, InDirectory
  <2>4. decodedBytes + size <= markers' /\ decodedBytes + size <= MaxTotalBytes
    BY <2>2, <2>3, ContainerAssumption
  <2> QED
    BY <2>1, <2>2, <2>4, EntryReads, ElsewhereAccepted
<1>5. CASE ReadMismatched
  <2>1. ReadsEntry /\ Push(Entry(cursor, "malformed", LocalRange(input.records[cursor]), 0))
    BY <1>5 DEF ReadMismatched
  <2>2. "malformed" \in EntryState \ {"decoded"}
    BY DEF EntryState
  <2>3. markers' >= markers
    BY <2>1, EntryReads DEF Inv, WellTyped, Record
  <2> QED
    BY <1>5, <2>1, <2>2, <2>3, EntryReads, ElsewherePushed DEF ReadMismatched
<1>6. CASE EndDirectory
  BY <1>6, ElsewhereQuiet DEF EndDirectory, InDirectory, Close, Finish, SameWalker
<1> QED
  BY <1>1, <1>2, <1>3, <1>4, <1>5, <1>6 DEF ZipNext

\* The stream the OLE2 walker stands at.
LEMMA FactTyped ==
  ASSUME Inv, AtFact
  PROVE  /\ cursor \in Nat \ {0} /\ CurrentFact \in Fact
         /\ CurrentFact.len \in Nat /\ CurrentFact.expected \in Nat
<1>1. cursor \in Nat \ {0} /\ cursor <= Len(input.streams)
  BY DEF Inv, WellTyped, AtFact, InStreams
<1>2. CurrentFact \in Fact
  BY <1>1, InputTyped DEF Inv, CurrentFact
<1> QED
  BY <1>1, <1>2 DEF Fact

LEMMA NextFactKeepsWalker ==
  ASSUME Inv, AtFact, NextFact
  PROVE  /\ SameWalker(phase, phase') /\ UNCHANGED <<input, wanted, markers>>
         /\ cursor' \in Nat \ {0} /\ markers' \in Nat /\ markers' >= markers
         /\ phase \notin {"zip", "zip_directory"}
<1>1. cursor \in Nat \ {0} /\ phase = "ole2_streams" /\ markers \in Nat
  BY FactTyped DEF AtFact, InStreams, Inv, WellTyped
<1> QED
  BY <1>1 DEF NextFact, Going, SameWalker

\* A stream inventoried without a payload, the walk going on or ending with it.
LEMMA InventoryOnlyKeeps ==
  ASSUME Inv, AtFact, SameWalker(phase, phase'), UNCHANGED <<input, wanted, markers>>,
         phase' = "ole2_streams" => cursor' \in Nat \ {0},
         NEW state \in EntryState \ {"decoded"}, InventoryOnly(state),
         stored' \in {stored, Keep(stored, cursor)}
  PROVE  Inv'
<1>1. cursor \in Nat /\ markers' \in Nat /\ markers' >= markers
  BY FactTyped DEF Inv, WellTyped
<1>2. <<0, 0>> \in Nat \X Nat
  OBVIOUS
<1> QED
  BY <1>1, <1>2, ElsewherePushed DEF InventoryOnly

LEMMA Ole2Keeps ==
  ASSUME Inv, Ole2Next
  PROVE  Inv'
<1>1. CASE OpenCompound
  BY <1>1, ElsewhereQuiet DEF OpenCompound, InOle2, Finish, SameWalker
<1>2. CASE ReadStorage
  <2>1. "metadata_only" \in EntryState \ {"decoded"}
    BY DEF EntryState
  <2> QED
    BY <1>2, <2>1, NextFactKeepsWalker, InventoryOnlyKeeps DEF ReadStorage
<1>3. CASE ReadBroken
  <2>1. "malformed" \in EntryState \ {"decoded"}
    BY DEF EntryState
  <2> QED
    BY <1>3, <2>1, NextFactKeepsWalker, InventoryOnlyKeeps DEF ReadBroken
<1>4. CASE ReadWrapped
  <2>1. AtFact /\ NextFact /\ Unwrap(CurrentFact) = "inflated"
        /\ Accept(cursor, <<0, 0>>, CurrentFact.expected)
    BY <1>4 DEF ReadWrapped, AtWrapped
  <2>2. CurrentFact.expected \in Nat /\ cursor \in Nat /\ decodedBytes \in Nat /\ WithinBudget
    BY <2>1, FactTyped DEF Inv, WellTyped, Paid
  <2>3. decodedBytes + CurrentFact.expected <= MaxTotalBytes
    <3>1. CASE CurrentFact.expected = 0
      BY <2>2, <3>1 DEF WithinBudget
    <3>2. CASE Inflate(CurrentFact.member, CurrentFact.expected, CurrentFact.inflated, decodedBytes)
                 = "inflated"
      BY <2>2, <3>2, InflatesWithinBudget
    <3> QED
      BY <2>1, <3>1, <3>2 DEF Unwrap
  <2>4. <<0, 0>> \in Nat \X Nat
    OBVIOUS
  <2> QED
    BY <2>1, <2>2, <2>3, <2>4, NextFactKeepsWalker, ElsewhereAccepted
<1>5. CASE RejectWrapped
  <2>1. "malformed" \in EntryState \ {"decoded"}
    BY DEF EntryState
  <2> QED
    BY <1>5, <2>1, NextFactKeepsWalker, InventoryOnlyKeeps DEF RejectWrapped, AtWrapped
<1>6. CASE WrappedOverLimit
  <2>1. "malformed" \in EntryState \ {"decoded"}
    BY DEF EntryState
  <2>2. AtFact /\ phase = "ole2_streams" /\ phase' = "finished"
    BY <1>6 DEF WrappedOverLimit, AtWrapped, AtFact, InStreams, CloseCompound, Finish
  <2> QED
    BY <1>6, <2>1, <2>2, InventoryOnlyKeeps DEF WrappedOverLimit, SameWalker
<1>7. CASE ReadPlain
  <2>1. AtFact /\ NextFact /\ Fits /\ Accept(cursor, <<0, 0>>, CurrentFact.len)
    BY <1>7 DEF ReadPlain, AtPlain
  <2>2. CurrentFact.len \in Nat /\ cursor \in Nat /\ decodedBytes \in Nat
        /\ decodedBytes <= MaxTotalBytes
    BY <2>1, FactTyped DEF Inv, WellTyped, Paid, WithinBudget
  <2>3. decodedBytes + CurrentFact.len <= MaxTotalBytes
    BY <2>1, <2>2, ContainerAssumption DEF Fits, Larger
  <2>4. <<0, 0>> \in Nat \X Nat
    OBVIOUS
  <2> QED
    BY <2>1, <2>2, <2>3, <2>4, NextFactKeepsWalker, ElsewhereAccepted
<1>8. CASE PlainOverLimit
  BY <1>8, ElsewhereQuiet
  DEF PlainOverLimit, AtPlain, AtFact, InStreams, CloseCompound, Finish, SameWalker
<1>9. CASE EndStreams
  BY <1>9, ElsewhereQuiet DEF EndStreams, InStreams, CloseCompound, Finish, SameWalker
<1> QED
  BY <1>1, <1>2, <1>3, <1>4, <1>5, <1>6, <1>7, <1>8, <1>9 DEF Ole2Next

-----------------------------------------------------------------------------
(***************************************************************************)
(* The theorems.                                                           *)
(***************************************************************************)
LEMMA InitInv ==
  ASSUME ContainerInit
  PROVE  Inv
<1>1. entries = <<>> /\ stored = {} /\ decoded = {} /\ phase = "probe"
  BY DEF ContainerInit
<1>2. WellTyped /\ Paid /\ Ordered
  BY ContainerAssumption DEF ContainerInit, WellTyped, Paid, WithinBudget, Ordered, Phases
<1>3. OnlyValidatedIsReleased
  BY <1>1 DEF OnlyValidatedIsReleased, Inventoried
<1> QED
  BY <1>2, <1>3 DEF Inv

LEMMA IdleKeeps ==
  ASSUME Inv, UNCHANGED vars
  PROVE  Inv'
<1> USE DEF vars
<1>1. WellTyped' /\ Paid'
  BY DEF Inv, WellTyped, Paid, WithinBudget
<1>2. Ordered'
  BY ProbeIsStable DEF Inv, Ordered, InOrder
<1>3. OnlyValidatedIsReleased'
  BY DEF Inv, OnlyValidatedIsReleased, Inventoried
<1> QED
  BY <1>1, <1>2, <1>3 DEF Inv

\* The strengthened invariant holds throughout every scan.
THEOREM ScanInvariant == ContainerSpec => []Inv
<1>1. ContainerInit => Inv
  BY InitInv
<1>2. Inv /\ [ContainerNext]_vars => Inv'
  BY DispatchKeeps, ModernKeeps, ZipKeeps, Ole2Keeps, IdleKeeps DEF ContainerNext
<1> QED
  BY <1>1, <1>2, PTL DEF ContainerSpec

\* No container makes a scan decompress more than max_total_uncompressed_bytes,
\* whatever its entries declare or inflate to (common.rs: inflate_exact, and the
\* checks of the ZIP and OLE2 walkers).
THEOREM BudgetNeverExceeded == ContainerSpec => []WithinBudget
<1>1. Inv => WithinBudget
  BY DEF Inv, Paid
<1> QED
  BY <1>1, ScanInvariant, PTL

LEMMA OrderedFramesApart ==
  ASSUME Inv
  PROVE  FramesApart
<1>1. SUFFICES ASSUME phase = "modern" \/ (Finished /\ Probe = "modern"),
                      NEW i \in DOMAIN entries, NEW j \in DOMAIN entries, i < j
               PROVE  entries[i].range[2] <= entries[j].range[1]
  BY DEF FramesApart, RangesApart
<1>2. InOrder
  BY <1>1 DEF Inv, Ordered, Finished
<1> QED
  BY <1>1, <1>2 DEF InOrder

\* Frames of the modern container never overlap, for every file: a marker in an
\* accepted frame is never read as a frame of its own (modern.rs: scan).
THEOREM FramesNeverOverlap == ContainerSpec => []FramesApart
  BY ScanInvariant, OrderedFramesApart, PTL

\* Decoded payloads are released for exactly the wanted entries that were
\* validated, in every container and at every point of its walk.
THEOREM ReleaseIsValidated == ContainerSpec => []OnlyValidatedIsReleased
<1>1. Inv => OnlyValidatedIsReleased
  BY DEF Inv
<1> QED
  BY <1>1, ScanInvariant, PTL

-----------------------------------------------------------------------------
(***************************************************************************)
(* A complete inventory: what the walk has established up to its position, *)
(* given the invariant above.                                              *)
(***************************************************************************)
Clean == faults \cap {"fatal", "malformed"} = {}

Sizes == [i \in DOMAIN entries |-> entries[i].size]
DecodedEntries == {i \in DOMAIN entries : entries[i].state = "decoded"}

\* What was decompressed is what the entries say was decoded.
Summed == decodedBytes = SumFunctionOnSet(Sizes, DecodedEntries)

\* A defect shows in the faults, and the faults in the verdict.
Sound == Clean => \A i \in DOMAIN entries : entries[i].state # "malformed"
Honest ==
  /\ faults \subseteq Fault /\ Sound
  /\ phase # "finished" => status = NONE
  /\ status = "complete" => Clean

\* The modern walker has accounted for every marker behind a position.
Seen(position) ==
  \A o \in DOMAIN input.frames :
    o >= OuterHeader /\ o + MarkerLen <= input.size /\ o < position => Explained(o)

\* The entries tile the directory up to a position.
Tiled(position) ==
  \A b \in Directory.start .. position - 1 :
    \E i \in DOMAIN entries : InRange(b, <<entries[i].id, CentralEnd(entries[i].id)>>)

WholeEnvelope ==
  /\ Probe \in Envelopes
  /\ Probe = "modern" => WholeModern
  /\ Probe = "zip" => WholeZip
  /\ Probe = "ole2" => WholeOle2

Whole ==
  /\ phase = "probe" => faults = {} /\ cursor = 0
  /\ phase \in {"probe", "zip", "ole2"} => entries = <<>>
  /\ phase = "modern" /\ Clean => Seen(cursor)
  /\ phase = "zip_directory" => cursor \in Nat /\ Directory.start \in Nat /\ Tiled(cursor)
  /\ phase = "ole2_streams" => /\ cursor <= Len(input.streams) + 1
                               /\ Inventoried = 1 .. cursor - 1
  /\ status = "complete" => WholeEnvelope

LEMMA Verdicts == "complete" # NONE /\ "malformed" # NONE /\ "fatal" # NONE /\ "unsupported" # NONE
  BY ContainerAssumption DEF Fault, InventoryStatus

\* An entry more.
LEMMA EntryAdded ==
  ASSUME WellTyped, WellTyped', NEW e, entries' = Append(entries, e)
  PROVE  /\ e \in Entries /\ Len(entries) \in Nat
         /\ DOMAIN entries = 1 .. Len(entries) /\ DOMAIN entries' = 1 .. Len(entries) + 1
         /\ \A i \in DOMAIN entries : i \in DOMAIN entries' /\ entries'[i] = entries[i]
         /\ Len(entries) + 1 \in DOMAIN entries' /\ entries'[Len(entries) + 1] = e
         /\ \A i \in DOMAIN entries' : i \in DOMAIN entries \/ i = Len(entries) + 1
<1>1. entries \in Seq(Entries) /\ entries' \in Seq(Entries)
  BY DEF WellTyped
<1>2. /\ Len(entries) \in Nat /\ DOMAIN entries = 1 .. Len(entries)
      /\ DOMAIN entries' = 1 .. Len(entries) + 1
      /\ entries'[Len(entries) + 1] = e /\ \A i \in 1 .. Len(entries) : entries'[i] = entries[i]
  BY <1>1
<1>3. e \in Entries
  <2>1. Len(entries) + 1 \in DOMAIN entries'
    BY <1>2
  <2> QED
    BY <1>1, <1>2, <2>1
<1> QED
  BY <1>2, <1>3

-----------------------------------------------------------------------------
(***************************************************************************)
(* The total of decompressed bytes.                                        *)
(***************************************************************************)
LEMMA SumStays ==
  ASSUME Summed, UNCHANGED <<entries, decodedBytes>>
  PROVE  Summed'
  BY DEF Summed, Sizes, DecodedEntries

LEMMA SumGrows ==
  ASSUME WellTyped, WellTyped', Summed, NEW e, entries' = Append(entries, e),
         decodedBytes' = decodedBytes + (IF e.state = "decoded" THEN e.size ELSE 0)
  PROVE  Summed'
<1> DEFINE n == Len(entries)
           S == DecodedEntries
           f == Sizes
           g == Sizes'
<1>1. /\ e \in Entries /\ n \in Nat /\ DOMAIN entries = 1 .. n
      /\ \A i \in DOMAIN entries : i \in DOMAIN entries' /\ entries'[i] = entries[i]
      /\ n + 1 \in DOMAIN entries' /\ entries'[n + 1] = e
      /\ \A i \in DOMAIN entries' : i \in DOMAIN entries \/ i = n + 1
  BY EntryAdded
<1>2. IsFiniteSet(S) /\ n + 1 \notin S
  <2>1. IsFiniteSet(1 .. n)
    <3>1. 1 \in Int /\ n \in Int
      BY <1>1
    <3> QED
      BY <3>1, FS_Interval
  <2>2. S \in SUBSET (1 .. n)
    BY <1>1 DEF DecodedEntries
  <2>3. n + 1 \notin 1 .. n
    BY <1>1
  <2> QED
    BY <2>1, <2>2, <2>3, FS_Subset
<1>3. \A i \in S : f[i] \in Nat /\ g[i] = f[i]
  <2> SUFFICES ASSUME NEW i \in S PROVE f[i] \in Nat /\ g[i] = f[i]
    OBVIOUS
  <2>1. i \in DOMAIN entries
    BY DEF DecodedEntries
  <2>2. entries[i] \in Entries
    BY <2>1 DEF WellTyped
  <2> QED
    BY <1>1, <2>1, <2>2 DEF Sizes, Entries
<1>4. g[n + 1] = e.size /\ e.size \in Nat
  BY <1>1 DEF Sizes, Entries
<1>5. DecodedEntries' = IF e.state = "decoded" THEN S \cup {n + 1} ELSE S
  BY <1>1 DEF DecodedEntries
<1>6. decodedBytes = SumFunctionOnSet(f, S) /\ decodedBytes \in Nat
  BY DEF Summed, WellTyped
<1> HIDE DEF S, f, g, n
<1>7. SumFunctionOnSet(g, S) = SumFunctionOnSet(f, S)
  BY <1>2, <1>3, SumsAgree
<1>8. CASE e.state = "decoded"
  <2> DEFINE T == S \cup {n + 1}
  <2>1. IsFiniteSet(T) /\ T \ {n + 1} = S /\ n + 1 \in T
    BY <1>2, FS_AddElement
  <2>2. \A i \in T : g[i] \in Nat
    BY <1>3, <1>4
  <2> HIDE DEF T
  <2>3. SumFunctionOnSet(g, T) = g[n + 1] + SumFunctionOnSet(g, T \ {n + 1})
    BY <2>1, <2>2, SumIs
  <2>4. SumFunctionOnSet(g, T) = decodedBytes + e.size
    <3>1. SumFunctionOnSet(g, T \ {n + 1}) = decodedBytes
      BY <1>6, <1>7, <2>1
    <3>2. SumFunctionOnSet(g, T) = e.size + decodedBytes
      BY <1>4, <2>3, <3>1
    <3> QED
      BY <1>4, <1>6, <3>2
  <2>5. DecodedEntries' = T
    BY <1>5, <1>8 DEF T
  <2> QED
    BY <1>8, <2>4, <2>5 DEF Summed, g
<1>9. CASE e.state # "decoded"
  <2>1. DecodedEntries' = S /\ decodedBytes' = decodedBytes
    BY <1>5, <1>6, <1>9
  <2> QED
    BY <1>6, <1>7, <2>1 DEF Summed, g
<1> QED
  BY <1>8, <1>9

LEMMA AcceptSums ==
  ASSUME Inv, Inv', Summed, NEW id, NEW range, NEW size, Accept(id, range, size)
  PROVE  Summed'
<1> DEFINE e == Entry(id, "decoded", range, size)
<1>1. e.state = "decoded" /\ e.size = size
  BY DEF Entry
<1>2. entries' = Append(entries, e) /\ decodedBytes' = decodedBytes + size
  BY DEF Accept, Push
<1> HIDE DEF e
<1> QED
  BY <1>1, <1>2, SumGrows DEF Inv

LEMMA PushSums ==
  ASSUME Inv, Inv', Summed, NothingDecoded,
         NEW id, NEW state, state # "decoded", NEW range, NEW size, Push(Entry(id, state, range, size))
  PROVE  Summed'
<1> DEFINE e == Entry(id, state, range, size)
<1>1. e.state # "decoded"
  BY DEF Entry
<1>2. entries' = Append(entries, e) /\ decodedBytes' = decodedBytes /\ decodedBytes \in Nat
  BY DEF Push, NothingDecoded, Inv, WellTyped
<1> HIDE DEF e
<1>3. decodedBytes' = decodedBytes + (IF e.state = "decoded" THEN e.size ELSE 0)
  BY <1>1, <1>2
<1> QED
  BY <1>2, <1>3, SumGrows DEF Inv

LEMMA StepSums ==
  ASSUME Inv, Inv', Summed, ContainerNext
  PROVE  Summed'
<1>1. CASE NothingRetained
  BY <1>1, SumStays DEF NothingRetained
<1>2. CASE TakeBlock \/ ReadStored \/ ReadWrapped \/ ReadPlain
  BY <1>2, AcceptSums DEF TakeBlock, ReadStored, ReadWrapped, ReadPlain
<1>3. CASE TakeMetadata
  BY <1>3, PushSums DEF TakeMetadata
<1>4. CASE ReadOpaque \/ ReadMismatched
  BY <1>4, PushSums DEF ReadOpaque, ReadMismatched
<1>5. CASE ReadStorage \/ ReadBroken \/ RejectWrapped \/ WrappedOverLimit
  BY <1>5, PushSums DEF ReadStorage, ReadBroken, RejectWrapped, WrappedOverLimit, InventoryOnly
<1>6. \/ NothingRetained \/ TakeBlock \/ ReadStored \/ ReadWrapped \/ ReadPlain \/ TakeMetadata
      \/ ReadOpaque \/ ReadMismatched
      \/ ReadStorage \/ ReadBroken \/ RejectWrapped \/ WrappedOverLimit
  <2>1. CASE Dispatch
    BY <2>1 DEF Dispatch
  <2>2. CASE ModernNext
    BY <2>2 DEF ModernNext, ModernBegin, TooManyMarkers, TruncatedFrame, NameTooLong, RejectMarker,
                BlockOverLimit, ModernEnd, Stop
  <2>3. CASE ZipNext
    BY <2>3 DEF ZipNext, OpenDirectory, FailEntry, EndDirectory
  <2>4. CASE Ole2Next
    BY <2>4 DEF Ole2Next, OpenCompound, PlainOverLimit, EndStreams
  <2> QED
    BY <2>1, <2>2, <2>3, <2>4 DEF ContainerNext
<1> QED
  BY <1>1, <1>2, <1>3, <1>4, <1>5, <1>6

-----------------------------------------------------------------------------
(***************************************************************************)
(* Ends that are not complete, and the start.                              *)
(***************************************************************************)
LEMMA EndsIncomplete ==
  ASSUME phase' = "finished", status' # "complete", faults' \subseteq Fault, Sound'
  PROVE  Honest' /\ Whole'
  BY DEF Honest, Whole

LEMMA DispatchWhole ==
  ASSUME Inv, Honest, Whole, Dispatch
  PROVE  Honest' /\ Whole'
<1>1. /\ phase = "probe" /\ UNCHANGED <<input, cursor, entries, faults>>
      /\ \/ Probe \in Envelopes /\ phase' = Probe /\ UNCHANGED status
         \/ Probe \notin Envelopes /\ phase' = "finished" /\ status' = Probe
  BY DEF Dispatch, NothingRetained, Finish
<1>2. entries = <<>> /\ faults = {} /\ cursor = 0 /\ status = NONE
  BY <1>1 DEF Whole, Honest
<1>3. Probe # "complete"
  BY DEF Probe, Envelopes
<1>4. Honest'
  BY <1>1, <1>2, <1>3, Verdicts DEF Honest, Sound, Envelopes, Clean
<1>5. Seen(cursor)'
  <2>1. ASSUME NEW o \in DOMAIN input.frames PROVE ~(o < 0)
    BY <2>1, InputTyped DEF Inv
  <2> QED
    BY <1>1, <1>2, <2>1 DEF Seen
<1>6. Whole'
  BY <1>1, <1>2, <1>3, <1>5, Verdicts DEF Whole, Envelopes
<1> QED
  BY <1>4, <1>6

-----------------------------------------------------------------------------
(***************************************************************************)
(* The modern walker.                                                      *)
(***************************************************************************)
\* Whether a marker is plainly no block does not depend on the budget left.
Implausible(o) ==
  /\ ~(o + FrameHeader + input.frames[o].name > input.size)
  /\ (input.frames[o].name > 0 /\ ~input.frames[o].readable) \/ input.frames[o].compressed = 0

LEMMA ImplausibleIs ==
  ASSUME NEW o
  PROVE  BlockAttempt(o) = "implausible" <=> Implausible(o)
  BY DEF BlockAttempt, Implausible

LEMMA ExplainedStays ==
  ASSUME NEW o, UNCHANGED input, Explained(o),
         \A i \in DOMAIN entries : i \in DOMAIN entries' /\ entries'[i] = entries[i]
  PROVE  Explained(o)'
<1>1. CASE \E i \in DOMAIN entries : InRange(o, entries[i].range)
  BY <1>1 DEF Explained, InRange
<1>2. CASE ~IsCell(o) /\ ~IsDirectoryEntry(o) /\ BlockAttempt(o) = "implausible"
  <2>1. Implausible(o)'
    BY <1>2, ImplausibleIs DEF Implausible
  <2>2. BlockAttempt(o)' = "implausible"
    <3>1. (BlockAttempt(o) = "implausible" <=> Implausible(o))'
      BY ImplausibleIs, PTL
    <3> QED
      BY <2>1, <3>1
  <2>3. ~IsCell(o)' /\ ~IsDirectoryEntry(o)'
    BY <1>2 DEF IsCell, IsDirectoryEntry, CellEnd, DirectoryEnd
  <2> QED
    BY <2>2, <2>3 DEF Explained
<1> QED
  BY <1>1, <1>2 DEF Explained

LEMMA SeenOn ==
  ASSUME WellTyped, Seen(cursor), UNCHANGED input, cursor \in Nat,
         \A i \in DOMAIN entries : i \in DOMAIN entries' /\ entries'[i] = entries[i],
         \A o \in Candidates : o < cursor' => Explained(o)'
  PROVE  Seen(cursor)'
<1> SUFFICES ASSUME NEW o \in DOMAIN input.frames, o >= OuterHeader,
                    o + MarkerLen <= input.size, o < cursor'
             PROVE  Explained(o)'
  BY DEF Seen
<1>1. o \in Nat
  BY InputTyped
<1>2. CASE o < cursor
  BY <1>2, ExplainedStays DEF Seen
<1>3. CASE o >= cursor
  BY <1>3 DEF Candidates
<1> QED
  BY <1>1, <1>2, <1>3

\* A frame taken at the next marker explains every marker up to its end.
LEMMA TakenSeen ==
  ASSUME Inv, Inv', AtMarker, Seen(cursor), UNCHANGED input,
         NEW state, NEW size, NEW end \in Nat, end > NextMarker, cursor' = Larger(end, NextMarker + 1),
         entries' = Append(entries, Entry(NextMarker, state, <<NextMarker, end>>, size))
  PROVE  Seen(cursor)'
<1> DEFINE nm == NextMarker
           e == Entry(nm, state, <<nm, end>>, size)
<1>1. e.range = <<nm, end>>
  BY DEF Entry
<1>2. nm \in Nat /\ cursor \in Nat /\ \A c \in Candidates : nm <= c
  BY MarkerTyped DEF Inv
<1>3. cursor' = end
  BY <1>2 DEF Larger
<1> HIDE DEF e, nm
<1>4. /\ \A i \in DOMAIN entries : i \in DOMAIN entries' /\ entries'[i] = entries[i]
      /\ Len(entries) + 1 \in DOMAIN entries' /\ entries'[Len(entries) + 1] = e
  BY EntryAdded DEF Inv, e, nm
<1>5. ASSUME NEW o \in Candidates, o < cursor' PROVE Explained(o)'
  <2>1. InRange(o, e.range)
    BY <1>1, <1>2, <1>3, <1>5 DEF InRange
  <2>2. \E i \in DOMAIN entries' : InRange(o, entries'[i].range)
    BY <1>4, <2>1
  <2> QED
    BY <2>2 DEF Explained, InRange
<1> QED
  BY <1>2, <1>4, <1>5, SeenOn DEF Inv

\* The modern walk goes on.
LEMMA ModernGoesOn ==
  ASSUME Inv, Inv', Honest, InModern, Going, faults' \subseteq Fault, Sound', Clean' => Seen(cursor)'
  PROVE  Honest' /\ Whole'
<1>1. phase' = "modern" /\ status' = NONE
  BY DEF Going, InModern, Honest
<1> QED
  BY <1>1, Verdicts DEF Honest, Whole

LEMMA ModernWhole ==
  ASSUME Inv, Inv', Honest, Whole, ModernNext
  PROVE  Honest' /\ Whole'
<1>1. InModern /\ phase = "modern" /\ cursor \in Nat /\ Probe = "modern" /\ status = NONE
      /\ faults \subseteq Fault /\ UNCHANGED input /\ Probe' = Probe
  <2>1. InModern /\ UNCHANGED input
    BY DEF ModernNext, ModernBegin, TooManyMarkers, TruncatedFrame, NameTooLong, TakeBlock, TakeMetadata,
           RejectMarker, BlockOverLimit, ModernEnd, AtMarker, Consume
  <2> QED
    BY <2>1, ProbeIsStable DEF InModern, Inv, WellTyped, Ordered, Honest
<1>2. ASSUME Stop("fatal") PROVE Honest' /\ Whole'
  <2>1. /\ faults' = faults \cup {"fatal"} /\ phase' = "finished" /\ UNCHANGED entries
        /\ status' = ModernVerdict(entries, faults')
    BY <1>2 DEF Stop, Finish, NothingRetained
  <2>2. status' = "rejected" /\ ~Clean' /\ faults' \subseteq Fault
    BY <1>1, <2>1 DEF ModernVerdict, Clean, Fault
  <2> QED
    BY <2>1, <2>2, EndsIncomplete DEF Sound
<1>3. CASE ModernBegin
  <2>1. entries' = entries /\ (Clean' => Clean) /\ faults' \subseteq Fault
    BY <1>1, <1>3 DEF ModernBegin, NothingRetained, Clean, Fault
  <2>2. Sound'
    BY <2>1 DEF Honest, Sound
  <2>3. CASE input.size < OuterHeader
    BY <1>3, <2>1, <2>2, <2>3, EndsIncomplete DEF ModernBegin, Finish
  <2>4. CASE ~(input.size < OuterHeader)
    <3>1. cursor' = OuterHeader /\ Going
      BY <1>3, <2>4 DEF ModernBegin
    <3>2. ASSUME NEW o \in DOMAIN input.frames PROVE ~(o >= OuterHeader /\ o < OuterHeader)
      BY FrameAssumption, InputTyped DEF Inv
    <3>3. Seen(cursor)'
      BY <1>1, <3>1, <3>2 DEF Seen
    <3> QED
      BY <1>1, <2>1, <2>2, <3>1, <3>3, ModernGoesOn
  <2> QED
    BY <2>3, <2>4
<1>4. CASE TooManyMarkers \/ NameTooLong \/ BlockOverLimit
  BY <1>2, <1>4 DEF TooManyMarkers, NameTooLong, BlockOverLimit
<1>5. CASE TruncatedFrame
  <2>1. faults' = faults \cup {"malformed"} /\ Going
    BY <1>5 DEF TruncatedFrame
  <2>2. ~Clean' /\ faults' \subseteq Fault
    BY <1>1, <2>1 DEF Clean, Fault
  <2> QED
    BY <1>1, <2>1, <2>2, ModernGoesOn DEF Sound
<1>6. ASSUME NEW state \in {"decoded", "metadata_only"}, NEW size, NEW end \in Nat, AtMarker,
             end > NextMarker, Consume(NextMarker, end),
             entries' = Append(entries, Entry(NextMarker, state, <<NextMarker, end>>, size))
      PROVE  Honest' /\ Whole'
  <2>1. Going /\ faults' = faults /\ cursor' = Larger(end, NextMarker + 1)
    BY <1>6 DEF Consume
  <2>2. Clean' => Seen(cursor)'
    BY <1>1, <1>6, <2>1, TakenSeen DEF Whole, Clean
  <2>3. Sound'
    <3> DEFINE e == Entry(NextMarker, state, <<NextMarker, end>>, size)
    <3>1. e.state # "malformed"
      BY <1>6 DEF Entry
    <3> HIDE DEF e
    <3>2. /\ \A i \in DOMAIN entries : i \in DOMAIN entries' /\ entries'[i] = entries[i]
          /\ entries'[Len(entries) + 1] = e
          /\ \A i \in DOMAIN entries' : i \in DOMAIN entries \/ i = Len(entries) + 1
      BY <1>6, EntryAdded DEF Inv, e
    <3> QED
      BY <2>1, <3>1, <3>2 DEF Sound, Honest, Clean
  <2> QED
    BY <1>1, <2>1, <2>2, <2>3, ModernGoesOn
<1>7. CASE TakeBlock
  <2>1. /\ AtMarker /\ Consume(NextMarker, BlockEnd(NextMarker))
        /\ entries' = Append(entries, Entry(NextMarker, "decoded", <<NextMarker, BlockEnd(NextMarker)>>,
                                            input.frames[NextMarker].expected))
    BY <1>7 DEF TakeBlock, Accept, Push
  <2>2. BlockEnd(NextMarker) \in Nat /\ BlockEnd(NextMarker) > NextMarker
    BY <2>1, FrameEnds DEF Inv
  <2> QED
    BY <1>6, <2>1, <2>2
<1>8. CASE TakeMetadata
  <2> DEFINE end == IF IsCell(NextMarker) THEN CellEnd(NextMarker) ELSE DirectoryEnd(NextMarker)
  <2>1. /\ AtMarker /\ Consume(NextMarker, end)
        /\ entries' = Append(entries, Entry(NextMarker, "metadata_only", <<NextMarker, end>>, 0))
    BY <1>8 DEF TakeMetadata, Push
  <2>2. end \in Nat /\ end > NextMarker
    BY <2>1, FrameEnds DEF Inv
  <2> HIDE DEF end
  <2> QED
    BY <1>6, <2>1, <2>2
<1>9. CASE RejectMarker
  <2>1. /\ AtMarker /\ NoFrame(NextMarker) /\ BlockAttempt(NextMarker) \in {"malformed", "implausible"}
        /\ faults' = IF BlockAttempt(NextMarker) = "malformed" THEN faults \cup {"malformed"} ELSE faults
        /\ cursor' = NextMarker + 1 /\ Going /\ UNCHANGED entries
    BY <1>9 DEF RejectMarker, NothingRetained
  <2>2. faults' \subseteq Fault /\ (Clean' => Clean /\ BlockAttempt(NextMarker) = "implausible")
    BY <1>1, <2>1 DEF Clean, Fault
  <2>3. Sound'
    BY <2>1, <2>2 DEF Honest, Sound
  <2>4. ASSUME Clean' PROVE Seen(cursor)'
    <3>1. NextMarker \in Nat /\ \A c \in Candidates : NextMarker <= c
      BY <2>1, MarkerTyped DEF Inv
    <3>2. ASSUME NEW o \in Candidates, o < cursor' PROVE o = NextMarker
      <4>1. o \in Nat
        BY InputTyped DEF Candidates, Inv
      <4> QED
        BY <2>1, <3>1, <3>2, <4>1
    <3>3. Explained(NextMarker)
      BY <2>1, <2>2, <2>4 DEF NoFrame, Explained
    <3>4. \A o \in Candidates : o < cursor' => Explained(o)
      BY <3>2, <3>3
    <3>5. \A o \in Candidates : o < cursor' => Explained(o)'
      BY <1>1, <2>1, <3>4, ExplainedStays
    <3> QED
      BY <1>1, <2>1, <2>2, <2>4, <3>5, SeenOn DEF Inv, Whole
  <2> QED
    BY <1>1, <2>1, <2>2, <2>3, <2>4, ModernGoesOn
<1>10. CASE ModernEnd
  <2>1. /\ ~HasMarker /\ phase' = "finished" /\ UNCHANGED <<faults, entries>>
        /\ status' = ModernVerdict(entries, faults)
    BY <1>10 DEF ModernEnd, Finish, NothingRetained
  <2>2. Sound' /\ faults' \subseteq Fault
    BY <1>1, <2>1 DEF Honest, Sound, Clean
  <2>3. ASSUME status' = "complete" PROVE Clean' /\ WholeModern'
    <3>1. Clean /\ Clean'
      BY <2>1, <2>3 DEF ModernVerdict, Clean
    <3>2. Seen(cursor) /\ Candidates = {}
      BY <1>1, <2>1, <3>1 DEF Whole, HasMarker
    <3>3. ASSUME NEW o \in DOMAIN input.frames, o >= OuterHeader, o + MarkerLen <= input.size
          PROVE  Explained(o)
      <4>1. o \in Nat /\ ~(o >= cursor)
        BY <3>2, <3>3, InputTyped DEF Candidates, Inv
      <4> QED
        BY <1>1, <3>2, <3>3, <4>1 DEF Seen
    <3>4. \A o : Explained(o) => Explained(o)'
      BY <1>1, <2>1, ExplainedStays
    <3> QED
      BY <1>1, <3>1, <3>3, <3>4 DEF WholeModern
  <2> QED
    BY <1>1, <2>1, <2>2, <2>3 DEF Honest, Whole, WholeEnvelope, Envelopes
<1> QED
  BY <1>3, <1>4, <1>5, <1>7, <1>8, <1>9, <1>10 DEF ModernNext

-----------------------------------------------------------------------------
(***************************************************************************)
(* The ZIP walker.                                                         *)
(***************************************************************************)
\* The end record that counts is one of those that were found.
LEMMA DirectoryTyped ==
  ASSUME Inv, EocdCandidates # {}
  PROVE  /\ Directory \in Eocd /\ Directory.start \in Nat /\ CentralDirectoryEnd \in Nat
         /\ EocdOffset \in Nat /\ EocdEnd(EocdOffset) \in Nat
<1> DEFINE Left == {input.size - o : o \in EocdCandidates}
<1>1. input.size \in Nat
  BY InputTyped DEF Inv
<1>2. /\ DOMAIN input.eocds \subseteq Nat
      /\ \A o \in DOMAIN input.eocds : input.eocds[o] \in Eocd
  BY InputAssumption DEF Inv, WellTyped
<1>3. ASSUME NEW o \in EocdCandidates PROVE o \in Nat /\ o \in DOMAIN input.eocds /\ o <= input.size
  <2>1. o \in Nat /\ o \in DOMAIN input.eocds /\ o + EocdLen <= input.size
    BY <1>2 DEF EocdCandidates
  <2> QED
    BY <1>1, <2>1, ZipAssumption
<1>4. Left \in SUBSET Nat /\ Left # {}
  BY <1>1, <1>3
<1>5. PICK n \in Left : \A m \in Left : n <= m
  BY <1>4, LeastIs
<1>6. PICK o \in EocdCandidates : n = input.size - o
  BY <1>5
<1>7. ASSUME NEW c \in EocdCandidates PROVE c <= o
  <2>1. input.size - o <= input.size - c
    BY <1>5, <1>6
  <2> QED
    BY <1>1, <1>3, <2>1
<1>8. EocdOffset \in EocdCandidates
  BY <1>6, <1>7 DEF EocdOffset
<1>9. Directory \in Eocd
  BY <1>2, <1>3, <1>8 DEF Directory
<1>10. EocdOffset \in Nat /\ EocdEnd(EocdOffset) \in Nat
  BY <1>2, <1>3, <1>8, ZipAssumption DEF EocdEnd, Eocd
<1> QED
  BY <1>9, <1>10 DEF Eocd, CentralDirectoryEnd

\* The walk of the directory goes on, an entry further.
LEMMA DirectoryGoesOn ==
  ASSUME Inv, Inv', Honest, Whole, ReadsEntry, faults' \subseteq Fault, Sound',
         NEW state, NEW range, NEW size, entries' = Append(entries, Entry(cursor, state, range, size))
  PROVE  Honest' /\ Whole'
<1> DEFINE e == Entry(cursor, state, range, size)
<1>1. e.id = cursor
  BY DEF Entry
<1> HIDE DEF e
<1>2. /\ \A i \in DOMAIN entries : i \in DOMAIN entries' /\ entries'[i] = entries[i]
      /\ Len(entries) + 1 \in DOMAIN entries' /\ entries'[Len(entries) + 1] = e
  BY EntryAdded DEF Inv, e
<1>3. /\ phase = "zip_directory" /\ phase' = "zip_directory" /\ status = NONE /\ status' = NONE
      /\ cursor' = CentralEnd(cursor) /\ UNCHANGED input
  BY DEF ReadsEntry, InDirectory, Going, Honest
<1>4. Directory' = Directory /\ \A o : CentralEnd(o)' = CentralEnd(o)
  BY <1>3 DEF Directory, EocdOffset, EocdCandidates, EocdEnd, CentralEnd
<1>5. cursor \in Nat /\ Directory.start \in Nat /\ Tiled(cursor)
  BY <1>3 DEF Whole
<1>6. CentralEnd(cursor) \in Nat
  <2>1. cursor \in Nat /\ input.records[cursor] \in Record
    BY EntryReads
  <2>2. input.records[cursor].name \in Nat /\ input.records[cursor].tail \in Nat
    BY <2>1 DEF Record
  <2> QED
    BY <2>1, <2>2, ZipAssumption DEF CentralEnd
<1>7. ASSUME NEW b \in Directory.start .. CentralEnd(cursor) - 1
      PROVE  \E i \in DOMAIN entries' : InRange(b, <<entries'[i].id, CentralEnd(entries'[i].id)>>)
  <2>1. CASE b < cursor
    <3>1. PICK i \in DOMAIN entries : InRange(b, <<entries[i].id, CentralEnd(entries[i].id)>>)
      BY <1>5, <2>1 DEF Tiled
    <3> QED
      BY <1>2, <3>1
  <2>2. CASE ~(b < cursor)
    <3>1. InRange(b, <<cursor, CentralEnd(cursor)>>)
      BY <1>5, <1>6, <2>2 DEF InRange
    <3> QED
      BY <1>1, <1>2, <3>1
  <2> QED
    BY <2>1, <2>2
<1>8. Tiled(cursor)'
  BY <1>3, <1>4, <1>7 DEF Tiled, InRange, CentralEnd
<1> QED
  BY <1>3, <1>4, <1>5, <1>6, <1>8, Verdicts DEF Honest, Whole

LEMMA ZipWhole ==
  ASSUME Inv, Inv', Honest, Whole, ZipNext
  PROVE  Honest' /\ Whole'
<1>1. UNCHANGED input /\ Probe = "zip" /\ Probe' = "zip" /\ status = NONE /\ faults \subseteq Fault
      /\ phase \in {"zip", "zip_directory"}
  <2>1. UNCHANGED input /\ phase \in {"zip", "zip_directory"}
    BY DEF ZipNext, OpenDirectory, FailEntry, ReadOpaque, ReadStored, ReadMismatched, EndDirectory,
           ReadsEntry, InZip, InDirectory
  <2> QED
    BY <2>1, ProbeIsStable DEF Inv, Ordered, Honest
<1>2. CASE OpenDirectory
  <2>1. UNCHANGED <<entries, faults>> /\ entries = <<>>
    BY <1>2 DEF OpenDirectory, NothingRetained, InZip, Whole
  <2>2. Sound'
    BY <2>1 DEF Sound
  <2>3. CASE DirectoryVerdict = "readable"
    <3>1. phase' = "zip_directory" /\ cursor' = Directory.start /\ status' = status
      BY <1>2, <2>3 DEF OpenDirectory
    <3>2. Directory.start \in Nat
      BY <2>3, DirectoryTyped DEF DirectoryVerdict
    <3>3. Directory' = Directory
      BY <1>1 DEF Directory, EocdOffset, EocdCandidates, EocdEnd
    <3>4. Directory.start .. Directory.start - 1 = {}
      BY <3>2
    <3>5. Tiled(cursor)'
      BY <3>1, <3>3, <3>4 DEF Tiled
    <3> QED
      BY <1>1, <2>1, <2>2, <3>1, <3>2, <3>3, <3>5, Verdicts DEF Honest, Whole
  <2>4. CASE DirectoryVerdict # "readable"
    <3>1. phase' = "finished" /\ status' = DirectoryVerdict
      BY <1>2, <2>4 DEF OpenDirectory, Finish
    <3>2. DirectoryVerdict # "complete"
      BY DEF DirectoryVerdict
    <3> QED
      BY <1>1, <2>1, <2>2, <3>1, <3>2, EndsIncomplete
  <2> QED
    BY <2>3, <2>4
<1>3. CASE FailEntry
  <2> DEFINE failure == EntryFailure(cursor)
  <2>1. failure \in Fault
    BY <1>3 DEF FailEntry, EntryFailure, HeaderFailure, Fault
  <2>2. /\ phase' = "finished" /\ status' = ZipVerdict(entries, faults') /\ UNCHANGED entries
        /\ faults' = IF MissedEnd(cursor, faults \cup {failure})
                     THEN (faults \cup {failure}) \cup {"malformed"} ELSE faults \cup {failure}
    BY <1>3 DEF FailEntry, Close, Finish, NothingRetained
  <2> HIDE DEF failure
  <2>3. faults' \subseteq Fault /\ failure \in faults' /\ (Clean' => Clean)
    BY <1>1, <2>1, <2>2 DEF Fault, Clean
  <2>4. status' # "complete"
    BY <2>1, <2>2, <2>3 DEF ZipVerdict, Fault
  <2>5. Sound'
    BY <2>2, <2>3 DEF Honest, Sound
  <2> QED
    BY <2>2, <2>3, <2>4, <2>5, EndsIncomplete
<1>4. ASSUME ReadsEntry, NEW state \in {"unsupported", "decoded"}, NEW range, NEW size, UNCHANGED faults,
             entries' = Append(entries, Entry(cursor, state, range, size))
      PROVE  Honest' /\ Whole'
  <2> DEFINE e == Entry(cursor, state, range, size)
  <2>1. e.state # "malformed"
    BY <1>4 DEF Entry
  <2> HIDE DEF e
  <2>2. /\ \A i \in DOMAIN entries : i \in DOMAIN entries' /\ entries'[i] = entries[i]
        /\ entries'[Len(entries) + 1] = e
        /\ \A i \in DOMAIN entries' : i \in DOMAIN entries \/ i = Len(entries) + 1
    BY <1>4, EntryAdded DEF Inv, e
  <2>3. Sound'
    BY <1>4, <2>1, <2>2 DEF Sound, Honest, Clean
  <2> QED
    BY <1>1, <1>4, <2>3, DirectoryGoesOn
<1>5. CASE ReadOpaque
  BY <1>4, <1>5 DEF ReadOpaque, Push
<1>6. CASE ReadStored
  BY <1>4, <1>6 DEF ReadStored, Accept, Push
<1>7. CASE ReadMismatched
  <2>1. /\ ReadsEntry /\ faults' = faults \cup {"malformed"}
        /\ entries' = Append(entries, Entry(cursor, "malformed", LocalRange(input.records[cursor]), 0))
    BY <1>7 DEF ReadMismatched, Push
  <2>2. faults' \subseteq Fault /\ Sound'
    BY <1>1, <2>1 DEF Fault, Sound, Clean
  <2> QED
    BY <2>1, <2>2, DirectoryGoesOn
<1>8. CASE EndDirectory
  <2>1. /\ phase = "zip_directory" /\ phase' = "finished" /\ status' = ZipVerdict(entries, faults')
        /\ UNCHANGED entries
        /\ faults' = IF MissedEnd(cursor, faults) THEN faults \cup {"malformed"} ELSE faults
    BY <1>8 DEF EndDirectory, Close, Finish, NothingRetained, InDirectory
  <2>2. faults' \subseteq Fault /\ (Clean' => Clean)
    BY <1>1, <2>1 DEF Fault, Clean
  <2>3. Sound'
    BY <2>1, <2>2 DEF Honest, Sound
  <2>4. ASSUME status' = "complete" PROVE Clean' /\ WholeZip'
    <3>1. Clean' /\ ~MissedEnd(cursor, faults) /\ "fatal" \notin faults
      BY <2>1, <2>4 DEF ZipVerdict, Clean
    <3>2. cursor = CentralDirectoryEnd
      BY <3>1 DEF MissedEnd
    <3>3. Tiled(CentralDirectoryEnd)
      BY <2>1, <3>2 DEF Whole
    <3>4. Directory' = Directory /\ CentralDirectoryEnd' = CentralDirectoryEnd
          /\ \A o : CentralEnd(o)' = CentralEnd(o)
      BY <1>1 DEF Directory, EocdOffset, EocdCandidates, EocdEnd, CentralEnd, CentralDirectoryEnd
    <3>5. \A i : CentralEnd(entries[i].id)' = CentralEnd(entries[i].id)
      BY <1>1, <2>1 DEF CentralEnd
    <3> QED
      BY <2>1, <3>1, <3>3, <3>4, <3>5 DEF WholeZip, Tiled, InRange
  <2> QED
    BY <1>1, <2>1, <2>2, <2>3, <2>4 DEF Honest, Whole, WholeEnvelope, Envelopes
<1> QED
  BY <1>2, <1>3, <1>5, <1>6, <1>7, <1>8 DEF ZipNext

-----------------------------------------------------------------------------
(***************************************************************************)
(* The OLE2 walker.                                                        *)
(***************************************************************************)
\* One stream or storage is inventoried and the walk goes on to the next.
LEMMA StreamsGoOn ==
  ASSUME Inv, Inv', Honest, Whole, AtFact, NextFact, faults' \subseteq Fault,
         NEW state, NEW range, NEW size, entries' = Append(entries, Entry(cursor, state, range, size)),
         state = "malformed" => "malformed" \in faults', faults \subseteq faults'
  PROVE  Honest' /\ Whole'
<1> DEFINE e == Entry(cursor, state, range, size)
<1>1. e.id = cursor /\ e.state = state
  BY DEF Entry
<1> HIDE DEF e
<1>2. /\ \A i \in DOMAIN entries : i \in DOMAIN entries' /\ entries'[i] = entries[i]
      /\ Len(entries) + 1 \in DOMAIN entries' /\ entries'[Len(entries) + 1] = e
      /\ \A i \in DOMAIN entries' : i \in DOMAIN entries \/ i = Len(entries) + 1
  BY EntryAdded DEF Inv, e
<1>3. /\ phase = "ole2_streams" /\ phase' = "ole2_streams" /\ status = NONE /\ status' = NONE
      /\ cursor' = cursor + 1 /\ UNCHANGED input /\ cursor <= Len(input.streams)
  BY DEF AtFact, NextFact, InStreams, Going, Honest
<1>4. cursor \in Nat \ {0} /\ Len(input.streams) \in Nat
  BY FactTyped, InputTyped DEF Inv
<1>5. Inventoried = 1 .. cursor - 1
  BY <1>3 DEF Whole
<1>6. Inventoried' = Inventoried \cup {cursor}
  BY <1>1, <1>2 DEF Inventoried
<1>7. Inventoried' = 1 .. cursor' - 1
  <2>1. (1 .. cursor - 1) \cup {cursor} = 1 .. cursor
    BY <1>4
  <2>2. cursor' - 1 = cursor
    BY <1>3, <1>4
  <2> QED
    BY <1>5, <1>6, <2>1, <2>2
<1>8. Sound'
  BY <1>1, <1>2 DEF Honest, Sound, Clean
<1> QED
  BY <1>3, <1>4, <1>7, <1>8, Verdicts DEF Honest, Whole

LEMMA Ole2Whole ==
  ASSUME Inv, Inv', Honest, Whole, Ole2Next
  PROVE  Honest' /\ Whole'
<1>1. UNCHANGED input /\ Probe = "ole2" /\ Probe' = "ole2" /\ status = NONE /\ faults \subseteq Fault
      /\ phase \in {"ole2", "ole2_streams"}
  <2>1. UNCHANGED input /\ phase \in {"ole2", "ole2_streams"}
    BY DEF Ole2Next, OpenCompound, ReadStorage, ReadBroken, ReadWrapped, RejectWrapped, WrappedOverLimit,
           ReadPlain, PlainOverLimit, EndStreams, AtWrapped, AtPlain, AtFact, NextFact, InOle2, InStreams
  <2> QED
    BY <2>1, ProbeIsStable DEF Inv, Ordered, Honest
<1>2. CASE OpenCompound
  <2>1. UNCHANGED <<entries, faults>> /\ entries = <<>>
    BY <1>2 DEF OpenCompound, NothingRetained, InOle2, Whole
  <2>2. Sound'
    BY <2>1 DEF Sound
  <2>3. CASE CompoundVerdict = "sound"
    <3>1. phase' = "ole2_streams" /\ cursor' = 1 /\ status' = status
      BY <1>2, <2>3 DEF OpenCompound
    <3>2. Len(input.streams) \in Nat
      BY InputTyped DEF Inv
    <3>3. Inventoried' = {} /\ 1 .. cursor' - 1 = {} /\ cursor' <= Len(input.streams) + 1
      BY <2>1, <3>1, <3>2 DEF Inventoried
    <3> QED
      BY <1>1, <2>1, <2>2, <3>1, <3>3, Verdicts DEF Honest, Whole
  <2>4. CASE CompoundVerdict # "sound"
    <3>1. phase' = "finished" /\ status' = CompoundVerdict
      BY <1>2, <2>4 DEF OpenCompound, Finish
    <3>2. CompoundVerdict # "complete"
      BY DEF CompoundVerdict, Preflight
    <3> QED
      BY <1>1, <2>1, <2>2, <3>1, <3>2, EndsIncomplete
  <2> QED
    BY <2>3, <2>4
<1>3. CASE ReadStorage
  BY <1>1, <1>3, StreamsGoOn DEF ReadStorage, InventoryOnly, Push
<1>4. CASE ReadWrapped \/ ReadPlain
  BY <1>1, <1>4, StreamsGoOn DEF ReadWrapped, ReadPlain, AtWrapped, AtPlain, Accept, Push
<1>5. CASE ReadBroken \/ RejectWrapped
  <2>1. /\ AtFact /\ NextFact /\ faults' = faults \cup {"malformed"}
        /\ entries' = Append(entries, Entry(cursor, "malformed", <<0, 0>>, 0))
    BY <1>5 DEF ReadBroken, RejectWrapped, AtWrapped, InventoryOnly, Push
  <2>2. faults' \subseteq Fault /\ "malformed" \in faults' /\ faults \subseteq faults'
    BY <1>1, <2>1 DEF Fault
  <2> QED
    BY <2>1, <2>2, StreamsGoOn
<1>6. CASE WrappedOverLimit \/ PlainOverLimit
  <2>1. faults' = faults \cup {"fatal"} /\ phase' = "finished" /\ status' = Ole2Verdict(faults \cup {"fatal"})
    BY <1>6 DEF WrappedOverLimit, PlainOverLimit, CloseCompound, Finish
  <2>2. faults' \subseteq Fault /\ ~Clean' /\ status' # "complete"
    BY <1>1, <2>1 DEF Fault, Clean, Ole2Verdict
  <2> QED
    BY <2>1, <2>2, EndsIncomplete DEF Sound
<1>7. CASE EndStreams
  <2>1. /\ phase = "ole2_streams" /\ cursor > Len(input.streams) /\ phase' = "finished"
        /\ faults' = faults /\ UNCHANGED entries /\ status' = Ole2Verdict(faults)
    BY <1>7 DEF EndStreams, InStreams, CloseCompound, Finish, NothingRetained
  <2>2. Sound'
    BY <2>1 DEF Honest, Sound, Clean
  <2>3. WholeOle2'
    <3>1. cursor \in Nat /\ Len(input.streams) \in Nat /\ input.streams \in Seq(Fact)
      BY <2>1, InputTyped DEF Inv, WellTyped
    <3>2. cursor - 1 = Len(input.streams) /\ Inventoried = 1 .. cursor - 1
      BY <2>1, <3>1 DEF Whole
    <3>3. Inventoried' = Inventoried
      BY <2>1 DEF Inventoried
    <3> QED
      BY <1>1, <3>1, <3>2, <3>3 DEF WholeOle2
  <2>4. status' = "complete" => Clean'
    BY <2>1 DEF Ole2Verdict, Clean
  <2> QED
    BY <1>1, <2>1, <2>2, <2>3, <2>4 DEF Honest, Whole, WholeEnvelope, Envelopes
<1> QED
  BY <1>2, <1>3, <1>4, <1>5, <1>6, <1>7 DEF Ole2Next

-----------------------------------------------------------------------------
Books == Summed /\ Honest /\ Whole

LEMMA InitBooks ==
  ASSUME ContainerInit
  PROVE  Books
<1>1. /\ entries = <<>> /\ faults = {} /\ phase = "probe" /\ cursor = 0 /\ status = NONE /\ decodedBytes = 0
  BY DEF ContainerInit
<1>2. Honest /\ Whole
  BY <1>1, Verdicts DEF Honest, Sound, Whole
<1>3. Summed
  <2>1. DecodedEntries = {} /\ IsFiniteSet({}) /\ \A i \in {} : Sizes[i] \in Nat
    BY <1>1, FS_EmptySet DEF DecodedEntries
  <2>2. SumFunctionOnSet(Sizes, {}) = 0
    BY <2>1, SumIs
  <2> QED
    BY <1>1, <2>1, <2>2 DEF Summed
<1> QED
  BY <1>2, <1>3 DEF Books

LEMMA IdleBooks ==
  ASSUME Books, UNCHANGED vars
  PROVE  Books'
<1> USE DEF vars
<1>1. Summed'
  BY SumStays DEF Books
<1>2. Honest'
  BY DEF Books, Honest, Sound, Clean
<1>3. Whole'
  <2>1. Probe' = Probe /\ Inventoried' = Inventoried /\ Directory' = Directory
        /\ CentralDirectoryEnd' = CentralDirectoryEnd
    BY ProbeIsStable
    DEF Inventoried, Directory, EocdOffset, EocdCandidates, EocdEnd, CentralDirectoryEnd
  <2>2. \A o : Explained(o) => Explained(o)'
    BY ExplainedStays
  <2>3. Seen(cursor) => Seen(cursor)'
    BY <2>2 DEF Seen
  <2>4. Tiled(cursor) => Tiled(cursor)'
    BY <2>1 DEF Tiled, InRange, CentralEnd
  <2>5. WholeModern => WholeModern'
    BY <2>2 DEF WholeModern
  <2>6. WholeZip => WholeZip'
    BY <2>1 DEF WholeZip, InRange, CentralEnd
  <2>7. WholeOle2 => WholeOle2'
    BY <2>1 DEF WholeOle2
  <2> QED
    BY <2>1, <2>3, <2>4, <2>5, <2>6, <2>7 DEF Books, Whole, WholeEnvelope, Clean
<1> QED
  BY <1>1, <1>2, <1>3 DEF Books

\* The books of every scan: the decompressed total, the faults behind every
\* malformed entry, and what the walk has established up to its position.
THEOREM BooksAreKept == ContainerSpec => []Books
<1>1. ContainerInit => Books
  BY InitBooks
<1>2. Inv /\ Inv' /\ Books /\ [ContainerNext]_vars => Books'
  BY StepSums, DispatchWhole, ModernWhole, ZipWhole, Ole2Whole, IdleBooks DEF ContainerNext, Books
<1> QED
  BY <1>1, <1>2, ScanInvariant, PTL DEF ContainerSpec

\* The decompressed total stays within max_total_uncompressed_bytes and is the
\* sum over the entries reported as decoded: failed attempts cost nothing.
THEOREM BudgetIsTheSum == ContainerSpec => []BudgetHolds
<1>1. Inv /\ Books => BudgetHolds
  BY DEF Inv, Paid, Books, Summed, Sizes, DecodedEntries, BudgetHolds
<1> QED
  BY <1>1, ScanInvariant, BooksAreKept, PTL

\* An inventory called complete is whole in every container, for every file:
\* each marker, directory byte or stream is accounted for and none is malformed.
THEOREM CompleteInventoryIsWhole == ContainerSpec => []CompleteIsWhole
<1>1. Books => CompleteIsWhole
  <2> SUFFICES ASSUME Books, status = "complete" PROVE CompleteIsWhole
    BY DEF CompleteIsWhole
  <2>1. WholeEnvelope /\ \A i \in DOMAIN entries : entries[i].state # "malformed"
    BY DEF Books, Whole, Honest, Sound
  <2> QED
    BY <2>1 DEF CompleteIsWhole, WholeEnvelope, Envelopes
<1> QED
  BY <1>1, BooksAreKept, PTL

-----------------------------------------------------------------------------
(***************************************************************************)
(* The bytes no walker interpreted.                                        *)
(***************************************************************************)
\* Merging the accounted ranges keeps their bytes below the end of the input.
LEMMA MergedRanges ==
  ASSUME NEW S \in SUBSET (Nat \X Nat), IsFiniteSet(S), NEW total \in Nat
  PROVE  LET m == Merged(S, total)
         IN /\ Tidy(m) /\ LiesIn(m, 0, total)
            /\ \A b \in 0 .. total - 1 : Covers(m, b) <=> \E r \in S : InRange(b, r)
<1> DEFINE seq == Ascending(S)
           D == DOMAIN seq
           n == Cardinality(S)
           V == Seq(Int \X Int)
           step == [z \in D \X V |-> Merge(z[2], seq[z[1]], total)]
           Folding(f) == f = [s \in SUBSET D |-> IF s = {} THEN <<>>
                                                 ELSE Merge(f[s \ {Max(s)}], seq[Max(s)], total)]
           g == CHOOSE f : Folding(f)
<1>0. S \in SUBSET (Int \X Int)
  OBVIOUS
<1>1. Merged(S, total) = g[D]
  BY DEF Merged, FoldLeft, MapThenFoldSet
<1>2. n \in Nat /\ D = 1 .. n /\ \A k \in D : seq[k] \in S /\ seq[k] \in Nat \X Nat
  <2>1. seq \in Seq(S) /\ Len(seq) = n /\ n \in Nat
    BY <1>0, AscendingIs
  <2> HIDE DEF seq, n
  <2> QED
    BY <2>1
<1>3. <<>> \in V
  OBVIOUS
<1>4. \A k \in D, m \in V : step[<<k, m>>] = Merge(m, seq[k], total) /\ Merge(m, seq[k], total) \in V
  <2>1. ASSUME NEW m \in V, NEW r \in Nat \X Nat PROVE Merge(m, r, total) \in V
    <3>1. Smaller(r[2], total) \in Int /\ <<r[1], Smaller(r[2], total)>> \in Int \X Int
      BY DEF Smaller
    <3>2. JoinRange(m, <<r[1], Smaller(r[2], total)>>) \in V
      BY <3>1, JoinTyped
    <3> HIDE DEF V
    <3> QED
      BY <3>2 DEF Merge
  <2> HIDE DEF V, seq
  <2> QED
    BY <1>2, <2>1
<1>5. step \in [D \X V -> V]
  <2>1. step = [z \in D \X V |-> step[z]]
    OBVIOUS
  <2>2. \A z \in D \X V : z = <<z[1], z[2]>> /\ z[1] \in D /\ z[2] \in V
    OBVIOUS
  <2> HIDE DEF step, D, V
  <2> QED
    BY <1>4, <2>1, <2>2
<1> HIDE DEF step
<1>6. PICK f \in [SUBSET D -> V] : RunsBy(f, D, V, <<>>, step)
  <2> HIDE DEF D, V
  <2> QED
    BY <1>2, <1>3, <1>5, RunExists
<1>7. Folding(f)
  <2>1. ASSUME NEW s \in SUBSET D
        PROVE  f[s] = IF s = {} THEN <<>> ELSE Merge(f[s \ {Max(s)}], seq[Max(s)], total)
    <3>1. s # {} => Max(s) \in D /\ s \ {Max(s)} \in SUBSET D
      <4> HIDE DEF D
      <4> QED
        BY <1>2, MaxIs
    <3>2. s # {} => f[s \ {Max(s)}] \in V
      BY <3>1
    <3> HIDE DEF D, V, seq
    <3> QED
      BY <1>4, <1>6, <2>1, <3>1, <3>2 DEF RunsBy
  <2>2. f = [s \in SUBSET D |-> f[s]]
    OBVIOUS
  <2> QED
    BY <2>1, <2>2
<1>8. Folding(g)
  <2> HIDE DEF Folding
  <2> QED
    BY <1>7
<1>9. RunsBy(g, D, V, <<>>, step)
  <2>1. \A s \in SUBSET D : g[s] = IF s = {} THEN <<>> ELSE Merge(g[s \ {Max(s)}], seq[Max(s)], total)
    <3> HIDE DEF g
    <3> QED
      BY <1>8
  <2>2. \A s \in SUBSET D : s # {} => Max(s) \in D
    <3> HIDE DEF D
    <3> QED
      BY <1>2, MaxIs
  <2> HIDE DEF g, D, V, seq, Folding
  <2> QED
    BY <1>4, <2>1, <2>2 DEF RunsBy
<1>10. PICK t \in [0 .. n -> V] :
         t[0] = <<>> /\ (\A k \in 1 .. n : t[k] = step[<<k, t[k - 1]>>]) /\ t[n] = g[D]
  <2>1. n \in Nat /\ D = 1 .. n
    BY <1>2
  <2> HIDE DEF g, D, V, n, seq, Folding
  <2>2. Runs(g, n, D, V, <<>>, step)
    <3> HIDE DEF step
    <3> QED
      BY <1>3, <1>5, <1>9, <2>1, RunIs
  <2> QED
    BY <2>2 DEF Runs
<1> DEFINE cut == [r \in S |-> Smaller(r[2], total)]
<1>12. /\ \A r \in S : r[1] \in Nat /\ r[2] \in Nat /\ cut[r] = Smaller(r[2], total) /\ cut[r] \in Int
       /\ cut \in [S -> Int]
  BY DEF Smaller
<1> HIDE DEF cut
<1>11. Merging(S, t, cut)
  <2>1. ASSUME NEW k \in 1 .. n
        PROVE  t[k] = IF seq[k][1] >= cut[seq[k]] THEN t[k - 1] ELSE JoinRange(t[k - 1], <<seq[k][1], cut[seq[k]]>>)
    <3>1. k \in D /\ k - 1 \in 0 .. n /\ t[k - 1] \in V
      <4> HIDE DEF D, V, n
      <4> QED
        BY <1>2
    <3>2. t[k] = Merge(t[k - 1], seq[k], total)
      <4> HIDE DEF seq, D, V, n
      <4> QED
        BY <1>4, <1>10, <3>1
    <3>3. seq[k] \in S /\ cut[seq[k]] = Smaller(seq[k][2], total)
      <4> HIDE DEF seq, D
      <4> QED
        BY <1>2, <1>12, <3>1
    <3> HIDE DEF seq, D, V, n
    <3> QED
      BY <3>2, <3>3 DEF Merge
  <2> QED
    BY <1>10, <2>1 DEF Merging
<1>13. /\ Tidy(t[n])
       /\ \A b \in Int : Covers(t[n], b) <=> \E r \in S : InRange(b, <<r[1], cut[r]>>)
       /\ \A low, high \in Int : (\A r \in S : r[1] < cut[r] => low <= r[1] /\ cut[r] <= high)
                                   => LiesIn(t[n], low, high)
  BY <1>0, <1>11, <1>12, MergedIs
<1> HIDE DEF g, D, V, n
<1>14. LiesIn(t[n], 0, total)
  <2>1. \A r \in S : 0 <= r[1] /\ cut[r] <= total
    BY <1>12 DEF Smaller
  <2>2. 0 \in Int /\ total \in Int
    OBVIOUS
  <2> QED
    BY <1>13, <2>1, <2>2
<1>15. \A b \in 0 .. total - 1 : Covers(t[n], b) <=> \E r \in S : InRange(b, r)
  <2>1. \A b \in 0 .. total - 1, r \in S : InRange(b, <<r[1], cut[r]>>) <=> InRange(b, r)
    BY <1>12 DEF InRange, Smaller
  <2>2. \A b \in 0 .. total - 1 : b \in Int
    OBVIOUS
  <2> QED
    BY <1>13, <2>1, <2>2
<1> HIDE DEF seq
<1> QED
  BY <1>1, <1>10, <1>13, <1>14, <1>15 DEF seq

\* The complement is what no accounted range interprets.
LEMMA ComplementIs ==
  ASSUME NEW S \in SUBSET (Nat \X Nat), IsFiniteSet(S), NEW total \in Nat, NEW b \in 0 .. total - 1
  PROVE  (\E gap \in Complement(S, total) : InRange(b, gap)) <=> ~\E r \in S : InRange(b, r)
<1> DEFINE m == Merged(S, total)
           from == [i \in 0 .. Len(m) |-> IF i = 0 THEN 0 ELSE m[i][2]]
           to == [i \in 0 .. Len(m) |-> IF i = Len(m) THEN total ELSE m[i + 1][1]]
<1>1. Tidy(m) /\ LiesIn(m, 0, total) /\ (Covers(m, b) <=> \E r \in S : InRange(b, r))
  BY MergedRanges
<1>2. (\E gap \in Complement(S, total) : InRange(b, gap))
        <=> \E i \in 0 .. Len(m) : from[i] < to[i] /\ InRange(b, <<from[i], to[i]>>)
  <2> HIDE DEF InRange
  <2>1. Complement(S, total) = {gap \in {<<from[i], to[i]>> : i \in 0 .. Len(m)} : gap[1] < gap[2]}
    BY DEF Complement
  <2> HIDE DEF m, from, to
  <2> QED
    BY <2>1
<1>3. \A i \in 0 .. Len(m) : from[i] \in Int /\ to[i] \in Int
  <2>1. m \in Seq(Int \X Int) /\ Len(m) \in Nat /\ \A i \in 1 .. Len(m) : m[i] \in Int \X Int
    <3>1. m \in Seq(Int \X Int)
      BY <1>1 DEF Tidy
    <3> HIDE DEF m
    <3> QED
      BY <3>1
  <2> HIDE DEF m
  <2>2. \A i \in 0 .. Len(m) : (i # 0 => i \in 1 .. Len(m)) /\ (i # Len(m) => i + 1 \in 1 .. Len(m))
    BY <2>1
  <2> QED
    BY <2>1, <2>2
<1>4. \A i \in 0 .. Len(m) : InRange(b, <<from[i], to[i]>>) => from[i] < to[i]
  <2> HIDE DEF m, from, to
  <2> QED
    BY <1>3 DEF InRange
<1>5. (\E i \in 0 .. Len(m) : InRange(b, <<from[i], to[i]>>)) <=> ~Covers(m, b)
  <2> HIDE DEF m
  <2>1. from = [i \in 0 .. Len(m) |-> IF i = 0 THEN 0 ELSE m[i][2]]
    OBVIOUS
  <2>2. to = [i \in 0 .. Len(m) |-> IF i = Len(m) THEN total ELSE m[i + 1][1]]
    OBVIOUS
  <2> HIDE DEF from, to
  <2> QED
    BY ZenonT(30), <1>1, <2>1, <2>2, GapsAre
<1> HIDE DEF m, from, to
<1> QED
  BY <1>1, <1>2, <1>4, <1>5

\* A walker accounts for finitely many ranges, between natural positions.
Accounting(ranges) == ranges \in SUBSET (Nat \X Nat) /\ IsFiniteSet(ranges)

LEMMA AddAccounts ==
  ASSUME NEW S, Accounting(S), NEW start \in Nat, NEW end \in Nat
  PROVE  Accounting(Add(S, start, end))
<1>1. IsFiniteSet(S \cup {<<start, end>>})
  BY FS_AddElement DEF Accounting
<1>2. <<start, end>> \in Nat \X Nat
  OBVIOUS
<1> QED
  BY <1>1, <1>2 DEF Accounting, Add

LEMMA ModernAccounts ==
  ASSUME Inv, Accounting(accounted), ModernNext
  PROVE  Accounting(accounted')
<1>1. input.size \in Nat
  BY InputTyped DEF Inv
<1>2. CASE ModernBegin
  <2>1. Smaller(OuterHeader, input.size) \in Nat /\ 0 \in Nat
    BY <1>1, FrameAssumption DEF Smaller
  <2>2. accounted' = Add(accounted, 0, Smaller(OuterHeader, input.size))
    BY <1>2 DEF ModernBegin
  <2> QED
    BY <2>1, <2>2, AddAccounts
<1>3. CASE TruncatedFrame
  <2>1. NextMarker \in Nat /\ accounted' = Add(accounted, NextMarker, input.size)
    BY <1>3, MarkerTyped DEF TruncatedFrame, Inv
  <2> QED
    BY <1>1, <2>1, AddAccounts
<1>4. ASSUME AtMarker, NEW end \in Nat, Consume(NextMarker, end) PROVE Accounting(accounted')
  <2>1. NextMarker \in Nat /\ accounted' = Add(accounted, NextMarker, end)
    BY <1>4, MarkerTyped DEF Consume, Inv
  <2> QED
    BY <1>4, <2>1, AddAccounts
<1>5. CASE TakeBlock
  <2>1. AtMarker /\ Consume(NextMarker, BlockEnd(NextMarker))
    BY <1>5 DEF TakeBlock
  <2>2. BlockEnd(NextMarker) \in Nat
    BY <2>1, FrameEnds DEF Inv
  <2> QED
    BY <1>4, <2>1, <2>2
<1>6. CASE TakeMetadata
  <2> DEFINE end == IF IsCell(NextMarker) THEN CellEnd(NextMarker) ELSE DirectoryEnd(NextMarker)
  <2>1. AtMarker /\ Consume(NextMarker, end)
    BY <1>6 DEF TakeMetadata
  <2>2. end \in Nat
    BY <2>1, FrameEnds DEF Inv
  <2> HIDE DEF end
  <2> QED
    BY <1>4, <2>1, <2>2
<1>7. CASE TooManyMarkers \/ NameTooLong \/ BlockOverLimit \/ RejectMarker \/ ModernEnd
  BY <1>7 DEF TooManyMarkers, NameTooLong, BlockOverLimit, RejectMarker, ModernEnd, Stop
<1> QED
  BY <1>2, <1>3, <1>5, <1>6, <1>7 DEF ModernNext

LEMMA ZipAccounts ==
  ASSUME Inv, Accounting(accounted), ZipNext
  PROVE  Accounting(accounted')
<1>1. ASSUME HeaderFailure(cursor) = NONE, NEW c \in Nat, c = cursor
      PROVE  cursor \in Nat /\ CentralEnd(cursor) \in Nat
  <2>1. cursor \in DOMAIN input.records
    BY <1>1, ContainerAssumption DEF HeaderFailure, Fault
  <2>2. input.records[cursor] \in Record
    BY <2>1, InputTyped DEF Inv
  <2>3. input.records[cursor].name \in Nat /\ input.records[cursor].tail \in Nat
    BY <2>2 DEF Record
  <2> QED
    BY <1>1, <2>3, ZipAssumption DEF CentralEnd
<1>2. CASE OpenDirectory
  <2>1. CASE EocdCandidates = {} \/ Directory.multidisk
    BY <1>2, <2>1 DEF OpenDirectory
  <2>2. CASE ~(EocdCandidates = {} \/ Directory.multidisk)
    <3>1. accounted' = Add(accounted, EocdOffset, EocdEnd(EocdOffset))
      BY <1>2, <2>2 DEF OpenDirectory
    <3> QED
      BY <2>2, <3>1, DirectoryTyped, AddAccounts
  <2> QED
    BY <2>1, <2>2
<1>3. CASE FailEntry
  <2>1. CASE HeaderFailure(cursor) # NONE
    BY <1>3, <2>1 DEF FailEntry
  <2>2. CASE HeaderFailure(cursor) = NONE
    <3>1. accounted' = Add(accounted, cursor, CentralEnd(cursor))
      BY <1>3, <2>2 DEF FailEntry
    <3>2. cursor \in Nat
      <4>1. cursor \in DOMAIN input.records
        BY <2>2, ContainerAssumption DEF HeaderFailure, Fault
      <4> QED
        BY <4>1, InputTyped DEF Inv
    <3> QED
      BY <1>1, <2>2, <3>1, <3>2, AddAccounts
  <2> QED
    BY <2>1, <2>2
<1>4. ASSUME ReadsEntry PROVE Accounting(accounted')
  <2> DEFINE r == input.records[cursor]
             header == Add(accounted, cursor, CentralEnd(cursor))
  <2>1. cursor \in Nat /\ HeaderFailure(cursor) = NONE
    BY <1>4, EntryReads DEF ReadsEntry, EntryFailure
  <2>2. LocalRange(r) \in Nat \X Nat
    BY <1>4, EntryReads
  <2>3. r.local.at \in Nat /\ FrameEnd(r) \in Nat
    BY <2>2 DEF LocalRange
  <2>4. Accounting(header)
    BY <1>1, <2>1, AddAccounts
  <2>5. accounted' = Add(header, r.local.at, FrameEnd(r))
    BY <1>4 DEF ReadsEntry
  <2> HIDE DEF header, r
  <2> QED
    BY <2>3, <2>4, <2>5, AddAccounts
<1>5. CASE EndDirectory
  BY <1>5 DEF EndDirectory
<1> QED
  BY <1>2, <1>3, <1>4, <1>5 DEF ZipNext, ReadOpaque, ReadStored, ReadMismatched

LEMMA Ole2Accounts ==
  ASSUME Inv, Accounting(accounted), Ole2Next
  PROVE  Accounting(accounted')
<1>1. input.size \in Nat
  BY InputTyped DEF Inv
<1>2. CASE OpenCompound
  <2> DEFINE first == Smaller(CfbHeader, input.size)
             header == Add(accounted, 0, first)
             v == input.header.version
  <2>1. first \in Nat
    BY <1>1, Ole2Assumption DEF Smaller
  <2>2. Accounting(header)
    <3> HIDE DEF first
    <3> QED
      BY <2>1, AddAccounts
  <2>3. accounted' = header \/ (v \in DOMAIN SectorSize /\ accounted' = Add(header, 0, SectorSize[v]))
    BY <1>2 DEF OpenCompound, HeaderAccounted
  <2> HIDE DEF first, header, v
  <2>4. CASE v \in DOMAIN SectorSize /\ accounted' = Add(header, 0, SectorSize[v])
    BY <2>2, <2>4, Ole2Assumption, AddAccounts
  <2> QED
    BY <2>2, <2>3, <2>4
<1>3. ASSUME accounted' = Add(accounted, 0, input.size) PROVE Accounting(accounted')
  BY <1>1, <1>3, AddAccounts
<1>4. CASE WrappedOverLimit \/ PlainOverLimit \/ EndStreams
  BY <1>3, <1>4 DEF WrappedOverLimit, PlainOverLimit, EndStreams, CloseCompound
<1>5. CASE ReadStorage \/ ReadBroken \/ ReadWrapped \/ RejectWrapped \/ ReadPlain
  BY <1>5 DEF ReadStorage, ReadBroken, ReadWrapped, RejectWrapped, ReadPlain, NextFact
<1> QED
  BY <1>2, <1>4, <1>5 DEF Ole2Next

\* The uninterpreted ranges of every scan are exactly the bytes no walker
\* interpreted, however the accounted ranges nest or overlap (RangeSet::complement).
THEOREM EveryByteIsPlaced == ContainerSpec => []BytesPartitioned
<1> DEFINE Accounted == Accounting(accounted)
<1>1. ContainerInit => Accounted
  BY FS_EmptySet DEF ContainerInit, Accounting
<1>2. Inv /\ Accounted /\ [ContainerNext]_vars => Accounted'
  BY ModernAccounts, ZipAccounts, Ole2Accounts DEF ContainerNext, Dispatch, vars
<1>3. Inv /\ Accounted => BytesPartitioned
  <2> SUFFICES ASSUME Inv, Accounting(accounted), NEW b \in 0 .. input.size - 1
               PROVE  (\E gap \in Uninterpreted : InRange(b, gap)) <=> ~\E r \in accounted : InRange(b, r)
    BY DEF BytesPartitioned
  <2>1. input.size \in Nat
    BY InputTyped DEF Inv
  <2> QED
    BY <2>1, ComplementIs DEF Accounting, Uninterpreted
<1> HIDE DEF Accounted
<1> QED
  BY <1>1, <1>2, <1>3, ScanInvariant, PTL DEF ContainerSpec
=============================================================================
