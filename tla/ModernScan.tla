------------------------------ MODULE ModernScan ------------------------------
(***************************************************************************)
(* The walker of the modern chunk container (modern.rs).  Frames are found *)
(* by searching for a marker; the bytes behind a marker may be a           *)
(* compressed block, a cache cell or a directory entry, and are tried as   *)
(* each of these in turn.  A marker that is none of them is stepped over   *)
(* by one byte, so a later marker inside the same bytes is still seen.     *)
(*                                                                         *)
(* input.frames maps the offset of every marker to what follows it.        *)
(***************************************************************************)
EXTENDS ContainerCommon

CONSTANTS OuterHeader, MarkerLen, FrameHeader, DirectoryPrefix, DirectoryTrailer

ASSUME FrameAssumption ==
  /\ OuterHeader \in Nat \ {0} /\ MarkerLen \in Nat \ {0} /\ DirectoryTrailer \in Nat
  /\ MarkerLen <= FrameHeader /\ FrameHeader \in Nat
  /\ FrameHeader <= DirectoryPrefix /\ DirectoryPrefix \in Nat

\* "cell" and "directory" tell whether the header fields are related the way
\* a cache cell or a directory entry relates them, and its name decodes there.
Frame == [name: Nat, readable: BOOLEAN, compressed: Nat, expected: Nat,
          inflated: Nat \cup {NONE}, crc: BOOLEAN, cell: BOOLEAN, directory: BOOLEAN]

InModern == phase = "modern"

Candidates == {o \in DOMAIN input.frames : o >= cursor /\ o + MarkerLen <= input.size}
NextMarker == CHOOSE o \in Candidates : \A c \in Candidates : o <= c
HasMarker == Candidates # {}

\* What reading the marker as a block comes to: "valid", "fatal" or "malformed"
\* (a rejected attempt), or "implausible" (not one at all).
BlockAttempt(o) ==
  LET f == input.frames[o]
      payload == o + FrameHeader + f.name
      inflation == Inflate(f.compressed, f.expected, f.inflated, decodedBytes)
  IN IF payload > input.size THEN "malformed"
     ELSE IF (f.name > 0 /\ ~f.readable) \/ f.compressed = 0 THEN "implausible"
     ELSE IF payload + f.compressed > input.size THEN "malformed"
     ELSE IF inflation \in LimitFailure THEN "fatal"
     ELSE IF inflation # "inflated" \/ ~f.crc THEN "malformed"
     ELSE "valid"

BlockEnd(o) == o + FrameHeader + input.frames[o].name + input.frames[o].compressed

CellEnd(o) == o + FrameHeader + input.frames[o].name
IsCell(o) ==
  /\ input.frames[o].cell /\ input.frames[o].name > 0 /\ input.frames[o].readable
  /\ CellEnd(o) <= input.size

DirectoryEnd(o) == o + DirectoryPrefix + input.frames[o].name + DirectoryTrailer
IsDirectoryEntry(o) ==
  /\ input.frames[o].directory /\ input.frames[o].name > 0
  /\ DirectoryEnd(o) <= input.size

Readable(o) ==
  /\ o + FrameHeader <= input.size
  /\ input.frames[o].name <= MaxNameBytes

ModernVerdict(found, fault) ==
  IF "fatal" \in fault THEN "rejected"
  ELSE IF found = <<>> THEN "malformed"
  ELSE IF "malformed" \in fault THEN "partial" ELSE "complete"

ModernBegin ==
  /\ InModern /\ cursor = 0
  /\ accounted' = Add(accounted, 0, Smaller(OuterHeader, input.size))
  /\ IF input.size < OuterHeader
     THEN /\ Finish("malformed")
          /\ faults' = faults \cup {"malformed"} /\ UNCHANGED cursor
     ELSE cursor' = OuterHeader /\ Going /\ UNCHANGED faults
  /\ UNCHANGED <<input, wanted, markers>> /\ NothingRetained

AtMarker == InModern /\ cursor > 0 /\ HasMarker

\* Markers count against the stream limit, whatever they turn out to be.
CountMarker == markers' = markers + 1
WithinStreams == markers + 1 <= MaxStreams

Stop(fault) ==
  /\ faults' = faults \cup {fault}
  /\ Finish(ModernVerdict(entries, faults'))
  /\ UNCHANGED <<cursor, accounted>> /\ NothingRetained

TooManyMarkers ==
  /\ AtMarker /\ ~WithinStreams
  /\ CountMarker /\ Stop("fatal")
  /\ UNCHANGED <<input, wanted>>

TruncatedFrame ==
  /\ AtMarker /\ WithinStreams /\ CountMarker
  /\ NextMarker + FrameHeader > input.size
  /\ accounted' = Add(accounted, NextMarker, input.size)
  /\ cursor' = input.size
  /\ faults' = faults \cup {"malformed"}
  /\ Going /\ UNCHANGED <<input, wanted>> /\ NothingRetained

NameTooLong ==
  /\ AtMarker /\ WithinStreams /\ CountMarker
  /\ NextMarker + FrameHeader <= input.size /\ ~Readable(NextMarker)
  /\ Stop("fatal")
  /\ UNCHANGED <<input, wanted>>

Consume(o, end) ==
  /\ accounted' = Add(accounted, o, end)
  /\ cursor' = Larger(end, o + 1)
  /\ Going /\ UNCHANGED <<input, wanted, faults>>

TakeBlock ==
  /\ AtMarker /\ WithinStreams /\ CountMarker /\ Readable(NextMarker)
  /\ BlockAttempt(NextMarker) = "valid"
  /\ Accept(NextMarker, <<NextMarker, BlockEnd(NextMarker)>>, input.frames[NextMarker].expected)
  /\ Consume(NextMarker, BlockEnd(NextMarker))

\* Mutant: a metadata frame ends where its header ends.
TakeMetadataShort ==
  /\ AtMarker /\ WithinStreams /\ CountMarker /\ Readable(NextMarker)
  /\ BlockAttempt(NextMarker) # "valid"
  /\ IsCell(NextMarker) \/ IsDirectoryEntry(NextMarker)
  /\ LET end == IF IsCell(NextMarker) THEN CellEnd(NextMarker) ELSE DirectoryEnd(NextMarker)
     IN /\ Push(Entry(NextMarker, "metadata_only", <<NextMarker, end>>, 0))
        /\ Consume(NextMarker, NextMarker + FrameHeader)
  /\ UNCHANGED stored /\ NothingDecoded

\* A cache cell, or else a directory entry: named but without a payload.
TakeMetadata ==
  /\ AtMarker /\ WithinStreams /\ CountMarker /\ Readable(NextMarker)
  /\ BlockAttempt(NextMarker) # "valid"
  /\ IsCell(NextMarker) \/ IsDirectoryEntry(NextMarker)
  /\ LET end == IF IsCell(NextMarker) THEN CellEnd(NextMarker) ELSE DirectoryEnd(NextMarker)
     IN /\ Push(Entry(NextMarker, "metadata_only", <<NextMarker, end>>, 0))
        /\ Consume(NextMarker, end)
  /\ UNCHANGED stored /\ NothingDecoded

NoFrame(o) == Readable(o) /\ ~IsCell(o) /\ ~IsDirectoryEntry(o)

RejectMarker ==
  /\ AtMarker /\ WithinStreams /\ CountMarker /\ NoFrame(NextMarker)
  /\ BlockAttempt(NextMarker) \in {"malformed", "implausible"}
  /\ faults' = IF BlockAttempt(NextMarker) = "malformed"
               THEN faults \cup {"malformed"} ELSE faults
  /\ cursor' = NextMarker + 1
  /\ Going /\ UNCHANGED <<input, wanted, accounted>> /\ NothingRetained

\* A block over a limit ends the scan only when it is nothing else either.
BlockOverLimit ==
  /\ AtMarker /\ WithinStreams /\ CountMarker /\ NoFrame(NextMarker)
  /\ BlockAttempt(NextMarker) = "fatal"
  /\ Stop("fatal")
  /\ UNCHANGED <<input, wanted>>

ModernEnd ==
  /\ InModern /\ cursor > 0 /\ ~HasMarker
  /\ Finish(ModernVerdict(entries, faults))
  /\ UNCHANGED <<input, wanted, cursor, markers, accounted, faults>> /\ NothingRetained

ModernNext ==
  \/ ModernBegin \/ TooManyMarkers \/ TruncatedFrame \/ NameTooLong
  \/ TakeBlock \/ TakeMetadata \/ RejectMarker \/ BlockOverLimit \/ ModernEnd
=============================================================================
