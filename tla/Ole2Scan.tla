------------------------------- MODULE Ole2Scan -------------------------------
(***************************************************************************)
(* The walker of the OLE2 compound file (ole2.rs).  The header is checked, *)
(* the cfb library opens the file (external: it succeeds or not), every    *)
(* storage and stream is checked against the limits before any is read,    *)
(* then the streams are read in order of path and those whose name asks    *)
(* for it are decompressed.                                                *)
(*                                                                         *)
(* input.streams lists storages and streams in order of path, an entry is  *)
(* known by its position in it.                                            *)
(***************************************************************************)
EXTENDS ContainerCommon

CONSTANTS
  CfbHeader,               \* length of the header
  SectorSize,              \* by major version
  ZlbHeader, ZlbTrailer    \* lengths around a compressed member

ASSUME Ole2Assumption ==
  /\ CfbHeader \in Nat \ {0} /\ ZlbHeader \in Nat /\ ZlbTrailer \in Nat
  /\ \A v \in DOMAIN SectorSize : SectorSize[v] \in Nat \ {0}

\* "declared" holds the numbers of allocation sectors the header declares,
\* "directory" the number of directory sectors, used by version 4 only.
Header == [byteOrder: BOOLEAN, version: Nat, shifts: BOOLEAN,
           declared: SUBSET Nat, directory: Nat, opens: BOOLEAN]

Fact == [stream: BOOLEAN, name: Nat, depth: Nat, len: Nat, readable: BOOLEAN, zlb: BOOLEAN,
         wrapped: BOOLEAN, member: Nat, expected: Nat, inflated: Nat \cup {NONE}]

InOle2 == phase = "ole2"
InStreams == phase = "ole2_streams"

PhysicalSectors == Larger((input.size \div SectorSize[input.header.version]) - 1, 0)

Preflight ==
  LET h == input.header
  IN IF input.size < CfbHeader \/ ~h.byteOrder THEN "malformed"
     ELSE IF h.version \notin DOMAIN SectorSize THEN "unsupported"
     ELSE IF ~h.shifts \/ input.size < SectorSize[h.version] THEN "malformed"
     ELSE IF \E d \in h.declared : d > PhysicalSectors THEN "malformed"
     ELSE IF h.version = 4 /\ h.directory > PhysicalSectors THEN "malformed"
     ELSE "sound"

\* The header, and its whole sector once that is known to be there.
HeaderAccounted ==
  LET h == input.header
      header == Add(accounted, 0, Smaller(CfbHeader, input.size))
  IN IF /\ input.size >= CfbHeader /\ h.byteOrder /\ h.version \in DOMAIN SectorSize
        /\ h.shifts /\ input.size >= SectorSize[h.version]
     THEN Add(header, 0, SectorSize[h.version]) ELSE header

Streams(n) == {i \in 1 .. n : input.streams[i].stream}
DeclaredUpTo(n) ==
  SumFunctionOnSet([i \in DOMAIN input.streams |-> input.streams[i].len], Streams(n))

\* The first pass over all entries, before any of them is read.
OverLimit(i) ==
  \/ input.streams[i].name > MaxNameBytes
  \/ input.streams[i].depth > MaxDepth
  \/ input.streams[i].stream /\ DeclaredUpTo(i) > MaxTotalBytes

CompoundVerdict ==
  IF Preflight # "sound" THEN Preflight
  ELSE IF ~input.header.opens THEN "malformed"
  ELSE IF Len(input.streams) > MaxStreams \/ \E i \in DOMAIN input.streams : OverLimit(i)
  THEN "rejected"
  ELSE "sound"

OpenCompound ==
  /\ InOle2
  /\ accounted' = HeaderAccounted
  /\ IF CompoundVerdict = "sound"
     THEN phase' = "ole2_streams" /\ cursor' = 1 /\ UNCHANGED status
     ELSE Finish(CompoundVerdict) /\ UNCHANGED cursor
  /\ UNCHANGED <<input, wanted, markers, faults>> /\ NothingRetained

-----------------------------------------------------------------------------
(***************************************************************************)
(* One storage or stream.                                                  *)
(***************************************************************************)
Ole2Verdict(fault) ==
  IF "fatal" \in fault THEN "rejected" ELSE IF "malformed" \in fault THEN "partial" ELSE "complete"

\* A finished walk has seen every sector, whatever the streams hold.
CloseCompound(fault) ==
  /\ faults' = fault
  /\ Finish(Ole2Verdict(fault))
  /\ accounted' = Add(accounted, 0, input.size)

AtFact == InStreams /\ cursor <= Len(input.streams)
CurrentFact == input.streams[cursor]
InventoryOnly(state) == Push(Entry(cursor, state, <<0, 0>>, 0)) /\ NothingDecoded
NextFact == cursor' = cursor + 1 /\ Going /\ UNCHANGED <<input, wanted, markers, accounted>>

\* What decompression of a wrapped stream yields; a bare empty wrapper is empty.
Unwrap(f) ==
  IF f.len < ZlbHeader \/ ~f.wrapped THEN "invalid_wrapper"
  ELSE IF f.len = ZlbHeader /\ f.expected = 0 /\ f.member = 0 THEN "inflated"
  ELSE IF ZlbHeader + f.member + ZlbTrailer # f.len THEN "invalid_wrapper"
  ELSE Inflate(f.member, f.expected, f.inflated, decodedBytes)

ReadStorage ==
  /\ AtFact /\ ~CurrentFact.stream
  /\ InventoryOnly("metadata_only")
  /\ NextFact /\ UNCHANGED <<stored, faults>>

ReadBroken ==
  /\ AtFact /\ CurrentFact.stream /\ ~CurrentFact.readable
  /\ InventoryOnly("malformed")
  /\ faults' = faults \cup {"malformed"}
  /\ NextFact /\ UNCHANGED stored

AtWrapped == AtFact /\ CurrentFact.stream /\ CurrentFact.readable /\ CurrentFact.zlb
AtPlain == AtFact /\ CurrentFact.stream /\ CurrentFact.readable /\ ~CurrentFact.zlb

ReadWrapped ==
  /\ AtWrapped /\ Unwrap(CurrentFact) = "inflated"
  /\ Accept(cursor, <<0, 0>>, CurrentFact.expected)
  /\ NextFact /\ UNCHANGED faults

RejectWrapped ==
  /\ AtWrapped /\ Unwrap(CurrentFact) \notin LimitFailure \cup {"inflated"}
  /\ InventoryOnly("malformed")
  /\ stored' = Keep(stored, cursor)
  /\ faults' = faults \cup {"malformed"}
  /\ NextFact

\* A stream over a limit is still inventoried, and is the last one.
WrappedOverLimit ==
  /\ AtWrapped /\ Unwrap(CurrentFact) \in LimitFailure
  /\ InventoryOnly("malformed")
  /\ stored' = Keep(stored, cursor)
  /\ CloseCompound(faults \cup {"fatal"})
  /\ UNCHANGED <<input, wanted, cursor, markers>>

Fits == CurrentFact.len <= Larger(MaxTotalBytes - decodedBytes, 0)

ReadPlain ==
  /\ AtPlain /\ Fits
  /\ Accept(cursor, <<0, 0>>, CurrentFact.len)
  /\ NextFact /\ UNCHANGED faults

PlainOverLimit ==
  /\ AtPlain /\ ~Fits
  /\ CloseCompound(faults \cup {"fatal"})
  /\ UNCHANGED <<input, wanted, cursor, markers>> /\ NothingRetained

EndStreams ==
  /\ InStreams /\ cursor > Len(input.streams)
  /\ CloseCompound(faults)
  /\ UNCHANGED <<input, wanted, cursor, markers>> /\ NothingRetained

Ole2Next ==
  \/ OpenCompound \/ ReadStorage \/ ReadBroken \/ ReadWrapped \/ RejectWrapped
  \/ WrappedOverLimit \/ ReadPlain \/ PlainOverLimit \/ EndStreams
=============================================================================
