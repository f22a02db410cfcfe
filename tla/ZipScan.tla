------------------------------- MODULE ZipScan -------------------------------
(***************************************************************************)
(* The walker of the ZIP container (zip.rs): the last end-of-central-      *)
(* directory record that fits is searched backwards, then as many central  *)
(* entries as it declares are read one behind the other.  Each entry must  *)
(* agree with its local header; the first one that cannot be read ends the *)
(* walk, so what it leaves behind decides the verdict.                     *)
(*                                                                         *)
(* input.eocds and input.records map offsets to the end-of-directory and   *)
(* central records found there.  Fields of 32 bits are added as 64-bit     *)
(* numbers, so the numeric failures of the code cannot happen.             *)
(***************************************************************************)
EXTENDS ContainerCommon

CONSTANTS EocdLen, MaxEocdSearch, CentralLen, LocalLen, DescriptorLen

ASSUME ZipAssumption ==
  /\ EocdLen \in Nat \ {0} /\ CentralLen \in Nat \ {0} /\ LocalLen \in Nat \ {0}
  /\ DescriptorLen \in Nat /\ MaxEocdSearch \in Nat

Eocd == [comment: Nat, multidisk: BOOLEAN, zip64: BOOLEAN,
         count: Nat, start: Nat, extent: Nat]

\* "local" is the header the record points at: whether it is there and agrees
\* with the record on flags, method, name and sizes.
Record == [multidisk: BOOLEAN, zip64: BOOLEAN, name: Nat, tail: Nat, depth: Nat,
           compressed: Nat, uncompressed: Nat, encrypted: BOOLEAN, storedMethod: BOOLEAN,
           crc: BOOLEAN,
           local: [at: Nat, agrees: BOOLEAN, extra: Nat, descriptor: BOOLEAN]]

InZip == phase = "zip"
InDirectory == phase = "zip_directory"

EocdEnd(o) == o + EocdLen + input.eocds[o].comment

\* Records that fit, in the window at the end of the file; the last one counts.
EocdCandidates ==
  {o \in DOMAIN input.eocds :
     /\ o + MaxEocdSearch >= input.size /\ o + EocdLen <= input.size
     /\ EocdEnd(o) <= input.size}
EocdOffset == CHOOSE o \in EocdCandidates : \A c \in EocdCandidates : c <= o
Directory == input.eocds[EocdOffset]
CentralDirectoryEnd == Directory.start + Directory.extent

\* What the end record alone decides, "readable" when the directory can be read.
DirectoryVerdict ==
  IF EocdCandidates = {} THEN "malformed"
  ELSE IF Directory.multidisk \/ Directory.zip64 THEN "unsupported"
  ELSE IF Directory.count > MaxStreams THEN "rejected"
  ELSE IF CentralDirectoryEnd > EocdOffset THEN "malformed"
  ELSE "readable"

\* Multi-disk records are refused before their bytes are accounted for.
OpenDirectory ==
  /\ InZip
  /\ accounted' = IF EocdCandidates = {} \/ Directory.multidisk THEN accounted
                  ELSE Add(accounted, EocdOffset, EocdEnd(EocdOffset))
  /\ IF DirectoryVerdict = "readable"
     THEN phase' = "zip_directory" /\ cursor' = Directory.start /\ UNCHANGED status
     ELSE Finish(DirectoryVerdict) /\ UNCHANGED cursor
  /\ UNCHANGED <<input, wanted, markers, faults>> /\ NothingRetained

-----------------------------------------------------------------------------
(***************************************************************************)
(* One central entry.                                                      *)
(***************************************************************************)
CentralEnd(o) == o + CentralLen + input.records[o].name + input.records[o].tail

\* "markers" holds the total of the declared sizes here.
Declared(o) == markers + input.records[o].uncompressed

PayloadStart(r) == r.local.at + LocalLen + r.name + r.local.extra
PayloadEnd(r) == PayloadStart(r) + r.compressed
FrameEnd(r) == PayloadEnd(r) + (IF r.local.descriptor THEN DescriptorLen ELSE 0)

LocalAgrees(r) ==
  /\ r.local.at + LocalLen <= input.size
  /\ r.local.agrees
  /\ FrameEnd(r) <= input.size

OverRatio(r) ==
  r.uncompressed > 0 /\ (r.compressed = 0 \/ r.uncompressed > r.compressed * MaxRatio)

\* Why the entry cannot be read, in the order the code asks, NONE when it can.
HeaderFailure(o) ==
  IF o \notin DOMAIN input.records \/ o + CentralLen > input.size THEN "malformed"
  ELSE IF input.records[o].multidisk \/ input.records[o].zip64 THEN "unsupported"
  ELSE IF input.records[o].name > MaxNameBytes THEN "fatal"
  ELSE IF CentralEnd(o) > input.size THEN "malformed"
  ELSE NONE

EntryFailure(o) ==
  IF HeaderFailure(o) # NONE THEN HeaderFailure(o)
  ELSE LET r == input.records[o]
       IN IF r.depth > MaxDepth \/ Declared(o) > MaxTotalBytes \/ OverRatio(r) THEN "fatal"
          ELSE IF ~LocalAgrees(r) THEN "malformed"
          ELSE NONE

EntriesLeft == Len(entries) < Directory.count

ZipVerdict(found, fault) ==
  IF "fatal" \in fault THEN "rejected"
  ELSE IF "unsupported" \in fault THEN "unsupported"
  ELSE IF "malformed" \in fault
       THEN IF found = <<>> THEN "malformed" ELSE "partial"
       ELSE "complete"

MissedEnd(o, fault) == "fatal" \notin fault /\ o # CentralDirectoryEnd

\* Mutant: the parsed extent of the directory is not compared with the declared one.
CloseUnchecked(o, fault) ==
  /\ faults' = fault
  /\ Finish(ZipVerdict(entries, fault))

Close(o, fault) ==
  /\ faults' = IF MissedEnd(o, fault) THEN fault \cup {"malformed"} ELSE fault
  /\ Finish(ZipVerdict(entries, faults'))

\* The header is accounted for, and its size counted, before what follows it fails.
FailEntry ==
  /\ InDirectory /\ EntriesLeft /\ EntryFailure(cursor) # NONE
  /\ accounted' = IF HeaderFailure(cursor) # NONE THEN accounted
                  ELSE Add(accounted, cursor, CentralEnd(cursor))
  /\ Close(cursor, faults \cup {EntryFailure(cursor)})
  /\ UNCHANGED <<input, wanted, cursor, markers>> /\ NothingRetained

ReadsEntry ==
  /\ InDirectory /\ EntriesLeft /\ EntryFailure(cursor) = NONE
  /\ markers' = Declared(cursor)
  /\ accounted' = LET r == input.records[cursor]
                  IN Add(Add(accounted, cursor, CentralEnd(cursor)), r.local.at, FrameEnd(r))
  /\ cursor' = CentralEnd(cursor)
  /\ Going /\ UNCHANGED <<input, wanted>>

LocalRange(r) == <<r.local.at, FrameEnd(r)>>

SizesMatch(r) == r.compressed = r.uncompressed /\ r.crc

\* An encrypted or compressed payload is kept as it is stored and not decoded.
ReadOpaque ==
  /\ ReadsEntry
  /\ LET r == input.records[cursor]
     IN /\ r.encrypted \/ ~r.storedMethod
        /\ Push(Entry(cursor, "unsupported", LocalRange(r), 0))
  /\ stored' = Keep(stored, cursor)
  /\ UNCHANGED faults /\ NothingDecoded

ReadStored ==
  /\ ReadsEntry
  /\ LET r == input.records[cursor]
     IN /\ ~r.encrypted /\ r.storedMethod /\ SizesMatch(r)
        /\ Accept(cursor, LocalRange(r), r.uncompressed)
  /\ UNCHANGED faults

\* Mutant: a payload is released before it is compared with the directory.
ReadMismatchedEarly ==
  /\ ReadsEntry
  /\ LET r == input.records[cursor]
     IN /\ ~r.encrypted /\ r.storedMethod /\ ~SizesMatch(r)
        /\ Push(Entry(cursor, "malformed", LocalRange(r), 0))
  /\ stored' = Keep(stored, cursor)
  /\ decoded' = Keep(decoded, cursor)
  /\ faults' = faults \cup {"malformed"} /\ UNCHANGED decodedBytes

ReadMismatched ==
  /\ ReadsEntry
  /\ LET r == input.records[cursor]
     IN /\ ~r.encrypted /\ r.storedMethod /\ ~SizesMatch(r)
        /\ Push(Entry(cursor, "malformed", LocalRange(r), 0))
  /\ stored' = Keep(stored, cursor)
  /\ faults' = faults \cup {"malformed"} /\ NothingDecoded

EndDirectory ==
  /\ InDirectory /\ ~EntriesLeft
  /\ Close(cursor, faults)
  /\ UNCHANGED <<input, wanted, cursor, markers, accounted>> /\ NothingRetained

ZipNext ==
  \/ OpenDirectory \/ FailEntry \/ ReadOpaque \/ ReadStored \/ ReadMismatched
  \/ EndDirectory
=============================================================================
