----------------------------- MODULE MCContainers -----------------------------
(***************************************************************************)
(* Files of a few scaled-down bytes for the three walkers.                 *)
(***************************************************************************)
EXTENDS ContainerProperties, TLC

Blank == [size |-> 0, signature |-> "none", cut |-> FALSE, frames |-> <<>>, eocds |-> <<>>,
          records |-> <<>>, streams |-> <<>>,
          header |-> [byteOrder |-> TRUE, version |-> 3, shifts |-> TRUE, declared |-> {1},
                      directory |-> 0, opens |-> TRUE]]

-----------------------------------------------------------------------------
Block == [name |-> 1, readable |-> TRUE, compressed |-> 2, expected |-> 4, inflated |-> 4,
          crc |-> TRUE, cell |-> FALSE, directory |-> FALSE]
Junk == [Block EXCEPT !.compressed = 0]
Frames ==
  {Block, Junk,
   [Block EXCEPT !.name = 0, !.compressed = 4],        \* swallows a marker
   [Block EXCEPT !.crc = FALSE],
   [Block EXCEPT !.inflated = NONE],
   [Block EXCEPT !.inflated = 5],
   [Block EXCEPT !.expected = 7, !.inflated = 7],      \* over the ratio
   [Block EXCEPT !.readable = FALSE, !.cell = TRUE],
   [Junk EXCEPT !.cell = TRUE],
   [Junk EXCEPT !.cell = TRUE, !.name = 4],            \* a marker in its name
   [Block EXCEPT !.directory = TRUE, !.compressed = 9],
   [Junk EXCEPT !.name = 6]}                           \* name over the limit
ModernFiles ==
  {[Blank EXCEPT !.size = s, !.frames = f] :
     s \in {11, 13}, f \in UNION {[o -> Frames] : o \in SUBSET {3, 6, 9} \ {{}}}}
  \cup {[Blank EXCEPT !.size = 2, !.frames = 0 :> Block],    \* ends inside the outer header
        [Blank EXCEPT !.size = 14, !.frames = 12 :> Block],  \* marker beyond the probe window
        [Blank EXCEPT !.size = 14, !.frames = [o \in {3, 5, 7, 9, 11} |-> Junk]]}

-----------------------------------------------------------------------------
StoredRecord ==
  [multidisk |-> FALSE, zip64 |-> FALSE, name |-> 1, tail |-> 0, depth |-> 1,
   compressed |-> 1, uncompressed |-> 1, encrypted |-> FALSE, storedMethod |-> TRUE,
   crc |-> TRUE, local |-> [at |-> 0, agrees |-> TRUE, extra |-> 0, descriptor |-> FALSE]]
Records ==
  {StoredRecord,
   [StoredRecord EXCEPT !.local.at = 1, !.local.descriptor = TRUE],
   [StoredRecord EXCEPT !.crc = FALSE],
   [StoredRecord EXCEPT !.uncompressed = 2],
   [StoredRecord EXCEPT !.uncompressed = 4, !.compressed = 4],
   [StoredRecord EXCEPT !.uncompressed = 4, !.compressed = 5, !.encrypted = TRUE],
   [StoredRecord EXCEPT !.uncompressed = 3, !.storedMethod = FALSE],
   [StoredRecord EXCEPT !.uncompressed = 4],
   [StoredRecord EXCEPT !.multidisk = TRUE],
   [StoredRecord EXCEPT !.name = 6],
   [StoredRecord EXCEPT !.depth = 9],
   [StoredRecord EXCEPT !.tail = 9],
   [StoredRecord EXCEPT !.local.agrees = FALSE],
   [StoredRecord EXCEPT !.local.at = 13]}
EndRecord == [comment |-> 0, multidisk |-> FALSE, zip64 |-> FALSE, count |-> 2, start |-> 6,
              extent |-> 6]
Ends ==
  {12 :> EndRecord,
   12 :> [EndRecord EXCEPT !.count = 1],
   12 :> [EndRecord EXCEPT !.count = 1, !.extent = 3],
   12 :> [EndRecord EXCEPT !.count = 3],
   (12 :> [EndRecord EXCEPT !.comment = 1]) @@ (9 :> [EndRecord EXCEPT !.count = 0]),
   (5 :> EndRecord) @@ (12 :> [EndRecord EXCEPT !.multidisk = TRUE])}
EmptyEnds ==
  {12 :> [EndRecord EXCEPT !.zip64 = TRUE], 12 :> [EndRecord EXCEPT !.count = 5],
   12 :> [EndRecord EXCEPT !.extent = 7], 5 :> EndRecord, <<>>,
   12 :> [EndRecord EXCEPT !.count = 0, !.extent = 0]}
ZipFiles ==
  {[Blank EXCEPT !.size = 14, !.signature = "zip", !.eocds = e,
                 !.records = (6 :> r) @@ (9 :> q)] : e \in Ends, r \in Records, q \in Records}
  \cup {[Blank EXCEPT !.size = 14, !.signature = "zip", !.eocds = e] : e \in EmptyEnds}

-----------------------------------------------------------------------------
Plain == [stream |-> TRUE, name |-> 1, depth |-> 1, len |-> 2, readable |-> TRUE,
          zlb |-> FALSE, wrapped |-> FALSE, member |-> 0, expected |-> 0, inflated |-> 0]
Wrapped == [Plain EXCEPT !.zlb = TRUE, !.wrapped = TRUE, !.len = 4, !.member = 2,
                         !.expected = 5, !.inflated = 5]
Facts ==
  {Plain, [Plain EXCEPT !.stream = FALSE], [Plain EXCEPT !.readable = FALSE],
   [Plain EXCEPT !.len = 4], [Plain EXCEPT !.name = 6], [Plain EXCEPT !.depth = 9],
   Wrapped, [Wrapped EXCEPT !.wrapped = FALSE], [Wrapped EXCEPT !.member = 1],
   [Wrapped EXCEPT !.inflated = 4], [Wrapped EXCEPT !.expected = 7],
   [Wrapped EXCEPT !.len = 1, !.member = 0, !.expected = 0]}
BadHeaders ==
  {[Blank.header EXCEPT !.byteOrder = FALSE], [Blank.header EXCEPT !.version = 2],
   [Blank.header EXCEPT !.shifts = FALSE], [Blank.header EXCEPT !.declared = {4}],
   [Blank.header EXCEPT !.version = 4, !.directory = 2],
   [Blank.header EXCEPT !.version = 4], [Blank.header EXCEPT !.opens = FALSE]}
Ole2Files ==
  {[Blank EXCEPT !.size = 9, !.signature = "ole2", !.streams = s] :
     s \in UNION {[1 .. n -> Facts] : n \in 0 .. 3} \cup {<<Plain, Plain, Plain, Plain, Plain>>}}
  \cup {[Blank EXCEPT !.size = s, !.signature = "ole2", !.header = h] :
          s \in {1, 3, 9}, h \in BadHeaders}

OtherFiles ==
  {[Blank EXCEPT !.size = 99], [Blank EXCEPT !.size = 3, !.cut = TRUE], [Blank EXCEPT !.size = 3]}

MCInputs == ModernFiles \cup ZipFiles \cup Ole2Files \cup OtherFiles
MCSectorSize == [v \in {3, 4} |-> IF v = 3 THEN 2 ELSE 4]
=============================================================================
