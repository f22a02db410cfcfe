----------------------------- MODULE SemanticFacts -----------------------------
(***************************************************************************)
(* What the modern and the legacy semantic profile of sldkit-parser share: *)
(* the facts a builder gathers while it walks the decoded streams of an    *)
(* inventory, the class every stream gets, how a reader ends, and the      *)
(* merging of values several streams claim.                                *)
(*                                                                         *)
(* A stream is an entry [path, index, state, data]: "path" is the kind of  *)
(* stream its path selects, "index" the configuration, the sheet or the    *)
(* version number in that path, "data" what its bytes say.  Payloads are   *)
(* sequences of units, a PNG chunk being one, and the digest of a payload  *)
(* is the payload.  An attribute that does not parse is only a diagnostic  *)
(* in the code and is absent here.                                         *)
(***************************************************************************)
EXTENDS Integers, Sequences, FiniteSets, SequencesExt, TLC

CONSTANTS
  NONE,                                                       \* an absent optional value
  MaxStreamCount, MaxStringBytes, MaxXmlBytes, MaxXmlNodes    \* ResourceLimits

VARIABLES
  content,   \* the bytes being parsed, as their inventory
  hint,      \* the document kind the filename suggests
  at,        \* the next entry of the walk, 0 before it starts
  builder,   \* what the streams so far have said
  facts      \* the facts of the profile, once it has ended

factVars == <<content, hint, at, builder, facts>>

ASSUME LimitAssumption ==
  /\ MaxStreamCount \in Nat /\ MaxStringBytes \in Nat
  /\ MaxXmlBytes \in Nat /\ MaxXmlNodes \in Nat

NoFacts == [ready |-> FALSE]

DocumentKind == {"part", "assembly", "drawing", "unknown"}

-----------------------------------------------------------------------------
(***************************************************************************)
(* Partial maps and optional values.                                       *)
(***************************************************************************)
None(values) == values = <<>>
FirstOf(values) == IF values = <<>> THEN NONE ELSE Head(values)
Put(map, key, value) ==
  [k \in DOMAIN map \cup {key} |-> IF k = key THEN value ELSE map[k]]
Get(map, key) == IF key \in DOMAIN map THEN map[key] ELSE NONE
ListAt(map, key) == IF key \in DOMAIN map THEN map[key] ELSE <<>>
Gather(map, more) ==
  [k \in DOMAIN map \cup DOMAIN more |->
     IF k \in DOMAIN more THEN ListAt(map, k) \o more[k] ELSE map[k]]

\* The elements at some positions, in their order.
Picked(seq, positions) ==
  [n \in 1 .. Cardinality(positions) |->
     seq[CHOOSE k \in positions : Cardinality({j \in positions : j < k}) = n - 1]]

SourceValue(value, origin, entry) == [value |-> value, origin |-> origin, entry |-> entry]

\* Equal values count once, the first claim of each stays.
MergeSourcedValues(values) ==
  Picked(values, {k \in DOMAIN values : \A j \in 1 .. k - 1 : values[j].value # values[k].value})

-----------------------------------------------------------------------------
(***************************************************************************)
(* How a reader ends: with the first thing in the stream it cannot accept. *)
(***************************************************************************)
Present(there) == IF there THEN "ok" ELSE "malformed"
Supported(known) == IF known THEN "ok" ELSE "unsupported"
Within(amount, bound) == IF amount <= bound THEN "ok" ELSE "limit"

FirstFailure(readings) ==
  Head(Append(SelectSeq(readings, LAMBDA reading : reading # "ok"), "ok"))

SemanticClasses ==
  <<"uninterpreted", "fully_interpreted", "partially_interpreted", "malformed">>
Worse(old, new) ==
  LET rank(class) == CHOOSE k \in DOMAIN SemanticClasses : SemanticClasses[k] = class
  IN IF rank(new) > rank(old) THEN new ELSE old

Mark(b, entry, class) == [b EXCEPT !.classes[entry] = Worse(@, class)]

\* A binary reader that failed leaves nothing but a class and perhaps a rejection.
Fail(b, entry, reading) ==
  [Mark(b, entry, IF reading = "malformed" THEN "malformed" ELSE "uninterpreted")
     EXCEPT !.rejected = @ \/ reading = "limit"]

-----------------------------------------------------------------------------
(***************************************************************************)
(* The strings and classes of an MFC archive.                              *)
(***************************************************************************)
ArchiveString(s) ==
  CASE s.form = "empty" -> "ok"
    [] s.form = "cut"   -> "malformed"
    [] s.form = "ascii" -> FirstFailure(<<Within(s.length, MaxStringBytes), Present(s.whole)>>)
    [] s.form = "utf16" -> FirstFailure(<<Within(2 * s.length, MaxStringBytes), Present(s.whole)>>)
    [] OTHER            -> "unsupported"

NewArchiveClass(c) ==
  FirstFailure(<<Within(c.length, MaxStringBytes), Present(c.whole), Supported(c.expected)>>)

\* A configuration record up to its parent; "cut" says whether the stream ends before
\* its second name ("early"), between that and its parent ("late"), or not there.
ArchiveRecord(r, classReading) ==
  FirstFailure(<<classReading, ArchiveString(r.name), Present(r.cut # "early"),
                 ArchiveString(r.repeated), Supported(r.repeated.text = r.name.text),
                 Present(r.cut # "late")>>)

-----------------------------------------------------------------------------
(***************************************************************************)
(* A PNG image inside "bytes" whose signature is at "start".  The legacy   *)
(* reader looks for the header only at the end, but allows no second one.  *)
(***************************************************************************)
PngStart(bytes) == SelectInSeq(bytes, LAMBDA unit : unit = "sig")

Chunk(bytes, start, k) == IF start + k > Len(bytes) THEN "end" ELSE bytes[start + k]

Chunks(bytes, start, n) == {Chunk(bytes, start, j) : j \in 1 .. n}

\* What the k-th chunk does to the walk over the chunks.
ChunkReading(bytes, start, k, legacy) ==
  LET chunk == Chunk(bytes, start, k)
  IN IF k > MaxStreamCount THEN "limit"
     ELSE IF chunk \notin {"IHDR", "IDAT", "TEXT", "IEND"} THEN "malformed"
     ELSE IF ~legacy /\ k = 1 THEN Present(chunk = "IHDR")
     ELSE IF chunk = "IHDR" THEN Present(~legacy \/ k = 1)
     ELSE IF chunk # "IEND" THEN "ok"
     ELSE IF {"IHDR", "IDAT"} \subseteq Chunks(bytes, start, k - 1) THEN "image" ELSE "malformed"

\* The chunk that ends the walk, and how.
Png(bytes, start, legacy) ==
  LET reading(k) == ChunkReading(bytes, start, k, legacy)
      last == CHOOSE k \in 1 .. MaxStreamCount + 1 :
                /\ reading(k) # "ok"
                /\ \A j \in 1 .. k - 1 : reading(j) = "ok"
  IN [reading |-> IF reading(last) = "image" THEN "ok" ELSE reading(last), chunks |-> last]

Resource(entry, kind, offset, payload) ==
  [entry |-> entry, kind |-> kind, path |-> content.entries[entry].path,
   index |-> content.entries[entry].index, offset |-> offset, length |-> Len(payload),
   digest |-> payload]

-----------------------------------------------------------------------------
(***************************************************************************)
(* The walk, its beginning and its end.                                    *)
(***************************************************************************)
Entries == DOMAIN content.entries
Here == content.entries[at]
IsDecoded(e) == content.entries[e].state = "decoded"
Streams(paths) == {e \in Entries : content.entries[e].path \in paths}

Taking(paths) == at \in Entries /\ IsDecoded(at) /\ Here.path \in paths
Advance == at' = at + 1 /\ UNCHANGED <<content, hint, facts>>

Versions == {content.entries[e].index : e \in Streams({"version"})}
InternalVersion ==
  IF Cardinality(Versions) = 1 THEN CHOOSE v \in Versions : TRUE ELSE NONE

\* Every decoded stream is counted in one class; all but the fully
\* interpreted ones are listed as unknown records.
Accounting(classes) ==
  LET decoded == {e \in Entries : IsDecoded(e)}
  IN [total   |-> Cardinality(decoded),
      count   |-> [c \in ToSet(SemanticClasses) |->
                     Cardinality({e \in decoded : classes[e] = c})],
      unknown |-> {[entry |-> e, reason |-> classes[e]] :
                     e \in {d \in decoded : classes[d] # "fully_interpreted"}}]
=============================================================================
