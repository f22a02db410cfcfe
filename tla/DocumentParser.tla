----------------------------- MODULE DocumentParser -----------------------------
(***************************************************************************)
(* The entry points of sldkit-parser (lib.rs): a path is opened, sized and *)
(* read under the file-size limit while others may write to it; the bytes  *)
(* are walked as a container and handed to the profile of their envelope;  *)
(* what the parser described is extracted later from whatever the path     *)
(* holds by then.                                                          *)
(*                                                                         *)
(* A file is [size, envelope, status, entries]: its length, and what the   *)
(* container walk (ContainerScan) makes of it.                             *)
(***************************************************************************)
EXTENDS ModernResolution, LegacySemantics

CONSTANTS
  Files,         \* what the path may hold when it is opened
  Replacements,  \* what others may write to it
  Extensions,    \* the extensions of the path
  MaxFileSize,   \* ResourceLimits::max_file_size
  MaxChanges     \* bound: how often the path is written to

VARIABLES
  disk,      \* what the path holds, NONE when it cannot be read
  changes,   \* how often that changed
  reader,    \* the read under way
  result,    \* ParseResult, or NONE
  released   \* StreamExtraction of a resource, or NONE

parserVars == <<disk, changes, reader, result, released>>
vars == <<factVars, parserVars>>

ASSUME ParserAssumption == MaxFileSize \in Nat /\ MaxChanges \in Nat

ParseResult ==
  [status : {"rejected", "malformed", "unsupported", "partial"}, document : BOOLEAN,
   notes : SUBSET {"extension_mismatch", "unsupported", "profile_partial"}, bytes : Nat]

\* A name that is claimed for a configuration.
RankedName == [rank : 0 .. 3, value : STRING, origin : {"source", "derived"}, entry : Nat]

ASSUME NoneAssumption == NONE \notin ParseResult /\ NONE \notin RankedName

IsList(s) == s \in Seq(ToSet(s))

PictureStreams == {"preview", "config_preview", "sheet_preview"} \cup PreviewStreams

\* An element that names a configuration, its rank and what it says of a parent.
IsNode(node) ==
  node.rank \in 0 .. 1 /\ IsList(node.parentNames) /\ IsList(node.parentIndices)

\* Names are text.
IsText(name) == name # NONE => name \in STRING

\* What the readers take for granted of a decoded stream: bytes, names, elements and
\* records are lists.
IsStream(path, data) ==
  /\ path \in PictureStreams => IsList(data.bytes)
  /\ path \in PreviewStreams => data.declared \in Nat
  /\ path \in PropertyStreams =>
       /\ IsList(data.properties)
       /\ \A k \in DOMAIN data.properties :
            data.properties[k].name = "Configuration" /\ data.properties[k].state = "present"
              => data.properties[k].value \in STRING
  /\ path = "core" => IsList(data.texts)
  /\ path \in {"features", "tree", "keywords"} =>
       /\ IsList(data.configs)
       /\ \A k \in DOMAIN data.configs : IsNode(data.configs[k]) /\ IsText(data.configs[k].name)
  /\ path = "features" => IsList(data.files)
  /\ path = "tree" =>
       IsList(data.models) /\ \A k \in DOMAIN data.models : IsList(data.models[k].references)
  /\ path = "keywords" =>
       IsList(data.sheets) /\ \A k \in DOMAIN data.sheets : IsList(data.sheets[k].views)
  /\ path = "sheet_names" => data.count \in Nat
  /\ path = "header" =>
       /\ data.count \in Nat
       /\ HeaderReading(data) = "ok" => \A k \in 1 .. data.count : IsText(data.records[k].name.text)
  /\ path \in PropertySetStreams =>
       IsList(data.sections) /\ \A k \in DOMAIN data.sections : IsList(data.sections[k].properties)

\* Configurations are numbered in the paths of their streams.
IsFile(file) ==
  /\ file.size \in Nat
  /\ IsList(file.entries)
  /\ \A entry \in {file.entries[e] : e \in DOMAIN file.entries} :
       /\ entry.path \in {"config_properties", "config_preview"} => entry.index # NONE
       /\ entry.state = "decoded" => IsStream(entry.path, entry.data)

ASSUME FileAssumption == \A file \in Files \cup Replacements : IsFile(file)

Unread == [size |-> 0, envelope |-> "unread", status |-> "unread", entries |-> <<>>]

Idle == [phase |-> "idle", job |-> NONE, resource |-> NONE]

DocumentKindHint(extension) ==
  CASE extension = "sldprt" -> "part"
    [] extension = "sldasm" -> "assembly"
    [] extension = "slddrw" -> "drawing"
    [] OTHER -> "unknown"

ParserInit ==
  /\ disk \in Files \cup {NONE}
  /\ changes = 0
  /\ reader = Idle
  /\ result = NONE
  /\ released = NONE
  /\ content = Unread
  /\ \E extension \in Extensions : hint = DocumentKindHint(extension)
  /\ at = 0
  /\ builder = NONE
  /\ facts = NoFacts

\* Someone else writes the file, or removes it.
Rewrite ==
  /\ changes < MaxChanges
  /\ disk' \in (Replacements \cup {NONE}) \ {disk}
  /\ changes' = changes + 1
  /\ UNCHANGED <<factVars, reader, result, released>>

-----------------------------------------------------------------------------
(***************************************************************************)
(* read_path_bounded: the length is checked when the file is opened and    *)
(* again when it has been read, at most one byte beyond the limit.         *)
(***************************************************************************)
Rejection(bytes) ==
  [status |-> "rejected", document |-> FALSE, notes |-> {}, bytes |-> bytes]

\* What a job answers when its bytes could not be had.
Refuse(bytes) ==
  /\ reader' = Idle
  /\ IF reader.job = "parse"
     THEN result' = Rejection(bytes) /\ UNCHANGED released
     ELSE released' = [status |-> "rejected", data |-> NONE, resource |-> reader.resource]
          /\ UNCHANGED result
  /\ UNCHANGED <<factVars, disk, changes>>

Begin(job, resource) ==
  /\ reader = Idle
  /\ reader' = [phase |-> "opening", job |-> job, resource |-> resource]
  /\ UNCHANGED <<factVars, disk, changes, result, released>>

ParsePath == result = NONE /\ Begin("parse", NONE)

CannotOpen == reader.phase = "opening" /\ disk = NONE /\ Refuse(0)

TooLarge ==
  /\ reader.phase = "opening"
  /\ disk # NONE
  /\ disk.size > MaxFileSize
  /\ Refuse(disk.size)

Open ==
  /\ reader.phase = "opening"
  /\ disk # NONE
  /\ disk.size <= MaxFileSize
  /\ reader' = [reader EXCEPT !.phase = "opened"]
  /\ UNCHANGED <<factVars, disk, changes, result, released>>

\* A file that was removed can still be read through its handle, but may also fail.
CannotRead == reader.phase = "opened" /\ disk = NONE /\ Refuse(0)

\* Mutant: not one byte beyond the limit is asked for.
BytesTaken(file) == IF file.size > MaxFileSize THEN MaxFileSize ELSE file.size

\* take(max_file_size + 1)
BytesRead(file) == IF file.size > MaxFileSize THEN MaxFileSize + 1 ELSE file.size

GrownTooLarge ==
  /\ reader.phase = "opened"
  /\ disk # NONE
  /\ BytesRead(disk) > MaxFileSize
  /\ Refuse(BytesRead(disk))

Fits == reader.phase = "opened" /\ disk # NONE /\ BytesRead(disk) <= MaxFileSize

ReadForParsing ==
  /\ Fits
  /\ reader.job = "parse"
  /\ reader' = [reader EXCEPT !.phase = "parsing"]
  /\ content' = disk
  /\ UNCHANGED <<hint, at, builder, facts, disk, changes, result, released>>

-----------------------------------------------------------------------------
(***************************************************************************)
(* Dispatch on the envelope.                                               *)
(***************************************************************************)
Parsing == reader.phase = "parsing"

ExtensionNotes == IF content.envelope # "none" /\ hint = "unknown" THEN {"extension_mismatch"} ELSE {}

Answer(status, document, notes) ==
  /\ Parsing
  /\ reader' = Idle
  /\ result' = [status |-> status, document |-> document, bytes |-> content.size,
                notes |-> notes \cup ExtensionNotes]
  /\ UNCHANGED <<factVars, disk, changes, released>>

InspectionFailed ==
  /\ content.status \in {"rejected", "malformed"}
  /\ Answer(content.status, FALSE, {})

NothingRecognized ==
  /\ content.status = "unsupported"
  /\ content.envelope = "none"
  /\ Answer("unsupported", FALSE, {})

Walked == content.status \in {"complete", "partial", "unsupported"} /\ content.envelope # "none"

HasProfile ==
  \/ content.envelope = "modern"
  \/ content.envelope = "ole2" /\ IsSolidWorksCandidate(content.entries)

RecognizedButUnsupported ==
  /\ Walked
  /\ ~HasProfile
  /\ Answer("unsupported", TRUE, {"unsupported"})

\* Mutant: a profile that was stopped by a limit has no answer.
RecognizedUnlessRejected ==
  /\ facts.ready
  /\ ~facts.rejected
  /\ Answer("partial", TRUE, {"profile_partial"})

Recognized ==
  /\ facts.ready
  /\ Answer(IF facts.rejected THEN "rejected" ELSE "partial", TRUE,
            IF facts.rejected THEN {} ELSE {"profile_partial"})

\* recognized_modern and recognized_legacy run their profile.
Profile ==
  /\ Parsing
  /\ Walked
  /\ ModernStep \/ LegacyStep
  /\ UNCHANGED parserVars

-----------------------------------------------------------------------------
(***************************************************************************)
(* extract_resource_path: the entry the descriptor names is decoded again, *)
(* and its path, the range and the digest are compared.                    *)
(***************************************************************************)
Descriptors ==
  IF ~facts.ready THEN {}
  ELSE ({facts.preview} \cup {facts.configurations[i].preview : i \in DOMAIN facts.configurations}
        \cup {facts.sheets[k].preview : k \in DOMAIN facts.sheets}) \ {NONE}

ExtractResource ==
  /\ result # NONE
  /\ released = NONE
  /\ \E resource \in Descriptors : Begin("extract", resource)

Payload(entry) ==
  IF entry.path \in PictureStreams THEN entry.data.bytes ELSE <<>>

RangeFits(file, resource) ==
  resource.offset + resource.length <= Len(Payload(file.entries[resource.entry]))

\* Mutant: the digest of the range is not compared.
RevalidatedByRange(file, resource) ==
  /\ file.entries[resource.entry].path = resource.path
  /\ RangeFits(file, resource)

Revalidated(file, resource) ==
  LET entry == file.entries[resource.entry]
  IN /\ entry.path = resource.path /\ entry.index = resource.index
     /\ RangeFits(file, resource)
     /\ SubSeq(Payload(entry), resource.offset + 1, resource.offset + resource.length)
          = resource.digest

\* Only an entry of a walked container that decodes can be extracted at all.
Extractable(file, resource) ==
  /\ file.status \in {"complete", "partial", "unsupported"}
  /\ resource.entry \in DOMAIN file.entries
  /\ file.entries[resource.entry].state = "decoded"

Release ==
  /\ Fits
  /\ reader.job = "extract"
  /\ reader' = Idle
  /\ LET resource == reader.resource
         answer(status, data) == [status |-> status, data |-> data, resource |-> resource]
     IN released' =
          IF ~Extractable(disk, resource) THEN answer("unavailable", NONE)
          ELSE IF ~Revalidated(disk, resource) THEN answer("malformed", NONE)
          ELSE answer("extracted",
                      SubSeq(Payload(disk.entries[resource.entry]), resource.offset + 1,
                             resource.offset + resource.length))
  /\ UNCHANGED <<factVars, disk, changes, result>>

-----------------------------------------------------------------------------
ReadStep ==
  \/ ParsePath \/ CannotOpen \/ TooLarge \/ Open \/ CannotRead \/ GrownTooLarge
  \/ ReadForParsing \/ Release

AnswerStep ==
  \/ InspectionFailed \/ NothingRecognized \/ RecognizedButUnsupported \/ Recognized

ParserNext == Rewrite \/ ReadStep \/ Profile \/ AnswerStep \/ ExtractResource

\* The call runs to its end; nobody has to write the file or to ask for a resource.
ParserSpec ==
  ParserInit /\ [][ParserNext]_vars /\ WF_vars(ReadStep \/ Profile \/ AnswerStep)
=============================================================================
