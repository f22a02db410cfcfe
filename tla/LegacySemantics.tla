---------------------------- MODULE LegacySemantics ----------------------------
(***************************************************************************)
(* The semantic profile of legacy documents (legacy_semantics.rs): OLE     *)
(* property sets, the configuration header of two observed versions, and   *)
(* PNG or bitmap previews in an OLE2 file.  A reader that fails leaves     *)
(* nothing of its stream behind.                                           *)
(*                                                                         *)
(* A property set keeps its byte layout: sections and properties lie at    *)
(* offsets of their own choice.  A value is known by what the code asks of *)
(* it: its width, its text, its terminator.                                *)
(***************************************************************************)
EXTENDS SemanticFacts

CONSTANT LegacyVersions     \* the versions whose configuration header is read

PropertySetStreams == {"/summary", "/information", "/config_properties"}
PreviewStreams == {"/preview", "/config_preview"}
LegacySelected == PropertySetStreams \cup PreviewStreams \cup {"/header"}

\* What makes an OLE2 file a SolidWorks document.
IsSolidWorksCandidate(entries) ==
  \E e \in DOMAIN entries :
    \/ entries[e].path = "/" /\ entries[e].data.clsid \in {"part", "assembly"}
    \/ entries[e].path \in {"version", "/dl_version", "/information", "/cmgr", "/header"}

LegacyBuilder ==
  [configs |-> <<>>, properties |-> <<>>, preview |-> NONE, configPreviews |-> <<>>,
   classes |-> [e \in Entries |-> "uninterpreted"], rejected |-> FALSE]

LegacyCandidate == [name |-> NONE, parentIndex |-> NONE]

EnsureLegacyConfigs(configs, indices) ==
  [i \in DOMAIN configs \cup indices |->
     IF i \in DOMAIN configs THEN configs[i] ELSE LegacyCandidate]

LegacyConfigPaths == Streams({"/config_contents", "/config_properties", "/config_preview"})

LegacyStart ==
  /\ at = 0
  /\ IsSolidWorksCandidate(content.entries)
  /\ at' = 1
  /\ builder' = [LegacyBuilder EXCEPT !.configs =
       EnsureLegacyConfigs(@, {content.entries[e].index : e \in LegacyConfigPaths})]
  /\ UNCHANGED <<content, hint, facts>>

-----------------------------------------------------------------------------
(***************************************************************************)
(* Property sets.                                                          *)
(***************************************************************************)
TableEnd(section) == 8 + 8 * section.count

\* The properties by offset; those of one offset stay in the order of the table.
InOrder(section) ==
  LET listed == section.properties
      before(k) == {j \in DOMAIN listed :
                      listed[j].at < listed[k].at \/ (listed[j].at = listed[k].at /\ j < k)}
  IN [n \in DOMAIN listed |->
        listed[CHOOSE k \in DOMAIN listed : Cardinality(before(k)) = n - 1]]

\* A property ends where the next one starts.
EndOf(section, p) ==
  LET later == {q.at : q \in {r \in ToSet(section.properties) : r.at > p.at}}
  IN IF later = {} THEN section.size ELSE CHOOSE o \in later : \A other \in later : o <= other

WithId(section, id) == SelectSeq(InOrder(section), LAMBDA p : p.id = id)

CodePage(section) ==
  LET declared == FirstOf(WithId(section, 1))
  IN IF declared = NONE \/ declared.form # "i2" THEN NONE ELSE declared.value

IsWide(p, page) == p.form = "wide_string" \/ page = 1200
BytesOf(length, wide) == IF wide THEN 2 * length ELSE length

\* The names of a dictionary follow each other inside the extent of their
\* property; those of two bytes a unit end on offsets of the stream that four divides.
DictionaryReading(section, p, page) ==
  LET wide == page = 1200
      size(k) == BytesOf(p.names[k].length, wide)
      padded(offset) == IF wide THEN ((offset + 3) \div 4) * 4 ELSE offset
      start[k \in DOMAIN p.names] ==
        IF k = 1 THEN section.offset + p.at + 12 ELSE padded(start[k - 1] + size(k - 1)) + 8
      name(k) ==
        IF k \notin DOMAIN p.names THEN "malformed"
        ELSE FirstFailure(<<Within(size(k), MaxStringBytes),
                            Present(padded(start[k] + size(k))
                                      <= section.offset + EndOf(section, p))>>)
  IN FirstFailure(<<Within(p.count, MaxStreamCount)>> \o [k \in 1 .. p.count |-> name(k)])

\* A scalar is read wherever the stream has bytes for it.
ScalarFits(data, section, p) == section.offset + p.at + 4 + p.width <= data.length

StringReading(section, p, page) ==
  LET size == BytesOf(p.length, IsWide(p, page))
  IN FirstFailure(<<Within(size, MaxStringBytes),
                    Present(p.at + 8 + size <= EndOf(section, p)),
                    Present(IsWide(p, page) => p.text # "bytes")>>)

ValueReading(data, section, p) ==
  FirstFailure(<<Present(p.at + 4 <= EndOf(section, p)),
    CASE p.form \in {"i2", "scalar"} -> Present(ScalarFits(data, section, p))
      [] p.form \in {"string", "wide_string"} -> StringReading(section, p, CodePage(section))
      [] OTHER -> "ok">>)

SectionReading(data, section) ==
  LET dictionary == FirstOf(WithId(section, 0))
      values == SelectSeq(InOrder(section), LAMBDA p : p.id # 0)
  IN FirstFailure(
       <<Present(section.size >= 8 /\ section.offset + section.size <= data.length),
         Within(section.count, MaxStreamCount),
         Present(TableEnd(section) <= section.size)>> \o
       [k \in DOMAIN section.properties |->
          Present(section.properties[k].at \in TableEnd(section) .. section.size - 1)] \o
       <<Present(\A j, k \in DOMAIN section.properties :
                   section.properties[j].at = section.properties[k].at => j = k),
         IF dictionary = NONE THEN "ok"
         ELSE DictionaryReading(section, dictionary, CodePage(section))>> \o
       [k \in DOMAIN values |-> ValueReading(data, section, values[k])])

PropertySetReading(data) ==
  LET headerEnd == 28 + 20 * data.count
  IN FirstFailure(
       <<Present(data.littleEndian), Present(data.length >= 4), Supported(data.version <= 1),
         Present(data.length >= 28), Within(data.count, MaxStreamCount),
         Present(data.length >= headerEnd)>> \o
       [k \in DOMAIN data.sections |->
          Present(data.sections[k].offset \in headerEnd .. data.length - 1)] \o
       [k \in DOMAIN data.sections |-> SectionReading(data, data.sections[k])])

-----------------------------------------------------------------------------
(***************************************************************************)
(* What a property says.                                                   *)
(***************************************************************************)
IsString(p) == p.form \in {"string", "wide_string"}

Decodable(p, page) ==
  \/ IsWide(p, page)
  \/ p.text \in {"", "ascii"}
  \/ page = 65001 /\ p.text = "utf8"

StateOf(p, page) ==
  CASE p.form = "empty" -> "missing"
    [] IsString(p) /\ Decodable(p, page) -> IF p.text = "" THEN "empty" ELSE "present"
    [] p.form \in {"i2", "scalar"} /\ p.known -> "present"
    [] OTHER -> "unsupported"

FullyInterpreted(p, page) ==
  /\ p.padding = 0
  /\ StateOf(p, page) # "unsupported"
  /\ IsString(p) => p.terminated /\ (IsWide(p, page) \/ page # NONE)

KnownFormats == {"summary", "document_summary", "user_defined"}

IsStandard(format, id) ==
  \/ format \in KnownFormats /\ id = 1
  \/ format = "summary" /\ id \in 2 .. 19
  \/ format = "document_summary"
       /\ id \in (2 .. 11) \cup (14 .. 17) \cup {19, 20, 22, 23} \cup (26 .. 29)

\* The last name the dictionary has for an identifier, if it could be decoded.
DictionaryName(section, id) ==
  LET dictionary == FirstOf(WithId(section, 0))
      names == IF dictionary = NONE THEN <<>>
               ELSE SelectSeq(SubSeq(dictionary.names, 1, dictionary.count),
                              LAMBDA n : n.id = id /\ n.decodable)
  IN IF names = <<>> THEN NONE ELSE Last(names).text

PropertyName(section, id) ==
  IF IsStandard(section.format, id) THEN [name |-> "standard", origin |-> "derived"]
  ELSE IF DictionaryName(section, id) # NONE
  THEN [name |-> DictionaryName(section, id), origin |-> "source"]
  ELSE [name |-> "PID", origin |-> "derived"]

LegacyKind(format, default) ==
  CASE format \in {"summary", "document_summary"} -> "core"
    [] format = "user_defined" -> IF default = "system" THEN "system" ELSE "custom"
    [] OTHER -> default

LegacyProperty(section, p, default) ==
  LET page == CodePage(section)
      first == section.offset + p.at
      named == PropertyName(section, p.id)
  IN [name |-> named.name, origin |-> named.origin, pid |-> p.id,
      kind |-> LegacyKind(section.format, default), state |-> StateOf(p, page), entry |-> at,
      index |-> IF Here.path = "/config_properties" THEN Here.index ELSE NONE,
      extent |-> [from |-> first, to |-> section.offset + EndOf(section, p)],
      bytes |-> [from |-> first,
                 to |-> CASE p.form \in {"i2", "scalar"} -> first + 4 + p.width
                          [] IsString(p) -> first + 8 + BytesOf(p.length, IsWide(p, page))
                          [] OTHER -> first + 4]]

LegacyProperties(section, default) ==
  LET ordered == InOrder(section)
      values == Picked(ordered, {k \in DOMAIN ordered : ordered[k].id # 0})
  IN [k \in DOMAIN values |-> LegacyProperty(section, values[k], default)]

SetIsFull(data) ==
  \A k \in DOMAIN data.sections :
    LET section == data.sections[k]
    IN /\ section.format \in KnownFormats
       /\ \A j \in DOMAIN section.properties :
            section.properties[j].id # 0
              => FullyInterpreted(section.properties[j], CodePage(section))

DefaultKind(path) ==
  CASE path = "/summary" -> "core" [] path = "/information" -> "system" [] OTHER -> "custom"

\* Mutant: the sections before the one that fails are kept.
KeepReadSections ==
  /\ Taking(PropertySetStreams)
  /\ LET data == Here.data
         reading == PropertySetReading(data)
         read == SelectSeq(data.sections, LAMBDA s : SectionReading(data, s) = "ok")
         found == FlattenSeq([k \in DOMAIN read |-> LegacyProperties(read[k], DefaultKind(Here.path))])
     IN builder' = [IF reading # "ok" THEN Fail(builder, at, reading)
                    ELSE Mark(builder, at, "partially_interpreted")
                      EXCEPT !.properties = @ \o found]
  /\ Advance

DecodePropertySet ==
  /\ Taking(PropertySetStreams)
  /\ LET data == Here.data
         reading == PropertySetReading(data)
         found == FlattenSeq([k \in DOMAIN data.sections |->
                                LegacyProperties(data.sections[k], DefaultKind(Here.path))])
     IN builder' =
          IF reading # "ok" THEN Fail(builder, at, reading)
          ELSE [Mark(builder, at, IF SetIsFull(data) THEN "fully_interpreted"
                                  ELSE "partially_interpreted")
                  EXCEPT !.properties = @ \o found]
  /\ Advance

-----------------------------------------------------------------------------
(***************************************************************************)
(* The configuration header: one record.                                   *)
(***************************************************************************)
LegacyClass(c) ==
  CASE c.form = "cut" -> "malformed"
    [] c.form = "new" -> NewArchiveClass(c)
    [] OTHER -> "unsupported"

LegacyHeaderReading(header) ==
  FirstFailure(<<LegacyClass(header.class), Within(header.count, MaxStreamCount),
                 Supported(header.count = 1),
                 IF header.records = <<>> THEN "malformed"
                 ELSE ArchiveRecord(header.records[1], LegacyClass(header.records[1].class))>>)

DecodeLegacyHeader ==
  /\ Taking({"/header"})
  /\ LET reading == LegacyHeaderReading(Here.data)
         record == Here.data.records[1]
         parent == IF record.parent = NONE THEN NONE ELSE SourceValue(record.parent, "source", at)
         ensured == EnsureLegacyConfigs(builder.configs, {record.index})
     IN builder' =
          IF InternalVersion \notin LegacyVersions THEN Mark(builder, at, "uninterpreted")
          ELSE IF reading # "ok" THEN Fail(builder, at, reading)
          ELSE [Mark(builder, at, "partially_interpreted") EXCEPT !.configs =
                  [ensured EXCEPT ![record.index] =
                     [name |-> SourceValue(record.name.text, "source", at),
                      parentIndex |-> IF parent = NONE THEN @.parentIndex ELSE parent]]]
  /\ Advance

-----------------------------------------------------------------------------
(***************************************************************************)
(* Previews: a PNG image, or a bitmap behind its length.                   *)
(***************************************************************************)
IsPng(bytes) == bytes # <<>> /\ Head(bytes) = "sig"

BitmapReading(data) ==
  IF Len(data.bytes) < 1 + data.declared THEN "malformed"
  ELSE IF data.declared < 1 \/ data.bitmap = "other_header" THEN "unsupported"
  ELSE IF data.bitmap = "no_area" THEN "malformed"
  ELSE Supported(data.bitmap # "other_encoding")

PreviewReading(data) ==
  IF IsPng(data.bytes) THEN Png(data.bytes, 1, TRUE).reading ELSE BitmapReading(data)

PreviewOf(data) ==
  IF IsPng(data.bytes)
  THEN Resource(at, "png", 0, SubSeq(data.bytes, 1, 1 + Png(data.bytes, 1, TRUE).chunks))
  ELSE Resource(at, "bitmap", 1, SubSeq(data.bytes, 2, 1 + data.declared))

\* An image is preferred to a bitmap; among equals the first one stays.
Preferred(current, candidate) ==
  IF current = NONE \/ (current.kind = "bitmap" /\ candidate.kind = "png")
  THEN candidate ELSE current

DecodeLegacyPreview ==
  /\ Taking(PreviewStreams)
  /\ LET reading == PreviewReading(Here.data)
         image == PreviewOf(Here.data)
         taken == Mark(builder, at, "partially_interpreted")
     IN builder' =
          IF reading # "ok" THEN Fail(builder, at, reading)
          ELSE IF Here.path = "/preview" THEN [taken EXCEPT !.preview = Preferred(@, image)]
          ELSE [taken EXCEPT !.configPreviews =
                  Put(@, Here.index, Preferred(Get(@, Here.index), image))]
  /\ Advance

LegacySkip ==
  /\ at \in Entries
  /\ ~(IsDecoded(at) /\ Here.path \in LegacySelected)
  /\ at' = at + 1
  /\ UNCHANGED <<content, hint, builder, facts>>

-----------------------------------------------------------------------------
(***************************************************************************)
(* The end.  The class of the root storage tells the kind.                 *)
(***************************************************************************)
LegacyDocumentKind ==
  LET root == FirstOf(Picked(content.entries,
                {e \in Streams({"/"}) : content.entries[e].data.clsid \in {"part", "assembly"}}))
  IN IF root = NONE THEN [value |-> hint, origin |-> "hint"]
     ELSE [value |-> root.data.clsid, origin |-> "source"]

LegacyFacts(b) ==
  [ready |-> TRUE, profile |-> "legacy",
   kind |-> LegacyDocumentKind, version |-> InternalVersion,
   configurations |->
     [i \in DOMAIN b.configs |->
        [origin |-> "source", name |-> b.configs[i].name, alternates |-> <<>>,
         parentName |-> NONE, parentIndex |-> b.configs[i].parentIndex,
         preview |-> Get(b.configPreviews, i), components |-> <<>>]],
   properties |-> b.properties, references |-> <<>>, preview |-> b.preview, sheets |-> <<>>,
   embedded |-> <<>>, coverage |-> Accounting(b.classes), rejected |-> b.rejected]

LegacyFinish ==
  /\ at = Len(content.entries) + 1
  /\ ~facts.ready
  /\ facts' = LegacyFacts(builder)
  /\ UNCHANGED <<content, hint, at, builder>>

LegacyStep ==
  /\ content.envelope = "ole2"
  /\ \/ LegacyStart
     \/ DecodePropertySet \/ DecodeLegacyHeader \/ DecodeLegacyPreview
     \/ LegacySkip
     \/ LegacyFinish
=============================================================================
