---------------------------- MODULE ModernSemantics ----------------------------
(***************************************************************************)
(* The semantic profile of modern documents (modern_semantics.rs): a walk  *)
(* over the decoded streams of the inventory, in stored order, that        *)
(* gathers properties, configurations, components, references, sheets and  *)
(* previews, and the resolution of what several streams claim.             *)
(*                                                                         *)
(* Left out: labels, transforms, numbers and the other attributes that are *)
(* only copied, and what is kept of a value besides its first stream.      *)
(***************************************************************************)
EXTENDS SemanticFacts

CONSTANT ObservedVersion    \* CONFIGURATION_MANAGER_OBSERVED_VERSION

PropertyStreams == {"custom", "information", "config_properties"}
ModernSelected ==
  PropertyStreams \cup {"core", "features", "tree", "keywords", "header", "preview",
                        "sheet_names", "config_preview", "sheet_preview"}

NewCandidate == [origin |-> NONE, names |-> <<>>, parentNames |-> <<>>, parentIndices |-> <<>>]

EmptyBuilder ==
  [kinds |-> {}, configs |-> <<>>, properties |-> <<>>, components |-> <<>>,
   materials |-> <<>>, boxes |-> <<>>, references |-> <<>>, preview |-> NONE,
   configPreviews |-> <<>>, sheets |-> <<>>, sheetNames |-> <<>>, sheetPreviews |-> <<>>,
   features |-> 0, embedded |-> <<>>,
   classes |-> [e \in Entries |-> "uninterpreted"], rejected |-> FALSE]

-----------------------------------------------------------------------------
(***************************************************************************)
(* Before the walk: embedded documents, versions, configurations in paths. *)
(***************************************************************************)
Candidate(configs, index) ==
  IF index \in DOMAIN configs THEN configs[index] ELSE NewCandidate

EnsureConfigs(configs, indices) ==
  [i \in DOMAIN configs \cup indices |->
     IF i \in indices THEN [Candidate(configs, i) EXCEPT !.origin = "source"] ELSE configs[i]]

CollectEmbeddedDocuments(b) ==
  LET embedded == SelectSeq([e \in Entries |-> e],
                            LAMBDA e : IsDecoded(e) /\ content.entries[e].path = "embedded")
  IN [b EXCEPT !.embedded =
        [k \in DOMAIN embedded |->
           [entry |-> embedded[k], envelope |-> content.entries[embedded[k]].data.probe]],
      !.classes = [e \in Entries |-> IF e \in ToSet(embedded)
                                     THEN Worse(@[e], "partially_interpreted") ELSE @[e]]]

CollectVersionCandidates(b) ==
  [b EXCEPT !.classes =
     [e \in Entries |-> IF e \in Streams({"version"}) /\ IsDecoded(e)
                        THEN Worse(@[e], "partially_interpreted") ELSE @[e]]]

ConfigPaths == Streams({"config_properties", "config_preview"})

CollectConfigPaths(b) ==
  [b EXCEPT !.configs = EnsureConfigs(@, {content.entries[e].index : e \in ConfigPaths})]

ModernStart ==
  /\ at = 0
  /\ at' = 1
  /\ builder' = CollectConfigPaths(CollectVersionCandidates(
                                     CollectEmbeddedDocuments(EmptyBuilder)))
  /\ UNCHANGED <<content, hint, facts>>

-----------------------------------------------------------------------------
(***************************************************************************)
(* XML streams.  Those that fail are malformed even when a limit stops     *)
(* them.                                                                   *)
(***************************************************************************)
ParseXml(xml) ==
  FirstFailure(<<Within(xml.bytes, MaxXmlBytes), Present(xml.wellFormed),
                 Within(xml.nodes, MaxXmlNodes)>>)

\* What an XML stream does to the builder, "gathered" being the builder with what it says.
TakeXml(gathered) ==
  LET reading == ParseXml(Here.data.xml)
  IN builder' = IF reading = "ok"
                THEN Mark(gathered, at, "partially_interpreted")
                ELSE [Mark(builder, at, "malformed") EXCEPT !.rejected = @ \/ reading = "limit"]

Property(name, of, value, state, kind, index) ==
  [name |-> name, of |-> of, value |-> value, state |-> state, kind |-> kind,
   index |-> index, configuration |-> NONE, entry |-> at]

PropertyKindOf(path) == IF path = "information" THEN "system" ELSE "custom"

\* The properties of the selected sections: user-defined ones unless the kind is system.
DecodePropertyXml ==
  /\ Taking(PropertyStreams)
  /\ LET kind == PropertyKindOf(Here.path)
         index == IF Here.path = "config_properties" THEN Here.index ELSE NONE
         listed == Here.data.properties
         chosen == Picked(listed, {k \in DOMAIN listed : kind = "custom" => listed[k].section = "user"})
     IN TakeXml([builder EXCEPT !.properties = @ \o
          [k \in DOMAIN chosen |->
             Property(chosen[k].name, chosen[k].of, chosen[k].value, chosen[k].state,
                      kind, index)]])
  /\ Advance

DecodeCoreXml ==
  /\ Taking({"core"})
  /\ TakeXml([builder EXCEPT !.properties = @ \o
       [k \in DOMAIN Here.data.texts |->
          Property(Here.data.texts[k].name, NONE, Here.data.texts[k].value,
                   IF Here.data.texts[k].value = "" THEN "empty" ELSE "present",
                   "core", NONE)]])
  /\ Advance

RankedValue(rank, value, origin, entry) ==
  [rank |-> rank, value |-> value, origin |-> origin, entry |-> entry]

Sourced(values) == [k \in DOMAIN values |-> SourceValue(values[k], "source", at)]

\* What the elements or records of a stream say of their configurations, in stored order.
Claims(configs, nodes) ==
  LET ensured == EnsureConfigs(configs, {node.index : node \in ToSet(nodes)})
      of(i) == {k \in DOMAIN nodes : nodes[k].index = i}
      own(i) == Picked(nodes, of(i))
      named(i) == Picked(nodes, {k \in of(i) : nodes[k].name # NONE})
  IN [i \in DOMAIN ensured |->
       [ensured[i] EXCEPT
          !.names = @ \o [k \in DOMAIN named(i) |->
                            RankedValue(named(i)[k].rank, named(i)[k].name, "source", at)],
          !.parentNames = @ \o Sourced(FlattenSeq([k \in DOMAIN own(i) |-> own(i)[k].parentNames])),
          !.parentIndices =
             @ \o Sourced(FlattenSeq([k \in DOMAIN own(i) |-> own(i)[k].parentIndices]))]]

\* One swConfiguration or Configuration element each.
CollectXmlConfigurations(b) ==
  LET nodes == Here.data.configs
      made(i) == SelectSeq(nodes, LAMBDA node : node.index = i /\ node.material # NONE)
  IN [b EXCEPT !.configs = Claims(@, nodes),
               !.materials = Gather(@,
                 [i \in {node.index : node \in {n \in ToSet(nodes) : n.material # NONE}} |->
                    Sourced([k \in DOMAIN made(i) |-> made(i)[k].material])])]

CollectDocumentKind(b) ==
  IF Here.data.kind = NONE THEN b ELSE [b EXCEPT !.kinds = @ \cup {Here.data.kind}]

Reference(kind, path, configuration, index) ==
  [kind |-> kind, path |-> path, configuration |-> configuration, index |-> index, entry |-> at]

\* Every file of the header but the first, the document itself.
CollectExternalFeatureReferences(b) ==
  LET others == IF Here.data.files = <<>> THEN <<>> ELSE Tail(Here.data.files)
  IN [b EXCEPT !.references = @ \o
        [k \in DOMAIN others |-> Reference("external_feature", others[k].path, NONE, NONE)]]

DecodeFeatures ==
  /\ Taking({"features"})
  /\ TakeXml(CollectExternalFeatureReferences(
                CollectXmlConfigurations(CollectDocumentKind(builder))))
  /\ Advance

-----------------------------------------------------------------------------
(***************************************************************************)
(* The component tree.  A configuration may name its root model; without   *)
(* that the models of the first file are roots.                            *)
(***************************************************************************)
LastWithId(list, id) ==
  LET k == SelectLastInSeq(list, LAMBDA x : x.id = id) IN IF k = 0 THEN NONE ELSE list[k]

RootRefs(tree, index) == {r.model : r \in {q \in tree.roots : q.index = index}}

IsRootModel(tree, model) ==
  LET refs == RootRefs(tree, model.index)
      own == IF tree.files = <<>> THEN NONE ELSE tree.files[1].id
  IN IF refs = {} THEN own = NONE \/ model.file = own ELSE refs = {model.id}

Component(tree, index, reference) ==
  LET model == LastWithId(tree.models, reference.model)
      file == IF model = NONE THEN NONE ELSE LastWithId(tree.files, model.file)
  IN [index |-> index, entry |-> at, flags |-> reference.flags,
      path |-> IF file = NONE THEN NONE ELSE file.path,
      configuration |-> IF reference.configuration # NONE THEN reference.configuration
                        ELSE IF model = NONE THEN NONE ELSE model.configuration]

Components(tree, model) ==
  [k \in DOMAIN model.references |-> Component(tree, model.index, model.references[k])]

\* A saved bounding box is kept for any root model, its components make a configuration.
CollectComponents(b) ==
  LET tree == Here.data
      models == tree.models
      roots == {k \in DOMAIN models : IsRootModel(tree, models[k])}
      boxed == {k \in roots : models[k].box # NONE}
      built == {k \in roots : models[k].references # <<>>}
      of(places, i) == Picked(models, {k \in places : models[k].index = i})
      indices(places) == {models[k].index : k \in places}
      made(chosen) == FlattenSeq([k \in DOMAIN chosen |-> Components(tree, chosen[k])])
      all == made(Picked(models, built))
  IN [b EXCEPT
        !.boxes = Gather(@,
          [i \in indices(boxed) |-> Sourced([k \in DOMAIN of(boxed, i) |-> of(boxed, i)[k].box])]),
        !.configs = EnsureConfigs(@, indices(built)),
        !.components = Gather(@, [i \in indices(built) |-> made(of(built, i))]),
        !.references = @ \o
          [k \in DOMAIN all |-> Reference("assembly_component", all[k].path, all[k].configuration,
                                          all[k].index)]]

DecodeTree ==
  /\ Taking({"tree"})
  /\ TakeXml(CollectComponents(CollectXmlConfigurations(CollectDocumentKind(builder))))
  /\ Advance

-----------------------------------------------------------------------------
(***************************************************************************)
(* Sheets.  A later stream with sheets replaces them, not the references.  *)
(***************************************************************************)
SheetOf(node) == [name |-> node.name, views |-> node.views, preview |-> NONE, formatted |-> FALSE]

DecodeKeywords ==
  /\ Taking({"keywords"})
  /\ LET nodes == Here.data.sheets
         sheets == Picked(nodes, {k \in DOMAIN nodes : nodes[k].typed \/ nodes[k].views # <<>>})
         views == FlattenSeq([k \in DOMAIN sheets |-> sheets[k].views])
         gathered ==
           [CollectXmlConfigurations(builder) EXCEPT
              !.features = @ + Here.data.features,
              !.references = @ \o
                [k \in DOMAIN views |-> Reference("drawing_view", views[k].document,
                                                  views[k].configuration, NONE)],
              !.kinds = IF sheets = <<>> THEN @ ELSE @ \cup {"drawing"},
              !.sheets = IF sheets = <<>> THEN @ ELSE [k \in DOMAIN sheets |-> SheetOf(sheets[k])]]
     IN TakeXml(gathered)
  /\ Advance

\* Sheets have UTF-16 names; any other string is malformed, however long it is.
SheetNamesReading(data) ==
  FirstFailure(<<Within(data.count, MaxStreamCount)>> \o
    [k \in 1 .. data.count |->
       IF k \in DOMAIN data.names /\ data.names[k].form = "utf16"
       THEN ArchiveString(data.names[k]) ELSE "malformed"])

DecodeSheetNames ==
  /\ Taking({"sheet_names"})
  /\ LET reading == SheetNamesReading(Here.data)
         class == IF Here.data.padded THEN "fully_interpreted" ELSE "partially_interpreted"
     IN builder' =
          IF reading = "ok"
          THEN [Mark(builder, at, class) EXCEPT
                  !.sheetNames = [k \in 1 .. Here.data.count |-> Here.data.names[k].text]]
          ELSE [Mark(builder, at, "malformed") EXCEPT !.rejected = @ \/ reading = "limit"]
  /\ Advance

-----------------------------------------------------------------------------
(***************************************************************************)
(* The configuration-manager header, for the one observed version.         *)
(***************************************************************************)
ArchiveClass(c) ==
  CASE c.form = "cut" -> "malformed"
    [] c.form = "known" -> "ok"
    [] c.form = "object" -> "malformed"
    [] OTHER -> NewArchiveClass(c)

\* Behind its parent a record has two strings and four numbers that nothing is known of.
ModernRecord(r) ==
  FirstFailure(<<ArchiveRecord(r, ArchiveClass(r.class)), ArchiveString(r.opaque[1]),
                 ArchiveString(r.opaque[2]), Present(r.cut # "tail")>>)

HeaderReading(header) ==
  FirstFailure(<<ArchiveClass(header.class), Within(header.count, MaxStreamCount)>> \o
    [k \in 1 .. header.count |->
       IF k > Len(header.records) THEN "malformed"
       ELSE ModernRecord(header.records[k])])

\* A record claims a name like an element of the component tree does.
RecordNode(r) ==
  [index |-> r.index, rank |-> 0, name |-> r.name.text, parentNames |-> <<>>,
   parentIndices |-> IF r.parent = NONE THEN <<>> ELSE <<r.parent>>]

DecodeHeader ==
  /\ Taking({"header"})
  /\ LET reading == HeaderReading(Here.data)
     IN builder' =
          IF InternalVersion # ObservedVersion THEN Mark(builder, at, "uninterpreted")
          ELSE IF reading # "ok" THEN Fail(builder, at, reading)
          ELSE [Mark(builder, at, "partially_interpreted") EXCEPT
                  !.configs = Claims(@, [k \in 1 .. Here.data.count |->
                                           RecordNode(Here.data.records[k])])]
  /\ Advance

-----------------------------------------------------------------------------
(***************************************************************************)
(* Previews.  Only an image that was walked to its end becomes a resource. *)
(***************************************************************************)
ImageReading(bytes) ==
  IF PngStart(bytes) = 0 THEN "malformed" ELSE Png(bytes, PngStart(bytes), FALSE).reading

Image(bytes) ==
  LET start == PngStart(bytes)
  IN Resource(at, "png", start - 1,
              SubSeq(bytes, start, start + Png(bytes, start, FALSE).chunks))

ImageClass(bytes) ==
  IF Image(bytes).length = Len(bytes) THEN "fully_interpreted" ELSE "partially_interpreted"

\* What an image stream does to the builder, "kept" being the builder with its image.
TakeImage(kept) ==
  LET bytes == Here.data.bytes
      reading == ImageReading(bytes)
  IN builder' = IF reading = "ok"
                THEN Mark(kept, at, ImageClass(bytes))
                ELSE [Mark(builder, at, "malformed") EXCEPT !.rejected = @ \/ reading = "limit"]

DecodePreview ==
  /\ Taking({"preview"})
  /\ TakeImage([builder EXCEPT !.preview = IF @ = NONE THEN Image(Here.data.bytes) ELSE @])
  /\ Advance

DecodeConfigPreview ==
  /\ Taking({"config_preview"})
  /\ TakeImage([builder EXCEPT
                  !.configs = EnsureConfigs(@, {Here.index}),
                  !.configPreviews = Put(@, Here.index, Image(Here.data.bytes))])
  /\ Advance

DecodeSheetPreview ==
  /\ Taking({"sheet_preview"})
  /\ TakeImage([builder EXCEPT !.sheetPreviews = Put(@, Here.index, Image(Here.data.bytes))])
  /\ Advance

ModernSkip ==
  /\ at \in Entries
  /\ ~(IsDecoded(at) /\ Here.path \in ModernSelected)
  /\ at' = at + 1
  /\ UNCHANGED <<content, hint, builder, facts>>
=============================================================================
