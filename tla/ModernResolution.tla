---------------------------- MODULE ModernResolution ----------------------------
(***************************************************************************)
(* The end of the modern profile (modern_semantics.rs): what the streams   *)
(* said is resolved into one document kind, one configuration per index    *)
(* with one name, and sheets with their previews and formats.  Conflicting *)
(* claims are resolved by precedence or withheld.                          *)
(***************************************************************************)
EXTENDS ModernSemantics

ResolveDocumentKind(kinds) ==
  LET known == kinds \ {"unknown"}
  IN CASE Cardinality(known) = 1 -> [value |-> CHOOSE k \in known : TRUE, origin |-> "source"]
       [] Cardinality(known) > 1 -> [value |-> "unknown", origin |-> "preserved"]
       [] OTHER -> [value |-> hint, origin |-> "hint"]

-----------------------------------------------------------------------------
(***************************************************************************)
(* Names.  Rank 0 is the component tree and the header, 1 the keywords, 2  *)
(* a custom property, 3 the name of the active configuration.              *)
(***************************************************************************)
SystemProperties(b, name) ==
  Picked(b.properties, {k \in DOMAIN b.properties :
                          b.properties[k].kind = "system" /\ b.properties[k].name = name})

PresentOf(properties) ==
  Picked(properties, {k \in DOMAIN properties : properties[k].state = "present"})

Ranked(rank, origin, p) == RankedValue(rank, p.value, origin, p.entry)

\* A property may name a configuration that no other stream mentions.
PropertyNames(b) ==
  LET naming == {k \in DOMAIN b.properties :
                   /\ b.properties[k].kind = "custom" /\ b.properties[k].name = "Configuration"
                   /\ b.properties[k].state = "present" /\ b.properties[k].index # NONE}
      named(i) == Picked(b.properties, {k \in naming : b.properties[k].index = i})
  IN [i \in DOMAIN b.configs \cup {b.properties[k].index : k \in naming} |->
        [Candidate(b.configs, i) EXCEPT
           !.names = @ \o [k \in DOMAIN named(i) |-> Ranked(2, "derived", named(i)[k])]]]

ActiveName(b, configs) ==
  LET active == FirstOf(PresentOf(SystemProperties(b, "SW-Configuration Name")))
  IN IF /\ active # NONE
        /\ Cardinality(DOMAIN configs) = 1
        /\ \A i \in DOMAIN configs : configs[i].names = <<>>
     THEN [i \in DOMAIN configs |->
             [configs[i] EXCEPT !.names = <<Ranked(3, "derived", active)>>]]
     ELSE configs

WithFallbacks(b) == ActiveName(b, PropertyNames(b))

\* Mutant: names stay in the order the streams were read in.
NamesAsRead(names) == MergeSourcedValues(names)

\* Equal names count once; ranks decide, then the order they were read in.
MergeRankedNames(names) ==
  MergeSourcedValues(FlattenSeq(
    [r \in 1 .. 4 |-> Picked(names, {k \in DOMAIN names : names[k].rank = r - 1})]))

Inferred(configs, kind) ==
  IF DOMAIN configs = {} /\ kind \in {"part", "assembly"}
  THEN Put(configs, 0, [NewCandidate EXCEPT !.origin = "inferred"]) ELSE configs

-----------------------------------------------------------------------------
(***************************************************************************)
(* Configurations.                                                         *)
(***************************************************************************)
\* Mutant: the name that was read first.
FirstNameRead(configs, index) ==
  IF index \in DOMAIN configs THEN FirstOf(MergeSourcedValues(configs[index].names)) ELSE NONE

CanonicalName(configs, index) ==
  IF index \in DOMAIN configs THEN FirstOf(MergeRankedNames(configs[index].names)) ELSE NONE

\* A parent without a name gets the canonical name of the configuration it points to.
ParentName(configs, candidate) ==
  LET named == FirstOf(candidate.parentNames)
      index == FirstOf(candidate.parentIndices)
      found == IF index = NONE THEN NONE ELSE CanonicalName(configs, index.value)
  IN IF named # NONE THEN named
     ELSE IF found = NONE THEN NONE
     ELSE SourceValue(found.value, "derived", index.entry)

MassProperties(b, index) ==
  LET cached == FirstOf(SelectSeq(PresentOf(SystemProperties(b, "SW-MassProp-Config")),
                                  LAMBDA p : p.of = index))
  IN IF cached = NONE \/ cached.value # "twelve numbers" THEN NONE ELSE cached.value

\* Several distinct claims withhold the value.
Unanimous(claims) ==
  LET distinct == MergeSourcedValues(claims)
  IN IF Len(distinct) = 1 THEN distinct[1] ELSE NONE

\* One configuration per index that any stream mentioned.
FinishConfigurations(b, configs) ==
  LET names(i) == MergeRankedNames(configs[i].names)
  IN [i \in DOMAIN configs |->
       [origin |-> IF configs[i].origin = NONE THEN "inferred" ELSE configs[i].origin,
        name |-> FirstOf(names(i)),
        alternates |-> IF names(i) = <<>> THEN <<>> ELSE Tail(names(i)),
        parentName |-> ParentName(configs, configs[i]),
        parentIndex |-> FirstOf(configs[i].parentIndices),
        preview |-> Get(b.configPreviews, i),
        mass |-> MassProperties(b, i),
        material |-> Unanimous(ListAt(b.materials, i)),
        box |-> Unanimous(ListAt(b.boxes, i)),
        components |-> ListAt(b.components, i)]]

\* The configuration of a property is the name its index has in the end.
AttachConfigurationNames(properties, configurations) ==
  [k \in DOMAIN properties |->
     [properties[k] EXCEPT !.configuration =
        IF properties[k].index = NONE \/ properties[k].index \notin DOMAIN configurations THEN NONE
        ELSE LET name == configurations[properties[k].index].name
             IN IF name = NONE THEN NONE ELSE name.value]]

-----------------------------------------------------------------------------
(***************************************************************************)
(* Sheets.                                                                 *)
(***************************************************************************)
\* Mutant: the preview stays available for the next sheet of the name.
HandedOutAgain(sheets, k) == FALSE

EarlierNamesake(sheets, k) == \E j \in 1 .. k - 1 : sheets[j].name = sheets[k].name

\* The last position of a name counts when names repeat.
SheetPosition(b, name) == SelectLastInSeq(b.sheetNames, LAMBDA n : n = name)

\* The preview of a sheet is found by the position of its name and is handed out once.
PreviewFor(b, k) ==
  LET position == SheetPosition(b, b.sheets[k].name)
  IN IF position = 0 \/ EarlierNamesake(b.sheets, k) THEN NONE
     ELSE Get(b.sheetPreviews, position - 1)

\* Without decoded sheets the names are the sheets.
SheetOfName(b, k) ==
  [SheetOf([name |-> b.sheetNames[k], views |-> <<>>]) EXCEPT !.preview = Get(b.sheetPreviews, k - 1)]

AttachSheetPreviews(b) ==
  IF b.sheets = <<>> THEN [k \in DOMAIN b.sheetNames |-> SheetOfName(b, k)]
  ELSE [k \in DOMAIN b.sheets |-> [b.sheets[k] EXCEPT !.preview = PreviewFor(b, k)]]

\* Each format record goes to the first sheet of its name that has none yet.
AttachSheetFormatData(sheets, b) ==
  LET property == FirstOf(SystemProperties(b, "SW-All Sheet Format Data"))
      records == IF property = NONE \/ property.state = "missing" THEN <<>> ELSE property.value
      ordinal(k) == Cardinality({j \in 1 .. k : sheets[j].name = sheets[k].name})
      offered(name) == Cardinality({j \in DOMAIN records : records[j] = name})
  IN [k \in DOMAIN sheets |->
        [sheets[k] EXCEPT !.formatted = ordinal(k) <= offered(sheets[k].name)]]

-----------------------------------------------------------------------------
(***************************************************************************)
(* Units: distinct integers claimed for one setting withhold it.           *)
(***************************************************************************)
UnitSettings == {"SW_UnitSystem", "SW_UnitsLinear"}

DeriveUnits(properties) ==
  [name \in UnitSettings |->
     Unanimous(SelectSeq(properties,
                         LAMBDA p : /\ p.kind = "system" /\ p.name = name
                                    /\ p.value \in {"0", "1"}))]

-----------------------------------------------------------------------------
ModernFacts(b) ==
  LET kind == ResolveDocumentKind(b.kinds)
      configurations == FinishConfigurations(b, Inferred(WithFallbacks(b), kind.value))
  IN [ready |-> TRUE, profile |-> "modern",
      kind |-> kind, version |-> InternalVersion,
      configurations |-> configurations,
      properties |-> AttachConfigurationNames(b.properties, configurations),
      units |-> DeriveUnits(b.properties),
      references |-> b.references,
      preview |-> b.preview,
      sheets |-> AttachSheetFormatData(AttachSheetPreviews(b), b),
      features |-> b.features, embedded |-> b.embedded,
      coverage |-> Accounting(b.classes), rejected |-> b.rejected]

ModernFinish ==
  /\ at = Len(content.entries) + 1
  /\ ~facts.ready
  /\ facts' = ModernFacts(builder)
  /\ UNCHANGED <<content, hint, at, builder>>

ModernStep ==
  /\ content.envelope = "modern"
  /\ \/ ModernStart
     \/ DecodePropertyXml \/ DecodeCoreXml \/ DecodeFeatures \/ DecodeTree \/ DecodeKeywords
     \/ DecodeHeader \/ DecodeSheetNames
     \/ DecodePreview \/ DecodeConfigPreview \/ DecodeSheetPreview
     \/ ModernSkip
     \/ ModernFinish
=============================================================================
