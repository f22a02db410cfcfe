---------------------------- MODULE ParserProperties ----------------------------
(***************************************************************************)
(* What a parsed document owes to the streams it was read from, and what   *)
(* reading a path owes to a file that others write.                        *)
(***************************************************************************)
EXTENDS DocumentParser

Modern == facts.ready /\ facts.profile = "modern"
Legacy == facts.ready /\ facts.profile = "legacy"
Configurations == DOMAIN facts.configurations
Cited(values) == {v.entry : v \in values \ {NONE}}

\* A path that is read is never held beyond the limit, even when the file grows between
\* the moment its length was asked for and the read (read_path_bounded).
ReadIsBounded == content.size <= MaxFileSize

\* No property, name, reference, component or preview of the document comes from a stream
\* whose reader failed: readers keep or drop a stream as a whole.
FailedStreamLeavesNothing ==
  facts.ready =>
    LET configurations == {facts.configurations[i] : i \in Configurations}
        cited ==
          Cited(ToSet(facts.properties)) \cup Cited(ToSet(facts.references)) \cup Cited(Descriptors)
            \cup UNION {Cited({c.name, c.parentName}) \cup Cited({c.parentIndex})
                         \cup Cited(ToSet(c.components)) \cup Cited(ToSet(c.alternates)) :
                         c \in configurations}
    IN \A u \in facts.coverage.unknown :
         u.reason \in {"malformed", "uninterpreted"} => u.entry \notin cited

-----------------------------------------------------------------------------
\* What the streams of a modern document call configuration i, by rank.
XmlClaims(e, i) ==
  {[rank |-> n.rank, value |-> n.name] :
     n \in {m \in ToSet(content.entries[e].data.configs) : m.index = i /\ m.name # NONE}}

PropertyClaims(e) ==
  {[rank |-> 2, value |-> p.value] :
     p \in {q \in ToSet(content.entries[e].data.properties) :
              q.name = "Configuration" /\ q.state = "present" /\ q.section = "user"}}

HeaderClaims(e, i) ==
  LET header == content.entries[e].data
  IN {[rank |-> 0, value |-> header.records[k].name.text] :
        k \in {n \in 1 .. header.count :
                 header.records[n].index = i /\ header.records[n].name.text # NONE}}

NameClaims(i) ==
  LET read == {e \in Entries : IsDecoded(e)}
      xml(paths) == {e \in read \cap Streams(paths) : ParseXml(content.entries[e].data.xml) = "ok"}
      headers == {e \in read \cap Streams({"header"}) :
                    InternalVersion = ObservedVersion
                      /\ HeaderReading(content.entries[e].data) = "ok"}
      own == {e \in xml({"config_properties"}) : content.entries[e].index = i}
  IN UNION ({XmlClaims(e, i) : e \in xml({"features", "tree", "keywords"})}
              \cup {PropertyClaims(e) : e \in own}
              \cup {HeaderClaims(e, i) : e \in headers})

\* Whatever order the streams are stored in, the name of a configuration is one of the best
\* ranked claims and no claim is lost: the others are its alternates, each value once.
NamesByPrecedence ==
  Modern =>
    \A i \in Configurations :
      LET claims == NameClaims(i)
          best == {c.value : c \in {d \in claims : \A o \in claims : d.rank <= o.rank}}
          c == facts.configurations[i]
      IN claims # {} =>
           /\ c.name # NONE /\ c.name.value \in best
           /\ {c.name.value} \cup {a.value : a \in ToSet(c.alternates)}
                = {d.value : d \in claims}
           /\ Cardinality({d.value : d \in claims}) = 1 + Len(c.alternates)

\* Facts that belong to a configuration point to one of the document: properties and
\* component references by index, and a parent name that was looked up is the name the
\* parent has in the end, also when a later stream named it.
NothingOrphaned ==
  Modern =>
    /\ \A k \in DOMAIN facts.properties :
         LET p == facts.properties[k]
         IN p.index # NONE =>
              /\ p.index \in Configurations
              /\ p.configuration = IF facts.configurations[p.index].name = NONE THEN NONE
                                   ELSE facts.configurations[p.index].name.value
    /\ \A i \in Configurations \cup {facts.references[k].index : k \in DOMAIN facts.references} :
         i # NONE =>
           /\ i \in Configurations
           /\ Len(facts.configurations[i].components)
                = Cardinality({k \in DOMAIN facts.references :
                                 /\ facts.references[k].kind = "assembly_component"
                                 /\ facts.references[k].index = i})
    /\ \A i \in Configurations :
         LET c == facts.configurations[i]
         IN c.parentName # NONE /\ c.parentName.origin = "derived"
              => /\ c.parentIndex.value \in Configurations
                 /\ facts.configurations[c.parentIndex.value].name # NONE
                 /\ facts.configurations[c.parentIndex.value].name.value = c.parentName.value

\* Sheet previews are numbered by a list of names of its own stream.  A preview goes to
\* one sheet at most, and to a sheet of the name it was stored under.
SheetPreviewsFollowNames ==
  Modern =>
    \A k \in {j \in DOMAIN facts.sheets : facts.sheets[j].preview # NONE} :
      LET sheet == facts.sheets[k]
      IN /\ builder.sheetNames[sheet.preview.index + 1] = sheet.name
         /\ \A j \in DOMAIN facts.sheets :
              facts.sheets[j].preview = sheet.preview => j = k

\* What a descriptor releases later is byte for byte what was described when the document
\* was parsed, whatever the path holds by then; from an unchanged file it is released.
ReleasedAsDescribed ==
  released # NONE =>
    /\ released.status = "extracted" => released.data = released.resource.digest
    /\ released.status # "extracted" => released.data = NONE
    /\ changes = 0 => released.status = "extracted"

\* A call to parse and a call to extract come to an end.
ParseEnds ==
  /\ reader.job = "parse" ~> result # NONE
  /\ reader.job = "extract" ~> released # NONE

\* A scalar of an OLE property lies inside the extent of its property
\* ("OLE typed property ends inside its scalar value", legacy_semantics.rs:1481).
ScalarsInsideTheirProperty ==
  Legacy =>
    \A k \in DOMAIN facts.properties :
      facts.properties[k].bytes.to <= facts.properties[k].extent.to
=============================================================================
