------------------------------ MODULE ParserProofs ------------------------------
(***************************************************************************)
(* Theorems about a parsed document: what is held of a path that others    *)
(* write, what of it is released later, and what of the document's facts   *)
(* comes from which of its streams.                                        *)
(***************************************************************************)
EXTENDS ParserProperties, FoldTheorems

Sources == Files \cup Replacements

\* What the descriptor of an image says of the file it was made from.
Sound(file, resource) == Extractable(file, resource) /\ Revalidated(file, resource)

-----------------------------------------------------------------------------
(***************************************************************************)
(* The inductive invariant: the reader, what it holds, and the pictures of *)
(* the builder and of the facts.                                           *)
(***************************************************************************)
ReaderTyped ==
  /\ disk \in Sources \cup {NONE}
  /\ changes \in Nat
  /\ reader = [phase |-> reader.phase, job |-> reader.job, resource |-> reader.resource]
  /\ reader.phase \in {"idle", "opening", "opened", "parsing"}
  /\ reader.phase # "idle" => reader.job \in {"parse", "extract"}
  /\ reader.phase = "parsing" => reader.job = "parse"

\* One parse per behavior, and extraction only after it has described something.
JobsInOrder ==
  /\ reader.phase # "idle" /\ reader.job = "parse" => result = NONE
  /\ reader.phase # "idle" /\ reader.job = "extract" => facts.ready /\ reader.resource \in Descriptors
  /\ reader.phase # "parsing" /\ result = NONE => facts = NoFacts /\ at = 0
  /\ facts.ready \in BOOLEAN

\* What is being parsed, or was, is what the path held when it was read.
Held ==
  /\ content \in Sources /\ content # NONE
  /\ content.size <= MaxFileSize
  /\ changes = 0 => disk = content

ContentHeld ==
  /\ content.size <= MaxFileSize
  /\ reader.phase = "parsing" \/ facts.ready => Held

\* Sheets have no preview yet; those of the streams are kept by number.
SheetsPictured(file, b) ==
  /\ {"sheets", "sheetNames", "sheetPreviews"} \subseteq DOMAIN b
  /\ IsList(b.sheets) /\ IsList(b.sheetNames)
  /\ \A k \in DOMAIN b.sheets : b.sheets[k] = SheetOf(b.sheets[k])
  /\ \A i \in DOMAIN b.sheetPreviews : Sound(file, b.sheetPreviews[i]) /\ b.sheetPreviews[i].index = i

\* Every image a builder keeps is one that its file would release.
Pictured(file, b) ==
  /\ {"preview", "configPreviews"} \subseteq DOMAIN b
  /\ b.preview # NONE => Sound(file, b.preview)
  /\ \A i \in DOMAIN b.configPreviews : Sound(file, b.configPreviews[i])
  /\ file.envelope = "modern" => SheetsPictured(file, b)

BuilderPictured == at \in Nat /\ (at # 0 => Pictured(content, builder))

DescriptorsSound == \A resource \in Descriptors : Sound(content, resource)

ParserInv == ReaderTyped /\ JobsInOrder /\ ContentHeld /\ BuilderPictured /\ DescriptorsSound

-----------------------------------------------------------------------------
(***************************************************************************)
(* Images: one that was walked to its end lies inside its stream, and its  *)
(* descriptor says where.                                                  *)
(***************************************************************************)
\* A walk over the chunks that ends well ends at a chunk of the stream.
LEMMA PngInside ==
  ASSUME NEW bytes, Len(bytes) \in Nat, NEW start \in Nat, NEW legacy \in BOOLEAN,
         Png(bytes, start, legacy).reading = "ok"
  PROVE  /\ Png(bytes, start, legacy).chunks \in Nat
         /\ start + Png(bytes, start, legacy).chunks <= Len(bytes)
<1> DEFINE reading(k) == ChunkReading(bytes, start, k, legacy)
           S == {k \in 1 .. MaxStreamCount + 1 : reading(k) # "ok"}
           Ends(k) == reading(k) # "ok" /\ \A j \in 1 .. k - 1 : reading(j) = "ok"
           last == CHOOSE k \in 1 .. MaxStreamCount + 1 : Ends(k)
<1>1. MaxStreamCount + 1 \in S
  BY LimitAssumption DEF ChunkReading
<1>2. \E k \in 1 .. MaxStreamCount + 1 : Ends(k)
  <2>1. S \in SUBSET Nat
    BY LimitAssumption
  <2>2. PICK k \in S : \A j \in S : k <= j
    <3> HIDE DEF S
    <3> QED
      BY <1>1, <2>1, LeastIs
  <2>3. \A j \in 1 .. k - 1 : j \in 1 .. MaxStreamCount + 1 /\ ~(k <= j)
    BY LimitAssumption
  <2>4. Ends(k)
    <3> HIDE DEF reading
    <3> QED
      BY <2>2, <2>3
  <2> QED
    BY <2>4
<1>3. last \in 1 .. MaxStreamCount + 1 /\ Ends(last)
  <2> HIDE DEF Ends
  <2> QED
    BY <1>2
<1>4. /\ Png(bytes, start, legacy).chunks = last
      /\ Png(bytes, start, legacy).reading = IF reading(last) = "image" THEN "ok" ELSE reading(last)
  BY DEF Png
<1> HIDE DEF last, S
<1>5. reading(last) = "image"
  <2> HIDE DEF reading
  <2> QED
    BY <1>3, <1>4
<1>6. Chunk(bytes, start, last) = "IEND"
  BY <1>5 DEF ChunkReading, Present
<1>7. ~(start + last > Len(bytes))
  BY <1>6 DEF Chunk
<1> QED
  BY <1>3, <1>4, <1>7, LimitAssumption

LEMMA PngStarts ==
  ASSUME NEW bytes, Len(bytes) \in Nat
  PROVE  PngStart(bytes) \in 0 .. Len(bytes)
<1> DEFINE I == {i \in 1 .. Len(bytes) : bytes[i] = "sig"}
<1>1. PngStart(bytes) = IF I # {} THEN Min(I) ELSE 0
  BY DEF PngStart, SelectInSeq
<1>2. I # {} => Min(I) \in I
  <2>1. I \in SUBSET Nat
    OBVIOUS
  <2> HIDE DEF I
  <2> QED
    BY <2>1, MinIs
<1> QED
  BY <1>1, <1>2


\* What is cut out of a stream at its place is found there again.
LEMMA CutSound ==
  ASSUME IsFile(content), Walked, Taking(PictureStreams), NEW kind,
         NEW first \in Nat, NEW last \in Nat, 1 <= first, first <= last, last <= Len(Here.data.bytes),
         NEW offset, offset = first - 1
  PROVE  /\ Sound(content, Resource(at, kind, offset, SubSeq(Here.data.bytes, first, last)))
         /\ Resource(at, kind, offset, SubSeq(Here.data.bytes, first, last)).index = Here.index
<1> DEFINE bytes == Here.data.bytes
           digest == SubSeq(bytes, first, last)
           resource == Resource(at, kind, offset, digest)
           X == ToSet(bytes)
<1>1. /\ at \in DOMAIN content.entries /\ content.entries[at].state = "decoded"
      /\ content.entries[at].path \in PictureStreams
      /\ Payload(content.entries[at]) = bytes
  BY DEF Taking, Entries, IsDecoded, Here, Payload
<1>2. bytes \in Seq(X)
  BY <1>1 DEF IsFile, IsStream, IsList, Here
<1>3. Len(digest) = last - first + 1
  <2> HIDE DEF X, bytes
  <2> QED
    BY <1>2
<1>4. /\ resource.entry = at /\ resource.path = content.entries[at].path
      /\ resource.index = content.entries[at].index /\ resource.offset = offset
      /\ resource.length = Len(digest) /\ resource.digest = digest
  BY DEF Resource
<1> HIDE DEF resource
<1>5. RangeFits(content, resource)
  BY <1>1, <1>3, <1>4 DEF RangeFits
<1>6. SubSeq(bytes, resource.offset + 1, resource.offset + resource.length) = resource.digest
  <2>1. resource.offset + 1 = first /\ resource.offset + resource.length = last
    BY <1>3, <1>4
  <2> QED
    BY <1>4, <2>1
<1>7. Revalidated(content, resource)
  BY <1>1, <1>4, <1>5, <1>6 DEF Revalidated
<1>8. Extractable(content, resource)
  BY <1>1, <1>4 DEF Extractable, Walked
<1> QED
  BY <1>4, <1>7, <1>8 DEF resource, Sound, Here

LEMMA ImageSound ==
  ASSUME IsFile(content), Walked, Taking(PictureStreams), ImageReading(Here.data.bytes) = "ok"
  PROVE  Sound(content, Image(Here.data.bytes)) /\ Image(Here.data.bytes).index = Here.index
<1> DEFINE bytes == Here.data.bytes
           start == PngStart(bytes)
           image == Png(bytes, start, FALSE)
<1>1. Len(bytes) \in Nat
  <2>1. IsList(bytes)
    BY DEF Taking, Entries, IsDecoded, Here, IsFile, IsStream
  <2> QED
    BY <2>1 DEF IsList
<1>2. start \in Nat /\ start # 0 /\ image.reading = "ok"
  <2>1. start \in 0 .. Len(bytes)
    BY <1>1, PngStarts
  <2>2. start \in Nat
    <3> HIDE DEF start, bytes
    <3> QED
      BY <1>1, <2>1
  <2>3. start # 0 /\ image.reading = "ok"
    BY DEF ImageReading
  <2> QED
    BY <2>2, <2>3
<1>3. image.chunks \in Nat /\ start + image.chunks <= Len(bytes)
  <2> HIDE DEF start, bytes
  <2> QED
    BY <1>1, <1>2, PngInside
<1>4. Image(bytes) = Resource(at, "png", start - 1, SubSeq(bytes, start, start + image.chunks))
  BY DEF Image
<1> DEFINE last == start + image.chunks
           offset == start - 1
<1>5. last \in Nat /\ 1 <= start /\ start <= last /\ last <= Len(bytes)
  <2> HIDE DEF start, image
  <2> QED
    BY <1>2, <1>3
<1>6. Image(bytes) = Resource(at, "png", offset, SubSeq(bytes, start, last)) /\ offset = start - 1
  BY <1>4
<1>7. start \in Nat
  BY <1>2
<1> HIDE DEF start, last, offset
<1>8. /\ Sound(content, Resource(at, "png", offset, SubSeq(bytes, start, last)))
      /\ Resource(at, "png", offset, SubSeq(bytes, start, last)).index = Here.index
  BY <1>5, <1>6, <1>7, CutSound
<1> QED
  BY <1>6, <1>8

LEMMA LegacyImageSound ==
  ASSUME IsFile(content), Walked, Taking(PreviewStreams), PreviewReading(Here.data) = "ok"
  PROVE  Sound(content, PreviewOf(Here.data))
<1> DEFINE bytes == Here.data.bytes
           declared == Here.data.declared
           image == Png(bytes, 1, TRUE)
<1>1. Taking(PictureStreams) /\ Len(bytes) \in Nat /\ declared \in Nat
  <2>1. Taking(PictureStreams)
    BY DEF Taking, PictureStreams
  <2>2. IsList(bytes) /\ declared \in Nat
    BY DEF Taking, Entries, IsDecoded, Here, IsFile, IsStream, PictureStreams
  <2> QED
    BY <2>1, <2>2 DEF IsList
<1>2. CASE IsPng(bytes)
  <2>1. image.reading = "ok"
    BY <1>2 DEF PreviewReading
  <2>2. image.chunks \in Nat /\ 1 + image.chunks <= Len(bytes)
    <3> HIDE DEF bytes
    <3> QED
      BY <1>1, <2>1, PngInside
  <2>3. PreviewOf(Here.data) = Resource(at, "png", 0, SubSeq(bytes, 1, 1 + image.chunks))
    BY <1>2 DEF PreviewOf
  <2> DEFINE last == 1 + image.chunks
  <2>4. last \in Nat /\ 1 \in Nat /\ 1 <= 1 /\ 1 <= last /\ last <= Len(bytes) /\ 0 = 1 - 1
    <3> HIDE DEF image
    <3> QED
      BY <2>2
  <2>5. PreviewOf(Here.data) = Resource(at, "png", 0, SubSeq(bytes, 1, last))
    BY <2>3
  <2> HIDE DEF last
  <2>6. Sound(content, Resource(at, "png", 0, SubSeq(bytes, 1, last)))
    BY <1>1, <2>4, CutSound
  <2> QED
    BY <2>5, <2>6
<1>3. CASE ~IsPng(bytes)
  <2>1. BitmapReading(Here.data) = "ok"
    BY <1>3 DEF PreviewReading
  <2>2. 1 + declared <= Len(bytes) /\ 1 <= declared
    BY <1>1, <2>1 DEF BitmapReading
  <2>3. PreviewOf(Here.data) = Resource(at, "bitmap", 1, SubSeq(bytes, 2, 1 + declared))
    BY <1>3 DEF PreviewOf
  <2> DEFINE last == 1 + declared
  <2>4. last \in Nat /\ 2 \in Nat /\ 1 <= 2 /\ 2 <= last /\ last <= Len(bytes) /\ 1 = 2 - 1
    <3> HIDE DEF declared
    <3> QED
      BY <1>1, <2>2
  <2>5. PreviewOf(Here.data) = Resource(at, "bitmap", 1, SubSeq(bytes, 2, last))
    BY <2>3
  <2> HIDE DEF last
  <2>6. Sound(content, Resource(at, "bitmap", 1, SubSeq(bytes, 2, last)))
    BY <1>1, <2>4, CutSound
  <2> QED
    BY <2>5, <2>6
<1> QED
  BY <1>2, <1>3


-----------------------------------------------------------------------------
(***************************************************************************)
(* Readers: what a stream does to a builder keeps its images sound.        *)
(***************************************************************************)
LEMMA FieldsApart ==
  ASSUME NEW file, NEW b, Pictured(file, b), NEW v
  PROVE  /\ Pictured(file, [b EXCEPT !.classes = v]) /\ Pictured(file, [b EXCEPT !.rejected = v])
         /\ Pictured(file, [b EXCEPT !.properties = v]) /\ Pictured(file, [b EXCEPT !.configs = v])
         /\ Pictured(file, [b EXCEPT !.materials = v]) /\ Pictured(file, [b EXCEPT !.boxes = v])
         /\ Pictured(file, [b EXCEPT !.components = v]) /\ Pictured(file, [b EXCEPT !.references = v])
         /\ Pictured(file, [b EXCEPT !.kinds = v]) /\ Pictured(file, [b EXCEPT !.features = v])
         /\ IsList(v) => Pictured(file, [b EXCEPT !.sheetNames = v])
         /\ Pictured(file, [b EXCEPT !.embedded = v])
  BY DEF Pictured, SheetsPictured

LEMMA MarkApart ==
  ASSUME NEW file, NEW b, Pictured(file, b), NEW entry, NEW class, NEW reading
  PROVE  /\ Pictured(file, Mark(b, entry, class))
         /\ Pictured(file, Fail(b, entry, reading))
         /\ Pictured(file, [Mark(b, entry, class) EXCEPT !.rejected = @ \/ reading = "limit"])
<1>1. \A c : Pictured(file, Mark(b, entry, c))
  BY FieldsApart DEF Mark
<1>2. \A c, v : Pictured(file, [Mark(b, entry, c) EXCEPT !.rejected = v])
  BY <1>1, FieldsApart
<1> QED
  BY <1>1, <1>2 DEF Fail

LEMMA XmlPictured ==
  ASSUME Pictured(content, builder), NEW gathered, Pictured(content, gathered), TakeXml(gathered)
  PROVE  Pictured(content, builder')
  BY MarkApart DEF TakeXml

LEMMA PropertiesPictured ==
  ASSUME Pictured(content, builder), DecodePropertyXml \/ DecodeCoreXml
  PROVE  Pictured(content, builder')
<1>1. \E v : TakeXml([builder EXCEPT !.properties = v])
  BY Zenon DEF DecodePropertyXml, DecodeCoreXml
<1> QED
  BY <1>1, FieldsApart, XmlPictured

LEMMA CollectedPictured ==
  ASSUME NEW b, Pictured(content, b)
  PROVE  /\ Pictured(content, CollectXmlConfigurations(b))
         /\ Pictured(content, CollectDocumentKind(b))
         /\ Pictured(content, CollectExternalFeatureReferences(b))
         /\ Pictured(content, CollectComponents(b))
<1>1. Pictured(content, CollectXmlConfigurations(b))
  <2>1. PICK u, v : CollectXmlConfigurations(b) = [b EXCEPT !.configs = u, !.materials = v]
    BY Zenon DEF CollectXmlConfigurations
  <2> DEFINE c == [b EXCEPT !.configs = u]
  <2>2. CollectXmlConfigurations(b) = [c EXCEPT !.materials = v] /\ Pictured(content, c)
    BY <2>1, FieldsApart
  <2> HIDE DEF c
  <2>3. Pictured(content, [c EXCEPT !.materials = v])
    BY <2>2, FieldsApart
  <2> QED
    BY <2>2, <2>3
<1>2. Pictured(content, CollectDocumentKind(b))
  BY FieldsApart DEF CollectDocumentKind
<1>3. Pictured(content, CollectExternalFeatureReferences(b))
  <2>1. PICK v : CollectExternalFeatureReferences(b) = [b EXCEPT !.references = v]
    BY Zenon DEF CollectExternalFeatureReferences
  <2>2. Pictured(content, [b EXCEPT !.references = v])
    BY FieldsApart
  <2> QED
    BY <2>1, <2>2
<1>4. Pictured(content, CollectComponents(b))
  <2>1. PICK t, u, v, w : CollectComponents(b)
            = [b EXCEPT !.boxes = t, !.configs = u, !.components = v, !.references = w]
    BY Zenon DEF CollectComponents
  <2> DEFINE c == [b EXCEPT !.boxes = t]
             d == [c EXCEPT !.configs = u]
             e == [d EXCEPT !.components = v]
  <2>2. Pictured(content, c)
    BY FieldsApart
  <2>3. Pictured(content, d)
    <3> HIDE DEF c
    <3> QED
      BY <2>2, FieldsApart
  <2>4. Pictured(content, e)
    <3> HIDE DEF d
    <3> QED
      BY <2>3, FieldsApart
  <2>5. CollectComponents(b) = [e EXCEPT !.references = w]
    BY <2>1
  <2> HIDE DEF e
  <2>6. Pictured(content, [e EXCEPT !.references = w])
    BY <2>4, FieldsApart
  <2> QED
    BY <2>5, <2>6
<1> QED
  BY <1>1, <1>2, <1>3, <1>4

LEMMA TreesPictured ==
  ASSUME Pictured(content, builder), DecodeFeatures \/ DecodeTree
  PROVE  Pictured(content, builder')
<1>1. CASE DecodeFeatures
  BY <1>1, CollectedPictured, XmlPictured DEF DecodeFeatures
<1>2. CASE DecodeTree
  BY <1>2, CollectedPictured, XmlPictured DEF DecodeTree
<1> QED
  BY <1>1, <1>2

LEMMA ListIs ==
  ASSUME NEW n \in Nat, NEW f, f = [k \in 1 .. n |-> f[k]]
  PROVE  IsList(f)
<1> DEFINE X == ToSet(f)
<1>1. \A k \in 1 .. n : f[k] \in X
  BY DEF ToSet
<1>2. f \in [1 .. n -> X]
  <2> HIDE DEF X
  <2> QED
    BY <1>1
<1>3. f \in Seq(X)
  <2> HIDE DEF X
  <2> QED
    BY <1>2
<1> QED
  BY <1>3 DEF IsList

\* What is picked out of a list is numbered from one again.
LEMMA PickedList ==
  ASSUME NEW seq, IsFiniteSet(DOMAIN seq), NEW S \in SUBSET DOMAIN seq
  PROVE  IsList(Picked(seq, S))
<1>1. Cardinality(S) \in Nat
  BY FS_Subset, FS_CardinalityType
<1> DEFINE n == Cardinality(S)
           f == Picked(seq, S)
           element(k) == seq[CHOOSE i \in S : Cardinality({j \in S : j < i}) = k - 1]
<1>5. f = [k \in 1 .. n |-> element(k)]
  BY Zenon DEF Picked
<1> HIDE DEF n, f, element
<1>2. f = [k \in 1 .. n |-> f[k]]
  BY <1>5
<1>3. n \in Nat
  BY <1>1 DEF n
<1>4. IsList(f)
  BY <1>2, <1>3, ListIs
<1> QED
  BY <1>4 DEF f

LEMMA KeywordsPictured ==
  ASSUME IsFile(content), Pictured(content, builder), DecodeKeywords
  PROVE  Pictured(content, builder')
<1> DEFINE c == CollectXmlConfigurations(builder)
           nodes == Here.data.sheets
           sheets == Picked(nodes, {k \in DOMAIN nodes : nodes[k].typed \/ nodes[k].views # <<>>})
           kept == IF sheets = <<>> THEN c.sheets ELSE [k \in DOMAIN sheets |-> SheetOf(sheets[k])]
<1>1. PICK u, v, w : TakeXml([c EXCEPT !.features = u, !.references = v, !.kinds = w, !.sheets = kept])
  BY Zenon DEF DecodeKeywords
<1>2. Pictured(content, c)
  BY CollectedPictured
<1> DEFINE made == [k \in DOMAIN sheets |-> SheetOf(sheets[k])]
<1>3. \A k \in DOMAIN made : made[k] = SheetOf(made[k])
  BY DEF SheetOf
<1>4. kept = c.sheets \/ kept = made
  OBVIOUS
<1>11. IsList(made)
  <2>1. nodes \in Seq(ToSet(nodes))
    BY DEF DecodeKeywords, Taking, Entries, IsDecoded, Here, IsFile, IsStream, IsList
  <2>2. DOMAIN nodes = 1 .. Len(nodes) /\ Len(nodes) \in Nat
    <3> HIDE DEF nodes
    <3> QED
      BY <2>1
  <2>3. IsFiniteSet(DOMAIN nodes)
    BY <2>2, FS_Interval
  <2>4. IsList(sheets)
    <3> HIDE DEF nodes
    <3> QED
      BY <2>3, PickedList
  <2>5. made = [k \in 1 .. Len(sheets) |-> made[k]] /\ Len(sheets) \in Nat
    <3> DEFINE X == ToSet(sheets)
    <3>1. sheets \in Seq(X)
      BY <2>4 DEF IsList
    <3> HIDE DEF sheets, X
    <3> QED
      BY <3>1
  <2> HIDE DEF sheets, nodes, made
  <2> QED
    BY <2>5, ListIs
<1> DEFINE d == [c EXCEPT !.features = u]
           e == [d EXCEPT !.references = v]
           f == [e EXCEPT !.kinds = w]
<1>5. Pictured(content, d)
  <2> HIDE DEF c
  <2> QED
    BY <1>2, FieldsApart
<1>6. Pictured(content, e)
  <2> HIDE DEF d
  <2> QED
    BY <1>5, FieldsApart
<1>7. Pictured(content, f)
  <2> HIDE DEF e
  <2> QED
    BY <1>6, FieldsApart
<1>8. TakeXml([f EXCEPT !.sheets = kept])
  BY <1>1
<1> HIDE DEF c, made, kept, sheets, nodes
<1>9. content.envelope = "modern" => IsList(kept) /\ \A k \in DOMAIN kept : kept[k] = SheetOf(kept[k])
  BY <1>2, <1>3, <1>4, <1>11 DEF Pictured, SheetsPictured
<1> HIDE DEF d, e, f
<1>10. Pictured(content, [f EXCEPT !.sheets = kept])
  BY <1>7, <1>9 DEF Pictured, SheetsPictured
<1> QED
  BY <1>8, <1>10, XmlPictured

LEMMA ArchivesPictured ==
  ASSUME IsFile(content), Pictured(content, builder), DecodeSheetNames \/ DecodeHeader
  PROVE  Pictured(content, builder')
<1>1. CASE DecodeSheetNames
  <2> DEFINE names == [k \in 1 .. Here.data.count |-> Here.data.names[k].text]
  <2>1. PICK e, c, v : \/ builder' = [Mark(builder, e, c) EXCEPT !.sheetNames = names]
                        \/ builder' = [Mark(builder, e, c) EXCEPT !.rejected = v]
    BY <1>1, Zenon DEF DecodeSheetNames
  <2>2. Pictured(content, Mark(builder, e, c))
    BY MarkApart
  <2>4. IsList(names)
    <3>1. Here.data.count \in Nat
      BY <1>1 DEF DecodeSheetNames, Taking, Entries, IsDecoded, Here, IsFile, IsStream
    <3> DEFINE n == Here.data.count
    <3>2. names = [k \in 1 .. n |-> names[k]]
      OBVIOUS
    <3> HIDE DEF names, n
    <3> QED
      BY <3>1, <3>2, ListIs DEF n
  <2> HIDE DEF names
  <2>3. /\ Pictured(content, [Mark(builder, e, c) EXCEPT !.sheetNames = names])
        /\ Pictured(content, [Mark(builder, e, c) EXCEPT !.rejected = v])
    BY <2>2, <2>4, FieldsApart
  <2> QED
    BY <2>1, <2>3
<1>2. CASE DecodeHeader
  <2>1. PICK e, c, v : \/ builder' = Mark(builder, e, c) \/ builder' = Fail(builder, e, c)
                        \/ builder' = [Mark(builder, e, c) EXCEPT !.configs = v]
    BY <1>2, Zenon DEF DecodeHeader
  <2>2. Pictured(content, Mark(builder, e, c)) /\ Pictured(content, Fail(builder, e, c))
    BY MarkApart
  <2>3. Pictured(content, [Mark(builder, e, c) EXCEPT !.configs = v])
    BY <2>2, FieldsApart
  <2> QED
    BY <2>1, <2>2, <2>3
<1> QED
  BY <1>1, <1>2

\* Only an image that was read becomes one of the builder's.
LEMMA ImagePictured ==
  ASSUME Pictured(content, builder), NEW kept, TakeImage(kept),
         ImageReading(Here.data.bytes) = "ok" => Pictured(content, kept)
  PROVE  Pictured(content, builder')
  BY MarkApart DEF TakeImage

LEMMA PreviewsPictured ==
  ASSUME IsFile(content), Walked, Pictured(content, builder),
         DecodePreview \/ DecodeConfigPreview \/ DecodeSheetPreview
  PROVE  Pictured(content, builder')
<1> DEFINE image == Image(Here.data.bytes)
           read == ImageReading(Here.data.bytes) = "ok"
<1>1. read => Sound(content, image) /\ image.index = Here.index
  <2>1. Taking(PictureStreams)
    BY DEF DecodePreview, DecodeConfigPreview, DecodeSheetPreview, Taking, PictureStreams
  <2> QED
    BY <2>1, ImageSound
<1>2. CASE DecodePreview
  <2> DEFINE kept == [builder EXCEPT !.preview = IF @ = NONE THEN image ELSE @]
  <2>1. TakeImage(kept)
    BY <1>2 DEF DecodePreview
  <2>2. read => Pictured(content, kept)
    <3> HIDE DEF image, read
    <3> QED
      BY <1>1 DEF Pictured, SheetsPictured
  <2> HIDE DEF kept, image
  <2> QED
    BY <2>1, <2>2, ImagePictured
<1>3. CASE DecodeConfigPreview
  <2> DEFINE c == [builder EXCEPT !.configs = EnsureConfigs(@, {Here.index})]
             kept == [c EXCEPT !.configPreviews = Put(@, Here.index, image)]
  <2>1. TakeImage(kept)
    BY <1>3 DEF DecodeConfigPreview
  <2>2. Pictured(content, c)
    BY FieldsApart
  <2>3. read => Pictured(content, kept)
    <3> HIDE DEF image, read, c
    <3> QED
      BY <1>1, <2>2 DEF Pictured, SheetsPictured, Put
  <2> HIDE DEF kept, image
  <2> QED
    BY <2>1, <2>3, ImagePictured
<1>4. CASE DecodeSheetPreview
  <2> DEFINE kept == [builder EXCEPT !.sheetPreviews = Put(@, Here.index, image)]
  <2>1. TakeImage(kept)
    BY <1>4 DEF DecodeSheetPreview
  <2>2. read => Pictured(content, kept)
    <3> HIDE DEF image, read
    <3> QED
      BY <1>1 DEF Pictured, SheetsPictured, Put
  <2> HIDE DEF kept, image
  <2> QED
    BY <2>1, <2>2, ImagePictured
<1> QED
  BY <1>2, <1>3, <1>4

LEMMA StartPictured ==
  ASSUME ModernStart, content.envelope = "modern"
  PROVE  Pictured(content, builder')
<1>1. Pictured(content, EmptyBuilder)
  <2>1. \A X : <<>> \in Seq(X)
    OBVIOUS
  <2>2. IsList(<<>>)
    BY <2>1, Zenon DEF IsList
  <2> QED
    BY <2>2 DEF EmptyBuilder, Pictured, SheetsPictured
<1> DEFINE c == CollectEmbeddedDocuments(EmptyBuilder)
           d == CollectVersionCandidates(c)
<1>2. PICK u, v : c = [EmptyBuilder EXCEPT !.embedded = u, !.classes = v]
  BY Zenon DEF CollectEmbeddedDocuments
<1>3. Pictured(content, [EmptyBuilder EXCEPT !.embedded = u])
  BY <1>1, FieldsApart
<1>4. Pictured(content, [EmptyBuilder EXCEPT !.embedded = u, !.classes = v])
  BY <1>3, FieldsApart
<1>5. Pictured(content, c)
  BY <1>2, <1>4
<1> HIDE DEF c
<1>6. Pictured(content, d)
  BY <1>5, FieldsApart DEF CollectVersionCandidates
<1> HIDE DEF d
<1>7. Pictured(content, CollectConfigPaths(d))
  BY <1>6, FieldsApart DEF CollectConfigPaths
<1> QED
  BY <1>7 DEF ModernStart, c, d

LEMMA ModernPictured ==
  ASSUME IsFile(content), Walked, BuilderPictured, ModernStep
  PROVE  at' \in Nat /\ Pictured(content, builder')
<1>1. content.envelope = "modern" /\ at \in Nat
  BY DEF ModernStep, BuilderPictured
<1>2. \A e \in Entries : e # 0 /\ e + 1 \in Nat
  <2>1. content.entries \in Seq(ToSet(content.entries))
    BY DEF IsFile, IsList
  <2>2. Entries = 1 .. Len(content.entries) /\ Len(content.entries) \in Nat
    BY <2>1 DEF Entries
  <2> QED
    BY <2>2
<1>3. CASE ModernStart
  BY <1>1, <1>3, StartPictured DEF ModernStart
<1>4. CASE at \in Entries
  <2>1. Pictured(content, builder) /\ at + 1 \in Nat
    BY <1>2, <1>4 DEF BuilderPictured
  <2>2. at' = at + 1 \/ ModernFinish
    BY <1>2, <1>4
       DEF ModernStep, ModernStart, DecodePropertyXml, DecodeCoreXml, DecodeFeatures, DecodeTree,
           DecodeKeywords, DecodeHeader, DecodeSheetNames, DecodePreview, DecodeConfigPreview,
           DecodeSheetPreview, ModernSkip, Advance
  <2>3. CASE ModernSkip \/ ModernFinish
    BY <1>1, <2>1, <2>2, <2>3 DEF ModernSkip, ModernFinish
  <2>4. CASE ~(ModernSkip \/ ModernFinish)
    BY <1>2, <1>4, <2>1, <2>2, <2>4, PropertiesPictured, TreesPictured, KeywordsPictured,
       ArchivesPictured, PreviewsPictured DEF ModernStep, ModernStart
  <2> QED
    BY <2>3, <2>4
<1>5. CASE at \notin Entries /\ ~ModernStart
  <2>1. ModernFinish
    BY <1>5 DEF ModernStep, DecodePropertyXml, DecodeCoreXml, DecodeFeatures, DecodeTree,
                DecodeKeywords, DecodeHeader, DecodeSheetNames, DecodePreview, DecodeConfigPreview,
                DecodeSheetPreview, ModernSkip, Taking
  <2>2. at # 0
    <3>1. content.entries \in Seq(ToSet(content.entries))
      BY DEF IsFile, IsList
    <3>2. Len(content.entries) \in Nat
      BY <3>1
    <3> QED
      BY <2>1, <3>2 DEF ModernFinish
  <2> QED
    BY <1>1, <2>1, <2>2 DEF BuilderPictured, ModernFinish
<1> QED
  BY <1>3, <1>4, <1>5

-----------------------------------------------------------------------------
(***************************************************************************)
(* The legacy profile.                                                     *)
(***************************************************************************)
LEMMA LegacyPreviewsPictured ==
  ASSUME IsFile(content), Walked, content.envelope = "ole2", Pictured(content, builder),
         DecodeLegacyPreview
  PROVE  Pictured(content, builder')
<1> DEFINE image == PreviewOf(Here.data)
           read == PreviewReading(Here.data) = "ok"
           taken == Mark(builder, at, "partially_interpreted")
<1>1. read => Sound(content, image)
  BY LegacyImageSound DEF DecodeLegacyPreview
<1>2. Pictured(content, taken)
  BY MarkApart
<1>3. Pictured(content, Fail(builder, at, PreviewReading(Here.data)))
  BY MarkApart
<1>4. \A current : Preferred(current, image) = image \/ (current # NONE /\ Preferred(current, image) = current)
  BY DEF Preferred
<1>5. ASSUME read
      PROVE  /\ Pictured(content, [taken EXCEPT !.preview = Preferred(@, image)])
             /\ Pictured(content, [taken EXCEPT !.configPreviews =
                                     Put(@, Here.index, Preferred(Get(@, Here.index), image))])
  <2> DEFINE one == Preferred(taken.preview, image)
             other == Preferred(Get(taken.configPreviews, Here.index), image)
  <2>1. Sound(content, one)
    <3> HIDE DEF image, taken
    <3> QED
      BY <1>1, <1>2, <1>4, <1>5 DEF Pictured
  <2>2. Sound(content, other)
    <3> HIDE DEF image, taken
    <3> QED
      BY <1>1, <1>2, <1>4, <1>5 DEF Pictured, Get
  <2> HIDE DEF one, other, taken
  <2>3. Pictured(content, [taken EXCEPT !.preview = one])
    BY <1>2, <2>1 DEF Pictured
  <2>4. Pictured(content, [taken EXCEPT !.configPreviews = Put(@, Here.index, other)])
    BY <1>2, <2>2 DEF Pictured, Put
  <2> QED
    BY <2>3, <2>4 DEF one, other
<1> QED
  <2>1. \/ builder' = Fail(builder, at, PreviewReading(Here.data))
        \/ read /\ builder' = [taken EXCEPT !.preview = Preferred(@, image)]
        \/ read /\ builder' = [taken EXCEPT !.configPreviews =
                                 Put(@, Here.index, Preferred(Get(@, Here.index), image))]
    BY Zenon DEF DecodeLegacyPreview
  <2> HIDE DEF taken, image, read
  <2> QED
    BY <1>3, <1>5, <2>1

LEMMA LegacyReadersPictured ==
  ASSUME Pictured(content, builder), DecodePropertySet \/ DecodeLegacyHeader
  PROVE  Pictured(content, builder')
<1>1. PICK e, c, v : \/ builder' = Mark(builder, e, c) \/ builder' = Fail(builder, e, c)
                     \/ builder' = [Mark(builder, e, c) EXCEPT !.configs = v]
                     \/ builder' = [Mark(builder, e, c) EXCEPT !.properties = v]
  BY Zenon DEF DecodePropertySet, DecodeLegacyHeader
<1>2. Pictured(content, Mark(builder, e, c)) /\ Pictured(content, Fail(builder, e, c))
  BY MarkApart
<1>3. /\ Pictured(content, [Mark(builder, e, c) EXCEPT !.configs = v])
      /\ Pictured(content, [Mark(builder, e, c) EXCEPT !.properties = v])
  BY <1>2, FieldsApart
<1> QED
  BY <1>1, <1>2, <1>3

LEMMA LegacyPictured ==
  ASSUME IsFile(content), Walked, BuilderPictured, LegacyStep
  PROVE  at' \in Nat /\ Pictured(content, builder')
<1>1. content.envelope = "ole2" /\ at \in Nat
  BY DEF LegacyStep, BuilderPictured
<1>2. Entries = 1 .. Len(content.entries) /\ Len(content.entries) \in Nat
  <2>1. content.entries \in Seq(ToSet(content.entries))
    BY DEF IsFile, IsList
  <2> QED
    BY <2>1 DEF Entries
<1>3. CASE LegacyStart
  <2>1. Pictured(content, LegacyBuilder)
    BY <1>1 DEF LegacyBuilder, Pictured
  <2>2. PICK v : builder' = [LegacyBuilder EXCEPT !.configs = v]
    BY <1>3, Zenon DEF LegacyStart
  <2>3. Pictured(content, [LegacyBuilder EXCEPT !.configs = v])
    BY <2>1, FieldsApart
  <2> QED
    BY <1>3, <2>2, <2>3 DEF LegacyStart
<1>4. CASE LegacyFinish
  BY <1>1, <1>2, <1>4 DEF LegacyFinish, BuilderPictured
<1>5. CASE LegacySkip
  BY <1>1, <1>2, <1>5 DEF LegacySkip, BuilderPictured
<1>6. CASE DecodePropertySet \/ DecodeLegacyHeader \/ DecodeLegacyPreview
  <2>1. at \in Entries /\ at' = at + 1
    BY <1>6 DEF DecodePropertySet, DecodeLegacyHeader, DecodeLegacyPreview, Taking, Advance
  <2>2. Pictured(content, builder)
    BY <1>1, <1>2, <2>1 DEF BuilderPictured
  <2>3. Pictured(content, builder')
    BY <1>1, <1>6, <2>2, LegacyReadersPictured, LegacyPreviewsPictured
  <2> QED
    BY <1>1, <2>1, <2>3
<1> QED
  BY <1>3, <1>4, <1>5, <1>6 DEF LegacyStep

-----------------------------------------------------------------------------
(***************************************************************************)
(* The end of a profile: a descriptor of the facts is one of the builder.  *)
(***************************************************************************)
DescribedBy(b, f) ==
  /\ f.ready = TRUE /\ f.preview = b.preview
  /\ \A i \in DOMAIN f.configurations : f.configurations[i].preview = Get(b.configPreviews, i)

SheetsDescribedBy(b, sheets) ==
  \A k \in DOMAIN sheets : sheets[k].preview = NONE \/ \E n : sheets[k].preview = Get(b.sheetPreviews, n)

LEMMA SheetsResolved ==
  ASSUME NEW b, \A k \in DOMAIN b.sheets : b.sheets[k] = SheetOf(b.sheets[k])
  PROVE  SheetsDescribedBy(b, AttachSheetFormatData(AttachSheetPreviews(b), b))
<1> DEFINE s == AttachSheetPreviews(b)
           t == AttachSheetFormatData(s, b)
<1>1. \A k \in DOMAIN s : /\ "preview" \in DOMAIN s[k]
                          /\ s[k].preview = NONE \/ \E n : s[k].preview = Get(b.sheetPreviews, n)
  <2>1. CASE b.sheets = <<>>
    BY <2>1 DEF AttachSheetPreviews, SheetOfName, SheetOf
  <2>2. CASE b.sheets # <<>>
    <3>1. DOMAIN s = DOMAIN b.sheets
          /\ \A k \in DOMAIN b.sheets : s[k] = [b.sheets[k] EXCEPT !.preview = PreviewFor(b, k)]
      BY <2>2 DEF AttachSheetPreviews
    <3>2. ASSUME NEW k \in DOMAIN b.sheets PROVE "preview" \in DOMAIN b.sheets[k]
      <4>1. \A node : "preview" \in DOMAIN SheetOf(node)
        BY DEF SheetOf
      <4>2. b.sheets[k] = SheetOf(b.sheets[k])
        OBVIOUS
      <4> QED
        BY <4>1, <4>2
    <3>3. \A k \in DOMAIN b.sheets : PreviewFor(b, k) = NONE \/ \E n : PreviewFor(b, k) = Get(b.sheetPreviews, n)
      BY DEF PreviewFor
    <3> HIDE DEF s
    <3>4. ASSUME NEW k \in DOMAIN s PROVE "preview" \in DOMAIN s[k] /\ s[k].preview = PreviewFor(b, k)
      BY <3>1, <3>2
    <3> QED
      BY <3>1, <3>3, <3>4
  <2> QED
    BY <2>1, <2>2
<1>2. DOMAIN t = DOMAIN s /\ \A k \in DOMAIN s : \E v : t[k] = [s[k] EXCEPT !.formatted = v]
  BY Zenon DEF AttachSheetFormatData
<1> HIDE DEF s, t
<1>3. \A k \in DOMAIN t : t[k].preview = s[k].preview
  BY <1>1, <1>2
<1>4. SheetsDescribedBy(b, t)
  BY <1>1, <1>2, <1>3 DEF SheetsDescribedBy
<1> QED
  BY <1>4 DEF s, t

LEMMA ModernResolved ==
  ASSUME NEW b
  PROVE  /\ DescribedBy(b, ModernFacts(b))
         /\ ModernFacts(b).sheets = AttachSheetFormatData(AttachSheetPreviews(b), b)
<1>1. \E u : /\ ModernFacts(b).configurations = FinishConfigurations(b, u)
             /\ ModernFacts(b).ready = TRUE /\ ModernFacts(b).preview = b.preview
             /\ ModernFacts(b).sheets = AttachSheetFormatData(AttachSheetPreviews(b), b)
  BY DEF ModernFacts
<1>2. \A u : \A i \in DOMAIN FinishConfigurations(b, u) :
        FinishConfigurations(b, u)[i].preview = Get(b.configPreviews, i)
  BY DEF FinishConfigurations
<1> QED
  BY <1>1, <1>2 DEF DescribedBy

LEMMA LegacyResolved ==
  ASSUME NEW b
  PROVE  DescribedBy(b, LegacyFacts(b)) /\ LegacyFacts(b).sheets = <<>>
  BY DEF LegacyFacts, DescribedBy

LEMMA FinishSound ==
  ASSUME IsFile(content), BuilderPictured,
         \/ content.envelope = "modern" /\ ModernFinish
         \/ content.envelope = "ole2" /\ LegacyFinish
  PROVE  DescriptorsSound' /\ facts'.ready = TRUE
<1>1. at # 0 /\ Pictured(content, builder)
  <2>1. content.entries \in Seq(ToSet(content.entries))
    BY DEF IsFile, IsList
  <2>2. Len(content.entries) \in Nat
    BY <2>1
  <2> QED
    BY <2>2 DEF BuilderPictured, ModernFinish, LegacyFinish
<1>2. content' = content /\ builder' = builder
  BY DEF ModernFinish, LegacyFinish
<1>3. DescribedBy(builder, facts')
  BY ModernResolved, LegacyResolved DEF ModernFinish, LegacyFinish
<1>4. facts'.sheets = <<>> \/ (SheetsPictured(content, builder) /\ SheetsDescribedBy(builder, facts'.sheets))
  <2>1. CASE content.envelope = "modern" /\ ModernFinish
    <3>1. SheetsPictured(content, builder)
      BY <1>1, <2>1 DEF Pictured
    <3>2. SheetsDescribedBy(builder, facts'.sheets)
      BY <2>1, <3>1, SheetsResolved, ModernResolved DEF ModernFinish, SheetsPictured
    <3> QED
      BY <3>1, <3>2
  <2>2. CASE content.envelope = "ole2" /\ LegacyFinish
    BY <2>2, LegacyResolved DEF LegacyFinish
  <2> QED
    BY <2>1, <2>2
<1>5. ASSUME NEW resource \in Descriptors' PROVE Sound(content, resource)
  <2>1. /\ resource # NONE
        /\ \/ resource = builder.preview
           \/ \E i \in DOMAIN facts'.configurations : resource = Get(builder.configPreviews, i)
           \/ \E k \in DOMAIN facts'.sheets : resource = facts'.sheets[k].preview
    BY <1>3 DEF Descriptors, DescribedBy
  <2>2. CASE resource = builder.preview
    BY <1>1, <2>1, <2>2 DEF Pictured
  <2>3. CASE \E i \in DOMAIN facts'.configurations : resource = Get(builder.configPreviews, i)
    BY <1>1, <2>1, <2>3 DEF Pictured, Get
  <2>4. CASE \E k \in DOMAIN facts'.sheets : resource = facts'.sheets[k].preview
    BY <1>4, <2>1, <2>4 DEF SheetsPictured, SheetsDescribedBy, Get
  <2> QED
    BY <2>1, <2>2, <2>3, <2>4
<1> QED
  BY <1>2, <1>3, <1>5 DEF DescriptorsSound, DescribedBy, Sound, Extractable, Revalidated

-----------------------------------------------------------------------------
(***************************************************************************)
(* The invariant, action by action.                                        *)
(***************************************************************************)
LEMMA Initially == ParserInit => ParserInv
<1> SUFFICES ASSUME ParserInit PROVE ParserInv
  OBVIOUS
<1>1. ReaderTyped
  BY DEF ParserInit, ReaderTyped, Sources, Idle
<1>2. Descriptors = {}
  BY DEF ParserInit, Descriptors, NoFacts
<1>3. JobsInOrder
  BY DEF ParserInit, JobsInOrder, Idle, NoFacts
<1>4. ContentHeld
  BY ParserAssumption DEF ParserInit, ContentHeld, Unread, Idle, NoFacts
<1>5. BuilderPictured
  BY DEF ParserInit, BuilderPictured
<1> QED
  BY <1>1, <1>2, <1>3, <1>4, <1>5 DEF ParserInv, DescriptorsSound

\* As long as nothing is parsed, what was parsed stays.
LEMMA NothingParsed ==
  ASSUME BuilderPictured, DescriptorsSound, UNCHANGED factVars
  PROVE  BuilderPictured' /\ DescriptorsSound' /\ Descriptors' = Descriptors
<1>1. UNCHANGED <<content, hint, at, builder, facts>>
  BY DEF factVars
<1>2. Descriptors' = Descriptors
  BY <1>1 DEF Descriptors
<1>3. BuilderPictured'
  BY <1>1 DEF BuilderPictured, Pictured, SheetsPictured, Sound, Extractable, Revalidated, RangeFits
<1>4. DescriptorsSound'
  BY <1>1, <1>2 DEF DescriptorsSound, Sound, Extractable, Revalidated, RangeFits
<1> QED
  BY <1>2, <1>3, <1>4

LEMMA RewriteKeeps ==
  ASSUME ParserInv, Rewrite
  PROVE  ParserInv'
<1>1. UNCHANGED factVars /\ UNCHANGED <<content, hint, at, builder, facts, reader, result, released>>
  BY DEF Rewrite, factVars
<1>2. BuilderPictured' /\ DescriptorsSound' /\ Descriptors' = Descriptors
  BY <1>1, NothingParsed DEF ParserInv
<1>3. disk' \in Sources \cup {NONE} /\ changes' \in Nat /\ changes' # 0
  BY DEF Rewrite, ParserInv, ReaderTyped, Sources
<1>4. ReaderTyped'
  BY <1>1, <1>3 DEF ParserInv, ReaderTyped
<1>5. JobsInOrder'
  BY <1>1, <1>2 DEF ParserInv, JobsInOrder
<1>6. ContentHeld'
  BY <1>1, <1>3 DEF ParserInv, ContentHeld, Held, Sources
<1> QED
  BY <1>2, <1>4, <1>5, <1>6 DEF ParserInv

LEMMA RefuseKeeps ==
  ASSUME ParserInv, NEW bytes \in Nat, reader.phase \in {"opening", "opened"}, Refuse(bytes)
  PROVE  ParserInv'
<1>1. UNCHANGED factVars /\ UNCHANGED <<content, hint, at, builder, facts, disk, changes>> /\ reader' = Idle
  BY DEF Refuse, factVars
<1>2. BuilderPictured' /\ DescriptorsSound' /\ Descriptors' = Descriptors
  BY <1>1, NothingParsed DEF ParserInv
<1>3. ReaderTyped'
  BY <1>1 DEF ParserInv, ReaderTyped, Idle, Sources
<1>4. Rejection(bytes) # NONE
  <2>1. {} \in SUBSET {"extension_mismatch", "unsupported", "profile_partial"} /\ FALSE \in BOOLEAN
    OBVIOUS
  <2>2. Rejection(bytes) \in ParseResult
    BY <2>1 DEF Rejection, ParseResult
  <2> QED
    BY <2>2, NoneAssumption
<1>5. result' = NONE => result = NONE
  BY <1>4 DEF Refuse
<1>6. reader.phase # "parsing" /\ reader'.phase = "idle"
  BY <1>1 DEF Idle
<1>7. JobsInOrder'
  BY <1>1, <1>5, <1>6 DEF ParserInv, JobsInOrder
<1>8. ContentHeld'
  BY <1>1, <1>6 DEF ParserInv, ContentHeld, Held, Sources
<1> QED
  BY <1>2, <1>3, <1>7, <1>8 DEF ParserInv

LEMMA BeginKeeps ==
  ASSUME ParserInv, ParsePath \/ ExtractResource
  PROVE  ParserInv'
<1>1. PICK job, resource :
        /\ Begin(job, resource)
        /\ \/ job = "parse" /\ result = NONE
           \/ job = "extract" /\ result # NONE /\ resource \in Descriptors
  BY DEF ParsePath, ExtractResource
<1>2. /\ UNCHANGED factVars /\ UNCHANGED <<content, hint, at, builder, facts, disk, changes, result>>
      /\ reader' = [phase |-> "opening", job |-> job, resource |-> resource] /\ reader = Idle
  BY <1>1 DEF Begin, factVars
<1>3. BuilderPictured' /\ DescriptorsSound' /\ Descriptors' = Descriptors
  BY <1>2, NothingParsed DEF ParserInv
<1>4. reader'.phase = "opening" /\ reader'.job = job /\ reader'.resource = resource /\ reader.phase = "idle"
  BY <1>2 DEF Idle
<1>5. ReaderTyped'
  BY <1>1, <1>2, <1>4 DEF ParserInv, ReaderTyped, Sources
<1>6. resource \in Descriptors => facts.ready
  BY DEF Descriptors
<1>7. JobsInOrder'
  BY <1>1, <1>2, <1>3, <1>4, <1>6 DEF ParserInv, JobsInOrder
<1>8. ContentHeld'
  BY <1>2, <1>4 DEF ParserInv, ContentHeld, Held, Sources
<1> QED
  BY <1>3, <1>5, <1>7, <1>8 DEF ParserInv

LEMMA OpenKeeps ==
  ASSUME ParserInv, Open
  PROVE  ParserInv'
<1>1. /\ UNCHANGED factVars /\ UNCHANGED <<content, hint, at, builder, facts, disk, changes, result>>
      /\ reader' = [reader EXCEPT !.phase = "opened"] /\ reader.phase = "opening"
  BY DEF Open, factVars
<1>2. BuilderPictured' /\ DescriptorsSound' /\ Descriptors' = Descriptors
  BY <1>1, NothingParsed DEF ParserInv
<1>3. /\ reader' = [phase |-> "opened", job |-> reader.job, resource |-> reader.resource]
      /\ reader'.phase = "opened" /\ reader'.job = reader.job /\ reader'.resource = reader.resource
  BY <1>1 DEF ParserInv, ReaderTyped
<1>4. ReaderTyped'
  BY <1>1, <1>3 DEF ParserInv, ReaderTyped, Sources
<1>5. JobsInOrder'
  BY <1>1, <1>2, <1>3 DEF ParserInv, JobsInOrder
<1>6. ContentHeld'
  BY <1>1, <1>3 DEF ParserInv, ContentHeld, Held, Sources
<1> QED
  BY <1>2, <1>4, <1>5, <1>6 DEF ParserInv

LEMMA ReleaseKeeps ==
  ASSUME ParserInv, Release
  PROVE  ParserInv'
<1>1. /\ UNCHANGED factVars /\ UNCHANGED <<content, hint, at, builder, facts, disk, changes, result>>
      /\ reader' = Idle /\ reader.phase = "opened"
  BY DEF Release, Fits, factVars
<1>2. BuilderPictured' /\ DescriptorsSound' /\ Descriptors' = Descriptors
  BY <1>1, NothingParsed DEF ParserInv
<1>3. reader'.phase = "idle"
  BY <1>1 DEF Idle
<1>4. ReaderTyped'
  BY <1>1 DEF ParserInv, ReaderTyped, Idle, Sources
<1>5. JobsInOrder'
  BY <1>1, <1>3 DEF ParserInv, JobsInOrder
<1>6. ContentHeld'
  BY <1>1, <1>3 DEF ParserInv, ContentHeld, Held, Sources
<1> QED
  BY <1>2, <1>4, <1>5, <1>6 DEF ParserInv

\* A file that fits was not longer than the limit when it was read.
LEMMA FittingFile ==
  ASSUME ReaderTyped, Fits
  PROVE  disk \in Sources /\ disk # NONE /\ disk.size <= MaxFileSize
<1>1. disk \in Sources /\ disk # NONE
  BY DEF ReaderTyped, Fits
<1>2. disk.size \in Nat
  BY <1>1, FileAssumption DEF Sources, IsFile
<1> QED
  BY <1>1, <1>2, ParserAssumption DEF Fits, BytesRead

LEMMA ReadKeeps ==
  ASSUME ParserInv, ReadForParsing
  PROVE  ParserInv'
<1>1. /\ UNCHANGED <<hint, at, builder, facts, disk, changes, result>> /\ content' = disk
      /\ reader' = [reader EXCEPT !.phase = "parsing"] /\ reader.phase = "opened" /\ reader.job = "parse"
  BY DEF ReadForParsing, Fits
<1>2. disk \in Sources /\ disk # NONE /\ disk.size <= MaxFileSize
  BY FittingFile DEF ParserInv, ReadForParsing
<1>3. result = NONE /\ facts = NoFacts /\ at = 0
  BY <1>1 DEF ParserInv, JobsInOrder
<1>4. Descriptors' = {}
  BY <1>1, <1>3 DEF Descriptors, NoFacts
<1>5. /\ reader' = [phase |-> "parsing", job |-> reader.job, resource |-> reader.resource]
      /\ reader'.phase = "parsing" /\ reader'.job = "parse" /\ reader'.resource = reader.resource
  BY <1>1 DEF ParserInv, ReaderTyped
<1>6. ReaderTyped'
  BY <1>1, <1>5 DEF ParserInv, ReaderTyped, Sources
<1>7. JobsInOrder'
  BY <1>1, <1>3, <1>5 DEF ParserInv, JobsInOrder
<1>8. ContentHeld'
  BY <1>1, <1>2 DEF ContentHeld, Held, Sources
<1>9. BuilderPictured'
  BY <1>1, <1>3 DEF BuilderPictured
<1> QED
  BY <1>4, <1>6, <1>7, <1>8, <1>9 DEF ParserInv, DescriptorsSound

LEMMA ProfileKeeps ==
  ASSUME ParserInv, Profile
  PROVE  ParserInv'
<1>1. UNCHANGED <<disk, changes, reader, result, released>> /\ reader.phase = "parsing" /\ Walked
  BY DEF Profile, parserVars, Parsing
<1>2. Held /\ IsFile(content)
  BY <1>1, FileAssumption DEF ParserInv, ContentHeld, Held, Sources
<1>3. content' = content
  BY DEF Profile, ModernStep, LegacyStep, ModernStart, DecodePropertyXml, DecodeCoreXml, DecodeFeatures,
         DecodeTree, DecodeKeywords, DecodeHeader, DecodeSheetNames, DecodePreview, DecodeConfigPreview,
         DecodeSheetPreview, ModernSkip, ModernFinish, LegacyStart, DecodePropertySet,
         DecodeLegacyHeader, DecodeLegacyPreview, LegacySkip, LegacyFinish, Advance
<1>4. at' \in Nat /\ Pictured(content, builder')
  BY <1>1, <1>2, ModernPictured, LegacyPictured DEF ParserInv, Profile
<1>5. BuilderPictured'
  BY <1>3, <1>4 DEF BuilderPictured, Pictured, SheetsPictured, Sound, Extractable, Revalidated, RangeFits
<1>6. \/ content.envelope = "modern" /\ ModernFinish
      \/ content.envelope = "ole2" /\ LegacyFinish
      \/ UNCHANGED <<content, facts>>
  BY DEF Profile, ModernStep, LegacyStep, ModernStart, DecodePropertyXml, DecodeCoreXml, DecodeFeatures,
         DecodeTree, DecodeKeywords, DecodeHeader, DecodeSheetNames, DecodePreview, DecodeConfigPreview,
         DecodeSheetPreview, ModernSkip, LegacyStart, DecodePropertySet,
         DecodeLegacyHeader, DecodeLegacyPreview, LegacySkip, Advance
<1>7. DescriptorsSound' /\ facts'.ready \in BOOLEAN
  <2>1. CASE UNCHANGED <<content, facts>>
    BY <2>1 DEF ParserInv, JobsInOrder, DescriptorsSound, Descriptors, Sound, Extractable, Revalidated, RangeFits
  <2>2. CASE ~UNCHANGED <<content, facts>>
    BY <1>2, <1>6, <2>2, FinishSound DEF ParserInv
  <2> QED
    BY <2>1, <2>2
<1>8. ReaderTyped'
  BY <1>1 DEF ParserInv, ReaderTyped, Sources
<1>9. JobsInOrder'
  <2>1. reader.job = "parse" /\ reader.job # "extract"
    BY <1>1 DEF ParserInv, ReaderTyped
  <2> QED
    BY <1>1, <1>7, <2>1 DEF ParserInv, JobsInOrder
<1>10. ContentHeld'
  BY <1>1, <1>2, <1>3 DEF ParserInv, ContentHeld, Held, Sources
<1> QED
  BY <1>5, <1>7, <1>8, <1>9, <1>10 DEF ParserInv

LEMMA AnswerKeeps ==
  ASSUME ParserInv, AnswerStep
  PROVE  ParserInv'
<1>1. PICK status \in {"rejected", "malformed", "unsupported", "partial"}, document \in BOOLEAN,
          notes \in SUBSET {"unsupported", "profile_partial"} : Answer(status, document, notes)
  <2>1. /\ {} \in SUBSET {"unsupported", "profile_partial"}
        /\ {"unsupported"} \in SUBSET {"unsupported", "profile_partial"}
        /\ {"profile_partial"} \in SUBSET {"unsupported", "profile_partial"}
        /\ TRUE \in BOOLEAN /\ FALSE \in BOOLEAN
    OBVIOUS
  <2> QED
    BY <2>1 DEF AnswerStep, InspectionFailed, NothingRecognized, RecognizedButUnsupported, Recognized
<1>2. /\ UNCHANGED factVars /\ UNCHANGED <<content, hint, at, builder, facts, disk, changes>>
      /\ reader' = Idle /\ reader.phase = "parsing"
      /\ result' = [status |-> status, document |-> document, bytes |-> content.size,
                    notes |-> notes \cup ExtensionNotes]
  BY <1>1 DEF Answer, Parsing, factVars
<1>3. BuilderPictured' /\ DescriptorsSound' /\ Descriptors' = Descriptors
  BY <1>2, NothingParsed DEF ParserInv
<1>4. content.size \in Nat
  BY <1>2, FileAssumption DEF ParserInv, ContentHeld, Held, Sources, IsFile
<1>5. result' # NONE
  <2>1. notes \cup ExtensionNotes \in SUBSET {"extension_mismatch", "unsupported", "profile_partial"}
    BY DEF ExtensionNotes
  <2>2. result' \in ParseResult
    BY <1>2, <1>4, <2>1 DEF ParseResult
  <2> QED
    BY <2>2, NoneAssumption
<1>6. reader'.phase = "idle"
  BY <1>2 DEF Idle
<1>7. ReaderTyped'
  BY <1>2 DEF ParserInv, ReaderTyped, Idle, Sources
<1>8. JobsInOrder'
  BY <1>2, <1>5, <1>6 DEF ParserInv, JobsInOrder
<1>9. ContentHeld'
  BY <1>2, <1>6 DEF ParserInv, ContentHeld, Held, Sources
<1> QED
  BY <1>3, <1>7, <1>8, <1>9 DEF ParserInv

LEMMA StepKeeps ==
  ASSUME ParserInv, [ParserNext]_vars
  PROVE  ParserInv'
<1>1. CASE Rewrite
  BY <1>1, RewriteKeeps
<1>2. CASE ReadStep
  <2>1. CASE ParsePath
    BY <2>1, BeginKeeps
  <2>2. CASE CannotOpen \/ TooLarge \/ CannotRead \/ GrownTooLarge
    <3>1. disk # NONE => disk.size \in Nat
      BY FileAssumption DEF ParserInv, ReaderTyped, Sources, IsFile
    <3>2. \E bytes \in Nat : reader.phase \in {"opening", "opened"} /\ Refuse(bytes)
      BY <2>2, <3>1, ParserAssumption DEF CannotOpen, TooLarge, CannotRead, GrownTooLarge, BytesRead
    <3> QED
      BY <3>2, RefuseKeeps
  <2>3. CASE Open
    BY <2>3, OpenKeeps
  <2>4. CASE ReadForParsing
    BY <2>4, ReadKeeps
  <2>5. CASE Release
    BY <2>5, ReleaseKeeps
  <2> QED
    BY <1>2, <2>1, <2>2, <2>3, <2>4, <2>5 DEF ReadStep
<1>3. CASE Profile
  BY <1>3, ProfileKeeps
<1>4. CASE AnswerStep
  BY <1>4, AnswerKeeps
<1>5. CASE ExtractResource
  BY <1>5, BeginKeeps
<1>6. CASE UNCHANGED vars
  <2>1. UNCHANGED <<content, hint, at, builder, facts, disk, changes, reader, result>> /\ UNCHANGED factVars
    BY <1>6 DEF vars, factVars, parserVars
  <2>2. BuilderPictured' /\ DescriptorsSound' /\ Descriptors' = Descriptors
    BY <2>1, NothingParsed DEF ParserInv
  <2>3. ReaderTyped' /\ JobsInOrder' /\ ContentHeld'
    BY <2>1, <2>2 DEF ParserInv, ReaderTyped, JobsInOrder, ContentHeld, Held, Sources
  <2> QED
    BY <2>2, <2>3 DEF ParserInv
<1> QED
  BY <1>1, <1>2, <1>3, <1>4, <1>5, <1>6 DEF ParserNext

LEMMA Invariance == ParserSpec => []ParserInv
<1>1. ParserInv /\ [ParserNext]_vars => ParserInv'
  BY StepKeeps
<1> QED
  BY <1>1, Initially, PTL DEF ParserSpec

\* What is held of a path never exceeds the limit, whoever writes the file between the
\* question for its length and the read (read_path_bounded).
THEOREM ReadsAreBounded == ParserSpec => []ReadIsBounded
<1>1. ParserInv => ReadIsBounded
  BY DEF ParserInv, ContentHeld, ReadIsBounded
<1> QED
  BY <1>1, Invariance, PTL

-----------------------------------------------------------------------------
(***************************************************************************)
(* What is released is what was described.                                 *)
(***************************************************************************)
\* A file nobody wrote to is opened and read again for a resource.
LEMMA UnchangedFits ==
  ASSUME ParserInv, changes = 0, reader.phase # "idle", reader.job = "extract"
  PROVE  /\ disk = content /\ disk # NONE /\ disk.size \in Nat /\ disk.size <= MaxFileSize
         /\ Sound(content, reader.resource)
<1>1. facts.ready /\ reader.resource \in Descriptors
  BY DEF ParserInv, JobsInOrder
<1>2. Held
  BY <1>1 DEF ParserInv, ContentHeld
<1>3. Sound(content, reader.resource)
  BY <1>1 DEF ParserInv, DescriptorsSound
<1>4. content.size \in Nat
  BY <1>2, FileAssumption DEF Held, Sources, IsFile
<1> QED
  BY <1>2, <1>3, <1>4 DEF Held

LEMMA RefuseReleases ==
  ASSUME ParserInv, ReleasedAsDescribed, CannotOpen \/ TooLarge \/ CannotRead \/ GrownTooLarge
  PROVE  ReleasedAsDescribed'
<1>1. PICK bytes : reader.phase \in {"opening", "opened"} /\ Refuse(bytes)
  BY DEF CannotOpen, TooLarge, CannotRead, GrownTooLarge
<1>2. UNCHANGED changes
  BY <1>1 DEF Refuse
<1>3. CASE reader.job = "parse"
  BY <1>1, <1>2, <1>3 DEF Refuse, ReleasedAsDescribed
<1>4. CASE reader.job # "parse"
  <2>1. reader.phase # "idle" /\ reader.job = "extract"
    BY <1>1, <1>4 DEF ParserInv, ReaderTyped
  <2>2. released' = [status |-> "rejected", data |-> NONE, resource |-> reader.resource]
    BY <1>1, <1>4 DEF Refuse
  <2>3. changes # 0
    <3> SUFFICES ASSUME changes = 0 PROVE FALSE
      OBVIOUS
    <3>1. disk # NONE /\ disk.size \in Nat /\ disk.size <= MaxFileSize
      BY <2>1, UnchangedFits
    <3> QED
      BY <3>1, ParserAssumption DEF CannotOpen, TooLarge, CannotRead, GrownTooLarge, BytesRead
  <2> QED
    BY <1>2, <2>2, <2>3 DEF ReleasedAsDescribed
<1> QED
  BY <1>3, <1>4

LEMMA ReleaseReleases ==
  ASSUME ParserInv, Release
  PROVE  ReleasedAsDescribed'
<1> DEFINE resource == reader.resource
           data == SubSeq(Payload(disk.entries[resource.entry]), resource.offset + 1,
                          resource.offset + resource.length)
           Outcome(status, bytes) == [status |-> status, data |-> bytes, resource |-> resource]
<1>1. /\ UNCHANGED changes /\ reader.phase # "idle" /\ reader.job = "extract"
      /\ released' = IF ~Extractable(disk, resource) THEN Outcome("unavailable", NONE)
                     ELSE IF ~Revalidated(disk, resource) THEN Outcome("malformed", NONE)
                     ELSE Outcome("extracted", data)
  BY DEF Release, Fits
<1>2. CASE ~Sound(disk, resource)
  <2>1. released' = Outcome("unavailable", NONE) \/ released' = Outcome("malformed", NONE)
    BY <1>1, <1>2 DEF Sound
  <2>2. changes # 0
    BY <1>1, <1>2, UnchangedFits
  <2> QED
    BY <1>1, <2>1, <2>2 DEF ReleasedAsDescribed
<1>3. CASE Sound(disk, resource)
  <2>1. released' = Outcome("extracted", data)
    BY <1>1, <1>3 DEF Sound
  <2>2. data = resource.digest
    BY <1>3 DEF Sound, Revalidated
  <2>3. released'.status = "extracted" /\ released'.data = data /\ released'.resource = resource
    <3> HIDE DEF data, resource
    <3> QED
      BY <2>1
  <2> HIDE DEF data
  <2> QED
    BY <2>2, <2>3 DEF ReleasedAsDescribed
<1> QED
  BY <1>2, <1>3

LEMMA StepReleases ==
  ASSUME ParserInv, ReleasedAsDescribed, [ParserNext]_vars
  PROVE  ReleasedAsDescribed'
<1>1. CASE Rewrite
  BY <1>1 DEF Rewrite, ReleasedAsDescribed, ParserInv, ReaderTyped
<1>2. CASE CannotOpen \/ TooLarge \/ CannotRead \/ GrownTooLarge
  BY <1>2, RefuseReleases
<1>3. CASE Release
  BY <1>3, ReleaseReleases
<1>4. CASE UNCHANGED <<changes, released>>
  BY <1>4 DEF ReleasedAsDescribed
<1>5. ASSUME ParsePath \/ Open \/ ReadForParsing \/ Profile \/ AnswerStep \/ ExtractResource \/ UNCHANGED vars
      PROVE  UNCHANGED <<changes, released>>
  BY <1>5 DEF ParsePath, ExtractResource, Begin, Open, ReadForParsing, Profile, parserVars, AnswerStep,
              InspectionFailed, NothingRecognized, RecognizedButUnsupported, Recognized, Answer, vars
<1> QED
  BY <1>1, <1>2, <1>3, <1>4, <1>5 DEF ParserNext, ReadStep

\* A resource is released byte for byte as it was described, whatever the path holds by
\* then, or not at all; from a file nobody wrote to it is released (extract_resource_path).
THEOREM ResourcesAreAsDescribed == ParserSpec => []ReleasedAsDescribed
<1>1. ParserInit => ReleasedAsDescribed
  BY DEF ParserInit, ReleasedAsDescribed
<1>2. ParserInv /\ ReleasedAsDescribed /\ [ParserNext]_vars => ReleasedAsDescribed'
  BY StepReleases
<1> QED
  BY <1>1, <1>2, Invariance, PTL DEF ParserSpec

-----------------------------------------------------------------------------
(***************************************************************************)
(* Sheets and the previews that are numbered by their names.               *)
(***************************************************************************)
\* SheetPreviewsFollowNames, of any builder and any sheets.
SheetsFollow(b, sheets) ==
  \A k \in {j \in DOMAIN sheets : sheets[j].preview # NONE} :
    /\ b.sheetNames[sheets[k].preview.index + 1] = sheets[k].name
    /\ \A j \in DOMAIN sheets : sheets[j].preview = sheets[k].preview => j = k

SheetsAttached ==
  facts.ready =>
    /\ at = Len(content.entries) + 1
    /\ facts.profile = "modern" => SheetsFollow(builder, facts.sheets)

\* A name is found where it was stored.
LEMMA PositionIs ==
  ASSUME NEW b, IsList(b.sheetNames), NEW name, SheetPosition(b, name) # 0
  PROVE  SheetPosition(b, name) \in Nat \ {0} /\ b.sheetNames[SheetPosition(b, name)] = name
<1> DEFINE I == {i \in 1 .. Len(b.sheetNames) : b.sheetNames[i] = name}
<1>1. SheetPosition(b, name) = IF I # {} THEN Max(I) ELSE 0
  BY Zenon DEF SheetPosition, SelectLastInSeq
<1>2. Len(b.sheetNames) \in Nat
  BY DEF IsList
<1>3. Max(I) \in I
  <2>1. I \in SUBSET (1 .. Len(b.sheetNames)) /\ I # {}
    BY <1>1
  <2> HIDE DEF I
  <2> QED
    BY <1>2, <2>1, MaxIs
<1>4. SheetPosition(b, name) = Max(I)
  BY <1>1
<1> HIDE DEF I
<1>5. SheetPosition(b, name) \in I
  BY <1>3, <1>4
<1> QED
  BY <1>2, <1>5 DEF I

LEMMA SheetsFollowNames ==
  ASSUME NEW b, SheetsPictured(content, b)
  PROVE  SheetsFollow(b, AttachSheetPreviews(b))
<1> DEFINE s == AttachSheetPreviews(b)
<1>1. CASE b.sheets = <<>>
  <2>1. s = [k \in DOMAIN b.sheetNames |-> SheetOfName(b, k)]
    BY <1>1 DEF AttachSheetPreviews
  <2>2. DOMAIN b.sheetNames \in SUBSET Nat
    BY DEF SheetsPictured, IsList
  <2>3. ASSUME NEW k \in DOMAIN s, s[k].preview # NONE
        PROVE  k \in Nat /\ s[k].preview.index = k - 1 /\ b.sheetNames[k] = s[k].name
    <3>1. s[k] = SheetOfName(b, k) /\ k \in Nat
      BY <2>1, <2>2
    <3>2. s[k].preview = Get(b.sheetPreviews, k - 1) /\ s[k].name = b.sheetNames[k]
      BY <3>1 DEF SheetOfName, SheetOf
    <3> HIDE DEF s
    <3> QED
      BY <2>3, <3>1, <3>2 DEF Get, SheetsPictured
  <2> HIDE DEF s
  <2>4. SheetsFollow(b, s)
    BY <2>3 DEF SheetsFollow
  <2> QED
    BY <2>4 DEF s
<1>2. CASE b.sheets # <<>>
  <2>1. s = [k \in DOMAIN b.sheets |-> [b.sheets[k] EXCEPT !.preview = PreviewFor(b, k)]]
    BY <1>2 DEF AttachSheetPreviews
  <2>2. DOMAIN b.sheets = 1 .. Len(b.sheets) /\ Len(b.sheets) \in Nat
    BY DEF SheetsPictured, IsList
  <2>3. ASSUME NEW k \in DOMAIN s
        PROVE  s[k].preview = PreviewFor(b, k) /\ s[k].name = b.sheets[k].name
    <3>1. \A node : "preview" \in DOMAIN SheetOf(node)
      BY DEF SheetOf
    <3>2. b.sheets[k] = SheetOf(b.sheets[k])
      BY <2>1 DEF SheetsPictured
    <3>3. "preview" \in DOMAIN b.sheets[k] /\ s[k] = [b.sheets[k] EXCEPT !.preview = PreviewFor(b, k)]
      BY <2>1, <3>1, <3>2
    <3> HIDE DEF s
    <3> QED
      BY <3>3
  <2> DEFINE place(k) == SheetPosition(b, b.sheets[k].name)
  <2>4. ASSUME NEW k \in DOMAIN s, s[k].preview # NONE
        PROVE  /\ s[k].preview.index + 1 = place(k) /\ b.sheetNames[place(k)] = s[k].name
               /\ ~EarlierNamesake(b.sheets, k)
    <3>1. s[k].preview = PreviewFor(b, k) /\ s[k].name = b.sheets[k].name
      BY <2>3
    <3>2. /\ place(k) # 0 /\ ~EarlierNamesake(b.sheets, k)
          /\ s[k].preview = Get(b.sheetPreviews, place(k) - 1)
      BY <2>4, <3>1 DEF PreviewFor
    <3>3. place(k) \in Nat /\ b.sheetNames[place(k)] = b.sheets[k].name
      BY <3>2, PositionIs DEF SheetsPictured
    <3> HIDE DEF s, place
    <3>4. s[k].preview.index = place(k) - 1
      BY <2>4, <3>2 DEF Get, SheetsPictured
    <3> QED
      BY <3>1, <3>2, <3>3, <3>4
  <2>5. ASSUME NEW k \in DOMAIN s, s[k].preview # NONE, NEW j \in DOMAIN s, s[j].preview = s[k].preview
        PROVE  j = k
    <3>1. /\ b.sheets[j].name = b.sheets[k].name
          /\ ~EarlierNamesake(b.sheets, k) /\ ~EarlierNamesake(b.sheets, j)
      <4> HIDE DEF s, place
      <4> QED
        BY <2>3, <2>4, <2>5
    <3>2. j \in 1 .. Len(b.sheets) /\ k \in 1 .. Len(b.sheets)
      BY <2>1, <2>2
    <3>3. ~(j \in 1 .. k - 1) /\ ~(k \in 1 .. j - 1)
      BY <3>1 DEF EarlierNamesake
    <3> QED
      BY <2>2, <3>2, <3>3
  <2> HIDE DEF s
  <2>6. \A k \in DOMAIN s : s[k].preview # NONE => b.sheetNames[s[k].preview.index + 1] = s[k].name
    BY <2>4
  <2> HIDE DEF place
  <2>7. SheetsFollow(b, s)
    BY <2>5, <2>6 DEF SheetsFollow
  <2> QED
    BY <2>7 DEF s
<1> QED
  BY <1>1, <1>2

LEMMA FormatsApart ==
  ASSUME NEW b, SheetsPictured(content, b)
  PROVE  SheetsFollow(b, AttachSheetFormatData(AttachSheetPreviews(b), b))
<1> DEFINE s == AttachSheetPreviews(b)
           t == AttachSheetFormatData(s, b)
<1>1. DOMAIN t = DOMAIN s /\ \A k \in DOMAIN s : \E v : t[k] = [s[k] EXCEPT !.formatted = v]
  BY Zenon DEF AttachSheetFormatData
<1>2. \A k \in DOMAIN s : {"name", "preview"} \subseteq DOMAIN s[k]
  <2>1. \A node : {"name", "preview"} \subseteq DOMAIN SheetOf(node)
    BY DEF SheetOf
  <2>2. CASE b.sheets = <<>>
    BY <2>1, <2>2 DEF AttachSheetPreviews, SheetOfName
  <2>3. CASE b.sheets # <<>>
    <3>1. s = [k \in DOMAIN b.sheets |-> [b.sheets[k] EXCEPT !.preview = PreviewFor(b, k)]]
      BY <2>3 DEF AttachSheetPreviews
    <3>2. \A k \in DOMAIN b.sheets : {"name", "preview"} \subseteq DOMAIN b.sheets[k]
      <4>1. \A k \in DOMAIN b.sheets : b.sheets[k] = SheetOf(b.sheets[k])
        BY DEF SheetsPictured
      <4> QED
        BY <2>1, <4>1
    <3> HIDE DEF s
    <3> QED
      BY <3>1, <3>2
  <2> QED
    BY <2>2, <2>3
<1>3. SheetsFollow(b, s)
  BY SheetsFollowNames
<1> HIDE DEF s, t
<1>4. \A k \in DOMAIN t : t[k].preview = s[k].preview /\ t[k].name = s[k].name
  BY <1>1, <1>2
<1>5. SheetsFollow(b, t)
  BY <1>1, <1>3, <1>4 DEF SheetsFollow
<1> QED
  BY <1>5 DEF s, t

LEMMA StepAttaches ==
  ASSUME ParserInv, SheetsAttached, [ParserNext]_vars
  PROVE  SheetsAttached'
<1>1. CASE UNCHANGED <<content, at, builder, facts>>
  BY <1>1 DEF SheetsAttached, SheetsFollow
<1>2. CASE ReadForParsing
  <2>1. facts.ready = FALSE /\ facts' = facts
    BY <1>2 DEF ParserInv, JobsInOrder, ReadForParsing, Fits, NoFacts
  <2> QED
    BY <2>1 DEF SheetsAttached
<1>3. CASE Profile
  <2>1. IsFile(content)
    BY <1>3, FileAssumption DEF ParserInv, ContentHeld, Held, Sources, Profile, Parsing
  <2>2. Entries = 1 .. Len(content.entries) /\ Len(content.entries) \in Nat
    BY <2>1 DEF Entries, IsFile, IsList
  <2>3. CASE facts.ready
    <3>1. at \notin Entries /\ at # 0
      BY <2>2, <2>3 DEF SheetsAttached
    <3> QED
      BY <1>3, <2>3, <3>1
         DEF Profile, ModernStep, LegacyStep, ModernStart, DecodePropertyXml, DecodeCoreXml, DecodeFeatures,
             DecodeTree, DecodeKeywords, DecodeHeader, DecodeSheetNames, DecodePreview, DecodeConfigPreview,
             DecodeSheetPreview, ModernSkip, ModernFinish, LegacyStart, DecodePropertySet,
             DecodeLegacyHeader, DecodeLegacyPreview, LegacySkip, LegacyFinish, Taking
  <2>4. CASE ~facts.ready /\ ModernFinish /\ content.envelope = "modern"
    <3>1. /\ UNCHANGED <<content, at, builder>> /\ at = Len(content.entries) + 1
          /\ facts'.sheets = AttachSheetFormatData(AttachSheetPreviews(builder), builder)
      BY <2>4, ModernResolved DEF ModernFinish
    <3>2. SheetsPictured(content, builder)
      BY <2>2, <2>4, <3>1 DEF ParserInv, BuilderPictured, Pictured
    <3>3. SheetsFollow(builder, facts'.sheets)
      BY <3>1, <3>2, FormatsApart
    <3> QED
      BY <3>1, <3>3 DEF SheetsAttached, SheetsFollow
  <2>5. CASE ~facts.ready /\ LegacyFinish
    <3>1. facts'.profile = "legacy" /\ UNCHANGED <<content, at>> /\ at = Len(content.entries) + 1
      BY <2>5 DEF LegacyFinish, LegacyFacts
    <3> QED
      BY <3>1 DEF SheetsAttached
  <2>6. CASE ~facts.ready /\ UNCHANGED facts
    BY <2>6 DEF SheetsAttached
  <2> QED
    BY <1>3, <2>3, <2>4, <2>5, <2>6
       DEF Profile, ModernStep, LegacyStep, ModernStart, DecodePropertyXml, DecodeCoreXml, DecodeFeatures,
           DecodeTree, DecodeKeywords, DecodeHeader, DecodeSheetNames, DecodePreview, DecodeConfigPreview,
           DecodeSheetPreview, ModernSkip, LegacyStart, DecodePropertySet,
           DecodeLegacyHeader, DecodeLegacyPreview, LegacySkip, Advance
<1>4. ASSUME ~ReadForParsing, ~Profile PROVE UNCHANGED <<content, at, builder, facts>>
  BY <1>4 DEF ParserNext, ReadStep, AnswerStep, Rewrite, ParsePath, ExtractResource, Begin, CannotOpen, TooLarge,
              CannotRead, GrownTooLarge, Refuse, Open, Release, InspectionFailed, NothingRecognized,
              RecognizedButUnsupported, Recognized, Answer, vars, factVars
<1> QED
  BY <1>1, <1>2, <1>3, <1>4

\* Sheet previews are stored by number and numbered by a list of names: a preview goes to
\* one sheet at most, and to a sheet of the name it was stored under (attach_sheet_previews).
THEOREM PreviewsFollowNames == ParserSpec => []SheetPreviewsFollowNames
<1>1. ParserInit => SheetsAttached
  BY DEF ParserInit, SheetsAttached, NoFacts
<1>2. ParserInv /\ SheetsAttached /\ [ParserNext]_vars => SheetsAttached'
  BY StepAttaches
<1>3. SheetsAttached => SheetPreviewsFollowNames
  BY DEF SheetsAttached, SheetPreviewsFollowNames, SheetsFollow, Modern
<1> QED
  BY <1>1, <1>2, <1>3, Invariance, PTL DEF ParserSpec
-----------------------------------------------------------------------------
(***************************************************************************)
(* Lists: joined, numbered by their places, picked from and flattened.     *)
(***************************************************************************)
\* The places of a list.
LEMMA ListFacts ==
  ASSUME NEW s, IsList(s)
  PROVE  /\ Len(s) \in Nat /\ DOMAIN s = 1 .. Len(s) /\ IsFiniteSet(DOMAIN s)
         /\ s = [k \in 1 .. Len(s) |-> s[k]]
<1>1. s \in Seq(ToSet(s))
  BY DEF IsList
<1>2. Len(s) \in Nat /\ DOMAIN s = 1 .. Len(s) /\ s \in [1 .. Len(s) -> ToSet(s)]
  BY <1>1
<1>3. IsFiniteSet(1 .. Len(s))
  BY <1>2, FS_Interval
<1> QED
  BY <1>2, <1>3

\* One list behind the other.
LEMMA ListsJoined ==
  ASSUME NEW s, NEW t, IsList(s), IsList(t)
  PROVE  /\ IsList(s \o t) /\ Len(s \o t) = Len(s) + Len(t)
         /\ \A k \in DOMAIN s : k \in DOMAIN (s \o t) /\ (s \o t)[k] = s[k]
         /\ \A k \in DOMAIN t : Len(s) + k \in DOMAIN (s \o t) /\ (s \o t)[Len(s) + k] = t[k]
         /\ \A k \in DOMAIN (s \o t) : \/ k \in DOMAIN s /\ (s \o t)[k] = s[k]
                                       \/ k - Len(s) \in DOMAIN t /\ (s \o t)[k] = t[k - Len(s)]
<1> DEFINE X == ToSet(s) \cup ToSet(t)
           n == Len(s)
           m == Len(t)
<1>1. s \in Seq(ToSet(s)) /\ t \in Seq(ToSet(t))
  BY DEF IsList
<1>2. s \in Seq(X) /\ t \in Seq(X)
  <2> HIDE DEF X
  <2>1. ToSet(s) \subseteq X /\ ToSet(t) \subseteq X
    BY DEF X
  <2> QED
    BY <1>1, <2>1
<1> HIDE DEF X
<1>3. n \in Nat /\ m \in Nat /\ DOMAIN s = 1 .. n /\ DOMAIN t = 1 .. m
  BY <1>2
<1> DEFINE u == s \o t
<1>4. u \in Seq(X) /\ Len(u) = n + m /\ DOMAIN u = 1 .. n + m
      /\ \A k \in 1 .. n + m : u[k] = IF k <= n THEN s[k] ELSE t[k - n]
  BY <1>2
<1> HIDE DEF u, n, m
<1>5. u = [k \in 1 .. n + m |-> u[k]]
  BY <1>4
<1>6. IsList(u)
  BY <1>3, <1>5, ListIs
<1>7. \A k \in 1 .. n : k \in DOMAIN u /\ u[k] = s[k]
  BY <1>3, <1>4
<1>8. \A k \in 1 .. m : n + k \in DOMAIN u /\ u[n + k] = t[k]
  BY <1>3, <1>4
<1>9. \A k \in DOMAIN u : \/ k \in 1 .. n /\ u[k] = s[k]
                          \/ k - n \in 1 .. m /\ u[k] = t[k - n]
  BY <1>3, <1>4
<1> QED
  BY <1>3, <1>4, <1>6, <1>7, <1>8, <1>9 DEF u, n, m

\* How many places of S come before k.
Earlier(S, k) == Cardinality({j \in S : j < k})

\* A greater place has more places before it.
LEMMA EarlierIs ==
  ASSUME NEW S \in SUBSET Nat, IsFiniteSet(S), NEW k \in S
  PROVE  /\ Earlier(S, k) \in 0 .. Cardinality(S) - 1
         /\ \A j \in S : j < k => Earlier(S, j) < Earlier(S, k)
<1> DEFINE B(i) == {j \in S : j < i}
<1>1. \A i : IsFiniteSet(B(i)) /\ Cardinality(B(i)) \in Nat
  BY FS_Subset, FS_CardinalityType
<1>2. \A T, U : IsFiniteSet(U) /\ T \in SUBSET U /\ T # U => Cardinality(T) < Cardinality(U)
  BY FS_Subset, FS_CardinalityType
<1>3. Cardinality(B(k)) < Cardinality(S)
  <2>1. B(k) \in SUBSET S /\ k \notin B(k)
    OBVIOUS
  <2> HIDE DEF B
  <2> QED
    BY <1>2, <2>1
<1>4. ASSUME NEW j \in S, j < k PROVE Cardinality(B(j)) < Cardinality(B(k))
  <2>1. \A i \in S : i \in Nat /\ (i < j => i < k)
    BY <1>4
  <2>2. B(j) \in SUBSET B(k) /\ j \in B(k) /\ j \notin B(j)
    <3>1. \A i : i \in B(j) => i \in B(k)
      BY <2>1
    <3>2. j \in B(k) /\ j \notin B(j)
      BY <1>4, <2>1
    <3> HIDE DEF B
    <3> QED
      BY <3>1, <3>2
  <2> HIDE DEF B
  <2> QED
    BY <1>1, <1>2, <2>2
<1>5. Cardinality(S) \in Nat
  BY FS_CardinalityType
<1> HIDE DEF B
<1>6. Cardinality(B(k)) \in 0 .. Cardinality(S) - 1
  BY <1>1, <1>3, <1>5
<1> QED
  BY <1>4, <1>6 DEF Earlier, B

\* "r" numbers the places of S upwards.
Numbers(r, S) ==
  /\ r \in [1 .. Cardinality(S) -> S]
  /\ \A k \in S : \E n \in 1 .. Cardinality(S) : r[n] = k
  /\ \A m, n \in 1 .. Cardinality(S) : m < n => r[m] < r[n]

\* What is picked out of a list are its elements at the places picked, in their order.
LEMMA PickedIs ==
  ASSUME NEW seq, IsList(seq), NEW S \in SUBSET DOMAIN seq
  PROVE  /\ IsFiniteSet(S) /\ Cardinality(S) \in Nat
         /\ IsList(Picked(seq, S)) /\ DOMAIN Picked(seq, S) = 1 .. Cardinality(S)
         /\ Len(Picked(seq, S)) = Cardinality(S)
         /\ \E r : Numbers(r, S) /\ \A n \in 1 .. Cardinality(S) : Picked(seq, S)[n] = seq[r[n]]
<1>1. S \in SUBSET Nat /\ IsFiniteSet(S) /\ IsFiniteSet(DOMAIN seq)
  BY ListFacts, FS_Subset
<1> DEFINE n == Cardinality(S)
           g == [k \in S |-> Earlier(S, k) + 1]
           r == [m \in 1 .. n |-> CHOOSE k \in S : Earlier(S, k) = m - 1]
<1>2. n \in Nat
  BY <1>1, FS_CardinalityType
<1>3. g \in [S -> 1 .. n]
  <2>1. \A k \in S : Earlier(S, k) + 1 \in 1 .. n
    BY <1>1, <1>2, EarlierIs
  <2> HIDE DEF n
  <2> QED
    BY <2>1
<1>4. \A j, k \in S : g[j] = g[k] => j = k
  <2>1. \A j, k \in S : j < k => Earlier(S, j) # Earlier(S, k)
    <3>1. \A k \in S : Earlier(S, k) \in Int
      BY <1>1, <1>2, EarlierIs
    <3> QED
      BY <1>1, <3>1, EarlierIs
  <2>2. \A j, k \in S : j = k \/ j < k \/ k < j
    BY <1>1
  <2>3. \A k \in S : g[k] = Earlier(S, k) + 1 /\ Earlier(S, k) \in Int
    BY <1>1, <1>2, EarlierIs
  <2> HIDE DEF g
  <2> QED
    BY <2>1, <2>2, <2>3
<1> HIDE DEF n
<1>5. g \in Surjection(S, 1 .. n)
  <2>1. g \in Injection(S, 1 .. n)
    BY <1>3, <1>4 DEF Injection, IsInjective
  <2>2. IsFiniteSet(1 .. n) /\ Cardinality(1 .. n) = n
    BY <1>2, FS_Interval
  <2> QED
    BY <2>1, <2>2, FS_Injection DEF n
<1>6. \A m \in 1 .. n : \E k \in S : g[k] = m
  BY <1>5 DEF Surjection
<1>7. \A m \in 1 .. n : r[m] \in S /\ Earlier(S, r[m]) = m - 1
  <2>1. \A k \in S : g[k] = Earlier(S, k) + 1 /\ Earlier(S, k) \in Int
    BY <1>1, <1>2, EarlierIs DEF n
  <2> HIDE DEF g
  <2>2. ASSUME NEW m \in 1 .. n PROVE \E k \in S : Earlier(S, k) = m - 1
    <3>1. PICK k \in S : g[k] = m
      BY <1>6
    <3>2. Earlier(S, k) + 1 = m /\ Earlier(S, k) \in Int /\ m \in Int
      BY <1>2, <2>1, <3>1
    <3> QED
      BY <3>2
  <2> QED
    BY <2>2
<1>8. \A m \in 1 .. n : Picked(seq, S)[m] = seq[r[m]]
  BY DEF Picked, Earlier, n
<1>9. DOMAIN Picked(seq, S) = 1 .. n
  BY DEF Picked, n
<1> HIDE DEF g
<1>10. ASSUME NEW k \in S PROVE \E m \in 1 .. n : r[m] = k
  <2>1. PICK m \in 1 .. n : g[k] = m
    BY <1>3
  <2>2. Earlier(S, k) + 1 = m /\ Earlier(S, k) \in Int
    BY <1>1, <1>2, <2>1, EarlierIs DEF g
  <2> HIDE DEF r
  <2>3. r[m] \in S /\ Earlier(S, r[m]) = Earlier(S, k)
    BY <1>2, <1>7, <2>2
  <2>4. \A i, j \in S : Earlier(S, i) = Earlier(S, j) => i = j
    BY <1>4 DEF g
  <2> QED
    BY <2>3, <2>4
<1>11. \A l, m \in 1 .. n : l < m => r[l] < r[m]
  <2> SUFFICES ASSUME NEW l \in 1 .. n, NEW m \in 1 .. n, l < m, ~(r[l] < r[m]) PROVE FALSE
    OBVIOUS
  <2> HIDE DEF r
  <2>1. r[l] \in S /\ r[m] \in S /\ Earlier(S, r[l]) = l - 1 /\ Earlier(S, r[m]) = m - 1
    BY <1>7
  <2>2. r[m] = r[l] \/ r[m] < r[l]
    BY <1>1, <2>1
  <2>3. r[m] < r[l] => m - 1 < l - 1
    BY <1>1, <2>1, EarlierIs
  <2> QED
    BY <1>2, <2>1, <2>2, <2>3
<1>12. r \in [1 .. n -> S]
  <2>1. r = [m \in 1 .. n |-> r[m]]
    OBVIOUS
  <2> HIDE DEF r
  <2> QED
    BY <1>7, <2>1
<1>13. IsList(Picked(seq, S))
  BY <1>1, PickedList
<1>14. Len(Picked(seq, S)) = n
  BY <1>2, <1>9, <1>13, ListFacts
<1> HIDE DEF r
<1> QED
  BY <1>1, <1>2, <1>8, <1>9, <1>10, <1>11, <1>12, <1>13, <1>14 DEF n, Numbers

\* The same without the order.
LEMMA PickedFrom ==
  ASSUME NEW seq, IsList(seq), NEW S \in SUBSET DOMAIN seq
  PROVE  /\ IsList(Picked(seq, S))
         /\ \A n \in DOMAIN Picked(seq, S) : \E k \in S : Picked(seq, S)[n] = seq[k]
         /\ \A k \in S : \E n \in DOMAIN Picked(seq, S) : Picked(seq, S)[n] = seq[k]
<1>1. PICK r : Numbers(r, S) /\ \A n \in 1 .. Cardinality(S) : Picked(seq, S)[n] = seq[r[n]]
  BY PickedIs
<1>2. IsList(Picked(seq, S)) /\ DOMAIN Picked(seq, S) = 1 .. Cardinality(S)
  BY PickedIs
<1> QED
  BY <1>1, <1>2 DEF Numbers

\* The list f holds the elements of the first k lists of seqs, list by list: its n-th
\* element comes from the place[n]-th of the row[n]-th list.
Flattens(row, place, f, seqs, k) ==
  /\ \A n \in DOMAIN f : /\ row[n] \in 1 .. k /\ place[n] \in DOMAIN seqs[row[n]]
                         /\ f[n] = seqs[row[n]][place[n]]
  /\ \A i \in 1 .. k : \A j \in DOMAIN seqs[i] : \E n \in DOMAIN f : row[n] = i /\ place[n] = j
  /\ \A m, n \in DOMAIN f : row[m] = row[n] /\ place[m] = place[n] => m = n
  /\ \A m, n \in DOMAIN f : m < n => row[m] <= row[n]

\* One more list appended.
LEMMA FlattenStep ==
  ASSUME NEW f, IsList(f), NEW k \in Nat \ {0}, NEW seqs, IsList(seqs[k]),
         NEW row, NEW place, Flattens(row, place, f, seqs, k - 1)
  PROVE  \E r, p : Flattens(r, p, f \o seqs[k], seqs, k)
<1> DEFINE t == seqs[k]
           h == f \o t
           l == Len(f)
           r == [n \in DOMAIN h |-> IF n \in DOMAIN f THEN row[n] ELSE k]
           p == [n \in DOMAIN h |-> IF n \in DOMAIN f THEN place[n] ELSE n - l]
<1>1. /\ l \in Nat /\ DOMAIN f = 1 .. l
      /\ \A n \in DOMAIN f : n \in DOMAIN h /\ h[n] = f[n]
      /\ \A n \in DOMAIN seqs[k] : l + n \in DOMAIN h /\ h[l + n] = seqs[k][n]
      /\ \A n \in DOMAIN h : \/ n \in DOMAIN f /\ h[n] = f[n]
                             \/ n - l \in DOMAIN seqs[k] /\ h[n] = seqs[k][n - l]
      /\ DOMAIN h \subseteq Int
      /\ \A n \in DOMAIN seqs[k] : n \in Nat \ {0}
  <2>1. IsList(t)
    OBVIOUS
  <2> HIDE DEF t, r, p
  <2>2. /\ l \in Nat /\ DOMAIN f = 1 .. l
        /\ \A n \in DOMAIN t : n \in Nat \ {0}
    BY <2>1, ListFacts
  <2>3. /\ IsList(h) /\ Len(h) = l + Len(t)
        /\ \A n \in DOMAIN f : n \in DOMAIN h /\ h[n] = f[n]
        /\ \A n \in DOMAIN t : l + n \in DOMAIN h /\ h[l + n] = t[n]
        /\ \A n \in DOMAIN h : \/ n \in DOMAIN f /\ h[n] = f[n]
                               \/ n - l \in DOMAIN t /\ h[n] = t[n - l]
    BY <2>1, ListsJoined
  <2> HIDE DEF h, l
  <2>4. DOMAIN h \subseteq Int
    BY <2>3, ListFacts
  <2> QED
    BY <2>2, <2>3, <2>4 DEF t
<1> HIDE DEF h, l
<1>2. \A n \in DOMAIN f : r[n] = row[n] /\ p[n] = place[n] /\ n \in DOMAIN h
  BY <1>1
<1>3. \A n \in DOMAIN h : n \notin DOMAIN f => r[n] = k /\ p[n] = n - l
  BY <1>1
<1> HIDE DEF r, p
<1>4. \A n \in DOMAIN f : row[n] \in 1 .. k - 1
  BY DEF Flattens
<1>5. ASSUME NEW n \in DOMAIN h
      PROVE  r[n] \in 1 .. k /\ p[n] \in DOMAIN seqs[r[n]] /\ h[n] = seqs[r[n]][p[n]]
  <2>1. CASE n \in DOMAIN f
    <3>1. row[n] \in 1 .. k
      BY <1>4, <2>1
    <3> QED
      BY <1>1, <1>2, <2>1, <3>1 DEF Flattens
  <2>2. CASE n \notin DOMAIN f
    BY <1>1, <1>3, <2>2
  <2> QED
    BY <2>1, <2>2
<1>6. ASSUME NEW i \in 1 .. k, NEW j \in DOMAIN seqs[i]
      PROVE  \E n \in DOMAIN h : r[n] = i /\ p[n] = j
  <2>1. CASE i \in 1 .. k - 1
    <3>1. PICK n \in DOMAIN f : row[n] = i /\ place[n] = j
      BY <2>1 DEF Flattens
    <3> QED
      BY <1>2, <3>1
  <2>2. CASE i = k
    <3>1. j \in Nat \ {0} /\ l + j \in DOMAIN h
      BY <1>1, <2>2
    <3>2. l + j \notin DOMAIN f /\ l + j - l = j
      BY <1>1, <3>1
    <3>3. r[l + j] = i /\ p[l + j] = j
      BY <1>1, <1>3, <2>2, <3>1, <3>2
    <3> QED
      BY <3>1, <3>3
  <2> QED
    BY <2>1, <2>2
<1>7. ASSUME NEW m \in DOMAIN h, NEW n \in DOMAIN h, r[m] = r[n], p[m] = p[n] PROVE m = n
  <2>1. CASE m \in DOMAIN f /\ n \in DOMAIN f
    BY <1>2, <1>7, <2>1 DEF Flattens
  <2>2. CASE m \notin DOMAIN f /\ n \notin DOMAIN f
    BY <1>1, <1>3, <1>7, <2>2
  <2>3. CASE ~(m \in DOMAIN f <=> n \in DOMAIN f)
    BY <1>2, <1>3, <1>4, <1>7, <2>3
  <2> QED
    BY <2>1, <2>2, <2>3
<1>8. ASSUME NEW m \in DOMAIN h, NEW n \in DOMAIN h, m < n PROVE r[m] <= r[n]
  <2>1. CASE n \in DOMAIN f
    <3>1. m \in DOMAIN f
      BY <1>1, <1>8, <2>1
    <3> QED
      BY <1>2, <1>8, <2>1, <3>1 DEF Flattens
  <2>2. CASE n \notin DOMAIN f
    BY <1>3, <1>5, <2>2
  <2> QED
    BY <2>1, <2>2
<1>9. Flattens(r, p, h, seqs, k)
  BY <1>5, <1>6, <1>7, <1>8 DEF Flattens
<1> QED
  BY <1>9 DEF h

\* The partial concatenations, as FlattenSeq defines them, are a function.
LEMMA FlattenExists ==
  ASSUME NEW n \in Nat, NEW seqs
  PROVE  \E f : f = [i \in 1 .. n |-> IF i = 1 THEN seqs[i] ELSE f[i - 1] \o seqs[i]]
<1> DEFINE F(f, k) == f = [i \in 1 .. k |-> IF i = 1 THEN seqs[i] ELSE f[i - 1] \o seqs[i]]
           B == {k \in 0 .. n : \E f : F(f, k)}
<1>1. 0 \in B
  <2>1. \E f : F(f, 0)
    <3>1. F([i \in 1 .. 0 |-> <<>>], 0)
      OBVIOUS
    <3> HIDE DEF F
    <3> QED
      BY <3>1
  <2> HIDE DEF F
  <2> QED
    BY <2>1
<1>2. ASSUME NEW k \in 1 .. n, k - 1 \in B PROVE k \in B
  <2>1. PICK f : F(f, k - 1)
    BY <1>2
  <2> DEFINE g == [i \in 1 .. k |-> IF i \in 1 .. k - 1 THEN f[i]
                                    ELSE IF i = 1 THEN seqs[i] ELSE f[i - 1] \o seqs[i]]
  <2>2. ASSUME NEW i \in 1 .. k
        PROVE  g[i] = IF i = 1 THEN seqs[i] ELSE g[i - 1] \o seqs[i]
    <3>1. i # 1 => i - 1 \in 1 .. k - 1 /\ g[i - 1] = f[i - 1]
      OBVIOUS
    <3>2. i \in 1 .. k - 1 => f[i] = IF i = 1 THEN seqs[i] ELSE f[i - 1] \o seqs[i]
      BY <2>1
    <3>3. g[i] = IF i \in 1 .. k - 1 THEN f[i] ELSE IF i = 1 THEN seqs[i] ELSE f[i - 1] \o seqs[i]
      OBVIOUS
    <3> HIDE DEF g
    <3> QED
      BY <3>1, <3>2, <3>3
  <2>3. g = [i \in 1 .. k |-> g[i]]
    OBVIOUS
  <2> HIDE DEF g
  <2>4. F(g, k)
    <3>1. [i \in 1 .. k |-> g[i]]
            = [i \in 1 .. k |-> IF i = 1 THEN seqs[i] ELSE g[i - 1] \o seqs[i]]
      BY <2>2
    <3> QED
      BY <2>3, <3>1
  <2> HIDE DEF F
  <2> QED
    BY <2>4
<1>3. n \in B
  <2> HIDE DEF B
  <2>1. \A k \in 0 .. n : k \in B
    BY <1>1, <1>2, Upwards
  <2> QED
    BY <2>1
<1> QED
  BY <1>3

\* A flattened list holds the elements of its lists, list by list.
LEMMA FlattenIs ==
  ASSUME NEW seqs, IsList(seqs), \A i \in DOMAIN seqs : IsList(seqs[i])
  PROVE  /\ IsList(FlattenSeq(seqs))
         /\ \E row, place : Flattens(row, place, FlattenSeq(seqs), seqs, Len(seqs))
<1> DEFINE n == Len(seqs)
<1>1. n \in Nat /\ DOMAIN seqs = 1 .. n
  BY ListFacts
<1>2. CASE n = 0
  <2>1. FlattenSeq(seqs) = seqs /\ DOMAIN seqs = {}
    BY <1>1, <1>2 DEF FlattenSeq
  <2>2. Flattens(seqs, seqs, seqs, seqs, n)
    BY <1>1, <1>2, <2>1 DEF Flattens
  <2> QED
    BY <2>1, <2>2
<1>3. CASE n # 0
  <2> DEFINE F(f) == f = [i \in 1 .. n |-> IF i = 1 THEN seqs[i] ELSE f[i - 1] \o seqs[i]]
             f == CHOOSE g : F(g)
  <2>1. F(f)
    <3>1. \E g : F(g)
      BY <1>1, FlattenExists
    <3> QED
      BY <3>1, Zenon
  <2>2. FlattenSeq(seqs) = f[n]
    BY <1>3 DEF FlattenSeq
  <2> HIDE DEF f, n
  <2>3. f[1] = seqs[1] /\ \A i \in 2 .. n : f[i] = f[i - 1] \o seqs[i]
    <3>1. \A i \in 1 .. n : f[i] = IF i = 1 THEN seqs[i] ELSE f[i - 1] \o seqs[i]
      BY <2>1
    <3>2. 1 \in 1 .. n /\ \A i \in 2 .. n : i \in 1 .. n /\ i # 1
      BY <1>1, <1>3
    <3> HIDE DEF F
    <3> QED
      BY <3>1, <3>2, Zenon
  <2> DEFINE B == {k \in 0 .. n : k # 0 => IsList(f[k]) /\ \E row, place : Flattens(row, place, f[k], seqs, k)}
  <2>4. 0 \in B
    BY <1>1
  <2>5. ASSUME NEW k \in 1 .. n, k - 1 \in B PROVE k \in B
    <3>1. CASE k = 1
      <4> DEFINE row == [j \in DOMAIN seqs[1] |-> 1]
                 place == [j \in DOMAIN seqs[1] |-> j]
      <4>1. Flattens(row, place, seqs[1], seqs, 1)
        <5>1. \A i : i \in 1 .. 1 <=> i = 1
          OBVIOUS
        <5>2. \A j \in DOMAIN seqs[1] : row[j] = 1 /\ place[j] = j
          OBVIOUS
        <5> HIDE DEF row, place
        <5> QED
          BY <5>1, <5>2 DEF Flattens
      <4> QED
        BY <1>1, <2>3, <3>1, <4>1
    <3>2. CASE k # 1
      <4>1. k \in 2 .. n /\ k - 1 # 0 /\ k \in Nat \ {0}
        BY <1>1, <3>2
      <4>2. PICK row, place : IsList(f[k - 1]) /\ Flattens(row, place, f[k - 1], seqs, k - 1)
        BY <2>5, <4>1
      <4>3. IsList(seqs[k]) /\ f[k] = f[k - 1] \o seqs[k]
        BY <1>1, <2>3, <4>1
      <4>4. \E r, p : Flattens(r, p, f[k], seqs, k)
        BY <4>1, <4>2, <4>3, FlattenStep
      <4>5. IsList(f[k])
        BY <4>2, <4>3, ListsJoined
      <4> QED
        BY <4>4, <4>5
    <3> QED
      BY <3>1, <3>2
  <2>6. n \in B
    <3> HIDE DEF B
    <3>1. \A k \in 0 .. n : k \in B
      BY <1>1, <2>4, <2>5, Upwards
    <3> QED
      BY <1>1, <3>1
  <2> QED
    BY <1>3, <2>2, <2>6 DEF n
<1> QED
  BY <1>2, <1>3
-----------------------------------------------------------------------------
(***************************************************************************)
(* Names and values merged: each value once, the best name first.          *)
(***************************************************************************)
\* The empty list is the one of length 0.
LEMMA EmptyList ==
  ASSUME NEW s, IsList(s)
  PROVE  (s = <<>> <=> Len(s) = 0) /\ (s = <<>> <=> DOMAIN s = {}) /\ (s # <<>> => 1 \in DOMAIN s)
<1>1. s \in Seq(ToSet(s))
  BY DEF IsList
<1> QED
  BY <1>1

\* The first of a list, or NONE.
LEMMA FirstOfIs ==
  ASSUME NEW s, IsList(s)
  PROVE  FirstOf(s) = IF s = <<>> THEN NONE ELSE s[1]
<1>1. s \in Seq(ToSet(s))
  BY DEF IsList
<1> QED
  BY <1>1 DEF FirstOf

\* A list without its first element.
LEMMA TailIs ==
  ASSUME NEW s, IsList(s), s # <<>>
  PROVE  /\ IsList(Tail(s)) /\ Len(Tail(s)) = Len(s) - 1
         /\ \A k \in DOMAIN Tail(s) : k + 1 \in DOMAIN s /\ Tail(s)[k] = s[k + 1]
         /\ \A k \in DOMAIN s : k = 1 \/ (k - 1 \in DOMAIN Tail(s) /\ Tail(s)[k - 1] = s[k])
<1> DEFINE t == Tail(s)
<1>1. s \in Seq(ToSet(s))
  BY DEF IsList
<1>2. t \in Seq(ToSet(s)) /\ Len(t) = Len(s) - 1 /\ Len(s) \in Nat \ {0} /\ DOMAIN s = 1 .. Len(s)
      /\ \A k \in 1 .. Len(s) - 1 : t[k] = s[k + 1]
  BY <1>1
<1> HIDE DEF t
<1>3. Len(t) \in Nat /\ DOMAIN t = 1 .. Len(t) /\ t = [k \in 1 .. Len(t) |-> t[k]]
  BY <1>2
<1>4. IsList(t)
  BY <1>3, ListIs
<1>5. \A k \in DOMAIN t : k + 1 \in DOMAIN s /\ t[k] = s[k + 1]
  BY <1>2, <1>3
<1>6. \A k \in DOMAIN s : k = 1 \/ (k - 1 \in DOMAIN t /\ t[k - 1] = s[k])
  <2> TAKE k \in DOMAIN s
  <2>1. k = 1 \/ (k \in Int /\ k - 1 \in 1 .. Len(s) - 1 /\ k - 1 + 1 = k)
    BY <1>2
  <2> QED
    BY <1>2, <1>3, <2>1
<1> QED
  BY <1>2, <1>4, <1>5, <1>6 DEF t

\* What is left of a list when equal values count once.
Merges(m, values) ==
  /\ IsList(m)
  /\ \A n \in DOMAIN m : \E k \in DOMAIN values : m[n] = values[k]
  /\ \A k \in DOMAIN values : \E n \in DOMAIN m : m[n].value = values[k].value
  /\ \A i, j \in DOMAIN m : m[i].value = m[j].value => i = j
  /\ values # <<>> => m # <<>> /\ m[1] = values[1]

\* Each value is kept once, where it is met first (merge_sourced_values).
LEMMA ValuesMerged ==
  ASSUME NEW values, IsList(values)
  PROVE  Merges(MergeSourcedValues(values), values)
<1> DEFINE S == {k \in DOMAIN values : \A j \in 1 .. k - 1 : values[j].value # values[k].value}
           m == Picked(values, S)
           c == Cardinality(S)
<1>1. DOMAIN values = 1 .. Len(values) /\ Len(values) \in Nat /\ S \in SUBSET DOMAIN values
  BY ListFacts
<1>2. \A k \in S : k \in DOMAIN values /\ \A j \in 1 .. k - 1 : values[j].value # values[k].value
  OBVIOUS
<1>3. \A k \in DOMAIN values : (\A j \in 1 .. k - 1 : values[j].value # values[k].value) => k \in S
  OBVIOUS
<1> HIDE DEF S
<1>4. /\ c \in Nat /\ IsList(m) /\ DOMAIN m = 1 .. c /\ Len(m) = c
      /\ \E r : Numbers(r, S) /\ \A n \in 1 .. c : m[n] = values[r[n]]
  BY <1>1, PickedIs
<1> HIDE DEF m, c
<1>5. PICK r : Numbers(r, S) /\ \A n \in 1 .. c : m[n] = values[r[n]]
  BY <1>4
<1>6. \A n \in 1 .. c : r[n] \in S
  BY <1>5 DEF Numbers, c
<1>7. \A n \in DOMAIN m : \E k \in DOMAIN values : m[n] = values[k]
  BY <1>2, <1>4, <1>5, <1>6
<1>8. ASSUME NEW k \in DOMAIN values
      PROVE  \E n \in DOMAIN m : m[n].value = values[k].value
  <2> DEFINE E == {j \in 1 .. k : values[j].value = values[k].value}
  <2>1. E \in SUBSET Nat /\ k \in E
    BY <1>1
  <2>2. \A j \in E : j \in 1 .. k /\ values[j].value = values[k].value
    OBVIOUS
  <2>3. \A j \in 1 .. k : values[j].value = values[k].value => j \in E
    OBVIOUS
  <2> HIDE DEF E
  <2>4. PICK j \in E : \A i \in E : j <= i
    BY <2>1, LeastIs
  <2>5. j \in DOMAIN values /\ values[j].value = values[k].value
    BY <1>1, <2>2
  <2>6. \A i \in 1 .. j - 1 : i \in 1 .. k /\ i \in Int /\ j \in Int /\ i < j
    BY <1>1, <2>2
  <2>7. \A i \in 1 .. j - 1 : i \notin E
    BY <2>4, <2>6
  <2>8. j \in S
    BY <1>3, <2>3, <2>5, <2>6, <2>7
  <2>9. PICK n \in 1 .. c : r[n] = j
    BY <1>5, <2>8 DEF Numbers, c
  <2> QED
    BY <1>4, <1>5, <2>5, <2>9
<1>9. ASSUME NEW i \in 1 .. c, NEW j \in 1 .. c, i < j
      PROVE  m[i].value # m[j].value
  <2>1. r[i] < r[j]
    BY <1>5, <1>9 DEF Numbers, c
  <2>2. r[i] \in 1 .. r[j] - 1
    BY <1>1, <1>2, <1>6, <2>1
  <2> QED
    BY <1>2, <1>5, <1>6, <2>2
<1>10. \A i, j \in DOMAIN m : m[i].value = m[j].value => i = j
  BY <1>4, <1>9
<1>11. ASSUME values # <<>>
       PROVE  m # <<>> /\ m[1] = values[1]
  <2>1. 1 \in S
    <3>1. 1 \in DOMAIN values /\ 1 .. 1 - 1 = {}
      BY <1>11, EmptyList
    <3> QED
      BY <1>3, <3>1
  <2>2. PICK n \in 1 .. c : r[n] = 1
    BY <1>5, <2>1 DEF Numbers, c
  <2>3. n = 1
    <3>1. 1 \in 1 .. c /\ (n # 1 => 1 < n)
      BY <1>4
    <3>2. ~(r[1] < 1)
      BY <1>1, <1>2, <1>6, <3>1
    <3> QED
      BY <1>5, <2>2, <3>1, <3>2 DEF Numbers, c
  <2> QED
    BY <1>4, <1>5, <2>2, <2>3, EmptyList
<1>12. Merges(m, values)
  BY <1>4, <1>7, <1>8, <1>10, <1>11 DEF Merges
<1>13. MergeSourcedValues(values) = m
  BY DEF MergeSourcedValues, S, m
<1> QED
  BY <1>12, <1>13

\* The names of a configuration: each value once, the best rank first.
LEMMA NamesMerged ==
  ASSUME NEW names, IsList(names)
  PROVE  /\ IsList(MergeRankedNames(names))
         /\ \A n \in DOMAIN MergeRankedNames(names) :
              \E k \in DOMAIN names : MergeRankedNames(names)[n] = names[k]
         /\ \A i, j \in DOMAIN MergeRankedNames(names) :
              MergeRankedNames(names)[i].value = MergeRankedNames(names)[j].value => i = j
         /\ (\A k \in DOMAIN names : names[k].rank \in 0 .. 3) /\ names # <<>> =>
              /\ \A k \in DOMAIN names :
                   \E n \in DOMAIN MergeRankedNames(names) :
                     MergeRankedNames(names)[n].value = names[k].value
              /\ MergeRankedNames(names) # <<>>
              /\ \A k \in DOMAIN names : MergeRankedNames(names)[1].rank <= names[k].rank
<1> DEFINE P(r) == {k \in DOMAIN names : names[k].rank = r - 1}
           lists == [r \in 1 .. 4 |-> Picked(names, P(r))]
           all == FlattenSeq(lists)
           m == MergeSourcedValues(all)
<1>1. MergeRankedNames(names) = m
  BY DEF MergeRankedNames
<1>2. \A r : P(r) \in SUBSET DOMAIN names /\ \A k \in DOMAIN names : k \in P(r) <=> names[k].rank = r - 1
  OBVIOUS
<1> HIDE DEF P
<1>3. \A r \in 1 .. 4 :
        /\ IsList(lists[r])
        /\ \A n \in DOMAIN lists[r] : \E k \in P(r) : lists[r][n] = names[k]
        /\ \A k \in P(r) : \E n \in DOMAIN lists[r] : lists[r][n] = names[k]
  BY <1>2, PickedFrom
<1>4. IsList(lists) /\ DOMAIN lists = 1 .. 4 /\ Len(lists) = 4
  <2>1. lists = [r \in 1 .. 4 |-> lists[r]] /\ DOMAIN lists = 1 .. 4
    OBVIOUS
  <2> HIDE DEF lists
  <2>2. IsList(lists)
    BY <2>1, ListIs
  <2> QED
    BY <2>1, <2>2, ListFacts
<1> HIDE DEF lists
<1>5. IsList(all) /\ \E row, place : Flattens(row, place, all, lists, 4)
  BY <1>3, <1>4, FlattenIs
<1> HIDE DEF all
<1>6. PICK row, place : Flattens(row, place, all, lists, 4)
  BY <1>5
<1>7. Merges(m, all)
  BY <1>5, ValuesMerged
<1> HIDE DEF m
<1>8. ASSUME NEW n \in DOMAIN all
      PROVE  row[n] \in 1 .. 4 /\ \E k \in P(row[n]) : all[n] = names[k]
  BY <1>3, <1>6 DEF Flattens
<1>9. \A n \in DOMAIN m : \E k \in DOMAIN names : m[n] = names[k]
  BY <1>2, <1>7, <1>8 DEF Merges
<1>10. ASSUME \A k \in DOMAIN names : names[k].rank \in 0 .. 3, NEW k \in DOMAIN names
       PROVE  \E n \in DOMAIN all : row[n] = names[k].rank + 1 /\ all[n] = names[k]
  <2> DEFINE r == names[k].rank + 1
  <2>1. r \in 1 .. 4 /\ names[k].rank = r - 1
    BY <1>10
  <2> HIDE DEF r
  <2>2. PICK j \in DOMAIN lists[r] : lists[r][j] = names[k]
    BY <1>2, <1>3, <2>1
  <2>3. PICK n \in DOMAIN all : row[n] = r /\ place[n] = j
    BY <1>6, <2>1, <2>2 DEF Flattens
  <2> QED
    BY <1>6, <2>2, <2>3 DEF Flattens, r
<1>11. ASSUME \A k \in DOMAIN names : names[k].rank \in 0 .. 3, names # <<>>
       PROVE  /\ \A k \in DOMAIN names : \E n \in DOMAIN m : m[n].value = names[k].value
              /\ m # <<>>
              /\ \A k \in DOMAIN names : m[1].rank <= names[k].rank
  <2>1. \A k \in DOMAIN names : \E n \in DOMAIN m : m[n].value = names[k].value
    BY <1>7, <1>10, <1>11 DEF Merges
  <2>2. all # <<>>
    BY <1>5, <1>10, <1>11, EmptyList
  <2>3. m # <<>> /\ m[1] = all[1] /\ 1 \in DOMAIN all
    BY <1>5, <1>7, <2>2, EmptyList DEF Merges
  <2>4. PICK j \in P(row[1]) : all[1] = names[j]
    BY <1>8, <2>3
  <2>5. row[1] \in 1 .. 4 /\ all[1].rank = row[1] - 1
    BY <1>2, <1>8, <2>3, <2>4
  <2>6. ASSUME NEW k \in DOMAIN names PROVE m[1].rank <= names[k].rank
    <3>1. PICK n \in DOMAIN all : row[n] = names[k].rank + 1
      BY <1>10, <1>11
    <3>2. n = 1 \/ 1 < n
      BY <1>5, ListFacts
    <3>3. row[1] <= row[n]
      BY <1>6, <2>3, <2>5, <3>2 DEF Flattens
    <3>4. names[k].rank \in 0 .. 3
      BY <1>11
    <3> QED
      BY <2>3, <2>5, <3>1, <3>3, <3>4
  <2> QED
    BY <2>1, <2>3, <2>6
<1> QED
  BY <1>1, <1>7, <1>9, <1>11 DEF Merges
-----------------------------------------------------------------------------
(***************************************************************************)
(* What the builder holds was told by the streams that were read. The      *)
(* second inductive invariant: every fact cites a stream that was read,    *)
(* what belongs to a configuration belongs to one of the builder, and the  *)
(* names of a configuration are what the streams so far call it.           *)
(***************************************************************************)
\* A list of facts that come from the entries of R.
From(list, R) == IsList(list) /\ \A k \in DOMAIN list : list[k].entry \in R

\* A name that a stream claims for a configuration.
IsClaim(n) == n.rank \in 0 .. 1 /\ n = RankedValue(n.rank, n.value, "source", n.entry)

\* What a candidate of configuration holds comes from the entries of R.
CandidateTold(c, R) ==
  /\ c = [origin |-> c.origin, names |-> c.names, parentNames |-> c.parentNames,
          parentIndices |-> c.parentIndices]
  /\ From(c.names, R) /\ From(c.parentNames, R) /\ From(c.parentIndices, R)
  /\ \A k \in DOMAIN c.names : IsClaim(c.names[k])
  /\ \A k \in DOMAIN c.parentNames : c.parentNames[k].origin = "source"

\* A property before its configuration is known.
IsProperty(p) ==
  p = [name |-> p.name, of |-> p.of, value |-> p.value, state |-> p.state, kind |-> p.kind,
       index |-> p.index, configuration |-> NONE, entry |-> p.entry]

\* What the builder of a modern document holds comes from the entries of R.
ModernTold(b, R) ==
  /\ {"kinds", "configs", "properties", "components", "materials", "boxes", "references", "preview",
      "configPreviews", "sheets", "sheetNames", "sheetPreviews", "features", "classes", "rejected"}
       \subseteq DOMAIN b
  /\ \A i \in DOMAIN b.configs : CandidateTold(b.configs[i], R)
  /\ From(b.properties, R) /\ \A k \in DOMAIN b.properties : IsProperty(b.properties[k])
  /\ From(b.references, R)
  /\ \A i \in DOMAIN b.components : From(b.components[i], R)
  /\ b.preview = NONE \/ b.preview.entry \in R
  /\ \A i \in DOMAIN b.configPreviews : b.configPreviews[i].entry \in R
  /\ \A i \in DOMAIN b.sheetPreviews : b.sheetPreviews[i].entry \in R

\* The places of the references to components of configuration i.
References(b, i) ==
  {k \in DOMAIN b.references : b.references[k].kind = "assembly_component" /\ b.references[k].index = i}

\* The configurations that the paths of streams name.
PathIndices == {content.entries[e].index : e \in ConfigPaths}

\* What belongs to a configuration belongs to one of the builder.
Grounded(b) ==
  /\ PathIndices \subseteq DOMAIN b.configs
  /\ \A k \in DOMAIN b.properties : b.properties[k].index \in DOMAIN b.configs \cup {NONE}
  /\ \A k \in DOMAIN b.references : b.references[k].index \in DOMAIN b.configs \cup {NONE}
  /\ DOMAIN b.components \subseteq DOMAIN b.configs
  /\ \A i : i # NONE => Len(ListAt(b.components, i)) = Cardinality(References(b, i))

\* Streams that the walk has not reached are not read.
ClassesKept(b, n) ==
  /\ b.classes = [e \in Entries |-> b.classes[e]]
  /\ \A e \in Entries : e >= n => b.classes[e] \in {"uninterpreted", "partially_interpreted"}

\* The classes of a stream that was read, and the streams before n that were.
ReadClasses == {"fully_interpreted", "partially_interpreted"}
ReadOf(b, n) == {e \in 1 .. n - 1 : b.classes[e] \in ReadClasses}

\* What the builder of a legacy document holds comes from the entries of R.
LegacyTold(b, R) ==
  /\ {"configs", "properties", "preview", "configPreviews", "classes", "rejected"} \subseteq DOMAIN b
  /\ \A i \in DOMAIN b.configs :
       LET c == b.configs[i]
       IN /\ c = [name |-> c.name, parentIndex |-> c.parentIndex]
          /\ c.name = NONE \/ c.name.entry \in R
          /\ c.parentIndex = NONE \/ c.parentIndex.entry \in R
  /\ From(b.properties, R)
  /\ b.preview = NONE \/ b.preview.entry \in R
  /\ \A i \in DOMAIN b.configPreviews : b.configPreviews[i].entry \in R

\* What the stream of entry e calls configuration i.
NamesIn(e, i) ==
  IF ~IsDecoded(e) THEN {}
  ELSE IF content.entries[e].path \in {"features", "tree", "keywords"}
  THEN IF ParseXml(content.entries[e].data.xml) = "ok" THEN XmlClaims(e, i) ELSE {}
  ELSE IF /\ content.entries[e].path = "header" /\ InternalVersion = ObservedVersion
          /\ HeaderReading(content.entries[e].data) = "ok"
  THEN HeaderClaims(e, i) ELSE {}

\* What the properties of entry e call configuration i.
PropertyNamesIn(e, i) ==
  IF /\ IsDecoded(e) /\ content.entries[e].path = "config_properties" /\ content.entries[e].index = i
     /\ ParseXml(content.entries[e].data.xml) = "ok"
  THEN PropertyClaims(e) ELSE {}

\* Names without where they come from; those a builder holds of configuration i.
RankedValues(names) == {[rank |-> names[k].rank, value |-> names[k].value] : k \in DOMAIN names}

NamesTold(b, i) == IF i \in DOMAIN b.configs THEN RankedValues(b.configs[i].names) ELSE {}

\* The properties that name configuration i, and the names they give it.
Naming(b, i) ==
  {k \in DOMAIN b.properties :
     /\ b.properties[k].kind = "custom" /\ b.properties[k].name = "Configuration"
     /\ b.properties[k].state = "present" /\ b.properties[k].index = i}

PropertyNamesTold(b, i) == {[rank |-> 2, value |-> b.properties[k].value] : k \in Naming(b, i)}

\* The names held of a configuration are those of the streams before n.
NamesHeard(b, n) ==
  \A i :
    /\ NamesTold(b, i) = UNION {NamesIn(e, i) : e \in 1 .. n - 1}
    /\ i # NONE => PropertyNamesTold(b, i) = UNION {PropertyNamesIn(e, i) : e \in 1 .. n - 1}

\* What the builder holds was told by the streams before the one at hand.
BuilderTold ==
  at # 0 =>
   /\ content.envelope = "modern" =>
        /\ ModernTold(builder, ReadOf(builder, at)) /\ Grounded(builder)
        /\ ClassesKept(builder, at) /\ NamesHeard(builder, at)
   /\ content.envelope = "ole2" => LegacyTold(builder, ReadOf(builder, at)) /\ ClassesKept(builder, at)

\* A list mapped is a list.
LEMMA MappedList ==
  ASSUME NEW s, IsList(s), NEW f, f = [k \in DOMAIN s |-> f[k]]
  PROVE  IsList(f) /\ DOMAIN f = DOMAIN s /\ Len(f) = Len(s)
<1>1. Len(s) \in Nat /\ DOMAIN s = 1 .. Len(s)
  BY ListFacts
<1>2. f = [k \in 1 .. Len(s) |-> f[k]] /\ DOMAIN f = 1 .. Len(s)
  BY <1>1
<1>3. IsList(f)
  BY <1>1, <1>2, ListIs
<1>4. DOMAIN f = 1 .. Len(f) /\ Len(f) \in Nat
  BY <1>3, ListFacts
<1> QED
  BY <1>1, <1>2, <1>3, <1>4

\* Nothing is a list.
LEMMA EmptyIsList == IsList(<<>>) /\ Len(<<>>) = 0 /\ DOMAIN <<>> = {}
<1>1. <<>> \in Seq(ToSet(<<>>))
  OBVIOUS
<1> QED
  BY <1>1 DEF IsList

\* Joined facts.
LEMMA FromJoined ==
  ASSUME NEW R, NEW s, NEW t, From(s, R), From(t, R)
  PROVE  From(s \o t, R)
<1>1. IsList(s) /\ IsList(t)
  BY DEF From
<1> DEFINE u == s \o t
<1>2. /\ IsList(u)
      /\ \A k \in DOMAIN u : \/ k \in DOMAIN s /\ u[k] = s[k]
                             \/ k - Len(s) \in DOMAIN t /\ u[k] = t[k - Len(s)]
  BY <1>1, ListsJoined
<1> HIDE DEF u
<1>3. From(u, R)
  BY <1>2 DEF From
<1> QED
  BY <1>3 DEF u

\* Facts that come from R come from every larger set of entries.
LEMMA FromMore ==
  ASSUME NEW R, NEW T, R \subseteq T
  PROVE  /\ \A s : From(s, R) => From(s, T)
         /\ \A c : CandidateTold(c, R) => CandidateTold(c, T)
         /\ \A b : ModernTold(b, R) => ModernTold(b, T)
<1>1. \A s : From(s, R) => From(s, T)
  BY DEF From
<1>2. \A c : CandidateTold(c, R) => CandidateTold(c, T)
  BY <1>1 DEF CandidateTold
<1> QED
  BY <1>1, <1>2 DEF ModernTold

\* No facts.
LEMMA NothingFrom == \A R : From(<<>>, R)
  BY EmptyIsList DEF From

\* A configuration that was not there yet has no names.
LEMMA CandidateIs ==
  ASSUME NEW R, NEW configs, \A i \in DOMAIN configs : CandidateTold(configs[i], R), NEW i
  PROVE  /\ CandidateTold(Candidate(configs, i), R)
         /\ CandidateTold([Candidate(configs, i) EXCEPT !.origin = "source"], R)
         /\ Candidate(configs, i).names = [Candidate(configs, i) EXCEPT !.origin = "source"].names
<1>1. CandidateTold(NewCandidate, R)
  BY NothingFrom, EmptyIsList DEF CandidateTold, NewCandidate
<1>2. CandidateTold(Candidate(configs, i), R)
  BY <1>1 DEF Candidate
<1> DEFINE c == Candidate(configs, i)
<1> HIDE DEF c
<1>3. ASSUME CandidateTold(c, R)
      PROVE  CandidateTold([c EXCEPT !.origin = "source"], R) /\ c.names = [c EXCEPT !.origin = "source"].names
  BY <1>3 DEF CandidateTold
<1> QED
  BY <1>2, <1>3 DEF c

\* Ensured configurations gain no name (ensure_config).
LEMMA ConfigsEnsured ==
  ASSUME NEW R, NEW configs, \A i \in DOMAIN configs : CandidateTold(configs[i], R), NEW indices
  PROVE  /\ DOMAIN EnsureConfigs(configs, indices) = DOMAIN configs \cup indices
         /\ \A i \in DOMAIN configs \cup indices :
              /\ CandidateTold(EnsureConfigs(configs, indices)[i], R)
              /\ EnsureConfigs(configs, indices)[i].names
                   = IF i \in DOMAIN configs THEN configs[i].names ELSE <<>>
<1>1. \A i : Candidate(configs, i).names = IF i \in DOMAIN configs THEN configs[i].names ELSE <<>>
  BY DEF Candidate, NewCandidate
<1>2. ASSUME NEW i \in DOMAIN configs \cup indices
      PROVE  /\ CandidateTold(EnsureConfigs(configs, indices)[i], R)
             /\ EnsureConfigs(configs, indices)[i].names = Candidate(configs, i).names
  <2>1. /\ CandidateTold(Candidate(configs, i), R)
        /\ CandidateTold([Candidate(configs, i) EXCEPT !.origin = "source"], R)
        /\ Candidate(configs, i).names = [Candidate(configs, i) EXCEPT !.origin = "source"].names
    BY CandidateIs
  <2>2. CASE i \in indices
    <3>1. EnsureConfigs(configs, indices)[i] = [Candidate(configs, i) EXCEPT !.origin = "source"]
      BY <2>2 DEF EnsureConfigs
    <3> QED
      BY <2>1, <3>1
  <2>3. CASE i \notin indices
    <3>1. EnsureConfigs(configs, indices)[i] = Candidate(configs, i)
      BY <2>3 DEF EnsureConfigs, Candidate
    <3> QED
      BY <2>1, <3>1
  <2> QED
    BY <2>2, <2>3
<1>3. DOMAIN EnsureConfigs(configs, indices) = DOMAIN configs \cup indices
  BY DEF EnsureConfigs
<1> QED
  BY <1>1, <1>2, <1>3

\* Values marked as read come from the entry at hand.
LEMMA SourcedFrom ==
  ASSUME NEW R, at \in R, NEW values, IsList(values)
  PROVE  From(Sourced(values), R) /\ \A k \in DOMAIN Sourced(values) : Sourced(values)[k].origin = "source"
<1> DEFINE f == Sourced(values)
<1>1. DOMAIN f = DOMAIN values /\ \A k \in DOMAIN values : f[k] = SourceValue(values[k], "source", at)
  BY DEF Sourced
<1>2. f = [k \in DOMAIN values |-> f[k]]
  BY DEF Sourced
<1> HIDE DEF f
<1>3. IsList(f)
  BY <1>2, MappedList
<1>4. From(f, R) /\ \A k \in DOMAIN f : f[k].origin = "source"
  BY <1>1, <1>3 DEF From, SourceValue
<1> QED
  BY <1>4 DEF f

\* The names of joined lists.
LEMMA JoinedValues ==
  ASSUME NEW s, NEW t, IsList(s), IsList(t)
  PROVE  RankedValues(s \o t) = RankedValues(s) \cup RankedValues(t)
<1> DEFINE u == s \o t
<1>1. /\ \A k \in DOMAIN s : k \in DOMAIN u /\ u[k] = s[k]
      /\ \A k \in DOMAIN t : Len(s) + k \in DOMAIN u /\ u[Len(s) + k] = t[k]
      /\ \A k \in DOMAIN u : \/ k \in DOMAIN s /\ u[k] = s[k]
                             \/ k - Len(s) \in DOMAIN t /\ u[k] = t[k - Len(s)]
  BY ListsJoined, SMTT(30)
<1> HIDE DEF u
<1> DEFINE pair(x) == [rank |-> x.rank, value |-> x.value]
<1>2. \A l, x : x \in RankedValues(l) <=> \E k \in DOMAIN l : x = pair(l[k])
  BY DEF RankedValues
<1> HIDE DEF pair
<1>3. \A x : x \in RankedValues(u) <=> x \in RankedValues(s) \/ x \in RankedValues(t)
  BY <1>1, <1>2
<1> QED
  BY <1>3 DEF u

\* The values the nodes of configuration i claim as its name.
NodeNames(nodes, i) ==
  {[rank |-> nodes[k].rank, value |-> nodes[k].name] :
     k \in {n \in DOMAIN nodes : nodes[n].index = i /\ nodes[n].name # NONE}}

\* Configurations that also hold what the nodes say of them.
Claimed(old, nodes, new, R) ==
  /\ DOMAIN new = DOMAIN old \cup {nodes[k].index : k \in DOMAIN nodes}
  /\ \A i \in DOMAIN new :
       /\ CandidateTold(new[i], R)
       /\ RankedValues(new[i].names)
            = (IF i \in DOMAIN old THEN RankedValues(old[i].names) ELSE {}) \cup NodeNames(nodes, i)

\* Nodes claim names for their configurations (collect_xml_configurations).
LEMMA ClaimsTold ==
  ASSUME NEW R, at \in R, NEW configs, \A i \in DOMAIN configs : CandidateTold(configs[i], R),
         NEW nodes, IsList(nodes), \A k \in DOMAIN nodes : IsNode(nodes[k])
  PROVE  Claimed(configs, nodes, Claims(configs, nodes), R)
<1> DEFINE indices == {node.index : node \in ToSet(nodes)}
           ensured == EnsureConfigs(configs, indices)
           of(i) == {k \in DOMAIN nodes : nodes[k].index = i}
           own(i) == Picked(nodes, of(i))
           places(i) == {k \in of(i) : nodes[k].name # NONE}
           named(i) == Picked(nodes, places(i))
           more(i) == [k \in DOMAIN named(i) |->
                         RankedValue(named(i)[k].rank, named(i)[k].name, "source", at)]
           parents(i) == FlattenSeq([k \in DOMAIN own(i) |-> own(i)[k].parentNames])
           ids(i) == FlattenSeq([k \in DOMAIN own(i) |-> own(i)[k].parentIndices])
           new == Claims(configs, nodes)
<1>1. indices = {nodes[k].index : k \in DOMAIN nodes}
  BY DEF ToSet
<1>2. /\ DOMAIN ensured = DOMAIN configs \cup indices
      /\ \A i \in DOMAIN ensured :
           /\ CandidateTold(ensured[i], R)
           /\ ensured[i].names = IF i \in DOMAIN configs THEN configs[i].names ELSE <<>>
  <2> HIDE DEF indices
  <2>1. DOMAIN ensured = DOMAIN configs \cup indices
    BY ConfigsEnsured
  <2>2. \A i \in DOMAIN configs \cup indices :
          /\ CandidateTold(ensured[i], R)
          /\ ensured[i].names = IF i \in DOMAIN configs THEN configs[i].names ELSE <<>>
    BY ConfigsEnsured
  <2> HIDE DEF ensured
  <2> QED
    BY <2>1, <2>2
<1>3. new = [i \in DOMAIN ensured |->
               [ensured[i] EXCEPT !.names = @ \o more(i), !.parentNames = @ \o Sourced(parents(i)),
                                  !.parentIndices = @ \o Sourced(ids(i))]]
  BY Zenon DEF Claims
<1>4. \A i : of(i) \in SUBSET DOMAIN nodes /\ places(i) \in SUBSET DOMAIN nodes
  OBVIOUS
<1>5. \A i : NodeNames(nodes, i) = {[rank |-> nodes[k].rank, value |-> nodes[k].name] : k \in places(i)}
  BY DEF NodeNames
<1>6. \A i, k : k \in places(i) => k \in DOMAIN nodes
  OBVIOUS
<1> HIDE DEF indices, ensured, of, places, new
<1>7. ASSUME NEW i
      PROVE  /\ From(more(i), R)
             /\ \A k \in DOMAIN more(i) : IsClaim(more(i)[k])
             /\ RankedValues(more(i)) = NodeNames(nodes, i)
  <2> DEFINE l == named(i)
             f == more(i)
             pair(x) == [rank |-> x.rank, value |-> x.name]
             ranked(x) == [rank |-> x.rank, value |-> x.value]
  <2>1. /\ IsList(l) /\ \A n \in DOMAIN l : \E k \in places(i) : l[n] = nodes[k]
        /\ \A k \in places(i) : \E n \in DOMAIN l : l[n] = nodes[k]
    BY <1>4, PickedFrom
  <2>2. f = [k \in DOMAIN l |-> f[k]] /\ DOMAIN f = DOMAIN l
        /\ \A k \in DOMAIN l : f[k] = RankedValue(l[k].rank, l[k].name, "source", at)
    OBVIOUS
  <2> HIDE DEF f, l
  <2>3. \A k \in DOMAIN l : /\ f[k].rank = l[k].rank /\ f[k].value = l[k].name /\ f[k].entry = at
                           /\ f[k] = RankedValue(f[k].rank, f[k].value, "source", f[k].entry)
    BY <2>2 DEF RankedValue
  <2>4. IsList(f)
    BY <2>1, <2>2, MappedList
  <2>5. From(f, R)
    BY <2>2, <2>3, <2>4 DEF From
  <2>6. \A k \in DOMAIN f : IsClaim(f[k])
    BY <1>6, <2>1, <2>2, <2>3 DEF IsNode, IsClaim
  <2>7. \A x : x \in RankedValues(f) <=> \E k \in DOMAIN f : x = ranked(f[k])
    BY DEF RankedValues
  <2>8. \A x : x \in NodeNames(nodes, i) <=> \E k \in places(i) : x = pair(nodes[k])
    BY <1>5
  <2>9. \A k \in DOMAIN l : ranked(f[k]) = pair(l[k])
    BY <2>3
  <2> HIDE DEF pair, ranked
  <2>10. RankedValues(f) = NodeNames(nodes, i)
    <3>1. \A x : x \in RankedValues(f) <=> x \in NodeNames(nodes, i)
      BY <2>1, <2>2, <2>7, <2>8, <2>9
    <3> QED
      BY <3>1
  <2> QED
    BY <2>5, <2>6, <2>10 DEF f
<1>8. ASSUME NEW i
      PROVE  IsList(parents(i)) /\ IsList(ids(i))
  <2>1. IsList(own(i)) /\ \A n \in DOMAIN own(i) : \E k \in DOMAIN nodes : own(i)[n] = nodes[k]
    BY <1>4, PickedFrom
  <2> DEFINE l == own(i)
             f == [k \in DOMAIN l |-> l[k].parentNames]
             g == [k \in DOMAIN l |-> l[k].parentIndices]
  <2> HIDE DEF l
  <2>2. \A n \in DOMAIN l : IsList(l[n].parentNames) /\ IsList(l[n].parentIndices)
    BY <2>1 DEF l, IsNode
  <2>3. IsList(f) /\ DOMAIN f = DOMAIN l /\ \A k \in DOMAIN l : IsList(f[k])
    <3>1. f = [k \in DOMAIN l |-> f[k]] /\ DOMAIN f = DOMAIN l /\ \A k \in DOMAIN l : f[k] = l[k].parentNames
      OBVIOUS
    <3> HIDE DEF f
    <3> QED
      BY <2>1, <2>2, <3>1, MappedList DEF l
  <2>4. IsList(g) /\ DOMAIN g = DOMAIN l /\ \A k \in DOMAIN l : IsList(g[k])
    <3>1. g = [k \in DOMAIN l |-> g[k]] /\ DOMAIN g = DOMAIN l /\ \A k \in DOMAIN l : g[k] = l[k].parentIndices
      OBVIOUS
    <3> HIDE DEF g
    <3> QED
      BY <2>1, <2>2, <3>1, MappedList DEF l
  <2>5. IsList(FlattenSeq(f)) /\ IsList(FlattenSeq(g))
    <3> HIDE DEF f, g
    <3> QED
      BY <2>3, <2>4, FlattenIs
  <2> QED
    BY <2>5 DEF l
<1> HIDE DEF more, parents, ids
<1>9. ASSUME NEW i \in DOMAIN ensured
      PROVE  /\ CandidateTold(new[i], R)
             /\ RankedValues(new[i].names) = RankedValues(ensured[i].names) \cup NodeNames(nodes, i)
  <2> DEFINE c == ensured[i]
             d == new[i]
  <2>1. d = [c EXCEPT !.names = @ \o more(i), !.parentNames = @ \o Sourced(parents(i)),
                      !.parentIndices = @ \o Sourced(ids(i))]
    BY <1>3
  <2>2. CandidateTold(c, R)
    BY <1>2
  <2> HIDE DEF c, d
  <2>3. /\ d.names = c.names \o more(i) /\ d.parentNames = c.parentNames \o Sourced(parents(i))
        /\ d.parentIndices = c.parentIndices \o Sourced(ids(i))
        /\ d = [origin |-> d.origin, names |-> d.names, parentNames |-> d.parentNames,
                parentIndices |-> d.parentIndices]
    BY <2>1, <2>2 DEF CandidateTold
  <2>4. /\ From(Sourced(parents(i)), R) /\ From(Sourced(ids(i)), R)
        /\ \A k \in DOMAIN Sourced(parents(i)) : Sourced(parents(i))[k].origin = "source"
    BY <1>8, SourcedFrom
  <2>5. From(d.names, R) /\ From(d.parentNames, R) /\ From(d.parentIndices, R)
    BY <1>7, <2>2, <2>3, <2>4, FromJoined DEF CandidateTold
  <2>6. \A k \in DOMAIN d.names : IsClaim(d.names[k])
    <3>1. IsList(c.names) /\ IsList(more(i)) /\ \A k \in DOMAIN c.names : IsClaim(c.names[k])
      BY <1>7, <2>2 DEF CandidateTold, From
    <3> DEFINE t == more(i)
    <3>2. IsList(t) /\ d.names = c.names \o t /\ \A k \in DOMAIN t : IsClaim(t[k])
      BY <1>7, <2>3, <3>1
    <3> HIDE DEF t
    <3>3. \A k \in DOMAIN d.names : \/ k \in DOMAIN c.names /\ d.names[k] = c.names[k]
                                    \/ k - Len(c.names) \in DOMAIN t /\ d.names[k] = t[k - Len(c.names)]
      BY <3>1, <3>2, ListsJoined
    <3> QED
      BY <3>1, <3>2, <3>3
  <2>7. \A k \in DOMAIN d.parentNames : d.parentNames[k].origin = "source"
    <3> DEFINE t == Sourced(parents(i))
    <3>1. IsList(c.parentNames) /\ IsList(t) /\ \A k \in DOMAIN c.parentNames : c.parentNames[k].origin = "source"
      BY <2>2, <2>4 DEF CandidateTold, From
    <3>2. \A k \in DOMAIN t : t[k].origin = "source"
      BY <2>4
    <3>3. d.parentNames = c.parentNames \o t
      BY <2>3
    <3> HIDE DEF t
    <3>4. \A k \in DOMAIN d.parentNames : \/ k \in DOMAIN c.parentNames /\ d.parentNames[k] = c.parentNames[k]
                                          \/ k - Len(c.parentNames) \in DOMAIN t
                                               /\ d.parentNames[k] = t[k - Len(c.parentNames)]
      BY <3>1, <3>3, ListsJoined
    <3> QED
      BY <3>1, <3>2, <3>4
  <2>8. CandidateTold(d, R)
    BY <2>3, <2>5, <2>6, <2>7 DEF CandidateTold
  <2>9. RankedValues(d.names) = RankedValues(c.names) \cup NodeNames(nodes, i)
    <3>1. IsList(c.names) /\ IsList(more(i))
      BY <1>7, <2>2 DEF CandidateTold, From
    <3> QED
      BY <1>7, <2>3, <3>1, JoinedValues
  <2> QED
    BY <2>8, <2>9 DEF c, d
<1>10. RankedValues(<<>>) = {}
  BY EmptyIsList DEF RankedValues
<1>11. DOMAIN new = DOMAIN configs \cup {nodes[k].index : k \in DOMAIN nodes}
  BY <1>1, <1>2, <1>3
<1>12. DOMAIN new = DOMAIN ensured
  BY <1>3
<1> QED
  BY <1>2, <1>9, <1>10, <1>11, <1>12 DEF new, Claimed
-----------------------------------------------------------------------------
(***************************************************************************)
(* Classes.                                                                *)
(***************************************************************************)
LEMMA WorseIs ==
  ASSUME NEW old \in {"uninterpreted", "partially_interpreted"}, NEW new \in ReadClasses
  PROVE  Worse(old, new) \in ReadClasses
<1> DEFINE rank(class) == CHOOSE k \in DOMAIN SemanticClasses : SemanticClasses[k] = class
<1>1. /\ DOMAIN SemanticClasses = 1 .. 4
      /\ SemanticClasses[1] = "uninterpreted" /\ SemanticClasses[2] = "fully_interpreted"
      /\ SemanticClasses[3] = "partially_interpreted" /\ SemanticClasses[4] = "malformed"
  BY DEF SemanticClasses
<1>2. \A k \in 1 .. 4 : k = 1 \/ k = 2 \/ k = 3 \/ k = 4
  OBVIOUS
<1>3. rank("uninterpreted") = 1
  BY <1>1, <1>2
<1>4. rank("fully_interpreted") = 2
  BY <1>1, <1>2
<1>5. rank("partially_interpreted") = 3
  BY <1>1, <1>2
<1>6. Worse(old, new) = IF rank(new) > rank(old) THEN new ELSE old
  BY DEF Worse
<1> HIDE DEF rank
<1> QED
  BY <1>3, <1>4, <1>5, <1>6 DEF ReadClasses

\* The entries of a document that may be parsed.
LEMMA EntriesAre ==
  ASSUME IsFile(content)
  PROVE  /\ Len(content.entries) \in Nat /\ Entries = 1 .. Len(content.entries)
         /\ \A e \in Entries : IsDecoded(e) => IsStream(content.entries[e].path, content.entries[e].data)
         /\ \A e \in Entries : content.entries[e].path \in {"config_properties", "config_preview"}
                              => content.entries[e].index # NONE
<1>1. Len(content.entries) \in Nat /\ Entries = 1 .. Len(content.entries)
  BY ListFacts DEF IsFile, Entries
<1> QED
  BY <1>1 DEF IsFile, Entries, IsDecoded

\* A reader that ends well adds its entry to those that were read, no other one does.
LEMMA MarkedRead ==
  ASSUME IsFile(content), at \in Entries, NEW b, "classes" \in DOMAIN b, ClassesKept(b, at),
         NEW class, NEW m, m.classes = Mark(b, at, class).classes
  PROVE  /\ ClassesKept(m, at + 1) /\ ReadOf(b, at) \subseteq ReadOf(m, at + 1)
         /\ class \in ReadClasses => ReadOf(m, at + 1) = ReadOf(b, at) \cup {at}
<1>1. m.classes = [b.classes EXCEPT ![at] = Worse(b.classes[at], class)]
  BY DEF Mark
<1>2. /\ at \in Nat \ {0} /\ Entries \subseteq Nat /\ 1 .. at \subseteq Entries
      /\ \A e \in 1 .. at - 1 : e \in Entries /\ e # at
      /\ 1 .. at + 1 - 1 = 1 .. at - 1 \cup {at}
  BY EntriesAre
<1>3. /\ m.classes = [e \in Entries |-> m.classes[e]]
      /\ \A e \in Entries : e # at => m.classes[e] = b.classes[e]
  BY <1>1 DEF ClassesKept
<1>4. class \in ReadClasses => m.classes[at] \in ReadClasses
  <2>1. b.classes[at] \in {"uninterpreted", "partially_interpreted"}
    BY <1>2 DEF ClassesKept
  <2>2. m.classes[at] = Worse(b.classes[at], class)
    BY <1>1 DEF ClassesKept
  <2> QED
    BY <2>1, <2>2, WorseIs
<1>5. ClassesKept(m, at + 1)
  <2>1. \A e \in Entries : e >= at + 1 => e # at /\ e >= at
    BY <1>2
  <2> QED
    BY <1>3, <2>1 DEF ClassesKept
<1>6. \A e \in 1 .. at - 1 : e \in ReadOf(m, at + 1) <=> e \in ReadOf(b, at)
  BY <1>2, <1>3 DEF ReadOf
<1>7. ReadOf(b, at) \subseteq 1 .. at - 1 /\ ReadOf(m, at + 1) \subseteq 1 .. at - 1 \cup {at}
  BY <1>2 DEF ReadOf
<1>8. class \in ReadClasses => at \in ReadOf(m, at + 1)
  BY <1>2, <1>4 DEF ReadOf
<1> QED
  BY <1>5, <1>6, <1>7, <1>8
-----------------------------------------------------------------------------
(***************************************************************************)
(* What a modern stream adds to the builder.                               *)
(***************************************************************************)
SameFacts(b, g) ==
  /\ g.configs = b.configs /\ g.properties = b.properties
  /\ g.references = b.references /\ g.components = b.components

\* Builders that differ in some fields only.
Differs(b, g, names) == DOMAIN g = DOMAIN b /\ \A name \in DOMAIN b : name \notin names => g[name] = b[name]

\* The fields of a builder in which facts are kept.
Facts == {"configs", "properties", "references", "components", "preview", "configPreviews", "sheetPreviews"}

\* Names depend on configurations and properties only.
LEMMA SameHeard ==
  ASSUME NEW b, NEW g, SameFacts(b, g)
  PROVE  /\ Grounded(b) => Grounded(g)
         /\ \A i : NamesTold(g, i) = NamesTold(b, i) /\ PropertyNamesTold(g, i) = PropertyNamesTold(b, i)
<1>1. \A i : References(g, i) = References(b, i)
  BY DEF SameFacts, References
<1>2. Grounded(b) => Grounded(g)
  BY <1>1 DEF SameFacts, Grounded
<1> QED
  BY <1>2 DEF SameFacts, NamesTold, PropertyNamesTold, Naming

\* Fields that hold no facts of a stream.
LEMMA FieldsTold ==
  ASSUME NEW R, NEW b, ModernTold(b, R), NEW names, names \cap Facts = {}, NEW g, Differs(b, g, names)
  PROVE  ModernTold(g, R) /\ SameFacts(b, g) /\ ("classes" \notin names => g.classes = b.classes)
<1>1. \A name \in Facts \cup {"classes"} : name \in DOMAIN b
  BY DEF ModernTold, Facts
<1>2. \A name \in Facts : g[name] = b[name]
  BY <1>1 DEF Differs
<1>3. SameFacts(b, g) /\ g.preview = b.preview /\ g.configPreviews = b.configPreviews
      /\ g.sheetPreviews = b.sheetPreviews
  BY <1>2 DEF SameFacts, Facts
<1>4. ModernTold(g, R)
  BY <1>3 DEF ModernTold, SameFacts, Differs
<1>5. "classes" \notin names => g.classes = b.classes
  BY <1>1 DEF Differs
<1> QED
  BY <1>3, <1>4, <1>5

\* Configurations that replace those of the builder without losing one.
LEMMA ConfigsTold ==
  ASSUME NEW R, NEW b, ModernTold(b, R), NEW configs, DOMAIN b.configs \subseteq DOMAIN configs,
         \A i \in DOMAIN configs : CandidateTold(configs[i], R),
         NEW g, Differs(b, g, {"configs"}), g.configs = configs
  PROVE  /\ ModernTold(g, R) /\ (Grounded(b) => Grounded(g)) /\ g.classes = b.classes
         /\ \A i : PropertyNamesTold(g, i) = PropertyNamesTold(b, i)
<1>1. /\ g.properties = b.properties /\ g.references = b.references /\ g.preview = b.preview
      /\ g.components = b.components /\ g.configPreviews = b.configPreviews
      /\ g.sheetPreviews = b.sheetPreviews /\ g.classes = b.classes /\ DOMAIN g = DOMAIN b
  BY DEF ModernTold, Differs
<1>2. ModernTold(g, R)
  BY <1>1 DEF ModernTold
<1>3. \A i : References(g, i) = References(b, i)
  BY <1>1 DEF References
<1>4. Grounded(b) => Grounded(g)
  BY <1>1, <1>3 DEF Grounded
<1> QED
  BY <1>1, <1>2, <1>4 DEF PropertyNamesTold, Naming

\* What the elements of a stream, or its records, tell of their configurations.
LEMMA NodesTold ==
  ASSUME NEW R, at \in R, NEW b, ModernTold(b, R), Grounded(b),
         NEW nodes, IsList(nodes), \A k \in DOMAIN nodes : IsNode(nodes[k]),
         NEW g, Differs(b, g, {"configs"}), g.configs = Claims(b.configs, nodes)
  PROVE  /\ ModernTold(g, R) /\ Grounded(g) /\ g.classes = b.classes
         /\ \A i : /\ NamesTold(g, i) = NamesTold(b, i) \cup NodeNames(nodes, i)
                   /\ PropertyNamesTold(g, i) = PropertyNamesTold(b, i)
<1> DEFINE old == b.configs
           new == g.configs
<1>1. /\ DOMAIN new = DOMAIN old \cup {nodes[k].index : k \in DOMAIN nodes}
      /\ \A i \in DOMAIN new :
           /\ CandidateTold(new[i], R)
           /\ RankedValues(new[i].names)
                = (IF i \in DOMAIN old THEN RankedValues(old[i].names) ELSE {})
                    \cup NodeNames(nodes, i)
  <2>1. \A i \in DOMAIN old : CandidateTold(old[i], R)
    BY DEF ModernTold
  <2>2. new = Claims(old, nodes)
    OBVIOUS
  <2> HIDE DEF old, new
  <2>3. Claimed(old, nodes, Claims(old, nodes), R)
    BY <2>1, ClaimsTold
  <2> QED
    BY <2>2, <2>3 DEF Claimed
<1>2. /\ ModernTold(g, R) /\ (Grounded(b) => Grounded(g)) /\ g.classes = b.classes
      /\ \A i : PropertyNamesTold(g, i) = PropertyNamesTold(b, i)
  BY <1>1, ConfigsTold
<1>3. \A i : i \notin DOMAIN new => i \notin DOMAIN old /\ NodeNames(nodes, i) = {}
  BY <1>1 DEF NodeNames
<1>4. \A i : NamesTold(g, i) = NamesTold(b, i) \cup NodeNames(nodes, i)
  BY <1>1, <1>3 DEF NamesTold
<1> QED
  BY <1>2, <1>4

\* The elements of a stream (collect_xml_configurations).
LEMMA ElementsTold ==
  ASSUME NEW R, at \in R, NEW b, ModernTold(b, R), Grounded(b),
         IsList(Here.data.configs), \A k \in DOMAIN Here.data.configs : IsNode(Here.data.configs[k]),
         NEW g, g = CollectXmlConfigurations(b)
  PROVE  /\ ModernTold(g, R) /\ Grounded(g) /\ g.classes = b.classes
         /\ \A i : /\ NamesTold(g, i) = NamesTold(b, i) \cup NodeNames(Here.data.configs, i)
                   /\ PropertyNamesTold(g, i) = PropertyNamesTold(b, i)
<1> DEFINE nodes == Here.data.configs
           new == Claims(b.configs, nodes)
           h == [b EXCEPT !.configs = new]
<1>1. PICK v : g = [b EXCEPT !.configs = new, !.materials = v]
  BY Zenon DEF CollectXmlConfigurations
<1>2. IsList(nodes) /\ (\A k \in DOMAIN nodes : IsNode(nodes[k])) /\ new = Claims(b.configs, nodes)
  OBVIOUS
<1> HIDE DEF nodes, new
<1>3. Differs(b, h, {"configs"}) /\ h.configs = new
  BY DEF Differs, ModernTold
<1>4. Differs(h, g, {"materials"})
  BY <1>1 DEF Differs
<1> HIDE DEF h
<1>5. /\ ModernTold(h, R) /\ Grounded(h) /\ h.classes = b.classes
      /\ \A i : /\ NamesTold(h, i) = NamesTold(b, i) \cup NodeNames(nodes, i)
                /\ PropertyNamesTold(h, i) = PropertyNamesTold(b, i)
  BY <1>2, <1>3, NodesTold
<1>6. ModernTold(g, R) /\ SameFacts(h, g) /\ g.classes = h.classes
  <2>1. {"materials"} \cap Facts = {} /\ "classes" \notin {"materials"}
    BY DEF Facts
  <2> QED
    BY <1>4, <1>5, <2>1, FieldsTold
<1> QED
  BY <1>5, <1>6, SameHeard DEF nodes

\* The document kind is no fact of a configuration (collect_document_kind).
LEMMA KindTold ==
  ASSUME NEW R, NEW b, ModernTold(b, R), NEW g, g = CollectDocumentKind(b)
  PROVE  ModernTold(g, R) /\ SameFacts(b, g) /\ g.classes = b.classes
<1>1. CASE g = b
  BY <1>1 DEF SameFacts
<1>2. CASE g # b
  <2>1. PICK v : g = [b EXCEPT !.kinds = v]
    BY <1>2, Zenon DEF CollectDocumentKind
  <2>2. Differs(b, g, {"kinds"})
    BY <2>1 DEF Differs
  <2>3. {"kinds"} \cap Facts = {} /\ "classes" \notin {"kinds"}
    BY DEF Facts
  <2> QED
    BY <2>2, <2>3, FieldsTold
<1> QED
  BY <1>1, <1>2

\* References to anything but components.
LEMMA ReferencesTold ==
  ASSUME NEW R, NEW b, ModernTold(b, R), Grounded(b), NEW refs, From(refs, R),
         \A k \in DOMAIN refs : refs[k].kind # "assembly_component" /\ refs[k].index = NONE,
         NEW g, Differs(b, g, {"references"}), g.references = b.references \o refs
  PROVE  /\ ModernTold(g, R) /\ Grounded(g) /\ g.classes = b.classes
         /\ \A i : NamesTold(g, i) = NamesTold(b, i) /\ PropertyNamesTold(g, i) = PropertyNamesTold(b, i)
<1> DEFINE s == b.references
           u == g.references
<1>1. /\ g.properties = b.properties /\ g.configs = b.configs /\ g.preview = b.preview
      /\ g.components = b.components /\ g.configPreviews = b.configPreviews
      /\ g.sheetPreviews = b.sheetPreviews /\ g.classes = b.classes /\ DOMAIN g = DOMAIN b
  BY DEF ModernTold, Differs
<1>2. From(s, R) /\ IsList(s) /\ IsList(refs) /\ u = s \o refs
  BY DEF ModernTold, From
<1> HIDE DEF s, u
<1>3. From(u, R)
  BY <1>2, FromJoined
<1>4. ModernTold(g, R)
  BY <1>1, <1>3 DEF ModernTold, u
<1>5. /\ \A k \in DOMAIN s : k \in DOMAIN u /\ u[k] = s[k]
      /\ \A k \in DOMAIN u : \/ k \in DOMAIN s /\ u[k] = s[k]
                             \/ k - Len(s) \in DOMAIN refs /\ u[k] = refs[k - Len(s)]
  BY <1>2, ListsJoined, SMTT(30)
<1>6. \A i : References(g, i) = References(b, i)
  <2> TAKE i
  <2>1. References(g, i) = {k \in DOMAIN u : u[k].kind = "assembly_component" /\ u[k].index = i}
    BY DEF References, u
  <2>2. References(b, i) = {k \in DOMAIN s : s[k].kind = "assembly_component" /\ s[k].index = i}
    BY DEF References, s
  <2> QED
    BY <1>5, <2>1, <2>2
<1>7. \A k \in DOMAIN u : u[k].index \in DOMAIN b.configs \cup {NONE}
  <2>1. \A k \in DOMAIN s : s[k].index \in DOMAIN b.configs \cup {NONE}
    BY DEF Grounded, s
  <2> QED
    BY <1>5, <2>1
<1>8. Grounded(g)
  BY <1>1, <1>6, <1>7 DEF Grounded, u
<1> QED
  BY <1>1, <1>4, <1>8 DEF NamesTold, PropertyNamesTold, Naming

\* External references belong to no configuration.
LEMMA ExternalTold ==
  ASSUME NEW R, at \in R, NEW b, ModernTold(b, R), Grounded(b), IsList(Here.data.files),
         NEW g, g = CollectExternalFeatureReferences(b)
  PROVE  /\ ModernTold(g, R) /\ Grounded(g) /\ g.classes = b.classes
         /\ \A i : NamesTold(g, i) = NamesTold(b, i) /\ PropertyNamesTold(g, i) = PropertyNamesTold(b, i)
<1> DEFINE others == IF Here.data.files = <<>> THEN <<>> ELSE Tail(Here.data.files)
           refs == [k \in DOMAIN others |-> Reference("external_feature", others[k].path, NONE, NONE)]
<1>1. IsList(others)
  BY EmptyIsList, TailIs
<1>2. g = [b EXCEPT !.references = b.references \o refs]
  BY Zenon DEF CollectExternalFeatureReferences
<1> HIDE DEF others
<1>3. /\ refs = [k \in DOMAIN others |-> refs[k]]
      /\ \A k \in DOMAIN refs : refs[k].kind = "external_feature" /\ refs[k].index = NONE /\ refs[k].entry = at
  BY DEF Reference
<1> DEFINE t == refs
           u == b.references \o t
<1> HIDE DEF refs
<1>4. From(refs, R)
  BY <1>1, <1>3, MappedList DEF From
<1>5. g = [b EXCEPT !.references = u]
  BY <1>2
<1>6. u = b.references \o refs
  OBVIOUS
<1> HIDE DEF u
<1>7. Differs(b, g, {"references"}) /\ g.references = b.references \o refs
  BY <1>5, <1>6 DEF Differs, ModernTold
<1>8. \A k \in DOMAIN refs : refs[k].kind # "assembly_component" /\ refs[k].index = NONE
  BY <1>3
<1> QED
  BY <1>4, <1>7, <1>8, ReferencesTold

\* The component list of the root models at some places.
Made(places) ==
  LET chosen == Picked(Here.data.models, places)
  IN FlattenSeq([k \in DOMAIN chosen |-> Components(Here.data, chosen[k])])

\* Each of its components stands for one reference of one of those models.
StandsFor(f, from, place, places) ==
  /\ IsList(f)
  /\ \A n \in DOMAIN f :
       /\ from[n] \in places /\ place[n] \in DOMAIN Here.data.models[from[n]].references
       /\ f[n].index = Here.data.models[from[n]].index /\ f[n].entry = at
  /\ \A m, n \in DOMAIN f : from[m] = from[n] /\ place[m] = place[n] => m = n
  /\ \A k \in places : \A p \in DOMAIN Here.data.models[k].references :
       \E n \in DOMAIN f : from[n] = k /\ place[n] = p

\* A component is of the configuration and the entry it was made for.
LEMMA ComponentIs ==
  ASSUME NEW tree, NEW index, NEW reference
  PROVE  Component(tree, index, reference).index = index /\ Component(tree, index, reference).entry = at
  BY DEF Component

\* Each reference of a chosen model makes one component.
LEMMA MadeIs ==
  ASSUME IsList(Here.data.models), \A k \in DOMAIN Here.data.models : IsList(Here.data.models[k].references),
         NEW places, places \in SUBSET DOMAIN Here.data.models
  PROVE  \E from, place : StandsFor(Made(places), from, place, places)
<1> DEFINE models == Here.data.models
           chosen == Picked(models, places)
           seqs == [k \in DOMAIN chosen |-> Components(Here.data, chosen[k])]
           f == FlattenSeq(seqs)
<1>1. PICK r : Numbers(r, places) /\ \A n \in 1 .. Cardinality(places) : chosen[n] = models[r[n]]
  BY PickedIs
<1>2. /\ IsList(chosen) /\ DOMAIN chosen = 1 .. Cardinality(places) /\ Cardinality(places) \in Nat
      /\ Len(chosen) = Cardinality(places)
  BY PickedIs
<1>3. /\ \A k \in DOMAIN models : IsList(models[k].references)
      /\ \A k \in places : k \in DOMAIN models
  OBVIOUS
<1> HIDE DEF chosen
<1>4. ASSUME NEW k \in DOMAIN chosen
      PROVE  /\ IsList(seqs[k]) /\ DOMAIN seqs[k] = DOMAIN models[r[k]].references
             /\ \A p \in DOMAIN seqs[k] : seqs[k][p].index = models[r[k]].index /\ seqs[k][p].entry = at
  <2>1. chosen[k] = models[r[k]] /\ r[k] \in places /\ IsList(models[r[k]].references)
    BY <1>1, <1>2, <1>3 DEF Numbers
  <2> DEFINE list == models[r[k]].references
             s == seqs[k]
  <2>2. /\ s = [p \in DOMAIN list |-> s[p]] /\ DOMAIN s = DOMAIN list
        /\ \A p \in DOMAIN list : s[p] = Component(Here.data, models[r[k]].index, list[p])
    BY <2>1 DEF Components
  <2>3. \A p \in DOMAIN list : s[p].index = models[r[k]].index /\ s[p].entry = at
    BY <2>2, ComponentIs
  <2> HIDE DEF s, list
  <2>4. IsList(list)
    BY <2>1 DEF list
  <2>5. IsList(s)
    BY <2>2, <2>4, MappedList
  <2> QED
    BY <2>2, <2>3, <2>5 DEF s, list
<1>5. IsList(seqs) /\ DOMAIN seqs = DOMAIN chosen /\ Len(seqs) = Len(chosen)
  <2>1. seqs = [k \in DOMAIN chosen |-> seqs[k]]
    OBVIOUS
  <2> HIDE DEF seqs
  <2> QED
    BY <1>2, <2>1, MappedList
<1>6. f = Made(places)
  BY DEF Made, chosen
<1> HIDE DEF seqs, models
<1>7. IsList(f) /\ \E row, place : Flattens(row, place, f, seqs, Len(seqs))
  BY <1>4, <1>5, FlattenIs
<1>8. PICK row, place : Flattens(row, place, f, seqs, Len(seqs))
  BY <1>7
<1> HIDE DEF f
<1> DEFINE from == [n \in DOMAIN f |-> r[row[n]]]
<1>9. /\ \A n \in DOMAIN f : /\ row[n] \in DOMAIN chosen /\ place[n] \in DOMAIN seqs[row[n]]
                             /\ f[n] = seqs[row[n]][place[n]]
      /\ \A i \in DOMAIN chosen : \A j \in DOMAIN seqs[i] : \E n \in DOMAIN f : row[n] = i /\ place[n] = j
      /\ \A m, n \in DOMAIN f : row[m] = row[n] /\ place[m] = place[n] => m = n
  BY <1>2, <1>5, <1>8 DEF Flattens
<1>10. /\ \A n \in DOMAIN chosen : r[n] \in places
       /\ \A k \in places : \E n \in DOMAIN chosen : r[n] = k
       /\ \A m, n \in DOMAIN chosen : r[m] = r[n] => m = n
  <2>1. places \in SUBSET Nat
    BY ListFacts DEF models
  <2>2. \A m, n \in DOMAIN chosen : m # n => m < n \/ n < m
    BY <1>2
  <2> QED
    BY <1>1, <1>2, <2>1, <2>2 DEF Numbers
<1>11. \A n \in DOMAIN f : from[n] = r[row[n]]
  OBVIOUS
<1> HIDE DEF from
<1>12. \A n \in DOMAIN f : /\ from[n] \in places /\ place[n] \in DOMAIN models[from[n]].references
                           /\ f[n].index = models[from[n]].index /\ f[n].entry = at
  BY <1>4, <1>9, <1>10, <1>11
<1>13. \A m, n \in DOMAIN f : from[m] = from[n] /\ place[m] = place[n] => m = n
  BY <1>9, <1>10, <1>11
<1>14. ASSUME NEW k \in places, NEW p \in DOMAIN models[k].references
       PROVE  \E n \in DOMAIN f : from[n] = k /\ place[n] = p
  <2>1. PICK i \in DOMAIN chosen : r[i] = k
    BY <1>10
  <2>2. p \in DOMAIN seqs[i]
    BY <1>4, <2>1
  <2> QED
    BY <1>9, <1>11, <2>1, <2>2
<1>15. StandsFor(f, from, place, places)
  BY <1>7, <1>12, <1>13, <1>14 DEF StandsFor, models
<1> QED
  BY <1>6, <1>15

\* As many components stand for the models of one configuration as have its index.
LEMMA MadeCounts ==
  ASSUME IsList(Here.data.models), \A k \in DOMAIN Here.data.models : IsList(Here.data.models[k].references),
         NEW places, places \in SUBSET DOMAIN Here.data.models, NEW i
  PROVE  Len(Made({k \in places : Here.data.models[k].index = i}))
           = Cardinality({n \in DOMAIN Made(places) : Made(places)[n].index = i})
<1> DEFINE models == Here.data.models
           own == {k \in places : models[k].index = i}
           f == Made(places)
           h == Made(own)
           S == {n \in DOMAIN f : f[n].index = i}
<1>1. own \in SUBSET DOMAIN models /\ \A k : k \in own <=> k \in places /\ models[k].index = i
  OBVIOUS
<1>2. PICK from, place : StandsFor(f, from, place, places)
  BY MadeIs
<1> HIDE DEF own
<1>3. PICK source, spot : StandsFor(h, source, spot, own)
  BY <1>1, MadeIs
<1> HIDE DEF f, h, models
<1> DEFINE match == [n \in S |-> CHOOSE m \in DOMAIN h : source[m] = from[n] /\ spot[m] = place[n]]
<1>4. ASSUME NEW n \in S
      PROVE  \E m \in DOMAIN h : source[m] = from[n] /\ spot[m] = place[n]
  BY <1>1, <1>2, <1>3 DEF StandsFor, models
<1>5. \A n \in S : match[n] \in DOMAIN h /\ source[match[n]] = from[n] /\ spot[match[n]] = place[n]
  BY <1>4
<1>6. match \in [S -> DOMAIN h]
  BY <1>5
<1> HIDE DEF match
<1>7. \A x, y \in S : match[x] = match[y] => x = y
  BY <1>2, <1>5 DEF StandsFor
<1>8. ASSUME NEW m \in DOMAIN h
      PROVE  \E n \in S : match[n] = m
  <2>1. source[m] \in places /\ models[source[m]].index = i /\ spot[m] \in DOMAIN models[source[m]].references
    BY <1>1, <1>3 DEF StandsFor, models
  <2>2. PICK n \in DOMAIN f : from[n] = source[m] /\ place[n] = spot[m]
    BY <1>2, <2>1 DEF StandsFor, models
  <2>3. n \in S
    BY <1>2, <2>1, <2>2 DEF StandsFor, models
  <2> QED
    BY <1>3, <1>5, <2>2, <2>3 DEF StandsFor
<1>9. IsFiniteSet(DOMAIN h) /\ DOMAIN h = 1 .. Len(h) /\ Len(h) \in Nat
  BY <1>3, ListFacts DEF StandsFor
<1> HIDE DEF S
<1>10. Cardinality(S) = Cardinality(DOMAIN h)
  BY <1>6, <1>7, <1>8, <1>9, PairedOff
<1>11. Cardinality(DOMAIN h) = Len(h)
  <2>1. Cardinality(1 .. Len(h)) = Len(h)
    <3> DEFINE l == Len(h)
    <3>1. l \in Nat
      BY <1>9
    <3> HIDE DEF l
    <3>2. Cardinality(1 .. l) = IF 1 > l THEN 0 ELSE l - 1 + 1
      BY <3>1, FS_Interval
    <3> QED
      BY <3>1, <3>2 DEF l
  <2> QED
    BY <1>9, <2>1
<1> QED
  BY <1>10, <1>11 DEF S, f, h, own, models

\* The models of the stream whose components are kept, and their configurations.
BuiltModels ==
  {k \in DOMAIN Here.data.models :
     IsRootModel(Here.data, Here.data.models[k]) /\ Here.data.models[k].references # <<>>}

BuiltIndices == {Here.data.models[k].index : k \in BuiltModels}

\* The references and the components made of them.
MadeReferences ==
  [k \in DOMAIN Made(BuiltModels) |->
     Reference("assembly_component", Made(BuiltModels)[k].path, Made(BuiltModels)[k].configuration,
               Made(BuiltModels)[k].index)]

MadeComponents == [i \in BuiltIndices |-> Made({k \in BuiltModels : Here.data.models[k].index = i})]

\* collect_components in these terms.
LEMMA ComponentsCollected ==
  ASSUME NEW b, NEW g, g = CollectComponents(b)
  PROVE  \E v : g = [b EXCEPT !.boxes = v, !.configs = EnsureConfigs(b.configs, BuiltIndices),
                              !.components = Gather(b.components, MadeComponents),
                              !.references = b.references \o MadeReferences]
<1> DEFINE tree == Here.data
           models == tree.models
           roots == {k \in DOMAIN models : IsRootModel(tree, models[k])}
           built == {k \in roots : models[k].references # <<>>}
           of(places, i) == Picked(models, {k \in places : models[k].index = i})
           indices(places) == {models[k].index : k \in places}
           made(chosen) == FlattenSeq([k \in DOMAIN chosen |-> Components(tree, chosen[k])])
           all == made(Picked(models, built))
<1>1. PICK v : g = [b EXCEPT !.boxes = v, !.configs = EnsureConfigs(@, indices(built)),
                      !.components = Gather(@, [i \in indices(built) |-> made(of(built, i))]),
                      !.references = @ \o
                         [k \in DOMAIN all |-> Reference("assembly_component", all[k].path,
                                                         all[k].configuration, all[k].index)]]
  BY Zenon DEF CollectComponents
<1>2. built = BuiltModels
  BY DEF BuiltModels
<1>3. indices(built) = BuiltIndices
  BY <1>2 DEF BuiltIndices
<1>4. all = Made(BuiltModels)
  BY <1>2 DEF Made
<1>5. \A i : made(of(built, i)) = Made({k \in BuiltModels : Here.data.models[k].index = i})
  BY <1>2 DEF Made
<1>6. [i \in indices(built) |-> made(of(built, i))] = MadeComponents
  BY <1>3, <1>5, Zenon DEF MadeComponents
<1>7. [k \in DOMAIN all |-> Reference("assembly_component", all[k].path,
                                      all[k].configuration, all[k].index)] = MadeReferences
  BY <1>4, Zenon DEF MadeReferences
<1> HIDE DEF all, built, made, of, indices
<1> QED
  BY <1>1, <1>3, <1>6, <1>7, Zenon

\* Components and their references are added for the same configurations.
LEMMA ComponentsTold ==
  ASSUME NEW R, at \in R, NEW b, ModernTold(b, R), Grounded(b), IsList(Here.data.models),
         \A k \in DOMAIN Here.data.models : IsList(Here.data.models[k].references),
         NEW g, g = CollectComponents(b)
  PROVE  /\ ModernTold(g, R) /\ Grounded(g) /\ g.classes = b.classes
         /\ \A i : NamesTold(g, i) = NamesTold(b, i) /\ PropertyNamesTold(g, i) = PropertyNamesTold(b, i)
<1> DEFINE configs == EnsureConfigs(b.configs, BuiltIndices)
           all == Made(BuiltModels)
           refs == MadeReferences
           lists == Gather(b.components, MadeComponents)
           s == b.references
           u == b.references \o MadeReferences
           own(i) == {k \in BuiltModels : Here.data.models[k].index = i}
<1>1. BuiltModels \in SUBSET DOMAIN Here.data.models
  BY DEF BuiltModels
<1>2. PICK from, place : StandsFor(all, from, place, BuiltModels)
  BY <1>1, MadeIs
<1>3. IsList(all) /\ \A k \in DOMAIN all : all[k].entry = at /\ all[k].index \in BuiltIndices
  BY <1>2 DEF StandsFor, BuiltIndices
<1>4. /\ DOMAIN refs = DOMAIN all /\ refs = [k \in DOMAIN all |-> refs[k]]
      /\ \A k \in DOMAIN all : /\ refs[k].kind = "assembly_component" /\ refs[k].index = all[k].index
                               /\ refs[k].entry = at
  BY DEF MadeReferences, Reference
<1>5. \A i : IsList(Made(own(i))) /\ \A n \in DOMAIN Made(own(i)) : Made(own(i))[n].entry = at
  <2> TAKE i
  <2>1. own(i) \in SUBSET DOMAIN Here.data.models
    BY <1>1
  <2> HIDE DEF own
  <2> QED
    BY <2>1, MadeIs DEF StandsFor
<1>6. \A i : Len(Made(own(i))) = Cardinality({n \in DOMAIN all : all[n].index = i})
  BY <1>1, MadeCounts
<1>7. \A i : i \notin BuiltIndices => {n \in DOMAIN all : all[n].index = i} = {}
  BY <1>3
<1>8. PICK v : g = [b EXCEPT !.boxes = v, !.configs = configs, !.components = lists, !.references = u]
  BY ComponentsCollected
<1>9. u = s \o refs /\ From(s, R)
  BY DEF ModernTold
<1>10. /\ DOMAIN lists = DOMAIN b.components \cup BuiltIndices
       /\ \A i \in DOMAIN lists : lists[i] = IF i \in BuiltIndices THEN ListAt(b.components, i) \o Made(own(i))
                                             ELSE b.components[i]
  BY DEF Gather, MadeComponents
<1>11. DOMAIN configs = DOMAIN b.configs \cup BuiltIndices
       /\ \A i \in DOMAIN configs : /\ CandidateTold(configs[i], R)
                                    /\ configs[i].names = IF i \in DOMAIN b.configs THEN b.configs[i].names ELSE <<>>
  <2> DEFINE old == b.configs
  <2>1. \A i \in DOMAIN old : CandidateTold(old[i], R)
    BY DEF ModernTold
  <2> HIDE DEF old
  <2>2. DOMAIN EnsureConfigs(old, BuiltIndices) = DOMAIN old \cup BuiltIndices
    BY <2>1, ConfigsEnsured
  <2>3. \A i \in DOMAIN old \cup BuiltIndices :
              /\ CandidateTold(EnsureConfigs(old, BuiltIndices)[i], R)
              /\ EnsureConfigs(old, BuiltIndices)[i].names
                   = IF i \in DOMAIN old THEN old[i].names ELSE <<>>
    BY <2>1, ConfigsEnsured
  <2> QED
    BY <2>2, <2>3 DEF old
<1> HIDE DEF configs, all, refs, lists, s, u, own
<1>12. /\ g.configs = configs /\ g.components = lists /\ g.references = u
       /\ Differs(b, g, {"boxes", "configs", "components", "references"})
  BY <1>8 DEF Differs, ModernTold
<1>13. /\ g.properties = b.properties /\ g.preview = b.preview /\ g.configPreviews = b.configPreviews
       /\ g.sheetPreviews = b.sheetPreviews /\ g.classes = b.classes /\ DOMAIN g = DOMAIN b
  BY <1>12 DEF ModernTold, Differs
<1>14. From(refs, R)
  BY <1>3, <1>4, MappedList DEF From
<1>15. From(u, R)
  BY <1>9, <1>14, FromJoined
<1>16. \A i : From(Made(own(i)), R)
  BY <1>5 DEF From
<1>17. \A i : From(ListAt(b.components, i), R)
  BY NothingFrom DEF ListAt, ModernTold
<1>18. \A i \in DOMAIN lists : From(lists[i], R)
  <2> TAKE i \in DOMAIN lists
  <2>1. CASE i \in BuiltIndices
    <3>1. lists[i] = ListAt(b.components, i) \o Made(own(i))
      BY <1>10, <2>1
    <3> QED
      BY <1>16, <1>17, <3>1, FromJoined
  <2>2. CASE i \notin BuiltIndices
    BY <1>10, <2>2 DEF ModernTold
  <2> QED
    BY <2>1, <2>2
<1>19. ModernTold(g, R)
  BY <1>11, <1>12, <1>13, <1>15, <1>18 DEF ModernTold
<1>20. /\ \A k \in DOMAIN s : k \in DOMAIN u /\ u[k] = s[k]
       /\ \A k \in DOMAIN refs : Len(s) + k \in DOMAIN u /\ u[Len(s) + k] = refs[k]
       /\ \A k \in DOMAIN u : \/ k \in DOMAIN s /\ u[k] = s[k]
                              \/ k - Len(s) \in DOMAIN refs /\ u[k] = refs[k - Len(s)]
  BY <1>9, <1>14, ListsJoined DEF From
<1>21. /\ DOMAIN s \subseteq DOMAIN u /\ DOMAIN u = DOMAIN s \cup {Len(s) + k : k \in DOMAIN refs}
       /\ DOMAIN s \cap {Len(s) + k : k \in DOMAIN refs} = {}
       /\ Len(s) \in Nat /\ DOMAIN refs \in SUBSET (Nat \ {0}) /\ IsFiniteSet(DOMAIN s) /\ IsFiniteSet(DOMAIN refs)
  <2>1. /\ Len(s) \in Nat /\ DOMAIN s = 1 .. Len(s) /\ IsFiniteSet(DOMAIN s)
        /\ Len(refs) \in Nat /\ DOMAIN refs = 1 .. Len(refs) /\ IsFiniteSet(DOMAIN refs)
    BY <1>9, <1>14, ListFacts DEF From
  <2>2. IsList(u) /\ DOMAIN u = 1 .. Len(u) /\ Len(u) \in Nat
    BY <1>15, ListFacts DEF From
  <2> QED
    BY <1>20, <2>1, <2>2
<1>22. ASSUME NEW i
       PROVE  Cardinality(References(g, i))
                = Cardinality(References(b, i)) + Cardinality({n \in DOMAIN all : all[n].index = i})
  <2> DEFINE T == {n \in DOMAIN all : all[n].index = i}
             V == {k \in DOMAIN u : u[k].kind = "assembly_component" /\ u[k].index = i /\ k \notin DOMAIN s}
             U == {k \in DOMAIN s : s[k].kind = "assembly_component" /\ s[k].index = i}
             shift == [k \in V |-> k - Len(s)]
  <2>1. References(g, i) = U \cup V /\ References(b, i) = U
    BY <1>12, <1>20 DEF References, s
  <2>2. IsFiniteSet(U) /\ IsFiniteSet(T)
    BY <1>4, <1>21, FS_Subset
  <2>3. V \subseteq {Len(s) + k : k \in DOMAIN refs}
    BY <1>21
  <2>4. shift \in [V -> T]
    <3>1. ASSUME NEW k \in V
          PROVE  k - Len(s) \in T
      BY <1>4, <1>20
    <3> QED
      BY <3>1
  <2>5. \A x, y \in V : shift[x] = shift[y] => x = y
    BY <1>21, <2>3
  <2>6. ASSUME NEW n \in T
        PROVE  \E x \in V : shift[x] = n
    <3>1. n \in DOMAIN refs /\ Len(s) + n \in DOMAIN u /\ u[Len(s) + n] = refs[n] /\ n \in Nat \ {0}
      BY <1>4, <1>20, <1>21
    <3>2. Len(s) + n \in V
      BY <1>4, <1>21, <3>1
    <3> QED
      BY <1>21, <3>1, <3>2
  <2> HIDE DEF T, V, U, shift
  <2>7. IsFiniteSet(V) /\ Cardinality(V) = Cardinality(T)
    BY <2>2, <2>4, <2>5, <2>6, PairedOff
  <2>8. U \cap V = {}
    BY DEF U, V
  <2>9. Cardinality(U \cup V) = Cardinality(U) + Cardinality(V)
    <3>1. Cardinality(U \cup V) = Cardinality(U) + Cardinality(V) - Cardinality(U \cap V)
      BY <2>2, <2>7, FS_Union
    <3>2. Cardinality(U) \in Nat /\ Cardinality(V) \in Nat /\ Cardinality(U \cap V) = 0
      BY <2>2, <2>7, <2>8, FS_EmptySet, FS_CardinalityType
    <3> QED
      BY <3>1, <3>2
  <2> QED
    BY <2>1, <2>7, <2>9 DEF T
<1>23. ASSUME NEW i, i # NONE
       PROVE  Len(ListAt(g.components, i)) = Cardinality(References(g, i))
  <2>1. Len(ListAt(b.components, i)) = Cardinality(References(b, i)) /\ IsList(ListAt(b.components, i))
    BY <1>17, <1>23 DEF Grounded, From
  <2>2. CASE i \in BuiltIndices
    <3>1. ListAt(g.components, i) = ListAt(b.components, i) \o Made(own(i))
      BY <1>10, <1>12, <2>2 DEF ListAt
    <3>2. Len(ListAt(g.components, i)) = Len(ListAt(b.components, i)) + Len(Made(own(i)))
      BY <1>5, <2>1, <3>1, ListsJoined
    <3> QED
      BY <1>6, <1>22, <2>1, <3>2
  <2>3. CASE i \notin BuiltIndices
    <3>1. ListAt(g.components, i) = ListAt(b.components, i)
      BY <1>10, <1>12, <2>3 DEF ListAt
    <3>2. Cardinality({n \in DOMAIN all : all[n].index = i}) = 0
      BY <1>7, <2>3, FS_EmptySet
    <3>3. Cardinality(References(b, i)) \in Nat
      BY <2>1, ListFacts
    <3> QED
      BY <1>22, <2>1, <3>1, <3>2, <3>3
  <2> QED
    BY <2>2, <2>3
<1>24. \A k \in DOMAIN u : u[k].index \in DOMAIN configs \cup {NONE}
  <2>1. \A k \in DOMAIN s : s[k].index \in DOMAIN configs \cup {NONE}
    BY <1>11 DEF Grounded, s
  <2>2. \A k \in DOMAIN refs : refs[k].index \in DOMAIN configs
    BY <1>3, <1>4, <1>11
  <2> QED
    BY <1>20, <2>1, <2>2
<1>25. Grounded(g)
  BY <1>10, <1>11, <1>12, <1>13, <1>23, <1>24 DEF Grounded
<1>26. RankedValues(<<>>) = {}
  BY EmptyIsList DEF RankedValues
<1>27. \A i : NamesTold(g, i) = NamesTold(b, i)
  BY <1>11, <1>12, <1>26 DEF NamesTold
<1> QED
  BY <1>13, <1>19, <1>25, <1>27 DEF PropertyNamesTold, Naming

\* After an entry the builder g holds what b held and what the entry told.
EntryTold(b, g) ==
  /\ ModernTold(g, ReadOf(g, at + 1)) /\ Grounded(g) /\ ClassesKept(g, at + 1)
  /\ \A i :
       /\ NamesTold(g, i) = NamesTold(b, i) \cup NamesIn(at, i)
       /\ i # NONE => PropertyNamesTold(g, i) = PropertyNamesTold(b, i) \cup PropertyNamesIn(at, i)

\* The walk is at an entry of a document that may be parsed; the builder so far.
Walking == at \in Entries /\ IsFile(content)

BuilderKept ==
  ModernTold(builder, ReadOf(builder, at)) /\ Grounded(builder) /\ ClassesKept(builder, at)

\* An entry that was read.
LEMMA ReadTold ==
  ASSUME Walking, BuilderKept, NEW gathered, ModernTold(gathered, ReadOf(builder, at) \cup {at}),
         Grounded(gathered), gathered.classes = builder.classes, NEW class \in ReadClasses,
         \A i :
           /\ NamesTold(gathered, i) = NamesTold(builder, i) \cup NamesIn(at, i)
           /\ i # NONE => PropertyNamesTold(gathered, i) = PropertyNamesTold(builder, i) \cup PropertyNamesIn(at, i),
         NEW g, Differs(gathered, g, {"classes", "sheetNames"}),
         g.classes = Mark(builder, at, class).classes
  PROVE  EntryTold(builder, g)
<1>1. ClassesKept(g, at + 1) /\ ReadOf(g, at + 1) = ReadOf(builder, at) \cup {at}
  <2>1. "classes" \in DOMAIN builder
    BY DEF BuilderKept, ModernTold
  <2> QED
    BY <2>1, MarkedRead DEF BuilderKept, Walking
<1>2. {"classes", "sheetNames"} \cap Facts = {}
  BY DEF Facts
<1>3. ModernTold(g, ReadOf(builder, at) \cup {at}) /\ SameFacts(gathered, g)
  BY <1>2, FieldsTold
<1>4. Grounded(g) /\ \A i : /\ NamesTold(g, i) = NamesTold(gathered, i)
                             /\ PropertyNamesTold(g, i) = PropertyNamesTold(gathered, i)
  BY <1>3, SameHeard
<1> QED
  BY <1>1, <1>3, <1>4 DEF EntryTold

\* An entry that was not read tells nothing.
LEMMA FailedTold ==
  ASSUME Walking, BuilderKept, \A i : NamesIn(at, i) = {} /\ PropertyNamesIn(at, i) = {},
         NEW class, NEW g, Differs(builder, g, {"classes", "rejected"}),
         g.classes = Mark(builder, at, class).classes
  PROVE  EntryTold(builder, g)
<1>1. ClassesKept(g, at + 1) /\ ReadOf(builder, at) \subseteq ReadOf(g, at + 1)
  <2>1. "classes" \in DOMAIN builder
    BY DEF BuilderKept, ModernTold
  <2> QED
    BY <2>1, MarkedRead DEF BuilderKept, Walking
<1>2. {"classes", "rejected"} \cap Facts = {}
  BY DEF Facts
<1>3. ModernTold(builder, ReadOf(g, at + 1)) /\ Grounded(builder)
  BY <1>1, FromMore DEF BuilderKept
<1>4. ModernTold(g, ReadOf(g, at + 1)) /\ SameFacts(builder, g)
  BY <1>2, <1>3, FieldsTold
<1>5. Grounded(g) /\ \A i : /\ NamesTold(g, i) = NamesTold(builder, i)
                             /\ PropertyNamesTold(g, i) = PropertyNamesTold(builder, i)
  BY <1>3, <1>4, SameHeard
<1> QED
  BY <1>1, <1>4, <1>5 DEF EntryTold

\* How marking changes a builder.
LEMMA MarkDiffers ==
  ASSUME NEW b, NEW class, NEW v, NEW old, old.classes = b.classes, {"classes", "rejected", "sheetNames"} \subseteq DOMAIN b
  PROVE  /\ Differs(b, Mark(b, at, class), {"classes", "rejected"})
         /\ Differs(b, Mark(b, at, class), {"classes", "sheetNames"})
         /\ Differs(b, [Mark(b, at, class) EXCEPT !.rejected = v], {"classes", "rejected"})
         /\ Differs(b, [Mark(b, at, class) EXCEPT !.sheetNames = v], {"classes", "sheetNames"})
         /\ [Mark(b, at, class) EXCEPT !.rejected = v].classes = Mark(b, at, class).classes
         /\ [Mark(b, at, class) EXCEPT !.sheetNames = v].classes = Mark(b, at, class).classes
         /\ "classes" \in DOMAIN old => Mark(b, at, class).classes = Mark(old, at, class).classes
<1> DEFINE c == [b.classes EXCEPT ![at] = Worse(@, class)]
           m == Mark(b, at, class)
<1>1. m = [b EXCEPT !.classes = c]
  BY DEF Mark
<1>2. "classes" \in DOMAIN old => Mark(old, at, class).classes = c
  BY DEF Mark
<1> HIDE DEF c, m
<1>3. DOMAIN m = DOMAIN b /\ m.classes = c /\ \A name \in DOMAIN b : name # "classes" => m[name] = b[name]
  BY <1>1
<1>4. Differs(b, m, {"classes", "rejected"}) /\ Differs(b, m, {"classes", "sheetNames"})
  BY <1>3 DEF Differs
<1>5. /\ Differs(b, [m EXCEPT !.rejected = v], {"classes", "rejected"})
      /\ [m EXCEPT !.rejected = v].classes = m.classes
  BY <1>3 DEF Differs
<1>6. /\ Differs(b, [m EXCEPT !.sheetNames = v], {"classes", "sheetNames"})
      /\ [m EXCEPT !.sheetNames = v].classes = m.classes
  BY <1>3 DEF Differs
<1> QED
  BY <1>2, <1>3, <1>4, <1>5, <1>6 DEF m

\* An XML stream tells something when its text can be parsed.
LEMMA XmlTold ==
  ASSUME Walking, BuilderKept, NEW gathered, TakeXml(gathered),
         ModernTold(gathered, ReadOf(builder, at) \cup {at}), Grounded(gathered),
         gathered.classes = builder.classes,
         ParseXml(Here.data.xml) = "ok" =>
           \A i :
             /\ NamesTold(gathered, i) = NamesTold(builder, i) \cup NamesIn(at, i)
             /\ i # NONE => PropertyNamesTold(gathered, i) = PropertyNamesTold(builder, i) \cup PropertyNamesIn(at, i),
         ParseXml(Here.data.xml) # "ok" => \A i : NamesIn(at, i) = {} /\ PropertyNamesIn(at, i) = {}
  PROVE  EntryTold(builder, builder')
<1> DEFINE class == IF ParseXml(Here.data.xml) = "ok" THEN "partially_interpreted" ELSE "malformed"
<1>1. /\ {"classes", "rejected", "sheetNames"} \subseteq DOMAIN builder
      /\ {"classes", "rejected", "sheetNames"} \subseteq DOMAIN gathered
  BY DEF BuilderKept, ModernTold
<1>2. CASE ParseXml(Here.data.xml) = "ok"
  <2>1. builder' = Mark(gathered, at, "partially_interpreted")
    BY <1>2 DEF TakeXml
  <2>2. /\ Differs(gathered, builder', {"classes", "sheetNames"})
        /\ builder'.classes = Mark(builder, at, "partially_interpreted").classes
    BY <1>1, <2>1, MarkDiffers
  <2>3. "partially_interpreted" \in ReadClasses
    BY DEF ReadClasses
  <2> QED
    BY <1>2, <2>2, <2>3, ReadTold
<1>3. CASE ParseXml(Here.data.xml) # "ok"
  <2>1. PICK v : builder' = [Mark(builder, at, "malformed") EXCEPT !.rejected = v]
    BY <1>3, Zenon DEF TakeXml
  <2>2. /\ Differs(builder, builder', {"classes", "rejected"})
        /\ builder'.classes = Mark(builder, at, "malformed").classes
    BY <1>1, <2>1, MarkDiffers
  <2> QED
    BY <1>3, <2>2, FailedTold
<1> QED
  BY <1>2, <1>3

\* The XML streams whose elements name configurations.
XmlStreams == {"features", "tree", "keywords"}

\* Their names are those of their elements.
LEMMA XmlNames ==
  ASSUME Walking, IsDecoded(at), Here.path \in XmlStreams
  PROVE  /\ \A i : NamesIn(at, i) = IF ParseXml(Here.data.xml) = "ok" THEN NodeNames(Here.data.configs, i) ELSE {}
         /\ \A i : PropertyNamesIn(at, i) = {}
         /\ IsList(Here.data.configs) /\ \A k \in DOMAIN Here.data.configs : IsNode(Here.data.configs[k])
<1>1. \A i : XmlClaims(at, i) = NodeNames(Here.data.configs, i)
  <2> TAKE i
  <2> DEFINE nodes == Here.data.configs
             pair(x) == [rank |-> x.rank, value |-> x.name]
  <2>1. \A x : x \in XmlClaims(at, i) <=> \E n \in ToSet(nodes) : n.index = i /\ n.name # NONE /\ x = pair(n)
    BY DEF XmlClaims, Here
  <2>2. \A x : x \in NodeNames(nodes, i) <=> \E k \in DOMAIN nodes : nodes[k].index = i /\ nodes[k].name # NONE /\ x = pair(nodes[k])
    BY DEF NodeNames
  <2>3. \A n : n \in ToSet(nodes) <=> \E k \in DOMAIN nodes : n = nodes[k]
    BY DEF ToSet
  <2> HIDE DEF nodes, pair
  <2>4. \A x : x \in XmlClaims(at, i) <=> x \in NodeNames(nodes, i)
    BY <2>1, <2>2, <2>3
  <2> QED
    BY <2>4 DEF nodes
<1>2. \A i : NamesIn(at, i) = IF ParseXml(Here.data.xml) = "ok" THEN NodeNames(Here.data.configs, i) ELSE {}
  BY <1>1 DEF NamesIn, Here, XmlStreams
<1>3. \A i : PropertyNamesIn(at, i) = {}
  BY DEF PropertyNamesIn, Here, XmlStreams
<1>4. IsList(Here.data.configs) /\ \A k \in DOMAIN Here.data.configs : IsNode(Here.data.configs[k])
  BY EntriesAre DEF Walking, IsStream, Here, XmlStreams
<1> QED
  BY <1>2, <1>3, <1>4

\* What the builder held is kept while the entry at hand is read.
LEMMA AtIsRead ==
  ASSUME BuilderKept
  PROVE  /\ ModernTold(builder, ReadOf(builder, at) \cup {at}) /\ at \in ReadOf(builder, at) \cup {at}
         /\ Grounded(builder)
  BY FromMore DEF BuilderKept

\* A feature model (decode_model_xml).
LEMMA FeaturesTold ==
  ASSUME Walking, BuilderKept, DecodeFeatures
  PROVE  EntryTold(builder, builder')
<1> DEFINE R == ReadOf(builder, at) \cup {at}
           b1 == CollectDocumentKind(builder)
           b2 == CollectXmlConfigurations(b1)
           b3 == CollectExternalFeatureReferences(b2)
<1>1. IsDecoded(at) /\ Here.path \in XmlStreams /\ TakeXml(b3) /\ IsList(Here.data.files)
  BY EntriesAre DEF DecodeFeatures, Taking, XmlStreams, Walking, IsStream, Here
<1>2. /\ IsList(Here.data.configs) /\ \A k \in DOMAIN Here.data.configs : IsNode(Here.data.configs[k])
      /\ \A i : NamesIn(at, i) = IF ParseXml(Here.data.xml) = "ok" THEN NodeNames(Here.data.configs, i) ELSE {}
      /\ \A i : PropertyNamesIn(at, i) = {}
  BY <1>1, XmlNames
<1>3. ModernTold(builder, R) /\ at \in R /\ Grounded(builder)
  BY AtIsRead
<1> HIDE DEF R
<1>4. /\ ModernTold(b1, R) /\ Grounded(b1) /\ b1.classes = builder.classes
      /\ \A i : NamesTold(b1, i) = NamesTold(builder, i) /\ PropertyNamesTold(b1, i) = PropertyNamesTold(builder, i)
  BY <1>3, KindTold, SameHeard
<1> HIDE DEF b1
<1>5. /\ ModernTold(b2, R) /\ Grounded(b2) /\ b2.classes = b1.classes
      /\ \A i : /\ NamesTold(b2, i) = NamesTold(b1, i) \cup NodeNames(Here.data.configs, i)
                /\ PropertyNamesTold(b2, i) = PropertyNamesTold(b1, i)
  BY <1>2, <1>3, <1>4, ElementsTold
<1> HIDE DEF b2
<1>6. /\ ModernTold(b3, R) /\ Grounded(b3) /\ b3.classes = b2.classes
      /\ \A i : NamesTold(b3, i) = NamesTold(b2, i) /\ PropertyNamesTold(b3, i) = PropertyNamesTold(b2, i)
  BY <1>1, <1>3, <1>5, ExternalTold
<1> HIDE DEF b3
<1> QED
  BY <1>1, <1>2, <1>4, <1>5, <1>6, XmlTold DEF R

\* A component tree (decode_model_xml).
LEMMA TreeTold ==
  ASSUME Walking, BuilderKept, DecodeTree
  PROVE  EntryTold(builder, builder')
<1> DEFINE R == ReadOf(builder, at) \cup {at}
           b1 == CollectDocumentKind(builder)
           b2 == CollectXmlConfigurations(b1)
           b3 == CollectComponents(b2)
<1>1. /\ IsDecoded(at) /\ Here.path \in XmlStreams /\ TakeXml(b3) /\ IsList(Here.data.models)
      /\ \A k \in DOMAIN Here.data.models : IsList(Here.data.models[k].references)
  BY EntriesAre DEF DecodeTree, Taking, XmlStreams, Walking, IsStream, Here
<1>2. /\ IsList(Here.data.configs) /\ \A k \in DOMAIN Here.data.configs : IsNode(Here.data.configs[k])
      /\ \A i : NamesIn(at, i) = IF ParseXml(Here.data.xml) = "ok" THEN NodeNames(Here.data.configs, i) ELSE {}
      /\ \A i : PropertyNamesIn(at, i) = {}
  BY <1>1, XmlNames
<1>3. ModernTold(builder, R) /\ at \in R /\ Grounded(builder)
  BY AtIsRead
<1> HIDE DEF R
<1>4. /\ ModernTold(b1, R) /\ Grounded(b1) /\ b1.classes = builder.classes
      /\ \A i : NamesTold(b1, i) = NamesTold(builder, i) /\ PropertyNamesTold(b1, i) = PropertyNamesTold(builder, i)
  BY <1>3, KindTold, SameHeard
<1> HIDE DEF b1
<1>5. /\ ModernTold(b2, R) /\ Grounded(b2) /\ b2.classes = b1.classes
      /\ \A i : /\ NamesTold(b2, i) = NamesTold(b1, i) \cup NodeNames(Here.data.configs, i)
                /\ PropertyNamesTold(b2, i) = PropertyNamesTold(b1, i)
  BY <1>2, <1>3, <1>4, ElementsTold
<1> HIDE DEF b2
<1>6. /\ ModernTold(b3, R) /\ Grounded(b3) /\ b3.classes = b2.classes
      /\ \A i : NamesTold(b3, i) = NamesTold(b2, i) /\ PropertyNamesTold(b3, i) = PropertyNamesTold(b2, i)
  BY <1>1, <1>3, <1>5, ComponentsTold
<1> HIDE DEF b3
<1> QED
  BY <1>1, <1>2, <1>4, <1>5, <1>6, XmlTold DEF R

\* Keywords and their sheets (decode_keywords_xml).
LEMMA KeywordsTold ==
  ASSUME Walking, BuilderKept, DecodeKeywords
  PROVE  EntryTold(builder, builder')
<1> DEFINE R == ReadOf(builder, at) \cup {at}
           c == CollectXmlConfigurations(builder)
           nodes == Here.data.sheets
           places == {k \in DOMAIN nodes : nodes[k].typed \/ nodes[k].views # <<>>}
           sheets == Picked(nodes, places)
           lists == [k \in DOMAIN sheets |-> sheets[k].views]
           views == FlattenSeq(lists)
           refs == [k \in DOMAIN views |-> Reference("drawing_view", views[k].document,
                                                     views[k].configuration, NONE)]
           all == c.references \o refs
           h == [c EXCEPT !.references = all]
<1>1. PICK u, v, w : TakeXml([c EXCEPT !.features = u, !.references = all, !.kinds = v, !.sheets = w])
  BY Zenon DEF DecodeKeywords
<1> DEFINE g == [c EXCEPT !.features = u, !.references = all, !.kinds = v, !.sheets = w]
<1>2. IsDecoded(at) /\ Here.path \in XmlStreams /\ IsList(nodes) /\ \A k \in DOMAIN nodes : IsList(nodes[k].views)
  BY EntriesAre DEF DecodeKeywords, Taking, XmlStreams, Walking, IsStream, Here
<1>3. /\ IsList(Here.data.configs) /\ \A k \in DOMAIN Here.data.configs : IsNode(Here.data.configs[k])
      /\ \A i : NamesIn(at, i) = IF ParseXml(Here.data.xml) = "ok" THEN NodeNames(Here.data.configs, i) ELSE {}
      /\ \A i : PropertyNamesIn(at, i) = {}
  BY <1>2, XmlNames
<1>4. ModernTold(builder, R) /\ at \in R /\ Grounded(builder)
  BY AtIsRead
<1>5. IsList(views)
  <2>1. IsList(sheets) /\ \A n \in DOMAIN sheets : \E k \in DOMAIN nodes : sheets[n] = nodes[k]
    <3>1. places \in SUBSET DOMAIN nodes
      OBVIOUS
    <3> HIDE DEF places, nodes
    <3>2. IsList(sheets) /\ \A n \in DOMAIN sheets : \E k \in places : sheets[n] = nodes[k]
      BY <1>2, <3>1, PickedFrom
    <3> QED
      BY <3>1, <3>2
  <2>2. lists = [k \in DOMAIN sheets |-> lists[k]] /\ \A k \in DOMAIN sheets : lists[k] = sheets[k].views
    OBVIOUS
  <2> HIDE DEF sheets, lists, nodes
  <2>3. IsList(lists) /\ DOMAIN lists = DOMAIN sheets
    BY <2>1, <2>2, MappedList
  <2>4. \A k \in DOMAIN lists : IsList(lists[k])
    BY <1>2, <2>1, <2>2, <2>3
  <2> QED
    BY <2>3, <2>4, FlattenIs
<1> HIDE DEF views, R
<1>6. From(refs, R) /\ \A k \in DOMAIN refs : refs[k].kind # "assembly_component" /\ refs[k].index = NONE
  <2>1. /\ refs = [k \in DOMAIN views |-> refs[k]]
        /\ \A k \in DOMAIN refs : refs[k].kind = "drawing_view" /\ refs[k].index = NONE /\ refs[k].entry = at
    BY DEF Reference
  <2> HIDE DEF refs
  <2>2. From(refs, R)
    BY <1>4, <1>5, <2>1, MappedList DEF From
  <2> QED
    BY <2>1, <2>2
<1> HIDE DEF refs
<1>7. /\ ModernTold(c, R) /\ Grounded(c) /\ c.classes = builder.classes
      /\ \A i : /\ NamesTold(c, i) = NamesTold(builder, i) \cup NodeNames(Here.data.configs, i)
                /\ PropertyNamesTold(c, i) = PropertyNamesTold(builder, i)
  BY <1>3, <1>4, ElementsTold
<1> HIDE DEF c
<1>8. all = c.references \o refs
  OBVIOUS
<1> HIDE DEF all
<1>9. Differs(c, h, {"references"}) /\ h.references = c.references \o refs
  BY <1>7, <1>8 DEF Differs, ModernTold
<1>10. Differs(h, g, {"features", "kinds", "sheets"})
  BY DEF Differs
<1> HIDE DEF h, g
<1>11. /\ ModernTold(h, R) /\ Grounded(h) /\ h.classes = c.classes
       /\ \A i : NamesTold(h, i) = NamesTold(c, i) /\ PropertyNamesTold(h, i) = PropertyNamesTold(c, i)
  BY <1>6, <1>7, <1>9, ReferencesTold
<1>12. {"features", "kinds", "sheets"} \cap Facts = {} /\ "classes" \notin {"features", "kinds", "sheets"}
  BY DEF Facts
<1>13. ModernTold(g, R) /\ SameFacts(h, g) /\ g.classes = h.classes
  BY <1>10, <1>11, <1>12, FieldsTold
<1>14. Grounded(g) /\ \A i : NamesTold(g, i) = NamesTold(h, i) /\ PropertyNamesTold(g, i) = PropertyNamesTold(h, i)
  BY <1>11, <1>13, SameHeard
<1>15. TakeXml(g)
  BY <1>1 DEF g
<1> QED
  BY <1>3, <1>7, <1>11, <1>13, <1>14, <1>15, XmlTold DEF R

\* The properties among some that name configuration i.
NamesAmong(props, i) ==
  {[rank |-> 2, value |-> props[k].value] :
     k \in {n \in DOMAIN props :
              /\ props[n].kind = "custom" /\ props[n].name = "Configuration"
              /\ props[n].state = "present" /\ props[n].index = i}}

\* Properties added for configurations of the builder, or for none.
LEMMA AddedTold ==
  ASSUME NEW R, NEW b, ModernTold(b, R), Grounded(b), NEW props, From(props, R),
         \A k \in DOMAIN props : IsProperty(props[k]) /\ props[k].index \in DOMAIN b.configs \cup {NONE},
         NEW g, Differs(b, g, {"properties"}), g.properties = b.properties \o props
  PROVE  /\ ModernTold(g, R) /\ Grounded(g) /\ g.classes = b.classes
         /\ \A i : /\ NamesTold(g, i) = NamesTold(b, i)
                   /\ PropertyNamesTold(g, i) = PropertyNamesTold(b, i) \cup NamesAmong(props, i)
<1> DEFINE s == b.properties
           u == g.properties
<1>1. /\ g.references = b.references /\ g.configs = b.configs /\ g.preview = b.preview
      /\ g.components = b.components /\ g.configPreviews = b.configPreviews
      /\ g.sheetPreviews = b.sheetPreviews /\ g.classes = b.classes /\ DOMAIN g = DOMAIN b
  BY DEF ModernTold, Differs
<1>2. /\ From(s, R) /\ IsList(s) /\ IsList(props) /\ u = s \o props
      /\ \A k \in DOMAIN s : IsProperty(s[k]) /\ s[k].index \in DOMAIN b.configs \cup {NONE}
  BY DEF ModernTold, From, Grounded
<1> HIDE DEF s, u
<1>3. From(u, R)
  BY <1>2, FromJoined
<1>4. /\ \A k \in DOMAIN s : k \in DOMAIN u /\ u[k] = s[k]
      /\ \A k \in DOMAIN props : Len(s) + k \in DOMAIN u /\ u[Len(s) + k] = props[k]
      /\ \A k \in DOMAIN u : \/ k \in DOMAIN s /\ u[k] = s[k]
                             \/ k - Len(s) \in DOMAIN props /\ u[k] = props[k - Len(s)]
  BY <1>2, ListsJoined, SMTT(30)
<1>5. \A k \in DOMAIN u : IsProperty(u[k]) /\ u[k].index \in DOMAIN b.configs \cup {NONE}
  BY <1>2, <1>4
<1>6. ModernTold(g, R)
  BY <1>1, <1>3, <1>5 DEF ModernTold, u
<1>7. \A i : References(g, i) = References(b, i)
  BY <1>1 DEF References
<1>8. Grounded(g)
  BY <1>1, <1>5, <1>7 DEF Grounded, u
<1>9. ASSUME NEW i
      PROVE  PropertyNamesTold(g, i) = PropertyNamesTold(b, i) \cup NamesAmong(props, i)
  <2> DEFINE named(p) == p.kind = "custom" /\ p.name = "Configuration" /\ p.state = "present" /\ p.index = i
             pair(p) == [rank |-> 2, value |-> p.value]
  <2>1. \A x : x \in PropertyNamesTold(g, i) <=> \E k \in DOMAIN u : named(u[k]) /\ x = pair(u[k])
    BY DEF PropertyNamesTold, Naming, u
  <2>2. \A x : x \in PropertyNamesTold(b, i) <=> \E k \in DOMAIN s : named(s[k]) /\ x = pair(s[k])
    BY DEF PropertyNamesTold, Naming, s
  <2>3. \A x : x \in NamesAmong(props, i) <=> \E k \in DOMAIN props : named(props[k]) /\ x = pair(props[k])
    BY DEF NamesAmong
  <2> HIDE DEF named, pair
  <2>4. \A x : x \in PropertyNamesTold(g, i) <=> x \in PropertyNamesTold(b, i) \/ x \in NamesAmong(props, i)
    BY <1>4, <2>1, <2>2, <2>3
  <2> QED
    BY <2>4
<1> QED
  BY <1>1, <1>6, <1>8, <1>9 DEF NamesTold

\* What a property stream adds is made one by one from its elements.
LEMMA PropertiesMade ==
  ASSUME NEW R, at \in R, NEW elements, IsList(elements), NEW props, DOMAIN props = DOMAIN elements,
         props = [k \in DOMAIN elements |-> props[k]], NEW kind, NEW index,
         \A k \in DOMAIN elements : \E name, of, value, state : props[k] = Property(name, of, value, state, kind, index)
  PROVE  /\ From(props, R)
         /\ \A k \in DOMAIN props : IsProperty(props[k]) /\ props[k].index = index /\ props[k].kind = kind
<1>1. \A k \in DOMAIN props : /\ IsProperty(props[k]) /\ props[k].entry = at
                              /\ props[k].index = index /\ props[k].kind = kind
  BY DEF Property, IsProperty
<1>2. IsList(props)
  BY MappedList
<1> QED
  BY <1>1, <1>2 DEF From

\* Properties of the document (decode_core_xml).
LEMMA CoreTold ==
  ASSUME Walking, BuilderKept, DecodeCoreXml
  PROVE  EntryTold(builder, builder')
<1> DEFINE R == ReadOf(builder, at) \cup {at}
           texts == Here.data.texts
           state(k) == IF texts[k].value = "" THEN "empty" ELSE "present"
           props == [k \in DOMAIN texts |->
                       Property(texts[k].name, NONE, texts[k].value, state(k), "core", NONE)]
           all == builder.properties \o props
           g == [builder EXCEPT !.properties = all]
<1>1. TakeXml(g) /\ IsDecoded(at) /\ Here.path = "core"
  BY Zenon DEF DecodeCoreXml, Taking
<1>2. IsList(texts)
  BY <1>1, EntriesAre DEF Walking, IsStream, Here
<1>3. ModernTold(builder, R) /\ at \in R /\ Grounded(builder)
  BY AtIsRead
<1>4. /\ DOMAIN props = DOMAIN texts /\ props = [k \in DOMAIN texts |-> props[k]]
      /\ \A k \in DOMAIN texts : \E name, of, value, st : props[k] = Property(name, of, value, st, "core", NONE)
  <2>1. \A k \in DOMAIN texts : props[k] = Property(texts[k].name, NONE, texts[k].value, state(k), "core", NONE)
    OBVIOUS
  <2> QED
    BY <2>1, Zenon
<1> HIDE DEF props, texts, R
<1>5. /\ From(props, R)
      /\ \A k \in DOMAIN props : IsProperty(props[k]) /\ props[k].index = NONE /\ props[k].kind = "core"
  BY <1>2, <1>3, <1>4, PropertiesMade
<1>6. all = builder.properties \o props
  OBVIOUS
<1> HIDE DEF all
<1>7. Differs(builder, g, {"properties"}) /\ g.properties = builder.properties \o props
  BY <1>3, <1>6 DEF Differs, ModernTold
<1> HIDE DEF g
<1>8. /\ ModernTold(g, R) /\ Grounded(g) /\ g.classes = builder.classes
      /\ \A i : /\ NamesTold(g, i) = NamesTold(builder, i)
                /\ PropertyNamesTold(g, i) = PropertyNamesTold(builder, i) \cup NamesAmong(props, i)
  BY <1>3, <1>5, <1>7, AddedTold
<1>9. \A i : NamesAmong(props, i) = {}
  BY <1>5 DEF NamesAmong
<1>10. \A i : NamesIn(at, i) = {} /\ PropertyNamesIn(at, i) = {}
  BY <1>1 DEF NamesIn, PropertyNamesIn, Here
<1> QED
  BY <1>1, <1>8, <1>9, <1>10, XmlTold DEF R

\* Custom properties; those of a configuration name it (decode_property_xml).
LEMMA PropertyXmlTold ==
  ASSUME Walking, BuilderKept, DecodePropertyXml
  PROVE  EntryTold(builder, builder')
<1> DEFINE R == ReadOf(builder, at) \cup {at}
           kind == PropertyKindOf(Here.path)
           index == IF Here.path = "config_properties" THEN Here.index ELSE NONE
           listed == Here.data.properties
           places == {k \in DOMAIN listed : kind = "custom" => listed[k].section = "user"}
           chosen == Picked(listed, places)
           props == [k \in DOMAIN chosen |->
                       Property(chosen[k].name, chosen[k].of, chosen[k].value, chosen[k].state, kind, index)]
           all == builder.properties \o props
           g == [builder EXCEPT !.properties = all]
<1>1. TakeXml(g) /\ IsDecoded(at) /\ Here.path \in PropertyStreams
  BY Zenon DEF DecodePropertyXml, Taking
<1>2. IsList(listed)
  BY <1>1, EntriesAre DEF Walking, IsStream, Here
<1>3. ModernTold(builder, R) /\ at \in R /\ Grounded(builder)
  BY AtIsRead
<1>4. /\ IsList(chosen) /\ \A n \in DOMAIN chosen : \E k \in places : chosen[n] = listed[k]
      /\ \A k \in places : \E n \in DOMAIN chosen : chosen[n] = listed[k]
  <2>1. places \in SUBSET DOMAIN listed
    OBVIOUS
  <2> HIDE DEF places, listed
  <2> QED
    BY <1>2, <2>1, PickedFrom
<1>5. \A k : k \in places <=> k \in DOMAIN listed /\ (kind = "custom" => listed[k].section = "user")
  OBVIOUS
<1> HIDE DEF chosen, places, R
<1>6. /\ DOMAIN props = DOMAIN chosen /\ props = [k \in DOMAIN chosen |-> props[k]]
      /\ \A k \in DOMAIN chosen :
           props[k] = Property(chosen[k].name, chosen[k].of, chosen[k].value, chosen[k].state, kind, index)
  OBVIOUS
<1> HIDE DEF props
<1>7. \A k \in DOMAIN chosen : /\ props[k].name = chosen[k].name /\ props[k].value = chosen[k].value
                               /\ props[k].state = chosen[k].state
  <2> HIDE DEF kind, index
  <2> QED
    BY <1>6 DEF Property
<1>8. /\ From(props, R)
      /\ \A k \in DOMAIN props : IsProperty(props[k]) /\ props[k].index = index /\ props[k].kind = kind
  <2> HIDE DEF kind, index
  <2>1. ASSUME NEW k \in DOMAIN chosen
        PROVE  \E name, of, value, state : props[k] = Property(name, of, value, state, kind, index)
    <3>1. props[k] = Property(chosen[k].name, chosen[k].of, chosen[k].value, chosen[k].state, kind, index)
      BY <1>6
    <3> QED
      BY <3>1, Zenon
  <2> QED
    BY <1>3, <1>4, <1>6, <2>1, PropertiesMade
<1>9. index \in DOMAIN builder.configs \cup {NONE}
  <2>1. CASE Here.path = "config_properties"
    <3>1. at \in ConfigPaths
      BY <2>1 DEF ConfigPaths, Streams, Here, Walking
    <3>2. index \in PathIndices
      BY <2>1, <3>1 DEF PathIndices, Here
    <3> QED
      BY <1>3, <3>2 DEF Grounded
  <2> QED
    BY <2>1
<1>10. all = builder.properties \o props
  OBVIOUS
<1> HIDE DEF all
<1>11. Differs(builder, g, {"properties"}) /\ g.properties = builder.properties \o props
  BY <1>3, <1>10 DEF Differs, ModernTold
<1> HIDE DEF g
<1>12. /\ ModernTold(g, R) /\ Grounded(g) /\ g.classes = builder.classes
       /\ \A i : /\ NamesTold(g, i) = NamesTold(builder, i)
                 /\ PropertyNamesTold(g, i) = PropertyNamesTold(builder, i) \cup NamesAmong(props, i)
  <2> HIDE DEF index, kind
  <2>1. \A k \in DOMAIN props : IsProperty(props[k]) /\ props[k].index \in DOMAIN builder.configs \cup {NONE}
    BY <1>8, <1>9
  <2> QED
    BY <1>3, <1>8, <1>11, <2>1, AddedTold
<1>13. \A i : NamesIn(at, i) = {}
  BY <1>1 DEF NamesIn, Here, PropertyStreams
<1>14. ASSUME NEW i, i # NONE
       PROVE  /\ ParseXml(Here.data.xml) = "ok" => NamesAmong(props, i) = PropertyNamesIn(at, i)
              /\ ParseXml(Here.data.xml) # "ok" => PropertyNamesIn(at, i) = {}
  <2>1. CASE Here.path = "config_properties" /\ Here.index = i
    <3>1. kind = "custom" /\ index = i
      BY <2>1 DEF PropertyKindOf
    <3>2. PropertyNamesIn(at, i) = IF ParseXml(Here.data.xml) = "ok" THEN PropertyClaims(at) ELSE {}
      BY <1>1, <2>1 DEF PropertyNamesIn, Here
    <3> DEFINE named(p) == p.name = "Configuration" /\ p.state = "present"
               pair(p) == [rank |-> 2, value |-> p.value]
    <3>3. \A x : x \in PropertyClaims(at)
                   <=> \E k \in DOMAIN listed : named(listed[k]) /\ listed[k].section = "user" /\ x = pair(listed[k])
      BY DEF PropertyClaims, ToSet, Here
    <3>4. \A x : x \in NamesAmong(props, i) <=> \E k \in DOMAIN props : named(props[k]) /\ x = pair(props[k])
      BY <1>8, <3>1 DEF NamesAmong
    <3>5. \A k \in DOMAIN chosen : (named(props[k]) <=> named(chosen[k])) /\ pair(props[k]) = pair(chosen[k])
      BY <1>7
    <3> HIDE DEF named, pair, listed, kind
    <3>6. \A x : x \in NamesAmong(props, i) <=> x \in PropertyClaims(at)
      BY <1>4, <1>5, <1>6, <3>1, <3>3, <3>4, <3>5
    <3> QED
      BY <3>2, <3>6
  <2>2. CASE ~(Here.path = "config_properties" /\ Here.index = i)
    <3>1. PropertyNamesIn(at, i) = {}
      BY <2>2 DEF PropertyNamesIn, Here
    <3>2. index # i
      BY <1>14, <2>2
    <3>3. NamesAmong(props, i) = {}
      BY <1>8, <3>2 DEF NamesAmong
    <3> QED
      BY <3>1, <3>3
  <2> QED
    BY <2>1, <2>2
<1>15. ParseXml(Here.data.xml) # "ok" => \A i : PropertyNamesIn(at, i) = {}
  BY DEF PropertyNamesIn, Here
<1> QED
  BY <1>1, <1>12, <1>13, <1>14, <1>15, XmlTold DEF R

\* One element is a list.
LEMMA OneIsList == \A x : IsList(<<x>>)
<1> TAKE x
<1>1. <<x>> = [k \in 1 .. 1 |-> x] /\ <<x>>[1] = x
  OBVIOUS
<1> DEFINE f == <<x>>
<1>2. f = [k \in 1 .. 1 |-> f[k]]
  BY <1>1
<1> HIDE DEF f
<1>3. IsList(f)
  BY <1>2, ListIs
<1> QED
  BY <1>3 DEF f

\* The records of a header name configurations (decode_configuration_manager_header).
LEMMA HeaderTold ==
  ASSUME Walking, BuilderKept, DecodeHeader
  PROVE  EntryTold(builder, builder')
<1> DEFINE R == ReadOf(builder, at) \cup {at}
           header == Here.data
           reading == HeaderReading(header)
           nodes == [k \in 1 .. header.count |-> RecordNode(header.records[k])]
           new == Claims(builder.configs, nodes)
           gathered == [builder EXCEPT !.configs = new]
           done == Mark(builder, at, "partially_interpreted")
           read == InternalVersion = ObservedVersion /\ reading = "ok"
<1>1. /\ IsDecoded(at) /\ Here.path = "header"
      /\ builder' = IF InternalVersion # ObservedVersion THEN Mark(builder, at, "uninterpreted")
                    ELSE IF reading # "ok" THEN Fail(builder, at, reading)
                    ELSE [done EXCEPT !.configs = Claims(@, nodes)]
  BY DEF DecodeHeader, Taking
<1>2. header.count \in Nat
  BY <1>1, EntriesAre DEF Walking, IsStream, Here
<1>3. ModernTold(builder, R) /\ at \in R /\ Grounded(builder)
      /\ {"classes", "rejected", "sheetNames", "configs"} \subseteq DOMAIN builder
  BY AtIsRead DEF ModernTold
<1>4. \A i : NamesIn(at, i) = IF read THEN HeaderClaims(at, i) ELSE {}
  BY <1>1 DEF NamesIn, Here
<1>5. \A i : PropertyNamesIn(at, i) = {}
  BY <1>1 DEF PropertyNamesIn, Here
<1>6. CASE read
  <2>1. IsList(nodes) /\ \A k \in DOMAIN nodes : IsNode(nodes[k])
    <3>1. nodes = [k \in 1 .. header.count |-> nodes[k]]
      OBVIOUS
    <3>2. \A r : IsNode(RecordNode(r))
      BY EmptyIsList, OneIsList DEF IsNode, RecordNode
    <3>3. \A k \in DOMAIN nodes : IsNode(nodes[k])
      BY <3>2
    <3> HIDE DEF nodes
    <3> QED
      BY <1>2, <3>1, <3>3, ListIs
  <2>2. \A i : HeaderClaims(at, i) = NodeNames(nodes, i)
    <3> TAKE i
    <3>1. /\ DOMAIN nodes = 1 .. header.count
          /\ \A k \in DOMAIN nodes : /\ nodes[k].index = header.records[k].index /\ nodes[k].rank = 0
                                     /\ nodes[k].name = header.records[k].name.text
      BY DEF RecordNode
    <3>2. HeaderClaims(at, i) = {[rank |-> 0, value |-> header.records[k].name.text] :
            k \in {n \in 1 .. header.count : header.records[n].index = i /\ header.records[n].name.text # NONE}}
      BY DEF HeaderClaims, Here
    <3> HIDE DEF nodes, header
    <3> QED
      BY <3>1, <3>2 DEF NodeNames
  <2>3. new = Claims(builder.configs, nodes)
    OBVIOUS
  <2>4. done.configs = builder.configs /\ done = [builder EXCEPT !.classes = done.classes]
    BY <1>3 DEF Mark
  <2>5. builder' = [done EXCEPT !.configs = new]
    BY <1>1, <1>6, <2>4
  <2> HIDE DEF new, nodes, done
  <2>6. Differs(builder, gathered, {"configs"}) /\ gathered.configs = new
    BY <1>3 DEF Differs
  <2>7. Differs(gathered, builder', {"classes", "sheetNames"}) /\ builder'.classes = done.classes
    BY <1>3, <2>4, <2>5 DEF Differs
  <2> HIDE DEF gathered, R
  <2>8. /\ ModernTold(gathered, R) /\ Grounded(gathered) /\ gathered.classes = builder.classes
        /\ \A i : /\ NamesTold(gathered, i) = NamesTold(builder, i) \cup NodeNames(nodes, i)
                  /\ PropertyNamesTold(gathered, i) = PropertyNamesTold(builder, i)
    BY <1>3, <2>1, <2>3, <2>6, NodesTold
  <2>9. \A i : NamesTold(gathered, i) = NamesTold(builder, i) \cup NamesIn(at, i)
               /\ PropertyNamesTold(gathered, i) = PropertyNamesTold(builder, i) \cup PropertyNamesIn(at, i)
    BY <1>4, <1>5, <1>6, <2>2, <2>8
  <2>10. "partially_interpreted" \in ReadClasses
    BY DEF ReadClasses
  <2> QED
    BY <2>7, <2>8, <2>9, <2>10, ReadTold DEF R, done
<1>7. CASE ~read
  <2>1. PICK class, v : builder' = Mark(builder, at, class) \/ builder' = [Mark(builder, at, class) EXCEPT !.rejected = v]
    BY <1>1, <1>7, Zenon DEF Fail
  <2>2. /\ Differs(builder, Mark(builder, at, class), {"classes", "rejected"})
        /\ Differs(builder, [Mark(builder, at, class) EXCEPT !.rejected = v], {"classes", "rejected"})
        /\ [Mark(builder, at, class) EXCEPT !.rejected = v].classes = Mark(builder, at, class).classes
    <3>1. {"classes", "rejected", "sheetNames"} \subseteq DOMAIN builder
      BY <1>3
    <3> QED
      BY <3>1, MarkDiffers
  <2>3. Differs(builder, builder', {"classes", "rejected"}) /\ builder'.classes = Mark(builder, at, class).classes
    BY <2>1, <2>2
  <2> QED
    BY <1>4, <1>5, <1>7, <2>3, FailedTold
<1> QED
  BY <1>6, <1>7

\* The names of sheets are no names of configurations.
LEMMA SheetNamesTold ==
  ASSUME Walking, BuilderKept, DecodeSheetNames
  PROVE  EntryTold(builder, builder')
<1>1. IsDecoded(at) /\ Here.path = "sheet_names"
  BY DEF DecodeSheetNames, Taking
<1>2. PICK class, v : \/ class \in ReadClasses /\ builder' = [Mark(builder, at, class) EXCEPT !.sheetNames = v]
                      \/ builder' = [Mark(builder, at, class) EXCEPT !.rejected = v]
  <2>1. {"fully_interpreted", "partially_interpreted"} = ReadClasses
    BY DEF ReadClasses
  <2>2. \E class, v : \/ class \in {"fully_interpreted", "partially_interpreted"}
                           /\ builder' = [Mark(builder, at, class) EXCEPT !.sheetNames = v]
                      \/ builder' = [Mark(builder, at, class) EXCEPT !.rejected = v]
    BY Zenon DEF DecodeSheetNames
  <2> QED
    BY <2>1, <2>2
<1>3. \A i : NamesIn(at, i) = {} /\ PropertyNamesIn(at, i) = {}
  BY <1>1 DEF NamesIn, PropertyNamesIn, Here
<1>4. /\ ModernTold(builder, ReadOf(builder, at) \cup {at}) /\ Grounded(builder)
      /\ {"classes", "rejected", "sheetNames"} \subseteq DOMAIN builder
  BY AtIsRead DEF ModernTold
<1>5. CASE class \in ReadClasses /\ builder' = [Mark(builder, at, class) EXCEPT !.sheetNames = v]
  <2>1. Differs(builder, builder', {"classes", "sheetNames"}) /\ builder'.classes = Mark(builder, at, class).classes
    BY <1>4, <1>5, MarkDiffers
  <2> QED
    BY <1>3, <1>4, <1>5, <2>1, ReadTold
<1>6. CASE builder' = [Mark(builder, at, class) EXCEPT !.rejected = v]
  <2>1. Differs(builder, builder', {"classes", "rejected"}) /\ builder'.classes = Mark(builder, at, class).classes
    BY <1>4, <1>6, MarkDiffers
  <2> QED
    BY <1>3, <2>1, FailedTold
<1> QED
  BY <1>2, <1>5, <1>6

\* The streams that hold an image.
ImageStreams == {"preview", "config_preview", "sheet_preview"}

\* An image is kept as read, or not kept.
LEMMA ImageTold ==
  ASSUME Walking, BuilderKept, IsDecoded(at), Here.path \in ImageStreams, NEW kept, TakeImage(kept),
         ModernTold(kept, ReadOf(builder, at) \cup {at}), Grounded(kept), kept.classes = builder.classes,
         \A i : NamesTold(kept, i) = NamesTold(builder, i) /\ PropertyNamesTold(kept, i) = PropertyNamesTold(builder, i)
  PROVE  EntryTold(builder, builder')
<1>1. \A i : NamesIn(at, i) = {} /\ PropertyNamesIn(at, i) = {}
  BY DEF NamesIn, PropertyNamesIn, Here, ImageStreams
<1>2. /\ {"classes", "rejected", "sheetNames"} \subseteq DOMAIN builder
      /\ {"classes", "rejected", "sheetNames"} \subseteq DOMAIN kept
  BY DEF BuilderKept, ModernTold
<1>3. PICK class, v : \/ class \in ReadClasses /\ builder' = Mark(kept, at, class)
                      \/ builder' = [Mark(builder, at, class) EXCEPT !.rejected = v]
  <2>1. ImageClass(Here.data.bytes) \in ReadClasses
    BY DEF ImageClass, ReadClasses
  <2> QED
    BY <2>1, Zenon DEF TakeImage
<1>4. CASE class \in ReadClasses /\ builder' = Mark(kept, at, class)
  <2>1. Differs(kept, builder', {"classes", "sheetNames"}) /\ builder'.classes = Mark(builder, at, class).classes
    BY <1>2, <1>4, MarkDiffers
  <2> QED
    BY <1>1, <1>4, <2>1, ReadTold
<1>5. CASE builder' = [Mark(builder, at, class) EXCEPT !.rejected = v]
  <2>1. Differs(builder, builder', {"classes", "rejected"}) /\ builder'.classes = Mark(builder, at, class).classes
    BY <1>2, <1>5, MarkDiffers
  <2> QED
    BY <1>1, <2>1, FailedTold
<1> QED
  BY <1>3, <1>4, <1>5

\* The three kinds of image.
LEMMA PreviewsTold ==
  ASSUME Walking, BuilderKept, DecodePreview \/ DecodeConfigPreview \/ DecodeSheetPreview
  PROVE  EntryTold(builder, builder')
<1> DEFINE R == ReadOf(builder, at) \cup {at}
           image == Image(Here.data.bytes)
<1>1. image.entry = at
  BY DEF Image, Resource
<1>2. ModernTold(builder, R) /\ at \in R /\ Grounded(builder)
  BY AtIsRead
<1> HIDE DEF image, R
<1>3. CASE DecodePreview
  <2> DEFINE new == IF builder.preview = NONE THEN image ELSE builder.preview
             kept == [builder EXCEPT !.preview = new]
  <2>1. IsDecoded(at) /\ Here.path \in ImageStreams /\ TakeImage(kept)
    BY <1>3, Zenon DEF DecodePreview, Taking, ImageStreams, image
  <2>2. new = NONE \/ new.entry \in R
    BY <1>1, <1>2 DEF ModernTold
  <2> HIDE DEF new
  <2>3. Differs(builder, kept, {"preview"}) /\ kept.preview = new
    BY <1>2 DEF Differs, ModernTold
  <2> HIDE DEF kept
  <2>4. /\ SameFacts(builder, kept) /\ kept.configPreviews = builder.configPreviews
        /\ kept.sheetPreviews = builder.sheetPreviews /\ kept.classes = builder.classes
        /\ DOMAIN kept = DOMAIN builder
    BY <1>2, <2>3 DEF Differs, ModernTold, SameFacts
  <2>5. ModernTold(kept, R)
    BY <1>2, <2>2, <2>3, <2>4 DEF ModernTold, SameFacts
  <2> QED
    BY <1>2, <2>1, <2>4, <2>5, SameHeard, ImageTold DEF R
<1>4. CASE DecodeSheetPreview
  <2> DEFINE new == Put(builder.sheetPreviews, Here.index, image)
             kept == [builder EXCEPT !.sheetPreviews = new]
  <2>1. IsDecoded(at) /\ Here.path \in ImageStreams /\ TakeImage(kept)
    BY <1>4, Zenon DEF DecodeSheetPreview, Taking, ImageStreams, image
  <2>2. \A i \in DOMAIN new : new[i].entry \in R
    BY <1>1, <1>2 DEF ModernTold, Put
  <2> HIDE DEF new
  <2>3. Differs(builder, kept, {"sheetPreviews"}) /\ kept.sheetPreviews = new
    BY <1>2 DEF Differs, ModernTold
  <2> HIDE DEF kept
  <2>4. /\ SameFacts(builder, kept) /\ kept.configPreviews = builder.configPreviews
        /\ kept.preview = builder.preview /\ kept.classes = builder.classes
        /\ DOMAIN kept = DOMAIN builder
    BY <1>2, <2>3 DEF Differs, ModernTold, SameFacts
  <2>5. ModernTold(kept, R)
    BY <1>2, <2>2, <2>3, <2>4 DEF ModernTold, SameFacts
  <2> QED
    BY <1>2, <2>1, <2>4, <2>5, SameHeard, ImageTold DEF R
<1>5. CASE DecodeConfigPreview
  <2> DEFINE old == builder.configs
             configs == EnsureConfigs(old, {Here.index})
             new == Put(builder.configPreviews, Here.index, image)
             h == [builder EXCEPT !.configs = configs]
             kept == [builder EXCEPT !.configs = configs, !.configPreviews = new]
  <2>1. IsDecoded(at) /\ Here.path \in ImageStreams /\ TakeImage(kept)
    BY <1>5, Zenon DEF DecodeConfigPreview, Taking, ImageStreams, image
  <2>2. \A i \in DOMAIN new : new[i].entry \in R
    BY <1>1, <1>2 DEF ModernTold, Put
  <2>3. /\ DOMAIN configs = DOMAIN old \cup {Here.index}
        /\ \A i \in DOMAIN configs : /\ CandidateTold(configs[i], R)
                                     /\ configs[i].names = IF i \in DOMAIN old THEN old[i].names ELSE <<>>
    <3>1. \A i \in DOMAIN old : CandidateTold(old[i], R)
      BY <1>2 DEF ModernTold
    <3> DEFINE indices == {Here.index}
    <3> HIDE DEF old, indices
    <3>2. DOMAIN EnsureConfigs(old, indices) = DOMAIN old \cup indices
      BY <3>1, ConfigsEnsured
    <3>3. \A i \in DOMAIN old \cup indices :
              /\ CandidateTold(EnsureConfigs(old, indices)[i], R)
              /\ EnsureConfigs(old, indices)[i].names
                   = IF i \in DOMAIN old THEN old[i].names ELSE <<>>
      BY <3>1, ConfigsEnsured
    <3> QED
      BY <3>2, <3>3 DEF indices
  <2> HIDE DEF new, configs
  <2>4. Differs(builder, h, {"configs"}) /\ h.configs = configs
    BY <1>2 DEF Differs, ModernTold
  <2>5. Differs(h, kept, {"configPreviews"}) /\ kept.configPreviews = new
    BY <1>2 DEF Differs, ModernTold
  <2> HIDE DEF h, kept
  <2>6. /\ ModernTold(h, R) /\ Grounded(h) /\ h.classes = builder.classes
        /\ \A i : PropertyNamesTold(h, i) = PropertyNamesTold(builder, i)
    BY <1>2, <2>3, <2>4, ConfigsTold
  <2>7. \A i : NamesTold(h, i) = NamesTold(builder, i)
    <3>1. RankedValues(<<>>) = {}
      BY EmptyIsList DEF RankedValues
    <3> QED
      BY <2>3, <2>4, <3>1 DEF NamesTold
  <2>8. /\ SameFacts(h, kept) /\ kept.sheetPreviews = h.sheetPreviews
        /\ kept.preview = h.preview /\ kept.classes = h.classes
        /\ DOMAIN kept = DOMAIN h
    BY <2>5, <2>6 DEF Differs, ModernTold, SameFacts
  <2>9. ModernTold(kept, R)
    BY <2>2, <2>5, <2>6, <2>8 DEF ModernTold, SameFacts
  <2> QED
    BY <2>1, <2>6, <2>7, <2>8, <2>9, SameHeard, ImageTold DEF R
<1> QED
  BY <1>3, <1>4, <1>5

\* A stream without a decoder.
LEMMA SkippedTold ==
  ASSUME Walking, BuilderKept, ModernSkip
  PROVE  EntryTold(builder, builder')
<1>1. builder' = builder /\ ~(IsDecoded(at) /\ Here.path \in ModernSelected)
  BY DEF ModernSkip
<1>2. \A i : NamesIn(at, i) = {} /\ PropertyNamesIn(at, i) = {}
  BY <1>1 DEF NamesIn, PropertyNamesIn, Here, ModernSelected, PropertyStreams
<1>3. at \in Nat \ {0} /\ Entries \subseteq Nat
  BY EntriesAre DEF Walking
<1>4. ReadOf(builder, at) \subseteq ReadOf(builder, at + 1)
  BY <1>3 DEF ReadOf
<1>5. ClassesKept(builder, at + 1)
  BY <1>3 DEF ClassesKept, BuilderKept
<1>6. ModernTold(builder, ReadOf(builder, at + 1))
  BY <1>4, FromMore DEF BuilderKept
<1> QED
  BY <1>1, <1>2, <1>5, <1>6 DEF EntryTold, BuilderKept

\* Half read is the worse of what a stream not read yet can become.
LEMMA PartlyIs ==
  ASSUME NEW old \in {"uninterpreted", "partially_interpreted"}
  PROVE  Worse(old, "partially_interpreted") = "partially_interpreted"
<1> DEFINE rank(class) == CHOOSE k \in DOMAIN SemanticClasses : SemanticClasses[k] = class
<1>1. /\ DOMAIN SemanticClasses = 1 .. 4
      /\ SemanticClasses[1] = "uninterpreted" /\ SemanticClasses[2] = "fully_interpreted"
      /\ SemanticClasses[3] = "partially_interpreted" /\ SemanticClasses[4] = "malformed"
  BY DEF SemanticClasses
<1>2. \A k \in 1 .. 4 : k = 1 \/ k = 2 \/ k = 3 \/ k = 4
  OBVIOUS
<1>3. rank("uninterpreted") = 1
  BY <1>1, <1>2
<1>4. rank("partially_interpreted") = 3
  BY <1>1, <1>2
<1>5. Worse(old, "partially_interpreted")
        = IF rank("partially_interpreted") > rank(old) THEN "partially_interpreted" ELSE old
  BY DEF Worse
<1> HIDE DEF rank
<1> QED
  BY <1>3, <1>4, <1>5

\* The builder before the walk has heard of nothing but configurations in paths.
LEMMA StartTold ==
  ASSUME IsFile(content), ModernStart
  PROVE  /\ at' = 1 /\ ModernTold(builder', ReadOf(builder', 1)) /\ Grounded(builder')
         /\ ClassesKept(builder', 1) /\ NamesHeard(builder', 1)
<1> DEFINE b1 == CollectEmbeddedDocuments(EmptyBuilder)
           b2 == CollectVersionCandidates(b1)
           g == CollectConfigPaths(b2)
           new == EnsureConfigs(<<>>, PathIndices)
           R == ReadOf(g, 1)
           classes == {"uninterpreted", "partially_interpreted"}
<1>1. PICK v, c : b1 = [EmptyBuilder EXCEPT !.embedded = v, !.classes = c]
                    /\ c = [e \in Entries |-> c[e]] /\ \A e \in Entries : c[e] \in classes
  <2> DEFINE embedded == SelectSeq([e \in Entries |-> e],
                                   LAMBDA e : IsDecoded(e) /\ content.entries[e].path = "embedded")
             found == ToSet(embedded)
             d == EmptyBuilder.classes
             c == [e \in Entries |-> IF e \in found THEN Worse(d[e], "partially_interpreted") ELSE d[e]]
  <2>1. \E v : b1 = [EmptyBuilder EXCEPT !.embedded = v, !.classes = c]
    BY Zenon DEF CollectEmbeddedDocuments
  <2>2. \A e \in Entries : d[e] = "uninterpreted"
    BY DEF EmptyBuilder
  <2> HIDE DEF found, d, embedded
  <2>3. \A e \in Entries : c[e] \in classes
    BY <2>2, PartlyIs
  <2>4. PICK v : b1 = [EmptyBuilder EXCEPT !.embedded = v, !.classes = c]
    BY <2>1
  <2>5. c = [e \in Entries |-> c[e]]
    OBVIOUS
  <2> HIDE DEF c, b1
  <2> QED
    BY <2>3, <2>4, <2>5
<1>2. PICK d : b2 = [b1 EXCEPT !.classes = d]
                 /\ d = [e \in Entries |-> d[e]] /\ \A e \in Entries : d[e] \in classes
  <2> DEFINE found == Streams({"version"})
             d == [e \in Entries |-> IF e \in found /\ IsDecoded(e)
                                     THEN Worse(b1.classes[e], "partially_interpreted") ELSE b1.classes[e]]
  <2>1. b2 = [b1 EXCEPT !.classes = d]
    BY Zenon DEF CollectVersionCandidates
  <2>2. b1.classes = c
    BY <1>1 DEF EmptyBuilder
  <2>3. \A e \in Entries : d[e] \in classes
    BY <1>1, <2>2, PartlyIs
  <2> QED
    BY <2>1, <2>3
<1> HIDE DEF b1
<1>3. g = [b2 EXCEPT !.configs = EnsureConfigs(b2.configs, PathIndices)]
  BY DEF CollectConfigPaths, PathIndices
<1> HIDE DEF b2
<1>4. /\ b2.configs = <<>> /\ b2.properties = <<>> /\ b2.components = <<>> /\ b2.references = <<>>
      /\ b2.preview = NONE /\ b2.configPreviews = <<>> /\ b2.sheetPreviews = <<>> /\ b2.classes = d
      /\ DOMAIN b2 = DOMAIN EmptyBuilder
  BY <1>1, <1>2 DEF EmptyBuilder
<1>5. /\ g.configs = new /\ g.properties = <<>> /\ g.components = <<>> /\ g.references = <<>>
      /\ g.preview = NONE /\ g.configPreviews = <<>> /\ g.sheetPreviews = <<>> /\ g.classes = d
      /\ DOMAIN g = DOMAIN EmptyBuilder
  <2> HIDE DEF new
  <2>1. g = [b2 EXCEPT !.configs = new]
    BY <1>3, <1>4 DEF new
  <2> HIDE DEF g
  <2> QED
    BY <1>4, <2>1 DEF EmptyBuilder
<1> HIDE DEF g
<1>6. DOMAIN new = PathIndices /\ \A i \in DOMAIN new : CandidateTold(new[i], R) /\ new[i].names = <<>>
  <2> DEFINE none == <<>>
  <2>1. DOMAIN none = {}
    BY EmptyIsList
  <2> HIDE DEF none
  <2>2. DOMAIN EnsureConfigs(none, PathIndices) = DOMAIN none \cup PathIndices
    BY <2>1, ConfigsEnsured
  <2>3. \A i \in DOMAIN none \cup PathIndices :
              /\ CandidateTold(EnsureConfigs(none, PathIndices)[i], R)
              /\ EnsureConfigs(none, PathIndices)[i].names
                   = IF i \in DOMAIN none THEN none[i].names ELSE <<>>
    BY <2>1, ConfigsEnsured
  <2> QED
    BY <2>1, <2>2, <2>3 DEF none
<1> HIDE DEF new
<1>7. ModernTold(g, R)
  BY <1>5, <1>6, NothingFrom, EmptyIsList DEF ModernTold, EmptyBuilder
<1>8. \A i : References(g, i) = {} /\ ListAt(g.components, i) = <<>>
  BY <1>5, EmptyIsList DEF References, ListAt
<1>9. Grounded(g)
  BY <1>5, <1>6, <1>8, EmptyIsList, FS_EmptySet DEF Grounded
<1>10. ClassesKept(g, 1)
  BY <1>2, <1>5 DEF ClassesKept
<1>11. NamesHeard(g, 1)
  <2>1. RankedValues(<<>>) = {} /\ 1 .. 1 - 1 = {}
    BY EmptyIsList DEF RankedValues
  <2>2. \A i : NamesTold(g, i) = {}
    BY <1>5, <1>6, <2>1 DEF NamesTold
  <2>3. \A i : PropertyNamesTold(g, i) = {}
    BY <1>5, EmptyIsList DEF PropertyNamesTold, Naming
  <2> QED
    BY <2>1, <2>2, <2>3 DEF NamesHeard
<1>12. at' = 1 /\ builder' = g
  BY DEF ModernStart, g, b2, b1
<1> QED
  BY <1>7, <1>9, <1>10, <1>11, <1>12

\* A union over one more entry.
LEMMA UnionNext ==
  ASSUME NEW n \in Nat \ {0}, NEW f
  PROVE  UNION {f[e] : e \in 1 .. n + 1 - 1} = (UNION {f[e] : e \in 1 .. n - 1}) \cup f[n]
<1>1. \A e : e \in 1 .. n + 1 - 1 <=> e \in 1 .. n - 1 \/ e = n
  OBVIOUS
<1> DEFINE A == 1 .. n + 1 - 1
           B == 1 .. n - 1
<1> HIDE DEF A, B
<1>2. \A e : e \in A <=> e \in B \/ e = n
  BY <1>1 DEF A, B
<1>3. UNION {f[e] : e \in A} = (UNION {f[e] : e \in B}) \cup f[n]
  <2>1. \A C, x : x \in UNION {f[e] : e \in C} <=> \E e \in C : x \in f[e]
    <3> TAKE C, x
    <3>1. ASSUME x \in UNION {f[e] : e \in C}
          PROVE  \E e \in C : x \in f[e]
      BY <3>1, Zenon
    <3>2. ASSUME NEW e \in C, x \in f[e]
          PROVE  x \in UNION {f[d] : d \in C}
      BY <3>2, Zenon
    <3> QED
      BY <3>1, <3>2, Zenon
  <2>2. \A x : x \in UNION {f[e] : e \in A} <=> x \in UNION {f[e] : e \in B} \/ x \in f[n]
    BY <1>2, <2>1
  <2> DEFINE U == UNION {f[e] : e \in A}
             V == UNION {f[e] : e \in B}
  <2> HIDE DEF U, V
  <2>3. \A x : x \in U <=> x \in V \/ x \in f[n]
    BY <2>2 DEF U, V
  <2>4. U = V \cup f[n]
    BY <2>3
  <2> QED
    BY <2>4, Zenon DEF U, V
<1> QED
  BY <1>3 DEF A, B

\* After the entry, one more entry was heard.
LEMMA HeardNext ==
  ASSUME NEW b, NEW g, at \in Nat \ {0}, NamesHeard(b, at), EntryTold(b, g)
  PROVE  NamesHeard(g, at + 1)
<1> SUFFICES ASSUME NEW i
             PROVE  /\ NamesTold(g, i) = UNION {NamesIn(e, i) : e \in 1 .. at + 1 - 1}
                    /\ i # NONE => PropertyNamesTold(g, i) = UNION {PropertyNamesIn(e, i) : e \in 1 .. at + 1 - 1}
  BY DEF NamesHeard
<1>1. /\ NamesTold(b, i) = UNION {NamesIn(e, i) : e \in 1 .. at - 1}
      /\ i # NONE => PropertyNamesTold(b, i) = UNION {PropertyNamesIn(e, i) : e \in 1 .. at - 1}
  BY DEF NamesHeard
<1>2. /\ NamesTold(g, i) = NamesTold(b, i) \cup NamesIn(at, i)
      /\ i # NONE => PropertyNamesTold(g, i) = PropertyNamesTold(b, i) \cup PropertyNamesIn(at, i)
  BY DEF EntryTold
<1> DEFINE said == [e \in 1 .. at |-> NamesIn(e, i)]
           meant == [e \in 1 .. at |-> PropertyNamesIn(e, i)]
<1>3. /\ \A e \in 1 .. at + 1 - 1 : said[e] = NamesIn(e, i) /\ meant[e] = PropertyNamesIn(e, i)
      /\ \A e \in 1 .. at - 1 : said[e] = NamesIn(e, i) /\ meant[e] = PropertyNamesIn(e, i)
      /\ said[at] = NamesIn(at, i) /\ meant[at] = PropertyNamesIn(at, i)
  OBVIOUS
<1> HIDE DEF said, meant
<1>4. /\ {NamesIn(e, i) : e \in 1 .. at + 1 - 1} = {said[e] : e \in 1 .. at + 1 - 1}
      /\ {NamesIn(e, i) : e \in 1 .. at - 1} = {said[e] : e \in 1 .. at - 1}
      /\ {PropertyNamesIn(e, i) : e \in 1 .. at + 1 - 1} = {meant[e] : e \in 1 .. at + 1 - 1}
      /\ {PropertyNamesIn(e, i) : e \in 1 .. at - 1} = {meant[e] : e \in 1 .. at - 1}
  BY <1>3
<1>5. /\ UNION {said[e] : e \in 1 .. at + 1 - 1} = (UNION {said[e] : e \in 1 .. at - 1}) \cup said[at]
      /\ UNION {meant[e] : e \in 1 .. at + 1 - 1} = (UNION {meant[e] : e \in 1 .. at - 1}) \cup meant[at]
  BY UnionNext, Zenon
<1>6. NamesTold(g, i) = UNION {NamesIn(e, i) : e \in 1 .. at + 1 - 1}
  <2>1. /\ NamesTold(b, i) = UNION {said[e] : e \in 1 .. at - 1}
        /\ NamesTold(g, i) = NamesTold(b, i) \cup said[at]
    BY <1>1, <1>2, <1>3, <1>4
  <2>2. NamesTold(g, i) = UNION {said[e] : e \in 1 .. at + 1 - 1}
    BY <1>5, <2>1
  <2> QED
    BY <1>4, <2>2
<1>7. ASSUME i # NONE
      PROVE  PropertyNamesTold(g, i) = UNION {PropertyNamesIn(e, i) : e \in 1 .. at + 1 - 1}
  <2>1. /\ PropertyNamesTold(b, i) = UNION {meant[e] : e \in 1 .. at - 1}
        /\ PropertyNamesTold(g, i) = PropertyNamesTold(b, i) \cup meant[at]
    BY <1>1, <1>2, <1>3, <1>4, <1>7
  <2>2. PropertyNamesTold(g, i) = UNION {meant[e] : e \in 1 .. at + 1 - 1}
    BY <1>5, <2>1
  <2> QED
    BY <1>4, <2>2
<1> QED
  BY <1>6, <1>7

\* While the content stays, what is known of the next builder is the invariant again.
LEMMA ToldAgain ==
  ASSUME content' = content, content.envelope = "modern",
         at' # 0 => /\ ModernTold(builder', ReadOf(builder', at')) /\ Grounded(builder')
                    /\ ClassesKept(builder', at') /\ NamesHeard(builder', at')
  PROVE  BuilderTold'
<1>1. Entries' = Entries /\ PathIndices' = PathIndices
  BY DEF Entries, PathIndices, ConfigPaths, Streams
<1>2. \A e, i : NamesIn(e, i)' = NamesIn(e, i) /\ PropertyNamesIn(e, i)' = PropertyNamesIn(e, i)
  BY DEF NamesIn, PropertyNamesIn, IsDecoded, XmlClaims, HeaderClaims, PropertyClaims, InternalVersion,
         Versions, Streams, Entries
<1>3. at' # 0 => /\ Grounded(builder)' /\ ClassesKept(builder, at)' /\ NamesHeard(builder, at)'
                 /\ ModernTold(builder, ReadOf(builder, at))'
  BY <1>1, <1>2 DEF Grounded, ClassesKept, NamesHeard
<1> QED
  BY <1>3 DEF BuilderTold

\* Every step of a modern document.
LEMMA ModernTells ==
  ASSUME IsFile(content), BuilderTold, at \in Nat, content' = content, ModernStep
  PROVE  BuilderTold'
<1>1. content.envelope = "modern"
  BY DEF ModernStep
<1>2. CASE ModernStart
  BY <1>1, <1>2, StartTold, ToldAgain
<1>3. CASE ModernFinish
  <2>1. at' = at /\ builder' = builder
    BY <1>3 DEF ModernFinish
  <2> QED
    BY <1>1, <2>1, ToldAgain DEF BuilderTold
<1>4. CASE \/ DecodePropertyXml \/ DecodeCoreXml \/ DecodeFeatures \/ DecodeTree \/ DecodeKeywords
           \/ DecodeHeader \/ DecodeSheetNames
           \/ DecodePreview \/ DecodeConfigPreview \/ DecodeSheetPreview \/ ModernSkip
  <2>1. Walking /\ at \in Nat \ {0} /\ at' = at + 1
    <3>1. at \in Entries /\ at' = at + 1
      BY <1>4 DEF DecodePropertyXml, DecodeCoreXml, DecodeFeatures, DecodeTree, DecodeKeywords, DecodeHeader,
                  DecodeSheetNames, DecodePreview, DecodeConfigPreview, DecodeSheetPreview, ModernSkip,
                  Taking, Advance
    <3> QED
      BY <3>1, EntriesAre DEF Walking
  <2>2. BuilderKept /\ NamesHeard(builder, at)
    BY <1>1, <2>1 DEF BuilderTold, BuilderKept
  <2>3. EntryTold(builder, builder')
    BY <1>4, <2>1, <2>2, PropertyXmlTold, CoreTold, FeaturesTold, TreeTold, KeywordsTold, HeaderTold,
       SheetNamesTold, PreviewsTold, SkippedTold
  <2>4. NamesHeard(builder', at + 1)
    BY <2>1, <2>2, <2>3, HeardNext
  <2> QED
    BY <1>1, <2>1, <2>3, <2>4, ToldAgain DEF EntryTold
<1> QED
  BY <1>2, <1>3, <1>4 DEF ModernStep
-----------------------------------------------------------------------------
(***************************************************************************)
(* What a legacy stream adds to the builder.                               *)
(***************************************************************************)
LegacyKept == LegacyTold(builder, ReadOf(builder, at)) /\ ClassesKept(builder, at)

\* What it keeps after the entry at hand.
LegacyEntryTold(g) == LegacyTold(g, ReadOf(g, at + 1)) /\ ClassesKept(g, at + 1)

\* Facts that come from R come from every larger set of entries.
LEMMA LegacyMore ==
  ASSUME NEW R, NEW T, R \subseteq T, NEW b, LegacyTold(b, R)
  PROVE  LegacyTold(b, T)
  BY FromMore DEF LegacyTold

\* An entry that tells nothing, whatever its class.
LEMMA LegacyMarked ==
  ASSUME Walking, LegacyKept, NEW class, NEW v
  PROVE  /\ LegacyEntryTold(Mark(builder, at, class))
         /\ LegacyEntryTold([Mark(builder, at, class) EXCEPT !.rejected = v])
<1> DEFINE c == [builder.classes EXCEPT ![at] = Worse(@, class)]
           m == Mark(builder, at, class)
           f == [m EXCEPT !.rejected = v]
<1>1. m = [builder EXCEPT !.classes = c]
  BY DEF Mark
<1>2. "classes" \in DOMAIN builder /\ "rejected" \in DOMAIN builder
  BY DEF LegacyKept, LegacyTold
<1> HIDE DEF m, c
<1>3. f.classes = m.classes
  BY <1>1, <1>2
<1>4. /\ ClassesKept(m, at + 1) /\ ReadOf(builder, at) \subseteq ReadOf(m, at + 1)
      /\ ClassesKept(f, at + 1) /\ ReadOf(builder, at) \subseteq ReadOf(f, at + 1)
  BY <1>2, <1>3, MarkedRead DEF LegacyKept, Walking, m
<1>5. LegacyTold(builder, ReadOf(m, at + 1)) /\ LegacyTold(builder, ReadOf(f, at + 1))
  BY <1>4, LegacyMore DEF LegacyKept
<1>6. LegacyTold(m, ReadOf(m, at + 1))
  BY <1>1, <1>5 DEF LegacyTold
<1>7. LegacyTold(f, ReadOf(f, at + 1))
  BY <1>1, <1>5 DEF LegacyTold
<1> QED
  BY <1>4, <1>6, <1>7 DEF LegacyEntryTold, m

\* An entry that could not be read.
LEMMA LegacyFailed ==
  ASSUME Walking, LegacyKept, NEW reading
  PROVE  LegacyEntryTold(Fail(builder, at, reading))
<1>1. PICK class, v : Fail(builder, at, reading) = [Mark(builder, at, class) EXCEPT !.rejected = v]
  BY Zenon DEF Fail
<1>2. LegacyEntryTold([Mark(builder, at, class) EXCEPT !.rejected = v])
  BY LegacyMarked
<1> QED
  BY <1>1, <1>2, Zenon

\* An entry that was read.
LEMMA LegacyRead ==
  ASSUME Walking, LegacyKept, NEW class \in ReadClasses
  PROVE  /\ Mark(builder, at, class) = [builder EXCEPT !.classes = Mark(builder, at, class).classes]
         /\ \A g : g.classes = Mark(builder, at, class).classes =>
              /\ ClassesKept(g, at + 1) /\ ReadOf(g, at + 1) = ReadOf(builder, at) \cup {at}
         /\ LegacyTold(builder, ReadOf(builder, at) \cup {at})
<1>1. "classes" \in DOMAIN builder
  BY DEF LegacyKept, LegacyTold
<1>2. Mark(builder, at, class) = [builder EXCEPT !.classes = Mark(builder, at, class).classes]
  BY <1>1 DEF Mark
<1>3. ASSUME NEW g, g.classes = Mark(builder, at, class).classes
      PROVE  ClassesKept(g, at + 1) /\ ReadOf(g, at + 1) = ReadOf(builder, at) \cup {at}
  BY <1>1, <1>3, MarkedRead DEF LegacyKept, Walking
<1>4. LegacyTold(builder, ReadOf(builder, at) \cup {at})
  BY LegacyMore DEF LegacyKept
<1> QED
  BY <1>2, <1>3, <1>4

\* The properties of a section are made one by one from its stored ones.
LEMMA SectionTold ==
  ASSUME NEW R, at \in R, NEW section, IsList(section.properties), NEW default
  PROVE  From(LegacyProperties(section, default), R)
<1> DEFINE ordered == InOrder(section)
           places == {k \in DOMAIN ordered : ordered[k].id # 0}
           values == Picked(ordered, places)
           f == LegacyProperties(section, default)
<1>1. Len(section.properties) \in Nat
  BY ListFacts
<1>2. IsList(ordered)
  <2>1. ordered = [n \in DOMAIN section.properties |-> ordered[n]]
    BY SMT DEF InOrder
  <2> HIDE DEF ordered
  <2> QED
    BY <2>1, MappedList
<1> HIDE DEF ordered
<1>3. IsList(values)
  <2>1. places \in SUBSET DOMAIN ordered
    OBVIOUS
  <2> HIDE DEF places
  <2> QED
    BY <1>2, <2>1, PickedFrom
<1>4. f = [k \in DOMAIN values |-> LegacyProperty(section, values[k], default)]
  BY Zenon DEF LegacyProperties, ordered
<1> HIDE DEF values, f
<1>5. \A p : LegacyProperty(section, p, default).entry = at
  BY Zenon DEF LegacyProperty
<1>6. f = [k \in DOMAIN values |-> f[k]] /\ \A k \in DOMAIN f : f[k].entry = at
  BY <1>4, <1>5
<1>7. IsList(f)
  BY <1>3, <1>6, MappedList
<1> QED
  BY <1>6, <1>7 DEF From, f

\* Property sets (decode_property_stream).
LEMMA PropertySetTold ==
  ASSUME Walking, LegacyKept, DecodePropertySet
  PROVE  LegacyEntryTold(builder')
<1> DEFINE data == Here.data
           R == ReadOf(builder, at) \cup {at}
           lists == [k \in DOMAIN data.sections |-> LegacyProperties(data.sections[k], DefaultKind(Here.path))]
           found == FlattenSeq(lists)
           class == IF SetIsFull(data) THEN "fully_interpreted" ELSE "partially_interpreted"
           m == Mark(builder, at, class)
           all == m.properties \o found
           reading == PropertySetReading(data)
<1>1. /\ IsDecoded(at) /\ Here.path \in PropertySetStreams
      /\ builder' = IF reading # "ok" THEN Fail(builder, at, reading) ELSE [m EXCEPT !.properties = all]
  BY Zenon DEF DecodePropertySet, Taking
<1>2. IsList(data.sections) /\ \A k \in DOMAIN data.sections : IsList(data.sections[k].properties)
  BY <1>1, EntriesAre DEF Walking, IsStream, Here
<1>3. CASE reading # "ok"
  BY <1>1, <1>3, LegacyFailed
<1>4. CASE reading = "ok"
  <2>1. class \in ReadClasses
    BY DEF ReadClasses
  <2>2. /\ \A k \in DOMAIN lists : From(lists[k], R)
        /\ lists = [k \in DOMAIN data.sections |-> lists[k]] /\ DOMAIN lists = DOMAIN data.sections
    BY <1>2, SectionTold
  <2> HIDE DEF lists, class, data, R
  <2>3. IsList(lists)
    BY <1>2, <2>2, MappedList
  <2>4. From(found, R)
    <3>1. \A k \in DOMAIN lists : IsList(lists[k])
      BY <2>2 DEF From
    <3>2. IsList(found) /\ \E row, place : Flattens(row, place, found, lists, Len(lists))
      BY <2>3, <3>1, FlattenIs
    <3>3. DOMAIN lists = 1 .. Len(lists)
      BY <2>3, ListFacts
    <3> HIDE DEF found
    <3>4. \A n \in DOMAIN found : \E k \in DOMAIN lists : \E p \in DOMAIN lists[k] : found[n] = lists[k][p]
      BY <3>2, <3>3 DEF Flattens
    <3> QED
      BY <2>2, <3>2, <3>4 DEF From
  <2>5. /\ m = [builder EXCEPT !.classes = m.classes]
        /\ \A g : g.classes = m.classes => ClassesKept(g, at + 1) /\ ReadOf(g, at + 1) = R
        /\ LegacyTold(builder, R)
    BY <2>1, LegacyRead DEF R
  <2> HIDE DEF m, found
  <2>6. builder' = [m EXCEPT !.properties = all]
    BY <1>1, <1>4
  <2>7. m.properties = builder.properties /\ From(builder.properties, R)
    BY <2>5 DEF LegacyTold
  <2>8. From(all, R)
    BY <2>4, <2>7, FromJoined
  <2> HIDE DEF all
  <2>9. builder'.classes = m.classes /\ LegacyTold(builder', R)
    BY <2>5, <2>6, <2>8 DEF LegacyTold
  <2> QED
    BY <2>5, <2>9 DEF LegacyEntryTold
<1> QED
  BY <1>3, <1>4

\* The header of configurations (decode_configuration_header).
LEMMA LegacyHeaderTold ==
  ASSUME Walking, LegacyKept, DecodeLegacyHeader
  PROVE  LegacyEntryTold(builder')
<1> DEFINE R == ReadOf(builder, at) \cup {at}
           reading == LegacyHeaderReading(Here.data)
           record == Here.data.records[1]
           parent == IF record.parent = NONE THEN NONE ELSE SourceValue(record.parent, "source", at)
           m == Mark(builder, at, "partially_interpreted")
           ensured == EnsureLegacyConfigs(builder.configs, {record.index})
           named == SourceValue(record.name.text, "source", at)
           new == [ensured EXCEPT ![record.index] =
                     [name |-> named, parentIndex |-> IF parent = NONE THEN @.parentIndex ELSE parent]]
<1>1. \/ builder' = Mark(builder, at, "uninterpreted")
      \/ builder' = Fail(builder, at, reading)
      \/ builder' = [m EXCEPT !.configs = new]
  <2> HIDE DEF ensured
  <2> QED
    BY Zenon DEF DecodeLegacyHeader, ensured
<1>2. CASE builder' = Mark(builder, at, "uninterpreted") \/ builder' = Fail(builder, at, reading)
  BY <1>2, LegacyMarked, LegacyFailed
<1>3. CASE builder' = [m EXCEPT !.configs = new]
  <2>1. "partially_interpreted" \in ReadClasses
    BY DEF ReadClasses
  <2>2. /\ m = [builder EXCEPT !.classes = m.classes]
        /\ \A g : g.classes = m.classes => ClassesKept(g, at + 1) /\ ReadOf(g, at + 1) = R
        /\ LegacyTold(builder, R)
    BY <2>1, LegacyRead
  <2>3. at \in R /\ named.entry = at /\ (parent = NONE \/ parent.entry = at)
    BY DEF SourceValue
  <2> HIDE DEF m, R, named, parent
  <2> DEFINE told(c) == /\ c = [name |-> c.name, parentIndex |-> c.parentIndex]
                        /\ c.name = NONE \/ c.name.entry \in R
                        /\ c.parentIndex = NONE \/ c.parentIndex.entry \in R
  <2>5. \A i \in DOMAIN builder.configs : told(builder.configs[i])
    BY <2>2 DEF LegacyTold
  <2>6. \A i \in DOMAIN ensured : told(ensured[i])
    <3>1. told(LegacyCandidate)
      BY DEF LegacyCandidate
    <3> HIDE DEF told
    <3> QED
      BY <2>5, <3>1 DEF EnsureLegacyConfigs
  <2>7. record.index \in DOMAIN ensured
    BY DEF EnsureLegacyConfigs
  <2> HIDE DEF ensured
  <2>8. \A i \in DOMAIN new : told(new[i])
    <3> DEFINE i0 == record.index
               id == IF parent = NONE THEN ensured[i0].parentIndex ELSE parent
    <3>1. new = [ensured EXCEPT ![i0] = [name |-> named, parentIndex |-> id]]
      OBVIOUS
    <3>2. id = NONE \/ id.entry \in R
      BY <2>3, <2>6, <2>7
    <3> HIDE DEF id, i0, new
    <3>3. told([name |-> named, parentIndex |-> id])
      BY <2>3, <3>2
    <3> HIDE DEF told
    <3> QED
      BY <2>6, <3>1, <3>3
  <2> HIDE DEF new
  <2>9. builder'.classes = m.classes /\ LegacyTold(builder', R)
    BY <1>3, <2>2, <2>8 DEF LegacyTold
  <2> QED
    BY <2>2, <2>9 DEF LegacyEntryTold
<1> QED
  BY <1>1, <1>2, <1>3

\* The preview and those of configurations.
LEMMA LegacyPreviewTold ==
  ASSUME Walking, LegacyKept, DecodeLegacyPreview
  PROVE  LegacyEntryTold(builder')
<1> DEFINE R == ReadOf(builder, at) \cup {at}
           reading == PreviewReading(Here.data)
           image == PreviewOf(Here.data)
           m == Mark(builder, at, "partially_interpreted")
           one == Preferred(m.preview, image)
           more == Put(m.configPreviews, Here.index, Preferred(Get(m.configPreviews, Here.index), image))
<1>1. \/ builder' = Fail(builder, at, reading)
      \/ builder' = [m EXCEPT !.preview = one]
      \/ builder' = [m EXCEPT !.configPreviews = more]
  BY Zenon DEF DecodeLegacyPreview
<1>2. "partially_interpreted" \in ReadClasses
  BY DEF ReadClasses
<1>3. /\ m = [builder EXCEPT !.classes = m.classes]
      /\ \A g : g.classes = m.classes => ClassesKept(g, at + 1) /\ ReadOf(g, at + 1) = R
      /\ LegacyTold(builder, R)
  BY <1>2, LegacyRead
<1>4. at \in R /\ image.entry = at
  BY DEF PreviewOf, Resource
<1> HIDE DEF m, R, image
<1>5. m.preview = builder.preview /\ m.configPreviews = builder.configPreviews
  BY <1>3 DEF LegacyTold
<1>6. one = NONE \/ one.entry \in R
  BY <1>3, <1>4, <1>5 DEF Preferred, LegacyTold
<1>7. \A i \in DOMAIN more : more[i].entry \in R
  BY <1>3, <1>4, <1>5 DEF Preferred, LegacyTold, Put, Get
<1> HIDE DEF one, more
<1>8. CASE builder' = [m EXCEPT !.preview = one]
  <2>1. builder'.classes = m.classes /\ LegacyTold(builder', R)
    BY <1>3, <1>6, <1>8 DEF LegacyTold
  <2> QED
    BY <1>3, <2>1 DEF LegacyEntryTold
<1>9. CASE builder' = [m EXCEPT !.configPreviews = more]
  <2>1. builder'.classes = m.classes /\ LegacyTold(builder', R)
    BY <1>3, <1>7, <1>9 DEF LegacyTold
  <2> QED
    BY <1>3, <2>1 DEF LegacyEntryTold
<1> QED
  BY <1>1, <1>8, <1>9, LegacyFailed

\* A legacy document starts with nothing.
LEMMA LegacyStartTold ==
  ASSUME LegacyStart
  PROVE  /\ at' = 1 /\ LegacyTold(builder', ReadOf(builder', 1)) /\ ClassesKept(builder', 1)
<1> DEFINE indices == {content.entries[e].index : e \in LegacyConfigPaths}
           none == LegacyBuilder.configs
           new == EnsureLegacyConfigs(none, indices)
           classes == [e \in Entries |-> "uninterpreted"]
<1>1. at' = 1 /\ builder' = [LegacyBuilder EXCEPT !.configs = new]
  BY Zenon DEF LegacyStart
<1>2. none = <<>> /\ DOMAIN none = {}
  BY EmptyIsList DEF LegacyBuilder
<1> HIDE DEF none, indices
<1>3. \A i \in DOMAIN new : new[i] = LegacyCandidate
  BY <1>2 DEF EnsureLegacyConfigs
<1> HIDE DEF new
<1>4. /\ builder'.configs = new /\ builder'.properties = <<>> /\ builder'.preview = NONE
      /\ builder'.configPreviews = <<>> /\ builder'.classes = classes
      /\ {"configs", "properties", "preview", "configPreviews", "classes", "rejected"} \subseteq DOMAIN builder'
  BY <1>1 DEF LegacyBuilder
<1>5. LegacyTold(builder', ReadOf(builder', 1))
  BY <1>3, <1>4, NothingFrom, EmptyIsList DEF LegacyTold, LegacyCandidate
<1>6. ClassesKept(builder', 1)
  BY <1>4 DEF ClassesKept
<1> QED
  BY <1>1, <1>5, <1>6

\* A stream without a decoder.
LEMMA LegacySkipped ==
  ASSUME Walking, LegacyKept
  PROVE  LegacyEntryTold(builder)
<1>1. at \in Nat \ {0} /\ Entries \subseteq Nat
  BY EntriesAre DEF Walking
<1>2. ReadOf(builder, at) \subseteq ReadOf(builder, at + 1)
  BY <1>1 DEF ReadOf
<1>3. ClassesKept(builder, at + 1)
  BY <1>1 DEF ClassesKept, LegacyKept
<1> QED
  BY <1>2, <1>3, LegacyMore DEF LegacyEntryTold, LegacyKept

\* Of a legacy document the invariant is about the legacy builder.
LEMMA LegacyToldAgain ==
  ASSUME content' = content, content.envelope = "ole2",
         at' # 0 => LegacyTold(builder', ReadOf(builder', at')) /\ ClassesKept(builder', at')
  PROVE  BuilderTold'
<1>1. Entries' = Entries
  BY DEF Entries
<1>2. at' # 0 => ClassesKept(builder, at)' /\ LegacyTold(builder, ReadOf(builder, at))'
  BY <1>1 DEF ClassesKept
<1> QED
  BY <1>2 DEF BuilderTold

\* Every step of a legacy document.
LEMMA LegacyTells ==
  ASSUME IsFile(content), BuilderTold, at \in Nat, content' = content, LegacyStep
  PROVE  BuilderTold'
<1>1. content.envelope = "ole2"
  BY DEF LegacyStep
<1>2. CASE LegacyStart
  BY <1>1, <1>2, LegacyStartTold, LegacyToldAgain
<1>3. CASE LegacyFinish
  <2>1. at' = at /\ builder' = builder
    BY <1>3 DEF LegacyFinish
  <2> QED
    BY <1>1, <2>1, LegacyToldAgain DEF BuilderTold
<1>4. CASE DecodePropertySet \/ DecodeLegacyHeader \/ DecodeLegacyPreview \/ LegacySkip
  <2>1. Walking /\ at \in Nat \ {0} /\ at' = at + 1
    <3>1. at \in Entries /\ at' = at + 1
      BY <1>4 DEF DecodePropertySet, DecodeLegacyHeader, DecodeLegacyPreview, LegacySkip, Taking, Advance
    <3> QED
      BY <3>1, EntriesAre DEF Walking
  <2>2. LegacyKept
    BY <1>1, <2>1 DEF BuilderTold, LegacyKept
  <2>3. LegacySkip => builder' = builder
    BY DEF LegacySkip
  <2>4. LegacyEntryTold(builder')
    BY <1>4, <2>1, <2>2, <2>3, PropertySetTold, LegacyHeaderTold, LegacyPreviewTold, LegacySkipped
  <2> QED
    BY <1>1, <2>1, <2>4, LegacyToldAgain DEF LegacyEntryTold
<1> QED
  BY <1>2, <1>3, <1>4 DEF LegacyStep

\* A profile leaves the content alone.
LEMMA ContentStays ==
  ASSUME ParserInv, Profile
  PROVE  content' = content /\ IsFile(content)
<1>1. content' = content
  BY DEF Profile, ModernStep, LegacyStep, ModernStart, DecodePropertyXml, DecodeCoreXml, DecodeFeatures,
         DecodeTree, DecodeKeywords, DecodeHeader, DecodeSheetNames, DecodePreview, DecodeConfigPreview,
         DecodeSheetPreview, ModernSkip, ModernFinish, LegacyStart, DecodePropertySet,
         DecodeLegacyHeader, DecodeLegacyPreview, LegacySkip, LegacyFinish, Advance
<1>2. IsFile(content)
  BY FileAssumption DEF ParserInv, ContentHeld, Held, Sources, Profile, Parsing
<1> QED
  BY <1>1, <1>2

\* Only a profile changes what is known of a document, and reading one starts from nothing.
LEMMA OnlyProfile ==
  ASSUME ParserInv, [ParserNext]_vars, ~Profile
  PROVE  \/ UNCHANGED <<content, at, builder, facts>>
         \/ at' = 0 /\ facts' = NoFacts
<1>1. CASE ReadForParsing
  BY <1>1 DEF ParserInv, JobsInOrder, ReadForParsing, Fits
<1>2. CASE ~ReadForParsing
  BY <1>2 DEF ParserNext, ReadStep, AnswerStep, Rewrite, ParsePath, ExtractResource, Begin, CannotOpen, TooLarge,
              CannotRead, GrownTooLarge, Refuse, Open, Release, InspectionFailed, NothingRecognized,
              RecognizedButUnsupported, Recognized, Answer, vars, factVars
<1> QED
  BY <1>1, <1>2

\* Every step keeps the invariant.
LEMMA StepTells ==
  ASSUME ParserInv, BuilderTold, [ParserNext]_vars
  PROVE  BuilderTold'
<1>1. CASE Profile
  <2>1. content' = content /\ IsFile(content) /\ at \in Nat
    BY <1>1, ContentStays DEF ParserInv, BuilderPictured
  <2> QED
    BY <1>1, <2>1, ModernTells, LegacyTells DEF Profile
<1>2. CASE ~Profile
  <2>1. CASE UNCHANGED <<content, at, builder, facts>>
    <3>1. CASE content.envelope = "modern"
      BY <2>1, <3>1, ToldAgain DEF BuilderTold
    <3>2. CASE content.envelope = "ole2"
      BY <2>1, <3>2, LegacyToldAgain DEF BuilderTold
    <3>3. CASE content.envelope \notin {"modern", "ole2"}
      BY <2>1, <3>3 DEF BuilderTold
    <3> QED
      BY <3>1, <3>2, <3>3
  <2>2. CASE at' = 0
    BY <2>2 DEF BuilderTold
  <2> QED
    BY <1>2, <2>1, <2>2, OnlyProfile
<1> QED
  BY <1>1, <1>2

\* At all times what the builder holds was told by streams that were read.
LEMMA AlwaysTold == ParserSpec => []BuilderTold
<1>1. ParserInit => BuilderTold
  BY DEF ParserInit, BuilderTold
<1>2. ParserInv /\ BuilderTold /\ [ParserNext]_vars => BuilderTold'
  BY StepTells
<1> QED
  BY <1>1, <1>2, Invariance, PTL DEF ParserSpec
-----------------------------------------------------------------------------
(***************************************************************************)
(* The facts of a document are what its profile makes of the builder.      *)
(***************************************************************************)
FactsFinished ==
  facts.ready =>
    /\ at = Len(content.entries) + 1 /\ IsFile(content)
    /\ \/ content.envelope = "modern" /\ facts = ModernFacts(builder)
       \/ content.envelope = "ole2" /\ facts = LegacyFacts(builder)

\* What the facts would be depends on the content, the hint and the builder.
LEMMA FactsStay ==
  ASSUME UNCHANGED <<content, hint, builder>>
  PROVE  ModernFacts(builder)' = ModernFacts(builder) /\ LegacyFacts(builder)' = LegacyFacts(builder)
<1>1. Entries' = Entries /\ InternalVersion' = InternalVersion
  BY DEF Entries, InternalVersion, Versions, Streams
<1>2. ASSUME NEW c PROVE Accounting(c)' = Accounting(c)
  BY <1>1 DEF Accounting, IsDecoded
<1>3. ASSUME NEW kinds PROVE ResolveDocumentKind(kinds)' = ResolveDocumentKind(kinds)
  BY DEF ResolveDocumentKind
<1>4. LegacyDocumentKind' = LegacyDocumentKind
  BY <1>1 DEF LegacyDocumentKind, Streams, Entries
<1>5. ModernFacts(builder)' = ModernFacts(builder)
  BY <1>1, <1>2, <1>3 DEF ModernFacts, Accounting, IsDecoded, ResolveDocumentKind
<1>6. LegacyFacts(builder)' = LegacyFacts(builder)
  BY <1>1, <1>4 DEF LegacyFacts, Accounting, IsDecoded
<1> QED
  BY <1>5, <1>6

\* Only the last step of a profile makes the facts, of the builder as it is.
LEMMA StepFinishes ==
  ASSUME ParserInv, FactsFinished, [ParserNext]_vars
  PROVE  FactsFinished'
<1>0. hint' = hint
  BY DEF ParserNext, ReadStep, AnswerStep, Rewrite, ParsePath, ExtractResource, Begin, CannotOpen, TooLarge,
         CannotRead, GrownTooLarge, Refuse, Open, Release, InspectionFailed, NothingRecognized,
         RecognizedButUnsupported, Recognized, Answer, vars, factVars, ReadForParsing,
         Profile, ModernStep, LegacyStep, ModernStart, DecodePropertyXml, DecodeCoreXml, DecodeFeatures,
         DecodeTree, DecodeKeywords, DecodeHeader, DecodeSheetNames, DecodePreview, DecodeConfigPreview,
         DecodeSheetPreview, ModernSkip, ModernFinish, LegacyStart, DecodePropertySet,
         DecodeLegacyHeader, DecodeLegacyPreview, LegacySkip, LegacyFinish, Advance
<1>1. CASE UNCHANGED <<content, at, builder, facts>>
  BY <1>0, <1>1, FactsStay DEF FactsFinished
<1>2. CASE at' = 0 /\ facts' = NoFacts
  BY <1>2 DEF FactsFinished, NoFacts
<1>3. CASE Profile
  <2>1. content' = content /\ IsFile(content)
    BY <1>3, ContentStays
  <2>2. Entries = 1 .. Len(content.entries) /\ Len(content.entries) \in Nat
    BY <2>1 DEF Entries, IsFile, IsList
  <2>3. CASE facts.ready
    <3>1. at \notin Entries /\ at # 0
      BY <2>2, <2>3 DEF FactsFinished
    <3> QED
      BY <1>3, <2>3, <3>1
         DEF Profile, ModernStep, LegacyStep, ModernStart, DecodePropertyXml, DecodeCoreXml, DecodeFeatures,
             DecodeTree, DecodeKeywords, DecodeHeader, DecodeSheetNames, DecodePreview, DecodeConfigPreview,
             DecodeSheetPreview, ModernSkip, ModernFinish, LegacyStart, DecodePropertySet,
             DecodeLegacyHeader, DecodeLegacyPreview, LegacySkip, LegacyFinish, Taking
  <2>4. CASE content.envelope = "modern" /\ ModernFinish
    BY <1>0, <2>1, <2>4, FactsStay DEF ModernFinish, FactsFinished
  <2>5. CASE content.envelope = "ole2" /\ LegacyFinish
    BY <1>0, <2>1, <2>5, FactsStay DEF LegacyFinish, FactsFinished
  <2>6. CASE ~facts.ready /\ UNCHANGED facts
    BY <2>6 DEF FactsFinished
  <2> QED
    BY <1>3, <2>3, <2>4, <2>5, <2>6
       DEF Profile, ModernStep, LegacyStep, ModernStart, DecodePropertyXml, DecodeCoreXml, DecodeFeatures,
           DecodeTree, DecodeKeywords, DecodeHeader, DecodeSheetNames, DecodePreview, DecodeConfigPreview,
           DecodeSheetPreview, ModernSkip, LegacyStart, DecodePropertySet,
           DecodeLegacyHeader, DecodeLegacyPreview, LegacySkip, Advance
<1> QED
  BY <1>1, <1>2, <1>3, OnlyProfile

\* At all times the facts are what the builder makes of them.
LEMMA AlwaysFinished == ParserSpec => []FactsFinished
<1>1. ParserInit => FactsFinished
  BY DEF ParserInit, FactsFinished, NoFacts
<1>2. ParserInv /\ FactsFinished /\ [ParserNext]_vars => FactsFinished'
  BY StepFinishes
<1> QED
  BY <1>1, <1>2, Invariance, PTL DEF ParserSpec
-----------------------------------------------------------------------------
(***************************************************************************)
(* Names in the end: what properties add to the names of the streams.      *)
(***************************************************************************)
\* A name in the end.
IsRanked(n) ==
  /\ n.rank \in 0 .. 3 /\ n.origin \in {"source", "derived"}
  /\ n = RankedValue(n.rank, n.value, n.origin, n.entry)

\* A candidate with the names that properties gave it.
CandidateNamed(c, R) ==
  /\ c = [origin |-> c.origin, names |-> c.names, parentNames |-> c.parentNames,
          parentIndices |-> c.parentIndices]
  /\ From(c.names, R) /\ From(c.parentNames, R) /\ From(c.parentIndices, R)
  /\ \A k \in DOMAIN c.names : IsRanked(c.names[k])
  /\ \A k \in DOMAIN c.parentNames : c.parentNames[k].origin = "source"

\* What streams and properties call configuration i.
AllNames(b, i) == NamesTold(b, i) \cup (IF i = NONE THEN {} ELSE PropertyNamesTold(b, i))

\* Properties that name configurations add their names (add_property_name_fallbacks).
LEMMA PropertiesName ==
  ASSUME NEW R, NEW b, ModernTold(b, R), Grounded(b)
  PROVE  /\ DOMAIN PropertyNames(b) = DOMAIN b.configs
         /\ \A i \in DOMAIN b.configs : /\ CandidateNamed(PropertyNames(b)[i], R)
                                        /\ RankedValues(PropertyNames(b)[i].names) = AllNames(b, i)
<1> DEFINE naming == {k \in DOMAIN b.properties :
                        /\ b.properties[k].kind = "custom" /\ b.properties[k].name = "Configuration"
                        /\ b.properties[k].state = "present" /\ b.properties[k].index # NONE}
           places(i) == {k \in naming : b.properties[k].index = i}
           named(i) == Picked(b.properties, places(i))
           more(i) == [k \in DOMAIN named(i) |-> Ranked(2, "derived", named(i)[k])]
           new == PropertyNames(b)
<1>1. new = [i \in DOMAIN b.configs \cup {b.properties[k].index : k \in naming} |->
               [Candidate(b.configs, i) EXCEPT !.names = @ \o more(i)]]
  BY Zenon DEF PropertyNames
<1>2. {b.properties[k].index : k \in naming} \subseteq DOMAIN b.configs
  BY DEF Grounded
<1>3. \A i : places(i) \in SUBSET DOMAIN b.properties
  OBVIOUS
<1>4. \A i, k : k \in places(i) <=> i # NONE /\ k \in Naming(b, i)
  BY DEF Naming
<1> HIDE DEF naming, places, new
<1>5. /\ DOMAIN new = DOMAIN b.configs
      /\ \A i \in DOMAIN b.configs : new[i] = [b.configs[i] EXCEPT !.names = @ \o more(i)]
  <2> HIDE DEF more
  <2>1. DOMAIN new = DOMAIN b.configs
    BY <1>1, <1>2
  <2>2. \A i \in DOMAIN b.configs : Candidate(b.configs, i) = b.configs[i]
    BY DEF Candidate
  <2> QED
    BY <1>1, <2>1, <2>2
<1>6. IsList(b.properties) /\ \A k \in DOMAIN b.properties : b.properties[k].entry \in R
  BY DEF ModernTold, From
<1>7. ASSUME NEW i
      PROVE  /\ From(more(i), R) /\ \A k \in DOMAIN more(i) : IsRanked(more(i)[k])
             /\ RankedValues(more(i)) = IF i = NONE THEN {} ELSE PropertyNamesTold(b, i)
  <2> DEFINE l == named(i)
             f == more(i)
             pair(x) == [rank |-> 2, value |-> x.value]
             ranked(x) == [rank |-> x.rank, value |-> x.value]
  <2>1. /\ IsList(l) /\ \A n \in DOMAIN l : \E k \in places(i) : l[n] = b.properties[k]
        /\ \A k \in places(i) : \E n \in DOMAIN l : l[n] = b.properties[k]
    BY <1>3, <1>6, PickedFrom
  <2>2. f = [k \in DOMAIN l |-> f[k]] /\ DOMAIN f = DOMAIN l
        /\ \A k \in DOMAIN l : f[k] = Ranked(2, "derived", l[k])
    OBVIOUS
  <2> HIDE DEF f, l
  <2>3. \A k \in DOMAIN l : /\ f[k].rank = 2 /\ f[k].value = l[k].value /\ f[k].entry = l[k].entry
                           /\ IsRanked(f[k])
    BY <2>2 DEF Ranked, RankedValue, IsRanked
  <2>4. IsList(f)
    BY <2>1, <2>2, MappedList
  <2>5. \A k \in DOMAIN l : l[k].entry \in R
    BY <1>3, <1>6, <2>1
  <2>6. From(f, R)
    BY <2>2, <2>3, <2>4, <2>5 DEF From
  <2>7. \A x : x \in RankedValues(f) <=> \E k \in DOMAIN f : x = ranked(f[k])
    BY DEF RankedValues
  <2>8. \A x : x \in PropertyNamesTold(b, i) <=> \E k \in Naming(b, i) : x = pair(b.properties[k])
    BY DEF PropertyNamesTold
  <2>9. \A k \in DOMAIN l : ranked(f[k]) = pair(l[k])
    BY <2>3
  <2> HIDE DEF pair, ranked
  <2>10. \A x : x \in RankedValues(f) <=> i # NONE /\ x \in PropertyNamesTold(b, i)
    BY <1>4, <2>1, <2>2, <2>7, <2>8, <2>9
  <2>11. RankedValues(f) = IF i = NONE THEN {} ELSE PropertyNamesTold(b, i)
    BY <2>10
  <2>12. \A k \in DOMAIN f : IsRanked(f[k])
    BY <2>2, <2>3
  <2> QED
    BY <2>6, <2>11, <2>12 DEF f
<1> HIDE DEF more
<1>8. ASSUME NEW i \in DOMAIN b.configs
      PROVE  CandidateNamed(new[i], R) /\ RankedValues(new[i].names) = AllNames(b, i)
  <2> DEFINE c == b.configs[i]
             d == new[i]
             t == more(i)
  <2>1. d = [c EXCEPT !.names = c.names \o t]
    BY <1>5
  <2>2. CandidateTold(c, R)
    BY DEF ModernTold
  <2>3. From(t, R) /\ \A k \in DOMAIN t : IsRanked(t[k])
    BY <1>7
  <2>4. RankedValues(t) = IF i = NONE THEN {} ELSE PropertyNamesTold(b, i)
    BY <1>7
  <2>5. NamesTold(b, i) = RankedValues(c.names)
    BY DEF NamesTold
  <2> HIDE DEF c, d, t
  <2>6. /\ d.names = c.names \o t /\ d.parentNames = c.parentNames /\ d.parentIndices = c.parentIndices
        /\ d = [origin |-> d.origin, names |-> d.names, parentNames |-> d.parentNames,
                parentIndices |-> d.parentIndices]
    BY <2>1, <2>2 DEF CandidateTold
  <2>7. From(d.names, R)
    BY <2>2, <2>3, <2>6, FromJoined DEF CandidateTold
  <2>8. \A k \in DOMAIN d.names : IsRanked(d.names[k])
    <3>1. IsList(c.names) /\ IsList(t) /\ \A k \in DOMAIN c.names : IsRanked(c.names[k])
      <4>1. \A n : IsClaim(n) => IsRanked(n)
        BY DEF IsClaim, IsRanked, RankedValue
      <4> QED
        BY <2>2, <2>3, <4>1 DEF CandidateTold, From
    <3>2. \A k \in DOMAIN d.names : \/ k \in DOMAIN c.names /\ d.names[k] = c.names[k]
                                    \/ k - Len(c.names) \in DOMAIN t /\ d.names[k] = t[k - Len(c.names)]
      BY <2>6, <3>1, ListsJoined
    <3> QED
      BY <2>3, <3>1, <3>2
  <2>9. RankedValues(d.names) = RankedValues(c.names) \cup RankedValues(t)
    BY <2>2, <2>3, <2>6, JoinedValues DEF CandidateTold, From
  <2>10. CandidateNamed(d, R)
    BY <2>2, <2>6, <2>7, <2>8 DEF CandidateNamed, CandidateTold
  <2> QED
    BY <2>4, <2>5, <2>9, <2>10 DEF AllNames, d
<1> QED
  BY <1>5, <1>8 DEF new

\* System properties that are there are properties of the builder.
LEMMA SystemPropertiesAre ==
  ASSUME NEW R, NEW b, ModernTold(b, R), NEW name
  PROVE  /\ IsList(PresentOf(SystemProperties(b, name)))
         /\ \A k \in DOMAIN PresentOf(SystemProperties(b, name)) :
              PresentOf(SystemProperties(b, name))[k].entry \in R
<1> DEFINE S == {k \in DOMAIN b.properties :
                   b.properties[k].kind = "system" /\ b.properties[k].name = name}
           l == SystemProperties(b, name)
           T == {k \in DOMAIN l : l[k].state = "present"}
           m == PresentOf(l)
<1>1. IsList(b.properties) /\ \A k \in DOMAIN b.properties : b.properties[k].entry \in R
  BY DEF ModernTold, From
<1>2. S \in SUBSET DOMAIN b.properties /\ l = Picked(b.properties, S)
  BY DEF SystemProperties
<1> HIDE DEF S, l
<1>3. IsList(l) /\ \A n \in DOMAIN l : \E k \in S : l[n] = b.properties[k]
  BY <1>1, <1>2, PickedFrom
<1>4. \A n \in DOMAIN l : l[n].entry \in R
  BY <1>1, <1>2, <1>3
<1>5. T \in SUBSET DOMAIN l /\ m = Picked(l, T)
  BY DEF PresentOf
<1> HIDE DEF T, m
<1>6. IsList(m) /\ \A n \in DOMAIN m : \E k \in T : m[n] = l[k]
  BY <1>3, <1>5, PickedFrom
<1>7. \A n \in DOMAIN m : m[n].entry \in R
  BY <1>4, <1>5, <1>6
<1> QED
  BY <1>6, <1>7 DEF m, l

\* What the configurations of a document are made from.
Resolved(u, b, R) ==
  /\ DOMAIN b.configs \subseteq DOMAIN u
  /\ \A i \in DOMAIN u : CandidateNamed(u[i], R)
  /\ \A i \in DOMAIN u : AllNames(b, i) # {} => RankedValues(u[i].names) = AllNames(b, i)

\* A list of one name.
LEMMA OneName ==
  ASSUME NEW x
  PROVE  IsList(<<x>>) /\ DOMAIN <<x>> = {1} /\ <<x>>[1] = x
<1> DEFINE s == <<x>>
<1>1. s = [k \in 1 .. 1 |-> s[k]] /\ s[1] = x /\ DOMAIN s = 1 .. 1
  OBVIOUS
<1> HIDE DEF s
<1>2. IsList(s)
  BY <1>1, ListIs
<1> QED
  BY <1>1, <1>2 DEF s

\* The active configuration is named only if no stream names it.
LEMMA ActiveNamed ==
  ASSUME NEW R, NEW b, ModernTold(b, R), NEW configs, Resolved(configs, b, R)
  PROVE  Resolved(ActiveName(b, configs), b, R)
<1> DEFINE active == FirstOf(PresentOf(SystemProperties(b, "SW-Configuration Name")))
           one == <<Ranked(3, "derived", active)>>
           new == [i \in DOMAIN configs |-> [configs[i] EXCEPT !.names = one]]
           nameless == active # NONE /\ \A i \in DOMAIN configs : configs[i].names = <<>>
<1>1. ActiveName(b, configs) = configs \/ (nameless /\ ActiveName(b, configs) = new)
  BY Zenon DEF ActiveName
<1>2. ASSUME nameless
      PROVE  Resolved(new, b, R)
  <2>1. active.entry \in R
    <3> DEFINE l == PresentOf(SystemProperties(b, "SW-Configuration Name"))
    <3>1. IsList(l) /\ \A k \in DOMAIN l : l[k].entry \in R
      BY SystemPropertiesAre
    <3>2. active = FirstOf(l)
      OBVIOUS
    <3> HIDE DEF l
    <3>3. active = IF l = <<>> THEN NONE ELSE l[1]
      BY <3>1, <3>2, FirstOfIs
    <3> QED
      BY <1>2, <3>1, <3>3, EmptyList
  <2> DEFINE x == Ranked(3, "derived", active)
  <2>2. x.entry \in R /\ IsRanked(x)
    <3> HIDE DEF active
    <3>1. x = [rank |-> 3, value |-> active.value, origin |-> "derived", entry |-> active.entry]
      BY DEF Ranked, RankedValue
    <3> HIDE DEF x
    <3> QED
      BY <2>1, <3>1 DEF RankedValue, IsRanked
  <2>3. one = <<x>>
    OBVIOUS
  <2> HIDE DEF active, x, one
  <2>4. From(one, R) /\ \A k \in DOMAIN one : IsRanked(one[k])
    BY <2>2, <2>3, OneName DEF From
  <2>5. ASSUME NEW i \in DOMAIN configs
        PROVE  CandidateNamed(new[i], R)
    <3> DEFINE c == configs[i]
               d == new[i]
    <3>1. d = [c EXCEPT !.names = one] /\ CandidateNamed(c, R)
      BY DEF Resolved
    <3> HIDE DEF c, d
    <3>2. CandidateNamed(d, R)
      BY <2>4, <3>1 DEF CandidateNamed
    <3> QED
      BY <3>2 DEF d
  <2>6. ASSUME NEW i \in DOMAIN configs
        PROVE  AllNames(b, i) = {}
    <3>1. RankedValues(configs[i].names) = {}
      BY <1>2, EmptyIsList DEF RankedValues
    <3> QED
      BY <3>1 DEF Resolved
  <2>7. DOMAIN new = DOMAIN configs
    OBVIOUS
  <2> HIDE DEF new
  <2> QED
    BY <2>5, <2>6, <2>7 DEF Resolved
<1> QED
  BY <1>1, <1>2

\* A configuration is inferred only if there is none.
LEMMA InferredNamed ==
  ASSUME NEW R, NEW b, ModernTold(b, R), Grounded(b), NEW configs, Resolved(configs, b, R), NEW kind
  PROVE  Resolved(Inferred(configs, kind), b, R)
<1> DEFINE x == [NewCandidate EXCEPT !.origin = "inferred"]
           new == Put(configs, 0, x)
<1>1. Inferred(configs, kind) = configs \/ (DOMAIN configs = {} /\ Inferred(configs, kind) = new)
  BY Zenon DEF Inferred
<1>2. ASSUME DOMAIN configs = {}
      PROVE  Resolved(new, b, R)
  <2>1. CandidateNamed(x, R)
    BY NothingFrom, EmptyIsList DEF CandidateNamed, NewCandidate
  <2>2. DOMAIN b.configs = {}
    BY <1>2 DEF Resolved
  <2>3. \A i : AllNames(b, i) = {}
    BY <2>2 DEF AllNames, NamesTold, PropertyNamesTold, Naming, Grounded
  <2> HIDE DEF x
  <2> QED
    BY <1>2, <2>1, <2>2, <2>3 DEF Resolved, Put
<1> QED
  BY <1>1, <1>2

\* The candidates in the end.
LEMMA ConfigurationsNamed ==
  ASSUME NEW R, NEW b, ModernTold(b, R), Grounded(b), NEW kind
  PROVE  Resolved(Inferred(WithFallbacks(b), kind), b, R)
<1>1. Resolved(PropertyNames(b), b, R)
  BY PropertiesName DEF Resolved
<1>2. Resolved(WithFallbacks(b), b, R)
  BY <1>1, ActiveNamed DEF WithFallbacks
<1> QED
  BY <1>2, InferredNamed
-----------------------------------------------------------------------------
(***************************************************************************)
(* A failed stream leaves nothing: what the facts cite was read.           *)
(***************************************************************************)
OneFrom(v, R) == v = NONE \/ v.entry \in R

\* The streams that a configuration cites.
ConfigurationCites(c, R) ==
  /\ OneFrom(c.name, R) /\ OneFrom(c.parentName, R) /\ OneFrom(c.parentIndex, R) /\ OneFrom(c.preview, R)
  /\ \A k \in DOMAIN c.components : c.components[k].entry \in R
  /\ \A k \in DOMAIN c.alternates : c.alternates[k].entry \in R

\* The facts f cite only entries of R.
Cites(f, R) ==
  /\ \A k \in DOMAIN f.properties : f.properties[k].entry \in R
  /\ \A k \in DOMAIN f.references : f.references[k].entry \in R
  /\ OneFrom(f.preview, R)
  /\ \A i \in DOMAIN f.configurations : ConfigurationCites(f.configurations[i], R)
  /\ \A k \in DOMAIN f.sheets : OneFrom(f.sheets[k].preview, R)

\* The facts of a legacy document.
LEMMA LegacyCites ==
  ASSUME NEW R, NEW b, LegacyTold(b, R)
  PROVE  Cites(LegacyFacts(b), R)
<1> DEFINE f == LegacyFacts(b)
           cs == [i \in DOMAIN b.configs |->
                    [origin |-> "source", name |-> b.configs[i].name, alternates |-> <<>>,
                     parentName |-> NONE, parentIndex |-> b.configs[i].parentIndex,
                     preview |-> Get(b.configPreviews, i), components |-> <<>>]]
<1>1. /\ f.properties = b.properties /\ f.references = <<>> /\ f.preview = b.preview
      /\ f.sheets = <<>> /\ f.configurations = cs
  BY DEF LegacyFacts
<1> HIDE DEF f
<1>2. \A i \in DOMAIN cs : ConfigurationCites(cs[i], R)
  BY EmptyIsList DEF ConfigurationCites, OneFrom, LegacyTold, Get
<1> HIDE DEF cs
<1>3. Cites(f, R)
  BY <1>1, <1>2, EmptyIsList DEF Cites, LegacyTold, From, OneFrom
<1> QED
  BY <1>3 DEF f

\* The name of configuration i, its alternates, and that of the configuration it points to.
LEMMA NamesFrom ==
  ASSUME NEW R, NEW c, CandidateNamed(c, R)
  PROVE  /\ OneFrom(FirstOf(MergeRankedNames(c.names)), R)
         /\ \A k \in DOMAIN Tail(MergeRankedNames(c.names)) :
              MergeRankedNames(c.names) # <<>> => Tail(MergeRankedNames(c.names))[k].entry \in R
         /\ OneFrom(FirstOf(c.parentNames), R) /\ OneFrom(FirstOf(c.parentIndices), R)
<1> DEFINE names == c.names
           m == MergeRankedNames(names)
<1>1. From(names, R) /\ From(c.parentNames, R) /\ From(c.parentIndices, R)
  BY DEF CandidateNamed
<1> HIDE DEF names
<1>2. IsList(m) /\ \A n \in DOMAIN m : \E k \in DOMAIN names : m[n] = names[k]
  BY <1>1, NamesMerged DEF From
<1> HIDE DEF m
<1>3. From(m, R)
  BY <1>1, <1>2 DEF From
<1>4. ASSUME NEW s, From(s, R) PROVE OneFrom(FirstOf(s), R)
  BY <1>4, FirstOfIs, EmptyList DEF From, OneFrom
<1>5. ASSUME m # <<>>, NEW k \in DOMAIN Tail(m) PROVE Tail(m)[k].entry \in R
  BY <1>3, <1>5, TailIs DEF From
<1> QED
  BY <1>1, <1>3, <1>4, <1>5 DEF m, names

\* The configurations of a modern document.
LEMMA ConfigurationsCite ==
  ASSUME NEW R, NEW b, ModernTold(b, R), NEW u, \A i \in DOMAIN u : CandidateNamed(u[i], R)
  PROVE  \A i \in DOMAIN FinishConfigurations(b, u) : ConfigurationCites(FinishConfigurations(b, u)[i], R)
<1> DEFINE names(i) == MergeRankedNames(u[i].names)
           new == FinishConfigurations(b, u)
           alternates(i) == IF names(i) = <<>> THEN <<>> ELSE Tail(names(i))
<1>1. /\ DOMAIN new = DOMAIN u
      /\ \A i \in DOMAIN u :
           /\ new[i].name = FirstOf(names(i)) /\ new[i].alternates = alternates(i)
           /\ new[i].parentName = ParentName(u, u[i])
           /\ new[i].parentIndex = FirstOf(u[i].parentIndices)
           /\ new[i].preview = Get(b.configPreviews, i)
           /\ new[i].components = ListAt(b.components, i)
  BY DEF FinishConfigurations
<1> HIDE DEF new
<1> SUFFICES ASSUME NEW i \in DOMAIN u
             PROVE  ConfigurationCites(new[i], R)
  BY <1>1 DEF new
<1>2. OneFrom(new[i].name, R) /\ OneFrom(new[i].parentIndex, R) /\ OneFrom(FirstOf(u[i].parentNames), R)
  BY <1>1, NamesFrom
<1>3. \A k \in DOMAIN new[i].alternates : new[i].alternates[k].entry \in R
  <2>1. new[i].alternates = alternates(i)
    BY <1>1
  <2>2. names(i) # <<>> => \A k \in DOMAIN Tail(names(i)) : Tail(names(i))[k].entry \in R
    BY NamesFrom
  <2> QED
    BY <2>1, <2>2, EmptyIsList
<1>4. OneFrom(new[i].parentName, R)
  <2> DEFINE named == FirstOf(u[i].parentNames)
             index == FirstOf(u[i].parentIndices)
  <2>1. \/ new[i].parentName = named \/ new[i].parentName = NONE
        \/ index # NONE /\ \E v : new[i].parentName = SourceValue(v, "derived", index.entry)
    BY <1>1 DEF ParentName
  <2>2. OneFrom(index, R) /\ OneFrom(named, R)
    BY <1>1, <1>2
  <2>3. \A v : SourceValue(v, "derived", index.entry).entry = index.entry
    BY DEF SourceValue
  <2> HIDE DEF named, index
  <2> QED
    BY <2>1, <2>2, <2>3 DEF OneFrom
<1>5. OneFrom(new[i].preview, R)
  BY <1>1 DEF ModernTold, OneFrom, Get
<1>6. \A k \in DOMAIN new[i].components : new[i].components[k].entry \in R
  BY <1>1, EmptyIsList DEF ModernTold, ListAt, From
<1> QED
  BY <1>2, <1>3, <1>4, <1>5, <1>6 DEF ConfigurationCites

\* The facts of a modern document.
LEMMA ModernCites ==
  ASSUME NEW R, NEW b, ModernTold(b, R), Grounded(b),
         \A k \in DOMAIN b.sheets : b.sheets[k] = SheetOf(b.sheets[k])
  PROVE  Cites(ModernFacts(b), R)
<1> DEFINE f == ModernFacts(b)
           kind == ResolveDocumentKind(b.kinds)
           u == Inferred(WithFallbacks(b), kind.value)
<1>1. /\ f.configurations = FinishConfigurations(b, u)
      /\ f.properties = AttachConfigurationNames(b.properties, f.configurations)
      /\ f.references = b.references /\ f.preview = b.preview
      /\ f.sheets = AttachSheetFormatData(AttachSheetPreviews(b), b)
  BY DEF ModernFacts
<1>2. \A i \in DOMAIN u : CandidateNamed(u[i], R)
  BY ConfigurationsNamed DEF Resolved
<1> HIDE DEF f, u
<1>3. \A i \in DOMAIN f.configurations : ConfigurationCites(f.configurations[i], R)
  BY <1>1, <1>2, ConfigurationsCite
<1>4. \A k \in DOMAIN f.properties : f.properties[k].entry \in R
  <2>1. DOMAIN f.properties = DOMAIN b.properties
        /\ \A k \in DOMAIN b.properties : \E v : f.properties[k] = [b.properties[k] EXCEPT !.configuration = v]
    BY <1>1 DEF AttachConfigurationNames
  <2>2. \A k \in DOMAIN b.properties : IsProperty(b.properties[k]) /\ b.properties[k].entry \in R
    BY DEF ModernTold, From
  <2>3. ASSUME NEW p, IsProperty(p), NEW v PROVE [p EXCEPT !.configuration = v].entry = p.entry
    BY <2>3 DEF IsProperty
  <2>4. ASSUME NEW k \in DOMAIN f.properties PROVE f.properties[k].entry \in R
    <3>1. PICK v : f.properties[k] = [b.properties[k] EXCEPT !.configuration = v]
      BY <2>1
    <3> DEFINE p == b.properties[k]
    <3>2. IsProperty(p) /\ p.entry \in R /\ f.properties[k] = [p EXCEPT !.configuration = v]
      BY <2>1, <2>2, <3>1
    <3> HIDE DEF p
    <3> QED
      BY <2>3, <3>2
  <2> QED
    BY <2>4
<1>5. \A k \in DOMAIN f.sheets : OneFrom(f.sheets[k].preview, R)
  BY <1>1, SheetsResolved DEF SheetsDescribedBy, OneFrom, Get, ModernTold
<1>6. Cites(f, R)
  BY <1>1, <1>3, <1>4, <1>5 DEF Cites, ModernTold, From, OneFrom
<1> QED
  BY <1>6 DEF f

\* Where only what was read is cited, nothing else is.
LEMMA CitesEnough ==
  ASSUME facts.ready, NEW n, Cites(facts, ReadOf(builder, n)), facts.coverage = Accounting(builder.classes)
  PROVE  FailedStreamLeavesNothing
<1> DEFINE R == ReadOf(builder, n)
           configurations == {facts.configurations[i] : i \in Configurations}
           cited ==
             Cited(ToSet(facts.properties)) \cup Cited(ToSet(facts.references)) \cup Cited(Descriptors)
               \cup UNION {Cited({c.name, c.parentName}) \cup Cited({c.parentIndex})
                            \cup Cited(ToSet(c.components)) \cup Cited(ToSet(c.alternates)) :
                            c \in configurations}
<1>1. \A u \in facts.coverage.unknown : u.reason = builder.classes[u.entry]
  BY DEF Accounting
<1>2. \A e \in R : builder.classes[e] \in ReadClasses
  BY DEF ReadOf
<1> HIDE DEF R
<1>3. Cites(facts, R)
  BY DEF R
<1>4. \A s : (\A k \in DOMAIN s : s[k].entry \in R) => Cited(ToSet(s)) \subseteq R
  BY DEF Cited, ToSet
<1>5. Cited(ToSet(facts.properties)) \subseteq R /\ Cited(ToSet(facts.references)) \subseteq R
  BY <1>3, <1>4 DEF Cites
<1>6. Cited(Descriptors) \subseteq R
  BY <1>3 DEF Cites, Descriptors, Cited, OneFrom, ConfigurationCites
<1>7. ASSUME NEW c \in configurations
      PROVE  Cited({c.name, c.parentName}) \cup Cited({c.parentIndex})
               \cup Cited(ToSet(c.components)) \cup Cited(ToSet(c.alternates)) \subseteq R
  <2>1. ConfigurationCites(c, R)
    BY <1>3 DEF Cites, Configurations
  <2>2. Cited({c.name, c.parentName}) \subseteq R /\ Cited({c.parentIndex}) \subseteq R
    BY <2>1 DEF ConfigurationCites, OneFrom, Cited
  <2>3. Cited(ToSet(c.components)) \subseteq R /\ Cited(ToSet(c.alternates)) \subseteq R
    BY <1>4, <2>1 DEF ConfigurationCites
  <2> QED
    BY <2>2, <2>3
<1>8. cited \subseteq R
  <2> HIDE DEF configurations
  <2>1. ASSUME NEW x \in UNION {Cited({c.name, c.parentName}) \cup Cited({c.parentIndex})
                            \cup Cited(ToSet(c.components)) \cup Cited(ToSet(c.alternates)) :
                            c \in configurations}
        PROVE  x \in R
    <3>1. PICK c \in configurations : x \in Cited({c.name, c.parentName}) \cup Cited({c.parentIndex})
                            \cup Cited(ToSet(c.components)) \cup Cited(ToSet(c.alternates))
      BY <2>1, Zenon
    <3> QED
      BY <1>7, <3>1
  <2> QED
    BY <1>5, <1>6, <2>1
<1>9. "malformed" \notin ReadClasses /\ "uninterpreted" \notin ReadClasses
  BY DEF ReadClasses
<1> HIDE DEF cited
<1>10. \A u \in facts.coverage.unknown : u.reason \in {"malformed", "uninterpreted"} => u.entry \notin cited
  BY <1>1, <1>2, <1>8, <1>9
<1> QED
  BY <1>10, Zenon DEF FailedStreamLeavesNothing, cited, configurations

\* Both invariants together.
LEMMA LeavesNothing ==
  ASSUME ParserInv, BuilderTold, FactsFinished
  PROVE  FailedStreamLeavesNothing
<1>1. CASE ~facts.ready
  BY <1>1 DEF FailedStreamLeavesNothing
<1>2. CASE facts.ready
  <2>1. at # 0
    BY <1>2, ListFacts DEF FactsFinished, IsFile
  <2>2. facts.coverage = Accounting(builder.classes)
    BY <1>2 DEF FactsFinished, ModernFacts, LegacyFacts
  <2>3. CASE content.envelope = "modern" /\ facts = ModernFacts(builder)
    <3>1. \A k \in DOMAIN builder.sheets : builder.sheets[k] = SheetOf(builder.sheets[k])
      BY <2>1, <2>3 DEF ParserInv, BuilderPictured, Pictured, SheetsPictured
    <3>2. Cites(facts, ReadOf(builder, at))
      BY <2>1, <2>3, <3>1, ModernCites DEF BuilderTold
    <3> QED
      BY <1>2, <2>2, <3>2, CitesEnough
  <2>4. CASE content.envelope = "ole2" /\ facts = LegacyFacts(builder)
    <3>1. Cites(facts, ReadOf(builder, at))
      BY <2>1, <2>4, LegacyCites DEF BuilderTold
    <3> QED
      BY <1>2, <2>2, <3>1, CitesEnough
  <2> QED
    BY <1>2, <2>3, <2>4 DEF FactsFinished
<1> QED
  BY <1>1, <1>2

\* Whatever the streams hold, in whatever order, no property, name, reference, component or
\* preview of a document comes from a stream whose reader failed.
THEOREM FailedStreamsLeaveNothing == ParserSpec => []FailedStreamLeavesNothing
<1>1. ParserInv /\ BuilderTold /\ FactsFinished => FailedStreamLeavesNothing
  BY LeavesNothing
<1> QED
  BY <1>1, Invariance, AlwaysTold, AlwaysFinished, PTL
-----------------------------------------------------------------------------
(***************************************************************************)
(* What belongs to a configuration belongs to one of the document.         *)
(***************************************************************************)
\* The facts of a modern document, from the candidates u of its configurations.
LEMMA ModernFactsAre ==
  ASSUME ParserInv, BuilderTold, FactsFinished, Modern
  PROVE  \E u :
           /\ content.envelope = "modern" /\ at = Len(content.entries) + 1 /\ IsFile(content)
           /\ ModernTold(builder, ReadOf(builder, at)) /\ Grounded(builder) /\ NamesHeard(builder, at)
           /\ Resolved(u, builder, ReadOf(builder, at))
           /\ facts.configurations = FinishConfigurations(builder, u)
           /\ facts.properties = AttachConfigurationNames(builder.properties, facts.configurations)
           /\ facts.references = builder.references
<1>1. at = Len(content.entries) + 1 /\ IsFile(content) /\ at # 0
  BY ListFacts DEF FactsFinished, IsFile, Modern
<1>2. content.envelope = "modern" /\ facts = ModernFacts(builder)
  BY DEF FactsFinished, Modern, LegacyFacts
<1>3. ModernTold(builder, ReadOf(builder, at)) /\ Grounded(builder) /\ NamesHeard(builder, at)
  BY <1>1, <1>2 DEF BuilderTold
<1> DEFINE kind == ResolveDocumentKind(builder.kinds)
           u == Inferred(WithFallbacks(builder), kind.value)
<1>4. Resolved(u, builder, ReadOf(builder, at))
  BY <1>3, ConfigurationsNamed
<1>5. /\ facts.configurations = FinishConfigurations(builder, u)
      /\ facts.properties = AttachConfigurationNames(builder.properties, facts.configurations)
      /\ facts.references = builder.references
  BY <1>2 DEF ModernFacts
<1> HIDE DEF u
<1> QED
  BY <1>1, <1>2, <1>3, <1>4, <1>5

\* A configuration, from its candidate (finish_configurations).
LEMMA ConfigurationsAre ==
  ASSUME NEW b, NEW u, NEW new, new = FinishConfigurations(b, u)
  PROVE  /\ DOMAIN new = DOMAIN u
         /\ \A i \in DOMAIN u :
              /\ new[i].name = FirstOf(MergeRankedNames(u[i].names))
              /\ new[i].alternates = IF MergeRankedNames(u[i].names) = <<>> THEN <<>>
                                     ELSE Tail(MergeRankedNames(u[i].names))
              /\ new[i].parentName = ParentName(u, u[i])
              /\ new[i].parentIndex = FirstOf(u[i].parentIndices)
              /\ new[i].components = ListAt(b.components, i)
  BY DEF FinishConfigurations

\* Both invariants together, for modern documents.
LEMMA OrphansNone ==
  ASSUME ParserInv, BuilderTold, FactsFinished, Modern
  PROVE  NothingOrphaned
<1> DEFINE R == ReadOf(builder, at)
           cs == facts.configurations
<1>1. PICK u : /\ ModernTold(builder, R) /\ Grounded(builder) /\ Resolved(u, builder, R)
               /\ cs = FinishConfigurations(builder, u)
               /\ facts.properties = AttachConfigurationNames(builder.properties, cs)
               /\ facts.references = builder.references
  BY ModernFactsAre
<1> HIDE DEF R
<1>2. /\ DOMAIN cs = DOMAIN u
      /\ \A i \in DOMAIN u :
           /\ cs[i].name = FirstOf(MergeRankedNames(u[i].names))
           /\ cs[i].parentName = ParentName(u, u[i])
           /\ cs[i].parentIndex = FirstOf(u[i].parentIndices)
           /\ cs[i].components = ListAt(builder.components, i)
  BY <1>1, ConfigurationsAre
<1>3. DOMAIN builder.configs \subseteq DOMAIN cs
  BY <1>1, <1>2 DEF Resolved
<1>4. ASSUME NEW k \in DOMAIN facts.properties, facts.properties[k].index # NONE
      PROVE  /\ facts.properties[k].index \in Configurations
             /\ facts.properties[k].configuration
                  = IF cs[facts.properties[k].index].name = NONE THEN NONE
                    ELSE cs[facts.properties[k].index].name.value
  <2> DEFINE p == builder.properties[k]
             v == IF p.index = NONE \/ p.index \notin DOMAIN cs THEN NONE
                  ELSE IF cs[p.index].name = NONE THEN NONE ELSE cs[p.index].name.value
             q == facts.properties[k]
  <2>1. k \in DOMAIN builder.properties /\ q = [p EXCEPT !.configuration = v]
    BY <1>1 DEF AttachConfigurationNames
  <2>2. IsProperty(p) /\ p.index \in DOMAIN builder.configs \cup {NONE}
    BY <1>1, <2>1 DEF ModernTold, Grounded
  <2> HIDE DEF p, q
  <2>3. q.index = p.index /\ q.configuration = v
    <3> HIDE DEF v
    <3> QED
      BY <2>1, <2>2 DEF IsProperty
  <2>4. p.index \in DOMAIN cs
    BY <1>3, <1>4, <2>2, <2>3 DEF q
  <2> QED
    BY <1>4, <2>3, <2>4 DEF q, Configurations
<1>5. ASSUME NEW i \in Configurations \cup {facts.references[k].index : k \in DOMAIN facts.references}, i # NONE
      PROVE  /\ i \in Configurations
             /\ Len(cs[i].components)
                  = Cardinality({k \in DOMAIN facts.references :
                                   /\ facts.references[k].kind = "assembly_component"
                                   /\ facts.references[k].index = i})
  <2>1. i \in Configurations
    BY <1>1, <1>3, <1>5 DEF Grounded, Configurations
  <2>2. cs[i].components = ListAt(builder.components, i)
    BY <1>2, <2>1 DEF Configurations
  <2>3. References(builder, i) = {k \in DOMAIN facts.references :
                                   /\ facts.references[k].kind = "assembly_component"
                                   /\ facts.references[k].index = i}
    BY <1>1 DEF References
  <2> QED
    BY <1>1, <1>5, <2>1, <2>2, <2>3 DEF Grounded
<1>6. ASSUME NEW i \in Configurations, cs[i].parentName # NONE, cs[i].parentName.origin = "derived"
      PROVE  /\ cs[i].parentIndex.value \in Configurations
             /\ cs[cs[i].parentIndex.value].name # NONE
             /\ cs[cs[i].parentIndex.value].name.value = cs[i].parentName.value
  <2> DEFINE named == FirstOf(u[i].parentNames)
             index == FirstOf(u[i].parentIndices)
             found == IF index = NONE THEN NONE ELSE CanonicalName(u, index.value)
  <2>1. i \in DOMAIN u /\ cs[i].parentIndex = index
    BY <1>2 DEF Configurations
  <2>2. cs[i].parentName = IF named # NONE THEN named
                           ELSE IF found = NONE THEN NONE
                           ELSE SourceValue(found.value, "derived", index.entry)
    BY <1>2, <2>1 DEF ParentName
  <2>3. named # NONE => named.origin = "source"
    <3>1. CandidateNamed(u[i], R)
      BY <1>1, <2>1 DEF Resolved
    <3> QED
      BY <3>1, FirstOfIs, EmptyList DEF CandidateNamed, From
  <2>4. index # NONE /\ found = CanonicalName(u, index.value) /\ found # NONE
        /\ cs[i].parentName = SourceValue(found.value, "derived", index.entry)
    <3> HIDE DEF named
    <3>1. named = NONE /\ found # NONE
      BY <1>6, <2>2, <2>3
    <3>2. index # NONE /\ found = CanonicalName(u, index.value)
      BY <3>1
    <3> HIDE DEF found, index
    <3> QED
      BY <2>2, <3>1, <3>2
  <2> HIDE DEF index, found
  <2>5. index.value \in DOMAIN u /\ found = FirstOf(MergeRankedNames(u[index.value].names))
    BY <2>4 DEF CanonicalName
  <2>6. cs[index.value].name = found /\ cs[i].parentName.value = found.value
    BY <1>2, <2>4, <2>5 DEF SourceValue
  <2> QED
    BY <1>2, <2>1, <2>4, <2>5, <2>6 DEF Configurations
<1> QED
  BY <1>4, <1>5, <1>6 DEF NothingOrphaned

\* Properties and component references of a document belong to configurations it has, and a
\* parent name that was looked up is the name its configuration has in the end
\* (finish_configurations, attach_configuration_names).
THEOREM NoOrphans == ParserSpec => []NothingOrphaned
<1>1. ParserInv /\ BuilderTold /\ FactsFinished => NothingOrphaned
  BY OrphansNone DEF NothingOrphaned
<1> QED
  BY <1>1, Invariance, AlwaysTold, AlwaysFinished, PTL

-----------------------------------------------------------------------------
(***************************************************************************)
(* The name of a configuration, from everything the streams call it.       *)
(***************************************************************************)
\* The claims of all streams are what was heard.
LEMMA AllClaimsHeard ==
  ASSUME IsFile(content), NEW n, n = Len(content.entries) + 1, NamesHeard(builder, n), NEW i
  PROVE  NameClaims(i) = AllNames(builder, i)
<1> DEFINE read == {e \in Entries : IsDecoded(e)}
           xml(paths) == {e \in read \cap Streams(paths) : ParseXml(content.entries[e].data.xml) = "ok"}
           headers == {e \in read \cap Streams({"header"}) :
                         InternalVersion = ObservedVersion
                           /\ HeaderReading(content.entries[e].data) = "ok"}
           trees == xml({"features", "tree", "keywords"})
           own == {e \in xml({"config_properties"}) : content.entries[e].index = i}
<1>1. Entries = 1 .. n - 1
  BY ListFacts DEF IsFile, Entries
<1>2. \A e : e \in trees <=> /\ e \in Entries /\ IsDecoded(e)
                             /\ content.entries[e].path \in {"features", "tree", "keywords"}
                             /\ ParseXml(content.entries[e].data.xml) = "ok"
  BY DEF Streams
<1>3. \A e : e \in headers <=> /\ e \in Entries /\ IsDecoded(e) /\ content.entries[e].path = "header"
                               /\ InternalVersion = ObservedVersion
                               /\ HeaderReading(content.entries[e].data) = "ok"
  BY DEF Streams
<1>4. \A e : e \in own <=> /\ e \in Entries /\ IsDecoded(e) /\ content.entries[e].path = "config_properties"
                           /\ ParseXml(content.entries[e].data.xml) = "ok" /\ content.entries[e].index = i
  BY DEF Streams
<1>5. NameClaims(i) = UNION ({XmlClaims(e, i) : e \in trees} \cup {PropertyClaims(e) : e \in own}
                               \cup {HeaderClaims(e, i) : e \in headers})
  BY Zenon DEF NameClaims
<1> HIDE DEF trees, headers, own
<1>6. \A x : x \in NameClaims(i) <=> \/ \E e \in trees : x \in XmlClaims(e, i)
                                     \/ \E e \in own : x \in PropertyClaims(e)
                                     \/ \E e \in headers : x \in HeaderClaims(e, i)
  <2> DEFINE A == {XmlClaims(e, i) : e \in trees}
             B == {PropertyClaims(e) : e \in own}
             C == {HeaderClaims(e, i) : e \in headers}
  <2>1. \A s : s \in A <=> \E e \in trees : s = XmlClaims(e, i)
    OBVIOUS
  <2>2. \A s : s \in B <=> \E e \in own : s = PropertyClaims(e)
    OBVIOUS
  <2>3. \A s : s \in C <=> \E e \in headers : s = HeaderClaims(e, i)
    OBVIOUS
  <2> HIDE DEF A, B, C
  <2>4. NameClaims(i) = UNION (A \cup B \cup C)
    BY <1>5 DEF A, B, C
  <2>5. \A x : x \in NameClaims(i) <=> (\E s \in A : x \in s) \/ (\E s \in B : x \in s) \/ (\E s \in C : x \in s)
    BY <2>4
  <2> QED
    BY <2>1, <2>2, <2>3, <2>5
<1>7. \A x : (\E e \in Entries : x \in NamesIn(e, i))
               <=> (\E e \in trees : x \in XmlClaims(e, i)) \/ (\E e \in headers : x \in HeaderClaims(e, i))
  <2>1. \A e : e \in trees => NamesIn(e, i) = XmlClaims(e, i)
    BY <1>2 DEF NamesIn
  <2>2. \A e : e \in headers => NamesIn(e, i) = HeaderClaims(e, i)
    BY <1>3 DEF NamesIn
  <2>3. \A e : e \in Entries /\ e \notin trees /\ e \notin headers => NamesIn(e, i) = {}
    BY <1>2, <1>3 DEF NamesIn
  <2> QED
    BY <1>2, <1>3, <2>1, <2>2, <2>3
<1>8. \A x : (\E e \in Entries : x \in PropertyNamesIn(e, i)) <=> \E e \in own : x \in PropertyClaims(e)
  <2>1. \A e : e \in Entries => PropertyNamesIn(e, i) = IF e \in own THEN PropertyClaims(e) ELSE {}
    BY <1>4 DEF PropertyNamesIn
  <2> QED
    BY <1>4, <2>1
<1>9. i = NONE => own = {}
  <2>1. \A e \in Entries : content.entries[e].path = "config_properties" => content.entries[e].index # NONE
    BY DEF IsFile, Entries
  <2> QED
    BY <1>4, <2>1
<1>10. \A x : x \in NamesTold(builder, i) <=> \E e \in Entries : x \in NamesIn(e, i)
  <2>1. NamesTold(builder, i) = UNION {NamesIn(e, i) : e \in 1 .. n - 1}
    BY DEF NamesHeard
  <2>2. \A x : x \in UNION {NamesIn(e, i) : e \in 1 .. n - 1} <=> \E e \in 1 .. n - 1 : x \in NamesIn(e, i)
    BY Zenon
  <2> QED
    BY <1>1, <2>1, <2>2
<1>11. ASSUME i # NONE
       PROVE  \A x : x \in PropertyNamesTold(builder, i) <=> \E e \in Entries : x \in PropertyNamesIn(e, i)
  <2>1. PropertyNamesTold(builder, i) = UNION {PropertyNamesIn(e, i) : e \in 1 .. n - 1}
    BY <1>11 DEF NamesHeard
  <2>2. \A x : x \in UNION {PropertyNamesIn(e, i) : e \in 1 .. n - 1}
                 <=> \E e \in 1 .. n - 1 : x \in PropertyNamesIn(e, i)
    BY Zenon
  <2> QED
    BY <1>1, <2>1, <2>2
<1>12. \A x : x \in AllNames(builder, i)
                <=> \/ \E e \in Entries : x \in NamesIn(e, i)
                    \/ \E e \in own : x \in PropertyClaims(e)
  <2>1. CASE i = NONE
    BY <1>9, <1>10, <2>1 DEF AllNames
  <2>2. CASE i # NONE
    BY <1>8, <1>10, <1>11, <2>2 DEF AllNames
  <2> QED
    BY <2>1, <2>2
<1>13. \A x : x \in NameClaims(i) <=> x \in AllNames(builder, i)
  BY <1>6, <1>7, <1>12
<1> QED
  BY <1>13

\* What is claimed as a name is text.
LEMMA ClaimsAreText ==
  ASSUME IsFile(content), NEW i, NEW d \in NameClaims(i)
  PROVE  d.value \in STRING
<1> DEFINE read == {e \in Entries : IsDecoded(e)}
           xml(paths) == {e \in read \cap Streams(paths) : ParseXml(content.entries[e].data.xml) = "ok"}
           headers == {e \in read \cap Streams({"header"}) :
                         InternalVersion = ObservedVersion
                           /\ HeaderReading(content.entries[e].data) = "ok"}
           trees == xml({"features", "tree", "keywords"})
           own == {e \in xml({"config_properties"}) : content.entries[e].index = i}
<1>1. NameClaims(i) = UNION ({XmlClaims(e, i) : e \in trees} \cup {PropertyClaims(e) : e \in own}
                               \cup {HeaderClaims(e, i) : e \in headers})
  BY Zenon DEF NameClaims
<1>2. \A e \in trees : IsStream(content.entries[e].path, content.entries[e].data)
                       /\ content.entries[e].path \in {"features", "tree", "keywords"}
  BY DEF Streams, IsDecoded, IsFile, Entries
<1>3. \A e \in own : IsStream(content.entries[e].path, content.entries[e].data)
                     /\ content.entries[e].path = "config_properties"
  BY DEF Streams, IsDecoded, IsFile, Entries
<1>4. \A e \in headers : IsStream(content.entries[e].path, content.entries[e].data)
                         /\ content.entries[e].path = "header" /\ HeaderReading(content.entries[e].data) = "ok"
  BY DEF Streams, IsDecoded, IsFile, Entries
<1> HIDE DEF trees, headers, own
<1>5. \/ \E e \in trees : d \in XmlClaims(e, i)
      \/ \E e \in own : d \in PropertyClaims(e)
      \/ \E e \in headers : d \in HeaderClaims(e, i)
  <2>1. PICK s \in {XmlClaims(e, i) : e \in trees} \cup {PropertyClaims(e) : e \in own}
                     \cup {HeaderClaims(e, i) : e \in headers} : d \in s
    BY <1>1, Zenon
  <2> QED
    BY <2>1
<1>6. CASE \E e \in trees : d \in XmlClaims(e, i)
  <2>1. PICK e \in trees : d \in XmlClaims(e, i)
    BY <1>6
  <2> DEFINE configs == content.entries[e].data.configs
  <2>2. PICK n \in ToSet(configs) : d = [rank |-> n.rank, value |-> n.name] /\ n.name # NONE
    BY <2>1, Zenon DEF XmlClaims
  <2>3. \A k \in DOMAIN configs : IsText(configs[k].name)
    BY <1>2, <2>1 DEF IsStream
  <2> HIDE DEF configs
  <2>4. PICK k \in DOMAIN configs : n = configs[k]
    BY <2>2 DEF ToSet
  <2> QED
    BY <2>2, <2>3, <2>4 DEF IsText
<1>7. CASE \E e \in own : d \in PropertyClaims(e)
  <2>1. PICK e \in own : d \in PropertyClaims(e)
    BY <1>7
  <2> DEFINE properties == content.entries[e].data.properties
  <2>2. PICK p \in ToSet(properties) : /\ d = [rank |-> 2, value |-> p.value]
                                       /\ p.name = "Configuration" /\ p.state = "present"
    BY <2>1, Zenon DEF PropertyClaims
  <2>3. "config_properties" \in PropertyStreams
    BY DEF PropertyStreams
  <2>4. \A k \in DOMAIN properties :
          properties[k].name = "Configuration" /\ properties[k].state = "present"
            => properties[k].value \in STRING
    BY <1>3, <2>1, <2>3 DEF IsStream
  <2> HIDE DEF properties
  <2>5. PICK k \in DOMAIN properties : p = properties[k]
    BY <2>2 DEF ToSet
  <2> QED
    BY <2>2, <2>4, <2>5
<1>8. CASE \E e \in headers : d \in HeaderClaims(e, i)
  <2>1. PICK e \in headers : d \in HeaderClaims(e, i)
    BY <1>8
  <2> DEFINE header == content.entries[e].data
  <2>2. PICK k \in 1 .. header.count : /\ d = [rank |-> 0, value |-> header.records[k].name.text]
                                       /\ header.records[k].name.text # NONE
    BY <2>1 DEF HeaderClaims
  <2>3. \A n \in 1 .. header.count : IsText(header.records[n].name.text)
    BY <1>4, <2>1 DEF IsStream
  <2> QED
    BY <2>2, <2>3 DEF IsText
<1> QED
  BY <1>5, <1>6, <1>7, <1>8

\* A name is a best claim; it and its alternates are the values of all claims, once each.
Decided(name, alternates, names, claims) ==
  LET best == {c.value : c \in {d \in claims : \A o \in claims : d.rank <= o.rank}}
  IN /\ \E k \in DOMAIN names : name = names[k]
     /\ name.value \in best
     /\ {name.value} \cup {a.value : a \in ToSet(alternates)} = {d.value : d \in claims}
     /\ Cardinality({d.value : d \in claims}) = 1 + Len(alternates)

\* Merged names are decided.
LEMMA RanksDecide ==
  ASSUME NEW names, NEW claims, claims # {}, RankedValues(names) = claims, IsList(names),
         \A k \in DOMAIN names : names[k].rank \in 0 .. 3,
         NEW m, m = MergeRankedNames(names)
  PROVE  Decided(FirstOf(m), IF m = <<>> THEN <<>> ELSE Tail(m), names, claims)
<1> DEFINE best == {c.value : c \in {d \in claims : \A o \in claims : d.rank <= o.rank}}
           name == FirstOf(m)
           alternates == IF m = <<>> THEN <<>> ELSE Tail(m)
           values == {d.value : d \in claims}
           pair(x) == [rank |-> x.rank, value |-> x.value]
<1>1. \A d : d \in claims <=> \E k \in DOMAIN names : d = pair(names[k])
  BY DEF RankedValues
<1>2. \A x : pair(x).rank = x.rank /\ pair(x).value = x.value
  OBVIOUS
<1> HIDE DEF pair
<1>3. names # <<>>
  BY <1>1, EmptyIsList
<1>4. /\ IsList(m) /\ \A n \in DOMAIN m : \E k \in DOMAIN names : m[n] = names[k]
      /\ \A i, j \in DOMAIN m : m[i].value = m[j].value => i = j
      /\ \A k \in DOMAIN names : \E n \in DOMAIN m : m[n].value = names[k].value
      /\ m # <<>> /\ \A k \in DOMAIN names : m[1].rank <= names[k].rank
  BY <1>3, NamesMerged
<1>5. 1 \in DOMAIN m /\ name = m[1]
  BY <1>4, EmptyList, FirstOfIs
<1> HIDE DEF name
<1>6. PICK k1 \in DOMAIN names : m[1] = names[k1]
  BY <1>4, <1>5
<1>7. name.value \in best
  <2>1. pair(names[k1]) \in claims /\ \A o \in claims : pair(names[k1]).rank <= o.rank
    BY <1>1, <1>2, <1>4, <1>6
  <2>2. pair(names[k1]).value \in best
    BY <2>1
  <2> HIDE DEF best
  <2> QED
    BY <1>2, <1>5, <1>6, <2>2
<1>8. /\ IsList(alternates) /\ Len(alternates) = Len(m) - 1
      /\ \A k \in DOMAIN alternates : k + 1 \in DOMAIN m /\ alternates[k] = m[k + 1]
      /\ \A k \in DOMAIN m : k = 1 \/ (k - 1 \in DOMAIN alternates /\ alternates[k - 1] = m[k])
  BY <1>4, TailIs
<1> HIDE DEF alternates
<1>9. \A v : v \in values <=> \E k \in DOMAIN names : v = names[k].value
  <2>1. \A v : v \in values <=> \E d \in claims : v = d.value
    OBVIOUS
  <2> HIDE DEF values
  <2> QED
    BY <1>1, <1>2, <2>1
<1>10. \A v : v \in values <=> \E n \in DOMAIN m : v = m[n].value
  <2> HIDE DEF values
  <2> QED
    BY <1>4, <1>9
<1>11. {name.value} \cup {a.value : a \in ToSet(alternates)} = values
  <2> DEFINE others == {a.value : a \in ToSet(alternates)}
  <2>1. \A v : v \in others <=> \E k \in DOMAIN alternates : v = alternates[k].value
    BY DEF ToSet
  <2> HIDE DEF others, values
  <2>2. \A v : v \in {name.value} \cup others <=> v \in values
    BY <1>5, <1>8, <1>10, <2>1
  <2>3. {name.value} \cup others = values
    BY <2>2
  <2> QED
    BY <2>3 DEF others
<1>12. Cardinality(values) = 1 + Len(alternates)
  <2> DEFINE f == [n \in DOMAIN m |-> m[n].value]
  <2>1. f \in [DOMAIN m -> values] /\ \A n \in DOMAIN m : f[n] = m[n].value
    <3> HIDE DEF values
    <3>1. \A n \in DOMAIN m : m[n].value \in values
      BY <1>10, Zenon
    <3> QED
      BY <3>1, Zenon
  <2> HIDE DEF f, values
  <2>2. /\ \A x, y \in DOMAIN m : f[x] = f[y] => x = y
        /\ \A z \in values : \E x \in DOMAIN m : f[x] = z
    <3>1. ASSUME NEW x \in DOMAIN m, NEW y \in DOMAIN m, f[x] = f[y] PROVE x = y
      <4>1. m[x].value = m[y].value
        BY <2>1, <3>1
      <4> QED
        BY <1>4, <4>1
    <3>2. \A x, y \in DOMAIN m : f[x] = f[y] => x = y
      BY <3>1
    <3>3. ASSUME NEW z \in values PROVE \E x \in DOMAIN m : f[x] = z
      <4>1. PICK n \in DOMAIN m : z = m[n].value
        BY <1>10
      <4> QED
        BY <2>1, <4>1
    <3> QED
      BY <3>2, <3>3
  <2>3. f \in Surjection(DOMAIN m, values) /\ f \in Injection(DOMAIN m, values)
    <3>1. f \in Surjection(DOMAIN m, values)
      BY <2>1, <2>2, Zenon DEF Surjection
    <3>2. f \in Injection(DOMAIN m, values)
      BY <2>1, <2>2, Zenon DEF Injection, IsInjective
    <3> QED
      BY <3>1, <3>2
  <2>4. DOMAIN m = 1 .. Len(m) /\ Len(m) \in Nat /\ IsFiniteSet(DOMAIN m)
    BY <1>4, ListFacts
  <2>5. IsFiniteSet(values)
    BY <2>3, <2>4, FS_Surjection
  <2>6. Cardinality(DOMAIN m) = Cardinality(values)
    BY <2>1, <2>2, <2>5, PairedOff
  <2>7. Cardinality(1 .. Len(m)) = Len(m)
    BY <2>4, FS_Interval, SMTT(30)
  <2> QED
    BY <1>8, <2>4, <2>6, <2>7
<1> HIDE DEF best, values
<1> QED
  <2>1. \E k \in DOMAIN names : name = names[k]
    BY <1>5, <1>6
  <2> QED
    BY <1>7, <1>11, <1>12, <2>1, Zenon DEF Decided, best, values, name, alternates

\* Both invariants together, with the claims of all streams.
LEMMA PrecedenceKept ==
  ASSUME ParserInv, BuilderTold, FactsFinished
  PROVE  NamesByPrecedence
<1> SUFFICES ASSUME Modern, NEW i \in Configurations, NameClaims(i) # {}
             PROVE  LET claims == NameClaims(i)
                        best == {c.value : c \in {d \in claims : \A o \in claims : d.rank <= o.rank}}
                        c == facts.configurations[i]
                    IN /\ c.name # NONE /\ c.name.value \in best
                       /\ {c.name.value} \cup {a.value : a \in ToSet(c.alternates)} = {d.value : d \in claims}
                       /\ Cardinality({d.value : d \in claims}) = 1 + Len(c.alternates)
  BY Zenon DEF NamesByPrecedence
<1> DEFINE R == ReadOf(builder, at)
           cs == facts.configurations
           claims == NameClaims(i)
<1>1. PICK u : /\ at = Len(content.entries) + 1 /\ IsFile(content) /\ NamesHeard(builder, at)
               /\ Resolved(u, builder, R)
               /\ cs = FinishConfigurations(builder, u)
  BY ModernFactsAre
<1>2. R \subseteq Nat
  BY <1>1, ListFacts DEF ReadOf, IsFile
<1> HIDE DEF R
<1> DEFINE names == u[i].names
           m == MergeRankedNames(names)
<1>3. i \in DOMAIN u /\ cs[i].name = FirstOf(m) /\ cs[i].alternates = IF m = <<>> THEN <<>> ELSE Tail(m)
  BY <1>1, ConfigurationsAre DEF Configurations
<1>4. claims = AllNames(builder, i)
  BY <1>1, AllClaimsHeard
<1>5. claims # {} /\ RankedValues(names) = claims
  BY <1>1, <1>3, <1>4 DEF Resolved
<1>6. From(names, R) /\ \A k \in DOMAIN names : IsRanked(names[k])
  BY <1>1, <1>3 DEF Resolved, CandidateNamed
<1>7. \A d \in claims : d.value \in STRING
  BY <1>1, ClaimsAreText
<1> HIDE DEF names, claims
<1>8. \A k \in DOMAIN names : names[k] # NONE
  <2> SUFFICES ASSUME NEW k \in DOMAIN names PROVE names[k] \in RankedName
    BY NoneAssumption
  <2> DEFINE n == names[k]
  <2>1. [rank |-> n.rank, value |-> n.value] \in claims
    BY <1>5 DEF RankedValues
  <2>2. n.value \in STRING
    <3> DEFINE d == [rank |-> n.rank, value |-> n.value]
    <3>1. d.value = n.value
      OBVIOUS
    <3> HIDE DEF d, n
    <3> QED
      BY <1>7, <2>1, <3>1 DEF d
  <2>3. IsRanked(n) /\ n.entry \in Nat
    BY <1>2, <1>6 DEF From
  <2> HIDE DEF n
  <2>4. n = [rank |-> n.rank, value |-> n.value, origin |-> n.origin, entry |-> n.entry]
    BY <2>3 DEF IsRanked, RankedValue
  <2>5. n \in RankedName
    BY <2>2, <2>3, <2>4 DEF IsRanked, RankedName
  <2> QED
    BY <2>5 DEF n
<1>9. IsList(names) /\ \A k \in DOMAIN names : names[k].rank \in 0 .. 3
  BY <1>6 DEF From, IsRanked
<1> HIDE DEF m
<1>10. m = MergeRankedNames(names)
  BY DEF m
<1>11. Decided(cs[i].name, cs[i].alternates, names, claims)
  BY <1>3, <1>5, <1>9, <1>10, RanksDecide
<1>12. cs[i].name # NONE
  BY <1>8, <1>11 DEF Decided
<1> QED
  BY <1>11, <1>12 DEF Decided, claims

\* Whatever order the streams are stored in, the name of a configuration is one of the best
\* ranked claims, and the others are its alternates, each value once (merge_ranked_names).
THEOREM BestNameWins == ParserSpec => []NamesByPrecedence
<1>1. ParserInv /\ BuilderTold /\ FactsFinished => NamesByPrecedence
  BY PrecedenceKept
<1> QED
  BY <1>1, Invariance, AlwaysTold, AlwaysFinished, PTL
=============================================================================
