-------------------------------- MODULE MCParser --------------------------------
(***************************************************************************)
(* Modern and legacy documents of up to four streams, in every order, out *)
(* of streams that confirm, contradict and break each other.               *)
(***************************************************************************)
EXTENDS ParserProperties

Stream(path, index, data) == [path |-> path, index |-> index, state |-> "decoded", data |-> data]

-----------------------------------------------------------------------------
Good == [bytes |-> 2, nodes |-> 2, wellFormed |-> TRUE]
Broken == [Good EXCEPT !.wellFormed = FALSE]
Crowded == [Good EXCEPT !.nodes = 9]

Prop(name, of, value) ==
  [name |-> name, of |-> of, value |-> value, state |-> "present", section |-> "user"]

Node(index, rank, name) ==
  [index |-> index, rank |-> rank, name |-> name, parentNames |-> <<>>, parentIndices |-> <<>>,
   material |-> NONE]

ModelRef(model, configuration) ==
  [model |-> model, configuration |-> configuration, flags |-> {}]

Tree ==
  [xml |-> Good, kind |-> "assembly", roots |-> {},
   configs |-> <<Node(0, 0, "T"), [Node(1, 0, NONE) EXCEPT !.parentIndices = <<0>>]>>,
   files |-> <<[id |-> 1, path |-> "own", kind |-> "assembly"],
               [id |-> 2, path |-> "part", kind |-> "part"]>>,
   models |-> <<[id |-> 1, file |-> 1, index |-> 1, configuration |-> "T", box |-> "box",
                 references |-> <<ModelRef(2, NONE), ModelRef(3, "C")>>],
                [id |-> 2, file |-> 2, index |-> 0, configuration |-> "P", box |-> NONE,
                 references |-> <<ModelRef(3, NONE)>>]>>]

Keywords ==
  [xml |-> Good, features |-> 1,
   configs |-> <<[Node(0, 1, "K") EXCEPT !.material = "steel"], Node(1, 1, "L")>>,
   sheets |-> <<>>]

Utf16(text) == [form |-> "utf16", length |-> 1, whole |-> TRUE, text |-> text]

Record(index, text) ==
  [class |-> [form |-> "known"], name |-> Utf16(text), repeated |-> Utf16(text),
   opaque |-> <<[form |-> "empty"], Utf16("O")>>, cut |-> "no", index |-> index, parent |-> NONE]

Header(records) ==
  [class |-> [form |-> "new", length |-> 3, whole |-> TRUE, expected |-> TRUE],
   count |-> Len(records), records |-> records]

SheetNode(name) ==
  [typed |-> TRUE, name |-> name, views |-> <<[document |-> "part", configuration |-> "P"]>>]

Drawing == [xml |-> Good, features |-> 0, configs |-> <<>>,
            sheets |-> <<SheetNode("S"), SheetNode("S"), SheetNode("U")>>]

Names == [count |-> 3, names |-> <<Utf16("S"), Utf16("U"), Utf16("S")>>, padded |-> TRUE]

PngImage == <<"sig", "IHDR", "IDAT", "IEND">>
LongImage == <<"sig", "IHDR", "IDAT", "IDAT", "IEND">>

ModernStreams ==
  {Stream("custom", NONE, [xml |-> Good, properties |-> <<Prop("Configuration", NONE, "D")>>]),
   Stream("information", NONE,
     [xml |-> Good,
      properties |-> <<Prop("SW-Configuration Name", NONE, "A"), Prop("SW_UnitSystem", NONE, "0"),
                       Prop("SW-MassProp-Config", 0, "twelve numbers")>>]),
   Stream("config_properties", 0,
     [xml |-> Good, properties |-> <<Prop("Configuration", NONE, "T"), Prop("Finish", NONE, "F")>>]),
   Stream("config_properties", 0,
     [xml |-> Broken, properties |-> <<Prop("Configuration", NONE, "X")>>]),
   Stream("core", NONE, [xml |-> Crowded, texts |-> <<[name |-> "title", value |-> ""]>>]),
   Stream("features", NONE,
     [xml |-> Good, kind |-> "part", configs |-> <<Node(0, 1, "M"), Node(0, 0, "K")>>,
      files |-> <<[path |-> "own"], [path |-> "other"]>>]),
   Stream("tree", NONE, Tree),
   Stream("keywords", NONE, Keywords),
   Stream("keywords", NONE, Drawing),
   Stream("version", 19000, NONE),
   Stream("header", NONE, Header(<<Record(0, "H"), Record(1, "L")>>)),
   Stream("header", NONE, Header(<<Record(0, "H"), [Record(1, "L") EXCEPT !.opaque[2].form = "cut"]>>)),
   Stream("sheet_names", NONE, Names),
   Stream("preview", NONE, [bytes |-> <<"x">> \o PngImage \o <<"x">>]),
   Stream("preview", NONE, [bytes |-> LongImage]),
   Stream("config_preview", 0, [bytes |-> PngImage]),
   Stream("sheet_preview", 1, [bytes |-> PngImage]),
   Stream("sheet_preview", 2, [bytes |-> <<"x">> \o PngImage]),
   Stream("embedded", NONE, [probe |-> "ole2"]),
   [Stream("core", NONE, NONE) EXCEPT !.state = "stored"]}

-----------------------------------------------------------------------------
Value(id, offset, form, width) ==
  [id |-> id, at |-> offset, form |-> form, value |-> 1252, width |-> width, known |-> TRUE,
   padding |-> 0, length |-> 2, text |-> "ascii", terminated |-> TRUE]

Dictionary(offset, length) ==
  [Value(0, offset, "dictionary", 0) EXCEPT !.form = "other"]
  @@ [count |-> 1, names |-> <<[id |-> 5, length |-> length, decodable |-> TRUE, text |-> "N"]>>]

Section(offset, properties) ==
  [offset |-> offset, size |-> 48, count |-> Len(properties), format |-> "user_defined",
   properties |-> properties]

PropertySet(sections) ==
  [littleEndian |-> TRUE, version |-> 0, length |-> 140, count |-> Len(sections),
   sections |-> sections]

OneSet(properties) == PropertySet(<<Section(48, properties)>>)

LegacyStreams ==
  {Stream("/", NONE, [clsid |-> "part"]),
   Stream("/summary", NONE, OneSet(<<Value(1, 32, "i2", 2), Value(5, 38, "string", 0)>>)),
   Stream("/information", NONE, OneSet(<<Value(5, 42, "scalar", 8), Value(6, 32, "empty", 0)>>)),
   Stream("/information", NONE, OneSet(<<Value(5, 32, "scalar", 8), Value(6, 36, "empty", 0)>>)),
   Stream("/information", NONE, OneSet(<<Value(5, 32, "string", 0), Value(6, 36, "empty", 0)>>)),
   Stream("/config_properties", 0, OneSet(<<Dictionary(24, 2), Value(5, 40, "scalar", 4)>>)),
   Stream("/config_properties", 1,
     PropertySet(<<Section(68, <<Value(5, 32, "scalar", 4)>>),
                   Section(120, <<Value(6, 32, "scalar", 4)>>)>>)),
   Stream("version", 7000, NONE),
   Stream("/header", NONE, Header(<<[Record(1, "H") EXCEPT
                                       !.class = [form |-> "new", length |-> 3, whole |-> TRUE,
                                                  expected |-> TRUE]]>>)),
   Stream("/header", NONE, Header(<<Record(1, "H")>>)),
   Stream("/preview", NONE, [bytes |-> <<"len", "TEXT", "x">>, declared |-> 1, bitmap |-> "whole"]),
   Stream("/preview", NONE, [bytes |-> PngImage \o <<"x">>, declared |-> 0, bitmap |-> NONE]),
   Stream("/config_preview", 0, [bytes |-> LongImage, declared |-> 0, bitmap |-> NONE])}

-----------------------------------------------------------------------------
File(envelope, entries) ==
  [size |-> 3, envelope |-> envelope, status |-> "partial", entries |-> entries]

\* Every order of up to n of the streams.
Arrangements(streams, n) ==
  UNION {{s \in [1 .. k -> streams] : IsInjective(s)} : k \in 1 .. n}

SheetStreams == {s \in ModernStreams : s.path \in {"keywords", "sheet_names", "sheet_preview"}}

MCFiles ==
  {File("modern", s) : s \in Arrangements(ModernStreams, 3) \cup Arrangements(SheetStreams, 4)}
  \cup {File("ole2", s) : s \in Arrangements(LegacyStreams, 3)}

-----------------------------------------------------------------------------
\* One path: previews that others swap, extend, move or remove.
Pictures(bytes) == File("modern", <<Stream("preview", NONE, [bytes |-> bytes])>>)

MCReplacements ==
  {Pictures(<<"sig", "IHDR", "TEXT", "IDAT", "IEND">>), Pictures(<<"x">> \o PngImage),
   [Pictures(PngImage) EXCEPT !.size = 5], File("modern", <<>>),
   [Pictures(PngImage) EXCEPT !.status = "malformed"]}

MCPathFiles ==
  MCReplacements
  \cup {Pictures(PngImage), Pictures(PngImage \o <<"x">>),
        [Pictures(PngImage) EXCEPT !.size = 4],
        [Pictures(PngImage) EXCEPT !.entries[1].index = 7, !.entries[1].path = "sheet_preview"],
        [File("zip", <<>>) EXCEPT !.status = "unsupported"],
        [File("ole2", <<>>) EXCEPT !.status = "complete"],
        [File("none", <<>>) EXCEPT !.status = "unsupported"],
        [File("modern", <<>>) EXCEPT !.status = "rejected"]}
  \cup {File("ole2", <<s>>) : s \in LegacyStreams}
  \cup {File("modern", <<s>>) : s \in ModernStreams}

MCExtensions == {"sldprt", "bin"}
=============================================================================
