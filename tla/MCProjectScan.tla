---------------------------- MODULE MCProjectScan ----------------------------
(***************************************************************************)
(* Small projects for TLC: three host files and every document that can    *)
(* be put together from a handful of references.                           *)
(***************************************************************************)
EXTENDS ProjectScanProperties, SequencesExt

Stored == [kind |-> "component", path |-> "p", candidates |-> {},
           virtual |-> FALSE, stems |-> {}, configuration |-> NONE,
           suppressed |-> "no", excluded |-> "no", expected |-> NONE]
To(target) == [Stored EXCEPT !.candidates = {target}]
Asking(target, name) == [To(target) EXCEPT !.configuration = name]
External(seed) == [seed EXCEPT !.kind = "external"]
Suppressed(seed) == [seed EXCEPT !.suppressed = "yes"]
Embedded(name) == [Stored EXCEPT !.virtual = TRUE, !.stems = {name}]

Single(components) ==
  <<[name |-> "Default", alternates |-> {}, components |-> components]>>
Assembly(configurations) ==
  [kind |-> "assembly", configurations |-> configurations,
   references |-> <<>>, embedded |-> <<>>]
Part == [Assembly(Single(<<>>)) EXCEPT !.kind = "part"]
Read(documents) == [status : {"partial"}, document : documents]

OneRoot == <<1>>
AllRoots == <<2, 1, 3>>

\* Cycles, diamonds, repeated occurrences, dead ends: at most two components.
TangledResults ==
  Read({Part} \cup
       {Assembly(Single(s)) :
          s \in BoundedSeq({To(t) : t \in HostFile} \cup
                           {Stored, Suppressed(To(2))}, 2)})

\* Two configurations, a name that is canonical in one and alternate in the
\* other, and references that ask for one of them, for none, or for neither.
Twofold(first, second, alternates) ==
  Assembly(<<[name |-> "Default", alternates |-> {}, components |-> first],
             [name |-> "Other", alternates |-> alternates, components |-> second]>>)
ConfiguredResults ==
  LET components == BoundedSeq({Asking(2, "Other"), Asking(3, "Other"), To(1)}, 1)
  IN Read({Twofold(s, t, {}) : s, t \in components}
          \cup {Twofold(<<Asking(t, "Other"), Asking(t, "Default")>>, <<>>, {"Default"}) :
                  t \in HostFile}
          \cup {Assembly(Single(s)) : s \in components})

ScannedResults == TangledResults \cup ConfiguredResults

\* Documents that do not parse, or only half, document references, metadata
\* that expects another kind, ambiguous candidates and embedded documents.
TroubledResults ==
  LET seeds == {Stored, [Stored EXCEPT !.path = NONE],
                [To(2) EXCEPT !.expected = "part"],
                [Stored EXCEPT !.candidates = {2, 3}],
                Embedded("Inner"), [Embedded("Inner") EXCEPT !.candidates = {3}]}
      drawing == [Assembly(<<>>) EXCEPT !.kind = "drawing",
                    !.references = <<External(To(1)), To(3), External(To(2))>>]
      good == {Part, drawing}
        \cup {Assembly(Single(s)) : s \in BoundedSeq(seeds, 1)}
        \cup {[Assembly(Single(<<Embedded("Inner"), To(2)>>)) EXCEPT !.embedded = e] :
                e \in {<<"Inner">>, <<"Inner", "Inner">>, <<"Inner", "Other">>}}
  IN Read(good)
     \cup {[status |-> "malformed", document |-> NONE],
           [status |-> "unsupported", document |-> Assembly(<<>>)],
           [status |-> "rejected", document |-> Assembly(Single(<<To(2), To(3)>>))]}

\* What the files of a project index parse to: the troubled documents, and
\* assemblies that call each other.
IndexResults ==
  TroubledResults \cup
    Read({Assembly(Single(s)) : s \in BoundedSeq({To(t) : t \in HostFile}, 2)})
=============================================================================
