------------------------------ MODULE MCScanBom ------------------------------
(***************************************************************************)
(* Small projects whose bill of materials is made: three host files, the   *)
(* references of module MCProjectScan with suppression and exclusion.      *)
(***************************************************************************)
EXTENDS ScanBom, SequencesExt

Stored == [kind |-> "component", path |-> "p", candidates |-> {},
           virtual |-> FALSE, stems |-> {}, configuration |-> NONE,
           suppressed |-> "no", excluded |-> "no", expected |-> NONE]
To(target) == [Stored EXCEPT !.candidates = {target}]
Asking(target, name) == [To(target) EXCEPT !.configuration = name]
Suppressed(seed) == [seed EXCEPT !.suppressed = "yes"]
Excluded(seed) == [seed EXCEPT !.excluded = "yes"]
Unstated(seed) == [seed EXCEPT !.suppressed = "unknown", !.excluded = "unknown"]

Assembly(configurations) ==
  [kind |-> "assembly", configurations |-> configurations,
   references |-> <<>>, embedded |-> <<>>]
Single(components) ==
  Assembly(<<[name |-> "Default", alternates |-> {}, components |-> components]>>)
Part == [Single(<<>>) EXCEPT !.kind = "part"]
Twofold(first, second) ==
  Assembly(<<[name |-> "Default", alternates |-> {}, components |-> first],
             [name |-> "Other", alternates |-> {}, components |-> second]>>)
Read(documents) == [status : {"partial"}, document : documents]

OneRoot == <<1>>

\* Suppressed, excluded, plain and unresolved occurrences of the other files.
FlaggedResults ==
  LET seeds == {Suppressed(To(2)), Excluded(To(3)), To(3)}
      others == {<<Excluded(Suppressed(To(3)))>>, <<Stored, Unstated(To(2))>>}
  IN Read({Part} \cup {Single(s) : s \in BoundedSeq(seeds, 2) \cup others})
     \cup {[status |-> "malformed", document |-> NONE]}

\* Configurations that call each other, in and out of cycles.
CyclicResults ==
  LET calls == {Asking(t, n) : t \in HostFile, n \in {"Default", "Other"}}
  IN Read({Twofold(s, <<t>>) : s \in BoundedSeq(calls, 1),
                               t \in {Asking(1, "Default"), Asking(3, "Other")}}
          \cup {Twofold(<<Asking(t, "Default")>>, <<>>) : t \in HostFile}
          \cup {Single(<<To(t), Asking(3, "Other")>>) : t \in HostFile})

\* Assemblies whose second configuration bears an alternate name of the first:
\* a request by that name finds two in the scan and one in the bill.
AliasedResults ==
  LET aliased(first, second) ==
        [Twofold(first, second) EXCEPT !.configurations[1].alternates = {"Other"}]
  IN Read({aliased(<<To(3)>>, <<To(3), Stored>>), aliased(<<>>, <<To(2)>>)})

ExpandedResults == FlaggedResults \cup CyclicResults \cup AliasedResults

\* Assemblies that suppress a subassembly, by what they store of it.
SuppressedResults ==
  LET stored == [Suppressed(To(2)) EXCEPT !.expected = "assembly"]
      seeds == {stored, [stored EXCEPT !.configuration = "Other"], To(2), To(3)}
  IN Read({Part, Twofold(<<stored>>, <<To(2)>>)}
          \cup {Single(s) : s \in BoundedSeq(seeds, 2)})
=============================================================================
