------------------------------- MODULE MCIndex -------------------------------
(***************************************************************************)
(* A project beside a library with a nested archive, each with files that  *)
(* share a name with, or differ only in case from, another.                *)
(***************************************************************************)
EXTENDS IndexProperties

MCUp == ".."
MCNames == <<"C:", "Old", "P.prt", "a.prt", "lib", "link", "notes", "old", "p.prt", "proj", "sub", "top.asm">>
MCNameSet == {MCNames[i] : i \in DOMAIN MCNames}
MCRank == [n \in MCNameSet |-> CHOOSE i \in DOMAIN MCNames : MCNames[i] = n]
MCFolded == [n \in MCNameSet |-> CASE n = "P.prt" -> "p.prt" [] n = "Old" -> "old" [] OTHER -> n]
MCCad == {"P.prt", "a.prt", "p.prt", "top.asm"}
MCDrives == {"C:"}

E(name, kind) == [name |-> name, kind |-> kind]
Proj == <<"proj">>
Sub == <<"proj", "sub">>
Lib == <<"lib">>
Archive == <<"lib", "old">>

\* The parts of the library and of the archive vary, and one directory may
\* not open.
Tree(sub, lib, old, closed) ==
  [closed |-> closed,
   listing |-> [d \in {Proj, Sub, Lib, Archive} |->
     CASE d = Proj -> {E("sub", "directory"), E("link", "symlink"), E("notes", "file"),
                       E("top.asm", "file")}
       [] d = Sub -> sub
       [] d = Lib -> lib \cup {E("old", "directory")}
       [] d = Archive -> old]]

MCFileSystems ==
  {Tree(sub, lib, old, closed) :
     sub \in {{}, {E("p.prt", "file"), E("P.prt", "file")}, {E("a.prt", "untyped")}},
     lib \in {{}, {E("p.prt", "file")}, {E("a.prt", "unreadable")}},
     old \in {{E("p.prt", "file"), E("a.prt", "file")}},
     closed \in {{}, {Proj}, {Sub}, {Archive}}}

Top == <<"proj", "top.asm">>
Map(prefix, target) == [prefix |-> prefix, target |-> target]
Drive == <<"C:">>
Mappings ==
  {<<>>, <<Map(Drive, Lib)>>, <<Map(<<"C:", "Old">>, Archive), Map(Drive, Proj)>>,
   <<Map(<<"C:", "Old">>, Sub), Map(Drive, Lib)>>,
   <<Map(<<>>, Lib)>>, <<Map(Drive, NONE)>>}
Searches == {<<>>, <<Lib>>, <<Lib, Archive>>, <<Sub, <<"lib", "p.prt">>>>}

MCRequests ==
  [document: {NONE, Top}, root: {Proj}, mappings: Mappings, searches: Searches]
  \cup {[document |-> Top, root |-> NONE, mappings |-> <<>>, searches |-> s] : s \in Searches}
  \cup {[document |-> d, root |-> Lib, mappings |-> <<>>, searches |-> <<>>] :
          d \in {Top, <<"lib", "notes">>}}

Stored(form, parts) == [form |-> form, parts |-> parts]
MCStoredPaths ==
  {NONE, Stored("relative", <<"p.prt">>), Stored("relative", <<"sub", "P.prt">>),
   Stored("relative", <<MCUp, "lib", "a.prt">>), Stored("relative", <<"old", "p.prt">>),
   Stored("windows", <<"C:", "Old", "p.prt">>), Stored("windows", <<"C:", "old", "a.prt">>),
   Stored("windows", <<"C:", "sub", "p.prt">>), Stored("windows", <<"C:", "proj", "top.asm">>),
   Stored("host", <<"lib", "p.prt">>), Stored("relative", <<MCUp>>),
   Stored("relative", <<"p.prt", "notes", MCUp>>)}
=============================================================================
