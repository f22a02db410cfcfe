------------------------- MODULE ReferenceResolution -------------------------
(***************************************************************************)
(* Which indexed files a stored reference may mean (ProjectIndex::resolve  *)
(* in project.rs).  Eight rules are tried in order, and the first that     *)
(* selects anything decides, whether it selects one file or several.       *)
(*                                                                         *)
(* A stored path is normalised: separators, empty and "." components are   *)
(* gone, and a drive is its first name.  Names are compared folded, and    *)
(* folding is taken to keep the length of a name.                          *)
(***************************************************************************)
EXTENDS ProjectIndex

CONSTANTS
  Folded,        \* the case-folded form of each name
  Drives,        \* names that are a Windows drive
  Up,            \* the parent component ".."
  StoredPaths    \* the stored paths to resolve

VARIABLE answer  \* the last reference resolved and what was selected

ASSUME FoldAssumption ==
  /\ Folded \in [Names -> Names]
  /\ \A n \in Names : Folded[Folded[n]] = Folded[n]
  /\ Up \notin Names /\ Drives \subseteq Names

\* "form" tells relative paths from host-absolute and Windows-absolute ones.
StoredPath == [form: {"relative", "host", "windows"}, parts: Seq(Names \cup {Up})]

ASSUME StoredAssumption == StoredPaths \subseteq StoredPath \cup {NONE}

-----------------------------------------------------------------------------
FoldPath(path) == [i \in DOMAIN path |-> Folded[path[i]]]

Undriven(parts) == IF parts # <<>> /\ parts[1] \in Drives THEN Tail(parts) ELSE parts

\* A stored path under a directory: each ".." leaves one directory.
Join(base, parts) ==
  LET Step(path, part) == IF part # Up THEN Append(path, part)
                          ELSE IF path = <<>> THEN <<>> ELSE Front(path)
  IN FoldLeft(Step, base, Undriven(parts))

\* The last component that is a name.
Basename(parts) ==
  LET at == SelectLastInSeq(parts, LAMBDA p : p # Up)
  IN IF at = 0 THEN NONE ELSE parts[at]

\* The lookup maps, which differ from the paths in case only.
LookupHost(path) == {i \in DOMAIN files : FoldPath(files[i].path) = FoldPath(path)}

LookupRootBasename(root, name) ==
  {i \in DOMAIN files : root \in files[i].members /\ Folded[Last(files[i].path)] = Folded[name]}

IsPrefixOf(mapping, parts) ==
  /\ mapping.prefix # <<>>
  /\ Len(mapping.prefix) <= Len(parts)
  /\ \A i \in DOMAIN mapping.prefix :
       parts[i] # Up /\ Folded[parts[i]] = Folded[mapping.prefix[i]]

\* The usable mappings whose prefix fits, and the longest among them.
Fitting(parts) ==
  {m \in DOMAIN mappingRoots :
     mappingRoots[m] # NONE /\ IsPrefixOf(request.mappings[m], parts)}

\* Mutant: every mapping that fits is used, not only the longest.
AnyFitting(parts) == Fitting(parts)

Longest(parts) ==
  {m \in Fitting(parts) : \A o \in Fitting(parts) :
     Len(request.mappings[o].prefix) <= Len(request.mappings[m].prefix)}

MappingCandidates(parts) ==
  UNION {LookupHost(Join(roots[mappingRoots[m]],
                         SubSeq(parts, Len(request.mappings[m].prefix) + 1, Len(parts)))) :
         m \in Longest(parts)}

SearchRoots == {searchRoots[s] : s \in DOMAIN searchRoots} \ {NONE}

SearchRelativeCandidates(parts) ==
  UNION {LookupHost(Join(roots[r], parts)) : r \in SearchRoots}

SearchBasenameCandidates(name) ==
  UNION {LookupRootBasename(r, name) : r \in SearchRoots}

\* Mutant: the document's own directory is searched by name before any
\* search directory is tried with the whole path.
NameBeforeSearch ==
  <<"document_relative", "project_root_relative", "host_absolute", "windows_prefix_mapping",
    "document_basename", "search_directory_relative", "project_root_basename",
    "search_directory_basename">>

RuleOrder ==
  <<"document_relative", "project_root_relative", "host_absolute", "windows_prefix_mapping",
    "search_directory_relative", "document_basename", "project_root_basename",
    "search_directory_basename">>

\* What each rule selects.
Selected(source, stored) ==
  LET parent == Front(files[source].path)
      name == Basename(stored.parts)
      If(condition, found) == IF condition THEN found ELSE {}
  IN [document_relative |->
        If(stored.form = "relative", LookupHost(Join(parent, stored.parts))),
      project_root_relative |->
        If(stored.form = "relative", LookupHost(Join(roots[1], stored.parts))),
      host_absolute |-> If(stored.form = "host", LookupHost(Join(<<>>, stored.parts))),
      windows_prefix_mapping |->
        If(stored.form = "windows", MappingCandidates(stored.parts)),
      search_directory_relative |-> SearchRelativeCandidates(stored.parts),
      document_basename |-> If(name # NONE, LookupHost(Append(parent, name))),
      project_root_basename |-> If(name # NONE, LookupRootBasename(1, name)),
      search_directory_basename |-> If(name # NONE, SearchBasenameCandidates(name))]

Classify(basis, found) ==
  [status |-> IF Cardinality(found) = 1 THEN "resolved" ELSE "ambiguous",
   basis |-> basis, candidates |-> found]

Unanswered(status) == [status |-> status, basis |-> NONE, candidates |-> {}]

Resolve(source, stored) ==
  IF stored = NONE THEN Unanswered("no_stored_path")
  ELSE LET selected == Selected(source, stored)
           deciding == SelectInSeq(RuleOrder, LAMBDA basis : selected[basis] # {})
       IN IF deciding = 0 THEN Unanswered("missing")
          ELSE Classify(RuleOrder[deciding], selected[RuleOrder[deciding]])

\* No answer at all is told from every rule that decides one.
ASSUME BasisAssumption == \A i \in DOMAIN RuleOrder : RuleOrder[i] # NONE

-----------------------------------------------------------------------------
ResolutionInit == Init /\ answer = NONE

BuildIndex == Next /\ UNCHANGED answer

ResolveReference(source, stored) ==
  /\ phase = "indexed"
  /\ answer' = [source |-> source, stored |-> stored, result |-> Resolve(source, stored)]
  /\ UNCHANGED vars

ResolutionNext ==
  \/ BuildIndex
  \/ \E source \in DOMAIN files, stored \in StoredPaths : ResolveReference(source, stored)

ResolutionSpec ==
  ResolutionInit /\ [][ResolutionNext]_<<vars, answer>>
=============================================================================
