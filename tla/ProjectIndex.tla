----------------------------- MODULE ProjectIndex -----------------------------
(***************************************************************************)
(* The bounded directory index of a project scan (build_index in           *)
(* project.rs): the directories an option names become index roots, each   *)
(* root is walked without following symlinks, and every CAD file found     *)
(* becomes one indexed file that remembers the roots that reach it.  The   *)
(* scanner of module ProjectScan starts from the index this module builds. *)
(*                                                                         *)
(* A path is the sequence of its names.  Labels, which only number and     *)
(* sort what is found here, are left out.                                  *)
(***************************************************************************)
EXTENDS Naturals, Sequences, FiniteSets, SequencesExt

CONSTANTS
  NONE,          \* an absent optional value, a path that does not resolve
  Names,         \* file and directory names
  Rank,          \* the order of file names, a number for each
  CadNames,      \* the names with a recognized CAD suffix (is_cad_path)
  FileSystems,   \* the trees a scan may meet
  Requests,      \* the root document and ProjectScanOptions of a call
  MaxProjectRoots, MaxProjectEntries, MaxProjectFiles \* ResourceLimits

VARIABLES
  fs,            \* the tree, which does not change during a scan
  request,       \* what the caller asked for
  phase,         \* how far build_index has come
  roots,         \* paths of the index roots, the project root first
  mappingRoots,  \* index root of each Windows prefix mapping, or NONE
  searchRoots,   \* index root of each search directory, or NONE
  files,         \* indexed files, in the order they were found
  scanning,      \* the index root being walked
  pending,       \* directories of that root still to be read
  directory,     \* the directory whose entries are being taken
  entries,       \* its entries still to be taken
  entriesSeen,   \* entries counted so far, over all roots
  partial        \* something could not be read

vars == <<fs, request, phase, roots, mappingRoots, searchRoots, files, scanning,
          pending, directory, entries, entriesSeen, partial>>

-----------------------------------------------------------------------------
(***************************************************************************)
(* Data.  An entry without a readable type counts and is lost; one that    *)
(* cannot be read at all is lost before it counts.                         *)
(***************************************************************************)
Path == Seq(Names)

Entry == [name: Names, kind: {"file", "directory", "symlink", "untyped", "unreadable"}]

\* "listing" gives every directory its entries, finitely many and one of a
\* name; the "closed" ones do not open.
IsFileSystem(f) ==
  /\ DOMAIN f.listing \subseteq Path
  /\ IsFiniteSet(DOMAIN f.listing)
  /\ f.closed \subseteq DOMAIN f.listing
  /\ \A d \in DOMAIN f.listing :
       /\ f.listing[d] \subseteq Entry
       /\ IsFiniteSet(f.listing[d])
       /\ \A e, o \in f.listing[d] : e.name = o.name => e = o
       /\ \A e \in f.listing[d] :
            e.kind = "directory" => d \o <<e.name>> \in DOMAIN f.listing

IsDirectory(path) == path \in DOMAIN fs.listing

IsFile(path) ==
  /\ path # <<>>
  /\ IsDirectory(Front(path))
  /\ [name |-> Last(path), kind |-> "file"] \in fs.listing[Front(path)]

\* "document" and "root" are canonical paths, NONE when not given.  A mapping
\* with an empty prefix is one whose source_prefix is blank.  A target that
\* does not resolve is NONE.
Mapping == [prefix: Path, target: Path \cup {NONE}]
Request == [document: Path \cup {NONE}, root: Path \cup {NONE},
            mappings: Seq(Mapping), searches: Seq(Path \cup {NONE})]

IndexedFile == [path: Path, members: SUBSET Nat]

ASSUME IndexNoneAssumption == NONE \notin Names \cup Nat
ASSUME RankAssumption ==
  /\ Rank \in [Names -> Nat]
  /\ \A m, n \in Names : Rank[m] = Rank[n] => m = n
  /\ CadNames \subseteq Names
ASSUME TreeAssumption == \A f \in FileSystems : IsFileSystem(f)
ASSUME RequestAssumption == Requests \subseteq Request
ASSUME IndexLimitAssumption ==
  /\ MaxProjectRoots \in Nat
  /\ MaxProjectEntries \in Nat
  /\ MaxProjectFiles \in Nat

\* Paths in the order of their names, a directory before what it holds.
Before(p, q) ==
  \/ IsStrictPrefix(p, q)
  \/ \E i \in DOMAIN p \cap DOMAIN q :
       /\ Rank[p[i]] < Rank[q[i]]
       /\ \A j \in 1 .. i - 1 : p[j] = q[j]

First(paths) == CHOOSE p \in paths : \A q \in paths \ {p} : Before(p, q)

FirstEntry(found) == CHOOSE e \in found : \A o \in found \ {e} : Rank[e.name] < Rank[o.name]

-----------------------------------------------------------------------------
(***************************************************************************)
(* Building the index.                                                     *)
(***************************************************************************)
ProjectRoot ==
  IF request.root # NONE THEN request.root
  ELSE IF request.document # NONE THEN Front(request.document) ELSE <<>>

\* What ends the scan before anything is indexed.
Refusal ==
  \/ 1 + Len(request.mappings) + Len(request.searches) > MaxProjectRoots
  \/ request.document # NONE /\ ~IsFile(request.document)
  \/ ~IsDirectory(ProjectRoot)
  \/ request.document # NONE /\ ~IsPrefix(ProjectRoot, request.document)

\* Position of a path among the roots, which may be the one to be added.
RootId(path) ==
  IF Contains(roots, path) THEN CHOOSE r \in DOMAIN roots : roots[r] = path
  ELSE Len(roots) + 1

AddRoot(path) ==
  roots' = IF Contains(roots, path) THEN roots ELSE Append(roots, path)

Init ==
  /\ fs \in FileSystems
  /\ request \in Requests
  /\ phase = "begin"
  /\ roots = <<>> /\ mappingRoots = <<>> /\ searchRoots = <<>>
  /\ files = <<>>
  /\ scanning = 0 /\ pending = {} /\ directory = NONE /\ entries = {}
  /\ entriesSeen = 0
  /\ partial = FALSE

Unscanned == UNCHANGED <<fs, request, files, scanning, pending, directory, entries, entriesSeen>>

Begin ==
  /\ phase = "begin"
  /\ phase' = IF Refusal THEN "refused" ELSE "options"
  /\ roots' = IF Refusal THEN <<>> ELSE <<ProjectRoot>>
  /\ UNCHANGED <<mappingRoots, searchRoots, partial>>
  /\ Unscanned

\* A directory option becomes a root of its own unless one has that path.
TakeMapping ==
  /\ phase = "options"
  /\ Len(mappingRoots) < Len(request.mappings)
  /\ LET mapping == request.mappings[Len(mappingRoots) + 1]
     IN IF mapping.prefix # <<>> /\ mapping.target # NONE /\ IsDirectory(mapping.target)
        THEN /\ mappingRoots' = Append(mappingRoots, RootId(mapping.target))
             /\ AddRoot(mapping.target)
             /\ UNCHANGED partial
        ELSE /\ mappingRoots' = Append(mappingRoots, NONE)
             /\ partial' = TRUE
             /\ UNCHANGED roots
  /\ UNCHANGED <<phase, searchRoots>>
  /\ Unscanned

TakeSearchDirectory ==
  /\ phase = "options"
  /\ Len(mappingRoots) = Len(request.mappings)
  /\ Len(searchRoots) < Len(request.searches)
  /\ LET path == request.searches[Len(searchRoots) + 1]
     IN IF path # NONE /\ IsDirectory(path)
        THEN /\ searchRoots' = Append(searchRoots, RootId(path))
             /\ AddRoot(path)
             /\ UNCHANGED partial
        ELSE /\ searchRoots' = Append(searchRoots, NONE)
             /\ partial' = TRUE
             /\ UNCHANGED roots
  /\ UNCHANGED <<phase, mappingRoots>>
  /\ Unscanned

\* Walks begin with the project root, each root after the one before it.
EnterRoot ==
  /\ \/ /\ phase = "options"
        /\ Len(searchRoots) = Len(request.searches)
        /\ Len(mappingRoots) = Len(request.mappings)
     \/ phase = "walk" /\ pending = {} /\ entries = {}
  /\ scanning < Len(roots)
  /\ phase' = "walk"
  /\ scanning' = scanning + 1
  /\ pending' = {roots[scanning + 1]}
  /\ UNCHANGED <<fs, request, roots, mappingRoots, searchRoots, files, directory,
                 entries, entriesSeen, partial>>

\* Mutant: a directory that does not open is passed over.
ReadDirectoryQuietly ==
  /\ phase = "walk" /\ entries = {} /\ pending # {}
  /\ LET next == First(pending)
     IN /\ pending' = pending \ {next}
        /\ directory' = next
        /\ entries' = IF next \in fs.closed THEN {}
                      ELSE {e \in fs.listing[next] : e.kind # "unreadable"}
        /\ partial' = partial
  /\ UNCHANGED <<fs, request, phase, roots, mappingRoots, searchRoots, files,
                 scanning, entriesSeen>>

ReadDirectory ==
  /\ phase = "walk" /\ entries = {} /\ pending # {}
  /\ LET next == First(pending)
         listed == IF next \in fs.closed THEN {} ELSE fs.listing[next]
     IN /\ pending' = pending \ {next}
        /\ directory' = next
        /\ entries' = {e \in listed : e.kind # "unreadable"}
        /\ partial' = (partial \/ next \in fs.closed
                               \/ \E e \in listed : e.kind = "unreadable")
  /\ UNCHANGED <<fs, request, phase, roots, mappingRoots, searchRoots, files,
                 scanning, entriesSeen>>

IndexedAt(path) == {i \in DOMAIN files : files[i].path = path}

\* Mutant: only the first root that reaches a file is remembered.
AddIndexedFileOnce(root, path) ==
  IF IndexedAt(path) # {} THEN UNCHANGED <<files, phase>>
  ELSE IF Len(files) >= MaxProjectFiles THEN phase' = "too_many_files" /\ UNCHANGED files
  ELSE files' = Append(files, [path |-> path, members |-> {root}]) /\ UNCHANGED phase

\* A file met again only gains the root that meets it.
AddIndexedFile(root, path) ==
  IF IndexedAt(path) # {}
  THEN /\ files' = [i \in DOMAIN files |->
                      IF i \in IndexedAt(path)
                      THEN [files[i] EXCEPT !.members = @ \cup {root}] ELSE files[i]]
       /\ UNCHANGED phase
  ELSE IF Len(files) >= MaxProjectFiles
       THEN phase' = "too_many_files" /\ UNCHANGED files
       ELSE /\ files' = Append(files, [path |-> path, members |-> {root}])
            /\ UNCHANGED phase

\* Mutant: the entry count starts again with each directory.
TakeEntryCountedLocally ==
  /\ phase = "walk" /\ entries # {}
  /\ LET entry == FirstEntry(entries)
         path == directory \o <<entry.name>>
         count == Cardinality({e \in fs.listing[directory] : Rank[e.name] <= Rank[entry.name]})
     IN /\ entries' = entries \ {entry}
        /\ entriesSeen' = count
        /\ IF count > MaxProjectEntries
           THEN phase' = "too_many_entries" /\ UNCHANGED <<files, pending, partial>>
           ELSE /\ partial' = (partial \/ entry.kind = "untyped")
                /\ pending' = IF entry.kind = "directory" THEN pending \cup {path} ELSE pending
                /\ IF entry.kind = "file" /\ entry.name \in CadNames
                   THEN AddIndexedFile(scanning, path)
                   ELSE UNCHANGED <<files, phase>>
  /\ UNCHANGED <<fs, request, roots, mappingRoots, searchRoots, scanning, directory>>

\* Every entry counts, once for each root whose walk meets it.  Symlinks and
\* files without a CAD suffix are passed over.
TakeEntry ==
  /\ phase = "walk" /\ entries # {}
  /\ LET entry == FirstEntry(entries)
         path == directory \o <<entry.name>>
     IN /\ entries' = entries \ {entry}
        /\ entriesSeen' = entriesSeen + 1
        /\ IF entriesSeen + 1 > MaxProjectEntries
           THEN phase' = "too_many_entries" /\ UNCHANGED <<files, pending, partial>>
           ELSE /\ partial' = (partial \/ entry.kind = "untyped")
                /\ pending' = IF entry.kind = "directory" THEN pending \cup {path} ELSE pending
                /\ IF entry.kind = "file" /\ entry.name \in CadNames
                   THEN AddIndexedFile(scanning, path)
                   ELSE UNCHANGED <<files, phase>>
  /\ UNCHANGED <<fs, request, roots, mappingRoots, searchRoots, scanning, directory>>

\* The root document is indexed even when no walk came to it.
AddRootDocument ==
  /\ phase = "walk" /\ pending = {} /\ entries = {} /\ scanning = Len(roots)
  /\ request.document # NONE /\ IndexedAt(request.document) = {}
  /\ AddIndexedFile(1, request.document)
  /\ UNCHANGED <<fs, request, roots, mappingRoots, searchRoots, scanning, pending,
                 directory, entries, entriesSeen, partial>>

FinishIndex ==
  /\ phase = "walk" /\ pending = {} /\ entries = {} /\ scanning = Len(roots)
  /\ request.document # NONE => IndexedAt(request.document) # {}
  /\ phase' = "indexed"
  /\ UNCHANGED <<fs, request, roots, mappingRoots, searchRoots, files, scanning,
                 pending, directory, entries, entriesSeen, partial>>

Next ==
  \/ Begin \/ TakeMapping \/ TakeSearchDirectory
  \/ EnterRoot \/ ReadDirectory \/ TakeEntry
  \/ AddRootDocument \/ FinishIndex

Spec == Init /\ [][Next]_vars
=============================================================================
