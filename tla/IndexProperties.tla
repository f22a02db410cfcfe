--------------------------- MODULE IndexProperties ---------------------------
(***************************************************************************)
(* What the directory index and the path rules must get right.             *)
(***************************************************************************)
EXTENDS ReferenceResolution

\* A walk from the directory "root" comes to the directory d.
Walked(root, d) ==
  /\ IsPrefix(root, d)
  /\ \A n \in Len(root) .. Len(d) - 1 :
       /\ SubSeq(d, 1, n) \notin fs.closed
       /\ [name |-> d[n + 1], kind |-> "directory"] \in fs.listing[SubSeq(d, 1, n)]

WalkedDirectories(root) == {d \in DOMAIN fs.listing : Walked(root, d)}

Found(root) ==
  UNION {{d \o <<e.name>> : e \in {x \in fs.listing[d] : x.kind = "file" /\ x.name \in CadNames}} :
         d \in WalkedDirectories(root) \ fs.closed}

EntriesBelow(root) ==
  UNION {{d \o <<e.name>> : e \in {x \in fs.listing[d] : x.kind # "unreadable"}} :
         d \in WalkedDirectories(root) \ fs.closed}

RootIds(f) == {r \in DOMAIN roots : f \in Found(roots[r])}

\* A finished index holds each CAD file below its roots once, however many
\* roots overlap there, with exactly the roots that reach it, and besides them
\* only the root document (scan_index_root, add_indexed_file).
IndexIsTheTree ==
  phase = "indexed" =>
    /\ \A i, j \in DOMAIN files : files[i].path = files[j].path => i = j
    /\ {files[i].path : i \in DOMAIN files} =
         (UNION {Found(roots[r]) : r \in DOMAIN roots})
         \cup (IF request.document = NONE THEN {} ELSE {request.document})
    /\ \A i \in DOMAIN files :
         files[i].members = IF RootIds(files[i].path) = {} THEN {1} ELSE RootIds(files[i].path)

\* The index calls itself partial exactly when an option named no directory or
\* something below a root could not be read: whatever is missing from it is
\* announced (build_index, scan_index_root).
LossIsAnnounced ==
  phase = "indexed" =>
    (partial <=> \/ \E m \in DOMAIN mappingRoots : mappingRoots[m] = NONE
                 \/ \E s \in DOMAIN searchRoots : searchRoots[s] = NONE
                 \/ \E r \in DOMAIN roots : \E d \in WalkedDirectories(roots[r]) :
                      \/ d \in fs.closed
                      \/ \E e \in fs.listing[d] : e.kind \in {"untyped", "unreadable"})

\* A project within the entry limit is refused for its entries only when two
\* of its roots overlap, where entries count once per root; and an index that
\* is accepted walked no more than the limit in each root (scan_index_root).
EntryLimitIsHonest ==
  LET all == UNION {EntriesBelow(roots[r]) : r \in DOMAIN roots}
  IN /\ phase = "too_many_entries" =>
          \/ Cardinality(all) > MaxProjectEntries
          \/ \E r, s \in DOMAIN roots : r # s /\ IsPrefix(roots[r], roots[s])
     /\ phase = "indexed" => Cardinality(all) <= MaxProjectEntries

\* The places a stored path names, leaving out any search by name alone.
NamedPlaces(source, stored) ==
  LET at(base) == Join(base, stored.parts)
  IN (IF stored.form = "relative" THEN {at(Front(files[source].path)), at(roots[1])} ELSE {})
     \cup (IF stored.form = "host" THEN {at(<<>>)} ELSE {})
     \cup {at(roots[r]) : r \in SearchRoots}

ByName == {"document_basename", "project_root_basename", "search_directory_basename"}

\* A file that only shares its name with the stored path is taken only when
\* nothing lies at any place the path names: moving a project can lose a
\* reference but never redirect one past the file it names (resolve).
NameIsLastResort ==
  answer # NONE /\ answer.result.basis \in ByName =>
    /\ \A place \in NamedPlaces(answer.source, answer.stored) : LookupHost(place) = {}
    /\ answer.stored.form = "windows" => MappingCandidates(answer.stored.parts) = {}

\* What is left of a stored path names a file: not its directory, not a drive.
NamesAFile(parts) == Undriven(parts) # <<>> /\ Last(parts) # Up

\* A file a reference may mean bears the stored name, up to case, unless the
\* stored path ends by leaving a directory; and a mapped path lies under the
\* target of the most specific mapping that fits, at the place left over from
\* its prefix (resolve, mapping_candidates).
CandidatesBearTheName ==
  answer # NONE =>
    \A c \in answer.result.candidates :
      LET path == files[c].path
          parts == answer.stored.parts
          named == Folded[Last(path)] = Folded[Basename(parts)]
      IN IF answer.result.basis = "windows_prefix_mapping"
         THEN \E m \in Fitting(parts) :
                LET prefix == request.mappings[m].prefix
                    rest == SubSeq(parts, Len(prefix) + 1, Len(parts))
                IN /\ \A o \in Fitting(parts) : Len(request.mappings[o].prefix) <= Len(prefix)
                   /\ FoldPath(path) = FoldPath(Join(request.mappings[m].target, rest))
                   /\ NamesAFile(rest) => named
         ELSE NamesAFile(parts) => named

=============================================================================
