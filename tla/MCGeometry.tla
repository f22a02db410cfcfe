------------------------------- MODULE MCGeometry -------------------------------
(***************************************************************************)
(* Small inventories for geometry decoding.  Three families of sources:    *)
(* repeated paths and what the codec says of them, payloads that compete   *)
(* for the shared budget, and ledgers that agree or disagree.              *)
(***************************************************************************)
EXTENDS GeometryProperties, TLC

Stream(len, header, body) ==
  [len |-> len, cap |-> 9, sound |-> TRUE, header |-> header, body |-> body]
Payload1(storage, parts) == [storage |-> storage, parts |-> parts]
Path(name, words) == [name |-> name, words |-> words]
Entry(path, payload) ==
  [path |-> path, spelling |-> path.name, decoded |-> TRUE, extracts |-> TRUE, payload |-> payload]

A == Stream(3, "partition", "a")
B == Stream(2, "deltas", "b")
Other == Stream(2, "other", "c")
PartitionPath == Path("p", {"partition"})
DeltasPath == Path("d", {"deltas", "partition"})

-----------------------------------------------------------------------------
PassingGate ==
  [inspected |-> "complete", inventory |-> TRUE, envelope |-> "modern_chunk",
   rejected |-> FALSE, kind |-> "part", error |-> NONE]
MCGates ==
  {PassingGate}
  \cup {[PassingGate EXCEPT !.inspected = s] : s \in {"rejected", "malformed", "partial"}}
  \cup {[PassingGate EXCEPT !.inspected = "unsupported", !.inventory = i] : i \in BOOLEAN}
  \cup {[PassingGate EXCEPT !.envelope = "ole2"], [PassingGate EXCEPT !.rejected = TRUE]}
  \cup {[PassingGate EXCEPT !.kind = k] : k \in {"assembly", "drawing", "unknown"}}
  \cup {[PassingGate EXCEPT !.error = e] :
          e \in {"wrong_format", "not_implemented", "resource_limit", "truncated", "io",
                  "serialization"}}

-----------------------------------------------------------------------------
\* What the codec reads in an entry, within limits of its own.
Domain(e, entry, i, ordinal) ==
  [entry |-> e, offset |-> i, spelling |-> entry.spelling, ordinal |-> ordinal,
   stream |-> Bytes(entry.payload.parts[i]), spans |-> <<>>]
DomainsOf(e, entry) ==
  LET parts == entry.payload.parts
      read == SetToSortSeq({i \in DOMAIN parts :
                              /\ HasRole(parts[i]) /\ parts[i].sound
                              /\ ~\E j \in 1 .. i - 1 :
                                   parts[j].sound /\ Bytes(parts[j]) = Bytes(parts[i])}, <)
  IN [k \in DOMAIN read |-> Domain(e, entry, read[k], k)]
LedgerOf(inventory, read) ==
  [version |-> 1,
   domains |-> FlattenSeq([k \in 1 .. Cardinality(read) |->
                 LET e == SetToSortSeq(read, <)[k] IN DomainsOf(e, inventory[e])])]
NoLedger == [version |-> 1, domains |-> <<>>]

\* Every path may be named by what the codec derives, few by what it saw.
ProvenanceOf(inventory, paths) ==
  {[path |-> p, exactness |-> "byte_exact"] : p \in paths}
  \cup {[path |-> inventory[e].path, exactness |-> "derived"] : e \in DOMAIN inventory}

Facts(inventory, read) ==
  [read |-> read, active |-> NONE,
   provenance |-> ProvenanceOf(inventory, {inventory[e].path : e \in read}),
   transferred |-> TRUE, flawed |-> FALSE, ledger |-> LedgerOf(inventory, read)]

\* Entries that share a path or bear one of no interest; the codec read some
\* of them and tells by path, by provenance, by the ledger, or not at all.
Paths == {PartitionPath, DeltasPath, Path("g", {"partition", "ghost"}), Path("l", {"displaylists"})}
PathInventories ==
  {[e \in 1 .. 3 |-> [Entry(paths[e], Payload1("direct", <<B>>)) EXCEPT !.decoded = d[e]]] :
     paths \in [1 .. 3 -> Paths], d \in {<<TRUE, TRUE, TRUE>>, <<TRUE, TRUE, FALSE>>}}
PathSources ==
  {[entries |-> inventory,
    facts |-> [Facts(inventory, read) EXCEPT
                 !.active = a, !.provenance = ProvenanceOf(inventory, p), !.transferred = t,
                 !.ledger = l]] :
     <<inventory, read, a, p, t, l>> \in
       UNION {UNION {{inventory} \X {read}
                     \X ({NONE} \cup {inventory[e].path : e \in read})
                     \X (SUBSET {inventory[e].path : e \in read})
                     \X BOOLEAN
                     \X {NoLedger, LedgerOf(inventory, read),
                         [LedgerOf(inventory, read) EXCEPT !.version = 2]} :
                     read \in SUBSET {e \in DOMAIN inventory : inventory[e].decoded}} :
              inventory \in PathInventories}}

\* Payloads that spend probes, streams and bytes in every order.
W(len, body) == Stream(len, "partition", body)
Payloads ==
  {Payload1("direct", p) : p \in
     {<<>>, <<A>>, <<B, A>>, <<A, Other, B>>, <<Other, A, A>>, <<B, B, B>>, <<W(7, "w")>>}}
  \cup {Payload1("wrapped", p) : p \in
     {<<A>>, <<A, A>>, <<B, A>>, <<Other, B>>, <<W(4, "w"), B>>, <<W(7, "w"), B>>,
      <<[A EXCEPT !.sound = FALSE], A>>, <<[W(7, "w") EXCEPT !.sound = FALSE]>>,
      <<[A EXCEPT !.cap = 2], A>>, <<[A EXCEPT !.cap = 0], A>>, <<B, B, B, A>>}}
BudgetInventories ==
  {<<[Entry(DeltasPath, p) EXCEPT !.extracts = x], Entry(PartitionPath, q)>> :
     p \in Payloads, q \in Payloads, x \in BOOLEAN}
BudgetSources ==
  {[entries |-> i, facts |-> [Facts(i, {1, 2}) EXCEPT !.ledger = l, !.flawed = f]] :
     <<i, l, f>> \in UNION {{i} \X {NoLedger, LedgerOf(i, {1, 2})} \X BOOLEAN : i \in BudgetInventories}}

\* Reads that nest, overlap, touch, conflict or lie.
ReadSpan(offset, len, class) == [offset |-> offset, len |-> len, class |-> class, sound |-> TRUE]
Spans ==
  {ReadSpan(0, 3, "typed"), ReadSpan(1, 1, "typed"), ReadSpan(2, 2, "typed"), ReadSpan(3, 1, "uninterpreted"),
   ReadSpan(0, 0, "typed"), ReadSpan(3, 2, "typed"), [ReadSpan(0, 1, "typed") EXCEPT !.sound = FALSE]}
ReadInventory == <<Entry(PartitionPath, Payload1("direct", <<W(5, "w"), B>>))>>
Read == LedgerOf(ReadInventory, {1})
Ledgers ==
  {[Read EXCEPT !.domains[1].spans = s] : s \in UNION {[1 .. n -> Spans] : n \in 0 .. 3}}
  \cup {[Read EXCEPT !.domains = Tail(@)], [Read EXCEPT !.domains = Append(@, Head(@))],
        [Read EXCEPT !.domains[2].ordinal = 1], [Read EXCEPT !.domains[1].stream.body = "a"],
        [Read EXCEPT !.domains[1].spelling = "P"],
        [Read EXCEPT !.domains[1].offset = 3], [Read EXCEPT !.domains[1].entry = 2]}
LedgerSources ==
  {[entries |-> ReadInventory, facts |-> [Facts(ReadInventory, {1}) EXCEPT !.ledger = l]] :
     l \in Ledgers}

MCSources == PathSources \cup BudgetSources \cup LedgerSources
===============================================================================
