------------------------------ MODULE OxgLayouts ------------------------------
(***************************************************************************)
(* The life of a topology file: a graph or a hypergraph is built, frozen,  *)
(* exported with or without property layers, perhaps damaged on the way,   *)
(* opened, and read.  The container, the two layouts and the property      *)
(* columns come from the modules extended here.                            *)
(***************************************************************************)
EXTENDS OxgBcsr, OxgProperty, FiniteSets

CONSTANTS
  MaxSize,        \* bound: nodes and edges, or vertices and twice the hyperedges, of a builder
  MaxParticipants, \* bound: participants of one side of a hyperedge
  MaxIncidences,  \* bound: incidences of a hypergraph
  MaxDamage       \* bound: size of a topology whose file is damaged, one less with layers

VARIABLES
  phase,    \* "build", "frozen", "exported", "damaged", "patched", "opened", "verified" or "refused"
  kind,     \* which layout the run is about: "graph" or "hyper"
  b,        \* the builder
  frozen,   \* what freezing returned
  layers,   \* the property layers given to the export
  file,     \* the exported file
  intact,   \* nothing has damaged the file
  snap      \* the opened container

vars == <<phase, kind, b, frozen, layers, file, intact, snap>>

-----------------------------------------------------------------------------
(* Exports *)

Width(k, payload) == [kind |-> k, version |-> 1, alignment_log2 |-> 1, payload |-> payload]

csr_sections(t) == <<Width(4, t.offsets), Width(8, t.targets)>>

BcsrNames == <<"head_offsets", "head_participants", "tail_offsets", "tail_participants",
               "vertex_outgoing_offsets", "vertex_outgoing_hyperedges",
               "vertex_incoming_offsets", "vertex_incoming_hyperedges">>
add_topology_sections(s) == [i \in DOMAIN BcsrNames |-> Width(28 + 4 * i, s[BcsrNames[i]])]

bcsr_local_incidence_to_canonical(total) ==
  IF total = 0 \/ Fits(total - 1, IncidenceMax) THEN Ok([i \in 1..total |-> i - 1]) ELSE Err("IdOverflow")

OfFamily(ls, family) == SelectSeq(ls, LAMBDA l : l.d.id_family = family)

\* Relation layers are given by edge id and stored by CSR position.
encode_graph_properties(t, ls) ==
  LET relation == OfFamily(ls, "Relation")
      rekeyed == [i \in DOMAIN relation |-> rekey_layer_to_local(relation[i], t.edge_ids)]
  IN  CASE ~validate_layer_lengths(OfFamily(ls, "Element"), t.node_count) -> Bad("PropertyLayerTooShort")
        [] ~validate_layer_lengths(relation, Len(t.sources)) -> Bad("PropertyLayerTooShort")
        [] \E i \in DOMAIN rekeyed : rekeyed[i].err # "Ok" -> Bad("Rekey")
        [] OTHER -> encode_property_snapshot(
                      OfFamily(ls, "Element") \o [i \in DOMAIN rekeyed |-> rekeyed[i].val])

encode_hyper_properties(g, ls) ==
  LET map == bcsr_local_incidence_to_canonical(incidence_bound(g))
      incidence == OfFamily(ls, "Incidence")
      rekeyed == [i \in DOMAIN incidence |-> rekey_layer_to_local(incidence[i], map.val)]
  IN  CASE ~validate_layer_lengths(OfFamily(ls, "Element"), g.counts.vertices)
             \/ ~validate_layer_lengths(OfFamily(ls, "Relation"), g.counts.hyperedges)
             \/ ~validate_layer_lengths(incidence, incidence_bound(g)) -> Bad("PropertyLayerTooShort")
        [] map.err # "Ok" -> Bad("IdOverflow")
        [] \E i \in DOMAIN rekeyed : rekeyed[i].err # "Ok" -> Bad("Rekey")
        [] OTHER -> encode_property_snapshot(OfFamily(ls, "Element") \o OfFamily(ls, "Relation")
                                             \o [i \in DOMAIN rekeyed |-> rekeyed[i].val])

\* The sections of an export, or why there is none.
graph_export(t, ls) ==
  LET encoded == encode_graph_properties(t, ls) IN
    CASE ls = <<>> -> Good(csr_sections(t))
      [] encoded.err # "Ok" -> encoded
      [] OTHER -> Good(csr_sections(t) \o append_identity_and_property_sections(
             encoded.val,
             <<LocalEqualsCanonical("Element", t.node_count), ExplicitMap("Relation", Len(t.edge_ids))>>,
             MapKind("Relation"), t.edge_ids))

hyper_export(g, ls) ==
  LET encoded == encode_hyper_properties(g, ls) IN
    CASE ls = <<>> -> Good(add_topology_sections(g.sections))
      [] encoded.err # "Ok" -> encoded
      [] OTHER -> Good(add_topology_sections(g.sections) \o append_identity_and_property_sections(
             encoded.val,
             <<LocalEqualsCanonical("Element", g.counts.vertices),
               LocalEqualsCanonical("Relation", g.counts.hyperedges),
               ExplicitMap("Incidence", incidence_bound(g))>>,
             MapKind("Incidence"), bcsr_local_incidence_to_canonical(incidence_bound(g)).val))

Export(ls) == IF kind = "graph" THEN graph_export(frozen, ls) ELSE hyper_export(frozen.view, ls)

\* The table has room for exactly the sections of the export.
MaxSections(sections) ==
  CASE kind = "graph" /\ Len(sections) = 2 -> 2 [] kind = "graph" -> 6
    [] kind = "hyper" /\ Len(sections) = 8 -> 8 [] OTHER -> 12

-----------------------------------------------------------------------------
(* Opening *)

csr_from_snapshot(s) ==
  LET offsets == typed_section(s, 4, 1, 1)
      targets == typed_section(s, 8, 1, 1)
  IN  CASE offsets.err # "Ok" -> offsets
        [] targets.err # "Ok" -> targets
        [] offsets.val = <<>> -> Err("OffsetsEmpty")
        [] ~Fits(Len(offsets.val) - 1, NodeMax) -> Err("NodeCountOverflow")
        [] OTHER -> validate_csr(Len(offsets.val) - 1, offsets.val, targets.val)

load_sections(s) ==
  LET loaded == [i \in DOMAIN BcsrNames |-> typed_section(s, 28 + 4 * i, 1, 1)]
      At(name) == loaded[CHOOSE i \in DOMAIN BcsrNames : BcsrNames[i] = name].val
  IN  IF \E i \in DOMAIN loaded : loaded[i].err # "Ok" THEN Err("SectionBind")
      ELSE Ok([name \in Range(BcsrNames) |-> At(name)])

bcsr_from_snapshot_with(s, level) ==
  LET sections == load_sections(s) IN
    IF sections.err = "Ok" THEN open_with(sections.val, level) ELSE sections

-----------------------------------------------------------------------------
(* Building *)

Init ==
  /\ phase = "build" /\ kind \in {"graph", "hyper"}
  /\ b = IF kind = "graph" THEN GraphBuilder ELSE HypergraphBuilder
  /\ frozen = <<>> /\ layers = <<>> /\ file = <<>> /\ intact = TRUE /\ snap = <<>>

\* A builder call that is refused changes nothing.
Built(result) ==
  /\ result.err = "Ok"
  /\ b' = result.val
  /\ UNCHANGED <<phase, kind, frozen, layers, file, intact, snap>>

Changed == 7   \* the weight that the set_*_weight calls of a run store
Size == IF kind = "graph" THEN b.node_count + Len(b.sources) ELSE b.vertex_count + 2 * Len(b.hyperedges)
Room == Size < MaxSize
Incidences(hyperedges) ==
  FoldLeft(LAMBDA n, h : n + Len(h.sources) + Len(h.targets), 0, hyperedges)
Unset ==
  /\ Changed \notin (Range(b.element_weights) \cup Range(b.relation_weights))
  /\ kind = "hyper" => \A i \in DOMAIN b.hyperedges :
       Changed \notin Range(Weights(b.hyperedges[i].sources \o b.hyperedges[i].targets))

AddNode ==
  /\ phase = "build" /\ kind = "graph" /\ Room
  /\ Built(add_node(b, b.node_count))

AddEdge ==
  /\ phase = "build" /\ kind = "graph" /\ Room
  /\ \E s, t \in 0..b.node_count : Built(add_edge(b, s, t, Len(b.sources)))

SetWeight ==
  /\ phase = "build" /\ kind = "graph" /\ Unset /\ b.node_count <= 2
  /\ \/ \E n \in 0..b.node_count : Built(set_element_weight(b, n, Changed))
     \/ \E e \in 0..Len(b.sources) : Built(set_relation_weight(b, e, Changed))

AddVertex ==
  /\ phase = "build" /\ kind = "hyper" /\ Room
  /\ Built(add_vertex(b, b.vertex_count))

\* Participants in the order the caller lists them, weighted by position.
Participants(n, first) ==
  UNION {{[i \in 1..k |-> <<vs[i], first + i>>] : vs \in [1..k -> 0..n]} : k \in 0..MaxParticipants}

AddHyperedge ==
  /\ phase = "build" /\ kind = "hyper" /\ Size + 1 < MaxSize
  /\ \E sources \in Participants(b.vertex_count - 1, 10), targets \in Participants(b.vertex_count - 1, 20) :
       /\ Incidences(b.hyperedges) + Len(sources) + Len(targets) <= MaxIncidences
       /\ Built(add_hyperedge(b, sources, targets, Len(b.hyperedges)))

SetHyperWeight ==
  /\ phase = "build" /\ kind = "hyper" /\ Unset /\ b.vertex_count <= 2 /\ Incidences(b.hyperedges) <= 3
  /\ \/ \E v \in 0..b.vertex_count : Built(set_vertex_weight(b, v, Changed))
     \/ \E h \in 0..Len(b.hyperedges) : Built(set_hyperedge_weight(b, h, Changed))
     \/ \E h \in 0..Len(b.hyperedges), side \in {"sources", "targets"}, p \in 0..1 :
          Built(set_incidence_weight(b, h, side, p, Changed))

-----------------------------------------------------------------------------
(* Freezing, exporting, damage and opening *)

Freeze ==
  /\ phase = "build"
  /\ LET result == IF kind = "graph" THEN freeze(b) ELSE hyper_freeze(b) IN
       /\ phase' = IF result.err = "Ok" THEN "frozen" ELSE "refused"
       /\ frozen' = result.val
  /\ UNCHANGED <<kind, b, layers, file, intact, snap>>

Descriptor(id, family, storage) ==
  [layer_id |-> id, name |-> id, id_family |-> family, role |-> 0, storage |-> storage, nullable |-> FALSE]

DenseLayer(id, family, len) ==
  try_new_dense(Descriptor(id, family, "Dense"), [i \in 1..len |-> 10 * id + i]).val

\* Values for the ids of a subset, in ascending order.
SparseLayer(id, family, len, subset) ==
  LET indices == SelectSeq([i \in 1..len |-> i - 1], LAMBDA i : i \in subset) IN
    try_new_sparse(Descriptor(id, family, "SparseDefault"), len, indices,
                   [i \in DOMAIN indices |-> 10 * id + indices[i]], <<5>>).val

\* No layers; one dense layer for each family; a sparse layer over some ids of the
\* rekeyed family; a layer that is a row longer; a layer id used twice.
LayerChoices ==
  LET n == IF kind = "graph" THEN frozen.node_count ELSE frozen.view.counts.vertices
      family == IF kind = "graph" THEN "Relation" ELSE "Incidence"
      m == IF kind = "graph" THEN Len(frozen.sources) ELSE incidence_bound(frozen.view)
  IN  {<<>>, <<DenseLayer(1, "Element", n), DenseLayer(2, family, m + 1)>>,
       <<DenseLayer(1, "Element", n), DenseLayer(1, family, m)>>}
      \cup {<<SparseLayer(1, family, m, subset)>> :
              subset \in IF kind = "graph" THEN SUBSET (0..(m - 1)) ELSE {{0} \cap (0..(m - 1))}}

\* An export does not read the builders' weights, so only unweighted ones are followed.
ExportFile ==
  /\ phase = "frozen" /\ Unset
  /\ \E ls \in LayerChoices :
       LET sections == Export(ls) IN
         /\ sections.err = "Ok"
         /\ LET written == WriteAll(MaxSections(sections.val), sections.val) IN
              /\ written.err = "Ok"
              /\ file' = finish(written.val)
              /\ layers' = ls
  /\ phase' = "exported"
  /\ UNCHANGED <<kind, b, frozen, intact, snap>>

Near(n) == {n + 1} \cup IF n > 0 THEN {n - 1} ELSE {}

\* One word of a payload, of a table entry or of the header changes, or the file
\* loses its end.
Damaged(f) ==
  {[f EXCEPT !.cells[p] = v] : p \in (HEADER_SIZE + Len(f.table) + 1)..Len(f.cells), v \in {0, 1, 2}}
  \cup UNION {{[f EXCEPT !.table[i][field] = v] : v \in Near(f.table[i][field])} :
                i \in DOMAIN f.table, field \in {"offset", "length", "kind", "version", "flags"}}
  \cup {[f EXCEPT !.header.section_count = v] : v \in Near(f.header.section_count)}
  \cup {[f EXCEPT !.cells = SubSeq(@, 1, k)] : k \in 0..(Len(f.cells) - 1)}

DamageFile ==
  /\ phase = "exported"
  /\ Size + (IF layers = <<>> THEN 0 ELSE 1) <= MaxDamage
  /\ file' \in Damaged(file) \ {file}
  /\ phase' = "damaged" /\ intact' = FALSE
  /\ UNCHANGED <<kind, b, frozen, layers, snap>>

\* An editor that changed a payload stores its new checksum.
PatchCrc ==
  /\ phase = "damaged"
  /\ \E i \in DOMAIN file.table :
       LET patched == patch_section_crc(file, file.table[i].kind) IN
         /\ patched.err = "Ok" /\ patched.val # file
         /\ file' = patched.val
  /\ phase' = "patched"
  /\ UNCHANGED <<kind, b, frozen, layers, intact, snap>>

Open ==
  /\ phase \in {"exported", "damaged", "patched"}
  /\ LET result == open_at(file, "Layout") IN
       /\ phase' = IF result.err = "Ok" THEN "opened" ELSE "refused"
       /\ snap' = result.val
  /\ UNCHANGED <<kind, b, frozen, layers, file, intact>>

OpenChecked ==
  /\ phase \in {"exported", "damaged", "patched"}
  /\ LET result == open_checked(file) IN
       /\ phase' = IF result.err # "Ok" THEN "refused"
                   ELSE IF verify_all(result.val) THEN "verified" ELSE "refused"
       /\ snap' = result.val
  /\ UNCHANGED <<kind, b, frozen, layers, file, intact>>

Next ==
  \/ AddNode \/ AddEdge \/ SetWeight \/ AddVertex \/ AddHyperedge \/ SetHyperWeight
  \/ Freeze \/ ExportFile \/ DamageFile \/ PatchCrc \/ Open \/ OpenChecked

Spec == Init /\ [][Next]_vars

-----------------------------------------------------------------------------
(* Properties *)

\* The builders' arrays stay in step: every edge has two ends and a weight, every
\* vertex and hyperedge a weight (GraphBuilder, WeightedHypergraphBuilder).
TypeOK ==
  /\ phase \in {"build", "frozen", "exported", "damaged", "patched", "opened", "verified", "refused"}
  /\ IF kind = "graph"
     THEN /\ Len(b.targets) = Len(b.sources) /\ Len(b.relation_weights) = Len(b.sources)
          /\ Len(b.element_weights) = b.node_count
     ELSE Len(b.element_weights) = b.vertex_count /\ Len(b.relation_weights) = Len(b.hyperedges)

EdgesOf(u) == SelectSeq([i \in DOMAIN b.sources |-> i - 1], LAMBDA e : b.sources[e + 1] = u)

\* A frozen row lists exactly the edges added from its node, parallel edges and loops
\* included, in the order they were added (freeze_topology's counting sort).
FrozenKeepsOrder ==
  phase = "frozen" /\ kind = "graph" =>
    \A u \in 0..(frozen.node_count - 1) :
      /\ frozen_outgoing_edges(frozen, u) = EdgesOf(u)
      /\ frozen_successors(frozen, u) = Row(frozen.offsets, frozen.targets, u)

\* Transposing keeps edge identities: an edge is in the row of its target in the
\* transpose exactly when it is in the row of its source, and twice is the original.
TransposeMirrors ==
  phase = "frozen" /\ kind = "graph" =>
    LET back == transpose(frozen).val IN
      /\ \A u, v \in 0..(frozen.node_count - 1), e \in Range(frozen.edge_ids) :
           (e \in Range(frozen_outgoing_edges(back, v)) /\ frozen_endpoints(back, e)[2] = u)
             <=> (e \in Range(frozen_outgoing_edges(frozen, u)) /\ frozen_endpoints(frozen, e)[2] = v)
      /\ transpose(back).val = frozen
      /\ as_view(back).err = "Ok" =>
           \A v \in 0..(frozen.node_count - 1) :
             predecessors(as_view(back).val, v)
               = LET into == frozen_outgoing_edges(back, v) IN
                   [i \in DOMAIN into |-> frozen_endpoints(frozen, into[i])[1]]

\* The incidence, its role, its relation and its element agree, from either side: this
\* is what the traits of the hypergraph views promise of any view that opens.
Coherent(g) ==
  \A n \in 0..(incidence_bound(g) - 1) :
    LET h == incidence_relation(g, n)
        v == incidence_element(g, n)
    IN  /\ hyper_local_id(v, g.counts.vertices) = Ok(v) /\ hyper_local_id(h, g.counts.hyperedges) = Ok(h)
        /\ Ok(n) \in Range(IF incidence_role(g, n) = "Head" THEN source_incidences(g, h)
                           ELSE target_incidences(g, h))
        /\ relation_incidence_count(g, h) = Len(relation_incidences(g, h))
        /\ v \in Range(IF incidence_role(g, n) = "Head" THEN source_participants(g, h)
                       ELSE target_participants(g, h))

\* Both directions name the same incidences: what only the strict validation promises.
BothDirections(g) ==
  /\ Coherent(g)
  /\ \A v \in 0..(g.counts.vertices - 1) :
       /\ Range(element_incidences(g, v))
            = {Ok(n) : n \in {m \in 0..(incidence_bound(g) - 1) : incidence_element(g, m) = v}}
       /\ element_incidence_count(g, v) = Len(element_incidences(g, v))
       /\ \A h \in 0..(g.counts.hyperedges - 1) :
            v \in Range(hyperedge_participants(g, h)) <=> h \in Range(incident_hyperedges(g, v))

\* Weights move with their participants when freezing sorts a hyperedge by vertex: the
\* weight of an incidence is the one its vertex was given on that side (build_topology).
WeightsFollow ==
  phase = "frozen" /\ kind = "hyper" =>
    \A n \in 0..(incidence_bound(frozen.view) - 1) :
      LET h == incidence_relation(frozen.view, n)
          side == IF incidence_role(frozen.view, n) = "Head" THEN "sources" ELSE "targets"
      IN  <<incidence_element(frozen.view, n), frozen.incidence_weights[n + 1]>>
            \in Range(b.hyperedges[h + 1][side])

\* A frozen hypergraph answers from both directions alike, and each vertex reaches the
\* targets of every hyperedge that lists it as a source.
FrozenBothDirections ==
  phase = "frozen" /\ kind = "hyper" =>
    /\ BothDirections(frozen.view)
    /\ \A v \in 0..(b.vertex_count - 1) :
         Range(hyper_element_successors(frozen.view, v)) =
           UNION {Range(Vertices(b.hyperedges[i].targets)) :
                    i \in {j \in DOMAIN b.hyperedges : v \in Range(Vertices(b.hyperedges[j].sources))}}
    /\ \A u, v \in 0..(b.vertex_count - 1) :
         v \in Range(hyper_element_successors(frozen.view, u))
           <=> u \in Range(hyper_element_predecessors(frozen.view, v))

\* SnapshotPlan::write_into and SnapshotWriter produce the same file.
PlanMatchesWriter ==
  phase = "exported" =>
    LET sections == Export(layers).val IN
      /\ SnapshotPlan(sections).err = "Ok"
      /\ write_into(sections, encoded_len(sections)).val = file

Reads(sections) ==
  \A i \in DOMAIN sections :
    LET found == section(snap, sections[i].kind) IN
      found.err = "Ok" /\ found.val.payload = sections[i].payload
                       /\ found.val.version = sections[i].version

Relations == OfFamily(layers, IF kind = "graph" THEN "Relation" ELSE "Incidence")
LocalMap == IF kind = "graph" THEN frozen.edge_ids
            ELSE bcsr_local_incidence_to_canonical(incidence_bound(frozen.view)).val
AsLayer(decoded) == [d |-> decoded, indices |-> decoded.indices, values |-> decoded.values,
                     default |-> decoded.default, len |-> decoded.len]

\* An intact file opens, and what is read is what was exported: the graph within its
\* width, the hypergraph strictly, and every layer, where a rekeyed layer answers for a
\* local slot with the value of the edge or incidence that is stored there.
ReadsBack ==
  phase \in {"opened", "verified"} /\ intact =>
    /\ Reads(Export(layers).val)
    /\ IF kind = "graph"
       THEN IF Fits(frozen.node_count, NodeMax) THEN csr_from_snapshot(snap) = as_view(frozen)
            ELSE csr_from_snapshot(snap).err = "NodeCountOverflow"
       ELSE bcsr_from_snapshot_with(snap, "Strict") = Ok(frozen.view)
    /\ layers # <<>> =>
         LET decoded == decode_all(snap) IN
           /\ decoded.err = "Ok" /\ validate_identity_snapshot(snap)
           /\ \A i \in DOMAIN Relations :
                LET stored == CHOOSE k \in DOMAIN decoded.val :
                                decoded.val[k].layer_id = Relations[i].d.layer_id
                IN  \A l \in DOMAIN LocalMap :
                      ValueAt(AsLayer(decoded.val[stored]), l - 1) = ValueAt(Relations[i], LocalMap[l])

\* A file that passes the checked open and the payload checksums and was not edited with
\* its checksums holds every section as it was written, whatever word was damaged.
VerifiedIsWritten ==
  phase = "verified" /\ file.header.table_crc32c = finish(WriteAll(MaxSections(Export(layers).val),
                                                    Export(layers).val).val).header.table_crc32c
    => Reads(Export(layers).val)

\* The plain open keeps sections apart and behind the table, so no payload is read
\* through another section or through the entries.
SectionsApart ==
  phase \in {"opened", "verified"} =>
    \A i, j \in DOMAIN snap.entries :
      /\ snap.entries[i].offset >= HEADER_SIZE + Len(snap.entries) * SECTION_ENTRY_SIZE
      /\ snap.entries[i].offset + snap.entries[i].length <= Len(file.cells)
      /\ i < j => snap.entries[i].offset + snap.entries[i].length <= snap.entries[j].offset

\* A damaged file whose graph is accepted still has every edge in exactly one row and
\* every target a node (CsrGraph::validate: no traversal leaves the arrays).
AcceptedCsrSafe ==
  phase \in {"opened", "verified"} /\ kind = "graph" /\ csr_from_snapshot(snap).err = "Ok" =>
    LET g == csr_from_snapshot(snap).val IN
      /\ \A e \in 0..(Len(g.targets) - 1) :
           Cardinality({u \in 0..(g.node_count - 1) : e \in Range(outgoing_edges(g, u))}) = 1
      /\ \A u \in 0..(g.node_count - 1) :
           LET row == element_successors(g, u)
               edges == outgoing_edges(g, u)
           IN  \A i \in DOMAIN row : contains_node(g, row[i]) /\ try_target(g, edges[i]) = Ok(row[i])
      /\ \A u, v \in 0..g.node_count :
           for_each_out_target(g, u, {v})
             <=> contains_node(g, u) /\ v \in Range(element_successors(g, u))

\* A damaged hypergraph accepted at the Layout level is coherent within each incidence;
\* accepted at the Strict level it answers alike from both directions.
AcceptedHyperSafe ==
  phase \in {"opened", "verified"} /\ kind = "hyper" =>
    /\ bcsr_from_snapshot_with(snap, "Layout").err = "Ok" =>
         Coherent(bcsr_from_snapshot_with(snap, "Layout").val)
    /\ bcsr_from_snapshot_with(snap, "Strict").err = "Ok" =>
         BothDirections(bcsr_from_snapshot_with(snap, "Strict").val)

\* Property sections accepted after damage decode to layers that answer for every id in
\* their length, a value wherever the layer may serve as a weight, and no stored stream
\* serves two layers.
AcceptedLayersSafe ==
  phase \in {"opened", "verified"} /\ decode_all(snap).err = "Ok" =>
    LET decoded == decode_all(snap).val
        records == [i \in DOMAIN decoded |->
                      parse_property_record(section(snap, DESCRIPTORS).val.payload, i)]
        ranges == FlattenSeq([i \in DOMAIN records |-> Ranges(records[i])])
    IN  /\ \A i \in DOMAIN decoded : \A id \in 0..(decoded[i].len - 1) :
             /\ ValueAt(AsLayer(decoded[i]), id) \in Nat
             /\ \/ validate_dense_primitive_selection(AsLayer(decoded[i]), decoded[i].id_family, id + 1)
                \/ validate_sparse_primitive_selection(AsLayer(decoded[i]), decoded[i].id_family, id + 1)
                => ValueAt(AsLayer(decoded[i]), id) # NullCell
        /\ \A i, j \in DOMAIN ranges : i < j =>
             ranges[i][2] <= ranges[j][1] \/ ranges[j][2] <= ranges[i][1]

\* Freezing rearranges and loses nothing: rows, their transpose, weights and the two
\* directions of a hypergraph all show the edges that were added.
FreezeFaithful ==
  TypeOK /\ FrozenKeepsOrder /\ TransposeMirrors /\ WeightsFollow /\ FrozenBothDirections

\* Both ways of writing give one file, and an intact file reads back what was exported.
FileFaithful == PlanMatchesWriter /\ ReadsBack

\* Whatever word is damaged, what the opens and the validators accept is safe to read.
AcceptedSafe == SectionsApart /\ AcceptedCsrSafe /\ AcceptedHyperSafe /\ AcceptedLayersSafe
=============================================================================
