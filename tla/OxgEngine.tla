------------------------------ MODULE OxgEngine ------------------------------
(***************************************************************************)
(* The engine library of oxgraph-postgres as operators: the registered     *)
(* catalog, the build of an artifact from relational edge rows, opening an *)
(* artifact, the overlay that sync replay fills, and search and traversal  *)
(* over the two together.  Dense node and edge ids count from zero.        *)
(***************************************************************************)
EXTENDS OxgCsr, FiniteSets, Integers

CONSTANTS
  PkSpan,   \* 2^32: primary keys are below it, table ids are above it in a NodeKey
  Absent    \* NULL, no engine, no snapshot, a missing section

ASSUME EngineAssumption ==
  /\ PkSpan \in Nat \ {0}
  /\ Absent \notin [node_count : Nat, edge_count : Nat, reverse : BOOLEAN]
  /\ Absent \notin [offsets : Seq(Nat), targets : Seq(Nat)]

Smaller(m, n) == IF m <= n THEN m ELSE n
InSeq(x, seq) == \E i \in DOMAIN seq : seq[i] = x

Elems(seq) == {seq[i] : i \in DOMAIN seq}

\* The elements of a sequence that are in S, in order.
Kept(S, seq) == Loop(LAMBDA kept, x : IF x \in S THEN Append(kept, x) ELSE kept, <<>>, seq)

-----------------------------------------------------------------------------
(* Catalog *)

EmptyCatalog == [tables |-> <<>>, edges |-> <<>>, filter_columns |-> {}]

HasTable(c, id) == \E i \in DOMAIN c.tables : c.tables[i].id = id

add_table(c, t) ==
  CASE HasTable(c, t.id) -> Err("DuplicateTableId")
    [] \E i \in DOMAIN c.tables : c.tables[i].name = t.name -> Err("DuplicateTableName")
    [] OTHER -> Ok([c EXCEPT !.tables = Append(@, t)])

add_edge_to(c, e) ==
  CASE \E i \in DOMAIN c.edges : c.edges[i].id = e.id -> Err("DuplicateEdgeId")
    [] ~HasTable(c, e.source_table) \/ ~HasTable(c, e.target_table) -> Err("MissingTable")
    [] OTHER -> Ok([c EXCEPT !.edges = Append(@, e)])

add_filter_column(c, f) ==
  IF HasTable(c, f.table) THEN Ok([c EXCEPT !.filter_columns = @ \cup {f}]) ELSE Err("MissingTable")

\* Registering one row after another; the first refusal ends it.
RegisteredTables(tables) ==
  Loop(LAMBDA acc, t : IF acc.err = "Ok" THEN add_table(acc.val, t) ELSE acc, Ok(EmptyCatalog), tables)
Registered(c) ==
  Loop(LAMBDA acc, e : IF acc.err = "Ok" THEN add_edge_to(acc.val, e) ELSE acc,
       RegisteredTables(c.tables), c.edges)

\* The registered rows read back, through the same checks.
from_registration_rows(c) ==
  LET topology == Registered(c)
  IN  IF topology.err = "Ok" /\ \A f \in c.filter_columns : add_filter_column(topology.val, f).err = "Ok"
      THEN Ok([topology.val EXCEPT !.filter_columns = c.filter_columns])
      ELSE Err("Catalog")

table(c, id) == c.tables[CHOOSE i \in DOMAIN c.tables : c.tables[i].id = id]

validate_for_build(c) == c.tables # <<>>
validate_primary_key(pk) == 0 <= pk /\ pk < PkSpan

\* NodeKey::registered packs the table above the primary key.
NodeKey(table_id, pk) == table_id * PkSpan + pk

edge_row_from_scan(e, row) ==
  [source |-> NodeKey(e.source_table, row[1]), target |-> NodeKey(e.target_table, row[2])]

\* edge_scan_sql: the two columns of a self-relation, else a join with both node
\* tables, which drops a row whose end is in neither.  tuples[name] are the rows of
\* an edge table and members[name] the primary keys of a node table.
edge_scan(c, e, tuples, members) ==
  IF e.source_table = e.target_table THEN tuples[e.name]
  ELSE Kept({row \in Elems(tuples[e.name]) : /\ row[1] \in members[table(c, e.source_table).name]
                                             /\ row[2] \in members[table(c, e.target_table).name]},
            tuples[e.name])

\* Every registered edge in order; one primary key out of range fails the scan.
scan_edge_rows(c, tuples, members) ==
  LET Scan(acc, e) ==
        LET found == edge_scan(c, e, tuples, members) IN
          IF acc.err = "Ok" /\ \A i \in DOMAIN found : validate_primary_key(found[i][1])
                                                       /\ validate_primary_key(found[i][2])
          THEN Ok(acc.val \o [i \in DOMAIN found |-> edge_row_from_scan(e, found[i])])
          ELSE Err("PrimaryKey")
  IN  Loop(Scan, Ok(<<>>), c.edges)

-----------------------------------------------------------------------------
(* The artifact: forward and inbound sections and the metadata.  keys is    *)
(* not in the bytes: it remembers which NodeKeys the dense ids stand for.   *)

distinct_node_keys(edges) == UNION {{edges[i].source, edges[i].target} : i \in DOMAIN edges}

\* The BTreeSet's order numbers the keys.
dense_node_map_from_keys(keys) == [k \in keys |-> Cardinality({j \in keys : j < k})]

Section(t) == [offsets |-> t.offsets, targets |-> t.targets]

PostgresMetadata(nodes, edges, reverse) == [node_count |-> nodes, edge_count |-> edges, reverse |-> reverse]

attach_postgres_sections(forward, inbound, metadata, keys) ==
  [forward |-> Section(forward), inbound |-> Section(inbound), metadata |-> metadata, keys |-> keys]

\* Mutant: the inbound sections are the forward ones again.
Artifact_Forward(t, n, keys) ==
  attach_postgres_sections(t, t, PostgresMetadata(n, Len(t.targets), TRUE), keys)

\* Mutant: the metadata is written without the reverse-index flag.
Artifact_NoReverse(t, n, keys) ==
  attach_postgres_sections(t, transpose(t).val, PostgresMetadata(n, Len(t.targets), FALSE), keys)

\* The forward topology and its transpose, side by side.
Artifact(t, n, keys) ==
  attach_postgres_sections(t, transpose(t).val, PostgresMetadata(n, Len(t.targets), TRUE), keys)

Frozen(n, ends, keys) ==
  LET t == freeze_topology(n, [i \in DOMAIN ends |-> ends[i][1]], [i \in DOMAIN ends |-> ends[i][2]])
  IN  IF t.err = "Ok" THEN Ok(Artifact(t.val, n, keys)) ELSE Err("IdOverflow")

DenseEnds(edges, map) == [i \in DOMAIN edges |-> <<map[edges[i].source], map[edges[i].target]>>]

\* The keys are numbered and counted in u32.
from_edge_rows(edges) ==
  LET keys == distinct_node_keys(edges) IN
    CASE edges = <<>> -> Err("EmptyEdges")
      [] ~Fits(Cardinality(keys), NodeMax) -> Err("NodeCountOverflow")
      [] OTHER -> Frozen(Cardinality(keys), DenseEnds(edges, dense_node_map_from_keys(keys)), keys)

from_catalog_and_edges(c, edges) ==
  IF validate_for_build(c) THEN from_edge_rows(edges) ELSE Err("EmptyCatalog")

\* Dense edges name their nodes themselves.
from_dense_u32_edges_with_node_count(n, ends) ==
  CASE n = 0 -> Err("EmptyEdges")
    [] \E i \in DOMAIN ends : ends[i][1] >= n \/ ends[i][2] >= n -> Err("MissingNodeKey")
    [] OTHER -> Frozen(n, ends, 0..(n - 1))

read_metadata(art) ==
  IF art.metadata = Absent THEN Err("MissingMetadataSection") ELSE Ok(art.metadata)

NodesOf(section) == Len(section.offsets) - 1
SectionValid(section) ==
  section # Absent /\ validate_csr(NodesOf(section), section.offsets, section.targets).err = "Ok"

\* GraphTopology::open
open(art) ==
  CASE read_metadata(art).err # "Ok" -> read_metadata(art)
    [] ~art.metadata.reverse -> Err("MissingReverseIndex")
    [] ~SectionValid(art.forward) \/ ~SectionValid(art.inbound) -> Err("Snapshot")
    [] NodesOf(art.forward) # NodesOf(art.inbound) -> Err("TopologyNodeCountMismatch")
    [] Len(art.forward.targets) # Len(art.inbound.targets) -> Err("TopologyEdgeCountMismatch")
    [] NodesOf(art.forward) # art.metadata.node_count -> Err("MetadataNodeCountMismatch")
    [] Len(art.forward.targets) # art.metadata.edge_count -> Err("MetadataEdgeCountMismatch")
    [] OTHER -> Ok(art)

-----------------------------------------------------------------------------
(* OverlayState *)

Ids == 0..NodeMax
EmptyOverlay ==
  [added_edges |-> <<>>, by_source |-> [u \in Ids |-> <<>>], by_target |-> [u \in Ids |-> <<>>],
   tombstoned_edges |-> {}, tombstoned_nodes |-> {}]

push_edge(o, edge) ==
  [o EXCEPT !.added_edges = Append(@, edge),
            !.by_source[edge[1]] = Append(@, edge[2]),
            !.by_target[edge[2]] = Append(@, edge[1])]

\* Mutant: the adjacency by target is left as it was.
rebuild_indexes_BySource(o) ==
  [Loop(push_edge, [o EXCEPT !.added_edges = <<>>, !.by_source = EmptyOverlay.by_source],
        o.added_edges) EXCEPT !.by_target = o.by_target]

rebuild_indexes(o) ==
  Loop(push_edge, [o EXCEPT !.added_edges = <<>>, !.by_source = EmptyOverlay.by_source,
                            !.by_target = EmptyOverlay.by_target], o.added_edges)

\* Mutant: only the last equal insertion is removed.
remove_edge_Last(o, edge) ==
  IF ~InSeq(edge, o.added_edges) THEN o
  ELSE LET last == CHOOSE i \in DOMAIN o.added_edges :
                     o.added_edges[i] = edge /\ \A j \in DOMAIN o.added_edges : o.added_edges[j] = edge => j <= i
       IN  rebuild_indexes([o EXCEPT !.added_edges = RemoveAt(@, last)])

\* Every equal insertion goes.
retain(edges, edge) == Kept(Elems(edges) \ {edge}, edges)
remove_edge(o, edge) == rebuild_indexes([o EXCEPT !.added_edges = retain(@, edge)])

tombstone_edge(o, id) == [o EXCEPT !.tombstoned_edges = @ \cup {id}]
tombstone_node(o, id) == [o EXCEPT !.tombstoned_nodes = @ \cup {id}]
clear(o) == EmptyOverlay

edge_visible(o, id) == id \notin o.tombstoned_edges
overlay_node_visible(o, id) == id \notin o.tombstoned_nodes
has_edge_tombstones(o) == o.tombstoned_edges # {}
has_node_tombstones(o) == o.tombstoned_nodes # {}

-----------------------------------------------------------------------------
(* Sync replay.  A raw row is a row of graph._sync_log.                     *)

InsertEdge == 1
DeleteEdge == 2
DeleteNode == 3
TruncateOverlays == 4
RemoveOverlayEdge == 5
carries_node_keys(action) == action \in {InsertEdge, RemoveOverlayEdge}

\* decode_wire: the argument each action type requires.
decode_wire(raw) ==
  CASE raw.action \notin 1..5 -> "InvalidActionType"
    [] carries_node_keys(raw.action) /\ (raw.arg0 = Absent \/ raw.arg1 = Absent) -> "InvalidActionArgs"
    [] raw.action \in {DeleteEdge, DeleteNode} /\ raw.arg0 = Absent -> "InvalidActionArgs"
    [] OTHER -> "Ok"

\* The keys of the edge rows as they are now, and of the log.
dense_node_map_for_sync_resolution(edges, raw_rows) ==
  dense_node_map_from_keys(
    distinct_node_keys(edges)
      \cup UNION {{raw_rows[i].arg0, raw_rows[i].arg1} \ {Absent} :
                    i \in {j \in DOMAIN raw_rows : carries_node_keys(raw_rows[j].action)}})

resolve_sync_action(raw, map) ==
  CASE carries_node_keys(raw.action) -> [raw EXCEPT !.arg0 = map[raw.arg0], !.arg1 = map[raw.arg1]]
    [] OTHER -> raw

ResolvedWith(map, raw_rows) == [i \in DOMAIN raw_rows |-> resolve_sync_action(raw_rows[i], map)]

\* Keys that cannot be numbered in u32, or one row that does not decode, refuse them all.
resolve_sync_rows(edges, raw_rows) ==
  LET map == dense_node_map_for_sync_resolution(edges, raw_rows) IN
    CASE \E k \in DOMAIN map : ~Fits(map[k], NodeMax) -> Err("NodeCountOverflow")
      [] \E i \in DOMAIN raw_rows : decode_wire(raw_rows[i]) # "Ok" -> Err("Sync")
      [] OTHER -> Ok(ResolvedWith(map, raw_rows))

apply_to(row, o) ==
  CASE row.action = InsertEdge -> push_edge(o, <<row.arg0, row.arg1>>)
    [] row.action = RemoveOverlayEdge -> remove_edge(o, <<row.arg0, row.arg1>>)
    [] row.action = DeleteEdge -> tombstone_edge(o, row.arg0)
    [] row.action = DeleteNode -> tombstone_node(o, row.arg0)
    [] OTHER -> clear(o)

\* A sequence that does not grow stops the replay; what was applied stays.
apply_in_order(rows, o) ==
  LET Step(st, row) ==
        IF st.err # "Ok" \/ row.sequence <= st.last THEN [st EXCEPT !.err = "NonMonotonicSequence"]
        ELSE [err |-> "Ok", last |-> row.sequence, overlay |-> apply_to(row, st.overlay), applied |-> st.applied + 1]
  IN  Loop(Step, [err |-> "Ok", last |-> -1, overlay |-> o, applied |-> 0], rows)

-----------------------------------------------------------------------------
(* The views a traversal runs over *)

NoUnique == [outgoing |-> <<>>, incoming |-> <<>>]

\* Sorted and without duplicates.
build_unique_row(row) ==
  LET S == {row[i] : i \in DOMAIN row} IN
    [i \in 1..Cardinality(S) |-> CHOOSE x \in S : Cardinality({y \in S : y < x}) = i - 1]

SectionRow(section, u) == Row(section.offsets, section.targets, u)

from_topology(art) ==
  [outgoing |-> [i \in 1..NodesOf(art.forward) |-> build_unique_row(SectionRow(art.forward, i - 1))],
   incoming |-> [i \in 1..NodesOf(art.forward) |-> build_unique_row(SectionRow(art.inbound, i - 1))]]

UniqueRow(rows, u) == IF u + 1 \in DOMAIN rows THEN rows[u + 1] ELSE <<>>

\* Mutant: the deduplicated rows are used although they know no edge ids.
resolve_IgnoresTombstones(freshness, o) ==
  [merge_overlay |-> freshness = "OverlayAware" /\ o.added_edges # <<>>,
   use_unique |-> freshness = "BaseOnly",
   check_nodes |-> has_node_tombstones(o)]

\* TraverseProfile::resolve and the node check of TraverseSession::open
resolve(freshness, o) ==
  [merge_overlay |-> freshness = "OverlayAware" /\ o.added_edges # <<>>,
   use_unique |-> freshness = "BaseOnly" /\ ~has_edge_tombstones(o),
   check_nodes |-> has_node_tombstones(o)]

\* Mutant: the last node is taken for out of range.
admit_OffByOne(e, flags, u) ==
  u + 1 < e.art.metadata.node_count /\ (flags.check_nodes => overlay_node_visible(e.overlay, u))

admit(e, flags, u) ==
  u < e.art.metadata.node_count /\ (flags.check_nodes => overlay_node_visible(e.overlay, u))
Admitted(e, flags, row) == Kept({u \in Elems(row) : admit(e, flags, u)}, row)

\* The forward edges of u are positions offsets[u] .. offsets[u + 1] - 1.
ForwardEdges(art, u) == [i \in 1..Len(SectionRow(art.forward, u)) |-> art.forward.offsets[u + 1] + i - 1]
EdgeTarget(art, edge) == art.forward.targets[edge + 1]

\* Mutant: any forward edge will do.
has_visible_forward_edge_Any(e, source, target) ==
  \E i \in DOMAIN ForwardEdges(e.art, source) : EdgeTarget(e.art, ForwardEdges(e.art, source)[i]) = target

has_visible_forward_edge(e, source, target) ==
  \E i \in DOMAIN ForwardEdges(e.art, source) :
    /\ EdgeTarget(e.art, ForwardEdges(e.art, source)[i]) = target
    /\ edge_visible(e.overlay, ForwardEdges(e.art, source)[i])

OutBase(e, flags, u) ==
  IF flags.use_unique THEN UniqueRow(e.unique.outgoing, u)
  ELSE LET seen == Kept({edge \in Elems(ForwardEdges(e.art, u)) : edge_visible(e.overlay, edge)}, ForwardEdges(e.art, u))
       IN  [i \in DOMAIN seen |-> EdgeTarget(e.art, seen[i])]

\* The inbound sections carry no forward edge id, so a predecessor passes when
\* some edge from it is visible.
InBase(e, flags, u) ==
  IF flags.use_unique THEN UniqueRow(e.unique.incoming, u)
  ELSE Kept({p \in Elems(SectionRow(e.art.inbound, u)) :
               has_edge_tombstones(e.overlay) => has_visible_forward_edge(e, p, u)},
            SectionRow(e.art.inbound, u))

\* The base row and then the overlay's, both filtered.
view_successors(e, flags, u) ==
  Admitted(e, flags, OutBase(e, flags, u) \o IF flags.merge_overlay THEN e.overlay.by_source[u] ELSE <<>>)

view_predecessors(e, flags, u) ==
  Admitted(e, flags, InBase(e, flags, u) \o IF flags.merge_overlay THEN e.overlay.by_target[u] ELSE <<>>)

-----------------------------------------------------------------------------
(* Engine: art, overlay, the lazily built unique rows, the scratch length   *)

\* EngineBuilder::build
build(art) ==
  IF open(art).err = "Ok"
  THEN Ok([art |-> art, overlay |-> EmptyOverlay, unique |-> NoUnique, unique_built |-> FALSE,
           scratch |-> art.metadata.node_count])
  ELSE open(art)

\* Mutant: the rows built for the previous artifact are kept.
replace_snapshot_bytes_KeepsUnique(e, art) ==
  IF build(art).err = "Ok"
  THEN Ok([build(art).val EXCEPT !.unique = e.unique, !.unique_built = e.unique_built])
  ELSE build(art)

\* A new artifact starts with an empty overlay, no unique rows and a scratch of its size.
replace_snapshot_bytes(e, art) ==
  IF build(art).err = "Ok"
  THEN Ok([e EXCEPT !.art = art, !.overlay = clear(@), !.unique = NoUnique, !.unique_built = FALSE,
                    !.scratch = art.metadata.node_count])
  ELSE build(art)

rebuild_from_catalog(e, c, edges, maintenance_enabled) ==
  LET art == from_catalog_and_edges(c, edges) IN
    CASE ~maintenance_enabled -> Err("MaintenanceDisabled")
      [] art.err # "Ok" -> art
      [] OTHER -> replace_snapshot_bytes(e, art.val)

traverse_workspace_mut(e, needs_unique) ==
  IF needs_unique /\ ~e.unique_built
  THEN [e EXCEPT !.unique = from_topology(e.art), !.unique_built = TRUE] ELSE e

\* Marking, queueing and emitting a node; the search stops at the limit.
discover(st, u, depth, limit) ==
  IF st.stop \/ InSeq(u, st.queue) THEN st
  ELSE [queue |-> Append(st.queue, u), depths |-> Append(st.depths, depth), stop |-> Len(st.queue) + 1 >= limit]

\* The bounded search over rows[u + 1], the seeds included; max_depth zero is none.
breadth_first_search_bounded(rows, seeds, max_depth, limit) ==
  LET Visit(st, head) ==
        IF st.stop \/ head > Len(st.queue) THEN st
        ELSE IF max_depth > 0 /\ st.depths[head] >= max_depth THEN st
        ELSE Loop(LAMBDA s, v : discover(s, v, st.depths[head] + 1, limit), st, rows[st.queue[head] + 1])
  IN  Loop(Visit,
           Loop(LAMBDA st, u : discover(st, u, 0, limit), [queue |-> <<>>, depths |-> <<>>, stop |-> FALSE], seeds),
           [head \in DOMAIN rows |-> head]).queue

ViewRows(e, flags, direction) ==
  [i \in 1..e.art.metadata.node_count |->
     IF direction = "Out" THEN view_successors(e, flags, i - 1) ELSE view_predecessors(e, flags, i - 1)]

\* run_bfs_multi, after traverse_workspace_mut: a scratch below the bound is refused.
run_bfs_multi(e, flags, seeds, max_depth, limit, direction) ==
  CASE seeds = <<>> -> Ok(<<>>)
    [] e.scratch < e.art.metadata.node_count -> Err("InternalInvariant")
    [] OTHER -> Ok(breadth_first_search_bounded(ViewRows(e, flags, direction), seeds, max_depth, limit))

\* Engine::traverse_from_seeds: capped limit, seeds in range, invisible seeds left out.
traverse_from_seeds(e, seeds, max_depth, limit, cap, direction, freshness) ==
  LET flags == resolve(freshness, e.overlay) IN
    CASE Smaller(limit, cap) = 0 -> Err("LimitZero")
      [] \E i \in DOMAIN seeds : seeds[i] >= e.art.metadata.node_count -> Err("SeedOutOfBounds")
      [] OTHER -> run_bfs_multi(traverse_workspace_mut(e, flags.use_unique), flags,
                                Kept({u \in Elems(seeds) : overlay_node_visible(e.overlay, u)}, seeds),
                                max_depth, Smaller(limit, cap), direction)

engine_node_visible(e, u) ==
  u < NodesOf(e.art.forward) /\ overlay_node_visible(e.overlay, u)

\* Mutant: an invisible node uses up the limit.
search_CountsHidden(e, first, last, limit, cap) ==
  LET Visit(st, u) ==
        IF st.taken < Smaller(limit, cap) /\ first <= u /\ u <= last
        THEN [taken |-> st.taken + 1, out |-> IF engine_node_visible(e, u) THEN Append(st.out, u) ELSE st.out]
        ELSE st
  IN  Loop(Visit, [taken |-> 0, out |-> <<>>], [i \in 1..NodesOf(e.art.forward) |-> i - 1]).out

\* Engine::search: the first matches in id order.
search(e, first, last, limit, cap) ==
  LET Visit(out, u) ==
        IF Len(out) < Smaller(limit, cap) /\ engine_node_visible(e, u) /\ first <= u /\ u <= last
        THEN Append(out, u) ELSE out
  IN  Loop(Visit, <<>>, [i \in 1..NodesOf(e.art.forward) |-> i - 1])

apply_sync_rows(e, rows) == [e EXCEPT !.overlay = apply_in_order(rows, @).overlay]
=============================================================================
