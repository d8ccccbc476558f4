------------------------------- MODULE OxgCsr -------------------------------
(***************************************************************************)
(* The adjacency layouts of oxgraph-csr and oxgraph-csc and the offset     *)
(* checks of oxgraph-layout-util, as operators.  Ids and slots count from  *)
(* zero as in the code; a TLA+ sequence holds slot i at i + 1.             *)
(***************************************************************************)
EXTENDS Naturals, Sequences, SequencesExt, FiniteSets

CONSTANTS
  NodeMax,   \* largest value of the node index width
  EdgeMax    \* largest value of the edge (offset) index width

ASSUME CsrAssumption == NodeMax \in Nat /\ EdgeMax \in Nat

\* A Result: err is "Ok" or the name of the error that is returned.
Ok(v) == [err |-> "Ok", val |-> v]
Err(e) == [err |-> e, val |-> <<>>]

\* LayoutIndex::from_usize: the value fits the selected width.
Fits(value, max) == value <= max

\* A for loop over a sequence: FoldLeft with every intermediate result evaluated once.
Loop(op(_, _), base, seq) ==
  LET After[k \in 0..Len(seq)] ==
        IF k = 0 THEN base ELSE CHOOSE r \in {op(acc, seq[k]) : acc \in {After[k - 1]}} : TRUE
  IN  After[Len(seq)]

-----------------------------------------------------------------------------
(* Offset arrays *)

\* The concatenation of the buckets and where each begins.
build_offset_index(buckets, max) ==
  LET offsets == [i \in 1..(Len(buckets) + 1) |-> Len(FlattenSeq(SubSeq(buckets, 1, i - 1)))]
  IN  IF \A i \in DOMAIN offsets : Fits(offsets[i], max)
      THEN Ok([offsets |-> offsets, items |-> FlattenSeq(buckets)]) ELSE Err("IndexOverflow")

\* Row u of an offset array over a flat array.
Row(offsets, flat, u) == SubSeq(flat, offsets[u + 1] + 1, offsets[u + 2])

\* The first element that is out of order decides which error it is.
check_offsets_monotonic(offsets) ==
  CASE offsets # <<>> /\ offsets[1] # 0 -> "FirstNonZero"
    [] \E i \in 2..Len(offsets) : offsets[i] < offsets[i - 1] -> "NonMonotonic"
    [] OTHER -> "Ok"

check_offset_section(offsets, count, value_len) ==
  CASE Len(offsets) # count + 1 -> "Length"
    [] check_offsets_monotonic(offsets) # "Ok" -> check_offsets_monotonic(offsets)
    [] offsets[Len(offsets)] # value_len -> "FinalMismatch"
    [] OTHER -> "Ok"

check_value_range(values, bound) ==
  IF \A i \in DOMAIN values : values[i] < bound THEN "Ok" ELSE "ValueOutOfRange"

-----------------------------------------------------------------------------
(* GraphBuilder and WeightedGraphBuilder *)

GraphBuilder ==
  [node_count |-> 0, sources |-> <<>>, targets |-> <<>>,
   element_weights |-> <<>>, relation_weights |-> <<>>]

add_node(b, weight) ==
  IF Fits(b.node_count, NodeMax)
  THEN Ok([b EXCEPT !.node_count = @ + 1, !.element_weights = Append(@, weight)])
  ELSE Err("IdOverflow")

add_edge(b, source, target, weight) ==
  CASE source >= b.node_count \/ target >= b.node_count -> Err("InvalidNode")
    [] ~Fits(Len(b.sources), EdgeMax) -> Err("IdOverflow")
    [] OTHER -> Ok([b EXCEPT !.sources = Append(@, source), !.targets = Append(@, target),
                             !.relation_weights = Append(@, weight)])

set_element_weight(b, node, weight) ==
  IF node < b.node_count THEN Ok([b EXCEPT !.element_weights[node + 1] = weight])
  ELSE Err("InvalidNode")

set_relation_weight(b, edge, weight) ==
  IF edge < Len(b.sources) THEN Ok([b EXCEPT !.relation_weights[edge + 1] = weight])
  ELSE Err("InvalidEdge")

\* The counting sort of freeze: offsets[u] edges have a source below u, and every
\* edge goes to the next free position of its source's row.
PrefixCounts(n, sources) ==
  [u \in 1..(n + 1) |-> Cardinality({i \in DOMAIN sources : sources[i] < u - 1})]

\* The indexes of the edges, in insertion order.
Insertions(sources) == [i \in DOMAIN sources |-> i]
NothingPlaced(cursor, sources, targets) ==
  [cursor |-> cursor, edge_ids |-> [i \in DOMAIN sources |-> 0], targets |-> [i \in DOMAIN targets |-> 0]]
\* Edge i goes to position at of the sorted arrays.
PlaceAt(acc, u, cursor, at, i, target) ==
  [cursor |-> [acc.cursor EXCEPT ![u] = cursor],
   edge_ids |-> [acc.edge_ids EXCEPT ![at] = i - 1],
   targets |-> [acc.targets EXCEPT ![at] = target]]

\* Mutant: a row is filled from its end, which reverses parallel edges.
Placed_FromEnd(counts, sources, targets) ==
  LET Place(acc, i) ==
        LET u == sources[i] + 1 IN PlaceAt(acc, u, acc.cursor[u] - 1, acc.cursor[u], i, targets[i])
  IN  Loop(Place, NothingPlaced(Tail(counts), sources, targets), Insertions(sources))

Placed(counts, sources, targets) ==
  LET Place(acc, i) ==
        LET u == sources[i] + 1 IN PlaceAt(acc, u, acc.cursor[u] + 1, acc.cursor[u] + 1, i, targets[i])
  IN  Loop(Place, NothingPlaced(counts, sources, targets), Insertions(sources))

freeze_topology(n, sources, targets) ==
  LET counts == PrefixCounts(n, sources)
      placed == Placed(counts, sources, targets)
  IN  IF \A i \in DOMAIN counts : Fits(counts[i], EdgeMax)
      THEN Ok([node_count |-> n, offsets |-> counts, edge_ids |-> placed.edge_ids,
               targets |-> placed.targets, sources |-> sources, edge_targets |-> targets])
      ELSE Err("IdOverflow")

freeze(b) == freeze_topology(b.node_count, b.sources, b.targets)
\* Mutant: the rows of the transpose are grouped by source again.
transpose_Forward(t) == freeze_topology(t.node_count, t.sources, t.edge_targets)

\* The reverse adjacency: the same edges with their ends exchanged.
transpose(t) == freeze_topology(t.node_count, t.edge_targets, t.sources)

-----------------------------------------------------------------------------
(* Views.  A FrozenGraph names edges by insertion, a CsrGraph by position.  *)

frozen_outgoing_edges(t, u) == Row(t.offsets, t.edge_ids, u)

frozen_successors(t, u) ==
  LET edges == frozen_outgoing_edges(t, u) IN
    [i \in DOMAIN edges |-> t.edge_targets[edges[i] + 1]]

frozen_endpoints(t, edge) == <<t.sources[edge + 1], t.edge_targets[edge + 1]>>

\* The view shares the arrays; its node count must fit the width.
as_view(t) ==
  IF Fits(t.node_count, NodeMax)
  THEN Ok([node_count |-> t.node_count, offsets |-> t.offsets, targets |-> t.targets])
  ELSE Err("IdOverflow")

\* Mutant: the targets are not compared with the node count.
validate_csr_NoRange(node_count, offsets, targets) ==
  LET issue == check_offset_section(offsets, node_count, Len(targets)) IN
    IF issue # "Ok" THEN Err(issue)
    ELSE Ok([node_count |-> node_count, offsets |-> offsets, targets |-> targets])

validate_csr(node_count, offsets, targets) ==
  LET issue == check_offset_section(offsets, node_count, Len(targets))
      range == check_value_range(targets, node_count)
  IN  CASE issue # "Ok" -> Err(issue)
        [] range # "Ok" -> Err("TargetOutOfRange")
        [] OTHER -> Ok([node_count |-> node_count, offsets |-> offsets, targets |-> targets])

contains_node(g, u) == u < g.node_count
contains_edge(g, edge) == edge < Len(g.targets)

outgoing_edges(g, u) ==
  [i \in 1..(g.offsets[u + 2] - g.offsets[u + 1]) |-> g.offsets[u + 1] + i - 1]

element_successors(g, u) == Row(g.offsets, g.targets, u)

try_target(g, edge) == IF contains_edge(g, edge) THEN Ok(g.targets[edge + 1]) ELSE Err("None")

\* Visits the row in order until the visitor meets what it wants; a foreign id has none.
for_each_out_target(g, u, wanted) ==
  contains_node(g, u) /\ \E i \in DOMAIN element_successors(g, u) : element_successors(g, u)[i] \in wanted

\* A CSC graph is a CSR graph over the transposed arrays.
predecessors(g, u) == element_successors(g, u)
=============================================================================
