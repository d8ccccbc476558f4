------------------------------- MODULE OxgBcsr -------------------------------
(***************************************************************************)
(* The bipartite hypergraph layout of oxgraph-hyper-bcsr as operators: the *)
(* append-only builders, the eight arrays they freeze into, the checks a   *)
(* view runs when it is opened, and what the view answers.  A participant  *)
(* is a pair <<vertex, weight>>; ids and slots count from zero.            *)
(***************************************************************************)
EXTENDS OxgCsr, TLC

CONSTANTS
  VertexMax, RelationMax, IncidenceMax   \* largest values of the three index widths

ASSUME BcsrAssumption == {VertexMax, RelationMax, IncidenceMax} \subseteq Nat

Vertices(participants) == [i \in DOMAIN participants |-> participants[i][1]]
Weights(participants) == [i \in DOMAIN participants |-> participants[i][2]]

-----------------------------------------------------------------------------
(* HypergraphBuilder and WeightedHypergraphBuilder *)

HypergraphBuilder ==
  [vertex_count |-> 0, hyperedges |-> <<>>, element_weights |-> <<>>, relation_weights |-> <<>>]

add_vertex(b, weight) ==
  IF Fits(b.vertex_count, VertexMax)
  THEN Ok([b EXCEPT !.vertex_count = @ + 1, !.element_weights = Append(@, weight)])
  ELSE Err("IdOverflow")

ensure_vertices(b, participants) == \A i \in DOMAIN participants : participants[i][1] < b.vertex_count

ensure_unique_participants(participants) == IsInjective(Vertices(participants))

add_hyperedge(b, sources, targets, weight) ==
  CASE ~ensure_vertices(b, sources) \/ ~ensure_vertices(b, targets) -> Err("InvalidVertex")
    [] ~ensure_unique_participants(sources) \/ ~ensure_unique_participants(targets) ->
         Err("DuplicateParticipant")
    [] ~Fits(Len(b.hyperedges), RelationMax) -> Err("IdOverflow")
    [] OTHER -> Ok([b EXCEPT !.hyperedges = Append(@, [sources |-> sources, targets |-> targets]),
                             !.relation_weights = Append(@, weight)])

set_vertex_weight(b, vertex, weight) ==
  IF vertex < b.vertex_count THEN Ok([b EXCEPT !.element_weights[vertex + 1] = weight])
  ELSE Err("InvalidVertex")

set_hyperedge_weight(b, hyperedge, weight) ==
  IF hyperedge < Len(b.hyperedges) THEN Ok([b EXCEPT !.relation_weights[hyperedge + 1] = weight])
  ELSE Err("InvalidHyperedge")

\* side is "sources" or "targets"; the position is the one of add_hyperedge.
set_incidence_weight(b, hyperedge, side, position, weight) ==
  CASE hyperedge >= Len(b.hyperedges) -> Err("InvalidHyperedge")
    [] position >= Len(b.hyperedges[hyperedge + 1][side]) -> Err("ParticipantPositionOutOfBounds")
    [] OTHER -> Ok([b EXCEPT !.hyperedges[hyperedge + 1][side][position + 1][2] = weight])

-----------------------------------------------------------------------------
(* Freezing *)

\* Mutant: the vertices are sorted and the weights stay where they are.
normalized_hyperedges_IdsOnly(b) ==
  LET Sorted(ps) == LET vs == SortSeq(Vertices(ps), <) IN [i \in DOMAIN ps |-> <<vs[i], ps[i][2]>>] IN
    [i \in DOMAIN b.hyperedges |-> [sources |-> Sorted(b.hyperedges[i].sources),
                                    targets |-> Sorted(b.hyperedges[i].targets)]]

normalized_hyperedges(b) ==
  LET Sorted(ps) == SortSeq(ps, LAMBDA p, q : p[1] < q[1]) IN
    [i \in DOMAIN b.hyperedges |-> [sources |-> Sorted(b.hyperedges[i].sources),
                                    targets |-> Sorted(b.hyperedges[i].targets)]]

\* The participants of one side, record by record, with their offsets and weights.
Side(records, side) ==
  LET rows == [i \in DOMAIN records |-> records[i][side]] IN
    [index |-> build_offset_index([i \in DOMAIN rows |-> Vertices(rows[i])], IncidenceMax),
     weights |-> Weights(FlattenSeq(rows))]

\* Bucket v holds the records that list v on that side, in record order.
build_vertex_relation_index(vertex_count, records, side) ==
  build_offset_index(
    [v \in 1..vertex_count |->
       SelectSeq([i \in DOMAIN records |-> i - 1],
                 LAMBDA r : (v - 1) \in Range(Vertices(records[r + 1][side])))],
    IncidenceMax)

build_topology(vertex_count, records) ==
  LET head == Side(records, "sources")
      tail == Side(records, "targets")
      out == build_vertex_relation_index(vertex_count, records, "sources")
      in == build_vertex_relation_index(vertex_count, records, "targets")
  IN  IF \E r \in {head.index, tail.index, out, in} : r.err # "Ok" THEN Err("IdOverflow")
      ELSE Ok([sections |->
                 [head_offsets |-> head.index.val.offsets, head_participants |-> head.index.val.items,
                  tail_offsets |-> tail.index.val.offsets, tail_participants |-> tail.index.val.items,
                  vertex_outgoing_offsets |-> out.val.offsets,
                  vertex_outgoing_hyperedges |-> out.val.items,
                  vertex_incoming_offsets |-> in.val.offsets,
                  vertex_incoming_hyperedges |-> in.val.items],
               incidence_weights |-> head.weights \o tail.weights])

-----------------------------------------------------------------------------
(* Validation of the eight sections *)

derive_counts(s) ==
  CASE Len(s.head_offsets) # Len(s.tail_offsets) -> Err("HyperedgeOffsetLengthMismatch")
    [] Len(s.vertex_outgoing_offsets) # Len(s.vertex_incoming_offsets) ->
         Err("VertexOffsetLengthMismatch")
    [] s.head_offsets = <<>> \/ s.vertex_outgoing_offsets = <<>> -> Err("OffsetLength")
    [] OTHER -> Ok([hyperedges |-> Len(s.head_offsets) - 1,
                    vertices |-> Len(s.vertex_outgoing_offsets) - 1,
                    outgoing |-> Len(s.vertex_outgoing_hyperedges),
                    incoming |-> Len(s.vertex_incoming_hyperedges)])

validate_all_offsets(s, counts) ==
  /\ check_offset_section(s.head_offsets, counts.hyperedges, Len(s.head_participants)) = "Ok"
  /\ check_offset_section(s.tail_offsets, counts.hyperedges, Len(s.tail_participants)) = "Ok"
  /\ check_offset_section(s.vertex_outgoing_offsets, counts.vertices,
                          Len(s.vertex_outgoing_hyperedges)) = "Ok"
  /\ check_offset_section(s.vertex_incoming_offsets, counts.vertices,
                          Len(s.vertex_incoming_hyperedges)) = "Ok"

validate_total_lengths(s) ==
  /\ Len(s.head_participants) = Len(s.vertex_outgoing_hyperedges)
  /\ Len(s.tail_participants) = Len(s.vertex_incoming_hyperedges)

validate_value_ranges(s, counts) ==
  /\ check_value_range(s.head_participants, counts.vertices) = "Ok"
  /\ check_value_range(s.tail_participants, counts.vertices) = "Ok"
  /\ check_value_range(s.vertex_outgoing_hyperedges, counts.hyperedges) = "Ok"
  /\ check_value_range(s.vertex_incoming_hyperedges, counts.hyperedges) = "Ok"

check_strictly_ascending_buckets(offsets, values) ==
  \A u \in 0..(Len(offsets) - 2) :
    LET row == Row(offsets, values, u) IN \A i \in 2..Len(row) : row[i - 1] < row[i]

validate_within_range_sorted(s) ==
  /\ check_strictly_ascending_buckets(s.head_offsets, s.head_participants)
  /\ check_strictly_ascending_buckets(s.tail_offsets, s.tail_participants)
  /\ check_strictly_ascending_buckets(s.vertex_outgoing_offsets, s.vertex_outgoing_hyperedges)
  /\ check_strictly_ascending_buckets(s.vertex_incoming_offsets, s.vertex_incoming_hyperedges)

\* Every entry of one index is found in the bucket of the other that it names.
cross_direction_walk(offsets, values, other_offsets, other_values) ==
  \A u \in 0..(Len(offsets) - 2) : \A v \in Range(Row(offsets, values, u)) :
    u \in Range(Row(other_offsets, other_values, v))
\* Mutant: the vertex-major indexes are not walked.
validate_cross_direction_OneWay(s) ==
  /\ cross_direction_walk(s.head_offsets, s.head_participants,
                          s.vertex_outgoing_offsets, s.vertex_outgoing_hyperedges)

validate_cross_direction(s) ==
  /\ cross_direction_walk(s.head_offsets, s.head_participants,
                          s.vertex_outgoing_offsets, s.vertex_outgoing_hyperedges)
  /\ cross_direction_walk(s.tail_offsets, s.tail_participants,
                          s.vertex_incoming_offsets, s.vertex_incoming_hyperedges)
  /\ cross_direction_walk(s.vertex_outgoing_offsets, s.vertex_outgoing_hyperedges,
                          s.head_offsets, s.head_participants)
  /\ cross_direction_walk(s.vertex_incoming_offsets, s.vertex_incoming_hyperedges,
                          s.tail_offsets, s.tail_participants)

validate_sections(s, level) ==
  LET counts == derive_counts(s) IN
    CASE counts.err # "Ok" -> counts
      [] ~validate_all_offsets(s, counts.val) -> Err("Offsets")
      [] ~validate_total_lengths(s) -> Err("TotalMismatch")
      [] ~validate_value_ranges(s, counts.val) -> Err("OutOfRange")
      [] ~validate_within_range_sorted(s) -> Err("NotStrictlyAscending")
      [] level = "Strict" /\ ~validate_cross_direction(s) -> Err("CrossDirectionMismatch")
      [] OTHER -> counts

open_with(s, level) ==
  LET counts == validate_sections(s, level) IN
    IF counts.err = "Ok" THEN Ok([sections |-> s, counts |-> counts.val]) ELSE counts

\* Freezing validates strictly and keeps the weights in participant order.
hyper_freeze(b) ==
  LET built == build_topology(b.vertex_count, normalized_hyperedges(b))
      view == open_with(built.val.sections, "Strict")
  IN  CASE built.err # "Ok" -> built
        [] view.err # "Ok" -> Err("InvalidTopology")
        [] OTHER -> Ok([view |-> view.val, element_weights |-> b.element_weights,
                        relation_weights |-> b.relation_weights,
                        incidence_weights |-> built.val.incidence_weights])

-----------------------------------------------------------------------------
(* The view.  Head participants are numbered before tail participants.      *)

source_participants(g, h) == Row(g.sections.head_offsets, g.sections.head_participants, h)
target_participants(g, h) == Row(g.sections.tail_offsets, g.sections.tail_participants, h)
hyperedge_participants(g, h) == source_participants(g, h) \o target_participants(g, h)

outgoing_hyperedges(g, v) ==
  Row(g.sections.vertex_outgoing_offsets, g.sections.vertex_outgoing_hyperedges, v)
incoming_hyperedges(g, v) ==
  Row(g.sections.vertex_incoming_offsets, g.sections.vertex_incoming_hyperedges, v)
incident_hyperedges(g, v) == outgoing_hyperedges(g, v) \o incoming_hyperedges(g, v)

incidence_bound(g) == g.counts.outgoing + g.counts.incoming

\* usize_to_index_validated: a participant number that does not fit is a panic.
participant_id(n) == IF Fits(n, IncidenceMax) THEN Ok(n) ELSE Err("unreachable")

source_incidences(g, h) ==
  [i \in DOMAIN source_participants(g, h) |-> participant_id(g.sections.head_offsets[h + 1] + i - 1)]
target_incidences(g, h) ==
  [i \in DOMAIN target_participants(g, h) |->
     participant_id(g.counts.outgoing + g.sections.tail_offsets[h + 1] + i - 1)]
relation_incidences(g, h) == source_incidences(g, h) \o target_incidences(g, h)
relation_incidence_count(g, h) == Len(source_participants(g, h)) + Len(target_participants(g, h))
element_incidence_count(g, v) == Len(outgoing_hyperedges(g, v)) + Len(incoming_hyperedges(g, v))

incidence_role(g, n) == IF n < g.counts.outgoing THEN "Head" ELSE "Tail"

incidence_element(g, n) ==
  IF n < g.counts.outgoing THEN g.sections.head_participants[n + 1]
  ELSE g.sections.tail_participants[n - g.counts.outgoing + 1]

\* The bisection for the last bucket that begins at or before the target.
locate_owning_bucket(offsets, target) ==
  LET Search[low \in 0..Len(offsets), high \in 0..Len(offsets)] ==
        LET mid == low + ((high - low) \div 2) IN
          IF low + 1 >= high THEN low
          ELSE IF offsets[mid + 1] <= target THEN Search[mid, high] ELSE Search[low, mid]
  IN  Search[0, Len(offsets) - 1]

incidence_relation(g, n) ==
  IF n < g.counts.outgoing THEN locate_owning_bucket(g.sections.head_offsets, n)
  ELSE locate_owning_bucket(g.sections.tail_offsets, n - g.counts.outgoing)

\* The participant numbers of v in the buckets of the relations; one that does
\* not list v, which only the strict validation excludes, is passed over.
locate_in_buckets(offsets, participants, relations, v, first) ==
  LET found == SelectSeq(relations, LAMBDA h : v \in Range(Row(offsets, participants, h))) IN
    [i \in DOMAIN found |->
       participant_id(first + offsets[found[i] + 1]
                      + (CHOOSE p \in DOMAIN Row(offsets, participants, found[i]) :
                           Row(offsets, participants, found[i])[p] = v) - 1)]

element_incidences(g, v) ==
  locate_in_buckets(g.sections.head_offsets, g.sections.head_participants,
                    outgoing_hyperedges(g, v), v, 0)
  \o locate_in_buckets(g.sections.tail_offsets, g.sections.tail_participants,
                       incoming_hyperedges(g, v), v, g.counts.outgoing)

\* Bucket by bucket, so a vertex reached through two hyperedges comes twice.
hyper_element_successors(g, v) ==
  FlattenSeq([i \in DOMAIN outgoing_hyperedges(g, v) |->
                target_participants(g, outgoing_hyperedges(g, v)[i])])
\* Mutant: the incoming hyperedges are left by the side they were entered.
hyper_element_predecessors_SameSide(g, v) ==
  FlattenSeq([i \in DOMAIN incoming_hyperedges(g, v) |->
                target_participants(g, incoming_hyperedges(g, v)[i])])

hyper_element_predecessors(g, v) ==
  FlattenSeq([i \in DOMAIN incoming_hyperedges(g, v) |->
                source_participants(g, incoming_hyperedges(g, v)[i])])

hyper_contains(id, bound) == id < bound
hyper_local_id(canonical, bound) == IF hyper_contains(canonical, bound) THEN Ok(canonical) ELSE Err("None")
=============================================================================
