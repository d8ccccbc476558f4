------------------------------- MODULE OxgRead -------------------------------
(***************************************************************************)
(* What a Reader of oxgraph-db answers: the merged iterators, the lookups  *)
(* of a declared index, neighbours, the graph and hypergraph projections   *)
(* and walks over them.  Pure operators over a base b, an overlay o and a  *)
(* catalog cat; projection-local ids count from zero.                      *)
(***************************************************************************)
EXTENDS OxgOverlay, OxgCatalog

CONSTANT IndexMax   \* largest projection-local id (u32)

ASSUME ReadAssumption == IndexMax \in Nat

Layout ==
  INSTANCE OxgBcsr WITH NodeMax <- IndexMax, EdgeMax <- IndexMax, VertexMax <- IndexMax,
                        RelationMax <- IndexMax, IncidenceMax <- IndexMax

Answer(val) == [err |-> "Ok", val |-> val]
Failed(err) == [err |-> err, val |-> {}]

-----------------------------------------------------------------------------
(* MergeIter and PropertyMergeIter: two ascending iterators, the overlay's  *)
(* entry hiding the base's; dead are the overlay's tombstones, before the   *)
(* order of the keys.                                                       *)

MergeStep(st, dead, before) ==
  CASE st.base = <<>> /\ st.over = <<>> -> st
    [] st.base # <<>> /\ (st.over = <<>> \/ <<Head(st.base), Head(st.over)>> \in before) ->
         [st EXCEPT !.base = Tail(@), !.out = Append(@, Head(st.base))]
    [] OTHER ->
         [base |-> IF st.base # <<>> /\ Head(st.base) = Head(st.over) THEN Tail(st.base) ELSE st.base,
          over |-> Tail(st.over),
          out |-> IF Head(st.over) \in dead THEN st.out ELSE Append(st.out, Head(st.over))]

merge_iter(base, over, dead, before) ==
  Loop(LAMBDA st, k : MergeStep(st, dead, before),
       [base |-> Ordered(base, LAMBDA x, y : <<x, y>> \in before),
        over |-> Ordered(over, LAMBDA x, y : <<x, y>> \in before), out |-> <<>>],
       [k \in 1..(Cardinality(base) + Cardinality(over)) |-> k]).out

Held(map) == {i \in DOMAIN map : map[i] # Absent}
Touched(map) == {i \in DOMAIN map : map[i] # Unset}
\* Mutant: a tombstone is passed on like a record.
Dead_None(map) == {}

Dead(map) == {i \in DOMAIN map : map[i] = Absent}

\* The order of record ids.
RecordIds == Elements \cup Relations \cup Incidences
IdOrder == {p \in RecordIds \X RecordIds : p[1] < p[2]}

elements(b, o) == merge_iter(Held(b.elements), Touched(o.elements), Dead(o.elements), IdOrder)
relations(b, o) == merge_iter(Held(b.relations), Touched(o.relations), Dead(o.relations), IdOrder)
incidences(b, o) == merge_iter(Held(b.incidences), Touched(o.incidences), Dead(o.incidences), IdOrder)

\* The order of PropertySubject, and of (subject, key) pairs.
Rank == [element |-> 1, relation |-> 2, incidence |-> 3]
SubjectBefore(s, t) == Rank[s[1]] < Rank[t[1]] \/ (s[1] = t[1] /\ s[2] < t[2])
PairBefore(p, q) == SubjectBefore(p[1], q[1]) \/ (p[1] = q[1] /\ p[2] < q[2])
PairOrder == {p \in (Subjects \X Keys) \X (Subjects \X Keys) : PairBefore(p[1], p[2])}

base_property_triples(b) == {<<s, k>> \in Subjects \X Keys : b.properties[s][k] # Absent}
overlay_property_triples(o) == {<<s, k>> \in Subjects \X Keys : o.properties[s][k] # Unset}

properties(b, o) ==
  merge_iter(base_property_triples(b), overlay_property_triples(o),
             {<<s, k>> \in overlay_property_triples(o) : o.properties[s][k] = Absent}, PairOrder)

\* The base's map with the overlay's values put in and its tombstones taken out.
subject_properties(b, o, s) ==
  LET set == {k \in Keys : o.properties[s][k] \in Values}
      kept == {k \in Keys : b.properties[s][k] # Absent} \ {k \in Keys : o.properties[s][k] = Absent}
  IN  [k \in kept \cup set |-> IF k \in set THEN o.properties[s][k] ELSE b.properties[s][k]]

-----------------------------------------------------------------------------
(* Typed lookups.  A probe value is [type, val].                            *)

KeyDef(cat, k) == DefOf(cat, "property_key", k).def

validate_lookup_value(cat, k, v) ==
  CASE ~Known(cat, "property_key", k) -> "UnknownId"
    [] KeyDef(cat, k).value_type # v.type -> "PropertyTypeMismatch"
    [] OTHER -> "Ok"

validate_lookup_value_for_family(cat, k, family, v) ==
  IF Known(cat, "property_key", k) /\ KeyDef(cat, k).family # family THEN "WrongPropertyFamily"
  ELSE validate_lookup_value(cat, k, v)

Checked(err, val) == IF err = "Ok" THEN Answer(val) ELSE Failed(err)

typed_property_equal(cat, b, o, k, v) ==
  Checked(validate_lookup_value(cat, k, v), property_equal(b, o, k, v.val))

typed_property_equal_for_family(cat, b, o, k, family, v) ==
  Checked(validate_lookup_value_for_family(cat, k, family, v), property_equal(b, o, k, v.val))

\* min is checked before max; an inverted range is empty, not an error.
typed_property_range(cat, b, o, k, min, max) ==
  CASE validate_lookup_value(cat, k, min) # "Ok" -> Failed(validate_lookup_value(cat, k, min))
    [] validate_lookup_value(cat, k, max) # "Ok" -> Failed(validate_lookup_value(cat, k, max))
    [] min.val > max.val -> Answer({})
    [] OTHER -> Answer(property_range(b, o, k, min.val, max.val))
\* Mutant: only the smallest posting is looked at.
property_composite_equal_Smallest(b, o, ks, vs) ==
  LET postings == {property_equal(b, o, ks[i], vs[i].val) : i \in DOMAIN ks} IN
    CHOOSE p \in postings : \A q \in postings : Cardinality(p) <= Cardinality(q)

\* The postings of all the pairs, the smallest first; no pair answers nothing.
property_composite_equal(b, o, ks, vs) ==
  LET postings == {property_equal(b, o, ks[i], vs[i].val) : i \in DOMAIN ks} IN
    {s \in UNION postings : \A p \in postings : s \in p}

typed_property_composite_equal(cat, b, o, ks, vs) ==
  LET bad == {i \in DOMAIN ks : validate_lookup_value(cat, ks[i], vs[i]) # "Ok"} IN
    CASE Len(ks) # Len(vs) -> Failed("unsupported")
      [] bad # {} -> Failed(validate_lookup_value(cat, ks[CHOOSE i \in bad : \A j \in bad : i <= j],
                                                  vs[CHOOSE i \in bad : \A j \in bad : i <= j]))
      [] OTHER -> Answer(property_composite_equal(b, o, ks, vs))

-----------------------------------------------------------------------------
(* Neighbours: a relation is directed by the order of its incidence ids.    *)

follow_direction(direction, from, to) ==
  \/ direction = "outgoing" /\ from < to
  \/ direction = "incoming" /\ from > to
  \/ direction = "both"
\* Mutant: the direction is not looked at.
neighbors_Undirected(b, o, e, type, direction) ==
  {Incidence(b, o, j).element : j \in
     UNION {{j \in relation_incidences(b, o, Incidence(b, o, i).relation) :
               Incidence(b, o, j).element # e /\ i <= j}
            : i \in {i \in element_incidences(b, o, e) :
                       LET r == Relation(b, o, Incidence(b, o, i).relation) IN
                         r # Absent /\ r.type = type}}}

neighbors(b, o, e, type, direction) ==
  {Incidence(b, o, j).element : j \in
     UNION {{j \in relation_incidences(b, o, Incidence(b, o, i).relation) :
               Incidence(b, o, j).element # e /\ follow_direction(direction, i, j)}
            : i \in {i \in element_incidences(b, o, e) :
                       LET r == Relation(b, o, Incidence(b, o, i).relation) IN
                         r # Absent /\ r.type = type}}}

\* The first two incidences by id.
endpoints(b, o, r) ==
  LET all == Sorted(relation_incidences(b, o, r)) IN
    IF Len(all) < 2 THEN Failed("None")
    ELSE Answer(<<Incidence(b, o, all[1]).element, Incidence(b, o, all[2]).element>>)

-----------------------------------------------------------------------------
(* GraphProjection *)

relation_selected(record, selected) ==
  selected = {} \/ (record.type # Absent /\ record.type \in selected)

\* The elements that fill a role, in incidence order; a graph takes exactly one.
Filling(b, o, r, roles) ==
  LET ids == SelectSeq(Sorted(relation_incidences(b, o, r)),
                       LAMBDA i : Incidence(b, o, i).role \in roles)
  IN  [n \in DOMAIN ids |-> Incidence(b, o, ids[n]).element]

OneEach(sources, targets) ==
  CASE Len(sources) > 1 \/ Len(targets) > 1 -> Failed("duplicate endpoint")
    [] sources = <<>> \/ targets = <<>> -> Failed("lacks endpoint")
    [] OTHER -> Answer(<<sources[1], targets[1]>>)

graph_endpoints(b, o, r, source_role, target_role) ==
  OneEach(Filling(b, o, r, {source_role}), Filling(b, o, r, {target_role}))

intern_element(seq, e) == IF e \in Range(seq) THEN seq ELSE Append(seq, e)
Local(seq, x) == (CHOOSE i \in DOMAIN seq : seq[i] = x) - 1

PushEdge(st, r, ends, interned) ==
  [err |-> "Ok", elements |-> interned, relations |-> Append(st.relations, r),
   ends |-> Append(st.ends, <<Local(interned, ends[1]), Local(interned, ends[2])>>)]

PushEnds(st, r, ends) ==
  IF ends.err # "Ok" THEN [st EXCEPT !.err = ends.err]
  ELSE PushEdge(st, r, ends.val, intern_element(intern_element(st.elements, ends.val[1]), ends.val[2]))

push_graph_relation(b, o, st, r, def) ==
  IF st.err # "Ok" THEN st
  ELSE PushEnds(st, r, graph_endpoints(b, o, r, def.source_role, def.target_role))

grouped(st, offsets, flat) == [u \in DOMAIN st.elements |-> Layout!Row(offsets, flat, u - 1)]

\* Mutant: the rows of the reverse graph are read from the forward one.
TwoSided_Forward(st, forward, reverse) ==
  [elements |-> st.elements, relations |-> st.relations, ends |-> st.ends,
   successors |-> grouped(st, forward.offsets, forward.targets),
   out_edges |-> grouped(st, forward.offsets, forward.edge_ids),
   predecessors |-> grouped(st, forward.offsets, forward.targets),
   in_edges |-> grouped(st, forward.offsets, forward.edge_ids)]

\* The forward and the reverse rows of the frozen graph.
TwoSided(st, forward, reverse) ==
  [elements |-> st.elements, relations |-> st.relations, ends |-> st.ends,
   successors |-> grouped(st, forward.offsets, forward.targets),
   out_edges |-> grouped(st, forward.offsets, forward.edge_ids),
   predecessors |-> grouped(st, reverse.offsets, reverse.targets),
   in_edges |-> grouped(st, reverse.offsets, reverse.edge_ids)]

WithReverse(st, forward) == TwoSided(st, forward, Layout!transpose(forward).val)

finish_graph(st) ==
  WithReverse(st, Layout!freeze_topology(Len(st.elements), [i \in DOMAIN st.ends |-> st.ends[i][1]],
                                         [i \in DOMAIN st.ends |-> st.ends[i][2]]).val)

Selected(b, o, def) ==
  SelectSeq(relations(b, o), LAMBDA r : relation_selected(Relation(b, o, r), def.relation_types))

FinishedGraph(st) == IF st.err = "Ok" THEN Answer(finish_graph(st)) ELSE Failed(st.err)

graph_from_state(b, o, def) ==
  FinishedGraph(Loop(LAMBDA acc, r : push_graph_relation(b, o, acc, r, def),
                     [err |-> "Ok", elements |-> <<>>, relations |-> <<>>, ends |-> <<>>],
                     Selected(b, o, def)))

-----------------------------------------------------------------------------
(* HypergraphProjection *)

InternAll(seq, es) == Loop(intern_element, seq, es)
Locals(seq, es) == [n \in DOMAIN es |-> Local(seq, es[n])]

PushHyperedge(st, r, ids, interned, sources, targets) ==
  [err |-> "Ok", elements |-> interned, relations |-> Append(st.relations, r),
   incidences |-> st.incidences \o ids,
   relation_incidences |-> Append(st.relation_incidences, [n \in DOMAIN ids |-> Len(st.incidences) + n - 1]),
   source_vertices |-> Append(st.source_vertices, Locals(interned, sources)),
   target_vertices |-> Append(st.target_vertices, Locals(interned, targets))]

PushParticipants(b, o, st, r, ids, sources, targets) ==
  IF sources = <<>> \/ targets = <<>> THEN [st EXCEPT !.err = "lacks participants"]
  ELSE PushHyperedge(st, r, ids, InternAll(st.elements, [n \in DOMAIN ids |-> Incidence(b, o, ids[n]).element]),
                     sources, targets)

push_hyper_relation(b, o, st, r, def) ==
  IF st.err # "Ok" THEN st
  ELSE PushParticipants(b, o, st, r, Sorted(relation_incidences(b, o, r)),
                        Filling(b, o, r, def.source_roles), Filling(b, o, r, def.target_roles))

\* The first occurrence of each vertex, with the unit weight of the unweighted builder.
unique_vertices(locals) ==
  LET first == SelectSeq([n \in DOMAIN locals |-> n],
                         LAMBDA n : \A m \in 1..(n - 1) : locals[m] # locals[n])
  IN  [n \in DOMAIN first |-> <<locals[first[n]], 1>>]

build_directed_vertex_arrays(st) ==
  Layout!hyper_freeze(
    [vertex_count |-> Len(st.elements),
     hyperedges |-> [h \in DOMAIN st.relations |->
                       [sources |-> unique_vertices(st.source_vertices[h]),
                        targets |-> unique_vertices(st.target_vertices[h])]],
     element_weights |-> [v \in DOMAIN st.elements |-> 1],
     relation_weights |-> [h \in DOMAIN st.relations |-> 1]]).val.view

build_element_incidences(b, o, st) ==
  [v \in DOMAIN st.elements |->
     SelectSeq([n \in DOMAIN st.incidences |-> n - 1],
               LAMBDA n : Incidence(b, o, st.incidences[n + 1]).element = st.elements[v])]

unique_sorted(seq) == Sorted(Range(seq))
\* Mutant: a hyperedge is left by the vertices it is entered by.
VertexRows_Swapped(st, g) ==
  [outgoing |-> [v \in DOMAIN st.elements |-> Layout!outgoing_hyperedges(g, v - 1)],
   incoming |-> [v \in DOMAIN st.elements |-> Layout!incoming_hyperedges(g, v - 1)],
   successors |-> [v \in DOMAIN st.elements |-> unique_sorted(Layout!hyper_element_predecessors(g, v - 1))],
   predecessors |-> [v \in DOMAIN st.elements |-> unique_sorted(Layout!hyper_element_successors(g, v - 1))]]

VertexRows(st, g) ==
  [outgoing |-> [v \in DOMAIN st.elements |-> Layout!outgoing_hyperedges(g, v - 1)],
   incoming |-> [v \in DOMAIN st.elements |-> Layout!incoming_hyperedges(g, v - 1)],
   successors |-> [v \in DOMAIN st.elements |-> unique_sorted(Layout!hyper_element_successors(g, v - 1))],
   predecessors |-> [v \in DOMAIN st.elements |-> unique_sorted(Layout!hyper_element_predecessors(g, v - 1))]]

finish_hyper(b, o, st) ==
  [elements |-> st.elements, relations |-> st.relations, incidences |-> st.incidences,
   relation_incidences |-> st.relation_incidences,
   element_incidences |-> build_element_incidences(b, o, st),
   source_vertices |-> st.source_vertices, target_vertices |-> st.target_vertices]
  @@ VertexRows(st, build_directed_vertex_arrays(st))

FinishedHyper(b, o, st) == IF st.err = "Ok" THEN Answer(finish_hyper(b, o, st)) ELSE Failed(st.err)

hyper_from_state(b, o, def) ==
  IF def.source_roles = {} \/ def.target_roles = {} THEN Failed("empty roles")
  ELSE FinishedHyper(b, o,
         Loop(LAMBDA acc, r : push_hyper_relation(b, o, acc, r, def),
              [err |-> "Ok", elements |-> <<>>, relations |-> <<>>, incidences |-> <<>>,
               relation_incidences |-> <<>>, source_vertices |-> <<>>, target_vertices |-> <<>>],
              Selected(b, o, def)))

\* The subjects a projection covers, which a projection index lists.
graph_subjects(g) == {ElementSubject(e) : e \in Range(g.elements)}
                       \cup {RelationSubject(r) : r \in Range(g.relations)}
hyper_subjects(h) == graph_subjects(h) \cup {IncidenceSubject(i) : i \in Range(h.incidences)}
OfGraph(g) == IF g.err = "Ok" THEN Answer(graph_subjects(g.val)) ELSE g
OfHyper(h) == IF h.err = "Ok" THEN Answer(hyper_subjects(h.val)) ELSE h

graph_projection(cat, b, o, id) ==
  CASE ~Known(cat, "projection", id) -> Failed("UnknownId")
    [] DefOf(cat, "projection", id).def.shape # "graph" -> Failed("not a graph")
    [] OTHER -> graph_from_state(b, o, DefOf(cat, "projection", id).def)

hypergraph_projection(cat, b, o, id) ==
  CASE ~Known(cat, "projection", id) -> Failed("UnknownId")
    [] DefOf(cat, "projection", id).def.shape # "hypergraph" -> Failed("not a hypergraph")
    [] OTHER -> hyper_from_state(b, o, DefOf(cat, "projection", id).def)

projection_index_subjects(cat, b, o, id) ==
  CASE ~Known(cat, "projection", id) -> Failed("UnknownId")
    [] DefOf(cat, "projection", id).def.shape = "graph" -> OfGraph(graph_projection(cat, b, o, id))
    [] OTHER -> OfHyper(hypergraph_projection(cat, b, o, id))

\* Reader::lookup: each index shape takes one kind of probe.
lookup(cat, b, o, index, probe) ==
  LET def == DefOf(cat, "index", index).def IN
    CASE ~Known(cat, "index", index) -> Failed("UnknownId")
      [] def.shape = "label" /\ probe.kind = "all" ->
           Answer({ElementSubject(e) : e \in elements_with_label(b, o, def.ids[1])})
      [] def.shape = "relation_type" /\ probe.kind = "all" ->
           Answer({RelationSubject(r) : r \in relations_with_type(b, o, def.ids[1])})
      [] def.shape = "equality" /\ probe.kind = "equal" ->
           typed_property_equal(cat, b, o, def.ids[1], probe.values[1])
      [] def.shape = "range" /\ probe.kind = "range" ->
           typed_property_range(cat, b, o, def.ids[1], probe.values[1], probe.values[2])
      [] def.shape = "composite" /\ probe.kind = "composite" ->
           typed_property_composite_equal(cat, b, o, def.ids, probe.values)
      [] def.shape = "projection_index" /\ probe.kind = "all" ->
           projection_index_subjects(cat, b, o, def.ids[1])
      [] OTHER -> Failed("unsupported")

-----------------------------------------------------------------------------
(* Walks *)

Rows(g, direction, u) ==
  CASE direction = "outgoing" -> g.successors[u + 1]
    [] direction = "incoming" -> g.predecessors[u + 1]
    [] OTHER -> g.successors[u + 1] \o g.predecessors[u + 1]

\* Mutant: the limit is looked at before the emission is counted.
discover_LateLimit(st, u, depth, emits, limit) ==
  IF st.stop \/ u \in Range(st.queue) THEN st
  ELSE [queue |-> Append(st.queue, u), depths |-> Append(st.depths, depth),
        out |-> IF emits THEN Append(st.out, u) ELSE st.out,
        stop |-> emits /\ Len(st.out) >= limit]

\* Marking, queueing and emitting a vertex; the walk stops at the limit.
discover(st, u, depth, emits, limit) ==
  IF st.stop \/ u \in Range(st.queue) THEN st
  ELSE [queue |-> Append(st.queue, u), depths |-> Append(st.depths, depth),
        out |-> IF emits THEN Append(st.out, u) ELSE st.out,
        stop |-> emits /\ Len(st.out) + 1 >= limit]

\* The bounded search: seeds first, then the queue in order.
bounded_search(g, seeds, walk) ==
  LET Visit(st, head) ==
        IF st.stop \/ head > Len(st.queue) THEN st
        ELSE IF st.depths[head] >= walk.max_depth THEN st
        ELSE Loop(LAMBDA s, u : discover(s, u, st.depths[head] + 1, TRUE, walk.limit), st,
                  Rows(g, walk.direction, st.queue[head]))
  IN  Loop(Visit,
           Loop(LAMBDA st, u : discover(st, u, 0, walk.include_start, walk.limit),
                [queue |-> <<>>, depths |-> <<>>, out |-> <<>>, stop |-> FALSE], seeds),
           [head \in DOMAIN g.elements |-> head])

\* The edges of the projection between two of the elements, by relation.
collect_internal_edges(g, discovered) ==
  {<<g.relations[edge + 1], g.elements[g.ends[edge + 1][1] + 1], g.elements[g.ends[edge + 1][2] + 1]>> :
     edge \in UNION {{e \in Range(g.out_edges[u + 1]) : g.ends[e + 1][2] \in discovered} : u \in discovered}}

DepthOf(run, u) == run.depths[CHOOSE i \in DOMAIN run.queue : run.queue[i] = u]

WalkResult(g, locals, run) ==
  [nodes |-> [i \in DOMAIN run.out |-> <<g.elements[run.out[i] + 1], DepthOf(run, run.out[i])>>],
   edges |-> collect_internal_edges(g, Range(run.out) \cup Range(locals))]

WalkFrom(g, locals, walk) == WalkResult(g, locals, bounded_search(g, locals, walk))

NoWalk == [nodes |-> <<>>, edges |-> {}]

walk_graph_projection(g, seeds, walk) ==
  CASE seeds = <<>> \/ walk.limit = 0 -> Answer(NoWalk)
    [] ~(Range(seeds) \subseteq Range(g.elements)) -> Failed("UnknownId")
    [] OTHER -> Answer(WalkFrom(g, Locals(g.elements, seeds), walk))

WalkOver(g, seeds, walk) == IF g.err = "Ok" THEN walk_graph_projection(g.val, seeds, walk) ELSE g

\* Reader::walk: no seed or no room answers before the projection is built.
reader_walk(cat, b, o, projection, seeds, walk) ==
  IF seeds = <<>> \/ walk.limit = 0 THEN Answer(NoWalk)
  ELSE WalkOver(graph_projection(cat, b, o, projection), seeds, walk)
=============================================================================
