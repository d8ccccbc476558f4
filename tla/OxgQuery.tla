------------------------------ MODULE OxgQuery ------------------------------
(***************************************************************************)
(* Catalog, graph and readers together.  A behaviour starts either with an *)
(* empty store, whose schema is then declared, or with a store that has    *)
(* the full schema and a folded graph, which single-call transactions then *)
(* edit.  Every reader question is a state function of what is published.  *)
(***************************************************************************)
EXTENDS OxgOxql, OxgBaseFile

CONSTANTS
  MaxSchemaOps,   \* bound on the catalog calls
  MaxEdits        \* bound on the graph edits and folds

ASSUME QueryAssumption == MaxSchemaOps \in Nat /\ MaxEdits \in Nat

VARIABLES
  catalog,    \* the published Catalog
  ids,        \* the published next ids of the catalog kinds
  writer,     \* the staged catalog of the open Writer
  writing,    \* whether it is open
  logged,     \* the catalog operations of the committed frames
  bound,      \* the last schema applied: its declarations, the Bound it returned, and which
              \* of the declared names the catalog had before
  prepared,   \* the plans prepared so far, by query
  calls,      \* how many catalog calls were made
  base, overlay, edits

schema_vars == <<catalog, ids, writer, writing, logged, bound, prepared, calls>>
graph_vars == <<base, overlay, edits>>
vars == <<schema_vars, graph_vars>>

FirstIds == [kind \in Kinds |-> 1]

Integers64 == [family |-> "element", value_type |-> "integer"]

GraphSpec(types) == [shape |-> "graph", source_role |-> "src", target_role |-> "dst", relation_types |-> types]
HyperSpec(sources) ==
  [shape |-> "hypergraph", source_roles |-> sources, target_roles |-> {"dst"}, relation_types |-> {"knows"}]

FullSchema ==
  <<Declare("role", "src", <<>>), Declare("role", "dst", <<>>), Declare("label", "person", <<>>),
    Declare("relation_type", "knows", <<>>), Declare("relation_type", "likes", <<>>),
    Declare("property_key", "age", Integers64), Declare("property_key", "size", Integers64),
    Declare("property_key", "since", [Integers64 EXCEPT !.family = "relation"]),
    Declare("index", "by_age", "age"),
    Declare("projection", "known", GraphSpec({"knows"})), Declare("projection", "all", GraphSpec({})),
    Declare("projection", "hyper", HyperSpec({"src"})),
    Declare("projection", "wide", HyperSpec({"src", "dst"}))>>

OtherIndexes ==
  <<[shape |-> "label", ids |-> <<1>>], [shape |-> "relation_type", ids |-> <<1>>],
    [shape |-> "equality", ids |-> <<3>>], [shape |-> "range", ids |-> <<1>>],
    [shape |-> "composite", ids |-> <<1, 2>>], [shape |-> "projection_index", ids |-> <<2>>],
    [shape |-> "projection_index", ids |-> <<3>>]>>

\* The name of an index is its place here: names only have to differ.
IndexNames == <<"i1", "i2", "i3", "i4", "i5", "i6", "i7">>

FullWriter ==
  Loop(LAMBDA w, n : define_index(w, IndexNames[n], OtherIndexes[n]).w,
       apply_schema(NewWriter(EmptyCatalog, FirstIds), FullSchema).w, [n \in DOMAIN OtherIndexes |-> n])

-----------------------------------------------------------------------------
(* Graphs to start from: three elements and edges <<from, to, type>>        *)

Graphs ==
  {<<<<1, 2, 1>>, <<2, 3, 1>>>>, <<<<1, 2, 1>>, <<2, 1, 1>>>>, <<<<1, 2, 1>>, <<1, 2, 2>>>>,
   <<<<1, 1, 1>>, <<1, 3, 1>>>>, <<<<3, 1, 1>>, <<3, 2, 2>>>>}

Created(o, family) == [o EXCEPT !.next[family] = @ + 1]

Linked(o, edge) ==
  LET r == o.next.relation
      i == o.next.incidence
      typed == set_relation_type(EmptyBase, create_relation(o, r), r, edge[3])
      ends == create_incidence(create_incidence(typed, i, r, edge[1], 1), i + 1, r, edge[2], 2)
  IN  [ends EXCEPT !.next.relation = r + 1, !.next.incidence = i + 2]

Peopled ==
  LET Place(o, e) == Created(create_element(o, e), "element")
      people == Loop(Place, EmptyOverlay(EmptyBase.next), <<1, 2, 3>>)
      aged == set_property(EmptyBase, set_property(EmptyBase, people, ElementSubject(1), 1, 0),
                           ElementSubject(2), 1, 1)
      sized == set_property(EmptyBase, aged, ElementSubject(2), 2, 1)
  IN  add_element_label(EmptyBase, sized, 1, 1)

GraphBase(edges) == freeze_view(EmptyBase, Loop(Linked, Peopled, edges))

-----------------------------------------------------------------------------
(* WHERE queries, prepared before the graph is edited *)

Compare(key, op) == [node |-> "compare", key |-> key, op |-> op, value |-> "1"]
Leaves == {Compare("age", "="), Compare("age", "<"), Compare("size", ">=")}
Nodes(L, R) == [node : {"AND", "OR"}, left : L, right : R]
Pairs == Nodes({Compare("age", "=")}, Leaves)
Predicates ==
  Leaves \cup Pairs \cup Nodes(Pairs, {Compare("age", "<")}) \cup Nodes({Compare("age", "<")}, Pairs)

RECURSIVE Render(_)
\* A predicate as its author would write it: OR inside AND in parentheses.
Render(p) ==
  LET Inside(q) == IF p.node = "AND" /\ q.node = "OR" THEN <<"(">> \o Render(q) \o <<")">> ELSE Render(q)
  IN  IF p.node = "compare" THEN <<p.key, p.op, p.value>>
      ELSE Inside(p.left) \o <<IF p.node = "AND" THEN "and" ELSE "OR">> \o Inside(p.right)

Text(p) == <<"MATCH", "ELEMENTS", "WHERE">> \o Render(p)

WherePlans == [q \in {Text(p) : p \in Predicates} |-> prepare(FullWriter.catalog, q).val]

Init ==
  /\ writing = FALSE
  /\ calls = 0
  /\ edits = 0
  /\ bound = [schema |-> <<>>, val |-> EmptyBound, found |-> {}]
  /\ \/ /\ catalog = EmptyCatalog
        /\ ids = FirstIds
        /\ logged = <<>>
        /\ prepared = <<>>
        /\ base = EmptyBase
     \/ /\ catalog = FullWriter.catalog
        /\ ids = FullWriter.next
        /\ logged = FullWriter.log
        /\ prepared = WherePlans
        /\ base \in {GraphBase(edges) : edges \in Graphs}
  /\ writer = NewWriter(catalog, ids)
  /\ overlay = EmptyOverlay(base.next)

-----------------------------------------------------------------------------
(* Catalog calls of a Writer *)

DeclaresSchema == base = EmptyBase /\ overlay = EmptyOverlay(base.next)

BeginSchema ==
  /\ ~writing
  /\ DeclaresSchema /\ calls < MaxSchemaOps
  /\ writing' = TRUE
  /\ writer' = NewWriter(catalog, ids)
  /\ UNCHANGED <<catalog, ids, logged, bound, prepared, calls, graph_vars>>

Definitions ==
  {<<"projection", [shape |-> "graph", source_role |-> 1, target_role |-> 2, relation_types |-> {1}]>>,
   <<"projection", [shape |-> "hypergraph", source_roles |-> {1, 2}, target_roles |-> {2},
                    relation_types |-> {1}]>>,
   <<"index", [shape |-> "equality", ids |-> <<1>>]>>,
   <<"index", [shape |-> "composite", ids |-> <<2, 1>>]>>,
   <<"index", [shape |-> "composite", ids |-> <<>>]>>,
   <<"index", [shape |-> "projection_index", ids |-> <<1>>]>>}

\* The staged state after a call that may have been refused.
Staged(r) == writer' = r.w /\ calls' = calls + 1 /\ UNCHANGED <<catalog, ids, writing, logged, prepared, graph_vars>>

Register ==
  /\ writing /\ calls < MaxSchemaOps
  /\ \/ \E kind \in {"role", "label", "relation_type"}, name \in {"src", "dst"} :
          Staged(register(writer, kind, name, <<>>))
     \/ \E family \in {"element", "relation"} :
          Staged(register_property_key(writer, "age", family, "integer"))
  /\ UNCHANGED bound

Define ==
  /\ writing /\ calls < MaxSchemaOps
  /\ \E d \in Definitions, name \in {"all", "by_age"} :
       Staged(IF d[1] = "projection" THEN define_projection(writer, name, d[2])
              ELSE define_index(writer, name, d[2]))
  /\ UNCHANGED bound

Schemas ==
  {FullSchema,
   <<Declare("index", "by_age", "age"), Declare("property_key", "age", Integers64)>>,
   <<Declare("property_key", "age", [family |-> "relation", value_type |-> "text"])>>,
   <<Declare("role", "src", <<>>), Declare("index", "by_age", "size")>>,
   <<Declare("property_key", "size", Integers64), Declare("index", "by_age", "size")>>,
   <<Declare("role", "src", <<>>), Declare("projection", "all", GraphSpec({}))>>,
   <<Declare("projection", "hyper", HyperSpec({"src"})), Declare("role", "dst", <<>>),
     Declare("relation_type", "knows", <<>>), Declare("role", "src", <<>>)>>}

Found(schema) ==
  {<<schema[n].kind, schema[n].name>> : n \in {m \in DOMAIN schema : Named(writer.catalog, schema[m].kind, schema[m].name)}}

\* An error leaves what the loop registered before it staged.
ApplySchema ==
  /\ writing /\ calls < MaxSchemaOps
  /\ \E schema \in Schemas : \E r \in {apply_schema(writer, schema)} :
       /\ Staged(r)
       /\ bound' = IF r.err = "Ok" THEN [schema |-> schema, val |-> r.val, found |-> Found(schema)] ELSE bound

\* Nothing logged means nothing to publish, ids taken by refused calls included.
CommitSchema ==
  /\ writing
  /\ writing' = FALSE
  /\ IF writer.log = <<>> THEN UNCHANGED <<catalog, ids, logged>>
     ELSE catalog' = writer.catalog /\ ids' = writer.next /\ logged' = logged \o writer.log
  /\ writer' = NewWriter(catalog', ids')
  /\ UNCHANGED <<bound, prepared, calls, graph_vars>>

\* The closure fails; what was bound in it must not be used any more.
RollbackSchema ==
  /\ writing
  /\ writing' = FALSE
  /\ writer' = NewWriter(catalog, ids)
  /\ bound' = [schema |-> <<>>, val |-> EmptyBound, found |-> {}]
  /\ UNCHANGED <<catalog, ids, logged, prepared, calls, graph_vars>>

SchemaQueries ==
  {<<"match", "elements", "where", "age", "=", "1">>, <<"GRAPH", "all", "NEIGHBORS", "1">>,
   <<"MATCH", "RELATIONS", "TYPE", "src">>}

\* A query is prepared once, against the catalog published then.
Prepare ==
  /\ DeclaresSchema
  /\ \E q \in SchemaQueries \ DOMAIN prepared :
       /\ prepare(catalog, q).err = "Ok"
       /\ prepared' = (q :> prepare(catalog, q).val) @@ prepared
  /\ UNCHANGED <<catalog, ids, writer, writing, logged, bound, calls, graph_vars>>

-----------------------------------------------------------------------------
(* Graph calls, each committed on its own *)

Edit(o) ==
  /\ overlay' = o
  /\ edits' = edits + 1
  /\ UNCHANGED <<schema_vars, base>>

Editing == ~DeclaresSchema /\ edits < MaxEdits

AddElement ==
  /\ Editing /\ overlay.next.element <= MaxElement
  /\ Edit(Created(create_element(overlay, overlay.next.element), "element"))

AddRelation ==
  /\ Editing /\ overlay.next.relation <= MaxRelation
  /\ Edit(Created(create_relation(overlay, overlay.next.relation), "relation"))

AddIncidence ==
  /\ Editing /\ overlay.next.incidence <= MaxIncidence
  /\ \E r \in Relations, e \in Elements, role \in Roles :
       /\ Relation(base, overlay, r) # Absent /\ Element(base, overlay, e) # Absent
       /\ Edit(Created(create_incidence(overlay, overlay.next.incidence, r, e, role), "incidence"))

Retype ==
  /\ Editing
  /\ \E r \in Relations, type \in Types :
       /\ Relation(base, overlay, r) # Absent
       /\ Edit(set_relation_type(base, overlay, r, type))

Relabel ==
  /\ Editing
  /\ \E label \in Labels :
       \/ \E e \in Elements : Element(base, overlay, e) # Absent /\ Edit(add_element_label(base, overlay, e, label))
       \/ \E r \in Relations : Relation(base, overlay, r) # Absent /\ Edit(add_relation_label(base, overlay, r, label))

SetValue ==
  /\ Editing
  /\ \E k \in Keys, v \in Values : \E s \in FamilyOf(k) :
       /\ Visible(base, overlay, s) /\ Property(base, overlay, s, k) # v
       /\ Edit(set_property(base, overlay, s, k, v))

UnsetValue ==
  /\ Editing
  /\ \E k \in Keys : \E s \in FamilyOf(k) :
       /\ Visible(base, overlay, s)
       /\ Edit(remove_property(base, overlay, s, k))

\* The record and then, one by one, the incidences that hang on it.
Erased(s) ==
  CASE s[1] = "element" ->
         Loop(LAMBDA o, i : tombstone_incidence(base, o, i), tombstone_element(base, overlay, s[2]),
              Sorted(element_incidences(base, overlay, s[2])))
    [] s[1] = "relation" ->
         Loop(LAMBDA o, i : tombstone_incidence(base, o, i), tombstone_relation(base, overlay, s[2]),
              Sorted(relation_incidences(base, overlay, s[2])))
    [] OTHER -> tombstone_incidence(base, overlay, s[2])

Erase ==
  /\ Editing
  /\ \E s \in Subjects : Visible(base, overlay, s) /\ Edit(Erased(s))

Fold ==
  /\ Editing
  /\ base' = freeze_view(base, overlay)
  /\ overlay' = EmptyOverlay(overlay.next)
  /\ edits' = edits + 1
  /\ UNCHANGED schema_vars

SchemaStep ==
  BeginSchema \/ Register \/ Define \/ ApplySchema \/ CommitSchema \/ RollbackSchema \/ Prepare

GraphStep ==
  AddElement \/ AddRelation \/ AddIncidence \/ Retype \/ Relabel \/ SetValue \/ UnsetValue
    \/ Erase \/ Fold

Next == SchemaStep \/ GraphStep

Spec == Init /\ [][Next]_vars

-----------------------------------------------------------------------------
(* Properties of the catalog *)

\* Replaying the catalog operations of the log gives the catalog they were logged
\* for: the published one and the one being staged, definition bodies included.
CatalogReplays ==
  /\ replay_catalog(EmptyCatalog, logged) = [err |-> "Ok", cat |-> catalog]
  /\ replay_catalog(catalog, writer.log) = [err |-> "Ok", cat |-> writer.catalog]

\* Every id a definition holds is registered: a projection or an index never
\* refers to something no frame of the log defines before it.
RefsClosed ==
  \A cat \in {catalog, writer.catalog} :
    /\ \A id \in DOMAIN cat["projection"].defs :
         validate_projection_definition(cat, DefOf(cat, "projection", id).def)
    /\ \A id \in DOMAIN cat["index"].defs : validate_index_definition(cat, DefOf(cat, "index", id).def)

DefinitionOf(d) == DefOf(writer.catalog, d.kind, bound.val[d.kind][d.name]).def

\* What an applied schema returned holds in the catalog: every declared name is bound to the id
\* that has it, a key to the family and type it was declared with, whoever registered it, and an
\* index or a projection that apply_schema defined itself to the declared keys, roles and types.
\* One that was there before is SchemaShapes' case.
BoundHolds ==
  \A n \in DOMAIN bound.schema :
    LET d == bound.schema[n] IN
      /\ IdOf(writer.catalog, d.kind, d.name) = bound.val[d.kind][d.name]
      /\ DefOf(writer.catalog, d.kind, bound.val[d.kind][d.name]).name = d.name
      /\ d.kind = "property_key" => KeyDef(writer.catalog, bound.val[d.kind][d.name]) = d.def
      /\ (d.kind \in {"index", "projection"} /\ <<d.kind, d.name>> \notin bound.found) =>
           Resolved(bound.val, d) = [err |-> "Ok", def |-> DefinitionOf(d)]

\* apply_schema's documentation promises a SchemaConflict for every name that exists with
\* another shape, so that a schema that was applied has all its indexes and projections as it
\* declares them.  The code compares property keys only.
SchemaShapes ==
  \A n \in DOMAIN bound.schema :
    LET d == bound.schema[n] IN
      (d.kind \in {"index", "projection"} /\ Resolved(bound.val, d).err = "Ok") =>
        Resolved(bound.val, d).def = DefinitionOf(d)

\* A plan stays what preparing its query again would give: names are never rebound,
\* so a prepared query means the same to every later reader.
PreparedStable ==
  [][catalog' # catalog => \A q \in DOMAIN prepared : prepare(catalog', q) = Answer(prepared[q])]_vars

\* A published id is never given to another definition.
CatalogGrows ==
  [][\A kind \in Kinds :
       /\ \A id \in DOMAIN catalog[kind].defs :
            id \in DOMAIN catalog'[kind].defs /\ catalog'[kind].defs[id] = catalog[kind].defs[id]
       /\ ids'[kind] >= ids[kind]]_vars

-----------------------------------------------------------------------------
(* Properties of readers *)

Ascending(S) == Sorted(S)
VisibleElements == {e \in Elements : Element(base, overlay, e) # Absent}
VisibleRelations == {r \in Relations : Relation(base, overlay, r) # Absent}
VisibleIncidences == {i \in Incidences : Incidence(base, overlay, i) # Absent}

\* The merging iterators list every visible record once, in order, whatever the
\* two layers hold for it, and a subject's own properties are among them.
IteratorsMerge ==
  /\ elements(base, overlay) = Ascending(VisibleElements)
  /\ relations(base, overlay) = Ascending(VisibleRelations)
  /\ incidences(base, overlay) = Ascending(VisibleIncidences)
  /\ properties(base, overlay)
       = Ordered({<<s, k>> \in Subjects \X Keys : Property(base, overlay, s, k) # Absent}, PairBefore)
  /\ \A s \in Subjects :
       {<<s, k>> : k \in DOMAIN subject_properties(base, overlay, s)}
         = {p \in Range(properties(base, overlay)) : p[1] = s}

Probes ==
  {[kind |-> "all", values |-> <<>>]}
    \cup {[kind |-> "equal", values |-> <<[type |-> "integer", val |-> v]>>] : v \in Values}
    \cup {[kind |-> kind, values |-> <<[type |-> "integer", val |-> v], [type |-> "integer", val |-> w]>>] :
            kind \in {"range", "composite"}, v, w \in Values}

\* What the scans of StateView answer for a probe of an index.
ScanAnswer(def, probe) ==
  LET Has(s, k, v) == Property(base, overlay, s, k) = v IN
    CASE def.shape = "label" ->
           {ElementSubject(e) : e \in {e \in VisibleElements : def.ids[1] \in Element(base, overlay, e).labels}}
      [] def.shape = "relation_type" ->
           {RelationSubject(r) : r \in {r \in VisibleRelations : Relation(base, overlay, r).type = def.ids[1]}}
      [] def.shape = "equality" -> {s \in Subjects : Has(s, def.ids[1], probe.values[1].val)}
      [] def.shape = "range" ->
           {s \in Subjects : \E v \in probe.values[1].val..probe.values[2].val : Has(s, def.ids[1], v)}
      [] def.shape = "composite" ->
           {s \in Subjects : \A n \in DOMAIN def.ids : Has(s, def.ids[n], probe.values[n].val)}

\* A declared index answers what a scan of the merged records would, whichever
\* edits and folds the postings went through.
IndexesMatchScan ==
  \A id \in DOMAIN catalog["index"].defs, probe \in Probes :
    \A answer \in {lookup(catalog, base, overlay, id, probe)} :
    LET def == DefOf(catalog, "index", id).def
    IN  answer.err = "Ok" /\ def.shape # "projection_index" => answer.val = ScanAnswer(def, probe)

SelectedRelations(def) ==
  {r \in VisibleRelations :
     def.relation_types = {} \/ Relation(base, overlay, r).type \in def.relation_types}
FillingOf(r, roles) ==
  {i \in VisibleIncidences : Incidence(base, overlay, i).relation = r /\ Incidence(base, overlay, i).role \in roles}

GraphDefs == {id \in DOMAIN catalog["projection"].defs : DefOf(catalog, "projection", id).def.shape = "graph"}
HyperDefs == DOMAIN catalog["projection"].defs \ GraphDefs

\* A graph projection exists exactly when every selected relation has one source and
\* one target; then it has each selected relation as one edge between these two
\* elements, found from both sides, and nothing else.
GraphProjected ==
  \A id \in GraphDefs :
    \A g \in {graph_projection(catalog, base, overlay, id)} :
    LET def == DefOf(catalog, "projection", id).def
        Ends(r, role) == FillingOf(r, {role})
        whole == \A r \in SelectedRelations(def) :
                   Cardinality(Ends(r, def.source_role)) = 1 /\ Cardinality(Ends(r, def.target_role)) = 1
    IN  /\ (g.err = "Ok") = whole
        /\ whole =>
             /\ Range(g.val.relations) = SelectedRelations(def)
             /\ Len(g.val.relations) = Cardinality(SelectedRelations(def))
             /\ \A n \in DOMAIN g.val.relations :
                  /\ \A i \in Ends(g.val.relations[n], def.source_role) :
                       g.val.elements[g.val.ends[n][1] + 1] = Incidence(base, overlay, i).element
                  /\ \A i \in Ends(g.val.relations[n], def.target_role) :
                       g.val.elements[g.val.ends[n][2] + 1] = Incidence(base, overlay, i).element
             /\ \A u \in DOMAIN g.val.elements :
                  /\ Range(g.val.out_edges[u]) = {n - 1 : n \in {n \in DOMAIN g.val.ends : g.val.ends[n][1] = u - 1}}
                  /\ Range(g.val.in_edges[u]) = {n - 1 : n \in {n \in DOMAIN g.val.ends : g.val.ends[n][2] = u - 1}}
                  /\ g.val.successors[u]
                       = [n \in DOMAIN g.val.out_edges[u] |-> g.val.ends[g.val.out_edges[u][n] + 1][2]]
                  /\ g.val.predecessors[u]
                       = [n \in DOMAIN g.val.in_edges[u] |-> g.val.ends[g.val.in_edges[u][n] + 1][1]]

\* A hypergraph projection exists exactly when every selected relation has a source
\* and a target; its vertex-major rows, which come from the frozen layout, agree with
\* the roles of the incidences, and it lists every incidence of the selection.
HyperProjected ==
  \A id \in HyperDefs :
    \A h \in {hypergraph_projection(catalog, base, overlay, id)} :
    LET def == DefOf(catalog, "projection", id).def
        Touching(v, roles) == {n \in DOMAIN h.val.relations :
                                 \E i \in FillingOf(h.val.relations[n], roles) :
                                   Incidence(base, overlay, i).element = h.val.elements[v]}
        Members(n, roles) == {Local(h.val.elements, Incidence(base, overlay, i).element) :
                                i \in FillingOf(h.val.relations[n], roles)}
        whole == \A r \in SelectedRelations(def) :
                   FillingOf(r, def.source_roles) # {} /\ FillingOf(r, def.target_roles) # {}
    IN  /\ (h.err = "Ok") = whole
        /\ whole =>
             /\ Range(h.val.incidences) = UNION {FillingOf(r, Roles) : r \in SelectedRelations(def)}
             /\ \A v \in DOMAIN h.val.elements :
                  /\ Range(h.val.outgoing[v]) = {n - 1 : n \in Touching(v, def.source_roles)}
                  /\ Range(h.val.incoming[v]) = {n - 1 : n \in Touching(v, def.target_roles)}
                  /\ h.val.successors[v] = Sorted(UNION {Members(n, def.target_roles) :
                                                           n \in Touching(v, def.source_roles)})
                  /\ h.val.predecessors[v] = Sorted(UNION {Members(n, def.source_roles) :
                                                             n \in Touching(v, def.target_roles)})

\* Neighbours mirror each other: f is ahead of e over a type exactly when e is
\* behind f over it, and both directions together are all of them.  The second of a
\* relation's endpoints is ahead of the first.
NeighborsMirror ==
  /\ \A r \in VisibleRelations :
       LET ends == endpoints(base, overlay, r) IN
         ends.err = "Ok" /\ ends.val[1] # ends.val[2] /\ Relation(base, overlay, r).type # Absent =>
           ends.val[2] \in neighbors(base, overlay, ends.val[1], Relation(base, overlay, r).type, "outgoing")
  /\ \A e \in VisibleElements, type \in Types :
       /\ \A f \in VisibleElements :
            (f \in neighbors(base, overlay, e, type, "outgoing"))
              = (e \in neighbors(base, overlay, f, type, "incoming"))
       /\ neighbors(base, overlay, e, type, "both")
            = neighbors(base, overlay, e, type, "outgoing") \cup neighbors(base, overlay, e, type, "incoming")

Walks ==
  {[DefaultWalk EXCEPT !.direction = d, !.max_depth = 2] : d \in {"outgoing", "incoming", "both"}}
    \cup {[DefaultWalk EXCEPT !.direction = "both", !.limit = 1, !.include_start = TRUE],
          [DefaultWalk EXCEPT !.direction = "both", !.limit = 2, !.max_depth = 2],
          [DefaultWalk EXCEPT !.max_depth = 0, !.include_start = TRUE],
          [DefaultWalk EXCEPT !.include_start = TRUE]}

\* The elements of a projection within n steps of the seeds, in a direction.
Within(g, direction, n, seeds) ==
  LET Steps(S) == S \cup {v \in 0..(Len(g.elements) - 1) : \E i \in DOMAIN g.ends :
                            \/ direction # "incoming" /\ g.ends[i][1] \in S /\ g.ends[i][2] = v
                            \/ direction # "outgoing" /\ g.ends[i][2] \in S /\ g.ends[i][1] = v}
      Reach[k \in 0..n] == IF k = 0 THEN seeds ELSE Steps(Reach[k - 1])
  IN  {g.elements[v + 1] : v \in Reach[n]}

\* A walk lists each element once, at its distance from the seeds, nearest first,
\* and all of them unless the limit cut it; its edges are those of the projection
\* between the listed elements and the seeds.
WalkNearest ==
  \A id \in GraphDefs :
    \A g \in {graph_projection(catalog, base, overlay, id)} :
      g.err = "Ok" => \A walk \in Walks, seeds \in {<<e>> : e \in Range(g.val.elements)} :
      \A result \in {reader_walk(catalog, base, overlay, id, seeds, walk).val} :
        LET nodes == result.nodes
            start == {Local(g.val.elements, seeds[i]) : i \in DOMAIN seeds}
            Near(n) == Within(g.val, walk.direction, n, start)
            wanted == Near(walk.max_depth) \ (IF walk.include_start THEN {} ELSE Range(seeds))
            listed == {nodes[i][1] : i \in DOMAIN nodes}
        IN  /\ Len(nodes) = Cardinality(listed)
            /\ listed \subseteq wanted
            /\ IF Cardinality(wanted) <= walk.limit THEN listed = wanted ELSE Len(nodes) = walk.limit
            /\ \A i \in DOMAIN nodes :
                 /\ nodes[i][1] \in Near(nodes[i][2])
                 /\ nodes[i][2] > 0 => nodes[i][1] \notin Near(nodes[i][2] - 1)
                 /\ i > 1 => nodes[i - 1][2] <= nodes[i][2]
            /\ \A e \in wanted \ listed, i \in DOMAIN nodes :
                 nodes[i][2] > 0 => e \notin Near(nodes[i][2] - 1)
            /\ {edge[1] : edge \in result.edges}
                 = {g.val.relations[n] : n \in {n \in DOMAIN g.val.ends :
                      /\ g.val.elements[g.val.ends[n][1] + 1] \in listed \cup Range(seeds)
                      /\ g.val.elements[g.val.ends[n][2] + 1] \in listed \cup Range(seeds)}}

-----------------------------------------------------------------------------
(* The meaning of WHERE *)

RECURSIVE Holds(_, _)
Holds(p, values) ==
  CASE p.node = "compare" ->
         p.key \in DOMAIN values /\ Matches(p.op, values[p.key], Integer[p.value])
    [] p.node = "AND" -> Holds(p.left, values) /\ Holds(p.right, values)
    [] OTHER -> Holds(p.left, values) \/ Holds(p.right, values)

ValuesOf(e) ==
  LET named == [name \in {"age", "size"} |->
                  Property(base, overlay, ElementSubject(e), IdOf(catalog, "property_key", name))]
  IN  [name \in {name \in DOMAIN named : named[name] # Absent} |-> named[name]]

\* A WHERE query answers the visible elements its predicate holds for, AND binding
\* tighter than OR and a missing property satisfying nothing, whether the plan
\* filters or goes through the equality index.
WhereMeans ==
  ~DeclaresSchema =>
    LET valued == [e \in VisibleElements |-> ValuesOf(e)] IN
      \A p \in Predicates :
        execute(catalog, base, overlay, prepared[Text(p)])
          = Answer(Sorted({e \in VisibleElements : Holds(p, valued[e])}))

\* Every variable keeps to its type.
TypeOK ==
  /\ base \in Base
  /\ overlay \in Overlay
  /\ \A cat \in {catalog, writer.catalog}, kind \in Kinds :
       /\ DOMAIN cat[kind].defs = Range(cat[kind].names)
       /\ \A name \in DOMAIN cat[kind].names : DefOf(cat, kind, IdOf(cat, kind, name)).name = name
  /\ \A kind \in Kinds : \A id \in DOMAIN catalog[kind].defs : id < ids[kind]
  /\ writing \in BOOLEAN /\ calls \in 0..MaxSchemaOps /\ edits \in 0..MaxEdits

-----------------------------------------------------------------------------
(* Properties of base files: of every base a store is opened on, with its     *)
(* values read as booleans, as integers and as texts                          *)

\* A base without values has one file, whatever type they would have.
ValueTypes == IF base_property_triples(base) = {} THEN {"integer"} ELSE {"boolean", "integer", "text"}
Stamps == [commit_seq |-> edits, transaction_id |-> edits, generation |-> 1]
\* Every catalog is also reached with no query prepared, which a file knows nothing of.
Frozen == ~writing /\ overlay = EmptyOverlay(base.next) /\ (DeclaresSchema => prepared = <<>>)
FileOf(type) == FreezeFile(catalog, ids, base, type, Stamps)

\* The base file a checkpoint writes opens, and gives back the catalog with its
\* definition bodies, all nine allocators, the records with their label runs and
\* every property value: no offset into a run, a pool or the string table is off.
BaseReopens ==
  Frozen => \A type \in ValueTypes : \A view \in {attach_view(FileOf(type).val)} :
    /\ view.err = "Ok"
    /\ view.val.catalog = catalog
    /\ view.val.header = [format_version |-> OXGDB_FORMAT_VERSION, stamps |-> Stamps,
                          graph_next |-> base.next, catalog_next |-> ids]
    /\ \A records \in {decode_records(view.val)} :
         /\ records.err = "Ok"
         /\ records.val.elements = base.elements
         /\ records.val.relations = base.relations
         /\ records.val.incidences = base.incidences
         /\ \A s \in Subjects, k \in Keys :
              records.val.properties[s][k]
                = IF base.properties[s][k] = Absent THEN Absent ELSE PropertyValue(type, base.properties[s][k])

\* The postings borrowed from the file answer what the records answer: a binary
\* search over decoded values never misses, and a range scan never stops too early.
BorrowedAgrees ==
  Frozen => \A type \in ValueTypes : \A view \in {attach_view(FileOf(type).val)} :
    LET index == view.val.index
        Val(v) == PropertyValue(type, v)
    IN  /\ \A l \in Labels : simple_lookup(index.label_postings, l) = label_posting(base, l)
        /\ \A t \in Types : simple_lookup(index.relation_type_postings, t) = relation_type_posting(base, t)
        /\ \A e \in Elements : simple_lookup(index.element_incidences, e) = element_incidence_posting(base, e)
        /\ \A r \in Relations : simple_lookup(index.relation_incidences, r) = relation_incidence_posting(base, r)
        /\ \A k \in Keys :
             /\ \A v \in Values :
                  borrowed_equality_subjects(index, type, k, Val(v)) = equality_subjects(base, <<k, v>>)
             /\ \A v, w \in Values :
                  borrowed_range_postings(index, type, k, Val(v), Val(w))
                    = UNION {equality_subjects(base, <<k, u>>) : u \in v..w}
             /\ borrowed_key_postings(index, k)
                  = {[value |-> Val(v), subjects |-> equality_subjects(base, <<k, v>>)] :
                       v \in {v \in Values : equality_subjects(base, <<k, v>>) # {}}}

\* What a flipped bit can make of a cell.
Damaged(name, cell) ==
  CASE name = "header" -> [cell EXCEPT !.stamps.commit_seq = @ + 1]
    [] name = "strings" -> "damaged"
    [] name = "properties" -> [cell EXCEPT !.subject_id = @ + 1]
    [] name \in {"elements", "relations", "incidences"} \cup Kinds -> [cell EXCEPT !.id = @ + 1]
    [] OTHER -> cell + 1

\* A file with one damaged cell is refused, whichever section it is in: every section
\* that is bound, the posting sections too, is verified before it is read.
DamageRefused ==
  Frozen => \A f \in {FileOf("text").val} : \A n \in DOMAIN f.table :
    \A last \in {f.table[n].offset + f.table[n].length} :
      attach_view([f EXCEPT !.cells[last] = Damaged(SectionNames[f.table[n].kind], @)]).err # "Ok"

\* The catalog is what its log says and refers to nothing outside itself, through refused
\* calls, rollbacks and replay; what a schema returned holds in it.
CatalogSound == TypeOK /\ CatalogReplays /\ RefsClosed /\ BoundHolds

\* Names and ids once published keep their meaning, and so do plans prepared from them.
NamesStable == PreparedStable /\ CatalogGrows

\* Iterators, declared indexes and queries answer what the visible records say.
ReadsMatchRecords == IteratorsMerge /\ IndexesMatchScan /\ WhereMeans

\* Projections, neighbours and walks show the incidences of the visible records, from both
\* sides alike.
ProjectionsMatchRecords == GraphProjected /\ HyperProjected /\ NeighborsMirror /\ WalkNearest

\* A base file opens to what was frozen, answers lookups as the records do, and is refused
\* once a cell of it is damaged.
BaseFileSound == BaseReopens /\ BorrowedAgrees /\ DamageRefused
=============================================================================
