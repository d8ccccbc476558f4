----------------------------- MODULE OxgCatalog -----------------------------
(***************************************************************************)
(* The catalog of oxgraph-db: named roles, labels, relation types, keys,   *)
(* projections and indexes, how a write transaction stages them, how the   *)
(* log spells them and how recovery reads them back.  Pure operators: w is *)
(* the catalog part of a WriteOverlay, cat a Catalog.                      *)
(***************************************************************************)
EXTENDS Naturals, Sequences, FiniteSets, TLC, SequencesExt

\* A for loop over a sequence: FoldLeft with every intermediate result evaluated once.
Loop(op(_, _), base, seq) ==
  LET After[k \in 0..Len(seq)] ==
        IF k = 0 THEN base ELSE CHOOSE r \in {op(acc, seq[k]) : acc \in {After[k - 1]}} : TRUE
  IN  After[Len(seq)]

\* The members of a finite set in the order of a BTreeSet.
Ordered(S, Before(_, _)) ==
  [i \in 1..Cardinality(S) |-> CHOOSE x \in S : Cardinality({y \in S : Before(y, x)}) = i - 1]

Kinds == {"role", "label", "relation_type", "property_key", "projection", "index"}

\* The result of a call: err is "Ok" or the error, w what is staged after it.
Done(w, val) == [err |-> "Ok", w |-> w, val |-> val]
Refuse(w, err) == [err |-> err, w |-> w, val |-> 0]

EmptyCatalog == [kind \in Kinds |-> [defs |-> <<>>, names |-> <<>>]]

NewWriter(cat, next) == [catalog |-> cat, next |-> next, log |-> <<>>]

Known(cat, kind, id) == id \in DOMAIN cat[kind].defs
Named(cat, kind, name) == name \in DOMAIN cat[kind].names
IdOf(cat, kind, name) == cat[kind].names[name]
DefOf(cat, kind, id) == cat[kind].defs[id]

-----------------------------------------------------------------------------
(* Definition bodies: the words a projection or an index is logged as       *)

Tags == [graph |-> 0, hypergraph |-> 1]
IndexTags ==
  [label |-> 0, relation_type |-> 1, equality |-> 2, range |-> 3, composite |-> 4,
   projection_index |-> 5]

Sorted(ids) == Ordered(ids, <)

push_id_set(ids) == <<Len(Sorted(ids))>> \o Sorted(ids)

\* The count at the cursor and that many ids behind it.
read_id_set(words, cursor) ==
  IF cursor > Len(words) \/ cursor + words[cursor] > Len(words)
  THEN [err |-> "malformed", ids |-> {}, cursor |-> cursor]
  ELSE [err |-> "Ok", ids |-> Range(SubSeq(words, cursor + 1, cursor + words[cursor])),
        cursor |-> cursor + words[cursor] + 1]

encode_projection_body(def) ==
  [tag |-> Tags[def.shape],
   words |-> IF def.shape = "graph"
             THEN <<def.source_role, def.target_role>> \o push_id_set(def.relation_types)
             ELSE push_id_set(def.source_roles) \o push_id_set(def.target_roles)
                    \o push_id_set(def.relation_types)]

encode_index_body(def) == [tag |-> IndexTags[def.shape], words |-> def.ids]

decode_graph_body(words) ==
  LET types == read_id_set(words, 3) IN
    IF Len(words) < 2 \/ types.err # "Ok" THEN [err |-> "malformed"]
    ELSE [err |-> "Ok",
          def |-> [shape |-> "graph", source_role |-> words[1], target_role |-> words[2],
                   relation_types |-> types.ids]]
\* Mutant: the relation types are read before the target roles.
decode_hypergraph_body_Swapped(words) ==
  LET sources == read_id_set(words, 1)
      types == read_id_set(words, sources.cursor)
      targets == read_id_set(words, types.cursor)
  IN  IF \E r \in {sources, targets, types} : r.err # "Ok" THEN [err |-> "malformed"]
      ELSE [err |-> "Ok",
            def |-> [shape |-> "hypergraph", source_roles |-> sources.ids,
                     target_roles |-> targets.ids, relation_types |-> types.ids]]

decode_hypergraph_body(words) ==
  LET sources == read_id_set(words, 1)
      targets == read_id_set(words, sources.cursor)
      types == read_id_set(words, targets.cursor)
  IN  IF \E r \in {sources, targets, types} : r.err # "Ok" THEN [err |-> "malformed"]
      ELSE [err |-> "Ok",
            def |-> [shape |-> "hypergraph", source_roles |-> sources.ids,
                     target_roles |-> targets.ids, relation_types |-> types.ids]]

decode_projection_body(body) ==
  CASE body.tag = Tags.graph -> decode_graph_body(body.words)
    [] body.tag = Tags.hypergraph -> decode_hypergraph_body(body.words)
    [] OTHER -> [err |-> "malformed"]

\* Every shape but the composite one reads the first word only.
decode_index_body(body) ==
  LET shapes == {s \in DOMAIN IndexTags : IndexTags[s] = body.tag} IN
    IF shapes = {} \/ (body.words = <<>> /\ shapes # {"composite"}) THEN [err |-> "malformed"]
    ELSE LET shape == CHOOSE s \in shapes : TRUE IN
           [err |-> "Ok",
            def |-> [shape |-> shape,
                     ids |-> IF shape = "composite" THEN body.words ELSE SubSeq(body.words, 1, 1)]]

-----------------------------------------------------------------------------
(* Registering *)

insert_named(cat, kind, id, name, def) ==
  [cat EXCEPT ![kind] = [defs |-> (id :> [name |-> name, def |-> def]) @@ @.defs,
                         names |-> (name :> id) @@ @.names]]

\* What is logged for a definition: a key's flags, a body, or nothing but the name.
Body(kind, def) ==
  CASE kind = "projection" -> encode_projection_body(def)
    [] kind = "index" -> encode_index_body(def)
    [] OTHER -> def

\* Mutant: a name that is taken is given to the new id.
register_Rebinds(w, kind, name, def) ==
  LET id == w.next[kind] IN
    Done([next |-> [w.next EXCEPT ![kind] = id + 1],
          catalog |-> insert_named(w.catalog, kind, id, name, def),
          log |-> Append(w.log, [kind |-> kind, id |-> id, name |-> name,
                                 body |-> Body(kind, def)])], id)

\* Mutant: the allocator is read and not advanced.
register_SameId(w, kind, name, def) ==
  LET id == w.next[kind] IN
    IF Named(w.catalog, kind, name) THEN Refuse(w, "DuplicateName")
    ELSE Done([w EXCEPT !.catalog = insert_named(@, kind, id, name, def),
                        !.log = Append(@, [kind |-> kind, id |-> id, name |-> name,
                                           body |-> Body(kind, def)])], id)

\* The id is taken first: a name that is taken already costs it, and logs nothing.
register(w, kind, name, def) ==
  LET id == w.next[kind]
      taken == [w EXCEPT !.next[kind] = id + 1]
  IN  IF Named(w.catalog, kind, name) THEN Refuse(taken, "DuplicateName")
      ELSE Done([taken EXCEPT
                   !.catalog = insert_named(@, kind, id, name, def),
                   !.log = Append(@, [kind |-> kind, id |-> id, name |-> name,
                                      body |-> Body(kind, def)])], id)

register_property_key(w, name, family, value_type) ==
  register(w, "property_key", name, [family |-> family, value_type |-> value_type])

validate_projection_definition(cat, def) ==
  /\ \A type \in def.relation_types : Known(cat, "relation_type", type)
  /\ \A role \in IF def.shape = "graph" THEN {def.source_role, def.target_role}
                 ELSE def.source_roles \cup def.target_roles : Known(cat, "role", role)

\* The kind of id each index shape refers to.
Referred ==
  [label |-> "label", relation_type |-> "relation_type", equality |-> "property_key",
   range |-> "property_key", composite |-> "property_key", projection_index |-> "projection"]

validate_index_definition(cat, def) ==
  /\ def.ids # <<>>
  /\ \A i \in DOMAIN def.ids : Known(cat, Referred[def.shape], def.ids[i])

define_projection(w, name, def) ==
  IF validate_projection_definition(w.catalog, def) THEN register(w, "projection", name, def)
  ELSE Refuse(w, "UnknownId")
\* Mutant: the ids an index refers to are not looked up.
define_index_Unchecked(w, name, def) == register(w, "index", name, def)

define_index(w, name, def) ==
  IF validate_index_definition(w.catalog, def) THEN register(w, "index", name, def)
  ELSE Refuse(w, "UnknownId")

-----------------------------------------------------------------------------
(* apply_schema: the declared names in a fixed order of kinds, each registered *)
(* or found.  An error returns at once and leaves what was registered staged. *)

EmptyBound == [kind \in Kinds |-> <<>>]

\* One declaration, as apply_schema meets it.
Declare(kind, name, def) == [kind |-> kind, name |-> name, def |-> def]

\* The ids of the names a declared projection refers to; all must be bound.
BoundAll(bound, kind, names) == \A n \in names : n \in DOMAIN bound[kind]
BoundIds(bound, kind, names) == {bound[kind][n] : n \in names}

ResolveGraph(bound, spec) ==
  IF BoundAll(bound, "relation_type", spec.relation_types)
       /\ BoundAll(bound, "role", {spec.source_role, spec.target_role})
  THEN [err |-> "Ok",
        def |-> [shape |-> "graph",
                 source_role |-> bound["role"][spec.source_role],
                 target_role |-> bound["role"][spec.target_role],
                 relation_types |-> BoundIds(bound, "relation_type", spec.relation_types)]]
  ELSE [err |-> "UnknownName"]

ResolveHypergraph(bound, spec) ==
  IF BoundAll(bound, "relation_type", spec.relation_types)
       /\ BoundAll(bound, "role", spec.source_roles \cup spec.target_roles)
  THEN [err |-> "Ok",
        def |-> [shape |-> "hypergraph",
                 source_roles |-> BoundIds(bound, "role", spec.source_roles),
                 target_roles |-> BoundIds(bound, "role", spec.target_roles),
                 relation_types |-> BoundIds(bound, "relation_type", spec.relation_types)]]
  ELSE [err |-> "UnknownName"]
\* Mutant: a key that exists is returned whatever its family and type.
register_key_or_get_AnyShape(w, name, def) ==
  IF Named(w.catalog, "property_key", name) THEN Done(w, IdOf(w.catalog, "property_key", name))
  ELSE register_property_key(w, name, def.family, def.value_type)

register_key_or_get(w, name, def) ==
  LET cat == w.catalog IN
    IF ~Named(cat, "property_key", name)
    THEN register_property_key(w, name, def.family, def.value_type)
    ELSE IF DefOf(cat, "property_key", IdOf(cat, "property_key", name)).def = def
         THEN Done(w, IdOf(cat, "property_key", name)) ELSE Refuse(w, "SchemaConflict")

\* The definition a declared index or projection stands for.
Resolved(bound, d) ==
  CASE d.kind = "index" -> [err |-> "Ok", def |-> [shape |-> "equality", ids |-> <<bound["property_key"][d.def]>>]]
    [] d.def.shape = "graph" -> ResolveGraph(bound, d.def)
    [] OTHER -> ResolveHypergraph(bound, d.def)

\* An index or a projection whose name exists is returned as it is, whatever its definition.
define_or_get(w, bound, d) ==
  LET resolved == Resolved(bound, d)
  IN  CASE d.kind = "index" /\ d.def \notin DOMAIN bound["property_key"] -> Refuse(w, "UnknownName")
        [] Named(w.catalog, d.kind, d.name) -> Done(w, IdOf(w.catalog, d.kind, d.name))
        [] resolved.err # "Ok" -> Refuse(w, resolved.err)
        [] d.kind = "index" -> define_index(w, d.name, resolved.def)
        [] OTHER -> define_projection(w, d.name, resolved.def)

ApplyOne(w, bound, d) ==
  CASE d.kind = "property_key" -> register_key_or_get(w, d.name, d.def)
    [] d.kind \in {"index", "projection"} -> define_or_get(w, bound, d)
    [] Named(w.catalog, d.kind, d.name) -> Done(w, IdOf(w.catalog, d.kind, d.name))
    [] OTHER -> register(w, d.kind, d.name, <<>>)

\* Roles, labels, types, keys, indexes, graph projections, hypergraph projections.
Stage(d) ==
  CASE d.kind = "role" -> 1 [] d.kind = "label" -> 2 [] d.kind = "relation_type" -> 3
    [] d.kind = "property_key" -> 4 [] d.kind = "index" -> 5
    [] d.kind = "projection" /\ d.def.shape = "graph" -> 6
    [] OTHER -> 7

InOrder(schema) ==
  FlattenSeq([stage \in 1..7 |-> SelectSeq(schema, LAMBDA d : Stage(d) = stage)])

apply_schema(w, schema) ==
  Loop(LAMBDA acc, d :
             IF acc.err # "Ok" THEN acc
             ELSE LET r == ApplyOne(acc.w, acc.val, d) IN
                    IF r.err # "Ok" THEN [acc EXCEPT !.err = r.err, !.w = r.w]
                    ELSE Done(r.w, [acc.val EXCEPT ![d.kind] = (d.name :> r.val) @@ @]),
       Done(w, EmptyBound), InOrder(schema))

-----------------------------------------------------------------------------
(* Recovery *)

apply_catalog_op(cat, op) ==
  LET decoded == CASE op.kind = "projection" -> decode_projection_body(op.body)
                   [] op.kind = "index" -> decode_index_body(op.body)
                   [] OTHER -> [err |-> "Ok", def |-> op.body]
  IN  CASE decoded.err # "Ok" -> [err |-> "LogCorrupt", cat |-> cat]
        [] Named(cat, op.kind, op.name) -> [err |-> "DuplicateName", cat |-> cat]
        [] OTHER -> [err |-> "Ok", cat |-> insert_named(cat, op.kind, op.id, op.name, decoded.def)]

replay_catalog(cat, log) ==
  Loop(LAMBDA acc, op : IF acc.err = "Ok" THEN apply_catalog_op(acc.cat, op) ELSE acc,
           [err |-> "Ok", cat |-> cat], log)
=============================================================================
