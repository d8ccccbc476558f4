----------------------------- MODULE OxgExtension -----------------------------
(***************************************************************************)
(* The Postgres extension: sessions that each keep an engine in memory, a  *)
(* maintenance worker, and the tables they share (the registered catalog,  *)
(* the user's edge tables and their triggers, the sync log and the stored  *)
(* snapshot).  A call that scans the edge rows and persists what it built  *)
(* from them is two steps, and other sessions commit in between.  The      *)
(* settings a session can change at any time (limits, freshness, whether   *)
(* maintenance is enabled) are read afresh by every call, so they are      *)
(* inputs of the calls.                                                    *)
(***************************************************************************)
EXTENDS OxgEngine

CONSTANTS
  Sessions,
  Workers,                \* the maintenance worker, if the server preloads the extension
  TableNames, EdgeNames,  \* the SQL tables that may be registered
  Members,                \* Members[t]: the primary keys in node table t
  Pairs,                  \* the (source, target) values users put in an edge table
  Chain,                  \* edge rows that are there before the extension is used
  MaxEdges,               \* bound on the registered edges
  MaxChanges,             \* bound on registrations, row changes and rows logged by hand
  MaxCalls                \* bound on the calls of the sessions

\* The widths of the code (u32) are far above the bytes that are uploaded below.
ASSUME ExtensionAssumption ==
  /\ Sessions \cap Workers = {}
  /\ IsFiniteSet(TableNames) /\ {"edges", "visits"} \subseteq EdgeNames
  /\ Pairs \subseteq Int \X Int /\ Chain \in Seq(Int \X Int)
  /\ MaxChanges \in Nat /\ MaxCalls \in Nat
  /\ NodeMax >= 3 /\ EdgeMax >= 3

VARIABLES
  catalog,   \* graph._registered_tables, _registered_edges, _registered_filter_columns
  tuples,    \* the rows of the edge tables
  triggers,  \* the ids of the registered edges with a sync trigger
  log,       \* graph._sync_log
  store,     \* graph._snapshot_store
  engine,    \* engine[s]: LOADED_ENGINE of session s
  built,     \* built[a]: what a session or worker has scanned and built and not persisted yet
  worker,    \* worker[w]: waiting for its latch, awake, or about to persist what it built
  enabled,   \* enabled[w]: oxgraph.maintenance_enabled in the process of worker w
  changes, calls

vars == <<catalog, tuples, triggers, log, store, engine, built, worker, enabled, changes, calls>>

Actors == Sessions \cup Workers

TableIds == 1..Cardinality(TableNames)
Freshness == {"BaseOnly", "OverlayAware"}
Directions == {"Out", "In"}

\* graph_load_snapshot is handed bytes: artifacts built from dense edges, and ones
\* whose sections do not belong together.
Dense == from_dense_u32_edges_with_node_count(3, <<<<0, 1>>, <<1, 2>>>>).val
Denser == from_dense_u32_edges_with_node_count(3, <<<<0, 1>>, <<0, 1>>, <<2, 0>>>>).val
Uploads ==
  {Dense, Denser,
   [Dense EXCEPT !.metadata = Absent],
   [Dense EXCEPT !.metadata.reverse = FALSE],
   [Dense EXCEPT !.metadata.node_count = 2],
   [Dense EXCEPT !.metadata.edge_count = 1],
   [Dense EXCEPT !.inbound = Denser.inbound],
   [Dense EXCEPT !.inbound = Absent]}

Changed == changes < MaxChanges /\ changes' = changes + 1

-----------------------------------------------------------------------------
(* Discovery: every registration checks the catalog as it stands            *)

NextId(seq) == IF seq = <<>> THEN 1 ELSE seq[Len(seq)].id + 1

Stored(result) == result.err = "Ok" /\ catalog' = result.val

\* Mutant: the row is inserted without asking the catalog.
register_table_Unchecked(name) ==
  catalog' = [catalog EXCEPT !.tables = Append(@, [id |-> NextId(@), name |-> name])]

register_table(name) ==
  Stored(add_table(from_registration_rows(catalog).val, [id |-> NextId(catalog.tables), name |-> name]))

register_edge(source, target, name) ==
  Stored(add_edge_to(from_registration_rows(catalog).val,
                     [id |-> NextId(catalog.edges), source_table |-> source, target_table |-> target, name |-> name]))

register_filter_column(t) ==
  Stored(add_filter_column(from_registration_rows(catalog).val, [table |-> t, column |-> "column"]))

RegisterTable ==
  /\ Changed
  /\ \E name \in TableNames : register_table(name)
  /\ UNCHANGED <<tuples, triggers, log, store, engine, built, worker, enabled, calls>>

RegisterEdge ==
  /\ Len(catalog.edges) < MaxEdges
  /\ Changed
  /\ \E source \in TableIds, target \in TableIds, name \in EdgeNames :
       register_edge(source, target, name)
  /\ UNCHANGED <<tuples, triggers, log, store, engine, built, worker, enabled, calls>>

\* A column registered twice breaks the table's primary key.
RegisterFilter ==
  /\ Changed
  /\ \E t \in TableIds : [table |-> t, column |-> "column"] \notin catalog.filter_columns
                             /\ register_filter_column(t)
  /\ UNCHANGED <<tuples, triggers, log, store, engine, built, worker, enabled, calls>>

graph_attach_sync_trigger ==
  /\ Changed
  /\ \E i \in DOMAIN catalog.edges :
       catalog.edges[i].id \notin triggers /\ triggers' = triggers \cup {catalog.edges[i].id}
  /\ UNCHANGED <<catalog, tuples, log, store, engine, built, worker, enabled, calls>>

-----------------------------------------------------------------------------
(* Users change edge rows; the triggers of the table log each change        *)

\* Mutant: the highest sequence is taken again.
NextSequence_Same(rows) == IF rows = <<>> THEN 1 ELSE rows[Len(rows)].sequence

NextSequence(rows) == IF rows = <<>> THEN 1 ELSE rows[Len(rows)].sequence + 1

Watches(e, name) == e.name = name /\ e.id \in triggers

\* graph._edge_change_sync_trigger for one registered edge.
Logged(rows, e, row, action) ==
  Append(rows, [sequence |-> NextSequence(rows), action |-> action,
                arg0 |-> NodeKey(e.source_table, row[1]), arg1 |-> NodeKey(e.target_table, row[2])])

\* The log after the triggers of one row, in the order of the registered edges.
Triggered(name, row, action) ==
  Loop(LAMBDA rows, e : IF Watches(e, name) THEN Logged(rows, e, row, action) ELSE rows, log, catalog.edges)

\* A trigger refuses a key out of range, and the change with it.
Change(name, row, action) ==
  /\ Changed
  /\ (\E i \in DOMAIN catalog.edges : Watches(catalog.edges[i], name)) =>
       validate_primary_key(row[1]) /\ validate_primary_key(row[2])
  /\ log' = Triggered(name, row, action)
  /\ UNCHANGED <<catalog, triggers, store, engine, built, worker, enabled, calls>>

InsertRow ==
  \E name \in EdgeNames, row \in Pairs :
    Change(name, row, InsertEdge) /\ tuples' = [tuples EXCEPT ![name] = Append(@, row)]

DeleteRow ==
  \E name \in EdgeNames : \E i \in DOMAIN tuples[name] :
    /\ Change(name, tuples[name][i], RemoveOverlayEdge)
    /\ tuples' = [tuples EXCEPT ![name] = RemoveAt(@, i)]

\* The log is an ordinary table: the actions no trigger writes are inserted by hand,
\* also ones that do not decode.
ByHand ==
  {[action |-> DeleteEdge, arg0 |-> 0], [action |-> DeleteNode, arg0 |-> 1],
   [action |-> TruncateOverlays, arg0 |-> Absent], [action |-> InsertEdge, arg0 |-> Absent]}

LogByHand ==
  /\ Changed
  /\ \E a \in ByHand :
       log' = Append(log, [sequence |-> NextSequence(log), action |-> a.action, arg0 |-> a.arg0, arg1 |-> Absent])
  /\ UNCHANGED <<catalog, tuples, triggers, store, engine, built, worker, enabled, calls>>

-----------------------------------------------------------------------------
(* What a call reads from the shared tables                                 *)

Scanned == scan_edge_rows(catalog, tuples, Members)

\* rebuild_and_persist_snapshot up to the write.
Rebuilt ==
  LET loaded == from_registration_rows(catalog)
      scanned == Scanned
  IN  CASE loaded.err # "Ok" -> loaded
        [] scanned.err # "Ok" -> scanned
        [] OTHER -> from_catalog_and_edges(loaded.val, scanned.val)

load_sync_rows ==
  LET scanned == Scanned IN IF scanned.err = "Ok" THEN resolve_sync_rows(scanned.val, log) ELSE scanned

\* A session makes one call at a time.
Starts(s) == built[s] = Absent /\ calls < MaxCalls /\ calls' = calls + 1
Elsewhere == UNCHANGED <<catalog, tuples, triggers, log, worker, enabled, changes>>
Call(s) == Starts(s) /\ Elsewhere /\ UNCHANGED built

\* rebuild_and_persist_snapshot up to the write: the rows are those of this moment.
builds(a, call, edges, art) ==
  built' = [built EXCEPT ![a] = [call |-> call, edges |-> edges, art |-> art]]

\* Mutant: a snapshot that is there is left alone.
persist_snapshot_bytes_Once(a) == store' = IF store = Absent THEN built[a].art ELSE store

persist_snapshot_bytes(a) == store' = built[a].art

\* SessionEngine::load: a new engine with an empty overlay.
load(s, art) == build(art).err = "Ok" /\ engine' = [engine EXCEPT ![s] = build(art).val]

-----------------------------------------------------------------------------
(* The calls of a session.  A refused one logs a warning and changes        *)
(* nothing, which is a stuttering step.                                     *)

graph_reset(s) ==
  /\ engine[s] # Absent
  /\ Call(s)
  /\ engine' = [engine EXCEPT ![s] = Absent]
  /\ UNCHANGED store

graph_load_snapshot(s) ==
  /\ Call(s)
  /\ \E art \in Uploads : load(s, art)
  /\ UNCHANGED store

graph_load_persisted(s) ==
  /\ store # Absent
  /\ Call(s)
  /\ load(s, store)
  /\ UNCHANGED store

graph_build(s) ==
  /\ Starts(s) /\ Elsewhere
  /\ \E art \in {Rebuilt} : art.err = "Ok" /\ builds(s, "graph_build", Scanned.val, art.val)
  /\ UNCHANGED <<store, engine>>

\* Replaces the loaded engine's artifact; the engine's bytes are persisted afterwards.
graph_rebuild(s) ==
  /\ engine[s] # Absent
  /\ Starts(s) /\ Elsewhere
  /\ \E scanned \in {Scanned}, maintenance_enabled \in BOOLEAN :
       /\ scanned.err = "Ok"
       /\ \E e \in {rebuild_from_catalog(engine[s], from_registration_rows(catalog).val, scanned.val,
                                          maintenance_enabled)} :
            /\ e.err = "Ok"
            /\ engine' = [engine EXCEPT ![s] = e.val]
            /\ builds(s, "graph_rebuild", scanned.val, e.val.art)
  /\ UNCHANGED store

\* The pass of a worker, or of a session in the foreground.
run_maintenance_pass(a, maintenance_enabled) ==
  /\ maintenance_enabled
  /\ \E art \in {Rebuilt} : art.err = "Ok" /\ builds(a, "graph_maintenance", Scanned.val, art.val)

\* A pass that is disabled or fails is only logged; the stored snapshot is loaded.
graph_maintenance(s) ==
  \E maintenance_enabled \in BOOLEAN :
    \/ /\ Starts(s) /\ Elsewhere
       /\ run_maintenance_pass(s, maintenance_enabled)
       /\ UNCHANGED <<store, engine>>
    \/ /\ ~maintenance_enabled \/ Rebuilt.err # "Ok"
       /\ store # Absent
       /\ Call(s)
       /\ load(s, store)
       /\ UNCHANGED store

Finishes(a) == built[a] # Absent /\ built' = [built EXCEPT ![a] = Absent] /\ UNCHANGED calls

\* The call persists what it built and, unless the engine has it already, loads it.
Persist(s) ==
  /\ Finishes(s) /\ Elsewhere
  /\ persist_snapshot_bytes(s)
  /\ IF built[s].call = "graph_rebuild" \/ build(built[s].art).err # "Ok" THEN UNCHANGED engine
     ELSE load(s, built[s].art)

\* The write fails, or its transaction is rolled back.
Fail(s) ==
  /\ Finishes(s) /\ Elsewhere
  /\ UNCHANGED store
  /\ \/ UNCHANGED engine
     \/ built[s].call = "graph_maintenance" /\ store # Absent /\ load(s, store)

\* Replays the whole log over the overlay as it is.
graph_sync_reload(s) ==
  /\ engine[s] # Absent
  /\ Call(s)
  /\ \E rows \in {load_sync_rows} :
       rows.err = "Ok" /\ engine' = [engine EXCEPT ![s] = apply_sync_rows(@, rows.val)]
  /\ UNCHANGED store

\* Builds the unique rows when the query needs them; the answers are below.
graph_traverse(s) ==
  /\ engine[s] # Absent
  /\ Call(s)
  /\ \E freshness \in Freshness :
       engine' = [engine EXCEPT ![s] = traverse_workspace_mut(@, resolve(freshness, @.overlay).use_unique)]
  /\ UNCHANGED store

\* What the SQL functions make of their arguments before they call the engine.
graph_search(e, start, end, limit, cap) ==
  LET from == IF start < 0 THEN 0 ELSE start
      to == IF end < 0 THEN from ELSE end
  IN  search(e, Smaller(from, to), IF from <= to THEN to ELSE from, IF limit < 1 THEN 1 ELSE limit, cap)

\* A limit of zero answers nothing, a negative one asks for one node; max_depth
\* below one is no bound.
graph_traverse_answer(e, seed, limit, direction, max_depth, cap, freshness) ==
  IF limit = 0 THEN Ok(<<>>)
  ELSE traverse_from_seeds(e, <<IF seed < 0 THEN 0 ELSE seed>>, IF max_depth < 0 THEN 0 ELSE max_depth,
                           IF limit < 0 THEN 1 ELSE limit, cap, direction, freshness)

graph_traverse_seeds(e, seeds, limit, direction, cap, freshness) ==
  traverse_from_seeds(e, [i \in DOMAIN seeds |-> IF seeds[i] < 0 THEN 0 ELSE seeds[i]], 0,
                      IF limit < 1 THEN 1 ELSE limit, cap, direction, freshness)

\* oxgraph_maintenance_main: the latch wakes it every five minutes.
Becomes(w, state) == worker' = [worker EXCEPT ![w] = state]

Wake(w) ==
  /\ worker[w] = "waiting" /\ Becomes(w, "awake")
  /\ UNCHANGED <<catalog, tuples, triggers, log, store, engine, built, enabled, changes, calls>>

\* A pass that is disabled or fails is only logged.
Pass(w) ==
  /\ worker[w] = "awake"
  /\ \/ run_maintenance_pass(w, enabled[w]) /\ Becomes(w, "persisting")
     \/ (~enabled[w] \/ Rebuilt.err # "Ok") /\ Becomes(w, "waiting") /\ UNCHANGED built
  /\ UNCHANGED <<catalog, tuples, triggers, log, store, engine, enabled, changes, calls>>

PassPersists(w) ==
  /\ Finishes(w) /\ persist_snapshot_bytes(w) /\ Becomes(w, "waiting")
  /\ UNCHANGED <<catalog, tuples, triggers, log, engine, enabled, changes>>

\* The write fails, or is not committed.
PassFails(w) ==
  /\ Finishes(w) /\ Becomes(w, "waiting")
  /\ UNCHANGED <<catalog, tuples, triggers, log, store, engine, enabled, changes>>

\* The process ends and the server starts another: only that reads the setting again, a
\* SIGHUP does not.
Restart(w) ==
  /\ Changed
  /\ built' = [built EXCEPT ![w] = Absent] /\ Becomes(w, "waiting")
  /\ \E setting \in BOOLEAN : enabled' = [enabled EXCEPT ![w] = setting]
  /\ UNCHANGED <<catalog, tuples, triggers, log, store, engine, calls>>

-----------------------------------------------------------------------------
\* The relational schema of the integration tests: not registered, with its node
\* table, or with everything, the triggers attached or not.
NodesTable == [id |-> 1, name |-> "nodes"]
Registrations ==
  {EmptyCatalog, [EmptyCatalog EXCEPT !.tables = <<NodesTable>>],
   [tables |-> <<NodesTable, [id |-> 2, name |-> "places"]>>,
    edges |-> <<[id |-> 1, source_table |-> 1, target_table |-> 1, name |-> "edges"],
                [id |-> 2, source_table |-> 1, target_table |-> 2, name |-> "visits"]>>,
    filter_columns |-> {}]}

Init ==
  /\ catalog \in Registrations
  /\ triggers \in {{}, {catalog.edges[i].id : i \in DOMAIN catalog.edges}}
  /\ tuples = [name \in EdgeNames |-> IF name = "edges" THEN Chain ELSE <<>>]
  /\ log = <<>>
  /\ \/ store = Absent /\ engine = [s \in Sessions |-> Absent]
     \/ \E art \in {Rebuilt} :     \* after a first graph_build
          /\ art.err = "Ok" /\ store = art.val
          /\ build(art.val).err = "Ok" /\ engine = [s \in Sessions |-> build(art.val).val]
  /\ built = [a \in Actors |-> Absent]
  /\ worker = [w \in Workers |-> "waiting"]
  /\ enabled = [w \in Workers |-> TRUE]     \* the setting's default
  /\ changes = 0 /\ calls = 0

Register == RegisterTable \/ RegisterEdge \/ RegisterFilter \/ graph_attach_sync_trigger
User == InsertRow \/ DeleteRow \/ LogByHand
Session(s) ==
  \/ graph_reset(s) \/ graph_load_snapshot(s) \/ graph_load_persisted(s) \/ graph_build(s)
  \/ graph_rebuild(s) \/ graph_sync_reload(s) \/ graph_traverse(s) \/ graph_maintenance(s)
  \/ Persist(s) \/ Fail(s)
Worker(w) == Wake(w) \/ Pass(w) \/ PassPersists(w) \/ PassFails(w) \/ Restart(w)

Next == Register \/ User \/ (\E s \in Sessions : Session(s)) \/ (\E w \in Workers : Worker(w))

\* The worker's loop does not end: a latch times out, and an awake worker goes through its
\* pass.  That the server commits what a pass writes is not the code's to promise.
Fairness ==
  \A w \in Workers :
    /\ WF_worker(worker[w] = "waiting" /\ Becomes(w, "awake"))
    /\ WF_worker(worker[w] = "awake" /\ \E state \in {"waiting", "persisting"} : Becomes(w, state))

Spec == Init /\ [][Next]_vars /\ Fairness

-----------------------------------------------------------------------------
(* Properties *)

Loaded == {s \in Sessions : engine[s] # Absent}
\* A query is a call too, and a session makes one at a time.
Answering == {s \in Loaded : built[s] = Absent}

\* Types, and the order of graph._sync_log that apply_in_order insists on: sequences
\* grow, whatever triggers and users add, so no replay stops half-way.
TypeOK ==
  /\ triggers \subseteq {catalog.edges[i].id : i \in DOMAIN catalog.edges}
  /\ \A i \in DOMAIN log : log[i].action \in 1..5 /\ (i > 1 => log[i].sequence > log[i - 1].sequence)
  /\ \A s \in Loaded :
       /\ Elems(engine[s].overlay.added_edges) \subseteq Ids \X Ids
       /\ engine[s].unique_built \in BOOLEAN
       /\ engine[s].scratch \in Nat
  /\ worker \in [Workers -> {"waiting", "awake", "persisting"}] /\ enabled \in [Workers -> BOOLEAN]
  /\ \A a \in Actors :
       built[a] = Absent \/ built[a].call \in {"graph_build", "graph_rebuild", "graph_maintenance"}
  /\ changes \in 0..MaxChanges /\ calls \in 0..MaxCalls

\* register_table and register_edge only store what load_catalog_from_spi can read
\* back: one bad row would fail every later build, reload and registration.
CatalogLoads == from_registration_rows(catalog) = Ok(catalog)

\* Whoever persisted it last, the stored snapshot opens: graph_load_persisted and
\* graph_maintenance cannot find one that GraphTopology::open refuses.
StoreOpens == store # Absent => open(store).err = "Ok"

\* How often v is in the row of u.
Held(section, u, v) == Cardinality({j \in DOMAIN SectionRow(section, u) : SectionRow(section, u)[j] = v})
Keyed(art, map, edges) ==
  \A k0 \in art.keys, k1 \in art.keys :
    Held(art.forward, map[k0], map[k1]) = Cardinality({i \in DOMAIN edges : edges[i] = [source |-> k0, target |-> k1]})
Mirrored(art) ==
  \A u \in 0..(NodesOf(art.forward) - 1), v \in 0..(NodesOf(art.forward) - 1) :
    Held(art.forward, u, v) = Held(art.inbound, v, u)

Whole(art, edges) ==
  /\ art.keys = distinct_node_keys(edges)
  /\ Keyed(art, dense_node_map_from_keys(art.keys), edges)
  /\ Mirrored(art)

\* Whoever persists a snapshot, and whatever the others committed since its scan: the stored
\* snapshot holds the edge rows that one scan found, all of one moment, each as often as it was
\* there, forward and inbound, under its dense node ids.
RebuiltWhole ==
  [][/\ \A a \in Actors : built'[a] # built[a] /\ built'[a] # Absent => built'[a].edges = Scanned.val
     /\ store' # store => \E a \in Actors : built[a] # Absent /\ Whole(store', built[a].edges)]_vars

\* The unique rows a session keeps belong to the artifact it runs over now, not to
\* the one they were built from before a rebuild or a load.
UniqueFresh ==
  \A s \in Loaded : engine[s].unique_built => engine[s].unique = from_topology(engine[s].art)

\* The far ends of the edges that have u at the near end (1 is the source, 2 the target).
FarEnds(edges, near, far, u) ==
  Loop(LAMBDA ends, p : IF p[near] = u THEN Append(ends, p[far]) ELSE ends, <<>>, edges)

\* After every insertion, removal and truncation the adjacency by source and by
\* target lists exactly the inserted edges, in their order, repeated ones too.
IndexesMatch ==
  \A s \in Loaded : \A u \in Ids :
    /\ engine[s].overlay.by_source[u] = FarEnds(engine[s].overlay.added_edges, 1, 2, u)
    /\ engine[s].overlay.by_target[u] = FarEnds(engine[s].overlay.added_edges, 2, 1, u)

\* The last word of the log on the pair of keys of entry i.
LastWord(i) ==
  /\ carries_node_keys(log[i].action)
  /\ \A j \in (i + 1)..Len(log) :
       /\ log[j].action # TruncateOverlays
       /\ ~(carries_node_keys(log[j].action) /\ log[j].arg0 = log[i].arg0 /\ log[j].arg1 = log[i].arg1)

ReplayHolds(o, map) ==
  \A i \in DOMAIN log :
    LastWord(i) =>
      (InSeq(<<map[log[i].arg0], map[log[i].arg1]>>, o.added_edges) <=> log[i].action = InsertEdge)

\* graph_sync_reload replays the log from its beginning over whatever earlier
\* reloads left; still an edge is in the overlay afterwards if and only if the last
\* thing the log says of it is its insertion.
ReloadFollowsLog ==
  [][\A s \in Sessions :
       graph_sync_reload(s) =>
         ReplayHolds(engine'[s].overlay, dense_node_map_for_sync_resolution(Scanned.val, log))]_vars

\* When the rows and the log name the nodes of the loaded artifact and no others, an
\* overlay-aware query of the session sees every inserted edge after a reload.
SeesInserts(e, map) ==
  DOMAIN map = e.art.keys =>
    \A i \in DOMAIN log :
      (LastWord(i) /\ log[i].action = InsertEdge /\ overlay_node_visible(e.overlay, map[log[i].arg1])) =>
        InSeq(map[log[i].arg1],
              view_successors(e, resolve("OverlayAware", e.overlay), map[log[i].arg0]))
InsertsSeen ==
  [][\A s \in Sessions :
       graph_sync_reload(s) =>
         SeesInserts(engine'[s], dense_node_map_for_sync_resolution(Scanned.val, log))]_vars

\* The engine a query of that freshness works with.
Ready(s, freshness) ==
  traverse_workspace_mut(engine[s], resolve(freshness, engine[s].overlay).use_unique)
Live(e) == {u \in 0..(e.art.metadata.node_count - 1) : overlay_node_visible(e.overlay, u)}

MirrorOver(e, flags) ==
  \A u \in Live(e), v \in Live(e) :
    InSeq(v, view_successors(e, flags, u)) <=> InSeq(u, view_predecessors(e, flags, v))

\* One node is the successor of another exactly when that is its predecessor, with
\* tombstoned edges, parallel edges, overlay edges and unique rows: the inbound
\* sections carry no edge id, so the reverse view looks the edge up forwards.
ViewsMirror ==
  \A s \in Answering, freshness \in Freshness :
    \A e \in {Ready(s, freshness)} : MirrorOver(e, resolve(freshness, e.overlay))

\* The edges a query may follow, from their definition.
VisiblePairs(e, freshness) ==
  {<<x[1], EdgeTarget(e.art, x[2])>> : x \in
     {y \in Live(e) \X (0..(Len(e.art.forward.targets) - 1)) :
        InSeq(y[2], ForwardEdges(e.art, y[1])) /\ edge_visible(e.overlay, y[2])}}
    \cup (IF freshness = "OverlayAware" THEN Elems(e.overlay.added_edges) ELSE {})

Steps(pairs, direction) == IF direction = "Out" THEN pairs ELSE {<<p[2], p[1]>> : p \in pairs}

\* near[k + 1]: the nodes at most k steps from the seeds.
Nearer(S, e, pairs) == S \cup {v \in Live(e) : \E u \in S : <<u, v>> \in pairs}
Near(e, pairs, seeds) ==
  Loop(LAMBDA near, i : Append(near, Nearer(near[i], e, pairs)), <<seeds \cap Live(e)>>,
       [i \in 1..Cardinality(Live(e)) |-> i])

Answers(near, limit, max_depth, answer) ==
  LET all == near[IF max_depth = 0 THEN Len(near) ELSE Smaller(max_depth + 1, Len(near))] IN
    /\ answer.err = "Ok"
    /\ Cardinality(Elems(answer.val)) = Len(answer.val)
    /\ Len(answer.val) = Smaller(limit, Cardinality(all))
    /\ Elems(answer.val) \subseteq all
    /\ \A k \in DOMAIN near, j \in DOMAIN answer.val :
         answer.val[j] \in near[k] => \A i \in 1..j : answer.val[i] \in near[k]

\* graph_traverse answers with the nodes the visible edges reach from the seed, the
\* nearest first and none twice, up to the limit, whichever rows serve the query; so
\* does graph_traverse_seeds from two seeds, which may be one node given twice.
TraverseExact ==
  \A s \in Answering, freshness \in Freshness, direction \in Directions :
    \A pairs \in {Steps(VisiblePairs(engine[s], freshness), direction)} :
      \A seed \in 0..(engine[s].art.metadata.node_count - 1) :
        /\ \A near \in {Near(engine[s], pairs, {seed})} : \A limits \in {<<2, 0>>, <<9, 1>>} :
             Answers(near, limits[1], limits[2],
                     graph_traverse_answer(engine[s], seed, limits[1], direction, limits[2], 9, freshness))
        /\ \A near \in {Near(engine[s], pairs, {seed, 0})} :
             Answers(near, 9, 0, graph_traverse_seeds(engine[s], <<seed, -1>>, 9, direction, 9, freshness))

Found(e, first, last) == {u \in Live(e) : first <= u /\ u <= last}

\* graph_search answers with the first visible nodes of the range in id order: as
\* many as the limit allows, and nodes that are not visible do not count.
SearchExact ==
  \A s \in Answering : \A start \in {-1, 1}, end \in {-1, 0, 2}, limit \in {0, 2} :
    \A found \in {Found(engine[s], Smaller(IF start < 0 THEN 0 ELSE start,
                                             IF end < 0 THEN (IF start < 0 THEN 0 ELSE start) ELSE end),
                          IF end < start THEN (IF start < 0 THEN 0 ELSE start) ELSE (IF end < 0 THEN 0 ELSE end))} :
      \A answer \in {graph_search(engine[s], start, end, limit, 9)} :
        /\ Len(answer) = Smaller(IF limit < 1 THEN 1 ELSE limit, Cardinality(found))
        /\ \A i \in DOMAIN answer :
             answer[i] \in found /\ Cardinality({u \in found : u < answer[i]}) = i - 1

\* The maintenance worker catches up: once the rows stop changing, if from some point on
\* maintenance is enabled in its process and it does not for ever fail to commit what it comes
\* to persist, the stored snapshot is that of the rows and stays it, whatever sessions build or
\* load meanwhile and although one may persist an older scan over a newer one.
MaintenanceCatchesUp ==
  \A w \in Workers :
    (/\ <>[]enabled[w]
     /\ []<>(worker[w] = "persisting") => []<><<PassPersists(w)>>_vars)
      => <>[](Rebuilt.err = "Ok" => store = Rebuilt.val)

\* What the shared tables hold can be read back by every later call: the catalog, the log in
\* the order replay insists on, and the snapshot.
StoredLoads == CatalogLoads /\ StoreOpens /\ TypeOK

\* What a session derives from its artifact and overlay belongs to these and to nothing older.
CachesMatch == UniqueFresh /\ IndexesMatch

\* Replaying the log, again and over what earlier replays left, ends where the log ends, and
\* every insertion it carries is seen.
ReplaySound == ReloadFollowsLog /\ InsertsSeen

\* Search and traversal answer what artifact and overlay together show.
AnswersExact == ViewsMirror /\ TraverseExact /\ SearchExact
=============================================================================
