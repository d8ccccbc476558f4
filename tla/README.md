# oxgraph: TLA+ models and proofs

oxgraph is a Rust workspace for graph and hypergraph storage.  This directory
models, from the files upwards: the database engine `crates/oxgraph-db` (files,
write-ahead delta-log, overlay with its incremental index, write transaction,
catalog, base file format, readers, projections and the query language); the
layouts and the container its files are made of (`oxgraph-csr`, `-csc`,
`-hyper-bcsr`, `-property`, `-snapshot`, `-layout-util`); the algorithms of
`oxgraph-algo`; and the Postgres engine and extension (`oxgraph-postgres`,
`oxgraph-pgrx`).  TLC checks the modules on small instances.  For every instance,
TLAPS proves the safety properties of the storage engine, of the delta-log and its replay,
of the write transaction with its overlay and index, and of the breadth-first searches, that
one handle over the files implements an abstract database, and that the caches of a Postgres
session are never stale.

## 1. The system

| Part (source) | State it keeps | Operations | What makes it correct |
|---|---|---|---|
| storage engine (`database/{open,mod,maintenance}.rs`, `storage.rs`) | `super.oxgdb`, `base-g.oxgdb`, `delta-g.log`; per handle: generation, frontier, last transaction id | `create`, `open`, `write`, `compact`/checkpoint | an acknowledged commit survives; the base a reopen needs exists; a fold changes the representation and not the content |
| writer lock (`lock.rs`) | advisory lock on `store.lock` | `try_lock`, drop | one writer or folder at a time; every return path releases it |
| delta-log (`wal.rs`) | records with generation, lsn, transaction, length, count, checksum | `encode_commit`, `append_commit`, `rollback_to`, `replay` | replay accepts a prefix of what was committed, tells a torn tail from corruption, ends, and leaves a clean end |
| overlay and merged view (`overlay/`, `state.rs`, `freeze.rs`) | base records, a persistent overlay of deltas and tombstones | mutators, replay, freeze | the merged view is one graph, whichever layer a record is in; replay rebuilds it |
| derived index (`index.rs`) | base postings and overlay posting deltas | label, type, incidence, equality, range and key lookups | a lookup equals a scan |
| write transaction (`database/writer.rs`) | staged overlay, log of operations | creations, labels, types, properties, tombstones with cascades, upserts, `retain`, commit, rollback | no dangling incidence, no orphan property, ids never reused, identities unique |
| catalog and schema (`catalog.rs`, `schema.rs`) | names, kinds, index and projection definitions | register, apply a schema | names resolve to one definition; a reconciled schema is the declared one |
| reader, query, traversal, projection | snapshots, plans | `execute`, bounded traversal, projections | results equal their set definitions |
| base file format, `oxgraph-snapshot` | sections with offsets, alignment and checksums | write, validate | a validated file reads back what was written |
| `oxgraph-postgres`, `oxgraph-pgrx` | change capture, overlay over an artifact, generations | sync, rebuild, publish | the served graph is the source's at some sequence; a rebuild loses no change |
| `oxgraph-algo` | reusable workspaces with epoch marks | BFS, components, topological order, PageRank | results equal the definitions; a reused workspace carries nothing over |
| `oxgraph-csr`, `-csc`, `-hyper-bcsr`, `-property`, `-layout-util` | offset and index arrays | build, validate, look up | built layouts validate; validated layouts answer as the input |
| `oxgraphd`, Python bindings, traits, mmap | none of their own | requests and calls into the above | conversion glue |

How the parts interact.  A process opens a store with `Db::open`, which reads the
superblock, maps the base it names and folds the delta-log over it into an
overlay.  `Db::write` takes the writer lock, stages operations in a
`WriteOverlay` (which logs each one and updates the posting deltas), appends one
record to the log, syncs it, publishes the frozen overlay as the new snapshot and
drops the lock.  A checkpoint takes the lock, writes the merged view as the base
of the next generation, an empty log and a new superblock, reopens, and unlinks
the old generation.  Nothing is shared between processes but the files and the
lock; `open` and `create` take no lock at all.  A reader pins one snapshot and
answers from base and overlay together; projections freeze a part of it into the
layouts, and walks run `oxgraph-algo` over them.  A base file is a container of
`oxgraph-snapshot`; so is the artifact of the Postgres engine, whose sections are
the CSR of the registered edge tables and its transpose.  In the extension each
session holds one engine in memory; sessions and the maintenance worker share the
registered catalog, the sync log that triggers write, and the stored snapshot.

What is hard.  Every operation is several file operations, any of which may fail
or be the last one before a crash; another process may run between any two.
Handles are never refreshed, so each acts on the snapshot it opened with.  The
index is never recomputed but adjusted with every mutation, over two layers, and
rebuilt from the log by different code at recovery, and borrowed from the base file by a
third.  A Postgres session keeps an engine whose artifact, overlay and caches are
replaced by different calls, while triggers and a worker change the tables it was built
from.  Algorithm scratch is reused after calls that were refused or abandoned.
Cascades and `retain` work from lists computed before they change what the lists were computed from.

## 2. The modules

| Module | Models | Kind |
|---|---|---|
| `OxgStore` | `create`, `open`, `write`, checkpoint at one file operation per step; crashes, power losses, I/O errors | state machine |
| `MCStore` | the symmetry set for `OxgStore` | model |
| `OxgDbSpec` | what a store promises a program with one handle | abstract specification |
| `OxgStoreRefines` | the refinement mapping from the files to `OxgDbSpec` | refinement |
| `OxgStore_proofs` | `OxgStore`: types, lock, live base, what a fold finds, for any handles; what one handle recovers; the refinement | proofs |
| `OxgWal` | record layout, damage, the replay loop | state machine |
| `OxgWal_proofs` | flattened records, what parses, theorems about `OxgWal` | proofs |
| `OxgOverlay` | records, overlay deltas, postings, every mutator, replay, freeze and lookup | operators |
| `OxgWriter` | `Writer`'s methods over `OxgOverlay`, commit, rollback, checkpoint, reopen | state machine |
| `OxgWriter_proofs` | what each mutator, replay and freeze of `OxgOverlay` does to records and postings; theorems about `OxgWriter` | proofs |
| `OxgCatalog` | registrations, definition bodies, `apply_schema`, catalog replay | operators |
| `OxgRead` | merge iterators, index lookups, neighbours, projections, walks | operators |
| `OxgOxql` | parsing, binding, lowering and executing a query | operators |
| `OxgBaseFile` | freezing into sections, binding and decoding them, borrowed lookups | operators |
| `OxgQuery` | schema transactions and graph edits over the four modules above | state machine |
| `OxgContainer` | header, section table, plan, writer, opens and checksums of a container | operators |
| `OxgCsr` | CSR and CSC: builder, freeze, transpose, validation | operators |
| `OxgBcsr` | hypergraph builders, the eight arrays, three validation levels, views | operators |
| `OxgProperty` | property layers: encode, validate, decode, rekey, weights | operators |
| `OxgLayouts` | the life of a topology file over the four modules above, damage included | state machine |
| `OxgPageRank` | the rank kernel for graphs and hypergraphs | operators |
| `OxgAlgo`, `MCAlgo` | strong and weak components, order, longest path, distances, PageRank calls | state machine, model |
| `OxgEngine` | catalog, artifact, overlay, sync rows, search and traversal of `oxgraph-postgres` | operators |
| `OxgExtension`, `MCEngine` | sessions, triggers, sync log, stored snapshot, worker | state machine, model |
| `OxgExtension_proofs` | the loops of overlay, replay, catalog and freeze; theorems about `OxgExtension` | proofs |
| `OxgTraversal_proofs` | views, search and traversal; theorems about the answers of `OxgExtension` | proofs |
| `OxgBfs` | bounded and iterator breadth-first search over a reused, epoch-marked scratch | state machine |
| `MCBfs` | the graphs, seed sets and depths for `OxgBfs` | model |
| `OxgBfs_proofs` | theorems about `OxgBfs` | proofs |
| `OxgAlgo_proofs` | `OxgAlgo`: topological order, longest path, hop distances | proofs |
| `OxgInduction` | induction over the naturals in a form the provers can use | proofs |

**OxgStore.**  `sb`, `base[g]`, `log[g]` are the files as the processes see them;
`sbDurable` and `synced[g]` are what a power loss falls back to.  A base is
written, synced and renamed before anything names it and is therefore durable; the
superblock's rename is durable only after the directory sync that follows it (or
any later sync of that directory).  `pc[h]` is the point a handle has reached in
its call, `db[h]` the `Db` struct, `delta[h]` its staged transaction, `scan[h]` the
locals of `open`.  A log record is a frame or `Torn` (bytes that do not parse); an
append arrives in two parts so that an `open` or a crash can fall between them.
The graph is abstracted to the set of live element ids and the id allocator, which
is what recovery has to keep; `OxgWriter` models the graph.  `acked` and `used` are
history: the last acknowledged frontier, and the ids ever published.  The fold at
the end of a commit (`CheckpointPolicy`) is a fold the handle may begin after any
commit; when the policy fires is left open.

What the environment may do is the constant `Faults`; the module lists its members.
Four of them are not failures of a device but overlaps the code does not exclude:
`race` (two creations), `overlap` (an `open` reading or truncating a log being
appended to), `unlink` (a fold unlinking the generation an `open` is reading) and
`gap` (a process dying between the superblock rename and the directory sync).

**OxgWal.**  The bytes of one log as cells: seven header fields and payload cells.
A cell holds a number; the checksum cell holds everything it covers, so a checksum has
no collisions: what is checked is the control flow around it.  `Crash` leaves any proper prefix of a
record, `FailedRollback` leaves one in front of later commits, `BitRot` changes one
cell of a committed record.  `parse_one_record` has the order of checks of the code,
and each step of replay is one turn of its loop.

**OxgOverlay and OxgWriter.**  A delta maps every id to `Unset` (the base decides),
`Absent` (tombstone) or a record; a posting delta is a pair of an added and a
removed set.  Each mutator of `WriteOverlay` is one operator that changes records
and postings as the code does, and `apply_replay_op` is the recovery code's path to
the same mutators.  Postings of the base are derived from its records, as
`freeze` builds them.  `OxgWriter` has one action per `Writer` method; cascades,
`retain` and the calls of an upsert advance one overlay call per step (`cuts`,
`stale`, `calls`), so that the lists they work from can go stale.  The replay of
the log is kept incrementally: `replayed` is what folding the committed frames over
the base yields and `replaying` adds the operations logged since; `Reopen` adopts
the former.

**OxgBfs.**  One scratch and the searches that use it, one after the other.  `marks` and
`epoch` survive a search; `queue`, `head`, `wave_end`, `depth` are the fields of
`BoundedRun` (or of an iterator's frontier), `rows` what is left of the loops over seeds,
successors and predecessors.  `StartBounded` and `StartIter` are the entry points,
`Seed`, `Pop` and `Discover` one turn of the loops each, so that a visitor can break, a
seed be refused or an iterator be dropped at every element.  `Return` ends the borrow.
Rows and seed lists are sets taken in any order; duplicates in them change nothing.
`storage` tells a fixed `BfsEpochScratch`, which refuses a graph larger than itself, from
a `BfsWorkspace`, which grows and serves iterators only.  `EpochMax` stands for
`u32::MAX`.  That a layout's neighbours lie below its bound is assumed (the layouts
validate it), so the out-of-bound error of `discover` does not occur.

**OxgCatalog, OxgRead, OxgOxql, OxgBaseFile, OxgQuery.**  The first four are operators over
a base, an overlay (both of `OxgOverlay`) and a catalog.  A merge iterator is a loop over two
ascending lists and a set of tombstones, step by step as `MergeIter::step` decides; a
hypergraph projection freezes through `OxgBcsr`, as the code does.  A query is the sequence
of its tokens.  `OxgBaseFile` writes one cell for each record, word or name into a container
of `OxgContainer`, with the offsets and run lengths the code stores, and reads it back through
the same checks; the borrowed index searches its directory by the decoded value as the code
does.  `OxgQuery` has two kinds of behaviours: one declares a schema from nothing (`Register`,
`Define`, `ApplySchema`, `CommitSchema`, `RollbackSchema`, `Prepare`; `logged` is the catalog part of the log and `prepared` the
plans made so far), the other starts from one of five folded graphs under a full schema and
edits it, one transaction an edit, with folds in between.  What a reader answers is a function
of the published state, so every reader question is an invariant.

**OxgContainer, OxgCsr, OxgBcsr, OxgProperty, OxgLayouts.**  Ids count from zero, index widths
are constants and every conversion that can overflow is a refusal.  `OxgLayouts` builds a graph
or hypergraph call by call, freezes it, exports it with or without layers, may change one word
or cut the file short, may patch the checksums afterwards (`patch_section_crc`), and opens it
plainly or checked.

**OxgPageRank, OxgAlgo.**  One action per turn of each algorithm's outer loop.  Ranks are
integer parts of `Scale`, a number with the divisors that occur in two iterations, so that
conservation is exact; floating-point rounding is not modelled.  The PageRank workspace
(`scratch`) outlives a call, finished or refused.

**OxgEngine, OxgExtension.**  `engine[s]` is the session's `LOADED_ENGINE`: artifact, overlay
(added edges with two adjacency maps, tombstones) and unique rows.  `catalog`, `tuples`,
`triggers`, `log` and `store` are tables.  An SQL
function is one action, except those that persist what they scanned: `graph_build`, `graph_rebuild`
and `graph_maintenance` scan and build in a first step, keep the outcome in `built`, and write it in a
second (`Persist`), which may also fail (`Fail`).  Other sessions, users and the worker commit in
between.  The write and its commit are one step, because from the write on the row lock of the
store's only row keeps any other writer out.  Settings that a session may change between calls are inputs of
the calls.  `Wake`, `Pass`, `PassPersists` and `PassFails` are the worker's loop: `worker[w]` is its
place in it and `enabled[w]` the setting `maintenance_enabled` as its process read it.  The worker's
loop re-reads nothing when it is signalled (`jobs.rs:28`), so only a new process (`Restart`) sees
another setting.

Abstractions of the database modules: names, labels, types, roles and keys are
model values or small numbers (one role in the writer's runs, two in `query`), property values
are small numbers compared with `<=`, and ids are bounded by
`MaxElement`, `MaxRelation` and `MaxIncidence` (the allocator's overflow check is
the guard).

## 3. What the runs check

Passing runs.  Several properties are conjunctions of named parts; each part is defined and
explained on its own in its module, and `PROJECT.json` has a mutant for nearly every one.

| Run | Question | Properties |
|---|---|---|
| `store` | one handle, power losses, failed appends, failed folds; against the abstract database, with fairness | `RecoveredAcked`: recovery ends at or above the acknowledged frontier, with its content. `LogReplayable`: the live log never makes `open` fail. `IdsRetired`: element and transaction ids stay retired through tombstones, folds, rollbacks and crashes. `ImplementsDb`: files, generations, recovery and folds do not show. `LockReleased`: every call gives the lock up. `TypeOK` |
| `store_shared` | two handles, stale ones included, interleaved at every file operation, with killed processes, failed appends, failed folds and failed reopens | `FoldPreservesView`: the reopen inside a fold finds exactly what was folded. `LiveBase`: the base a reopen needs exists. `LockWithinCall`: the lock is held exactly inside writes and folds |
| `wal_recovery` | torn appends, stray bytes, rot in any cell | `RecoveredClean`: replay accepts a prefix of the commits and leaves a clean end. `FramedTailDropped`: with lengths to be trusted, nothing but the damaged tail is dropped. `ReplayTerminates` |
| `writer` | every mutator over base and overlay, `upsert_element`, `upsert_relation` and `retain` among them | `LookupsMatchScan`: every lookup equals a scan. `ReplayRebuilds`: the log alone rebuilds the overlay. `GraphIntact`: no dangling incidence, no orphan property. `FreshIds`. `Reconciled`: retain is never stopped by its own cascades, identities stay unique, nothing dangles |
| `bfs` | searches of both kinds and all directions, with caps and depths, over one scratch whose epoch wraps | `MarkedIsQueued`: marked with the epoch means met by this search. `QueueFits`: no element is queued twice. `SearchCorrect`: reported once, at the shortest depth, nearer ones first, within a cap of one or more, and, if nothing stops it, the whole ball of radius `max_depth`. `Terminates` |
| `layouts` | every small graph and hypergraph, frozen, exported, damaged in one word, opened | `FreezeFaithful`: rows, transpose, weights and both directions show what was added. `FileFaithful`: two ways of writing, one file; intact files read as exported. `VerifiedIsWritten`: what the checked open and the checksums guarantee. `AcceptedSafe`: a damaged file that is accepted is still safe to read |
| `algo` | every graph of four nodes with up to three edges; no elements, repeated and foreign ones; hop distances from any node and from an unknown id; PageRank twice over one workspace | `PartitionsCorrect` (strong and weak components), `PathsCorrect` (topological order, longest path, hop distances): the loops against definitions by reachability. `RankSound`: rank is conserved and nothing is carried over from an earlier call. `Returns` |
| `query` | schemas declared, refused, committed, rolled back; two edits or folds of five graphs | `CatalogSound`: replay, closed references, bound names. `NamesStable`: plans and ids keep their meaning. `ReadsMatchRecords` (iterators, indexes, OxQL) and `ProjectionsMatchRecords` (projections, neighbours, walks): answers against definitions over the records. `BaseFileSound`: the base file reopens, its borrowed index agrees, damage is refused |
| `engine` | a session, the worker and users, over shared tables and one snapshot store; calls and passes of two steps, failed writes, restarts, the setting on or off | `StoredLoads`: what is stored can be read. `RebuiltWhole`: a persisted snapshot is the rows of one scan, whatever was committed before it was written. `MaintenanceCatchesUp`: an older scan may overwrite a newer one, and still the snapshot is in the end that of the rows. `CachesMatch`, `ReplaySound`: caches and overlay under rebuilds and repeated replay. `AnswersExact`: search and traversal over artifact and overlay |

Runs that end in a counterexample, each against a sentence of the repository (quoted in
`PROJECT.json` under `findings`):

| Run | What the counterexample shows |
|---|---|
| `store_stale_writer` | a handle opened before another handle's commit commits with a stale sequence; every later open fails with `LogCorrupt` |
| `bfs_zero_cap` | `ResultCap`: a search with a result cap of zero reports one element, because the cap is compared after the visitor is called (`bounded.rs:153`); line 35 calls it a hard cap |
| `query_schema_shapes` | `SchemaShapes`: a schema is applied although the index it declares exists over another key; `apply_schema` compares property keys only (`writer.rs:191`), while its documentation promises a `SchemaConflict` for a conflicting shape |

`SearchCorrect` and `CatalogSound` state what holds beside the last two: no cap of one or more is
exceeded, and every property key, and every index and projection that `apply_schema` itself
defined, is as declared.

`store_stale_writer` says that the guarantees of `store` are guarantees of a program in which one
handle at a time is used for writing and is opened after the last write of any other.
The same holds of folds: with two handles and generations to fold into, `RecoveredAcked`
fails in `OxgStore` when a stale handle compacts.  Four more environment assumptions are
needed and are visible in the configurations: adding `race`, `overlap` or `unlink` (with
two handles), `publish`, or `gap` together with `kill` and `power` to `Faults` refutes
`RecoveredAcked`, and adding `rollback` refutes `LogReplayable`.  `PROJECT.json` lists each
under `hazards`, at the line where it bites.

**Bounds.**  Two generations beyond the first, two commits and two transactions
with two power losses let a fold be interrupted, retried at the same generation number and
followed by a commit and a second recovery.  A handle whose process is killed is left out of
`Store.cfg`, because `ImplementsDb` does not hold of it (section 4 says why); it is in
`Store_shared.cfg`, and the theorems behind the other properties of `store` allow it.
With two handles one commit each and one
fold suffice for one handle to be stale at every step of the other.  Three records let
a damaged one have both a predecessor and a successor.  A transaction of three
operations on either side of a checkpoint puts every record in the base, in the overlay,
in both, and under a tombstone; two elements, a relation and two incidences are the
smallest graph in which a cascade takes more than one step and an incidence outlives
another.  One commit may be made between two checkpoints; that replay crosses from one
frame to the next, and everything else about longer logs, is left to the theorems about the
same five properties.  `MaxTxnOps` bounds where a method may start, so cascades
always finish, and so do upserts, of which the longest logs five.
In `Bfs.cfg` an epoch of at most 2 wraps at every third search, so a
search meets marks of the two before it and, if the wrap did not clear, of one with its
own epoch; the three graphs have two routes of different length to one element, a cycle,
and a loop beside an unreachable element, and the smallest one does not contain every
seed.  A cap of zero is among the inputs; `bfs_zero_cap` is about it.

`Layouts.cfg`: at most six nodes and edges together, index widths small enough to overflow,
one damaged word in the smaller files; three edges are enough for parallel edges and a loop
beside another row.
`Algo.cfg`: three edges over four nodes contain a cycle of three, a cycle of two with an edge
leaving it, a chain, a fork and a join with a cross edge; two iterations let rank reach a dangling node and return.
`Query.cfg`: three elements and a fourth to be created, three relations, six incidences; two
edits put any record under a tombstone or a replacement above the base, or fold between
them; in the base file the integer values are -1 and 0, so that a negative number is ordered
too.  Three schema calls
let a refused one be followed by a retry and a commit.  `Engine.cfg`: one session, the worker and
users, three nodes and a place, a base of an edge and a loop, primary keys up to 8 of which the
largest is out of range, node ids up to 7, so that a
session holds every graph of these rows and the refusal of more keys than ids is never the
reason a call fails, two changes and two calls:
a reload after a build after a change, or two reloads around one.  Passes are not bounded, so a
pass and a call can each scan before and write after the other, around a change; a restart,
which counts as a change, may switch the setting, which is on at first.

**Remarks.**  What modelling met and no run is about, because the code does what it
consistently does and nothing in the repository contradicts it firmly enough:

* Delta-log and store.  `database/mod.rs:92` says of `last_transaction_id` that a rollback
  "does not advance it", while `begin_write` stores the new id at once; `TxnIdFresh` holds
  either way.  A record whose length field is damaged counts as the tail (`wal.rs:298`), so
  intact commits behind it are dropped silently; `FramedTailDropped` says exactly when
  not.  An `upsert_relation` refused for a missing endpoint leaves the relation staged, and
  a retry in the same transaction returns it without endpoints; `Reconciled`, which speaks of
  doubles and loose incidences, holds in such a state.
* Catalog and readers.  A walk that leaves its start out still counts the seeds as discovered
  (`traversal.rs:198`), so edges to seeds may be among its edges although its nodes do not list them,
  while `reader.rs:600` says that a subgraph never references a node it omitted;
  `WalkNearest` follows the code.  A composite index without keys answers differently from the scan it
  replaces.  Removing an element leaves relations whose missing end makes every
  projection that selects them fail (`GraphProjected` states it).
* Layouts.  Builders accept one node or edge more than the index maximum when freezing
  can still express the offsets.  A section sink that is dropped leaves a gap of zeros.  The
  incidence total of a hypergraph is not compared with the incidence width at open, and the
  values of an identity map are not checked.
* Postgres.  `GraphTopology::open` compares the counts of both directions, not their edges.
  Deleting the row of a base edge writes a sync row that removes overlay edges only; deleting
  one of two equal rows removes every overlay copy.  Reloading twice keeps an inserted edge
  twice in the overlay (answers list a node once, so `TraverseExact` holds).  A reload resolves keys by the rows and
  the log of its moment and leaves what is in the overlay alone, so overlay edges of an earlier reload
  may stand under dense ids that now mean other nodes; `ReplaySound` speaks of the edges the log
  names, resolved as they are now, and does not exclude it.  A session's engine is
  not rolled back with its transaction.  One edge row with an out-of-range key fails every
  scan.

**Symmetry** is used for the two handles of `store_shared` only, which checks no
liveness.  **Deadlock** is checked in the store, writer, search and engine runs.  It is switched off
where behaviours end: a loud log in `OxgWal`, an opened file in `OxgLayouts`, a finished call
in `OxgAlgo`, and the bounds on edits and calls in `OxgQuery`.

**Fairness.**  `OxgStore!FairSpec` assumes that a handle inside a call keeps taking its
steps (`WF` on the steps of a running call): the code runs to the return of the call
unless the process dies, and nothing in it waits (`try_lock` does not block).  Nothing
is assumed about whether a call is made.  `OxgWal!Spec` assumes that the replay loop
keeps running, `OxgBfs!FairSpec` that a search that has begun does: both are loops on the
caller's thread that wait for nothing.  A caller that stops pulling from an iterator is
`Drop`; dropping it is one of the two ends `Terminates` allows, and not assumed.
`OxgAlgo!Spec` assumes that a call's loops keep running in the caller's thread.
`OxgExtension!Spec` assumes that the worker's latch times out (every 300 s) and that an awake worker
goes through its pass; nothing is assumed of sessions and users, nor of a pass's write.  What the
code cannot promise are premises of `MaintenanceCatchesUp`: that from some point on the setting is on
in the worker's process (with it off every pass returns at `jobs.rs:40`), and that of infinitely many
passes that come to write, infinitely many commit: the loop opens no transaction of its own, so that
a write is committed is the server's affair.  That the rows come to rest and restarts to an end is
`MaxChanges`; without it the conclusion would need it as a premise.

## 4. What is proved

Every theorem below is for all values of the constants that the named `ASSUME`s allow;
TLC evaluates those in every run.  They say that bounds are naturals, that `None` and
`Torn` and the markers of a delta are values of their own (`ValuesAssumption`,
`FrontierAssumption`, `OverlayAssumption`), that a key belongs to one
family of subjects (`FamilyAssumption`), that identity keys are keys of elements or relations
(`WriterAssumption`), that a view's rows lie inside it (`ViewAssumption`), that the marker of a
missing section is none (`EngineAssumption`), that the nodes of a graph count from zero and its rows
lie inside it (`AlgoAssumption`), and that no worker is a session, tables hold rows of integers under
finitely many names, the two edge tables of the integration tests among them, and node and edge
ids go at least to 3, which the uploaded bytes of the model use (`ExtensionAssumption`).

**`OxgStore_proofs`**, for any set of handles, any bounds and any set of faults:

* `TypeCorrect`: `Spec => []TypeOK`.  `TypeOK` is not inductive alone: a frame holds
  `lsn + 1` and a fold writes generation `gen + 1`, so the invariant also carries
  `InBounds`, that a handle past the guard still has room for its increment.
* `LockSafe`: `Spec => []LockWithinCall`, inductive with `TypeOK`.
* `LiveBaseSafe`: if creations do not overlap, `Spec => []LiveBase`.  `LiveBase` is not
  inductive: that a finished fold may unlink its old base rests on both versions of the
  superblock naming the next generation, which rests on nobody having published since
  this fold did, which rests on the lock.  The strengthening `StoreInv` adds
  `LockWithinCall`, `FoldInv` (a fold's base is in place; from the rename on the superblock
  names it; in the reopen it is durable) and `CreateInv` (who is past the publication of a
  superblock finds one; one creator at a time).  The assumption on creations is needed.
* `FoldExact`: on the same assumption, `Spec => []FoldPreservesView`, for any number of
  handles, stale ones included.  The strengthening `ReopenInv` follows the reopen inside a
  fold through its steps: the base it read is the one this fold wrote, the log it will read
  is the empty one, and no other handle can append to it while the lock is held.

The second half is about one handle (`Alone`) and the failures a store is meant to
survive (`Survivable`): `AckedRecovered`, `LogsReplay` and `RetiredIds` state
`RecoveredAcked`, `LogReplayable` and `IdsRetired`.  Both hypotheses are needed: `Alone`
because of `store_stale_writer`, and the five faults left out (`race`, `rollback`,
`publish`, `reopen`, `gap`) because after each of them the code does lose a commit or
refuse a log, as section 3 says.  The argument avoids computing a fold over a log: a
*trail* is a function `w` from positions to frontiers with `w[0]` the base and `w[i]` the
frontier after the `i`-th frame.  `DurableInv` says that the superblock in the files and the
durable one each have a trail over their log (`SafeTrail`), that the acknowledged frontier is
one of the frontiers the synced records lead to or is already in the base (`Covers`), that the
watermark is above every used id from there on, and how the locals of every call relate to
the end of the trail.  An append extends a trail by one, a cut or a power loss shortens it, a
publication starts a new one.

The last part is the refinement: `Implements == Alone /\ Mild => (Spec => ImplementsDb)`.  `Mild`
is `Survivable` without `kill`.  A process that dies after the last byte of an append and
before its sync leaves a whole record that is not durable; the next `open` shows it without
syncing it, and a power loss then takes back something a reader has seen, which `OxgDbSpec`
does not allow and `RecoveredAcked` does (nothing of it was acknowledged).  `ReplayedTrail`
shows that the fold of the mapping ends where the trail does, by a least counterexample.
`RefineInv` relates, point by point of each call, what the mapping shows of the files to the
handle's snapshot; each step is then a step of `OxgDbSpec` or a stutter.

**`OxgWal_proofs`**, for any number of commits, operations and blob cells, any rotten values in
any fields and any number of damages and recoveries: `CleanRecovery` states `RecoveredClean` and
`TailExact` states `FramedTailDropped`.  `WalInv` says that a log is the encoding of its first
`m` commits, at least those that replay has accepted, and a rest (`Held`).  The rest (`Rest`) is
empty; or *stray*, part of a record and whatever came after it; or *rotten*, a record with one
cell changed and the intact ones behind it.  Three lemmas about bytes carry the argument: a
record parses to itself whatever follows (`RecordValid`), and a stray or a rotten rest is never
valid (`StrayInvalid`, `RottenInvalid`).  So a turn of the loop accepts the next commit while
there is one, and at `m` it finds no record (`Turn`).  `TailExact` needs that a rotten record
whose length and count are intact is well framed: if `is_last` holds it reaches to the end of the
file, and nothing was committed behind it.  Its hypothesis is needed:
a rotten length makes `parse_one_record` take the intact commits behind it for a torn tail.
A stray rest stays invalid for two reasons that belong to the abstraction: a number is never
mistaken for a checksum, and a record that is cut in its payload is not completed by the first
field of the one behind it, whose value no payload cell of the model has.

**`OxgWriter_proofs`**, for any id spaces, labels, types, keys, values
and identity keys and any number of operations, commits and checkpoints: `TypeCorrect`,
`LookupsExact` (`LookupsMatchScan`), `ReplayCorrect` (`ReplayRebuilds`), `IdsFresh`
(`FreshIds`), `GraphWhole` (`GraphIntact`), `ReconcileCorrect` (`Reconciled`).  A lookup equals
a scan because a posting delta is *exact* (`Exact`): its added and removed sets are disjoint, and
the base posting with the one put in and the other taken out is the scan.  One lemma for each
mutator says that it keeps every kind of posting exact, moves one subject and leaves all others
alone; `apply_replay_op` and `freeze` have theirs.  The inductive invariant `IInv` has

* `Whole` of the published and of the staged overlay: exact postings, no orphan property, ids
  at or above the watermark unused (`Sound`), the base's watermark at or below (`Above`),
  identities unique (`Unique`);
* `CascadeCovers`: every incidence that has lost an end is one the running cascade has still to
  cut; `StaleVisible`: what `retain` has still to remove is there; `PendingIdentity`: no subject
  holds the identity value that a running upsert has still to set;
* that the replayed overlay is the published one and that the replaying one equals the staged
  one in records and postings (`Alike`; the watermark follows when the record is sealed), and
  `Modes`, that one loop runs at a time and only inside a transaction.

**`OxgExtension_proofs`**, for any sessions, tables, edge rows, logged rows and calls:
`CachesFresh` (`CachesMatch`), `StoredReadable` (`StoredLoads`), `ReplayExact` (`ReplaySound`) and
`SnapshotWhole` (`RebuiltWhole`).  All rest on one inductive invariant, `ExtensionInv`: the
registered rows are distinct and refer to tables that are there (`Loadable`), the sequences of the
log grow (`Logs`), the stored snapshot is one topology (`ArtOK`: both sections are the freeze of one
list of edges, the one by source and the other by target), and every loaded engine is `EngineOK`: its
artifact is such a topology, its unique rows, once built, are of that artifact, and its overlay is
`Matched`: its adjacencies are the far ends of its inserted edges.  What a session or worker has built
and not yet written is such a topology too, frozen from the edges it scanned (`BuiltOK`), whatever has
been committed since; with it `SnapshotWhole` is a matter of the two steps apart.  None of the four properties is
inductive alone: a rebuild is readable because the scan it starts from is of a readable catalog,
a reload succeeds because the log is in order, and either may be followed by the other.

The operators are loops over sequences; each gets a lemma that compares its recursive function with
a table known to exist (`SameTable`).

* Overlay: `PushMatched` says that one insertion extends list and adjacencies alike,
  `RebuildMatched` that `rebuild_indexes` makes any overlay matched whatever its adjacencies were,
  `RetainIs` that `retain` keeps a sequence; so every sync row (`ApplyMatched`), and every replay,
  also one that stops at a sequence that does not grow (`InOrderMatched`), keeps an overlay matched.
* Catalog: `TablesLoad` and `EdgesLoad` say that distinct rows are all accepted when they are read
  back, and the `Register...Loadable` lemmas that every accepted registration leaves them distinct.
* Freeze: edge `k` belongs at `Slot(k)`, behind the edges of smaller sources and the earlier ones of
  its own.  After `k` placements every cursor is past the edges of its source so far and these are
  in their slots (`Sorted`); slots are a bijection of positions.  So the row of a node names a
  target as often as there are edges to it (`RowCounts`), in the artifact and in its transpose.
* Replay: along the log, the last row about an edge decides whether it is in the overlay, whatever
  the overlay held before.  A replay resolves keys to dense ids by an injective map, so that a
  row about another edge does not touch this one.

**`OxgTraversal_proofs`**, from the same invariant: `AnswersTrue` states `AnswersExact`, and
`TraversalExact` its middle part for every depth, limit and cap and any sequence of seeds.
Whichever rows serve a query (unique rows, base sections with tombstones looked up forwards, overlay
adjacency), successors and predecessors are those of one set of visible pairs (`ViewsMirrorOK`).  The
search loop is followed with an invariant of its own (`Progress`): the queue holds no node twice, each
one at its exact distance from the seeds, nearer ones first (`Sound`); what is before the head has
all its neighbours in the queue (`Expanded`); no entry is more than a step further than the
one at the head; and the loop stops early only at the limit.  At the end a layer that is not empty is
in the queue because the layer before it is and has been expanded.  Distances come from the
table of layers, as in `OxgBfs_proofs`, and there are fewer of them than visible nodes.

**`OxgBfs_proofs`**, for every family of graphs, seed sets, depths, caps and epoch widths:

* `TypeCorrect`: `Spec => []TypeOK`.
* `MarksSafe`: `Spec => []MarkedIsQueued`.  The strengthening is `MarksOld`: no mark is
  above the epoch, so an advanced epoch is fresh, and after a wrap the marks are all zero
  and the epoch is one.  `RowsValid` adds that the view fits the scratch while a search
  runs and that what is left to walk lies inside the view.
* `QueueSafe`: `Spec => []QueueFits`.  `QueueDistinct`, which follows step by step from
  `MarkedIsQueued`, makes the queue an injection of its positions into the view's indices,
  and the bound is a count of both.
* `SearchSafe`: `Spec => []SearchCorrect`.  The invariant `SearchInv` says that the queue is
  sorted by distance (`Sorted`), that what was reported is the queue up to the head (`Reported`,
  `Capped`), that every seed met is in it (`Seeded`), that what has been walked has all its
  neighbours in it (`Walked`), and that a wave ends where the distance rises (`Waves`).
  Distances come from a table of balls, defined by a recursive function.  That the table exists
  and grows, that what is not a seed is next to something nearer by one hop, and that there are
  fewer distances than elements, so that the last ball is closed, is shown with `OxgInduction`.

**`OxgAlgo_proofs`**, for any number of nodes, any graph with loops, cycles and parallel edges, and any
elements, repeated, unknown or none: `PathsFollowEdges` states `PathsCorrect`.  `PathsInv` says for each of
the three calls how far its loop is; none of the parts of `PathsCorrect`, which speak of the end of a call,
is inductive.

* Reference side: `Closure` is built in as many rounds as there are nodes.  `ClosureClosed` shows by a count
  that the last round adds nothing, `ClosureLeast` that it is the least closed relation, and the chains of
  `ChainLength` are compared with lengths that grow along every edge and are each reached over one (`Counts`).
* A queue and what was taken from it are two parts of one sequence (`Line`).  A pop moves the border, a push
  extends the sequence, so that every statement is about one function and a position in it.
* Hop distances: the sequence holds no node twice, distances rise along it and never by more than one past
  the border, and each node but the source has a predecessor taken earlier, one hop nearer (`Met`); what was
  taken has all its successors in it (`Covered`).  At the end the nodes met are closed under edges, hence they
  are the reached ones.
* Topological order: the in-degree of a node is the number of row entries that name it and have not been
  released (`Pending`), and a node is in the sequence exactly when that number is zero (`Sorting`).  So no
  decrement underflows, also with parallel edges.  If nodes are left over, each has a predecessor among
  them, and a finite set in which each has a predecessor contains a cycle; conversely positions rise along
  edges, so a full order excludes one.
* Longest path: after `a` nodes of the order, lengths are those of chains along the recorded predecessors
  (`Chains`), none is smaller than a taken predecessor's plus one, and `best_end` is a greatest one (`Best`).
  The walk back is then a chain that loses one in length at each node (`Walk`).  Relaxations of nodes outside
  the elements change nothing that is read, as the comment in the code says.

**`OxgInduction`** has the least member of a set of naturals, induction up to a bound over a set
given as a value, and the existence of the table of a recursive function.  The library's
induction theorems take an operator as a parameter, which the installed provers cannot
instantiate; stated over sets and functions they can be used, and that is how the distances of a
search, the fold of a log and the bytes of a sequence of records were proved about.

Only model-checked:

* liveness (`LockReleased`, `ReplayTerminates`, `Terminates`, `Returns`,
  `MaintenanceCatchesUp`): outside the prover's logic;
* `OxgLayouts`, `OxgQuery` and, of `OxgAlgo`, `PartitionsCorrect` and `RankSound`: their operators are loops over sequences, written as
  folds and recursive functions (in `OxgOxql` and `OxgQuery` as `RECURSIVE` operators, about
  which the prover proves nothing); what they compute for every input is a matter of induction
  over data, which has to be set up for each loop by hand as in `OxgExtension_proofs` and `OxgAlgo_proofs`.

## 5. What is not modelled

* Characters and bytes: tokenising OxQL, the explain text, the encoding of one operation
  inside a log record, UTF-8, the CRC polynomial, Arrow's stream format.  A checksum is what
  it covers.
* Floating point: ranks are exact fractions, property values small integers.
* Typed getters and handles of `typed.rs`, the schema fingerprint, the standalone checks of
  unique layer names and ids in `oxgraph-property`, which no crate calls.
* Of the extension: role checks, settings other than those named in section 2, identifier
  validation, the JSON status, and concurrency inside Postgres below the two steps of a call.  One
  scan reads catalog and all edge tables in one moment, whereas the code runs one query for each
  and, under READ COMMITTED, each sees what was committed before it.  Rows of transactions
  that are not committed are not seen, and two registrations or triggers that both compute
  `MAX(...) + 1` before either commits are serialised here.
* The byte-flag, owned and set-based search frontiers, which are new for every search.
* Request parsing, the command line, Python conversions, the memory map and the trait
  crates: no state of their own.  The daemon and the command line open a `Db` per request
  and are represented by the handles of `OxgStore`.

## 6. Plan

The components that carry state are modelled, and every safety property of the store, the log, the
write transaction, the breadth-first search, the path algorithms and the Postgres engine is proved, under the hypotheses section 4
names.  What remains is proof, loop by loop:

1. `FreezeFaithful` for graphs.  Freeze and transposition are those of `OxgExtension_proofs`; its
   lemmas about `Slot` apply.  The same property covers hypergraphs, whose participants are sorted and
   found by bisection, so that these loops come first.
2. `PartitionsCorrect`: what each turn of Tarjan's loop and each union keeps, with the closure lemmas of
   `OxgAlgo_proofs` on the reference side.
3. `OxgOverlay`'s lemmas carried to `OxgRead`: merge iteration over two layers lists what
   `OxgWriter_proofs` shows to be there.
