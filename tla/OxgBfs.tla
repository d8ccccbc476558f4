------------------------------- MODULE OxgBfs -------------------------------
(***************************************************************************)
(* The breadth-first searches of oxgraph-algo over one epoch-marked scratch *)
(* (bfs/bounded.rs, bfs/epoch.rs, bfs/workspace.rs, bfs/core.rs): the       *)
(* depth-bounded multi-seed driver with its visitor, and the plain iterator *)
(* that yields an element when it pops it.  A scratch outlives its          *)
(* searches: marks of an earlier search stay in it, told apart only by the  *)
(* epoch, which wraps.  A search may stop half way: its visitor breaks, its *)
(* result cap is hit, a seed is refused, or its iterator is dropped.  The   *)
(* scratch is a BfsEpochScratch of fixed size, which serves both kinds of   *)
(* search, or a BfsWorkspace, which grows and serves iterators.             *)
(*                                                                         *)
(* Adjacency rows and seed lists are sets taken in any order, so every      *)
(* order the layouts can produce is covered; a repeated neighbour or seed   *)
(* meets the "already marked" case and changes nothing.                     *)
(***************************************************************************)
EXTENDS Integers, Sequences, FiniteSets

CONSTANTS
    N,          \* nodes of the largest graph
    EpochMax,   \* u32::MAX
    Views,      \* the graphs searched
    Seeds,      \* the seed sets searched from
    Depths,     \* values of max_depth; NoBound is None
    Limits      \* values of result_limit

ASSUME NAssumption == N \in Nat \ {0}
ASSUME EpochAssumption == EpochMax \in Nat \ {0}
ASSUME ArgAssumption ==
    /\ Depths \subseteq Nat \cup {-1}
    /\ Limits \subseteq Nat
    /\ \A seeds \in Seeds : seeds \subseteq 0 .. N - 1

\* Views keep every edge below their bound: the layouts validate it.
ASSUME ViewAssumption ==
    \A g \in Views : /\ g.bound \in 1 .. N
                     /\ g.edges \subseteq (0 .. g.bound - 1) \X (0 .. g.bound - 1)

VARIABLES
    storage,    \* "scratch" (BfsEpochScratch) or "workspace" (BfsWorkspace)
    marks,      \* BfsEpochScratch.marks / BfsWorkspace.marks
    epoch,      \* EpochCounter.epoch
    graph,      \* the topology view of the current search
    call,       \* its arguments
    phase,      \* "idle", "seed", "expand", "end", "stopped"
    queue,      \* queue[..tail]
    head,       \* next element to pop
    wave_end,   \* end of the current depth wave
    depth,      \* depth of the elements being popped
    rows,       \* what is left to walk: the seeds, then the popped element's rows
    out,        \* elements given to the visitor, or yielded
    depths      \* the depths given with them

request == <<storage, graph, call>>
vars == <<storage, marks, epoch, graph, call, phase, queue, head, wave_end, depth,
          rows, out, depths>>

NoBound == -1
Node == 0 .. N - 1
Index(g) == 0 .. g.bound - 1

\* The arguments of a search; an iterator takes one start and no bounds.
Call == [kind : {"bounded"}, seeds : Seeds, dir : {"out", "in", "both"},
         max_depth : Depths, limit : Limits, include_seeds : BOOLEAN]
        \cup [kind : {"iter"}, seeds : {{n} : n \in Node}, dir : {"out", "in"}]
NoCall == [kind |-> "none"]

Successors(g, e) == {t \in Node : <<e, t>> \in g.edges}
Predecessors(g, e) == {s \in Node : <<s, e>> \in g.edges}

\* What a search walks for e: first one row, then the other.
NoRows == [first |-> {}, second |-> {}]
Rows(g, dir, e) ==
    [first  |-> IF dir = "in" THEN Predecessors(g, e) ELSE Successors(g, e),
     second |-> IF dir = "both" THEN Predecessors(g, e) ELSE {}]

Init ==
    /\ storage \in {"scratch", "workspace"}
    /\ \E cap \in {g.bound : g \in Views} \cup {0} :
         /\ cap = 0 => storage = "workspace"
         /\ marks = [i \in 0 .. cap - 1 |-> 0]
    /\ epoch = 0
    /\ graph \in Views
    /\ call = NoCall
    /\ phase = "idle"
    /\ queue = << >> /\ head = 0 /\ wave_end = 0 /\ depth = 0
    /\ rows = NoRows /\ out = << >> /\ depths = << >>

-----------------------------------------------------------------------------
(* Starting a search. *)

\* ensure_element_bound: a workspace grows to the graph and never shrinks.
Grown(m, bound) ==
    [i \in DOMAIN m \cup 0 .. bound - 1 |-> IF i \in DOMAIN m THEN m[i] ELSE 0]

Advance_NoClear(m, e) ==
    [epoch |-> IF e = EpochMax THEN 1 ELSE e + 1, marks |-> m]

\* EpochCounter::advance: the new epoch, and the marks it is compared with.
Advance(m, e) ==
    IF e = EpochMax
      THEN [epoch |-> 1, marks |-> [i \in DOMAIN m |-> 0]]
      ELSE [epoch |-> e + 1, marks |-> m]

Fresh(g, c) ==
    /\ graph' = g /\ call' = c
    /\ UNCHANGED <<storage, head, wave_end, depth, out, depths>>

\* start_run up to its seed loop.  Too small a scratch is refused before the
\* epoch advances, so that call changes nothing.
StartBounded(g, c) ==
    /\ c.kind = "bounded"
    /\ storage = "scratch"
    /\ Index(g) \subseteq DOMAIN marks
    /\ LET a == Advance(marks, epoch)
       IN  marks' = a.marks /\ epoch' = a.epoch
    /\ phase' = "seed"
    /\ rows' = [NoRows EXCEPT !.first = c.seeds]
    /\ UNCHANGED queue
    /\ Fresh(g, c)

\* breadth_first_search_with_workspace and with_epoch_scratch, and their
\* reverse twins: the start, and a scratch's size, are checked first; then a
\* workspace grows, and the epoch advances.
StartIter(g, c) ==
    /\ c.kind = "iter"
    /\ storage = "scratch" => Index(g) \subseteq DOMAIN marks
    /\ \E start \in Index(g) :
         /\ c.seeds = {start}
         /\ LET a == Advance(Grown(marks, g.bound), epoch)
            IN  /\ marks' = [a.marks EXCEPT ![start] = a.epoch]
                /\ epoch' = a.epoch
         /\ queue' = << start >>
    /\ rows' = NoRows
    /\ phase' = "expand"
    /\ Fresh(g, c)

-----------------------------------------------------------------------------
(* The search. *)

Emit_LateCap(e, d) ==
    /\ out' = Append(out, e)
    /\ depths' = Append(depths, d)
    /\ phase' \in {IF Len(out) >= call.limit THEN "stopped" ELSE phase, "stopped"}

\* BoundedRun::emit: the visitor may break, and the cap stops the search.
Emit(e, d) ==
    /\ out' = Append(out, e)
    /\ depths' = Append(depths, d)
    /\ phase' \in {IF Len(out) + 1 >= call.limit THEN "stopped" ELSE phase, "stopped"}

Visit_Unmarked(e, report, d) ==
    IF marks[e] = epoch
      THEN UNCHANGED <<marks, queue, phase, out, depths>>
      ELSE /\ queue' = Append(queue, e)
           /\ IF report THEN Emit(e, d) ELSE UNCHANGED <<phase, out, depths>>
           /\ UNCHANGED marks

\* An element met for the first time is marked and queued, and reported
\* unless the search has no visitor or leaves seeds out.
Visit(e, report, d) ==
    IF marks[e] = epoch
      THEN UNCHANGED <<marks, queue, phase, out, depths>>
      ELSE /\ marks' = [marks EXCEPT ![e] = epoch]
           /\ queue' = Append(queue, e)
           /\ IF report THEN Emit(e, d) ELSE UNCHANGED <<phase, out, depths>>

\* Takes e from the row being walked.
Take(e) ==
    \/ e \in rows.first /\ rows' = [rows EXCEPT !.first = @ \ {e}]
    \/ rows.first = {} /\ e \in rows.second /\ rows' = [rows EXCEPT !.second = @ \ {e}]

\* One seed of start_run's loop; an element outside the view ends the search,
\* with the seeds before it already marked and reported.
Seed ==
    /\ phase = "seed"
    /\ \E s \in rows.first :
         /\ Take(s)
         /\ IF s \in Index(graph)
              THEN Visit(s, call.include_seeds, 0)
              ELSE phase' = "stopped" /\ UNCHANGED <<marks, queue, out, depths>>
    /\ UNCHANGED <<epoch, head, wave_end, depth, request>>

SeedsDone ==
    /\ phase = "seed" /\ rows = NoRows
    /\ wave_end' = Len(queue)
    /\ phase' = "expand"
    /\ UNCHANGED <<marks, epoch, queue, head, depth, rows, out, depths, request>>

Expands_TooFar(d) == call.max_depth = NoBound \/ d <= call.max_depth

\* BfsBounds::expands.
Expands(d) == call.max_depth = NoBound \/ d < call.max_depth

Pop_SkipKeepsHead ==
    /\ phase = "expand" /\ rows = NoRows /\ head < Len(queue)
    /\ IF call.kind = "bounded"
         THEN /\ IF head = wave_end
                   THEN depth' = depth + 1 /\ wave_end' = Len(queue)
                   ELSE UNCHANGED <<depth, wave_end>>
              /\ rows' = IF Expands(depth') THEN Rows(graph, call.dir, queue[head + 1]) ELSE NoRows
              /\ head' = IF Expands(depth') THEN head + 1 ELSE head
              /\ UNCHANGED out
         ELSE /\ rows' = Rows(graph, call.dir, queue[head + 1])
              /\ head' = head + 1
              /\ out' = Append(out, queue[head + 1])
              /\ UNCHANGED <<depth, wave_end>>
    /\ UNCHANGED <<marks, epoch, phase, queue, depths, request>>

\* BoundedRun::pop and the frontiers' pop; an iterator yields what it pops.
Pop ==
    /\ phase = "expand" /\ rows = NoRows /\ head < Len(queue)
    /\ head' = head + 1
    /\ IF call.kind = "bounded"
         THEN /\ IF head = wave_end
                   THEN depth' = depth + 1 /\ wave_end' = Len(queue)
                   ELSE UNCHANGED <<depth, wave_end>>
              /\ rows' = IF Expands(depth') THEN Rows(graph, call.dir, queue[head + 1]) ELSE NoRows
              /\ UNCHANGED out
         ELSE /\ rows' = Rows(graph, call.dir, queue[head + 1])
              /\ out' = Append(out, queue[head + 1])
              /\ UNCHANGED <<depth, wave_end>>
    /\ UNCHANGED <<marks, epoch, phase, queue, depths, request>>

\* One neighbour of the popped element: discover, or try_visit_and_push.
Discover ==
    /\ phase = "expand"
    /\ \E t \in Node : Take(t) /\ Visit(t, call.kind = "bounded", depth + 1)
    /\ UNCHANGED <<epoch, head, wave_end, depth, request>>

\* The queue is drained.
Finish ==
    /\ phase = "expand" /\ rows = NoRows /\ head = Len(queue)
    /\ phase' = "end"
    /\ UNCHANGED <<marks, epoch, queue, head, wave_end, depth, rows, out, depths, request>>

\* The caller drops the iterator between two elements.
Drop ==
    /\ phase = "expand" /\ rows = NoRows /\ call.kind = "iter"
    /\ phase' = "stopped"
    /\ UNCHANGED <<marks, epoch, queue, head, wave_end, depth, rows, out, depths, request>>

\* The run is dropped; the scratch keeps its marks and its epoch.
Return ==
    /\ phase \in {"end", "stopped"}
    /\ phase' = "idle"
    /\ call' = NoCall
    /\ queue' = << >> /\ head' = 0 /\ wave_end' = 0 /\ depth' = 0
    /\ rows' = NoRows /\ out' = << >> /\ depths' = << >>
    /\ UNCHANGED <<storage, marks, epoch, graph>>

Start ==
    /\ phase = "idle"
    /\ \E g \in Views, c \in Call : StartBounded(g, c) \/ StartIter(g, c)

Step == Seed \/ SeedsDone \/ Pop \/ Discover \/ Finish
Next == Start \/ Step \/ Drop \/ Return

Spec == Init /\ [][Next]_vars

\* A search is a loop on the caller's thread: once started, it runs.
FairSpec == Spec /\ WF_vars(Step)

-----------------------------------------------------------------------------
(* Properties. *)

MarkTable == UNION {[0 .. cap - 1 -> 0 .. EpochMax] : cap \in 0 .. N}

TypeOK ==
    /\ storage \in {"scratch", "workspace"}
    /\ marks \in MarkTable
    /\ epoch \in 0 .. EpochMax
    /\ graph \in Views /\ call \in Call \cup {NoCall}
    /\ phase \in {"idle", "seed", "expand", "end", "stopped"}
    /\ queue \in Seq(Node) /\ out \in Seq(Node)
    /\ head \in 0 .. Len(queue) /\ wave_end \in 0 .. Len(queue)
    /\ depth \in Nat /\ depths \in Seq(Nat)
    /\ rows \in [first : SUBSET Node, second : SUBSET Node]

Elements(s) == {s[i] : i \in 1 .. Len(s)}
Neighbors(e) == LET r == Rows(graph, call.dir, e) IN r.first \cup r.second

\* What the search is about: the elements within k hops of the seeds, and
\* how many hops each needs.
Ball == LET ball[k \in 0 .. N] ==
              IF k = 0 THEN call.seeds
              ELSE ball[k - 1] \cup UNION {Neighbors(e) : e \in ball[k - 1]}
        IN  ball
Distances ==
    LET ball == [k \in 0 .. N |-> Ball[k]]
    IN  [e \in ball[N] |-> CHOOSE k \in 0 .. N : e \in ball[k] /\ (k > 0 => e \notin ball[k - 1])]

\* A mark equal to the epoch means "met by this search", whatever earlier
\* searches, finished or abandoned, left in the scratch and however often the
\* epoch wrapped: BoundedRun::discover and try_visit_and_push skip an element
\* by this test alone (bounded.rs:142).
MarkedIsQueued ==
    phase # "idle" => \A i \in DOMAIN marks : marks[i] = epoch <=> i \in Elements(queue)

\* The queue slice holds element_bound elements and pushes are unchecked
\* (bounded.rs:146): no element may enter it twice.
QueueFits ==
    /\ \A i, j \in 1 .. Len(queue) : queue[i] = queue[j] => i = j
    /\ Len(queue) <= graph.bound

\* Every element is reported at most once, at its shortest depth, nearer
\* elements first, never beyond a cap of one or more; and before one at depth
\* d is reported, all nearer ones were (bounded.rs:52, :233-239).  A cap of
\* zero is ResultCap's case.
BreadthOrder ==
    (phase # "idle" /\ call.seeds \subseteq Index(graph)) =>
      LET distance == Distances
      IN  /\ \A i, j \in 1 .. Len(out) : out[i] = out[j] => i = j
          /\ \A i \in 1 .. Len(out) :
               /\ call.kind = "bounded" =>
                    /\ depths[i] = distance[out[i]]
                    /\ call.limit # 0 => Len(out) <= call.limit
               /\ \A e \in DOMAIN distance :
                    (distance[e] < distance[out[i]]
                       /\ (call.kind = "bounded" => call.include_seeds \/ distance[e] > 0))
                    => \E j \in 1 .. i : out[j] = e

\* result_limit is documented as a hard cap on the number of emitted elements,
\* seeds included (bounded.rs:35), whatever its value.  The code tests it after
\* it has reported an element (bounded.rs:152-160), so a cap of zero lets one pass.
ResultCap ==
    (phase # "idle" /\ call.kind = "bounded") => Len(out) <= call.limit

\* A search that runs to its end has reported everything within max_depth,
\* and nothing else.
Complete ==
    (phase = "end") =>
      LET distance == Distances
      IN  Elements(out) =
            {e \in DOMAIN distance :
               call.kind = "bounded" =>
                 /\ call.max_depth = NoBound \/ distance[e] <= call.max_depth
                 /\ call.include_seeds \/ distance[e] > 0}

\* Every search ends.
Terminates == (phase = "seed" \/ phase = "expand") ~> (phase \in {"end", "stopped"})

\* A search reports its elements in breadth order and, if nothing stops it, all of them.
SearchCorrect == TypeOK /\ BreadthOrder /\ Complete
=============================================================================
