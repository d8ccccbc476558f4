------------------------------- MODULE OxgAlgo -------------------------------
(***************************************************************************)
(* The other algorithms of oxgraph-algo, each as the loop the code runs:   *)
(* Tarjan's components with an explicit work stack, topological sort,      *)
(* weak components by union-find, hop distances, the longest path of a     *)
(* DAG, and PageRank over a workspace that later calls reuse.  A graph is  *)
(* the row of successors of every node; elements may repeat and may name   *)
(* ids the graph does not have.                                            *)
(***************************************************************************)
EXTENDS OxgPageRank, FiniteSets

CONSTANTS
  Nodes,          \* 0 .. bound-1
  GraphSet,       \* the graphs of a run: [rows, weights, kind, n]
  HyperSet,       \* the hypergraphs of a run
  ElementLists,   \* the element lists a call may be given
  MaxIterations,  \* bound: power iterations of a PageRank call
  MaxCalls        \* bound: PageRank calls over one workspace

\* The nodes are the indices below the bound, and rows lie inside the graph.
ASSUME AlgoAssumption ==
  /\ Cardinality(Nodes) \in Nat /\ Nodes = 0..(Cardinality(Nodes) - 1)
  /\ \A g \in GraphSet : g.rows \in [Nodes -> Seq(Nodes)]
  /\ ElementLists \subseteq Seq(Nat)

VARIABLES
  algo,      \* the algorithm that runs
  graph,     \* the topology it runs over
  elements,  \* the elements of the call
  st,        \* the algorithm's local state
  pc,        \* "start", "run", "path" or "done"
  scratch,   \* the PageRank workspace
  calls      \* PageRank calls made

vars == <<algo, graph, elements, st, pc, scratch, calls>>

Searches == {"scc", "toposort", "components", "sssp", "longest"}
Bound == Cardinality(Nodes)
UNVISITED == Bound   \* above every discovery index
NoNode == Bound      \* not a node
Rounds == [k \in 1..Bound |-> k]

Member == {n \in Nodes : n \in Range(elements)}
\* The elements of the graph, each where it first occurs.
DedupNodes ==
  Loop(LAMBDA acc, e : IF e \in Nodes /\ e \notin Range(acc) THEN Append(acc, e) ELSE acc,
           <<>>, elements)
\* The elements of a sequence that are in S, in order.
Kept(S, seq) == Loop(LAMBDA kept, x : IF x \in S THEN Append(kept, x) ELSE kept, <<>>, seq)
member_successors(n) == Kept(Member, graph.rows[n])

Init ==
  /\ \/ algo \in Searches /\ graph \in GraphSet
     \/ algo = "pagerank" /\ graph \in GraphSet \cup HyperSet
  /\ elements \in ElementLists
  /\ st = <<>> /\ pc = "start" /\ scratch = Buffers(0) /\ calls = 0

Running(a) == pc = "run" /\ algo = a
Become(s) == st' = s /\ UNCHANGED <<algo, graph, elements, scratch, calls>>

-----------------------------------------------------------------------------
(* Strongly connected components *)

SccBegin ==
  /\ pc = "start" /\ algo = "scc" /\ pc' = "run"
  /\ Become([order |-> [n \in Nodes |-> UNVISITED], low |-> [n \in Nodes |-> 0],
             on |-> [n \in Nodes |-> FALSE], stack |-> <<>>, components |-> <<>>, counter |-> 0,
             work |-> <<>>])

\* The state after a node is found: numbered, stacked, with a frame of its successors.
discover(s, n) ==
  [s EXCEPT !.order[n] = s.counter, !.low[n] = s.counter, !.counter = @ + 1, !.on[n] = TRUE,
            !.stack = Append(@, n),
            !.work = Append(@, [node |-> n, successors |-> member_successors(n), position |-> 1])]

SccVisit ==
  /\ Running("scc") /\ st.work = <<>>
  /\ LET open == SelectSeq(DedupNodes, LAMBDA n : st.order[n] = UNVISITED) IN
       IF open = <<>> THEN pc' = "done" /\ Become(st) ELSE pc' = pc /\ Become(discover(st, open[1]))

Top == Last(st.work)

\* Mutant: the frame moves on only when it finds a new node.
SccAdvance_NoMove ==
  /\ Running("scc") /\ st.work # <<>> /\ Top.position <= Len(Top.successors)
  /\ pc' = pc
  /\ LET t == Top.successors[Top.position] IN
       Become(IF st.order[t] = UNVISITED
              THEN discover([st EXCEPT !.work[Len(st.work)].position = @ + 1], t) ELSE st)

SccAdvance ==
  /\ Running("scc") /\ st.work # <<>> /\ Top.position <= Len(Top.successors)
  /\ pc' = pc
  /\ LET n == Top.node
         t == Top.successors[Top.position]
         moved == [st EXCEPT !.work[Len(st.work)].position = @ + 1]
     IN  Become(IF st.order[t] = UNVISITED THEN discover(moved, t)
                ELSE IF st.on[t] /\ st.order[t] < st.low[n] THEN [moved EXCEPT !.low[n] = st.order[t]]
                ELSE moved)

\* Mutant: the members stay marked.
pop_component_MarksStay(s, root) ==
  LET at == CHOOSE i \in DOMAIN s.stack : s.stack[i] = root IN
    [s EXCEPT !.stack = SubSeq(@, 1, at - 1),
              !.components = Append(@, Reverse(SubSeq(s.stack, at, Len(s.stack))))]

\* The members above and including the root leave the stack, last first.
pop_component(s, root) ==
  LET at == CHOOSE i \in DOMAIN s.stack : s.stack[i] = root
      component == Reverse(SubSeq(s.stack, at, Len(s.stack)))
  IN  [s EXCEPT !.stack = SubSeq(@, 1, at - 1), !.components = Append(@, component),
                !.on = [n \in Nodes |-> @[n] /\ n \notin Range(component)]]

\* Mutant: a finished node does not lower its parent.
SccFinish_NoPropagate ==
  /\ Running("scc") /\ st.work # <<>> /\ Top.position > Len(Top.successors)
  /\ pc' = pc
  /\ LET n == Top.node
         popped == IF st.low[n] = st.order[n] THEN pop_component(st, n) ELSE st
     IN  Become([popped EXCEPT !.work = Front(st.work)])

SccFinish ==
  /\ Running("scc") /\ st.work # <<>> /\ Top.position > Len(Top.successors)
  /\ pc' = pc
  /\ LET n == Top.node
         popped == IF st.low[n] = st.order[n] THEN pop_component(st, n) ELSE st
         rest == Front(st.work)
     IN  Become(IF rest = <<>> \/ st.low[n] >= st.low[Last(rest).node] THEN [popped EXCEPT !.work = rest]
                ELSE [popped EXCEPT !.work = rest, !.low[Last(rest).node] = st.low[n]])

-----------------------------------------------------------------------------
(* Topological sort and the longest path, which begins with it *)

\* The entries of the elements' rows: an element and a position.
Entries == UNION {{m} \X DOMAIN graph.rows[m] : m \in Member}

\* Mutant: the rows of elements outside the call count too.
Indegree_NotInduced(n) ==
  Cardinality({p \in UNION {{m} \X DOMAIN graph.rows[m] : m \in Nodes} : graph.rows[p[1]][p[2]] = n})

Indegree(n) == Cardinality({p \in Entries : graph.rows[p[1]][p[2]] = n})

ToposortBegin ==
  /\ pc = "start" /\ algo \in {"toposort", "longest"} /\ pc' = "run"
  /\ Become([indegree |-> [n \in Nodes |-> IF n \in Member THEN Indegree(n) ELSE 0],
             queue |-> Kept({n \in Member : Indegree(n) = 0}, DedupNodes), order |-> <<>>,
             err |-> "Ok", at |-> 1, lengths |-> [n \in Nodes |-> 0],
             predecessor |-> [n \in Nodes |-> NoNode], best_end |-> NoNode, best_length |-> 0,
             path |-> <<>>, cursor |-> NoNode])

\* A successor among the elements loses a predecessor and joins the queue at none.
Release(acc, t) ==
  IF t \notin Member THEN acc
  ELSE [acc EXCEPT !.indegree[t] = @ - 1, !.queue = IF acc.indegree[t] = 1 THEN Append(@, t) ELSE @]

ReleaseAll(s, row) == Loop(Release, s, row)

ToposortPop ==
  /\ pc = "run" /\ algo \in {"toposort", "longest"} /\ st.queue # <<>>
  /\ pc' = pc
  /\ LET n == st.queue[1] IN
       Become(ReleaseAll([st EXCEPT !.queue = Tail(@), !.order = Append(@, n)], graph.rows[n]))

ToposortEnd ==
  /\ pc = "run" /\ algo \in {"toposort", "longest"} /\ st.queue = <<>>
  /\ LET whole == Len(st.order) = Len(DedupNodes) IN
       /\ pc' = IF whole /\ algo = "longest" /\ st.order # <<>> THEN "path" ELSE "done"
       /\ Become([st EXCEPT !.err = IF whole THEN "Ok" ELSE "Cycle"])

\* Relaxes every successor, members or not: only members are ever taken from the order.
Relax(acc, n, length, t) ==
  IF acc.lengths[t] < length THEN [acc EXCEPT !.lengths[t] = length, !.predecessor[t] = n] ELSE acc

RelaxAll(s, n, length, row) == Loop(LAMBDA acc, t : Relax(acc, n, length, t), s, row)

LongestNode ==
  /\ pc = "path" /\ st.at <= Len(st.order)
  /\ pc' = pc
  /\ LET n == st.order[st.at]
         better == st.best_end = NoNode \/ st.lengths[n] > st.best_length
     IN  Become(RelaxAll([st EXCEPT !.at = @ + 1,
                                    !.best_end = IF better THEN n ELSE @,
                                    !.best_length = IF better THEN st.lengths[n] ELSE @,
                                    !.cursor = IF better THEN n ELSE @],
                         n, st.lengths[n] + 1, graph.rows[n]))

\* Mutant: the path is given from its end.
LongestPath_Backwards ==
  /\ pc = "path" /\ st.at > Len(st.order)
  /\ pc' = IF st.cursor = NoNode THEN "done" ELSE pc
  /\ Become(IF st.cursor = NoNode THEN st
            ELSE [st EXCEPT !.path = Append(@, st.cursor), !.cursor = st.predecessor[st.cursor]])

LongestPath ==
  /\ pc = "path" /\ st.at > Len(st.order)
  /\ pc' = IF st.cursor = NoNode THEN "done" ELSE pc
  /\ Become(IF st.cursor = NoNode THEN st
            ELSE [st EXCEPT !.path = <<st.cursor>> \o @, !.cursor = st.predecessor[st.cursor]])

-----------------------------------------------------------------------------
(* Weak components and hop distances *)

ComponentsBegin ==
  /\ pc = "start" /\ algo = "components" /\ pc' = "run"
  /\ Become([parent |-> [n \in Nodes |-> n], rank |-> [n \in Nodes |-> 0], at |-> 1, groups |-> <<>>])

\* Path halving: the root, and the parents as the walk leaves them.
find(parent, cursor) ==
  LET Halve(w, k) ==
        LET up == w.parent[w.parent[w.cursor]] IN
          IF w.parent[w.cursor] = w.cursor THEN w
          ELSE [parent |-> [w.parent EXCEPT ![w.cursor] = up], cursor |-> up]
  IN  Loop(Halve, [parent |-> parent, cursor |-> cursor], Rounds)

\* Mutant: the nodes themselves are joined, not their roots.
union_Leaves(s, left, right) ==
  [s EXCEPT !.parent[right] = left]

union(s, left, right) ==
  LET l == find(s.parent, left)
      r == find(l.parent, right)
  IN  CASE l.cursor = r.cursor -> [s EXCEPT !.parent = r.parent]
        [] s.rank[l.cursor] < s.rank[r.cursor] ->
             [s EXCEPT !.parent = [r.parent EXCEPT ![l.cursor] = r.cursor]]
        [] s.rank[l.cursor] > s.rank[r.cursor] ->
             [s EXCEPT !.parent = [r.parent EXCEPT ![r.cursor] = l.cursor]]
        [] OTHER -> [s EXCEPT !.parent = [r.parent EXCEPT ![r.cursor] = l.cursor],
                              !.rank[l.cursor] = @ + 1]

ComponentsNode ==
  /\ Running("components") /\ st.at <= Len(DedupNodes)
  /\ pc' = pc
  /\ LET n == DedupNodes[st.at] IN
       Become([Loop(LAMBDA acc, t : union(acc, n, t), st, member_successors(n)) EXCEPT !.at = @ + 1])

\* Groups by root, in ascending order of the roots.
ComponentsEnd ==
  /\ Running("components") /\ st.at > Len(DedupNodes)
  /\ pc' = "done"
  /\ LET Root(n) == find(st.parent, n).cursor
         roots == SelectSeq([i \in 1..Bound |-> i - 1], LAMBDA r : \E n \in Member : Root(n) = r)
     IN  Become([st EXCEPT !.groups = [i \in DOMAIN roots |->
                                         SelectSeq(DedupNodes, LAMBDA n : Root(n) = roots[i])]])

\* The source may be any node, among the elements or not, and an id the graph does not have.
SsspBegin ==
  /\ pc = "start" /\ algo = "sssp"
  /\ \E source \in 0..Bound :
       IF source \in Member
       THEN /\ pc' = "run"
            /\ Become([source |-> source, visited |-> {source}, queue |-> <<<<source, 0>>>>, distances |-> <<>>])
       ELSE /\ pc' = "done"
            /\ Become([source |-> source, visited |-> {}, queue |-> <<>>, distances |-> <<>>])

\* Mutant: a node is marked when it is taken, not when it is queued.
Visit_LateMark(acc, t, distance) ==
  LET taken == {acc.distances[i][1] : i \in DOMAIN acc.distances} IN
    IF t \notin Member \ taken THEN acc ELSE [acc EXCEPT !.queue = Append(@, <<t, distance>>)]

\* A successor among the elements that was not met is marked and queued.
Visit(acc, t, distance) ==
  IF t \notin Member \ acc.visited THEN acc
  ELSE [acc EXCEPT !.visited = @ \cup {t}, !.queue = Append(@, <<t, distance>>)]

VisitAll(s, distance, row) == Loop(LAMBDA acc, t : Visit(acc, t, distance), s, row)

SsspPop ==
  /\ Running("sssp")
  /\ IF st.queue = <<>> THEN pc' = "done" /\ Become(st)
     ELSE LET n == st.queue[1][1]
              d == st.queue[1][2]
          IN  /\ pc' = pc
              /\ Become(VisitAll([st EXCEPT !.queue = Tail(@), !.distances = Append(@, <<n, d>>)],
                                 d + 1, graph.rows[n]))

-----------------------------------------------------------------------------
(* PageRank.  A hypergraph call ranks the elements given and all relations.  *)

StateBound == IF graph.kind = "graph" THEN Bound ELSE graph.n + graph.m
States == IF graph.kind = "graph" THEN elements
          ELSE SelectSeq(elements, LAMBDA e : e < graph.n)
               \o [i \in 1..graph.m |-> graph.n + i - 1]
Ones == [i \in 0..(StateBound - 1) |-> 1]
First == [i \in 0..(StateBound - 1) |-> IF i = 0 THEN 2 ELSE 0]

PageRankBegin ==
  /\ pc = "start" /\ algo = "pagerank"
  /\ \E personalization \in {Ones, First}, uniform \in BOOLEAN, tolerance \in {0, Scale} :
       /\ validate_config([damping_num |-> 1, damping_den |-> 2, tolerance |-> tolerance,
                           max_iterations |-> MaxIterations])
       /\ \E built \in {build_personalization_into(ensure_bounds(scratch, StateBound), States,
                                                   StateBound, personalization)} :
              /\ scratch' = built.scratch
              /\ pc' = IF built.err = "Ok" THEN "run" ELSE "done"
              /\ st' = [err |-> built.err, sum |-> built.sum, iteration |-> 0, delta |-> 0,
                        uniform |-> uniform, tolerance |-> tolerance, converged |-> FALSE,
                        ranks |-> IF built.err = "Ok"
                                  THEN initialize_ranks([i \in 0..(StateBound - 1) |-> 0], States,
                                                        built.scratch, built.sum, StateBound)
                                  ELSE [i \in 0..(StateBound - 1) |-> 0]]
  /\ calls' = calls + 1
  /\ UNCHANGED <<algo, graph, elements>>

PageRankIterate ==
  /\ Running("pagerank") /\ st.iteration < MaxIterations
  /\ \E given \in {distribute_all(graph, States, StateBound, st.uniform, scratch, st.ranks)} :
       IF given.err # "Ok" THEN pc' = "done" /\ Become([st EXCEPT !.err = given.err])
       ELSE \E new \in {apply_teleport(States, st.ranks, given.val.next, given.val.dangling, scratch, st.sum)} :
              \E delta \in {Delta(States, st.ranks, new)} :
                /\ pc' = IF delta <= st.tolerance THEN "done" ELSE pc
                /\ Become([st EXCEPT !.ranks = new, !.delta = delta, !.iteration = @ + 1,
                                     !.converged = delta <= st.tolerance])

PageRankGivesUp ==
  /\ Running("pagerank") /\ st.iteration = MaxIterations
  /\ pc' = "done"
  /\ Become([st EXCEPT !.err = "NonConverged"])

\* The next call over the same workspace, with other elements of the same topology.
PageRankAgain ==
  /\ pc = "done" /\ algo = "pagerank" /\ calls < MaxCalls
  /\ pc' = "start" /\ st' = <<>>
  /\ elements' \in ElementLists \ {elements}
  /\ UNCHANGED <<algo, graph, scratch, calls>>

Next ==
  \/ SccBegin \/ SccVisit \/ SccAdvance \/ SccFinish
  \/ ToposortBegin \/ ToposortPop \/ ToposortEnd \/ LongestNode \/ LongestPath
  \/ ComponentsBegin \/ ComponentsNode \/ ComponentsEnd
  \/ SsspBegin \/ SsspPop
  \/ PageRankBegin \/ PageRankIterate \/ PageRankGivesUp \/ PageRankAgain

\* The loops run to their end in the caller's thread.
Spec == Init /\ [][Next]_vars /\ WF_vars(Next)

-----------------------------------------------------------------------------
(* Properties *)

Edges == {e \in Member \X Member : e[2] \in Range(graph.rows[e[1]])}
\* The pairs a relation links by at least one step.
Further(R, acc) ==
  acc \cup {p \in Nodes \X Nodes : \E m \in Nodes : <<p[1], m>> \in acc /\ <<m, p[2]>> \in R}
Closure(R) == Loop(LAMBDA acc, k : Further(R, acc), R, Rounds)
Reach == Closure(Edges)
Cyclic == \E n \in Member : <<n, n>> \in Reach
\* The nodes that chains of k nodes lead on to, and the length of the longest up to there.
Longer(acc, k) ==
  [ends |-> {e[2] : e \in {x \in Edges : x[1] \in acc.ends}}, length |-> IF acc.ends = {} THEN acc.length ELSE k]
\* The nodes of a longest chain of the elements.
ChainLength == Loop(Longer, [ends |-> Member, length |-> 0], Rounds).length
Done(a) == pc = "done" /\ algo = a

\* While Tarjan's loop runs, the marks are the stack, the frames are a path on it, and no
\* node's low link leaves the stack below its own component (TarjanScratch).
StackConsistent ==
  algo = "scc" /\ pc # "start" =>
    /\ \A n \in Nodes : st.on[n] <=> n \in Range(st.stack)
    /\ IsInjective(st.stack)
    /\ \A i \in DOMAIN st.work : st.work[i].node \in Range(st.stack)
    /\ \A n \in Range(st.stack) : st.low[n] <= st.order[n]
    /\ \A i \in 2..Len(st.work) : <<st.work[i - 1].node, st.work[i].node>> \in Edges

\* The components partition the elements, two share one exactly when each reaches the
\* other inside the elements, and a component is completed after those it leads to.
SccCorrect ==
  Done("scc") =>
    LET In(n) == {i \in DOMAIN st.components : n \in Range(st.components[i])} IN
      /\ \A n \in Member : Cardinality(In(n)) = 1
      /\ UNION {Range(st.components[i]) : i \in DOMAIN st.components} = Member
      /\ \A m, n \in Member : m # n => (In(m) = In(n) <=> {<<m, n>>, <<n, m>>} \subseteq Reach)
      /\ \A e \in Edges : \A i \in In(e[1]), j \in In(e[2]) : j <= i

\* A topological order lists every element once and no edge backwards; it is refused
\* exactly when the elements induce a cycle, a self-loop included.
ToposortCorrect ==
  pc \in {"path", "done"} /\ algo \in {"toposort", "longest"} =>
    /\ st.err = "Cycle" <=> Cyclic
    /\ st.err = "Ok" =>
         /\ IsInjective(st.order) /\ Range(st.order) = Member
         /\ \A i, j \in DOMAIN st.order : <<st.order[i], st.order[j]>> \in Edges => i < j

\* The longest path is a chain of the elements, and no chain of them is longer.
LongestCorrect ==
  Done("longest") /\ st.err = "Ok" =>
    /\ Range(st.path) \subseteq Member
    /\ \A i \in 2..Len(st.path) : <<st.path[i - 1], st.path[i]>> \in Edges
    /\ Len(st.path) = ChainLength

\* Two elements are in one weak component exactly when edges, in either direction, join
\* them inside the elements; members keep the order of the input.
ComponentsCorrect ==
  Done("components") =>
    LET joined == Closure({<<n, n>> : n \in Member} \cup Edges \cup {<<e[2], e[1]>> : e \in Edges})
    IN  /\ Range(FlattenSeq(st.groups)) = Member
        /\ IsInjective(FlattenSeq(st.groups))
        /\ \A m, n \in Member :
             (\E i \in DOMAIN st.groups : {m, n} \subseteq Range(st.groups[i])) <=> <<m, n>> \in joined

\* Every element the source reaches is reported once, at its least number of hops, and
\* reports never come closer again.
SsspCorrect ==
  Done("sssp") =>
    LET source == st.source
        reached == IF source \in Member THEN {source} \cup {n \in Member : <<source, n>> \in Reach} ELSE {}
        At(n) == {st.distances[i][2] : i \in {j \in DOMAIN st.distances : st.distances[j][1] = n}}
    IN  /\ {st.distances[i][1] : i \in DOMAIN st.distances} = reached
        /\ Len(st.distances) = Cardinality(reached)
        /\ source \in reached => At(source) = {0}
        /\ \A n \in reached \ {source} :
             At(n) = {1 + Min(UNION {At(m) : m \in {m \in reached : <<m, n>> \in Edges}})}
        /\ \A i \in 2..Len(st.distances) : st.distances[i - 1][2] <= st.distances[i][2]

\* Rank is neither made nor lost: after every iteration the ranks of the states sum to
\* one, and a state that takes no part has none, whatever an earlier call left behind.
RankConserved ==
  algo = "pagerank" /\ pc # "start" /\ st.err \in {"Ok", "NonConverged"} =>
    /\ SumOver(st.ranks, DOMAIN st.ranks) = Scale
    /\ \A i \in DOMAIN st.ranks : st.ranks[i] >= 0
    /\ \A i \in DOMAIN st.ranks \ Range(States) : st.ranks[i] = 0

\* Exactly the states of the call are visible, over a workspace an earlier call, finished
\* or refused half-way, has used.
VisibleIsStates ==
  algo = "pagerank" /\ pc = "run" =>
    \A i \in 0..(StateBound - 1) : is_visible(scratch, i) <=> i \in Range(States)

\* Every call returns.
Returns == []<>(pc = "done")

\* Strong and weak components are those that reachability defines, and Tarjan's stacks stay
\* consistent on the way.
PartitionsCorrect == StackConsistent /\ SccCorrect /\ ComponentsCorrect

\* Orders, distances and longest paths are those that the edges between the elements define.
PathsCorrect == ToposortCorrect /\ LongestCorrect /\ SsspCorrect

\* A reused workspace carries nothing over: only the states of the call are visible and the
\* rank among them stays one.
RankSound == RankConserved /\ VisibleIsStates
=============================================================================
