---------------------------- MODULE OxgBfs_proofs ----------------------------
(***************************************************************************)
(* Proofs about OxgBfs, for every family of graphs, seed sets, bounds and   *)
(* epoch width: type correctness; what makes the unchecked accesses of a    *)
(* search safe, namely that marks mean "met by this search" and that the    *)
(* queue never outgrows its slice; and what a search reports, in which      *)
(* order and how completely.                                                *)
(***************************************************************************)
EXTENDS OxgBfs, FiniteSetTheorems, SequenceTheorems, OxgInduction, TLAPS

-----------------------------------------------------------------------------
(* Facts about the helpers *)

\* Pushing adds exactly one element.
LEMMA ElementsAppend ==
  ASSUME NEW s \in Seq(Node), NEW e \in Node
  PROVE  /\ Append(s, e) \in Seq(Node)
         /\ Len(Append(s, e)) = Len(s) + 1
         /\ Append(s, e)[Len(s) + 1] = e
         /\ \A i \in 1 .. Len(s) : Append(s, e)[i] = s[i]
         /\ Elements(Append(s, e)) = Elements(s) \cup {e}
<1>1. /\ Append(s, e) \in Seq(Node)
      /\ Len(Append(s, e)) = Len(s) + 1
      /\ Append(s, e)[Len(s) + 1] = e
      /\ \A i \in 1 .. Len(s) : Append(s, e)[i] = s[i]
  BY AppendProperties
<1>2. Elements(Append(s, e)) = Elements(s) \cup {e}
  <2>1. 1 .. Len(Append(s, e)) = (1 .. Len(s)) \cup {Len(s) + 1}
    BY <1>1
  <2>. QED  BY <1>1, <2>1 DEF Elements
<1>. QED  BY <1>1, <1>2

\* A row of a view stays inside the view.
LEMMA RowsInside ==
  ASSUME NEW g \in Views, NEW dir, NEW e
  PROVE  /\ Rows(g, dir, e).first \subseteq Index(g)
         /\ Rows(g, dir, e).second \subseteq Index(g)
         /\ Rows(g, dir, e) \in [first : SUBSET Node, second : SUBSET Node]
         /\ Index(g) \subseteq Node
BY NAssumption, ViewAssumption DEF Rows, Successors, Predecessors, Index, Node

\* A queue of distinct elements of a view is no longer than the view's bound.
LEMMA DistinctFits ==
  ASSUME NEW b \in Nat, NEW s \in Seq(Node),
         \A i \in 1 .. Len(s) : s[i] \in 0 .. b - 1,
         \A i, j \in 1 .. Len(s) : s[i] = s[j] => i = j
  PROVE  Len(s) <= b
<1>0. Len(s) \in Nat
  BY LenProperties
<1>1. Len(s) \in Nat /\ s \in [1 .. Len(s) -> Node]
  BY LenProperties
<1>2. s \in Injection(1 .. Len(s), 0 .. b - 1)
  BY <1>1 DEF Injection, IsInjective
<1>3. IsFiniteSet(0 .. b - 1) /\ Cardinality(0 .. b - 1) = b
  BY FS_Interval
<1>4. Cardinality(1 .. Len(s)) = Len(s)
  <2>1. PICK n \in Nat : n = Len(s)
    BY ONLY <1>0
  <2>2. Cardinality(1 .. n) = IF 1 > n THEN 0 ELSE n - 1 + 1
    BY ONLY n \in Nat, FS_Interval, SMTT(60)
  <2>3. Cardinality(1 .. n) = n
    BY ONLY n \in Nat, <2>2
  <2>. QED  BY ONLY <2>1, <2>3
<1>5. Cardinality(1 .. Len(s)) <= Cardinality(0 .. b - 1)
  BY <1>2, <1>3, FS_Injection
<1>. QED  BY <1>3, <1>4, <1>5

-----------------------------------------------------------------------------
(* The invariant *)

\* No search of the past or the present used an epoch above the current one,
\* so an advanced epoch is fresh.
MarksOld == \A i \in DOMAIN marks : marks[i] <= epoch

\* The queue holds distinct elements of the view.
QueueDistinct ==
    /\ \A i \in 1 .. Len(queue) : queue[i] \in Index(graph)
    /\ \A i, j \in 1 .. Len(queue) : queue[i] = queue[j] => i = j

\* What is left to walk can be looked up in the marks.
RowsValid ==
    /\ phase = "idle" => queue = << >>
    /\ phase # "idle" => Index(graph) \subseteq DOMAIN marks
    /\ phase = "expand" => rows.first \subseteq Index(graph) /\ rows.second \subseteq Index(graph)

IInv == TypeOK /\ MarksOld /\ QueueDistinct /\ RowsValid /\ MarkedIsQueued

\* A new scratch: no marks, nothing queued.
LEMMA InitInv == Init => IInv
<1>. SUFFICES ASSUME Init PROVE IInv
  OBVIOUS
<1>1. PICK cap \in {g.bound : g \in Views} \cup {0} : marks = [i \in 0 .. cap - 1 |-> 0]
  BY DEF Init
<1>2. cap \in 0 .. N
  BY <1>1, NAssumption, ViewAssumption
<1>3. marks \in [0 .. cap - 1 -> 0 .. EpochMax]
  BY <1>1, EpochAssumption
<1>4. TypeOK
  <2>1. marks \in MarkTable
    BY <1>2, <1>3 DEF MarkTable
  <2>. QED  BY <2>1, EpochAssumption DEF Init, TypeOK, NoRows, NoCall
<1>. QED  BY <1>1, <1>4, EpochAssumption
            DEF Init, IInv, MarksOld, QueueDistinct, RowsValid, MarkedIsQueued

-----------------------------------------------------------------------------
(* One step *)

\* An advanced epoch is above every mark: nothing counts as met yet.
LEMMA AdvanceFresh ==
  ASSUME NEW cap \in Nat, NEW m \in [0 .. cap - 1 -> 0 .. EpochMax],
         NEW e \in 0 .. EpochMax, \A i \in DOMAIN m : m[i] <= e
  PROVE  /\ Advance(m, e).marks \in [0 .. cap - 1 -> 0 .. EpochMax]
         /\ Advance(m, e).epoch \in 1 .. EpochMax
         /\ \A i \in 0 .. cap - 1 : Advance(m, e).marks[i] < Advance(m, e).epoch
BY EpochAssumption DEF Advance

\* A grown workspace holds a graph's indices, and new cells are unmarked.
LEMMA GrownHolds ==
  ASSUME NEW cap \in 0 .. N, NEW m \in [0 .. cap - 1 -> 0 .. EpochMax],
         NEW b \in 1 .. N, NEW n, n = IF b <= cap THEN cap ELSE b
  PROVE  /\ n \in 0 .. N /\ 0 .. b - 1 \subseteq 0 .. n - 1
         /\ Grown(m, b) \in [0 .. n - 1 -> 0 .. EpochMax]
         /\ \A i \in 0 .. n - 1 : Grown(m, b)[i] = 0 \/ (i \in DOMAIN m /\ Grown(m, b)[i] = m[i])
<1>1. n \in 0 .. N /\ 0 .. b - 1 \subseteq 0 .. n - 1
  BY NAssumption
<1>2. (0 .. cap - 1) \cup (0 .. b - 1) = 0 .. n - 1
  BY NAssumption
<1>3. Grown(m, b) = [i \in 0 .. n - 1 |-> IF i \in DOMAIN m THEN m[i] ELSE 0]
  BY <1>2 DEF Grown
<1>. QED  BY <1>1, <1>3, EpochAssumption

\* Meeting an element of the view keeps everything the invariant says.
LEMMA VisitInv ==
  ASSUME IInv, phase \in {"seed", "expand"}, NEW e \in Index(graph),
         NEW report, NEW d \in Nat, Visit(e, report, d),
         UNCHANGED <<storage, epoch, head, wave_end, depth, graph, call>>,
         rows' \in [first : SUBSET rows.first, second : SUBSET rows.second]
  PROVE  IInv'
<1>0. /\ e \in Node /\ e \in DOMAIN marks /\ graph \in Views
      /\ queue \in Seq(Node) /\ Len(queue) \in Nat
      /\ out \in Seq(Node) /\ depths \in Seq(Nat)
      /\ phase # "idle"
  <2>1. graph \in Views /\ phase # "idle"
    BY DEF IInv, TypeOK
  <2>2. e \in Node
    BY <2>1, RowsInside
  <2>3. queue \in Seq(Node) /\ out \in Seq(Node) /\ depths \in Seq(Nat)
    BY DEF IInv, TypeOK
  <2>4. e \in DOMAIN marks
    BY <2>1 DEF IInv, RowsValid
  <2>. QED  BY <2>1, <2>2, <2>3, <2>4, LenProperties
<1>r. /\ rows' \in [first : SUBSET Node, second : SUBSET Node]
      /\ rows'.first \subseteq rows.first /\ rows'.second \subseteq rows.second
  BY DEF IInv, TypeOK
<1>1. CASE marks[e] = epoch
  <2>1. UNCHANGED <<marks, queue, phase, out, depths>>
    BY <1>1 DEF Visit
  <2>2. TypeOK'
    BY <1>r, <2>1 DEF IInv, TypeOK
  <2>. QED  BY <1>r, <2>1, <2>2
              DEF IInv, MarksOld, QueueDistinct, RowsValid, MarkedIsQueued, Index, Elements
<1>2. CASE marks[e] # epoch
  <2>1. /\ marks' = [marks EXCEPT ![e] = epoch]
        /\ queue' = Append(queue, e)
        /\ out' \in Seq(Node) /\ depths' \in Seq(Nat)
        /\ phase' \in {phase, "stopped"}
    <3>1. /\ marks' = [marks EXCEPT ![e] = epoch]
          /\ queue' = Append(queue, e)
          /\ IF report THEN Emit(e, d) ELSE UNCHANGED <<phase, out, depths>>
      BY <1>2 DEF Visit
    <3>2. CASE report
      <4>1. out' = Append(out, e) /\ depths' = Append(depths, d) /\ phase' \in {phase, "stopped"}
        BY <3>1, <3>2 DEF Emit
      <4>. QED  BY <1>0, <3>1, <4>1, AppendProperties
    <3>3. CASE ~report
      BY <1>0, <3>1, <3>3
    <3>. QED  BY <3>2, <3>3
  <2>2. /\ queue' \in Seq(Node) /\ Len(queue') = Len(queue) + 1
        /\ queue'[Len(queue) + 1] = e
        /\ \A i \in 1 .. Len(queue) : queue'[i] = queue[i]
        /\ Elements(queue') = Elements(queue) \cup {e}
    BY <1>0, <2>1, ElementsAppend
  <2>3. TypeOK'
    <3>1. PICK cap \in 0 .. N : marks \in [0 .. cap - 1 -> 0 .. EpochMax]
      BY DEF IInv, TypeOK, MarkTable
    <3>2. marks' \in MarkTable
      BY <2>1, <3>1 DEF IInv, TypeOK, MarkTable
    <3>3. head' \in 0 .. Len(queue') /\ wave_end' \in 0 .. Len(queue')
      BY <1>0, <2>2 DEF IInv, TypeOK
    <3>. QED  BY <1>r, <2>1, <2>2, <3>1, <3>2, <3>3 DEF IInv, TypeOK
  <2>4. MarksOld'
    BY <1>0, <2>1 DEF IInv, TypeOK, MarksOld
  <2>5. e \notin Elements(queue)
    BY <1>0, <1>2 DEF IInv, MarkedIsQueued
  <2>6. QueueDistinct'
    <3>1. 1 .. Len(queue') = (1 .. Len(queue)) \cup {Len(queue) + 1}
      BY <1>0, <2>2
    <3>2. \A i \in 1 .. Len(queue) : queue[i] # e
      BY <2>5 DEF Elements
    <3>. QED  BY <1>0, <2>2, <3>1, <3>2 DEF IInv, QueueDistinct, Index
  <2>7. RowsValid'
    BY <1>0, <1>r, <2>1 DEF IInv, RowsValid, Index
  <2>8. MarkedIsQueued'
    BY <1>0, <2>1, <2>2 DEF IInv, MarkedIsQueued
  <2>. QED  BY <2>3, <2>4, <2>6, <2>7, <2>8 DEF IInv
<1>. QED  BY <1>1, <1>2

\* Starting either kind of search.
LEMMA StartInv ==
  ASSUME IInv, Start
  PROVE  IInv'
<1>1. PICK g \in Views, c \in Call : StartBounded(g, c) \/ StartIter(g, c)
  BY DEF Start
<1>2. PICK cap \in 0 .. N : marks \in [0 .. cap - 1 -> 0 .. EpochMax]
  BY DEF IInv, TypeOK, MarkTable
<1>3. phase = "idle" /\ queue = << >> /\ epoch \in 0 .. EpochMax
  BY DEF Start, IInv, TypeOK, RowsValid
<1>4. \A i \in DOMAIN marks : marks[i] <= epoch
  BY DEF IInv, MarksOld
<1>5. /\ g.bound \in 1 .. N /\ Index(g) \subseteq Node
      /\ graph' = g /\ call' = c
      /\ UNCHANGED <<storage, head, wave_end, depth, out, depths>>
  BY <1>1, ViewAssumption, RowsInside DEF StartBounded, StartIter, Fresh
<1>6. CASE StartBounded(g, c)
  <2>1. /\ Index(g) \subseteq DOMAIN marks
        /\ marks' = Advance(marks, epoch).marks
        /\ epoch' = Advance(marks, epoch).epoch
        /\ phase' = "seed" /\ queue' = << >>
        /\ rows' = [NoRows EXCEPT !.first = c.seeds]
        /\ c.kind = "bounded"
    BY <1>3, <1>6 DEF StartBounded
  <2>2. /\ marks' \in [0 .. cap - 1 -> 0 .. EpochMax]
        /\ epoch' \in 1 .. EpochMax
        /\ \A i \in 0 .. cap - 1 : marks'[i] < epoch'
    <3>1. cap \in Nat
      BY NAssumption
    <3>. QED  BY <1>2, <1>3, <1>4, <2>1, <3>1, AdvanceFresh
  <2>3. rows' \in [first : SUBSET Node, second : SUBSET Node]
    <3>1. c.seeds \subseteq Node
      BY ArgAssumption DEF Call, Node
    <3>. QED  BY <2>1, <3>1 DEF NoRows
  <2>4. TypeOK'
    <3>1. marks' \in MarkTable
      BY <2>2 DEF MarkTable
    <3>2. queue' \in Seq(Node) /\ queue' = queue /\ epoch' \in 0 .. EpochMax
      BY <1>3, <2>1, <2>2, EpochAssumption
    <3>. QED  BY <1>5, <2>1, <2>3, <3>1, <3>2 DEF IInv, TypeOK
  <2>5. MarksOld'
    BY <2>2, EpochAssumption DEF MarksOld
  <2>6. Len(queue') = 0 /\ Elements(queue') = {}
    BY <2>1 DEF Elements
  <2>7. QueueDistinct'
    BY <2>6 DEF QueueDistinct
  <2>8. RowsValid'
    <3>1. DOMAIN marks' = DOMAIN marks
      BY <1>2, <2>2
    <3>. QED  BY <1>5, <2>1, <3>1 DEF RowsValid
  <2>9. MarkedIsQueued'
    <3>1. \A i \in DOMAIN marks' : marks'[i] # epoch'
      BY <2>2, EpochAssumption
    <3>. QED  BY <2>6, <3>1 DEF MarkedIsQueued
  <2>. QED  BY <2>4, <2>5, <2>7, <2>8, <2>9 DEF IInv
<1>7. CASE StartIter(g, c)
  <2>. DEFINE m == Grown(marks, g.bound)
              a == Advance(m, epoch)
  <2>1. PICK start \in Index(g) :
          /\ marks' = [a.marks EXCEPT ![start] = a.epoch]
          /\ epoch' = a.epoch
          /\ queue' = << start >>
          /\ rows' = NoRows /\ phase' = "expand"
    BY <1>7 DEF StartIter
  <2>. DEFINE n == IF g.bound <= cap THEN cap ELSE g.bound
  <2>2. /\ n \in 0 .. N /\ 0 .. g.bound - 1 \subseteq 0 .. n - 1
        /\ m \in [0 .. n - 1 -> 0 .. EpochMax]
        /\ \A i \in 0 .. n - 1 : m[i] = 0 \/ (i \in DOMAIN marks /\ m[i] = marks[i])
    BY SMTT(30), <1>2, <1>5, GrownHolds
  <2>. HIDE DEF n
  <2>3. \A i \in DOMAIN m : m[i] <= epoch
    BY <1>3, <1>4, <2>2, EpochAssumption
  <2>4. /\ a.marks \in [0 .. n - 1 -> 0 .. EpochMax]
        /\ a.epoch \in 1 .. EpochMax
        /\ \A i \in 0 .. n - 1 : a.marks[i] < a.epoch
    <3>. HIDE DEF m
    <3>1. n \in Nat
      BY <2>2, NAssumption
    <3>. QED  BY <1>3, <2>2, <2>3, <3>1, AdvanceFresh
  <2>. HIDE DEF a, m
  <2>5. /\ marks' \in [0 .. n - 1 -> 0 .. EpochMax]
        /\ epoch' \in 1 .. EpochMax
        /\ \A i \in 0 .. n - 1 : marks'[i] <= epoch' /\ (marks'[i] = epoch' <=> i = start)
    <3>1. start \in 0 .. n - 1
      BY <2>2 DEF Index
    <3>2. /\ a.epoch \in 0 .. EpochMax /\ epoch' = a.epoch
          /\ \A i \in 0 .. n - 1 : a.marks[i] \in 0 .. EpochMax /\ a.marks[i] < a.epoch
      <4>1. epoch' = a.epoch
        BY <2>1
      <4>2. a.epoch \in 0 .. EpochMax
        BY <2>4, EpochAssumption
      <4>3. \A i \in 0 .. n - 1 : a.marks[i] \in 0 .. EpochMax /\ a.marks[i] < a.epoch
        BY <2>4
      <4>. QED  BY <4>1, <4>2, <4>3
    <3>3. /\ marks' \in [0 .. n - 1 -> 0 .. EpochMax]
          /\ marks'[start] = epoch'
          /\ \A i \in 0 .. n - 1 : i # start => marks'[i] = a.marks[i]
      BY <2>1, <2>4, <3>1, <3>2
    <3>4. \A i \in 0 .. n - 1 : marks'[i] <= epoch' /\ (marks'[i] = epoch' <=> i = start)
      BY <3>2, <3>3, EpochAssumption
    <3>. QED  BY <2>1, <2>4, <3>3, <3>4
  <2>6. /\ queue' \in Seq(Node) /\ Len(queue') = 1 /\ queue'[1] = start
        /\ Elements(queue') = {start}
    BY <1>5, <2>1 DEF Elements
  <2>7. TypeOK'
    <3>1. marks' \in MarkTable
      BY <2>2, <2>5 DEF MarkTable
    <3>2. /\ head' \in 0 .. Len(queue') /\ wave_end' \in 0 .. Len(queue')
          /\ epoch' \in 0 .. EpochMax
      BY <1>3, <1>5, <2>5, <2>6, EpochAssumption DEF IInv, TypeOK
    <3>3. rows' \in [first : SUBSET Node, second : SUBSET Node]
      BY <2>1 DEF NoRows
    <3>. QED  BY <1>5, <2>1, <2>6, <3>1, <3>2, <3>3 DEF IInv, TypeOK
  <2>8. MarksOld'
    BY <2>5 DEF MarksOld
  <2>9. QueueDistinct'
    BY <1>5, <2>1, <2>6 DEF QueueDistinct
  <2>10. RowsValid'
    BY <1>5, <2>1, <2>2, <2>5 DEF RowsValid, NoRows, Index
  <2>11. MarkedIsQueued'
    BY <2>5, <2>6 DEF MarkedIsQueued
  <2>. QED  BY <2>7, <2>8, <2>9, <2>10, <2>11 DEF IInv
<1>. QED  BY <1>1, <1>6, <1>7

\* Every step keeps the invariant.
LEMMA NextInv == IInv /\ [Next]_vars => IInv'
<1>. SUFFICES ASSUME IInv, [Next]_vars PROVE IInv'
  OBVIOUS
<1>1. CASE Start
  BY <1>1, StartInv
<1>2. CASE Seed
  <2>1. PICK s \in rows.first :
          /\ Take(s)
          /\ IF s \in Index(graph)
               THEN Visit(s, call.include_seeds, 0)
               ELSE phase' = "stopped" /\ UNCHANGED <<marks, queue, out, depths>>
    BY <1>2 DEF Seed
  <2>2. phase = "seed" /\ UNCHANGED <<storage, epoch, head, wave_end, depth, graph, call>>
    BY <1>2 DEF Seed, request
  <2>3. rows' \in [first : SUBSET rows.first, second : SUBSET rows.second]
    BY <2>1 DEF Take, IInv, TypeOK
  <2>4. CASE s \in Index(graph)
    BY <2>1, <2>2, <2>3, <2>4, VisitInv
  <2>5. CASE s \notin Index(graph)
    <3>1. phase' = "stopped" /\ UNCHANGED <<marks, queue, out, depths>>
      BY <2>1, <2>5
    <3>2. TypeOK'
      BY <2>2, <2>3, <3>1 DEF IInv, TypeOK
    <3>. QED  BY <2>2, <3>1, <3>2
                DEF IInv, MarksOld, QueueDistinct, RowsValid, MarkedIsQueued, Index, Elements
  <2>. QED  BY <2>4, <2>5
<1>3. CASE Discover
  <2>1. PICK t \in Node : Take(t) /\ Visit(t, call.kind = "bounded", depth + 1)
    BY <1>3 DEF Discover
  <2>2. phase = "expand" /\ UNCHANGED <<storage, epoch, head, wave_end, depth, graph, call>>
    BY <1>3 DEF Discover, request
  <2>3. /\ rows' \in [first : SUBSET rows.first, second : SUBSET rows.second]
        /\ t \in rows.first \cup rows.second
    BY <2>1 DEF Take, IInv, TypeOK
  <2>4. t \in Index(graph) /\ depth + 1 \in Nat
    BY <2>2, <2>3 DEF IInv, TypeOK, RowsValid
  <2>. QED  BY <2>1, <2>2, <2>3, <2>4, VisitInv
<1>4. CASE Pop
  <2>1. /\ phase = "expand" /\ head < Len(queue) /\ head' = head + 1
        /\ UNCHANGED <<marks, epoch, phase, queue, depths, storage, graph, call>>
    BY <1>4 DEF Pop, request
  <2>2. /\ rows'.first \subseteq Index(graph) /\ rows'.second \subseteq Index(graph)
        /\ rows' \in [first : SUBSET Node, second : SUBSET Node]
    <3>1. rows' \in {NoRows, Rows(graph, call.dir, queue[head + 1])}
      BY <1>4 DEF Pop
    <3>2. graph \in Views
      BY DEF IInv, TypeOK
    <3>. QED  BY <3>1, <3>2, RowsInside DEF NoRows
  <2>3. queue \in Seq(Node) /\ Len(queue) \in Nat /\ head \in 0 .. Len(queue)
    BY LenProperties DEF IInv, TypeOK
  <2>4. out' \in Seq(Node)
    <3>1. queue[head + 1] \in Node /\ out \in Seq(Node)
      BY <2>1, <2>3, ElementOfSeq DEF IInv, TypeOK
    <3>2. out' = out \/ out' = Append(out, queue[head + 1])
      BY <1>4 DEF Pop
    <3>. QED  BY <3>1, <3>2, AppendProperties
  <2>5. depth' \in Nat /\ wave_end' \in 0 .. Len(queue)
    <3>1. (depth' = depth + 1 /\ wave_end' = Len(queue)) \/ UNCHANGED <<depth, wave_end>>
      BY <1>4 DEF Pop
    <3>. QED  BY <2>3, <3>1 DEF IInv, TypeOK
  <2>6. TypeOK'
    BY <2>1, <2>2, <2>3, <2>4, <2>5 DEF IInv, TypeOK
  <2>. QED  BY <2>1, <2>2, <2>6
              DEF IInv, MarksOld, QueueDistinct, RowsValid, MarkedIsQueued, Index, Elements
<1>5. CASE SeedsDone
  <2>1. TypeOK'
    <3>1. /\ phase' = "expand" /\ wave_end' = Len(queue)
          /\ UNCHANGED <<storage, marks, epoch, graph, call, queue, head, depth, rows, out, depths>>
      BY <1>5 DEF SeedsDone, request
    <3>2. Len(queue) \in Nat
      BY LenProperties DEF IInv, TypeOK
    <3>. QED  BY <3>1, <3>2 DEF IInv, TypeOK
  <2>. QED  BY <1>5, <2>1
              DEF SeedsDone, request, IInv, MarksOld, QueueDistinct, RowsValid, MarkedIsQueued,
                  Index, Elements, NoRows
<1>6. CASE Finish \/ Drop
  <2>1. /\ phase = "expand" /\ phase' \in {"end", "stopped"}
        /\ UNCHANGED <<storage, marks, epoch, queue, head, wave_end, depth, rows, out, depths, graph, call>>
    BY <1>6 DEF Finish, Drop, request
  <2>2. TypeOK'
    BY <2>1 DEF IInv, TypeOK
  <2>. QED  BY <2>1, <2>2
              DEF IInv, MarksOld, QueueDistinct, RowsValid, MarkedIsQueued, Index, Elements
<1>7. CASE Return
  <2>1. TypeOK'
    <3>1. /\ queue' = << >> /\ out' = << >> /\ depths' = << >> /\ head' = 0 /\ wave_end' = 0
          /\ depth' = 0 /\ phase' = "idle" /\ call' = NoCall /\ rows' = NoRows
          /\ UNCHANGED <<storage, marks, epoch, graph>>
      BY <1>7 DEF Return
    <3>2. /\ queue' \in Seq(Node) /\ Len(queue') = 0 /\ out' \in Seq(Node) /\ depths' \in Seq(Nat)
      BY <3>1
    <3>3. rows' \in [first : SUBSET Node, second : SUBSET Node]
      BY <3>1 DEF NoRows
    <3>. QED  BY <3>1, <3>2, <3>3 DEF IInv, TypeOK
  <2>. QED  BY <1>7, <2>1
              DEF Return, IInv, MarksOld, QueueDistinct, RowsValid, MarkedIsQueued, Index, Elements
<1>8. CASE UNCHANGED vars
  <2>1. TypeOK'
    BY <1>8 DEF vars, IInv, TypeOK
  <2>. QED  BY <1>8, <2>1
              DEF vars, IInv, MarksOld, QueueDistinct, RowsValid, MarkedIsQueued, Index, Elements
<1>. QED  BY <1>1, <1>2, <1>3, <1>4, <1>5, <1>6, <1>7, <1>8 DEF Next, Step

-----------------------------------------------------------------------------
(* Results *)

\* IInv holds in every reachable state.
LEMMA Invariant == Spec => []IInv
BY InitInv, NextInv, PTL DEF Spec

\* Type correctness: marks and epoch stay within u32 through every wrap, and
\* the queue's cursors stay within the queue.
THEOREM TypeCorrect == Spec => []TypeOK
<1>1. IInv => TypeOK
  BY DEF IInv
<1>. QED  BY Invariant, <1>1, PTL

\* In every search over every graph, whatever earlier searches left in the
\* scratch, a mark equal to the epoch is exactly an element this search met.
THEOREM MarksSafe == Spec => []MarkedIsQueued
<1>1. IInv => MarkedIsQueued
  BY DEF IInv
<1>. QED  BY Invariant, <1>1, PTL

\* The unchecked push queue[tail] never runs past a slice of element_bound
\* cells, and no element is searched twice.
THEOREM QueueSafe == Spec => []QueueFits
<1>1. IInv => QueueFits
  <2>. SUFFICES ASSUME IInv PROVE QueueFits
    OBVIOUS
  <2>1. graph.bound \in Nat
    BY ViewAssumption, NAssumption DEF IInv, TypeOK
  <2>2. queue \in Seq(Node) /\ \A i \in 1 .. Len(queue) : queue[i] \in 0 .. graph.bound - 1
    BY DEF IInv, TypeOK, QueueDistinct, Index
  <2>3. \A i, j \in 1 .. Len(queue) : queue[i] = queue[j] => i = j
    BY DEF IInv, QueueDistinct
  <2>4. Len(queue) <= graph.bound
    BY <2>1, <2>2, <2>3, DistinctFits
  <2>. QED  BY <2>3, <2>4 DEF QueueFits
<1>. QED  BY Invariant, <1>1, PTL
-----------------------------------------------------------------------------
(***************************************************************************)
(* The invariant of a search                                               *)
(*                                                                         *)
(* d is the table of distances.  The queue is sorted by it and holds        *)
(* everything nearer than anything it holds; the rows of popped elements    *)
(* are in the queue, but for what is left of the last; and the wave         *)
(* boundary separates the depth being popped from the next one.             *)
(***************************************************************************)

\* The bounds let the search walk the rows of e.
Deep(d, e) ==
    call.kind = "bounded" => call.max_depth = NoBound \/ d[e] < call.max_depth

\* What makes d the distances from the seeds.
Metric(d) ==
    /\ DOMAIN d \subseteq Node /\ \A e \in DOMAIN d : d[e] \in Nat
    /\ \A e \in call.seeds : e \in DOMAIN d /\ d[e] = 0
    /\ \A e \in DOMAIN d : d[e] = 0 => e \in call.seeds
    /\ \A e \in DOMAIN d : d[e] > 0 =>
         \E x \in DOMAIN d : d[x] = d[e] - 1 /\ e \in Neighbors(x)
    /\ \A x \in DOMAIN d : \A t \in Neighbors(x) : t \in DOMAIN d /\ d[t] <= d[x] + 1

Sorted(d) ==
    /\ \A i \in 1 .. Len(queue) : queue[i] \in DOMAIN d
    /\ \A i, j \in 1 .. Len(queue) : i <= j => d[queue[i]] <= d[queue[j]]
    /\ \A i \in 1 .. Len(queue) : \A e \in DOMAIN d :
         d[e] < d[queue[i]] => e \in Elements(queue)

\* An iterator has yielded what it popped; a driver has reported what it queued,
\* perhaps without the seeds, and stops at the cap.
Reported(d) ==
    /\ call.kind = "iter" => Len(out) = head /\ \A i \in 1 .. head : out[i] = queue[i]
    /\ call.kind = "bounded" =>
         /\ Len(depths) = Len(out) /\ Len(out) <= Len(queue)
         /\ \A i \in 1 .. Len(out) :
              out[i] = queue[Len(queue) - Len(out) + i] /\ depths[i] = d[out[i]]
         /\ call.include_seeds => Len(out) = Len(queue)
         /\ ~call.include_seeds => \A i \in 1 .. Len(queue) :
              i <= Len(queue) - Len(out) <=> d[queue[i]] = 0

Capped ==
    call.kind = "bounded" =>
      /\ Len(out) = 0 \/ Len(out) <= call.limit \/ (call.limit = 0 /\ Len(out) = 1)
      /\ phase \in {"seed", "expand"} => Len(out) = 0 \/ Len(out) < call.limit

Seeded ==
    /\ phase = "seed" =>
         /\ call.kind = "bounded" /\ head = 0 /\ depth = 0 /\ wave_end = 0
         /\ rows.second = {} /\ call.seeds = Elements(queue) \cup rows.first
    /\ phase \in {"expand", "end"} => call.seeds \subseteq Elements(queue)
    /\ phase = "end" => rows = NoRows /\ head = Len(queue)

\* How far the popped elements are, and the rows not yet walked of the last.
Reach(d) == IF head = 0 THEN 0 ELSE d[queue[head]]
Pending == rows.first \cup rows.second

Walked(d) ==
    /\ \A i \in 1 .. head : Deep(d, queue[i]) =>
         Neighbors(queue[i]) \subseteq Elements(queue) \cup (IF i = head THEN Pending ELSE {})
    /\ rows # NoRows =>
         head > 0 /\ Deep(d, queue[head]) /\ Pending \subseteq Neighbors(queue[head])
    /\ \A i \in 1 .. Len(queue) :
         /\ d[queue[i]] <= (IF head = 0 THEN 0 ELSE d[queue[head]] + 1)
         /\ call.kind = "bounded" => call.max_depth = NoBound \/ d[queue[i]] <= call.max_depth

Waves(d) ==
    call.kind = "bounded" =>
      /\ head <= wave_end
      /\ depth = Reach(d)
      /\ \A i \in 1 .. Len(queue) :
           IF i <= wave_end THEN d[queue[i]] <= depth ELSE d[queue[i]] = depth + 1

Clean ==
    phase = "idle" =>
      /\ queue = << >> /\ head = 0 /\ wave_end = 0 /\ depth = 0 /\ rows = NoRows
      /\ out = << >> /\ depths = << >>

Ordered(d) ==
    /\ Sorted(d) /\ Reported(d) /\ Capped
    /\ phase \in {"expand", "end"} => Walked(d) /\ Waves(d)

SearchInv ==
    /\ Clean
    /\ phase # "idle" =>
         /\ call \in Call /\ Seeded
         /\ call.seeds \subseteq Index(graph) => Ordered(Distances)

-----------------------------------------------------------------------------
(* Distances *)

\* The seeds and the rows of a search are elements.
LEMMA CallInside ==
  ASSUME graph \in Views, call \in Call
  PROVE  /\ call.seeds \subseteq Node
         /\ \A e : Neighbors(e) \subseteq Node
<1>1. call.seeds \subseteq Node
  BY ArgAssumption DEF Call, Node
<1>2. ASSUME NEW e PROVE Neighbors(e) \subseteq Node
  <2>1. Rows(graph, call.dir, e).first \subseteq Node /\ Rows(graph, call.dir, e).second \subseteq Node
    BY RowsInside
  <2>. QED  BY <2>1 DEF Neighbors
<1>. QED  BY <1>1, <1>2

\* The balls grow by one hop at a time.
LEMMA BallStep ==
  ASSUME graph \in Views, call \in Call
  PROVE  /\ Ball[0] = call.seeds
         /\ \A k \in 1 .. N : Ball[k] = Ball[k - 1] \cup UNION {Neighbors(e) : e \in Ball[k - 1]}
         /\ \A k \in 0 .. N : Ball[k] \subseteq Node
<1>. DEFINE F == [k \in 1 .. N |-> [X \in SUBSET Node |-> X \cup UNION {Neighbors(e) : e \in X}]]
            Def(u) == [k \in 0 .. N |->
                         IF k = 0 THEN call.seeds
                         ELSE u[k - 1] \cup UNION {Neighbors(e) : e \in u[k - 1]}]
            ball == CHOOSE u : u = Def(u)
<1>1. N \in Nat /\ call.seeds \in SUBSET Node /\ F \in [1 .. N -> [SUBSET Node -> SUBSET Node]]
  BY NAssumption, CallInside
<1>2. PICK b : Iterates(b, N, SUBSET Node, call.seeds, F)
  <2>. HIDE DEF F
  <2>. QED  BY <1>1, IteratesExist
<1>3. b = Def(b)
  <2>. b = [k \in 0 .. N |-> b[k]]
    BY <1>2 DEF Iterates
  <2>. SUFFICES ASSUME NEW k \in 0 .. N
       PROVE  b[k] = IF k = 0 THEN call.seeds
                     ELSE b[k - 1] \cup UNION {Neighbors(e) : e \in b[k - 1]}
    OBVIOUS
  <2>1. CASE k = 0
    BY <1>2, <2>1 DEF Iterates
  <2>2. CASE k # 0
    <3>1. k \in 1 .. N /\ k - 1 \in 0 .. N
      BY <2>2, <1>1
    <3>2. b[k - 1] \in SUBSET Node /\ b[k] = F[k][b[k - 1]]
      BY <1>2, <3>1 DEF Iterates
    <3>. QED  BY <2>2, <3>1, <3>2
  <2>. QED  BY <2>1, <2>2
<1>4. ball = Def(ball)
  <2>1. \E u : u = Def(u)
    BY <1>3
  <2>. QED  BY <2>1
<1>5. Ball = ball
  BY DEF Ball
<1>. HIDE DEF ball
<1>6. Ball[0] = call.seeds
  BY <1>1, <1>4, <1>5
<1>7. ASSUME NEW k \in 1 .. N
      PROVE  Ball[k] = Ball[k - 1] \cup UNION {Neighbors(e) : e \in Ball[k - 1]}
  <2>1. k \in 0 .. N /\ k # 0
    BY NAssumption
  <2>2. ball[k] = Def(ball)[k]
    BY <1>4
  <2>3. Def(ball)[k] = ball[k - 1] \cup UNION {Neighbors(e) : e \in ball[k - 1]}
    BY <2>1
  <2>. QED  BY <1>5, <2>2, <2>3
<1>. DEFINE T == {k \in 0 .. N : Ball[k] \subseteq Node}
<1>8. 0 \in T
  BY <1>1, <1>6
<1>9. ASSUME NEW k \in 1 .. N, k - 1 \in T PROVE k \in T
  BY <1>7, <1>9, CallInside
<1>10. \A k \in 0 .. N : k \in T
  <2>. HIDE DEF T
  <2>. QED  BY <1>1, <1>8, <1>9, AllUpTo
<1>. QED  BY <1>6, <1>7, <1>10

\* A ball contains the smaller ones.
LEMMA BallGrows ==
  ASSUME graph \in Views, call \in Call, NEW i \in 0 .. N, NEW k \in 0 .. N, i <= k
  PROVE  Ball[i] \subseteq Ball[k]
<1>. DEFINE T == {j \in 0 .. N : i <= j => Ball[i] \subseteq Ball[j]}
<1>1. 0 \in T
  BY NAssumption
<1>2. ASSUME NEW j \in 1 .. N, j - 1 \in T PROVE j \in T
  <2>1. Ball[j - 1] \subseteq Ball[j]
    BY BallStep
  <2>2. i <= j - 1 \/ i = j \/ i > j
    BY NAssumption
  <2>. QED  BY <1>2, <2>1, <2>2
<1>3. k \in T
  <2>. HIDE DEF T
  <2>. QED  BY <1>1, <1>2, NAssumption, AllUpTo
<1>. QED  BY <1>3

\* The distance of an element is the number of the first ball that contains it.
LEMMA DistanceAt ==
  ASSUME graph \in Views, call \in Call
  PROVE  /\ DOMAIN Distances = Ball[N]
         /\ \A e \in Ball[N] :
              /\ Distances[e] \in 0 .. N
              /\ \A k \in 0 .. N : e \in Ball[k] <=> Distances[e] <= k
<1>. DEFINE First(e, k) == e \in Ball[k] /\ (k > 0 => e \notin Ball[k - 1])
<1>0. N \in Nat /\ N \in 0 .. N
  BY NAssumption
<1>1. /\ DOMAIN Distances = Ball[N]
      /\ \A e \in Ball[N] : Distances[e] = CHOOSE k \in 0 .. N : First(e, k)
  <2>1. Distances = [e \in Ball[N] |-> CHOOSE k \in 0 .. N :
                       /\ e \in [j \in 0 .. N |-> Ball[j]][k]
                       /\ k > 0 => e \notin [j \in 0 .. N |-> Ball[j]][k - 1]]
    BY <1>0 DEF Distances
  <2>2. ASSUME NEW e, NEW k \in 0 .. N
        PROVE  (/\ e \in [j \in 0 .. N |-> Ball[j]][k]
                /\ k > 0 => e \notin [j \in 0 .. N |-> Ball[j]][k - 1]) <=> First(e, k)
    <3>1. k > 0 => k - 1 \in 0 .. N
      BY <1>0
    <3>. QED  BY <3>1
  <2>. QED  BY <2>1, <2>2
<1>2. ASSUME NEW e \in Ball[N] PROVE \E k \in 0 .. N : First(e, k)
  <2>. DEFINE T == {k \in 0 .. N : e \in Ball[k]}
  <2>1. T \in SUBSET Nat /\ T # {}
    BY <1>0
  <2>2. PICK k \in T : \A m \in T : k <= m
    <3>. HIDE DEF T
    <3>. QED  BY <2>1, LeastMember
  <2>3. k > 0 => k - 1 \notin T /\ k - 1 \in 0 .. N
    BY <1>0, <2>2
  <2>. QED  BY <2>2, <2>3
<1>3. ASSUME NEW e \in Ball[N] PROVE Distances[e] \in 0 .. N /\ First(e, Distances[e])
  <2>1. PICK k \in 0 .. N : First(e, k)
    BY <1>2
  <2>. HIDE DEF First
  <2>. QED  BY <1>1, <2>1
<1>4. ASSUME NEW e \in Ball[N], NEW k \in 0 .. N PROVE e \in Ball[k] <=> Distances[e] <= k
  <2>1. ASSUME Distances[e] <= k PROVE e \in Ball[k]
    BY <1>3, <2>1, BallGrows
  <2>2. ASSUME k < Distances[e] PROVE e \notin Ball[k]
    <3>1. Distances[e] - 1 \in 0 .. N /\ k <= Distances[e] - 1 /\ Distances[e] > 0
      BY <1>0, <1>3, <2>2
    <3>2. e \notin Ball[Distances[e] - 1]
      BY <1>3, <3>1
    <3>. QED  BY <3>1, <3>2, BallGrows
  <2>. QED  BY <1>0, <1>3, <2>1, <2>2
<1>. QED  BY <1>1, <1>3, <1>4

\* An element that is not a seed is next to one that is nearer by one hop.
LEMMA NearerBefore ==
  ASSUME graph \in Views, call \in Call, NEW e \in DOMAIN Distances, Distances[e] > 0
  PROVE  \E x \in DOMAIN Distances : Distances[x] = Distances[e] - 1 /\ e \in Neighbors(x)
<1>. DEFINE k == Distances[e]
<1>1. N \in Nat /\ DOMAIN Distances = Ball[N] /\ k \in 1 .. N /\ k - 1 \in 0 .. N
  BY NAssumption, DistanceAt
<1>2. e \in Ball[k] /\ e \notin Ball[k - 1]
  BY <1>1, DistanceAt
<1>3. PICK x \in Ball[k - 1] : e \in Neighbors(x)
  BY <1>1, <1>2, BallStep
<1>4. x \in Ball[N] /\ Distances[x] \in 0 .. N /\ Distances[x] <= k - 1
  <2>1. x \in Ball[N]
    BY <1>1, <1>3, BallGrows
  <2>. QED  BY <1>1, <1>3, <2>1, DistanceAt
<1>5. ASSUME Distances[x] < k - 1 PROVE FALSE
  <2>1. k - 1 \in 1 .. N /\ (k - 1) - 1 \in 0 .. N /\ Distances[x] <= (k - 1) - 1
    BY <1>1, <1>4, <1>5
  <2>2. x \in Ball[(k - 1) - 1]
    BY <1>4, <2>1, DistanceAt
  <2>3. e \in Ball[k - 1]
    BY <1>3, <2>1, <2>2, BallStep
  <2>. QED  BY <1>2, <2>3
<1>6. Distances[x] = k - 1
  BY <1>1, <1>4, <1>5
<1>. QED  BY <1>1, <1>3, <1>4, <1>6

\* There are fewer distances than elements, so the last ball is closed.
LEMMA DistanceBelow ==
  ASSUME graph \in Views, call \in Call, NEW e \in DOMAIN Distances
  PROVE  Distances[e] < N
<1>. DEFINE k == Distances[e]
            T == {m \in 0 .. k : \E x \in DOMAIN Distances : Distances[x] = k - m}
<1>1. N \in Nat /\ k \in 0 .. N /\ DOMAIN Distances = Ball[N] /\ Ball[N] \subseteq Node
  BY NAssumption, DistanceAt, BallStep
<1>2. 0 \in T
  BY <1>1
<1>3. ASSUME NEW m \in 1 .. k, m - 1 \in T PROVE m \in T
  <2>1. PICK x \in DOMAIN Distances : Distances[x] = k - (m - 1)
    BY <1>3
  <2>2. Distances[x] > 0
    BY <1>1, <2>1
  <2>3. PICK y \in DOMAIN Distances : Distances[y] = Distances[x] - 1
    BY <2>2, NearerBefore
  <2>4. Distances[y] = k - m
    BY <1>1, <2>1, <2>3
  <2>. QED  BY <1>1, <2>4
<1>4. \A m \in 0 .. k : m \in T
  <2>1. k \in Nat
    BY <1>1
  <2>. HIDE DEF T, k
  <2>. QED  BY <1>2, <1>3, <2>1, AllUpTo
<1>. DEFINE At(i) == CHOOSE x \in DOMAIN Distances : Distances[x] = i - 1
            s == [i \in 1 .. k + 1 |-> At(i)]
<1>5. ASSUME NEW i \in 1 .. k + 1 PROVE At(i) \in DOMAIN Distances /\ Distances[At(i)] = i - 1
  <2>1. k - (i - 1) \in 0 .. k
    BY <1>1
  <2>2. \E x \in DOMAIN Distances : Distances[x] = k - (k - (i - 1))
    BY <1>4, <2>1
  <2>3. \E x \in DOMAIN Distances : Distances[x] = i - 1
    BY <1>1, <2>2
  <2>. QED  BY <2>3
<1>. HIDE DEF At, T
<1>6. s \in Seq(Node) /\ Len(s) = k + 1
  <2>1. k + 1 \in Nat /\ \A i \in 1 .. k + 1 : At(i) \in Node
    BY <1>1, <1>5
  <2>. HIDE DEF k
  <2>. QED  BY <2>1
<1>7. \A i \in 1 .. Len(s) : s[i] \in 0 .. N - 1 /\ Distances[s[i]] = i - 1
  BY <1>1, <1>5, <1>6 DEF Node
<1>. HIDE DEF s
<1>8. ASSUME NEW i \in 1 .. Len(s), NEW j \in 1 .. Len(s), s[i] = s[j] PROVE i = j
  <2>1. i - 1 = j - 1
    BY <1>7, <1>8
  <2>. QED  BY <1>1, <1>6, <2>1
<1>9. Len(s) <= N
  BY <1>1, <1>6, <1>7, <1>8, DistinctFits
<1>. QED  BY <1>1, <1>6, <1>9

\* Distances are what the invariant takes them for.
LEMMA DistancesMetric ==
  ASSUME graph \in Views, call \in Call
  PROVE  Metric(Distances)
<1>1. N \in Nat /\ DOMAIN Distances = Ball[N] /\ 0 \in 0 .. N
  BY NAssumption, DistanceAt
<1>2. DOMAIN Distances \subseteq Node /\ \A e \in DOMAIN Distances : Distances[e] \in Nat
  BY <1>1, DistanceAt, BallStep
<1>3. \A e \in call.seeds : e \in DOMAIN Distances /\ Distances[e] = 0
  <2>. SUFFICES ASSUME NEW e \in call.seeds
       PROVE  e \in DOMAIN Distances /\ Distances[e] = 0
    OBVIOUS
  <2>1. e \in Ball[0]
    BY BallStep
  <2>2. e \in Ball[N]
    BY <1>1, <2>1, BallGrows
  <2>. QED  BY <1>1, <2>1, <2>2, DistanceAt
<1>4. \A e \in DOMAIN Distances : Distances[e] = 0 => e \in call.seeds
  BY <1>1, DistanceAt, BallStep
<1>5. ASSUME NEW x \in DOMAIN Distances, NEW t \in Neighbors(x)
      PROVE  t \in DOMAIN Distances /\ Distances[t] <= Distances[x] + 1
  <2>. DEFINE k == Distances[x]
  <2>1. k \in 0 .. N /\ k + 1 \in 1 .. N /\ (k + 1) - 1 = k /\ k + 1 \in 0 .. N
    BY <1>1, DistanceAt, DistanceBelow
  <2>2. x \in Ball[k]
    BY <1>1, <2>1, DistanceAt
  <2>. HIDE DEF k
  <2>3. t \in Ball[k + 1]
    BY <2>1, <2>2, BallStep
  <2>4. t \in Ball[N]
    BY <1>1, <2>1, <2>3, BallGrows
  <2>5. Distances[t] <= k + 1
    BY <2>1, <2>3, <2>4, DistanceAt
  <2>. QED  BY <1>1, <2>4, <2>5 DEF k
<1>. QED  BY <1>2, <1>3, <1>4, <1>5, NearerBefore DEF Metric

\* The distances of a search do not change while it runs.
LEMMA DistancesKept ==
  ASSUME UNCHANGED <<graph, call>>
  PROVE  Distances' = Distances
BY DEF Distances, Ball, Neighbors

-----------------------------------------------------------------------------
(* The search, step by step *)

\* Once a search has its arguments, Distances are distances from its seeds.
MetricOK == call \in Call => Metric(Distances)

\* What a state of a search whose seeds are in the view gives a step to work with.
LEMMA Searching ==
  ASSUME IInv, SearchInv, MetricOK, phase # "idle"
  PROVE  /\ call \in Call /\ graph \in Views /\ queue \in Seq(Node) /\ Len(queue) \in Nat
         /\ head \in 0 .. Len(queue) /\ wave_end \in Nat /\ depth \in Nat
         /\ out \in Seq(Node) /\ Len(out) \in Nat /\ depths \in Seq(Nat) /\ Len(depths) \in Nat
         /\ rows \in [first : SUBSET Node, second : SUBSET Node]
         /\ Seeded /\ Metric(Distances)
         /\ call.seeds \subseteq Index(graph) => Ordered(Distances)
         /\ phase \in {"expand", "end"} =>
              call.seeds \subseteq Index(graph) /\ Walked(Distances) /\ Waves(Distances)
<1>1. /\ graph \in Views /\ queue \in Seq(Node) /\ head \in 0 .. Len(queue)
      /\ wave_end \in 0 .. Len(queue) /\ depth \in Nat /\ out \in Seq(Node) /\ depths \in Seq(Nat)
      /\ rows \in [first : SUBSET Node, second : SUBSET Node]
  BY DEF IInv, TypeOK
<1>2. Len(queue) \in Nat /\ Len(out) \in Nat /\ Len(depths) \in Nat
  BY <1>1, LenProperties
<1>3. /\ call \in Call /\ Seeded /\ Metric(Distances)
      /\ call.seeds \subseteq Index(graph) => Ordered(Distances)
  BY DEF SearchInv, MetricOK
<1>4. phase \in {"expand", "end"} => call.seeds \subseteq Index(graph)
  BY <1>3 DEF Seeded, IInv, QueueDistinct, Elements
<1>. QED  BY <1>1, <1>2, <1>3, <1>4 DEF Ordered

\* What is nearer than the row being walked has been queued, so a new element is one hop
\* further than the popped one.
LEMMA NewIsNext ==
  ASSUME NEW d, Metric(d), Sorted(d), Walked(d), queue \in Seq(Node), Len(queue) \in Nat,
         head \in 0 .. Len(queue), call \in Call, call.seeds \subseteq Elements(queue),
         rows \in [first : SUBSET Node, second : SUBSET Node],
         NEW t \in Pending, t \notin Elements(queue)
  PROVE  /\ head > 0 /\ head \in 1 .. Len(queue) /\ Deep(d, queue[head])
         /\ t \in DOMAIN d /\ d[t] = d[queue[head]] + 1 /\ d[queue[head]] \in Nat
         /\ \A e \in DOMAIN d : d[e] <= d[queue[head]] => e \in Elements(queue)
<1>1. rows # NoRows
  BY DEF Pending, NoRows
<1>2. head > 0 /\ Deep(d, queue[head]) /\ t \in Neighbors(queue[head])
  BY <1>1 DEF Walked
<1>3. head \in 1 .. Len(queue) /\ queue[head] \in DOMAIN d
  BY <1>2 DEF Sorted
<1>4. d[queue[head]] \in Nat /\ t \in DOMAIN d /\ d[t] \in Nat /\ d[t] <= d[queue[head]] + 1
  BY <1>2, <1>3 DEF Metric
<1>5. ASSUME NEW e \in DOMAIN d, d[e] <= d[queue[head]] PROVE e \in Elements(queue)
  <2>1. d[e] \in Nat
    BY DEF Metric
  <2>2. CASE d[e] < d[queue[head]]
    BY <1>3, <2>2 DEF Sorted
  <2>3. CASE d[e] = 0
    BY <2>3 DEF Metric
  <2>4. CASE d[e] = d[queue[head]] /\ d[e] > 0
    <3>1. PICK x \in DOMAIN d : d[x] = d[e] - 1 /\ e \in Neighbors(x)
      BY <2>4 DEF Metric
    <3>2. d[x] < d[queue[head]] /\ d[x] \in Nat
      BY <1>4, <2>1, <2>4, <3>1
    <3>3. x \in Elements(queue)
      BY <1>3, <3>2 DEF Sorted
    <3>4. PICK i \in 1 .. Len(queue) : queue[i] = x
      BY <3>3 DEF Elements
    <3>5. ~(head <= i)
      BY <1>3, <1>4, <3>2, <3>4 DEF Sorted
    <3>6. i \in 1 .. head /\ i # head
      BY <1>3, <3>5
    <3>7. Deep(d, queue[i])
      <4>1. call.kind = "bounded" => call.max_depth \in Nat \cup {-1}
        BY ArgAssumption DEF Call
      <4>. QED  BY <1>2, <1>4, <3>2, <3>4, <4>1 DEF Deep, NoBound
    <3>. QED  BY <3>1, <3>4, <3>6, <3>7 DEF Walked
  <2>. QED  BY <1>4, <1>5, <2>1, <2>2, <2>3, <2>4
<1>6. d[t] = d[queue[head]] + 1
  BY <1>4, <1>5
<1>. QED  BY <1>2, <1>3, <1>4, <1>5, <1>6

\* A driver's report of one more element keeps its list in step with the queue.
LEMMA ReportStep ==
  ASSUME NEW d, Reported(d), Capped, call.kind = "bounded", call \in Call,
         phase \in {"seed", "expand"}, call' = call, head' = head,
         queue \in Seq(Node), Len(queue) \in Nat, out \in Seq(Node), Len(out) \in Nat,
         depths \in Seq(Nat), Len(depths) \in Nat, NEW e \in Node, NEW k \in Nat, d[e] = k,
         NEW report \in BOOLEAN, queue' = Append(queue, e),
         report \/ (~call.include_seeds /\ Len(out) = 0 /\ k = 0),
         report => call.include_seeds \/ k > 0,
         IF report THEN Emit(e, k) ELSE UNCHANGED <<phase, out, depths>>
  PROVE  Reported(d)' /\ Capped' /\ phase' \in {phase, "stopped"}
<1>0. call.limit \in Nat /\ call.include_seeds \in BOOLEAN
  BY ArgAssumption DEF Call
<1>1. /\ Len(queue') = Len(queue) + 1 /\ queue'[Len(queue) + 1] = e
      /\ \A i \in 1 .. Len(queue) : queue'[i] = queue[i]
  BY AppendProperties
<1>2. CASE report
  <2>1. /\ out' = Append(out, e) /\ depths' = Append(depths, k)
        /\ phase' \in {IF Len(out) + 1 >= call.limit THEN "stopped" ELSE phase, "stopped"}
    BY <1>2 DEF Emit
  <2>2. /\ Len(out') = Len(out) + 1 /\ out'[Len(out) + 1] = e
        /\ \A i \in 1 .. Len(out) : out'[i] = out[i]
        /\ Len(depths') = Len(depths) + 1 /\ depths'[Len(depths) + 1] = k
        /\ \A i \in 1 .. Len(depths) : depths'[i] = depths[i]
    BY <2>1, AppendProperties
  <2>3. Capped' /\ phase' \in {phase, "stopped"}
    BY <1>0, <2>1, <2>2 DEF Capped
  <2>4. /\ Len(depths) = Len(out) /\ Len(out) <= Len(queue)
        /\ \A i \in 1 .. Len(out) :
              out[i] = queue[Len(queue) - Len(out) + i] /\ depths[i] = d[out[i]]
        /\ call.include_seeds => Len(out) = Len(queue)
        /\ ~call.include_seeds => \A i \in 1 .. Len(queue) :
              i <= Len(queue) - Len(out) <=> d[queue[i]] = 0
    BY DEF Reported
  <2>5. Len(queue') - Len(out') = Len(queue) - Len(out)
    BY <1>1, <2>2
  <2>6. ASSUME NEW i \in 1 .. Len(out')
        PROVE  out'[i] = queue'[Len(queue') - Len(out') + i] /\ depths'[i] = d[out'[i]]
    <3>1. CASE i = Len(out) + 1
      BY <1>1, <2>2, <2>4, <2>5, <3>1
    <3>2. CASE i \in 1 .. Len(out)
      <4>1. Len(queue) - Len(out) + i \in 1 .. Len(queue)
        BY <2>4, <3>2
      <4>. QED  BY SMTT(30), <1>1, <2>2, <2>4, <2>5, <3>2, <4>1
    <3>3. Len(out') = Len(out) + 1
      BY <2>2
    <3>4. i = Len(out) + 1 \/ i \in 1 .. Len(out)
      BY <3>3
    <3>. QED  BY <3>1, <3>2, <3>4
  <2>7. ASSUME ~call.include_seeds, NEW i \in 1 .. Len(queue')
        PROVE  i <= Len(queue') - Len(out') <=> d[queue'[i]] = 0
    <3>1. CASE i = Len(queue) + 1
      BY <1>1, <1>2, <2>4, <2>5, <2>7, <3>1
    <3>2. CASE i \in 1 .. Len(queue)
      BY <1>1, <2>4, <2>5, <2>7, <3>2
    <3>3. i = Len(queue) + 1 \/ i \in 1 .. Len(queue)
      BY SMTT(30), <1>1
    <3>. QED  BY <3>1, <3>2, <3>3
  <2>8. /\ Len(depths') = Len(out') /\ Len(out') <= Len(queue')
        /\ call.include_seeds => Len(out') = Len(queue')
    BY <1>1, <2>2, <2>4
  <2>9. Reported(d)'
    BY <2>6, <2>7, <2>8 DEF Reported
  <2>. QED  BY <2>3, <2>9
<1>3. CASE ~report
  <2>1. UNCHANGED <<phase, out, depths>> /\ ~call.include_seeds /\ Len(out) = 0 /\ k = 0
    BY <1>3
  <2>2. Capped'
    BY <2>1 DEF Capped
  <2>3. Len(depths) = Len(out) /\ \A i \in 1 .. Len(queue) : d[queue[i]] = 0
    BY <2>1 DEF Reported
  <2>. QED  BY <1>1, <2>1, <2>2, <2>3 DEF Reported
<1>. QED  BY <1>2, <1>3

\* The invariant after a step of a search that goes on with the same call.
LEMMA SearchGoesOn ==
  ASSUME NEW d, d = Distances, UNCHANGED <<graph, call>>, call \in Call, phase' # "idle",
         Seeded',
         call.seeds \subseteq Index(graph) =>
           /\ Sorted(d)' /\ Reported(d)' /\ Capped'
           /\ phase' \in {"expand", "end"} => Walked(d)' /\ Waves(d)'
  PROVE  SearchInv'
<1>1. Distances' = d
  BY DistancesKept
<1>2. call.seeds \subseteq Index(graph) => Ordered(Distances)'
  BY <1>1 DEF Ordered
<1>3. Clean'
  BY DEF Clean
<1>. QED  BY <1>2, <1>3 DEF SearchInv, Index

\* Taking an element from the rows leaves the others.
LEMMA TakeRows ==
  ASSUME rows \in [first : SUBSET Node, second : SUBSET Node], NEW t, Take(t)
  PROVE  /\ t \in Pending /\ Pending' \subseteq Pending /\ Pending \subseteq Pending' \cup {t}
         /\ rows # NoRows /\ rows'.first \subseteq rows.first /\ rows'.second \subseteq rows.second
         /\ phase = "seed" /\ rows.second = {} =>
              rows'.second = {} /\ t \in rows.first /\ rows.first = rows'.first \cup {t}
BY DEF Take, Pending, NoRows

\* One neighbour of the popped element.
LEMMA DiscoverSearch ==
  ASSUME IInv, SearchInv, MetricOK, Discover
  PROVE  SearchInv'
<1>1. PICK t \in Node : Take(t) /\ Visit(t, call.kind = "bounded", depth + 1)
  BY DEF Discover
<1>2. phase = "expand" /\ UNCHANGED <<epoch, head, wave_end, depth, graph, call>>
  BY DEF Discover, request
<1>3. /\ call \in Call /\ graph \in Views /\ queue \in Seq(Node) /\ Len(queue) \in Nat
      /\ head \in 0 .. Len(queue) /\ wave_end \in Nat /\ depth \in Nat
      /\ out \in Seq(Node) /\ Len(out) \in Nat /\ depths \in Seq(Nat) /\ Len(depths) \in Nat
      /\ rows \in [first : SUBSET Node, second : SUBSET Node]
  BY <1>2, Searching
<1>d. PICK d : d = Distances
  OBVIOUS
<1>4. /\ Metric(d) /\ Sorted(d) /\ Reported(d) /\ Capped /\ Walked(d) /\ Waves(d)
      /\ call.seeds \subseteq Elements(queue)
  BY <1>2, <1>d, Searching DEF Ordered, Seeded
<1>5. /\ t \in Pending /\ Pending' \subseteq Pending /\ Pending \subseteq Pending' \cup {t}
      /\ rows # NoRows
  BY <1>1, <1>3, TakeRows
<1>6. t \in DOMAIN marks /\ (marks[t] = epoch <=> t \in Elements(queue))
  <2>1. t \in DOMAIN marks
    BY <1>2, <1>5 DEF IInv, RowsValid, Pending
  <2>. QED  BY <1>2, <2>1 DEF IInv, MarkedIsQueued
<1>7. CASE marks[t] = epoch
  <2>1. UNCHANGED <<marks, queue, phase, out, depths>> /\ t \in Elements(queue)
    BY <1>1, <1>6, <1>7 DEF Visit
  <2>2. Capped' /\ Seeded' /\ Sorted(d)' /\ Reported(d)' /\ Waves(d)'
    <3>1. Capped'
      BY <1>2, <1>4, <2>1 DEF Capped
    <3>2. Seeded'
      BY <1>2, <1>4, <2>1 DEF Seeded, Elements
    <3>3. Sorted(d)'
      BY <1>4, <2>1 DEF Sorted, Elements
    <3>4. Reported(d)'
      BY <1>2, <1>4, <2>1 DEF Reported
    <3>5. Waves(d)'
      BY <1>2, <1>4, <2>1 DEF Waves, Reach
    <3>. QED  BY <3>1, <3>2, <3>3, <3>4, <3>5
  <2>3. Walked(d)'
    <3>1. ASSUME NEW i \in 1 .. head, Deep(d, queue[i])
          PROVE  Neighbors(queue[i]) \subseteq
                   Elements(queue) \cup (IF i = head THEN Pending' ELSE {})
      BY <1>4, <1>5, <2>1, <3>1 DEF Walked
    <3>2. head > 0 /\ Deep(d, queue[head]) /\ Pending' \subseteq Neighbors(queue[head])
      BY <1>4, <1>5 DEF Walked
    <3>. QED  BY <1>2, <1>4, <2>1, <3>1, <3>2 DEF Walked, Deep, Neighbors, Elements
  <2>. QED  BY <1>2, <1>3, <1>d, <2>1, <2>2, <2>3, SearchGoesOn
<1>8. CASE marks[t] # epoch
  <2>1. t \notin Elements(queue)
    BY <1>6, <1>8
  <2>2. /\ head > 0 /\ head \in 1 .. Len(queue) /\ Deep(d, queue[head])
        /\ t \in DOMAIN d /\ d[t] = d[queue[head]] + 1 /\ d[queue[head]] \in Nat
        /\ \A e \in DOMAIN d : d[e] <= d[queue[head]] => e \in Elements(queue)
    BY <1>3, <1>4, <1>5, <2>1, NewIsNext
  <2>3. /\ queue' = Append(queue, t)
        /\ IF call.kind = "bounded" THEN Emit(t, depth + 1) ELSE UNCHANGED <<phase, out, depths>>
    BY <1>1, <1>8 DEF Visit
  <2>4. /\ Len(queue') = Len(queue) + 1 /\ queue'[Len(queue) + 1] = t
        /\ \A i \in 1 .. Len(queue) : queue'[i] = queue[i]
        /\ Elements(queue') = Elements(queue) \cup {t}
    BY <1>3, <2>3, ElementsAppend
  <2>5. /\ queue'[head] = queue[head] /\ \A i \in 1 .. head : queue'[i] = queue[i]
        /\ \A i \in 1 .. Len(queue') : i = Len(queue) + 1 \/ i \in 1 .. Len(queue)
    <3>1. \A i \in 1 .. head : i \in 1 .. Len(queue)
      BY <1>3
    <3>2. Len(queue') = Len(queue) + 1
      BY <2>4
    <3>3. \A i \in 1 .. Len(queue') : i = Len(queue) + 1 \/ i \in 1 .. Len(queue)
      BY <1>3, <3>2
    <3>. QED  BY <2>2, <2>4, <3>1, <3>3
  <2>6. \A i \in 1 .. Len(queue) :
          queue[i] \in DOMAIN d /\ d[queue[i]] \in Nat /\ d[queue[i]] <= d[t]
    BY <1>4, <2>2 DEF Sorted, Walked, Metric
  <2>7. Sorted(d)'
    <3>1. \A i \in 1 .. Len(queue') : queue'[i] \in DOMAIN d
      BY <2>2, <2>4, <2>5, <2>6
    <3>2. ASSUME NEW i \in 1 .. Len(queue'), NEW j \in 1 .. Len(queue'), i <= j
          PROVE  d[queue'[i]] <= d[queue'[j]]
      <4>1. CASE j \in 1 .. Len(queue)
        <5>1. i \in 1 .. Len(queue)
          BY <3>2, <4>1
        <5>. QED  BY <1>4, <2>4, <3>2, <4>1, <5>1 DEF Sorted
      <4>2. CASE j = Len(queue) + 1 /\ i \in 1 .. Len(queue)
        BY <2>4, <2>6, <4>2
      <4>3. CASE j = Len(queue) + 1 /\ i = Len(queue) + 1
        BY <2>2, <2>4, <4>3
      <4>. QED  BY <2>5, <4>1, <4>2, <4>3
    <3>3. ASSUME NEW i \in 1 .. Len(queue'), NEW e \in DOMAIN d, d[e] < d[queue'[i]]
          PROVE  e \in Elements(queue')
      <4>1. CASE i \in 1 .. Len(queue)
        BY <1>4, <2>4, <3>3, <4>1 DEF Sorted
      <4>2. CASE i = Len(queue) + 1
        <5>1. d[e] \in Nat /\ d[e] < d[t]
          BY <1>4, <2>4, <3>3, <4>2 DEF Metric
        <5>2. d[e] <= d[queue[head]]
          BY <2>2, <5>1
        <5>. QED  BY <2>2, <2>4, <5>2
      <4>. QED  BY <2>5, <4>1, <4>2
    <3>. QED  BY <3>1, <3>2, <3>3 DEF Sorted
  <2>8. Walked(d)'
    <3>1. ASSUME NEW i \in 1 .. head, Deep(d, queue[i])
          PROVE  Neighbors(queue[i]) \subseteq
                   Elements(queue') \cup (IF i = head THEN Pending' ELSE {})
      BY <1>4, <1>5, <2>4, <3>1 DEF Walked
    <3>2. Pending' \subseteq Neighbors(queue[head])
      BY <1>4, <1>5 DEF Walked
    <3>3. call.kind = "bounded" /\ call.max_depth # NoBound => d[t] <= call.max_depth
      <4>1. call.kind = "bounded" => call.max_depth \in Nat \cup {-1}
        BY <1>3, ArgAssumption DEF Call
      <4>. QED  BY <2>2, <4>1 DEF Deep, NoBound
    <3>4. ASSUME NEW i \in 1 .. Len(queue')
          PROVE  /\ d[queue'[i]] <= d[queue[head]] + 1
                 /\ call.kind = "bounded" =>
                      call.max_depth = NoBound \/ d[queue'[i]] <= call.max_depth
      <4>1. CASE i \in 1 .. Len(queue)
        BY <1>4, <2>2, <2>4, <4>1 DEF Walked
      <4>2. CASE i = Len(queue) + 1
        BY <2>2, <2>4, <3>3, <4>2
      <4>. QED  BY <2>5, <4>1, <4>2
    <3>. QED  BY SMTT(30), <1>2, <2>2, <2>5, <3>1, <3>2, <3>4 DEF Walked, Deep, Neighbors
  <2>9. Waves(d)'
    <3>. SUFFICES ASSUME call.kind = "bounded" PROVE Waves(d)'
      BY <1>2 DEF Waves
    <3>1. head <= wave_end /\ depth = d[queue[head]]
      BY <1>4, <2>2 DEF Waves, Reach
    <3>2. ASSUME NEW i \in 1 .. Len(queue')
          PROVE  IF i <= wave_end THEN d[queue'[i]] <= depth ELSE d[queue'[i]] = depth + 1
      <4>1. CASE i \in 1 .. Len(queue)
        BY <1>4, <2>4, <4>1 DEF Waves
      <4>2. CASE i = Len(queue) + 1
        <5>1. wave_end <= Len(queue)
          BY DEF IInv, TypeOK
        <5>. QED  BY <1>3, <2>2, <2>4, <3>1, <4>2, <5>1
      <4>. QED  BY <2>5, <4>1, <4>2
    <3>. QED  BY <1>2, <2>2, <2>5, <3>1, <3>2 DEF Waves, Reach
  <2>10. Reported(d)' /\ Capped' /\ phase' \in {phase, "stopped"}
    <3>1. CASE call.kind = "bounded"
      <4>1. d[t] = depth + 1
        BY <1>4, <2>2, <3>1 DEF Waves, Reach
      <4>2. PICK k \in Nat : k = depth + 1 /\ k > 0
        BY <1>3
      <4>3. IF TRUE THEN Emit(t, k) ELSE UNCHANGED <<phase, out, depths>>
        BY <2>3, <3>1, <4>2
      <4>4. d[t] = k /\ phase \in {"seed", "expand"} /\ call' = call /\ head' = head
        BY <1>2, <4>1, <4>2
      <4>5. Reported(d) /\ Capped /\ queue' = Append(queue, t)
        BY <1>4, <2>3
      <4>. QED  BY <1>3, <3>1, <4>2, <4>3, <4>4, <4>5, ReportStep
    <3>2. CASE call.kind # "bounded"
      <4>1. UNCHANGED <<phase, out, depths>>
        BY <2>3, <3>2
      <4>2. call.kind = "iter" => Len(out) = head /\ \A i \in 1 .. head : out[i] = queue[i]
        BY <1>4 DEF Reported
      <4>. QED  BY <1>2, <2>5, <3>2, <4>1, <4>2 DEF Reported, Capped
    <3>. QED  BY <3>1, <3>2
  <2>11. Seeded'
    BY <1>2, <1>4, <2>4, <2>10 DEF Seeded
  <2>. QED  BY <1>2, <1>3, <1>d, <2>7, <2>8, <2>9, <2>10, <2>11, SearchGoesOn
<1>. QED  BY <1>7, <1>8

\* One seed of the driver's loop.
LEMMA SeedSearch ==
  ASSUME IInv, SearchInv, MetricOK, Seed
  PROVE  SearchInv'
<1>1. PICK s \in rows.first :
        /\ Take(s)
        /\ IF s \in Index(graph)
             THEN Visit(s, call.include_seeds, 0)
             ELSE phase' = "stopped" /\ UNCHANGED <<marks, queue, out, depths>>
  BY DEF Seed
<1>2. phase = "seed" /\ UNCHANGED <<epoch, head, wave_end, depth, graph, call>>
  BY DEF Seed, request
<1>3. /\ call \in Call /\ graph \in Views /\ queue \in Seq(Node) /\ Len(queue) \in Nat
      /\ out \in Seq(Node) /\ Len(out) \in Nat /\ depths \in Seq(Nat) /\ Len(depths) \in Nat
      /\ rows \in [first : SUBSET Node, second : SUBSET Node]
  BY <1>2, Searching
<1>d. PICK d : d = Distances
  OBVIOUS
<1>4. /\ Metric(d) /\ Seeded
      /\ call.seeds \subseteq Index(graph) => Sorted(d) /\ Reported(d) /\ Capped
  BY <1>2, <1>d, Searching DEF Ordered
<1>5. /\ call.kind = "bounded" /\ head = 0 /\ depth = 0 /\ wave_end = 0
      /\ rows.second = {} /\ call.seeds = Elements(queue) \cup rows.first
      /\ s \in call.seeds /\ s \in Node
  BY <1>2, <1>3, <1>4 DEF Seeded
<1>6. rows'.second = {} /\ rows.first = rows'.first \cup {s}
  BY <1>1, <1>2, <1>3, <1>5, TakeRows
<1>7. /\ s \in DOMAIN d /\ d[s] = 0 /\ \A e \in DOMAIN d : d[e] \in Nat
      /\ \A i \in 1 .. Len(queue) : queue[i] \in DOMAIN d /\ d[queue[i]] = 0
  <2>1. \A i \in 1 .. Len(queue) : queue[i] \in call.seeds
    BY <1>5 DEF Elements
  <2>. QED  BY <1>4, <1>5, <2>1 DEF Metric
<1>8. CASE s \notin Index(graph)
  <2>1. phase' = "stopped" /\ ~(call.seeds \subseteq Index(graph))
    BY <1>1, <1>5, <1>8
  <2>2. Seeded'
    BY <2>1 DEF Seeded
  <2>. QED  BY <1>2, <1>3, <1>d, <2>1, <2>2, SearchGoesOn
<1>9. CASE s \in Index(graph) /\ marks[s] = epoch
  <2>1. UNCHANGED <<marks, queue, phase, out, depths>>
    BY <1>1, <1>9 DEF Visit
  <2>2. s \in Elements(queue)
    BY <1>2, <1>9 DEF IInv, RowsValid, MarkedIsQueued
  <2>3. Seeded'
    BY <1>2, <1>5, <1>6, <2>1, <2>2 DEF Seeded, Elements
  <2>4. call.seeds \subseteq Index(graph) => Sorted(d)' /\ Reported(d)' /\ Capped'
    BY <1>2, <1>4, <2>1 DEF Sorted, Reported, Capped, Elements
  <2>. QED  BY <1>2, <1>3, <1>d, <2>1, <2>3, <2>4, SearchGoesOn
<1>10. CASE s \in Index(graph) /\ marks[s] # epoch
  <2>1. /\ queue' = Append(queue, s)
        /\ IF call.include_seeds THEN Emit(s, 0) ELSE UNCHANGED <<phase, out, depths>>
    BY <1>1, <1>10 DEF Visit
  <2>2. /\ Len(queue') = Len(queue) + 1 /\ queue'[Len(queue) + 1] = s
        /\ \A i \in 1 .. Len(queue) : queue'[i] = queue[i]
        /\ Elements(queue') = Elements(queue) \cup {s}
    BY <1>3, <1>5, <2>1, ElementsAppend
  <2>3. \A i \in 1 .. Len(queue') : queue'[i] \in DOMAIN d /\ d[queue'[i]] = 0
    <3>1. Len(queue') = Len(queue) + 1
      BY <2>2
    <3>2. \A i \in 1 .. Len(queue') : i = Len(queue) + 1 \/ i \in 1 .. Len(queue)
      BY <1>3, <3>1
    <3>. QED  BY <1>7, <2>2, <3>2
  <2>4. Sorted(d)'
    BY <1>7, <2>3 DEF Sorted
  <2>5. phase' \in {phase, "stopped"}
    BY <2>1 DEF Emit
  <2>6. call.seeds \subseteq Index(graph) => Reported(d)' /\ Capped'
    <3>. SUFFICES ASSUME call.seeds \subseteq Index(graph) PROVE Reported(d)' /\ Capped'
      OBVIOUS
    <3>1. Reported(d) /\ Capped
      BY <1>4
    <3>2. PICK k \in Nat : k = 0
      OBVIOUS
    <3>3. call.include_seeds \in BOOLEAN
      BY <1>3, <1>5 DEF Call
    <3>4. ~call.include_seeds => Len(out) = 0
      <4>. SUFFICES ASSUME ~call.include_seeds PROVE Len(out) = 0
        OBVIOUS
      <4>1. /\ Len(out) <= Len(queue)
            /\ \A i \in 1 .. Len(queue) : i <= Len(queue) - Len(out) <=> d[queue[i]] = 0
        BY <1>5, <3>1 DEF Reported
      <4>2. CASE Len(queue) = 0
        BY <1>3, <4>1, <4>2
      <4>3. CASE Len(queue) > 0
        <5>1. Len(queue) \in 1 .. Len(queue)
          BY <1>3, <4>3
        <5>2. Len(queue) <= Len(queue) - Len(out)
          BY <1>7, <4>1, <5>1
        <5>. QED  BY <1>3, <5>2
      <4>. QED  BY <1>3, <4>2, <4>3
    <3>5. IF call.include_seeds THEN Emit(s, k) ELSE UNCHANGED <<phase, out, depths>>
      BY <2>1, <3>2
    <3>6. d[s] = k /\ phase \in {"seed", "expand"} /\ call' = call /\ head' = head
      BY <1>2, <1>7, <3>2
    <3>. QED  BY <1>3, <1>5, <2>1, <3>1, <3>2, <3>3, <3>4, <3>5, <3>6, ReportStep
  <2>7. Seeded'
    BY <1>2, <1>5, <1>6, <2>2, <2>5 DEF Seeded
  <2>. QED  BY <1>2, <1>3, <1>d, <2>4, <2>5, <2>6, <2>7, SearchGoesOn
<1>. QED  BY <1>8, <1>9, <1>10

\* The seeds are queued: the first wave.
LEMMA SeedsDoneSearch ==
  ASSUME IInv, SearchInv, MetricOK, SeedsDone
  PROVE  SearchInv'
<1>1. /\ phase = "seed" /\ rows = NoRows /\ wave_end' = Len(queue) /\ phase' = "expand"
      /\ UNCHANGED <<marks, epoch, queue, head, depth, rows, out, depths, graph, call>>
  BY DEF SeedsDone, request
<1>2. call \in Call /\ queue \in Seq(Node) /\ Len(queue) \in Nat
  BY <1>1, Searching
<1>d. PICK d : d = Distances
  OBVIOUS
<1>3. /\ Metric(d) /\ Seeded
      /\ call.seeds \subseteq Index(graph) => Sorted(d) /\ Reported(d) /\ Capped
  BY <1>1, <1>d, Searching DEF Ordered
<1>4. call.seeds = Elements(queue) /\ head = 0 /\ depth = 0 /\ call.kind = "bounded"
  BY <1>1, <1>3 DEF Seeded, NoRows
<1>5. \A i \in 1 .. Len(queue) : queue[i] \in DOMAIN d /\ d[queue[i]] = 0
  <2>1. \A i \in 1 .. Len(queue) : queue[i] \in call.seeds
    BY <1>4 DEF Elements
  <2>. QED  BY <1>3, <2>1 DEF Metric
<1>6. Seeded'
  BY <1>1, <1>4 DEF Seeded, Elements
<1>7. call.seeds \subseteq Index(graph) => Sorted(d)' /\ Reported(d)' /\ Capped'
  BY <1>1, <1>3 DEF Sorted, Reported, Capped, Elements
<1>8. Walked(d)'
  <2>1. call.max_depth \in Nat \cup {-1}
    BY <1>2, <1>4, ArgAssumption DEF Call
  <2>. QED  BY <1>1, <1>4, <1>5, <2>1 DEF Walked, NoBound
<1>9. Waves(d)'
  BY <1>1, <1>2, <1>4, <1>5 DEF Waves, Reach
<1>. QED  BY <1>1, <1>2, <1>d, <1>6, <1>7, <1>8, <1>9, SearchGoesOn

\* The search pops an element; the driver may meet a new wave.
LEMMA PopSearch ==
  ASSUME IInv, SearchInv, MetricOK, Pop
  PROVE  SearchInv'
<1>1. /\ phase = "expand" /\ rows = NoRows /\ head < Len(queue) /\ head' = head + 1
      /\ UNCHANGED <<marks, epoch, phase, queue, depths, graph, call>>
  BY DEF Pop, request
<1>2. /\ call \in Call /\ graph \in Views /\ queue \in Seq(Node) /\ Len(queue) \in Nat
      /\ head \in 0 .. Len(queue) /\ wave_end \in Nat /\ depth \in Nat
      /\ out \in Seq(Node) /\ Len(out) \in Nat
  BY <1>1, Searching
<1>d. PICK d : d = Distances
  OBVIOUS
<1>3. /\ Metric(d) /\ Sorted(d) /\ Reported(d) /\ Capped /\ Walked(d) /\ Waves(d)
      /\ call.seeds \subseteq Elements(queue)
  BY <1>1, <1>d, Searching DEF Ordered, Seeded
<1>q. PICK q : q = queue[head + 1]
  OBVIOUS
<1>4. head + 1 \in 1 .. Len(queue) /\ q \in DOMAIN d /\ d[q] \in Nat /\ q \in Node
  <2>1. head + 1 \in 1 .. Len(queue)
    BY <1>1, <1>2
  <2>. QED  BY <1>3, <1>q, <2>1 DEF Sorted, Metric
<1>5. Pending = {}
  BY <1>1 DEF Pending, NoRows
<1>6. \A i \in 1 .. Len(queue) : queue[i] \in DOMAIN d /\ d[queue[i]] \in Nat
  BY <1>3 DEF Sorted, Metric
<1>7. head > 0 => head \in 1 .. Len(queue) /\ d[queue[head]] <= d[q]
  <2>1. head > 0 => head \in 1 .. Len(queue) /\ head <= head + 1
    BY <1>2
  <2>. QED  BY <1>3, <1>4, <1>q, <2>1 DEF Sorted
<1>8. call.kind = "bounded" =>
        /\ depth' = d[q] /\ head' <= wave_end'
        /\ \A i \in 1 .. Len(queue) :
             IF i <= wave_end' THEN d[queue[i]] <= depth' ELSE d[queue[i]] = depth' + 1
  <2>. SUFFICES ASSUME call.kind = "bounded" PROVE <1>8!2
    OBVIOUS
  <2>1. /\ head <= wave_end /\ depth = Reach(d)
        /\ \A i \in 1 .. Len(queue) :
             IF i <= wave_end THEN d[queue[i]] <= depth ELSE d[queue[i]] = depth + 1
    BY <1>3 DEF Waves
  <2>2. CASE head = wave_end
    <3>1. depth' = depth + 1 /\ wave_end' = Len(queue)
      BY <2>2 DEF Pop
    <3>2. d[q] = depth + 1
      BY <1>2, <1>4, <1>q, <2>1, <2>2
    <3>3. \A i \in 1 .. Len(queue) : d[queue[i]] <= depth + 1
      BY <1>2, <1>6, <2>1
    <3>. QED  BY <1>1, <1>2, <3>1, <3>2, <3>3
  <2>3. CASE head # wave_end
    <3>1. UNCHANGED <<depth, wave_end>>
      BY <2>3 DEF Pop
    <3>2. head + 1 <= wave_end
      BY <1>2, <2>1, <2>3
    <3>3. d[q] <= depth
      BY <1>4, <1>q, <2>1, <3>2
    <3>4. depth <= d[q]
      BY <1>2, <1>4, <1>7, <2>1 DEF Reach
    <3>. QED  BY <1>1, <1>2, <1>4, <2>1, <3>1, <3>2, <3>3, <3>4
  <2>. QED  BY <2>2, <2>3
<1>9. rows' = IF Deep(d, q) THEN Rows(graph, call.dir, q) ELSE NoRows
  <2>1. CASE call.kind = "bounded"
    <3>1. rows' = IF Expands(depth') THEN Rows(graph, call.dir, q) ELSE NoRows
      BY <1>q, <2>1 DEF Pop
    <3>2. Expands(depth') <=> Deep(d, q)
      BY <1>8, <2>1 DEF Expands, Deep
    <3>. QED  BY <3>1, <3>2
  <2>2. CASE call.kind # "bounded"
    BY <1>q, <2>2 DEF Pop, Deep
  <2>. QED  BY <2>1, <2>2
<1>10. Deep(d, q) => Pending' = Neighbors(q)
  BY <1>9 DEF Pending, Neighbors
<1>11. rows' # NoRows => Deep(d, q)
  BY <1>9
<1>12. Sorted(d)'
  BY <1>1, <1>3 DEF Sorted, Elements
<1>13. Walked(d)'
  <2>1. ASSUME NEW i \in 1 .. head + 1, Deep(d, queue[i])
        PROVE  Neighbors(queue[i]) \subseteq
                 Elements(queue) \cup (IF i = head + 1 THEN Pending' ELSE {})
    <3>1. CASE i = head + 1
      BY <1>10, <1>q, <2>1, <3>1
    <3>2. CASE i \in 1 .. head
      <4>1. Neighbors(queue[i]) \subseteq Elements(queue)
        BY <1>3, <1>5, <2>1, <3>2 DEF Walked
      <4>. QED  BY <4>1
    <3>3. i = head + 1 \/ i \in 1 .. head
      BY <1>2
    <3>. QED  BY <3>1, <3>2, <3>3
  <2>2. ASSUME NEW i \in 1 .. Len(queue)
        PROVE  /\ d[queue[i]] <= d[q] + 1
               /\ call.kind = "bounded" =>
                    call.max_depth = NoBound \/ d[queue[i]] <= call.max_depth
    <3>1. d[queue[i]] <= (IF head = 0 THEN 0 ELSE d[queue[head]] + 1)
      BY <1>3 DEF Walked
    <3>2. CASE head = 0
      BY <1>3, <1>4, <1>6, <3>1, <3>2 DEF Walked
    <3>3. CASE head # 0
      <4>1. d[queue[head]] \in Nat /\ d[queue[head]] <= d[q]
        BY <1>2, <1>6, <1>7, <3>3
      <4>2. d[queue[i]] <= d[q] + 1
        BY <1>4, <1>6, <3>1, <3>3, <4>1
      <4>. QED  BY <1>3, <4>2 DEF Walked
    <3>. QED  BY <3>2, <3>3
  <2>3. head' > 0 /\ head' # 0 /\ head' = head + 1
    BY <1>1, <1>2
  <2>4. rows' # NoRows => Deep(d, q) /\ Pending' \subseteq Neighbors(q)
    BY <1>10, <1>11
  <2>. QED  BY <1>1, <1>q, <2>1, <2>2, <2>3, <2>4 DEF Walked, Deep, Neighbors, Elements
<1>14. Waves(d)'
  <2>1. head' # 0 /\ queue'[head'] = q
    BY <1>1, <1>2, <1>q
  <2>. QED  BY <1>1, <1>8, <2>1 DEF Waves, Reach
<1>15. Reported(d)' /\ Capped'
  <2>1. CASE call.kind = "bounded"
    <3>1. out' = out
      BY <2>1 DEF Pop
    <3>. QED  BY <1>1, <1>3, <2>1, <3>1 DEF Reported, Capped
  <2>2. CASE call.kind # "bounded"
    <3>1. out' = Append(out, q)
      BY <1>q, <2>2 DEF Pop
    <3>2. call.kind = "iter" => Len(out) = head /\ \A i \in 1 .. head : out[i] = queue[i]
      BY <1>3 DEF Reported
    <3>3. /\ Len(out') = Len(out) + 1 /\ out'[Len(out) + 1] = q
          /\ \A i \in 1 .. Len(out) : out'[i] = out[i]
      BY <1>2, <1>4, <3>1, AppendProperties
    <3>4. \A i \in 1 .. head + 1 : i = head + 1 \/ i \in 1 .. head
      BY <1>2
    <3>. QED  BY <1>1, <1>q, <2>2, <3>2, <3>3, <3>4 DEF Reported, Capped
  <2>. QED  BY <2>1, <2>2
<1>16. Seeded'
  BY <1>1, <1>3 DEF Seeded, Elements
<1>. QED  BY <1>1, <1>2, <1>d, <1>12, <1>13, <1>14, <1>15, <1>16, SearchGoesOn

\* The search ends, or its iterator is dropped.
LEMMA EndSearch ==
  ASSUME IInv, SearchInv, MetricOK, Finish \/ Drop
  PROVE  SearchInv'
<1>1. /\ phase = "expand" /\ rows = NoRows
      /\ phase' = "stopped" \/ (phase' = "end" /\ head = Len(queue))
      /\ UNCHANGED <<marks, epoch, queue, head, wave_end, depth, rows, out, depths, graph, call>>
  BY DEF Finish, Drop, request
<1>2. call \in Call
  BY <1>1, Searching
<1>d. PICK d : d = Distances
  OBVIOUS
<1>3. /\ Sorted(d) /\ Reported(d) /\ Capped /\ Walked(d) /\ Waves(d)
      /\ call.seeds \subseteq Elements(queue)
  BY <1>1, <1>d, Searching DEF Ordered, Seeded
<1>4. Seeded'
  BY <1>1, <1>3 DEF Seeded, Elements
<1>5. Sorted(d)'
  BY <1>1, <1>3 DEF Sorted, Elements
<1>6. Reported(d)' /\ Capped'
  BY <1>1, <1>3 DEF Reported, Capped
<1>7. Walked(d)'
  BY <1>1, <1>3 DEF Walked, Deep, Neighbors, Elements, Pending
<1>8. Waves(d)'
  BY <1>1, <1>3 DEF Waves, Reach
<1>. QED  BY <1>1, <1>2, <1>d, <1>4, <1>5, <1>6, <1>7, <1>8, SearchGoesOn

\* A driver starts with its seeds to queue and nothing reported.
LEMMA StartBoundedSearch ==
  ASSUME IInv, SearchInv, phase = "idle",
         NEW g \in Views, NEW c \in Call, StartBounded(g, c)
  PROVE  SearchInv'
<1>1. /\ c.kind = "bounded" /\ call' = c /\ phase' = "seed"
      /\ rows' = [first |-> c.seeds, second |-> {}]
      /\ UNCHANGED <<queue, head, wave_end, depth, out, depths>>
  BY DEF StartBounded, Fresh, NoRows
<1>2. queue = << >> /\ head = 0 /\ wave_end = 0 /\ depth = 0 /\ out = << >> /\ depths = << >>
  BY DEF SearchInv, Clean
<1>3. Clean' /\ Seeded'
  BY <1>1, <1>2 DEF Clean, Seeded, Elements
<1>4. Ordered(Distances)'
  <2>1. Sorted(Distances)'
    BY <1>1, <1>2 DEF Sorted
  <2>2. Reported(Distances)' /\ Capped'
    BY <1>1, <1>2 DEF Reported, Capped
  <2>. QED  BY <1>1, <2>1, <2>2 DEF Ordered
<1>. QED  BY <1>1, <1>3, <1>4 DEF SearchInv

\* An iterator starts with its start in the queue.
LEMMA StartIterSearch ==
  ASSUME IInv, SearchInv, MetricOK', phase = "idle",
         NEW g \in Views, NEW c \in Call, StartIter(g, c)
  PROVE  SearchInv'
<1>1. PICK s \in Index(g) : c.seeds = {s} /\ queue' = << s >>
  BY DEF StartIter
<1>2. /\ c.kind = "iter" /\ call' = c /\ phase' = "expand" /\ rows' = NoRows
      /\ UNCHANGED <<head, wave_end, depth, out, depths>>
  BY DEF StartIter, Fresh
<1>3. head = 0 /\ out = << >>
  BY DEF SearchInv, Clean
<1>d. PICK d : d = Distances'
  OBVIOUS
<1>4. s \in DOMAIN d /\ d[s] = 0 /\ \A e \in DOMAIN d : d[e] \in Nat
  <2>1. Metric(Distances)'
    BY <1>2 DEF MetricOK
  <2>. QED  BY <1>1, <1>2, <1>d, <2>1 DEF Metric
<1>5. Len(queue') = 1 /\ queue'[1] = s /\ \A i \in 1 .. Len(queue') : queue'[i] = s
  BY <1>1
<1>6. Clean' /\ Seeded'
  BY <1>1, <1>2, <1>5 DEF Clean, Seeded, Elements
<1>7. Sorted(d)'
  BY <1>4, <1>5 DEF Sorted
<1>8. Reported(d)' /\ Capped'
  BY <1>2, <1>3 DEF Reported, Capped
<1>9. Walked(d)' /\ Waves(d)'
  BY <1>2, <1>3, <1>4, <1>5 DEF Walked, Waves
<1>10. Ordered(Distances)'
  BY <1>d, <1>7, <1>8, <1>9 DEF Ordered
<1>. QED  BY <1>2, <1>6, <1>10 DEF SearchInv

\* The invariant of a search holds at every step.
LEMMA SearchStep ==
  ASSUME IInv, SearchInv, MetricOK, MetricOK', [Next]_vars
  PROVE  SearchInv'
<1>1. CASE Start
  BY <1>1, StartBoundedSearch, StartIterSearch DEF Start
<1>2. CASE Return
  BY <1>2 DEF Return, SearchInv, Clean
<1>3. CASE UNCHANGED vars
  <2>1. UNCHANGED <<phase, queue, head, wave_end, depth, rows, out, depths, graph, call>>
    BY <1>3 DEF vars
  <2>2. CASE phase = "idle"
    BY <2>1, <2>2 DEF SearchInv, Clean
  <2>3. CASE phase # "idle"
    <3>d. PICK d : d = Distances
      OBVIOUS
    <3>1. /\ call \in Call /\ Seeded
          /\ call.seeds \subseteq Index(graph) =>
               /\ Sorted(d) /\ Reported(d) /\ Capped
               /\ phase \in {"expand", "end"} => Walked(d) /\ Waves(d)
      BY <2>3, <3>d DEF SearchInv, Ordered
    <3>2. Seeded'
      BY <2>1, <3>1 DEF Seeded, Elements
    <3>3. Sorted(d) => Sorted(d)'
      BY <2>1 DEF Sorted, Elements
    <3>4. Reported(d) /\ Capped => Reported(d)' /\ Capped'
      BY <2>1 DEF Reported, Capped
    <3>5. Walked(d) => Walked(d)'
      BY <2>1 DEF Walked, Deep, Neighbors, Elements, Pending
    <3>6. Waves(d) => Waves(d)'
      BY <2>1 DEF Waves, Reach
    <3>. QED  BY <2>1, <2>3, <3>d, <3>1, <3>2, <3>3, <3>4, <3>5, <3>6, SearchGoesOn
  <2>. QED  BY <2>2, <2>3
<1>. QED
  BY <1>1, <1>2, <1>3, SeedSearch, SeedsDoneSearch, PopSearch, DiscoverSearch, EndSearch
     DEF Next, Step

-----------------------------------------------------------------------------
(* What a search reports *)

\* Where the reported elements are in the queue: at the end of it or, for an
\* iterator, at its front.
LEMMA OutInQueue ==
  ASSUME IInv, SearchInv, MetricOK, phase # "idle", call.seeds \subseteq Index(graph)
  PROVE  \E off \in Nat :
           /\ \A i \in 1 .. Len(out) : i + off \in 1 .. Len(queue) /\ out[i] = queue[i + off]
           /\ call.kind = "iter" => off = 0 /\ Len(out) = head
           /\ call.kind = "bounded" => off = Len(queue) - Len(out)
           /\ call.kind = "bounded" /\ call.include_seeds => off = 0
           /\ call.kind = "bounded" /\ ~call.include_seeds =>
                \A i \in 1 .. Len(queue) : i <= off <=> Distances[queue[i]] = 0
<1>1. /\ call \in Call /\ Len(queue) \in Nat /\ Len(out) \in Nat /\ head \in 0 .. Len(queue)
      /\ Reported(Distances)
  BY Searching DEF Ordered
<1>2. CASE call.kind = "iter"
  <2>1. Len(out) = head /\ \A i \in 1 .. head : out[i] = queue[i]
    BY <1>1, <1>2 DEF Reported
  <2>2. \A i \in 1 .. Len(out) : i + 0 \in 1 .. Len(queue) /\ out[i] = queue[i + 0]
    BY <1>1, <2>1
  <2>. QED  BY <1>2, <2>1, <2>2
<1>3. CASE call.kind = "bounded"
  <2>1. /\ Len(out) <= Len(queue)
        /\ \A i \in 1 .. Len(out) : out[i] = queue[Len(queue) - Len(out) + i]
        /\ call.include_seeds => Len(out) = Len(queue)
        /\ ~call.include_seeds => \A i \in 1 .. Len(queue) :
             i <= Len(queue) - Len(out) <=> Distances[queue[i]] = 0
    BY <1>1, <1>3 DEF Reported
  <2>0. Len(queue) - Len(out) \in Nat
    BY <1>1, <2>1
  <2>2. PICK off \in Nat : off = Len(queue) - Len(out)
    BY <2>0
  <2>3. ASSUME NEW i \in 1 .. Len(out)
        PROVE  i + off \in 1 .. Len(queue) /\ out[i] = queue[i + off]
    <3>1. Len(queue) - Len(out) + i = i + off /\ i + off \in 1 .. Len(queue)
      BY <1>1, <2>1, <2>2
    <3>. QED  BY <2>1, <3>1
  <2>4. call.include_seeds => off = 0
    BY <1>1, <2>1, <2>2
  <2>. QED  BY <1>3, <2>1, <2>2, <2>3, <2>4
<1>. QED  BY <1>1, <1>2, <1>3 DEF Call

\* Elements are reported once, at their distance, and nearer ones before.
LEMMA SearchOrdered ==
  ASSUME IInv, SearchInv, MetricOK
  PROVE  BreadthOrder
<1>. SUFFICES ASSUME phase # "idle", call.seeds \subseteq Index(graph)
     PROVE  BreadthOrder
  BY DEF BreadthOrder
<1>d. PICK d : d = Distances
  OBVIOUS
<1>1. /\ call \in Call /\ Len(queue) \in Nat /\ Len(out) \in Nat
      /\ Metric(d) /\ Sorted(d) /\ Reported(d) /\ Capped
  BY <1>d, Searching DEF Ordered
<1>2. PICK off \in Nat :
        /\ \A i \in 1 .. Len(out) : i + off \in 1 .. Len(queue) /\ out[i] = queue[i + off]
        /\ call.kind = "iter" => off = 0 /\ Len(out) = head
        /\ call.kind = "bounded" => off = Len(queue) - Len(out)
        /\ call.kind = "bounded" /\ call.include_seeds => off = 0
        /\ call.kind = "bounded" /\ ~call.include_seeds =>
             \A i \in 1 .. Len(queue) : i <= off <=> d[queue[i]] = 0
  BY <1>d, OutInQueue
<1>3. ASSUME NEW i \in 1 .. Len(out), NEW j \in 1 .. Len(out), out[i] = out[j] PROVE i = j
  <2>1. /\ i + off \in 1 .. Len(queue) /\ j + off \in 1 .. Len(queue)
        /\ queue[i + off] = queue[j + off]
    BY <1>2, <1>3
  <2>2. \A a, b \in 1 .. Len(queue) : queue[a] = queue[b] => a = b
    BY DEF IInv, QueueDistinct
  <2>3. i + off = j + off
    BY <2>1, <2>2
  <2>. QED  BY <1>1, <2>3
<1>4. ASSUME NEW i \in 1 .. Len(out), call.kind = "bounded"
      PROVE  /\ depths[i] = d[out[i]]
             /\ call.limit # 0 => Len(out) <= call.limit
  BY <1>1, <1>4 DEF Reported, Capped
<1>5. ASSUME NEW i \in 1 .. Len(out), NEW e \in DOMAIN d, d[e] < d[out[i]],
             call.kind = "bounded" => call.include_seeds \/ d[e] > 0
      PROVE  \E j \in 1 .. i : out[j] = e
  <2>1. i + off \in 1 .. Len(queue) /\ out[i] = queue[i + off]
    BY <1>2
  <2>2. PICK p \in 1 .. Len(queue) : queue[p] = e
    BY <1>1, <1>5, <2>1 DEF Sorted, Elements
  <2>3. d[e] \in Nat /\ d[out[i]] \in Nat
    BY <1>1, <2>1 DEF Metric, Sorted
  <2>4. ~(i + off <= p)
    BY <1>1, <1>5, <2>1, <2>2, <2>3 DEF Sorted
  <2>5. p > off
    <3>1. off = 0 \/ (call.kind = "bounded" /\ ~call.include_seeds)
      BY <1>1, <1>2 DEF Call
    <3>2. CASE off = 0
      BY <3>2
    <3>3. CASE call.kind = "bounded" /\ ~call.include_seeds
      <4>1. d[queue[p]] # 0
        BY <1>5, <2>2, <2>3, <3>3
      <4>2. ~(p <= off)
        BY <1>2, <3>3, <4>1
      <4>. QED  BY <4>2
    <3>. QED  BY <3>1, <3>2, <3>3
  <2>6. p - off \in 1 .. i /\ p - off \in 1 .. Len(out) /\ (p - off) + off = p
    BY <1>1, <2>4, <2>5
  <2>7. out[p - off] = e
    BY <1>2, <2>2, <2>6
  <2>. QED  BY <2>6, <2>7
<1>. QED  BY <1>d, <1>3, <1>4, <1>5 DEF BreadthOrder

\* When the queue is drained it holds everything within the bounds.
LEMMA SearchWhole ==
  ASSUME IInv, SearchInv, MetricOK, phase = "end", NEW e \in DOMAIN Distances,
         call.kind = "bounded" => call.max_depth = NoBound \/ Distances[e] <= call.max_depth
  PROVE  e \in Elements(queue)
<1>d. PICK d : d = Distances
  OBVIOUS
<1>1. /\ call \in Call /\ Len(queue) \in Nat /\ rows = NoRows /\ head = Len(queue)
      /\ call.seeds \subseteq Elements(queue) /\ Metric(d) /\ Walked(d)
  BY <1>d, Searching DEF Seeded
<1>2. call.kind = "bounded" => call.max_depth \in Nat \cup {-1}
  BY <1>1, ArgAssumption DEF Call
<1>3. d[e] \in Nat /\ e \in DOMAIN d
  BY <1>1, <1>d DEF Metric
<1>. DEFINE T == {k \in 0 .. d[e] : \A x \in DOMAIN d : d[x] = k => x \in Elements(queue)}
<1>4. 0 \in T
  BY <1>1, <1>3 DEF Metric
<1>5. ASSUME NEW k \in 1 .. d[e], k - 1 \in T PROVE k \in T
  <2>. SUFFICES ASSUME NEW x \in DOMAIN d, d[x] = k PROVE x \in Elements(queue)
    BY <1>3
  <2>1. d[x] > 0
    BY <1>3
  <2>2. PICK y \in DOMAIN d : d[y] = d[x] - 1 /\ x \in Neighbors(y)
    BY <1>1, <2>1 DEF Metric
  <2>3. y \in Elements(queue)
    BY <1>5, <2>2
  <2>4. PICK i \in 1 .. Len(queue) : queue[i] = y
    BY <2>3 DEF Elements
  <2>5. Deep(d, y)
    <3>1. d[y] < d[e]
      BY <1>3, <2>2
    <3>. QED  BY <1>2, <1>3, <1>d, <2>2, <3>1 DEF Deep, NoBound
  <2>6. Pending = {}
    BY <1>1 DEF Pending, NoRows
  <2>7. Neighbors(y) \subseteq Elements(queue)
    BY <1>1, <2>4, <2>5, <2>6 DEF Walked
  <2>. QED  BY <2>2, <2>7
<1>6. \A k \in 0 .. d[e] : k \in T
  <2>. HIDE DEF T
  <2>. QED  BY <1>3, <1>4, <1>5, AllUpTo
<1>7. d[e] \in T
  <2>1. d[e] \in 0 .. d[e]
    BY <1>3
  <2>. HIDE DEF T
  <2>. QED  BY <1>6, <2>1
<1>. QED  BY <1>3, <1>7

\* A search that ran to its end reported what is within its bounds, and nothing else.
LEMMA SearchComplete ==
  ASSUME IInv, SearchInv, MetricOK
  PROVE  Complete
<1>. SUFFICES ASSUME phase = "end" PROVE Complete
  BY DEF Complete
<1>d. PICK d : d = Distances
  OBVIOUS
<1>1. /\ call \in Call /\ Len(queue) \in Nat /\ Len(out) \in Nat /\ head = Len(queue)
      /\ call.seeds \subseteq Index(graph) /\ Metric(d) /\ Sorted(d) /\ Walked(d)
  BY <1>d, Searching DEF Ordered, Seeded
<1>2. PICK off \in Nat :
        /\ \A i \in 1 .. Len(out) : i + off \in 1 .. Len(queue) /\ out[i] = queue[i + off]
        /\ call.kind = "iter" => off = 0 /\ Len(out) = head
        /\ call.kind = "bounded" => off = Len(queue) - Len(out)
        /\ call.kind = "bounded" /\ call.include_seeds => off = 0
        /\ call.kind = "bounded" /\ ~call.include_seeds =>
             \A i \in 1 .. Len(queue) : i <= off <=> d[queue[i]] = 0
  BY <1>1, <1>d, OutInQueue
<1>. DEFINE Within(e) == call.kind = "bounded" =>
                           /\ call.max_depth = NoBound \/ d[e] <= call.max_depth
                           /\ call.include_seeds \/ d[e] > 0
<1>3. off = Len(queue) - Len(out)
  BY <1>1, <1>2 DEF Call
<1>4. ASSUME NEW e \in Elements(out) PROVE e \in DOMAIN d /\ Within(e)
  <2>1. PICK i \in 1 .. Len(out) : out[i] = e
    BY <1>4 DEF Elements
  <2>2. i + off \in 1 .. Len(queue) /\ e = queue[i + off]
    BY <1>2, <2>1
  <2>3. e \in DOMAIN d /\ d[e] \in Nat
    BY <1>1, <2>2 DEF Sorted, Metric
  <2>4. call.kind = "bounded" => call.max_depth = NoBound \/ d[e] <= call.max_depth
    BY <1>1, <2>2 DEF Walked
  <2>5. call.kind = "bounded" /\ ~call.include_seeds => d[e] # 0
    <3>1. ~(i + off <= off)
      OBVIOUS
    <3>. QED  BY <1>2, <2>2, <3>1
  <2>. QED  BY <2>3, <2>4, <2>5
<1>5. ASSUME NEW e \in DOMAIN d, Within(e) PROVE e \in Elements(out)
  <2>1. e \in Elements(queue)
    BY <1>5, <1>d, SearchWhole
  <2>2. PICK p \in 1 .. Len(queue) : queue[p] = e
    BY <2>1 DEF Elements
  <2>3. d[e] \in Nat
    BY <1>1 DEF Metric
  <2>4. p > off
    <3>1. off = 0 \/ (call.kind = "bounded" /\ ~call.include_seeds)
      BY <1>1, <1>2 DEF Call
    <3>2. CASE call.kind = "bounded" /\ ~call.include_seeds
      <4>1. d[queue[p]] # 0
        BY <1>5, <2>2, <2>3, <3>2
      <4>2. ~(p <= off)
        BY <1>2, <3>2, <4>1
      <4>. QED  BY <4>2
    <3>. QED  BY <3>1, <3>2
  <2>5. p - off \in 1 .. Len(out) /\ (p - off) + off = p
    BY <1>1, <1>3, <2>4
  <2>6. out[p - off] = e
    BY <1>2, <2>2, <2>5
  <2>. QED  BY <2>5, <2>6 DEF Elements
<1>6. Elements(out) = {e \in DOMAIN d : Within(e)}
  BY <1>4, <1>5
<1>. QED  BY <1>d, <1>6 DEF Complete

\* What every search reports, over whatever scratch earlier ones left: each element at
\* most once, at its shortest depth and after every nearer one, never beyond the cap,
\* and, if nothing stops it, everything within its bounds (bounded.rs, core.rs).
THEOREM SearchSafe == Spec => []SearchCorrect
<1>1. Init => SearchInv
  BY DEF Init, SearchInv, Clean
<1>2. IInv => MetricOK
  BY DistancesMetric DEF IInv, TypeOK, MetricOK
<1>3. IInv /\ SearchInv /\ MetricOK /\ IInv' /\ MetricOK' /\ [Next]_vars => SearchInv'
  BY SearchStep
<1>4. IInv /\ SearchInv /\ MetricOK => SearchCorrect
  <2>. SUFFICES ASSUME IInv, SearchInv, MetricOK PROVE SearchCorrect
    OBVIOUS
  <2>. QED  BY SearchOrdered, SearchComplete DEF SearchCorrect, IInv
<1>. QED  BY Invariant, <1>1, <1>2, <1>3, <1>4, PTL DEF Spec
=============================================================================
