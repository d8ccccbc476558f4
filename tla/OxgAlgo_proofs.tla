--------------------------- MODULE OxgAlgo_proofs ---------------------------
(***************************************************************************)
(* Proofs about OxgAlgo, for any graph, any elements, repeated or unknown, *)
(* and any bound on the nodes: hop distances, topological order and the    *)
(* longest path are those that the edges between the elements define.      *)
(*                                                                         *)
(* The sections say in turn what the closure of a relation is, what a      *)
(* queue and what was taken from it hold together, and how far each of the *)
(* loops is between two steps.  The invariant PathsInv, at the end, says   *)
(* that each call is somewhere along its loop.                             *)
(***************************************************************************)
EXTENDS OxgAlgo, OxgInduction, SequenceTheorems, FiniteSetTheorems

-----------------------------------------------------------------------------
(* The graph *)

\* The nodes are finitely many, and none of them is the mark for no node.
LEMMA NodesFinite ==
  /\ Bound \in Nat /\ Nodes \subseteq Nat /\ IsFiniteSet(Nodes) /\ Cardinality(Nodes) = Bound
  /\ NoNode \notin Nodes
<1>1. PICK c \in Nat : c = Cardinality(Nodes) /\ Nodes = 0 .. c - 1
  BY AlgoAssumption
<1>2. IsFiniteSet(0 .. c - 1)
  <2>1. PICK a, d \in Int : a = 0 /\ d = c - 1
    BY <1>1
  <2>2. IsFiniteSet(a .. d)
    BY FS_Interval
  <2>. QED  BY <2>1, <2>2
<1>3. \A x \in 0 .. c - 1 : x \in Nat /\ x # c
  OBVIOUS
<1>. QED  BY <1>1, <1>2, <1>3 DEF Bound, NoNode

\* The pairs after each round.
ClosureTable(b, c, R) ==
  /\ b \in [0 .. c -> SUBSET (Nodes \X Nodes)] /\ b[0] = R
  /\ \A k \in 1 .. c : b[k] = Further(R, b[k - 1])

\* Closure as a table of its rounds.
LEMMA ClosureLoop ==
  ASSUME NEW R \in SUBSET (Nodes \X Nodes)
  PROVE  \E b : ClosureTable(b, Len(Rounds), R) /\ Closure(R) = b[Len(Rounds)]
<1>. DEFINE n == Len(Rounds)
            A == SUBSET (Nodes \X Nodes)
            base == R
            Step(got, i) == Further(R, got)
            F == [k \in 1 .. n |-> [X \in A |-> Step(X, Rounds[k])]]
            Def(t) == [k \in 0 .. n |->
                         IF k = 0 THEN base
                         ELSE CHOOSE r \in {Step(acc, Rounds[k]) : acc \in {t[k - 1]}} : TRUE]
            After == CHOOSE t : t = Def(t)
<1>0. n \in Nat
  BY NodesFinite DEF Rounds
<1>1. base \in A
  OBVIOUS
<1>2. \A k \in 1 .. n, X \in A : Step(X, Rounds[k]) \in A
  BY DEF Further
<1>3. F \in [1 .. n -> [A -> A]]
  <2>. HIDE DEF A, Step, n
  <2>. QED  BY <1>2
<1>4. PICK b : Iterates(b, n, A, base, F)
  <2>. HIDE DEF A, F, base, n
  <2>. QED  BY <1>0, <1>1, <1>3, IteratesExist
<1>. HIDE DEF A, base, Step, n
<1>5. /\ b \in [0 .. n -> A] /\ b[0] = base
      /\ \A k \in 1 .. n : b[k] = Step(b[k - 1], Rounds[k])
  <2>1. b \in [0 .. n -> A] /\ b[0] = base /\ \A k \in 1 .. n : b[k] = F[k][b[k - 1]]
    BY <1>4 DEF Iterates
  <2>2. \A k \in 1 .. n : k - 1 \in 0 .. n
    BY <1>0
  <2>3. \A k \in 1 .. n : b[k - 1] \in A
    BY <2>1, <2>2
  <2>. QED  BY <2>1, <2>3
<1>6. ASSUME NEW t, NEW k \in 1 .. n
      PROVE  (CHOOSE r \in {Step(acc, Rounds[k]) : acc \in {t[k - 1]}} : TRUE) = Step(t[k - 1], Rounds[k])
  <2>1. {Step(acc, Rounds[k]) : acc \in {t[k - 1]}} = {Step(t[k - 1], Rounds[k])}
    OBVIOUS
  <2>. QED  BY <2>1, OnlyOne
<1>7. b = Def(b)
  <2>1. b = [k \in 0 .. n |-> b[k]]
    BY <1>5
  <2>2. ASSUME NEW k \in 0 .. n PROVE b[k] = Def(b)[k]
    <3>1. CASE k = 0
      BY <1>5, <3>1
    <3>2. CASE k \in 1 .. n
      BY <1>0, <1>5, <1>6, <3>2
    <3>. QED  BY <1>0, <3>1, <3>2
  <2>. QED  BY <2>1, <2>2
<1>8. After = Def(After)
  <2>1. \E t : t = Def(t)
    BY <1>7
  <2>. QED  BY <2>1
<1>9. Closure(R) = After[n]
  BY DEF Closure, Loop, base, Step, n
<1>. HIDE DEF After
<1>10. After[0] = base /\ \A k \in 1 .. n : After[k] = Step(After[k - 1], Rounds[k])
  <2>1. \A k \in 0 .. n : After[k] = Def(After)[k]
    BY <1>8
  <2>2. 0 \in 0 .. n /\ \A k \in 1 .. n : k \in 0 .. n /\ k # 0
    BY <1>0
  <2>. QED  BY <1>6, <2>1, <2>2
<1>11. After[n] = b[n]
  <2>1. PICK m, f : m \in Nat /\ m = n /\ f = After
    BY <1>0
  <2>2. m \in Nat /\ f[0] = b[0] /\ StayAlike(f, b, m)
    BY <1>5, <1>10, <2>1 DEF StayAlike
  <2>3. f[m] = b[m]
    BY ONLY <2>2, SameTable
  <2>. QED  BY <2>1, <2>3
<1>. QED  BY <1>5, <1>9, <1>11 DEF ClosureTable, A, base, Step, n

\* A relation is part of its closure, and the closure lies in every relation that holds it and
\* that one more step does not leave.
LEMMA ClosureLeast ==
  ASSUME NEW R \in SUBSET (Nodes \X Nodes), NEW T, R \subseteq T,
         \A a, m, b \in Nodes : <<a, m>> \in T /\ <<m, b>> \in R => <<a, b>> \in T
  PROVE  R \subseteq Closure(R) /\ Closure(R) \subseteq T /\ Closure(R) \subseteq Nodes \X Nodes
<1>1. PICK c \in Nat : c = Bound /\ Len(Rounds) = c
  BY NodesFinite DEF Rounds
<1>a. PICK b : ClosureTable(b, c, R) /\ Closure(R) = b[c]
  BY <1>1, ClosureLoop
<1>2. /\ b \in [0 .. c -> SUBSET (Nodes \X Nodes)] /\ b[0] = R
      /\ \A k \in 1 .. c : b[k] = Further(R, b[k - 1])
      /\ Closure(R) = b[c]
  BY <1>a DEF ClosureTable
<1>. DEFINE G == {k \in 0 .. c : R \subseteq b[k] /\ b[k] \subseteq T}
<1>3. 0 \in G
  BY <1>2
<1>4. ASSUME NEW k \in 1 .. c, k - 1 \in G PROVE k \in G
  <2>1. k \in 0 .. c /\ k - 1 \in 0 .. c
    OBVIOUS
  <2>2. b[k] = b[k - 1] \cup {p \in Nodes \X Nodes : \E m \in Nodes : <<p[1], m>> \in b[k - 1] /\ <<m, p[2]>> \in R}
    BY <1>2 DEF Further
  <2>3. \A x, y \in Nodes : <<x, y>> \in b[k] => <<x, y>> \in T
    <3>1. \A x, y \in Nodes : <<x, y>> \in b[k] =>
             <<x, y>> \in b[k - 1] \/ \E m \in Nodes : <<x, m>> \in b[k - 1] /\ <<m, y>> \in R
      BY <2>2
    <3>. QED  BY <1>4, <3>1
  <2>4. b[k] \subseteq T
    BY <1>2, <2>1, <2>3
  <2>. QED  BY <1>4, <2>1, <2>2, <2>4
<1>5. \A k \in 0 .. c : k \in G
  <2>. HIDE DEF G
  <2>. QED  BY <1>3, <1>4, AllUpTo
<1>. QED  BY <1>2, <1>5

\* One more step does not leave the closure: as many rounds as there are nodes are enough.
LEMMA ClosureClosed ==
  ASSUME NEW R \in SUBSET (Nodes \X Nodes), NEW a \in Nodes, NEW m \in Nodes, NEW z \in Nodes,
         <<a, m>> \in Closure(R), <<m, z>> \in R
  PROVE  <<a, z>> \in Closure(R)
<1>1. PICK c \in Nat : c = Bound /\ Len(Rounds) = c
  BY NodesFinite DEF Rounds
<1>a. PICK b : ClosureTable(b, c, R) /\ Closure(R) = b[c]
  BY <1>1, ClosureLoop
<1>2. /\ b \in [0 .. c -> SUBSET (Nodes \X Nodes)] /\ b[0] = R
      /\ \A k \in 1 .. c : b[k] = Further(R, b[k - 1])
      /\ Closure(R) = b[c]
  BY <1>a DEF ClosureTable
<1>3. PICK S : S = [k \in 0 .. c |-> {n \in Nodes : <<a, n>> \in b[k]}]
  OBVIOUS
<1>4. \A k \in 0 .. c : S[k] = {n \in Nodes : <<a, n>> \in b[k]} /\ S[k] \subseteq Nodes
  BY <1>3
<1>5. ASSUME NEW k \in 1 .. c
      PROVE  S[k] = S[k - 1] \cup {n \in Nodes : \E o \in S[k - 1] : <<o, n>> \in R}
  <2>1. k \in 0 .. c /\ k - 1 \in 0 .. c
    OBVIOUS
  <2>2. b[k] = b[k - 1] \cup {e \in Nodes \X Nodes : \E o \in Nodes : <<e[1], o>> \in b[k - 1] /\ <<o, e[2]>> \in R}
    BY <1>2 DEF Further
  <2>3. \A n \in Nodes : <<a, n>> \in b[k] <=>
           <<a, n>> \in b[k - 1] \/ \E o \in Nodes : <<a, o>> \in b[k - 1] /\ <<o, n>> \in R
    BY <2>2
  <2>. QED  BY <1>4, <2>1, <2>3
<1>6. \A k \in 0 .. c : IsFiniteSet(S[k]) /\ Cardinality(S[k]) \in Nat /\ Cardinality(S[k]) <= c
  BY <1>1, <1>4, NodesFinite, FS_Subset, FS_CardinalityType
<1>. DEFINE Shut(k) == \A o \in S[k], n \in Nodes : <<o, n>> \in R => n \in S[k]
            G == {k \in 0 .. c : Shut(k) \/ Cardinality(S[k]) >= k + 1}
<1>7. 0 \in G
  <2>1. CASE S[0] = {}
    BY <2>1
  <2>2. CASE S[0] # {}
    <3>1. Cardinality(S[0]) # 0
      BY <1>6, <2>2, FS_EmptySet
    <3>. QED  BY <1>6, <3>1
  <2>. QED  BY <2>1, <2>2
<1>8. ASSUME NEW k \in 1 .. c, k - 1 \in G PROVE k \in G
  <2>1. k \in 0 .. c /\ k - 1 \in 0 .. c /\ k \in Nat /\ k - 1 \in Nat
    OBVIOUS
  <2>2. CASE S[k] = S[k - 1]
    <3>1. Shut(k - 1)
      <4>1. \A o \in S[k - 1], n \in Nodes : <<o, n>> \in R => n \in S[k]
        BY <1>5
      <4>. QED  BY <2>2, <4>1
    <3>2. Shut(k)
      BY <2>2, <3>1
    <3>. QED  BY <2>1, <3>2
  <2>3. CASE S[k] # S[k - 1]
    <3>1. S[k - 1] \subseteq S[k]
      BY <1>5
    <3>2. ~Shut(k - 1)
      BY <1>4, <1>5, <2>1, <2>3
    <3>3. Cardinality(S[k - 1]) >= k
      BY <1>8, <2>1, <3>2
    <3>4. Cardinality(S[k - 1]) < Cardinality(S[k])
      <4>1. Cardinality(S[k - 1]) <= Cardinality(S[k]) /\ Cardinality(S[k - 1]) # Cardinality(S[k])
        BY <1>6, <2>1, <2>3, <3>1, FS_Subset
      <4>. QED  BY <1>6, <2>1, <4>1
    <3>5. Cardinality(S[k]) >= k + 1
      BY <1>6, <2>1, <3>3, <3>4
    <3>. QED  BY <2>1, <3>5
  <2>. QED  BY <2>2, <2>3
<1>9. c \in G
  <2>. HIDE DEF G
  <2>. QED  BY <1>7, <1>8, AllUpTo
<1>10. Shut(c)
  <2>1. c \in 0 .. c /\ ~(c >= c + 1)
    OBVIOUS
  <2>2. ~(Cardinality(S[c]) >= c + 1)
    BY <1>6, <2>1
  <2>. QED  BY <1>9, <2>2
<1>11. c \in 0 .. c
  OBVIOUS
<1>. QED  BY <1>2, <1>4, <1>10, <1>11

-----------------------------------------------------------------------------
(* What was taken from a queue and what it still holds *)

\* L lists the l elements that were queued, in order; the first h were taken.
Line(front, rest, L, h, l, A) ==
  /\ l \in Nat /\ h \in 0 .. l /\ L \in [1 .. l -> A]
  /\ front = [i \in 1 .. h |-> L[i]] /\ rest = [i \in 1 .. l - h |-> L[h + i]]

\* L and one more element.
With(L, l, x) == [i \in 1 .. l + 1 |-> IF i = l + 1 THEN x ELSE L[i]]

\* The elements of L and the one after them.
LEMMA WithIs ==
  ASSUME NEW l \in Nat, NEW L, NEW x
  PROVE  /\ With(L, l, x)[l + 1] = x
         /\ \A i \in 1 .. l : With(L, l, x)[i] = L[i]
         /\ \A i \in 1 .. l + 1 : i \in 1 .. l \/ i = l + 1
<1>1. \A i \in 1 .. l + 1 : i \in 1 .. l \/ i = l + 1
  OBVIOUS
<1>2. \A i \in 1 .. l : i \in 1 .. l + 1 /\ i # l + 1
  OBVIOUS
<1>3. l + 1 \in 1 .. l + 1
  OBVIOUS
<1>. QED  BY <1>1, <1>2, <1>3 DEF With

\* A function on an initial segment is a sequence.
LEMMA SegmentIsSeq ==
  ASSUME NEW S, NEW m \in Nat, NEW f \in [1 .. m -> S]
  PROVE  f \in Seq(S) /\ Len(f) = m /\ DOMAIN f = 1 .. m
OBVIOUS

\* A sequence that agrees with a function on its positions is that function.
LEMMA SeqIs ==
  ASSUME NEW A, NEW s \in Seq(A), NEW n \in Nat, Len(s) = n, NEW f, DOMAIN f = 1 .. n,
         f = [i \in 1 .. n |-> f[i]], \A i \in 1 .. n : s[i] = f[i]
  PROVE  s = f
<1>1. DOMAIN s = 1 .. n /\ s \in [1 .. n -> A]
  BY LenProperties
<1>2. s = [i \in 1 .. n |-> s[i]]
  BY <1>1
<1>. QED  BY <1>2

\* Both parts of a line are sequences.
LEMMA LineTyped ==
  ASSUME NEW A, NEW front, NEW rest, NEW L, NEW h, NEW l, Line(front, rest, L, h, l, A)
  PROVE  /\ l \in Nat /\ h \in Nat /\ h <= l /\ l - h \in Nat
         /\ front \in Seq(A) /\ Len(front) = h /\ rest \in Seq(A) /\ Len(rest) = l - h
         /\ \A i \in 1 .. h : front[i] = L[i] /\ L[i] \in A
         /\ \A i \in 1 .. l - h : rest[i] = L[h + i] /\ L[h + i] \in A
<1>1. l \in Nat /\ h \in Nat /\ h <= l /\ l - h \in Nat
  BY DEF Line
<1>2. \A i \in 1 .. h : i \in 1 .. l
  BY <1>1
<1>3. \A i \in 1 .. l - h : h + i \in 1 .. l
  BY <1>1
<1>4. front \in [1 .. h -> A] /\ rest \in [1 .. l - h -> A]
  BY <1>2, <1>3 DEF Line
<1>5. front \in Seq(A) /\ Len(front) = h
  BY <1>1, <1>4, SegmentIsSeq
<1>6. rest \in Seq(A) /\ Len(rest) = l - h
  BY <1>1, <1>4, SegmentIsSeq
<1>. QED  BY <1>1, <1>2, <1>3, <1>5, <1>6 DEF Line

\* Taking an element from the queue.
LEMMA LineTake ==
  ASSUME NEW A, NEW front, NEW rest, NEW L, NEW h, NEW l, Line(front, rest, L, h, l, A), rest # <<>>
  PROVE  /\ h + 1 \in 1 .. l /\ rest[1] = L[h + 1] /\ L[h + 1] \in A
         /\ Line(Append(front, rest[1]), Tail(rest), L, h + 1, l, A)
<1>1. /\ l \in Nat /\ h \in Nat /\ h <= l /\ l - h \in Nat
      /\ front \in Seq(A) /\ Len(front) = h /\ rest \in Seq(A) /\ Len(rest) = l - h
      /\ \A i \in 1 .. h : front[i] = L[i] /\ L[i] \in A
      /\ \A i \in 1 .. l - h : rest[i] = L[h + i] /\ L[h + i] \in A
  BY LineTyped
<1>2. l - h # 0
  BY <1>1
<1>3. h + 1 \in 1 .. l /\ 1 \in 1 .. l - h
  BY <1>1, <1>2
<1>4. rest[1] = L[h + 1] /\ L[h + 1] \in A
  BY <1>1, <1>3
<1>5. PICK x \in A : x = L[h + 1]
  BY <1>4
<1>6. Append(front, x) = [i \in 1 .. h + 1 |-> L[i]]
  <2>1. PICK s \in Seq(A) : s = Append(front, x) /\ Len(s) = h + 1 /\ s[h + 1] = x /\ \A i \in 1 .. h : s[i] = front[i]
    <3>1. /\ Append(front, x) \in Seq(A) /\ Len(Append(front, x)) = Len(front) + 1
          /\ Append(front, x)[Len(front) + 1] = x
          /\ \A i \in 1 .. Len(front) : Append(front, x)[i] = front[i]
      BY ONLY x \in A, <1>1, AppendProperties
    <3>2. Len(front) = h
      BY <1>1
    <3>. QED  BY <3>1, <3>2
  <2>2. \A i \in 1 .. h + 1 : i \in 1 .. h \/ i = h + 1
    BY <1>1
  <2>3. \A i \in 1 .. h + 1 : s[i] = L[i]
    BY <1>1, <1>5, <2>1, <2>2
  <2>4. PICK n \in Nat : n = h + 1
    BY <1>1
  <2>6. PICK f : f = [i \in 1 .. n |-> L[i]]
    OBVIOUS
  <2>5. s = f
    <3>1. Len(s) = n /\ DOMAIN f = 1 .. n /\ f = [i \in 1 .. n |-> f[i]] /\ \A i \in 1 .. n : s[i] = f[i]
      BY <2>1, <2>3, <2>4, <2>6
    <3>. QED  BY ONLY s \in Seq(A), n \in Nat, <3>1, SeqIs
  <2>. QED  BY <2>1, <2>4, <2>5, <2>6
<1>7. Tail(rest) = [i \in 1 .. l - (h + 1) |-> L[(h + 1) + i]]
  <2>1. PICK m \in Nat : m = l - (h + 1)
    BY <1>1, <1>3
  <2>2. PICK t \in Seq(A) : t = Tail(rest) /\ Len(t) = m /\ \A i \in 1 .. m : t[i] = rest[i + 1]
    <3>1. Tail(rest) \in Seq(A) /\ Len(Tail(rest)) = Len(rest) - 1 /\ \A i \in 1 .. Len(rest) - 1 : Tail(rest)[i] = rest[i + 1]
      BY <1>1, HeadTailProperties
    <3>2. Len(rest) - 1 = m
      BY <1>1, <2>1
    <3>. QED  BY <3>1, <3>2
  <2>3. \A i \in 1 .. m : i + 1 \in 1 .. l - h /\ h + (i + 1) = (h + 1) + i
    BY <1>1, <2>1
  <2>4. \A i \in 1 .. m : t[i] = L[(h + 1) + i]
    BY <1>1, <2>2, <2>3
  <2>5. PICK f : f = [i \in 1 .. m |-> L[(h + 1) + i]]
    OBVIOUS
  <2>6. t = f
    <3>1. Len(t) = m /\ DOMAIN f = 1 .. m /\ f = [i \in 1 .. m |-> f[i]] /\ \A i \in 1 .. m : t[i] = f[i]
      BY <2>2, <2>4, <2>5
    <3>. QED  BY ONLY t \in Seq(A), m \in Nat, <3>1, SeqIs
  <2>. QED  BY <2>1, <2>2, <2>5, <2>6
<1>8. h + 1 \in 0 .. l
  BY <1>1, <1>3
<1>. QED  BY <1>1, <1>3, <1>4, <1>5, <1>6, <1>7, <1>8 DEF Line

\* Adding an element to the queue.
LEMMA LineAdd ==
  ASSUME NEW A, NEW front, NEW rest, NEW L, NEW h, NEW l, Line(front, rest, L, h, l, A), NEW x \in A
  PROVE  Line(front, Append(rest, x), With(L, l, x), h, l + 1, A)
<1>1. /\ l \in Nat /\ h \in Nat /\ h <= l /\ l - h \in Nat
      /\ front \in Seq(A) /\ Len(front) = h /\ rest \in Seq(A) /\ Len(rest) = l - h
      /\ \A i \in 1 .. h : front[i] = L[i] /\ L[i] \in A
      /\ \A i \in 1 .. l - h : rest[i] = L[h + i] /\ L[h + i] \in A
  BY LineTyped
<1>2. L \in [1 .. l -> A] /\ front = [i \in 1 .. h |-> L[i]]
  BY DEF Line
<1>3. PICK W : /\ W = With(L, l, x) /\ W \in [1 .. l + 1 -> A] /\ W[l + 1] = x
               /\ \A i \in 1 .. l : W[i] = L[i]
  <2>1. PICK W : W = With(L, l, x)
    OBVIOUS
  <2>2. W \in [1 .. l + 1 -> A] /\ W[l + 1] = x /\ \A i \in 1 .. l : W[i] = L[i]
    <3>1. /\ W[l + 1] = x /\ \A i \in 1 .. l : W[i] = L[i]
          /\ \A i \in 1 .. l + 1 : i \in 1 .. l \/ i = l + 1
      BY <1>1, <2>1, WithIs
    <3>2. W = [i \in 1 .. l + 1 |-> W[i]]
      BY <2>1 DEF With
    <3>3. \A i \in 1 .. l + 1 : W[i] \in A
      BY <1>2, <3>1
    <3>. QED  BY <3>1, <3>2, <3>3
  <2>. QED  BY <2>1, <2>2
<1>4. front = [i \in 1 .. h |-> W[i]]
  <2>1. \A i \in 1 .. h : i \in 1 .. l
    BY <1>1
  <2>2. \A i \in 1 .. h : W[i] = L[i]
    BY <1>3, <2>1
  <2>. QED  BY <1>2, <2>2
<1>5. Append(rest, x) = [i \in 1 .. (l + 1) - h |-> W[h + i]]
  <2>1. PICK m \in Nat : m = l - h /\ m + 1 = (l + 1) - h
    BY <1>1
  <2>2. PICK s \in Seq(A) : s = Append(rest, x) /\ Len(s) = m + 1 /\ s[m + 1] = x /\ \A i \in 1 .. m : s[i] = rest[i]
    <3>1. /\ Append(rest, x) \in Seq(A) /\ Len(Append(rest, x)) = Len(rest) + 1
          /\ Append(rest, x)[Len(rest) + 1] = x
          /\ \A i \in 1 .. Len(rest) : Append(rest, x)[i] = rest[i]
      BY ONLY x \in A, <1>1, AppendProperties
    <3>2. Len(rest) = m
      BY <1>1, <2>1
    <3>. QED  BY <3>1, <3>2
  <2>3. \A i \in 1 .. m + 1 : i \in 1 .. m \/ (i = m + 1 /\ h + i = l + 1)
    BY <1>1, <2>1
  <2>4. \A i \in 1 .. m : h + i \in 1 .. l
    BY <1>1, <2>1
  <2>5. \A i \in 1 .. m + 1 : s[i] = W[h + i]
    <3>1. ASSUME NEW i \in 1 .. m PROVE s[i] = W[h + i]
      <4>1. rest[i] = L[h + i] /\ h + i \in 1 .. l
        BY <1>1, <2>1, <2>4
      <4>. QED  BY <1>3, <2>2, <4>1
    <3>2. s[m + 1] = W[h + (m + 1)]
      <4>1. h + (m + 1) = l + 1
        BY <1>1, <2>1
      <4>. QED  BY <1>3, <2>2, <4>1
    <3>. QED  BY <2>3, <3>1, <3>2
  <2>6. PICK n \in Nat : n = m + 1
    OBVIOUS
  <2>7. PICK f : f = [i \in 1 .. n |-> W[h + i]]
    OBVIOUS
  <2>8. s = f
    <3>1. Len(s) = n /\ DOMAIN f = 1 .. n /\ f = [i \in 1 .. n |-> f[i]] /\ \A i \in 1 .. n : s[i] = f[i]
      BY <2>2, <2>5, <2>6, <2>7
    <3>. QED  BY ONLY s \in Seq(A), n \in Nat, <3>1, SeqIs
  <2>. QED  BY <2>1, <2>2, <2>6, <2>7, <2>8
<1>6. l + 1 \in Nat /\ h \in 0 .. l + 1
  BY <1>1
<1>. QED  BY <1>3, <1>4, <1>5, <1>6 DEF Line

\* When the queue is empty all was taken.
LEMMA LineEnd ==
  ASSUME NEW A, NEW front, NEW rest, NEW L, NEW h, NEW l, Line(front, rest, L, h, l, A), rest = <<>>
  PROVE  h = l /\ front = L /\ front \in Seq(A) /\ Len(front) = l
<1>1. /\ l \in Nat /\ h \in Nat /\ h <= l /\ l - h \in Nat
      /\ front \in Seq(A) /\ Len(front) = h /\ Len(rest) = l - h
  BY LineTyped
<1>2. h = l
  BY <1>1
<1>. QED  BY <1>1, <1>2 DEF Line

\* No two of the first l elements are the same.
Distinct(f, l) == l \in Nat /\ \A i, j \in 1 .. l : f[i] = f[j] => i = j

\* Elements that differ are as many as their positions.
LEMMA CountDistinct ==
  ASSUME NEW l, NEW f, Distinct(f, l), NEW V, V = {f[i] : i \in 1 .. l}
  PROVE  IsFiniteSet(V) /\ Cardinality(V) = l
<1>1. l \in Nat /\ \A i, j \in 1 .. l : f[i] = f[j] => i = j
  BY DEF Distinct
<1>. DEFINE g == [i \in 1 .. l |-> f[i]]
<1>2. g \in Bijection(1 .. l, V)
  <2>1. g \in [1 .. l -> V]
    BY <1>1
  <2>2. DOMAIN g = 1 .. l
    OBVIOUS
  <2>3. g \in Injection(1 .. l, V)
    BY <1>1, <2>1, <2>2 DEF Injection, IsInjective
  <2>4. g \in Surjection(1 .. l, V)
    BY <1>1, <2>1 DEF Surjection
  <2>. QED  BY <2>3, <2>4 DEF Bijection
<1>3. IsFiniteSet(1 .. l) /\ Cardinality(1 .. l) = l
  <2>1. PICK a, d \in Int : a = 1 /\ d = l
    BY <1>1
  <2>2. IsFiniteSet(a .. d) /\ Cardinality(a .. d) = IF a > d THEN 0 ELSE d - a + 1
    BY FS_Interval
  <2>3. (IF a > d THEN 0 ELSE d - a + 1) = l
    BY <1>1, <2>1
  <2>. QED  BY <2>1, <2>2, <2>3
<1>4. ExistsBijection(1 .. l, V)
  BY <1>2 DEF ExistsBijection
<1>. QED  BY <1>1, <1>3, <1>4, FS_Bijection

\* The element of a queue of one.
LEMMA LineOne ==
  ASSUME NEW A, NEW x \in A
  PROVE  Line(<<>>, <<x>>, [i \in 1 .. 1 |-> x], 0, 1, A)
<1>1. <<>> = [i \in 1 .. 0 |-> [j \in 1 .. 1 |-> x][i]]
  OBVIOUS
<1>2. \A i \in 1 .. 1 : 0 + i \in 1 .. 1
  OBVIOUS
<1>3. <<x>> = [i \in 1 .. 1 |-> [j \in 1 .. 1 |-> x][0 + i]]
  BY <1>2
<1>. QED  BY <1>1, <1>3 DEF Line

-----------------------------------------------------------------------------
(* Hop distances *)

\* The local state of the search.
SsspStates == [source : Nat, visited : SUBSET Nodes, queue : Seq(Nodes \X Nat), distances : Seq(Nodes \X Nat)]

\* What a visit changes.
LEMMA VisitTyped ==
  ASSUME NEW s \in SsspStates, NEW t \in Nodes, NEW d \in Nat
  PROVE  /\ Visit(s, t, d) \in SsspStates /\ Visit(s, t, d).distances = s.distances /\ Visit(s, t, d).source = s.source
         /\ t \in Member \ s.visited =>
              Visit(s, t, d).visited = s.visited \cup {t} /\ Visit(s, t, d).queue = Append(s.queue, <<t, d>>)
         /\ t \notin Member \ s.visited => Visit(s, t, d) = s
<1>1. s.queue \in Seq(Nodes \X Nat) /\ <<t, d>> \in Nodes \X Nat
  BY DEF SsspStates
<1>2. Append(s.queue, <<t, d>>) \in Seq(Nodes \X Nat)
  BY <1>1, AppendProperties
<1>. QED  BY <1>2 DEF SsspStates, Visit

\* The states after each visit.
VisitTable(b, s, row, d) ==
  /\ b \in [0 .. Len(row) -> SsspStates] /\ b[0] = s
  /\ \A k \in 1 .. Len(row) : b[k] = Visit(b[k - 1], row[k], d)

\* A pop as a table of the visits to the successors.
LEMMA VisitLoop ==
  ASSUME NEW s \in SsspStates, NEW row \in Seq(Nodes), NEW d \in Nat
  PROVE  \E b : VisitTable(b, s, row, d) /\ VisitAll(s, d, row) = b[Len(row)]
<1>. DEFINE n == Len(row)
            A == SsspStates
            base == s
            Step(acc, t) == Visit(acc, t, d)
            F == [k \in 1 .. n |-> [X \in A |-> Step(X, row[k])]]
            Def(t) == [k \in 0 .. n |->
                         IF k = 0 THEN base
                         ELSE CHOOSE r \in {Step(acc, row[k]) : acc \in {t[k - 1]}} : TRUE]
            After == CHOOSE t : t = Def(t)
<1>0. n \in Nat
  OBVIOUS
<1>1. base \in A
  OBVIOUS
<1>2. \A k \in 1 .. n, X \in A : Step(X, row[k]) \in A
  <2>1. ASSUME NEW k \in 1 .. n, NEW X \in A PROVE Step(X, row[k]) \in A
    <3>1. row[k] \in Nodes
      OBVIOUS
    <3>. QED  BY <3>1, VisitTyped
  <2>. HIDE DEF A, Step, n
  <2>. QED  BY <2>1
<1>3. F \in [1 .. n -> [A -> A]]
  <2>. HIDE DEF A, Step, n
  <2>. QED  BY <1>2
<1>4. PICK b : Iterates(b, n, A, base, F)
  <2>. HIDE DEF A, F, base, n
  <2>. QED  BY <1>0, <1>1, <1>3, IteratesExist
<1>. HIDE DEF A, base, Step, n
<1>5. /\ b \in [0 .. n -> A] /\ b[0] = base
      /\ \A k \in 1 .. n : b[k] = Step(b[k - 1], row[k])
  <2>1. b \in [0 .. n -> A] /\ b[0] = base /\ \A k \in 1 .. n : b[k] = F[k][b[k - 1]]
    BY <1>4 DEF Iterates
  <2>2. \A k \in 1 .. n : k - 1 \in 0 .. n
    BY <1>0
  <2>3. \A k \in 1 .. n : b[k - 1] \in A
    BY <2>1, <2>2
  <2>. QED  BY <2>1, <2>3
<1>6. ASSUME NEW t, NEW k \in 1 .. n
      PROVE  (CHOOSE r \in {Step(acc, row[k]) : acc \in {t[k - 1]}} : TRUE) = Step(t[k - 1], row[k])
  <2>1. {Step(acc, row[k]) : acc \in {t[k - 1]}} = {Step(t[k - 1], row[k])}
    OBVIOUS
  <2>. QED  BY <2>1, OnlyOne
<1>7. b = Def(b)
  <2>1. b = [k \in 0 .. n |-> b[k]]
    BY <1>5
  <2>2. ASSUME NEW k \in 0 .. n PROVE b[k] = Def(b)[k]
    <3>1. CASE k = 0
      BY <1>5, <3>1
    <3>2. CASE k \in 1 .. n
      BY <1>0, <1>5, <1>6, <3>2
    <3>. QED  BY <1>0, <3>1, <3>2
  <2>. QED  BY <2>1, <2>2
<1>8. After = Def(After)
  <2>1. \E t : t = Def(t)
    BY <1>7
  <2>. QED  BY <2>1
<1>9. VisitAll(s, d, row) = After[n]
  BY DEF VisitAll, Loop, base, Step, n
<1>. HIDE DEF After
<1>10. After[0] = base /\ \A k \in 1 .. n : After[k] = Step(After[k - 1], row[k])
  <2>1. \A k \in 0 .. n : After[k] = Def(After)[k]
    BY <1>8
  <2>2. 0 \in 0 .. n /\ \A k \in 1 .. n : k \in 0 .. n /\ k # 0
    BY <1>0
  <2>. QED  BY <1>6, <2>1, <2>2
<1>11. After[n] = b[n]
  <2>1. PICK m, f : m \in Nat /\ m = n /\ f = After
    BY <1>0
  <2>2. m \in Nat /\ f[0] = b[0] /\ StayAlike(f, b, m)
    BY <1>5, <1>10, <2>1 DEF StayAlike
  <2>3. f[m] = b[m]
    BY ONLY <2>2, SameTable
  <2>. QED  BY <2>1, <2>3
<1>. QED  BY <1>5, <1>9, <1>11 DEF VisitTable, A, base, Step, n

\* The nodes met so far and their distances, of which the first h were reported: no node twice,
\* nearer ones first and none further than one hop from the last reported, each but the source
\* one hop from an earlier reported one.
Met(L, h, l, M, E, src) ==
  /\ l \in Nat \ {0} /\ h \in 0 .. l /\ L \in [1 .. l -> Nodes \X Nat]
  /\ \A i \in 1 .. l : L[i][1] \in M
  /\ \A i, j \in 1 .. l : L[i][1] = L[j][1] => i = j
  /\ L[1] = <<src, 0>>
  /\ \A i, j \in 1 .. l : i <= j => L[i][2] <= L[j][2]
  /\ h = 0 => l = 1
  /\ h # 0 => \A i \in 1 .. l : L[i][2] <= L[h][2] + 1
  /\ \A i \in 2 .. l : \E j \in 1 .. h : j < i /\ <<L[j][1], L[i][1]>> \in E /\ L[i][2] = L[j][2] + 1

\* n was met at most at distance d.
MetBy(L, l, n, d) == \E i \in 1 .. l : L[i][1] = n /\ L[i][2] <= d

\* The successors of the first h nodes were met, one hop further at most.
Covered(L, h, l, E) ==
  \A j \in 1 .. h, n \in Nodes : <<L[j][1], n>> \in E => MetBy(L, l, n, L[j][2] + 1)

\* Taking the next node.
LEMMA MetTake ==
  ASSUME NEW L, NEW h, NEW l, NEW M, NEW E, NEW src, Met(L, h, l, M, E, src), h + 1 \in 1 .. l
  PROVE  Met(L, h + 1, l, M, E, src)
<1>1. l \in Nat /\ h \in Nat /\ h + 1 \in 0 .. l /\ h + 1 # 0
  BY DEF Met
<1>2. \A i \in 1 .. l : L[i][2] \in Nat
  BY DEF Met
<1>3. \A i \in 1 .. l : L[i][2] <= L[h + 1][2] + 1
  <2>1. CASE h = 0
    <3>1. l = 1 /\ h + 1 = 1
      BY <1>1, <2>1 DEF Met
    <3>2. \A i \in 1 .. l : i = h + 1
      BY <3>1
    <3>. QED  BY <1>2, <3>2
  <2>2. CASE h # 0
    <3>1. h \in 1 .. l /\ h <= h + 1
      BY <1>1, <2>2
    <3>2. L[h][2] <= L[h + 1][2]
      BY <3>1 DEF Met
    <3>3. \A i \in 1 .. l : L[i][2] <= L[h][2] + 1
      BY <2>2 DEF Met
    <3>. QED  BY <1>2, <3>1, <3>2, <3>3
  <2>. QED  BY <2>1, <2>2
<1>4. \A i \in 2 .. l : \E j \in 1 .. h + 1 : j < i /\ <<L[j][1], L[i][1]>> \in E /\ L[i][2] = L[j][2] + 1
  <2>1. \A j \in 1 .. h : j \in 1 .. h + 1
    BY <1>1
  <2>. QED  BY <2>1 DEF Met
<1>. QED  BY <1>1, <1>3, <1>4 DEF Met

\* Adding a successor of the node taken last.
LEMMA MetAdd ==
  ASSUME NEW L, NEW h, NEW l, NEW M, NEW E, NEW src, Met(L, h, l, M, E, src), h # 0,
         NEW t \in Nodes, t \in M, \A i \in 1 .. l : L[i][1] # t, <<L[h][1], t>> \in E,
         NEW W, W = With(L, l, <<t, L[h][2] + 1>>)
  PROVE  /\ Met(W, h, l + 1, M, E, src) /\ W[l + 1] = <<t, L[h][2] + 1>> /\ \A i \in 1 .. l : W[i] = L[i]
         /\ {W[i][1] : i \in 1 .. l + 1} = {L[i][1] : i \in 1 .. l} \cup {t}
<1>1. l \in Nat /\ l # 0 /\ h \in Nat /\ h \in 1 .. l /\ l + 1 \in Nat \ {0} /\ h \in 0 .. l + 1 /\ h \in 1 .. l + 1
  BY DEF Met
<1>2. L \in [1 .. l -> Nodes \X Nat] /\ \A i \in 1 .. l : L[i][1] \in Nodes /\ L[i][2] \in Nat
  BY DEF Met
<1>3. PICK d \in Nat : d = L[h][2] + 1
  BY <1>1, <1>2
<1>4. /\ W[l + 1] = <<t, d>> /\ \A i \in 1 .. l : W[i] = L[i]
      /\ \A i \in 1 .. l + 1 : i \in 1 .. l \/ i = l + 1
  BY <1>1, <1>3, WithIs
<1>5. W \in [1 .. l + 1 -> Nodes \X Nat]
  <2>1. W = [i \in 1 .. l + 1 |-> W[i]]
    BY DEF With
  <2>2. \A i \in 1 .. l + 1 : W[i] \in Nodes \X Nat
    BY <1>2, <1>4
  <2>. QED  BY <2>1, <2>2
<1>6. W[l + 1][1] = t /\ W[l + 1][2] = d
  BY <1>4
<1>7. \A i \in 1 .. l + 1 : W[i][1] \in M
  BY <1>4, <1>6 DEF Met
<1>8. ASSUME NEW i \in 1 .. l + 1, NEW j \in 1 .. l + 1, W[i][1] = W[j][1] PROVE i = j
  <2>1. CASE i \in 1 .. l /\ j \in 1 .. l
    BY <1>4, <1>8, <2>1 DEF Met
  <2>2. CASE i \in 1 .. l /\ j = l + 1
    BY <1>4, <1>6, <1>8, <2>2
  <2>3. CASE i = l + 1 /\ j \in 1 .. l
    BY <1>4, <1>6, <1>8, <2>3
  <2>. QED  BY <1>4, <2>1, <2>2, <2>3
<1>9. W[1] = <<src, 0>>
  <2>1. 1 \in 1 .. l
    BY <1>1
  <2>. QED  BY <1>4, <2>1 DEF Met
<1>10. \A i \in 1 .. l : L[i][2] <= d
  BY <1>3 DEF Met
<1>11. ASSUME NEW i \in 1 .. l + 1, NEW j \in 1 .. l + 1, i <= j PROVE W[i][2] <= W[j][2]
  <2>1. CASE i \in 1 .. l /\ j \in 1 .. l
    BY <1>4, <1>11, <2>1 DEF Met
  <2>2. CASE i \in 1 .. l /\ j = l + 1
    BY <1>4, <1>6, <1>10, <2>2
  <2>3. CASE i = l + 1 /\ j = l + 1
    BY <1>6, <2>3
  <2>4. ~(i = l + 1 /\ j \in 1 .. l)
    BY <1>1, <1>11
  <2>. QED  BY <1>4, <2>1, <2>2, <2>3, <2>4
<1>12. \A i \in 1 .. l + 1 : W[i][2] <= W[h][2] + 1
  <2>1. W[h][2] + 1 = d
    BY <1>1, <1>3, <1>4
  <2>. QED  BY <1>4, <1>6, <1>10, <2>1
<1>13. ASSUME NEW i \in 2 .. l + 1
       PROVE  \E j \in 1 .. h : j < i /\ <<W[j][1], W[i][1]>> \in E /\ W[i][2] = W[j][2] + 1
  <2>1. \A j \in 1 .. h : W[j] = L[j] /\ j \in Int /\ j < l + 1
    BY <1>1, <1>4
  <2>2. CASE i \in 2 .. l
    <3>1. i \in 1 .. l
      BY <2>2
    <3>2. PICK j \in 1 .. h : j < i /\ <<L[j][1], L[i][1]>> \in E /\ L[i][2] = L[j][2] + 1
      BY <2>2 DEF Met
    <3>. QED  BY <1>4, <2>1, <3>1, <3>2
  <2>3. CASE i = l + 1
    <3>1. h \in 1 .. h /\ h < i /\ W[h] = L[h]
      BY <1>1, <1>4, <2>3
    <3>. QED  BY <1>3, <1>6, <2>3, <3>1
  <2>. QED  BY <1>1, <2>2, <2>3
<1>14. {W[i][1] : i \in 1 .. l + 1} = {L[i][1] : i \in 1 .. l} \cup {t}
  <2>1. l + 1 \in 1 .. l + 1 /\ \A i \in 1 .. l : i \in 1 .. l + 1
    BY <1>1
  <2>. QED  BY <1>4, <1>6, <2>1
<1>15. h # 0 /\ h \in 0 .. l + 1
  BY <1>1
<1>. QED  BY <1>1, <1>3, <1>4, <1>5, <1>7, <1>8, <1>9, <1>11, <1>12, <1>13, <1>14, <1>15 DEF Met

\* The local state is what was met.
Searching(s, L, h, l, M, E, src) ==
  /\ s \in SsspStates /\ Line(s.distances, s.queue, L, h, l, Nodes \X Nat)
  /\ Met(L, h, l, M, E, src) /\ s.visited = {L[i][1] : i \in 1 .. l} /\ s.source = src

\* L2 continues L.
Continues(L, l, L2, l2) == l2 \in Nat /\ l <= l2 /\ \A i \in 1 .. l : L2[i] = L[i]

\* The node is among the first l of L.
Among(n, L, l) == \E i \in 1 .. l : L[i][1] = n

\* What was covered stays covered.
LEMMA CoveredContinues ==
  ASSUME NEW L, NEW l \in Nat, NEW L2, NEW l2, NEW h \in Nat, h <= l, NEW E,
         Continues(L, l, L2, l2), Covered(L, h, l, E)
  PROVE  Covered(L2, h, l2, E)
<1>1. \A i \in 1 .. l : i \in 1 .. l2 /\ L2[i] = L[i]
  BY DEF Continues
<1>2. \A j \in 1 .. h : L2[j] = L[j]
  <2>1. \A j \in 1 .. h : j \in 1 .. l
    OBVIOUS
  <2>. QED  BY <1>1, <2>1
<1>3. \A n, d : MetBy(L, l, n, d) => MetBy(L2, l2, n, d)
  BY <1>1 DEF MetBy
<1>. QED  BY <1>2, <1>3 DEF Covered

\* One successor.
LEMMA VisitStep ==
  ASSUME NEW s, NEW L, NEW h, NEW l, NEW src, Searching(s, L, h, l, Member, Edges, src), h # 0,
         NEW t \in Nodes, t \in Member => <<L[h][1], t>> \in Edges
  PROVE  \E L2, l2 : /\ Searching(Visit(s, t, L[h][2] + 1), L2, h, l2, Member, Edges, src)
                     /\ Continues(L, l, L2, l2) /\ (t \in Member => Among(t, L2, l2))
<1>1. /\ s \in SsspStates /\ Line(s.distances, s.queue, L, h, l, Nodes \X Nat)
      /\ Met(L, h, l, Member, Edges, src) /\ s.visited = {L[i][1] : i \in 1 .. l} /\ s.source = src
  BY DEF Searching
<1>2. l \in Nat /\ h \in 1 .. l /\ \A i \in 1 .. l : L[i][1] \in Nodes /\ L[i][2] \in Nat
  BY <1>1 DEF Met
<1>3. PICK d \in Nat : d = L[h][2] + 1
  BY <1>2
<1>4. PICK r : r = Visit(s, t, d)
  OBVIOUS
<1>5. /\ r \in SsspStates /\ r.distances = s.distances /\ r.source = s.source
      /\ t \in Member \ s.visited =>
           r.visited = s.visited \cup {t} /\ r.queue = Append(s.queue, <<t, d>>)
      /\ t \notin Member \ s.visited => r = s
  <2>1. s \in SsspStates
    BY <1>1
  <2>2. /\ Visit(s, t, d) \in SsspStates /\ Visit(s, t, d).distances = s.distances /\ Visit(s, t, d).source = s.source
        /\ t \in Member \ s.visited =>
             Visit(s, t, d).visited = s.visited \cup {t} /\ Visit(s, t, d).queue = Append(s.queue, <<t, d>>)
        /\ t \notin Member \ s.visited => Visit(s, t, d) = s
    BY ONLY <2>1, t \in Nodes, d \in Nat, VisitTyped
  <2>. QED  BY ONLY <1>4, <2>2
<1>6. CASE t \notin Member \ s.visited
  <2>1. Searching(r, L, h, l, Member, Edges, src)
    BY <1>5, <1>6
  <2>2. Continues(L, l, L, l)
    BY <1>2 DEF Continues
  <2>3. t \in Member => Among(t, L, l)
    BY <1>1, <1>6 DEF Among
  <2>. QED  BY <1>3, <1>4, <2>1, <2>2, <2>3
<1>7. CASE t \in Member \ s.visited
  <2>1. PICK W : W = With(L, l, <<t, d>>)
    OBVIOUS
  <2>2. \A i \in 1 .. l : L[i][1] # t
    BY <1>1, <1>7
  <2>3. /\ Met(W, h, l + 1, Member, Edges, src) /\ W[l + 1] = <<t, d>> /\ \A i \in 1 .. l : W[i] = L[i]
        /\ {W[i][1] : i \in 1 .. l + 1} = {L[i][1] : i \in 1 .. l} \cup {t}
    <3>1. Met(L, h, l, Member, Edges, src) /\ h # 0 /\ t \in Member /\ <<L[h][1], t>> \in Edges /\ W = With(L, l, <<t, L[h][2] + 1>>)
      BY <1>1, <1>3, <1>7, <2>1
    <3>. QED  BY ONLY <3>1, <2>2, <1>3, t \in Nodes, MetAdd
  <2>4. Line(r.distances, r.queue, W, h, l + 1, Nodes \X Nat)
    <3>1. PICK x \in Nodes \X Nat : x = <<t, d>>
      OBVIOUS
    <3>2. Line(s.distances, Append(s.queue, x), With(L, l, x), h, l + 1, Nodes \X Nat)
      BY <1>1, LineAdd
    <3>. QED  BY <1>5, <1>7, <2>1, <3>1, <3>2
  <2>5. r.visited = {W[i][1] : i \in 1 .. l + 1}
    BY <1>1, <1>5, <1>7, <2>3
  <2>6. Searching(r, W, h, l + 1, Member, Edges, src)
    BY <1>1, <1>5, <2>3, <2>4, <2>5 DEF Searching
  <2>7. Continues(L, l, W, l + 1)
    BY <1>2, <2>3 DEF Continues
  <2>8. Among(t, W, l + 1)
    <3>1. l + 1 \in 1 .. l + 1 /\ W[l + 1][1] = t
      BY <1>2, <2>3
    <3>. QED  BY <3>1 DEF Among
  <2>. QED  BY <1>3, <1>4, <2>6, <2>7, <2>8
<1>. QED  BY <1>6, <1>7

\* All successors of the node taken last.
LEMMA VisitRow ==
  ASSUME NEW s, NEW L, NEW h, NEW l, NEW src, Searching(s, L, h, l, Member, Edges, src), h # 0,
         NEW row \in Seq(Nodes), \A k \in 1 .. Len(row) : row[k] \in Member => <<L[h][1], row[k]>> \in Edges
  PROVE  \E L2, l2 : /\ Searching(VisitAll(s, L[h][2] + 1, row), L2, h, l2, Member, Edges, src)
                     /\ Continues(L, l, L2, l2)
                     /\ \A k \in 1 .. Len(row) : row[k] \in Member => Among(row[k], L2, l2)
<1>1. /\ s \in SsspStates /\ Met(L, h, l, Member, Edges, src)
  BY DEF Searching
<1>2. l \in Nat /\ h \in 1 .. l /\ \A i \in 1 .. l : L[i][1] \in Nodes /\ L[i][2] \in Nat
  BY <1>1 DEF Met
<1>3. PICK d \in Nat : d = L[h][2] + 1
  BY <1>2
<1>4. PICK n \in Nat : n = Len(row) /\ \A k \in 1 .. n : row[k] \in Nodes
  OBVIOUS
<1>5. PICK b : VisitTable(b, s, row, d) /\ VisitAll(s, d, row) = b[n]
  BY <1>1, <1>4, VisitLoop
<1>6. b[0] = s /\ \A k \in 1 .. n : b[k] = Visit(b[k - 1], row[k], d)
  BY <1>4, <1>5 DEF VisitTable
<1>. DEFINE Now(k, L2, l2) == /\ Searching(b[k], L2, h, l2, Member, Edges, src) /\ Continues(L, l, L2, l2)
                              /\ \A i \in 1 .. k : row[i] \in Member => Among(row[i], L2, l2)
            T == {k \in 0 .. n : \E L2, l2 : Now(k, L2, l2)}
<1>7. 0 \in T
  <2>1. Continues(L, l, L, l)
    BY <1>2 DEF Continues
  <2>2. Now(0, L, l)
    BY <1>6, <2>1
  <2>. HIDE DEF Now
  <2>. QED  BY <2>2
<1>8. ASSUME NEW k \in 1 .. n, k - 1 \in T PROVE k \in T
  <2>1. PICK L2, l2 : Now(k - 1, L2, l2)
    <3>. HIDE DEF Now
    <3>. QED  BY <1>8
  <2>2. L2[h] = L[h] /\ h # 0
    BY <1>2, <2>1 DEF Continues
  <2>3. PICK c, t : c = b[k - 1] /\ t = row[k]
    OBVIOUS
  <2>4. Searching(c, L2, h, l2, Member, Edges, src) /\ t \in Nodes /\ (t \in Member => <<L2[h][1], t>> \in Edges)
    BY <1>4, <2>1, <2>2, <2>3
  <2>5. PICK L3, l3 : /\ Searching(Visit(c, t, L2[h][2] + 1), L3, h, l3, Member, Edges, src)
                      /\ Continues(L2, l2, L3, l3) /\ (t \in Member => Among(t, L3, l3))
    BY <2>2, <2>4, VisitStep
  <2>6. Searching(b[k], L3, h, l3, Member, Edges, src)
    BY <1>3, <1>6, <2>2, <2>3, <2>5
  <2>7. l2 \in Nat /\ l <= l2 /\ \A i \in 1 .. l : i \in 1 .. l2
    BY <1>2, <2>1 DEF Continues
  <2>8. Continues(L, l, L3, l3)
    <3>1. l3 \in Nat /\ l <= l3
      BY <1>2, <2>5, <2>7 DEF Continues
    <3>2. \A i \in 1 .. l : L3[i] = L[i]
      BY <2>1, <2>5, <2>7 DEF Continues
    <3>. QED  BY <3>1, <3>2 DEF Continues
  <2>9. \A x : Among(x, L2, l2) => Among(x, L3, l3)
    <3>1. \A i \in 1 .. l2 : i \in 1 .. l3 /\ L3[i] = L2[i]
      BY <2>5, <2>7 DEF Continues
    <3>. QED  BY <3>1 DEF Among
  <2>10. \A i \in 1 .. k : row[i] \in Member => Among(row[i], L3, l3)
    <3>1. \A i \in 1 .. k : i \in 1 .. k - 1 \/ i = k
      OBVIOUS
    <3>. QED  BY <2>1, <2>3, <2>5, <2>9, <3>1
  <2>11. Now(k, L3, l3)
    BY <2>6, <2>8, <2>10
  <2>. HIDE DEF Now
  <2>. QED  BY <2>11
<1>9. n \in T
  <2>1. n \in 0 .. n
    OBVIOUS
  <2>. HIDE DEF T
  <2>. QED  BY <1>7, <1>8, <2>1, AllUpTo
<1>10. PICK L2, l2 : Now(n, L2, l2)
  <2>. HIDE DEF Now
  <2>. QED  BY <1>9
<1>. QED  BY <1>3, <1>4, <1>5, <1>10

\* Between two pops the search is this far.
SsspGoing(s, M, E, src) ==
  \E L, h, l : Searching(s, L, h, l, M, E, src) /\ Covered(L, h, l, E)

\* The edges out of a member are the members of its row.
LEMMA EdgesIs ==
  ASSUME graph.rows \in [Nodes -> Seq(Nodes)]
  PROVE  /\ Member \subseteq Nodes /\ Edges \in SUBSET (Nodes \X Nodes)
         /\ \A m, n : <<m, n>> \in Edges <=>
              m \in Member /\ n \in Member /\ \E k \in 1 .. Len(graph.rows[m]) : graph.rows[m][k] = n
<1>1. Member \subseteq Nodes
  BY DEF Member
<1>2. \A m \in Nodes : DOMAIN graph.rows[m] = 1 .. Len(graph.rows[m])
  OBVIOUS
<1>3. \A m, n : <<m, n>> \in Edges <=>
              m \in Member /\ n \in Member /\ \E k \in 1 .. Len(graph.rows[m]) : graph.rows[m][k] = n
  BY <1>1, <1>2 DEF Edges, Range
<1>. QED  BY <1>1, <1>3 DEF Edges

\* A pop goes on.
LEMMA SsspPopGoes ==
  ASSUME NEW s, NEW src, SsspGoing(s, Member, Edges, src), s.queue # <<>>, graph.rows \in [Nodes -> Seq(Nodes)],
         NEW n, NEW d, n = s.queue[1][1], d = s.queue[1][2],
         NEW c, c = [s EXCEPT !.queue = Tail(@), !.distances = Append(@, <<n, d>>)],
         NEW r, r = VisitAll(c, d + 1, graph.rows[n])
  PROVE  SsspGoing(r, Member, Edges, src)
<1>1. PICK L, h, l : Searching(s, L, h, l, Member, Edges, src) /\ Covered(L, h, l, Edges)
  BY DEF SsspGoing
<1>2. /\ s \in SsspStates /\ Line(s.distances, s.queue, L, h, l, Nodes \X Nat)
      /\ Met(L, h, l, Member, Edges, src) /\ s.visited = {L[i][1] : i \in 1 .. l} /\ s.source = src
  BY <1>1 DEF Searching
<1>3. PICK A : A = Nodes \X Nat
  OBVIOUS
<1>4. /\ h + 1 \in 1 .. l /\ s.queue[1] = L[h + 1] /\ L[h + 1] \in A
      /\ Line(Append(s.distances, s.queue[1]), Tail(s.queue), L, h + 1, l, A)
  BY <1>2, <1>3, LineTake
<1>5. n \in Nodes /\ d \in Nat /\ s.queue[1] = <<n, d>> /\ L[h + 1] = <<n, d>>
  BY <1>3, <1>4
<1>7. /\ c.queue = Tail(s.queue) /\ c.distances = Append(s.distances, <<n, d>>) /\ c.visited = s.visited /\ c.source = s.source
      /\ c \in SsspStates
  <2>1. s.queue \in Seq(A) /\ s.distances \in Seq(A)
    BY <1>2, <1>3 DEF SsspStates
  <2>2. Tail(s.queue) \in Seq(A)
    BY <2>1, HeadTailProperties
  <2>3. Append(s.distances, <<n, d>>) \in Seq(A)
    BY <1>3, <1>5, <2>1, AppendProperties
  <2>. QED  BY <1>2, <1>3, <2>2, <2>3 DEF SsspStates
<1>8. h \in Nat /\ l \in Nat /\ h + 1 # 0 /\ h <= l /\ h + 1 <= l
  BY <1>2, <1>4 DEF Met
<1>9. Searching(c, L, h + 1, l, Member, Edges, src)
  <2>1. Met(L, h + 1, l, Member, Edges, src)
    BY <1>2, <1>4, MetTake
  <2>2. Line(c.distances, c.queue, L, h + 1, l, Nodes \X Nat)
    BY <1>3, <1>4, <1>5, <1>7
  <2>. QED  BY <1>2, <1>7, <2>1, <2>2 DEF Searching
<1>10. n \in Member
  BY <1>2, <1>4, <1>5 DEF Met
<1>11. PICK row \in Seq(Nodes) : row = graph.rows[n]
  BY <1>5
<1>12. \A k \in 1 .. Len(row) : row[k] \in Member => <<L[h + 1][1], row[k]>> \in Edges
  BY <1>5, <1>10, <1>11, EdgesIs
<1>13. PICK L2, l2 : /\ Searching(VisitAll(c, L[h + 1][2] + 1, row), L2, h + 1, l2, Member, Edges, src)
                     /\ Continues(L, l, L2, l2)
                     /\ \A k \in 1 .. Len(row) : row[k] \in Member => Among(row[k], L2, l2)
  BY <1>8, <1>9, <1>12, VisitRow
<1>14. r = VisitAll(c, L[h + 1][2] + 1, row)
  BY <1>5, <1>11
<1>15. Covered(L2, h, l2, Edges)
  BY <1>1, <1>8, <1>13, CoveredContinues
<1>16. Met(L2, h + 1, l2, Member, Edges, src)
  BY <1>13 DEF Searching
<1>17. L2[h + 1] = <<n, d>>
  BY <1>4, <1>5, <1>13 DEF Continues
<1>18. \A i \in 1 .. l2 : L2[i][2] <= d + 1
  BY <1>8, <1>16, <1>17 DEF Met
<1>19. ASSUME NEW y \in Nodes, <<n, y>> \in Edges PROVE MetBy(L2, l2, y, d + 1)
  <2>1. Among(y, L2, l2)
    <3>1. y \in Member /\ \E k \in 1 .. Len(graph.rows[n]) : graph.rows[n][k] = y
      BY <1>19, EdgesIs
    <3>2. PICK k \in 1 .. Len(row) : row[k] = y
      BY <1>11, <3>1
    <3>. QED  BY <1>13, <3>1, <3>2
  <2>. QED  BY <1>18, <2>1 DEF Among, MetBy
<1>20. Covered(L2, h + 1, l2, Edges)
  <2>1. \A j \in 1 .. h + 1 : j \in 1 .. h \/ j = h + 1
    BY <1>8
  <2>2. ASSUME NEW j \in 1 .. h + 1, NEW y \in Nodes, <<L2[j][1], y>> \in Edges
        PROVE  MetBy(L2, l2, y, L2[j][2] + 1)
    <3>1. CASE j \in 1 .. h
      BY <1>15, <2>2, <3>1 DEF Covered
    <3>2. CASE j = h + 1
      <4>1. L2[j][1] = n /\ L2[j][2] = d
        BY <1>17, <3>2
      <4>. QED  BY <1>19, <2>2, <4>1
    <3>. QED  BY <2>1, <3>1, <3>2
  <2>. QED  BY <2>2 DEF Covered
<1>. QED  BY <1>13, <1>14, <1>20 DEF SsspGoing

\* The search begins.
LEMMA SsspStarts ==
  ASSUME NEW src \in Nodes, NEW M, src \in M, NEW E, NEW s,
         s = [source |-> src, visited |-> {src}, queue |-> <<<<src, 0>>>>, distances |-> <<>>]
  PROVE  SsspGoing(s, M, E, src)
<1>1. PICK x \in Nodes \X Nat : x = <<src, 0>>
  OBVIOUS
<1>2. PICK L : L = [i \in 1 .. 1 |-> x]
  OBVIOUS
<1>3. L[1] = x /\ \A i \in 1 .. 1 : L[i] = x /\ i = 1
  BY <1>2
<1>4. Line(s.distances, s.queue, L, 0, 1, Nodes \X Nat)
  <2>1. Line(<<>>, <<x>>, [i \in 1 .. 1 |-> x], 0, 1, Nodes \X Nat)
    BY LineOne
  <2>2. s.distances = <<>> /\ s.queue = <<x>>
    BY <1>1
  <2>. QED  BY <1>2, <2>1, <2>2
<1>5. s \in SsspStates
  <2>1. <<x>> \in Seq(Nodes \X Nat) /\ <<>> \in Seq(Nodes \X Nat)
    OBVIOUS
  <2>2. src \in Nat
    BY NodesFinite
  <2>. QED  BY <1>1, <2>1, <2>2 DEF SsspStates
<1>6. Met(L, 0, 1, M, E, src)
  <2>1. L \in [1 .. 1 -> Nodes \X Nat]
    BY <1>2
  <2>2. \A i \in 2 .. 1 : FALSE
    OBVIOUS
  <2>. QED  BY <1>1, <1>3, <2>1, <2>2 DEF Met
<1>7. s.visited = {L[i][1] : i \in 1 .. 1}
  BY <1>1, <1>3
<1>8. Covered(L, 0, 1, E)
  BY DEF Covered
<1>. QED  BY <1>4, <1>5, <1>6, <1>7, <1>8 DEF SsspGoing, Searching

\* The least member.
LEMMA MinIs ==
  ASSUME NEW S \in SUBSET Nat, NEW x \in S, \A y \in S : x <= y
  PROVE  Min(S) = x
<1>1. \A z \in S : (\A y \in S : z <= y) => z = x
  OBVIOUS
<1>. QED  BY <1>1 DEF Min

\* All nodes met are reached, and no others.
LEMMA MetIsReached ==
  ASSUME graph.rows \in [Nodes -> Seq(Nodes)], NEW src \in Nodes, NEW L, NEW l,
         Met(L, l, l, Member, Edges, src), Covered(L, l, l, Edges)
  PROVE  {L[i][1] : i \in 1 .. l} = {src} \cup {n \in Member : <<src, n>> \in Reach}
<1>1. /\ l \in Nat /\ 1 \in 1 .. l /\ L \in [1 .. l -> Nodes \X Nat] /\ \A i \in 1 .. l : L[i][1] \in Nodes /\ L[i][2] \in Nat
      /\ \A i \in 1 .. l : L[i][1] \in Member
      /\ L[1][1] = src
  <2>1. /\ l \in Nat \ {0} /\ L \in [1 .. l -> Nodes \X Nat] /\ \A i \in 1 .. l : L[i][1] \in Member
        /\ L[1] = <<src, 0>>
    BY DEF Met
  <2>2. \A i \in 1 .. l : L[i] \in Nodes \X Nat
    BY <2>1
  <2>3. \A p \in Nodes \X Nat : p[1] \in Nodes /\ p[2] \in Nat
    OBVIOUS
  <2>4. \A i \in 1 .. l : L[i][1] \in Nodes /\ L[i][2] \in Nat
    BY <2>2, <2>3
  <2>5. l \in Nat /\ 1 \in 1 .. l
    BY <2>1
  <2>. QED  BY <2>1, <2>4, <2>5
<1>2. PICK V : V = {L[i][1] : i \in 1 .. l}
  OBVIOUS
<1>3. PICK E : E = Edges /\ E \in SUBSET (Nodes \X Nodes)
  BY EdgesIs
<1>4. Reach = Closure(E)
  BY <1>3 DEF Reach
<1>5. V \subseteq {src} \cup {n \in Member : <<src, n>> \in Reach}
  <2>. DEFINE Bad == {i \in 1 .. l : L[i][1] # src /\ <<src, L[i][1]>> \notin Closure(E)}
  <2>1. ASSUME Bad # {} PROVE FALSE
    <3>1. Bad \in SUBSET Nat
      BY <1>1
    <3>2. PICK i \in Bad : \A j \in Bad : i <= j
      <4>. HIDE DEF Bad
      <4>. QED  BY <2>1, <3>1, LeastMember
    <3>3. i \in 2 .. l
      BY <1>1, <3>2
    <3>4. PICK j \in 1 .. l : j < i /\ <<L[j][1], L[i][1]>> \in E
      BY <1>3, <3>3 DEF Met
    <3>5. j \notin Bad
      BY <1>1, <3>2, <3>4
    <3>6. L[j][1] = src \/ <<src, L[j][1]>> \in Closure(E)
      BY <3>5
    <3>7. E \subseteq Closure(E)
      <4>1. PICK T : T = Nodes \X Nodes
        OBVIOUS
      <4>2. E \subseteq T /\ \A x, m, y \in Nodes : <<x, m>> \in T /\ <<m, y>> \in E => <<x, y>> \in T
        BY <1>3, <4>1
      <4>. QED  BY <1>3, <4>2, ClosureLeast
    <3>8. CASE L[j][1] = src
      BY <3>2, <3>4, <3>7, <3>8
    <3>9. CASE <<src, L[j][1]>> \in Closure(E)
      <4>1. L[j][1] \in Nodes /\ L[i][1] \in Nodes
        BY <1>1, <3>2
      <4>2. <<src, L[i][1]>> \in Closure(E)
        BY <1>3, <3>4, <3>9, <4>1, ClosureClosed
      <4>. QED  BY <3>2, <4>2
    <3>. QED  BY <3>6, <3>8, <3>9
  <2>. QED  BY <1>1, <1>2, <1>4, <2>1
<1>6. \A m, n \in Nodes : m \in V /\ <<m, n>> \in E => n \in V
  BY <1>2, <1>3 DEF Covered, MetBy
<1>7. Closure(E) \subseteq {p \in Nodes \X Nodes : p[1] \in V => p[2] \in V}
  <2>1. PICK T : T = {p \in Nodes \X Nodes : p[1] \in V => p[2] \in V}
    OBVIOUS
  <2>2. \A m, n : <<m, n>> \in T <=> m \in Nodes /\ n \in Nodes /\ (m \in V => n \in V)
    BY <2>1
  <2>3. E \subseteq T
    BY <1>3, <1>6, <2>2
  <2>4. \A x, m, y \in Nodes : <<x, m>> \in T /\ <<m, y>> \in E => <<x, y>> \in T
    BY <1>6, <2>2
  <2>5. Closure(E) \subseteq T
    BY <1>3, <2>3, <2>4, ClosureLeast
  <2>. QED  BY <2>1, <2>5
<1>8. src \in V
  BY <1>1, <1>2
<1>9. \A n \in Member : <<src, n>> \in Reach => n \in V
  BY <1>4, <1>7, <1>8
<1>. QED  BY <1>2, <1>5, <1>8, <1>9

\* What the finished search reports.
LEMMA SsspReports ==
  ASSUME graph.rows \in [Nodes -> Seq(Nodes)], NEW src \in Nodes, src \in Member, NEW s,
         SsspGoing(s, Member, Edges, src), s.queue = <<>>
  PROVE  LET reached == {src} \cup {n \in Member : <<src, n>> \in Reach}
             At(n) == {s.distances[i][2] : i \in {j \in DOMAIN s.distances : s.distances[j][1] = n}}
         IN  /\ {s.distances[i][1] : i \in DOMAIN s.distances} = reached
             /\ Len(s.distances) = Cardinality(reached)
             /\ At(src) = {0}
             /\ \A n \in reached \ {src} :
                  At(n) = {1 + Min(UNION {At(m) : m \in {m \in reached : <<m, n>> \in Edges}})}
             /\ \A i \in 2 .. Len(s.distances) : s.distances[i - 1][2] <= s.distances[i][2]
<1>. DEFINE reached == {src} \cup {n \in Member : <<src, n>> \in Reach}
            At(n) == {s.distances[i][2] : i \in {j \in DOMAIN s.distances : s.distances[j][1] = n}}
<1>1. PICK L, h, l : Searching(s, L, h, l, Member, Edges, src) /\ Covered(L, h, l, Edges)
  BY DEF SsspGoing
<1>2. Line(s.distances, s.queue, L, h, l, Nodes \X Nat) /\ Met(L, h, l, Member, Edges, src)
  BY <1>1 DEF Searching
<1>3. h = l /\ s.distances = L /\ Len(L) = l
  BY <1>2, LineEnd
<1>4. /\ l \in Nat /\ 1 \in 1 .. l /\ L \in [1 .. l -> Nodes \X Nat] /\ \A i \in 1 .. l : L[i][1] \in Nodes /\ L[i][2] \in Nat
      /\ DOMAIN L = 1 .. l
      /\ \A i, j \in 1 .. l : L[i][1] = L[j][1] => i = j
      /\ L[1][1] = src /\ L[1][2] = 0
      /\ \A i, j \in 1 .. l : i <= j => L[i][2] <= L[j][2]
  <2>1. /\ l \in Nat \ {0} /\ L \in [1 .. l -> Nodes \X Nat] /\ L[1] = <<src, 0>>
        /\ \A i, j \in 1 .. l : L[i][1] = L[j][1] => i = j
        /\ \A i, j \in 1 .. l : i <= j => L[i][2] <= L[j][2]
    BY <1>2 DEF Met
  <2>2. \A i \in 1 .. l : L[i] \in Nodes \X Nat
    BY <2>1
  <2>3. \A p \in Nodes \X Nat : p[1] \in Nodes /\ p[2] \in Nat
    OBVIOUS
  <2>4. \A i \in 1 .. l : L[i][1] \in Nodes /\ L[i][2] \in Nat
    BY <2>2, <2>3
  <2>5. l \in Nat /\ 1 \in 1 .. l /\ DOMAIN L = 1 .. l
    BY <2>1
  <2>. QED  BY <2>1, <2>4, <2>5
<1>5. reached = {L[i][1] : i \in 1 .. l}
  BY <1>1, <1>2, <1>3, MetIsReached
<1>a. \A i \in 1 .. l : L[i][2] \in Nat
  BY <1>4
<1>6. \A n : At(n) = {L[i][2] : i \in {j \in 1 .. l : L[j][1] = n}}
  BY <1>3, <1>4
<1>. HIDE DEF reached, At
<1>7. \A i \in 1 .. l : At(L[i][1]) = {L[i][2]}
  <2>1. \A i \in 1 .. l : {j \in 1 .. l : L[j][1] = L[i][1]} = {i}
    BY <1>4
  <2>2. ASSUME NEW i \in 1 .. l PROVE At(L[i][1]) = {L[i][2]}
    <3>1. At(L[i][1]) = {L[k][2] : k \in {j \in 1 .. l : L[j][1] = L[i][1]}}
      BY <1>6
    <3>2. At(L[i][1]) = {L[k][2] : k \in {i}}
      BY ONLY <2>1, <3>1, i \in 1 .. l
    <3>. QED  BY ONLY <3>2
  <2>. QED  BY <2>2
<1>8. Len(L) = Cardinality(reached)
  <2>1. PICK f : f = [i \in 1 .. l |-> L[i][1]]
    OBVIOUS
  <2>2. Distinct(f, l)
    BY <1>4, <2>1 DEF Distinct
  <2>3. reached = {f[i] : i \in 1 .. l}
    BY <1>5, <2>1
  <2>. QED  BY <1>3, <2>2, <2>3, CountDistinct
<1>9. At(src) = {0}
  BY <1>4, <1>7
<1>10. ASSUME NEW n \in reached \ {src}
       PROVE  At(n) = {1 + Min(UNION {At(m) : m \in {m \in reached : <<m, n>> \in Edges}})}
  <2>1. PICK i \in 1 .. l : L[i][1] = n
    BY <1>5
  <2>2. i \in 2 .. l
    BY <1>4, <1>10, <2>1
  <2>3. PICK j \in 1 .. l : <<L[j][1], n>> \in Edges /\ L[i][2] = L[j][2] + 1
    <3>1. \A k \in 2 .. l : \E j \in 1 .. h : <<L[j][1], L[k][1]>> \in Edges /\ L[k][2] = L[j][2] + 1
      BY <1>2 DEF Met
    <3>. QED  BY ONLY <1>3, <2>1, <2>2, <3>1
  <2>4. PICK S : S = UNION {At(m) : m \in {m \in reached : <<m, n>> \in Edges}}
    OBVIOUS
  <2>5. ASSUME NEW y PROVE y \in S <=> \E k \in 1 .. l : <<L[k][1], n>> \in Edges /\ y = L[k][2]
    <3>1. ASSUME NEW k \in 1 .. l, <<L[k][1], n>> \in Edges, y = L[k][2] PROVE y \in S
      <4>1. L[k][1] \in reached /\ y \in At(L[k][1])
        BY <1>5, <1>7, <3>1
      <4>. QED  BY <2>4, <3>1, <4>1
    <3>2. ASSUME y \in S PROVE \E k \in 1 .. l : <<L[k][1], n>> \in Edges /\ y = L[k][2]
      <4>1. PICK m \in reached : <<m, n>> \in Edges /\ y \in At(m)
        BY <2>4, <3>2
      <4>2. PICK k \in 1 .. l : L[k][1] = m
        BY <1>5
      <4>. QED  BY <1>7, <4>1, <4>2
    <3>. QED  BY <3>1, <3>2
  <2>6. S \in SUBSET Nat
    <3>1. \A y \in S : y \in Nat
      <4>1. ASSUME NEW y \in S PROVE y \in Nat
        <5>1. PICK k \in 1 .. l : y = L[k][2]
          BY <2>5
        <5>. QED  BY <1>a, <5>1
      <4>. QED  BY <4>1
    <3>. QED  BY <3>1
  <2>7. ASSUME NEW k \in 1 .. l, <<L[k][1], n>> \in Edges PROVE L[j][2] <= L[k][2]
    <3>1. n \in Nodes
      BY <1>4, <2>1
    <3>2. MetBy(L, l, n, L[k][2] + 1)
      BY <1>1, <1>3, <2>7, <3>1 DEF Covered
    <3>3. PICK q \in 1 .. l : L[q][1] = n /\ L[q][2] <= L[k][2] + 1
      BY <3>2 DEF MetBy
    <3>4. q = i
      BY <1>4, <2>1, <3>3
    <3>5. L[j][2] + 1 <= L[k][2] + 1 /\ L[j][2] \in Nat /\ L[k][2] \in Nat
      BY <1>4, <2>3, <3>3, <3>4
    <3>6. \A a, b \in Nat : a + 1 <= b + 1 => a <= b
      OBVIOUS
    <3>. QED  BY ONLY <3>5, <3>6
  <2>8. PICK x \in S : x = L[j][2] /\ \A y \in S : x <= y
    <3>1. L[j][2] \in S
      BY <2>3, <2>5
    <3>2. ASSUME NEW y \in S PROVE L[j][2] <= y
      <4>1. PICK k \in 1 .. l : <<L[k][1], n>> \in Edges /\ y = L[k][2]
        BY <2>5
      <4>. QED  BY <2>7, <4>1
    <3>. QED  BY <3>1, <3>2
  <2>9. Min(S) = x
    BY <2>6, <2>8, MinIs
  <2>10. At(n) = {L[i][2]} /\ L[i][2] = 1 + x
    <3>1. At(n) = {L[i][2]}
      BY <1>7, <2>1
    <3>2. L[i][2] = 1 + x
      BY <1>a, <2>3, <2>8
    <3>. QED  BY <3>1, <3>2
  <2>. QED  BY <2>4, <2>9, <2>10
<1>11. \A i \in 2 .. l : L[i - 1][2] <= L[i][2]
  <2>1. \A i \in 2 .. l : i - 1 \in 1 .. l /\ i \in 1 .. l /\ i - 1 <= i
    BY <1>4
  <2>. QED  BY <1>4, <2>1
<1>12. {s.distances[i][1] : i \in DOMAIN s.distances} = reached
  BY <1>3, <1>4, <1>5
<1>13. Len(s.distances) = Cardinality(reached)
  BY <1>3, <1>8
<1>14. \A i \in 2 .. Len(s.distances) : s.distances[i - 1][2] <= s.distances[i][2]
  BY <1>3, <1>11
<1>15. \A n \in reached \ {src} : At(n) = {1 + Min(UNION {At(m) : m \in {m \in reached : <<m, n>> \in Edges}})}
  BY <1>10
<1>. QED  BY <1>9, <1>12, <1>13, <1>14, <1>15 DEF reached, At

-----------------------------------------------------------------------------
(* The elements of a call *)

\* x is an element of the sequence.
InSeq(x, s) == \E i \in 1 .. Len(s) : s[i] = x

\* One more element.
LEMMA AppendIn ==
  ASSUME NEW A, NEW s \in Seq(A), NEW y \in A
  PROVE  /\ Append(s, y) \in Seq(A) /\ \A x : InSeq(x, Append(s, y)) <=> InSeq(x, s) \/ x = y
         /\ Distinct(s, Len(s)) /\ ~InSeq(y, s) => Distinct(Append(s, y), Len(Append(s, y)))
<1>1. PICK n \in Nat : n = Len(s)
  OBVIOUS
<1>2. PICK t : t = Append(s, y)
  OBVIOUS
<1>3. t \in Seq(A) /\ Len(t) = n + 1 /\ t[n + 1] = y /\ \A i \in 1 .. n : t[i] = s[i]
  BY <1>1, <1>2, AppendProperties
<1>4. \A i \in 1 .. n + 1 : i \in 1 .. n \/ i = n + 1
  OBVIOUS
<1>5. n + 1 \in 1 .. n + 1 /\ \A i \in 1 .. n : i \in 1 .. n + 1
  OBVIOUS
<1>6. \A x : InSeq(x, t) <=> InSeq(x, s) \/ x = y
  BY <1>1, <1>3, <1>4, <1>5 DEF InSeq
<1>7. ASSUME Distinct(s, n), ~InSeq(y, s) PROVE Distinct(t, n + 1)
  <2>1. ASSUME NEW i \in 1 .. n + 1, NEW j \in 1 .. n + 1, t[i] = t[j] PROVE i = j
    <3>1. CASE i \in 1 .. n /\ j \in 1 .. n
      BY <1>3, <1>7, <2>1, <3>1 DEF Distinct
    <3>2. CASE i \in 1 .. n /\ j = n + 1
      BY <1>1, <1>3, <1>7, <2>1, <3>2 DEF InSeq
    <3>3. CASE i = n + 1 /\ j \in 1 .. n
      BY <1>1, <1>3, <1>7, <2>1, <3>3 DEF InSeq
    <3>. QED  BY <1>4, <3>1, <3>2, <3>3
  <2>. QED  BY <2>1 DEF Distinct
<1>. QED  BY <1>1, <1>2, <1>3, <1>6, <1>7

\* What is kept after each element.
KeptTable(b, S, q) ==
  /\ b \in [0 .. Len(q) -> Seq(Nodes)] /\ b[0] = <<>>
  /\ \A k \in 1 .. Len(q) : b[k] = IF q[k] \in S THEN Append(b[k - 1], q[k]) ELSE b[k - 1]

\* Kept as a table.
LEMMA KeptLoop ==
  ASSUME NEW q \in Seq(Nodes), NEW S
  PROVE  \E b : KeptTable(b, S, q) /\ Kept(S, q) = b[Len(q)]
<1>. DEFINE n == Len(q)
            A == Seq(Nodes)
            base == <<>>
            Step(kept, x) == IF x \in S THEN Append(kept, x) ELSE kept
            F == [k \in 1 .. n |-> [X \in A |-> Step(X, q[k])]]
            Def(t) == [k \in 0 .. n |->
                         IF k = 0 THEN base
                         ELSE CHOOSE r \in {Step(acc, q[k]) : acc \in {t[k - 1]}} : TRUE]
            After == CHOOSE t : t = Def(t)
<1>0. n \in Nat
  OBVIOUS
<1>1. base \in A
  OBVIOUS
<1>2. \A k \in 1 .. n, X \in A : Step(X, q[k]) \in A
  <2>1. \A k \in 1 .. n : q[k] \in Nodes
    OBVIOUS
  <2>. QED  BY <2>1, AppendProperties
<1>3. F \in [1 .. n -> [A -> A]]
  <2>. HIDE DEF A, Step, n
  <2>. QED  BY <1>2
<1>4. PICK b : Iterates(b, n, A, base, F)
  <2>. HIDE DEF A, F, base, n
  <2>. QED  BY <1>0, <1>1, <1>3, IteratesExist
<1>. HIDE DEF A, base, Step, n
<1>5. /\ b \in [0 .. n -> A] /\ b[0] = base
      /\ \A k \in 1 .. n : b[k] = Step(b[k - 1], q[k])
  <2>1. b \in [0 .. n -> A] /\ b[0] = base /\ \A k \in 1 .. n : b[k] = F[k][b[k - 1]]
    BY <1>4 DEF Iterates
  <2>2. \A k \in 1 .. n : k - 1 \in 0 .. n
    BY <1>0
  <2>3. \A k \in 1 .. n : b[k - 1] \in A
    BY <2>1, <2>2
  <2>. QED  BY <2>1, <2>3
<1>6. ASSUME NEW t, NEW k \in 1 .. n
      PROVE  (CHOOSE r \in {Step(acc, q[k]) : acc \in {t[k - 1]}} : TRUE) = Step(t[k - 1], q[k])
  <2>1. {Step(acc, q[k]) : acc \in {t[k - 1]}} = {Step(t[k - 1], q[k])}
    OBVIOUS
  <2>. QED  BY <2>1, OnlyOne
<1>7. b = Def(b)
  <2>1. b = [k \in 0 .. n |-> b[k]]
    BY <1>5
  <2>2. ASSUME NEW k \in 0 .. n PROVE b[k] = Def(b)[k]
    <3>1. CASE k = 0
      BY <1>5, <3>1
    <3>2. CASE k \in 1 .. n
      BY <1>0, <1>5, <1>6, <3>2
    <3>. QED  BY <1>0, <3>1, <3>2
  <2>. QED  BY <2>1, <2>2
<1>8. After = Def(After)
  <2>1. \E t : t = Def(t)
    BY <1>7
  <2>. QED  BY <2>1
<1>9. Kept(S, q) = After[n]
  BY DEF Kept, Loop, base, Step, n
<1>. HIDE DEF After
<1>10. After[0] = base /\ \A k \in 1 .. n : After[k] = Step(After[k - 1], q[k])
  <2>1. \A k \in 0 .. n : After[k] = Def(After)[k]
    BY <1>8
  <2>2. 0 \in 0 .. n /\ \A k \in 1 .. n : k \in 0 .. n /\ k # 0
    BY <1>0
  <2>. QED  BY <1>6, <2>1, <2>2
<1>11. After[n] = b[n]
  <2>1. PICK m, f : m \in Nat /\ m = n /\ f = After
    BY <1>0
  <2>2. m \in Nat /\ f[0] = b[0] /\ StayAlike(f, b, m)
    BY <1>5, <1>10, <2>1 DEF StayAlike
  <2>3. f[m] = b[m]
    BY ONLY <2>2, SameTable
  <2>. QED  BY <2>1, <2>3
<1>. QED  BY <1>5, <1>9, <1>11 DEF KeptTable, A, base, Step, n

\* The elements after each one given.
DedupTable(b) ==
  /\ b \in [0 .. Len(elements) -> Seq(Nodes)] /\ b[0] = <<>>
  /\ \A k \in 1 .. Len(elements) : b[k] = IF elements[k] \in Nodes /\ elements[k] \notin Range(b[k - 1])
                               THEN Append(b[k - 1], elements[k]) ELSE b[k - 1]

\* DedupNodes as a table.
LEMMA DedupLoop ==
  ASSUME elements \in Seq(Nat)
  PROVE  \E b : DedupTable(b) /\ DedupNodes = b[Len(elements)]
<1>. DEFINE n == Len(elements)
            A == Seq(Nodes)
            base == <<>>
            Step(acc, e) == IF e \in Nodes /\ e \notin Range(acc) THEN Append(acc, e) ELSE acc
            F == [k \in 1 .. n |-> [X \in A |-> Step(X, elements[k])]]
            Def(t) == [k \in 0 .. n |->
                         IF k = 0 THEN base
                         ELSE CHOOSE r \in {Step(acc, elements[k]) : acc \in {t[k - 1]}} : TRUE]
            After == CHOOSE t : t = Def(t)
<1>0. n \in Nat
  OBVIOUS
<1>1. base \in A
  OBVIOUS
<1>2. \A k \in 1 .. n, X \in A : Step(X, elements[k]) \in A
  BY AppendProperties
<1>3. F \in [1 .. n -> [A -> A]]
  <2>. HIDE DEF A, Step, n
  <2>. QED  BY <1>2
<1>4. PICK b : Iterates(b, n, A, base, F)
  <2>. HIDE DEF A, F, base, n
  <2>. QED  BY <1>0, <1>1, <1>3, IteratesExist
<1>. HIDE DEF A, base, Step, n
<1>5. /\ b \in [0 .. n -> A] /\ b[0] = base
      /\ \A k \in 1 .. n : b[k] = Step(b[k - 1], elements[k])
  <2>1. b \in [0 .. n -> A] /\ b[0] = base /\ \A k \in 1 .. n : b[k] = F[k][b[k - 1]]
    BY <1>4 DEF Iterates
  <2>2. \A k \in 1 .. n : k - 1 \in 0 .. n
    BY <1>0
  <2>3. \A k \in 1 .. n : b[k - 1] \in A
    BY <2>1, <2>2
  <2>. QED  BY <2>1, <2>3
<1>6. ASSUME NEW t, NEW k \in 1 .. n
      PROVE  (CHOOSE r \in {Step(acc, elements[k]) : acc \in {t[k - 1]}} : TRUE) = Step(t[k - 1], elements[k])
  <2>1. {Step(acc, elements[k]) : acc \in {t[k - 1]}} = {Step(t[k - 1], elements[k])}
    OBVIOUS
  <2>. QED  BY <2>1, OnlyOne
<1>7. b = Def(b)
  <2>1. b = [k \in 0 .. n |-> b[k]]
    BY <1>5
  <2>2. ASSUME NEW k \in 0 .. n PROVE b[k] = Def(b)[k]
    <3>1. CASE k = 0
      BY <1>5, <3>1
    <3>2. CASE k \in 1 .. n
      BY <1>0, <1>5, <1>6, <3>2
    <3>. QED  BY <1>0, <3>1, <3>2
  <2>. QED  BY <2>1, <2>2
<1>8. After = Def(After)
  <2>1. \E t : t = Def(t)
    BY <1>7
  <2>. QED  BY <2>1
<1>9. DedupNodes = After[n]
  BY DEF DedupNodes, Loop, base, Step, n
<1>. HIDE DEF After
<1>10. After[0] = base /\ \A k \in 1 .. n : After[k] = Step(After[k - 1], elements[k])
  <2>1. \A k \in 0 .. n : After[k] = Def(After)[k]
    BY <1>8
  <2>2. 0 \in 0 .. n /\ \A k \in 1 .. n : k \in 0 .. n /\ k # 0
    BY <1>0
  <2>. QED  BY <1>6, <2>1, <2>2
<1>11. After[n] = b[n]
  <2>1. PICK m, f : m \in Nat /\ m = n /\ f = After
    BY <1>0
  <2>2. m \in Nat /\ f[0] = b[0] /\ StayAlike(f, b, m)
    BY <1>5, <1>10, <2>1 DEF StayAlike
  <2>3. f[m] = b[m]
    BY ONLY <2>2, SameTable
  <2>. QED  BY <2>1, <2>3
<1>. QED  BY <1>5, <1>9, <1>11 DEF DedupTable, A, base, Step, n

\* Kept holds the elements that are in the set, as often as they were there.
LEMMA KeptIs ==
  ASSUME NEW q \in Seq(Nodes), NEW S, Distinct(q, Len(q))
  PROVE  /\ Kept(S, q) \in Seq(Nodes) /\ Distinct(Kept(S, q), Len(Kept(S, q)))
         /\ \A x : InSeq(x, Kept(S, q)) <=> InSeq(x, q) /\ x \in S
<1>1. PICK n \in Nat : n = Len(q) /\ \A k \in 1 .. n : q[k] \in Nodes
  OBVIOUS
<1>2. PICK b : KeptTable(b, S, q) /\ Kept(S, q) = b[n]
  BY <1>1, KeptLoop
<1>3. /\ b \in [0 .. n -> Seq(Nodes)] /\ b[0] = <<>>
      /\ \A k \in 1 .. n : b[k] = IF q[k] \in S THEN Append(b[k - 1], q[k]) ELSE b[k - 1]
  BY <1>1, <1>2 DEF KeptTable
<1>. DEFINE T == {k \in 0 .. n : /\ Distinct(b[k], Len(b[k]))
                                 /\ \A x : InSeq(x, b[k]) <=> x \in S /\ \E i \in 1 .. k : q[i] = x}
<1>4. 0 \in T
  <2>1. \A x : ~InSeq(x, b[0])
    BY <1>3 DEF InSeq
  <2>2. Distinct(b[0], Len(b[0]))
    BY <1>3 DEF Distinct
  <2>. QED  BY <2>1, <2>2
<1>5. ASSUME NEW k \in 1 .. n, k - 1 \in T PROVE k \in T
  <2>1. PICK c \in Seq(Nodes) : c = b[k - 1]
    BY <1>3
  <2>2. PICK y \in Nodes : y = q[k]
    BY <1>1
  <2>3. Distinct(c, Len(c)) /\ \A x : InSeq(x, c) <=> x \in S /\ \E i \in 1 .. k - 1 : q[i] = x
    BY <1>5, <2>1
  <2>4. \A i \in 1 .. k : i \in 1 .. k - 1 \/ i = k
    BY <1>1
  <2>5. k \in 1 .. k /\ \A i \in 1 .. k - 1 : i \in 1 .. k
    BY <1>1
  <2>6. CASE y \notin S
    <3>1. b[k] = c
      BY <1>3, <2>1, <2>2, <2>6
    <3>2. \A x : InSeq(x, c) <=> x \in S /\ \E i \in 1 .. k : q[i] = x
      BY <2>2, <2>3, <2>4, <2>5, <2>6
    <3>. QED  BY <2>3, <3>1, <3>2
  <2>7. CASE y \in S
    <3>1. PICK t : t = Append(c, y) /\ b[k] = t
      BY <1>3, <2>1, <2>2, <2>7
    <3>2. ~InSeq(y, c)
      <4>1. \A i \in 1 .. k - 1 : i \in 1 .. n /\ k \in 1 .. n /\ i # k
        BY <1>1
      <4>. QED  BY <1>1, <2>2, <2>3, <4>1 DEF Distinct
    <3>3. Distinct(t, Len(t)) /\ \A x : InSeq(x, t) <=> InSeq(x, c) \/ x = y
      BY <2>3, <3>1, <3>2, AppendIn
    <3>4. \A x : InSeq(x, t) <=> x \in S /\ \E i \in 1 .. k : q[i] = x
      BY <2>2, <2>3, <2>4, <2>5, <2>7, <3>3
    <3>5. k \in 0 .. n /\ Distinct(b[k], Len(b[k])) /\ \A x : InSeq(x, b[k]) <=> x \in S /\ \E i \in 1 .. k : q[i] = x
      BY ONLY <1>1, k \in 1 .. n, <3>1, <3>3, <3>4
    <3>. QED  BY <3>5
  <2>. QED  BY <2>6, <2>7
<1>6. n \in T
  <2>1. n \in 0 .. n
    OBVIOUS
  <2>. HIDE DEF T
  <2>. QED  BY <1>4, <1>5, <2>1, AllUpTo
<1>7. b[n] \in Seq(Nodes)
  BY <1>3
<1>. QED  BY <1>1, <1>2, <1>6, <1>7 DEF InSeq

\* DedupNodes lists every member once.
LEMMA DedupIs ==
  ASSUME elements \in Seq(Nat)
  PROVE  /\ DedupNodes \in Seq(Nodes) /\ Distinct(DedupNodes, Len(DedupNodes))
         /\ \A x : InSeq(x, DedupNodes) <=> x \in Member
<1>1. PICK n \in Nat : n = Len(elements)
  OBVIOUS
<1>2. PICK b : DedupTable(b) /\ DedupNodes = b[n]
  BY <1>1, DedupLoop
<1>3. /\ b \in [0 .. n -> Seq(Nodes)] /\ b[0] = <<>>
      /\ \A k \in 1 .. n : b[k] = IF elements[k] \in Nodes /\ elements[k] \notin Range(b[k - 1])
                                  THEN Append(b[k - 1], elements[k]) ELSE b[k - 1]
  BY <1>1, <1>2 DEF DedupTable
<1>. DEFINE T == {k \in 0 .. n : /\ Distinct(b[k], Len(b[k]))
                                 /\ \A x : InSeq(x, b[k]) <=> x \in Nodes /\ \E i \in 1 .. k : elements[i] = x}
<1>4. 0 \in T
  <2>1. \A x : ~InSeq(x, b[0])
    BY <1>3 DEF InSeq
  <2>2. Distinct(b[0], Len(b[0]))
    BY <1>3 DEF Distinct
  <2>. QED  BY <2>1, <2>2
<1>5. ASSUME NEW k \in 1 .. n, k - 1 \in T PROVE k \in T
  <2>1. PICK c \in Seq(Nodes) : c = b[k - 1]
    BY <1>3
  <2>2. PICK y : y = elements[k]
    OBVIOUS
  <2>3. Distinct(c, Len(c)) /\ \A x : InSeq(x, c) <=> x \in Nodes /\ \E i \in 1 .. k - 1 : elements[i] = x
    BY <1>5, <2>1
  <2>4. \A i \in 1 .. k : i \in 1 .. k - 1 \/ i = k
    BY <1>1
  <2>5. k \in 1 .. k /\ \A i \in 1 .. k - 1 : i \in 1 .. k
    BY <1>1
  <2>a. y \in Range(c) <=> InSeq(y, c)
    BY DEF Range, InSeq
  <2>6. CASE y \notin Nodes \/ InSeq(y, c)
    <3>1. b[k] = c
      BY <1>3, <2>1, <2>2, <2>a, <2>6
    <3>2. \A x : InSeq(x, c) <=> x \in Nodes /\ \E i \in 1 .. k : elements[i] = x
      BY <2>2, <2>3, <2>4, <2>5, <2>6
    <3>. QED  BY <2>3, <3>1, <3>2
  <2>7. CASE y \in Nodes /\ ~InSeq(y, c)
    <3>1. PICK t : t = Append(c, y) /\ b[k] = t
      BY <1>3, <2>1, <2>2, <2>a, <2>7
    <3>2. Distinct(t, Len(t)) /\ \A x : InSeq(x, t) <=> InSeq(x, c) \/ x = y
      BY <2>3, <2>7, <3>1, AppendIn
    <3>3. \A x : InSeq(x, t) <=> x \in Nodes /\ \E i \in 1 .. k : elements[i] = x
      BY <2>2, <2>3, <2>4, <2>5, <2>7, <3>2
    <3>4. k \in 0 .. n /\ Distinct(b[k], Len(b[k])) /\ \A x : InSeq(x, b[k]) <=> x \in Nodes /\ \E i \in 1 .. k : elements[i] = x
      BY ONLY <1>1, k \in 1 .. n, <3>1, <3>2, <3>3
    <3>. QED  BY <3>4
  <2>. QED  BY <2>6, <2>7
<1>6. n \in T
  <2>1. n \in 0 .. n
    OBVIOUS
  <2>. HIDE DEF T
  <2>. QED  BY <1>4, <1>5, <2>1, AllUpTo
<1>7. b[n] \in Seq(Nodes)
  BY <1>3
<1>8. \A x : x \in Member <=> x \in Nodes /\ \E i \in 1 .. n : elements[i] = x
  BY <1>1 DEF Member, Range
<1>. QED  BY <1>1, <1>2, <1>6, <1>7, <1>8

-----------------------------------------------------------------------------
(* Topological sort *)

\* The local state of the sort and of the longest path.
TopoStates ==
  [indegree : [Nodes -> Int], queue : Seq(Nodes), order : Seq(Nodes), err : {"Ok", "Cycle"}, at : Nat,
   lengths : [Nodes -> Nat], predecessor : [Nodes -> Nat], best_end : Nat, best_length : Nat,
   path : Seq(Nodes), cursor : Nat]

\* Only the degrees and the queue differ.
SortsOn(s, r) ==
  /\ r.order = s.order /\ r.err = s.err /\ r.at = s.at /\ r.lengths = s.lengths
  /\ r.predecessor = s.predecessor /\ r.best_end = s.best_end /\ r.best_length = s.best_length
  /\ r.path = s.path /\ r.cursor = s.cursor

\* What a release changes.
LEMMA ReleaseIs ==
  ASSUME NEW s \in TopoStates, NEW t \in Nodes, NEW r, r = Release(s, t)
  PROVE  /\ r \in TopoStates /\ SortsOn(s, r)
         /\ t \notin Member => r = s
         /\ t \in Member => /\ r.indegree = [s.indegree EXCEPT ![t] = s.indegree[t] - 1]
                           /\ r.queue = IF s.indegree[t] = 1 THEN Append(s.queue, t) ELSE s.queue
<1>1. CASE t \notin Member
  <2>1. r = s
    BY <1>1 DEF Release
  <2>. QED  BY <1>1, <2>1 DEF SortsOn
<1>2. CASE t \in Member
  <2>1. r = [s EXCEPT !.indegree[t] = @ - 1, !.queue = IF s.indegree[t] = 1 THEN Append(@, t) ELSE @]
    BY <1>2 DEF Release
  <2>2. PICK q : q = IF s.indegree[t] = 1 THEN Append(s.queue, t) ELSE s.queue
    OBVIOUS
  <2>3. q \in Seq(Nodes)
    <3>1. s.queue \in Seq(Nodes)
      BY DEF TopoStates
    <3>. QED  BY <2>2, <3>1, AppendProperties
  <2>4. PICK g : g = [s.indegree EXCEPT ![t] = s.indegree[t] - 1]
    OBVIOUS
  <2>5. g \in [Nodes -> Int]
    BY <2>4 DEF TopoStates
  <2>6. r = [s EXCEPT !.indegree = g, !.queue = q]
    BY <2>1, <2>2, <2>4 DEF TopoStates
  <2>7. r \in TopoStates /\ r.indegree = g /\ r.queue = q /\ SortsOn(s, r)
    BY <2>3, <2>5, <2>6 DEF TopoStates, SortsOn
  <2>. QED  BY <1>2, <2>2, <2>4, <2>7
<1>. QED  BY <1>1, <1>2

\* The states after each release.
ReleaseTable(b, s, row) ==
  /\ b \in [0 .. Len(row) -> TopoStates] /\ b[0] = s
  /\ \A k \in 1 .. Len(row) : b[k] = Release(b[k - 1], row[k])

\* A pop as a table of the releases.
LEMMA ReleaseLoop ==
  ASSUME NEW s \in TopoStates, NEW row \in Seq(Nodes)
  PROVE  \E b : ReleaseTable(b, s, row) /\ ReleaseAll(s, row) = b[Len(row)]
<1>. DEFINE n == Len(row)
            A == TopoStates
            base == s
            Step(acc, t) == Release(acc, t)
            F == [k \in 1 .. n |-> [X \in A |-> Step(X, row[k])]]
            Def(t) == [k \in 0 .. n |->
                         IF k = 0 THEN base
                         ELSE CHOOSE r \in {Step(acc, row[k]) : acc \in {t[k - 1]}} : TRUE]
            After == CHOOSE t : t = Def(t)
<1>0. n \in Nat
  OBVIOUS
<1>1. base \in A
  OBVIOUS
<1>2. \A k \in 1 .. n, X \in A : Step(X, row[k]) \in A
  <2>1. \A k \in 1 .. n : row[k] \in Nodes
    OBVIOUS
  <2>. QED  BY <2>1, ReleaseIs
<1>3. F \in [1 .. n -> [A -> A]]
  <2>. HIDE DEF A, Step, n
  <2>. QED  BY <1>2
<1>4. PICK b : Iterates(b, n, A, base, F)
  <2>. HIDE DEF A, F, base, n
  <2>. QED  BY <1>0, <1>1, <1>3, IteratesExist
<1>. HIDE DEF A, base, Step, n
<1>5. /\ b \in [0 .. n -> A] /\ b[0] = base
      /\ \A k \in 1 .. n : b[k] = Step(b[k - 1], row[k])
  <2>1. b \in [0 .. n -> A] /\ b[0] = base /\ \A k \in 1 .. n : b[k] = F[k][b[k - 1]]
    BY <1>4 DEF Iterates
  <2>2. \A k \in 1 .. n : k - 1 \in 0 .. n
    BY <1>0
  <2>3. \A k \in 1 .. n : b[k - 1] \in A
    BY <2>1, <2>2
  <2>. QED  BY <2>1, <2>3
<1>6. ASSUME NEW t, NEW k \in 1 .. n
      PROVE  (CHOOSE r \in {Step(acc, row[k]) : acc \in {t[k - 1]}} : TRUE) = Step(t[k - 1], row[k])
  <2>1. {Step(acc, row[k]) : acc \in {t[k - 1]}} = {Step(t[k - 1], row[k])}
    OBVIOUS
  <2>. QED  BY <2>1, OnlyOne
<1>7. b = Def(b)
  <2>1. b = [k \in 0 .. n |-> b[k]]
    BY <1>5
  <2>2. ASSUME NEW k \in 0 .. n PROVE b[k] = Def(b)[k]
    <3>1. CASE k = 0
      BY <1>5, <3>1
    <3>2. CASE k \in 1 .. n
      BY <1>0, <1>5, <1>6, <3>2
    <3>. QED  BY <1>0, <3>1, <3>2
  <2>. QED  BY <2>1, <2>2
<1>8. After = Def(After)
  <2>1. \E t : t = Def(t)
    BY <1>7
  <2>. QED  BY <2>1
<1>9. ReleaseAll(s, row) = After[n]
  BY DEF ReleaseAll, Loop, base, Step, n
<1>. HIDE DEF After
<1>10. After[0] = base /\ \A k \in 1 .. n : After[k] = Step(After[k - 1], row[k])
  <2>1. \A k \in 0 .. n : After[k] = Def(After)[k]
    BY <1>8
  <2>2. 0 \in 0 .. n /\ \A k \in 1 .. n : k \in 0 .. n /\ k # 0
    BY <1>0
  <2>. QED  BY <1>6, <2>1, <2>2
<1>11. After[n] = b[n]
  <2>1. PICK m, f : m \in Nat /\ m = n /\ f = After
    BY <1>0
  <2>2. m \in Nat /\ f[0] = b[0] /\ StayAlike(f, b, m)
    BY <1>5, <1>10, <2>1 DEF StayAlike
  <2>3. f[m] = b[m]
    BY ONLY <2>2, SameTable
  <2>. QED  BY <2>1, <2>3
<1>. QED  BY <1>5, <1>9, <1>11 DEF ReleaseTable, A, base, Step, n

\* The entries still to be released that lead to t.
Pending(t, D, E, G) == {p \in E \ D : G[p[1]][p[2]] = t}

\* The entries of the first h nodes.
Past(L, h, E) == {p \in E : \E i \in 1 .. h : L[i] = p[1]}

\* L lists the nodes that have no pending entry, once each, the first h of which were taken; the
\* predecessors of each were taken before it was queued.
Sorting(s, L, h, l, D, M, E, G) ==
  /\ s \in TopoStates /\ Line(s.order, s.queue, L, h, l, Nodes) /\ Distinct(L, l)
  /\ \A i \in 1 .. l : L[i] \in M
  /\ \A t \in M : s.indegree[t] = Cardinality(Pending(t, D, E, G))
  /\ \A t \in M : Pending(t, D, E, G) = {} <=> \E i \in 1 .. l : L[i] = t
  /\ \A j \in 1 .. l, p \in E : G[p[1]][p[2]] = L[j] => \E i \in 1 .. h : i < j /\ L[i] = p[1]

\* The entries of the members' rows.
LEMMA EntriesAre ==
  ASSUME graph.rows \in [Nodes -> Seq(Nodes)]
  PROVE  /\ IsFiniteSet(Entries) /\ Member \subseteq Nodes
         /\ \A m, k : <<m, k>> \in Entries <=> m \in Member /\ k \in 1 .. Len(graph.rows[m])
         /\ \A p \in Entries : p = <<p[1], p[2]>> /\ p[1] \in Member /\ p[2] \in 1 .. Len(graph.rows[p[1]])
<1>1. Member \subseteq Nodes
  BY DEF Member
<1>2. \A m \in Nodes : DOMAIN graph.rows[m] = 1 .. Len(graph.rows[m]) /\ Len(graph.rows[m]) \in Nat
  OBVIOUS
<1>3. PICK P : P = {{m} \X DOMAIN graph.rows[m] : m \in Member}
  OBVIOUS
<1>4. Entries = UNION P
  BY <1>3 DEF Entries
<1>5. IsFiniteSet(P)
  <2>1. IsFiniteSet(Member)
    BY <1>1, NodesFinite, FS_Subset
  <2>2. PICK f : f = [m \in Member |-> {m} \X DOMAIN graph.rows[m]]
    OBVIOUS
  <2>3. f \in Surjection(Member, P)
    <3>1. f \in [Member -> P]
      BY <1>3, <2>2
    <3>2. \A x \in P : \E m \in Member : f[m] = x
      BY <1>3, <2>2
    <3>. QED  BY <3>1, <3>2 DEF Surjection
  <2>. QED  BY <2>1, <2>3, FS_Surjection
<1>6. ASSUME NEW x \in P PROVE IsFiniteSet(x)
  <2>1. PICK m \in Member : x = {m} \X DOMAIN graph.rows[m]
    BY <1>3
  <2>2. PICK S, U : S = {m} /\ U = DOMAIN graph.rows[m]
    OBVIOUS
  <2>3. IsFiniteSet(S)
    BY <2>2, FS_Singleton
  <2>4. IsFiniteSet(U)
    <3>1. PICK a, d \in Int : a = 1 /\ d = Len(graph.rows[m])
      BY <1>1, <1>2
    <3>2. IsFiniteSet(a .. d)
      BY FS_Interval
    <3>. QED  BY <1>1, <1>2, <2>2, <3>1, <3>2
  <2>5. IsFiniteSet(S \X U)
    BY <2>3, <2>4, FS_Product
  <2>. QED  BY <2>1, <2>2, <2>5
<1>7. IsFiniteSet(Entries)
  BY <1>4, <1>5, <1>6, FS_UNION
<1>8. \A m, k : <<m, k>> \in Entries <=> m \in Member /\ k \in 1 .. Len(graph.rows[m])
  BY <1>1, <1>2 DEF Entries
<1>9. \A p \in Entries : p = <<p[1], p[2]>>
  BY DEF Entries
<1>10. \A p \in Entries : p[1] \in Member /\ p[2] \in 1 .. Len(graph.rows[p[1]])
  BY <1>8, <1>9
<1>. QED  BY <1>1, <1>7, <1>8, <1>9, <1>10

\* The entry e, of a node that was taken, to t is the next to be released.
NextEntry(e, t, L, h, D, E, G) ==
  /\ IsFiniteSet(E) /\ D \subseteq Past(L, h, E) /\ e \in E \ D /\ \E i \in 1 .. h : L[i] = e[1]
  /\ t \in Nodes /\ t = G[e[1]][e[2]]

\* The sort goes on from s to r, D being released.
Released(s, r, L, h, l, D, E, G) ==
  \E L2, l2 : /\ Sorting(r, L2, h, l2, D, Member, E, G) /\ Continues(L, l, L2, l2) /\ SortsOn(s, r)
             /\ D \subseteq Past(L2, h, E)

\* Releasing one entry of the node taken last.
LEMMA ReleaseStep ==
  ASSUME NEW s, NEW L, NEW h, NEW l, NEW D, NEW E, NEW G, Sorting(s, L, h, l, D, Member, E, G),
         NEW e, NEW t, NextEntry(e, t, L, h, D, E, G), NEW r, r = Release(s, t),
         NEW D2, D2 = D \cup {e}
  PROVE  Released(s, r, L, h, l, D2, E, G)
<1>a. /\ IsFiniteSet(E) /\ D \subseteq Past(L, h, E) /\ e \in E \ D /\ \E i \in 1 .. h : L[i] = e[1]
      /\ t \in Nodes /\ t = G[e[1]][e[2]]
  BY DEF NextEntry
<1>1. /\ s \in TopoStates /\ Line(s.order, s.queue, L, h, l, Nodes) /\ Distinct(L, l)
      /\ \A i \in 1 .. l : L[i] \in Member
      /\ \A u \in Member : s.indegree[u] = Cardinality(Pending(u, D, E, G))
      /\ \A u \in Member : Pending(u, D, E, G) = {} <=> \E i \in 1 .. l : L[i] = u
      /\ \A j \in 1 .. l, p \in E : G[p[1]][p[2]] = L[j] => \E i \in 1 .. h : i < j /\ L[i] = p[1]
  BY DEF Sorting
<1>2. l \in Nat /\ h \in Nat /\ h <= l /\ h \in 0 .. l
  BY <1>1 DEF Line
<1>3. D2 = D \cup {e}
  OBVIOUS
<1>4. D2 \subseteq Past(L, h, E)
  BY <1>3, <1>a DEF Past
<1>5. \A u : u # t => Pending(u, D2, E, G) = Pending(u, D, E, G)
  BY <1>3, <1>a DEF Pending
<1>6. /\ r \in TopoStates /\ SortsOn(s, r)
      /\ t \notin Member => r = s
      /\ t \in Member => /\ r.indegree = [s.indegree EXCEPT ![t] = s.indegree[t] - 1]
                         /\ r.queue = IF s.indegree[t] = 1 THEN Append(s.queue, t) ELSE s.queue
  <2>1. s \in TopoStates
    BY <1>1
  <2>. QED  BY ONLY <1>a, <2>1, r = Release(s, t), ReleaseIs
<1>7. Continues(L, l, L, l)
  BY <1>2 DEF Continues
<1>8. CASE t \notin Member
  <2>1. \A u \in Member : Pending(u, D2, E, G) = Pending(u, D, E, G)
    BY <1>5, <1>8
  <2>2. r = s
    BY <1>6, <1>8
  <2>3. Sorting(s, L, h, l, D2, Member, E, G)
    BY <1>1, <2>1 DEF Sorting
  <2>. QED  BY <1>3, <1>4, <1>6, <1>7, <2>2, <2>3 DEF Released
<1>9. CASE t \in Member
  <2>1. PICK P, Q : P = Pending(t, D, E, G) /\ Q = Pending(t, D2, E, G)
    OBVIOUS
  <2>2. e \in P /\ Q = P \ {e} /\ P \subseteq E
    BY <1>3, <1>a, <2>1 DEF Pending
  <2>3. IsFiniteSet(P) /\ IsFiniteSet(Q) /\ Cardinality(P) \in Nat /\ Cardinality(Q) \in Nat /\ Cardinality(Q) = Cardinality(P) - 1
    <3>1. IsFiniteSet(P)
      BY <1>a, <2>2, FS_Subset
    <3>2. IsFiniteSet(Q) /\ Cardinality(Q) = Cardinality(P) - 1
      BY <2>2, <3>1, FS_RemoveElement
    <3>. QED  BY <3>1, <3>2, FS_CardinalityType
  <2>4. s.indegree[t] = Cardinality(P) /\ ~\E i \in 1 .. l : L[i] = t
    BY <1>1, <1>9, <2>1, <2>2
  <2>5. s.indegree \in [Nodes -> Int]
    BY <1>1 DEF TopoStates
  <2>6. \A u \in Member : r.indegree[u] = Cardinality(Pending(u, D2, E, G))
    <3>1. r.indegree[t] = Cardinality(Q)
      BY <1>6, <1>9, <1>a, <2>3, <2>4, <2>5
    <3>2. \A u \in Member : u \in Nodes
      BY DEF Member
    <3>3. \A u \in Member : u # t => r.indegree[u] = s.indegree[u]
      BY <1>6, <1>9, <2>5, <3>2
    <3>4. \A u \in Member : u # t => r.indegree[u] = Cardinality(Pending(u, D2, E, G))
      BY <1>1, <1>5, <3>3
    <3>. QED  BY <2>1, <3>1, <3>4
  <2>7. CASE Cardinality(P) # 1
    <3>1. Q # {}
      BY <2>3, <2>7, FS_EmptySet
    <3>2. r.queue = s.queue /\ r.order = s.order
      BY <1>6, <1>9, <2>4, <2>7 DEF SortsOn
    <3>3. \A u \in Member : Pending(u, D2, E, G) = {} <=> \E i \in 1 .. l : L[i] = u
      <4>1. ASSUME NEW u \in Member PROVE Pending(u, D2, E, G) = {} <=> \E i \in 1 .. l : L[i] = u
        <5>1. CASE u = t
          BY <2>1, <2>4, <3>1, <5>1
        <5>2. CASE u # t
          BY <1>1, <1>5, <5>2
        <5>. QED  BY <5>1, <5>2
      <4>. QED  BY <4>1
    <3>4. Sorting(r, L, h, l, D2, Member, E, G)
      BY <1>1, <1>6, <2>6, <3>2, <3>3 DEF Sorting
    <3>. QED  BY <1>3, <1>4, <1>6, <1>7, <3>4 DEF Released
  <2>8. CASE Cardinality(P) = 1
    <3>1. Q = {}
      BY <2>3, <2>8, FS_EmptySet
    <3>2. r.queue = Append(s.queue, t) /\ r.order = s.order
      BY <1>6, <1>9, <2>4, <2>8 DEF SortsOn
    <3>3. PICK W : W = With(L, l, t)
      OBVIOUS
    <3>4. Line(r.order, r.queue, W, h, l + 1, Nodes)
      <4>1. Line(s.order, s.queue, L, h, l, Nodes) /\ t \in Nodes
        BY <1>1, <1>a
      <4>2. Line(s.order, Append(s.queue, t), With(L, l, t), h, l + 1, Nodes)
        BY ONLY <4>1, LineAdd
      <4>. QED  BY <3>2, <3>3, <4>2
    <3>5. /\ W[l + 1] = t /\ \A i \in 1 .. l : W[i] = L[i]
          /\ \A i \in 1 .. l + 1 : i \in 1 .. l \/ i = l + 1
      BY <1>2, <3>3, WithIs
    <3>6. l + 1 \in 1 .. l + 1 /\ \A i \in 1 .. l : i \in 1 .. l + 1 /\ i # l + 1
      BY <1>2
    <3>7. Distinct(W, l + 1)
      <4>1. ASSUME NEW i \in 1 .. l + 1, NEW j \in 1 .. l + 1, W[i] = W[j] PROVE i = j
        <5>1. CASE i \in 1 .. l /\ j \in 1 .. l
          BY <1>1, <3>5, <4>1, <5>1 DEF Distinct
        <5>2. CASE i \in 1 .. l /\ j = l + 1
          BY <2>4, <3>5, <4>1, <5>2
        <5>3. CASE i = l + 1 /\ j \in 1 .. l
          BY <2>4, <3>5, <4>1, <5>3
        <5>. QED  BY <3>5, <5>1, <5>2, <5>3
      <4>. QED  BY <1>2, <4>1 DEF Distinct
    <3>8. \A i \in 1 .. l + 1 : W[i] \in Member
      BY <1>1, <1>9, <3>5
    <3>9. ASSUME NEW u \in Member PROVE Pending(u, D2, E, G) = {} <=> \E i \in 1 .. l + 1 : W[i] = u
      <4>1. CASE u = t
        BY <2>1, <3>1, <3>5, <3>6, <4>1
      <4>2. CASE u # t
        <5>1. (\E i \in 1 .. l + 1 : W[i] = u) <=> \E i \in 1 .. l : L[i] = u
          BY <3>5, <3>6, <4>2
        <5>. QED  BY <1>1, <1>5, <4>2, <5>1
      <4>. QED  BY <4>1, <4>2
    <3>10. \A i \in 1 .. h : i \in 1 .. l /\ i < l + 1 /\ W[i] = L[i]
      BY <1>2, <3>5
    <3>11. ASSUME NEW j \in 1 .. l + 1, NEW p \in E, G[p[1]][p[2]] = W[j] PROVE \E i \in 1 .. h : i < j /\ W[i] = p[1]
      <4>1. CASE j \in 1 .. l
        <5>1. PICK i \in 1 .. h : i < j /\ L[i] = p[1]
          BY <1>1, <3>5, <3>11, <4>1
        <5>. QED  BY <3>10, <5>1
      <4>2. CASE j = l + 1
        <5>1. p \in D2
          BY <2>1, <3>1, <3>5, <3>11, <4>2 DEF Pending
        <5>2. PICK i \in 1 .. h : L[i] = p[1]
          BY <1>4, <5>1 DEF Past
        <5>. QED  BY <3>10, <4>2, <5>2
      <4>. QED  BY <3>5, <4>1, <4>2
    <3>12. Sorting(r, W, h, l + 1, D2, Member, E, G)
      BY <1>6, <2>6, <3>4, <3>7, <3>8, <3>9, <3>11 DEF Sorting
    <3>13. Continues(L, l, W, l + 1)
      BY <1>2, <3>5 DEF Continues
    <3>14. D2 \subseteq Past(W, h, E)
      BY <1>4, <3>10 DEF Past
    <3>. QED  BY <1>3, <1>6, <3>12, <3>13, <3>14 DEF Released
  <2>. QED  BY <2>7, <2>8
<1>. QED  BY <1>8, <1>9

\* The local state before the path phase.
Unstarted(s) ==
  /\ s.err = "Ok" /\ s.at = 1 /\ s.lengths = [n \in Nodes |-> 0] /\ s.predecessor = [n \in Nodes |-> NoNode]
  /\ s.best_end = NoNode /\ s.best_length = 0 /\ s.path = <<>> /\ s.cursor = NoNode

\* Between two pops the sort is this far.
SortGoing(s, M, E, G) ==
  Unstarted(s) /\ \E L, h, l : Sorting(s, L, h, l, Past(L, h, E), M, E, G)

\* Releasing the row of the node taken last.
LEMMA ReleaseRow ==
  ASSUME NEW s, NEW L, NEW h, NEW l, NEW G \in [Nodes -> Seq(Nodes)], NEW E, IsFiniteSet(E),
         \A m, k : <<m, k>> \in E <=> m \in Member /\ k \in 1 .. Len(G[m]),
         \A p \in E : p = <<p[1], p[2]>> /\ p[1] \in Nodes,
         h + 1 \in 1 .. l, h \in Nat, l \in Nat, L[h + 1] \in Member,
         NEW n \in Nodes, n = L[h + 1],
         Sorting(s, L, h + 1, l, Past(L, h, E), Member, E, G)
  PROVE  \E L2, l2 : /\ Sorting(ReleaseAll(s, G[n]), L2, h + 1, l2, Past(L2, h + 1, E), Member, E, G)
                     /\ SortsOn(s, ReleaseAll(s, G[n]))
<1>1. PICK row \in Seq(Nodes) : row = G[n]
  OBVIOUS
<1>2. PICK c \in Nat : c = Len(row) /\ \A k \in 1 .. c : row[k] \in Nodes
  BY ONLY row \in Seq(Nodes)
<1>3. s \in TopoStates /\ Distinct(L, l)
  BY DEF Sorting
<1>4. PICK b : ReleaseTable(b, s, row) /\ ReleaseAll(s, row) = b[c]
  BY <1>2, <1>3, ReleaseLoop
<1>5. b[0] = s /\ \A k \in 1 .. c : b[k] = Release(b[k - 1], row[k])
  BY <1>2, <1>4 DEF ReleaseTable
<1>. DEFINE D(k) == Past(L, h, E) \cup {<<n, i>> : i \in 1 .. k}
            Now(k, L2, l2) == /\ Sorting(b[k], L2, h + 1, l2, D(k), Member, E, G) /\ Continues(L, l, L2, l2)
                              /\ SortsOn(s, b[k]) /\ D(k) \subseteq Past(L2, h + 1, E)
            T == {k \in 0 .. c : \E L2, l2 : Now(k, L2, l2)}
<1>6. \A i \in 1 .. h : i \in 1 .. h + 1 /\ i \in 1 .. l /\ i # h + 1
  OBVIOUS
<1>7. 0 \in T
  <2>1. D(0) = Past(L, h, E)
    OBVIOUS
  <2>2. D(0) \subseteq Past(L, h + 1, E)
    BY <1>6, <2>1 DEF Past
  <2>3. Continues(L, l, L, l)
    BY DEF Continues
  <2>4. SortsOn(s, b[0])
    BY <1>5 DEF SortsOn
  <2>5. Now(0, L, l)
    BY <1>5, <2>1, <2>2, <2>3, <2>4
  <2>. HIDE DEF Now
  <2>. QED  BY <2>5
<1>8. ASSUME NEW k \in 1 .. c, k - 1 \in T PROVE k \in T
  <2>1. PICK L2, l2 : Now(k - 1, L2, l2)
    <3>. HIDE DEF Now
    <3>. QED  BY <1>8
  <2>2. PICK v, e, D1 : v = b[k - 1] /\ e = <<n, k>> /\ D1 = D(k - 1)
    OBVIOUS
  <2>3. D(k) = D1 \cup {e}
    <3>1. \A i \in 1 .. k : i \in 1 .. k - 1 \/ i = k
      BY <1>2
    <3>2. k \in 1 .. k /\ \A i \in 1 .. k - 1 : i \in 1 .. k
      BY <1>2
    <3>3. {<<n, i>> : i \in 1 .. k} = {<<n, i>> : i \in 1 .. k - 1} \cup {<<n, k>>}
      BY <3>1, <3>2
    <3>. QED  BY <2>2, <3>3
  <2>4. Sorting(v, L2, h + 1, l2, D1, Member, E, G) /\ Continues(L, l, L2, l2) /\ SortsOn(s, v) /\ D1 \subseteq Past(L2, h + 1, E)
    BY <2>1, <2>2
  <2>5. e \in E \ D1
    <3>1. e \in E
      BY <1>1, <1>2, <2>2
    <3>2. e \notin Past(L, h, E)
      BY <1>3, <1>6, <2>2 DEF Past, Distinct
    <3>3. e \notin {<<n, i>> : i \in 1 .. k - 1}
      BY <1>2, <2>2
    <3>. QED  BY <2>2, <3>1, <3>2, <3>3
  <2>6. L2[h + 1] = n /\ \E i \in 1 .. h + 1 : L2[i] = e[1]
    <3>1. L2[h + 1] = n /\ e[1] = n /\ h + 1 \in 1 .. h + 1
      BY <2>2, <2>4 DEF Continues
    <3>. QED  BY <3>1
  <2>7. PICK t \in Nodes : t = row[k] /\ t = G[e[1]][e[2]]
    BY <1>1, <1>2, <2>2
  <2>8. b[k] = Release(v, t)
    BY <1>5, <2>2, <2>7
  <2>9. PICK L3, l3 : /\ Sorting(b[k], L3, h + 1, l3, D1 \cup {e}, Member, E, G) /\ Continues(L2, l2, L3, l3)
                      /\ SortsOn(v, b[k]) /\ D1 \cup {e} \subseteq Past(L3, h + 1, E)
    <3>1. PICK w : w = b[k] /\ w = Release(v, t)
      BY <2>8
    <3>2. PICK h1 : h1 = h + 1
      OBVIOUS
    <3>a. PICK D2 : D2 = D1 \cup {e}
      OBVIOUS
    <3>3. Sorting(v, L2, h1, l2, D1, Member, E, G) /\ NextEntry(e, t, L2, h1, D1, E, G)
      BY <2>4, <2>5, <2>6, <2>7, <3>2 DEF NextEntry
    <3>4. Released(v, w, L2, h1, l2, D2, E, G)
      BY ONLY <3>1, <3>a, <3>3, ReleaseStep
    <3>. QED  BY <3>1, <3>2, <3>a, <3>4 DEF Released
  <2>10. Continues(L, l, L3, l3)
    <3>1. l2 \in Nat /\ l <= l2 /\ l3 \in Nat /\ l2 <= l3 /\ \A i \in 1 .. l : i \in 1 .. l2
      BY <2>4, <2>9 DEF Continues
    <3>2. \A i \in 1 .. l : L3[i] = L[i]
      BY <2>4, <2>9, <3>1 DEF Continues
    <3>. QED  BY <3>1, <3>2 DEF Continues
  <2>11. SortsOn(s, b[k])
    BY <2>4, <2>9 DEF SortsOn
  <2>12. Now(k, L3, l3)
    BY <2>3, <2>9, <2>10, <2>11
  <2>. HIDE DEF Now
  <2>. QED  BY <2>12
<1>9. c \in T
  <2>1. c \in 0 .. c
    OBVIOUS
  <2>. HIDE DEF T
  <2>. QED  BY <1>7, <1>8, <2>1, AllUpTo
<1>10. PICK L2, l2 : Now(c, L2, l2)
  <2>. HIDE DEF Now
  <2>. QED  BY <1>9
<1>11. Past(L2, h + 1, E) = D(c)
  <2>1. \A i \in 1 .. h + 1 : i \in 1 .. h \/ i = h + 1
    OBVIOUS
  <2>2. \A i \in 1 .. h + 1 : L2[i] = L[i]
    <3>1. \A i \in 1 .. h + 1 : i \in 1 .. l
      OBVIOUS
    <3>. QED  BY <1>10, <3>1 DEF Continues
  <2>3. ASSUME NEW p \in Past(L2, h + 1, E) PROVE p \in D(c)
    <3>1. p \in E /\ p = <<p[1], p[2]>>
      BY DEF Past
    <3>2. PICK i \in 1 .. h + 1 : L[i] = p[1]
      BY <2>2 DEF Past
    <3>3. CASE i \in 1 .. h
      BY <3>1, <3>2, <3>3 DEF Past
    <3>4. CASE i = h + 1
      <4>1. p[1] = n
        BY <3>2, <3>4
      <4>2. p[2] \in 1 .. c
        BY <1>1, <1>2, <3>1, <4>1
      <4>3. p \in {<<n, j>> : j \in 1 .. c}
        BY <3>1, <4>1, <4>2
      <4>. QED  BY <4>3
    <3>. QED  BY <2>1, <3>3, <3>4
  <2>. QED  BY <1>10, <2>3
<1>. HIDE DEF D
<1>. QED  BY <1>1, <1>4, <1>10, <1>11

\* A pop goes on.
LEMMA SortPopGoes ==
  ASSUME graph.rows \in [Nodes -> Seq(Nodes)], NEW s, SortGoing(s, Member, Entries, graph.rows), s.queue # <<>>,
         NEW n, n = s.queue[1],
         NEW c, c = [s EXCEPT !.queue = Tail(@), !.order = Append(@, n)],
         NEW r, r = ReleaseAll(c, graph.rows[n])
  PROVE  SortGoing(r, Member, Entries, graph.rows)
<1>1. PICK E, G : E = Entries /\ G = graph.rows
  OBVIOUS
<1>2. /\ IsFiniteSet(E) /\ \A m, k : <<m, k>> \in E <=> m \in Member /\ k \in 1 .. Len(G[m])
      /\ G \in [Nodes -> Seq(Nodes)] /\ \A p \in E : p = <<p[1], p[2]>> /\ p[1] \in Nodes
  BY <1>1, EntriesAre
<1>3. PICK L, h, l : Sorting(s, L, h, l, Past(L, h, E), Member, E, G)
  BY <1>1 DEF SortGoing
<1>4. Unstarted(s) /\ s \in TopoStates /\ Line(s.order, s.queue, L, h, l, Nodes)
  BY <1>3 DEF SortGoing, Sorting
<1>5. /\ h + 1 \in 1 .. l /\ n = L[h + 1] /\ n \in Nodes
      /\ Line(Append(s.order, n), Tail(s.queue), L, h + 1, l, Nodes)
  BY <1>4, LineTake
<1>6. h \in Nat /\ l \in Nat
  BY <1>4 DEF Line
<1>7. c \in TopoStates /\ c.queue = Tail(s.queue) /\ c.order = Append(s.order, n) /\ c.indegree = s.indegree /\ Unstarted(c)
  <2>1. s.queue \in Seq(Nodes) /\ s.order \in Seq(Nodes)
    BY <1>4 DEF TopoStates
  <2>2. Tail(s.queue) \in Seq(Nodes)
    BY <2>1, HeadTailProperties
  <2>3. Append(s.order, n) \in Seq(Nodes)
    BY <1>5, <2>1, AppendProperties
  <2>4. c \in TopoStates /\ c.queue = Tail(s.queue) /\ c.order = Append(s.order, n) /\ c.indegree = s.indegree
    BY <1>4, <2>2, <2>3 DEF TopoStates
  <2>5. Unstarted(c)
    BY <1>4 DEF TopoStates, Unstarted
  <2>. QED  BY <2>4, <2>5
<1>8. Sorting(c, L, h + 1, l, Past(L, h, E), Member, E, G)
  <2>1. \A i \in 1 .. h : i \in 1 .. h + 1
    BY <1>6
  <2>2. \A j \in 1 .. l, p \in E : G[p[1]][p[2]] = L[j] => \E i \in 1 .. h + 1 : i < j /\ L[i] = p[1]
    BY <1>3, <2>1 DEF Sorting
  <2>. QED  BY <1>3, <1>5, <1>7, <2>2 DEF Sorting
<1>9. L[h + 1] \in Member
  BY <1>3, <1>5 DEF Sorting
<1>10. PICK L2, l2 : /\ Sorting(ReleaseAll(c, G[n]), L2, h + 1, l2, Past(L2, h + 1, E), Member, E, G)
                     /\ SortsOn(c, ReleaseAll(c, G[n]))
  BY ONLY <1>2, <1>5, <1>6, <1>8, <1>9, ReleaseRow
<1>11. r = ReleaseAll(c, G[n])
  BY <1>1
<1>12. Unstarted(r)
  BY <1>7, <1>10, <1>11 DEF Unstarted, SortsOn
<1>. QED  BY <1>1, <1>10, <1>11, <1>12 DEF SortGoing

\* A queue from which nothing was taken.
LEMMA LineAll ==
  ASSUME NEW A, NEW q \in Seq(A), NEW l, l = Len(q)
  PROVE  Line(<<>>, q, q, 0, l, A)
<1>1. l \in Nat /\ q \in [1 .. l -> A] /\ l - 0 = l /\ 0 \in 0 .. l /\ q = [i \in 1 .. l |-> q[i]]
  OBVIOUS
<1>2. \A i \in 1 .. l : 0 + i = i
  BY <1>1
<1>3. q = [i \in 1 .. l - 0 |-> q[0 + i]]
  BY <1>1, <1>2
<1>4. <<>> = [i \in 1 .. 0 |-> q[i]]
  OBVIOUS
<1>. QED  BY <1>1, <1>3, <1>4 DEF Line

\* The sort begins.
LEMMA SortStarts ==
  ASSUME graph.rows \in [Nodes -> Seq(Nodes)], elements \in Seq(Nat), NEW s,
         s = [indegree |-> [n \in Nodes |-> IF n \in Member THEN Indegree(n) ELSE 0],
              queue |-> Kept({n \in Member : Indegree(n) = 0}, DedupNodes), order |-> <<>>,
              err |-> "Ok", at |-> 1, lengths |-> [n \in Nodes |-> 0],
              predecessor |-> [n \in Nodes |-> NoNode], best_end |-> NoNode, best_length |-> 0,
              path |-> <<>>, cursor |-> NoNode]
  PROVE  SortGoing(s, Member, Entries, graph.rows)
<1>1. PICK E, G : E = Entries /\ G = graph.rows
  OBVIOUS
<1>2. IsFiniteSet(E) /\ Member \subseteq Nodes
  BY <1>1, EntriesAre
<1>3. PICK S : S = {n \in Member : Indegree(n) = 0}
  OBVIOUS
<1>4. PICK q : q = Kept(S, DedupNodes)
  OBVIOUS
<1>5. q \in Seq(Nodes) /\ Distinct(q, Len(q)) /\ \A x : InSeq(x, q) <=> x \in S
  <2>1. PICK d : d = DedupNodes
    OBVIOUS
  <2>2. d \in Seq(Nodes) /\ Distinct(d, Len(d)) /\ \A x : InSeq(x, d) <=> x \in Member
    BY <2>1, DedupIs
  <2>3. /\ Kept(S, d) \in Seq(Nodes) /\ Distinct(Kept(S, d), Len(Kept(S, d)))
        /\ \A x : InSeq(x, Kept(S, d)) <=> InSeq(x, d) /\ x \in S
    BY ONLY <2>2, KeptIs
  <2>. QED  BY <1>3, <1>4, <2>1, <2>2, <2>3
<1>6. \A n : Indegree(n) = Cardinality(Pending(n, {}, E, G)) /\ IsFiniteSet(Pending(n, {}, E, G))
  <2>1. ASSUME NEW n PROVE Indegree(n) = Cardinality(Pending(n, {}, E, G)) /\ IsFiniteSet(Pending(n, {}, E, G))
    <3>1. Pending(n, {}, E, G) = {p \in E : G[p[1]][p[2]] = n}
      BY DEF Pending
    <3>2. Pending(n, {}, E, G) \subseteq E
      BY <3>1
    <3>3. IsFiniteSet(Pending(n, {}, E, G))
      BY <1>2, <3>2, FS_Subset
    <3>. QED  BY <1>1, <3>1, <3>3 DEF Indegree
  <2>. QED  BY <2>1
<1>7. \A n : Indegree(n) \in Nat /\ (Indegree(n) = 0 <=> Pending(n, {}, E, G) = {})
  BY <1>6, FS_CardinalityType, FS_EmptySet
<1>8. PICK l \in Nat : l = Len(q) /\ q \in [1 .. l -> Nodes] /\ Distinct(q, l) /\ \A i \in 1 .. l : q[i] \in S
  <2>1. \A i \in 1 .. Len(q) : q[i] \in S
    BY <1>5 DEF InSeq
  <2>2. Len(q) \in Nat /\ q \in [1 .. Len(q) -> Nodes]
    BY ONLY <1>5
  <2>. QED  BY ONLY <1>5, <2>1, <2>2
<1>9. Past(q, 0, E) = {}
  BY DEF Past
<1>10. /\ s.indegree = [n \in Nodes |-> IF n \in Member THEN Indegree(n) ELSE 0] /\ s.queue = q /\ s.order = <<>>
       /\ Unstarted(s)
  BY <1>3, <1>4 DEF Unstarted
<1>11. s \in TopoStates
  <2>1. s.indegree \in [Nodes -> Int]
    BY <1>7, <1>10
  <2>2. NoNode \in Nat
    BY NodesFinite DEF NoNode
  <2>3. <<>> \in Seq(Nodes)
    OBVIOUS
  <2>. QED  BY <1>3, <1>4, <1>5, <1>10, <2>1, <2>2, <2>3 DEF TopoStates
<1>12. Line(s.order, s.queue, q, 0, l, Nodes)
  <2>1. Line(<<>>, q, q, 0, l, Nodes)
    BY ONLY <1>5, <1>8, LineAll
  <2>. QED  BY <1>10, <2>1
<1>13. \A t \in Member : s.indegree[t] = Cardinality(Pending(t, {}, E, G))
  BY <1>2, <1>6, <1>10
<1>14. \A t \in Member : Pending(t, {}, E, G) = {} <=> \E i \in 1 .. l : q[i] = t
  BY <1>3, <1>5, <1>7, <1>8 DEF InSeq
<1>15. \A j \in 1 .. l, p \in E : G[p[1]][p[2]] = q[j] => FALSE
  BY <1>3, <1>7, <1>8 DEF Pending
<1>16. \A i \in 1 .. l : q[i] \in Member
  BY <1>3, <1>8
<1>17. Sorting(s, q, 0, l, Past(q, 0, E), Member, E, G)
  BY <1>8, <1>9, <1>11, <1>12, <1>13, <1>14, <1>15, <1>16 DEF Sorting
<1>. QED  BY <1>1, <1>10, <1>17 DEF SortGoing

\* The order lists every member once and no edge backwards.
Sorted(o, M, E) ==
  /\ o \in Seq(Nodes) /\ IsInjective(o) /\ Range(o) = M
  /\ \A i, j \in DOMAIN o : <<o[i], o[j]>> \in E => i < j

\* The nodes of U that lead to n.
Above(n, U, R) == {a \in U : <<a, n>> \in R}

\* Nodes each of which has a predecessor among them hold a cycle.
LEMMA NoFirst ==
  ASSUME NEW R \in SUBSET (Nodes \X Nodes), NEW U \in SUBSET Nodes, U # {},
         \A n \in U : \E m \in U : <<m, n>> \in R
  PROVE  \E n \in U : <<n, n>> \in Closure(R)
<1>. SUFFICES ASSUME \A n \in U : <<n, n>> \notin Closure(R) PROVE FALSE
  OBVIOUS
<1>1. PICK C : C = Closure(R)
  OBVIOUS
<1>2. R \subseteq C
  <2>1. PICK T : T = Nodes \X Nodes
    OBVIOUS
  <2>2. R \subseteq T /\ \A x, m, y \in Nodes : <<x, m>> \in T /\ <<m, y>> \in R => <<x, y>> \in T
    BY <2>1
  <2>. QED  BY <1>1, <2>2, ClosureLeast
<1>3. IsFiniteSet(U)
  BY NodesFinite, FS_Subset
<1>4. \A n : IsFiniteSet(Above(n, U, C)) /\ Cardinality(Above(n, U, C)) \in Nat
  <2>1. \A n : Above(n, U, C) \subseteq U
    BY DEF Above
  <2>. QED  BY <1>3, <2>1, FS_Subset, FS_CardinalityType
<1>5. PICK T : T = {Cardinality(Above(n, U, C)) : n \in U}
  OBVIOUS
<1>6. T \in SUBSET Nat /\ T # {}
  BY <1>4, <1>5
<1>7. PICK c \in T : \A d \in T : c <= d
  BY <1>6, LeastMember
<1>8. PICK n \in U : c = Cardinality(Above(n, U, C))
  BY <1>5, <1>7
<1>9. PICK m \in U : <<m, n>> \in R
  OBVIOUS
<1>10. m \in Above(n, U, C) /\ m \notin Above(m, U, C)
  BY <1>1, <1>2, <1>9 DEF Above
<1>11. Above(m, U, C) \subseteq Above(n, U, C)
  BY <1>1, <1>9, ClosureClosed DEF Above
<1>12. PICK A, B : A = Above(m, U, C) /\ B = Above(n, U, C)
  OBVIOUS
<1>13. IsFiniteSet(A) /\ IsFiniteSet(B) /\ Cardinality(A) \in Nat /\ Cardinality(B) \in Nat
  BY <1>4, <1>12
<1>14. A \subseteq B /\ A # B
  BY <1>10, <1>11, <1>12
<1>15. Cardinality(A) <= Cardinality(B) /\ Cardinality(A) # Cardinality(B)
  BY ONLY <1>13, <1>14, FS_Subset
<1>16. Cardinality(A) \in T
  BY <1>5, <1>12
<1>. QED  BY <1>7, <1>8, <1>12, <1>13, <1>15, <1>16

\* The sort ends with all members exactly when they hold no cycle, and then in order.
LEMMA SortEnds ==
  ASSUME graph.rows \in [Nodes -> Seq(Nodes)], elements \in Seq(Nat), NEW s,
         SortGoing(s, Member, Entries, graph.rows), s.queue = <<>>
  PROVE  IF Len(s.order) = Len(DedupNodes) THEN ~Cyclic /\ Sorted(s.order, Member, Edges) ELSE Cyclic
<1>1. PICK E, G : E = Entries /\ G = graph.rows
  OBVIOUS
<1>2. /\ \A m, k : <<m, k>> \in E <=> m \in Member /\ k \in 1 .. Len(G[m])
      /\ \A p \in E : p = <<p[1], p[2]>> /\ p[1] \in Member /\ p[2] \in 1 .. Len(G[p[1]])
  BY <1>1, EntriesAre
<1>3. PICK L, h, l : Sorting(s, L, h, l, Past(L, h, E), Member, E, G)
  BY <1>1 DEF SortGoing
<1>4. Line(s.order, s.queue, L, h, l, Nodes) /\ Distinct(L, l)
  BY <1>3 DEF Sorting
<1>5. h = l /\ s.order = L /\ L \in Seq(Nodes) /\ Len(L) = l /\ DOMAIN L = 1 .. l /\ l \in Nat
  BY <1>4, LineEnd DEF Line
<1>6. /\ \A i \in 1 .. l : L[i] \in Member
      /\ \A t \in Member : Pending(t, Past(L, l, E), E, G) = {} <=> \E i \in 1 .. l : L[i] = t
      /\ \A j \in 1 .. l, p \in E : G[p[1]][p[2]] = L[j] => \E i \in 1 .. l : i < j /\ L[i] = p[1]
  <2>1. /\ \A i \in 1 .. l : L[i] \in Member
        /\ \A t \in Member : Pending(t, Past(L, h, E), E, G) = {} <=> \E i \in 1 .. l : L[i] = t
        /\ \A j \in 1 .. l, p \in E : G[p[1]][p[2]] = L[j] => \E i \in 1 .. h : i < j /\ L[i] = p[1]
    BY ONLY <1>3 DEF Sorting
  <2>2. h = l
    BY <1>5
  <2>. QED  BY ONLY <2>1, <2>2
<1>7. PICK V : V = {L[i] : i \in 1 .. l}
  OBVIOUS
<1>8. IsFiniteSet(V) /\ Cardinality(V) = l
  BY <1>4, <1>7, CountDistinct
<1>9. Member \subseteq Nodes /\ IsFiniteSet(Member) /\ Cardinality(Member) = Len(DedupNodes)
  <2>1. PICK d : d = DedupNodes
    OBVIOUS
  <2>2. Distinct(d, Len(d)) /\ \A x : InSeq(x, d) <=> x \in Member
    BY <2>1, DedupIs
  <2>3. Member = {d[i] : i \in 1 .. Len(d)}
    BY <2>2 DEF InSeq
  <2>. QED  BY <2>1, <2>2, <2>3, CountDistinct DEF Member
<1>10. V \subseteq Member
  BY <1>6, <1>7
<1>11. (Len(s.order) = Len(DedupNodes)) <=> V = Member
  BY <1>5, <1>8, <1>9, <1>10, FS_Subset
<1>12. PICK R : R = Edges /\ R \in SUBSET (Nodes \X Nodes)
  BY EdgesIs
<1>13. \A m, n : <<m, n>> \in R <=> m \in Member /\ n \in Member /\ \E k \in 1 .. Len(G[m]) : G[m][k] = n
  BY <1>1, <1>12, EdgesIs
<1>14. Reach = Closure(R)
  BY <1>12 DEF Reach
<1>15. \A i, j \in 1 .. l : <<L[i], L[j]>> \in R => i < j
  <2>1. ASSUME NEW i \in 1 .. l, NEW j \in 1 .. l, <<L[i], L[j]>> \in R PROVE i < j
    <3>1. PICK k \in 1 .. Len(G[L[i]]) : G[L[i]][k] = L[j]
      BY <1>13, <2>1
    <3>2. <<L[i], k>> \in E
      BY <1>2, <1>6, <3>1
    <3>3. PICK x \in 1 .. l : x < j /\ L[x] = L[i]
      BY <1>6, <3>1, <3>2
    <3>4. x = i
      BY <1>4, <3>3 DEF Distinct
    <3>. QED  BY <3>3, <3>4
  <2>. QED  BY <2>1
<1>16. CASE V = Member
  <2>1. Sorted(s.order, Member, Edges)
    <3>1. IsInjective(L)
      BY <1>4, <1>5 DEF IsInjective, Distinct
    <3>2. Range(L) = Member
      BY <1>5, <1>7, <1>16 DEF Range
    <3>. QED  BY <1>5, <1>12, <1>15, <3>1, <3>2 DEF Sorted
  <2>2. PICK T : T = {p \in Nodes \X Nodes : \E i, j \in 1 .. l : i < j /\ p = <<L[i], L[j]>>}
    OBVIOUS
  <2>3. \A a, b : <<a, b>> \in T <=> \E i, j \in 1 .. l : i < j /\ a = L[i] /\ b = L[j]
    <3>1. \A i \in 1 .. l : L[i] \in Nodes
      BY <1>6, <1>9
    <3>. QED  BY <2>2, <3>1
  <2>4. R \subseteq T
    <3>1. ASSUME NEW a, NEW b, <<a, b>> \in R PROVE <<a, b>> \in T
      <4>1. a \in V /\ b \in V
        BY <1>13, <1>16, <3>1
      <4>2. PICK i \in 1 .. l, j \in 1 .. l : a = L[i] /\ b = L[j]
        BY <1>7, <4>1
      <4>. QED  BY <1>15, <2>3, <3>1, <4>2
    <3>. QED  BY <1>12, <3>1
  <2>5. \A a, m, b \in Nodes : <<a, m>> \in T /\ <<m, b>> \in R => <<a, b>> \in T
    <3>1. ASSUME NEW a \in Nodes, NEW m \in Nodes, NEW b \in Nodes, <<a, m>> \in T, <<m, b>> \in R PROVE <<a, b>> \in T
      <4>1. PICK i \in 1 .. l, j \in 1 .. l : i < j /\ a = L[i] /\ m = L[j]
        BY ONLY <2>3, <3>1
      <4>2. b \in V
        BY <1>13, <1>16, <3>1
      <4>3. PICK k \in 1 .. l : b = L[k]
        BY <1>7, <4>2
      <4>4. j < k
        BY <1>15, <3>1, <4>1, <4>3
      <4>5. i < k
        BY <1>5, <4>1, <4>4
      <4>. QED  BY <2>3, <4>1, <4>3, <4>5
    <3>. QED  BY <3>1
  <2>6. Closure(R) \subseteq T
    BY <1>12, <2>4, <2>5, ClosureLeast
  <2>7. ~Cyclic
    <3>1. \A n : <<n, n>> \notin T
      <4>1. ASSUME NEW n, <<n, n>> \in T PROVE FALSE
        <5>1. PICK i \in 1 .. l, j \in 1 .. l : i < j /\ n = L[i] /\ n = L[j]
          BY <2>3, <4>1
        <5>2. i = j
          BY <1>4, <5>1 DEF Distinct
        <5>. QED  BY <1>5, <5>1, <5>2
      <4>. QED  BY <4>1
    <3>. QED  BY <1>14, <2>6, <3>1 DEF Cyclic
  <2>. QED  BY <1>11, <1>16, <2>1, <2>7
<1>17. CASE V # Member
  <2>1. PICK U : U = Member \ V
    OBVIOUS
  <2>2. U # {} /\ U \in SUBSET Nodes
    BY <1>9, <1>10, <1>17, <2>1
  <2>3. ASSUME NEW n \in U PROVE \E m \in U : <<m, n>> \in R
    <3>1. n \in Member /\ ~\E i \in 1 .. l : L[i] = n
      BY <1>7, <2>1
    <3>2. PICK p : p \in Pending(n, Past(L, l, E), E, G)
      BY <1>6, <3>1
    <3>3. p \in E /\ p \notin Past(L, l, E) /\ G[p[1]][p[2]] = n
      BY <3>2 DEF Pending
    <3>4. p[1] \in Member /\ p[2] \in 1 .. Len(G[p[1]])
      BY <1>2, <3>3
    <3>5. <<p[1], n>> \in R
      BY <1>13, <3>1, <3>3, <3>4
    <3>6. p[1] \notin V
      BY <1>7, <3>3 DEF Past
    <3>. QED  BY <2>1, <3>4, <3>5, <3>6
  <2>4. \E n \in U : <<n, n>> \in Closure(R)
    BY <1>12, <2>2, <2>3, NoFirst
  <2>5. Cyclic
    BY <1>14, <2>1, <2>4 DEF Cyclic
  <2>. QED  BY <1>11, <1>17, <2>5
<1>. QED  BY <1>16, <1>17

-----------------------------------------------------------------------------
(* The longest path *)

\* Only the lengths and the predecessors differ.
RelaxesOn(s, r) ==
  /\ r.order = s.order /\ r.err = s.err /\ r.at = s.at /\ r.best_end = s.best_end
  /\ r.best_length = s.best_length /\ r.path = s.path /\ r.cursor = s.cursor

\* Relaxing t by way of n at length d changes s to r.
RelaxesTo(s, r, n, d, t) ==
  /\ r \in TopoStates /\ RelaxesOn(s, r)
  /\ ~(s.lengths[t] < d) => r = s
  /\ s.lengths[t] < d => /\ r.lengths = [s.lengths EXCEPT ![t] = d]
                        /\ r.predecessor = [s.predecessor EXCEPT ![t] = n]

\* What a relaxation changes.
LEMMA RelaxIs ==
  ASSUME NEW s \in TopoStates, NEW t \in Nodes, NEW n \in Nodes, NEW d \in Nat, NEW r, r = Relax(s, n, d, t)
  PROVE  RelaxesTo(s, r, n, d, t)
<1>1. CASE ~(s.lengths[t] < d)
  <2>1. r = s
    BY <1>1 DEF Relax
  <2>. QED  BY <1>1, <2>1 DEF RelaxesOn, RelaxesTo
<1>2. CASE s.lengths[t] < d
  <2>1. r = [s EXCEPT !.lengths[t] = d, !.predecessor[t] = n]
    BY <1>2 DEF Relax
  <2>2. PICK f, g : f = [s.lengths EXCEPT ![t] = d] /\ g = [s.predecessor EXCEPT ![t] = n]
    OBVIOUS
  <2>3. n \in Nat
    BY NodesFinite
  <2>4. f \in [Nodes -> Nat] /\ g \in [Nodes -> Nat]
    BY <2>2, <2>3 DEF TopoStates
  <2>5. r = [s EXCEPT !.lengths = f, !.predecessor = g]
    BY <2>1, <2>2 DEF TopoStates
  <2>6. r \in TopoStates /\ r.lengths = f /\ r.predecessor = g /\ RelaxesOn(s, r)
    BY <2>4, <2>5 DEF TopoStates, RelaxesOn
  <2>. QED  BY <1>2, <2>2, <2>6 DEF RelaxesTo
<1>. QED  BY <1>1, <1>2

\* The states after each relaxation.
RelaxTable(b, s, row, u, d) ==
  /\ b \in [0 .. Len(row) -> TopoStates] /\ b[0] = s
  /\ \A k \in 1 .. Len(row) : b[k] = Relax(b[k - 1], u, d, row[k])

\* A node of the order as a table of the relaxations.
LEMMA RelaxLoop ==
  ASSUME NEW s \in TopoStates, NEW row \in Seq(Nodes), NEW u \in Nodes, NEW d \in Nat
  PROVE  \E b : RelaxTable(b, s, row, u, d) /\ RelaxAll(s, u, d, row) = b[Len(row)]
<1>. DEFINE n == Len(row)
            A == TopoStates
            base == s
            Step(acc, t) == Relax(acc, u, d, t)
            F == [k \in 1 .. n |-> [X \in A |-> Step(X, row[k])]]
            Def(t) == [k \in 0 .. n |->
                         IF k = 0 THEN base
                         ELSE CHOOSE r \in {Step(acc, row[k]) : acc \in {t[k - 1]}} : TRUE]
            After == CHOOSE t : t = Def(t)
<1>0. n \in Nat
  OBVIOUS
<1>1. base \in A
  OBVIOUS
<1>2. \A k \in 1 .. n, X \in A : Step(X, row[k]) \in A
  <2>1. \A k \in 1 .. n : row[k] \in Nodes
    OBVIOUS
  <2>. QED  BY <2>1, RelaxIs DEF RelaxesTo
<1>3. F \in [1 .. n -> [A -> A]]
  <2>. HIDE DEF A, Step, n
  <2>. QED  BY <1>2
<1>4. PICK b : Iterates(b, n, A, base, F)
  <2>. HIDE DEF A, F, base, n
  <2>. QED  BY <1>0, <1>1, <1>3, IteratesExist
<1>. HIDE DEF A, base, Step, n
<1>5. /\ b \in [0 .. n -> A] /\ b[0] = base
      /\ \A k \in 1 .. n : b[k] = Step(b[k - 1], row[k])
  <2>1. b \in [0 .. n -> A] /\ b[0] = base /\ \A k \in 1 .. n : b[k] = F[k][b[k - 1]]
    BY <1>4 DEF Iterates
  <2>2. \A k \in 1 .. n : k - 1 \in 0 .. n
    BY <1>0
  <2>3. \A k \in 1 .. n : b[k - 1] \in A
    BY <2>1, <2>2
  <2>. QED  BY <2>1, <2>3
<1>6. ASSUME NEW t, NEW k \in 1 .. n
      PROVE  (CHOOSE r \in {Step(acc, row[k]) : acc \in {t[k - 1]}} : TRUE) = Step(t[k - 1], row[k])
  <2>1. {Step(acc, row[k]) : acc \in {t[k - 1]}} = {Step(t[k - 1], row[k])}
    OBVIOUS
  <2>. QED  BY <2>1, OnlyOne
<1>7. b = Def(b)
  <2>1. b = [k \in 0 .. n |-> b[k]]
    BY <1>5
  <2>2. ASSUME NEW k \in 0 .. n PROVE b[k] = Def(b)[k]
    <3>1. CASE k = 0
      BY <1>5, <3>1
    <3>2. CASE k \in 1 .. n
      BY <1>0, <1>5, <1>6, <3>2
    <3>. QED  BY <1>0, <3>1, <3>2
  <2>. QED  BY <2>1, <2>2
<1>8. After = Def(After)
  <2>1. \E t : t = Def(t)
    BY <1>7
  <2>. QED  BY <2>1
<1>9. RelaxAll(s, u, d, row) = After[n]
  BY DEF RelaxAll, Loop, base, Step, n
<1>. HIDE DEF After
<1>10. After[0] = base /\ \A k \in 1 .. n : After[k] = Step(After[k - 1], row[k])
  <2>1. \A k \in 0 .. n : After[k] = Def(After)[k]
    BY <1>8
  <2>2. 0 \in 0 .. n /\ \A k \in 1 .. n : k \in 0 .. n /\ k # 0
    BY <1>0
  <2>. QED  BY <1>6, <2>1, <2>2
<1>11. After[n] = b[n]
  <2>1. PICK m, f : m \in Nat /\ m = n /\ f = After
    BY <1>0
  <2>2. m \in Nat /\ f[0] = b[0] /\ StayAlike(f, b, m)
    BY <1>5, <1>10, <2>1 DEF StayAlike
  <2>3. f[m] = b[m]
    BY ONLY <2>2, SameTable
  <2>. QED  BY <2>1, <2>3
<1>. QED  BY <1>5, <1>9, <1>11 DEF RelaxTable, A, base, Step, n
\* Relaxing with d lengthens exactly the shorter of the nodes S.
Relaxed(s, r, S, u, d) ==
  \A t \in Nodes : IF t \in S /\ s.lengths[t] < d THEN r.lengths[t] = d /\ r.predecessor[t] = u
                   ELSE r.lengths[t] = s.lengths[t] /\ r.predecessor[t] = s.predecessor[t]

\* Relaxing a row.
LEMMA RelaxRow ==
  ASSUME NEW s \in TopoStates, NEW row \in Seq(Nodes), NEW u \in Nodes, NEW d \in Nat,
         NEW r, r = RelaxAll(s, u, d, row)
  PROVE  r \in TopoStates /\ RelaxesOn(s, r) /\ Relaxed(s, r, Range(row), u, d)
<1>1. PICK c \in Nat : c = Len(row) /\ \A k \in 1 .. c : row[k] \in Nodes
  OBVIOUS
<1>2. PICK b : RelaxTable(b, s, row, u, d) /\ RelaxAll(s, u, d, row) = b[c]
  BY <1>1, RelaxLoop
<1>3. b[0] = s /\ b \in [0 .. c -> TopoStates] /\ \A k \in 1 .. c : b[k] = Relax(b[k - 1], u, d, row[k])
  BY <1>1, <1>2 DEF RelaxTable
<1>. DEFINE S(k) == {row[i] : i \in 1 .. k}
            Now(k) == RelaxesOn(s, b[k]) /\ Relaxed(s, b[k], S(k), u, d)
            T == {k \in 0 .. c : Now(k)}
<1>4. 0 \in T
  <2>1. S(0) = {}
    OBVIOUS
  <2>2. Now(0)
    BY <1>3, <2>1 DEF RelaxesOn, Relaxed
  <2>. HIDE DEF Now
  <2>. QED  BY <2>2
<1>5. ASSUME NEW k \in 1 .. c, k - 1 \in T PROVE k \in T
  <2>1. Now(k - 1)
    <3>. HIDE DEF Now
    <3>. QED  BY <1>5
  <2>2. PICK v, w, t, S1, S2 : v = b[k - 1] /\ w = b[k] /\ t = row[k] /\ S1 = S(k - 1) /\ S2 = S(k)
    OBVIOUS
  <2>3. S2 = S1 \cup {t}
    <3>1. \A i \in 1 .. k : i \in 1 .. k - 1 \/ i = k
      BY <1>1
    <3>2. k \in 1 .. k /\ \A i \in 1 .. k - 1 : i \in 1 .. k
      BY <1>1
    <3>. QED  BY <2>2, <3>1, <3>2
  <2>4. v \in TopoStates /\ t \in Nodes /\ w = Relax(v, u, d, t)
    <3>1. k - 1 \in 0 .. c
      BY <1>1
    <3>. QED  BY <1>1, <1>3, <2>2, <3>1
  <2>5. /\ w \in TopoStates /\ RelaxesOn(v, w)
        /\ ~(v.lengths[t] < d) => w = v
        /\ v.lengths[t] < d => /\ w.lengths = [v.lengths EXCEPT ![t] = d]
                               /\ w.predecessor = [v.predecessor EXCEPT ![t] = u]
    <3>1. RelaxesTo(v, w, u, d, t)
      BY <2>4, RelaxIs
    <3>. QED  BY <3>1 DEF RelaxesTo
  <2>6. RelaxesOn(s, v) /\ Relaxed(s, v, S1, u, d)
    BY <2>1, <2>2
  <2>7. RelaxesOn(s, w)
    BY <2>5, <2>6 DEF RelaxesOn
  <2>8. v.lengths \in [Nodes -> Nat] /\ v.predecessor \in [Nodes -> Nat] /\ s.lengths \in [Nodes -> Nat]
    BY <2>4 DEF TopoStates
  <2>9. ASSUME NEW x \in Nodes
        PROVE  IF x \in S2 /\ s.lengths[x] < d THEN w.lengths[x] = d /\ w.predecessor[x] = u
               ELSE w.lengths[x] = s.lengths[x] /\ w.predecessor[x] = s.predecessor[x]
    <3>1. IF x \in S1 /\ s.lengths[x] < d THEN v.lengths[x] = d /\ v.predecessor[x] = u
          ELSE v.lengths[x] = s.lengths[x] /\ v.predecessor[x] = s.predecessor[x]
      BY <2>6 DEF Relaxed
    <3>2. CASE x # t
      <4>1. w.lengths[x] = v.lengths[x] /\ w.predecessor[x] = v.predecessor[x]
        BY <2>4, <2>5, <2>8, <3>2
      <4>. QED  BY <2>3, <3>1, <3>2, <4>1
    <3>3. CASE x = t
      <4>1. x \in S2
        BY <2>3, <3>3
      <4>2. CASE v.lengths[t] < d
        <5>1. w.lengths[x] = d /\ w.predecessor[x] = u
          BY <2>4, <2>5, <2>8, <3>3, <4>2
        <5>2. s.lengths[x] < d
          BY <2>8, <3>1, <3>3, <4>2
        <5>. QED  BY <4>1, <5>1, <5>2
      <4>3. CASE ~(v.lengths[t] < d)
        <5>1. w = v
          BY <2>5, <4>3
        <5>2. s.lengths[x] < d => x \in S1
          BY <3>1, <3>3, <4>3
        <5>. QED  BY <3>1, <5>1, <5>2, <4>1
      <4>. QED  BY <4>2, <4>3
    <3>. QED  BY <3>2, <3>3
  <2>10. Relaxed(s, w, S2, u, d)
    BY <2>9 DEF Relaxed
  <2>11. Now(k)
    BY <2>2, <2>7, <2>10
  <2>. HIDE DEF Now
  <2>. QED  BY <2>11
<1>6. c \in T
  <2>1. c \in 0 .. c
    OBVIOUS
  <2>. HIDE DEF T
  <2>. QED  BY <1>4, <1>5, <2>1, AllUpTo
<1>7. Now(c) /\ r = b[c] /\ b[c] \in TopoStates
  <2>1. c \in 0 .. c
    OBVIOUS
  <2>. HIDE DEF Now
  <2>. QED  BY <1>2, <1>3, <1>6, <2>1
<1>8. S(c) = Range(row)
  BY <1>1 DEF Range
<1>. HIDE DEF S
<1>. QED  BY <1>7, <1>8

\* The lengths f are those of chains whose last step was from one of the first a nodes of the order,
\* by way of the predecessor g, and every step from those nodes is counted.
Chains(f, g, o, a, E) ==
  /\ \A j \in 1 .. Len(o) :
       \/ f[o[j]] = 0 /\ g[o[j]] = NoNode
       \/ \E i \in 1 .. a : g[o[j]] = o[i] /\ <<o[i], o[j]>> \in E /\ f[o[j]] = f[o[i]] + 1
  /\ \A i \in 1 .. a, j \in 1 .. Len(o) : <<o[i], o[j]>> \in E => f[o[i]] + 1 <= f[o[j]]

\* The best end among the first a nodes of the order, where the walk back begins.
Best(s, a) ==
  /\ s.cursor = s.best_end
  /\ IF a = 0 THEN s.best_end = NoNode
     ELSE \E i \in 1 .. a : s.best_end = s.order[i] /\ s.best_length = s.lengths[s.order[i]]
  /\ \A i \in 1 .. a : s.lengths[s.order[i]] <= s.best_length

\* Between two nodes of the order.
Measuring(s, a, M, E) ==
  /\ s \in TopoStates /\ Sorted(s.order, M, E) /\ a \in 0 .. Len(s.order) /\ s.at = a + 1 /\ s.path = <<>>
  /\ Chains(s.lengths, s.predecessor, s.order, a, E) /\ Best(s, a)

\* What a sorted order is, by positions.
LEMMA SortedIs ==
  ASSUME NEW o, NEW M, NEW E, Sorted(o, M, E)
  PROVE  /\ o \in Seq(Nodes) /\ Len(o) \in Nat /\ DOMAIN o = 1 .. Len(o)
         /\ \A i \in 1 .. Len(o) : o[i] \in M /\ o[i] \in Nodes
         /\ \A x \in M : \E i \in 1 .. Len(o) : o[i] = x
         /\ \A i, j \in 1 .. Len(o) : o[i] = o[j] => i = j
         /\ \A i, j \in 1 .. Len(o) : <<o[i], o[j]>> \in E => i < j
<1>1. o \in Seq(Nodes)
  BY DEF Sorted
<1>2. Len(o) \in Nat /\ DOMAIN o = 1 .. Len(o) /\ \A i \in 1 .. Len(o) : o[i] \in Nodes
  BY <1>1
<1>3. M = {o[i] : i \in 1 .. Len(o)}
  BY <1>2 DEF Sorted, Range
<1>4. \A i, j \in 1 .. Len(o) : o[i] = o[j] => i = j
  BY <1>2 DEF Sorted, IsInjective
<1>5. \A i, j \in 1 .. Len(o) : <<o[i], o[j]>> \in E => i < j
  BY <1>2 DEF Sorted
<1>. QED  BY <1>1, <1>2, <1>3, <1>4, <1>5

\* S holds those of M that the edges lead to from n.
Leads(n, S, M, E) == \A x \in M : x \in S <=> <<n, x>> \in E

\* The first k nodes have the same lengths.
SameLengths(f, f2, o, k) == \A i \in 1 .. k : f2[o[i]] = f[o[i]]

\* The next node of the order lengthens no chain to a node up to it.
LEMMA ChainsStep ==
  ASSUME NEW M, NEW E, NEW o, Sorted(o, M, E), NEW a, a \in Nat, a + 1 \in 1 .. Len(o), NEW n, n = o[a + 1],
         NEW s \in TopoStates, Chains(s.lengths, s.predecessor, o, a, E),
         NEW d, d = s.lengths[n] + 1, NEW S, Leads(n, S, M, E),
         NEW r \in TopoStates, Relaxed(s, r, S, n, d)
  PROVE  /\ Chains(r.lengths, r.predecessor, o, a + 1, E)
         /\ SameLengths(s.lengths, r.lengths, o, a + 1)
<1>1. PICK l \in Nat : l = Len(o)
  BY SortedIs
<1>2. /\ \A i \in 1 .. l : o[i] \in M /\ o[i] \in Nodes
      /\ \A i, j \in 1 .. l : <<o[i], o[j]>> \in E => i < j
  BY <1>1, SortedIs
<1>3. PICK f, f2, g, g2 : f = s.lengths /\ f2 = r.lengths /\ g = s.predecessor /\ g2 = r.predecessor
  OBVIOUS
<1>4. f \in [Nodes -> Nat] /\ f2 \in [Nodes -> Nat]
  BY <1>3 DEF TopoStates
<1>5. \A x \in Nodes : f[x] \in Nat /\ f2[x] \in Nat
  BY <1>4
<1>6. a + 1 \in 1 .. l /\ n \in Nodes /\ d \in Nat /\ d = f[n] + 1
  BY <1>1, <1>2, <1>3, <1>5
<1>7. \A x \in Nodes : IF x \in S /\ f[x] < d THEN f2[x] = d /\ g2[x] = n ELSE f2[x] = f[x] /\ g2[x] = g[x]
  BY <1>3 DEF Relaxed
<1>8. \A j \in 1 .. l : o[j] \in S <=> <<n, o[j]>> \in E
  BY <1>2 DEF Leads
<1>9. \A j \in 1 .. a + 1 : j \in 1 .. l /\ o[j] \notin S
  <2>1. \A j \in 1 .. a + 1 : j \in 1 .. l /\ ~(a + 1 < j)
    BY <1>1, <1>6
  <2>. QED  BY <1>2, <1>6, <1>8, <2>1
<1>10. \A j \in 1 .. a + 1 : f2[o[j]] = f[o[j]]
  BY <1>2, <1>7, <1>9
<1>11. f2[n] = f[n]
  BY <1>6, <1>7, <1>9
<1>12. \A i \in 1 .. a : i \in 1 .. a + 1
  OBVIOUS
<1>13. /\ \A j \in 1 .. l :
            \/ f[o[j]] = 0 /\ g[o[j]] = NoNode
            \/ \E i \in 1 .. a : g[o[j]] = o[i] /\ <<o[i], o[j]>> \in E /\ f[o[j]] = f[o[i]] + 1
       /\ \A i \in 1 .. a, j \in 1 .. l : <<o[i], o[j]>> \in E => f[o[i]] + 1 <= f[o[j]]
  BY <1>1, <1>3 DEF Chains
<1>14. ASSUME NEW j \in 1 .. l
       PROVE  \/ f2[o[j]] = 0 /\ g2[o[j]] = NoNode
              \/ \E i \in 1 .. a + 1 : g2[o[j]] = o[i] /\ <<o[i], o[j]>> \in E /\ f2[o[j]] = f2[o[i]] + 1
  <2>1. CASE o[j] \in S /\ f[o[j]] < d
    <3>1. a + 1 \in 1 .. a + 1
      OBVIOUS
    <3>2. f2[o[j]] = d /\ g2[o[j]] = n /\ <<n, o[j]>> \in E
      BY <1>2, <1>7, <1>8, <2>1
    <3>. QED  BY <1>6, <1>11, <3>1, <3>2
  <2>2. CASE ~(o[j] \in S /\ f[o[j]] < d)
    <3>1. f2[o[j]] = f[o[j]] /\ g2[o[j]] = g[o[j]]
      BY <1>2, <1>7, <2>2
    <3>2. CASE f[o[j]] = 0 /\ g[o[j]] = NoNode
      BY <3>1, <3>2
    <3>3. CASE \E i \in 1 .. a : g[o[j]] = o[i] /\ <<o[i], o[j]>> \in E /\ f[o[j]] = f[o[i]] + 1
      <4>1. PICK i \in 1 .. a : g[o[j]] = o[i] /\ <<o[i], o[j]>> \in E /\ f[o[j]] = f[o[i]] + 1
        BY <3>3
      <4>2. i \in 1 .. a + 1 /\ f2[o[i]] = f[o[i]]
        BY <1>10, <1>12
      <4>. QED  BY <3>1, <4>1, <4>2
    <3>. QED  BY <1>13, <3>2, <3>3
  <2>. QED  BY <2>1, <2>2
<1>15. ASSUME NEW i \in 1 .. a + 1, NEW j \in 1 .. l, <<o[i], o[j]>> \in E PROVE f2[o[i]] + 1 <= f2[o[j]]
  <2>1. f2[o[i]] = f[o[i]] /\ f[o[i]] \in Nat /\ f[o[j]] \in Nat /\ f2[o[j]] \in Nat
    BY <1>2, <1>5, <1>9, <1>10
  <2>2. f[o[j]] <= f2[o[j]]
    BY <1>2, <1>6, <1>7, <2>1
  <2>3. CASE i \in 1 .. a
    <3>1. f[o[i]] + 1 <= f[o[j]]
      BY <1>13, <1>15, <2>3
    <3>. QED  BY <2>1, <2>2, <3>1
  <2>4. CASE i = a + 1
    <3>1. o[j] \in S /\ f[o[i]] + 1 = d
      BY <1>6, <1>8, <1>15, <2>4
    <3>2. f2[o[j]] = d \/ (~(f[o[j]] < d) /\ f2[o[j]] = f[o[j]])
      BY <1>2, <1>7, <3>1
    <3>. QED  BY <1>6, <2>1, <3>1, <3>2
  <2>5. i \in 1 .. a \/ i = a + 1
    OBVIOUS
  <2>. QED  BY <2>3, <2>4, <2>5
<1>. QED  BY <1>1, <1>3, <1>10, <1>14, <1>15 DEF Chains, SameLengths

\* The state in which a node of the order is relaxed.
Taken(s, n) ==
  LET better == s.best_end = NoNode \/ s.lengths[n] > s.best_length
  IN  [s EXCEPT !.at = @ + 1,
                !.best_end = IF better THEN n ELSE @,
                !.best_length = IF better THEN s.lengths[n] ELSE @,
                !.cursor = IF better THEN n ELSE @]

\* What taking a node changes.
LEMMA TakenIs ==
  ASSUME NEW s \in TopoStates, NEW n \in Nodes, NEW c, c = Taken(s, n)
  PROVE  /\ c \in TopoStates /\ c.order = s.order /\ c.lengths = s.lengths /\ c.predecessor = s.predecessor
         /\ c.path = s.path /\ c.at = s.at + 1 /\ c.err = s.err
         /\ IF s.best_end = NoNode \/ s.lengths[n] > s.best_length
            THEN c.best_end = n /\ c.cursor = n /\ c.best_length = s.lengths[n]
            ELSE c.best_end = s.best_end /\ c.cursor = s.cursor /\ c.best_length = s.best_length
<1>1. n \in Nat
  BY NodesFinite
<1>2. s.at \in Nat /\ s.at + 1 \in Nat /\ s.lengths[n] \in Nat
  BY DEF TopoStates
<1>3. CASE s.best_end = NoNode \/ s.lengths[n] > s.best_length
  <2>1. c = [s EXCEPT !.at = @ + 1, !.best_end = n, !.best_length = s.lengths[n], !.cursor = n]
    BY <1>3 DEF Taken, TopoStates
  <2>. QED  BY <1>1, <1>2, <1>3, <2>1 DEF TopoStates
<1>4. CASE ~(s.best_end = NoNode \/ s.lengths[n] > s.best_length)
  <2>1. c = [s EXCEPT !.at = @ + 1]
    BY <1>4 DEF Taken, TopoStates
  <2>. QED  BY <1>1, <1>2, <1>4, <2>1 DEF TopoStates
<1>. QED  BY <1>3, <1>4

\* A node of the order is measured.
LEMMA MeasureGoes ==
  ASSUME graph.rows \in [Nodes -> Seq(Nodes)], NEW s, NEW a, Measuring(s, a, Member, Edges), s.at <= Len(s.order),
         NEW n, n = s.order[s.at],
         NEW r, r = RelaxAll(Taken(s, n), n, s.lengths[n] + 1, graph.rows[n])
  PROVE  Measuring(r, a + 1, Member, Edges) /\ r.err = s.err /\ r.order = s.order
<1>1. /\ s \in TopoStates /\ Sorted(s.order, Member, Edges) /\ a \in 0 .. Len(s.order) /\ s.at = a + 1 /\ s.path = <<>>
      /\ Chains(s.lengths, s.predecessor, s.order, a, Edges) /\ Best(s, a)
  BY DEF Measuring
<1>2. PICK o, f : o = s.order /\ f = s.lengths
  OBVIOUS
<1>3. PICK l \in Nat : l = Len(o)
  BY <1>1, <1>2, SortedIs
<1>4. /\ \A i \in 1 .. l : o[i] \in Member /\ o[i] \in Nodes
      /\ \A i, j \in 1 .. l : o[i] = o[j] => i = j
  BY <1>1, <1>2, <1>3, SortedIs
<1>5. a \in Nat /\ a + 1 \in 1 .. l /\ n = o[a + 1] /\ n \in Nodes /\ n \in Member
  <2>1. a \in Nat /\ a + 1 \in 1 .. l /\ n = o[a + 1]
    BY <1>1, <1>2, <1>3
  <2>. QED  BY <1>4, <2>1
<1>6. PICK c : c = Taken(s, n)
  OBVIOUS
<1>7. /\ c \in TopoStates /\ c.order = s.order /\ c.lengths = s.lengths /\ c.predecessor = s.predecessor
      /\ c.path = s.path /\ c.at = s.at + 1 /\ c.err = s.err
      /\ IF s.best_end = NoNode \/ s.lengths[n] > s.best_length
         THEN c.best_end = n /\ c.cursor = n /\ c.best_length = s.lengths[n]
         ELSE c.best_end = s.best_end /\ c.cursor = s.cursor /\ c.best_length = s.best_length
  BY ONLY <1>1, <1>5, <1>6, TakenIs
<1>8. PICK row \in Seq(Nodes) : row = graph.rows[n]
  BY <1>5
<1>9. f \in [Nodes -> Nat] /\ \A x \in Nodes : f[x] \in Nat
  BY <1>1, <1>2 DEF TopoStates
<1>10. PICK d \in Nat : d = s.lengths[n] + 1
  BY <1>2, <1>5, <1>9
<1>11. PICK S : S = Range(row)
  OBVIOUS
<1>12. r = RelaxAll(c, n, d, row)
  BY <1>6, <1>8, <1>10
<1>13. r \in TopoStates /\ RelaxesOn(c, r) /\ Relaxed(c, r, S, n, d)
  <2>1. c \in TopoStates /\ n \in Nodes
    BY <1>5, <1>7
  <2>. QED  BY ONLY <1>8, <1>10, <1>11, <1>12, <2>1, row \in Seq(Nodes), d \in Nat, RelaxRow
<1>14. Leads(n, S, Member, Edges)
  <2>1. S = {row[i] : i \in 1 .. Len(row)}
    BY <1>11 DEF Range
  <2>2. \A x \in Member : <<n, x>> \in Edges <=> \E k \in 1 .. Len(row) : row[k] = x
    BY <1>5, <1>8, EdgesIs
  <2>. QED  BY ONLY <2>1, <2>2 DEF Leads
<1>15. /\ Chains(r.lengths, r.predecessor, o, a + 1, Edges)
       /\ SameLengths(c.lengths, r.lengths, o, a + 1)
  <2>1. PICK M, E : M = Member /\ E = Edges
    OBVIOUS
  <2>2. Sorted(o, M, E) /\ a \in Nat /\ a + 1 \in 1 .. Len(o) /\ n = o[a + 1]
    BY <1>1, <1>2, <1>3, <1>5, <2>1
  <2>3. Chains(c.lengths, c.predecessor, o, a, E) /\ c \in TopoStates
    BY <1>1, <1>2, <1>7, <2>1
  <2>4. d = c.lengths[n] + 1 /\ Leads(n, S, M, E)
    BY <1>7, <1>10, <1>14, <2>1
  <2>5. r \in TopoStates /\ Relaxed(c, r, S, n, d)
    BY <1>13
  <2>6. Chains(r.lengths, r.predecessor, o, a + 1, E) /\ SameLengths(c.lengths, r.lengths, o, a + 1)
    BY ONLY <2>2, <2>3, <2>4, <2>5, ChainsStep
  <2>. QED  BY <2>1, <2>6
<1>16. r.order = o /\ r.at = a + 2 /\ r.path = <<>> /\ r.err = s.err /\ r.cursor = c.cursor
       /\ r.best_end = c.best_end /\ r.best_length = c.best_length
  <2>1. c.at = a + 2
    <3>1. c.at = s.at + 1 /\ s.at = a + 1
      BY <1>1, <1>7
    <3>. QED  BY <1>5, <3>1
  <2>. QED  BY <1>1, <1>2, <1>7, <1>13, <2>1 DEF RelaxesOn
<1>17. \A i \in 1 .. a + 1 : r.lengths[o[i]] = f[o[i]] /\ o[i] \in Nodes /\ (i \in 1 .. a \/ i = a + 1)
  <2>1. \A i \in 1 .. a + 1 : i \in 1 .. l /\ (i \in 1 .. a \/ i = a + 1)
    BY <1>3, <1>5
  <2>. QED  BY <1>2, <1>4, <1>7, <1>15, <2>1 DEF SameLengths
<1>18. Best(r, a + 1)
  <2>1. /\ s.cursor = s.best_end
        /\ IF a = 0 THEN s.best_end = NoNode
           ELSE \E i \in 1 .. a : s.best_end = o[i] /\ s.best_length = f[o[i]]
        /\ \A i \in 1 .. a : f[o[i]] <= s.best_length
    BY <1>1, <1>2 DEF Best
  <2>2. s.best_length \in Nat /\ \A i \in 1 .. a + 1 : f[o[i]] \in Nat
    <3>1. s.best_length \in Nat
      BY <1>1 DEF TopoStates
    <3>. QED  BY <1>9, <1>17, <3>1
  <2>3. a + 1 # 0 /\ a + 1 \in 1 .. a + 1 /\ \A i \in 1 .. a : i \in 1 .. a + 1
    BY <1>5
  <2>4. CASE s.best_end = NoNode \/ s.lengths[n] > s.best_length
    <3>1. r.best_end = o[a + 1] /\ r.cursor = o[a + 1] /\ r.best_length = f[o[a + 1]]
      BY <1>2, <1>5, <1>7, <1>16, <2>4
    <3>2. ASSUME NEW i \in 1 .. a PROVE f[o[i]] <= f[o[a + 1]]
      <4>1. a # 0
        BY <1>5, <3>2
      <4>2. s.best_end # NoNode
        <5>1. PICK j \in 1 .. a : s.best_end = o[j]
          BY <2>1, <4>1
        <5>2. o[j] \in Nodes
          BY <1>17, <2>3
        <5>. QED  BY <5>1, <5>2, NodesFinite
      <4>3. f[o[a + 1]] > s.best_length
        BY <1>2, <1>5, <2>4, <4>2
      <4>. QED  BY <2>1, <2>2, <2>3, <4>3
    <3>3. \A i \in 1 .. a + 1 : f[o[i]] <= f[o[a + 1]]
      <4>1. ASSUME NEW i \in 1 .. a + 1 PROVE f[o[i]] <= f[o[a + 1]]
        <5>1. CASE i \in 1 .. a
          BY <3>2, <5>1
        <5>2. CASE i = a + 1
          <6>1. f[o[a + 1]] \in Nat
            BY <2>2, <2>3
          <6>. QED  BY <5>2, <6>1
        <5>. QED  BY <1>17, <5>1, <5>2
      <4>. QED  BY <4>1
    <3>4. \A i \in 1 .. a + 1 : r.lengths[o[i]] <= r.best_length
      BY <1>17, <3>1, <3>3
    <3>5. r.best_length = r.lengths[o[a + 1]]
      BY <1>17, <2>3, <3>1
    <3>6. r.order = o
      BY <1>16
    <3>. QED  BY ONLY <2>3, <3>1, <3>4, <3>5, <3>6 DEF Best
  <2>5. CASE ~(s.best_end = NoNode \/ s.lengths[n] > s.best_length)
    <3>1. r.best_end = s.best_end /\ r.cursor = s.cursor /\ r.best_length = s.best_length
      BY <1>7, <1>16, <2>5
    <3>2. a # 0
      BY <2>1, <2>5
    <3>3. PICK i \in 1 .. a : s.best_end = o[i] /\ s.best_length = f[o[i]]
      BY <2>1, <3>2
    <3>4. f[o[a + 1]] <= s.best_length
      BY <1>2, <1>5, <2>2, <2>3, <2>5
    <3>5. \A j \in 1 .. a + 1 : f[o[j]] <= s.best_length
      BY <1>17, <2>1, <3>4
    <3>6. i \in 1 .. a + 1 /\ r.lengths[o[i]] = f[o[i]]
      BY <1>17, <2>3
    <3>7. \A j \in 1 .. a + 1 : r.lengths[o[j]] <= r.best_length
      BY <1>17, <3>1, <3>5
    <3>8. r.order = o /\ r.cursor = r.best_end /\ r.best_end = o[i] /\ r.best_length = r.lengths[o[i]]
      BY <1>16, <2>1, <3>1, <3>3, <3>6
    <3>. QED  BY ONLY <2>3, <3>6, <3>7, <3>8 DEF Best
  <2>. QED  BY <2>4, <2>5
<1>19. a + 1 \in 0 .. Len(o) /\ a + 2 = (a + 1) + 1
  BY <1>3, <1>5
<1>. QED  BY <1>1, <1>2, <1>13, <1>15, <1>16, <1>18, <1>19 DEF Measuring

\* The accumulator of the longest chain.
ChainStates == [ends : SUBSET Nodes, length : Nat]

\* The ends and lengths after each round.
ChainTable(b) ==
  /\ b \in [0 .. Len(Rounds) -> ChainStates] /\ b[0] = [ends |-> Member, length |-> 0]
  /\ \A k \in 1 .. Len(Rounds) : b[k] = Longer(b[k - 1], Rounds[k])

\* The longest chain as a table of its rounds.
LEMMA ChainLoop ==
  ASSUME graph.rows \in [Nodes -> Seq(Nodes)]
  PROVE  \E b : ChainTable(b) /\ ChainLength = b[Len(Rounds)].length
<1>. DEFINE n == Len(Rounds)
            A == ChainStates
            base == [ends |-> Member, length |-> 0]
            Step(acc, i) == Longer(acc, i)
            F == [k \in 1 .. n |-> [X \in A |-> Step(X, Rounds[k])]]
            Def(t) == [k \in 0 .. n |->
                         IF k = 0 THEN base
                         ELSE CHOOSE r \in {Step(acc, Rounds[k]) : acc \in {t[k - 1]}} : TRUE]
            After == CHOOSE t : t = Def(t)
<1>0. n \in Nat
  BY NodesFinite DEF Rounds
<1>1. base \in A
  BY DEF Member, ChainStates
<1>2. \A k \in 1 .. n, X \in A : Step(X, Rounds[k]) \in A
  <2>1. \A k \in 1 .. n : Rounds[k] \in Nat
    BY NodesFinite DEF Rounds
  <2>2. \A e \in Edges : e[2] \in Nodes
    BY EdgesIs
  <2>. QED  BY <2>1, <2>2 DEF Longer, ChainStates
<1>3. F \in [1 .. n -> [A -> A]]
  <2>. HIDE DEF A, Step, n
  <2>. QED  BY <1>2
<1>4. PICK b : Iterates(b, n, A, base, F)
  <2>. HIDE DEF A, F, base, n
  <2>. QED  BY <1>0, <1>1, <1>3, IteratesExist
<1>. HIDE DEF A, base, Step, n
<1>5. /\ b \in [0 .. n -> A] /\ b[0] = base
      /\ \A k \in 1 .. n : b[k] = Step(b[k - 1], Rounds[k])
  <2>1. b \in [0 .. n -> A] /\ b[0] = base /\ \A k \in 1 .. n : b[k] = F[k][b[k - 1]]
    BY <1>4 DEF Iterates
  <2>2. \A k \in 1 .. n : k - 1 \in 0 .. n
    BY <1>0
  <2>3. \A k \in 1 .. n : b[k - 1] \in A
    BY <2>1, <2>2
  <2>. QED  BY <2>1, <2>3
<1>6. ASSUME NEW t, NEW k \in 1 .. n
      PROVE  (CHOOSE r \in {Step(acc, Rounds[k]) : acc \in {t[k - 1]}} : TRUE) = Step(t[k - 1], Rounds[k])
  <2>1. {Step(acc, Rounds[k]) : acc \in {t[k - 1]}} = {Step(t[k - 1], Rounds[k])}
    OBVIOUS
  <2>. QED  BY <2>1, OnlyOne
<1>7. b = Def(b)
  <2>1. b = [k \in 0 .. n |-> b[k]]
    BY <1>5
  <2>2. ASSUME NEW k \in 0 .. n PROVE b[k] = Def(b)[k]
    <3>1. CASE k = 0
      BY <1>5, <3>1
    <3>2. CASE k \in 1 .. n
      BY <1>0, <1>5, <1>6, <3>2
    <3>. QED  BY <1>0, <3>1, <3>2
  <2>. QED  BY <2>1, <2>2
<1>8. After = Def(After)
  <2>1. \E t : t = Def(t)
    BY <1>7
  <2>. QED  BY <2>1
<1>9. ChainLength = After[n].length
  BY DEF ChainLength, Loop, base, Step, n
<1>. HIDE DEF After
<1>10. After[0] = base /\ \A k \in 1 .. n : After[k] = Step(After[k - 1], Rounds[k])
  <2>1. \A k \in 0 .. n : After[k] = Def(After)[k]
    BY <1>8
  <2>2. 0 \in 0 .. n /\ \A k \in 1 .. n : k \in 0 .. n /\ k # 0
    BY <1>0
  <2>. QED  BY <1>6, <2>1, <2>2
<1>11. After[n] = b[n]
  <2>1. PICK m, f : m \in Nat /\ m = n /\ f = After
    BY <1>0
  <2>2. m \in Nat /\ f[0] = b[0] /\ StayAlike(f, b, m)
    BY <1>5, <1>10, <2>1 DEF StayAlike
  <2>3. f[m] = b[m]
    BY ONLY <2>2, SameTable
  <2>. QED  BY <2>1, <2>3
<1>. QED  BY <1>5, <1>9, <1>11 DEF ChainTable, A, base, Step, n

\* f is, for each member, the most edges of a chain that ends there.
Counts(f, M, E) ==
  /\ \A x, y \in M : <<x, y>> \in E => f[x] + 1 <= f[y]
  /\ \A y \in M : f[y] = 0 \/ \E x \in M : <<x, y>> \in E /\ f[y] = f[x] + 1

\* z is the most nodes of a chain.
Highest(f, z, M) ==
  /\ \A y \in M : f[y] < z
  /\ z # 0 => \E y \in M : f[y] = z - 1

\* The longest chain has z nodes.
LEMMA ChainLengthIs ==
  ASSUME graph.rows \in [Nodes -> Seq(Nodes)], NEW f \in [Nodes -> Nat], NEW z \in 0 .. Bound,
         Counts(f, Member, Edges), Highest(f, z, Member)
  PROVE  ChainLength = z
<1>1. PICK c \in Nat : c = Bound /\ Len(Rounds) = c /\ \A k \in 1 .. c : Rounds[k] = k
  BY NodesFinite DEF Rounds
<1>2. PICK b : ChainTable(b) /\ ChainLength = b[c].length
  BY <1>1, ChainLoop
<1>3. /\ b \in [0 .. c -> ChainStates] /\ b[0] = [ends |-> Member, length |-> 0]
      /\ \A k \in 1 .. c : b[k] = Longer(b[k - 1], k)
  BY <1>1, <1>2 DEF ChainTable
<1>4. Member \subseteq Nodes /\ \A n \in Member : f[n] \in Nat
  BY DEF Member
<1>5. z \in Nat /\ z <= c
  BY <1>1
<1>6. /\ \A x, y \in Member : <<x, y>> \in Edges => f[x] + 1 <= f[y]
      /\ \A y \in Member : f[y] = 0 \/ \E x \in Member : <<x, y>> \in Edges /\ f[y] = f[x] + 1
  BY DEF Counts
<1>7. (\A y \in Member : f[y] < z) /\ (z # 0 => \E y \in Member : f[y] = z - 1)
  BY DEF Highest
<1>. DEFINE Ends(k) == {n \in Member : k <= f[n]}
            Now(k) == b[k].ends = Ends(k) /\ b[k].length = IF k <= z THEN k ELSE z
            T == {k \in 0 .. c : Now(k)}
<1>8. 0 \in T
  <2>1. Ends(0) = Member
    BY <1>4
  <2>2. b[0].ends = Member /\ b[0].length = 0
    BY <1>3
  <2>3. Now(0)
    BY <1>5, <2>1, <2>2
  <2>. HIDE DEF Now
  <2>. QED  BY <2>3
<1>9. ASSUME NEW k \in 1 .. c, k - 1 \in T PROVE k \in T
  <2>1. Now(k - 1)
    <3>. HIDE DEF Now
    <3>. QED  BY <1>9
  <2>2. PICK v, S : v = b[k - 1] /\ S = Ends(k - 1)
    OBVIOUS
  <2>3. v.ends = S /\ v.length = IF k - 1 <= z THEN k - 1 ELSE z
    BY <2>1, <2>2
  <2>4. k \in Nat /\ k - 1 \in Nat /\ 1 <= k
    BY <1>1
  <2>5. b[k].ends = {e[2] : e \in {x \in Edges : x[1] \in S}} /\ b[k].length = IF S = {} THEN v.length ELSE k
    <3>1. PICK w : w = b[k] /\ w = Longer(v, k)
      BY <1>3, <2>2
    <3>2. w.ends = {e[2] : e \in {x \in Edges : x[1] \in v.ends}}
      BY ONLY <3>1 DEF Longer
    <3>3. w.length = IF v.ends = {} THEN v.length ELSE k
      BY ONLY <3>1 DEF Longer
    <3>4. v.ends = S
      BY <2>3
    <3>. QED  BY ONLY <3>1, <3>2, <3>3, <3>4
  <2>6. {e[2] : e \in {x \in Edges : x[1] \in S}} = Ends(k)
    <3>1. ASSUME NEW e \in Edges, e[1] \in S PROVE e[2] \in Ends(k)
      <4>1. e = <<e[1], e[2]>> /\ e[1] \in Member /\ e[2] \in Member
        BY DEF Edges
      <4>2. f[e[1]] + 1 <= f[e[2]] /\ k - 1 <= f[e[1]]
        BY <1>6, <2>2, <3>1, <4>1
      <4>3. k <= f[e[2]]
        BY <1>4, <2>4, <4>1, <4>2
      <4>. QED  BY <4>1, <4>3
    <3>2. ASSUME NEW n \in Ends(k) PROVE n \in {e[2] : e \in {x \in Edges : x[1] \in S}}
      <4>1. n \in Member /\ k <= f[n] /\ f[n] \in Nat /\ f[n] # 0
        BY <1>4, <2>4
      <4>2. PICK m \in Member : <<m, n>> \in Edges /\ f[n] = f[m] + 1
        BY <1>6, <4>1
      <4>3. k - 1 <= f[m]
        BY <1>4, <2>4, <4>1, <4>2
      <4>4. m \in S
        BY <2>2, <4>3
      <4>5. PICK e : e = <<m, n>>
        OBVIOUS
      <4>. QED  BY <4>2, <4>4, <4>5
    <3>. QED  BY <3>1, <3>2
  <2>7. CASE k <= z
    <3>1. PICK y \in Member : f[y] = z - 1
      BY <1>5, <1>7, <2>4, <2>7
    <3>2. k - 1 <= f[y]
      BY <1>5, <2>4, <2>7, <3>1
    <3>3. S # {}
      BY <2>2, <3>2
    <3>. QED  BY <2>5, <2>6, <2>7, <3>3
  <2>8. CASE ~(k <= z)
    <3>1. \A y \in Member : ~(k - 1 <= f[y])
      BY <1>4, <1>5, <1>7, <2>4, <2>8
    <3>2. S = {}
      BY <2>2, <3>1
    <3>3. v.length = z
      BY <1>5, <2>3, <2>4, <2>8
    <3>. QED  BY <2>5, <2>6, <2>8, <3>2, <3>3
  <2>. QED  BY <2>7, <2>8
<1>10. c \in T
  <2>1. c \in 0 .. c
    OBVIOUS
  <2>. HIDE DEF T
  <2>. QED  BY <1>8, <1>9, <2>1, AllUpTo
<1>11. b[c].length = IF c <= z THEN c ELSE z
  BY <1>10
<1>. QED  BY <1>2, <1>5, <1>11

\* The path so far is a chain of members, and the walk back continues from its first node.
Walk(s, M, E) ==
  /\ \A i \in 1 .. Len(s.path) : s.path[i] \in M
  /\ \A i \in 2 .. Len(s.path) : <<s.path[i - 1], s.path[i]>> \in E
  /\ \/ s.cursor = NoNode /\ Len(s.path) = s.best_length + 1
     \/ /\ s.cursor \in M /\ s.lengths[s.cursor] + Len(s.path) = s.best_length
        /\ s.path # <<>> => <<s.cursor, s.path[1]>> \in E

\* All nodes of the order are measured.
Measured(s, M, E) ==
  /\ s \in TopoStates /\ Sorted(s.order, M, E)
  /\ Chains(s.lengths, s.predecessor, s.order, Len(s.order), E)
  /\ \A i \in 1 .. Len(s.order) : s.lengths[s.order[i]] <= s.best_length
  /\ \E i \in 1 .. Len(s.order) : s.best_length = s.lengths[s.order[i]]

\* The path phase.
LongestGoing(s, M, E) ==
  /\ s.order # <<>> /\ s.at \in Nat
  /\ IF s.at <= Len(s.order) THEN Measuring(s, s.at - 1, M, E) ELSE Measured(s, M, E) /\ Walk(s, M, E)

\* When the last node is measured the walk begins at the best end.
LEMMA WalkStarts ==
  ASSUME NEW s, NEW a, NEW M, NEW E, Measuring(s, a, M, E), s.order # <<>>
  PROVE  LongestGoing(s, M, E)
<1>1. /\ s \in TopoStates /\ Sorted(s.order, M, E) /\ a \in 0 .. Len(s.order) /\ s.at = a + 1 /\ s.path = <<>>
      /\ Chains(s.lengths, s.predecessor, s.order, a, E) /\ Best(s, a)
  BY DEF Measuring
<1>2. PICK o, l : o = s.order /\ l = Len(o)
  OBVIOUS
<1>3. l \in Nat /\ l # 0 /\ \A i \in 1 .. l : o[i] \in M /\ o[i] \in Nodes
  <2>1. o \in Seq(Nodes) /\ o # <<>>
    BY <1>1, <1>2 DEF Sorted
  <2>2. l \in Nat /\ l # 0
    BY <1>2, <2>1, EmptySeq
  <2>. QED  BY <1>1, <1>2, <2>2, SortedIs
<1>4. CASE a < l
  <2>1. s.at <= Len(s.order) /\ s.at \in Nat /\ s.at - 1 = a
    BY <1>1, <1>2, <1>3, <1>4
  <2>. QED  BY <2>1 DEF LongestGoing
<1>5. CASE ~(a < l)
  <2>1. a = l /\ ~(s.at <= Len(s.order)) /\ s.at \in Nat
    BY <1>1, <1>2, <1>3, <1>5
  <2>2. /\ s.cursor = s.best_end /\ \E i \in 1 .. l : s.best_end = o[i] /\ s.best_length = s.lengths[o[i]]
        /\ \A i \in 1 .. l : s.lengths[o[i]] <= s.best_length
    BY <1>1, <1>2, <1>3, <2>1 DEF Best
  <2>3. PICK i \in 1 .. l : s.cursor = o[i] /\ s.best_length = s.lengths[o[i]]
    BY <2>2
  <2>4. Measured(s, M, E)
    BY <1>1, <1>2, <2>1, <2>2 DEF Measured
  <2>5. Walk(s, M, E)
    <3>1. Len(s.path) = 0
      BY <1>1
    <3>2. s.lengths[s.cursor] \in Nat /\ s.cursor \in M
      BY <1>1, <1>3, <2>3 DEF TopoStates
    <3>3. s.lengths[s.cursor] + Len(s.path) = s.best_length
      BY <2>3, <3>1, <3>2
    <3>. QED  BY <1>1, <3>1, <3>2, <3>3 DEF Walk
  <2>. QED  BY <2>1, <2>4, <2>5 DEF LongestGoing
<1>. QED  BY <1>4, <1>5

\* A node before a sequence.
LEMMA Before ==
  ASSUME NEW A, NEW x \in A, NEW q \in Seq(A), NEW p, p = <<x>> \o q
  PROVE  /\ p \in Seq(A) /\ Len(p) = Len(q) + 1 /\ Len(q) \in Nat /\ p # <<>> /\ p[1] = x
         /\ \A i \in 2 .. Len(p) : p[i] = q[i - 1] /\ i - 1 \in 1 .. Len(q)
<1>1. p \in Seq(A) /\ Len(p) = Len(q) + 1 /\ Len(q) \in Nat
  OBVIOUS
<1>2. p[1] = x /\ \A i \in 2 .. Len(p) : p[i] = q[i - 1]
  OBVIOUS
<1>3. p # <<>>
  BY <1>1
<1>4. \A i \in 2 .. Len(p) : i - 1 \in 1 .. Len(q)
  BY <1>1
<1>. QED  BY <1>1, <1>2, <1>3, <1>4

\* A step of the walk.
LEMMA WalkGoes ==
  ASSUME NEW s, NEW M, NEW E, Measured(s, M, E), Walk(s, M, E), s.cursor # NoNode,
         NEW r, r = [s EXCEPT !.path = <<s.cursor>> \o @, !.cursor = s.predecessor[s.cursor]]
  PROVE  Measured(r, M, E) /\ Walk(r, M, E) /\ r.order = s.order /\ r.at = s.at /\ r.err = s.err
<1>1. s \in TopoStates /\ Sorted(s.order, M, E) /\ Chains(s.lengths, s.predecessor, s.order, Len(s.order), E)
  BY DEF Measured
<1>2. PICK o, l, f, g : o = s.order /\ l = Len(o) /\ f = s.lengths /\ g = s.predecessor
  OBVIOUS
<1>3. /\ l \in Nat /\ \A i \in 1 .. l : o[i] \in M /\ o[i] \in Nodes
      /\ \A x \in M : \E i \in 1 .. l : o[i] = x
  BY <1>1, <1>2, SortedIs
<1>4. PICK x, q : x = s.cursor /\ q = s.path
  OBVIOUS
<1>5. /\ \A i \in 1 .. Len(q) : q[i] \in M
      /\ \A i \in 2 .. Len(q) : <<q[i - 1], q[i]>> \in E
      /\ x \in M /\ f[x] + Len(q) = s.best_length
      /\ q # <<>> => <<x, q[1]>> \in E
  BY <1>2, <1>4 DEF Walk
<1>6. PICK j \in 1 .. l : o[j] = x
  BY <1>3, <1>5
<1>7. x \in Nodes /\ q \in Seq(Nodes) /\ f \in [Nodes -> Nat] /\ g \in [Nodes -> Nat] /\ s.best_length \in Nat
  BY <1>1, <1>2, <1>3, <1>4, <1>6 DEF TopoStates
<1>8. PICK p : p = <<x>> \o q
  OBVIOUS
<1>9. /\ p \in Seq(Nodes) /\ Len(p) = Len(q) + 1 /\ Len(q) \in Nat /\ p # <<>> /\ p[1] = x
      /\ \A i \in 2 .. Len(p) : p[i] = q[i - 1] /\ i - 1 \in 1 .. Len(q)
  <2>1. x \in Nodes /\ q \in Seq(Nodes)
    BY <1>7
  <2>. QED  BY ONLY <1>8, <2>1, Before
<1>10. PICK y \in Nat : y = g[x]
  BY <1>7
<1>11. /\ r \in TopoStates /\ r.path = p /\ r.cursor = y /\ r.order = o /\ r.lengths = f /\ r.predecessor = g
       /\ r.best_length = s.best_length /\ r.at = s.at /\ r.err = s.err
  <2>1. r = [s EXCEPT !.path = p, !.cursor = y]
    BY <1>1, <1>2, <1>4, <1>8, <1>10 DEF TopoStates
  <2>2. s \in TopoStates /\ p \in Seq(Nodes) /\ y \in Nat
    BY <1>1, <1>9
  <2>3. /\ r \in TopoStates /\ r.path = p /\ r.cursor = y /\ r.order = s.order /\ r.lengths = s.lengths
        /\ r.predecessor = s.predecessor /\ r.best_length = s.best_length /\ r.at = s.at /\ r.err = s.err
    BY ONLY <2>1, <2>2 DEF TopoStates
  <2>. QED  BY ONLY <1>2, <2>3
<1>12. Measured(r, M, E)
  BY <1>2, <1>11 DEF Measured
<1>13. \A i \in 1 .. Len(p) : p[i] \in M
  <2>1. \A i \in 1 .. Len(p) : i = 1 \/ i \in 2 .. Len(p)
    BY <1>9
  <2>. QED  BY <1>5, <1>9, <2>1
<1>14. ASSUME NEW i \in 2 .. Len(p) PROVE <<p[i - 1], p[i]>> \in E
  <2>1. CASE i = 2
    <3>1. q # <<>> /\ p[i - 1] = x /\ p[i] = q[1]
      BY <1>9, <2>1
    <3>. QED  BY <1>5, <3>1
  <2>2. CASE i # 2
    <3>1. i - 1 \in 2 .. Len(p) /\ i - 1 \in 2 .. Len(q) /\ p[i] = q[i - 1] /\ p[i - 1] = q[(i - 1) - 1]
      BY <1>9, <2>2
    <3>. QED  BY <1>5, <3>1
  <2>. QED  BY <2>1, <2>2
<1>15. \/ f[x] = 0 /\ y = NoNode
       \/ \E i \in 1 .. l : y = o[i] /\ <<o[i], x>> \in E /\ f[x] = f[o[i]] + 1
  BY <1>1, <1>2, <1>6, <1>10 DEF Chains
<1>16. f[x] \in Nat
  BY <1>7
<1>17. CASE f[x] = 0 /\ y = NoNode
  <2>1. Len(p) = s.best_length + 1
    <3>1. Len(q) = s.best_length
      <4>1. PICK a \in Nat : a = Len(q)
        BY <1>9
      <4>2. 0 + a = s.best_length
        BY <1>5, <1>17, <4>1
      <4>. QED  BY ONLY a \in Nat, <4>1, <4>2
    <3>. QED  BY <1>9, <3>1
  <2>2. Walk(r, M, E)
    BY <1>11, <1>13, <1>14, <1>17, <2>1 DEF Walk
  <2>. QED  BY <1>2, <1>11, <1>12, <2>2
<1>18. CASE \E i \in 1 .. l : y = o[i] /\ <<o[i], x>> \in E /\ f[x] = f[o[i]] + 1
  <2>1. PICK i \in 1 .. l : y = o[i] /\ <<o[i], x>> \in E /\ f[x] = f[o[i]] + 1
    BY <1>18
  <2>2. y \in M /\ f[y] \in Nat /\ f[x] = f[y] + 1 /\ <<y, p[1]>> \in E
    BY <1>3, <1>7, <1>9, <2>1
  <2>3. f[y] + Len(p) = s.best_length
    <3>1. PICK a, c, d, e \in Nat : a = f[x] /\ c = f[y] /\ d = Len(q) /\ e = Len(p)
      BY <1>9, <1>16, <2>2
    <3>2. a + d = s.best_length /\ e = d + 1 /\ a = c + 1
      BY <1>5, <1>9, <2>2, <3>1
    <3>3. c + e = s.best_length
      BY ONLY <3>2, a \in Nat, c \in Nat, d \in Nat, e \in Nat
    <3>. QED  BY <3>1, <3>3
  <2>4. Walk(r, M, E)
    BY <1>11, <1>13, <1>14, <2>2, <2>3 DEF Walk
  <2>. QED  BY <1>2, <1>11, <1>12, <2>4
<1>. QED  BY <1>15, <1>17, <1>18

\* A chain to the i-th node has fewer than i edges.
LEMMA ChainsShort ==
  ASSUME NEW s, NEW M, NEW E, Measured(s, M, E), NEW i \in 1 .. Len(s.order)
  PROVE  s.lengths[s.order[i]] < i
<1>1. s \in TopoStates /\ Sorted(s.order, M, E) /\ Chains(s.lengths, s.predecessor, s.order, Len(s.order), E)
  BY DEF Measured
<1>2. PICK o, l, f : o = s.order /\ l = Len(o) /\ f = s.lengths
  OBVIOUS
<1>3. /\ l \in Nat /\ \A j \in 1 .. l : o[j] \in M /\ o[j] \in Nodes
      /\ \A j, k \in 1 .. l : <<o[j], o[k]>> \in E => j < k
  BY <1>1, <1>2, SortedIs
<1>4. \A j \in 1 .. l : f[o[j]] \in Nat
  BY <1>1, <1>2, <1>3 DEF TopoStates
<1>5. \A j \in 1 .. l : f[o[j]] = 0 \/ \E k \in 1 .. l : <<o[k], o[j]>> \in E /\ f[o[j]] = f[o[k]] + 1
  BY <1>1, <1>2 DEF Chains
<1>. DEFINE Bad == {j \in 1 .. l : ~(f[o[j]] < j)}
<1>6. ASSUME Bad # {} PROVE FALSE
  <2>1. Bad \in SUBSET Nat
    BY <1>3
  <2>2. PICK j \in Bad : \A k \in Bad : j <= k
    <3>. HIDE DEF Bad
    <3>. QED  BY <1>6, <2>1, LeastMember
  <2>3. j \in 1 .. l /\ ~(f[o[j]] < j)
    BY <2>2
  <2>4. f[o[j]] # 0
    BY <1>3, <2>3
  <2>5. PICK k \in 1 .. l : <<o[k], o[j]>> \in E /\ f[o[j]] = f[o[k]] + 1
    BY <1>5, <2>3, <2>4
  <2>6. k < j
    BY <1>3, <2>3, <2>5
  <2>7. k \notin Bad
    BY <1>3, <2>2, <2>3, <2>6
  <2>8. f[o[k]] < k
    BY <2>7
  <2>. QED  BY <1>3, <1>4, <2>3, <2>5, <2>6, <2>8
<1>. QED  BY <1>2, <1>6

\* The finished walk is a longest chain.
LEMMA WalkEnds ==
  ASSUME graph.rows \in [Nodes -> Seq(Nodes)], NEW s, Measured(s, Member, Edges), Walk(s, Member, Edges),
         s.cursor = NoNode
  PROVE  /\ Range(s.path) \subseteq Member
         /\ \A i \in 2 .. Len(s.path) : <<s.path[i - 1], s.path[i]>> \in Edges
         /\ Len(s.path) = ChainLength
<1>1. s \in TopoStates /\ Sorted(s.order, Member, Edges) /\ Chains(s.lengths, s.predecessor, s.order, Len(s.order), Edges)
  BY DEF Measured
<1>2. PICK o, l, f, M, E : o = s.order /\ l = Len(o) /\ f = s.lengths /\ M = Member /\ E = Edges
  OBVIOUS
<1>3. /\ l \in Nat /\ \A j \in 1 .. l : o[j] \in M /\ o[j] \in Nodes
      /\ \A x \in M : \E i \in 1 .. l : o[i] = x
      /\ \A i, j \in 1 .. l : o[i] = o[j] => i = j
  <2>1. Sorted(o, M, E)
    BY <1>1, <1>2
  <2>2. l = Len(o)
    BY <1>2
  <2>. QED  BY ONLY <2>1, <2>2, SortedIs
<1>4. f \in [Nodes -> Nat] /\ s.path \in Seq(Nodes) /\ s.best_length \in Nat
  BY <1>1, <1>2 DEF TopoStates
<1>5. NoNode \notin M
  BY <1>2, NodesFinite DEF Member
<1>6. /\ \A i \in 1 .. Len(s.path) : s.path[i] \in M
      /\ \A i \in 2 .. Len(s.path) : <<s.path[i - 1], s.path[i]>> \in E
      /\ Len(s.path) = s.best_length + 1
  BY <1>2, <1>5 DEF Walk
<1>7. Range(s.path) \subseteq M
  BY <1>4, <1>6 DEF Range
<1>8. \A i \in 1 .. l : f[o[i]] < i /\ f[o[i]] \in Nat
  BY <1>2, <1>3, <1>4, ChainsShort
<1>9. PICK z \in Nat : z = s.best_length + 1
  BY <1>4
<1>10. /\ \A i \in 1 .. l : f[o[i]] <= s.best_length
       /\ \E i \in 1 .. l : s.best_length = f[o[i]]
  BY <1>2 DEF Measured
<1>11. z <= l
  BY <1>3, <1>4, <1>8, <1>9, <1>10
<1>12. l <= Bound
  <2>1. Distinct(o, l)
    BY <1>3 DEF Distinct
  <2>2. PICK V : V = {o[i] : i \in 1 .. l}
    OBVIOUS
  <2>3. IsFiniteSet(V) /\ Cardinality(V) = l
    BY <2>1, <2>2, CountDistinct
  <2>4. V \subseteq Nodes
    BY <1>3, <2>2
  <2>. QED  BY <2>3, <2>4, NodesFinite, FS_Subset
<1>13. z \in 0 .. Bound
  BY <1>3, <1>11, <1>12, NodesFinite
<1>14. Counts(f, M, E)
  <2>1. /\ \A j \in 1 .. l : f[o[j]] = 0 \/ \E i \in 1 .. l : <<o[i], o[j]>> \in E /\ f[o[j]] = f[o[i]] + 1
        /\ \A i \in 1 .. l, j \in 1 .. l : <<o[i], o[j]>> \in E => f[o[i]] + 1 <= f[o[j]]
    BY <1>1, <1>2 DEF Chains
  <2>2. \A x, y \in M : <<x, y>> \in E => f[x] + 1 <= f[y]
    BY <1>3, <2>1
  <2>3. \A y \in M : f[y] = 0 \/ \E x \in M : <<x, y>> \in E /\ f[y] = f[x] + 1
    <3>1. ASSUME NEW y \in M PROVE f[y] = 0 \/ \E x \in M : <<x, y>> \in E /\ f[y] = f[x] + 1
      <4>1. PICK j \in 1 .. l : o[j] = y
        BY <1>3
      <4>2. CASE f[y] = 0
        BY <4>2
      <4>3. CASE \E i \in 1 .. l : <<o[i], o[j]>> \in E /\ f[o[j]] = f[o[i]] + 1
        <5>1. PICK i \in 1 .. l : <<o[i], o[j]>> \in E /\ f[o[j]] = f[o[i]] + 1
          BY <4>3
        <5>2. o[i] \in M
          BY <1>3
        <5>. QED  BY <4>1, <5>1, <5>2
      <4>. QED  BY <2>1, <4>1, <4>2, <4>3
    <3>. QED  BY <3>1
  <2>. QED  BY <2>2, <2>3 DEF Counts
<1>15. Highest(f, z, M)
  <2>1. ASSUME NEW y \in M PROVE f[y] < z
    <3>1. PICK j \in 1 .. l : o[j] = y
      BY <1>3
    <3>. QED  BY <1>4, <1>8, <1>9, <1>10, <3>1
  <2>2. \E y \in M : f[y] = z - 1
    <3>1. PICK i \in 1 .. l : s.best_length = f[o[i]]
      BY <1>10
    <3>2. f[o[i]] = z - 1
      BY <1>4, <1>9, <3>1
    <3>. QED  BY <1>3, <3>2
  <2>. QED  BY <2>1, <2>2 DEF Highest
<1>16. ChainLength = z
  BY <1>2, <1>4, <1>13, <1>14, <1>15, ChainLengthIs
<1>. QED  BY <1>2, <1>6, <1>7, <1>9, <1>16

\* The first measurement.
LEMMA MeasureStarts ==
  ASSUME NEW s \in TopoStates, Unstarted(s), NEW M, NEW E, Sorted(s.order, M, E)
  PROVE  Measuring(s, 0, M, E)
<1>1. /\ s.at = 1 /\ s.lengths = [n \in Nodes |-> 0] /\ s.predecessor = [n \in Nodes |-> NoNode]
      /\ s.best_end = NoNode /\ s.path = <<>> /\ s.cursor = NoNode
  BY DEF Unstarted
<1>2. Len(s.order) \in Nat /\ \A i \in 1 .. Len(s.order) : s.order[i] \in Nodes
  BY SortedIs
<1>3. \A j \in 1 .. Len(s.order) : s.lengths[s.order[j]] = 0 /\ s.predecessor[s.order[j]] = NoNode
  BY <1>1, <1>2
<1>4. \A i \in 1 .. 0 : FALSE
  OBVIOUS
<1>5. Chains(s.lengths, s.predecessor, s.order, 0, E)
  BY <1>3, <1>4 DEF Chains
<1>6. Best(s, 0)
  BY <1>1, <1>4 DEF Best
<1>. QED  BY <1>1, <1>2, <1>5, <1>6 DEF Measuring

\* Without members no chain has a node.
LEMMA NoChain ==
  ASSUME graph.rows \in [Nodes -> Seq(Nodes)], Member = {}
  PROVE  ChainLength = 0
<1>1. PICK f : f = [n \in Nodes |-> 0]
  OBVIOUS
<1>2. f \in [Nodes -> Nat] /\ 0 \in 0 .. Bound
  BY <1>1, NodesFinite
<1>3. Counts(f, Member, Edges) /\ Highest(f, 0, Member)
  BY DEF Counts, Highest
<1>. QED  BY <1>2, <1>3, ChainLengthIs

-----------------------------------------------------------------------------
(* The invariant: every call is somewhere along its loop *)

\* The searches run over a graph of the run.
Given == elements \in ElementLists /\ (algo \in Searches => graph \in GraphSet) /\ (pc = "path" => algo = "longest")

\* Hop distances: what was met so far, and all of it at the end.
SsspInv ==
  algo = "sssp" /\ pc # "start" =>
    IF st.source \in Member
    THEN SsspGoing(st, Member, Edges, st.source) /\ (pc = "done" => st.queue = <<>>)
    ELSE pc = "done" /\ st.distances = <<>>

\* Some node of M leads back to itself.
HasCycle(M, E) == \E n \in M : <<n, n>> \in Closure(E)

\* How the sort ended.
SortDone(s, M, E) ==
  \/ s.err = "Ok" /\ ~HasCycle(M, E) /\ Sorted(s.order, M, E)
  \/ s.err = "Cycle" /\ HasCycle(M, E)

\* How the walk ended.
WalkDone(s, M, E) ==
  IF s.order = <<>> THEN s.path = <<>> ELSE Measured(s, M, E) /\ Walk(s, M, E) /\ s.cursor = NoNode

\* The sort, the measuring of the order and the walk back.
TopoInv ==
  /\ algo \in {"toposort", "longest"} =>
       /\ pc = "run" => SortGoing(st, Member, Entries, graph.rows)
       /\ pc \in {"path", "done"} => SortDone(st, Member, Edges)
  /\ algo = "longest" =>
       /\ pc = "path" => st.err = "Ok" /\ LongestGoing(st, Member, Edges)
       /\ pc = "done" /\ st.err = "Ok" => WalkDone(st, Member, Edges)

\* Every call is somewhere along its loop.
PathsInv == Given /\ SsspInv /\ TopoInv

\* The graph and the elements of a search.
LEMMA GivenIs ==
  ASSUME Given, algo \in Searches
  PROVE  graph.rows \in [Nodes -> Seq(Nodes)] /\ elements \in Seq(Nat)
BY AlgoAssumption DEF Given

\* What depends only on the call stays.
LEMMA CallStays ==
  ASSUME graph' = graph, elements' = elements
  PROVE  Member' = Member /\ Edges' = Edges /\ Entries' = Entries
<1>1. Member' = Member
  BY DEF Member
<1>. QED  BY <1>1 DEF Edges, Entries

\* A cycle as the invariant states it.
LEMMA CyclicIs == Cyclic <=> HasCycle(Member, Edges)
BY DEF Cyclic, Reach, HasCycle

\* Before a call begins nothing is claimed.
LEMMA PathsInit == Init => PathsInv
BY DEF Init, PathsInv, Given, SsspInv, TopoInv, Searches

\* The other algorithms.
Others ==
  \/ SccBegin \/ SccVisit \/ SccAdvance \/ SccFinish \/ ComponentsBegin \/ ComponentsNode \/ ComponentsEnd
  \/ PageRankBegin \/ PageRankIterate \/ PageRankGivesUp \/ PageRankAgain

\* They touch no call of the three.
LEMMA OthersKeep == PathsInv /\ Others => PathsInv'
<1>. SUFFICES ASSUME PathsInv, Others PROVE PathsInv'
  OBVIOUS
<1>1. Given
  BY DEF PathsInv
<1>2. algo' = algo /\ graph' = graph /\ algo \in {"scc", "components", "pagerank"}
  <2>1. CASE SccBegin \/ SccVisit \/ SccAdvance \/ SccFinish
    BY <2>1 DEF SccBegin, SccVisit, SccAdvance, SccFinish, Running, Become
  <2>2. CASE ComponentsBegin \/ ComponentsNode \/ ComponentsEnd
    BY <2>2 DEF ComponentsBegin, ComponentsNode, ComponentsEnd, Running, Become
  <2>3. CASE PageRankBegin \/ PageRankIterate \/ PageRankGivesUp \/ PageRankAgain
    BY <2>3 DEF PageRankBegin, PageRankIterate, PageRankGivesUp, PageRankAgain, Running, Become
  <2>. QED  BY <2>1, <2>2, <2>3 DEF Others
<1>3. elements' \in ElementLists /\ pc' \in {"start", "run", "done", pc}
  <2>1. CASE SccBegin \/ SccVisit \/ SccAdvance \/ SccFinish
    BY <1>1, <2>1 DEF SccBegin, SccVisit, SccAdvance, SccFinish, Running, Become, Given
  <2>2. CASE ComponentsBegin \/ ComponentsNode \/ ComponentsEnd
    BY <1>1, <2>2 DEF ComponentsBegin, ComponentsNode, ComponentsEnd, Running, Become, Given
  <2>3. CASE PageRankBegin \/ PageRankIterate \/ PageRankGivesUp \/ PageRankAgain
    BY <1>1, <2>3 DEF PageRankBegin, PageRankIterate, PageRankGivesUp, PageRankAgain, Running, Become, Given
  <2>. QED  BY <2>1, <2>2, <2>3 DEF Others
<1>4. Given'
  BY <1>1, <1>2, <1>3 DEF Given
<1>5. SsspInv' /\ TopoInv'
  BY <1>2 DEF SsspInv, TopoInv
<1>. QED  BY <1>4, <1>5 DEF PathsInv

\* Hop distances.
LEMMA SsspKeeps == PathsInv /\ (SsspBegin \/ SsspPop) => PathsInv'
<1>. SUFFICES ASSUME PathsInv, SsspBegin \/ SsspPop PROVE PathsInv'
  OBVIOUS
<1>1. Given /\ SsspInv
  BY DEF PathsInv
<1>2. algo' = algo /\ graph' = graph /\ elements' = elements /\ algo = "sssp" /\ pc' \in {"run", "done"}
  BY DEF SsspBegin, SsspPop, Running, Become
<1>3. graph.rows \in [Nodes -> Seq(Nodes)]
  BY <1>1, <1>2, GivenIs DEF Searches
<1>4. Member' = Member /\ Edges' = Edges
  BY <1>2, CallStays
<1>5. Given' /\ TopoInv'
  BY <1>1, <1>2 DEF Given, TopoInv
<1>7. CASE SsspBegin
  <2>0. PICK src \in 0 .. Bound :
          IF src \in Member
          THEN pc' = "run" /\ Become([source |-> src, visited |-> {src}, queue |-> <<<<src, 0>>>>, distances |-> <<>>])
          ELSE pc' = "done" /\ Become([source |-> src, visited |-> {}, queue |-> <<>>, distances |-> <<>>])
    BY <1>7 DEF SsspBegin
  <2>1. CASE src \in Member
    <3>1. pc' = "run" /\ st' = [source |-> src, visited |-> {src}, queue |-> <<<<src, 0>>>>, distances |-> <<>>]
      BY <2>0, <2>1 DEF Become
    <3>a. st'.source = src
      BY <3>1
    <3>2. src \in Nodes
      BY <2>1 DEF Member
    <3>3. SsspGoing(st', Member, Edges, src)
      BY <2>1, <3>1, <3>2, SsspStarts
    <3>. QED  BY <1>2, <1>4, <1>5, <2>1, <3>1, <3>a, <3>3 DEF PathsInv, SsspInv
  <2>2. CASE src \notin Member
    <3>1. pc' = "done" /\ st' = [source |-> src, visited |-> {}, queue |-> <<>>, distances |-> <<>>]
      BY <2>0, <2>2 DEF Become
    <3>2. st'.distances = <<>> /\ st'.source = src
      BY <3>1
    <3>. QED  BY <1>2, <1>4, <1>5, <2>2, <3>1, <3>2 DEF PathsInv, SsspInv
  <2>. QED  BY <2>1, <2>2
<1>8. CASE SsspPop
  <2>0. PICK src : src = st.source
    OBVIOUS
  <2>1. pc = "run"
    BY <1>8 DEF SsspPop, Running
  <2>2. src \in Member /\ SsspGoing(st, Member, Edges, src)
    BY <1>1, <1>2, <2>0, <2>1 DEF SsspInv
  <2>3. CASE st.queue = <<>>
    <3>1. pc' = "done" /\ st' = st
      BY <1>8, <2>3 DEF SsspPop, Become
    <3>. QED  BY <1>2, <1>4, <1>5, <2>0, <2>2, <2>3, <3>1 DEF PathsInv, SsspInv
  <2>4. CASE st.queue # <<>>
    <3>1. PICK n, d : n = st.queue[1][1] /\ d = st.queue[1][2]
      OBVIOUS
    <3>2. PICK c : c = [st EXCEPT !.queue = Tail(@), !.distances = Append(@, <<n, d>>)]
      OBVIOUS
    <3>3. pc' = "run" /\ st' = VisitAll(c, d + 1, graph.rows[n])
      BY <1>8, <2>1, <2>4, <3>1, <3>2 DEF SsspPop, Become
    <3>4. SsspGoing(st', Member, Edges, src)
      BY <1>3, <2>2, <2>4, <3>1, <3>2, <3>3, SsspPopGoes
    <3>5. st'.source = src
      BY <3>4 DEF SsspGoing, Searching
    <3>. QED  BY <1>2, <1>4, <1>5, <2>2, <3>3, <3>4, <3>5 DEF PathsInv, SsspInv
  <2>. QED  BY <2>3, <2>4
<1>. QED  BY <1>7, <1>8

\* Topological sort.
LEMMA ToposortKeeps == PathsInv /\ (ToposortBegin \/ ToposortPop \/ ToposortEnd) => PathsInv'
<1>. SUFFICES ASSUME PathsInv, ToposortBegin \/ ToposortPop \/ ToposortEnd PROVE PathsInv'
  OBVIOUS
<1>1. Given /\ TopoInv
  BY DEF PathsInv
<1>2. algo' = algo /\ graph' = graph /\ elements' = elements /\ algo \in {"toposort", "longest"}
  BY DEF ToposortBegin, ToposortPop, ToposortEnd, Become
<1>3. graph.rows \in [Nodes -> Seq(Nodes)] /\ elements \in Seq(Nat)
  BY <1>1, <1>2, GivenIs DEF Searches
<1>4. Member' = Member /\ Edges' = Edges /\ Entries' = Entries
  BY <1>2, CallStays
<1>5. SsspInv'
  BY <1>2 DEF SsspInv
<1>6. CASE ToposortBegin
  <2>1. pc' = "run"
    BY <1>6 DEF ToposortBegin
  <2>2. SortGoing(st', Member, Entries, graph.rows)
    BY <1>3, <1>6, SortStarts DEF ToposortBegin, Become
  <2>3. Given' /\ TopoInv'
    BY <1>1, <1>2, <1>4, <2>1, <2>2 DEF Given, TopoInv
  <2>. QED  BY <1>5, <2>3 DEF PathsInv
<1>7. CASE ToposortPop
  <2>1. pc' = "run" /\ pc = "run" /\ st.queue # <<>>
    BY <1>7 DEF ToposortPop
  <2>2. SortGoing(st, Member, Entries, graph.rows)
    BY <1>1, <1>2, <2>1 DEF TopoInv
  <2>3. PICK n, c : n = st.queue[1] /\ c = [st EXCEPT !.queue = Tail(@), !.order = Append(@, n)]
    OBVIOUS
  <2>4. st' = ReleaseAll(c, graph.rows[n])
    BY <1>7, <2>3 DEF ToposortPop, Become
  <2>5. SortGoing(st', Member, Entries, graph.rows)
    BY <1>3, <2>1, <2>2, <2>3, <2>4, SortPopGoes
  <2>6. Given' /\ TopoInv'
    BY <1>1, <1>2, <1>4, <2>1, <2>5 DEF Given, TopoInv
  <2>. QED  BY <1>5, <2>6 DEF PathsInv
<1>8. CASE ToposortEnd
  <2>1. pc = "run" /\ st.queue = <<>> /\ pc' \in {"path", "done"} /\ (pc' = "path" => algo = "longest")
    BY <1>2, <1>8 DEF ToposortEnd
  <2>2. SortGoing(st, Member, Entries, graph.rows)
    BY <1>1, <1>2, <2>1 DEF TopoInv
  <2>3. Unstarted(st) /\ st \in TopoStates
    BY <2>2 DEF SortGoing, Sorting
  <2>4. IF Len(st.order) = Len(DedupNodes) THEN ~Cyclic /\ Sorted(st.order, Member, Edges) ELSE Cyclic
    BY <1>3, <2>1, <2>2, SortEnds
  <2>5. Given'
    BY <1>1, <1>2, <2>1 DEF Given
  <2>6. CASE Len(st.order) = Len(DedupNodes)
    <3>1. st' = [st EXCEPT !.err = "Ok"]
      BY <1>8, <2>6 DEF ToposortEnd, Become
    <3>2. st' = st /\ st.err = "Ok" /\ st.path = <<>>
      BY <2>3, <3>1 DEF Unstarted, TopoStates
    <3>3. Sorted(st.order, Member, Edges) /\ SortDone(st, Member, Edges)
      BY <2>4, <2>6, <3>2, CyclicIs DEF SortDone
    <3>4. ASSUME algo = "longest" PROVE IF st.order # <<>> THEN pc' = "path" /\ LongestGoing(st, Member, Edges)
                                         ELSE pc' = "done" /\ WalkDone(st, Member, Edges)
      <4>1. CASE st.order # <<>>
        <5>1. pc' = "path"
          BY <1>8, <2>6, <3>4, <4>1 DEF ToposortEnd
        <5>2. Measuring(st, 0, Member, Edges)
          BY <2>3, <3>3, MeasureStarts
        <5>3. LongestGoing(st, Member, Edges)
          BY <4>1, <5>2, WalkStarts
        <5>. QED  BY <4>1, <5>1, <5>3
      <4>2. CASE st.order = <<>>
        <5>1. pc' = "done"
          BY <1>8, <4>2 DEF ToposortEnd
        <5>2. WalkDone(st, Member, Edges)
          BY <3>2, <4>2 DEF WalkDone
        <5>. QED  BY <4>2, <5>1, <5>2
      <4>. QED  BY <4>1, <4>2
    <3>5. TopoInv'
      BY <1>2, <1>4, <2>1, <3>2, <3>3, <3>4 DEF TopoInv
    <3>. QED  BY <1>5, <2>5, <3>5 DEF PathsInv
  <2>7. CASE Len(st.order) # Len(DedupNodes)
    <3>1. pc' = "done" /\ st' = [st EXCEPT !.err = "Cycle"]
      BY <1>8, <2>7 DEF ToposortEnd, Become
    <3>2. st'.err = "Cycle"
      BY <2>3, <3>1 DEF TopoStates
    <3>3. SortDone(st', Member, Edges)
      BY <2>4, <2>7, <3>2, CyclicIs DEF SortDone
    <3>4. TopoInv'
      BY <1>2, <1>4, <3>1, <3>2, <3>3 DEF TopoInv
    <3>. QED  BY <1>5, <2>5, <3>4 DEF PathsInv
  <2>. QED  BY <2>6, <2>7
<1>. QED  BY <1>6, <1>7, <1>8

\* The longest path.
LEMMA LongestKeeps == PathsInv /\ (LongestNode \/ LongestPath) => PathsInv'
<1>. SUFFICES ASSUME PathsInv, LongestNode \/ LongestPath PROVE PathsInv'
  OBVIOUS
<1>1. Given /\ TopoInv
  BY DEF PathsInv
<1>2. pc = "path" /\ algo' = algo /\ graph' = graph /\ elements' = elements
  BY DEF LongestNode, LongestPath, Become
<1>3. algo = "longest"
  BY <1>1, <1>2 DEF Given
<1>4. graph.rows \in [Nodes -> Seq(Nodes)] /\ elements \in Seq(Nat)
  BY <1>1, <1>3, GivenIs DEF Searches
<1>5. Member' = Member /\ Edges' = Edges
  BY <1>2, CallStays
<1>6. SsspInv'
  BY <1>2, <1>3 DEF SsspInv
<1>7. st.err = "Ok" /\ LongestGoing(st, Member, Edges) /\ SortDone(st, Member, Edges)
  BY <1>1, <1>2, <1>3 DEF TopoInv
<1>8. Given'
  BY <1>1, <1>2, <1>3 DEF Given
<1>9. ASSUME st'.order = st.order, st'.err = st.err PROVE SortDone(st', Member, Edges)
  BY <1>7, <1>9 DEF SortDone
<1>10. CASE LongestNode
  <2>1. st.at <= Len(st.order) /\ pc' = "path"
    BY <1>2, <1>10 DEF LongestNode
  <2>2. PICK n : n = st.order[st.at]
    OBVIOUS
  <2>3. st' = RelaxAll(Taken(st, n), n, st.lengths[n] + 1, graph.rows[n])
    BY <1>10, <2>2 DEF LongestNode, Become, Taken
  <2>4. PICK a : Measuring(st, a, Member, Edges)
    BY <1>7, <2>1 DEF LongestGoing
  <2>5. Measuring(st', a + 1, Member, Edges) /\ st'.err = st.err /\ st'.order = st.order
    BY <1>4, <2>1, <2>2, <2>3, <2>4, MeasureGoes
  <2>6. st.order # <<>>
    BY <1>7 DEF LongestGoing
  <2>7. LongestGoing(st', Member, Edges)
    BY <2>5, <2>6, WalkStarts
  <2>8. TopoInv'
    BY <1>2, <1>3, <1>5, <1>7, <1>9, <2>1, <2>5, <2>7 DEF TopoInv
  <2>. QED  BY <1>6, <1>8, <2>8 DEF PathsInv
<1>11. CASE LongestPath
  <2>1. ~(st.at <= Len(st.order))
    <3>1. st.at > Len(st.order) /\ st.at \in Nat /\ Len(st.order) \in Nat
      <4>1. st.at > Len(st.order) /\ st.at \in Nat
        BY <1>7, <1>11 DEF LongestPath, LongestGoing
      <4>2. Sorted(st.order, Member, Edges)
        BY <1>7 DEF SortDone
      <4>. QED  BY <4>1, <4>2, SortedIs
    <3>. QED  BY <3>1
  <2>2. Measured(st, Member, Edges) /\ Walk(st, Member, Edges) /\ st.order # <<>> /\ st.at \in Nat
    BY <1>7, <2>1 DEF LongestGoing
  <2>3. CASE st.cursor = NoNode
    <3>1. pc' = "done" /\ st' = st
      BY <1>11, <2>3 DEF LongestPath, Become
    <3>2. WalkDone(st, Member, Edges)
      BY <2>2, <2>3 DEF WalkDone
    <3>3. TopoInv'
      BY <1>2, <1>3, <1>5, <1>7, <3>1, <3>2 DEF TopoInv
    <3>. QED  BY <1>6, <1>8, <3>3 DEF PathsInv
  <2>4. CASE st.cursor # NoNode
    <3>1. pc' = "path" /\ st' = [st EXCEPT !.path = <<st.cursor>> \o @, !.cursor = st.predecessor[st.cursor]]
      BY <1>2, <1>11, <2>4 DEF LongestPath, Become
    <3>2. /\ Measured(st', Member, Edges) /\ Walk(st', Member, Edges)
          /\ st'.order = st.order /\ st'.at = st.at /\ st'.err = st.err
      BY <2>2, <2>4, <3>1, WalkGoes
    <3>3. LongestGoing(st', Member, Edges)
      BY <2>1, <2>2, <3>2 DEF LongestGoing
    <3>4. TopoInv'
      BY <1>2, <1>3, <1>5, <1>7, <1>9, <3>1, <3>2, <3>3 DEF TopoInv
    <3>. QED  BY <1>6, <1>8, <3>4 DEF PathsInv
  <2>. QED  BY <2>3, <2>4
<1>. QED  BY <1>10, <1>11

\* The invariant implies what the calls return.
LEMMA PathsImply == PathsInv => PathsCorrect
<1>. SUFFICES ASSUME PathsInv PROVE PathsCorrect
  OBVIOUS
<1>1. Given /\ SsspInv /\ TopoInv
  BY DEF PathsInv
<1>2. ToposortCorrect
  <2>1. ASSUME pc \in {"path", "done"}, algo \in {"toposort", "longest"} PROVE SortDone(st, Member, Edges)
    BY <1>1, <2>1 DEF TopoInv
  <2>. QED  BY <2>1, CyclicIs DEF ToposortCorrect, SortDone, Sorted
<1>3. LongestCorrect
  <2>. SUFFICES ASSUME Done("longest"), st.err = "Ok"
                PROVE  /\ Range(st.path) \subseteq Member
                       /\ \A i \in 2 .. Len(st.path) : <<st.path[i - 1], st.path[i]>> \in Edges
                       /\ Len(st.path) = ChainLength
    BY DEF LongestCorrect
  <2>1. algo = "longest" /\ pc = "done"
    BY DEF Done
  <2>2. graph.rows \in [Nodes -> Seq(Nodes)]
    BY <1>1, <2>1, GivenIs DEF Searches
  <2>3. WalkDone(st, Member, Edges) /\ SortDone(st, Member, Edges)
    BY <1>1, <2>1 DEF TopoInv
  <2>4. CASE st.order = <<>>
    <3>1. st.path = <<>>
      BY <2>3, <2>4 DEF WalkDone
    <3>2. Member = {}
      BY <2>3, <2>4 DEF SortDone, Sorted, Range
    <3>3. ChainLength = 0
      BY <2>2, <3>2, NoChain
    <3>4. Len(st.path) = 0 /\ DOMAIN st.path = {} /\ \A i \in 2 .. 0 : FALSE
      BY <3>1
    <3>5. Range(st.path) = {}
      BY <3>4 DEF Range
    <3>. QED  BY <3>3, <3>4, <3>5
  <2>5. CASE st.order # <<>>
    <3>1. Measured(st, Member, Edges) /\ Walk(st, Member, Edges) /\ st.cursor = NoNode
      BY <2>3, <2>5 DEF WalkDone
    <3>. QED  BY <2>2, <3>1, WalkEnds
  <2>. QED  BY <2>4, <2>5
<1>4. SsspCorrect
  <2>. SUFFICES ASSUME Done("sssp") PROVE SsspCorrect
    BY DEF SsspCorrect
  <2>1. algo = "sssp" /\ pc = "done"
    BY DEF Done
  <2>2. graph.rows \in [Nodes -> Seq(Nodes)]
    BY <1>1, <2>1, GivenIs DEF Searches
  <2>3. PICK src : src = st.source
    OBVIOUS
  <2>4. CASE src \in Member
    <3>1. SsspGoing(st, Member, Edges, src) /\ st.queue = <<>> /\ src \in Nodes
      BY <1>1, <2>1, <2>3, <2>4 DEF SsspInv, Member
    <3>. DEFINE reached == {src} \cup {n \in Member : <<src, n>> \in Reach}
                At(n) == {st.distances[i][2] : i \in {j \in DOMAIN st.distances : st.distances[j][1] = n}}
    <3>2. /\ {st.distances[i][1] : i \in DOMAIN st.distances} = reached
          /\ Len(st.distances) = Cardinality(reached)
          /\ At(src) = {0}
          /\ \A n \in reached \ {src} :
               At(n) = {1 + Min(UNION {At(m) : m \in {m \in reached : <<m, n>> \in Edges}})}
          /\ \A i \in 2 .. Len(st.distances) : st.distances[i - 1][2] <= st.distances[i][2]
      BY <2>2, <2>4, <3>1, SsspReports
    <3>. QED  BY <2>3, <2>4, <3>2 DEF SsspCorrect
  <2>5. CASE src \notin Member
    <3>1. st.distances = <<>>
      BY <1>1, <2>1, <2>3, <2>5 DEF SsspInv
    <3>2. Len(st.distances) = 0 /\ DOMAIN st.distances = {} /\ \A i \in 2 .. 0 : FALSE
      BY <3>1
    <3>3. Cardinality({}) = 0
      BY FS_EmptySet
    <3>. QED  BY <2>3, <2>5, <3>2, <3>3 DEF SsspCorrect
  <2>. QED  BY <2>4, <2>5
<1>. QED  BY <1>2, <1>3, <1>4 DEF PathsCorrect

\* Orders, distances and longest paths are those that the edges between the elements define.
THEOREM PathsFollowEdges == Spec => []PathsCorrect
<1>1. PathsInv /\ [Next]_vars => PathsInv'
  <2>. SUFFICES ASSUME PathsInv, [Next]_vars PROVE PathsInv'
    OBVIOUS
  <2>1. CASE Others
    BY <2>1, OthersKeep
  <2>2. CASE SsspBegin \/ SsspPop
    BY <2>2, SsspKeeps
  <2>3. CASE ToposortBegin \/ ToposortPop \/ ToposortEnd
    BY <2>3, ToposortKeeps
  <2>4. CASE LongestNode \/ LongestPath
    BY <2>4, LongestKeeps
  <2>5. CASE UNCHANGED vars
    <3>1. Member' = Member /\ Edges' = Edges /\ Entries' = Entries
      BY <2>5, CallStays DEF vars
    <3>. QED  BY <2>5, <3>1 DEF vars, PathsInv, Given, SsspInv, TopoInv
  <2>. QED  BY <2>1, <2>2, <2>3, <2>4, <2>5 DEF Next, Others
<1>. QED  BY <1>1, PathsInit, PathsImply, PTL DEF Spec
=============================================================================
