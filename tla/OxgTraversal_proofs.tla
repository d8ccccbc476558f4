------------------------- MODULE OxgTraversal_proofs -------------------------
(***************************************************************************)
(* Proofs about the queries of OxgExtension: what a session answers to a   *)
(* search, a neighborhood or a traversal is what its artifact and its      *)
(* overlay hold, for any sessions, tables, seeds, depths and limits.       *)
(*                                                                         *)
(* The argument for a traversal: the queue holds no node twice, every node *)
(* in it at its exact distance from the seeds, nearer ones first; every    *)
(* node nearer than the position being visited is in it; and a traversal   *)
(* stops early only when the queue is full.                                *)
(***************************************************************************)
EXTENDS OxgExtension_proofs

-----------------------------------------------------------------------------
(* The views of a session *)

\* The elements of a row are finitely many.
LEMMA ElemsFinite ==
  ASSUME NEW A, NEW row \in Seq(A)
  PROVE  IsFiniteSet(Elems(row)) /\ Elems(row) \subseteq A
<1>1. PICK n \in Nat : n = Len(row) /\ DOMAIN row = 1 .. n
  OBVIOUS
<1>2. IsFiniteSet(1 .. n)
  BY FS_Interval
<1>3. PICK E : E = Elems(row) /\ E = {row[i] : i \in 1 .. n}
  BY <1>1 DEF Elems
<1>4. row \in Surjection(1 .. n, E)
  <2>1. row \in [1 .. n -> E]
    BY <1>1, <1>3
  <2>2. \A x \in E : \E i \in 1 .. n : row[i] = x
    BY <1>3
  <2>. QED  BY <2>1, <2>2 DEF Surjection
<1>5. IsFiniteSet(E)
  BY <1>2, <1>4, FS_Surjection
<1>6. \A i \in 1 .. n : row[i] \in A
  BY <1>1
<1>. QED  BY <1>3, <1>5, <1>6

\* Sorting and removing duplicates leaves the same elements.
LEMMA UniqueHas ==
  ASSUME NEW A, A \subseteq Int, NEW row \in Seq(A)
  PROVE  /\ build_unique_row(row) \in Seq(A)
         /\ \A x : InSeq(x, build_unique_row(row)) <=> InSeq(x, row)
<1>1. PICK E : E = Elems(row) /\ IsFiniteSet(E) /\ E \subseteq A /\ E \subseteq Int
  BY ElemsFinite
<1>2. PICK n, d : n = Cardinality(E) /\ d = dense_node_map_from_keys(E)
  OBVIOUS
<1>3. n \in Nat /\ d \in [E -> 0 .. n - 1]
  BY <1>1, <1>2, DenseIs
<1>4. \A x, y \in E : d[x] = d[y] => x = y
  BY <1>1, <1>2, DenseInjective
<1>5. \A i \in 0 .. n - 1 : \E x \in E : d[x] = i
  <2>1. d \in Injection(E, 0 .. n - 1)
    BY <1>3, <1>4 DEF Injection, IsInjective
  <2>2. IsFiniteSet(0 .. n - 1) /\ Cardinality(0 .. n - 1) = n
    <3>1. PICK a, c \in Int : a = 0 /\ c = n - 1
      BY <1>3
    <3>2. IsFiniteSet(a .. c) /\ Cardinality(a .. c) = IF a > c THEN 0 ELSE c - a + 1
      BY FS_Interval
    <3>3. (IF a > c THEN 0 ELSE c - a + 1) = n
      BY <1>3, <3>1
    <3>. QED  BY <3>1, <3>2, <3>3
  <2>3. d \in Surjection(E, 0 .. n - 1)
    BY <1>2, <2>1, <2>2, FS_Injection
  <2>. QED  BY <2>3 DEF Surjection
<1>6. \A x \in E : Cardinality({y \in E : y < x}) = d[x]
  BY <1>2 DEF dense_node_map_from_keys
<1>7. PICK r : r = [i \in 1 .. n |-> CHOOSE x \in E : Cardinality({y \in E : y < x}) = i - 1]
  OBVIOUS
<1>8. build_unique_row(row) = r
  BY <1>1, <1>2, <1>7 DEF build_unique_row, Elems
<1>9. ASSUME NEW i \in 1 .. n PROVE r[i] \in E /\ d[r[i]] = i - 1
  <2>1. i - 1 \in 0 .. n - 1
    BY <1>3
  <2>2. PICK x \in E : d[x] = i - 1
    BY <1>5, <2>1
  <2>3. \E y \in E : Cardinality({z \in E : z < y}) = i - 1
    BY <1>6, <2>2
  <2>4. r[i] \in E /\ Cardinality({y \in E : y < r[i]}) = i - 1
    BY <1>7, <2>3
  <2>. QED  BY <1>6, <2>4
<1>10. r \in Seq(A) /\ DOMAIN r = 1 .. n
  <2>1. r \in [1 .. n -> A]
    BY <1>1, <1>7, <1>9
  <2>2. r \in Seq(A) /\ Len(r) = n
    BY ONLY <1>3, <2>1
  <2>. QED  BY <2>1, <2>2
<1>11. ASSUME NEW x PROVE InSeq(x, r) <=> x \in E
  <2>1. ASSUME x \in E PROVE InSeq(x, r)
    <3>1. d[x] \in 0 .. n - 1
      BY <1>3, <2>1
    <3>2. PICK i \in 1 .. n : i - 1 = d[x]
      <4>1. d[x] + 1 \in 1 .. n /\ (d[x] + 1) - 1 = d[x]
        BY <1>3, <3>1
      <4>. QED  BY <4>1
    <3>3. r[i] = x
      BY <1>4, <1>9, <2>1, <3>2
    <3>. QED  BY <1>10, <3>3 DEF InSeq
  <2>2. ASSUME InSeq(x, r) PROVE x \in E
    BY <1>9, <1>10, <2>2 DEF InSeq
  <2>. QED  BY <2>1, <2>2
<1>12. \A x : InSeq(x, row) <=> x \in E
  BY <1>1 DEF InSeq, Elems
<1>. QED  BY <1>8, <1>10, <1>11, <1>12

\* An edge of the artifact from u to v whose position is not tombstoned.
BaseEdge(e, u, v) ==
  \E x \in e.art.forward.offsets[u + 1] .. e.art.forward.offsets[u + 2] - 1 :
    e.art.forward.targets[x + 1] = v /\ edge_visible(e.overlay, x)

\* A position of u's row with target v, tombstoned or not.
Reaches(section, u, v) == \E x \in section.offsets[u + 1] .. section.offsets[u + 2] - 1 : section.targets[x + 1] = v

\* The edges the artifact of an engine holds.
LEMMA EngineHolds ==
  ASSUME NEW art, ArtOK(art)
  PROVE  \E n, m \in Nat : \E src, tgt : Holds(art, n, m, src, tgt) /\ n <= NodeMax
<1>1. PICK n \in Nat : \E src, tgt \in Seq(0 .. n - 1) :
        /\ Len(tgt) = Len(src) /\ IsFiniteSet(art.keys) /\ Cardinality(art.keys) = n /\ n <= NodeMax
        /\ Artful(art, n, src, tgt, art.keys)
  BY DEF ArtOK
<1>2. PICK src, tgt \in Seq(0 .. n - 1) : Len(tgt) = Len(src) /\ n <= NodeMax /\ Artful(art, n, src, tgt, art.keys)
  BY <1>1
<1>3. PICK m \in Nat : m = Len(src) /\ Len(tgt) = m
  BY <1>2
<1>4. Holds(art, n, m, src, tgt)
  BY <1>2, <1>3, ArtfulHolds
<1>. QED  BY <1>2, <1>4

\* The forward edges of u are the positions of its row.
LEMMA ForwardHas ==
  ASSUME NEW n \in Nat, NEW m \in Nat, NEW src, NEW tgt, NEW art, Holds(art, n, m, src, tgt), NEW u \in 0 .. n - 1
  PROVE  /\ ForwardEdges(art, u) \in Seq(Nat)
         /\ \A x : InSeq(x, ForwardEdges(art, u)) <=> x \in art.forward.offsets[u + 1] .. art.forward.offsets[u + 2] - 1
         /\ art.forward.offsets[u + 1] \in 0 .. m /\ art.forward.offsets[u + 2] \in 0 .. m
         /\ SectionRow(art.forward, u) \in Seq(0 .. n - 1)
         /\ \A v : InSeq(v, SectionRow(art.forward, u)) <=> Reaches(art.forward, u, v)
<1>1. PICK o, t : o = art.forward.offsets /\ t = art.forward.targets /\ Shaped(n, m, o, t)
  BY DEF Holds
<1>2. /\ o[u + 1] \in 0 .. m /\ o[u + 2] \in 0 .. m /\ o[u + 1] <= o[u + 2]
      /\ Row(o, t, u) \in Seq(0 .. n - 1) /\ Len(Row(o, t, u)) = o[u + 2] - o[u + 1]
      /\ Copies(Row(o, t, u), t, o[u + 1], o[u + 2] - o[u + 1], m)
  <2>1. n \in Nat /\ m \in Nat /\ u \in 0 .. n - 1 /\ Shaped(n, m, o, t)
    BY <1>1
  <2>. QED  BY ONLY <2>1, RowIs
<1>3. PICK a, c \in 0 .. m : a = o[u + 1] /\ c = o[u + 2] /\ a <= c
  BY <1>2
<1>4. PICK d \in Nat : d = c - a
  BY <1>3
<1>5. PICK row : row = SectionRow(art.forward, u) /\ row = Row(o, t, u)
  BY <1>1 DEF SectionRow
<1>6. row \in Seq(0 .. n - 1) /\ Len(row) = d /\ DOMAIN row = 1 .. d /\ Copies(row, t, a, d, m)
  BY <1>2, <1>3, <1>4, <1>5
<1>7. PICK f : f = [i \in 1 .. d |-> a + i - 1] /\ f = ForwardEdges(art, u)
  BY <1>1, <1>3, <1>5, <1>6 DEF ForwardEdges
<1>8. f \in Seq(Nat) /\ DOMAIN f = 1 .. d
  <2>1. \A i \in 1 .. d : a + i - 1 \in Nat
    OBVIOUS
  <2>2. f \in [1 .. d -> Nat]
    BY <1>7, <2>1
  <2>3. f \in Seq(Nat)
    BY ONLY d \in Nat, <2>2
  <2>. QED  BY <2>2, <2>3
<1>9. ASSUME NEW x PROVE InSeq(x, f) <=> x \in a .. c - 1
  <2>1. ASSUME x \in a .. c - 1 PROVE InSeq(x, f)
    <3>1. x - a + 1 \in 1 .. d /\ a + (x - a + 1) - 1 = x
      BY <1>4, <2>1
    <3>2. f[x - a + 1] = x
      BY <1>7, <3>1
    <3>. QED  BY <1>8, <3>1, <3>2 DEF InSeq
  <2>2. ASSUME InSeq(x, f) PROVE x \in a .. c - 1
    <3>1. PICK i \in 1 .. d : f[i] = x
      BY <1>8, <2>2 DEF InSeq
    <3>2. x = a + i - 1
      BY <1>7, <3>1
    <3>. QED  BY <1>4, <3>2
  <2>. QED  BY <2>1, <2>2
<1>10. ASSUME NEW v PROVE InSeq(v, row) <=> \E x \in a .. c - 1 : t[x + 1] = v
  <2>1. ASSUME InSeq(v, row) PROVE \E x \in a .. c - 1 : t[x + 1] = v
    <3>1. PICK j \in 1 .. d : row[j] = v
      BY <1>6, <2>1 DEF InSeq
    <3>2. t[a + j] = v
      BY <1>6, <3>1 DEF Copies
    <3>3. a + j - 1 \in a .. c - 1 /\ (a + j - 1) + 1 = a + j
      BY <1>4
    <3>. QED  BY <3>2, <3>3
  <2>2. ASSUME NEW x \in a .. c - 1, t[x + 1] = v PROVE InSeq(v, row)
    <3>1. x + 1 - a \in 1 .. d /\ a + (x + 1 - a) = x + 1
      BY <1>4
    <3>2. row[x + 1 - a] = v
      BY <1>6, <2>2, <3>1 DEF Copies
    <3>. QED  BY <1>6, <3>1, <3>2 DEF InSeq
  <2>. QED  BY <2>1, <2>2
<1>. QED  BY <1>1, <1>3, <1>5, <1>6, <1>7, <1>8, <1>9, <1>10 DEF Reaches

-----------------------------------------------------------------------------
(* The rows a query reads *)

\* What a query runs over: when it uses the unique rows, they are those of the artifact and no edge
\* is tombstoned.
Prepared(e, flags) ==
  flags.use_unique => e.unique = from_topology(e.art) /\ ~has_edge_tombstones(e.overlay)

\* The base row of successors, from the unique rows or from the section.
LEMMA OutBaseHas ==
  ASSUME NEW n \in Nat, NEW m \in Nat, NEW src, NEW tgt, NEW e, Holds(e.art, n, m, src, tgt), NEW flags,
         Prepared(e, flags), NEW u \in 0 .. n - 1, NEW v
  PROVE  /\ OutBase(e, flags, u) \in Seq(0 .. n - 1)
         /\ InSeq(v, OutBase(e, flags, u)) <=> BaseEdge(e, u, v)
<1>1. PICK a, c, t : a = e.art.forward.offsets[u + 1] /\ c = e.art.forward.offsets[u + 2] /\ t = e.art.forward.targets
  OBVIOUS
<1>2. PICK f : f = ForwardEdges(e.art, u) /\ f \in Seq(Nat) /\ \A x : InSeq(x, f) <=> x \in a .. c - 1
  BY <1>1, ForwardHas
<1>3. a \in 0 .. m /\ c \in 0 .. m
  BY <1>1, ForwardHas
<1>4. PICK row : /\ row = SectionRow(e.art.forward, u) /\ row \in Seq(0 .. n - 1)
                 /\ InSeq(v, row) <=> \E x \in a .. c - 1 : t[x + 1] = v
  <2>1. /\ SectionRow(e.art.forward, u) \in Seq(0 .. n - 1)
        /\ InSeq(v, SectionRow(e.art.forward, u)) <=> Reaches(e.art.forward, u, v)
    BY ForwardHas
  <2>. QED  BY <1>1, <2>1 DEF Reaches
<1>5. BaseEdge(e, u, v) <=> \E x \in a .. c - 1 : t[x + 1] = v /\ edge_visible(e.overlay, x)
  BY <1>1 DEF BaseEdge
<1>6. CASE flags.use_unique
  <2>1. e.unique = from_topology(e.art) /\ e.overlay.tombstoned_edges = {}
    BY <1>6 DEF Prepared, has_edge_tombstones
  <2>2. PICK r : r = build_unique_row(row) /\ r \in Seq(0 .. n - 1) /\ (InSeq(v, r) <=> InSeq(v, row))
    <3>1. PICK A : A = 0 .. n - 1 /\ A \subseteq Int /\ row \in Seq(A)
      BY <1>4
    <3>. QED  BY <3>1, UniqueHas
  <2>3. OutBase(e, flags, u) = r
    <3>1. NodesOf(e.art.forward) = n
      BY DEF Holds, Shaped, NodesOf
    <3>2. u + 1 \in 1 .. n /\ u + 1 - 1 = u
      OBVIOUS
    <3>3. PICK g : g = [i \in 1 .. n |-> build_unique_row(SectionRow(e.art.forward, i - 1))] /\ g = e.unique.outgoing
      BY <2>1, <3>1 DEF from_topology
    <3>4. g[u + 1] = r
      BY <1>4, <2>2, <3>2, <3>3
    <3>5. UniqueRow(e.unique.outgoing, u) = r
      BY <3>2, <3>3, <3>4 DEF UniqueRow
    <3>. QED  BY <1>6, <3>5 DEF OutBase
  <2>4. BaseEdge(e, u, v) <=> InSeq(v, row)
    BY <1>4, <1>5, <2>1 DEF edge_visible
  <2>. QED  BY <2>2, <2>3, <2>4
<1>7. CASE ~flags.use_unique
  <2>1. PICK K : K = {x \in Elems(f) : edge_visible(e.overlay, x)}
    OBVIOUS
  <2>2. PICK seen \in Seq(Nat) : seen = Kept(K, f) /\ \A x : InSeq(x, seen) <=> InSeq(x, f) /\ x \in K
    BY <1>2, KeptIs
  <2>3. PICK k \in Nat : k = Len(seen) /\ DOMAIN seen = 1 .. k
    OBVIOUS
  <2>4. \A x : InSeq(x, seen) <=> x \in a .. c - 1 /\ edge_visible(e.overlay, x)
    <3>1. \A x : InSeq(x, f) => (x \in K <=> edge_visible(e.overlay, x))
      BY <2>1 DEF InSeq, Elems
    <3>. QED  BY <1>2, <2>2, <3>1
  <2>5. PICK g : g = [i \in 1 .. k |-> t[seen[i] + 1]] /\ g = OutBase(e, flags, u)
    <3>1. OutBase(e, flags, u) = [i \in 1 .. k |-> EdgeTarget(e.art, seen[i])]
      BY <1>2, <1>7, <2>1, <2>2, <2>3 DEF OutBase
    <3>. QED  BY <1>1, <3>1 DEF EdgeTarget
  <2>6. ASSUME NEW i \in 1 .. k PROVE seen[i] \in a .. c - 1 /\ edge_visible(e.overlay, seen[i])
    <3>1. InSeq(seen[i], seen)
      BY <2>3 DEF InSeq
    <3>. QED  BY <2>4, <3>1
  <2>7. g \in Seq(0 .. n - 1) /\ DOMAIN g = 1 .. k
    <3>1. PICK S : S = 0 .. n - 1 /\ t \in Seq(S) /\ Len(t) = m
      BY <1>1 DEF Holds, Shaped
    <3>2. ASSUME NEW i \in 1 .. k PROVE t[seen[i] + 1] \in S
      <4>1. PICK z : z = seen[i] + 1 /\ z \in 1 .. Len(t)
        BY <1>3, <2>6, <3>1
      <4>2. t \in Seq(S) /\ z \in 1 .. Len(t)
        BY <3>1, <4>1
      <4>3. t[z] \in S
        BY ONLY <4>2
      <4>. QED  BY <4>1, <4>3
    <3>3. g \in [1 .. k -> S]
      BY <2>5, <3>2
    <3>4. g \in Seq(S)
      BY ONLY k \in Nat, <3>3
    <3>. QED  BY <3>1, <3>3, <3>4
  <2>8. ASSUME InSeq(v, g) PROVE BaseEdge(e, u, v)
    <3>1. PICK i \in 1 .. k : t[seen[i] + 1] = v
      BY <2>5, <2>7, <2>8 DEF InSeq
    <3>. QED  BY <1>5, <2>6, <3>1
  <2>9. ASSUME BaseEdge(e, u, v) PROVE InSeq(v, g)
    <3>1. PICK x \in a .. c - 1 : t[x + 1] = v /\ edge_visible(e.overlay, x)
      BY <1>5, <2>9
    <3>2. PICK i \in 1 .. k : seen[i] = x
      BY <2>3, <2>4, <3>1 DEF InSeq
    <3>3. g[i] = v
      BY <2>5, <3>1, <3>2
    <3>. QED  BY <2>7, <3>3 DEF InSeq
  <2>. QED  BY <2>5, <2>7, <2>8, <2>9
<1>. QED  BY <1>6, <1>7

\* has_visible_forward_edge looks for an edge that is not tombstoned.
LEMMA ForwardSeen ==
  ASSUME NEW n \in Nat, NEW m \in Nat, NEW src, NEW tgt, NEW e, Holds(e.art, n, m, src, tgt), NEW u \in 0 .. n - 1, NEW v
  PROVE  has_visible_forward_edge(e, u, v) <=> BaseEdge(e, u, v)
<1>1. PICK a, c, t : a = e.art.forward.offsets[u + 1] /\ c = e.art.forward.offsets[u + 2] /\ t = e.art.forward.targets
  OBVIOUS
<1>2. PICK f : f = ForwardEdges(e.art, u) /\ f \in Seq(Nat) /\ \A x : InSeq(x, f) <=> x \in a .. c - 1
  BY <1>1, ForwardHas
<1>3. BaseEdge(e, u, v) <=> \E x \in a .. c - 1 : t[x + 1] = v /\ edge_visible(e.overlay, x)
  BY <1>1 DEF BaseEdge
<1>4. has_visible_forward_edge(e, u, v) <=> \E i \in DOMAIN f : t[f[i] + 1] = v /\ edge_visible(e.overlay, f[i])
  BY <1>1, <1>2 DEF has_visible_forward_edge, EdgeTarget
<1>5. \A i \in DOMAIN f : f[i] \in a .. c - 1
  BY <1>2 DEF InSeq
<1>6. \A x \in a .. c - 1 : \E i \in DOMAIN f : f[i] = x
  BY <1>2 DEF InSeq
<1>. QED  BY <1>3, <1>4, <1>5, <1>6

\* The base row of predecessors has the sources of the same edges.
LEMMA InBaseHas ==
  ASSUME NEW n \in Nat, NEW m \in Nat, NEW src, NEW tgt, NEW e, Holds(e.art, n, m, src, tgt), NEW flags,
         Prepared(e, flags), NEW u, NEW v \in 0 .. n - 1
  PROVE  /\ InBase(e, flags, v) \in Seq(0 .. n - 1)
         /\ InSeq(u, InBase(e, flags, v)) <=> u \in 0 .. n - 1 /\ BaseEdge(e, u, v)
<1>1. PICK S : S = 0 .. n - 1 /\ S \subseteq Int
  OBVIOUS
<1>2. PICK row \in Seq(S) : row = SectionRow(e.art.inbound, v)
  <2>1. PICK o, t : o = e.art.inbound.offsets /\ t = e.art.inbound.targets /\ Shaped(n, m, o, t)
    BY DEF Holds
  <2>2. n \in Nat /\ m \in Nat /\ v \in 0 .. n - 1 /\ Shaped(n, m, o, t)
    BY <2>1
  <2>3. Row(o, t, v) \in Seq(0 .. n - 1)
    BY ONLY <2>2, RowIs
  <2>. QED  BY <1>1, <2>1, <2>3 DEF SectionRow
<1>3. InSeq(u, row) => u \in S
  BY DEF InSeq
<1>4. u \in S => (InSeq(u, row) <=> Reaches(e.art.forward, u, v))
  <2>1. SUFFICES ASSUME u \in S PROVE InSeq(u, row) <=> Reaches(e.art.forward, u, v)
    OBVIOUS
  <2>2. InSeq(v, SectionRow(e.art.forward, u)) <=> InSeq(u, row)
    BY <1>1, <1>2, <2>1, HeldIs
  <2>3. InSeq(v, SectionRow(e.art.forward, u)) <=> Reaches(e.art.forward, u, v)
    BY <1>1, <2>1, ForwardHas
  <2>. QED  BY <2>2, <2>3
<1>5. CASE ~has_edge_tombstones(e.overlay)
  <2>1. u \in S => (InSeq(u, row) <=> BaseEdge(e, u, v))
    BY <1>4, <1>5 DEF BaseEdge, Reaches, edge_visible, has_edge_tombstones
  <2>2. CASE flags.use_unique
    <3>1. PICK r : r = build_unique_row(row) /\ r \in Seq(S) /\ (InSeq(u, r) <=> InSeq(u, row))
      BY <1>1, UniqueHas
    <3>2. NodesOf(e.art.forward) = n
      BY DEF Holds, Shaped, NodesOf
    <3>3. v + 1 \in 1 .. n /\ v + 1 - 1 = v
      OBVIOUS
    <3>4. PICK g : g = [i \in 1 .. n |-> build_unique_row(SectionRow(e.art.inbound, i - 1))] /\ g = e.unique.incoming
      BY <2>2, <3>2 DEF from_topology, Prepared
    <3>5. g[v + 1] = r
      BY <1>2, <3>1, <3>3, <3>4
    <3>6. UniqueRow(e.unique.incoming, v) = r
      BY <3>3, <3>4, <3>5 DEF UniqueRow
    <3>7. InBase(e, flags, v) = r
      BY <2>2, <3>6 DEF InBase
    <3>. QED  BY <1>1, <1>3, <2>1, <3>1, <3>7
  <2>3. CASE ~flags.use_unique
    <3>1. PICK K : K = {p \in Elems(row) : has_edge_tombstones(e.overlay) => has_visible_forward_edge(e, p, v)}
      OBVIOUS
    <3>2. InBase(e, flags, v) = Kept(K, row)
      BY <1>2, <2>3, <3>1 DEF InBase
    <3>3. Kept(K, row) \in Seq(S) /\ (InSeq(u, Kept(K, row)) <=> InSeq(u, row) /\ u \in K)
      BY KeptIs
    <3>4. InSeq(u, row) => u \in K
      BY <1>5, <3>1 DEF InSeq, Elems
    <3>. QED  BY <1>1, <1>3, <2>1, <3>2, <3>3, <3>4
  <2>. QED  BY <2>2, <2>3
<1>6. CASE has_edge_tombstones(e.overlay)
  <2>1. ~flags.use_unique
    BY <1>6 DEF Prepared
  <2>2. PICK K : K = {p \in Elems(row) : has_edge_tombstones(e.overlay) => has_visible_forward_edge(e, p, v)}
    OBVIOUS
  <2>3. InBase(e, flags, v) = Kept(K, row)
    BY <1>2, <2>1, <2>2 DEF InBase
  <2>4. Kept(K, row) \in Seq(S) /\ (InSeq(u, Kept(K, row)) <=> InSeq(u, row) /\ u \in K)
    BY KeptIs
  <2>5. InSeq(u, row) => (u \in K <=> BaseEdge(e, u, v))
    <3>1. SUFFICES ASSUME InSeq(u, row) PROVE u \in K <=> BaseEdge(e, u, v)
      OBVIOUS
    <3>2. u \in Elems(row) /\ u \in 0 .. n - 1
      BY <1>1, <1>3, <3>1 DEF InSeq, Elems
    <3>3. has_visible_forward_edge(e, u, v) <=> BaseEdge(e, u, v)
      BY <3>2, ForwardSeen
    <3>. QED  BY <1>6, <2>2, <3>2, <3>3
  <2>6. u \in S /\ BaseEdge(e, u, v) => InSeq(u, row)
    BY <1>4 DEF BaseEdge, Reaches
  <2>. QED  BY <1>1, <1>3, <2>3, <2>4, <2>5, <2>6
<1>. QED  BY <1>5, <1>6

-----------------------------------------------------------------------------
(* Neighbors *)

\* The overlay's rows are those of the inserted edges.
LEMMA InsertedHas ==
  ASSUME NEW e, EngineOK(e), NEW u \in Ids, NEW v
  PROVE  /\ \E S : e.overlay.by_source[u] \in Seq(S) /\ e.overlay.by_target[u] \in Seq(S)
         /\ InSeq(v, e.overlay.by_source[u]) <=> InSeq(<<u, v>>, e.overlay.added_edges)
         /\ InSeq(v, e.overlay.by_target[u]) <=> InSeq(<<v, u>>, e.overlay.added_edges)
<1>1. PICK S, o : o = e.overlay /\ o \in Matched(S)
  BY DEF EngineOK
<1>2. PICK s \in Seq(S \X S) : /\ s = o.added_edges /\ o.by_source[u] = FarEnds(s, 1, 2, u)
                               /\ o.by_target[u] = FarEnds(s, 2, 1, u)
  BY <1>1 DEF Matched, Overlays, Adjacent
<1>3. \A i \in DOMAIN s : \E x, y \in S : s[i] = <<x, y>>
  <2>1. \A i \in DOMAIN s : s[i] \in S \X S
    OBVIOUS
  <2>. QED  BY <2>1
<1>4. PICK p, q : p = 1 /\ q = 2
  OBVIOUS
<1>5. (q = 1 \/ q = 2) /\ (p = 1 \/ p = 2) /\ s \in Seq(S \X S)
  BY <1>4
<1>6. FarEnds(s, p, q, u) \in Seq(S) /\ (InSeq(v, FarEnds(s, p, q, u)) <=> Joined(s, p, q, u, v))
  BY ONLY <1>5, FarEndsHas
<1>7. FarEnds(s, q, p, u) \in Seq(S) /\ (InSeq(v, FarEnds(s, q, p, u)) <=> Joined(s, q, p, u, v))
  BY ONLY <1>5, FarEndsHas
<1>8. Joined(s, p, q, u, v) <=> InSeq(<<u, v>>, s)
  <2>1. \A i \in DOMAIN s : s[i][1] = u /\ s[i][2] = v <=> s[i] = <<u, v>>
    BY <1>3
  <2>2. Joined(s, p, q, u, v) <=> \E i \in DOMAIN s : s[i][1] = u /\ s[i][2] = v
    BY <1>4 DEF Joined
  <2>. QED  BY <2>1, <2>2 DEF InSeq
<1>9. Joined(s, q, p, u, v) <=> InSeq(<<v, u>>, s)
  <2>1. \A i \in DOMAIN s : s[i][2] = u /\ s[i][1] = v <=> s[i] = <<v, u>>
    BY <1>3
  <2>2. Joined(s, q, p, u, v) <=> \E i \in DOMAIN s : s[i][2] = u /\ s[i][1] = v
    BY <1>4 DEF Joined
  <2>. QED  BY <2>1, <2>2 DEF InSeq
<1>10. FarEnds(s, p, q, u) = o.by_source[u] /\ FarEnds(s, q, p, u) = o.by_target[u]
  BY <1>2, <1>4
<1>. QED  BY <1>1, <1>2, <1>6, <1>7, <1>8, <1>9, <1>10

\* The edges a query of that freshness follows.
Follows(e, freshness, u, v) ==
  BaseEdge(e, u, v) \/ (freshness = "OverlayAware" /\ InSeq(<<u, v>>, e.overlay.added_edges))

\* The nodes a query may visit.
LEMMA LiveIs ==
  ASSUME NEW n, NEW m, NEW src, NEW tgt, NEW e, n \in Nat, Holds(e.art, n, m, src, tgt), n <= NodeMax, NEW u
  PROVE  /\ u \in Live(e) <=> u \in 0 .. n - 1 /\ overlay_node_visible(e.overlay, u)
         /\ u \in 0 .. n - 1 => u \in Ids
<1>1. e.art.metadata.node_count = n
  BY DEF Holds
<1>. QED  BY <1>1, CsrAssumption DEF Live, Ids

\* A row that is filtered by admit.
LEMMA AdmittedHas ==
  ASSUME NEW n \in Nat, NEW m \in Nat, NEW src, NEW tgt, NEW e, Holds(e.art, n, m, src, tgt), n <= NodeMax,
         NEW freshness, NEW A, A \subseteq Nat, NEW row \in Seq(A), NEW v
  PROVE  /\ Admitted(e, resolve(freshness, e.overlay), row) \in Seq(A)
         /\ InSeq(v, Admitted(e, resolve(freshness, e.overlay), row)) <=> InSeq(v, row) /\ v \in Live(e)
<1>1. PICK flags, K : flags = resolve(freshness, e.overlay) /\ K = {u \in Elems(row) : admit(e, flags, u)}
  OBVIOUS
<1>2. Kept(K, row) \in Seq(A) /\ (InSeq(v, Kept(K, row)) <=> InSeq(v, row) /\ v \in K)
  BY KeptIs
<1>3. Admitted(e, flags, row) = Kept(K, row)
  BY <1>1 DEF Admitted
<1>4. InSeq(v, row) => (v \in K <=> v \in Live(e))
  <2>1. SUFFICES ASSUME InSeq(v, row) PROVE v \in K <=> v \in Live(e)
    OBVIOUS
  <2>2. v \in Elems(row) /\ v \in Nat
    <3>1. PICK i \in DOMAIN row : row[i] = v
      BY <2>1 DEF InSeq
    <3>2. row[i] \in A
      OBVIOUS
    <3>. QED  BY <3>1, <3>2 DEF Elems
  <2>3. flags.check_nodes <=> e.overlay.tombstoned_nodes # {}
    BY <1>1 DEF resolve, has_node_tombstones
  <2>4. admit(e, flags, v) <=> v < n /\ overlay_node_visible(e.overlay, v)
    BY <2>3 DEF admit, overlay_node_visible, Holds
  <2>5. v \in Live(e) <=> v \in 0 .. n - 1 /\ overlay_node_visible(e.overlay, v)
    BY LiveIs
  <2>6. v < n <=> v \in 0 .. n - 1
    BY <2>2
  <2>. QED  BY <1>1, <2>2, <2>4, <2>5, <2>6
<1>. QED  BY <1>1, <1>2, <1>3, <1>4

\* Inserted ends are ids of the width.
LEMMA InsertedIds ==
  ASSUME NEW e, EngineOK(e), NEW u, NEW v, InSeq(<<u, v>>, e.overlay.added_edges)
  PROVE  u \in Nat /\ v \in Nat
<1>1. <<u, v>> \in Ids \X Ids
  BY DEF EngineOK, Elems, InSeq
<1>2. Ids \subseteq Nat
  BY CsrAssumption DEF Ids
<1>. QED  BY <1>1, <1>2

\* A sequence of some elements is one of the elements it has.
LEMMA OwnElems ==
  ASSUME NEW S, NEW s \in Seq(S), NEW A, \A x : InSeq(x, s) => x \in A
  PROVE  s \in Seq(A)
<1>1. PICK n \in Nat : n = Len(s) /\ DOMAIN s = 1 .. n /\ s = [i \in 1 .. n |-> s[i]]
  OBVIOUS
<1>2. \A i \in 1 .. n : s[i] \in A
  BY <1>1 DEF InSeq
<1>3. s \in [1 .. n -> A]
  BY <1>1, <1>2
<1>. QED  BY ONLY n \in Nat, <1>3

\* Successors: the live nodes the query's edges lead to.
LEMMA SuccessorsAre ==
  ASSUME NEW n \in Nat, NEW m \in Nat, NEW src, NEW tgt, NEW e, EngineOK(e), Holds(e.art, n, m, src, tgt), n <= NodeMax,
         NEW freshness, Prepared(e, resolve(freshness, e.overlay)), NEW u \in 0 .. n - 1, NEW v
  PROVE  /\ view_successors(e, resolve(freshness, e.overlay), u) \in Seq(Nat)
         /\ InSeq(v, view_successors(e, resolve(freshness, e.overlay), u)) <=> v \in Live(e) /\ Follows(e, freshness, u, v)
<1>1. PICK flags : flags = resolve(freshness, e.overlay)
  OBVIOUS
<1>2. PICK base : /\ base = OutBase(e, flags, u) /\ base \in Seq(0 .. n - 1)
                  /\ InSeq(v, base) <=> BaseEdge(e, u, v)
  BY <1>1, OutBaseHas
<1>3. base \in Seq(Nat)
  BY <1>2
<1>4. PICK ends : ends = IF flags.merge_overlay THEN e.overlay.by_source[u] ELSE << >>
  OBVIOUS
<1>5. /\ ends \in Seq(Nat)
      /\ InSeq(v, ends) <=> freshness = "OverlayAware" /\ InSeq(<<u, v>>, e.overlay.added_edges)
  <2>0. u \in Ids
    BY LiveIs
  <2>1. /\ \E S : e.overlay.by_source[u] \in Seq(S)
        /\ \A w : InSeq(w, e.overlay.by_source[u]) <=> InSeq(<<u, w>>, e.overlay.added_edges)
    BY <2>0, InsertedHas
  <2>2. e.overlay.by_source[u] \in Seq(Nat)
    <3>1. \A w : InSeq(w, e.overlay.by_source[u]) => w \in Nat
      BY <2>1, InsertedIds
    <3>. QED  BY <2>1, <3>1, OwnElems
  <2>3. flags.merge_overlay <=> freshness = "OverlayAware" /\ e.overlay.added_edges # << >>
    BY <1>1 DEF resolve
  <2>4. e.overlay.added_edges = << >> => ~InSeq(<<u, v>>, e.overlay.added_edges)
    BY DEF InSeq
  <2>5. << >> \in Seq(Nat) /\ ~InSeq(v, << >>)
    BY DEF InSeq
  <2>. QED  BY <1>4, <2>1, <2>2, <2>3, <2>4, <2>5
<1>6. base \o ends \in Seq(Nat) /\ (InSeq(v, base \o ends) <=> InSeq(v, base) \/ InSeq(v, ends))
  BY ONLY <1>3, <1>5, InConcat
<1>7. PICK row \in Seq(Nat) : row = base \o ends
  BY <1>6
<1>8. view_successors(e, flags, u) = Admitted(e, flags, row)
  BY <1>2, <1>4, <1>7 DEF view_successors
<1>9. /\ Admitted(e, flags, row) \in Seq(Nat)
      /\ InSeq(v, Admitted(e, flags, row)) <=> InSeq(v, row) /\ v \in Live(e)
  BY <1>1, AdmittedHas
<1>. QED  BY <1>1, <1>2, <1>5, <1>6, <1>7, <1>8, <1>9 DEF Follows

\* Predecessors: the live nodes from which they lead here.
LEMMA PredecessorsAre ==
  ASSUME NEW n \in Nat, NEW m \in Nat, NEW src, NEW tgt, NEW e, EngineOK(e), Holds(e.art, n, m, src, tgt), n <= NodeMax,
         NEW freshness, Prepared(e, resolve(freshness, e.overlay)), NEW u, NEW v \in 0 .. n - 1
  PROVE  /\ view_predecessors(e, resolve(freshness, e.overlay), v) \in Seq(Nat)
         /\ InSeq(u, view_predecessors(e, resolve(freshness, e.overlay), v)) <=> u \in Live(e) /\ Follows(e, freshness, u, v)
<1>1. PICK flags : flags = resolve(freshness, e.overlay)
  OBVIOUS
<1>2. PICK base : /\ base = InBase(e, flags, v) /\ base \in Seq(0 .. n - 1)
                  /\ InSeq(u, base) <=> u \in 0 .. n - 1 /\ BaseEdge(e, u, v)
  <2>1. /\ InBase(e, flags, v) \in Seq(0 .. n - 1)
        /\ InSeq(u, InBase(e, flags, v)) <=> u \in 0 .. n - 1 /\ BaseEdge(e, u, v)
    BY <1>1, InBaseHas
  <2>. QED  BY <2>1
<1>3. base \in Seq(Nat)
  BY <1>2
<1>4. PICK ends : ends = IF flags.merge_overlay THEN e.overlay.by_target[v] ELSE << >>
  OBVIOUS
<1>5. /\ ends \in Seq(Nat)
      /\ InSeq(u, ends) <=> freshness = "OverlayAware" /\ InSeq(<<u, v>>, e.overlay.added_edges)
  <2>0. v \in Ids
    BY LiveIs
  <2>1. /\ \E S : e.overlay.by_target[v] \in Seq(S)
        /\ \A w : InSeq(w, e.overlay.by_target[v]) <=> InSeq(<<w, v>>, e.overlay.added_edges)
    BY <2>0, InsertedHas
  <2>2. e.overlay.by_target[v] \in Seq(Nat)
    <3>1. \A w : InSeq(w, e.overlay.by_target[v]) => w \in Nat
      BY <2>1, InsertedIds
    <3>. QED  BY <2>1, <3>1, OwnElems
  <2>3. flags.merge_overlay <=> freshness = "OverlayAware" /\ e.overlay.added_edges # << >>
    BY <1>1 DEF resolve
  <2>4. e.overlay.added_edges = << >> => ~InSeq(<<u, v>>, e.overlay.added_edges)
    BY DEF InSeq
  <2>5. << >> \in Seq(Nat) /\ ~InSeq(u, << >>)
    BY DEF InSeq
  <2>. QED  BY <1>4, <2>1, <2>2, <2>3, <2>4, <2>5
<1>6. base \o ends \in Seq(Nat) /\ (InSeq(u, base \o ends) <=> InSeq(u, base) \/ InSeq(u, ends))
  BY ONLY <1>3, <1>5, InConcat
<1>7. PICK row \in Seq(Nat) : row = base \o ends
  BY <1>6
<1>8. view_predecessors(e, flags, v) = Admitted(e, flags, row)
  BY <1>2, <1>4, <1>7 DEF view_predecessors
<1>9. /\ Admitted(e, flags, row) \in Seq(Nat)
      /\ InSeq(u, Admitted(e, flags, row)) <=> InSeq(u, row) /\ u \in Live(e)
  BY <1>1, AdmittedHas
<1>10. u \in Live(e) => u \in 0 .. n - 1
  BY LiveIs
<1>. QED  BY <1>1, <1>2, <1>5, <1>6, <1>7, <1>8, <1>9, <1>10 DEF Follows

\* The reference definition of the edges a query may follow agrees.
LEMMA VisibleAre ==
  ASSUME NEW n \in Nat, NEW m \in Nat, NEW src, NEW tgt, NEW e, Holds(e.art, n, m, src, tgt), n <= NodeMax,
         NEW freshness, NEW u \in Live(e), NEW v
  PROVE  <<u, v>> \in VisiblePairs(e, freshness) <=> Follows(e, freshness, u, v)
<1>1. PICK a, c, t : a = e.art.forward.offsets[u + 1] /\ c = e.art.forward.offsets[u + 2] /\ t = e.art.forward.targets
  OBVIOUS
<1>2. u \in 0 .. n - 1
  BY LiveIs
<1>3. a \in 0 .. m /\ c \in 0 .. m /\ \A x : InSeq(x, ForwardEdges(e.art, u)) <=> x \in a .. c - 1
  BY <1>1, <1>2, ForwardHas
<1>4. Len(t) = m
  BY <1>1 DEF Holds, Shaped
<1>5. PICK B : B = {<<x[1], EdgeTarget(e.art, x[2])>> : x \in
                      {y \in Live(e) \X (0 .. (Len(e.art.forward.targets) - 1)) :
                         InSeq(y[2], ForwardEdges(e.art, y[1])) /\ edge_visible(e.overlay, y[2])}}
  OBVIOUS
<1>6. ASSUME <<u, v>> \in B PROVE BaseEdge(e, u, v)
  <2>1. PICK y \in Live(e) \X (0 .. (Len(e.art.forward.targets) - 1)) :
          /\ InSeq(y[2], ForwardEdges(e.art, y[1])) /\ edge_visible(e.overlay, y[2])
          /\ <<u, v>> = <<y[1], EdgeTarget(e.art, y[2])>>
    <3>1. PICK Y : Y = {y \in Live(e) \X (0 .. (Len(e.art.forward.targets) - 1)) :
                          InSeq(y[2], ForwardEdges(e.art, y[1])) /\ edge_visible(e.overlay, y[2])}
      OBVIOUS
    <3>2. B = {<<x[1], EdgeTarget(e.art, x[2])>> : x \in Y}
      BY <1>5, <3>1
    <3>3. PICK y \in Y : <<u, v>> = <<y[1], EdgeTarget(e.art, y[2])>>
      BY <1>6, <3>2
    <3>. QED  BY <3>1, <3>3
  <2>2. PICK x : x = y[2] /\ u = y[1] /\ v = EdgeTarget(e.art, x)
    BY <2>1
  <2>3. x \in a .. c - 1 /\ edge_visible(e.overlay, x) /\ t[x + 1] = v
    BY <1>1, <1>3, <2>1, <2>2 DEF EdgeTarget
  <2>. QED  BY <1>1, <2>3 DEF BaseEdge
<1>7. ASSUME BaseEdge(e, u, v) PROVE <<u, v>> \in B
  <2>1. PICK x \in a .. c - 1 : t[x + 1] = v /\ edge_visible(e.overlay, x)
    BY <1>1, <1>7 DEF BaseEdge
  <2>2. x \in 0 .. (Len(e.art.forward.targets) - 1)
    BY <1>1, <1>3, <1>4, SMTT(30)
  <2>3. PICK y : y = <<u, x>> /\ y \in Live(e) \X (0 .. (Len(e.art.forward.targets) - 1)) /\ y[1] = u /\ y[2] = x
    <3>1. PICK L, N : L = Live(e) /\ N = 0 .. (Len(e.art.forward.targets) - 1) /\ u \in L /\ x \in N
      BY <2>2
    <3>2. u \in L /\ x \in N
      BY <3>1
    <3>3. <<u, x>> \in L \X N /\ <<u, x>>[1] = u /\ <<u, x>>[2] = x
      BY ONLY <3>2
    <3>4. PICK y : y = <<u, x>> /\ y \in L \X N /\ y[1] = u /\ y[2] = x
      BY ONLY <3>3
    <3>. QED  BY <3>1, <3>4
  <2>4. InSeq(y[2], ForwardEdges(e.art, y[1])) /\ edge_visible(e.overlay, y[2])
    BY <1>3, <2>1, <2>3
  <2>5. <<u, v>> = <<y[1], EdgeTarget(e.art, y[2])>>
    BY <1>1, <2>1, <2>3 DEF EdgeTarget
  <2>. QED  BY <1>5, <2>3, <2>4, <2>5
<1>8. <<u, v>> \in Elems(e.overlay.added_edges) <=> InSeq(<<u, v>>, e.overlay.added_edges)
  BY DEF Elems, InSeq
<1>9. VisiblePairs(e, freshness) = B \cup (IF freshness = "OverlayAware" THEN Elems(e.overlay.added_edges) ELSE {})
  BY <1>5 DEF VisiblePairs
<1>. QED  BY <1>6, <1>7, <1>8, <1>9 DEF Follows

\* traverse_workspace_mut leaves an engine the query can run over, with the same artifact and overlay.
LEMMA ReadyPrepared ==
  ASSUME NEW e, EngineOK(e), NEW freshness, NEW d,
         d = traverse_workspace_mut(e, resolve(freshness, e.overlay).use_unique)
  PROVE  /\ EngineOK(d) /\ d.art = e.art /\ d.overlay = e.overlay /\ d.scratch = e.scratch
         /\ Prepared(d, resolve(freshness, d.overlay))
<1>1. PICK a, o, q, b, z : e = [art |-> a, overlay |-> o, unique |-> q, unique_built |-> b, scratch |-> z]
  BY DEF EngineOK
<1>2. EngineOK(d)
  BY TraverseOK
<1>3. PICK flags : flags = resolve(freshness, o)
  OBVIOUS
<1>4. e.overlay = o /\ e.art = a /\ e.scratch = z /\ e.unique_built = b /\ e.unique = q
  BY <1>1
<1>5. flags.use_unique => ~has_edge_tombstones(o)
  BY <1>3 DEF resolve
<1>6. CASE flags.use_unique /\ ~b
  <2>1. PICK w : w = from_topology(a)
    OBVIOUS
  <2>2. d = [e EXCEPT !.unique = w, !.unique_built = TRUE]
    BY <1>3, <1>4, <1>6, <2>1 DEF traverse_workspace_mut
  <2>3. d.art = a /\ d.overlay = o /\ d.scratch = z /\ d.unique = w
    BY <1>1, <2>2
  <2>. QED  BY <1>2, <1>3, <1>4, <1>5, <2>1, <2>3 DEF Prepared
<1>7. CASE ~(flags.use_unique /\ ~b)
  <2>1. d = e
    BY <1>3, <1>4, <1>7 DEF traverse_workspace_mut
  <2>2. flags.use_unique => e.unique = from_topology(e.art)
    <3>1. b \in BOOLEAN /\ (b => q = from_topology(a))
      BY <1>4 DEF EngineOK
    <3>. QED  BY <1>4, <1>7, <3>1
  <2>. QED  BY <1>2, <1>3, <1>4, <1>5, <2>1, <2>2 DEF Prepared
<1>. QED  BY <1>6, <1>7

\* Successors and predecessors mirror each other.
LEMMA ViewsMirrorOK ==
  ASSUME ExtensionInv
  PROVE  ViewsMirror
<1>1. SUFFICES ASSUME NEW s \in Answering, NEW freshness \in Freshness, NEW e, e = Ready(s, freshness),
                      NEW u \in Live(e), NEW v \in Live(e)
               PROVE  InSeq(v, view_successors(e, resolve(freshness, e.overlay), u))
                        <=> InSeq(u, view_predecessors(e, resolve(freshness, e.overlay), v))
  BY DEF ViewsMirror, MirrorOver
<1>2. EngineOK(engine[s])
  BY DEF ExtensionInv, Engines, Loaded, Answering
<1>3. EngineOK(e) /\ Prepared(e, resolve(freshness, e.overlay))
  BY <1>1, <1>2, ReadyPrepared DEF Ready
<1>4. PICK n, m \in Nat : \E src, tgt : Holds(e.art, n, m, src, tgt) /\ n <= NodeMax
  BY <1>3, EngineHolds DEF EngineOK
<1>5. PICK src, tgt : Holds(e.art, n, m, src, tgt) /\ n <= NodeMax
  BY <1>4
<1>6. u \in 0 .. n - 1 /\ v \in 0 .. n - 1
  BY <1>5, LiveIs
<1>7. InSeq(v, view_successors(e, resolve(freshness, e.overlay), u)) <=> v \in Live(e) /\ Follows(e, freshness, u, v)
  BY <1>3, <1>5, <1>6, SuccessorsAre
<1>8. InSeq(u, view_predecessors(e, resolve(freshness, e.overlay), v)) <=> u \in Live(e) /\ Follows(e, freshness, u, v)
  BY <1>3, <1>5, <1>6, PredecessorsAre
<1>. QED  BY <1>7, <1>8

-----------------------------------------------------------------------------
(* Search *)

\* The members below k.
Below(M, k) == {u \in M : u < k}

\* The first members in order, up to a limit, of those below k.
Gathered(out, M, lim, k) ==
  /\ out \in Seq(Nat) /\ Len(out) = Smaller(lim, Cardinality(Below(M, k)))
  /\ \A i \in 1 .. Len(out) : out[i] \in Below(M, k) /\ Cardinality(Below(M, out[i])) = i - 1

\* One more id is looked at.
LEMMA GatherNext ==
  ASSUME NEW M, M \subseteq Nat, IsFiniteSet(M), NEW lim \in Nat, NEW k \in Nat, NEW out, Gathered(out, M, lim, k)
  PROVE  Gathered(IF Len(out) < lim /\ k \in M THEN Append(out, k) ELSE out, M, lim, k + 1)
<1>1. PICK B : B = Below(M, k) /\ IsFiniteSet(B) /\ B \subseteq M /\ k \notin B
  <2>1. Below(M, k) \subseteq M /\ k \notin Below(M, k)
    BY DEF Below
  <2>2. IsFiniteSet(Below(M, k))
    BY <2>1, FS_Subset
  <2>. QED  BY <2>1, <2>2
<1>2. PICK c, l \in Nat : c = Cardinality(B) /\ l = Len(out)
  <2>1. out \in Seq(Nat)
    BY DEF Gathered
  <2>. QED  BY <1>1, <2>1, FS_CardinalityType
<1>3. /\ out \in Seq(Nat) /\ l = Smaller(lim, c)
      /\ \A i \in 1 .. l : out[i] \in B /\ Cardinality(Below(M, out[i])) = i - 1
  BY <1>1, <1>2 DEF Gathered
<1>4. CASE k \notin M
  <2>0. \A u \in M : u < k + 1 <=> u < k
    BY <1>4
  <2>1. Below(M, k + 1) = B
    BY <1>1, <2>0 DEF Below
  <2>. QED  BY <1>2, <1>3, <1>4, <2>1 DEF Gathered
<1>5. CASE k \in M
  <2>0. \A u \in M : u < k + 1 <=> u < k \/ u = k
    OBVIOUS
  <2>1. Below(M, k + 1) = B \cup {k}
    BY <1>1, <1>5, <2>0 DEF Below
  <2>2. Cardinality(Below(M, k + 1)) = c + 1
    BY <1>1, <1>2, <2>1, FS_AddElement
  <2>3. CASE l < lim
    <3>1. l = c /\ l + 1 = Smaller(lim, c + 1)
      BY <1>3, <2>3 DEF Smaller
    <3>2. /\ Append(out, k) \in Seq(Nat) /\ Len(Append(out, k)) = l + 1 /\ Append(out, k)[l + 1] = k
          /\ \A i \in 1 .. l : Append(out, k)[i] = out[i]
      <4>1. PICK S : S = Nat /\ out \in Seq(S) /\ k \in S
        BY <1>3
      <4>. QED  BY <1>2, <4>1, AppendProperties
    <3>3. PICK t : /\ t = Append(out, k) /\ t \in Seq(Nat) /\ Len(t) = l + 1 /\ t[l + 1] = k
                   /\ \A i \in 1 .. l : t[i] = out[i]
      BY <3>2
    <3>4. ASSUME NEW i \in 1 .. l + 1 PROVE t[i] \in Below(M, k + 1) /\ Cardinality(Below(M, t[i])) = i - 1
      <4>1. CASE i \in 1 .. l
        BY <1>3, <2>1, <3>3, <4>1
      <4>2. CASE i = l + 1
        BY <1>1, <1>2, <2>1, <3>1, <3>3, <4>2
      <4>. QED  BY <4>1, <4>2
    <3>5. Gathered(t, M, lim, k + 1)
      BY <2>2, <3>1, <3>3, <3>4 DEF Gathered
    <3>. QED  BY <1>2, <1>5, <2>3, <3>3, <3>5
  <2>4. CASE ~(l < lim)
    <3>1. l = Smaller(lim, c + 1)
      BY <1>3, <2>4 DEF Smaller
    <3>. QED  BY <1>2, <1>3, <2>1, <2>2, <2>4, <3>1 DEF Gathered
  <2>. QED  BY <2>3, <2>4
<1>. QED  BY <1>4, <1>5

\* The search gathers what it should, and all of that is below n.
Searched(e, first, last, limit, cap, n) ==
  /\ Gathered(search(e, first, last, limit, cap), Found(e, first, last), Smaller(limit, cap), n)
  /\ Below(Found(e, first, last), n) = Found(e, first, last)

\* Engine::search gathers the visible nodes of the range.
LEMMA SearchIs ==
  ASSUME NEW nodes \in Nat, NEW m, NEW src, NEW tgt, NEW e, Holds(e.art, nodes, m, src, tgt), nodes <= NodeMax,
         NEW first \in Int, NEW last \in Int, NEW limit \in Nat, NEW cap \in Nat
  PROVE  Searched(e, first, last, limit, cap, nodes)
<1>. DEFINE q == [i \in 1 .. NodesOf(e.art.forward) |-> i - 1]
            n == Len(q)
            A == Seq(Nat)
            base == << >>
            Step(out, u) ==
              IF Len(out) < Smaller(limit, cap) /\ engine_node_visible(e, u) /\ first <= u /\ u <= last
              THEN Append(out, u) ELSE out
            F == [k \in 1 .. n |-> [X \in A |-> Step(X, q[k])]]
            Def(t) == [k \in 0 .. n |->
                         IF k = 0 THEN base
                         ELSE CHOOSE r \in {Step(acc, q[k]) : acc \in {t[k - 1]}} : TRUE]
            After == CHOOSE t : t = Def(t)
<1>a. NodesOf(e.art.forward) = nodes
  BY DEF Holds, Shaped, NodesOf
<1>b. q \in Seq(Nat) /\ n = nodes /\ \A k \in 1 .. n : q[k] = k - 1
  BY <1>a
<1>0. n \in Nat /\ n = Len(q)
  BY <1>b
<1>1. base \in A
  OBVIOUS
<1>2. \A k \in 1 .. n, X \in A : Step(X, q[k]) \in A
  <2>1. \A k \in 1 .. n : q[k] \in Nat
    <3>. HIDE DEF q, n
    <3>. QED  BY <1>0, <1>b
  <2>. HIDE DEF q, n
  <2>. QED  BY <2>1, AppendProperties
<1>10. F \in [1 .. n -> [A -> A]]
  <2>. HIDE DEF A, Step, q, n
  <2>. QED  BY <1>2
<1>11. PICK b : Iterates(b, n, A, base, F)
  <2>. HIDE DEF A, F, base, n
  <2>. QED  BY <1>0, <1>1, <1>10, IteratesExist
<1>. HIDE DEF A, base, Step, q, n
<1>12. /\ b \in [0 .. n -> A] /\ b[0] = base
      /\ \A k \in 1 .. n : b[k] = Step(b[k - 1], q[k])
  <2>1. b \in [0 .. n -> A] /\ b[0] = base /\ \A k \in 1 .. n : b[k] = F[k][b[k - 1]]
    BY <1>11 DEF Iterates
  <2>2. \A k \in 1 .. n : k - 1 \in 0 .. n
    BY <1>0
  <2>3. \A k \in 1 .. n : b[k - 1] \in A
    BY <2>1, <2>2
  <2>. QED  BY <2>1, <2>3
<1>13. ASSUME NEW t, NEW k \in 1 .. n
      PROVE  (CHOOSE r \in {Step(acc, q[k]) : acc \in {t[k - 1]}} : TRUE) = Step(t[k - 1], q[k])
  <2>1. {Step(acc, q[k]) : acc \in {t[k - 1]}} = {Step(t[k - 1], q[k])}
    OBVIOUS
  <2>. QED  BY <2>1, OnlyOne
<1>14. b = Def(b)
  <2>1. b = [k \in 0 .. n |-> b[k]]
    BY <1>12
  <2>2. ASSUME NEW k \in 0 .. n PROVE b[k] = Def(b)[k]
    <3>1. CASE k = 0
      BY <1>12, <3>1
    <3>2. CASE k \in 1 .. n
      BY <1>0, <1>12, <1>13, <3>2
    <3>. QED  BY <1>0, <3>1, <3>2
  <2>. QED  BY <2>1, <2>2
<1>15. After = Def(After)
  <2>1. \E t : t = Def(t)
    BY <1>14
  <2>. QED  BY <2>1
<1>16. search(e, first, last, limit, cap) = After[n]
  BY DEF search, Loop, base, Step, q, n
<1>. HIDE DEF After
<1>17. After[0] = base /\ \A k \in 1 .. n : After[k] = Step(After[k - 1], q[k])
  <2>1. \A k \in 0 .. n : After[k] = Def(After)[k]
    BY <1>15
  <2>2. 0 \in 0 .. n /\ \A k \in 1 .. n : k \in 0 .. n /\ k # 0
    BY <1>0
  <2>. QED  BY <1>13, <2>1, <2>2
<1>18. After[n] = b[n]
  <2>1. PICK w, f : w \in Nat /\ w = n /\ f = After
    BY <1>0
  <2>2. w \in Nat /\ f[0] = b[0] /\ StayAlike(f, b, w)
    BY <1>12, <1>17, <2>1 DEF StayAlike
  <2>3. f[w] = b[w]
    BY ONLY <2>2, SameTable
  <2>. QED  BY <2>1, <2>3
<1>30. PICK M, lim : M = Found(e, first, last) /\ lim = Smaller(limit, cap)
  OBVIOUS
<1>31. \A u : u \in M <=> u \in 0 .. nodes - 1 /\ overlay_node_visible(e.overlay, u) /\ first <= u /\ u <= last
  <2>1. \A u : u \in Live(e) <=> u \in 0 .. nodes - 1 /\ overlay_node_visible(e.overlay, u)
    BY LiveIs
  <2>. QED  BY <1>30, <2>1 DEF Found
<1>32. M \subseteq Nat /\ IsFiniteSet(M) /\ lim \in Nat
  <2>1. M \subseteq 0 .. nodes - 1
    BY <1>31
  <2>2. IsFiniteSet(0 .. nodes - 1)
    <3>1. PICK x, y \in Int : x = 0 /\ y = nodes - 1
      OBVIOUS
    <3>. QED  BY <3>1, FS_Interval
  <2>3. IsFiniteSet(M)
    BY <2>1, <2>2, FS_Subset
  <2>. QED  BY <1>30, <2>1, <2>3 DEF Smaller
<1>33. ASSUME NEW k \in 0 .. nodes - 1
       PROVE  k \in M <=> engine_node_visible(e, k) /\ first <= k /\ k <= last
  BY <1>a, <1>31 DEF engine_node_visible
<1>. DEFINE G == {k \in 0 .. n : Gathered(b[k], M, lim, k)}
<1>34. 0 \in G
  <2>0. \A u \in M : ~(u < 0)
    BY <1>32
  <2>1. Below(M, 0) = {}
    BY <2>0 DEF Below
  <2>2. Cardinality(Below(M, 0)) = 0
    BY <2>1, FS_EmptySet
  <2>3. b[0] = << >>
    BY <1>12 DEF base
  <2>4. Smaller(lim, 0) = 0
    BY <1>32 DEF Smaller
  <2>5. Gathered(b[0], M, lim, 0)
    BY <2>2, <2>3, <2>4 DEF Gathered
  <2>. QED  BY <1>0, <2>5
<1>35. ASSUME NEW k \in 1 .. n, k - 1 \in G PROVE k \in G
  <2>1. PICK j, X : j = k - 1 /\ X = b[k - 1] /\ j \in 0 .. nodes - 1 /\ j \in Nat
    BY <1>0, <1>b
  <2>2. Gathered(X, M, lim, j)
    BY <1>35, <2>1
  <2>3. b[k] = Step(X, j)
    BY <1>12, <1>b, <2>1
  <2>4. b[k] = IF Len(X) < lim /\ j \in M THEN Append(X, j) ELSE X
    BY <1>30, <1>33, <2>1, <2>3 DEF Step
  <2>5. Gathered(b[k], M, lim, j + 1)
    BY <1>32, <2>1, <2>2, <2>4, GatherNext
  <2>6. j + 1 = k /\ k \in 0 .. n
    BY <1>0, <2>1
  <2>. QED  BY <2>5, <2>6
<1>36. n \in G
  <2>. HIDE DEF G
  <2>1. \A k \in 0 .. n : k \in G
    BY <1>0, <1>34, <1>35, AllUpTo
  <2>. QED  BY <1>0, <2>1
<1>37. Gathered(b[n], M, lim, nodes)
  BY <1>b, <1>36
<1>38. Below(M, nodes) = M
  BY <1>31 DEF Below
<1>. QED  BY <1>16, <1>18, <1>30, <1>37, <1>38 DEF Searched

\* graph_search answers what it should.
LEMMA SearchOK ==
  ASSUME ExtensionInv
  PROVE  SearchExact
<1>1. SUFFICES ASSUME NEW s \in Answering, NEW start \in {-1, 1}, NEW end \in {-1, 0, 2}, NEW limit \in {0, 2},
                      NEW found \in {Found(engine[s], Smaller(IF start < 0 THEN 0 ELSE start,
                                             IF end < 0 THEN (IF start < 0 THEN 0 ELSE start) ELSE end),
                          IF end < start THEN (IF start < 0 THEN 0 ELSE start) ELSE (IF end < 0 THEN 0 ELSE end))},
                      NEW answer \in {graph_search(engine[s], start, end, limit, 9)}
               PROVE  /\ Len(answer) = Smaller(IF limit < 1 THEN 1 ELSE limit, Cardinality(found))
                      /\ \A i \in DOMAIN answer :
                            answer[i] \in found /\ Cardinality({u \in found : u < answer[i]}) = i - 1
  BY DEF SearchExact
<1>2. PICK e : e = engine[s] /\ EngineOK(e)
  BY DEF ExtensionInv, Engines, Loaded, Answering
<1>3. PICK n, m \in Nat : \E src, tgt : Holds(e.art, n, m, src, tgt) /\ n <= NodeMax
  BY <1>2, EngineHolds DEF EngineOK
<1>4. PICK src, tgt : Holds(e.art, n, m, src, tgt) /\ n <= NodeMax
  BY <1>3
<1>5. PICK from, to : from = (IF start < 0 THEN 0 ELSE start) /\ to = (IF end < 0 THEN from ELSE end)
  OBVIOUS
<1>6. PICK first, last, lim : /\ first = Smaller(from, to) /\ last = (IF from <= to THEN to ELSE from)
                              /\ lim = (IF limit < 1 THEN 1 ELSE limit)
  OBVIOUS
<1>7. from \in Nat /\ to \in Nat /\ first \in Int /\ last \in Int /\ lim \in Nat /\ Smaller(lim, 9) = lim
  BY <1>5, <1>6 DEF Smaller
<1>8. answer = search(e, first, last, lim, 9)
  BY <1>1, <1>2, <1>5, <1>6 DEF graph_search
<1>9. found = Found(e, first, last)
  <2>1. last = (IF end < start THEN (IF start < 0 THEN 0 ELSE start) ELSE (IF end < 0 THEN 0 ELSE end))
    BY <1>5, <1>6
  <2>2. first = Smaller(IF start < 0 THEN 0 ELSE start, IF end < 0 THEN (IF start < 0 THEN 0 ELSE start) ELSE end)
    BY <1>5, <1>6
  <2>. QED  BY <1>1, <1>2, <2>1, <2>2
<1>10. Gathered(answer, found, lim, n) /\ Below(found, n) = found
  <2>0. PICK cap : cap = 9 /\ cap \in Nat
    OBVIOUS
  <2>1. /\ n \in Nat /\ Holds(e.art, n, m, src, tgt) /\ n <= NodeMax
        /\ first \in Int /\ last \in Int /\ lim \in Nat /\ cap \in Nat
    BY <1>4, <1>7, <2>0
  <2>2. Searched(e, first, last, lim, cap, n)
    BY ONLY <2>1, SearchIs
  <2>. QED  BY <1>7, <1>8, <1>9, <2>0, <2>2 DEF Searched
<1>11. PICK l \in Nat : l = Len(answer) /\ DOMAIN answer = 1 .. l
  BY <1>10 DEF Gathered
<1>. QED  BY <1>6, <1>10, <1>11 DEF Gathered, Below

-----------------------------------------------------------------------------
(* Traversal: the layers around the seeds *)

\* N[k] are the nodes of L at most k steps away.
Layers(N, c, L, pairs) ==
  /\ N \in [0 .. c -> SUBSET L]
  /\ \A k \in 1 .. c : N[k] = N[k - 1] \cup {v \in L : \E u \in N[k - 1] : <<u, v>> \in pairs}

\* Layers grow.
LEMMA LayersGrow ==
  ASSUME NEW c \in Nat, NEW L, NEW pairs, NEW N, Layers(N, c, L, pairs), NEW j, NEW i, j \in 0 .. c, i \in 0 .. j
  PROVE  N[i] \subseteq N[j]
<1>. DEFINE T == {k \in 0 .. c : \A l \in 0 .. k : N[l] \subseteq N[k]}
<1>1. 0 \in T
  OBVIOUS
<1>2. ASSUME NEW k \in 1 .. c, k - 1 \in T PROVE k \in T
  <2>1. N[k - 1] \subseteq N[k]
    BY DEF Layers
  <2>2. \A l \in 0 .. k : l \in 0 .. k - 1 \/ l = k
    OBVIOUS
  <2>3. \A l \in 0 .. k : N[l] \subseteq N[k]
    BY <1>2, <2>1, <2>2
  <2>. QED  BY <2>3
<1>3. \A k \in 0 .. c : k \in T
  <2>. HIDE DEF T
  <2>. QED  BY <1>1, <1>2, AllUpTo
<1>. QED  BY <1>3

\* The layers as a sequence.
Stacked(near, N, c) == near = [i \in 1 .. c + 1 |-> N[i - 1]]

\* Near computes the layers.
LEMMA NearIs ==
  ASSUME NEW e, NEW pairs, NEW seeds, NEW c \in Nat, c = Cardinality(Live(e))
  PROVE  \E N : /\ Layers(N, c, Live(e), pairs) /\ N[0] = seeds \cap Live(e)
                /\ Stacked(Near(e, pairs, seeds), N, c)
<1>. DEFINE q == [i \in 1 .. Cardinality(Live(e)) |-> i]
            n == Len(q)
            base == <<seeds \cap Live(e)>>
            Step(near, i) == Append(near, Nearer(near[i], e, pairs))
            Def(t) == [k \in 0 .. n |->
                         IF k = 0 THEN base
                         ELSE CHOOSE r \in {Step(acc, q[k]) : acc \in {t[k - 1]}} : TRUE]
            After == CHOOSE t : t = Def(t)
<1>a. q \in Seq(Nat) /\ n = c /\ \A k \in 1 .. n : q[k] = k
  OBVIOUS
<1>0. n \in Nat /\ n = Len(q)
  BY <1>a
<1>1. PICK L : L = Live(e)
  OBVIOUS
<1>. DEFINE G == [k \in 1 .. c |-> [S \in SUBSET L |-> S \cup {v \in L : \E u \in S : <<u, v>> \in pairs}]]
<1>2. G \in [1 .. c -> [SUBSET L -> SUBSET L]]
  OBVIOUS
<1>3. PICK N : Iterates(N, c, SUBSET L, seeds \cap L, G)
  <2>. HIDE DEF G
  <2>1. PICK S, a : S = SUBSET L /\ a = seeds \cap L /\ a \in S
    <3>1. seeds \cap L \in SUBSET L
      BY ONLY TRUE
    <3>. QED  BY ONLY <3>1
  <2>. QED  BY <1>2, <2>1, IteratesExist
<1>4. Layers(N, c, L, pairs) /\ N[0] = seeds \cap L
  <2>1. N \in [0 .. c -> SUBSET L] /\ N[0] = seeds \cap L /\ \A k \in 1 .. c : N[k] = G[k][N[k - 1]]
    BY <1>3 DEF Iterates
  <2>2. \A k \in 1 .. c : k - 1 \in 0 .. c
    OBVIOUS
  <2>3. \A k \in 1 .. c : N[k - 1] \in SUBSET L
    BY <2>1, <2>2
  <2>. QED  BY <2>1, <2>3 DEF Layers
<1>5. PICK b : b = [k \in 0 .. n |-> [i \in 1 .. k + 1 |-> N[i - 1]]]
  OBVIOUS
<1>6. \A k \in 0 .. n : b[k] = [i \in 1 .. k + 1 |-> N[i - 1]]
  BY <1>5
<1>. HIDE DEF q, n
<1>12. /\ DOMAIN b = 0 .. n /\ b = [k \in 0 .. n |-> b[k]] /\ b[0] = base
       /\ \A k \in 1 .. n : b[k] = Step(b[k - 1], q[k])
  <2>1. b[0] = base
    <3>1. b[0] = [i \in 1 .. 1 |-> N[i - 1]]
      <4>1. 0 \in 0 .. n /\ 0 + 1 = 1
        BY <1>0
      <4>2. b[0] = [i \in 1 .. 0 + 1 |-> N[i - 1]]
        BY <1>6, <4>1
      <4>. QED  BY <4>1, <4>2
    <3>2. N[0] = seeds \cap Live(e)
      BY <1>1, <1>4
    <3>3. [i \in 1 .. 1 |-> N[i - 1]] = <<N[0]>>
      OBVIOUS
    <3>. QED  BY <3>1, <3>2, <3>3
  <2>2. ASSUME NEW k \in 1 .. n PROVE b[k] = Step(b[k - 1], q[k])
    <3>1. k \in Nat /\ k - 1 \in 0 .. n /\ k \in 0 .. n /\ k - 1 + 1 = k /\ k \in 1 .. c
      BY <1>0, <1>a
    <3>2. PICK s, t, j : s = b[k - 1] /\ s = [i \in 1 .. k |-> N[i - 1]] /\ t = b[k] /\ j = k + 1 /\ t = [i \in 1 .. j |-> N[i - 1]]
      BY <1>6, <3>1
    <3>3. q[k] = k
      BY <1>a
    <3>4. \A i \in 1 .. j : N[i - 1] \in SUBSET L
      <4>1. \A i \in 1 .. j : i - 1 \in 0 .. c
        BY <3>1, <3>2
      <4>. QED  BY <1>4, <4>1 DEF Layers
    <3>5. s \in Seq(SUBSET L) /\ Len(s) = k
      <4>1. s \in [1 .. k -> SUBSET L]
        BY <3>1, <3>2, <3>4
      <4>2. PICK S : S = SUBSET L
        OBVIOUS
      <4>3. s \in [1 .. k -> S]
        BY <4>1, <4>2
      <4>4. s \in Seq(S) /\ Len(s) = k
        BY ONLY k \in Nat, <3>1, <4>3
      <4>. QED  BY <4>2, <4>4
    <3>6. t \in Seq(SUBSET L) /\ Len(t) = j
      <4>1. t \in [1 .. j -> SUBSET L] /\ j \in Nat
        BY <3>1, <3>2, <3>4
      <4>2. PICK S : S = SUBSET L
        OBVIOUS
      <4>3. t \in [1 .. j -> S] /\ j \in Nat
        BY <4>1, <4>2
      <4>4. t \in Seq(S) /\ Len(t) = j
        BY ONLY <4>3
      <4>. QED  BY <4>2, <4>4
    <3>7. s[k] = N[k - 1]
      BY <3>1, <3>2
    <3>8. PICK w : w = Nearer(s[k], e, pairs) /\ w = N[k] /\ w \in SUBSET L
      <4>1. N[k] = N[k - 1] \cup {v \in L : \E u \in N[k - 1] : <<u, v>> \in pairs}
        BY <1>4, <3>1 DEF Layers
      <4>2. N[k] \in SUBSET L
        BY <1>4, <3>1 DEF Layers
      <4>3. PICK R : R = N[k - 1] /\ R = s[k]
        BY <3>7
      <4>4. Nearer(R, e, pairs) = R \cup {v \in L : \E u \in R : <<u, v>> \in pairs}
        BY <1>1 DEF Nearer
      <4>. QED  BY <4>1, <4>2, <4>3, <4>4
    <3>9. t = Append(s, w)
      <4>1. PICK S : S = SUBSET L /\ s \in Seq(S) /\ t \in Seq(S) /\ w \in S
        BY <3>5, <3>6, <3>8
      <4>2. /\ Append(s, w) \in Seq(S) /\ Len(Append(s, w)) = k + 1 /\ Append(s, w)[k + 1] = w
            /\ \A i \in 1 .. k : Append(s, w)[i] = s[i]
        BY <3>5, <4>1, AppendProperties
      <4>3. PICK z : /\ z = Append(s, w) /\ z \in Seq(S) /\ Len(z) = k + 1 /\ z[k + 1] = w
                     /\ \A i \in 1 .. k : z[i] = s[i]
        BY <4>2
      <4>4. \A i \in 1 .. j : z[i] = t[i]
        <5>1. \A i \in 1 .. k : z[i] = N[i - 1] /\ t[i] = N[i - 1]
          BY <3>1, <3>2, <4>3
        <5>2. z[j] = N[k] /\ t[j] = N[k]
          BY <3>1, <3>2, <3>8, <4>3
        <5>3. \A i \in 1 .. j : i \in 1 .. k \/ i = j
          BY <3>1, <3>2
        <5>. QED  BY <5>1, <5>2, <5>3
      <4>5. Len(z) = j /\ Len(t) = j
        BY <3>2, <3>6, <4>3
      <4>6. z = t
        <5>1. z \in Seq(S) /\ t \in Seq(S) /\ Len(z) = Len(t) /\ \A i \in 1 .. Len(z) : z[i] = t[i]
          BY <4>1, <4>3, <4>4, <4>5
        <5>. QED  BY ONLY <5>1, SeqEqual
      <4>. QED  BY <4>3, <4>6
    <3>. QED  BY <3>2, <3>3, <3>8, <3>9
  <2>3. DOMAIN b = 0 .. n /\ b = [k \in 0 .. n |-> b[k]]
    BY <1>5
  <2>. QED  BY <2>1, <2>2, <2>3
<1>. HIDE DEF base, Step
<1>13. ASSUME NEW t, NEW k \in 1 .. n
      PROVE  (CHOOSE r \in {Step(acc, q[k]) : acc \in {t[k - 1]}} : TRUE) = Step(t[k - 1], q[k])
  <2>1. {Step(acc, q[k]) : acc \in {t[k - 1]}} = {Step(t[k - 1], q[k])}
    OBVIOUS
  <2>. QED  BY <2>1, OnlyOne
<1>14. b = Def(b)
  <2>1. b = [k \in 0 .. n |-> b[k]]
    BY <1>12
  <2>2. ASSUME NEW k \in 0 .. n PROVE b[k] = Def(b)[k]
    <3>1. CASE k = 0
      BY <1>12, <3>1
    <3>2. CASE k \in 1 .. n
      BY <1>0, <1>12, <1>13, <3>2
    <3>. QED  BY <1>0, <3>1, <3>2
  <2>. QED  BY <2>1, <2>2
<1>15. After = Def(After)
  <2>1. \E t : t = Def(t)
    BY <1>14
  <2>. QED  BY <2>1
<1>16. Near(e, pairs, seeds) = After[n]
  BY DEF Near, Loop, base, Step, q, n
<1>. HIDE DEF After
<1>17. After[0] = base /\ \A k \in 1 .. n : After[k] = Step(After[k - 1], q[k])
  <2>1. \A k \in 0 .. n : After[k] = Def(After)[k]
    BY <1>15
  <2>2. 0 \in 0 .. n /\ \A k \in 1 .. n : k \in 0 .. n /\ k # 0
    BY <1>0
  <2>. QED  BY <1>13, <2>1, <2>2
<1>18. After[n] = b[n]
  <2>1. PICK w, f : w \in Nat /\ w = n /\ f = After
    BY <1>0
  <2>2. w \in Nat /\ f[0] = b[0] /\ StayAlike(f, b, w)
    BY <1>12, <1>17, <2>1 DEF StayAlike
  <2>3. f[w] = b[w]
    BY ONLY <2>2, SameTable
  <2>. QED  BY <2>1, <2>3
<1>30. Near(e, pairs, seeds) = [i \in 1 .. c + 1 |-> N[i - 1]]
  <2>1. b[n] = [i \in 1 .. c + 1 |-> N[i - 1]]
    BY <1>0, <1>6, <1>a
  <2>. QED  BY <1>16, <1>18, <2>1
<1>. QED  BY <1>1, <1>4, <1>30 DEF Stacked

-----------------------------------------------------------------------------
(* Traversal: the queue *)

\* What the search keeps: the queue over L and the depth of each entry.
States(L) == {X \in [queue : Seq(L), depths : Seq(Nat), stop : BOOLEAN] : Len(X.depths) = Len(X.queue)}

\* u is d steps from the seeds and no fewer.
Exactly(u, d, N) == u \in N[d] /\ \A k \in 0 .. d - 1 : u \notin N[k]

\* The queue has no node twice, every entry has its distance, the nearer ones come first, and the
\* search has stopped when the queue is full.
Sound(st, L, N, md, lim) ==
  /\ st \in States(L)
  /\ \A i, j \in 1 .. Len(st.queue) : st.queue[i] = st.queue[j] => i = j
  /\ \A i, j \in 1 .. Len(st.queue) : i <= j => st.depths[i] <= st.depths[j]
  /\ \A j \in 1 .. Len(st.queue) : /\ Exactly(st.queue[j], st.depths[j], N) /\ st.depths[j] <= j - 1
                                   /\ md > 0 => st.depths[j] <= md
  /\ IF st.stop THEN Len(st.queue) = lim ELSE Len(st.queue) < lim

\* t is s with entries of depth d added.
Longer(s, t, d) ==
  /\ Len(s.queue) <= Len(t.queue)
  /\ \A i \in 1 .. Len(s.queue) : t.queue[i] = s.queue[i] /\ t.depths[i] = s.depths[i]
  /\ \A i \in Len(s.queue) + 1 .. Len(t.queue) : t.depths[i] = d
  /\ s.stop => t.stop

\* An entry that may be added at depth d.
Addable(st, u, d, N, md) ==
  /\ Exactly(u, d, N) /\ d <= Len(st.queue) /\ (md > 0 => d <= md)
  /\ \A j \in 1 .. Len(st.queue) : st.depths[j] <= d

\* What is queued stays queued.
LEMMA LongerHas ==
  ASSUME NEW L, NEW s, NEW t, s \in States(L), t \in States(L), NEW d, Longer(s, t, d), NEW x, InSeq(x, s.queue)
  PROVE  InSeq(x, t.queue)
<1>1. PICK k, l \in Nat : k = Len(s.queue) /\ DOMAIN s.queue = 1 .. k /\ l = Len(t.queue) /\ DOMAIN t.queue = 1 .. l
  BY DEF States
<1>2. PICK i \in 1 .. k : s.queue[i] = x
  BY <1>1 DEF InSeq
<1>3. i \in 1 .. l /\ t.queue[i] = x
  BY <1>1, <1>2 DEF Longer
<1>. QED  BY <1>1, <1>3 DEF InSeq

\* Adding is transitive.
LEMMA LongerStill ==
  ASSUME NEW L, NEW r, NEW s, NEW t, r \in States(L), s \in States(L), t \in States(L), NEW d,
         Longer(r, s, d), Longer(s, t, d)
  PROVE  Longer(r, t, d)
<1>1. PICK j, k, l \in Nat : j = Len(r.queue) /\ k = Len(s.queue) /\ l = Len(t.queue)
  BY DEF States
<1>2. j <= k /\ k <= l
  BY <1>1 DEF Longer
<1>3. \A i \in 1 .. j : t.queue[i] = r.queue[i] /\ t.depths[i] = r.depths[i]
  BY <1>1, <1>2 DEF Longer
<1>4. \A i \in j + 1 .. l : i \in j + 1 .. k \/ i \in k + 1 .. l
  BY <1>2
<1>5. \A i \in j + 1 .. k : t.depths[i] = d
  <2>1. \A i \in j + 1 .. k : i \in 1 .. k
    OBVIOUS
  <2>. QED  BY <1>1, <2>1 DEF Longer
<1>6. \A i \in k + 1 .. l : t.depths[i] = d
  BY <1>1 DEF Longer
<1>. QED  BY <1>1, <1>2, <1>3, <1>4, <1>5, <1>6 DEF Longer

\* Adding nothing.
LEMMA LongerSelf ==
  ASSUME NEW L, NEW s, s \in States(L), NEW d
  PROVE  Longer(s, s, d)
<1>1. PICK k \in Nat : k = Len(s.queue)
  BY DEF States
<1>2. \A i \in k + 1 .. k : FALSE
  OBVIOUS
<1>. QED  BY <1>1, <1>2 DEF Longer

\* What discover makes of a state.
LEMMA DiscoverIs ==
  ASSUME NEW L, NEW X \in States(L), NEW u \in L, NEW d \in Nat, NEW lim \in Nat, NEW Y, Y = discover(X, u, d, lim)
  PROVE  /\ Y \in States(L)
         /\ X.stop \/ InSeq(u, X.queue) => Y = X
         /\ ~(X.stop \/ InSeq(u, X.queue)) =>
              /\ Len(Y.queue) = Len(X.queue) + 1
              /\ Y.queue[Len(X.queue) + 1] = u /\ Y.depths[Len(X.queue) + 1] = d
              /\ \A i \in 1 .. Len(X.queue) : Y.queue[i] = X.queue[i] /\ Y.depths[i] = X.depths[i]
              /\ Y.stop <=> Len(X.queue) + 1 >= lim
<1>1. CASE X.stop \/ InSeq(u, X.queue)
  BY <1>1 DEF discover
<1>2. CASE ~(X.stop \/ InSeq(u, X.queue))
  <2>1. PICK q, p : q = X.queue /\ p = X.depths /\ q \in Seq(L) /\ p \in Seq(Nat) /\ Len(p) = Len(q)
    BY DEF States
  <2>2. PICK l \in Nat : l = Len(q)
    BY <2>1
  <2>3. /\ Append(q, u) \in Seq(L) /\ Len(Append(q, u)) = l + 1 /\ Append(q, u)[l + 1] = u
        /\ \A i \in 1 .. l : Append(q, u)[i] = q[i]
    BY <2>1, <2>2, AppendProperties
  <2>4. PICK S : S = Nat /\ p \in Seq(S) /\ d \in S
    BY <2>1
  <2>5. /\ Append(p, d) \in Seq(S) /\ Len(Append(p, d)) = l + 1 /\ Append(p, d)[l + 1] = d
        /\ \A i \in 1 .. l : Append(p, d)[i] = p[i]
    BY <2>1, <2>2, <2>4, AppendProperties
  <2>6. PICK a, z : a = Append(q, u) /\ z = Append(p, d)
    OBVIOUS
  <2>7. PICK f : f = (l + 1 >= lim) /\ f \in BOOLEAN
    <3>1. CASE l + 1 >= lim
      <4>1. (l + 1 >= lim) = TRUE
        BY <3>1
      <4>. QED  BY <4>1
    <3>2. CASE ~(l + 1 >= lim)
      <4>1. (l + 1 >= lim) = FALSE
        BY <3>2
      <4>. QED  BY <4>1
    <3>. QED  BY <3>1, <3>2
  <2>8. Y = [queue |-> a, depths |-> z, stop |-> f]
    BY <1>2, <2>1, <2>2, <2>6, <2>7 DEF discover
  <2>9. Y.queue = a /\ Y.depths = z /\ Y.stop = f
    BY <2>8
  <2>10. Y \in States(L)
    BY <2>3, <2>4, <2>5, <2>6, <2>7, <2>8, <2>9 DEF States
  <2>11. /\ Len(Y.queue) = l + 1 /\ Y.queue[l + 1] = u /\ Y.depths[l + 1] = d
         /\ \A i \in 1 .. l : Y.queue[i] = q[i] /\ Y.depths[i] = p[i]
    BY <2>3, <2>5, <2>6, <2>9
  <2>12. Y.stop <=> l + 1 >= lim
    BY <2>7, <2>9
  <2>13. X.queue = q /\ X.depths = p /\ Len(X.queue) = l
    BY <2>1, <2>2
  <2>. QED  BY <1>2, <2>10, <2>11, <2>12, <2>13
<1>. QED  BY <1>1, <1>2

\* Marking and queueing a node keeps the queue sound.
LEMMA DiscoverSound ==
  ASSUME NEW L, NEW N, NEW md \in Nat, NEW lim \in Nat, NEW X, Sound(X, L, N, md, lim), NEW u \in L, NEW d \in Nat,
         InSeq(u, X.queue) \/ Addable(X, u, d, N, md), NEW Y, Y = discover(X, u, d, lim)
  PROVE  Sound(Y, L, N, md, lim) /\ Longer(X, Y, d) /\ (Y.stop \/ InSeq(u, Y.queue))
<1>1. X \in States(L) /\ Y \in States(L)
  <2>1. X \in States(L)
    BY DEF Sound
  <2>. QED  BY <2>1, DiscoverIs
<1>2. CASE X.stop \/ InSeq(u, X.queue)
  <2>1. Y = X
    BY <1>1, <1>2, DiscoverIs
  <2>. QED  BY <1>1, <1>2, <2>1, LongerSelf
<1>3. CASE ~(X.stop \/ InSeq(u, X.queue))
  <2>1. PICK l \in Nat : l = Len(X.queue) /\ DOMAIN X.queue = 1 .. l
    BY <1>1 DEF States
  <2>2. /\ Len(Y.queue) = l + 1 /\ Y.queue[l + 1] = u /\ Y.depths[l + 1] = d
        /\ \A i \in 1 .. l : Y.queue[i] = X.queue[i] /\ Y.depths[i] = X.depths[i]
        /\ Y.stop <=> l + 1 >= lim
    <3>1. /\ Len(Y.queue) = Len(X.queue) + 1
          /\ Y.queue[Len(X.queue) + 1] = u /\ Y.depths[Len(X.queue) + 1] = d
          /\ \A i \in 1 .. Len(X.queue) : Y.queue[i] = X.queue[i] /\ Y.depths[i] = X.depths[i]
          /\ Y.stop <=> Len(X.queue) + 1 >= lim
      BY <1>1, <1>3, DiscoverIs
    <3>. QED  BY <2>1, <3>1
  <2>3. PICK q, p, a, z : q = X.queue /\ p = X.depths /\ a = Y.queue /\ z = Y.depths
    OBVIOUS
  <2>4. /\ \A i, j \in 1 .. l : q[i] = q[j] => i = j
        /\ \A i, j \in 1 .. l : i <= j => p[i] <= p[j]
        /\ \A j \in 1 .. l : Exactly(q[j], p[j], N) /\ p[j] <= j - 1 /\ (md > 0 => p[j] <= md)
        /\ l < lim
    BY <1>3, <2>1, <2>3 DEF Sound
  <2>5. Exactly(u, d, N) /\ d <= l /\ (md > 0 => d <= md) /\ \A j \in 1 .. l : p[j] <= d
    BY <1>3, <2>1, <2>3 DEF Addable
  <2>6. \A i \in 1 .. l : q[i] # u
    BY <1>3, <2>1, <2>3 DEF InSeq
  <2>7. \A i \in 1 .. l + 1 : i \in 1 .. l \/ i = l + 1
    OBVIOUS
  <2>8. a[l + 1] = u /\ z[l + 1] = d /\ \A i \in 1 .. l : a[i] = q[i] /\ z[i] = p[i]
    BY <2>2, <2>3
  <2>9. \A i, j \in 1 .. l + 1 : a[i] = a[j] => i = j
    BY <2>4, <2>6, <2>7, <2>8
  <2>10. \A i, j \in 1 .. l + 1 : i <= j => z[i] <= z[j]
    <3>1. ASSUME NEW i \in 1 .. l + 1, NEW j \in 1 .. l + 1, i <= j PROVE z[i] <= z[j]
      <4>1. CASE j \in 1 .. l
        BY <2>4, <2>8, <3>1, <4>1
      <4>2. CASE j = l + 1 /\ i \in 1 .. l
        BY <2>5, <2>8, <4>2
      <4>3. CASE j = l + 1 /\ i = l + 1
        BY <2>8, <4>3
      <4>. QED  BY <2>7, <4>1, <4>2, <4>3
    <3>. QED  BY <3>1
  <2>11. \A j \in 1 .. l + 1 : Exactly(a[j], z[j], N) /\ z[j] <= j - 1 /\ (md > 0 => z[j] <= md)
    BY <2>4, <2>5, <2>7, <2>8
  <2>12. IF Y.stop THEN l + 1 = lim ELSE l + 1 < lim
    BY <2>2, <2>4
  <2>13. Sound(Y, L, N, md, lim)
    BY <1>1, <2>2, <2>3, <2>9, <2>10, <2>11, <2>12 DEF Sound
  <2>14. Longer(X, Y, d)
    <3>1. \A i \in l + 1 .. l + 1 : Y.depths[i] = d
      BY <2>2
    <3>2. l <= l + 1
      OBVIOUS
    <3>. QED  BY <1>3, <2>1, <2>2, <3>1, <3>2 DEF Longer
  <2>15. InSeq(u, Y.queue)
    <3>1. l + 1 \in 1 .. l + 1 /\ DOMAIN Y.queue = 1 .. l + 1
      BY <1>1, <2>1, <2>2 DEF States
    <3>. QED  BY <2>2, <3>1 DEF InSeq
  <2>. QED  BY <2>13, <2>14, <2>15
<1>. QED  BY <1>2, <1>3

\* A row is discovered entry by entry.
Discovered(st, q, d, lim) == Loop(LAMBDA s, v : discover(s, v, d, lim), st, q)

\* The states on the way.
Marked(b, n, L, st, q, d, lim) ==
  /\ b \in [0 .. n -> States(L)] /\ b[0] = st
  /\ \A k \in 1 .. n : b[k] = discover(b[k - 1], q[k], d, lim)

\* Discovering a row goes through such states.
LEMMA DiscoveredIs ==
  ASSUME NEW L, NEW st \in States(L), NEW q \in Seq(L), NEW d \in Nat, NEW lim \in Nat
  PROVE  \E b : Marked(b, Len(q), L, st, q, d, lim) /\ Discovered(st, q, d, lim) = b[Len(q)]
<1>. DEFINE n == Len(q)
            A == States(L)
            base == st
            Step(s, v) == discover(s, v, d, lim)
            F == [k \in 1 .. n |-> [X \in A |-> Step(X, q[k])]]
            Def(t) == [k \in 0 .. n |->
                         IF k = 0 THEN base
                         ELSE CHOOSE r \in {Step(acc, q[k]) : acc \in {t[k - 1]}} : TRUE]
            After == CHOOSE t : t = Def(t)
<1>0. n \in Nat /\ n = Len(q)
  OBVIOUS
<1>1. base \in A
  OBVIOUS
<1>2. \A k \in 1 .. n, X \in A : Step(X, q[k]) \in A
  <2>1. \A k \in 1 .. n : q[k] \in L
    OBVIOUS
  <2>. QED  BY <2>1, DiscoverIs
<1>10. F \in [1 .. n -> [A -> A]]
  <2>. HIDE DEF A, Step, n
  <2>. QED  BY <1>2
<1>11. PICK b : Iterates(b, n, A, base, F)
  <2>. HIDE DEF A, F, base, n
  <2>. QED  BY <1>0, <1>1, <1>10, IteratesExist
<1>. HIDE DEF A, base, Step, n
<1>12. /\ b \in [0 .. n -> A] /\ b[0] = base
      /\ \A k \in 1 .. n : b[k] = Step(b[k - 1], q[k])
  <2>1. b \in [0 .. n -> A] /\ b[0] = base /\ \A k \in 1 .. n : b[k] = F[k][b[k - 1]]
    BY <1>11 DEF Iterates
  <2>2. \A k \in 1 .. n : k - 1 \in 0 .. n
    BY <1>0
  <2>3. \A k \in 1 .. n : b[k - 1] \in A
    BY <2>1, <2>2
  <2>. QED  BY <2>1, <2>3
<1>13. ASSUME NEW t, NEW k \in 1 .. n
      PROVE  (CHOOSE r \in {Step(acc, q[k]) : acc \in {t[k - 1]}} : TRUE) = Step(t[k - 1], q[k])
  <2>1. {Step(acc, q[k]) : acc \in {t[k - 1]}} = {Step(t[k - 1], q[k])}
    OBVIOUS
  <2>. QED  BY <2>1, OnlyOne
<1>14. b = Def(b)
  <2>1. b = [k \in 0 .. n |-> b[k]]
    BY <1>12
  <2>2. ASSUME NEW k \in 0 .. n PROVE b[k] = Def(b)[k]
    <3>1. CASE k = 0
      BY <1>12, <3>1
    <3>2. CASE k \in 1 .. n
      BY <1>0, <1>12, <1>13, <3>2
    <3>. QED  BY <1>0, <3>1, <3>2
  <2>. QED  BY <2>1, <2>2
<1>15. After = Def(After)
  <2>1. \E t : t = Def(t)
    BY <1>14
  <2>. QED  BY <2>1
<1>16. Discovered(st, q, d, lim) = After[n]
  BY DEF Discovered, Loop, base, Step, n
<1>. HIDE DEF After
<1>17. After[0] = base /\ \A k \in 1 .. n : After[k] = Step(After[k - 1], q[k])
  <2>1. \A k \in 0 .. n : After[k] = Def(After)[k]
    BY <1>15
  <2>2. 0 \in 0 .. n /\ \A k \in 1 .. n : k \in 0 .. n /\ k # 0
    BY <1>0
  <2>. QED  BY <1>13, <2>1, <2>2
<1>18. After[n] = b[n]
  <2>1. PICK w, f : w \in Nat /\ w = n /\ f = After
    BY <1>0
  <2>2. w \in Nat /\ f[0] = b[0] /\ StayAlike(f, b, w)
    BY <1>12, <1>17, <2>1 DEF StayAlike
  <2>3. f[w] = b[w]
    BY ONLY <2>2, SameTable
  <2>. QED  BY <2>1, <2>3
<1>20. Marked(b, n, L, st, q, d, lim)
  BY <1>12 DEF Marked, A, base, Step
<1>. QED  BY <1>16, <1>18, <1>20 DEF n

-----------------------------------------------------------------------------
(* Traversal: a whole row *)

\* Every entry of the row is queued, unless the search has stopped.
Queued(st, q, k) == ~st.stop => \A i \in 1 .. k : InSeq(q[i], st.queue)

\* Discovering a whole row.
LEMMA DiscoveredSound ==
  ASSUME NEW L, NEW N, NEW md \in Nat, NEW lim \in Nat, NEW st, Sound(st, L, N, md, lim), NEW q \in Seq(L), NEW d \in Nat,
         d <= Len(st.queue), md > 0 => d <= md, \A j \in 1 .. Len(st.queue) : st.depths[j] <= d,
         \A k \in 1 .. Len(q) : InSeq(q[k], st.queue) \/ Exactly(q[k], d, N), NEW t, t = Discovered(st, q, d, lim)
  PROVE  Sound(t, L, N, md, lim) /\ Longer(st, t, d) /\ Queued(t, q, Len(q))
<1>1. PICK n \in Nat : n = Len(q) /\ \A k \in 1 .. n : q[k] \in L
  OBVIOUS
<1>2. st \in States(L)
  BY DEF Sound
<1>3. PICK b : Marked(b, n, L, st, q, d, lim) /\ t = b[n]
  BY <1>1, <1>2, DiscoveredIs
<1>4. /\ b \in [0 .. n -> States(L)] /\ b[0] = st
      /\ \A k \in 1 .. n : b[k] = discover(b[k - 1], q[k], d, lim)
  BY <1>3 DEF Marked
<1>. DEFINE T == {k \in 0 .. n : Sound(b[k], L, N, md, lim) /\ Longer(st, b[k], d) /\ Queued(b[k], q, k)}
<1>5. 0 \in T
  <2>1. Longer(st, st, d)
    BY <1>2, LongerSelf
  <2>2. Queued(st, q, 0)
    BY DEF Queued
  <2>. QED  BY <1>4, <2>1, <2>2
<1>6. ASSUME NEW k \in 1 .. n, k - 1 \in T PROVE k \in T
  <2>1. PICK X, Y, u : X = b[k - 1] /\ Y = b[k] /\ u = q[k] /\ u \in L
    BY <1>1
  <2>2. Sound(X, L, N, md, lim) /\ Longer(st, X, d) /\ Queued(X, q, k - 1)
    BY <1>6, <2>1
  <2>3. Y = discover(X, u, d, lim)
    BY <1>4, <2>1
  <2>4. X \in States(L)
    BY <2>2 DEF Sound
  <2>5. InSeq(u, X.queue) \/ Addable(X, u, d, N, md)
    <3>1. CASE InSeq(u, st.queue)
      BY <1>2, <2>2, <2>4, <3>1, LongerHas
    <3>2. CASE ~InSeq(u, st.queue)
      <4>1. Exactly(u, d, N)
        BY <1>1, <2>1, <3>2
      <4>2. PICK l, m \in Nat : l = Len(st.queue) /\ m = Len(X.queue)
        BY <1>2, <2>4 DEF States
      <4>3. d <= m
        BY <2>2, <4>2 DEF Longer
      <4>4. \A j \in 1 .. m : X.depths[j] <= d
        <5>1. \A j \in 1 .. m : j \in 1 .. l \/ j \in l + 1 .. m
          OBVIOUS
        <5>2. \A j \in 1 .. l : X.depths[j] <= d
          BY <2>2, <4>2 DEF Longer
        <5>3. \A j \in l + 1 .. m : X.depths[j] = d
          BY <2>2, <4>2 DEF Longer
        <5>4. d <= d
          OBVIOUS
        <5>. QED  BY <5>1, <5>2, <5>3, <5>4
      <4>. QED  BY <4>1, <4>2, <4>3, <4>4 DEF Addable
    <3>. QED  BY <3>1, <3>2
  <2>6. Sound(Y, L, N, md, lim) /\ Longer(X, Y, d) /\ (Y.stop \/ InSeq(u, Y.queue))
    BY <2>1, <2>2, <2>3, <2>5, DiscoverSound
  <2>7. Y \in States(L)
    BY <2>6 DEF Sound
  <2>8. Longer(st, Y, d)
    BY <1>2, <2>2, <2>4, <2>6, <2>7, LongerStill
  <2>9. Queued(Y, q, k)
    <3>1. SUFFICES ASSUME ~Y.stop, NEW i \in 1 .. k PROVE InSeq(q[i], Y.queue)
      BY DEF Queued
    <3>2. ~X.stop
      BY <2>6, <3>1 DEF Longer
    <3>3. CASE i = k
      BY <2>1, <2>6, <3>1, <3>3
    <3>4. CASE i \in 1 .. k - 1
      <4>1. InSeq(q[i], X.queue)
        BY <2>2, <3>2, <3>4 DEF Queued
      <4>. QED  BY <2>4, <2>6, <2>7, <4>1, LongerHas
    <3>. QED  BY <3>3, <3>4
  <2>. QED  BY <2>1, <2>6, <2>8, <2>9
<1>7. n \in T
  <2>. HIDE DEF T
  <2>1. \A k \in 0 .. n : k \in T
    BY <1>5, <1>6, AllUpTo
  <2>. QED  BY <2>1
<1>. QED  BY <1>1, <1>3, <1>7

\* The neighbours of entry i are queued.
Expanded(st, i, L, pairs) == \A v \in L : <<st.queue[i], v>> \in pairs => InSeq(v, st.queue)

\* When the entries below depth K are expanded, everything up to K steps away is queued.
LEMMA LayersQueued ==
  ASSUME NEW c \in Nat, NEW L, NEW pairs, NEW N, Layers(N, c, L, pairs), NEW md \in Nat, NEW lim \in Nat, NEW st,
         Sound(st, L, N, md, lim), \A x \in N[0] : InSeq(x, st.queue), NEW K \in 0 .. c,
         \A i \in 1 .. Len(st.queue) : st.depths[i] < K => Expanded(st, i, L, pairs), NEW k \in 0 .. K, NEW x \in N[k]
  PROVE  InSeq(x, st.queue)
<1>. DEFINE T == {l \in 0 .. K : \A y \in N[l] : InSeq(y, st.queue)}
<1>1. 0 \in T
  OBVIOUS
<1>2. ASSUME NEW l \in 1 .. K, l - 1 \in T PROVE l \in T
  <2>1. SUFFICES ASSUME NEW y \in N[l], y \notin N[l - 1] PROVE InSeq(y, st.queue)
    BY <1>2
  <2>2. PICK u \in N[l - 1] : y \in L /\ <<u, y>> \in pairs
    <3>1. l \in 1 .. c
      OBVIOUS
    <3>2. N[l] = N[l - 1] \cup {v \in L : \E w \in N[l - 1] : <<w, v>> \in pairs}
      BY <3>1 DEF Layers
    <3>. QED  BY <2>1, <3>2
  <2>3. PICK m \in Nat : m = Len(st.queue) /\ DOMAIN st.queue = 1 .. m
    BY DEF Sound, States
  <2>4. PICK i \in 1 .. m : st.queue[i] = u
    BY <1>2, <2>2, <2>3 DEF InSeq
  <2>5. st.depths[i] \in Nat /\ Exactly(u, st.depths[i], N)
    BY <2>3, <2>4 DEF Sound, States
  <2>6. ~(l - 1 \in 0 .. st.depths[i] - 1)
    BY <2>2, <2>5 DEF Exactly
  <2>7. st.depths[i] < K
    BY <2>5, <2>6
  <2>8. Expanded(st, i, L, pairs)
    BY <2>3, <2>7
  <2>. QED  BY <2>2, <2>4, <2>8 DEF Expanded
<1>3. \A l \in 0 .. K : l \in T
  <2>1. K \in Nat
    OBVIOUS
  <2>. HIDE DEF T
  <2>. QED  BY <1>1, <1>2, <2>1, AllUpTo
<1>. QED  BY <1>3

\* The queue is not longer than the nodes are many.
LEMMA QueueFits ==
  ASSUME NEW L, IsFiniteSet(L), NEW N, NEW md, NEW lim, NEW st, Sound(st, L, N, md, lim)
  PROVE  Len(st.queue) <= Cardinality(L) /\ Cardinality(Elems(st.queue)) = Len(st.queue) /\ IsFiniteSet(Elems(st.queue))
<1>1. PICK q, l : q = st.queue /\ l = Len(q) /\ q \in Seq(L) /\ l \in Nat /\ DOMAIN q = 1 .. l
  BY DEF Sound, States
<1>2. \A i, j \in 1 .. l : q[i] = q[j] => i = j
  BY <1>1 DEF Sound
<1>3. PICK E : E = Elems(q) /\ E = {q[i] : i \in 1 .. l}
  BY <1>1 DEF Elems
<1>4. E \subseteq L
  <2>1. \A i \in 1 .. l : q[i] \in L
    BY <1>1
  <2>. QED  BY <1>3, <2>1
<1>5. IsFiniteSet(1 .. l) /\ Cardinality(1 .. l) = l
  <2>1. l \in Nat
    BY <1>1
  <2>2. IsFiniteSet(1 .. l) /\ Cardinality(1 .. l) = IF 1 > l THEN 0 ELSE l - 1 + 1
    BY ONLY <2>1, FS_Interval
  <2>. QED  BY <2>1, <2>2
<1>6. q \in Bijection(1 .. l, E)
  <2>1. q \in [1 .. l -> E]
    BY <1>1, <1>3
  <2>2. q \in Injection(1 .. l, E)
    BY <1>2, <2>1 DEF Injection, IsInjective
  <2>3. q \in Surjection(1 .. l, E)
    BY <1>3, <2>1 DEF Surjection
  <2>. QED  BY <2>2, <2>3 DEF Bijection
<1>7. IsFiniteSet(E) /\ Cardinality(E) = l
  <2>1. ExistsBijection(1 .. l, E)
    BY <1>6 DEF ExistsBijection
  <2>. QED  BY <1>5, <2>1, FS_Bijection
<1>8. Cardinality(E) <= Cardinality(L)
  BY <1>4, FS_Subset
<1>. QED  BY <1>1, <1>3, <1>7, <1>8

-----------------------------------------------------------------------------
(* Traversal: one position of the queue *)

\* The rows list the pairs within L.
Leads(rows, n, L, pairs) ==
  /\ L \subseteq 0 .. n - 1 /\ DOMAIN rows = 1 .. n
  /\ \A u \in L : rows[u + 1] \in Seq(L) /\ \A v \in L : InSeq(v, rows[u + 1]) <=> <<u, v>> \in pairs

\* The step of the search at one position of the queue.
VisitAt(rows, md, lim, st, head) ==
  IF st.stop \/ head > Len(st.queue) THEN st
  ELSE IF md > 0 /\ st.depths[head] >= md THEN st
  ELSE Discovered(st, rows[st.queue[head] + 1], st.depths[head] + 1, lim)

\* Before position head is visited: the seeds are queued, what is before head is expanded, and no
\* entry is more than a step further than the one at head.
Progress(st, head, L, pairs, N, md, lim) ==
  /\ Sound(st, L, N, md, lim)
  /\ ~st.stop =>
       /\ \A x \in N[0] : InSeq(x, st.queue)
       /\ \A i \in 1 .. Len(st.queue) : i < head /\ (md = 0 \/ st.depths[i] < md) => Expanded(st, i, L, pairs)
       /\ head <= Len(st.queue) => \A j \in 1 .. Len(st.queue) : st.depths[j] <= st.depths[head] + 1

\* A visit.
LEMMA VisitSound ==
  ASSUME NEW c \in Nat, NEW L, IsFiniteSet(L), c = Cardinality(L), NEW pairs, NEW N, Layers(N, c, L, pairs),
         NEW n \in Nat, NEW rows, Leads(rows, n, L, pairs), NEW md \in Nat, NEW lim \in Nat,
         NEW st, NEW head \in Nat, head >= 1, Progress(st, head, L, pairs, N, md, lim),
         NEW t, t = VisitAt(rows, md, lim, st, head)
  PROVE  Progress(t, head + 1, L, pairs, N, md, lim)
<1>1. Sound(st, L, N, md, lim) /\ st \in States(L)
  BY DEF Progress, Sound
<1>2. PICK q, p, l : /\ q = st.queue /\ p = st.depths /\ l = Len(q) /\ l \in Nat /\ q \in Seq(L) /\ p \in Seq(Nat)
                     /\ Len(p) = l /\ DOMAIN q = 1 .. l
  BY <1>1 DEF States
<1>3. \A j \in 1 .. l : p[j] \in Nat /\ q[j] \in L
  BY <1>2, SMTT(30)
<1>4. CASE st.stop
  <2>1. t = st
    BY <1>4 DEF VisitAt
  <2>. QED  BY <1>1, <1>4, <2>1 DEF Progress
<1>5. CASE ~st.stop /\ head > l
  <2>1. t = st
    BY <1>2, <1>5 DEF VisitAt
  <2>2. ~(head + 1 <= l)
    BY <1>2, <1>5
  <2>3. \A i \in 1 .. l : i < head
    BY <1>2, <1>5
  <2>. QED  BY <1>1, <1>2, <1>5, <2>1, <2>2, <2>3 DEF Progress
<1>6. CASE ~st.stop /\ head \in 1 .. l
  <2>0. PICK x, u : x = p[head] /\ u = q[head] /\ x \in Nat /\ u \in L
    BY <1>3, <1>6
  <2>1. /\ \A y \in N[0] : InSeq(y, q)
        /\ \A i \in 1 .. l : i < head /\ (md = 0 \/ p[i] < md) => Expanded(st, i, L, pairs)
        /\ \A j \in 1 .. l : p[j] <= x + 1
    <3>1. head <= l
      BY <1>2, <1>6
    <3>. QED  BY <1>2, <1>6, <2>0, <3>1 DEF Progress
  <2>2. /\ \A i, j \in 1 .. l : i <= j => p[i] <= p[j]
        /\ \A j \in 1 .. l : Exactly(q[j], p[j], N) /\ p[j] <= j - 1 /\ (md > 0 => p[j] <= md)
    BY <1>1, <1>2 DEF Sound
  <2>3. CASE md > 0 /\ x >= md
    <3>1. t = st
      <4>1. ~(head > l)
        BY <1>2, <1>6
      <4>. QED  BY <1>2, <1>6, <2>0, <2>3, <4>1 DEF VisitAt
    <3>2. \A i \in 1 .. l : i < head + 1 /\ (md = 0 \/ p[i] < md) => i < head
      BY <1>2, <1>3, <1>6, <2>0, <2>3, SMTT(30)
    <3>3. ASSUME head + 1 <= l, NEW j \in 1 .. l PROVE p[j] <= p[head + 1] + 1
      <4>1. head + 1 \in 1 .. l /\ head <= head + 1
        BY <1>2, <3>3
      <4>2. x <= p[head + 1] /\ p[head + 1] \in Nat
        BY <1>3, <1>6, <2>0, <2>2, <4>1
      <4>. QED  BY <1>3, <2>0, <2>1, <4>2
    <3>. QED  BY <1>1, <1>2, <1>6, <2>1, <3>1, <3>2, <3>3 DEF Progress
  <2>4. CASE ~(md > 0 /\ x >= md)
    <3>1. PICK d, row : d = x + 1 /\ row = rows[u + 1] /\ d \in Nat
      BY <2>0
    <3>2. t = Discovered(st, row, d, lim)
      <4>1. ~(head > l)
        BY <1>2, <1>6
      <4>. QED  BY <1>2, <1>6, <2>0, <2>4, <3>1, <4>1 DEF VisitAt
    <3>3. row \in Seq(L) /\ \A v \in L : InSeq(v, row) <=> <<u, v>> \in pairs
      BY <2>0, <3>1 DEF Leads
    <3>4. PICK m \in Nat : m = Len(row) /\ DOMAIN row = 1 .. m
      BY <3>3
    <3>5. l <= c
      BY <1>1, <1>2, QueueFits
    <3>6. x <= head - 1 /\ d <= l /\ d \in 1 .. c /\ x \in 0 .. c
      <4>1. x <= head - 1
        BY <1>6, <2>0, <2>2
      <4>2. l \in Nat /\ head \in 1 .. l /\ x \in Nat /\ d = x + 1 /\ l <= c /\ c \in Nat
        BY <1>2, <1>6, <2>0, <3>1, <3>5
      <4>. QED  BY ONLY <4>1, <4>2
    <3>7. md > 0 => d <= md
      BY <2>0, <2>4, <3>1
    <3>8. \A j \in 1 .. l : p[j] <= d
      BY <2>1, <3>1
    <3>9. ASSUME NEW y \in N[x] PROVE InSeq(y, q)
      <4>1. ASSUME NEW i \in 1 .. l, p[i] < x PROVE Expanded(st, i, L, pairs)
        <5>1. i < head
          <6>1. i \in Nat /\ p[i] \in Nat /\ ~(x <= p[i])
            <7>1. PICK z : z = p[i] /\ z \in Nat /\ z < x /\ x \in Nat
              BY <1>3, <2>0, <4>1
            <7>2. ~(x <= z)
              BY ONLY <7>1
            <7>. QED  BY <1>2, <7>1, <7>2
          <6>2. ~(head <= i)
            BY <1>6, <2>0, <2>2, <6>1
          <6>. QED  BY <6>1, <6>2
        <5>2. md = 0 \/ p[i] < md
          BY <1>3, <2>0, <2>4, <4>1
        <5>. QED  BY <2>1, <5>1, <5>2
      <4>2. x \in 0 .. x
        BY <2>0
      <4>. QED  BY <1>1, <1>2, <2>1, <3>6, <3>9, <4>1, <4>2, LayersQueued
    <3>10. ASSUME NEW k \in 1 .. Len(row) PROVE InSeq(row[k], st.queue) \/ Exactly(row[k], d, N)
      <4>0. PICK v \in L : v = row[k] /\ <<u, v>> \in pairs
        <5>1. InSeq(row[k], row) /\ row[k] \in L
          BY <3>3, <3>4, <3>10 DEF InSeq
        <5>. QED  BY <3>3, <5>1
      <4>1. SUFFICES ASSUME ~InSeq(v, q) PROVE Exactly(v, d, N)
        BY <1>2, <4>0
      <4>2. v \in N[d]
        <5>1. N[d] = N[d - 1] \cup {w \in L : \E z \in N[d - 1] : <<z, w>> \in pairs}
          BY <3>6 DEF Layers
        <5>2. d - 1 = x /\ u \in N[x]
          BY <1>6, <2>0, <2>2, <3>1 DEF Exactly
        <5>3. v \in L /\ u \in N[d - 1] /\ <<u, v>> \in pairs
          BY <4>0, <5>2
        <5>. QED  BY <5>1, <5>3
      <4>3. v \notin N[x]
        BY <3>9, <4>1
      <4>4. ASSUME NEW i \in 0 .. d - 1 PROVE v \notin N[i]
        <5>1. i \in 0 .. x
          BY <2>0, <3>1
        <5>2. N[i] \subseteq N[x]
          BY <3>6, <5>1, LayersGrow
        <5>. QED  BY <4>3, <5>2
      <4>. QED  BY <4>2, <4>4 DEF Exactly
    <3>11. Sound(t, L, N, md, lim) /\ Longer(st, t, d) /\ Queued(t, row, Len(row))
      <4>1. d <= Len(st.queue) /\ \A j \in 1 .. Len(st.queue) : st.depths[j] <= d
        BY <1>2, <3>6, <3>8
      <4>. QED  BY <1>1, <3>1, <3>2, <3>3, <3>7, <3>10, <4>1, DiscoveredSound
    <3>12. SUFFICES ASSUME ~t.stop
                    PROVE  /\ \A y \in N[0] : InSeq(y, t.queue)
                           /\ \A i \in 1 .. Len(t.queue) : i < head + 1 /\ (md = 0 \/ t.depths[i] < md)
                                                             => Expanded(t, i, L, pairs)
                           /\ head + 1 <= Len(t.queue) =>
                                \A j \in 1 .. Len(t.queue) : t.depths[j] <= t.depths[head + 1] + 1
      BY <3>11 DEF Progress
    <3>13. t \in States(L)
      BY <3>11 DEF Sound
    <3>14. \A y : InSeq(y, q) => InSeq(y, t.queue)
      BY <1>1, <1>2, <3>11, <3>13, LongerHas
    <3>15. PICK g, f, h : /\ g = t.queue /\ f = t.depths /\ h = Len(g) /\ h \in Nat
                          /\ \A j \in 1 .. h : f[j] \in Nat
      BY <3>13, SMTT(30) DEF States
    <3>16. /\ l <= h /\ \A i \in 1 .. l : g[i] = q[i] /\ f[i] = p[i]
           /\ \A i \in l + 1 .. h : f[i] = d
      BY <1>2, <3>11, <3>15 DEF Longer
    <3>17. ASSUME NEW i \in 1 .. h, i < head + 1, md = 0 \/ f[i] < md PROVE Expanded(t, i, L, pairs)
      <4>1. SUFFICES ASSUME NEW v \in L, <<g[i], v>> \in pairs PROVE InSeq(v, g)
        BY <3>15 DEF Expanded
      <4>2. i \in 1 .. l /\ g[i] = q[i] /\ f[i] = p[i]
        BY <1>2, <1>6, <3>16, <3>17
      <4>3. CASE i < head
        <5>1. Expanded(st, i, L, pairs)
          BY <2>1, <3>17, <4>2, <4>3
        <5>2. InSeq(v, q)
          BY <1>2, <4>1, <4>2, <5>1 DEF Expanded
        <5>. QED  BY <3>14, <3>15, <5>2
      <4>4. CASE i = head
        <5>1. InSeq(v, row)
          BY <2>0, <3>3, <4>1, <4>2, <4>4
        <5>2. PICK k \in 1 .. m : row[k] = v
          BY <3>4, <5>1 DEF InSeq
        <5>. QED  BY <3>4, <3>11, <3>12, <3>15, <5>2 DEF Queued
      <4>. QED  BY <3>17, <4>2, <4>3, <4>4
    <3>18. ASSUME head + 1 <= h, NEW j \in 1 .. h PROVE f[j] <= f[head + 1] + 1
      <4>1. head + 1 \in 1 .. h /\ head <= head + 1 /\ head \in 1 .. h
        BY <1>2, <1>6, <3>15, <3>16, <3>18
      <4>2. \A i, k \in 1 .. h : i <= k => f[i] <= f[k]
        BY <3>11, <3>15 DEF Sound
      <4>3. f[head] = x
        BY <1>6, <2>0, <3>16
      <4>4. f[j] <= x + 1
        <5>1. j \in 1 .. l \/ j \in l + 1 .. h
          BY <1>2, <3>15
        <5>. QED  BY <2>1, <3>1, <3>16, <5>1
      <4>5. x <= f[head + 1] /\ f[head + 1] \in Nat /\ f[j] \in Nat
        BY <3>15, <4>1, <4>2, <4>3
      <4>. QED  BY <2>0, <4>4, <4>5
    <3>. QED  BY <2>1, <3>14, <3>15, <3>17, <3>18
  <2>. QED  BY <2>3, <2>4
<1>. QED  BY <1>2, <1>4, <1>5, <1>6

-----------------------------------------------------------------------------
(* Traversal: from the seeds to the end *)

\* Before the seeds.
Start == [queue |-> << >>, depths |-> << >>, stop |-> FALSE]

\* The seeds are queued.
LEMMA SeedsSound ==
  ASSUME NEW L, NEW pairs, NEW N, NEW md \in Nat, NEW lim \in Nat, lim >= 1, NEW seeds \in Seq(L),
         \A x : x \in N[0] <=> InSeq(x, seeds), NEW t, t = Discovered(Start, seeds, 0, lim)
  PROVE  Progress(t, 1, L, pairs, N, md, lim)
<1>1. Start.queue = << >> /\ Start.depths = << >> /\ Start.stop = FALSE /\ Len(Start.queue) = 0
  BY DEF Start
<1>2. Start \in States(L)
  BY DEF Start, States
<1>3. \A j \in 1 .. Len(Start.queue) : FALSE
  BY <1>1
<1>4. Sound(Start, L, N, md, lim)
  <2>1. Len(Start.queue) < lim
    BY <1>1
  <2>. QED  BY <1>1, <1>2, <1>3, <2>1 DEF Sound
<1>5. PICK n \in Nat : n = Len(seeds) /\ DOMAIN seeds = 1 .. n
  OBVIOUS
<1>6. PICK d : d = 0 /\ d \in Nat
  OBVIOUS
<1>7. \A k \in 1 .. Len(seeds) : InSeq(seeds[k], Start.queue) \/ Exactly(seeds[k], d, N)
  <2>1. \A k \in 1 .. n : seeds[k] \in N[0]
    BY <1>5 DEF InSeq
  <2>2. \A k \in 0 .. d - 1 : FALSE
    BY <1>6
  <2>. QED  BY <1>5, <1>6, <2>1, <2>2 DEF Exactly
<1>8. d <= Len(Start.queue) /\ (md > 0 => d <= md) /\ \A j \in 1 .. Len(Start.queue) : Start.depths[j] <= d
  BY <1>1, <1>3, <1>6
<1>9. Sound(t, L, N, md, lim) /\ Longer(Start, t, d) /\ Queued(t, seeds, Len(seeds))
  BY <1>4, <1>6, <1>7, <1>8, DiscoveredSound
<1>10. ASSUME ~t.stop, NEW x \in N[0] PROVE InSeq(x, t.queue)
  <2>1. PICK k \in 1 .. n : seeds[k] = x
    BY <1>5 DEF InSeq
  <2>. QED  BY <1>5, <1>9, <1>10, <2>1 DEF Queued
<1>11. PICK l \in Nat : l = Len(t.queue)
  BY <1>9 DEF Sound, States
<1>12. \A i \in 1 .. l : t.depths[i] = 0
  BY <1>1, <1>6, <1>9, <1>11 DEF Longer
<1>13. \A i \in 1 .. l : ~(i < 1)
  BY <1>11
<1>14. 1 <= l => \A j \in 1 .. l : t.depths[j] <= t.depths[1] + 1
  BY <1>11, <1>12
<1>. QED  BY <1>9, <1>10, <1>11, <1>13, <1>14 DEF Progress

\* The search as a whole.
LEMMA SearchProgress ==
  ASSUME NEW c \in Nat, NEW L, IsFiniteSet(L), c = Cardinality(L), NEW pairs, NEW N, Layers(N, c, L, pairs),
         NEW nodes \in Nat, NEW rows, Leads(rows, nodes, L, pairs), NEW md \in Nat, NEW lim \in Nat, lim >= 1,
         NEW seeds \in Seq(L), \A x : x \in N[0] <=> InSeq(x, seeds)
  PROVE  \E st : /\ breadth_first_search_bounded(rows, seeds, md, lim) = st.queue
                 /\ Progress(st, nodes + 1, L, pairs, N, md, lim)
<1>. DEFINE q == [head \in DOMAIN rows |-> head]
            n == Len(q)
            A == States(L)
            base == Discovered(Start, seeds, 0, lim)
            Step(st, head) == VisitAt(rows, md, lim, st, head)
            F == [k \in 1 .. n |-> [X \in A |-> Step(X, q[k])]]
            Def(t) == [k \in 0 .. n |->
                         IF k = 0 THEN base
                         ELSE CHOOSE r \in {Step(acc, q[k]) : acc \in {t[k - 1]}} : TRUE]
            After == CHOOSE t : t = Def(t)
<1>a. q \in Seq(Nat) /\ n = nodes /\ \A k \in 1 .. n : q[k] = k
  <2>1. DOMAIN rows = 1 .. nodes
    BY DEF Leads
  <2>2. q = [head \in 1 .. nodes |-> head]
    BY <2>1
  <2>. QED  BY <2>2
<1>0. n \in Nat /\ n = Len(q)
  BY <1>a
<1>b. Progress(base, 1, L, pairs, N, md, lim)
  BY SeedsSound
<1>1. base \in A
  BY <1>b DEF Progress, Sound
<1>2. \A k \in 1 .. n, X \in A : Step(X, q[k]) \in A
  <2>1. SUFFICES ASSUME NEW k, NEW X, k \in Nat, k >= 1, X \in States(L) PROVE VisitAt(rows, md, lim, X, k) \in States(L)
    <3>1. \A k \in 1 .. n : q[k] \in Nat /\ q[k] >= 1
      <4>. HIDE DEF q, n
      <4>. QED  BY <1>0, <1>a
    <3>. HIDE DEF q, n
    <3>. QED  BY <3>1, <2>1
  <2>2. PICK w, p, l : /\ w = X.queue /\ p = X.depths /\ l = Len(w) /\ l \in Nat /\ w \in Seq(L) /\ p \in Seq(Nat)
                       /\ Len(p) = l
    BY <2>1 DEF States
  <2>3. CASE k > l \/ X.stop \/ (md > 0 /\ p[k] >= md)
    BY <2>1, <2>2, <2>3 DEF VisitAt
  <2>4. CASE ~(k > l \/ X.stop \/ (md > 0 /\ p[k] >= md))
    <3>1. k \in 1 .. l
      BY <2>1, <2>2, <2>4
    <3>2. w[k] \in L /\ p[k] \in Nat
      BY <2>2, <3>1
    <3>3. PICK row, d : row = rows[w[k] + 1] /\ d = p[k] + 1 /\ row \in Seq(L) /\ d \in Nat
      <4>1. PICK y : y = w[k] /\ y \in L
        BY <3>2
      <4>2. rows[y + 1] \in Seq(L)
        BY <4>1 DEF Leads
      <4>. QED  BY <3>2, <4>1, <4>2
    <3>4. VisitAt(rows, md, lim, X, k) = Discovered(X, row, d, lim)
      BY <2>2, <2>4, <3>3 DEF VisitAt
    <3>5. PICK b, m : m = Len(row) /\ Marked(b, m, L, X, row, d, lim) /\ Discovered(X, row, d, lim) = b[m] /\ m \in Nat
      <4>1. X \in States(L) /\ row \in Seq(L) /\ d \in Nat /\ lim \in Nat
        BY <2>1, <3>3
      <4>2. \E b : Marked(b, Len(row), L, X, row, d, lim) /\ Discovered(X, row, d, lim) = b[Len(row)]
        BY ONLY <4>1, DiscoveredIs
      <4>. QED  BY <4>1, <4>2
    <3>6. b[m] \in States(L)
      BY <3>5 DEF Marked
    <3>. QED  BY <3>4, <3>5, <3>6
  <2>. QED  BY <2>3, <2>4
<1>10. F \in [1 .. n -> [A -> A]]
  <2>. HIDE DEF A, Step, q, n
  <2>. QED  BY <1>2
<1>11. PICK b : Iterates(b, n, A, base, F)
  <2>. HIDE DEF A, F, base, n
  <2>. QED  BY <1>0, <1>1, <1>10, IteratesExist
<1>. HIDE DEF A, base, Step, q, n
<1>12. /\ b \in [0 .. n -> A] /\ b[0] = base
      /\ \A k \in 1 .. n : b[k] = Step(b[k - 1], q[k])
  <2>1. b \in [0 .. n -> A] /\ b[0] = base /\ \A k \in 1 .. n : b[k] = F[k][b[k - 1]]
    BY <1>11 DEF Iterates
  <2>2. \A k \in 1 .. n : k - 1 \in 0 .. n
    BY <1>0
  <2>3. \A k \in 1 .. n : b[k - 1] \in A
    BY <2>1, <2>2
  <2>. QED  BY <2>1, <2>3
<1>13. ASSUME NEW t, NEW k \in 1 .. n
      PROVE  (CHOOSE r \in {Step(acc, q[k]) : acc \in {t[k - 1]}} : TRUE) = Step(t[k - 1], q[k])
  <2>1. {Step(acc, q[k]) : acc \in {t[k - 1]}} = {Step(t[k - 1], q[k])}
    OBVIOUS
  <2>. QED  BY <2>1, OnlyOne
<1>14. b = Def(b)
  <2>1. b = [k \in 0 .. n |-> b[k]]
    BY <1>12
  <2>2. ASSUME NEW k \in 0 .. n PROVE b[k] = Def(b)[k]
    <3>1. CASE k = 0
      BY <1>12, <3>1
    <3>2. CASE k \in 1 .. n
      BY <1>0, <1>12, <1>13, <3>2
    <3>. QED  BY <1>0, <3>1, <3>2
  <2>. QED  BY <2>1, <2>2
<1>15. After = Def(After)
  <2>1. \E t : t = Def(t)
    BY <1>14
  <2>. QED  BY <2>1
<1>16. breadth_first_search_bounded(rows, seeds, md, lim) = After[n].queue
  BY DEF breadth_first_search_bounded, Discovered, VisitAt, Start, Loop, base, Step, q, n
<1>. HIDE DEF After
<1>17. After[0] = base /\ \A k \in 1 .. n : After[k] = Step(After[k - 1], q[k])
  <2>1. \A k \in 0 .. n : After[k] = Def(After)[k]
    BY <1>15
  <2>2. 0 \in 0 .. n /\ \A k \in 1 .. n : k \in 0 .. n /\ k # 0
    BY <1>0
  <2>. QED  BY <1>13, <2>1, <2>2
<1>18. After[n] = b[n]
  <2>1. PICK w, f : w \in Nat /\ w = n /\ f = After
    BY <1>0
  <2>2. w \in Nat /\ f[0] = b[0] /\ StayAlike(f, b, w)
    BY <1>12, <1>17, <2>1 DEF StayAlike
  <2>3. f[w] = b[w]
    BY ONLY <2>2, SameTable
  <2>. QED  BY <2>1, <2>3
<1>. DEFINE T == {k \in 0 .. n : Progress(b[k], k + 1, L, pairs, N, md, lim)}
<1>30. 0 \in T
  BY <1>0, <1>12, <1>b
<1>31. ASSUME NEW k \in 1 .. n, k - 1 \in T PROVE k \in T
  <2>1. PICK X : X = b[k - 1] /\ Progress(X, k, L, pairs, N, md, lim)
    <3>1. k - 1 + 1 = k
      BY <1>0
    <3>. QED  BY <1>31, <3>1
  <2>2. b[k] = VisitAt(rows, md, lim, X, k)
    BY <1>12, <1>a, <2>1 DEF Step
  <2>3. k \in Nat /\ k >= 1
    BY <1>0
  <2>4. Progress(b[k], k + 1, L, pairs, N, md, lim)
    BY <2>1, <2>2, <2>3, VisitSound
  <2>. QED  BY <1>0, <2>4
<1>32. n \in T
  <2>. HIDE DEF T
  <2>1. \A k \in 0 .. n : k \in T
    BY <1>0, <1>30, <1>31, AllUpTo
  <2>. QED  BY <1>0, <2>1
<1>33. Progress(b[n], nodes + 1, L, pairs, N, md, lim)
  BY <1>32, <1>a
<1>. QED  BY <1>16, <1>18, <1>33

-----------------------------------------------------------------------------
(* Traversal: what is answered *)

\* What the queue holds when every position has been visited.
LEMMA QueueAnswers ==
  ASSUME NEW c \in Nat, NEW L, IsFiniteSet(L), c = Cardinality(L), NEW pairs, NEW N, Layers(N, c, L, pairs),
         NEW n \in Nat, L \subseteq 0 .. n - 1, NEW md \in Nat, NEW lim \in Nat,
         NEW st, Progress(st, n + 1, L, pairs, N, md, lim), NEW near, Stacked(near, N, c), NEW answer, answer = Ok(st.queue)
  PROVE  Answers(near, lim, md, answer)
<1>1. Sound(st, L, N, md, lim)
  BY DEF Progress
<1>2. PICK q, p, l : /\ q = st.queue /\ p = st.depths /\ l = Len(q) /\ l \in Nat /\ q \in Seq(L) /\ p \in Seq(Nat)
                     /\ Len(p) = l /\ DOMAIN q = 1 .. l
  BY <1>1 DEF Sound, States
<1>3. answer.err = "Ok" /\ answer.val = q
  BY <1>2 DEF Ok
<1>4. PICK E : E = Elems(q) /\ IsFiniteSet(E) /\ Cardinality(E) = l /\ l <= c
  BY <1>1, <1>2, QueueFits
<1>5. \A x : InSeq(x, q) <=> x \in E
  BY <1>4 DEF InSeq, Elems
<1>6. c <= n
  <2>1. IsFiniteSet(0 .. n - 1) /\ Cardinality(0 .. n - 1) = n
    <3>1. PICK a, b \in Int : a = 0 /\ b = n - 1
      OBVIOUS
    <3>2. IsFiniteSet(a .. b) /\ Cardinality(a .. b) = IF a > b THEN 0 ELSE b - a + 1
      BY FS_Interval
    <3>. QED  BY <3>1, <3>2
  <2>2. Cardinality(L) <= Cardinality(0 .. n - 1)
    BY <2>1, FS_Subset
  <2>. QED  BY <2>1, <2>2
<1>7. PICK D : D = IF md = 0 THEN c ELSE Smaller(md, c)
  OBVIOUS
<1>8. D \in 0 .. c /\ (md > 0 => D <= md)
  BY <1>7 DEF Smaller
<1>9. PICK w : w = c + 1 /\ w \in Nat /\ near = [i \in 1 .. w |-> N[i - 1]] /\ DOMAIN near = 1 .. w /\ Len(near) = w
  <2>1. PICK w : w = c + 1 /\ w \in Nat
    OBVIOUS
  <2>2. near = [i \in 1 .. w |-> N[i - 1]]
    BY <2>1 DEF Stacked
  <2>3. DOMAIN near = 1 .. w /\ Len(near) = w
    BY ONLY <2>1, <2>2
  <2>. QED  BY <2>1, <2>2, <2>3
<1>10. PICK all : all = near[IF md = 0 THEN Len(near) ELSE Smaller(md + 1, Len(near))] /\ all = N[D]
  <2>1. (IF md = 0 THEN w ELSE Smaller(md + 1, w)) = D + 1
    BY <1>7, <1>9 DEF Smaller
  <2>2. D + 1 \in 1 .. w /\ D + 1 - 1 = D
    BY <1>8, <1>9
  <2>3. near[D + 1] = N[D]
    <3>1. PICK z \in 1 .. w : z = D + 1 /\ z - 1 = D
      <4>1. D \in 0 .. c /\ c \in Nat /\ w = c + 1
        BY <1>8, <1>9
      <4>. QED  BY ONLY <4>1
    <3>2. near[z] = N[z - 1]
      BY <1>9, <3>1
    <3>. QED  BY <3>1, <3>2
  <2>. QED  BY <1>9, <2>1, <2>3
<1>11. all \subseteq L /\ IsFiniteSet(all)
  <2>1. all \subseteq L
    BY <1>8, <1>10 DEF Layers
  <2>. QED  BY <2>1, FS_Subset
<1>12. /\ \A i, j \in 1 .. l : i <= j => p[i] <= p[j]
       /\ \A j \in 1 .. l : Exactly(q[j], p[j], N) /\ p[j] <= j - 1 /\ (md > 0 => p[j] <= md)
       /\ IF st.stop THEN l = lim ELSE l < lim
  BY <1>1, <1>2 DEF Sound
<1>13. ASSUME NEW j \in 1 .. l PROVE p[j] \in 0 .. c /\ p[j] <= D
  <2>1. PICK x : x = p[j] /\ x \in Nat /\ x <= j - 1 /\ (md > 0 => x <= md)
    BY <1>2, <1>12, SMTT(30)
  <2>2. x <= c
    <3>1. j \in 1 .. l /\ l \in Nat /\ c \in Nat /\ l <= c
      BY <1>2, <1>4
    <3>. QED  BY ONLY <2>1, <3>1
  <2>. QED  BY <1>7, <2>1, <2>2 DEF Smaller
<1>14. E \subseteq all
  <2>1. ASSUME NEW j \in 1 .. l PROVE q[j] \in N[D]
    <3>1. q[j] \in N[p[j]]
      BY <1>12 DEF Exactly
    <3>2. PICK x : x = p[j] /\ x \in 0 .. D
      BY <1>8, <1>13
    <3>3. N[x] \subseteq N[D]
      BY <1>8, <3>2, LayersGrow
    <3>. QED  BY <3>1, <3>2, <3>3
  <2>. QED  BY <1>2, <1>4, <1>10, <2>1 DEF Elems
<1>15. l = Smaller(lim, Cardinality(all))
  <2>0. PICK a \in Nat : a = Cardinality(all) /\ l <= a
    <3>1. Cardinality(all) \in Nat
      BY <1>11, FS_CardinalityType
    <3>2. Cardinality(E) <= Cardinality(all)
      BY <1>11, <1>14, FS_Subset
    <3>. QED  BY <1>4, <3>1, <3>2
  <2>1. CASE st.stop
    BY <1>2, <1>12, <2>0, <2>1 DEF Smaller
  <2>2. CASE ~st.stop
    <3>1. \A x \in N[0] : InSeq(x, st.queue)
      BY <2>2 DEF Progress
    <3>2. ASSUME NEW i \in 1 .. Len(st.queue), st.depths[i] < D PROVE Expanded(st, i, L, pairs)
      <4>1. i \in 1 .. l /\ i < n + 1
        <5>1. i \in 1 .. l /\ l \in Nat /\ l <= c /\ c <= n /\ c \in Nat /\ n \in Nat
          BY <1>2, <1>4, <1>6
        <5>. QED  BY ONLY <5>1
      <4>2. md = 0 \/ st.depths[i] < md
        <5>1. PICK x : x = st.depths[i] /\ x \in 0 .. c /\ x < D
          BY <1>2, <1>13, <3>2, <4>1
        <5>. QED  BY <1>8, <5>1
      <4>. QED  BY <2>2, <4>1, <4>2 DEF Progress
    <3>3. \A x \in N[D] : InSeq(x, st.queue)
      <4>1. D \in 0 .. D
        BY <1>8
      <4>. QED  BY <1>1, <1>8, <3>1, <3>2, <4>1, LayersQueued
    <3>4. all = E
      BY <1>2, <1>5, <1>10, <1>14, <3>3
    <3>5. a = l /\ l < lim
      BY <1>4, <1>12, <2>0, <2>2, <3>4
    <3>. QED  BY <1>2, <2>0, <3>5 DEF Smaller
  <2>. QED  BY <2>1, <2>2
<1>16. ASSUME NEW k \in 1 .. w, NEW j \in 1 .. l, q[j] \in near[k], NEW i \in 1 .. j PROVE q[i] \in near[k]
  <2>1. PICK h : h = k - 1 /\ h \in 0 .. c /\ near[k] = N[h]
    BY <1>9
  <2>2. i \in 1 .. l /\ i <= j
    BY <1>2
  <2>3. PICK x, y : x = p[i] /\ y = p[j] /\ x \in 0 .. c /\ y \in 0 .. c /\ x <= y
    BY <1>12, <1>13, <2>2
  <2>4. Exactly(q[j], y, N) /\ Exactly(q[i], x, N)
    BY <1>12, <2>2, <2>3
  <2>5. ~(h \in 0 .. y - 1)
    BY <1>16, <2>1, <2>4 DEF Exactly
  <2>6. x \in 0 .. h
    BY <2>1, <2>3, <2>5
  <2>7. N[x] \subseteq N[h]
    <3>1. c \in Nat /\ Layers(N, c, L, pairs) /\ h \in 0 .. c /\ x \in 0 .. h
      BY <2>1, <2>6
    <3>. QED  BY ONLY <3>1, LayersGrow
  <2>. QED  BY <2>1, <2>4, <2>7 DEF Exactly
<1>. QED  BY <1>2, <1>3, <1>4, <1>9, <1>10, <1>14, <1>15, <1>16 DEF Answers

\* Pairs turned round.
LEMMA Turned ==
  ASSUME NEW P, \A p \in P : p = <<p[1], p[2]>>, NEW u, NEW v
  PROVE  <<u, v>> \in Steps(P, "In") <=> <<v, u>> \in P
<1>1. Steps(P, "In") = {<<p[2], p[1]>> : p \in P}
  BY DEF Steps
<1>2. ASSUME NEW p \in P, <<u, v>> = <<p[2], p[1]>> PROVE <<v, u>> \in P
  <2>1. u = p[2] /\ v = p[1]
    BY <1>2
  <2>. QED  BY <2>1
<1>3. ASSUME <<v, u>> \in P PROVE <<u, v>> \in Steps(P, "In")
  <2>1. PICK p \in P : p = <<v, u>>
    BY <1>3
  <2>2. <<p[2], p[1]>> = <<u, v>>
    BY <2>1
  <2>. QED  BY <1>1, <2>2
<1>. QED  BY <1>1, <1>2, <1>3

\* Visible pairs are pairs.
LEMMA VisibleTyped ==
  ASSUME NEW e, EngineOK(e), NEW freshness, NEW p \in VisiblePairs(e, freshness)
  PROVE  p = <<p[1], p[2]>>
<1>1. CASE p \in Elems(e.overlay.added_edges)
  <2>1. p \in Ids \X Ids
    BY <1>1 DEF EngineOK
  <2>. QED  BY <2>1
<1>2. CASE p \notin Elems(e.overlay.added_edges)
  <2>1. PICK Y : Y = {y \in Live(e) \X (0 .. (Len(e.art.forward.targets) - 1)) :
                        InSeq(y[2], ForwardEdges(e.art, y[1])) /\ edge_visible(e.overlay, y[2])}
    OBVIOUS
  <2>2. VisiblePairs(e, freshness) = {<<x[1], EdgeTarget(e.art, x[2])>> : x \in Y}
                                       \cup (IF freshness = "OverlayAware" THEN Elems(e.overlay.added_edges) ELSE {})
    BY <2>1 DEF VisiblePairs
  <2>3. PICK y \in Y : p = <<y[1], EdgeTarget(e.art, y[2])>>
    BY <1>2, <2>2
  <2>. QED  BY <2>3
<1>. QED  BY <1>1, <1>2

\* The rows a query runs over lead where the visible pairs do.
LEMMA RowsLead ==
  ASSUME NEW n \in Nat, NEW m \in Nat, NEW src, NEW tgt, NEW e, EngineOK(e), Holds(e.art, n, m, src, tgt), n <= NodeMax,
         NEW freshness, Prepared(e, resolve(freshness, e.overlay)), NEW direction, direction = "Out" \/ direction = "In"
  PROVE  Leads(ViewRows(e, resolve(freshness, e.overlay), direction), n, Live(e),
               Steps(VisiblePairs(e, freshness), direction))
<1>1. PICK flags, rows, L, P : /\ flags = resolve(freshness, e.overlay) /\ rows = ViewRows(e, flags, direction)
                               /\ L = Live(e) /\ P = VisiblePairs(e, freshness)
  OBVIOUS
<1>2. L \subseteq 0 .. n - 1
  <2>1. \A u : u \in L => u \in 0 .. n - 1
    BY <1>1, LiveIs
  <2>. QED  BY <2>1
<1>3. rows = [i \in 1 .. n |-> IF direction = "Out" THEN view_successors(e, flags, i - 1)
                                ELSE view_predecessors(e, flags, i - 1)]
  BY <1>1 DEF ViewRows, Holds
<1>4. ASSUME NEW u \in L
      PROVE  rows[u + 1] \in Seq(L) /\ \A v \in L : InSeq(v, rows[u + 1]) <=> <<u, v>> \in Steps(P, direction)
  <2>1. u \in 0 .. n - 1 /\ u + 1 \in 1 .. n /\ u + 1 - 1 = u
    BY <1>2
  <2>2. CASE direction = "Out"
    <3>1. PICK row : row = rows[u + 1] /\ row = view_successors(e, flags, u)
      BY <1>3, <2>1, <2>2
    <3>2. row \in Seq(Nat) /\ \A v : InSeq(v, row) <=> v \in L /\ Follows(e, freshness, u, v)
      <4>1. ASSUME NEW v
            PROVE  /\ view_successors(e, resolve(freshness, e.overlay), u) \in Seq(Nat)
                   /\ InSeq(v, view_successors(e, resolve(freshness, e.overlay), u))
                        <=> v \in Live(e) /\ Follows(e, freshness, u, v)
        BY <2>1, SuccessorsAre
      <4>. QED  BY <1>1, <3>1, <4>1
    <3>3. row \in Seq(L)
      BY <3>2, OwnElems
    <3>4. \A v : <<u, v>> \in P <=> Follows(e, freshness, u, v)
      <4>1. u \in Live(e)
        BY <1>1
      <4>. QED  BY <1>1, <4>1, VisibleAre
    <3>5. Steps(P, direction) = P
      BY <2>2 DEF Steps
    <3>. QED  BY <3>1, <3>2, <3>3, <3>4, <3>5
  <2>3. CASE direction = "In"
    <3>1. PICK row : row = rows[u + 1] /\ row = view_predecessors(e, flags, u)
      BY <1>3, <2>1, <2>3
    <3>2. row \in Seq(Nat) /\ \A v : InSeq(v, row) <=> v \in L /\ Follows(e, freshness, v, u)
      <4>1. ASSUME NEW v
            PROVE  /\ view_predecessors(e, resolve(freshness, e.overlay), u) \in Seq(Nat)
                   /\ InSeq(v, view_predecessors(e, resolve(freshness, e.overlay), u))
                        <=> v \in Live(e) /\ Follows(e, freshness, v, u)
        BY <2>1, PredecessorsAre
      <4>. QED  BY <1>1, <3>1, <4>1
    <3>3. row \in Seq(L)
      BY <3>2, OwnElems
    <3>4. \A v \in L : <<v, u>> \in P <=> Follows(e, freshness, v, u)
      <4>1. ASSUME NEW v \in L PROVE <<v, u>> \in P <=> Follows(e, freshness, v, u)
        <5>1. v \in Live(e)
          BY <1>1
        <5>. QED  BY <1>1, <5>1, VisibleAre
      <4>. QED  BY <4>1
    <3>5. \A v : <<u, v>> \in Steps(P, direction) <=> <<v, u>> \in P
      <4>1. \A p \in P : p = <<p[1], p[2]>>
        BY <1>1, VisibleTyped
      <4>2. ASSUME NEW v PROVE <<u, v>> \in Steps(P, "In") <=> <<v, u>> \in P
        BY <4>1, Turned
      <4>. QED  BY <2>3, <4>2
    <3>. QED  BY <3>1, <3>2, <3>3, <3>4, <3>5
  <2>. QED  BY <2>2, <2>3
<1>5. DOMAIN rows = 1 .. n
  BY <1>3
<1>6. Leads(rows, n, L, Steps(P, direction))
  BY <1>2, <1>4, <1>5 DEF Leads
<1>. QED  BY <1>1, <1>6

-----------------------------------------------------------------------------
(* The answers of a session *)

\* A traversal answers with what the visible pairs reach.
LEMMA TraverseFrom ==
  ASSUME NEW n \in Nat, NEW m \in Nat, NEW src, NEW tgt, NEW e, EngineOK(e), Holds(e.art, n, m, src, tgt), n <= NodeMax,
         NEW freshness, NEW direction, direction = "Out" \/ direction = "In",
         NEW seeds \in Seq(0 .. n - 1), NEW S, \A x : x \in S <=> InSeq(x, seeds),
         NEW md \in Nat, NEW limit \in Nat, NEW cap \in Nat, limit >= 1, cap >= 1
  PROVE  Answers(Near(e, Steps(VisiblePairs(e, freshness), direction), S), Smaller(limit, cap), md,
                 traverse_from_seeds(e, seeds, md, limit, cap, direction, freshness))
<1>1. PICK flags, d : flags = resolve(freshness, e.overlay) /\ d = traverse_workspace_mut(e, flags.use_unique)
  OBVIOUS
<1>2. /\ EngineOK(d) /\ d.art = e.art /\ d.overlay = e.overlay /\ d.scratch = e.scratch
      /\ Prepared(d, resolve(freshness, d.overlay))
  BY <1>1, ReadyPrepared
<1>3. PICK L, P, pairs, lim : /\ L = Live(e) /\ P = VisiblePairs(e, freshness) /\ pairs = Steps(P, direction)
                              /\ lim = Smaller(limit, cap)
  OBVIOUS
<1>4. lim \in Nat /\ lim >= 1
  BY <1>3 DEF Smaller
<1>5. Live(d) = L /\ VisiblePairs(d, freshness) = P
  <2>1. Live(d) = L
    BY <1>2, <1>3 DEF Live
  <2>2. VisiblePairs(d, freshness) = P
    BY <1>2, <1>3, <2>1 DEF VisiblePairs
  <2>. QED  BY <2>1, <2>2
<1>6. PICK rows : rows = ViewRows(d, flags, direction) /\ Leads(rows, n, L, pairs)
  <2>1. Holds(d.art, n, m, src, tgt)
    BY <1>2
  <2>2. Leads(ViewRows(d, resolve(freshness, d.overlay), direction), n, Live(d),
              Steps(VisiblePairs(d, freshness), direction))
    BY <1>2, <2>1, RowsLead
  <2>3. resolve(freshness, d.overlay) = flags
    BY <1>1, <1>2
  <2>. QED  BY <1>3, <1>5, <2>2, <2>3
<1>7. \A u : u \in L <=> u \in 0 .. n - 1 /\ overlay_node_visible(e.overlay, u)
  BY <1>3, LiveIs
<1>8. L \subseteq 0 .. n - 1 /\ IsFiniteSet(L)
  <2>1. L \subseteq 0 .. n - 1
    BY <1>7
  <2>2. IsFiniteSet(0 .. n - 1)
    <3>1. PICK x, y \in Int : x = 0 /\ y = n - 1
      OBVIOUS
    <3>. QED  BY <3>1, FS_Interval
  <2>. QED  BY <2>1, <2>2, FS_Subset
<1>9. PICK c \in Nat : c = Cardinality(L)
  BY <1>8, FS_CardinalityType
<1>10. PICK K, kept : /\ K = {u \in Elems(seeds) : overlay_node_visible(e.overlay, u)} /\ kept = Kept(K, seeds)
  OBVIOUS
<1>11. kept \in Seq(0 .. n - 1) /\ \A x : InSeq(x, kept) <=> InSeq(x, seeds) /\ x \in K
  BY <1>10, KeptIs
<1>12. \A x : InSeq(x, kept) <=> x \in S \cap L
  <2>1. ASSUME NEW x, InSeq(x, seeds) PROVE x \in 0 .. n - 1 /\ x \in Elems(seeds)
    <3>1. PICK i \in DOMAIN seeds : seeds[i] = x
      BY <2>1 DEF InSeq
    <3>2. seeds[i] \in 0 .. n - 1
      OBVIOUS
    <3>. QED  BY <3>1, <3>2 DEF Elems
  <2>. QED  BY <1>7, <1>10, <1>11, <2>1
<1>13. kept \in Seq(L)
  BY <1>11, <1>12, OwnElems
<1>14. e.art.metadata.node_count = n /\ d.art.metadata.node_count = n /\ d.scratch = n
  BY <1>2 DEF Holds, EngineOK
<1>15. PICK answer : /\ answer = traverse_from_seeds(e, seeds, md, limit, cap, direction, freshness)
                     /\ answer = run_bfs_multi(d, flags, kept, md, lim, direction)
  <2>1. ~(Smaller(limit, cap) = 0)
    BY <1>3, <1>4
  <2>2. ~(\E i \in DOMAIN seeds : seeds[i] >= e.art.metadata.node_count)
    <3>1. ASSUME NEW i \in DOMAIN seeds PROVE ~(seeds[i] >= n)
      <4>1. seeds[i] \in 0 .. n - 1
        OBVIOUS
      <4>. QED  BY <4>1
    <3>. QED  BY <1>14, <3>1
  <2>. QED  BY <1>1, <1>3, <1>10, <2>1, <2>2 DEF traverse_from_seeds
<1>16. PICK near, N : /\ near = Near(e, pairs, S) /\ Layers(N, c, L, pairs) /\ N[0] = S \cap L /\ Stacked(near, N, c)
  BY <1>3, <1>9, NearIs
<1>17. \E st : answer = Ok(st.queue) /\ Progress(st, n + 1, L, pairs, N, md, lim)
  <2>1. CASE kept = << >>
    <3>1. answer = Ok(<< >>)
      <4>1. ~(d.scratch < d.art.metadata.node_count)
        BY <1>14
      <4>. QED  BY <1>15, <2>1, <4>1 DEF run_bfs_multi
    <3>2. Start.queue = << >> /\ Start.depths = << >> /\ Start.stop = FALSE /\ Len(Start.queue) = 0
      BY DEF Start
    <3>3. \A x \in N[0] : FALSE
      BY <1>12, <1>16, <2>1 DEF InSeq
    <3>4. Start \in States(L)
      BY DEF Start, States
    <3>5. \A j \in 1 .. Len(Start.queue) : FALSE
      BY <3>2
    <3>6. Len(Start.queue) < lim /\ ~(n + 1 <= Len(Start.queue))
      BY <1>4, <3>2
    <3>7. Progress(Start, n + 1, L, pairs, N, md, lim)
      BY <3>2, <3>3, <3>4, <3>5, <3>6 DEF Progress, Sound
    <3>. QED  BY <3>1, <3>2, <3>7
  <2>2. CASE kept # << >>
    <3>1. answer = Ok(breadth_first_search_bounded(rows, kept, md, lim))
      <4>1. ~(d.scratch < d.art.metadata.node_count)
        BY <1>14
      <4>. QED  BY <1>6, <1>15, <2>2, <4>1 DEF run_bfs_multi
    <3>2. \A x : x \in N[0] <=> InSeq(x, kept)
      BY <1>12, <1>16
    <3>3. PICK st : /\ breadth_first_search_bounded(rows, kept, md, lim) = st.queue
                    /\ Progress(st, n + 1, L, pairs, N, md, lim)
      BY <1>4, <1>6, <1>8, <1>9, <1>13, <1>16, <3>2, SearchProgress
    <3>. QED  BY <3>1, <3>3
  <2>. QED  BY <2>1, <2>2
<1>18. PICK st : answer = Ok(st.queue) /\ Progress(st, n + 1, L, pairs, N, md, lim)
  BY <1>17
<1>19. Answers(near, lim, md, answer)
  BY <1>4, <1>8, <1>9, <1>16, <1>18, QueueAnswers
<1>. QED  BY <1>3, <1>15, <1>16, <1>19

\* graph_traverse and graph_traverse_seeds answer what they should.
LEMMA TraverseAnswers ==
  ASSUME ExtensionInv
  PROVE  TraverseExact
<1>1. SUFFICES ASSUME NEW s \in Answering, NEW freshness \in Freshness, NEW direction \in Directions,
                      NEW pairs \in {Steps(VisiblePairs(engine[s], freshness), direction)},
                      NEW seed \in 0 .. (engine[s].art.metadata.node_count - 1)
               PROVE  /\ \A near \in {Near(engine[s], pairs, {seed})} : \A limits \in {<<2, 0>>, <<9, 1>>} :
                           Answers(near, limits[1], limits[2],
                                   graph_traverse_answer(engine[s], seed, limits[1], direction, limits[2], 9, freshness))
                      /\ \A near \in {Near(engine[s], pairs, {seed, 0})} :
                           Answers(near, 9, 0, graph_traverse_seeds(engine[s], <<seed, -1>>, 9, direction, 9, freshness))
  BY DEF TraverseExact
<1>2. PICK e : e = engine[s] /\ EngineOK(e)
  BY DEF ExtensionInv, Engines, Loaded, Answering
<1>3. PICK n, m \in Nat : \E src, tgt : Holds(e.art, n, m, src, tgt) /\ n <= NodeMax
  BY <1>2, EngineHolds DEF EngineOK
<1>4. PICK src, tgt : Holds(e.art, n, m, src, tgt) /\ n <= NodeMax
  BY <1>3
<1>5. seed \in 0 .. n - 1 /\ seed \in Nat /\ 0 \in 0 .. n - 1
  <2>1. e.art.metadata.node_count = n
    BY <1>4 DEF Holds
  <2>. QED  BY <1>2, <2>1
<1>6. direction = "Out" \/ direction = "In"
  BY DEF Directions
<1>7. pairs = Steps(VisiblePairs(e, freshness), direction)
  BY <1>2
<1>8. PICK cap : cap = 9 /\ cap \in Nat /\ cap >= 1
  OBVIOUS
<1>9. ASSUME NEW limit \in Nat, limit >= 1, limit <= 9, NEW md \in Nat
      PROVE  Answers(Near(e, pairs, {seed}), limit, md,
                     graph_traverse_answer(e, seed, limit, direction, md, 9, freshness))
  <2>1. PICK seeds : seeds = <<seed>> /\ seeds \in Seq(0 .. n - 1)
    <3>1. PICK A : A = 0 .. n - 1 /\ seed \in A
      BY <1>5
    <3>2. <<seed>> \in Seq(A)
      BY ONLY <3>1
    <3>. QED  BY <3>1, <3>2
  <2>2. PICK S : S = {seed}
    OBVIOUS
  <2>3. \A x : x \in S <=> InSeq(x, seeds)
    BY <2>1, <2>2 DEF InSeq
  <2>4. Smaller(limit, cap) = limit
    BY <1>8, <1>9 DEF Smaller
  <2>5. graph_traverse_answer(e, seed, limit, direction, md, 9, freshness)
          = traverse_from_seeds(e, seeds, md, limit, cap, direction, freshness)
    <3>1. ~(seed < 0) /\ ~(limit = 0) /\ ~(limit < 0) /\ ~(md < 0)
      BY <1>5, <1>9
    <3>. QED  BY <1>8, <2>1, <3>1 DEF graph_traverse_answer
  <2>6. Answers(Near(e, Steps(VisiblePairs(e, freshness), direction), S), Smaller(limit, cap), md,
                traverse_from_seeds(e, seeds, md, limit, cap, direction, freshness))
    BY <1>2, <1>4, <1>6, <1>8, <1>9, <2>1, <2>3, TraverseFrom
  <2>. QED  BY <1>7, <2>2, <2>4, <2>5, <2>6
<1>10. Answers(Near(e, pairs, {seed, 0}), 9, 0, graph_traverse_seeds(e, <<seed, -1>>, 9, direction, 9, freshness))
  <2>1. PICK seeds : seeds = <<seed, 0>> /\ seeds \in Seq(0 .. n - 1)
    <3>1. PICK A, zero : A = 0 .. n - 1 /\ seed \in A /\ zero \in A /\ zero = 0
      BY <1>5
    <3>2. <<seed, zero>> \in Seq(A)
      BY ONLY <3>1
    <3>. QED  BY <3>1, <3>2
  <2>2. PICK S, md : S = {seed, 0} /\ md = 0 /\ md \in Nat
    OBVIOUS
  <2>3. \A x : x \in S <=> InSeq(x, seeds)
    <3>1. DOMAIN seeds = {1, 2} /\ seeds[1] = seed /\ seeds[2] = 0
      BY <2>1
    <3>. QED  BY <2>2, <3>1 DEF InSeq
  <2>4. Smaller(cap, cap) = cap
    BY DEF Smaller
  <2>5. graph_traverse_seeds(e, <<seed, -1>>, 9, direction, 9, freshness)
          = traverse_from_seeds(e, seeds, md, cap, cap, direction, freshness)
    <3>1. PICK given : given = <<seed, -1>>
      OBVIOUS
    <3>2. [i \in DOMAIN given |-> IF given[i] < 0 THEN 0 ELSE given[i]] = seeds
      <4>1. DOMAIN given = 1 .. 2 /\ given[1] = seed /\ given[2] = -1
        BY <3>1
      <4>2. (IF given[1] < 0 THEN 0 ELSE given[1]) = seed /\ (IF given[2] < 0 THEN 0 ELSE given[2]) = 0
        BY <1>5, <4>1
      <4>. QED  BY <2>1, <4>1, <4>2
    <3>3. ~(9 < 1)
      OBVIOUS
    <3>. QED  BY <1>8, <2>2, <3>1, <3>2, <3>3 DEF graph_traverse_seeds
  <2>6. Answers(Near(e, Steps(VisiblePairs(e, freshness), direction), S), Smaller(cap, cap), md,
                traverse_from_seeds(e, seeds, md, cap, cap, direction, freshness))
    BY <1>2, <1>4, <1>6, <1>8, <2>1, <2>2, <2>3, TraverseFrom
  <2>. QED  BY <1>7, <1>8, <2>2, <2>4, <2>5, <2>6
<1>11. ASSUME NEW near \in {Near(engine[s], pairs, {seed})}, NEW limits \in {<<2, 0>>, <<9, 1>>}
       PROVE  Answers(near, limits[1], limits[2],
                      graph_traverse_answer(engine[s], seed, limits[1], direction, limits[2], 9, freshness))
  <2>1. PICK limit, md : /\ limit = limits[1] /\ md = limits[2] /\ limit \in Nat /\ md \in Nat /\ limit >= 1
                         /\ limit <= 9
    OBVIOUS
  <2>. QED  BY <1>2, <1>9, <2>1
<1>. QED  BY <1>2, <1>10, <1>11

\* Search and traversal answer what artifact and overlay together show, whichever rows serve them.
THEOREM AnswersTrue == Spec => []AnswersExact
<1>1. ExtensionInv => AnswersExact
  BY ViewsMirrorOK, TraverseAnswers, SearchOK DEF AnswersExact
<1>. QED  BY <1>1, Invariant, PTL

\* TraverseExact for every depth, limit and cap and any seeds, not only those a run asks for.
TraverseAlways ==
  \A s \in Loaded, freshness \in Freshness, direction \in Directions, md \in Nat, limit \in Nat \ {0}, cap \in Nat \ {0} :
    \A seeds \in Seq(0 .. engine[s].art.metadata.node_count - 1) :
      Answers(Near(engine[s], Steps(VisiblePairs(engine[s], freshness), direction), Elems(seeds)), Smaller(limit, cap), md,
              traverse_from_seeds(engine[s], seeds, md, limit, cap, direction, freshness))

\* From any seeds, repeated or tombstoned ones too, and for any depth, limit and cap: a traversal of
\* a session returns what the visible edges reach within the depth, the nearest first and none
\* twice, and as many of them as the smaller of limit and cap allows.
THEOREM TraversalExact == Spec => []TraverseAlways
<1>1. ASSUME ExtensionInv PROVE TraverseAlways
  <2>1. SUFFICES ASSUME NEW s \in Loaded, NEW freshness \in Freshness, NEW direction \in Directions, NEW md \in Nat,
                        NEW limit \in Nat \ {0}, NEW cap \in Nat \ {0},
                        NEW seeds \in Seq(0 .. engine[s].art.metadata.node_count - 1)
                 PROVE  Answers(Near(engine[s], Steps(VisiblePairs(engine[s], freshness), direction), Elems(seeds)),
                                Smaller(limit, cap), md,
                                traverse_from_seeds(engine[s], seeds, md, limit, cap, direction, freshness))
    BY DEF TraverseAlways
  <2>2. PICK e : e = engine[s] /\ EngineOK(e)
    BY <1>1 DEF ExtensionInv, Engines, Loaded
  <2>3. PICK n, m \in Nat : \E src, tgt : Holds(e.art, n, m, src, tgt) /\ n <= NodeMax
    BY <2>2, EngineHolds DEF EngineOK
  <2>4. PICK src, tgt : Holds(e.art, n, m, src, tgt) /\ n <= NodeMax
    BY <2>3
  <2>5. seeds \in Seq(0 .. n - 1)
    <3>1. e.art.metadata.node_count = n
      BY <2>4 DEF Holds
    <3>. QED  BY <2>2, <3>1
  <2>6. PICK S : S = Elems(seeds)
    OBVIOUS
  <2>7. \A x : x \in S <=> InSeq(x, seeds)
    BY <2>6 DEF InSeq, Elems
  <2>8. (direction = "Out" \/ direction = "In") /\ limit \in Nat /\ cap \in Nat /\ limit >= 1 /\ cap >= 1
    BY DEF Directions
  <2>9. Answers(Near(e, Steps(VisiblePairs(e, freshness), direction), S), Smaller(limit, cap), md,
                traverse_from_seeds(e, seeds, md, limit, cap, direction, freshness))
    BY <2>2, <2>4, <2>5, <2>7, <2>8, TraverseFrom
  <2>. QED  BY <2>2, <2>6, <2>9
<1>. QED  BY <1>1, Invariant, PTL

==============================================================================
