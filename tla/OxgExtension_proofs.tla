-------------------------- MODULE OxgExtension_proofs --------------------------
(***************************************************************************)
(* Proofs about OxgExtension, for any tables, rows, sessions and bounds.   *)
(* What the sessions share (the registered catalog, the stored snapshot,   *)
(* the sync log) can always be read back; what a session derives from its  *)
(* artifact and its overlay is never stale; a replay applies each new row  *)
(* of the log once and no other; a rebuilt snapshot holds the edges of the *)
(* tables, no more and no fewer.                                           *)
(*                                                                         *)
(* All of it rests on ExtensionInv, at the section "The invariant".  The   *)
(* sections before it say what the operators of OxgEngine and OxgCsr       *)
(* compute.                                                                *)
(***************************************************************************)
EXTENDS OxgExtension, OxgInduction, SequenceTheorems, FiniteSetTheorems

-----------------------------------------------------------------------------
(* Loops *)

\* The first elements of a sequence, and one more.
LEMMA FirstRows ==
  ASSUME NEW A, NEW s \in Seq(A), NEW k \in 1 .. Len(s)
  PROVE  /\ SubSeq(s, 1, k - 1) \in Seq(A) /\ Len(SubSeq(s, 1, k - 1)) = k - 1
         /\ DOMAIN SubSeq(s, 1, k - 1) = 1 .. k - 1
         /\ \A i \in 1 .. k - 1 : SubSeq(s, 1, k - 1)[i] = s[i]
         /\ Append(SubSeq(s, 1, k - 1), s[k]) = SubSeq(s, 1, k)
<1>1. Len(s) \in Nat /\ k - 1 \in 0 .. Len(s) /\ k \in 0 .. Len(s) /\ k \in Nat /\ k - 1 \in Nat
  OBVIOUS
<1>2. SubSeq(s, 1, k - 1) \in Seq(A) /\ Len(SubSeq(s, 1, k - 1)) = k - 1
  BY <1>1, SubSeqProperties
<1>3. \A i \in 1 .. k - 1 : SubSeq(s, 1, k - 1)[i] = s[i]
  BY <1>1
<1>4. DOMAIN SubSeq(s, 1, k - 1) = 1 .. k - 1
  BY <1>1, <1>2
<1>a. SubSeq(s, 1, k) \in Seq(A)
  BY <1>1
<1>5. PICK p, q \in Seq(A) : p = SubSeq(s, 1, k - 1) /\ q = SubSeq(s, 1, k)
  BY <1>2, <1>a
<1>6. Len(q) = k /\ \A i \in 1 .. k : q[i] = s[i]
  BY <1>1, <1>5
<1>7. /\ Append(p, s[k]) \in Seq(A) /\ Len(Append(p, s[k])) = k
      /\ Append(p, s[k])[k] = s[k] /\ \A i \in 1 .. k - 1 : Append(p, s[k])[i] = p[i]
  <2>1. PICK x \in A : x = s[k]
    OBVIOUS
  <2>2. /\ Append(p, x) \in Seq(A) /\ Len(Append(p, x)) = Len(p) + 1
        /\ Append(p, x)[Len(p) + 1] = x /\ \A i \in 1 .. Len(p) : Append(p, x)[i] = p[i]
    BY AppendProperties
  <2>3. Len(p) = k - 1 /\ k - 1 + 1 = k
    BY <1>1, <1>2, <1>5
  <2>. QED  BY <2>1, <2>2, <2>3
<1>8. Append(p, s[k]) = q
  <2>1. \A i \in 1 .. k : Append(p, s[k])[i] = q[i]
    <3>1. \A i \in 1 .. k : i = k \/ i \in 1 .. k - 1
      BY <1>1
    <3>. QED  BY <1>3, <1>5, <1>6, <1>7, <3>1
  <2>. QED  BY <1>6, <1>7, <2>1, SeqEqual
<1>. QED  BY <1>2, <1>3, <1>4, <1>5, <1>8

-----------------------------------------------------------------------------
(* Filtering *)

\* What a sequence holds after one more element.
LEMMA InAppend ==
  ASSUME NEW A, NEW s \in Seq(A), NEW y \in A, NEW x
  PROVE  InSeq(x, Append(s, y)) <=> InSeq(x, s) \/ x = y
<1>1. PICK n \in Nat : n = Len(s) /\ DOMAIN s = 1 .. n
  OBVIOUS
<1>2. PICK t : /\ t = Append(s, y) /\ DOMAIN t = 1 .. n + 1 /\ t[n + 1] = y
               /\ \A i \in 1 .. n : t[i] = s[i]
  <2>1. /\ Append(s, y) \in Seq(A) /\ Len(Append(s, y)) = n + 1 /\ Append(s, y)[n + 1] = y
        /\ \A i \in 1 .. n : Append(s, y)[i] = s[i]
    BY <1>1, AppendProperties
  <2>2. PICK t \in Seq(A) : t = Append(s, y)
    BY <2>1
  <2>. QED  BY <2>1, <2>2
<1>3. \A i \in 1 .. n + 1 : i \in 1 .. n \/ i = n + 1
  OBVIOUS
<1>. QED  BY <1>1, <1>2, <1>3 DEF InSeq

\* Kept holds the elements that are in the set, and no others.
LEMMA KeptIs ==
  ASSUME NEW D, NEW q \in Seq(D), NEW S
  PROVE  /\ Kept(S, q) \in Seq(D)
         /\ \A x : InSeq(x, Kept(S, q)) <=> InSeq(x, q) /\ x \in S
<1>. DEFINE n == Len(q)
            A == Seq(D)
            base == << >>
            Step(kept, x) == IF x \in S THEN Append(kept, x) ELSE kept
            F == [k \in 1 .. n |-> [X \in A |-> Step(X, q[k])]]
            Def(t) == [k \in 0 .. n |->
                         IF k = 0 THEN base
                         ELSE CHOOSE r \in {Step(acc, q[k]) : acc \in {t[k - 1]}} : TRUE]
            After == CHOOSE t : t = Def(t)
<1>0. n \in Nat /\ DOMAIN q = 1 .. n /\ \A k \in 1 .. n : q[k] \in D
  OBVIOUS
<1>1. base \in A
  OBVIOUS
<1>2. \A k \in 1 .. n, X \in A : Step(X, q[k]) \in A
  BY <1>0, AppendProperties
<1>10. F \in [1 .. n -> [A -> A]]
  <2>. HIDE DEF A, Step, n
  <2>. QED  BY <1>2
<1>11. PICK b : Iterates(b, n, A, base, F)
  <2>. HIDE DEF A, F, base, n
  <2>. QED  BY <1>0, <1>1, <1>10, IteratesExist
<1>. HIDE DEF A, base, Step, n
<1>12. /\ b \in [0 .. n -> A] /\ b[0] = base
      /\ \A k \in 1 .. n : b[k] = Step(b[k - 1], q[k])
  <2>1. b \in [0 .. n -> A] /\ b[0] = base /\ \A k \in 1 .. n : b[k] = F[k][b[k - 1]]
    BY <1>11 DEF Iterates
  <2>2. \A k \in 1 .. n : k - 1 \in 0 .. n
    BY <1>0
  <2>3. \A k \in 1 .. n : b[k - 1] \in A
    BY <2>1, <2>2
  <2>. QED  BY <2>1, <2>3
<1>13. ASSUME NEW t, NEW k \in 1 .. n
      PROVE  (CHOOSE r \in {Step(acc, q[k]) : acc \in {t[k - 1]}} : TRUE) = Step(t[k - 1], q[k])
  <2>1. {Step(acc, q[k]) : acc \in {t[k - 1]}} = {Step(t[k - 1], q[k])}
    OBVIOUS
  <2>. QED  BY <2>1, OnlyOne
<1>14. b = Def(b)
  <2>1. b = [k \in 0 .. n |-> b[k]]
    BY <1>12
  <2>2. ASSUME NEW k \in 0 .. n PROVE b[k] = Def(b)[k]
    <3>1. CASE k = 0
      BY <1>12, <3>1
    <3>2. CASE k \in 1 .. n
      BY <1>0, <1>12, <1>13, <3>2
    <3>. QED  BY <1>0, <3>1, <3>2
  <2>. QED  BY <2>1, <2>2
<1>15. After = Def(After)
  <2>1. \E t : t = Def(t)
    BY <1>14
  <2>. QED  BY <2>1
<1>16. Kept(S, q) = After[n]
  BY DEF Kept, Loop, base, Step, n
<1>. HIDE DEF After
<1>17. After[0] = base /\ \A k \in 1 .. n : After[k] = Step(After[k - 1], q[k])
  <2>1. \A k \in 0 .. n : After[k] = Def(After)[k]
    BY <1>15
  <2>2. 0 \in 0 .. n /\ \A k \in 1 .. n : k \in 0 .. n /\ k # 0
    BY <1>0
  <2>. QED  BY <1>13, <2>1, <2>2
<1>18. After[n] = b[n]
  <2>1. PICK m, f : m \in Nat /\ m = n /\ f = After
    BY <1>0
  <2>2. m \in Nat /\ f[0] = b[0] /\ StayAlike(f, b, m)
    BY <1>12, <1>17, <2>1 DEF StayAlike
  <2>3. f[m] = b[m]
    BY ONLY <2>2, SameTable
  <2>. QED  BY <2>1, <2>3
<1>. DEFINE Right(k) == \A x : InSeq(x, b[k]) <=> x \in S /\ \E i \in 1 .. k : q[i] = x
            T == {k \in 0 .. n : Right(k)}
<1>20. 0 \in T
  BY <1>0, <1>12 DEF InSeq, base
<1>21. ASSUME NEW k \in 1 .. n, k - 1 \in T PROVE k \in T
  <2>1. PICK c : c = b[k - 1] /\ c \in Seq(D)
    BY <1>0, <1>12 DEF A
  <2>2. b[k] = IF q[k] \in S THEN Append(c, q[k]) ELSE c
    BY <1>12, <2>1 DEF Step
  <2>3. \A x : InSeq(x, c) <=> x \in S /\ \E i \in 1 .. k - 1 : q[i] = x
    BY <1>21, <2>1
  <2>4. PICK y \in D : y = q[k]
    BY <1>0
  <2>5. \A x : InSeq(x, Append(c, y)) <=> InSeq(x, c) \/ x = y
    BY <2>1, InAppend
  <2>6. \A x : InSeq(x, b[k]) <=> InSeq(x, c) \/ (x = y /\ y \in S)
    BY <2>2, <2>4, <2>5
  <2>7. \A i \in 1 .. k : i \in 1 .. k - 1 \/ i = k
    BY <1>0
  <2>8. k \in 1 .. k /\ \A i \in 1 .. k - 1 : i \in 1 .. k
    BY <1>0
  <2>9. Right(k)
    BY <2>3, <2>4, <2>6, <2>7, <2>8
  <2>. QED  BY <1>0, <2>9
<1>22. n \in T
  <2>1. n \in 0 .. n
    BY <1>0
  <2>. HIDE DEF T
  <2>. QED  BY <1>0, <1>20, <1>21, <2>1, AllUpTo
<1>23. b[n] \in Seq(D)
  BY <1>0, <1>12 DEF A
<1>. QED  BY <1>0, <1>16, <1>18, <1>22, <1>23 DEF InSeq

\* What retain keeps.
LEMMA RetainIs ==
  ASSUME NEW A, NEW s \in Seq(A), NEW edge
  PROVE  /\ retain(s, edge) \in Seq(A)
         /\ \A x : InSeq(x, retain(s, edge)) <=> InSeq(x, s) /\ x # edge
<1>1. PICK S : S = Elems(s) \ {edge}
  OBVIOUS
<1>2. retain(s, edge) \in Seq(A) /\ \A x : InSeq(x, retain(s, edge)) <=> InSeq(x, s) /\ x \in S
  BY <1>1, KeptIs DEF retain
<1>3. \A x : InSeq(x, s) => (x \in S <=> x # edge)
  BY <1>1 DEF InSeq, Elems
<1>. QED  BY <1>2, <1>3

-----------------------------------------------------------------------------
(* The adjacency of inserted edges *)

\* The loop of FarEnds, unrolled into a table.
EndsTable(b, S, s, near, far, u) ==
  /\ b \in [0 .. Len(s) -> Seq(S)] /\ b[0] = << >>
  /\ \A k \in 1 .. Len(s) : b[k] = IF s[k][near] = u THEN Append(b[k - 1], s[k][far]) ELSE b[k - 1]

\* The table of the far ends exists, and FarEnds is where it ends.
LEMMA FarEndsIs ==
  ASSUME NEW S, NEW s \in Seq(S \X S), NEW near, NEW far, far = 1 \/ far = 2, NEW u
  PROVE  /\ \E b : EndsTable(b, S, s, near, far, u)
         /\ \A c : EndsTable(c, S, s, near, far, u) => FarEnds(s, near, far, u) = c[Len(s)]
<1>. DEFINE n == Len(s)
            F == [k \in 1 .. n |-> [X \in Seq(S) |-> IF s[k][near] = u THEN Append(X, s[k][far]) ELSE X]]
            Def(t) == [k \in 0 .. n |->
                         IF k = 0 THEN << >>
                         ELSE CHOOSE r \in {IF s[k][near] = u THEN Append(ends, s[k][far]) ELSE ends :
                                              ends \in {t[k - 1]}} : TRUE]
            After == CHOOSE t : t = Def(t)
<1>0. n \in Nat /\ \A k \in 1 .. n : s[k] \in S \X S
  OBVIOUS
<1>1. \A k \in 1 .. n : s[k][far] \in S
  BY <1>0
<1>2. F \in [1 .. n -> [Seq(S) -> Seq(S)]]
  <2>1. ASSUME NEW k \in 1 .. n, NEW X \in Seq(S)
        PROVE  (IF s[k][near] = u THEN Append(X, s[k][far]) ELSE X) \in Seq(S)
    <3>1. PICK x \in S : x = s[k][far]
      BY <1>1
    <3>2. Append(X, x) \in Seq(S)
      OBVIOUS
    <3>. QED  BY <3>1, <3>2
  <2>. QED  BY <2>1
<1>3. PICK b : EndsTable(b, S, s, near, far, u)
  <2>1. << >> \in Seq(S)
    OBVIOUS
  <2>2. PICK b : Iterates(b, n, Seq(S), << >>, F)
    <3>. HIDE DEF F, n
    <3>. QED  BY <1>0, <1>2, <2>1, IteratesExist
  <2>3. b \in [0 .. n -> Seq(S)] /\ b[0] = << >> /\ \A k \in 1 .. n : b[k] = F[k][b[k - 1]]
    BY <2>2 DEF Iterates
  <2>4. \A k \in 1 .. n : b[k] = IF s[k][near] = u THEN Append(b[k - 1], s[k][far]) ELSE b[k - 1]
    <3>0. \A k \in 1 .. n : k - 1 \in 0 .. n
      BY <1>0
    <3>1. \A k \in 1 .. n : b[k - 1] \in Seq(S)
      BY <2>3, <3>0
    <3>. QED  BY <2>3, <3>1
  <2>. QED  BY <2>3, <2>4 DEF EndsTable
<1>4. ASSUME NEW t, NEW k \in 1 .. n
      PROVE  (CHOOSE r \in {IF s[k][near] = u THEN Append(ends, s[k][far]) ELSE ends :
                              ends \in {t[k - 1]}} : TRUE)
             = IF s[k][near] = u THEN Append(t[k - 1], s[k][far]) ELSE t[k - 1]
  <2>1. {IF s[k][near] = u THEN Append(ends, s[k][far]) ELSE ends : ends \in {t[k - 1]}}
        = {IF s[k][near] = u THEN Append(t[k - 1], s[k][far]) ELSE t[k - 1]}
    OBVIOUS
  <2>. QED  BY <2>1, OnlyOne
<1>5. b = Def(b)
  <2>1. b = [k \in 0 .. n |-> b[k]] /\ b[0] = << >>
    BY <1>3 DEF EndsTable
  <2>2. ASSUME NEW k \in 0 .. n PROVE b[k] = Def(b)[k]
    <3>1. CASE k = 0
      BY <2>1, <3>1
    <3>2. CASE k \in 1 .. n
      BY <1>3, <1>4, <3>2 DEF EndsTable
    <3>. QED  BY <1>0, <3>1, <3>2
  <2>. QED  BY <2>1, <2>2
<1>6. After = Def(After)
  <2>1. \E t : t = Def(t)
    BY <1>5
  <2>. QED  BY <2>1
<1>7. FarEnds(s, near, far, u) = After[n]
  BY DEF FarEnds, Loop
<1>. HIDE DEF After
<1>8. After[0] = << >> /\ \A k \in 1 .. n : After[k] =
        IF s[k][near] = u THEN Append(After[k - 1], s[k][far]) ELSE After[k - 1]
  <2>1. \A k \in 0 .. n : After[k] = Def(After)[k]
    BY <1>6
  <2>2. 0 \in 0 .. n /\ \A k \in 1 .. n : k \in 0 .. n /\ k # 0
    BY <1>0
  <2>. QED  BY <1>4, <2>1, <2>2
<1>9. ASSUME NEW c, EndsTable(c, S, s, near, far, u) PROVE After[n] = c[n]
  <2>1. After[0] = c[0]
    BY <1>8, <1>9 DEF EndsTable
  <2>2. \A k \in 1 .. n : After[k - 1] = c[k - 1] => After[k] = c[k]
    BY <1>8, <1>9 DEF EndsTable
  <2>3. PICK m, f : m \in Nat /\ m = n /\ f = After
    BY <1>0
  <2>4. m \in Nat /\ f[0] = c[0]
    BY <2>1, <2>3
  <2>5. StayAlike(f, c, m)
    BY <2>2, <2>3 DEF StayAlike
  <2>6. f[m] = c[m]
    BY ONLY <2>4, <2>5, SameTable
  <2>. QED  BY <2>3, <2>6
<1>. QED  BY <1>3, <1>7, <1>9

\* FarEnds is where every such table ends.
LEMMA FarEndsAt ==
  ASSUME NEW S, NEW s \in Seq(S \X S), NEW near, NEW far, far = 1 \/ far = 2, NEW u,
         NEW b, EndsTable(b, S, s, near, far, u)
  PROVE  FarEnds(s, near, far, u) = b[Len(s)]
BY FarEndsIs

\* The pairs of elements of S, and the far ends after one more edge.
Edges(S) == S \X S
OneMore(ends, e, near, far, u) == IF e[near] = u THEN Append(ends, e[far]) ELSE ends

\* One more edge adds its far end, if it is near.
LEMMA FarEndsAppend ==
  ASSUME NEW S, NEW s \in Seq(S \X S), NEW e \in Edges(S), NEW near, NEW far, far = 1 \/ far = 2, NEW u
  PROVE  /\ FarEnds(s, near, far, u) \in Seq(S)
         /\ FarEnds(Append(s, e), near, far, u) = OneMore(FarEnds(s, near, far, u), e, near, far, u)
<1>1. /\ Append(s, e) \in Seq(S \X S) /\ Len(Append(s, e)) = Len(s) + 1 /\ Len(s) \in Nat
      /\ Append(s, e)[Len(s) + 1] = e
      /\ \A i \in 1 .. Len(s) : Append(s, e)[i] = s[i]
  BY AppendProperties DEF Edges
<1>2. PICK t \in Seq(S \X S) : t = Append(s, e)
  BY <1>1
<1>3. PICK n \in Nat : n = Len(s) /\ Len(t) = n + 1 /\ t[n + 1] = e /\ \A i \in 1 .. n : t[i] = s[i]
  BY <1>1, <1>2
<1>4. PICK b : EndsTable(b, S, t, near, far, u)
  BY FarEndsIs
<1>5. /\ b \in [0 .. n + 1 -> Seq(S)] /\ b[0] = << >>
      /\ \A k \in 1 .. n + 1 : b[k] = IF t[k][near] = u THEN Append(b[k - 1], t[k][far]) ELSE b[k - 1]
  BY <1>3, <1>4 DEF EndsTable
<1>6. FarEnds(t, near, far, u) = b[n + 1]
  <2>1. n + 1 = Len(t)
    BY <1>3
  <2>2. FarEnds(t, near, far, u) = b[Len(t)]
    BY <1>4, FarEndsAt
  <2>. QED  BY <2>1, <2>2
<1>7. PICK c : c = [k \in 0 .. n |-> b[k]]
  OBVIOUS
<1>8. EndsTable(c, S, s, near, far, u)
  <2>1. c \in [0 .. n -> Seq(S)] /\ c[0] = << >>
    BY <1>5, <1>7
  <2>2. ASSUME NEW k \in 1 .. n
        PROVE  c[k] = IF s[k][near] = u THEN Append(c[k - 1], s[k][far]) ELSE c[k - 1]
    <3>1. k \in 1 .. n + 1 /\ k \in 0 .. n /\ k - 1 \in 0 .. n
      OBVIOUS
    <3>2. c[k] = b[k] /\ c[k - 1] = b[k - 1] /\ t[k] = s[k]
      BY <1>3, <1>7, <3>1
    <3>. QED  BY <1>5, <3>1, <3>2
  <2>. QED  BY <1>3, <2>1, <2>2 DEF EndsTable
<1>9. FarEnds(s, near, far, u) = c[n] /\ c[n] = b[n] /\ b[n] \in Seq(S)
  <2>1. FarEnds(s, near, far, u) = c[n]
    <3>1. FarEnds(s, near, far, u) = c[Len(s)]
      BY <1>8, FarEndsAt
    <3>. QED  BY <1>3, <3>1
  <2>2. n \in 0 .. n /\ n \in 0 .. n + 1
    OBVIOUS
  <2>. QED  BY <1>5, <1>7, <2>1, <2>2
<1>10. b[n + 1] = IF e[near] = u THEN Append(b[n], e[far]) ELSE b[n]
  <2>1. n + 1 \in 1 .. n + 1 /\ n + 1 - 1 = n
    OBVIOUS
  <2>. QED  BY <1>3, <1>5, <2>1
<1>. QED  BY <1>2, <1>6, <1>9, <1>10 DEF OneMore

\* No edges.
LEMMA FarEndsEmpty ==
  ASSUME NEW S, NEW near, NEW far, far = 1 \/ far = 2, NEW u
  PROVE  FarEnds(<< >>, near, far, u) = << >>
<1>1. << >> \in Seq(S \X S) /\ Len(<< >>) = 0
  OBVIOUS
<1>2. PICK s \in Seq(S \X S) : s = << >> /\ Len(s) = 0
  BY <1>1
<1>3. PICK b : EndsTable(b, S, s, near, far, u)
  BY FarEndsIs
<1>4. FarEnds(s, near, far, u) = b[0]
  <2>1. FarEnds(s, near, far, u) = b[Len(s)]
    BY <1>3, FarEndsAt
  <2>. QED  BY <1>2, <2>1
<1>5. b[0] = << >>
  BY <1>3 DEF EndsTable
<1>. QED  BY <1>2, <1>4, <1>5

-----------------------------------------------------------------------------
(* Overlays *)

\* Overlays over the ids of some set, whose adjacency lists their inserted edges.
Overlays(S) ==
  [added_edges : Seq(S \X S), by_source : [Ids -> Seq(S)], by_target : [Ids -> Seq(S)],
   tombstoned_edges : SUBSET S, tombstoned_nodes : SUBSET S]
\* The adjacency by source and by target lists the inserted edges.
Adjacent(o) ==
  \A u \in Ids :
    /\ o.by_source[u] = FarEnds(o.added_edges, 1, 2, u)
    /\ o.by_target[u] = FarEnds(o.added_edges, 2, 1, u)
Matched(S) == {o \in Overlays(S) : Adjacent(o)}

\* What has no edges and empty adjacency is matched.
LEMMA BareMatched ==
  ASSUME NEW S, NEW o \in Overlays(S), o.added_edges = << >>,
         o.by_source = EmptyOverlay.by_source, o.by_target = EmptyOverlay.by_target
  PROVE  o \in Matched(S)
<1>1. \A u \in Ids : FarEnds(<< >>, 1, 2, u) = << >>
  BY FarEndsEmpty
<1>2. \A u \in Ids : FarEnds(<< >>, 2, 1, u) = << >>
  BY FarEndsEmpty
<1>3. \A u \in Ids : o.by_source[u] = << >> /\ o.by_target[u] = << >>
  BY DEF EmptyOverlay
<1>. QED  BY <1>1, <1>2, <1>3 DEF Matched, Adjacent

\* The overlay a load starts with.
LEMMA EmptyMatched ==
  ASSUME NEW S
  PROVE  EmptyOverlay \in Matched(S)
<1>1. EmptyOverlay \in Overlays(S)
  BY DEF EmptyOverlay, Overlays
<1>2. EmptyOverlay.added_edges = << >>
  BY DEF EmptyOverlay
<1>. QED  BY <1>1, <1>2, BareMatched

\* An insertion extends the list and both adjacencies.
LEMMA PushMatched ==
  ASSUME NEW S, NEW o \in Matched(S), NEW e \in S \X S
  PROVE  push_edge(o, e) \in Matched(S)
<1>1. o \in Overlays(S) /\ Adjacent(o)
  BY DEF Matched
<1>2. PICK s \in Seq(S \X S) : s = o.added_edges
  BY <1>1 DEF Overlays
<1>3. e[1] \in S /\ e[2] \in S
  OBVIOUS
<1>4. PICK p : p = push_edge(o, e)
  OBVIOUS
<1>5. /\ p.added_edges = Append(s, e)
      /\ p.by_source = [o.by_source EXCEPT ![e[1]] = Append(@, e[2])]
      /\ p.by_target = [o.by_target EXCEPT ![e[2]] = Append(@, e[1])]
      /\ p.tombstoned_edges = o.tombstoned_edges /\ p.tombstoned_nodes = o.tombstoned_nodes
      /\ p = [added_edges |-> p.added_edges, by_source |-> p.by_source, by_target |-> p.by_target,
              tombstoned_edges |-> p.tombstoned_edges, tombstoned_nodes |-> p.tombstoned_nodes]
  BY <1>1, <1>2, <1>4 DEF push_edge, Overlays
<1>6. o.by_source \in [Ids -> Seq(S)] /\ o.by_target \in [Ids -> Seq(S)]
  BY <1>1 DEF Overlays
<1>7. /\ p.by_source \in [Ids -> Seq(S)]
      /\ \A u \in Ids : p.by_source[u] = IF e[1] = u THEN Append(o.by_source[u], e[2]) ELSE o.by_source[u]
  <2>1. \A u \in Ids : p.by_source[u] = IF e[1] = u THEN Append(o.by_source[u], e[2]) ELSE o.by_source[u]
    BY <1>5, <1>6
  <2>2. \A u \in Ids : Append(o.by_source[u], e[2]) \in Seq(S)
    BY <1>3, <1>6
  <2>3. p.by_source = [u \in Ids |-> p.by_source[u]]
    BY <1>5, <1>6
  <2>4. \A u \in Ids : p.by_source[u] \in Seq(S)
    BY <1>6, <2>1, <2>2
  <2>. QED  BY <2>1, <2>3, <2>4
<1>8. /\ p.by_target \in [Ids -> Seq(S)]
      /\ \A u \in Ids : p.by_target[u] = IF e[2] = u THEN Append(o.by_target[u], e[1]) ELSE o.by_target[u]
  <2>1. \A u \in Ids : p.by_target[u] = IF e[2] = u THEN Append(o.by_target[u], e[1]) ELSE o.by_target[u]
    BY <1>5, <1>6
  <2>2. \A u \in Ids : Append(o.by_target[u], e[1]) \in Seq(S)
    BY <1>3, <1>6
  <2>3. p.by_target = [u \in Ids |-> p.by_target[u]]
    BY <1>5, <1>6
  <2>4. \A u \in Ids : p.by_target[u] \in Seq(S)
    BY <1>6, <2>1, <2>2
  <2>. QED  BY <2>1, <2>3, <2>4
<1>9. Append(s, e) \in Seq(S \X S)
  BY AppendProperties
<1>10. p \in Overlays(S)
  <2>1. p.added_edges \in Seq(S \X S)
    BY <1>5, <1>9
  <2>2. p.tombstoned_edges \in SUBSET S /\ p.tombstoned_nodes \in SUBSET S
    BY <1>1, <1>5 DEF Overlays
  <2>. QED  BY <1>5, <1>7, <1>8, <2>1, <2>2 DEF Overlays
<1>11. ASSUME NEW u \in Ids
       PROVE  /\ p.by_source[u] = FarEnds(p.added_edges, 1, 2, u)
              /\ p.by_target[u] = FarEnds(p.added_edges, 2, 1, u)
  <2>1. FarEnds(Append(s, e), 1, 2, u) = IF e[1] = u THEN Append(FarEnds(s, 1, 2, u), e[2]) ELSE FarEnds(s, 1, 2, u)
    <3>1. PICK near, far : near = 1 /\ far = 2
      OBVIOUS
    <3>2. far = 1 \/ far = 2
      BY <3>1
    <3>3. FarEnds(Append(s, e), near, far, u) = OneMore(FarEnds(s, near, far, u), e, near, far, u)
      <4>1. e \in Edges(S)
        BY DEF Edges
      <4>. QED  BY ONLY s \in Seq(S \X S), <4>1, <3>2, FarEndsAppend
    <3>. QED  BY <3>1, <3>3 DEF OneMore
  <2>2. FarEnds(Append(s, e), 2, 1, u) = IF e[2] = u THEN Append(FarEnds(s, 2, 1, u), e[1]) ELSE FarEnds(s, 2, 1, u)
    <3>1. PICK near, far : near = 2 /\ far = 1
      OBVIOUS
    <3>2. far = 1 \/ far = 2
      BY <3>1
    <3>3. FarEnds(Append(s, e), near, far, u) = OneMore(FarEnds(s, near, far, u), e, near, far, u)
      <4>1. e \in Edges(S)
        BY DEF Edges
      <4>. QED  BY ONLY s \in Seq(S \X S), <4>1, <3>2, FarEndsAppend
    <3>. QED  BY <3>1, <3>3 DEF OneMore
  <2>3. o.by_source[u] = FarEnds(s, 1, 2, u) /\ o.by_target[u] = FarEnds(s, 2, 1, u)
    BY <1>1, <1>2 DEF Adjacent
  <2>4. p.by_source[u] = FarEnds(p.added_edges, 1, 2, u)
    BY <1>5, <1>7, <2>1, <2>3
  <2>5. p.by_target[u] = FarEnds(p.added_edges, 2, 1, u)
    BY <1>5, <1>8, <2>2, <2>3
  <2>. QED  BY <2>4, <2>5
<1>12. Adjacent(p)
  BY <1>11 DEF Adjacent
<1>. QED  BY <1>4, <1>10, <1>12 DEF Matched

\* push_edge appends the edge.
LEMMA PushAdds ==
  ASSUME NEW S, NEW o \in Overlays(S), NEW e \in S \X S
  PROVE  push_edge(o, e).added_edges = Append(o.added_edges, e)
<1>1. PICK s \in Seq(S \X S) : s = o.added_edges
  BY DEF Overlays
<1>2. PICK p : p = push_edge(o, e)
  OBVIOUS
<1>3. p.added_edges = Append(s, e)
  BY <1>1, <1>2 DEF push_edge, Overlays
<1>. QED  BY <1>1, <1>2, <1>3

\* rebuild_indexes starts from nothing and inserts every edge again.
LEMMA RebuildMatched ==
  ASSUME NEW S, NEW o \in Overlays(S)
  PROVE  rebuild_indexes(o) \in Matched(S) /\ rebuild_indexes(o).added_edges = o.added_edges
<1>. DEFINE A == Matched(S)
            s == o.added_edges
            n == Len(s)
            base == [o EXCEPT !.added_edges = << >>, !.by_source = EmptyOverlay.by_source,
                              !.by_target = EmptyOverlay.by_target]
            F == [k \in 1 .. n |-> [X \in A |-> push_edge(X, s[k])]]
            Def(t) == [k \in 0 .. n |->
                         IF k = 0 THEN base
                         ELSE CHOOSE r \in {push_edge(acc, s[k]) : acc \in {t[k - 1]}} : TRUE]
            After == CHOOSE t : t = Def(t)
<1>0. s \in Seq(S \X S) /\ n \in Nat /\ \A k \in 1 .. n : s[k] \in S \X S
  BY DEF Overlays
<1>1. base \in A
  <2>1. /\ base \in Overlays(S) /\ base.added_edges = << >>
        /\ base.by_source = EmptyOverlay.by_source /\ base.by_target = EmptyOverlay.by_target
    <3>1. EmptyOverlay.by_source \in [Ids -> Seq(S)] /\ EmptyOverlay.by_target \in [Ids -> Seq(S)]
      BY DEF EmptyOverlay
    <3>2. << >> \in Seq(S \X S)
      OBVIOUS
    <3>. QED  BY <3>1, <3>2 DEF Overlays
  <2>. HIDE DEF base
  <2>. QED  BY <2>1, BareMatched
<1>2. F \in [1 .. n -> [A -> A]]
  <2>1. \A k \in 1 .. n, X \in A : push_edge(X, s[k]) \in A
    BY <1>0, PushMatched
  <2>. HIDE DEF A
  <2>. QED  BY <2>1
<1>3. PICK b : Iterates(b, n, A, base, F)
  <2>. HIDE DEF A, F, n, base
  <2>. QED  BY <1>0, <1>1, <1>2, IteratesExist
<1>. HIDE DEF A, base
<1>4. /\ b \in [0 .. n -> A] /\ b[0] = base
      /\ \A k \in 1 .. n : b[k] = push_edge(b[k - 1], s[k])
  <2>1. b \in [0 .. n -> A] /\ b[0] = base /\ \A k \in 1 .. n : b[k] = F[k][b[k - 1]]
    BY <1>3 DEF Iterates
  <2>2. \A k \in 1 .. n : k - 1 \in 0 .. n
    BY <1>0
  <2>3. \A k \in 1 .. n : b[k - 1] \in A
    BY <2>1, <2>2
  <2>. QED  BY <2>1, <2>3
<1>5. ASSUME NEW t, NEW k \in 1 .. n
      PROVE  (CHOOSE r \in {push_edge(acc, s[k]) : acc \in {t[k - 1]}} : TRUE) = push_edge(t[k - 1], s[k])
  <2>1. {push_edge(acc, s[k]) : acc \in {t[k - 1]}} = {push_edge(t[k - 1], s[k])}
    OBVIOUS
  <2>. QED  BY <2>1, OnlyOne
<1>6. b = Def(b)
  <2>1. b = [k \in 0 .. n |-> b[k]]
    BY <1>4
  <2>2. ASSUME NEW k \in 0 .. n PROVE b[k] = Def(b)[k]
    <3>1. CASE k = 0
      BY <1>4, <3>1
    <3>2. CASE k \in 1 .. n
      BY <1>4, <1>5, <3>2
    <3>. QED  BY <1>0, <3>1, <3>2
  <2>. QED  BY <2>1, <2>2
<1>7. After = Def(After)
  <2>1. \E t : t = Def(t)
    BY <1>6
  <2>. QED  BY <2>1
<1>8. rebuild_indexes(o) = After[n]
  BY DEF rebuild_indexes, Loop, base
<1>. HIDE DEF After
<1>9. After[0] = base /\ \A k \in 1 .. n : After[k] = push_edge(After[k - 1], s[k])
  <2>1. \A k \in 0 .. n : After[k] = Def(After)[k]
    BY <1>7
  <2>2. 0 \in 0 .. n /\ \A k \in 1 .. n : k \in 0 .. n /\ k # 0
    BY <1>0
  <2>. QED  BY <1>5, <2>1, <2>2
<1>10. PICK m, f : m \in Nat /\ m = n /\ f = After
  BY <1>0
<1>11. f[0] = b[0]
  BY <1>4, <1>9, <1>10
<1>a. StayAlike(f, b, m)
  BY <1>4, <1>9, <1>10 DEF StayAlike
<1>12. f[m] = b[m]
  <2>1. m \in Nat
    BY <1>10
  <2>. QED  BY ONLY <2>1, <1>11, <1>a, SameTable
<1>13. After[n] = b[n] /\ b[n] \in A
  BY <1>0, <1>4, <1>10, <1>12
<1>14. b[n].added_edges = s
  <2>. DEFINE T == {k \in 0 .. n : b[k].added_edges = SubSeq(s, 1, k)}
  <2>1. 0 \in T
    <3>1. base.added_edges = << >>
      BY DEF base, Overlays
    <3>2. SubSeq(s, 1, 0) = << >>
      BY <1>0
    <3>3. b[0].added_edges = SubSeq(s, 1, 0)
      BY <1>4, <3>1, <3>2
    <3>4. 0 \in 0 .. n
      BY <1>0
    <3>. QED  BY <3>3, <3>4
  <2>2. ASSUME NEW k \in 1 .. n, k - 1 \in T PROVE k \in T
    <3>1. k \in 0 .. n /\ k - 1 \in 0 .. n
      BY <1>0
    <3>2. b[k - 1] \in Overlays(S) /\ s[k] \in S \X S
      BY <1>0, <1>4, <3>1 DEF A, Matched
    <3>3. PICK p, e : p = b[k - 1] /\ e = s[k]
      OBVIOUS
    <3>4. push_edge(p, e).added_edges = Append(p.added_edges, e)
      BY <3>2, <3>3, PushAdds
    <3>5. Append(SubSeq(s, 1, k - 1), s[k]) = SubSeq(s, 1, k)
      BY <1>0, FirstRows
    <3>6. p.added_edges = SubSeq(s, 1, k - 1)
      BY <2>2, <3>3
    <3>7. b[k] = push_edge(p, e)
      BY <1>4, <3>3
    <3>8. b[k].added_edges = SubSeq(s, 1, k)
      BY <3>3, <3>4, <3>5, <3>6, <3>7
    <3>. QED  BY <3>1, <3>8
  <2>3. n \in T
    <3>1. PICK m2 : m2 = n /\ m2 \in Nat /\ m2 \in 0 .. m2
      BY <1>0
    <3>2. \A k \in 1 .. m2 : k - 1 \in T => k \in T
      <4>. HIDE DEF T
      <4>. QED  BY <2>2, <3>1
    <3>3. \A k \in 0 .. m2 : k \in T
      <4>. HIDE DEF T
      <4>. QED  BY <2>1, <3>1, <3>2, AllUpTo
    <3>. QED  BY <3>1, <3>3
  <2>4. SubSeq(s, 1, n) = s
    BY <1>0
  <2>. QED  BY <2>3, <2>4
<1>15. rebuild_indexes(o) = b[n]
  BY <1>8, <1>13
<1>16. b[n] \in Matched(S)
  BY <1>13 DEF A
<1>. QED  BY <1>14, <1>15, <1>16

\* One sync row, whose ids are in S.
LEMMA ApplyMatched ==
  ASSUME NEW S, NEW o \in Matched(S), NEW row, row.arg0 \in S, row.arg1 \in S
  PROVE  apply_to(row, o) \in Matched(S)
<1>1. o \in Overlays(S) /\ Adjacent(o)
  BY DEF Matched
<1>2. PICK e \in S \X S : e = <<row.arg0, row.arg1>>
  OBVIOUS
<1>3. push_edge(o, e) \in Matched(S)
  BY PushMatched
<1>4. remove_edge(o, e) \in Matched(S)
  <2>1. o.added_edges \in Seq(S \X S)
    BY <1>1 DEF Overlays
  <2>2. retain(o.added_edges, e) \in Seq(S \X S)
    BY <2>1, RetainIs
  <2>3. [o EXCEPT !.added_edges = retain(o.added_edges, e)] \in Overlays(S)
    BY <1>1, <2>2 DEF Overlays
  <2>4. rebuild_indexes([o EXCEPT !.added_edges = retain(o.added_edges, e)]) \in Matched(S)
    BY <2>3, RebuildMatched
  <2>. QED  BY <2>4 DEF remove_edge
<1>5. ASSUME NEW p \in Overlays(S), p.added_edges = o.added_edges, p.by_source = o.by_source, p.by_target = o.by_target
      PROVE  p \in Matched(S)
  BY <1>1, <1>5 DEF Matched, Adjacent
<1>6. tombstone_edge(o, row.arg0) \in Matched(S)
  <2>1. PICK p : p = tombstone_edge(o, row.arg0)
    OBVIOUS
  <2>2. p \in Overlays(S) /\ p.added_edges = o.added_edges /\ p.by_source = o.by_source /\ p.by_target = o.by_target
    BY <1>1, <2>1 DEF tombstone_edge, Overlays
  <2>. QED  BY <1>5, <2>1, <2>2
<1>7. tombstone_node(o, row.arg0) \in Matched(S)
  <2>1. PICK p : p = tombstone_node(o, row.arg0)
    OBVIOUS
  <2>2. p \in Overlays(S) /\ p.added_edges = o.added_edges /\ p.by_source = o.by_source /\ p.by_target = o.by_target
    BY <1>1, <2>1 DEF tombstone_node, Overlays
  <2>. QED  BY <1>5, <2>1, <2>2
<1>8. clear(o) \in Matched(S)
  BY EmptyMatched DEF clear
<1>. QED  BY <1>2, <1>3, <1>4, <1>6, <1>7, <1>8 DEF apply_to

\* What one sync row does to the inserted edges.
LEMMA ApplyMembers ==
  ASSUME NEW S, NEW o \in Matched(S), NEW row, row.arg0 \in S, row.arg1 \in S, NEW x
  PROVE  LET now == apply_to(row, o).added_edges IN
           /\ row.action = InsertEdge => (InSeq(x, now) <=> InSeq(x, o.added_edges) \/ x = <<row.arg0, row.arg1>>)
           /\ row.action = RemoveOverlayEdge =>
                (InSeq(x, now) <=> InSeq(x, o.added_edges) /\ x # <<row.arg0, row.arg1>>)
           /\ row.action \in {DeleteEdge, DeleteNode} => now = o.added_edges
           /\ row.action = TruncateOverlays => now = << >>
<1>1. o \in Overlays(S)
  BY DEF Matched
<1>2. PICK e \in S \X S : e = <<row.arg0, row.arg1>>
  OBVIOUS
<1>3. PICK s \in Seq(S \X S) : s = o.added_edges
  BY <1>1 DEF Overlays
<1>4. InsertEdge = 1 /\ DeleteEdge = 2 /\ DeleteNode = 3 /\ TruncateOverlays = 4 /\ RemoveOverlayEdge = 5
  BY DEF InsertEdge, DeleteEdge, DeleteNode, TruncateOverlays, RemoveOverlayEdge
<1>5. CASE row.action = InsertEdge
  <2>1. apply_to(row, o) = push_edge(o, e)
    BY <1>2, <1>4, <1>5 DEF apply_to
  <2>2. push_edge(o, e).added_edges = Append(s, e)
    BY <1>1, <1>3, PushAdds
  <2>3. InSeq(x, Append(s, e)) <=> InSeq(x, s) \/ x = e
    BY InAppend
  <2>4. row.action = 1
    BY <1>4, <1>5
  <2>5. InSeq(x, apply_to(row, o).added_edges) <=> InSeq(x, o.added_edges) \/ x = <<row.arg0, row.arg1>>
    BY <1>2, <1>3, <2>1, <2>2, <2>3
  <2>. QED  BY <1>4, <2>4, <2>5
<1>6. CASE row.action = RemoveOverlayEdge
  <2>1. apply_to(row, o) = remove_edge(o, e)
    BY <1>2, <1>4, <1>6 DEF apply_to
  <2>2. PICK r \in Seq(S \X S) : r = retain(s, e) /\ (InSeq(x, r) <=> InSeq(x, s) /\ x # e)
    BY RetainIs
  <2>3. PICK p : p = [o EXCEPT !.added_edges = r]
    OBVIOUS
  <2>4. p \in Overlays(S) /\ p.added_edges = r
    BY <1>1, <2>3 DEF Overlays
  <2>5. rebuild_indexes(p).added_edges = r
    BY <2>4, RebuildMatched
  <2>6. remove_edge(o, e).added_edges = r
    BY <1>3, <2>2, <2>3, <2>5 DEF remove_edge
  <2>7. row.action = 5
    BY <1>4, <1>6
  <2>. QED  BY <1>2, <1>3, <1>4, <2>1, <2>2, <2>6, <2>7
<1>7. CASE row.action \in {DeleteEdge, DeleteNode}
  <2>1. apply_to(row, o) = tombstone_edge(o, row.arg0) \/ apply_to(row, o) = tombstone_node(o, row.arg0)
    BY <1>4, <1>7 DEF apply_to
  <2>2. tombstone_edge(o, row.arg0).added_edges = o.added_edges
    BY <1>1 DEF tombstone_edge, Overlays
  <2>3. tombstone_node(o, row.arg0).added_edges = o.added_edges
    BY <1>1 DEF tombstone_node, Overlays
  <2>4. row.action = 2 \/ row.action = 3
    BY <1>4, <1>7
  <2>. QED  BY <1>4, <2>1, <2>2, <2>3, <2>4
<1>8. CASE row.action = TruncateOverlays
  <2>1. apply_to(row, o) = EmptyOverlay
    BY <1>4, <1>8 DEF apply_to, clear
  <2>2. EmptyOverlay.added_edges = << >>
    BY DEF EmptyOverlay
  <2>3. row.action = 4
    BY <1>4, <1>8
  <2>. QED  BY <1>4, <2>1, <2>2, <2>3
<1>. QED  BY <1>5, <1>6, <1>7, <1>8

\* The overlays of a replay, one row after the other.
Replay(b, S, n, rows, o) ==
  b \in [0 .. n -> Matched(S)] /\ b[0] = o /\ \A k \in 1 .. n : b[k] = apply_to(rows[k], b[k - 1])

\* Rows whose sequences grow are all applied.
LEMMA InOrderApplied ==
  ASSUME NEW S, NEW o \in Matched(S), NEW n \in Nat, NEW rows, Len(rows) = n,
         \A k \in 1 .. n : rows[k].arg0 \in S /\ rows[k].arg1 \in S /\ rows[k].sequence \in Nat,
         \A k \in 2 .. n : rows[k - 1].sequence < rows[k].sequence
  PROVE  \E b : Replay(b, S, n, rows, o) /\ apply_in_order(rows, o).overlay = b[n]
<1>. DEFINE A == Matched(S)
            G == [k \in 1 .. n |-> [X \in A |-> apply_to(rows[k], X)]]
<1>1. \A k \in 1 .. n, X \in A : apply_to(rows[k], X) \in A
  BY ApplyMatched
<1>2. G \in [1 .. n -> [A -> A]]
  <2>. HIDE DEF A
  <2>. QED  BY <1>1
<1>3. PICK b : Iterates(b, n, A, o, G)
  <2>. HIDE DEF G
  <2>. QED  BY <1>2, IteratesExist
<1>4. Replay(b, S, n, rows, o)
  <2>. HIDE DEF A
  <2>1. b \in [0 .. n -> A] /\ b[0] = o /\ \A k \in 1 .. n : b[k] = G[k][b[k - 1]]
    BY <1>3 DEF Iterates
  <2>2. \A k \in 1 .. n : k - 1 \in 0 .. n
    OBVIOUS
  <2>3. \A k \in 1 .. n : b[k - 1] \in A
    BY <2>1, <2>2
  <2>4. \A k \in 1 .. n : b[k] = apply_to(rows[k], b[k - 1])
    BY <2>1, <2>3
  <2>. QED  BY <2>1, <2>4 DEF Replay, A
<1>. HIDE DEF A, G
<1>. DEFINE Step(st, row) ==
              IF st.err # "Ok" \/ row.sequence <= st.last THEN [st EXCEPT !.err = "NonMonotonicSequence"]
              ELSE [err |-> "Ok", last |-> row.sequence, overlay |-> apply_to(row, st.overlay),
                    applied |-> st.applied + 1]
            base == [err |-> "Ok", last |-> -1, overlay |-> o, applied |-> 0]
            c == [k \in 0 .. n |-> [err |-> "Ok", last |-> IF k = 0 THEN -1 ELSE rows[k].sequence,
                                    overlay |-> b[k], applied |-> k]]
            Def(t) == [k \in 0 .. n |->
                         IF k = 0 THEN base
                         ELSE CHOOSE r \in {Step(acc, rows[k]) : acc \in {t[k - 1]}} : TRUE]
            After == CHOOSE t : t = Def(t)
<1>5. c[0] = base
  <2>1. 0 \in 0 .. n /\ b[0] = o
    BY <1>4 DEF Replay
  <2>. QED  BY <2>1
<1>6. ASSUME NEW k \in 1 .. n PROVE Step(c[k - 1], rows[k]) = c[k]
  <2>1. k - 1 \in 0 .. n /\ k \in 0 .. n /\ k # 0 /\ (k - 1) + 1 = k
    OBVIOUS
  <2>2. PICK last : last = IF k - 1 = 0 THEN -1 ELSE rows[k - 1].sequence
    OBVIOUS
  <2>3. c[k - 1] = [err |-> "Ok", last |-> last, overlay |-> b[k - 1], applied |-> k - 1]
    BY <2>1, <2>2
  <2>4. c[k] = [err |-> "Ok", last |-> rows[k].sequence, overlay |-> b[k], applied |-> k]
    BY <2>1
  <2>5. ~(rows[k].sequence <= last)
    <3>1. CASE k = 1
      BY <2>2, <3>1
    <3>2. CASE k # 1
      <4>1. k \in 2 .. n /\ k - 1 \in 1 .. n /\ k - 1 # 0
        BY <3>2
      <4>2. rows[k - 1].sequence < rows[k].sequence /\ rows[k].sequence \in Nat /\ rows[k - 1].sequence \in Nat
        BY <4>1
      <4>. QED  BY <2>2, <4>1, <4>2
    <3>. QED  BY <3>1, <3>2
  <2>6. b[k] = apply_to(rows[k], b[k - 1])
    BY <1>4 DEF Replay
  <2>. HIDE DEF c
  <2>7. Step(c[k - 1], rows[k]) = [err |-> "Ok", last |-> rows[k].sequence, overlay |-> apply_to(rows[k], b[k - 1]),
                                   applied |-> (k - 1) + 1]
    BY <2>3, <2>5
  <2>. HIDE DEF Step
  <2>. QED  BY <2>1, <2>4, <2>6, <2>7
<1>. HIDE DEF Step, base
<1>7. ASSUME NEW t, NEW k \in 1 .. n
      PROVE  (CHOOSE r \in {Step(acc, rows[k]) : acc \in {t[k - 1]}} : TRUE) = Step(t[k - 1], rows[k])
  <2>1. {Step(acc, rows[k]) : acc \in {t[k - 1]}} = {Step(t[k - 1], rows[k])}
    OBVIOUS
  <2>. QED  BY <2>1, OnlyOne
<1>8. c = Def(c)
  <2>1. ASSUME NEW k \in 0 .. n PROVE c[k] = Def(c)[k]
    <3>. HIDE DEF c
    <3>1. CASE k = 0
      BY <1>5, <3>1
    <3>2. CASE k \in 1 .. n
      BY <1>6, <1>7, <3>2
    <3>. QED  BY <3>1, <3>2
  <2>2. c = [k \in 0 .. n |-> c[k]]
    OBVIOUS
  <2>. HIDE DEF c
  <2>. QED  BY <2>1, <2>2
<1>9. After = Def(After)
  <2>1. \E t : t = Def(t)
    BY <1>8
  <2>. QED  BY <2>1
<1>10. apply_in_order(rows, o) = After[n]
  BY DEF apply_in_order, Loop, base, Step
<1>. HIDE DEF After
<1>11. After[0] = base /\ \A k \in 1 .. n : After[k] = Step(After[k - 1], rows[k])
  <2>1. \A k \in 0 .. n : After[k] = Def(After)[k]
    BY <1>9
  <2>2. 0 \in 0 .. n /\ \A k \in 1 .. n : k \in 0 .. n /\ k # 0
    OBVIOUS
  <2>. QED  BY <1>7, <2>1, <2>2
<1>12. PICK f, g : f = After /\ g = c
  OBVIOUS
<1>13. f[0] = g[0] /\ StayAlike(f, g, n)
  <2>. HIDE DEF c
  <2>. QED  BY <1>5, <1>6, <1>11, <1>12 DEF StayAlike
<1>14. f[n] = g[n]
  BY ONLY n \in Nat, <1>13, SameTable
<1>15. c[n].overlay = b[n]
  OBVIOUS
<1>. QED  BY <1>4, <1>10, <1>12, <1>14, <1>15

-----------------------------------------------------------------------------
(* The registered catalog *)

\* Rows that do not clash, and the catalog they make.
Distinct(tables) ==
  \A i, j \in DOMAIN tables : tables[i].id = tables[j].id \/ tables[i].name = tables[j].name => i = j
DistinctIds(edges) == \A i, j \in DOMAIN edges : edges[i].id = edges[j].id => i = j
Rows(tables, edges) == [tables |-> tables, edges |-> edges, filter_columns |-> {}]

\* What add_table and add_edge_to make of a catalog of rows.
LEMMA AddTable ==
  ASSUME NEW c, NEW p, NEW e, c = Rows(p, e), NEW t,
         \A i \in DOMAIN p : p[i].id # t.id /\ p[i].name # t.name
  PROVE  add_table(c, t) = Ok(Rows(Append(p, t), e))
<1>1. c.tables = p
  BY DEF Rows
<1>2. [c EXCEPT !.tables = Append(c.tables, t)] = Rows(Append(p, t), e)
  <2>1. PICK q : q = Append(p, t)
    OBVIOUS
  <2>2. [c EXCEPT !.tables = q] = Rows(q, e)
    BY DEF Rows
  <2>. QED  BY ONLY <1>1, <2>1, <2>2
<1>. QED  BY <1>1, <1>2 DEF add_table, HasTable

\* An edge with a new id between registered tables is appended.
LEMMA AddEdge ==
  ASSUME NEW c, NEW p, NEW e, c = Rows(p, e), NEW x,
         \A i \in DOMAIN e : e[i].id # x.id,
         HasTable(c, x.source_table), HasTable(c, x.target_table)
  PROVE  add_edge_to(c, x) = Ok(Rows(p, Append(e, x)))
<1>1. c.edges = e
  BY DEF Rows
<1>2. [c EXCEPT !.edges = Append(c.edges, x)] = Rows(p, Append(e, x))
  <2>1. PICK q : q = Append(e, x)
    OBVIOUS
  <2>2. [c EXCEPT !.edges = q] = Rows(p, q)
    BY DEF Rows
  <2>. QED  BY ONLY <1>1, <2>1, <2>2
<1>. QED  BY <1>1, <1>2 DEF add_edge_to

\* Tables with distinct ids and names are all registered.
LEMMA TablesLoad ==
  ASSUME NEW T, NEW s \in Seq(T), Distinct(s)
  PROVE  RegisteredTables(s) = Ok(Rows(s, << >>))
<1>. DEFINE n == Len(s)
            b == [k \in 0 .. n |-> Ok(Rows(SubSeq(s, 1, k), << >>))]
            Step(acc, t) == IF acc.err = "Ok" THEN add_table(acc.val, t) ELSE acc
            Def(t) == [k \in 0 .. n |->
                         IF k = 0 THEN Ok(EmptyCatalog)
                         ELSE CHOOSE r \in {Step(acc, s[k]) : acc \in {t[k - 1]}} : TRUE]
            After == CHOOSE t : t = Def(t)
<1>0. n \in Nat /\ DOMAIN s = 1 .. n /\ SubSeq(s, 1, n) = s /\ SubSeq(s, 1, 0) = << >>
  OBVIOUS
<1>1. b[0] = Ok(EmptyCatalog)
  <2>1. 0 \in 0 .. n
    BY <1>0
  <2>2. b[0] = Ok(Rows(SubSeq(s, 1, 0), << >>))
    BY <2>1
  <2>3. Rows(<< >>, << >>) = EmptyCatalog
    BY DEF Rows, EmptyCatalog
  <2>. QED  BY <1>0, <2>2, <2>3
<1>2. ASSUME NEW k \in 1 .. n PROVE Step(b[k - 1], s[k]) = b[k]
  <2>1. k - 1 \in 0 .. n /\ k \in 0 .. n /\ k \in DOMAIN s
    BY <1>0
  <2>2. PICK p : p = SubSeq(s, 1, k - 1) /\ DOMAIN p = 1 .. k - 1
                 /\ (\A i \in 1 .. k - 1 : p[i] = s[i]) /\ Append(p, s[k]) = SubSeq(s, 1, k)
    <3>1. PICK A : s \in Seq(A) /\ k \in 1 .. Len(s)
      OBVIOUS
    <3>2. /\ DOMAIN SubSeq(s, 1, k - 1) = 1 .. k - 1
          /\ \A i \in 1 .. k - 1 : SubSeq(s, 1, k - 1)[i] = s[i]
          /\ Append(SubSeq(s, 1, k - 1), s[k]) = SubSeq(s, 1, k)
      BY ONLY <3>1, FirstRows
    <3>. QED  BY ONLY <3>2
  <2>3. ASSUME NEW i \in DOMAIN p PROVE p[i].id # s[k].id /\ p[i].name # s[k].name
    <3>1. i \in DOMAIN s /\ i # k /\ p[i] = s[i]
      BY <1>0, <2>2
    <3>. QED  BY <2>1, <3>1 DEF Distinct
  <2>4. PICK c : c = Rows(p, << >>)
    OBVIOUS
  <2>6. add_table(c, s[k]) = Ok(Rows(Append(p, s[k]), << >>))
    <3>1. PICK t, e : t = s[k] /\ e = << >>
      OBVIOUS
    <3>2. c = Rows(p, e)
      BY <2>4, <3>1
    <3>3. \A i \in DOMAIN p : p[i].id # t.id /\ p[i].name # t.name
      BY <2>3, <3>1
    <3>4. add_table(c, t) = Ok(Rows(Append(p, t), e))
      BY ONLY <3>2, <3>3, AddTable
    <3>. QED  BY <3>1, <3>4
  <2>7. b[k - 1] = Ok(c) /\ Ok(c).err = "Ok" /\ Ok(c).val = c
    BY <2>1, <2>2, <2>4 DEF Ok
  <2>8. b[k] = Ok(Rows(Append(p, s[k]), << >>))
    BY <2>1, <2>2
  <2>. HIDE DEF b
  <2>. QED  BY <2>6, <2>7, <2>8
<1>3. ASSUME NEW t, NEW k \in 1 .. n
      PROVE  (CHOOSE r \in {Step(acc, s[k]) : acc \in {t[k - 1]}} : TRUE) = Step(t[k - 1], s[k])
  <2>. HIDE DEF Step
  <2>1. {Step(acc, s[k]) : acc \in {t[k - 1]}} = {Step(t[k - 1], s[k])}
    OBVIOUS
  <2>. QED  BY <2>1, OnlyOne
<1>5. RegisteredTables(s) = After[n]
  BY DEF RegisteredTables, Loop
<1>. HIDE DEF Step
<1>6. b = Def(b)
  <2>1. ASSUME NEW k \in 0 .. n PROVE b[k] = Def(b)[k]
    <3>. HIDE DEF b
    <3>1. CASE k = 0
      BY <1>1, <3>1
    <3>2. CASE k \in 1 .. n
      BY <1>0, <1>2, <1>3, <3>2
    <3>. QED  BY <1>0, <3>1, <3>2
  <2>2. b = [k \in 0 .. n |-> b[k]]
    OBVIOUS
  <2>. HIDE DEF b
  <2>. QED  BY <2>1, <2>2
<1>7. After = Def(After)
  <2>1. \E t : t = Def(t)
    BY <1>6
  <2>. QED  BY <2>1
<1>. HIDE DEF After
<1>8. After[0] = Ok(EmptyCatalog) /\ \A k \in 1 .. n : After[k] = Step(After[k - 1], s[k])
  <2>1. \A k \in 0 .. n : After[k] = Def(After)[k]
    BY <1>7
  <2>2. 0 \in 0 .. n /\ \A k \in 1 .. n : k \in 0 .. n /\ k # 0
    BY <1>0
  <2>. QED  BY <1>3, <2>1, <2>2
<1>9. PICK m, f, g : m \in Nat /\ m = n /\ f = After /\ g = b
  BY <1>0
<1>10. f[0] = g[0]
  BY <1>1, <1>8, <1>9
<1>11. StayAlike(f, g, m)
  <2>. HIDE DEF b
  <2>. QED  BY <1>2, <1>8, <1>9 DEF StayAlike
<1>12. f[m] = g[m]
  <2>1. m \in Nat
    BY <1>9
  <2>. QED  BY ONLY <2>1, <1>10, <1>11, SameTable
<1>13. b[n] = Ok(Rows(s, << >>))
  <2>1. n \in 0 .. n
    BY <1>0
  <2>2. b[n] = Ok(Rows(SubSeq(s, 1, n), << >>))
    BY <2>1
  <2>. QED  BY <1>0, <2>2
<1>14. After[n] = b[n]
  BY <1>9, <1>12
<1>. QED  BY <1>5, <1>13, <1>14

\* A table with that id.
HasId(tables, id) == \E i \in DOMAIN tables : tables[i].id = id

\* Edges with distinct ids between registered tables are all registered.
LEMMA EdgesLoad ==
  ASSUME NEW T, NEW E, NEW c, NEW t \in Seq(T), NEW s \in Seq(E), c.tables = t, c.edges = s,
         Distinct(t), DistinctIds(s),
         \A k \in DOMAIN s : HasId(t, s[k].source_table) /\ HasId(t, s[k].target_table)
  PROVE  Registered(c) = Ok(Rows(t, s))
<1>. DEFINE n == Len(s)
            b == [k \in 0 .. n |-> Ok(Rows(t, SubSeq(s, 1, k)))]
            Step(acc, e) == IF acc.err = "Ok" THEN add_edge_to(acc.val, e) ELSE acc
            base == RegisteredTables(t)
            Def(f) == [k \in 0 .. n |->
                         IF k = 0 THEN base
                         ELSE CHOOSE r \in {Step(acc, s[k]) : acc \in {f[k - 1]}} : TRUE]
            After == CHOOSE f : f = Def(f)
<1>0. n \in Nat /\ DOMAIN s = 1 .. n /\ SubSeq(s, 1, n) = s /\ SubSeq(s, 1, 0) = << >>
  OBVIOUS
<1>a. base = Ok(Rows(t, << >>))
  BY TablesLoad
<1>1. b[0] = base
  <2>1. 0 \in 0 .. n
    BY <1>0
  <2>2. b[0] = Ok(Rows(t, SubSeq(s, 1, 0)))
    BY <2>1
  <2>. QED  BY <1>0, <1>a, <2>2
<1>2. ASSUME NEW k \in 1 .. n PROVE Step(b[k - 1], s[k]) = b[k]
  <2>1. k - 1 \in 0 .. n /\ k \in 0 .. n /\ k \in DOMAIN s
    BY <1>0
  <2>2. PICK p : p = SubSeq(s, 1, k - 1) /\ DOMAIN p = 1 .. k - 1
                 /\ (\A i \in 1 .. k - 1 : p[i] = s[i]) /\ Append(p, s[k]) = SubSeq(s, 1, k)
    <3>1. PICK A : s \in Seq(A) /\ k \in 1 .. Len(s)
      OBVIOUS
    <3>2. /\ DOMAIN SubSeq(s, 1, k - 1) = 1 .. k - 1
          /\ \A i \in 1 .. k - 1 : SubSeq(s, 1, k - 1)[i] = s[i]
          /\ Append(SubSeq(s, 1, k - 1), s[k]) = SubSeq(s, 1, k)
      BY ONLY <3>1, FirstRows
    <3>. QED  BY ONLY <3>2
  <2>3. ASSUME NEW i \in DOMAIN p PROVE p[i].id # s[k].id
    <3>1. i \in DOMAIN s /\ i # k /\ p[i] = s[i]
      BY <1>0, <2>2
    <3>. QED  BY <2>1, <3>1 DEF DistinctIds
  <2>4. PICK d : d = Rows(t, p)
    OBVIOUS
  <2>6. add_edge_to(d, s[k]) = Ok(Rows(t, Append(p, s[k])))
    <3>1. PICK x : x = s[k]
      OBVIOUS
    <3>3. \A i \in DOMAIN p : p[i].id # x.id
      BY <2>3, <3>1
    <3>4. HasTable(d, x.source_table) /\ HasTable(d, x.target_table)
      <4>1. d.tables = t
        BY <2>4 DEF Rows
      <4>2. HasId(t, x.source_table) /\ HasId(t, x.target_table)
        BY <2>1, <3>1
      <4>. QED  BY <4>1, <4>2 DEF HasTable, HasId
    <3>5. add_edge_to(d, x) = Ok(Rows(t, Append(p, x)))
      BY ONLY <2>4, <3>3, <3>4, AddEdge
    <3>. QED  BY <3>1, <3>5
  <2>7. b[k - 1] = Ok(d) /\ Ok(d).err = "Ok" /\ Ok(d).val = d
    BY <2>1, <2>2, <2>4 DEF Ok
  <2>8. b[k] = Ok(Rows(t, Append(p, s[k])))
    BY <2>1, <2>2
  <2>. HIDE DEF b
  <2>. QED  BY <2>6, <2>7, <2>8
<1>3. ASSUME NEW f, NEW k \in 1 .. n
      PROVE  (CHOOSE r \in {Step(acc, s[k]) : acc \in {f[k - 1]}} : TRUE) = Step(f[k - 1], s[k])
  <2>. HIDE DEF Step
  <2>1. {Step(acc, s[k]) : acc \in {f[k - 1]}} = {Step(f[k - 1], s[k])}
    OBVIOUS
  <2>. QED  BY <2>1, OnlyOne
<1>5. Registered(c) = After[n]
  BY DEF Registered, Loop
<1>. HIDE DEF Step, base
<1>6. b = Def(b)
  <2>1. ASSUME NEW k \in 0 .. n PROVE b[k] = Def(b)[k]
    <3>. HIDE DEF b
    <3>1. CASE k = 0
      BY <1>1, <3>1
    <3>2. CASE k \in 1 .. n
      BY <1>0, <1>2, <1>3, <3>2
    <3>. QED  BY <1>0, <3>1, <3>2
  <2>2. b = [k \in 0 .. n |-> b[k]]
    OBVIOUS
  <2>. HIDE DEF b
  <2>. QED  BY <2>1, <2>2
<1>7. After = Def(After)
  <2>1. \E f : f = Def(f)
    BY <1>6
  <2>. QED  BY <2>1
<1>. HIDE DEF After
<1>8. After[0] = base /\ \A k \in 1 .. n : After[k] = Step(After[k - 1], s[k])
  <2>1. \A k \in 0 .. n : After[k] = Def(After)[k]
    BY <1>7
  <2>2. 0 \in 0 .. n /\ \A k \in 1 .. n : k \in 0 .. n /\ k # 0
    BY <1>0
  <2>. QED  BY <1>3, <2>1, <2>2
<1>9. PICK m, f, g : m \in Nat /\ m = n /\ f = After /\ g = b
  BY <1>0
<1>10. f[0] = g[0]
  BY <1>1, <1>8, <1>9
<1>11. StayAlike(f, g, m)
  <2>. HIDE DEF b
  <2>. QED  BY <1>2, <1>8, <1>9 DEF StayAlike
<1>12. f[m] = g[m]
  <2>1. m \in Nat
    BY <1>9
  <2>. QED  BY ONLY <2>1, <1>10, <1>11, SameTable
<1>13. b[n] = Ok(Rows(t, s))
  <2>1. n \in 0 .. n
    BY <1>0
  <2>2. b[n] = Ok(Rows(t, SubSeq(s, 1, n)))
    BY <2>1
  <2>. QED  BY <1>0, <2>2
<1>14. After[n] = b[n]
  BY <1>9, <1>12
<1>. QED  BY <1>5, <1>13, <1>14

\* A catalog that reads back: distinct tables, distinct edges, nothing that refers to a table
\* that is not there.
Loadable(c) ==
  /\ c = [tables |-> c.tables, edges |-> c.edges, filter_columns |-> c.filter_columns]
  /\ c.tables \in Seq(Elems(c.tables)) /\ Distinct(c.tables)
  /\ c.edges \in Seq(Elems(c.edges)) /\ DistinctIds(c.edges)
  /\ \A k \in DOMAIN c.edges : HasId(c.tables, c.edges[k].source_table) /\ HasId(c.tables, c.edges[k].target_table)
  /\ \A f \in c.filter_columns : HasId(c.tables, f.table)

\* Such a catalog reads back as itself.
LEMMA LoadableLoads ==
  ASSUME NEW c, Loadable(c)
  PROVE  from_registration_rows(c) = Ok(c)
<1>1. PICK t, e, F, T, E : /\ t = c.tables /\ e = c.edges /\ F = c.filter_columns
                           /\ t \in Seq(T) /\ e \in Seq(E)
  BY DEF Loadable
<1>2. Registered(c) = Ok(Rows(t, e))
  <2>1. Distinct(t) /\ DistinctIds(e)
        /\ \A k \in DOMAIN e : HasId(t, e[k].source_table) /\ HasId(t, e[k].target_table)
    BY <1>1 DEF Loadable
  <2>. QED  BY <1>1, <2>1, EdgesLoad
<1>3. PICK d : d = Rows(t, e)
  OBVIOUS
<1>4. d.tables = t /\ [d EXCEPT !.filter_columns = F] = c
  <2>1. c = [tables |-> t, edges |-> e, filter_columns |-> F]
    BY <1>1 DEF Loadable
  <2>. QED  BY <1>3, <2>1 DEF Rows
<1>5. ASSUME NEW f \in F PROVE add_filter_column(d, f).err = "Ok"
  <2>1. HasId(t, f.table)
    BY <1>1 DEF Loadable
  <2>. QED  BY <1>4, <2>1 DEF add_filter_column, HasTable, HasId, Ok
<1>6. Ok(d).err = "Ok" /\ Ok(d).val = d
  BY DEF Ok
<1>. QED  BY <1>1, <1>2, <1>3, <1>4, <1>5, <1>6 DEF from_registration_rows

\* A sequence is one over its own elements.
LEMMA OverElems ==
  ASSUME NEW A, NEW s \in Seq(A)
  PROVE  s \in Seq(Elems(s))
<1>1. Len(s) \in Nat /\ DOMAIN s = 1 .. Len(s) /\ s = [i \in 1 .. Len(s) |-> s[i]]
  OBVIOUS
<1>2. \A i \in 1 .. Len(s) : s[i] \in Elems(s)
  BY <1>1 DEF Elems
<1>. QED  BY <1>1, <1>2

\* One more element.
LEMMA OneAppended ==
  ASSUME NEW A, NEW s \in Seq(A), NEW x
  PROVE  /\ Append(s, x) \in Seq(Elems(Append(s, x)))
         /\ DOMAIN s = 1 .. Len(s) /\ DOMAIN Append(s, x) = 1 .. Len(s) + 1 /\ Len(s) \in Nat
         /\ \A i \in 1 .. Len(s) : Append(s, x)[i] = s[i]
         /\ Append(s, x)[Len(s) + 1] = x
<1>1. PICK B : B = A \cup {x}
  OBVIOUS
<1>2. s \in Seq(B) /\ x \in B
  <2>1. Len(s) \in Nat /\ DOMAIN s = 1 .. Len(s) /\ s = [i \in 1 .. Len(s) |-> s[i]]
    OBVIOUS
  <2>2. \A i \in 1 .. Len(s) : s[i] \in B
    BY <1>1, <2>1
  <2>. QED  BY <1>1, <2>1, <2>2
<1>3. Append(s, x) \in Seq(B)
  BY <1>2, AppendProperties
<1>4. Append(s, x) \in Seq(Elems(Append(s, x)))
  BY <1>3, OverElems
<1>5. /\ DOMAIN s = 1 .. Len(s) /\ Len(s) \in Nat
      /\ Len(Append(s, x)) = Len(s) + 1
      /\ \A i \in 1 .. Len(s) : Append(s, x)[i] = s[i]
      /\ Append(s, x)[Len(s) + 1] = x
  BY <1>2, AppendProperties
<1>6. DOMAIN Append(s, x) = 1 .. Len(Append(s, x))
  BY <1>3
<1>. QED  BY <1>4, <1>5, <1>6

-----------------------------------------------------------------------------
(* Registrations keep the catalog readable *)

\* A table that add_table accepts leaves the catalog readable.
LEMMA RegisterTableLoadable ==
  ASSUME NEW c, Loadable(c), NEW t, add_table(c, t).err = "Ok"
  PROVE  Loadable(add_table(c, t).val) /\ add_table(c, t).val.edges = c.edges
<1>1. ~HasTable(c, t.id) /\ ~(\E i \in DOMAIN c.tables : c.tables[i].name = t.name)
  BY DEF add_table, Err
<1>2. PICK q : q = Append(c.tables, t)
  OBVIOUS
<1>3. PICK d : d = [c EXCEPT !.tables = q]
  OBVIOUS
<1>4. add_table(c, t).val = d
  BY <1>1, <1>2, <1>3 DEF add_table, Ok
<1>5. /\ d = [tables |-> q, edges |-> c.edges, filter_columns |-> c.filter_columns]
      /\ d.tables = q /\ d.edges = c.edges /\ d.filter_columns = c.filter_columns
  <2>1. PICK p, e, f : c = [tables |-> p, edges |-> e, filter_columns |-> f]
    BY DEF Loadable
  <2>. QED  BY <1>3, <2>1
<1>6. /\ q \in Seq(Elems(q)) /\ DOMAIN c.tables = 1 .. Len(c.tables)
      /\ DOMAIN q = 1 .. Len(c.tables) + 1 /\ Len(c.tables) \in Nat
      /\ \A i \in 1 .. Len(c.tables) : q[i] = c.tables[i]
      /\ q[Len(c.tables) + 1] = t
  BY <1>2, OneAppended DEF Loadable
<1>7. PICK p, n : p = c.tables /\ n = Len(c.tables)
  OBVIOUS
<1>8. Distinct(q)
  <2>1. ASSUME NEW i \in DOMAIN p PROVE p[i].id # t.id /\ p[i].name # t.name
    BY <1>1, <1>7 DEF HasTable
  <2>2. \A i, j \in DOMAIN p : p[i].id = p[j].id \/ p[i].name = p[j].name => i = j
    BY <1>7 DEF Loadable, Distinct
  <2>3. ASSUME NEW i \in DOMAIN q PROVE (i = n + 1 /\ q[i] = t) \/ (i \in DOMAIN p /\ q[i] = p[i])
    <3>1. n \in Nat /\ i \in 1 .. n + 1 /\ DOMAIN p = 1 .. n
      BY <1>6, <1>7
    <3>2. i = n + 1 \/ i \in 1 .. n
      BY <3>1
    <3>3. \A j \in 1 .. n : q[j] = p[j]
      BY <1>6, <1>7
    <3>4. q[n + 1] = t
      BY <1>6, <1>7
    <3>. QED  BY ONLY <3>1, <3>2, <3>3, <3>4
  <2>. QED  BY <2>1, <2>2, <2>3 DEF Distinct
<1>9. ASSUME NEW id, HasId(c.tables, id) PROVE HasId(q, id)
  BY <1>6, <1>9 DEF HasId
<1>10. \A k \in DOMAIN c.edges : HasId(q, c.edges[k].source_table) /\ HasId(q, c.edges[k].target_table)
  BY <1>9 DEF Loadable
<1>11. \A f \in c.filter_columns : HasId(q, f.table)
  BY <1>9 DEF Loadable
<1>12. c.edges \in Seq(Elems(c.edges)) /\ DistinctIds(c.edges)
  BY DEF Loadable
<1>. QED  BY <1>4, <1>5, <1>6, <1>8, <1>10, <1>11, <1>12 DEF Loadable

\* So does an edge that add_edge accepts,
LEMMA RegisterEdgeLoadable ==
  ASSUME NEW c, Loadable(c), NEW x, add_edge_to(c, x).err = "Ok"
  PROVE  /\ Loadable(add_edge_to(c, x).val)
         /\ \A y : InSeq(y, add_edge_to(c, x).val.edges) <=> InSeq(y, c.edges) \/ y = x
<1>1. /\ ~(\E i \in DOMAIN c.edges : c.edges[i].id = x.id)
      /\ HasTable(c, x.source_table) /\ HasTable(c, x.target_table)
  BY DEF add_edge_to, Err
<1>2. PICK q : q = Append(c.edges, x)
  OBVIOUS
<1>3. PICK d : d = [c EXCEPT !.edges = q]
  OBVIOUS
<1>4. add_edge_to(c, x).val = d
  BY <1>1, <1>2, <1>3 DEF add_edge_to, Ok
<1>5. /\ d = [tables |-> c.tables, edges |-> q, filter_columns |-> c.filter_columns]
      /\ d.tables = c.tables /\ d.edges = q /\ d.filter_columns = c.filter_columns
  <2>1. PICK p, e, f : c = [tables |-> p, edges |-> e, filter_columns |-> f]
    BY DEF Loadable
  <2>. QED  BY <1>3, <2>1
<1>6. /\ q \in Seq(Elems(q)) /\ DOMAIN c.edges = 1 .. Len(c.edges)
      /\ DOMAIN q = 1 .. Len(c.edges) + 1 /\ Len(c.edges) \in Nat
      /\ \A i \in 1 .. Len(c.edges) : q[i] = c.edges[i]
      /\ q[Len(c.edges) + 1] = x
  BY <1>2, OneAppended DEF Loadable
<1>7. PICK p, n : p = c.edges /\ n = Len(c.edges)
  OBVIOUS
<1>a. ASSUME NEW i \in DOMAIN q PROVE (i = n + 1 /\ q[i] = x) \/ (i \in DOMAIN p /\ q[i] = p[i])
  <2>1. n \in Nat /\ i \in 1 .. n + 1 /\ DOMAIN p = 1 .. n
    BY <1>6, <1>7
  <2>2. i = n + 1 \/ i \in 1 .. n
    BY <2>1
  <2>3. \A j \in 1 .. n : q[j] = p[j]
    BY <1>6, <1>7
  <2>4. q[n + 1] = x
    BY <1>6, <1>7
  <2>. QED  BY ONLY <2>1, <2>2, <2>3, <2>4
<1>8. DistinctIds(q)
  <2>1. ASSUME NEW i \in DOMAIN p PROVE p[i].id # x.id
    BY <1>1, <1>7
  <2>2. \A i, j \in DOMAIN p : p[i].id = p[j].id => i = j
    BY <1>7 DEF Loadable, DistinctIds
  <2>. QED  BY <1>a, <2>1, <2>2 DEF DistinctIds
<1>10. \A k \in DOMAIN q : HasId(c.tables, q[k].source_table) /\ HasId(c.tables, q[k].target_table)
  <2>1. HasId(c.tables, x.source_table) /\ HasId(c.tables, x.target_table)
    BY <1>1 DEF HasTable, HasId
  <2>2. \A k \in DOMAIN p : HasId(c.tables, p[k].source_table) /\ HasId(c.tables, p[k].target_table)
    BY <1>7 DEF Loadable
  <2>. QED  BY <1>a, <2>1, <2>2
<1>12. c.tables \in Seq(Elems(c.tables)) /\ Distinct(c.tables) /\ \A f \in c.filter_columns : HasId(c.tables, f.table)
  BY DEF Loadable
<1>13. \A y : InSeq(y, q) <=> InSeq(y, c.edges) \/ y = x
  <2>1. n + 1 \in DOMAIN q /\ q[n + 1] = x
    BY <1>6, <1>7
  <2>2. ASSUME NEW j \in DOMAIN p PROVE j \in DOMAIN q /\ q[j] = p[j]
    <3>1. n \in Nat /\ DOMAIN p = 1 .. n /\ DOMAIN q = 1 .. n + 1
      BY <1>6, <1>7
    <3>2. j \in 1 .. n /\ j \in 1 .. n + 1
      BY <3>1
    <3>. QED  BY <1>6, <1>7, <3>1, <3>2
  <2>. QED  BY <1>7, <1>a, <2>1, <2>2 DEF InSeq
<1>14. Loadable(d)
  BY <1>5, <1>6, <1>8, <1>10, <1>12 DEF Loadable
<1>. QED  BY <1>4, <1>5, <1>13, <1>14

\* and a filter column.
LEMMA RegisterFilterLoadable ==
  ASSUME NEW c, Loadable(c), NEW f, add_filter_column(c, f).err = "Ok"
  PROVE  Loadable(add_filter_column(c, f).val) /\ add_filter_column(c, f).val.edges = c.edges
<1>1. HasId(c.tables, f.table)
  BY DEF add_filter_column, Err, HasTable, HasId
<1>2. PICK F : F = c.filter_columns \cup {f}
  OBVIOUS
<1>3. PICK d : d = [c EXCEPT !.filter_columns = F]
  OBVIOUS
<1>4. add_filter_column(c, f).val = d
  <2>1. HasTable(c, f.table)
    BY <1>1 DEF HasTable, HasId
  <2>. QED  BY <1>2, <1>3, <2>1 DEF add_filter_column, Ok
<1>5. /\ d = [tables |-> c.tables, edges |-> c.edges, filter_columns |-> F]
      /\ d.tables = c.tables /\ d.edges = c.edges /\ d.filter_columns = F
  <2>1. PICK p, e, g : c = [tables |-> p, edges |-> e, filter_columns |-> g]
    BY DEF Loadable
  <2>. QED  BY <1>3, <2>1
<1>6. \A g \in F : HasId(c.tables, g.table)
  BY <1>1, <1>2 DEF Loadable
<1>. QED  BY <1>4, <1>5, <1>6 DEF Loadable

-----------------------------------------------------------------------------
(* The counting sort of freeze *)

\* Prefix counts start at zero, never decrease and end at the number of edges; between two of
\* them lie the edges of one source.
LEMMA CountsAre ==
  ASSUME NEW n \in Nat, NEW src \in Seq(0 .. n - 1)
  PROVE  /\ PrefixCounts(n, src) \in [1 .. n + 1 -> 0 .. Len(src)]
         /\ PrefixCounts(n, src)[1] = 0 /\ PrefixCounts(n, src)[n + 1] = Len(src)
         /\ \A u \in 0 .. n - 1 :
              PrefixCounts(n, src)[u + 2]
                = PrefixCounts(n, src)[u + 1] + Cardinality({i \in 1 .. Len(src) : src[i] = u})
         /\ \A u \in 0 .. n - 1 : PrefixCounts(n, src)[u + 1] <= PrefixCounts(n, src)[u + 2]
<1>. DEFINE m == Len(src)
            Below(u) == {i \in 1 .. m : src[i] < u - 1}
            Of(u) == {i \in 1 .. m : src[i] = u}
<1>0. m \in Nat /\ DOMAIN src = 1 .. m /\ \A i \in 1 .. m : src[i] \in 0 .. n - 1
  OBVIOUS
<1>1. IsFiniteSet(1 .. m) /\ Cardinality(1 .. m) = m
  <2>. HIDE DEF m
  <2>1. IsFiniteSet(1 .. m) /\ Cardinality(1 .. m) = IF 1 > m THEN 0 ELSE m - 1 + 1
    BY <1>0, FS_Interval
  <2>. QED  BY <1>0, <2>1
<1>. HIDE DEF m
<1>2. \A S \in SUBSET (1 .. m) : IsFiniteSet(S) /\ Cardinality(S) \in Nat /\ Cardinality(S) <= m
  BY <1>1, FS_Subset, FS_CardinalityType
<1>3. PrefixCounts(n, src) = [u \in 1 .. n + 1 |-> Cardinality(Below(u))]
  BY <1>0 DEF PrefixCounts
<1>4. \A u \in 1 .. n + 1 : Cardinality(Below(u)) \in 0 .. m
  BY <1>0, <1>2
<1>5. Cardinality(Below(1)) = 0
  <2>1. Below(1) = {}
    BY <1>0
  <2>. QED  BY <2>1, FS_EmptySet
<1>6. Cardinality(Below(n + 1)) = m
  <2>1. Below(n + 1) = 1 .. m
    BY <1>0
  <2>. QED  BY <1>1, <2>1
<1>7. ASSUME NEW u \in 0 .. n - 1
      PROVE  \E x, y \in Nat : /\ x = Cardinality(Below(u + 1)) /\ y = Cardinality(Of(u))
                               /\ Cardinality(Below(u + 2)) = x + y
  <2>1. Below(u + 2) = Below(u + 1) \cup Of(u) /\ Below(u + 1) \cap Of(u) = {}
    BY <1>0
  <2>2. Below(u + 1) \in SUBSET (1 .. m) /\ Of(u) \in SUBSET (1 .. m)
    OBVIOUS
  <2>3. PICK S, T : S = Below(u + 1) /\ T = Of(u)
    OBVIOUS
  <2>4. IsFiniteSet(S) /\ IsFiniteSet(T) /\ Cardinality(S) \in Nat /\ Cardinality(T) \in Nat
    BY <1>2, <2>2, <2>3
  <2>5. Cardinality(S \cup T) = Cardinality(S) + Cardinality(T) - Cardinality(S \cap T)
    BY <2>4, FS_Union
  <2>6. Cardinality(S \cap T) = 0
    BY <2>1, <2>3, FS_EmptySet
  <2>7. Below(u + 2) = S \cup T
    BY <2>1, <2>3
  <2>8. Cardinality(S \cup T) = Cardinality(S) + Cardinality(T)
    BY ONLY <2>4, <2>5, <2>6
  <2>. HIDE DEF Below, Of
  <2>. QED  BY <2>3, <2>4, <2>7, <2>8
<1>. HIDE DEF Below, Of
<1>8. \A u \in 0 .. n - 1 : u + 1 \in 1 .. n + 1 /\ u + 2 \in 1 .. n + 1
  OBVIOUS
<1>9. 1 \in 1 .. n + 1 /\ n + 1 \in 1 .. n + 1
  OBVIOUS
<1>10. PrefixCounts(n, src) \in [1 .. n + 1 -> 0 .. m]
  BY <1>3, <1>4
<1>11. PrefixCounts(n, src)[1] = 0 /\ PrefixCounts(n, src)[n + 1] = m
  BY <1>3, <1>5, <1>6, <1>9
<1>12. ASSUME NEW u \in 0 .. n - 1
       PROVE  /\ PrefixCounts(n, src)[u + 2] = PrefixCounts(n, src)[u + 1] + Cardinality(Of(u))
              /\ PrefixCounts(n, src)[u + 1] <= PrefixCounts(n, src)[u + 2]
  <2>1. PrefixCounts(n, src)[u + 2] = Cardinality(Below(u + 2)) /\ PrefixCounts(n, src)[u + 1] = Cardinality(Below(u + 1))
    BY <1>3, <1>8
  <2>2. PICK x, y \in Nat : x = Cardinality(Below(u + 1)) /\ y = Cardinality(Of(u)) /\ Cardinality(Below(u + 2)) = x + y
    BY <1>7
  <2>. QED  BY <2>1, <2>2
<1>. QED  BY <1>10, <1>11, <1>12 DEF m, Of

\* The table of the placement, one edge at a time.
Placement(b, n, src, tgt, counts) ==
  /\ b \in [0 .. Len(src) -> [cursor : [1 .. n + 1 -> Int], edge_ids : [1 .. Len(src) -> Int],
                               targets : [1 .. Len(src) -> 0 .. n - 1]]]
  /\ b[0] = [cursor |-> counts, edge_ids |-> [i \in 1 .. Len(src) |-> 0], targets |-> [i \in 1 .. Len(src) |-> 0]]
  /\ \A k \in 1 .. Len(src) :
       b[k] = PlaceAt(b[k - 1], src[k] + 1, b[k - 1].cursor[src[k] + 1] + 1, b[k - 1].cursor[src[k] + 1] + 1, k, tgt[k])

\* The arrays of the counting sort while it runs.
Partial(n, m) == [cursor : [1 .. n + 1 -> Int], edge_ids : [1 .. m -> Int], targets : [1 .. m -> 0 .. n - 1]]

\* Placing one edge keeps the arrays' sizes and ranges.
LEMMA PlaceTyped ==
  ASSUME NEW n \in Nat, NEW m, NEW X \in Partial(n, m), NEW u \in 1 .. n + 1, NEW i \in Int,
         NEW t \in 0 .. n - 1
  PROVE  PlaceAt(X, u, X.cursor[u] + 1, X.cursor[u] + 1, i, t) \in Partial(n, m)
<1>1. X.cursor \in [1 .. n + 1 -> Int] /\ X.edge_ids \in [1 .. m -> Int] /\ X.targets \in [1 .. m -> 0 .. n - 1]
  BY DEF Partial
<1>2. PICK at \in Int : at = X.cursor[u] + 1
  BY <1>1
<1>3. PICK c, e, s : /\ c = [X.cursor EXCEPT ![u] = at] /\ e = [X.edge_ids EXCEPT ![at] = i - 1]
                     /\ s = [X.targets EXCEPT ![at] = t]
  OBVIOUS
<1>4. c \in [1 .. n + 1 -> Int]
  BY <1>1, <1>3
<1>5. e \in [1 .. m -> Int]
  <2>1. i - 1 \in Int
    OBVIOUS
  <2>. QED  BY <1>1, <1>3, <2>1
<1>6. s \in [1 .. m -> 0 .. n - 1]
  BY <1>1, <1>3
<1>7. PlaceAt(X, u, at, at, i, t) = [cursor |-> c, edge_ids |-> e, targets |-> s]
  BY <1>3 DEF PlaceAt
<1>. QED  BY <1>2, <1>4, <1>5, <1>6, <1>7 DEF Partial

\* The loop of freeze runs through such a table.
LEMMA PlacedIs ==
  ASSUME NEW n \in Nat, NEW src \in Seq(0 .. n - 1), NEW tgt \in Seq(0 .. n - 1), Len(tgt) = Len(src),
         NEW counts \in [1 .. n + 1 -> Int]
  PROVE  \E b : Placement(b, n, src, tgt, counts) /\ Placed(counts, src, tgt) = b[Len(src)]
<1>. DEFINE m == Len(src)
            q == Insertions(src)
            n1 == Len(q)
            A == [cursor : [1 .. n + 1 -> Int], edge_ids : [1 .. m -> Int], targets : [1 .. m -> 0 .. n - 1]]
            base == NothingPlaced(counts, src, tgt)
            Step(acc, i) ==
              PlaceAt(acc, src[i] + 1, acc.cursor[src[i] + 1] + 1, acc.cursor[src[i] + 1] + 1, i, tgt[i])
            F == [k \in 1 .. n1 |-> [X \in A |-> Step(X, q[k])]]
            Def(t) == [k \in 0 .. n1 |->
                         IF k = 0 THEN base
                         ELSE CHOOSE r \in {Step(acc, q[k]) : acc \in {t[k - 1]}} : TRUE]
            After == CHOOSE t : t = Def(t)
<1>0. /\ m \in Nat /\ DOMAIN src = 1 .. m /\ DOMAIN tgt = 1 .. m
      /\ \A i \in 1 .. m : src[i] \in 0 .. n - 1 /\ tgt[i] \in 0 .. n - 1
  OBVIOUS
<1>. HIDE DEF m
<1>1. n1 \in Nat /\ n1 = m /\ \A k \in 1 .. m : q[k] = k
  <2>1. q = [i \in 1 .. m |-> i]
    BY <1>0 DEF Insertions
  <2>2. q \in [1 .. m -> 1 .. m]
    BY <2>1
  <2>3. q \in Seq(1 .. m) /\ DOMAIN q = 1 .. m
    BY <1>0, <2>2, SMTT(30)
  <2>. QED  BY <1>0, <2>1, <2>3
<1>2. base \in A /\ base = [cursor |-> counts, edge_ids |-> [i \in 1 .. m |-> 0], targets |-> [i \in 1 .. m |-> 0]]
  <2>1. base = [cursor |-> counts, edge_ids |-> [i \in 1 .. m |-> 0], targets |-> [i \in 1 .. m |-> 0]]
    BY <1>0 DEF NothingPlaced
  <2>2. \A i \in 1 .. m : 0 \in 0 .. n - 1
    BY <1>0
  <2>. QED  BY <2>1, <2>2
<1>3. ASSUME NEW k \in 1 .. m, NEW X \in A PROVE Step(X, k) \in A
  <2>1. src[k] \in 0 .. n - 1 /\ tgt[k] \in 0 .. n - 1
    BY <1>0
  <2>a. PICK v, t \in 0 .. n - 1 : v = src[k] /\ t = tgt[k]
    BY <2>1
  <2>2. PICK u \in 1 .. n + 1 : u = v + 1
    BY ONLY n \in Nat, v \in 0 .. n - 1
  <2>3. u \in 1 .. n + 1 /\ t \in 0 .. n - 1 /\ k \in Int
    <3>. HIDE DEF A
    <3>. QED  BY <1>0
  <2>4. X \in Partial(n, m)
    BY DEF Partial
  <2>5. PlaceAt(X, u, X.cursor[u] + 1, X.cursor[u] + 1, k, t) \in Partial(n, m)
    BY ONLY n \in Nat, <2>3, <2>4, PlaceTyped
  <2>. QED  BY <2>a, <2>2, <2>5 DEF Partial
<1>4. \A k \in 1 .. n1, X \in A : Step(X, q[k]) \in A
  <2>. HIDE DEF A, Step, q, n1
  <2>. QED  BY <1>1, <1>3
<1>5. base \in A
  BY <1>2
<1>10. F \in [1 .. n1 -> [A -> A]]
  <2>. HIDE DEF A, Step, q, n1
  <2>. QED  BY <1>4
<1>11. PICK b : Iterates(b, n1, A, base, F)
  <2>. HIDE DEF A, F, base, n1
  <2>. QED  BY <1>1, <1>5, <1>10, IteratesExist
<1>. HIDE DEF A, base, Step, q, n1
<1>12. /\ b \in [0 .. n1 -> A] /\ b[0] = base
      /\ \A k \in 1 .. n1 : b[k] = Step(b[k - 1], q[k])
  <2>1. b \in [0 .. n1 -> A] /\ b[0] = base /\ \A k \in 1 .. n1 : b[k] = F[k][b[k - 1]]
    BY <1>11 DEF Iterates
  <2>2. \A k \in 1 .. n1 : k - 1 \in 0 .. n1
    BY <1>1
  <2>3. \A k \in 1 .. n1 : b[k - 1] \in A
    BY <2>1, <2>2
  <2>. QED  BY <2>1, <2>3
<1>13. ASSUME NEW t, NEW k \in 1 .. n1
      PROVE  (CHOOSE r \in {Step(acc, q[k]) : acc \in {t[k - 1]}} : TRUE) = Step(t[k - 1], q[k])
  <2>1. {Step(acc, q[k]) : acc \in {t[k - 1]}} = {Step(t[k - 1], q[k])}
    OBVIOUS
  <2>. QED  BY <2>1, OnlyOne
<1>14. b = Def(b)
  <2>1. b = [k \in 0 .. n1 |-> b[k]]
    BY <1>12
  <2>2. ASSUME NEW k \in 0 .. n1 PROVE b[k] = Def(b)[k]
    <3>1. CASE k = 0
      BY <1>12, <3>1
    <3>2. CASE k \in 1 .. n1
      BY <1>1, <1>12, <1>13, <3>2
    <3>. QED  BY <1>1, <3>1, <3>2
  <2>. QED  BY <2>1, <2>2
<1>15. After = Def(After)
  <2>1. \E t : t = Def(t)
    BY <1>14
  <2>. QED  BY <2>1
<1>16. Placed(counts, src, tgt) = After[n1]
  BY DEF Placed, Loop, base, Step, q, n1
<1>. HIDE DEF After
<1>17. After[0] = base /\ \A k \in 1 .. n1 : After[k] = Step(After[k - 1], q[k])
  <2>1. \A k \in 0 .. n1 : After[k] = Def(After)[k]
    BY <1>15
  <2>2. 0 \in 0 .. n1 /\ \A k \in 1 .. n1 : k \in 0 .. n1 /\ k # 0
    BY <1>1
  <2>. QED  BY <1>13, <2>1, <2>2
<1>18. After[n1] = b[n1]
  <2>1. PICK w, f : w \in Nat /\ w = n1 /\ f = After
    BY <1>1
  <2>2. w \in Nat /\ f[0] = b[0] /\ StayAlike(f, b, w)
    BY <1>12, <1>17, <2>1 DEF StayAlike
  <2>3. f[w] = b[w]
    BY ONLY <2>2, SameTable
  <2>. QED  BY <2>1, <2>3
<1>30. Placement(b, n, src, tgt, counts)
  <2>1. b \in [0 .. m -> A]
    BY <1>1, <1>12
  <2>2. b[0] = [cursor |-> counts, edge_ids |-> [i \in 1 .. m |-> 0], targets |-> [i \in 1 .. m |-> 0]]
    BY <1>2, <1>12
  <2>3. \A k \in 1 .. m : b[k] = Step(b[k - 1], k)
    BY <1>1, <1>12
  <2>. QED  BY <2>1, <2>2, <2>3 DEF Placement, A, Step, m
<1>. QED  BY <1>1, <1>30, <1>16, <1>18 DEF m

\* The arrays of a section for n nodes and m edges.
Shaped(n, m, offsets, targets) ==
  /\ offsets \in Seq(Nat) /\ Len(offsets) = n + 1 /\ offsets[1] = 0 /\ offsets[n + 1] = m
  /\ \A i \in 2 .. n + 1 : offsets[i - 1] <= offsets[i]
  /\ targets \in Seq(0 .. n - 1) /\ Len(targets) = m

\* Such arrays pass the checks of validate_csr.
LEMMA ShapedValid ==
  ASSUME NEW n \in Nat, NEW m \in Nat, NEW offsets, NEW targets, Shaped(n, m, offsets, targets)
  PROVE  validate_csr(n, offsets, targets).err = "Ok" /\ validate_csr(Len(offsets) - 1, offsets, targets).err = "Ok"
<1>1. /\ offsets \in Seq(Nat) /\ Len(offsets) = n + 1 /\ offsets[1] = 0 /\ offsets[n + 1] = m
      /\ \A i \in 2 .. n + 1 : offsets[i - 1] <= offsets[i]
      /\ targets \in Seq(0 .. n - 1) /\ Len(targets) = m
  BY DEF Shaped
<1>2. \A i \in 1 .. n + 1 : offsets[i] \in Nat
  BY <1>1
<1>3. check_offsets_monotonic(offsets) = "Ok"
  <2>1. ~ \E i \in 2 .. Len(offsets) : offsets[i] < offsets[i - 1]
    <3>1. SUFFICES ASSUME NEW i \in 2 .. n + 1 PROVE ~(offsets[i] < offsets[i - 1])
      BY <1>1
    <3>2. i \in 1 .. n + 1 /\ i - 1 \in 1 .. n + 1
      OBVIOUS
    <3>. QED  BY <1>1, <1>2, <3>2
  <2>. QED  BY <1>1, <2>1 DEF check_offsets_monotonic
<1>4. check_offset_section(offsets, n, Len(targets)) = "Ok"
  BY <1>1, <1>3 DEF check_offset_section
<1>5. check_value_range(targets, n) = "Ok"
  <2>1. \A i \in DOMAIN targets : targets[i] < n
    BY <1>1
  <2>. QED  BY <2>1 DEF check_value_range
<1>6. validate_csr(n, offsets, targets).err = "Ok"
  BY <1>4, <1>5 DEF validate_csr, Ok
<1>7. Len(offsets) - 1 = n
  BY <1>1
<1>. QED  BY <1>6, <1>7

\* A frozen topology: sections for its nodes and edges, and the edges as they were inserted.
Topology(t, n, src, tgt) ==
  /\ t.node_count = n /\ t.sources = src /\ t.edge_targets = tgt
  /\ t.offsets = PrefixCounts(n, src)
  /\ t.targets = Placed(PrefixCounts(n, src), src, tgt).targets
  /\ Shaped(n, Len(src), t.offsets, t.targets)

\* freeze succeeds when the edges can be counted, and then its arrays are well shaped.
LEMMA FreezeIs ==
  ASSUME NEW n \in Nat, NEW src \in Seq(0 .. n - 1), NEW tgt \in Seq(0 .. n - 1), Len(tgt) = Len(src)
  PROVE  /\ freeze_topology(n, src, tgt).err = "Ok" <=> Len(src) <= EdgeMax
         /\ freeze_topology(n, src, tgt).err = "Ok" => Topology(freeze_topology(n, src, tgt).val, n, src, tgt)
<1>. DEFINE m == Len(src)
<1>0. m \in Nat /\ EdgeMax \in Nat
  BY CsrAssumption
<1>. HIDE DEF m
<1>1. PICK c : c = PrefixCounts(n, src)
  OBVIOUS
<1>2. /\ c \in [1 .. n + 1 -> 0 .. m] /\ c[1] = 0 /\ c[n + 1] = m
      /\ \A u \in 0 .. n - 1 : c[u + 1] <= c[u + 2]
  BY <1>1, CountsAre DEF m
<1>3. DOMAIN c = 1 .. n + 1 /\ \A i \in 1 .. n + 1 : c[i] \in Nat /\ c[i] <= m
  BY <1>0, <1>2
<1>4. (\A i \in DOMAIN c : Fits(c[i], EdgeMax)) <=> m <= EdgeMax
  <2>1. n + 1 \in 1 .. n + 1
    OBVIOUS
  <2>. QED  BY <1>0, <1>2, <1>3, <2>1 DEF Fits
<1>5. PICK p : p = Placed(c, src, tgt)
  OBVIOUS
<1>6. p.targets \in [1 .. m -> 0 .. n - 1]
  <2>1. c \in [1 .. n + 1 -> Int]
    BY <1>0, <1>2
  <2>2. PICK b : Placement(b, n, src, tgt, c) /\ Placed(c, src, tgt) = b[m]
    BY <2>1, PlacedIs DEF m
  <2>3. b \in [0 .. m -> Partial(n, m)]
    BY <2>2 DEF Placement, Partial, m
  <2>4. b[m] \in Partial(n, m)
    BY <1>0, <2>3
  <2>. QED  BY <1>5, <2>2, <2>4 DEF Partial
<1>7. PICK s : s = p.targets
  OBVIOUS
<1>8. s \in Seq(0 .. n - 1) /\ Len(s) = m
  <2>1. s \in [1 .. m -> 0 .. n - 1]
    BY <1>6, <1>7
  <2>. QED  BY <1>0, <2>1
<1>9. c \in Seq(Nat) /\ Len(c) = n + 1
  <2>1. c \in [1 .. n + 1 -> Nat]
    BY <1>0, <1>2
  <2>. QED  BY <2>1
<1>10. \A i \in 2 .. n + 1 : c[i - 1] <= c[i]
  <2>1. SUFFICES ASSUME NEW i \in 2 .. n + 1 PROVE c[i - 1] <= c[i]
    OBVIOUS
  <2>2. PICK u \in 0 .. n - 1 : u + 2 = i /\ u + 1 = i - 1
    <3>1. i - 2 \in 0 .. n - 1 /\ (i - 2) + 2 = i /\ (i - 2) + 1 = i - 1
      OBVIOUS
    <3>. QED  BY <3>1
  <2>. QED  BY <1>2, <2>2
<1>11. Shaped(n, m, c, s)
  BY <1>2, <1>8, <1>9, <1>10 DEF Shaped
<1>12. PICK t : t = [node_count |-> n, offsets |-> c, edge_ids |-> p.edge_ids,
                     targets |-> s, sources |-> src, edge_targets |-> tgt]
  OBVIOUS
<1>13. Topology(t, n, src, tgt)
  BY <1>1, <1>5, <1>7, <1>11, <1>12 DEF Topology, m
<1>14. freeze_topology(n, src, tgt) = IF m <= EdgeMax THEN Ok(t) ELSE Err("IdOverflow")
  BY <1>1, <1>4, <1>5, <1>7, <1>12 DEF freeze_topology
<1>. QED  BY <1>13, <1>14 DEF Ok, Err, m

\* An artifact for n nodes: metadata and sections that belong together.
Artful(art, n, src, tgt, keys) ==
  /\ \E f, g : /\ Topology(f, n, src, tgt) /\ Topology(g, n, tgt, src)
               /\ art = [forward |-> [offsets |-> f.offsets, targets |-> f.targets],
                         inbound |-> [offsets |-> g.offsets, targets |-> g.targets],
                         metadata |-> [node_count |-> n, edge_count |-> Len(src), reverse |-> TRUE], keys |-> keys]

\* What Frozen writes.
LEMMA FrozenIs ==
  ASSUME NEW n \in Nat, NEW ends, NEW src \in Seq(0 .. n - 1), NEW tgt \in Seq(0 .. n - 1), Len(tgt) = Len(src),
         src = [i \in DOMAIN ends |-> ends[i][1]], tgt = [i \in DOMAIN ends |-> ends[i][2]], NEW keys,
         Frozen(n, ends, keys).err = "Ok"
  PROVE  Artful(Frozen(n, ends, keys).val, n, src, tgt, keys)
<1>1. PICK r : r = freeze_topology(n, src, tgt)
  OBVIOUS
<1>2. r.err = "Ok" /\ Frozen(n, ends, keys).val = Artifact(r.val, n, keys)
  BY <1>1 DEF Frozen, Ok, Err
<1>3. Topology(r.val, n, src, tgt) /\ Len(src) <= EdgeMax
  BY <1>1, <1>2, FreezeIs
<1>4. PICK f : f = r.val
  OBVIOUS
<1>5. Len(f.targets) = Len(src)
  BY <1>3, <1>4 DEF Topology, Shaped
<1>6. PICK g : g = transpose(f).val /\ Topology(g, n, tgt, src)
  <2>1. transpose(f) = freeze_topology(n, tgt, src)
    BY <1>3, <1>4 DEF transpose, Topology
  <2>2. freeze_topology(n, tgt, src).err = "Ok"
    BY <1>3, FreezeIs
  <2>3. Topology(freeze_topology(n, tgt, src).val, n, tgt, src)
    BY <2>2, FreezeIs
  <2>. QED  BY <2>1, <2>3
<1>7. Artifact(f, n, keys) = [forward |-> [offsets |-> f.offsets, targets |-> f.targets],
                              inbound |-> [offsets |-> g.offsets, targets |-> g.targets],
                              metadata |-> [node_count |-> n, edge_count |-> Len(src), reverse |-> TRUE], keys |-> keys]
  BY <1>5, <1>6 DEF Artifact, attach_postgres_sections, Section, PostgresMetadata
<1>. QED  BY <1>2, <1>3, <1>4, <1>6, <1>7 DEF Artful

\* GraphTopology::open takes such an artifact.
LEMMA ArtfulOpens ==
  ASSUME NEW n \in Nat, NEW S, NEW T, NEW src \in Seq(S), NEW tgt \in Seq(T), Len(tgt) = Len(src), NEW keys, NEW art,
         Artful(art, n, src, tgt, keys)
  PROVE  open(art).err = "Ok" /\ art.metadata.node_count = n /\ art.keys = keys
<1>1. PICK f, g : /\ Topology(f, n, src, tgt) /\ Topology(g, n, tgt, src)
                  /\ art = [forward |-> [offsets |-> f.offsets, targets |-> f.targets],
                            inbound |-> [offsets |-> g.offsets, targets |-> g.targets],
                            metadata |-> [node_count |-> n, edge_count |-> Len(src), reverse |-> TRUE], keys |-> keys]
  BY DEF Artful
<1>2. PICK m \in Nat : m = Len(src)
  OBVIOUS
<1>3. PICK fo, ft, go, gt : fo = f.offsets /\ ft = f.targets /\ go = g.offsets /\ gt = g.targets
  OBVIOUS
<1>4. Shaped(n, m, fo, ft) /\ Shaped(n, m, go, gt)
  BY <1>1, <1>2, <1>3 DEF Topology
<1>5. PICK F, G, M : /\ F = [offsets |-> fo, targets |-> ft] /\ G = [offsets |-> go, targets |-> gt]
                     /\ M = [node_count |-> n, edge_count |-> m, reverse |-> TRUE]
  OBVIOUS
<1>6. art.forward = F /\ art.inbound = G /\ art.metadata = M /\ art.keys = keys
  BY <1>1, <1>2, <1>3, <1>5
<1>7. M # Absent /\ F # Absent /\ G # Absent
  <2>1. M \in [node_count : Nat, edge_count : Nat, reverse : BOOLEAN]
    BY <1>5
  <2>2. fo \in Seq(Nat) /\ go \in Seq(Nat)
    BY <1>4 DEF Shaped
  <2>3. \A s \in Seq(0 .. n - 1) : s \in Seq(Nat)
    <3>1. SUFFICES ASSUME NEW s \in Seq(0 .. n - 1) PROVE s \in Seq(Nat)
      OBVIOUS
    <3>2. Len(s) \in Nat /\ s = [i \in 1 .. Len(s) |-> s[i]] /\ \A i \in 1 .. Len(s) : s[i] \in Nat
      OBVIOUS
    <3>. QED  BY <3>2
  <2>4. ft \in Seq(Nat) /\ gt \in Seq(Nat)
    BY <1>4, <2>3 DEF Shaped
  <2>5. F \in [offsets : Seq(Nat), targets : Seq(Nat)] /\ G \in [offsets : Seq(Nat), targets : Seq(Nat)]
    BY <1>5, <2>2, <2>4
  <2>. QED  BY <2>1, <2>5, EngineAssumption
<1>8. /\ Len(F.offsets) - 1 = n /\ Len(G.offsets) - 1 = n /\ Len(F.targets) = m /\ Len(G.targets) = m
      /\ M.node_count = n /\ M.edge_count = m /\ M.reverse = TRUE
  BY <1>4, <1>5 DEF Shaped
<1>9. SectionValid(F) /\ SectionValid(G)
  <2>1. validate_csr(n, fo, ft).err = "Ok" /\ validate_csr(n, go, gt).err = "Ok"
    BY <1>4, ShapedValid
  <2>. QED  BY <1>5, <1>7, <1>8, <2>1 DEF SectionValid, NodesOf
<1>10. read_metadata(art).err = "Ok"
  BY <1>6, <1>7 DEF read_metadata, Ok
<1>11. NodesOf(F) = n /\ NodesOf(G) = n
  BY <1>8 DEF NodesOf
<1>12. open(art) = Ok(art)
  BY <1>6, <1>8, <1>9, <1>10, <1>11 DEF open
<1>. QED  BY <1>6, <1>8, <1>12 DEF Ok

-----------------------------------------------------------------------------
(* Node keys and their dense numbers *)

\* Rows that name their ends.
EdgeRows == [source : Int, target : Int]

\* The keys of finitely many rows are finitely many integers.
LEMMA KeysFinite ==
  ASSUME NEW edges \in Seq(EdgeRows)
  PROVE  /\ distinct_node_keys(edges) \subseteq Int /\ IsFiniteSet(distinct_node_keys(edges))
         /\ \A i \in DOMAIN edges : /\ edges[i].source \in distinct_node_keys(edges)
                                    /\ edges[i].target \in distinct_node_keys(edges)
<1>1. PICK m \in Nat : m = Len(edges) /\ DOMAIN edges = 1 .. m
  OBVIOUS
<1>2. \A i \in 1 .. m : edges[i].source \in Int /\ edges[i].target \in Int
  <2>1. \A i \in 1 .. m : edges[i] \in EdgeRows
    BY <1>1
  <2>. QED  BY <2>1 DEF EdgeRows
<1>3. PICK S, T : S = {edges[i].source : i \in 1 .. m} /\ T = {edges[i].target : i \in 1 .. m}
  OBVIOUS
<1>4. IsFiniteSet(1 .. m)
  BY FS_Interval
<1>5. IsFiniteSet(S)
  <2>1. PICK f : f = [i \in 1 .. m |-> edges[i].source]
    OBVIOUS
  <2>2. f \in Surjection(1 .. m, S)
    BY <1>3, <2>1 DEF Surjection
  <2>. QED  BY <1>4, <2>2, FS_Surjection
<1>6. IsFiniteSet(T)
  <2>1. PICK f : f = [i \in 1 .. m |-> edges[i].target]
    OBVIOUS
  <2>2. f \in Surjection(1 .. m, T)
    BY <1>3, <2>1 DEF Surjection
  <2>. QED  BY <1>4, <2>2, FS_Surjection
<1>7. IsFiniteSet(S \cup T)
  BY <1>5, <1>6, FS_Union
<1>8. distinct_node_keys(edges) = S \cup T
  BY <1>1, <1>3 DEF distinct_node_keys
<1>. QED  BY <1>1, <1>2, <1>3, <1>7, <1>8

\* The dense numbers are below the number of keys, and grow with the keys.
LEMMA DenseIs ==
  ASSUME NEW keys, keys \subseteq Int, IsFiniteSet(keys)
  PROVE  /\ Cardinality(keys) \in Nat
         /\ dense_node_map_from_keys(keys) \in [keys -> 0 .. Cardinality(keys) - 1]
         /\ \A j, k \in keys : j < k => dense_node_map_from_keys(keys)[j] < dense_node_map_from_keys(keys)[k]
<1>. DEFINE Under(k) == {j \in keys : j < k}
<1>0. Cardinality(keys) \in Nat
  BY FS_CardinalityType
<1>1. ASSUME NEW k \in keys
      PROVE  IsFiniteSet(Under(k)) /\ Cardinality(Under(k)) \in Nat
  <2>1. Under(k) \in SUBSET keys
    OBVIOUS
  <2>. HIDE DEF Under
  <2>2. IsFiniteSet(Under(k))
    BY <2>1, FS_Subset
  <2>. QED  BY <2>2, FS_CardinalityType
<1>2. ASSUME NEW S, NEW k \in S, IsFiniteSet(S), Under(k) \subseteq S, k \notin Under(k), NEW kk \in keys, k = kk
      PROVE  Cardinality(Under(k)) < Cardinality(S)
  <2>1. Under(k) \in SUBSET (S \ {k})
    BY <1>2
  <2>2. IsFiniteSet(S \ {k}) /\ Cardinality(S \ {k}) = Cardinality(S) - 1
    BY <1>2, FS_RemoveElement
  <2>3. Cardinality(Under(k)) <= Cardinality(S \ {k})
    <3>. HIDE DEF Under
    <3>. QED  BY <2>1, <2>2, FS_Subset
  <2>4. Cardinality(Under(k)) \in Nat /\ Cardinality(S) \in Nat
    BY <1>1, <1>2, FS_CardinalityType
  <2>. HIDE DEF Under
  <2>. QED  BY <2>2, <2>3, <2>4
<1>3. dense_node_map_from_keys(keys) = [k \in keys |-> Cardinality(Under(k))]
  BY DEF dense_node_map_from_keys
<1>4. ASSUME NEW k \in keys PROVE Cardinality(Under(k)) < Cardinality(keys)
  <2>1. Under(k) \subseteq keys /\ k \notin Under(k)
    OBVIOUS
  <2>. HIDE DEF Under
  <2>. QED  BY <1>2, <2>1
<1>5. ASSUME NEW j \in keys, NEW k \in keys, j < k PROVE Cardinality(Under(j)) < Cardinality(Under(k))
  <2>0. \A x \in keys : x \in Int
    OBVIOUS
  <2>a. ASSUME NEW x \in Under(j) PROVE x \in Under(k)
    <3>1. x \in Int /\ j \in Int /\ k \in Int /\ x < j /\ x \in keys
      BY <2>0
    <3>. QED  BY <1>5, <3>1
  <2>1. Under(j) \subseteq Under(k) /\ j \in Under(k) /\ j \notin Under(j)
    <3>1. Under(j) \subseteq Under(k)
      <4>. HIDE DEF Under
      <4>. QED  BY <2>a
    <3>2. j \in Under(k)
      BY <1>5
    <3>3. ~(j < j)
      BY <2>0
    <3>. QED  BY <3>1, <3>2, <3>3
  <2>2. PICK S : S = Under(k) /\ IsFiniteSet(S)
    BY <1>1
  <2>. HIDE DEF Under
  <2>3. Cardinality(Under(j)) < Cardinality(S)
    BY <1>2, <2>1, <2>2
  <2>. QED  BY <2>2, <2>3
<1>. HIDE DEF Under
<1>6. \A k \in keys : Cardinality(Under(k)) \in 0 .. Cardinality(keys) - 1
  BY <1>0, <1>1, <1>4
<1>. QED  BY <1>0, <1>3, <1>5, <1>6

\* Different keys have different numbers.
LEMMA DenseInjective ==
  ASSUME NEW keys, keys \subseteq Int, IsFiniteSet(keys), NEW j \in keys, NEW k \in keys,
         dense_node_map_from_keys(keys)[j] = dense_node_map_from_keys(keys)[k]
  PROVE  j = k
<1>1. PICK f : f = dense_node_map_from_keys(keys)
  OBVIOUS
<1>2. f \in [keys -> 0 .. Cardinality(keys) - 1] /\ \A x, y \in keys : x < y => f[x] < f[y]
  BY <1>1, DenseIs
<1>3. Cardinality(keys) \in Nat
  BY DenseIs
<1>4. f[j] \in Int /\ f[k] \in Int /\ j \in Int /\ k \in Int
  BY <1>2, <1>3
<1>. QED  BY <1>1, <1>2, <1>4

-----------------------------------------------------------------------------
(* Artifacts *)

\* The rows of an edge table under some numbering.
Numbered(edges, map, src, tgt) ==
  src = [i \in DOMAIN edges |-> map[edges[i].source]] /\ tgt = [i \in DOMAIN edges |-> map[edges[i].target]]

\* The artifact of the edge rows: its nodes are their keys, numbered.
LEMMA RowsArtful ==
  ASSUME NEW edges \in Seq(EdgeRows), from_edge_rows(edges).err = "Ok"
  PROVE  LET keys == distinct_node_keys(edges)
             n == Cardinality(keys)
         IN  /\ n \in Nat
             /\ \E src, tgt \in Seq(0 .. n - 1) :
                  /\ Len(src) = Len(edges) /\ Len(tgt) = Len(edges)
                  /\ Numbered(edges, dense_node_map_from_keys(keys), src, tgt)
                  /\ Artful(from_edge_rows(edges).val, n, src, tgt, keys)
<1>. DEFINE K == distinct_node_keys(edges)
<1>1. PICK keys : keys = K
  OBVIOUS
<1>2. /\ keys \subseteq Int /\ IsFiniteSet(keys)
      /\ \A i \in DOMAIN edges : edges[i].source \in keys /\ edges[i].target \in keys
  BY <1>1, KeysFinite
<1>3. PICK map : map = dense_node_map_from_keys(keys)
  OBVIOUS
<1>4. PICK n : n = Cardinality(keys)
  OBVIOUS
<1>5. n \in Nat /\ map \in [keys -> 0 .. n - 1]
  BY <1>2, <1>3, <1>4, DenseIs
<1>6. PICK m \in Nat : m = Len(edges) /\ DOMAIN edges = 1 .. m
  OBVIOUS
<1>7. PICK src, tgt : src = [i \in 1 .. m |-> map[edges[i].source]] /\ tgt = [i \in 1 .. m |-> map[edges[i].target]]
  OBVIOUS
<1>8. src \in [1 .. m -> 0 .. n - 1] /\ tgt \in [1 .. m -> 0 .. n - 1]
  BY <1>2, <1>5, <1>6, <1>7
<1>9. src \in Seq(0 .. n - 1) /\ tgt \in Seq(0 .. n - 1) /\ Len(src) = m /\ Len(tgt) = m
  <2>1. PICK S : S = 0 .. n - 1
    OBVIOUS
  <2>2. src \in [1 .. m -> S] /\ tgt \in [1 .. m -> S]
    BY <1>8, <2>1
  <2>3. src \in Seq(S) /\ Len(src) = m
    BY ONLY m \in Nat, <2>2
  <2>4. tgt \in Seq(S) /\ Len(tgt) = m
    BY ONLY m \in Nat, <2>2
  <2>. QED  BY <2>1, <2>3, <2>4
<1>10. PICK ends : ends = DenseEnds(edges, map)
  OBVIOUS
<1>11. DOMAIN ends = 1 .. m /\ \A i \in 1 .. m : ends[i][1] = src[i] /\ ends[i][2] = tgt[i]
  BY <1>6, <1>7, <1>10 DEF DenseEnds
<1>12. src = [i \in DOMAIN ends |-> ends[i][1]] /\ tgt = [i \in DOMAIN ends |-> ends[i][2]]
  BY <1>7, <1>11
<1>13. from_edge_rows(edges) = Frozen(n, ends, keys)
  BY <1>1, <1>3, <1>4, <1>10 DEF from_edge_rows, Err
<1>14. Artful(from_edge_rows(edges).val, n, src, tgt, keys)
  BY <1>5, <1>9, <1>12, <1>13, FrozenIs
<1>15. Numbered(edges, map, src, tgt)
  BY <1>6, <1>7 DEF Numbered
<1>. QED  BY <1>1, <1>3, <1>4, <1>5, <1>6, <1>9, <1>14, <1>15

\* An artifact of dense edges.
LEMMA DenseArtful ==
  ASSUME NEW n \in Nat, n # 0, NEW m \in Nat, m <= EdgeMax, NEW ends \in [1 .. m -> (0 .. n - 1) \X (0 .. n - 1)]
  PROVE  \E src, tgt \in Seq(0 .. n - 1) :
           Len(src) = m /\ Len(tgt) = m
           /\ Artful(from_dense_u32_edges_with_node_count(n, ends).val, n, src, tgt, 0 .. n - 1)
<1>1. \A i \in 1 .. m : ends[i][1] \in 0 .. n - 1 /\ ends[i][2] \in 0 .. n - 1
  OBVIOUS
<1>2. DOMAIN ends = 1 .. m
  OBVIOUS
<1>3. PICK src, tgt : src = [i \in 1 .. m |-> ends[i][1]] /\ tgt = [i \in 1 .. m |-> ends[i][2]]
  OBVIOUS
<1>4. src \in [1 .. m -> 0 .. n - 1] /\ tgt \in [1 .. m -> 0 .. n - 1]
  BY <1>1, <1>3
<1>5. src \in Seq(0 .. n - 1) /\ tgt \in Seq(0 .. n - 1) /\ Len(src) = m /\ Len(tgt) = m
  <2>1. PICK S : S = 0 .. n - 1
    OBVIOUS
  <2>2. src \in [1 .. m -> S] /\ tgt \in [1 .. m -> S]
    BY <1>4, <2>1
  <2>3. src \in Seq(S) /\ Len(src) = m
    BY ONLY m \in Nat, <2>2
  <2>4. tgt \in Seq(S) /\ Len(tgt) = m
    BY ONLY m \in Nat, <2>2
  <2>. QED  BY <2>1, <2>3, <2>4
<1>6. PICK keys : keys = 0 .. n - 1
  OBVIOUS
<1>7. from_dense_u32_edges_with_node_count(n, ends) = Frozen(n, ends, keys)
  <2>1. ~ \E i \in DOMAIN ends : ends[i][1] >= n \/ ends[i][2] >= n
    BY <1>1, <1>2
  <2>. QED  BY <1>6, <2>1 DEF from_dense_u32_edges_with_node_count
<1>8. src = [i \in DOMAIN ends |-> ends[i][1]] /\ tgt = [i \in DOMAIN ends |-> ends[i][2]]
  BY <1>2, <1>3
<1>9. Frozen(n, ends, keys).err = "Ok"
  <2>1. freeze_topology(n, src, tgt).err = "Ok"
    BY <1>5, FreezeIs
  <2>. QED  BY <1>8, <2>1 DEF Frozen, Ok
<1>10. Artful(Frozen(n, ends, keys).val, n, src, tgt, keys)
  BY <1>5, <1>8, <1>9, FrozenIs
<1>. QED  BY <1>5, <1>6, <1>7, <1>10

\* Sections and metadata of one topology, with as many nodes as keys; the width holds their number.
ArtOK(art) ==
  \E n \in Nat : \E src, tgt \in Seq(0 .. n - 1) :
    /\ Len(tgt) = Len(src) /\ IsFiniteSet(art.keys) /\ Cardinality(art.keys) = n /\ n <= NodeMax
    /\ Artful(art, n, src, tgt, art.keys)

\* Such an artifact opens.
LEMMA ArtOpens ==
  ASSUME NEW art, ArtOK(art)
  PROVE  /\ open(art).err = "Ok" /\ build(art).err = "Ok"
         /\ art.metadata.node_count = Cardinality(art.keys) /\ art.metadata.node_count \in Nat
<1>1. PICK n \in Nat : \E src, tgt \in Seq(0 .. n - 1) :
        /\ Len(tgt) = Len(src) /\ IsFiniteSet(art.keys) /\ Cardinality(art.keys) = n
        /\ Artful(art, n, src, tgt, art.keys)
  BY DEF ArtOK
<1>2. PICK S, src, tgt : /\ src \in Seq(S) /\ tgt \in Seq(S) /\ Len(tgt) = Len(src)
                         /\ Cardinality(art.keys) = n /\ Artful(art, n, src, tgt, art.keys)
  BY <1>1
<1>3. open(art).err = "Ok" /\ art.metadata.node_count = n
  BY <1>2, ArtfulOpens
<1>. QED  BY <1>2, <1>3 DEF build, Ok

\* from_edge_rows only returns such artifacts.
LEMMA RowsArtOK ==
  ASSUME NEW edges \in Seq(EdgeRows), from_edge_rows(edges).err = "Ok"
  PROVE  ArtOK(from_edge_rows(edges).val) /\ from_edge_rows(edges).val.keys = distinct_node_keys(edges)
<1>1. PICK keys : keys = distinct_node_keys(edges) /\ IsFiniteSet(keys)
  BY KeysFinite
<1>2. PICK n \in Nat : /\ n = Cardinality(keys)
                       /\ \E src, tgt \in Seq(0 .. n - 1) : Len(src) = Len(edges) /\ Len(tgt) = Len(edges)
                            /\ Artful(from_edge_rows(edges).val, n, src, tgt, keys)
  BY <1>1, RowsArtful
<1>3. PICK src, tgt \in Seq(0 .. n - 1) : Len(src) = Len(tgt) /\ Artful(from_edge_rows(edges).val, n, src, tgt, keys)
  BY <1>2
<1>4. PICK art : art = from_edge_rows(edges).val /\ Artful(art, n, src, tgt, keys)
  BY <1>3
<1>5. art.keys = keys
  BY <1>4 DEF Artful
<1>6. ArtOK(art)
  <2>1. n <= NodeMax
    BY <1>1, <1>2 DEF from_edge_rows, Err, Fits
  <2>. QED  BY <1>1, <1>2, <1>3, <1>4, <1>5, <2>1 DEF ArtOK
<1>. QED  BY <1>1, <1>4, <1>5, <1>6

-----------------------------------------------------------------------------
(* Uploaded bytes *)

\* What GraphTopology::open insists on.
LEMMA OpenMeans ==
  ASSUME NEW art, open(art).err = "Ok"
  PROVE  /\ art.metadata # Absent /\ art.metadata.reverse = TRUE /\ art.inbound # Absent
         /\ Len(art.forward.targets) = Len(art.inbound.targets)
         /\ Len(art.forward.offsets) - 1 = art.metadata.node_count
         /\ Len(art.forward.targets) = art.metadata.edge_count
<1>1. art.metadata # Absent
  BY DEF open, read_metadata, Err
<1>2. art.metadata.reverse = TRUE /\ art.inbound # Absent
  BY DEF open, Err, SectionValid
<1>3. /\ NodesOf(art.forward) = art.metadata.node_count
      /\ Len(art.forward.targets) = Len(art.inbound.targets)
      /\ Len(art.forward.targets) = art.metadata.edge_count
  BY DEF open, Err
<1>. QED  BY <1>1, <1>2, <1>3 DEF NodesOf

\* The two artifacts of dense edges that are uploaded, unspoilt.
LEMMA UploadedArtOK ==
  /\ ArtOK(Dense) /\ ArtOK(Denser)
  /\ Dense.metadata = [node_count |-> 3, edge_count |-> 2, reverse |-> TRUE]
  /\ Len(Dense.forward.offsets) = 4 /\ Len(Dense.forward.targets) = 2 /\ Len(Denser.inbound.targets) = 3
  /\ \E f, i, m, k : Dense = [forward |-> f, inbound |-> i, metadata |-> m, keys |-> k]
<1>0. EdgeMax \in Nat /\ EdgeMax >= 3 /\ 2 <= EdgeMax /\ 3 <= EdgeMax
  BY CsrAssumption, ExtensionAssumption
<1>1. IsFiniteSet(0 .. 2) /\ Cardinality(0 .. 2) = 3
  <2>1. PICK a, b \in Int : a = 0 /\ b = 2
    OBVIOUS
  <2>2. IsFiniteSet(a .. b) /\ Cardinality(a .. b) = IF a > b THEN 0 ELSE b - a + 1
    BY FS_Interval
  <2>3. a .. b = 0 .. 2 /\ (IF a > b THEN 0 ELSE b - a + 1) = 3
    BY <2>1
  <2>. QED  BY <2>2, <2>3
<1>2. \E src, tgt \in Seq(0 .. 2) : Len(src) = 2 /\ Len(tgt) = 2 /\ Artful(Dense, 3, src, tgt, 0 .. 2)
  <2>1. PICK ends : ends = <<<<0, 1>>, <<1, 2>>>>
    OBVIOUS
  <2>2. PICK n, m \in Nat : n = 3 /\ m = 2
    OBVIOUS
  <2>3. ends \in [1 .. m -> (0 .. n - 1) \X (0 .. n - 1)] /\ n # 0 /\ m <= EdgeMax
    BY <1>0, <2>1, <2>2
  <2>4. \E src, tgt \in Seq(0 .. n - 1) : Len(src) = m /\ Len(tgt) = m
           /\ Artful(from_dense_u32_edges_with_node_count(n, ends).val, n, src, tgt, 0 .. n - 1)
    BY <2>3, DenseArtful
  <2>5. Dense = from_dense_u32_edges_with_node_count(n, ends).val /\ n - 1 = 2
    BY <2>1, <2>2 DEF Dense
  <2>. QED  BY <2>2, <2>4, <2>5
<1>3. \E src, tgt \in Seq(0 .. 2) : Len(src) = 3 /\ Len(tgt) = 3 /\ Artful(Denser, 3, src, tgt, 0 .. 2)
  <2>1. PICK ends : ends = <<<<0, 1>>, <<0, 1>>, <<2, 0>>>>
    OBVIOUS
  <2>2. PICK n, m \in Nat : n = 3 /\ m = 3
    OBVIOUS
  <2>3. ends \in [1 .. m -> (0 .. n - 1) \X (0 .. n - 1)] /\ n # 0 /\ m <= EdgeMax
    BY <1>0, <2>1, <2>2
  <2>4. \E src, tgt \in Seq(0 .. n - 1) : Len(src) = m /\ Len(tgt) = m
           /\ Artful(from_dense_u32_edges_with_node_count(n, ends).val, n, src, tgt, 0 .. n - 1)
    BY <2>3, DenseArtful
  <2>5. Denser = from_dense_u32_edges_with_node_count(n, ends).val /\ n - 1 = 2
    BY <2>1, <2>2 DEF Denser
  <2>. QED  BY <2>2, <2>4, <2>5
<1>4. ASSUME NEW art, NEW m \in Nat,
             \E src, tgt \in Seq(0 .. 2) : Len(src) = m /\ Len(tgt) = m /\ Artful(art, 3, src, tgt, 0 .. 2)
      PROVE  /\ ArtOK(art) /\ art.metadata = [node_count |-> 3, edge_count |-> m, reverse |-> TRUE]
             /\ Len(art.forward.offsets) = 4 /\ Len(art.forward.targets) = m /\ Len(art.inbound.targets) = m
             /\ \E f, i, md, k : art = [forward |-> f, inbound |-> i, metadata |-> md, keys |-> k]
  <2>1. PICK src, tgt \in Seq(0 .. 2) : Len(src) = m /\ Len(tgt) = m /\ Artful(art, 3, src, tgt, 0 .. 2)
    BY <1>4
  <2>2. PICK f, g : /\ Topology(f, 3, src, tgt) /\ Topology(g, 3, tgt, src)
                    /\ art = [forward |-> [offsets |-> f.offsets, targets |-> f.targets],
                              inbound |-> [offsets |-> g.offsets, targets |-> g.targets],
                              metadata |-> [node_count |-> 3, edge_count |-> Len(src), reverse |-> TRUE],
                              keys |-> 0 .. 2]
    BY <2>1 DEF Artful
  <2>3. Shaped(3, m, f.offsets, f.targets) /\ Shaped(3, m, g.offsets, g.targets)
    BY <2>1, <2>2 DEF Topology
  <2>4. Len(f.offsets) = 4 /\ Len(f.targets) = m /\ Len(g.targets) = m
    BY <2>3 DEF Shaped
  <2>5. art.keys = 0 .. 2
    BY <2>2
  <2>6. ArtOK(art)
    <3>1. PICK n \in Nat : n = 3 /\ n - 1 = 2
      OBVIOUS
    <3>2. src \in Seq(0 .. n - 1) /\ tgt \in Seq(0 .. n - 1) /\ Artful(art, n, src, tgt, art.keys)
      BY <2>1, <2>5, <3>1
    <3>3. IsFiniteSet(art.keys) /\ Cardinality(art.keys) = n /\ Len(tgt) = Len(src)
      BY <1>1, <2>1, <2>5, <3>1
    <3>4. n <= NodeMax
      BY <3>1, CsrAssumption, ExtensionAssumption
    <3>. QED  BY <3>2, <3>3, <3>4 DEF ArtOK
  <2>. QED  BY <2>1, <2>2, <2>4, <2>6
<1>. QED  BY <1>2, <1>3, <1>4

\* Whatever is uploaded, what opens is one topology.
LEMMA UploadsOK ==
  ASSUME NEW art \in Uploads, open(art).err = "Ok"
  PROVE  ArtOK(art)
<1>1. PICK f, i, m, k : Dense = [forward |-> f, inbound |-> i, metadata |-> m, keys |-> k]
  BY UploadedArtOK
<1>2. m = [node_count |-> 3, edge_count |-> 2, reverse |-> TRUE] /\ Len(f.offsets) = 4 /\ Len(f.targets) = 2
  BY <1>1, UploadedArtOK
<1>3. PICK g : g = Denser.inbound /\ Len(g.targets) = 3
  BY UploadedArtOK
<1>4. /\ art.metadata # Absent /\ art.metadata.reverse = TRUE /\ art.inbound # Absent
      /\ Len(art.forward.targets) = Len(art.inbound.targets)
      /\ Len(art.forward.offsets) - 1 = art.metadata.node_count
      /\ Len(art.forward.targets) = art.metadata.edge_count
  BY OpenMeans
<1>5. art # [Dense EXCEPT !.metadata = Absent]
  BY <1>1, <1>4
<1>6. art # [Dense EXCEPT !.metadata.reverse = FALSE]
  BY <1>1, <1>2, <1>4
<1>7. art # [Dense EXCEPT !.metadata.node_count = 2]
  BY <1>1, <1>2, <1>4
<1>8. art # [Dense EXCEPT !.metadata.edge_count = 1]
  <2>1. ASSUME art = [Dense EXCEPT !.metadata.edge_count = 1] PROVE FALSE
    <3>1. art.forward = f /\ art.metadata = [m EXCEPT !.edge_count = 1]
      BY <1>1, <2>1
    <3>2. art.metadata.edge_count = 1
      BY <1>2, <3>1
    <3>3. Len(art.forward.targets) = 2
      BY <1>2, <3>1
    <3>. QED  BY <1>4, <3>2, <3>3, SMTT(30)
  <2>. QED  BY <2>1
<1>9. art # [Dense EXCEPT !.inbound = Denser.inbound]
  <2>1. ASSUME art = [Dense EXCEPT !.inbound = g] PROVE FALSE
    <3>1. art.forward = f /\ art.inbound = g
      BY <1>1, <2>1
    <3>2. Len(art.forward.targets) = 2 /\ Len(art.inbound.targets) = 3
      BY <1>2, <1>3, <3>1
    <3>3. PICK a, b : a = Len(art.forward.targets) /\ b = Len(art.inbound.targets)
      OBVIOUS
    <3>4. a = 2 /\ b = 3 /\ a = b
      BY <1>4, <3>2, <3>3
    <3>. QED  BY ONLY <3>4
  <2>. QED  BY <1>3, <2>1
<1>10. art # [Dense EXCEPT !.inbound = Absent]
  BY <1>1, <1>4
<1>11. art = Dense \/ art = Denser
  BY <1>5, <1>6, <1>7, <1>8, <1>9, <1>10 DEF Uploads
<1>. QED  BY <1>11, UploadedArtOK

-----------------------------------------------------------------------------
(* The scan of the edge tables *)

\* A catalog whose edges lead between numbered tables, and tables of rows of integers.
CatalogTyped(c) ==
  /\ c.edges \in Seq(Elems(c.edges))
  /\ \A i \in DOMAIN c.edges :
       c.edges[i].source_table \in Int /\ c.edges[i].target_table \in Int /\ c.edges[i].name \in EdgeNames
TuplesTyped(tables) == tables \in [EdgeNames -> Seq(Int \X Int)]

\* A node key is an integer.
LEMMA KeyIsInt ==
  ASSUME NEW t \in Int, NEW pk \in Int
  PROVE  NodeKey(t, pk) \in Int
<1>1. PICK p \in Int : p = PkSpan
  BY EngineAssumption
<1>2. t * p + pk \in Int
  OBVIOUS
<1>. QED  BY <1>1, <1>2 DEF NodeKey

\* The rows found for one registered edge, as edge rows.
LEMMA FoundTyped ==
  ASSUME NEW c, NEW tables, TuplesTyped(tables), NEW members, NEW e, e.name \in EdgeNames,
         e.source_table \in Int, e.target_table \in Int
  PROVE  LET found == edge_scan(c, e, tables, members)
         IN  [i \in DOMAIN found |-> edge_row_from_scan(e, found[i])] \in Seq(EdgeRows)
<1>1. PICK all : all = tables[e.name] /\ all \in Seq(Int \X Int)
  BY DEF TuplesTyped
<1>2. PICK found : found = edge_scan(c, e, tables, members)
  OBVIOUS
<1>3. found \in Seq(Int \X Int)
  <2>1. \A S : Kept(S, all) \in Seq(Int \X Int)
    BY <1>1, KeptIs
  <2>. QED  BY <1>1, <1>2, <2>1 DEF edge_scan
<1>4. PICK m \in Nat : m = Len(found) /\ DOMAIN found = 1 .. m
  BY <1>3
<1>5. \A i \in 1 .. m : found[i][1] \in Int /\ found[i][2] \in Int
  <2>1. \A i \in 1 .. m : found[i] \in Int \X Int
    BY <1>3, <1>4
  <2>. QED  BY <2>1
<1>6. \A i \in 1 .. m : edge_row_from_scan(e, found[i]) \in EdgeRows
  BY <1>5, KeyIsInt DEF edge_row_from_scan, EdgeRows
<1>7. PICK rows : rows = [i \in 1 .. m |-> edge_row_from_scan(e, found[i])]
  OBVIOUS
<1>8. rows \in [1 .. m -> EdgeRows]
  BY <1>6, <1>7
<1>9. rows \in Seq(EdgeRows)
  BY ONLY m \in Nat, <1>8
<1>. QED  BY <1>2, <1>4, <1>7, <1>9

\* A scan that succeeds returns edge rows.
LEMMA ScanTyped ==
  ASSUME NEW c, CatalogTyped(c), NEW tables, TuplesTyped(tables), NEW members,
         scan_edge_rows(c, tables, members).err = "Ok"
  PROVE  scan_edge_rows(c, tables, members).val \in Seq(EdgeRows)
<1>. DEFINE q == c.edges
            n == Len(q)
            A == {Ok(v) : v \in Seq(EdgeRows)} \cup {Err("PrimaryKey")}
            base == Ok(<< >>)
            ScanOf(e) == edge_scan(c, e, tables, members)
            Step(acc, e) ==
              IF acc.err = "Ok" /\ \A i \in DOMAIN ScanOf(e) : validate_primary_key(ScanOf(e)[i][1])
                                                             /\ validate_primary_key(ScanOf(e)[i][2])
              THEN Ok(acc.val \o [i \in DOMAIN ScanOf(e) |-> edge_row_from_scan(e, ScanOf(e)[i])])
              ELSE Err("PrimaryKey")
            F == [k \in 1 .. n |-> [X \in A |-> Step(X, q[k])]]
            Def(t) == [k \in 0 .. n |->
                         IF k = 0 THEN base
                         ELSE CHOOSE r \in {Step(acc, q[k]) : acc \in {t[k - 1]}} : TRUE]
            After == CHOOSE t : t = Def(t)
<1>0. n \in Nat /\ DOMAIN q = 1 .. n
  <2>1. PICK E : q \in Seq(E)
    BY DEF CatalogTyped
  <2>. QED  BY <2>1
<1>1. base \in A
  <2>1. << >> \in Seq(EdgeRows)
    OBVIOUS
  <2>. QED  BY <2>1
<1>2. \A k \in 1 .. n, X \in A : Step(X, q[k]) \in A
  <2>1. SUFFICES ASSUME NEW k \in 1 .. n, NEW X \in A, X.err = "Ok"
                 PROVE  Ok(X.val \o [i \in DOMAIN ScanOf(q[k]) |-> edge_row_from_scan(q[k], ScanOf(q[k])[i])]) \in A
    <3>1. ASSUME NEW k \in 1 .. n, NEW X \in A PROVE Step(X, q[k]) \in A
      <4>1. Err("PrimaryKey") \in A
        OBVIOUS
      <4>2. CASE X.err = "Ok"
        BY <2>1, <4>1, <4>2
      <4>3. CASE X.err # "Ok"
        BY <4>1, <4>3
      <4>. QED  BY <4>2, <4>3
    <3>. HIDE DEF A, Step
    <3>. QED  BY <3>1
  <2>2. X.val \in Seq(EdgeRows)
    BY <2>1 DEF Ok, Err
  <2>3. PICK rows : rows = [i \in DOMAIN ScanOf(q[k]) |-> edge_row_from_scan(q[k], ScanOf(q[k])[i])]
    OBVIOUS
  <2>4. rows \in Seq(EdgeRows)
    <3>1. PICK e : e = q[k] /\ e.source_table \in Int /\ e.target_table \in Int /\ e.name \in EdgeNames
      BY <1>0 DEF CatalogTyped
    <3>2. [i \in DOMAIN ScanOf(e) |-> edge_row_from_scan(e, ScanOf(e)[i])] \in Seq(EdgeRows)
      BY <3>1, FoundTyped
    <3>. QED  BY <2>3, <3>1, <3>2
  <2>5. PICK v \in Seq(EdgeRows) : v = X.val \o rows
    BY <2>2, <2>4, ConcatProperties
  <2>6. Ok(v) \in A
    OBVIOUS
  <2>. QED  BY <2>3, <2>5, <2>6
<1>10. F \in [1 .. n -> [A -> A]]
  <2>. HIDE DEF A, Step, q, n
  <2>. QED  BY <1>2
<1>11. PICK b : Iterates(b, n, A, base, F)
  <2>. HIDE DEF A, F, base, n
  <2>. QED  BY <1>0, <1>1, <1>10, IteratesExist
<1>. HIDE DEF A, base, Step, q, n
<1>12. /\ b \in [0 .. n -> A] /\ b[0] = base
      /\ \A k \in 1 .. n : b[k] = Step(b[k - 1], q[k])
  <2>1. b \in [0 .. n -> A] /\ b[0] = base /\ \A k \in 1 .. n : b[k] = F[k][b[k - 1]]
    BY <1>11 DEF Iterates
  <2>2. \A k \in 1 .. n : k - 1 \in 0 .. n
    BY <1>0
  <2>3. \A k \in 1 .. n : b[k - 1] \in A
    BY <2>1, <2>2
  <2>. QED  BY <2>1, <2>3
<1>13. ASSUME NEW t, NEW k \in 1 .. n
      PROVE  (CHOOSE r \in {Step(acc, q[k]) : acc \in {t[k - 1]}} : TRUE) = Step(t[k - 1], q[k])
  <2>1. {Step(acc, q[k]) : acc \in {t[k - 1]}} = {Step(t[k - 1], q[k])}
    OBVIOUS
  <2>. QED  BY <2>1, OnlyOne
<1>14. b = Def(b)
  <2>1. b = [k \in 0 .. n |-> b[k]]
    BY <1>12
  <2>2. ASSUME NEW k \in 0 .. n PROVE b[k] = Def(b)[k]
    <3>1. CASE k = 0
      BY <1>12, <3>1
    <3>2. CASE k \in 1 .. n
      BY <1>0, <1>12, <1>13, <3>2
    <3>. QED  BY <1>0, <3>1, <3>2
  <2>. QED  BY <2>1, <2>2
<1>15. After = Def(After)
  <2>1. \E t : t = Def(t)
    BY <1>14
  <2>. QED  BY <2>1
<1>16. scan_edge_rows(c, tables, members) = After[n]
  BY DEF scan_edge_rows, Loop, base, Step, q, n
<1>. HIDE DEF After
<1>17. After[0] = base /\ \A k \in 1 .. n : After[k] = Step(After[k - 1], q[k])
  <2>1. \A k \in 0 .. n : After[k] = Def(After)[k]
    BY <1>15
  <2>2. 0 \in 0 .. n /\ \A k \in 1 .. n : k \in 0 .. n /\ k # 0
    BY <1>0
  <2>. QED  BY <1>13, <2>1, <2>2
<1>18. After[n] = b[n]
  <2>1. PICK m, f : m \in Nat /\ m = n /\ f = After
    BY <1>0
  <2>2. m \in Nat /\ f[0] = b[0] /\ StayAlike(f, b, m)
    BY <1>12, <1>17, <2>1 DEF StayAlike
  <2>3. f[m] = b[m]
    BY ONLY <2>2, SameTable
  <2>. QED  BY <2>1, <2>3
<1>30. b[n] \in A
  BY <1>0, <1>12
<1>. QED  BY <1>30, <1>16, <1>18 DEF A, Ok, Err

-----------------------------------------------------------------------------
(* The sync log *)

\* Rows of the sync log, and logs whose sequences grow.
Entries == [sequence : Nat, action : 1 .. 5, arg0 : Int \cup {Absent}, arg1 : Int \cup {Absent}]
Grows(rows) == \A i \in 2 .. Len(rows) : rows[i - 1].sequence < rows[i].sequence
Logs == {rows \in Seq(Entries) : Grows(rows)}

\* The next number is above all others.
LEMMA LogAppend ==
  ASSUME NEW rows \in Logs, NEW x \in Entries, x.sequence = NextSequence(rows)
  PROVE  Append(rows, x) \in Logs
<1>1. rows \in Seq(Entries) /\ Grows(rows)
  BY DEF Logs
<1>2. PICK n \in Nat : n = Len(rows)
  BY <1>1
<1>3. PICK t : /\ t = Append(rows, x) /\ t \in Seq(Entries) /\ Len(t) = n + 1 /\ t[n + 1] = x
               /\ \A i \in 1 .. n : t[i] = rows[i]
  <2>1. /\ Append(rows, x) \in Seq(Entries) /\ Len(Append(rows, x)) = n + 1 /\ Append(rows, x)[n + 1] = x
        /\ \A i \in 1 .. n : Append(rows, x)[i] = rows[i]
    BY <1>1, <1>2, AppendProperties
  <2>. QED  BY <2>1
<1>4. ASSUME NEW i \in 2 .. n + 1 PROVE t[i - 1].sequence < t[i].sequence
  <2>1. i - 1 \in 1 .. n
    OBVIOUS
  <2>2. CASE i \in 2 .. n
    BY <1>1, <1>2, <1>3, <2>1, <2>2 DEF Grows
  <2>3. CASE i = n + 1
    <3>1. n \in 1 .. n /\ i - 1 = n /\ rows # << >>
      BY <1>1, <1>2, <2>1, <2>3
    <3>2. x.sequence = rows[n].sequence + 1
      BY <1>2, <3>1 DEF NextSequence
    <3>3. rows[n] \in Entries
      BY <1>1, <1>2, <3>1
    <3>4. rows[n].sequence \in Nat
      BY <3>3 DEF Entries
    <3>5. t[i].sequence = x.sequence /\ t[i - 1].sequence = rows[n].sequence
      BY <1>3, <2>3, <3>1
    <3>. QED  BY <3>2, <3>4, <3>5
  <2>. QED  BY <2>2, <2>3
<1>5. Grows(t)
  BY <1>3, <1>4 DEF Grows
<1>. QED  BY <1>3, <1>5 DEF Logs

\* The next number is a number.
LEMMA NextIsNat ==
  ASSUME NEW rows \in Logs
  PROVE  NextSequence(rows) \in Nat
<1>0. rows \in Seq(Entries)
  BY DEF Logs
<1>1. CASE rows = << >>
  BY <1>1 DEF NextSequence
<1>2. CASE rows # << >>
  <2>1. Len(rows) \in 1 .. Len(rows)
    BY <1>0, <1>2
  <2>2. rows[Len(rows)] \in Entries
    BY <1>0, <2>1
  <2>3. rows[Len(rows)].sequence \in Nat
    BY <2>2 DEF Entries
  <2>. QED  BY <1>2, <2>3 DEF NextSequence
<1>. QED  BY <1>1, <1>2

\* What the triggers of a row change add.
LEMMA ChangeLogged ==
  ASSUME log \in Logs, CatalogTyped(catalog), NEW name, NEW row, row[1] \in Int, row[2] \in Int, NEW action \in 1 .. 5
  PROVE  Triggered(name, row, action) \in Logs
<1>. DEFINE q == catalog.edges
            n == Len(q)
            A == Logs
            base == log
            Step(rows, e) == IF Watches(e, name) THEN Logged(rows, e, row, action) ELSE rows
            F == [k \in 1 .. n |-> [X \in A |-> Step(X, q[k])]]
            Def(t) == [k \in 0 .. n |->
                         IF k = 0 THEN base
                         ELSE CHOOSE r \in {Step(acc, q[k]) : acc \in {t[k - 1]}} : TRUE]
            After == CHOOSE t : t = Def(t)
<1>0. n \in Nat /\ DOMAIN q = 1 .. n
  <2>1. PICK E : q \in Seq(E)
    BY DEF CatalogTyped
  <2>. QED  BY <2>1
<1>1. base \in A
  OBVIOUS
<1>2. \A k \in 1 .. n, X \in A : Step(X, q[k]) \in A
  <2>1. SUFFICES ASSUME NEW k \in 1 .. n, NEW X \in Logs PROVE Logged(X, q[k], row, action) \in Logs
    OBVIOUS
  <2>2. PICK s, a0, a1 : /\ s = NextSequence(X) /\ s \in Nat
                         /\ a0 = NodeKey(q[k].source_table, row[1]) /\ a0 \in Int
                         /\ a1 = NodeKey(q[k].target_table, row[2]) /\ a1 \in Int
    <3>1. q[k].source_table \in Int /\ q[k].target_table \in Int
      BY <1>0 DEF CatalogTyped
    <3>2. NodeKey(q[k].source_table, row[1]) \in Int
      BY <3>1, KeyIsInt
    <3>3. NodeKey(q[k].target_table, row[2]) \in Int
      BY <3>1, KeyIsInt
    <3>. QED  BY <3>2, <3>3, NextIsNat
  <2>3. PICK x \in Entries : x = [sequence |-> s, action |-> action, arg0 |-> a0, arg1 |-> a1]
    BY <2>2 DEF Entries
  <2>4. x.sequence = NextSequence(X)
    BY <2>2, <2>3
  <2>5. Append(X, x) \in Logs
    BY <2>4, LogAppend
  <2>. QED  BY <2>2, <2>3, <2>5 DEF Logged
<1>10. F \in [1 .. n -> [A -> A]]
  <2>. HIDE DEF A, Step, q, n
  <2>. QED  BY <1>2
<1>11. PICK b : Iterates(b, n, A, base, F)
  <2>. HIDE DEF A, F, base, n
  <2>. QED  BY <1>0, <1>1, <1>10, IteratesExist
<1>. HIDE DEF A, base, Step, q, n
<1>12. /\ b \in [0 .. n -> A] /\ b[0] = base
      /\ \A k \in 1 .. n : b[k] = Step(b[k - 1], q[k])
  <2>1. b \in [0 .. n -> A] /\ b[0] = base /\ \A k \in 1 .. n : b[k] = F[k][b[k - 1]]
    BY <1>11 DEF Iterates
  <2>2. \A k \in 1 .. n : k - 1 \in 0 .. n
    BY <1>0
  <2>3. \A k \in 1 .. n : b[k - 1] \in A
    BY <2>1, <2>2
  <2>. QED  BY <2>1, <2>3
<1>13. ASSUME NEW t, NEW k \in 1 .. n
      PROVE  (CHOOSE r \in {Step(acc, q[k]) : acc \in {t[k - 1]}} : TRUE) = Step(t[k - 1], q[k])
  <2>1. {Step(acc, q[k]) : acc \in {t[k - 1]}} = {Step(t[k - 1], q[k])}
    OBVIOUS
  <2>. QED  BY <2>1, OnlyOne
<1>14. b = Def(b)
  <2>1. b = [k \in 0 .. n |-> b[k]]
    BY <1>12
  <2>2. ASSUME NEW k \in 0 .. n PROVE b[k] = Def(b)[k]
    <3>1. CASE k = 0
      BY <1>12, <3>1
    <3>2. CASE k \in 1 .. n
      BY <1>0, <1>12, <1>13, <3>2
    <3>. QED  BY <1>0, <3>1, <3>2
  <2>. QED  BY <2>1, <2>2
<1>15. After = Def(After)
  <2>1. \E t : t = Def(t)
    BY <1>14
  <2>. QED  BY <2>1
<1>16. Triggered(name, row, action) = After[n]
  BY DEF Triggered, Loop, base, Step, q, n
<1>. HIDE DEF After
<1>17. After[0] = base /\ \A k \in 1 .. n : After[k] = Step(After[k - 1], q[k])
  <2>1. \A k \in 0 .. n : After[k] = Def(After)[k]
    BY <1>15
  <2>2. 0 \in 0 .. n /\ \A k \in 1 .. n : k \in 0 .. n /\ k # 0
    BY <1>0
  <2>. QED  BY <1>13, <2>1, <2>2
<1>18. After[n] = b[n]
  <2>1. PICK m, f : m \in Nat /\ m = n /\ f = After
    BY <1>0
  <2>2. m \in Nat /\ f[0] = b[0] /\ StayAlike(f, b, m)
    BY <1>12, <1>17, <2>1 DEF StayAlike
  <2>3. f[m] = b[m]
    BY ONLY <2>2, SameTable
  <2>. QED  BY <2>1, <2>3
<1>30. b[n] \in A
  BY <1>0, <1>12
<1>. QED  BY <1>30, <1>16, <1>18 DEF A

\* The keys that a reload numbers: those of the edge rows and those of the log.
SyncKeys(edges, rows) ==
  distinct_node_keys(edges)
    \cup UNION {{rows[i].arg0, rows[i].arg1} \ {Absent} :
                  i \in {j \in DOMAIN rows : carries_node_keys(rows[j].action)}}

\* They are finitely many integers, with both keys of every row that decodes.
LEMMA SyncKeysAre ==
  ASSUME NEW edges \in Seq(EdgeRows), NEW rows \in Seq(Entries)
  PROVE  /\ SyncKeys(edges, rows) \subseteq Int /\ IsFiniteSet(SyncKeys(edges, rows))
         /\ \A i \in DOMAIN rows :
              carries_node_keys(rows[i].action) /\ rows[i].arg0 # Absent /\ rows[i].arg1 # Absent =>
                rows[i].arg0 \in SyncKeys(edges, rows) /\ rows[i].arg1 \in SyncKeys(edges, rows)
         /\ distinct_node_keys(edges) \subseteq SyncKeys(edges, rows)
<1>1. PICK n \in Nat : n = Len(rows) /\ DOMAIN rows = 1 .. n
  OBVIOUS
<1>2. \A i \in 1 .. n : rows[i].arg0 \in Int \cup {Absent} /\ rows[i].arg1 \in Int \cup {Absent}
  <2>1. \A i \in 1 .. n : rows[i] \in Entries
    BY <1>1
  <2>. QED  BY <2>1 DEF Entries
<1>3. PICK S, T : S = {rows[i].arg0 : i \in 1 .. n} /\ T = {rows[i].arg1 : i \in 1 .. n}
  OBVIOUS
<1>4. IsFiniteSet(1 .. n)
  BY FS_Interval
<1>5. IsFiniteSet(S)
  <2>1. PICK f : f = [i \in 1 .. n |-> rows[i].arg0]
    OBVIOUS
  <2>2. f \in Surjection(1 .. n, S)
    BY <1>3, <2>1 DEF Surjection
  <2>. QED  BY <1>4, <2>2, FS_Surjection
<1>6. IsFiniteSet(T)
  <2>1. PICK f : f = [i \in 1 .. n |-> rows[i].arg1]
    OBVIOUS
  <2>2. f \in Surjection(1 .. n, T)
    BY <1>3, <2>1 DEF Surjection
  <2>. QED  BY <1>4, <2>2, FS_Surjection
<1>7. PICK K : K = distinct_node_keys(edges) /\ K \subseteq Int /\ IsFiniteSet(K)
  BY KeysFinite
<1>8. PICK W : W = UNION {{rows[i].arg0, rows[i].arg1} \ {Absent} :
                            i \in {j \in DOMAIN rows : carries_node_keys(rows[j].action)}}
  OBVIOUS
<1>9. W \in SUBSET (S \cup T) /\ W \subseteq Int
  BY <1>1, <1>2, <1>3, <1>8
<1>10. IsFiniteSet(S \cup T)
  BY <1>5, <1>6, FS_Union
<1>11. IsFiniteSet(W)
  BY <1>9, <1>10, FS_Subset
<1>12. IsFiniteSet(K \cup W)
  BY <1>7, <1>11, FS_Union
<1>13. SyncKeys(edges, rows) = K \cup W
  BY <1>7, <1>8 DEF SyncKeys
<1>14. \A i \in DOMAIN rows : carries_node_keys(rows[i].action) /\ rows[i].arg0 # Absent /\ rows[i].arg1 # Absent =>
         rows[i].arg0 \in W /\ rows[i].arg1 \in W
  BY <1>8
<1>. QED  BY <1>7, <1>9, <1>12, <1>13, <1>14

\* Rows that are resolved name ids of the width, in the order of the log.
ResolvedAs(rows, map, raw, n) ==
  /\ Len(rows) = n
  /\ \A i \in 1 .. n :
       /\ rows[i].sequence = raw[i].sequence /\ rows[i].action = raw[i].action
       /\ carries_node_keys(raw[i].action) =>
            /\ raw[i].arg0 \in DOMAIN map /\ raw[i].arg1 \in DOMAIN map
            /\ rows[i].arg0 = map[raw[i].arg0] /\ rows[i].arg1 = map[raw[i].arg1]
            /\ rows[i].arg0 \in Ids /\ rows[i].arg1 \in Ids

\* resolve_sync_rows returns such rows.
LEMMA ResolvedIs ==
  ASSUME NEW edges \in Seq(EdgeRows), NEW raw \in Seq(Entries), resolve_sync_rows(edges, raw).err = "Ok"
  PROVE  LET map == dense_node_map_for_sync_resolution(edges, raw)
         IN  /\ map = dense_node_map_from_keys(SyncKeys(edges, raw)) /\ DOMAIN map = SyncKeys(edges, raw)
             /\ resolve_sync_rows(edges, raw).val = ResolvedWith(map, raw)
             /\ ResolvedAs(ResolvedWith(map, raw), map, raw, Len(raw))
<1>1. PICK map : map = dense_node_map_for_sync_resolution(edges, raw)
  OBVIOUS
<1>2. PICK keys : /\ keys = SyncKeys(edges, raw) /\ keys \subseteq Int /\ IsFiniteSet(keys)
                  /\ \A i \in DOMAIN raw :
                       carries_node_keys(raw[i].action) /\ raw[i].arg0 # Absent /\ raw[i].arg1 # Absent =>
                         raw[i].arg0 \in keys /\ raw[i].arg1 \in keys
  BY SyncKeysAre
<1>3. map = dense_node_map_from_keys(keys)
  BY <1>1, <1>2 DEF dense_node_map_for_sync_resolution, SyncKeys
<1>4. PICK c \in Nat : map \in [keys -> 0 .. c - 1]
  BY <1>2, <1>3, DenseIs
<1>5. PICK n \in Nat : n = Len(raw) /\ DOMAIN raw = 1 .. n
  OBVIOUS
<1>6. /\ \A k \in keys : map[k] <= NodeMax
      /\ \A i \in 1 .. n : decode_wire(raw[i]) = "Ok"
      /\ resolve_sync_rows(edges, raw).val = ResolvedWith(map, raw)
  <2>1. DOMAIN map = keys
    BY <1>4
  <2>. QED  BY <1>1, <1>5, <2>1 DEF resolve_sync_rows, Err, Ok, Fits
<1>7. \A k \in keys : map[k] \in Ids
  <2>1. NodeMax \in Nat
    BY CsrAssumption
  <2>. QED  BY <1>4, <1>6, <2>1 DEF Ids
<1>8. PICK rows : rows = ResolvedWith(map, raw)
  OBVIOUS
<1>9. rows = [i \in 1 .. n |-> resolve_sync_action(raw[i], map)]
  BY <1>5, <1>8 DEF ResolvedWith
<1>10. Len(rows) = n
  <2>1. PICK R : R = {rows[i] : i \in 1 .. n}
    OBVIOUS
  <2>2. rows \in [1 .. n -> R]
    BY <1>9, <2>1
  <2>3. rows \in Seq(R) /\ Len(rows) = n
    BY ONLY n \in Nat, <2>2
  <2>. QED  BY <2>3
<1>11. ASSUME NEW i \in 1 .. n
       PROVE  /\ rows[i].sequence = raw[i].sequence /\ rows[i].action = raw[i].action
              /\ carries_node_keys(raw[i].action) =>
                   /\ raw[i].arg0 \in DOMAIN map /\ raw[i].arg1 \in DOMAIN map
                   /\ rows[i].arg0 = map[raw[i].arg0] /\ rows[i].arg1 = map[raw[i].arg1]
                   /\ rows[i].arg0 \in Ids /\ rows[i].arg1 \in Ids
  <2>1. raw[i] \in Entries
    BY <1>5
  <2>2. PICK s, a, x, y : raw[i] = [sequence |-> s, action |-> a, arg0 |-> x, arg1 |-> y]
    BY <2>1 DEF Entries
  <2>3. rows[i] = resolve_sync_action(raw[i], map)
    BY <1>9
  <2>4. CASE ~carries_node_keys(raw[i].action)
    BY <2>3, <2>4 DEF resolve_sync_action
  <2>5. CASE carries_node_keys(raw[i].action)
    <3>1. raw[i].arg0 # Absent /\ raw[i].arg1 # Absent
      <4>1. decode_wire(raw[i]) = "Ok" /\ raw[i].action \in 1 .. 5
        BY <1>6, <2>1 DEF Entries
      <4>. QED  BY <2>5, <4>1 DEF decode_wire
    <3>2. raw[i].arg0 \in keys /\ raw[i].arg1 \in keys
      BY <1>2, <1>5, <2>5, <3>1
    <3>3. PICK v, w : v = map[raw[i].arg0] /\ w = map[raw[i].arg1]
      OBVIOUS
    <3>4. PICK r : r = raw[i]
      OBVIOUS
    <3>5. rows[i] = [r EXCEPT !.arg0 = v, !.arg1 = w]
      BY <2>3, <2>5, <3>3, <3>4 DEF resolve_sync_action
    <3>6. r = [sequence |-> s, action |-> a, arg0 |-> x, arg1 |-> y]
      BY <2>2, <3>4
    <3>7. PICK z : z = [r EXCEPT !.arg0 = v, !.arg1 = w]
      OBVIOUS
    <3>8. z.sequence = s /\ z.action = a /\ z.arg0 = v /\ z.arg1 = w
      BY ONLY <3>6, <3>7
    <3>. QED  BY <1>4, <1>7, <2>2, <3>2, <3>3, <3>5, <3>7, <3>8
  <2>. QED  BY <2>4, <2>5
<1>12. ResolvedAs(rows, map, raw, n)
  BY <1>10, <1>11 DEF ResolvedAs
<1>13. DOMAIN map = keys
  BY <1>4
<1>. QED  BY <1>1, <1>2, <1>3, <1>5, <1>6, <1>8, <1>12, <1>13

-----------------------------------------------------------------------------
(* Engines *)

\* A matched overlay over some ids is one over more ids.
LEMMA MatchedGrow ==
  ASSUME NEW S, NEW U, S \subseteq U, NEW o \in Matched(S)
  PROVE  o \in Matched(U)
<1>1. o \in Overlays(S) /\ Adjacent(o)
  BY DEF Matched
<1>2. Seq(S) \subseteq Seq(U)
  <2>1. SUFFICES ASSUME NEW s \in Seq(S) PROVE s \in Seq(U)
    OBVIOUS
  <2>2. Len(s) \in Nat /\ s = [i \in 1 .. Len(s) |-> s[i]] /\ \A i \in 1 .. Len(s) : s[i] \in U
    OBVIOUS
  <2>. QED  BY <2>2
<1>3. Seq(S \X S) \subseteq Seq(U \X U)
  <2>1. SUFFICES ASSUME NEW s \in Seq(S \X S) PROVE s \in Seq(U \X U)
    OBVIOUS
  <2>2. Len(s) \in Nat /\ s = [i \in 1 .. Len(s) |-> s[i]] /\ \A i \in 1 .. Len(s) : s[i] \in S \X S
    OBVIOUS
  <2>3. S \X S \subseteq U \X U
    OBVIOUS
  <2>4. \A i \in 1 .. Len(s) : s[i] \in U \X U
    BY <2>2, <2>3
  <2>. QED  BY <2>2, <2>4
<1>4. [Ids -> Seq(S)] \subseteq [Ids -> Seq(U)]
  BY <1>2
<1>5. o \in Overlays(U)
  <2>1. /\ o = [added_edges |-> o.added_edges, by_source |-> o.by_source, by_target |-> o.by_target,
                tombstoned_edges |-> o.tombstoned_edges, tombstoned_nodes |-> o.tombstoned_nodes]
        /\ o.added_edges \in Seq(S \X S) /\ o.by_source \in [Ids -> Seq(S)] /\ o.by_target \in [Ids -> Seq(S)]
        /\ o.tombstoned_edges \in SUBSET S /\ o.tombstoned_nodes \in SUBSET S
    BY <1>1 DEF Overlays
  <2>2. /\ o.added_edges \in Seq(U \X U) /\ o.by_source \in [Ids -> Seq(U)] /\ o.by_target \in [Ids -> Seq(U)]
        /\ o.tombstoned_edges \in SUBSET U /\ o.tombstoned_nodes \in SUBSET U
    BY <1>3, <1>4, <2>1
  <2>. QED  BY <2>1, <2>2 DEF Overlays
<1>. QED  BY <1>1, <1>5 DEF Matched

\* A loaded engine: its artifact is one topology, the unique rows, once built, are those of the
\* artifact, and the overlay's adjacency is that of its edges, whose ends are ids of the width.
EngineOK(e) ==
  /\ e = [art |-> e.art, overlay |-> e.overlay, unique |-> e.unique, unique_built |-> e.unique_built,
          scratch |-> e.scratch]
  /\ ArtOK(e.art) /\ e.scratch = e.art.metadata.node_count
  /\ e.unique_built \in BOOLEAN /\ (e.unique_built => e.unique = from_topology(e.art))
  /\ Elems(e.overlay.added_edges) \subseteq Ids \X Ids
  /\ \E S : e.overlay \in Matched(S)

\* The overlay a new engine starts with.
LEMMA NothingInserted == Elems(EmptyOverlay.added_edges) = {} /\ EmptyOverlay \in Matched({})
<1>1. PICK z : z = EmptyOverlay.added_edges
  OBVIOUS
<1>2. z = << >>
  BY <1>1 DEF EmptyOverlay
<1>3. DOMAIN z = {}
  BY <1>2
<1>4. Elems(z) = {}
  BY <1>3 DEF Elems
<1>. QED  BY <1>1, <1>4, EmptyMatched

\* EngineBuilder::build starts with nothing derived.
LEMMA BuildOK ==
  ASSUME NEW art, ArtOK(art)
  PROVE  build(art).err = "Ok" /\ EngineOK(build(art).val) /\ build(art).val.art = art
<1>1. open(art).err = "Ok"
  BY ArtOpens
<1>2. PICK e : e = [art |-> art, overlay |-> EmptyOverlay, unique |-> NoUnique, unique_built |-> FALSE,
                    scratch |-> art.metadata.node_count]
  OBVIOUS
<1>3. build(art).err = "Ok" /\ build(art).val = e
  BY <1>1, <1>2 DEF build, Ok
<1>4. /\ e.overlay = EmptyOverlay /\ e.unique_built = FALSE /\ e.art = art /\ e.scratch = art.metadata.node_count
      /\ e = [art |-> e.art, overlay |-> e.overlay, unique |-> e.unique, unique_built |-> e.unique_built,
              scratch |-> e.scratch]
  BY <1>2
<1>5. e.overlay \in Matched({}) /\ Elems(e.overlay.added_edges) \subseteq Ids \X Ids
  BY <1>4, NothingInserted
<1>. QED  BY <1>3, <1>4, <1>5 DEF EngineOK

\* replace_snapshot_bytes drops what was derived from the artifact before.
LEMMA RebuildOK ==
  ASSUME NEW e, EngineOK(e), NEW c, NEW edges \in Seq(EdgeRows), NEW m,
         rebuild_from_catalog(e, c, edges, m).err = "Ok"
  PROVE  /\ EngineOK(rebuild_from_catalog(e, c, edges, m).val)
         /\ from_edge_rows(edges).err = "Ok"
         /\ rebuild_from_catalog(e, c, edges, m).val.art = from_edge_rows(edges).val
<1>1. PICK art : art = from_catalog_and_edges(c, edges).val
  OBVIOUS
<1>2. rebuild_from_catalog(e, c, edges, m) = replace_snapshot_bytes(e, art) /\ from_catalog_and_edges(c, edges).err = "Ok"
  BY <1>1 DEF rebuild_from_catalog, Err
<1>3. build(art).err = "Ok"
  BY <1>2 DEF replace_snapshot_bytes
<1>a. from_edge_rows(edges).err = "Ok" /\ art = from_edge_rows(edges).val
  BY <1>1, <1>2 DEF from_catalog_and_edges, Err
<1>b. ArtOK(art)
  BY <1>a, RowsArtOK
<1>4. PICK d, z : /\ z = art.metadata.node_count
                  /\ d = [e EXCEPT !.art = art, !.overlay = clear(@), !.unique = NoUnique, !.unique_built = FALSE,
                                   !.scratch = z]
  OBVIOUS
<1>5. rebuild_from_catalog(e, c, edges, m).val = d
  BY <1>2, <1>3, <1>4 DEF replace_snapshot_bytes, Ok
<1>6. /\ d.overlay = EmptyOverlay /\ d.unique_built = FALSE /\ d.art = art /\ d.scratch = z
      /\ d = [art |-> d.art, overlay |-> d.overlay, unique |-> d.unique, unique_built |-> d.unique_built,
              scratch |-> d.scratch]
  <2>1. PICK a, o, q, b, y : e = [art |-> a, overlay |-> o, unique |-> q, unique_built |-> b, scratch |-> y]
    BY DEF EngineOK
  <2>. QED  BY <1>4, <2>1 DEF clear
<1>7. d.overlay \in Matched({}) /\ Elems(d.overlay.added_edges) \subseteq Ids \X Ids
  BY <1>6, NothingInserted
<1>8. EngineOK(d)
  BY <1>4, <1>6, <1>7, <1>b DEF EngineOK
<1>. QED  BY <1>5, <1>6, <1>8, <1>a

\* A reload applies every row of the log, in order.
LEMMA Replayed ==
  ASSUME NEW e, EngineOK(e), NEW raw \in Logs, NEW rows, NEW map, NEW n, n = Len(raw), ResolvedAs(rows, map, raw, n)
  PROVE  \E S, b : /\ Replay(b, S, n, rows, e.overlay)
                   /\ \A k \in 1 .. n : rows[k].arg0 \in S /\ rows[k].arg1 \in S
                   /\ apply_sync_rows(e, rows) = [e EXCEPT !.overlay = b[n]]
<1>1. PICK U : e.overlay \in Matched(U)
  BY DEF EngineOK
<1>2. raw \in Seq(Entries) /\ Grows(raw)
  BY DEF Logs
<1>3. n \in Nat /\ \A k \in 1 .. n : raw[k].sequence \in Nat
  <2>1. n \in Nat /\ \A k \in 1 .. n : raw[k] \in Entries
    BY <1>2
  <2>. QED  BY <2>1 DEF Entries
<1>4. PICK S : S = U \cup {rows[k].arg0 : k \in 1 .. n} \cup {rows[k].arg1 : k \in 1 .. n}
  OBVIOUS
<1>5. PICK o : o = e.overlay /\ o \in Matched(S)
  <2>1. PICK o : o = e.overlay /\ o \in Matched(U)
    BY <1>1
  <2>2. U \subseteq S
    BY <1>4
  <2>3. o \in Matched(S)
    BY <2>1, <2>2, MatchedGrow
  <2>. QED  BY <2>1, <2>3
<1>6. \A k \in 1 .. n : rows[k].arg0 \in S /\ rows[k].arg1 \in S /\ rows[k].sequence \in Nat
  BY <1>3, <1>4 DEF ResolvedAs
<1>7. \A k \in 2 .. n : rows[k - 1].sequence < rows[k].sequence
  <2>1. \A k \in 2 .. n : k \in 1 .. n /\ k - 1 \in 1 .. n
    BY <1>3
  <2>. QED  BY <1>2, <2>1 DEF ResolvedAs, Grows
<1>8. Len(rows) = n
  BY DEF ResolvedAs
<1>9. PICK b : Replay(b, S, n, rows, o) /\ apply_in_order(rows, o).overlay = b[n]
  <2>1. n \in Nat /\ o \in Matched(S)
    BY <1>3, <1>5
  <2>. QED  BY ONLY <2>1, <1>6, <1>7, <1>8, InOrderApplied
<1>10. apply_sync_rows(e, rows) = [e EXCEPT !.overlay = b[n]]
  BY <1>5, <1>9 DEF apply_sync_rows
<1>. QED  BY <1>5, <1>6, <1>9, <1>10

\* apply_sync_rows changes the overlay only, and keeps it matched.
LEMMA ReplayOK ==
  ASSUME NEW e, EngineOK(e), NEW raw \in Logs, NEW rows, NEW map, NEW n, n = Len(raw), ResolvedAs(rows, map, raw, n)
  PROVE  EngineOK(apply_sync_rows(e, rows)) /\ apply_sync_rows(e, rows).art = e.art
<1>1. PICK S, b : /\ Replay(b, S, n, rows, e.overlay)
                  /\ \A k \in 1 .. n : rows[k].arg0 \in S /\ rows[k].arg1 \in S
                  /\ apply_sync_rows(e, rows) = [e EXCEPT !.overlay = b[n]]
  BY Replayed
<1>2. n \in Nat /\ \A k \in 1 .. n : raw[k].action \in 1 .. 5
  <2>1. raw \in Seq(Entries)
    BY DEF Logs
  <2>2. n \in Nat /\ \A k \in 1 .. n : raw[k] \in Entries
    BY <2>1
  <2>. QED  BY <2>2 DEF Entries
<1>3. \A k \in 0 .. n : b[k] \in Matched(S)
  BY <1>1 DEF Replay
<1>. DEFINE In(k) == \A x : InSeq(x, b[k].added_edges) => x \in Ids \X Ids
            T == {k \in 0 .. n : In(k)}
<1>4. 0 \in T
  <2>1. b[0] = e.overlay /\ 0 \in 0 .. n
    BY <1>1, <1>2 DEF Replay
  <2>2. In(0)
    BY <2>1 DEF EngineOK, InSeq, Elems
  <2>. HIDE DEF In
  <2>. QED  BY <2>1, <2>2
<1>5. ASSUME NEW k \in 1 .. n, k - 1 \in T PROVE k \in T
  <2>1. k \in 0 .. n /\ k - 1 \in 0 .. n
    BY <1>2
  <2>2. PICK o, row : o = b[k - 1] /\ row = rows[k] /\ o \in Matched(S) /\ row.arg0 \in S /\ row.arg1 \in S
    BY <1>1, <1>3, <2>1
  <2>3. b[k] = apply_to(row, o)
    BY <1>1, <2>2 DEF Replay
  <2>4. row.action = raw[k].action /\ row.action \in 1 .. 5
    BY <1>2, <2>2 DEF ResolvedAs
  <2>5. ASSUME NEW x, InSeq(x, b[k].added_edges) PROVE x \in Ids \X Ids
    <3>1. InSeq(x, o.added_edges) => x \in Ids \X Ids
      BY <1>5, <2>2
    <3>2. /\ row.action = InsertEdge => (InSeq(x, b[k].added_edges) <=> InSeq(x, o.added_edges) \/ x = <<row.arg0, row.arg1>>)
          /\ row.action = RemoveOverlayEdge =>
               (InSeq(x, b[k].added_edges) <=> InSeq(x, o.added_edges) /\ x # <<row.arg0, row.arg1>>)
          /\ row.action \in {DeleteEdge, DeleteNode} => b[k].added_edges = o.added_edges
          /\ row.action = TruncateOverlays => b[k].added_edges = << >>
      BY <2>2, <2>3, ApplyMembers
    <3>3. row.action = InsertEdge => row.arg0 \in Ids /\ row.arg1 \in Ids
      BY <2>2, <2>4 DEF ResolvedAs, carries_node_keys
    <3>4. row.action = InsertEdge => <<row.arg0, row.arg1>> \in Ids \X Ids
      BY <3>3
    <3>5. ~InSeq(x, << >>)
      BY DEF InSeq
    <3>6. row.action \in {InsertEdge, RemoveOverlayEdge, DeleteEdge, DeleteNode, TruncateOverlays}
      BY <2>4 DEF InsertEdge, RemoveOverlayEdge, DeleteEdge, DeleteNode, TruncateOverlays
    <3>7. CASE row.action = InsertEdge
      BY <2>5, <3>1, <3>2, <3>4, <3>7
    <3>8. CASE row.action = RemoveOverlayEdge
      BY <2>5, <3>1, <3>2, <3>8
    <3>9. CASE row.action \in {DeleteEdge, DeleteNode}
      BY <2>5, <3>1, <3>2, <3>9
    <3>10. CASE row.action = TruncateOverlays
      BY <2>5, <3>2, <3>5, <3>10
    <3>. QED  BY <3>6, <3>7, <3>8, <3>9, <3>10
  <2>6. In(k)
    BY <2>5
  <2>. HIDE DEF In
  <2>. QED  BY <2>1, <2>6
<1>6. In(n)
  <2>1. \A k \in 1 .. n : k - 1 \in T => k \in T
    <3>. HIDE DEF T
    <3>. QED  BY <1>5
  <2>2. \A k \in 0 .. n : k \in T
    <3>. HIDE DEF T
    <3>. QED  BY <1>2, <1>4, <2>1, AllUpTo
  <2>3. n \in T
    BY <1>2, <2>2
  <2>. QED  BY <2>3
<1>7. PICK o : o = b[n] /\ o \in Matched(S)
  BY <1>2, <1>3
<1>8. Elems(o.added_edges) \subseteq Ids \X Ids
  BY <1>6, <1>7 DEF InSeq, Elems
<1>9. PICK d : d = [e EXCEPT !.overlay = o]
  OBVIOUS
<1>10. /\ d.overlay = o /\ d.unique_built = e.unique_built /\ d.unique = e.unique /\ d.art = e.art
       /\ d.scratch = e.scratch
       /\ d = [art |-> d.art, overlay |-> d.overlay, unique |-> d.unique, unique_built |-> d.unique_built,
               scratch |-> d.scratch]
  <2>1. PICK a, x, q, c, z : e = [art |-> a, overlay |-> x, unique |-> q, unique_built |-> c, scratch |-> z]
    BY DEF EngineOK
  <2>. QED  BY <1>9, <2>1
<1>11. EngineOK(d)
  BY <1>7, <1>8, <1>10 DEF EngineOK
<1>. QED  BY <1>1, <1>7, <1>9, <1>10, <1>11

\* traverse_workspace_mut builds the unique rows from the artifact it has.
LEMMA TraverseOK ==
  ASSUME NEW e, EngineOK(e), NEW needs_unique
  PROVE  /\ EngineOK(traverse_workspace_mut(e, needs_unique))
         /\ traverse_workspace_mut(e, needs_unique).art = e.art
         /\ traverse_workspace_mut(e, needs_unique).overlay = e.overlay
<1>1. PICK d : d = [e EXCEPT !.unique = from_topology(e.art), !.unique_built = TRUE]
  OBVIOUS
<1>2. traverse_workspace_mut(e, needs_unique) = d \/ traverse_workspace_mut(e, needs_unique) = e
  BY <1>1 DEF traverse_workspace_mut
<1>3. /\ d.overlay = e.overlay /\ d.art = e.art /\ d.unique = from_topology(e.art) /\ d.unique_built = TRUE
      /\ d.scratch = e.scratch
      /\ d = [art |-> d.art, overlay |-> d.overlay, unique |-> d.unique, unique_built |-> d.unique_built,
              scratch |-> d.scratch]
  <2>1. PICK a, x, q, b, z : e = [art |-> a, overlay |-> x, unique |-> q, unique_built |-> b, scratch |-> z]
    BY DEF EngineOK
  <2>. QED  BY <1>1, <2>1
<1>4. EngineOK(d)
  BY <1>3 DEF EngineOK
<1>. QED  BY <1>2, <1>3, <1>4

-----------------------------------------------------------------------------
(* The invariant *)

\* The ids of the registered edges.
EdgeIds == {catalog.edges[i].id : i \in DOMAIN catalog.edges}

\* The shared tables: registered rows that read back, rows of integers, triggers of registered
\* edges, a log in order, and a snapshot that is one topology.
Shared ==
  /\ Loadable(catalog) /\ CatalogTyped(catalog)
  /\ TuplesTyped(tuples) /\ triggers \subseteq EdgeIds
  /\ log \in Logs
  /\ store = Absent \/ ArtOK(store)

\* Every loaded session is sound.
Engines ==
  /\ engine = [s \in Sessions |-> engine[s]]
  /\ \A s \in Sessions : engine[s] = Absent \/ EngineOK(engine[s])

\* What a call or a pass has built and not persisted is the artifact of the rows it scanned,
\* whatever the tables hold by now.
BuiltOK(b) ==
  \/ b = Absent
  \/ /\ b.edges \in Seq(EdgeRows) /\ from_edge_rows(b.edges).err = "Ok" /\ b.art = from_edge_rows(b.edges).val
     /\ b.call \in {"graph_build", "graph_rebuild", "graph_maintenance"}
Building ==
  /\ built = [a \in Actors |-> built[a]]
  /\ \A a \in Actors : BuiltOK(built[a])

\* The workers and the bounded counters.
Counters ==
  /\ worker \in [Workers -> {"waiting", "awake", "persisting"}] /\ enabled \in [Workers -> BOOLEAN]
  /\ changes \in 0 .. MaxChanges /\ calls \in 0 .. MaxCalls

\* The inductive invariant.
ExtensionInv == Shared /\ Engines /\ Building /\ Counters

\* The relational schemas of the integration tests are readable.
LEMMA RegistrationsLoad ==
  ASSUME NEW c \in Registrations
  PROVE  Loadable(c) /\ CatalogTyped(c)
<1>. DEFINE c1 == [tables |-> <<NodesTable>>, edges |-> << >>, filter_columns |-> {}]
            p2 == [id |-> 2, name |-> "places"]
            e1 == [id |-> 1, source_table |-> 1, target_table |-> 1, name |-> "edges"]
            e2 == [id |-> 2, source_table |-> 1, target_table |-> 2, name |-> "visits"]
            c2 == [tables |-> <<NodesTable, p2>>, edges |-> <<e1, e2>>, filter_columns |-> {}]
<1>0. PICK z : z = << >> /\ z \in Seq(Elems(z)) /\ DOMAIN z = {}
  <2>1. << >> \in Seq({}) /\ DOMAIN << >> = {}
    OBVIOUS
  <2>2. PICK w : w = << >> /\ w \in Seq({}) /\ DOMAIN w = {}
    BY <2>1
  <2>3. w \in Seq(Elems(w))
    BY <2>2, OverElems
  <2>. QED  BY <2>2, <2>3
<1>1. Loadable(EmptyCatalog)
  <2>1. PICK d : d = [tables |-> z, edges |-> z, filter_columns |-> {}]
    OBVIOUS
  <2>2. EmptyCatalog = d
    BY <1>0, <2>1 DEF EmptyCatalog
  <2>. QED  BY <1>0, <2>1, <2>2 DEF Loadable, Distinct, DistinctIds
<1>2. NodesTable.id = 1 /\ NodesTable.name = "nodes"
  BY DEF NodesTable
<1>3. Loadable(c1)
  <2>1. PICK d, t : /\ d = [tables |-> t, edges |-> z, filter_columns |-> {}] /\ d = c1
                    /\ t = <<NodesTable>>
    BY <1>0
  <2>2. t \in Seq({NodesTable}) /\ DOMAIN t = {1}
    BY <2>1
  <2>3. t \in Seq(Elems(t))
    BY <2>2, OverElems
  <2>. QED  BY <1>0, <2>1, <2>2, <2>3 DEF Loadable, Distinct, DistinctIds
<1>4. Loadable(c2)
  <2>1. PICK d, t, x : /\ d = [tables |-> t, edges |-> x, filter_columns |-> {}] /\ d = c2
                       /\ t = <<NodesTable, p2>> /\ x = <<e1, e2>>
    OBVIOUS
  <2>2. t \in Seq({NodesTable, p2}) /\ DOMAIN t = {1, 2} /\ t[1] = NodesTable /\ t[2] = p2
    BY <2>1
  <2>3. x \in Seq({e1, e2}) /\ DOMAIN x = {1, 2} /\ x[1] = e1 /\ x[2] = e2
    BY <2>1
  <2>4. t \in Seq(Elems(t)) /\ x \in Seq(Elems(x))
    BY <2>2, <2>3, OverElems
  <2>5. t[1].id = 1 /\ t[2].id = 2 /\ t[1].name = "nodes" /\ t[2].name = "places"
    BY <1>2, <2>2
  <2>6. /\ x[1].id = 1 /\ x[2].id = 2 /\ x[1].source_table = 1 /\ x[1].target_table = 1
        /\ x[2].source_table = 1 /\ x[2].target_table = 2
    BY <2>3
  <2>7. Distinct(t)
    BY <2>2, <2>5 DEF Distinct
  <2>8. DistinctIds(x)
    BY <2>3, <2>6 DEF DistinctIds
  <2>9. HasId(t, 1) /\ HasId(t, 2)
    BY <2>2, <2>5 DEF HasId
  <2>10. \A k \in DOMAIN x : HasId(t, x[k].source_table) /\ HasId(t, x[k].target_table)
    BY <2>3, <2>6, <2>9
  <2>11. d.tables = t /\ d.edges = x /\ d.filter_columns = {}
    BY <2>1
  <2>12. Loadable(d)
    <3>. HIDE DEF c2
    <3>. QED  BY <2>1, <2>4, <2>7, <2>8, <2>10, <2>11 DEF Loadable
  <2>. QED  BY <2>1, <2>12
<1>5. [EmptyCatalog EXCEPT !.tables = <<NodesTable>>] = c1
  <2>1. PICK t : t = <<NodesTable>>
    OBVIOUS
  <2>2. EmptyCatalog = [tables |-> z, edges |-> z, filter_columns |-> {}]
    BY <1>0 DEF EmptyCatalog
  <2>3. [EmptyCatalog EXCEPT !.tables = t] = [tables |-> t, edges |-> z, filter_columns |-> {}]
    BY <2>2
  <2>. QED  BY <1>0, <2>1, <2>3
<1>6. c = EmptyCatalog \/ c = c1 \/ c = c2
  BY <1>5 DEF Registrations
<1>7. Loadable(c)
  BY <1>1, <1>3, <1>4, <1>6
<1>8. CatalogTyped(EmptyCatalog) /\ CatalogTyped(c1)
  <2>1. PICK x, y : x = EmptyCatalog.edges /\ y = c1.edges /\ x = z /\ y = z
    BY <1>0 DEF EmptyCatalog
  <2>. HIDE DEF c1
  <2>. QED  BY <1>0, <2>1 DEF CatalogTyped
<1>9. CatalogTyped(c2)
  <2>1. PICK x : x = c2.edges /\ x = <<e1, e2>>
    OBVIOUS
  <2>2. x \in Seq(Elems(x))
    BY <1>4, <2>1 DEF Loadable
  <2>3. DOMAIN x = {1, 2} /\ x[1] = e1 /\ x[2] = e2
    BY <2>1
  <2>4. "edges" \in EdgeNames /\ "visits" \in EdgeNames
    BY ExtensionAssumption
  <2>5. \A i \in DOMAIN x : x[i].source_table \in Int /\ x[i].target_table \in Int /\ x[i].name \in EdgeNames
    BY <2>3, <2>4
  <2>. HIDE DEF c2
  <2>. QED  BY <2>1, <2>2, <2>5 DEF CatalogTyped
<1>. HIDE DEF c1, c2
<1>. QED  BY <1>6, <1>7, <1>8, <1>9

\* One session gets another engine.
LEMMA OneEngine ==
  ASSUME Engines, NEW s \in Sessions, NEW e, e = Absent \/ EngineOK(e), engine' = [engine EXCEPT ![s] = e]
  PROVE  Engines'
<1>1. engine' = [r \in Sessions |-> engine'[r]]
  BY DEF Engines
<1>2. \A r \in Sessions : engine'[r] = IF r = s THEN e ELSE engine[r]
  BY DEF Engines
<1>3. \A r \in Sessions : engine'[r] = Absent \/ EngineOK(engine'[r])
  BY <1>2 DEF Engines
<1>. QED  BY <1>1, <1>3 DEF Engines

\* One session or worker has built something, or nothing any more.
LEMMA OneBuilt ==
  ASSUME Building, NEW a \in Actors, NEW b, BuiltOK(b), built' = [built EXCEPT ![a] = b]
  PROVE  Building'
<1>1. built' = [x \in Actors |-> built'[x]]
  BY DEF Building
<1>2. \A x \in Actors : built'[x] = IF x = a THEN b ELSE built[x]
  BY DEF Building
<1>3. \A x \in Actors : BuiltOK(built'[x])
  BY <1>2 DEF Building
<1>. QED  BY <1>1, <1>3 DEF Building

\* What is built of edge rows that make a snapshot.
LEMMA BuildsOK ==
  ASSUME NEW call \in {"graph_build", "graph_rebuild", "graph_maintenance"}, NEW edges \in Seq(EdgeRows), NEW art,
         from_edge_rows(edges).err = "Ok", art = from_edge_rows(edges).val
  PROVE  BuiltOK([call |-> call, edges |-> edges, art |-> art])
<1>1. PICK b : b = [call |-> call, edges |-> edges, art |-> art]
  OBVIOUS
<1>2. b.call = call /\ b.edges = edges /\ b.art = art
  BY <1>1
<1>. QED  BY <1>1, <1>2 DEF BuiltOK

\* What is built is one topology.
LEMMA BuiltArtOK ==
  ASSUME NEW b, b # Absent, BuiltOK(b)
  PROVE  ArtOK(b.art)
BY RowsArtOK DEF BuiltOK

\* The edge rows that a scan returns.
LEMMA ScannedTyped ==
  ASSUME CatalogTyped(catalog), TuplesTyped(tuples), Scanned.err = "Ok"
  PROVE  Scanned.val \in Seq(EdgeRows)
BY ScanTyped DEF Scanned

\* What a build would persist is the artifact of the edge rows.
LEMMA RebuiltIs ==
  ASSUME CatalogTyped(catalog), TuplesTyped(tuples), Rebuilt.err = "Ok"
  PROVE  /\ Scanned.err = "Ok" /\ Scanned.val \in Seq(EdgeRows)
         /\ from_edge_rows(Scanned.val).err = "Ok" /\ Rebuilt.val = from_edge_rows(Scanned.val).val
         /\ ArtOK(Rebuilt.val)
<1>1. PICK loaded, scanned : loaded = from_registration_rows(catalog) /\ scanned = Scanned
  OBVIOUS
<1>2. /\ loaded.err = "Ok" /\ scanned.err = "Ok"
      /\ Rebuilt = from_catalog_and_edges(loaded.val, scanned.val)
  BY <1>1 DEF Rebuilt
<1>3. scanned.val \in Seq(EdgeRows)
  BY <1>1, <1>2, ScannedTyped
<1>4. from_edge_rows(scanned.val).err = "Ok" /\ Rebuilt.val = from_edge_rows(scanned.val).val
  BY <1>2 DEF from_catalog_and_edges, Err
<1>5. ArtOK(Rebuilt.val)
  BY <1>3, <1>4, RowsArtOK
<1>. QED  BY <1>1, <1>2, <1>3, <1>4, <1>5

\* The invariant holds of a database in which a graph was built or not.
LEMMA InitInv ==
  ASSUME Init
  PROVE  ExtensionInv
<1>1. Loadable(catalog) /\ CatalogTyped(catalog)
  BY RegistrationsLoad DEF Init
<1>2. log \in Logs
  <2>1. PICK z : z = log /\ z = << >>
    BY DEF Init
  <2>2. z \in Seq(Entries) /\ Len(z) = 0
    BY <2>1
  <2>3. Grows(z)
    BY <2>2 DEF Grows
  <2>. QED  BY <2>1, <2>2, <2>3 DEF Logs
<1>3. TuplesTyped(tuples)
  <2>1. << >> \in Seq(Int \X Int) /\ Chain \in Seq(Int \X Int)
    BY ExtensionAssumption
  <2>. QED  BY <2>1 DEF Init, TuplesTyped
<1>4. triggers \subseteq EdgeIds
  BY DEF Init, EdgeIds
<1>5. (store = Absent \/ ArtOK(store)) /\ Engines
  <2>1. CASE store = Absent /\ engine = [s \in Sessions |-> Absent]
    BY <2>1 DEF Engines
  <2>2. CASE \E art \in {Rebuilt} : /\ art.err = "Ok" /\ store = art.val
                                    /\ engine = [s \in Sessions |-> build(art.val).val]
    <3>1. PICK a : a = Rebuilt.val /\ ArtOK(a) /\ store = a /\ engine = [s \in Sessions |-> build(a).val]
      BY <1>1, <1>3, <2>2, RebuiltIs
    <3>2. PICK e : e = build(a).val /\ EngineOK(e)
      BY <3>1, BuildOK
    <3>3. engine = [s \in Sessions |-> e]
      BY <3>1, <3>2
    <3>. QED  BY <3>1, <3>2, <3>3 DEF Engines
  <2>. QED  BY <2>1, <2>2 DEF Init
<1>6. Counters
  <2>1. worker \in [Workers -> {"waiting", "awake", "persisting"}]
    BY DEF Init
  <2>. QED  BY <2>1, ExtensionAssumption DEF Init, Counters
<1>7. Building
  BY DEF Init, Building, BuiltOK
<1>. QED  BY <1>1, <1>2, <1>3, <1>4, <1>5, <1>6, <1>7 DEF ExtensionInv, Shared

\* What the pass of a worker or session begins to persist.
LEMMA PassBuilds ==
  ASSUME Shared, NEW a, NEW on, run_maintenance_pass(a, on)
  PROVE  \E b : BuiltOK(b) /\ built' = [built EXCEPT ![a] = b]
<1>1. Rebuilt.err = "Ok" /\ built' = [built EXCEPT ![a] = [call |-> "graph_maintenance", edges |-> Scanned.val, art |-> Rebuilt.val]]
  BY DEF run_maintenance_pass, builds
<1>2. /\ Scanned.val \in Seq(EdgeRows) /\ from_edge_rows(Scanned.val).err = "Ok"
      /\ Rebuilt.val = from_edge_rows(Scanned.val).val
  BY <1>1, RebuiltIs DEF Shared
<1>3. PICK edges, art : edges = Scanned.val /\ art = Rebuilt.val
  OBVIOUS
<1>4. BuiltOK([call |-> "graph_maintenance", edges |-> edges, art |-> art])
  BY <1>2, <1>3, BuildsOK
<1>. QED  BY <1>1, <1>3, <1>4

\* A counted change keeps the counters.
LEMMA ChangedCounts ==
  ASSUME Counters, Changed, worker' = worker, enabled' = enabled, calls' = calls
  PROVE  Counters'
<1>1. changes \in 0 .. MaxChanges /\ changes < MaxChanges /\ changes' = changes + 1 /\ MaxChanges \in Nat
  BY ExtensionAssumption DEF Counters, Changed
<1>2. changes' \in 0 .. MaxChanges
  BY <1>1
<1>. QED  BY <1>2 DEF Counters

\* Registrations and attached triggers keep the invariant.
LEMMA RegisterInv ==
  ASSUME ExtensionInv, Register
  PROVE  ExtensionInv'
<1>1. Shared /\ Engines /\ Building /\ Counters
  BY DEF ExtensionInv
<1>2. from_registration_rows(catalog).val = catalog
  BY <1>1, LoadableLoads DEF Shared, Ok
<1>3. ASSUME Changed, tuples' = tuples, log' = log, store' = store, engine' = engine, worker' = worker,
             enabled' = enabled, built' = built, calls' = calls,
             Loadable(catalog'), CatalogTyped(catalog'), triggers' \subseteq EdgeIds'
      PROVE  ExtensionInv'
  <2>1. Shared'
    BY <1>1, <1>3 DEF Shared
  <2>2. Engines'
    BY <1>1, <1>3 DEF Engines
  <2>3. Counters'
    BY <1>1, <1>3, ChangedCounts
  <2>4. Building'
    BY <1>1, <1>3 DEF Building
  <2>. QED  BY <2>1, <2>2, <2>3, <2>4 DEF ExtensionInv
<1>4. ASSUME catalog'.edges = catalog.edges, triggers' = triggers
      PROVE  CatalogTyped(catalog') /\ triggers' \subseteq EdgeIds'
  BY <1>1, <1>4 DEF Shared, CatalogTyped, EdgeIds
<1>5. CASE RegisterTable
  <2>1. PICK t : add_table(catalog, t).err = "Ok" /\ catalog' = add_table(catalog, t).val
    BY <1>2, <1>5 DEF RegisterTable, register_table, Stored
  <2>2. Loadable(catalog') /\ catalog'.edges = catalog.edges
    BY <1>1, <2>1, RegisterTableLoadable DEF Shared
  <2>3. /\ Changed /\ tuples' = tuples /\ triggers' = triggers /\ log' = log /\ store' = store /\ engine' = engine
        /\ worker' = worker /\ enabled' = enabled /\ built' = built /\ calls' = calls
    BY <1>5 DEF RegisterTable
  <2>. QED  BY <1>3, <1>4, <2>2, <2>3
<1>6. CASE RegisterEdge
  <2>1. PICK source \in TableIds, target \in TableIds, name \in EdgeNames : register_edge(source, target, name)
    BY <1>6 DEF RegisterEdge
  <2>2. PICK x, id : /\ x = [id |-> id, source_table |-> source, target_table |-> target, name |-> name]
                     /\ add_edge_to(catalog, x).err = "Ok" /\ catalog' = add_edge_to(catalog, x).val
    BY <1>2, <2>1 DEF register_edge, Stored
  <2>3. /\ Loadable(catalog')
        /\ \A y : InSeq(y, catalog'.edges) <=> InSeq(y, catalog.edges) \/ y = x
    BY <1>1, <2>2, RegisterEdgeLoadable DEF Shared
  <2>4. source \in Int /\ target \in Int
    <3>1. Cardinality(TableNames) \in Nat
      BY ExtensionAssumption, FS_CardinalityType
    <3>. QED  BY <2>1, <3>1 DEF TableIds
  <2>5. x.source_table \in Int /\ x.target_table \in Int /\ x.name \in EdgeNames
    BY <2>1, <2>2, <2>4
  <2>6. PICK q, p : q = catalog'.edges /\ p = catalog.edges
    OBVIOUS
  <2>7. \A i \in DOMAIN q : q[i] = x \/ \E j \in DOMAIN p : p[j] = q[i]
    BY <2>3, <2>6 DEF InSeq
  <2>8. \A i \in DOMAIN p : p[i].source_table \in Int /\ p[i].target_table \in Int /\ p[i].name \in EdgeNames
    BY <1>1, <2>6 DEF Shared, CatalogTyped
  <2>9. \A i \in DOMAIN q : q[i].source_table \in Int /\ q[i].target_table \in Int /\ q[i].name \in EdgeNames
    BY <2>5, <2>7, <2>8
  <2>10. CatalogTyped(catalog')
    BY <2>3, <2>6, <2>9 DEF CatalogTyped, Loadable
  <2>11. \A j \in DOMAIN p : \E i \in DOMAIN q : q[i] = p[j]
    BY <2>3, <2>6 DEF InSeq
  <2>12. EdgeIds \subseteq EdgeIds'
    BY <2>6, <2>11 DEF EdgeIds
  <2>13. /\ Changed /\ tuples' = tuples /\ triggers' = triggers /\ log' = log /\ store' = store /\ engine' = engine
         /\ worker' = worker /\ enabled' = enabled /\ built' = built /\ calls' = calls
    BY <1>6 DEF RegisterEdge
  <2>14. triggers' \subseteq EdgeIds'
    BY <1>1, <2>12, <2>13 DEF Shared
  <2>. QED  BY <1>3, <2>3, <2>10, <2>13, <2>14
<1>7. CASE RegisterFilter
  <2>1. PICK f : add_filter_column(catalog, f).err = "Ok" /\ catalog' = add_filter_column(catalog, f).val
    BY <1>2, <1>7 DEF RegisterFilter, register_filter_column, Stored
  <2>2. Loadable(catalog') /\ catalog'.edges = catalog.edges
    BY <1>1, <2>1, RegisterFilterLoadable DEF Shared
  <2>3. /\ Changed /\ tuples' = tuples /\ triggers' = triggers /\ log' = log /\ store' = store /\ engine' = engine
        /\ worker' = worker /\ enabled' = enabled /\ built' = built /\ calls' = calls
    BY <1>7 DEF RegisterFilter
  <2>. QED  BY <1>3, <1>4, <2>2, <2>3
<1>8. CASE graph_attach_sync_trigger
  <2>1. PICK i \in DOMAIN catalog.edges : triggers' = triggers \cup {catalog.edges[i].id}
    BY <1>8 DEF graph_attach_sync_trigger
  <2>2. /\ Changed /\ catalog' = catalog /\ tuples' = tuples /\ log' = log /\ store' = store /\ engine' = engine
        /\ worker' = worker /\ enabled' = enabled /\ built' = built /\ calls' = calls
    BY <1>8 DEF graph_attach_sync_trigger
  <2>3. EdgeIds' = EdgeIds /\ catalog.edges[i].id \in EdgeIds
    BY <2>2 DEF EdgeIds
  <2>4. triggers' \subseteq EdgeIds'
    BY <1>1, <2>1, <2>3 DEF Shared
  <2>5. Loadable(catalog') /\ CatalogTyped(catalog')
    BY <1>1, <2>2 DEF Shared
  <2>. QED  BY <1>3, <2>2, <2>4, <2>5
<1>. QED  BY <1>5, <1>6, <1>7, <1>8 DEF Register

\* A change of an edge row, logged by every trigger of its table, keeps it.
LEMMA ChangeInv ==
  ASSUME ExtensionInv, NEW name, NEW row, row[1] \in Int, row[2] \in Int, NEW action \in 1 .. 5,
         Change(name, row, action), TuplesTyped(tuples')
  PROVE  ExtensionInv'
<1>1. Shared /\ Engines /\ Building /\ Counters
  BY DEF ExtensionInv
<1>2. Triggered(name, row, action) \in Logs
  BY <1>1, ChangeLogged DEF Shared
<1>3. /\ Changed /\ log' = Triggered(name, row, action) /\ catalog' = catalog /\ engine' = engine /\ triggers' = triggers
      /\ store' = store /\ worker' = worker /\ enabled' = enabled /\ built' = built /\ calls' = calls
  BY DEF Change
<1>4. log' \in Logs
  BY <1>2, <1>3
<1>5. Shared'
  BY <1>1, <1>3, <1>4 DEF Shared, EdgeIds
<1>6. Engines'
  BY <1>1, <1>3 DEF Engines
<1>7. Counters'
  BY <1>1, <1>3, ChangedCounts
<1>8. Building'
  BY <1>1, <1>3 DEF Building
<1>. QED  BY <1>5, <1>6, <1>7, <1>8 DEF ExtensionInv

\* So do the users' steps, rows logged by hand included.
LEMMA UserInv ==
  ASSUME ExtensionInv, User
  PROVE  ExtensionInv'
<1>1. Shared /\ Engines /\ Building /\ Counters
  BY DEF ExtensionInv
<1>2. TuplesTyped(tuples)
  BY <1>1 DEF Shared
<1>3. CASE InsertRow
  <2>1. PICK name \in EdgeNames, row \in Pairs :
          Change(name, row, InsertEdge) /\ tuples' = [tuples EXCEPT ![name] = Append(@, row)]
    BY <1>3 DEF InsertRow
  <2>2. row \in Int \X Int /\ row[1] \in Int /\ row[2] \in Int
    BY ExtensionAssumption
  <2>3. PICK q : q = Append(tuples[name], row) /\ q \in Seq(Int \X Int)
    <3>1. PICK p, z, X : p = tuples[name] /\ z = row /\ X = Int \X Int
      OBVIOUS
    <3>2. p \in Seq(X) /\ z \in X
      BY <1>2, <2>1, <2>2, <3>1 DEF TuplesTyped
    <3>3. Append(p, z) \in Seq(X)
      BY ONLY <3>2, AppendProperties
    <3>. QED  BY <3>1, <3>3
  <2>4. tuples' = [tuples EXCEPT ![name] = q]
    BY <2>1, <2>3
  <2>5. TuplesTyped(tuples')
    BY <1>2, <2>3, <2>4 DEF TuplesTyped
  <2>6. PICK action \in 1 .. 5 : action = InsertEdge
    BY DEF InsertEdge
  <2>. QED  BY <2>1, <2>2, <2>5, <2>6, ChangeInv
<1>4. CASE DeleteRow
  <2>1. PICK name \in EdgeNames : \E i \in DOMAIN tuples[name] :
          /\ Change(name, tuples[name][i], RemoveOverlayEdge)
          /\ tuples' = [tuples EXCEPT ![name] = RemoveAt(@, i)]
    BY <1>4 DEF DeleteRow
  <2>2. PICK i \in DOMAIN tuples[name] :
          /\ Change(name, tuples[name][i], RemoveOverlayEdge)
          /\ tuples' = [tuples EXCEPT ![name] = RemoveAt(@, i)]
    BY <2>1
  <2>3. PICK p, X : p = tuples[name] /\ X = Int \X Int /\ p \in Seq(X)
    BY <1>2, <2>1 DEF TuplesTyped
  <2>4. PICK row : row = p[i] /\ row[1] \in Int /\ row[2] \in Int
    <3>1. p[i] \in Int \X Int
      BY <2>2, <2>3
    <3>. QED  BY <3>1
  <2>5. PICK q : q = RemoveAt(p, i) /\ q \in Seq(X)
    <3>1. Len(p) \in Nat /\ i \in 1 .. Len(p)
      BY <2>2, <2>3
    <3>2. PICK a, b \in Seq(X) : a = SubSeq(p, 1, i - 1) /\ b = SubSeq(p, i + 1, Len(p))
      <4>1. SubSeq(p, 1, i - 1) \in Seq(X)
        BY <2>3, <3>1
      <4>2. SubSeq(p, i + 1, Len(p)) \in Seq(X)
        <5>1. PICK j, k \in Int : j = i + 1 /\ k = Len(p)
          BY <3>1
        <5>2. \A o \in j .. k : p[o] \in X
          BY <2>3, <3>1, <5>1
        <5>3. SubSeq(p, j, k) \in Seq(X)
          BY ONLY <5>2, j \in Int, k \in Int, SubSeqProperties
        <5>. QED  BY <5>1, <5>3
      <4>. QED  BY <4>1, <4>2
    <3>3. a \o b \in Seq(X)
      BY <3>2
    <3>4. RemoveAt(p, i) = a \o b
      BY <3>2 DEF RemoveAt
    <3>. QED  BY <3>3, <3>4
  <2>6. tuples' = [tuples EXCEPT ![name] = q]
    BY <2>2, <2>3, <2>5
  <2>7. TuplesTyped(tuples')
    BY <1>2, <2>3, <2>5, <2>6 DEF TuplesTyped
  <2>8. PICK action \in 1 .. 5 : action = RemoveOverlayEdge
    BY DEF RemoveOverlayEdge
  <2>9. Change(name, row, action)
    BY <2>2, <2>3, <2>4, <2>8
  <2>. QED  BY <2>4, <2>7, <2>9, ChangeInv
<1>5. CASE LogByHand
  <2>1. PICK a \in ByHand :
          log' = Append(log, [sequence |-> NextSequence(log), action |-> a.action, arg0 |-> a.arg0, arg1 |-> Absent])
    BY <1>5 DEF LogByHand
  <2>2. a.action \in 1 .. 5 /\ a.arg0 \in Int \cup {Absent}
    BY DEF ByHand, DeleteEdge, DeleteNode, TruncateOverlays, InsertEdge
  <2>3. log \in Logs
    BY <1>1 DEF Shared
  <2>4. PICK n \in Nat : n = NextSequence(log)
    BY <2>3, NextIsNat
  <2>5. PICK x \in Entries : x = [sequence |-> n, action |-> a.action, arg0 |-> a.arg0, arg1 |-> Absent]
    BY <2>2 DEF Entries
  <2>6. x.sequence = NextSequence(log)
    BY <2>4, <2>5
  <2>7. Append(log, x) \in Logs
    BY <2>3, <2>6, LogAppend
  <2>8. log' \in Logs
    BY <2>1, <2>4, <2>5, <2>7
  <2>9. /\ Changed /\ catalog' = catalog /\ tuples' = tuples /\ triggers' = triggers /\ store' = store /\ engine' = engine
        /\ worker' = worker /\ enabled' = enabled /\ built' = built /\ calls' = calls
    BY <1>5 DEF LogByHand
  <2>10. Shared'
    BY <1>1, <2>8, <2>9 DEF Shared, EdgeIds
  <2>11. Engines'
    BY <1>1, <2>9 DEF Engines
  <2>12. Counters'
    BY <1>1, <2>9, ChangedCounts
  <2>13. Building'
    BY <1>1, <2>9 DEF Building
  <2>. QED  BY <2>10, <2>11, <2>12, <2>13 DEF ExtensionInv
<1>. QED  BY <1>3, <1>4, <1>5 DEF User

\* What a reload does to the session's engine.
LEMMA ReloadIs ==
  ASSUME ExtensionInv, NEW s \in Sessions, graph_sync_reload(s)
  PROVE  /\ EngineOK(engine[s]) /\ Scanned.val \in Seq(EdgeRows) /\ resolve_sync_rows(Scanned.val, log).err = "Ok"
         /\ engine' = [engine EXCEPT ![s] = apply_sync_rows(engine[s], resolve_sync_rows(Scanned.val, log).val)]
<1>1. /\ load_sync_rows.err = "Ok"
      /\ engine' = [engine EXCEPT ![s] = apply_sync_rows(engine[s], load_sync_rows.val)]
      /\ engine[s] # Absent
  BY DEF graph_sync_reload
<1>2. EngineOK(engine[s])
  BY <1>1 DEF ExtensionInv, Engines
<1>3. Scanned.err = "Ok" /\ load_sync_rows = resolve_sync_rows(Scanned.val, log)
  BY <1>1 DEF load_sync_rows
<1>4. Scanned.val \in Seq(EdgeRows)
  BY <1>3, ScannedTyped DEF ExtensionInv, Shared
<1>. QED  BY <1>1, <1>2, <1>3, <1>4

\* Every step of a session gives it an engine whose caches match, and what it builds and persists
\* is one topology.
LEMMA SessionInv ==
  ASSUME ExtensionInv, NEW s \in Sessions, Session(s)
  PROVE  ExtensionInv'
<1>1. Shared /\ Engines /\ Building /\ Counters
  BY DEF ExtensionInv
<1>2. Elsewhere /\ (Starts(s) \/ calls' = calls)
  <2>1. Call(s) => Elsewhere /\ Starts(s)
    BY DEF Call
  <2>2. CASE Persist(s) \/ Fail(s)
    BY <2>2 DEF Persist, Fail, Finishes
  <2>3. CASE graph_build(s) \/ graph_rebuild(s)
    BY <2>3 DEF graph_build, graph_rebuild
  <2>4. CASE graph_maintenance(s)
    BY <2>1, <2>4 DEF graph_maintenance
  <2>5. CASE graph_reset(s) \/ graph_load_snapshot(s) \/ graph_load_persisted(s) \/ graph_sync_reload(s)
               \/ graph_traverse(s)
    BY <2>1, <2>5 DEF graph_reset, graph_load_snapshot, graph_load_persisted, graph_sync_reload, graph_traverse
  <2>. QED  BY <2>2, <2>3, <2>4, <2>5 DEF Session
<1>3. /\ catalog' = catalog /\ tuples' = tuples /\ triggers' = triggers /\ log' = log /\ worker' = worker
      /\ enabled' = enabled /\ changes' = changes
      /\ calls' = calls \/ (calls < MaxCalls /\ calls' = calls + 1)
  BY <1>2 DEF Elsewhere, Starts
<1>4. Counters'
  <2>1. calls \in 0 .. MaxCalls /\ MaxCalls \in Nat
    BY <1>1, ExtensionAssumption DEF Counters
  <2>2. calls' \in 0 .. MaxCalls
    BY <1>3, <2>1
  <2>. QED  BY <1>1, <1>3, <2>2 DEF Counters
<1>5. engine[s] = Absent \/ EngineOK(engine[s])
  BY <1>1 DEF Engines
<1>6. store = Absent \/ ArtOK(store)
  BY <1>1 DEF Shared
<1>7. s \in Actors /\ BuiltOK(built[s]) /\ engine = [engine EXCEPT ![s] = engine[s]]
  BY <1>1 DEF Actors, Building, Engines
<1>a. engine' = engine => \E e : (e = Absent \/ EngineOK(e)) /\ engine' = [engine EXCEPT ![s] = e]
  BY <1>5, <1>7
<1>b. Call(s) => built' = built
  BY DEF Call
<1>8. /\ \E e : (e = Absent \/ EngineOK(e)) /\ engine' = [engine EXCEPT ![s] = e]
      /\ store' = Absent \/ ArtOK(store')
      /\ built' = built \/ \E b : BuiltOK(b) /\ built' = [built EXCEPT ![s] = b]
  <2>1. ASSUME NEW art, ArtOK(art), load(s, art)
        PROVE  \E e : (e = Absent \/ EngineOK(e)) /\ engine' = [engine EXCEPT ![s] = e]
    BY <2>1, BuildOK DEF load
  <2>2. CASE graph_reset(s)
    BY <1>6, <1>b, <2>2 DEF graph_reset
  <2>3. CASE graph_load_snapshot(s)
    <3>1. PICK art \in Uploads : load(s, art)
      BY <2>3 DEF graph_load_snapshot
    <3>2. open(art).err = "Ok"
      BY <3>1 DEF load, build
    <3>3. ArtOK(art)
      BY <3>2, UploadsOK
    <3>4. store' = store /\ built' = built
      BY <1>b, <2>3 DEF graph_load_snapshot
    <3>. QED  BY <1>6, <2>1, <3>1, <3>3, <3>4
  <2>4. CASE graph_load_persisted(s)
    <3>1. store # Absent /\ load(s, store) /\ store' = store /\ built' = built
      BY <1>b, <2>4 DEF graph_load_persisted
    <3>. QED  BY <1>6, <2>1, <3>1
  <2>5. CASE graph_build(s)
    <3>1. /\ Rebuilt.err = "Ok" /\ store' = store /\ engine' = engine
          /\ built' = [built EXCEPT ![s] = [call |-> "graph_build", edges |-> Scanned.val, art |-> Rebuilt.val]]
      BY <2>5 DEF graph_build, builds
    <3>2. /\ Scanned.val \in Seq(EdgeRows) /\ from_edge_rows(Scanned.val).err = "Ok"
          /\ Rebuilt.val = from_edge_rows(Scanned.val).val
      BY <1>1, <3>1, RebuiltIs DEF Shared
    <3>3. PICK edges, art : edges = Scanned.val /\ art = Rebuilt.val
      OBVIOUS
    <3>4. BuiltOK([call |-> "graph_build", edges |-> edges, art |-> art])
      BY <3>2, <3>3, BuildsOK
    <3>. QED  BY <1>6, <1>a, <3>1, <3>3, <3>4
  <2>6. CASE graph_rebuild(s)
    <3>1. PICK m \in BOOLEAN :
            /\ Scanned.err = "Ok"
            /\ \E e \in {rebuild_from_catalog(engine[s], from_registration_rows(catalog).val, Scanned.val, m)} :
                 /\ e.err = "Ok" /\ engine' = [engine EXCEPT ![s] = e.val]
                 /\ builds(s, "graph_rebuild", Scanned.val, e.val.art)
      BY <2>6 DEF graph_rebuild
    <3>2. PICK c, edges, e : /\ c = from_registration_rows(catalog).val /\ edges = Scanned.val
                             /\ e = rebuild_from_catalog(engine[s], c, edges, m)
                             /\ e.err = "Ok" /\ engine' = [engine EXCEPT ![s] = e.val]
                             /\ builds(s, "graph_rebuild", edges, e.val.art)
      BY <3>1
    <3>3. EngineOK(engine[s]) /\ store' = store
      BY <1>5, <2>6 DEF graph_rebuild
    <3>4. edges \in Seq(EdgeRows)
      BY <1>1, <3>1, <3>2, ScannedTyped DEF Shared
    <3>5. EngineOK(e.val) /\ from_edge_rows(edges).err = "Ok" /\ e.val.art = from_edge_rows(edges).val
      BY <3>2, <3>3, <3>4, RebuildOK
    <3>6. PICK art : art = e.val.art
      OBVIOUS
    <3>7. BuiltOK([call |-> "graph_rebuild", edges |-> edges, art |-> art])
      BY <3>4, <3>5, <3>6, BuildsOK
    <3>8. built' = [built EXCEPT ![s] = [call |-> "graph_rebuild", edges |-> edges, art |-> art]]
      BY <3>2, <3>6 DEF builds
    <3>. QED  BY <1>6, <3>2, <3>3, <3>5, <3>7, <3>8
  <2>7. CASE graph_sync_reload(s)
    <3>1. /\ EngineOK(engine[s]) /\ Scanned.val \in Seq(EdgeRows) /\ resolve_sync_rows(Scanned.val, log).err = "Ok"
          /\ engine' = [engine EXCEPT ![s] = apply_sync_rows(engine[s], resolve_sync_rows(Scanned.val, log).val)]
      BY <2>7, ReloadIs
    <3>2. log \in Logs /\ log \in Seq(Entries)
      BY <1>1 DEF Shared, Logs
    <3>3. PICK map, rows, n : /\ rows = resolve_sync_rows(Scanned.val, log).val /\ n = Len(log)
                              /\ ResolvedAs(rows, map, log, n)
      BY <3>1, <3>2, ResolvedIs
    <3>4. EngineOK(apply_sync_rows(engine[s], rows))
      BY <3>1, <3>2, <3>3, ReplayOK
    <3>5. store' = store /\ built' = built
      BY <1>b, <2>7 DEF graph_sync_reload
    <3>. QED  BY <1>6, <3>1, <3>3, <3>4, <3>5
  <2>8. CASE graph_traverse(s)
    <3>1. PICK needs_unique : engine' = [engine EXCEPT ![s] = traverse_workspace_mut(engine[s], needs_unique)]
      BY <2>8 DEF graph_traverse
    <3>2. EngineOK(engine[s]) /\ store' = store /\ built' = built
      BY <1>5, <1>b, <2>8 DEF graph_traverse
    <3>. QED  BY <1>6, <3>1, <3>2, TraverseOK
  <2>9. CASE graph_maintenance(s)
    <3>1. CASE \E on : run_maintenance_pass(s, on) /\ store' = store /\ engine' = engine
      BY <1>1, <1>6, <1>a, <3>1, PassBuilds
    <3>2. CASE store # Absent /\ Call(s) /\ load(s, store) /\ store' = store
      BY <1>6, <1>b, <2>1, <3>2
    <3>. QED  BY <2>9, <3>1, <3>2 DEF graph_maintenance
  <2>10. CASE Persist(s)
    <3>1. /\ built[s] # Absent /\ built' = [built EXCEPT ![s] = Absent] /\ store' = built[s].art
          /\ engine' = engine \/ load(s, built[s].art)
      BY <2>10 DEF Persist, Finishes, persist_snapshot_bytes
    <3>2. PICK art : art = built[s].art /\ ArtOK(art)
      BY <1>7, <3>1, BuiltArtOK
    <3>3. BuiltOK(Absent)
      BY DEF BuiltOK
    <3>. QED  BY <1>a, <2>1, <3>1, <3>2, <3>3
  <2>11. CASE Fail(s)
    <3>1. /\ built' = [built EXCEPT ![s] = Absent] /\ store' = store
          /\ engine' = engine \/ (store # Absent /\ load(s, store))
      BY <2>11 DEF Fail, Finishes
    <3>2. BuiltOK(Absent)
      BY DEF BuiltOK
    <3>. QED  BY <1>6, <1>a, <2>1, <3>1, <3>2
  <2>. QED  BY <2>2, <2>3, <2>4, <2>5, <2>6, <2>7, <2>8, <2>9, <2>10, <2>11 DEF Session
<1>9. Engines'
  BY <1>1, <1>8, OneEngine
<1>10. Shared'
  BY <1>1, <1>3, <1>8 DEF Shared, EdgeIds
<1>11. Building'
  <2>1. CASE built' = built
    BY <1>1, <2>1 DEF Building
  <2>. QED  BY <1>1, <1>7, <1>8, <2>1, OneBuilt
<1>. QED  BY <1>4, <1>9, <1>10, <1>11 DEF ExtensionInv

\* So does every step of a worker.
LEMMA WorkerInv ==
  ASSUME ExtensionInv, NEW w \in Workers, Worker(w)
  PROVE  ExtensionInv'
<1>1. Shared /\ Engines /\ Building /\ Counters
  BY DEF ExtensionInv
<1>2. /\ catalog' = catalog /\ tuples' = tuples /\ triggers' = triggers /\ log' = log /\ engine' = engine
      /\ calls' = calls
  BY DEF Worker, Wake, Pass, PassPersists, PassFails, Restart, Finishes
<1>3. w \in Actors /\ BuiltOK(built[w]) /\ BuiltOK(Absent)
  BY <1>1 DEF Actors, Building, BuiltOK
<1>4. /\ store' = store \/ (built[w] # Absent /\ store' = built[w].art)
      /\ built' = built \/ (\E b : BuiltOK(b) /\ built' = [built EXCEPT ![w] = b])
  <2>1. CASE Wake(w)
    BY <2>1 DEF Wake
  <2>2. CASE Pass(w)
    BY <1>1, <2>2, PassBuilds DEF Pass
  <2>3. CASE PassPersists(w)
    BY <1>3, <2>3 DEF PassPersists, Finishes, persist_snapshot_bytes
  <2>4. CASE PassFails(w)
    BY <1>3, <2>4 DEF PassFails, Finishes
  <2>5. CASE Restart(w)
    BY <1>3, <2>5 DEF Restart
  <2>. QED  BY <2>1, <2>2, <2>3, <2>4, <2>5 DEF Worker
<1>5. Counters'
  <2>1. \E state \in {"waiting", "awake", "persisting"} : worker' = [worker EXCEPT ![w] = state]
    BY DEF Worker, Wake, Pass, PassPersists, PassFails, Restart, Becomes
  <2>2. worker' \in [Workers -> {"waiting", "awake", "persisting"}]
    BY <1>1, <2>1 DEF Counters
  <2>3. enabled' = enabled \/ \E setting \in BOOLEAN : enabled' = [enabled EXCEPT ![w] = setting]
    BY DEF Worker, Wake, Pass, PassPersists, PassFails, Restart
  <2>4. enabled' \in [Workers -> BOOLEAN]
    BY <1>1, <2>3 DEF Counters
  <2>5. changes' = changes \/ (changes < MaxChanges /\ changes' = changes + 1)
    BY DEF Worker, Wake, Pass, PassPersists, PassFails, Restart, Changed
  <2>6. changes \in 0 .. MaxChanges /\ MaxChanges \in Nat
    BY <1>1, ExtensionAssumption DEF Counters
  <2>7. changes' \in 0 .. MaxChanges
    BY <2>5, <2>6
  <2>. QED  BY <1>1, <1>2, <2>2, <2>4, <2>7 DEF Counters
<1>6. Engines'
  BY <1>1, <1>2 DEF Engines
<1>7. store' = Absent \/ ArtOK(store')
  BY <1>1, <1>3, <1>4, BuiltArtOK DEF Shared
<1>8. Shared'
  BY <1>1, <1>2, <1>7 DEF Shared, EdgeIds
<1>9. Building'
  <2>1. CASE built' = built
    BY <1>1, <2>1 DEF Building
  <2>. QED  BY <1>1, <1>3, <1>4, <2>1, OneBuilt
<1>. QED  BY <1>5, <1>6, <1>8, <1>9 DEF ExtensionInv

\* Every step keeps the invariant.
LEMMA NextInv ==
  ASSUME ExtensionInv, [Next]_vars
  PROVE  ExtensionInv'
<1>1. CASE Register
  BY <1>1, RegisterInv
<1>2. CASE User
  BY <1>2, UserInv
<1>3. CASE \E w \in Workers : Worker(w)
  BY <1>3, WorkerInv
<1>4. CASE \E s \in Sessions : Session(s)
  BY <1>4, SessionInv
<1>5. CASE UNCHANGED vars
  BY <1>5 DEF vars, ExtensionInv, Shared, EdgeIds, Engines, Building, Counters
<1>. QED  BY <1>1, <1>2, <1>3, <1>4, <1>5 DEF Next

\* The invariant holds throughout.
LEMMA Invariant == Spec => []ExtensionInv
<1>1. Init => ExtensionInv
  BY InitInv
<1>2. ExtensionInv /\ [Next]_vars => ExtensionInv'
  BY NextInv
<1>. QED  BY <1>1, <1>2, PTL DEF Spec

-----------------------------------------------------------------------------
(* Theorems *)

\* For any number of sessions, tables and calls: the unique rows a session keeps are those of the
\* artifact it runs over, and the overlay's adjacency by source and by target lists exactly its
\* inserted edges, in order, after every load, rebuild, replay and traversal.
THEOREM CachesFresh == Spec => []CachesMatch
<1>1. ExtensionInv => CachesMatch
  <2>1. SUFFICES ASSUME ExtensionInv PROVE UniqueFresh /\ IndexesMatch
    BY DEF CachesMatch
  <2>2. \A s \in Loaded : s \in Sessions /\ EngineOK(engine[s])
    BY <2>1 DEF ExtensionInv, Engines, Loaded
  <2>3. UniqueFresh
    BY <2>2 DEF UniqueFresh, EngineOK
  <2>4. ASSUME NEW s \in Loaded PROVE Adjacent(engine[s].overlay)
    BY <2>2 DEF EngineOK, Matched
  <2>5. IndexesMatch
    BY <2>4 DEF IndexesMatch, Adjacent
  <2>. QED  BY <2>3, <2>5
<1>. QED  BY <1>1, Invariant, PTL

\* Whatever sessions, users and the maintenance worker do and in whatever order, everything they
\* share can be read back: load_catalog_from_spi gets the registered rows through the checks they
\* were stored under, GraphTopology::open takes the stored snapshot whoever persisted it, the
\* sequences of the sync log grow so that no replay stops half-way, and the ids that replays put
\* into an overlay fit the width.
THEOREM StoredReadable == Spec => []StoredLoads
<1>1. ExtensionInv => StoredLoads
  <2>1. SUFFICES ASSUME ExtensionInv PROVE CatalogLoads /\ StoreOpens /\ TypeOK
    BY DEF StoredLoads
  <2>2. Shared /\ Engines /\ Building /\ Counters
    BY <2>1 DEF ExtensionInv
  <2>3. CatalogLoads
    BY <2>2, LoadableLoads DEF Shared, CatalogLoads
  <2>4. StoreOpens
    BY <2>2, ArtOpens DEF Shared, StoreOpens
  <2>5. \A s \in Loaded : EngineOK(engine[s])
    BY <2>2 DEF Engines, Loaded
  <2>6. ASSUME NEW s \in Loaded
        PROVE  /\ Elems(engine[s].overlay.added_edges) \subseteq Ids \X Ids
               /\ engine[s].unique_built \in BOOLEAN /\ engine[s].scratch \in Nat
    <3>1. EngineOK(engine[s])
      BY <2>5
    <3>2. engine[s].art.metadata.node_count \in Nat
      BY <3>1, ArtOpens DEF EngineOK
    <3>. QED  BY <3>1, <3>2 DEF EngineOK
  <2>7. \A i \in DOMAIN log : log[i].action \in 1 .. 5 /\ (i > 1 => log[i].sequence > log[i - 1].sequence)
    <3>1. log \in Seq(Entries) /\ Grows(log)
      BY <2>2 DEF Shared, Logs
    <3>2. PICK n \in Nat : n = Len(log) /\ DOMAIN log = 1 .. n
      BY <3>1
    <3>3. \A i \in 1 .. n : log[i].action \in 1 .. 5 /\ log[i].sequence \in Nat
      <4>1. \A i \in 1 .. n : log[i] \in Entries
        BY <3>1, <3>2
      <4>. QED  BY <4>1 DEF Entries
    <3>4. \A i \in 1 .. n : i > 1 => i \in 2 .. n /\ i - 1 \in 1 .. n
      OBVIOUS
    <3>5. \A i \in 2 .. n : log[i - 1].sequence < log[i].sequence
      BY <3>1, <3>2 DEF Grows
    <3>. QED  BY <3>2, <3>3, <3>4, <3>5
  <2>8. TypeOK
    <3>1. \A a \in Actors :
            built[a] = Absent \/ built[a].call \in {"graph_build", "graph_rebuild", "graph_maintenance"}
      BY <2>2 DEF Building, BuiltOK
    <3>. QED  BY <2>2, <2>6, <2>7, <3>1 DEF TypeOK, Shared, EdgeIds, Counters
  <2>. QED  BY <2>3, <2>4, <2>8
<1>. QED  BY <1>1, Invariant, PTL

-----------------------------------------------------------------------------
(* Replay *)

\* After a replay the overlay has a pair if and only if the log's last word on it is its insertion.
LEMMA ReplayFollows ==
  ASSUME log \in Logs, NEW keys, keys \subseteq Int, IsFiniteSet(keys), NEW map, map = dense_node_map_from_keys(keys),
         DOMAIN map = keys, NEW n \in Nat, n = Len(log), NEW rows, ResolvedAs(rows, map, log, n),
         NEW S, NEW b, NEW o, Replay(b, S, n, rows, o), \A k \in 1 .. n : rows[k].arg0 \in S /\ rows[k].arg1 \in S
  PROVE  ReplayHolds(b[n], map)
<1>1. DOMAIN log = 1 .. n /\ \A k \in 1 .. n : log[k].action \in 1 .. 5
  <2>1. log \in Seq(Entries)
    BY DEF Logs
  <2>2. DOMAIN log = 1 .. n /\ \A k \in 1 .. n : log[k] \in Entries
    BY <2>1
  <2>. QED  BY <2>2 DEF Entries
<1>2. SUFFICES ASSUME NEW i \in 1 .. n, LastWord(i)
               PROVE  InSeq(<<map[log[i].arg0], map[log[i].arg1]>>, b[n].added_edges) <=> log[i].action = InsertEdge
  BY <1>1 DEF ReplayHolds
<1>3. carries_node_keys(log[i].action)
  BY <1>2 DEF LastWord
<1>4. PICK p : p = <<map[log[i].arg0], map[log[i].arg1]>> /\ p = <<rows[i].arg0, rows[i].arg1>>
  BY <1>3 DEF ResolvedAs
<1>5. /\ InsertEdge = 1 /\ DeleteEdge = 2 /\ DeleteNode = 3 /\ TruncateOverlays = 4 /\ RemoveOverlayEdge = 5
  BY DEF InsertEdge, DeleteEdge, DeleteNode, TruncateOverlays, RemoveOverlayEdge
<1>. DEFINE Has(k) == InSeq(p, b[k].added_edges)
<1>6. ASSUME NEW k \in 1 .. n
      PROVE  /\ log[k].action = InsertEdge => (Has(k) <=> Has(k - 1) \/ p = <<rows[k].arg0, rows[k].arg1>>)
             /\ log[k].action = RemoveOverlayEdge => (Has(k) <=> Has(k - 1) /\ p # <<rows[k].arg0, rows[k].arg1>>)
             /\ log[k].action \in {DeleteEdge, DeleteNode} => (Has(k) <=> Has(k - 1))
  <2>1. k - 1 \in 0 .. n
    OBVIOUS
  <2>2. PICK q, row : q = b[k - 1] /\ row = rows[k] /\ q \in Matched(S) /\ row.arg0 \in S /\ row.arg1 \in S
    BY <2>1 DEF Replay
  <2>3. b[k] = apply_to(row, q) /\ row.action = log[k].action
    BY <2>2 DEF Replay, ResolvedAs
  <2>4. /\ row.action = InsertEdge => (InSeq(p, b[k].added_edges) <=> InSeq(p, q.added_edges) \/ p = <<row.arg0, row.arg1>>)
        /\ row.action = RemoveOverlayEdge =>
             (InSeq(p, b[k].added_edges) <=> InSeq(p, q.added_edges) /\ p # <<row.arg0, row.arg1>>)
        /\ row.action \in {DeleteEdge, DeleteNode} => b[k].added_edges = q.added_edges
    BY <2>2, <2>3, ApplyMembers
  <2>. QED  BY <2>2, <2>3, <2>4
<1>7. Has(i) <=> log[i].action = InsertEdge
  <2>1. log[i].action = InsertEdge \/ log[i].action = RemoveOverlayEdge
    BY <1>3 DEF carries_node_keys
  <2>. HIDE DEF Has
  <2>. QED  BY <1>4, <1>5, <1>6, <2>1
<1>8. ASSUME NEW k \in 1 .. n, k > i PROVE Has(k) <=> Has(k - 1)
  <2>1. k \in (i + 1) .. Len(log)
    BY <1>8
  <2>2. /\ log[k].action # TruncateOverlays
        /\ ~(carries_node_keys(log[k].action) /\ log[k].arg0 = log[i].arg0 /\ log[k].arg1 = log[i].arg1)
    BY <1>2, <2>1 DEF LastWord
  <2>3. log[k].action \in 1 .. 5
    BY <1>1
  <2>4. CASE carries_node_keys(log[k].action)
    <3>1. PICK x, y, v, w : x = log[i].arg0 /\ y = log[i].arg1 /\ v = log[k].arg0 /\ w = log[k].arg1
      OBVIOUS
    <3>2. x \in keys /\ y \in keys /\ v \in keys /\ w \in keys
      BY <1>3, <2>4, <3>1 DEF ResolvedAs
    <3>3. rows[k].arg0 = map[v] /\ rows[k].arg1 = map[w]
      BY <2>4, <3>1 DEF ResolvedAs
    <3>4. <<map[x], map[y]>> # <<map[v], map[w]>>
      <4>1. ASSUME <<map[x], map[y]>> = <<map[v], map[w]>> PROVE FALSE
        <5>1. map[x] = map[v] /\ map[y] = map[w]
          BY ONLY <4>1
        <5>2. keys \subseteq Int /\ IsFiniteSet(keys) /\ map = dense_node_map_from_keys(keys)
          OBVIOUS
        <5>3. x = v /\ y = w
          BY ONLY <3>2, <5>1, <5>2, DenseInjective
        <5>. QED  BY <2>2, <2>4, <3>1, <5>3
      <4>. QED  BY <4>1
    <3>5. p # <<rows[k].arg0, rows[k].arg1>>
      BY <1>4, <3>1, <3>3, <3>4
    <3>6. log[k].action = InsertEdge \/ log[k].action = RemoveOverlayEdge
      BY <2>4 DEF carries_node_keys
    <3>. HIDE DEF Has
    <3>. QED  BY <1>6, <3>5, <3>6
  <2>5. CASE ~carries_node_keys(log[k].action)
    <3>1. log[k].action \in {DeleteEdge, DeleteNode}
      BY <1>5, <2>2, <2>3, <2>5 DEF carries_node_keys
    <3>. HIDE DEF Has
    <3>. QED  BY <1>6, <3>1
  <2>. QED  BY <2>4, <2>5
<1>. DEFINE T == {k \in 0 .. n : k >= i => (Has(k) <=> Has(i))}
<1>9. 0 \in T
  <2>. HIDE DEF Has
  <2>. QED  OBVIOUS
<1>10. \A k \in 1 .. n : k - 1 \in T => k \in T
  <2>. HIDE DEF Has
  <2>1. SUFFICES ASSUME NEW k \in 1 .. n, k - 1 \in T PROVE k \in T
    OBVIOUS
  <2>2. CASE k > i
    <3>1. k - 1 >= i
      BY <2>2
    <3>2. Has(k - 1) <=> Has(i)
      BY <2>1, <3>1
    <3>. QED  BY <1>8, <2>2, <3>2
  <2>3. CASE k = i
    BY <2>3
  <2>4. CASE k < i
    BY <2>4
  <2>. QED  BY <2>2, <2>3, <2>4
<1>11. n \in T
  <2>. HIDE DEF T
  <2>1. \A k \in 0 .. n : k \in T
    BY <1>9, <1>10, AllUpTo
  <2>. QED  BY <2>1
<1>12. Has(n) <=> Has(i)
  <2>. HIDE DEF Has
  <2>. QED  BY <1>11
<1>. QED  BY <1>4, <1>7, <1>12

\* What a reload leaves: the overlay of the whole log, over the artifact as it was.
LEMMA ReloadHolds ==
  ASSUME ExtensionInv, NEW s \in Sessions, graph_sync_reload(s), NEW map,
         map = dense_node_map_for_sync_resolution(Scanned.val, log)
  PROVE  /\ ReplayHolds(engine'[s].overlay, map) /\ EngineOK(engine'[s])
         /\ IsFiniteSet(DOMAIN map) /\ DOMAIN map \subseteq Int /\ map = dense_node_map_from_keys(DOMAIN map)
         /\ \A i \in DOMAIN log : carries_node_keys(log[i].action) =>
              /\ log[i].arg0 \in DOMAIN map /\ log[i].arg1 \in DOMAIN map
              /\ map[log[i].arg0] \in Ids /\ map[log[i].arg1] \in Ids
<1>1. log \in Logs /\ log \in Seq(Entries)
  BY DEF ExtensionInv, Shared, Logs
<1>2. PICK edges, e, rows : /\ edges = Scanned.val /\ e = engine[s] /\ rows = resolve_sync_rows(edges, log).val
                            /\ EngineOK(e) /\ edges \in Seq(EdgeRows) /\ resolve_sync_rows(edges, log).err = "Ok"
                            /\ engine' = [engine EXCEPT ![s] = apply_sync_rows(e, rows)]
  BY ReloadIs
<1>3. PICK n \in Nat : n = Len(log) /\ DOMAIN log = 1 .. n
  BY <1>1
<1>4. PICK keys : /\ keys = SyncKeys(edges, log) /\ keys \subseteq Int /\ IsFiniteSet(keys)
  BY <1>1, <1>2, SyncKeysAre
<1>5. map = dense_node_map_from_keys(keys) /\ DOMAIN map = keys /\ ResolvedAs(rows, map, log, n)
  BY <1>1, <1>2, <1>3, <1>4, ResolvedIs
<1>6. PICK S, b : /\ Replay(b, S, n, rows, e.overlay)
                  /\ \A k \in 1 .. n : rows[k].arg0 \in S /\ rows[k].arg1 \in S
                  /\ apply_sync_rows(e, rows) = [e EXCEPT !.overlay = b[n]]
  BY <1>1, <1>2, <1>3, <1>5, Replayed
<1>7. ReplayHolds(b[n], map)
  BY <1>1, <1>3, <1>4, <1>5, <1>6, ReplayFollows
<1>8. engine'[s] = apply_sync_rows(e, rows)
  BY <1>2 DEF ExtensionInv, Engines
<1>9. PICK o, d : o = b[n] /\ d = engine'[s] /\ d = [e EXCEPT !.overlay = o]
  BY <1>6, <1>8
<1>10. d.overlay = o
  <2>1. PICK a, x, q, c, z : e = [art |-> a, overlay |-> x, unique |-> q, unique_built |-> c, scratch |-> z]
    BY <1>2 DEF EngineOK
  <2>. QED  BY <1>9, <2>1
<1>11. EngineOK(apply_sync_rows(e, rows))
  BY <1>1, <1>2, <1>3, <1>5, ReplayOK
<1>12. ASSUME NEW i \in 1 .. n, carries_node_keys(log[i].action)
       PROVE  /\ log[i].arg0 \in keys /\ log[i].arg1 \in keys
              /\ map[log[i].arg0] \in Ids /\ map[log[i].arg1] \in Ids
  BY <1>5, <1>12 DEF ResolvedAs
<1>. QED  BY <1>3, <1>4, <1>5, <1>7, <1>8, <1>9, <1>10, <1>11, <1>12

-----------------------------------------------------------------------------
(* What a query sees of the inserted edges *)

\* An edge leads from u to v, seen from one end.
Joined(s, near, far, u, v) == \E i \in DOMAIN s : s[i][near] = u /\ s[i][far] = v

\* The far ends of u are those of the edges that have u at the near end.
LEMMA FarEndsHas ==
  ASSUME NEW S, NEW s \in Seq(S \X S), NEW near, NEW far, far = 1 \/ far = 2, NEW u
  PROVE  /\ FarEnds(s, near, far, u) \in Seq(S)
         /\ \A v : InSeq(v, FarEnds(s, near, far, u)) <=> Joined(s, near, far, u, v)
<1>1. PICK b : EndsTable(b, S, s, near, far, u)
  BY FarEndsIs
<1>2. PICK n \in Nat : n = Len(s) /\ DOMAIN s = 1 .. n
  OBVIOUS
<1>3. /\ b \in [0 .. n -> Seq(S)] /\ b[0] = << >>
      /\ \A k \in 1 .. n : b[k] = IF s[k][near] = u THEN Append(b[k - 1], s[k][far]) ELSE b[k - 1]
  BY <1>1, <1>2 DEF EndsTable
<1>4. FarEnds(s, near, far, u) = b[n]
  BY <1>1, <1>2, FarEndsAt
<1>5. \A k \in 1 .. n : s[k][far] \in S
  <2>1. \A k \in 1 .. n : s[k] \in S \X S
    BY <1>2
  <2>. QED  BY <2>1
<1>6. b[n] \in Seq(S)
  BY <1>3
<1>7. ASSUME NEW v PROVE InSeq(v, b[n]) <=> \E i \in 1 .. n : s[i][near] = u /\ s[i][far] = v
  <2>. DEFINE Has(k) == InSeq(v, b[k])
              Some(k) == \E i \in 1 .. k : s[i][near] = u /\ s[i][far] = v
              T == {k \in 0 .. n : Has(k) <=> Some(k)}
  <2>1. 0 \in T
    <3>1. ~Some(0)
      OBVIOUS
    <3>2. ~Has(0)
      <4>1. PICK z : z = b[0] /\ z = << >>
        BY <1>3
      <4>2. DOMAIN z = {}
        BY <4>1
      <4>. QED  BY <4>1, <4>2 DEF InSeq
    <3>. HIDE DEF Has, Some
    <3>. QED  BY <3>1, <3>2
  <2>2. ASSUME NEW k \in 1 .. n, k - 1 \in T PROVE k \in T
    <3>1. PICK j : j = k - 1 /\ j \in 0 .. n /\ k \in 0 .. n
      OBVIOUS
    <3>2. PICK q : q = b[j] /\ q \in Seq(S)
      BY <1>3, <3>1
    <3>3. PICK x \in S : x = s[k][far]
      BY <1>5
    <3>4. Some(k) <=> Some(j) \/ (s[k][near] = u /\ x = v)
      <4>1. \A i : i \in 1 .. k <=> i \in 1 .. j \/ i = k
        BY <3>1
      <4>. QED  BY <3>3, <4>1
    <3>5. b[k] = IF s[k][near] = u THEN Append(q, x) ELSE q
      BY <1>3, <3>1, <3>2, <3>3
    <3>6. InSeq(v, Append(q, x)) <=> InSeq(v, q) \/ v = x
      BY <3>2, InAppend
    <3>7. Has(k) <=> Has(j) \/ (s[k][near] = u /\ x = v)
      BY <3>2, <3>5, <3>6
    <3>8. Has(j) <=> Some(j)
      BY <2>2, <3>1
    <3>. HIDE DEF Has, Some
    <3>. QED  BY <3>1, <3>4, <3>7, <3>8
  <2>3. n \in T
    <3>. HIDE DEF T
    <3>1. \A k \in 0 .. n : k \in T
      BY <2>1, <2>2, AllUpTo
    <3>. QED  BY <3>1
  <2>. QED  BY <2>3
<1>. QED  BY <1>2, <1>4, <1>6, <1>7 DEF Joined

\* The sections of an artifact are shaped for its nodes.
LEMMA ArtShape ==
  ASSUME NEW art, ArtOK(art)
  PROVE  \E n, m \in Nat : /\ n = Cardinality(art.keys) /\ art.metadata.node_count = n
                           /\ Shaped(n, m, art.forward.offsets, art.forward.targets)
                           /\ Shaped(n, m, art.inbound.offsets, art.inbound.targets)
<1>1. PICK n \in Nat : \E src, tgt \in Seq(0 .. n - 1) :
        /\ Len(tgt) = Len(src) /\ IsFiniteSet(art.keys) /\ Cardinality(art.keys) = n /\ n <= NodeMax
        /\ Artful(art, n, src, tgt, art.keys)
  BY DEF ArtOK
<1>2. PICK src, tgt \in Seq(0 .. n - 1) :
        Len(tgt) = Len(src) /\ Cardinality(art.keys) = n /\ Artful(art, n, src, tgt, art.keys)
  BY <1>1
<1>3. PICK m \in Nat : m = Len(src) /\ m = Len(tgt)
  BY <1>2
<1>4. PICK f, g : /\ Topology(f, n, src, tgt) /\ Topology(g, n, tgt, src)
                  /\ art = [forward |-> [offsets |-> f.offsets, targets |-> f.targets],
                            inbound |-> [offsets |-> g.offsets, targets |-> g.targets],
                            metadata |-> [node_count |-> n, edge_count |-> Len(src), reverse |-> TRUE],
                            keys |-> art.keys]
  BY <1>2 DEF Artful
<1>5. Shaped(n, m, f.offsets, f.targets) /\ Shaped(n, m, g.offsets, g.targets)
  BY <1>3, <1>4 DEF Topology
<1>6. /\ art.forward.offsets = f.offsets /\ art.forward.targets = f.targets /\ art.metadata.node_count = n
      /\ art.inbound.offsets = g.offsets /\ art.inbound.targets = g.targets
  BY <1>4
<1>7. Shaped(n, m, art.forward.offsets, art.forward.targets) /\ Shaped(n, m, art.inbound.offsets, art.inbound.targets)
  BY <1>5, <1>6
<1>. QED  BY <1>2, <1>6, <1>7

\* Offsets never decrease, and stay within the targets.
LEMMA OffsetsGrow ==
  ASSUME NEW n \in Nat, NEW m \in Nat, NEW offsets, NEW targets, Shaped(n, m, offsets, targets)
  PROVE  /\ \A i \in 1 .. n + 1 : offsets[i] \in 0 .. m
         /\ \A i, j \in 1 .. n + 1 : i <= j => offsets[i] <= offsets[j]
<1>1. \A i \in 1 .. n + 1 : offsets[i] \in Nat
  BY DEF Shaped
<1>2. ASSUME NEW i \in 1 .. n + 1 PROVE \A k \in 0 .. n + 1 - i : offsets[i] <= offsets[i + k]
  <2>. DEFINE d == n + 1 - i
              T == {k \in 0 .. d : offsets[i] <= offsets[i + k]}
  <2>0. d \in Nat
    OBVIOUS
  <2>1. 0 \in T
    BY <1>1
  <2>2. ASSUME NEW k \in 1 .. d, k - 1 \in T PROVE k \in T
    <3>1. PICK j \in 2 .. n + 1 : j = i + k /\ j - 1 = i + (k - 1) /\ j \in 1 .. n + 1 /\ j - 1 \in 1 .. n + 1
      <4>1. i + k \in 2 .. n + 1 /\ i + k - 1 = i + (k - 1) /\ i + k - 1 \in 1 .. n + 1
        BY <2>0
      <4>. QED  BY <4>1
    <3>2. offsets[j - 1] <= offsets[j]
      BY DEF Shaped
    <3>3. offsets[i] <= offsets[j - 1]
      BY <2>2, <3>1
    <3>4. offsets[i] \in Nat /\ offsets[j] \in Nat /\ offsets[j - 1] \in Nat
      BY <1>1, <3>1
    <3>5. offsets[i] <= offsets[j]
      BY <3>2, <3>3, <3>4
    <3>6. k \in 0 .. d
      BY <2>0
    <3>. QED  BY <3>1, <3>5, <3>6
  <2>3. \A k \in 0 .. d : k \in T
    <3>. HIDE DEF T, d
    <3>. QED  BY <2>0, <2>1, <2>2, AllUpTo
  <2>. QED  BY <2>3
<1>3. ASSUME NEW i \in 1 .. n + 1, NEW j \in 1 .. n + 1, i <= j PROVE offsets[i] <= offsets[j]
  <2>1. PICK k \in 0 .. n + 1 - i : i + k = j
    <3>1. j - i \in 0 .. n + 1 - i /\ i + (j - i) = j
      BY <1>3
    <3>. QED  BY <3>1
  <2>. QED  BY <1>2, <2>1
<1>4. ASSUME NEW i \in 1 .. n + 1 PROVE offsets[i] <= m
  <2>1. n + 1 \in 1 .. n + 1 /\ i <= n + 1
    OBVIOUS
  <2>2. offsets[i] <= offsets[n + 1]
    BY <1>3, <2>1
  <2>. QED  BY <2>2 DEF Shaped
<1>. QED  BY <1>1, <1>3, <1>4

\* The row is the d targets after position a.
Copies(row, targets, a, d, m) == \A j \in 1 .. d : a + j \in 1 .. m /\ row[j] = targets[a + j]

\* A row of a section: the targets between two offsets.
LEMMA RowIs ==
  ASSUME NEW n \in Nat, NEW m \in Nat, NEW offsets, NEW targets, Shaped(n, m, offsets, targets), NEW u \in 0 .. n - 1
  PROVE  /\ offsets[u + 1] \in 0 .. m /\ offsets[u + 2] \in 0 .. m /\ offsets[u + 1] <= offsets[u + 2]
         /\ Row(offsets, targets, u) \in Seq(0 .. n - 1)
         /\ Len(Row(offsets, targets, u)) = offsets[u + 2] - offsets[u + 1]
         /\ Copies(Row(offsets, targets, u), targets, offsets[u + 1], offsets[u + 2] - offsets[u + 1], m)
<1>1. u + 1 \in 1 .. n + 1 /\ u + 2 \in 1 .. n + 1 /\ u + 2 \in 2 .. n + 1 /\ u + 2 - 1 = u + 1
  OBVIOUS
<1>2. PICK a, c : a = offsets[u + 1] /\ c = offsets[u + 2]
  OBVIOUS
<1>3. a \in 0 .. m /\ c \in 0 .. m
  BY <1>1, <1>2, OffsetsGrow
<1>4. a <= c
  BY <1>1, <1>2 DEF Shaped
<1>5. PICK S : S = 0 .. n - 1 /\ targets \in Seq(S) /\ Len(targets) = m
  BY DEF Shaped
<1>6. PICK r : r = SubSeq(targets, a + 1, c)
  OBVIOUS
<1>7. r \in Seq(S) /\ Len(r) = c - a /\ \A j \in 1 .. c - a : r[j] = targets[a + j]
  <2>1. CASE a < c
    <3>1. a + 1 \in 1 .. c /\ c \in 1 .. m /\ a + 1 \in 1 .. m
      BY <1>3, <2>1
    <3>2. r \in Seq(S) /\ Len(r) = c - (a + 1) + 1
      BY <1>3, <1>5, <1>6, <2>1, <3>1
    <3>3. \A j \in 1 .. c - a : r[j] = targets[a + 1 + j - 1] /\ a + 1 + j - 1 = a + j
      BY <1>3, <1>5, <1>6, <2>1, <3>1
    <3>. QED  BY <1>3, <3>2, <3>3
  <2>2. CASE a = c
    <3>1. r = << >> /\ 1 .. c - a = {} /\ c - a = 0
      BY <1>3, <1>5, <1>6, <2>2
    <3>. QED  BY <3>1
  <2>. QED  BY <1>3, <1>4, <2>1, <2>2
<1>8. \A j \in 1 .. c - a : a + j \in 1 .. m
  BY <1>3
<1>. QED  BY <1>2, <1>3, <1>4, <1>5, <1>6, <1>7, <1>8 DEF Row, Copies

-----------------------------------------------------------------------------
(* What a replay does to a session *)

\* What a sequence holds after another one is appended.
LEMMA InConcat ==
  ASSUME NEW A, NEW s \in Seq(A), NEW t \in Seq(A), NEW x
  PROVE  s \o t \in Seq(A) /\ (InSeq(x, s \o t) <=> InSeq(x, s) \/ InSeq(x, t))
<1>1. PICK p, q \in Nat : p = Len(s) /\ DOMAIN s = 1 .. p /\ q = Len(t) /\ DOMAIN t = 1 .. q
  OBVIOUS
<1>2. s \o t \in Seq(A) /\ Len(s \o t) = p + q
  BY <1>1
<1>3. \A i \in 1 .. p + q : (s \o t)[i] = IF i <= p THEN s[i] ELSE t[i - p]
  BY <1>1
<1>4. PICK r \in Seq(A) : r = s \o t
  BY <1>2
<1>5. DOMAIN r = 1 .. p + q /\ \A i \in 1 .. p + q : r[i] = IF i <= p THEN s[i] ELSE t[i - p]
  BY <1>2, <1>3, <1>4
<1>6. ASSUME InSeq(x, r) PROVE InSeq(x, s) \/ InSeq(x, t)
  <2>1. PICK i \in 1 .. p + q : r[i] = x
    BY <1>5, <1>6 DEF InSeq
  <2>2. CASE i <= p
    <3>1. i \in 1 .. p /\ s[i] = x
      BY <1>5, <2>1, <2>2
    <3>. QED  BY <1>1, <3>1 DEF InSeq
  <2>3. CASE ~(i <= p)
    <3>1. i - p \in 1 .. q /\ t[i - p] = x
      BY <1>5, <2>1, <2>3
    <3>. QED  BY <1>1, <3>1 DEF InSeq
  <2>. QED  BY <2>2, <2>3
<1>7. ASSUME InSeq(x, s) PROVE InSeq(x, r)
  <2>1. PICK i \in 1 .. p : s[i] = x
    BY <1>1, <1>7 DEF InSeq
  <2>2. i \in 1 .. p + q /\ r[i] = x
    BY <1>5, <2>1
  <2>. QED  BY <1>5, <2>2 DEF InSeq
<1>8. ASSUME InSeq(x, t) PROVE InSeq(x, r)
  <2>1. PICK i \in 1 .. q : t[i] = x
    BY <1>1, <1>8 DEF InSeq
  <2>2. p + i \in 1 .. p + q /\ ~(p + i <= p) /\ (p + i) - p = i
    OBVIOUS
  <2>3. r[p + i] = x
    BY <1>5, <2>1, <2>2
  <2>. QED  BY <1>5, <2>2, <2>3 DEF InSeq
<1>. QED  BY <1>2, <1>4, <1>6, <1>7, <1>8

\* The forward edges of a node are the positions of its row.
LEMMA ForwardAre ==
  ASSUME NEW art, ArtOK(art), NEW u \in 0 .. art.metadata.node_count - 1
  PROVE  ForwardEdges(art, u) \in Seq(Nat)
<1>1. PICK n, m \in Nat : /\ art.metadata.node_count = n
                          /\ Shaped(n, m, art.forward.offsets, art.forward.targets)
  BY ArtShape
<1>2. PICK o, t : o = art.forward.offsets /\ t = art.forward.targets
  OBVIOUS
<1>3. PICK a, c \in 0 .. m : a = o[u + 1] /\ c = o[u + 2] /\ a <= c /\ Len(Row(o, t, u)) = c - a
  <2>1. Shaped(n, m, o, t) /\ u \in 0 .. n - 1 /\ n \in Nat /\ m \in Nat
    BY <1>1, <1>2
  <2>2. /\ o[u + 1] \in 0 .. m /\ o[u + 2] \in 0 .. m /\ o[u + 1] <= o[u + 2]
        /\ Len(Row(o, t, u)) = o[u + 2] - o[u + 1]
    BY ONLY <2>1, RowIs
  <2>. QED  BY <2>2
<1>4. PICK k \in Nat : k = c - a
  BY <1>3
<1>5. ForwardEdges(art, u) = [i \in 1 .. k |-> a + i - 1]
  BY <1>2, <1>3, <1>4 DEF ForwardEdges, SectionRow
<1>6. \A i \in 1 .. k : a + i - 1 \in Nat
  BY <1>3
<1>7. [i \in 1 .. k |-> a + i - 1] \in [1 .. k -> Nat]
  BY <1>6
<1>8. PICK f : f = [i \in 1 .. k |-> a + i - 1]
  OBVIOUS
<1>9. f \in [1 .. k -> Nat]
  BY <1>7, <1>8
<1>. QED  BY ONLY k \in Nat, <1>5, <1>8, <1>9

\* A base row of targets is a sequence.
LEMMA OutBaseIs ==
  ASSUME NEW e, ArtOK(e.art), NEW flags, ~flags.use_unique, NEW u \in 0 .. e.art.metadata.node_count - 1
  PROVE  \E D : OutBase(e, flags, u) \in Seq(D)
<1>1. PICK row \in Seq(Nat) : row = ForwardEdges(e.art, u)
  BY ForwardAre
<1>2. PICK seen \in Seq(Nat) : seen = Kept({edge \in Elems(row) : edge_visible(e.overlay, edge)}, row)
  BY KeptIs
<1>3. PICK k \in Nat : k = Len(seen) /\ DOMAIN seen = 1 .. k
  OBVIOUS
<1>4. PICK f : f = [i \in 1 .. k |-> EdgeTarget(e.art, seen[i])]
  OBVIOUS
<1>5. PICK D : D = {f[i] : i \in 1 .. k}
  OBVIOUS
<1>6. f \in [1 .. k -> D]
  BY <1>4, <1>5
<1>7. f \in Seq(D)
  BY ONLY k \in Nat, <1>6
<1>8. OutBase(e, flags, u) = f
  BY <1>1, <1>2, <1>3, <1>4 DEF OutBase
<1>. QED  BY <1>7, <1>8

\* An overlay-aware query sees an inserted edge of a visible target.
LEMMA OverlaySeen ==
  ASSUME NEW e, EngineOK(e), NEW u \in 0 .. e.art.metadata.node_count - 1, u \in Ids, NEW v,
         v < e.art.metadata.node_count, InSeq(<<u, v>>, e.overlay.added_edges), overlay_node_visible(e.overlay, v)
  PROVE  InSeq(v, view_successors(e, resolve("OverlayAware", e.overlay), u))
<1>1. PICK S, o : o = e.overlay /\ o \in Matched(S)
  BY DEF EngineOK
<1>2. PICK flags : flags = resolve("OverlayAware", o)
  OBVIOUS
<1>3. PICK s \in Seq(S \X S) : s = o.added_edges /\ o.by_source[u] = FarEnds(s, 1, 2, u)
  BY <1>1 DEF Matched, Overlays, Adjacent
<1>4. PICK i \in DOMAIN s : s[i] = <<u, v>>
  BY <1>1, <1>3 DEF InSeq
<1>5. flags.merge_overlay /\ ~flags.use_unique
  <2>1. s # << >>
    BY <1>4
  <2>. QED  BY <1>2, <1>3, <2>1 DEF resolve
<1>6. PICK ends \in Seq(S) : ends = o.by_source[u] /\ InSeq(v, ends)
  <2>1. s[i][1] = u /\ s[i][2] = v
    BY <1>4
  <2>2. /\ FarEnds(s, 1, 2, u) \in Seq(S)
        /\ InSeq(v, FarEnds(s, 1, 2, u))
    <3>1. PICK near, far : near = 1 /\ far = 2 /\ s[i][near] = u /\ s[i][far] = v
      BY <2>1
    <3>2. /\ FarEnds(s, near, far, u) \in Seq(S)
          /\ \A w : InSeq(w, FarEnds(s, near, far, u)) <=> Joined(s, near, far, u, w)
      <4>1. (far = 1 \/ far = 2) /\ s \in Seq(S \X S)
        BY <3>1
      <4>. QED  BY ONLY <4>1, FarEndsHas
    <3>3. InSeq(v, FarEnds(s, near, far, u))
      BY <3>1, <3>2 DEF Joined
    <3>. QED  BY ONLY <3>1, <3>2, <3>3
  <2>. QED  BY <1>3, <2>1, <2>2
<1>7. PICK D, base : base = OutBase(e, flags, u) /\ base \in Seq(D)
  BY <1>5, OutBaseIs DEF EngineOK
<1>8. PICK A : A = D \cup S /\ base \in Seq(A) /\ ends \in Seq(A)
  <2>1. base \in Seq(D \cup S) /\ ends \in Seq(D \cup S)
    BY <1>6, <1>7
  <2>. QED  BY <2>1
<1>9. PICK row \in Seq(A) : row = base \o ends /\ InSeq(v, row)
  <2>1. base \o ends \in Seq(A) /\ (InSeq(v, base \o ends) <=> InSeq(v, base) \/ InSeq(v, ends))
    BY ONLY <1>8, InConcat
  <2>. QED  BY <1>6, <2>1
<1>10. admit(e, flags, v) /\ v \in Elems(row)
  BY <1>9 DEF admit, InSeq, Elems
<1>11. PICK K : K = {x \in Elems(row) : admit(e, flags, x)} /\ v \in K
  BY <1>10
<1>12. InSeq(v, Kept(K, row))
  BY <1>9, <1>11, KeptIs
<1>13. view_successors(e, flags, u) = Kept(K, row)
  BY <1>1, <1>5, <1>6, <1>7, <1>9, <1>11 DEF view_successors, Admitted
<1>. QED  BY <1>1, <1>2, <1>12, <1>13

\* After a reload the inserted edges are seen.
LEMMA ReloadSeen ==
  ASSUME ExtensionInv, NEW s \in Sessions, graph_sync_reload(s), NEW map,
         map = dense_node_map_for_sync_resolution(Scanned.val, log)
  PROVE  SeesInserts(engine'[s], map)
<1>1. PICK e, K : e = engine'[s] /\ K = DOMAIN map
  OBVIOUS
<1>2. /\ ReplayHolds(e.overlay, map) /\ EngineOK(e)
      /\ IsFiniteSet(K) /\ K \subseteq Int /\ map = dense_node_map_from_keys(K)
      /\ \A i \in DOMAIN log : carries_node_keys(log[i].action) =>
           log[i].arg0 \in K /\ log[i].arg1 \in K /\ map[log[i].arg0] \in Ids /\ map[log[i].arg1] \in Ids
  BY <1>1, ReloadHolds
<1>3. SUFFICES ASSUME K = e.art.keys, NEW i \in DOMAIN log, LastWord(i), log[i].action = InsertEdge,
                      overlay_node_visible(e.overlay, map[log[i].arg1])
               PROVE  InSeq(map[log[i].arg1], view_successors(e, resolve("OverlayAware", e.overlay), map[log[i].arg0]))
  BY <1>1 DEF SeesInserts
<1>4. PICK u, v : u = map[log[i].arg0] /\ v = map[log[i].arg1]
  OBVIOUS
<1>5. InSeq(<<u, v>>, e.overlay.added_edges)
  BY <1>2, <1>3, <1>4 DEF ReplayHolds
<1>6. u \in Ids /\ log[i].arg0 \in K /\ log[i].arg1 \in K
  BY <1>2, <1>3, <1>4 DEF LastWord
<1>7. PICK n \in Nat : n = e.art.metadata.node_count /\ n = Cardinality(K)
  BY <1>2, <1>3, ArtOpens DEF EngineOK
<1>8. map \in [K -> 0 .. n - 1]
  BY <1>2, <1>7, DenseIs
<1>9. u \in 0 .. n - 1 /\ v \in 0 .. n - 1
  BY <1>4, <1>6, <1>8
<1>10. v < n
  BY <1>9
<1>. QED  BY <1>2, <1>3, <1>4, <1>5, <1>6, <1>7, <1>9, <1>10, OverlaySeen

\* However often the log has been replayed, and whatever the overlay held before: after
\* graph_sync_reload an edge is in the session's overlay if and only if the last thing the log says
\* of its ends is its insertion; and when the rows and the log name the artifact's nodes and no
\* others, an overlay-aware query sees every inserted edge whose target is not tombstoned.
THEOREM ReplayExact == Spec => ReplaySound
<1>1. ExtensionInv /\ [Next]_vars =>
        [\A s \in Sessions : graph_sync_reload(s) =>
           ReplayHolds(engine'[s].overlay, dense_node_map_for_sync_resolution(Scanned.val, log))]_vars
  <2>1. ASSUME ExtensionInv, NEW s \in Sessions, graph_sync_reload(s)
        PROVE  ReplayHolds(engine'[s].overlay, dense_node_map_for_sync_resolution(Scanned.val, log))
    BY <2>1, ReloadHolds
  <2>. QED  BY <2>1
<1>2. ExtensionInv /\ [Next]_vars =>
        [\A s \in Sessions : graph_sync_reload(s) =>
           SeesInserts(engine'[s], dense_node_map_for_sync_resolution(Scanned.val, log))]_vars
  <2>1. ASSUME ExtensionInv, NEW s \in Sessions, graph_sync_reload(s)
        PROVE  SeesInserts(engine'[s], dense_node_map_for_sync_resolution(Scanned.val, log))
    BY <2>1, ReloadSeen
  <2>. QED  BY <2>1
<1>3. Spec => ReloadFollowsLog
  BY <1>1, Invariant, PTL DEF Spec, ReloadFollowsLog
<1>4. Spec => InsertsSeen
  BY <1>2, Invariant, PTL DEF Spec, InsertsSeen
<1>. QED  BY <1>3, <1>4 DEF ReplaySound

-----------------------------------------------------------------------------
(* Where the counting sort puts each edge *)

\* The edges of the same source up to edge k, and the position edge k goes to.
Peers(src, k, u) == {i \in 1 .. k : src[i] = u}
\* Where the counting sort puts edge k: after the edges of smaller sources and its own earlier ones.
Slot(n, src, k) == PrefixCounts(n, src)[src[k] + 1] + Cardinality(Peers(src, k, src[k]))

\* One more edge is one more of its own source, and none of any other.
LEMMA PeersGrow ==
  ASSUME NEW n \in Nat, NEW src \in Seq(0 .. n - 1), NEW k \in 1 .. Len(src), NEW u
  PROVE  /\ Cardinality(Peers(src, k - 1, u)) \in Nat /\ Cardinality(Peers(src, k, u)) \in Nat
         /\ Cardinality(Peers(src, k, u)) = Cardinality(Peers(src, k - 1, u)) + (IF src[k] = u THEN 1 ELSE 0)
<1>1. k \in Nat /\ k - 1 \in Nat
  OBVIOUS
<1>2. \A j \in Nat : IsFiniteSet(Peers(src, j, u))
  <2>1. SUFFICES ASSUME NEW j \in Nat PROVE IsFiniteSet(Peers(src, j, u))
    OBVIOUS
  <2>2. IsFiniteSet(1 .. j)
    BY FS_Interval
  <2>3. Peers(src, j, u) \in SUBSET (1 .. j)
    BY DEF Peers
  <2>. QED  BY <2>2, <2>3, FS_Subset
<1>3. PICK P, Q : P = Peers(src, k - 1, u) /\ Q = Peers(src, k, u) /\ IsFiniteSet(P) /\ IsFiniteSet(Q)
  BY <1>1, <1>2
<1>4. Cardinality(P) \in Nat /\ Cardinality(Q) \in Nat
  BY <1>3, FS_CardinalityType
<1>5. k \notin P /\ Q = IF src[k] = u THEN P \cup {k} ELSE P
  <2>1. \A i : i \in 1 .. k <=> i \in 1 .. k - 1 \/ i = k
    OBVIOUS
  <2>2. k \notin 1 .. k - 1
    OBVIOUS
  <2>. QED  BY <1>3, <2>1, <2>2 DEF Peers
<1>6. Cardinality(P \cup {k}) = Cardinality(P) + 1
  BY <1>3, <1>5, FS_AddElement
<1>. QED  BY <1>3, <1>4, <1>5, <1>6

\* The count of a source grows with the edges.
LEMMA PeersBelow ==
  ASSUME NEW n \in Nat, NEW src \in Seq(0 .. n - 1), NEW j \in 1 .. Len(src), NEW k \in j .. Len(src), NEW u
  PROVE  /\ Cardinality(Peers(src, j, u)) \in Nat /\ Cardinality(Peers(src, k, u)) \in Nat
         /\ Cardinality(Peers(src, j, u)) <= Cardinality(Peers(src, k, u))
         /\ j < k /\ src[k] = u => Cardinality(Peers(src, j, u)) < Cardinality(Peers(src, k, u))
         /\ src[j] = u => 1 <= Cardinality(Peers(src, j, u))
<1>0. j \in Nat /\ k \in Nat /\ k \in 1 .. Len(src) /\ j <= k
  OBVIOUS
<1>1. IsFiniteSet(1 .. k)
  BY <1>0, FS_Interval
<1>2. PICK P, Q : P = Peers(src, j, u) /\ Q = Peers(src, k, u)
  OBVIOUS
<1>3. P \in SUBSET Q /\ Q \in SUBSET (1 .. k)
  BY <1>0, <1>2 DEF Peers
<1>4. IsFiniteSet(Q)
  BY <1>1, <1>3, FS_Subset
<1>5. Cardinality(P) <= Cardinality(Q) /\ IsFiniteSet(P)
  BY <1>3, <1>4, FS_Subset
<1>6. Cardinality(P) \in Nat /\ Cardinality(Q) \in Nat
  BY <1>4, <1>5, FS_CardinalityType
<1>7. ASSUME j < k, src[k] = u PROVE Cardinality(P) < Cardinality(Q)
  <2>1. k \in Q /\ k \notin P
    BY <1>0, <1>2, <1>7 DEF Peers
  <2>2. P \in SUBSET (Q \ {k})
    BY <1>3, <2>1
  <2>3. IsFiniteSet(Q \ {k}) /\ Cardinality(Q \ {k}) = Cardinality(Q) - 1
    BY <1>4, <2>1, FS_RemoveElement
  <2>4. Cardinality(P) <= Cardinality(Q \ {k})
    BY <2>2, <2>3, FS_Subset
  <2>. QED  BY <1>6, <2>3, <2>4
<1>8. ASSUME src[j] = u PROVE 1 <= Cardinality(P)
  <2>1. j \in P
    BY <1>0, <1>2, <1>8 DEF Peers
  <2>2. Cardinality(P) # 0
    BY <1>5, <2>1, FS_EmptySet
  <2>. QED  BY <1>6, <2>2
<1>. QED  BY <1>2, <1>5, <1>6, <1>7, <1>8

\* Every edge goes into the row of its source.
LEMMA SlotInRow ==
  ASSUME NEW n \in Nat, NEW src \in Seq(0 .. n - 1), NEW k \in 1 .. Len(src)
  PROVE  /\ src[k] \in 0 .. n - 1
         /\ Slot(n, src, k) \in 1 .. Len(src)
         /\ PrefixCounts(n, src)[src[k] + 1] < Slot(n, src, k)
         /\ Slot(n, src, k) <= PrefixCounts(n, src)[src[k] + 2]
<1>1. PICK m \in Nat : m = Len(src) /\ k \in 1 .. m
  OBVIOUS
<1>2. PICK u \in 0 .. n - 1 : u = src[k]
  OBVIOUS
<1>3. PICK c : c = PrefixCounts(n, src)
  OBVIOUS
<1>4. /\ c \in [1 .. n + 1 -> 0 .. m]
      /\ c[u + 2] = c[u + 1] + Cardinality({i \in 1 .. m : src[i] = u})
  BY <1>1, <1>3, CountsAre
<1>5. u + 1 \in 1 .. n + 1 /\ u + 2 \in 1 .. n + 1
  OBVIOUS
<1>6. c[u + 1] \in 0 .. m /\ c[u + 2] \in 0 .. m
  BY <1>4, <1>5
<1>7. PICK x, y \in Nat : x = Cardinality(Peers(src, k, u)) /\ y = Cardinality(Peers(src, m, u)) /\ x <= y /\ 1 <= x
  <2>1. m \in k .. Len(src)
    BY <1>1
  <2>. QED  BY <1>2, <2>1, PeersBelow
<1>8. c[u + 2] = c[u + 1] + y
  BY <1>4, <1>7 DEF Peers
<1>9. Slot(n, src, k) = c[u + 1] + x
  BY <1>2, <1>3, <1>7 DEF Slot
<1>10. PICK a, z \in 0 .. m : a = c[u + 1] /\ z = c[u + 2]
  BY <1>6
<1>11. a + x \in 1 .. m /\ a < a + x /\ a + x <= z
  <2>1. z = a + y /\ x <= y /\ 1 <= x
    BY <1>7, <1>8, <1>10
  <2>2. a \in 0 .. m /\ z \in 0 .. m /\ m \in Nat /\ x \in Nat /\ y \in Nat
    OBVIOUS
  <2>. QED  BY ONLY <2>1, <2>2
<1>. QED  BY <1>1, <1>2, <1>3, <1>9, <1>10, <1>11

\* A position belongs to one row.
LEMMA OneRow ==
  ASSUME NEW n \in Nat, NEW m \in Nat, NEW offsets, NEW targets, Shaped(n, m, offsets, targets), NEW i \in Int,
         NEW u \in 0 .. n - 1, NEW v \in 0 .. n - 1,
         offsets[u + 1] < i, i <= offsets[u + 2], offsets[v + 1] < i, i <= offsets[v + 2]
  PROVE  u = v
<1>1. /\ \A j \in 1 .. n + 1 : offsets[j] \in 0 .. m
      /\ \A j, k \in 1 .. n + 1 : j <= k => offsets[j] <= offsets[k]
  BY OffsetsGrow
<1>2. u + 1 \in 1 .. n + 1 /\ u + 2 \in 1 .. n + 1 /\ v + 1 \in 1 .. n + 1 /\ v + 2 \in 1 .. n + 1
  OBVIOUS
<1>3. /\ offsets[u + 1] \in Int /\ offsets[u + 2] \in Int /\ offsets[v + 1] \in Int /\ offsets[v + 2] \in Int
  BY <1>1, <1>2
<1>4. ~(u < v)
  <2>1. SUFFICES ASSUME u < v PROVE FALSE
    OBVIOUS
  <2>2. u + 2 <= v + 1
    BY <2>1
  <2>3. offsets[u + 2] <= offsets[v + 1]
    BY <1>1, <1>2, <2>2
  <2>. QED  BY <1>3, <2>3
<1>5. ~(v < u)
  <2>1. SUFFICES ASSUME v < u PROVE FALSE
    OBVIOUS
  <2>2. v + 2 <= u + 1
    BY <2>1
  <2>3. offsets[v + 2] <= offsets[u + 1]
    BY <1>1, <1>2, <2>2
  <2>. QED  BY <1>3, <2>3
<1>. QED  BY <1>4, <1>5

\* Prefix counts are the offsets of some section.
LEMMA CountsShaped ==
  ASSUME NEW n \in Nat, NEW src \in Seq(0 .. n - 1)
  PROVE  Shaped(n, Len(src), PrefixCounts(n, src), src)
<1>1. PICK m \in Nat : m = Len(src)
  OBVIOUS
<1>2. PICK c : c = PrefixCounts(n, src)
  OBVIOUS
<1>3. /\ c \in [1 .. n + 1 -> 0 .. m] /\ c[1] = 0 /\ c[n + 1] = m
      /\ \A u \in 0 .. n - 1 : c[u + 1] <= c[u + 2]
  BY <1>1, <1>2, CountsAre
<1>4. c \in Seq(Nat) /\ Len(c) = n + 1
  <2>1. c \in [1 .. n + 1 -> Nat]
    BY <1>3
  <2>. QED  BY <2>1
<1>5. \A i \in 2 .. n + 1 : c[i - 1] <= c[i]
  <2>1. SUFFICES ASSUME NEW i \in 2 .. n + 1 PROVE c[i - 1] <= c[i]
    OBVIOUS
  <2>2. PICK u \in 0 .. n - 1 : u + 2 = i /\ u + 1 = i - 1
    <3>1. i - 2 \in 0 .. n - 1 /\ (i - 2) + 2 = i /\ (i - 2) + 1 = i - 1
      OBVIOUS
    <3>. QED  BY <3>1
  <2>. QED  BY <1>3, <2>2
<1>. QED  BY <1>1, <1>2, <1>3, <1>4, <1>5 DEF Shaped

\* No two edges go to the same position.
LEMMA SlotInjective ==
  ASSUME NEW n \in Nat, NEW src \in Seq(0 .. n - 1), NEW j \in 1 .. Len(src), NEW k \in 1 .. Len(src),
         Slot(n, src, j) = Slot(n, src, k)
  PROVE  j = k
<1>1. PICK m \in Nat : m = Len(src)
  OBVIOUS
<1>2. PICK c, i : c = PrefixCounts(n, src) /\ i = Slot(n, src, j) /\ i = Slot(n, src, k)
  OBVIOUS
<1>3. PICK u, v \in 0 .. n - 1 : u = src[j] /\ v = src[k]
  OBVIOUS
<1>4. c[u + 1] < i /\ i <= c[u + 2] /\ c[v + 1] < i /\ i <= c[v + 2] /\ i \in 1 .. m
  BY <1>1, <1>2, <1>3, SlotInRow
<1>5. u = v
  <2>1. Shaped(n, m, c, src) /\ i \in Int
    BY <1>1, <1>2, <1>4, CountsShaped
  <2>. QED  BY <1>4, <2>1, OneRow
<1>6. PICK x, y : x = Cardinality(Peers(src, j, u)) /\ y = Cardinality(Peers(src, k, u))
  OBVIOUS
<1>7. x \in Nat /\ y \in Nat /\ (j < k => x < y) /\ (k < j => y < x)
  <2>1. CASE j <= k
    <3>1. k \in j .. Len(src)
      BY <2>1
    <3>. QED  BY <1>3, <1>5, <1>6, <2>1, <3>1, PeersBelow
  <2>2. CASE k <= j
    <3>1. j \in k .. Len(src)
      BY <2>2
    <3>2. /\ Cardinality(Peers(src, k, u)) \in Nat /\ Cardinality(Peers(src, j, u)) \in Nat
          /\ k < j /\ src[j] = u => Cardinality(Peers(src, k, u)) < Cardinality(Peers(src, j, u))
      BY <3>1, PeersBelow
    <3>. QED  BY <1>3, <1>6, <2>2, <3>2
  <2>. QED  BY <2>1, <2>2
<1>8. i = c[u + 1] + x /\ i = c[u + 1] + y
  BY <1>2, <1>3, <1>5, <1>6 DEF Slot
<1>9. c[u + 1] \in Int
  <2>1. u + 1 \in 1 .. n + 1
    OBVIOUS
  <2>2. c \in [1 .. n + 1 -> 0 .. m]
    BY <1>1, <1>2, CountsAre
  <2>. QED  BY <2>1, <2>2
<1>. QED  BY <1>7, <1>8, <1>9, SMTT(30)

-----------------------------------------------------------------------------
(* The counting sort, edge by edge *)

\* After k edges: every cursor is past the edges of its source so far, and these are where they belong.
Sorted(X, n, src, tgt, k) ==
  /\ \A u \in 0 .. n - 1 : X.cursor[u + 1] = PrefixCounts(n, src)[u + 1] + Cardinality(Peers(src, k, u))
  /\ \A j \in 1 .. k : X.targets[Slot(n, src, j)] = tgt[j]

\* One placement keeps that so.
LEMMA PlaceSorted ==
  ASSUME NEW n \in Nat, NEW src \in Seq(0 .. n - 1), NEW tgt \in Seq(0 .. n - 1), Len(tgt) = Len(src),
         NEW k \in 1 .. Len(src), NEW X \in Partial(n, Len(src)), Sorted(X, n, src, tgt, k - 1), NEW Y,
         Y = PlaceAt(X, src[k] + 1, X.cursor[src[k] + 1] + 1, X.cursor[src[k] + 1] + 1, k, tgt[k])
  PROVE  Sorted(Y, n, src, tgt, k)
<1>1. PICK m \in Nat : m = Len(src) /\ k \in 1 .. m
  OBVIOUS
<1>2. PICK v \in 0 .. n - 1 : v = src[k]
  OBVIOUS
<1>3. PICK c, r, t, w : c = PrefixCounts(n, src) /\ r = X.cursor /\ t = X.targets /\ w = tgt[k]
  OBVIOUS
<1>4. c \in [1 .. n + 1 -> 0 .. m] /\ r \in [1 .. n + 1 -> Int] /\ t \in [1 .. m -> 0 .. n - 1]
  BY <1>1, <1>3, CountsAre DEF Partial
<1>5. \A u \in 0 .. n - 1 : u + 1 \in 1 .. n + 1
  OBVIOUS
<1>6. \A u \in 0 .. n - 1 : r[u + 1] = c[u + 1] + Cardinality(Peers(src, k - 1, u))
  BY <1>3 DEF Sorted
<1>7. ASSUME NEW u \in 0 .. n - 1
      PROVE  /\ Cardinality(Peers(src, k - 1, u)) \in Nat /\ Cardinality(Peers(src, k, u)) \in Nat /\ c[u + 1] \in Int
             /\ Cardinality(Peers(src, k, u)) = Cardinality(Peers(src, k - 1, u)) + (IF v = u THEN 1 ELSE 0)
  <2>1. c[u + 1] \in Int
    BY <1>4, <1>5
  <2>. QED  BY <1>2, <2>1, PeersGrow
<1>8. PICK at : at = r[v + 1] + 1 /\ at = Slot(n, src, k) /\ at \in 1 .. m
  <2>1. r[v + 1] + 1 = c[v + 1] + Cardinality(Peers(src, k, v))
    <3>1. PICK x, y, z : x = Cardinality(Peers(src, k - 1, v)) /\ y = Cardinality(Peers(src, k, v)) /\ z = c[v + 1]
      OBVIOUS
    <3>2. x \in Nat /\ z \in Int /\ y = x + 1
      BY <1>7, <3>1
    <3>3. r[v + 1] = z + x
      BY <1>6, <3>1
    <3>4. r[v + 1] + 1 = z + y
      BY <3>2, <3>3
    <3>. QED  BY <3>1, <3>4
  <2>2. Slot(n, src, k) = c[v + 1] + Cardinality(Peers(src, k, v))
    BY <1>2, <1>3 DEF Slot
  <2>3. Slot(n, src, k) \in 1 .. m
    BY <1>1, SlotInRow
  <2>. QED  BY <2>1, <2>2, <2>3
<1>9. Y.cursor = [r EXCEPT ![v + 1] = at] /\ Y.targets = [t EXCEPT ![at] = w]
  BY <1>2, <1>3, <1>8 DEF PlaceAt
<1>10. ASSUME NEW u \in 0 .. n - 1 PROVE Y.cursor[u + 1] = c[u + 1] + Cardinality(Peers(src, k, u))
  <2>1. CASE u = v
    <3>1. Y.cursor[u + 1] = at
      BY <1>4, <1>5, <1>9, <2>1
    <3>. QED  BY <1>2, <1>3, <1>8, <2>1, <3>1 DEF Slot
  <2>2. CASE u # v
    <3>a. PICK i, j \in 1 .. n + 1 : i = u + 1 /\ j = v + 1 /\ i # j
      <4>1. u + 1 # v + 1
        BY <2>2
      <4>. QED  BY <1>5, <4>1
    <3>b. [r EXCEPT ![j] = at][i] = r[i]
      BY ONLY i \in 1 .. n + 1, <1>4, <3>a
    <3>1. Y.cursor[u + 1] = r[u + 1]
      BY <1>9, <3>a, <3>b
    <3>2. Cardinality(Peers(src, k, u)) = Cardinality(Peers(src, k - 1, u))
      BY <1>7, <2>2
    <3>. QED  BY <1>6, <3>1, <3>2
  <2>. QED  BY <2>1, <2>2
<1>11. ASSUME NEW j \in 1 .. k PROVE Y.targets[Slot(n, src, j)] = tgt[j]
  <2>1. j \in 1 .. m
    BY <1>1
  <2>2. PICK i : i = Slot(n, src, j) /\ i \in 1 .. m
    BY <1>1, <2>1, SlotInRow
  <2>3. CASE j = k
    BY <1>3, <1>4, <1>8, <1>9, <2>2, <2>3
  <2>4. CASE j # k
    <3>1. i # at
      BY <1>1, <1>8, <2>1, <2>2, <2>4, SlotInjective
    <3>2. j \in 1 .. k - 1
      BY <2>4
    <3>3. t[i] = tgt[j]
      BY <1>3, <2>2, <3>2 DEF Sorted
    <3>. QED  BY <1>4, <1>9, <2>2, <3>1, <3>3
  <2>. QED  BY <2>3, <2>4
<1>. QED  BY <1>3, <1>10, <1>11 DEF Sorted

\* freeze puts every edge's target at the edge's position.
LEMMA PlacedSorted ==
  ASSUME NEW n \in Nat, NEW src \in Seq(0 .. n - 1), NEW tgt \in Seq(0 .. n - 1), Len(tgt) = Len(src)
  PROVE  \A k \in 1 .. Len(src) : Placed(PrefixCounts(n, src), src, tgt).targets[Slot(n, src, k)] = tgt[k]
<1>1. PICK m \in Nat : m = Len(src)
  OBVIOUS
<1>2. PICK c : c = PrefixCounts(n, src) /\ c \in [1 .. n + 1 -> 0 .. m]
  BY <1>1, CountsAre
<1>3. PICK b : Placement(b, n, src, tgt, c) /\ Placed(c, src, tgt) = b[m]
  <2>1. c \in [1 .. n + 1 -> Int]
    BY <1>2
  <2>. QED  BY <1>1, <2>1, PlacedIs
<1>4. /\ b \in [0 .. m -> Partial(n, m)] /\ b[0].cursor = c
      /\ \A k \in 1 .. m :
           b[k] = PlaceAt(b[k - 1], src[k] + 1, b[k - 1].cursor[src[k] + 1] + 1,
                          b[k - 1].cursor[src[k] + 1] + 1, k, tgt[k])
  BY <1>1, <1>3 DEF Placement, Partial
<1>. DEFINE T == {k \in 0 .. m : Sorted(b[k], n, src, tgt, k)}
<1>5. 0 \in T
  <2>1. ASSUME NEW u \in 0 .. n - 1 PROVE c[u + 1] = c[u + 1] + Cardinality(Peers(src, 0, u))
    <3>1. Peers(src, 0, u) = {}
      BY DEF Peers
    <3>2. Cardinality(Peers(src, 0, u)) = 0
      BY <3>1, FS_EmptySet
    <3>3. u + 1 \in 1 .. n + 1
      OBVIOUS
    <3>4. c[u + 1] \in Int
      BY <1>2, <3>3
    <3>. QED  BY <3>2, <3>4
  <2>2. 1 .. 0 = {}
    OBVIOUS
  <2>3. Sorted(b[0], n, src, tgt, 0)
    BY <1>2, <1>4, <2>1, <2>2 DEF Sorted
  <2>. QED  BY <2>3
<1>6. ASSUME NEW k \in 1 .. m, k - 1 \in T PROVE k \in T
  <2>1. PICK X : X = b[k - 1] /\ X \in Partial(n, m)
    BY <1>4
  <2>2. Sorted(X, n, src, tgt, k - 1)
    BY <1>6, <2>1
  <2>3. b[k] = PlaceAt(X, src[k] + 1, X.cursor[src[k] + 1] + 1, X.cursor[src[k] + 1] + 1, k, tgt[k])
    BY <1>4, <2>1
  <2>4. Sorted(b[k], n, src, tgt, k)
    BY <1>1, <2>1, <2>2, <2>3, PlaceSorted
  <2>. QED  BY <2>4
<1>7. m \in T
  <2>. HIDE DEF T
  <2>1. \A k \in 0 .. m : k \in T
    BY <1>5, <1>6, AllUpTo
  <2>. QED  BY <2>1
<1>8. \A k \in 1 .. m : b[m].targets[Slot(n, src, k)] = tgt[k]
  BY <1>7 DEF Sorted
<1>. QED  BY <1>1, <1>2, <1>3, <1>8

\* A section holds edges: some arrangement f puts each at a position of its source's row.
Laid(f, m, offsets, targets, src, tgt) ==
  /\ f \in Bijection(1 .. m, 1 .. m)
  /\ \A k \in 1 .. m : offsets[src[k] + 1] < f[k] /\ f[k] <= offsets[src[k] + 2] /\ targets[f[k]] = tgt[k]

\* The sections of a frozen topology hold its edges.
LEMMA TopologyLaid ==
  ASSUME NEW n \in Nat, NEW src \in Seq(0 .. n - 1), NEW tgt \in Seq(0 .. n - 1), Len(tgt) = Len(src), NEW t,
         Topology(t, n, src, tgt)
  PROVE  \E f : Laid(f, Len(src), t.offsets, t.targets, src, tgt)
<1>1. PICK m \in Nat : m = Len(src)
  OBVIOUS
<1>2. PICK f : f = [k \in 1 .. m |-> Slot(n, src, k)]
  OBVIOUS
<1>3. f \in [1 .. m -> 1 .. m]
  BY <1>1, <1>2, SlotInRow
<1>4. f \in Injection(1 .. m, 1 .. m)
  <2>1. \A j, k \in 1 .. m : f[j] = f[k] => j = k
    BY <1>1, <1>2, SlotInjective
  <2>. QED  BY <1>3, <2>1 DEF Injection, IsInjective
<1>5. f \in Surjection(1 .. m, 1 .. m)
  <2>1. IsFiniteSet(1 .. m)
    BY FS_Interval
  <2>. QED  BY <1>4, <2>1, FS_Injection
<1>6. f \in Bijection(1 .. m, 1 .. m)
  BY <1>4, <1>5 DEF Bijection
<1>7. ASSUME NEW k \in 1 .. m
      PROVE  t.offsets[src[k] + 1] < f[k] /\ f[k] <= t.offsets[src[k] + 2] /\ t.targets[f[k]] = tgt[k]
  <2>1. f[k] = Slot(n, src, k) /\ t.offsets = PrefixCounts(n, src)
        /\ t.targets = Placed(PrefixCounts(n, src), src, tgt).targets
    BY <1>2 DEF Topology
  <2>2. PrefixCounts(n, src)[src[k] + 1] < Slot(n, src, k) /\ Slot(n, src, k) <= PrefixCounts(n, src)[src[k] + 2]
    BY <1>1, SlotInRow
  <2>3. Placed(PrefixCounts(n, src), src, tgt).targets[Slot(n, src, k)] = tgt[k]
    BY <1>1, PlacedSorted
  <2>. QED  BY <2>1, <2>2, <2>3
<1>. QED  BY <1>1, <1>6, <1>7 DEF Laid

\* The edges from u to v, by their indexes.
Between(src, tgt, m, u, v) == {k \in 1 .. m : src[k] = u /\ tgt[k] = v}

\* How often the row names v.
Often(row, v) == Cardinality({j \in DOMAIN row : row[j] = v})

\* The row of a node has a target as often as there are edges to it.
LEMMA RowCounts ==
  ASSUME NEW n \in Nat, NEW m \in Nat, NEW src \in Seq(0 .. n - 1), NEW tgt \in Seq(0 .. n - 1), Len(src) = m, Len(tgt) = m,
         NEW offsets, NEW targets, Shaped(n, m, offsets, targets), NEW f, Laid(f, m, offsets, targets, src, tgt),
         NEW u \in 0 .. n - 1, NEW v
  PROVE  /\ Often(Row(offsets, targets, u), v) = Cardinality(Between(src, tgt, m, u, v))
         /\ InSeq(v, Row(offsets, targets, u)) <=> Between(src, tgt, m, u, v) # {}
<1>1. PICK row : row = Row(offsets, targets, u)
  OBVIOUS
<1>2. PICK a, c : a = offsets[u + 1] /\ c = offsets[u + 2]
  OBVIOUS
<1>3. a \in 0 .. m /\ c \in 0 .. m /\ a <= c
  BY <1>2, RowIs
<1>4. PICK d \in Nat : d = c - a
  BY <1>3
<1>5. DOMAIN row = 1 .. d /\ \A j \in 1 .. d : a + j \in 1 .. m /\ row[j] = targets[a + j]
  <2>1. row \in Seq(0 .. n - 1) /\ Len(row) = d
    BY <1>1, <1>2, <1>4, RowIs
  <2>2. \A j \in 1 .. d : a + j \in 1 .. m /\ row[j] = targets[a + j]
    <3>1. Copies(Row(offsets, targets, u), targets, offsets[u + 1], offsets[u + 2] - offsets[u + 1], m)
      BY RowIs
    <3>. QED  BY <1>1, <1>2, <1>4, <3>1 DEF Copies
  <2>3. DOMAIN row = 1 .. d
    <3>1. PICK A : row \in Seq(A)
      BY <2>1
    <3>. QED  BY ONLY <2>1, <3>1
  <2>. QED  BY <2>2, <2>3
<1>6. PICK In, Out : In = {j \in DOMAIN row : row[j] = v} /\ Out = Between(src, tgt, m, u, v)
  OBVIOUS
<1>7. /\ f \in [1 .. m -> 1 .. m]
      /\ \A j, k \in 1 .. m : f[j] = f[k] => j = k
      /\ \A i \in 1 .. m : \E k \in 1 .. m : f[k] = i
      /\ \A k \in 1 .. m : offsets[src[k] + 1] < f[k] /\ f[k] <= offsets[src[k] + 2] /\ targets[f[k]] = tgt[k]
  BY DEF Laid, Bijection, Injection, IsInjective, Surjection
<1>8. \A k \in 1 .. m : src[k] \in 0 .. n - 1
  OBVIOUS
<1>9. ASSUME NEW k \in Out PROVE k \in 1 .. m /\ f[k] - a \in In
  <2>1. k \in 1 .. m /\ src[k] = u /\ tgt[k] = v
    BY <1>6 DEF Between
  <2>2. PICK i \in 1 .. m : i = f[k] /\ a < i /\ i <= c /\ targets[i] = v
    BY <1>2, <1>7, <2>1
  <2>3. i - a \in 1 .. d /\ a + (i - a) = i
    <3>1. a \in Int /\ c \in Int /\ i \in Int /\ a < i /\ i <= c /\ d = c - a
      BY <1>3, <1>4, <2>2
    <3>. QED  BY ONLY <3>1
  <2>4. row[i - a] = v
    BY <1>5, <2>2, <2>3
  <2>. QED  BY <1>5, <1>6, <2>1, <2>2, <2>3, <2>4
<1>10. ASSUME NEW j \in In PROVE \E k \in Out : f[k] - a = j
  <2>1. j \in 1 .. d /\ row[j] = v
    BY <1>5, <1>6
  <2>2. PICK i \in 1 .. m : i = a + j /\ targets[i] = v
    BY <1>5, <2>1
  <2>3. PICK k \in 1 .. m : f[k] = i
    BY <1>7
  <2>4. a < i /\ i <= c /\ i - a = j /\ i \in Int
    BY <1>3, <1>4, <2>1, <2>2
  <2>5. PICK w \in 0 .. n - 1 : w = src[k] /\ offsets[w + 1] < i /\ i <= offsets[w + 2]
    BY <1>7, <1>8, <2>3
  <2>6. w = u
    BY <1>2, <2>4, <2>5, OneRow
  <2>7. k \in Out
    BY <1>6, <1>7, <2>2, <2>3, <2>5, <2>6 DEF Between
  <2>. QED  BY <2>3, <2>4, <2>7
<1>11. PICK g : g = [k \in Out |-> f[k] - a]
  OBVIOUS
<1>12. g \in Bijection(Out, In)
  <2>1. g \in [Out -> In]
    BY <1>9, <1>11
  <2>2. ASSUME NEW j \in Out, NEW k \in Out, g[j] = g[k] PROVE j = k
    <3>1. j \in 1 .. m /\ k \in 1 .. m
      BY <1>9
    <3>2. f[j] \in 1 .. m /\ f[k] \in 1 .. m /\ f[j] - a = f[k] - a
      BY <1>7, <1>11, <2>2, <3>1
    <3>3. f[j] = f[k]
      BY <1>3, <3>2, SMTT(30)
    <3>. QED  BY <1>7, <3>1, <3>3
  <2>3. \A j \in In : \E k \in Out : g[k] = j
    BY <1>10, <1>11
  <2>4. g \in Injection(Out, In)
    BY <2>1, <2>2 DEF Injection, IsInjective
  <2>5. g \in Surjection(Out, In)
    BY <2>1, <2>3 DEF Surjection
  <2>. QED  BY <2>4, <2>5 DEF Bijection
<1>13. IsFiniteSet(Out)
  <2>1. IsFiniteSet(1 .. m)
    BY FS_Interval
  <2>2. Out \in SUBSET (1 .. m)
    BY <1>6 DEF Between
  <2>. QED  BY <2>1, <2>2, FS_Subset
<1>14. IsFiniteSet(In) /\ Cardinality(In) = Cardinality(Out)
  <2>1. ExistsBijection(Out, In)
    BY <1>12 DEF ExistsBijection
  <2>. QED  BY <1>13, <2>1, FS_Bijection
<1>15. InSeq(v, row) <=> Out # {}
  <2>1. InSeq(v, row) <=> \E j \in In : TRUE
    BY <1>6 DEF InSeq
  <2>. QED  BY <1>9, <1>10, <2>1
<1>. QED  BY <1>1, <1>6, <1>14, <1>15 DEF Often

-----------------------------------------------------------------------------
(* What an artifact holds *)

\* Both sections of the artifact hold the edges src[k] -> tgt[k], one way and the other.
Holds(art, n, m, src, tgt) ==
  /\ src \in Seq(0 .. n - 1) /\ tgt \in Seq(0 .. n - 1) /\ Len(src) = m /\ Len(tgt) = m
  /\ art.metadata.node_count = n
  /\ Shaped(n, m, art.forward.offsets, art.forward.targets)
  /\ Shaped(n, m, art.inbound.offsets, art.inbound.targets)
  /\ \E f : Laid(f, m, art.forward.offsets, art.forward.targets, src, tgt)
  /\ \E g : Laid(g, m, art.inbound.offsets, art.inbound.targets, tgt, src)

\* What freeze and transpose write holds the edges.
LEMMA ArtfulHolds ==
  ASSUME NEW n \in Nat, NEW m \in Nat, NEW src \in Seq(0 .. n - 1), NEW tgt \in Seq(0 .. n - 1),
         Len(src) = m, Len(tgt) = m, NEW keys, NEW art, Artful(art, n, src, tgt, keys)
  PROVE  Holds(art, n, m, src, tgt)
<1>1. PICK f, g : /\ Topology(f, n, src, tgt) /\ Topology(g, n, tgt, src)
                  /\ art = [forward |-> [offsets |-> f.offsets, targets |-> f.targets],
                            inbound |-> [offsets |-> g.offsets, targets |-> g.targets],
                            metadata |-> [node_count |-> n, edge_count |-> Len(src), reverse |-> TRUE], keys |-> keys]
  BY DEF Artful
<1>2. Shaped(n, m, f.offsets, f.targets) /\ Shaped(n, m, g.offsets, g.targets)
  BY <1>1 DEF Topology
<1>3. \E p : Laid(p, m, f.offsets, f.targets, src, tgt)
  BY <1>1, TopologyLaid
<1>4. \E p : Laid(p, m, g.offsets, g.targets, tgt, src)
  BY <1>1, TopologyLaid
<1>5. /\ art.forward.offsets = f.offsets /\ art.forward.targets = f.targets /\ art.metadata.node_count = n
      /\ art.inbound.offsets = g.offsets /\ art.inbound.targets = g.targets
  BY <1>1
<1>. QED  BY <1>2, <1>3, <1>4, <1>5 DEF Holds

\* Rows forward and inbound, in numbers and in members.
LEMMA HeldIs ==
  ASSUME NEW n \in Nat, NEW m \in Nat, NEW src, NEW tgt, NEW art, Holds(art, n, m, src, tgt),
         NEW u \in 0 .. n - 1, NEW v \in 0 .. n - 1
  PROVE  /\ Held(art.forward, u, v) = Cardinality(Between(src, tgt, m, u, v))
         /\ Held(art.inbound, v, u) = Cardinality(Between(src, tgt, m, u, v))
         /\ InSeq(v, SectionRow(art.forward, u)) <=> InSeq(u, SectionRow(art.inbound, v))
<1>1. PICK S, fo, ft, go, gt : /\ S = 0 .. n - 1 /\ fo = art.forward.offsets /\ ft = art.forward.targets
                               /\ go = art.inbound.offsets /\ gt = art.inbound.targets
  OBVIOUS
<1>2. /\ src \in Seq(S) /\ tgt \in Seq(S) /\ Len(src) = m /\ Len(tgt) = m
      /\ Shaped(n, m, fo, ft) /\ Shaped(n, m, go, gt)
  BY <1>1 DEF Holds
<1>3. PICK f, g : Laid(f, m, fo, ft, src, tgt) /\ Laid(g, m, go, gt, tgt, src)
  BY <1>1 DEF Holds
<1>4. PICK row, back : row = Row(fo, ft, u) /\ back = Row(go, gt, v)
  OBVIOUS
<1>5. /\ Often(row, v) = Cardinality(Between(src, tgt, m, u, v))
      /\ InSeq(v, row) <=> Between(src, tgt, m, u, v) # {}
  BY <1>1, <1>2, <1>3, <1>4, RowCounts
<1>6. /\ Often(back, u) = Cardinality(Between(tgt, src, m, v, u))
      /\ InSeq(u, back) <=> Between(tgt, src, m, v, u) # {}
  BY <1>1, <1>2, <1>3, <1>4, RowCounts
<1>7. Between(tgt, src, m, v, u) = Between(src, tgt, m, u, v)
  BY DEF Between
<1>8. SectionRow(art.forward, u) = row /\ SectionRow(art.inbound, v) = back
  BY <1>1, <1>4 DEF SectionRow
<1>9. InSeq(v, row) <=> InSeq(u, back)
  BY <1>5, <1>6, <1>7
<1>. QED  BY <1>5, <1>6, <1>7, <1>8, <1>9 DEF Held, Often

\* A snapshot of edge rows holds each row as often as it is there, both ways.
LEMMA RowsHeld ==
  ASSUME NEW edges \in Seq(EdgeRows), from_edge_rows(edges).err = "Ok", NEW art, art = from_edge_rows(edges).val
  PROVE  /\ art.keys = distinct_node_keys(edges)
         /\ Keyed(art, dense_node_map_from_keys(art.keys), edges) /\ Mirrored(art)
<1>1. PICK keys, map : /\ keys = distinct_node_keys(edges) /\ map = dense_node_map_from_keys(keys)
                       /\ keys \subseteq Int /\ IsFiniteSet(keys) /\ art.keys = keys
                       /\ \A i \in DOMAIN edges : edges[i].source \in keys /\ edges[i].target \in keys
  BY KeysFinite, RowsArtOK
<1>2. PICK n \in Nat : /\ n = Cardinality(keys)
                       /\ \E src, tgt \in Seq(0 .. n - 1) :
                            /\ Len(src) = Len(edges) /\ Len(tgt) = Len(edges)
                            /\ Numbered(edges, map, src, tgt) /\ Artful(art, n, src, tgt, keys)
  BY <1>1, RowsArtful
<1>3. PICK src, tgt \in Seq(0 .. n - 1) :
        /\ Len(src) = Len(edges) /\ Len(tgt) = Len(edges)
        /\ Numbered(edges, map, src, tgt) /\ Artful(art, n, src, tgt, keys)
  BY <1>2
<1>4. PICK m \in Nat : m = Len(edges) /\ DOMAIN edges = 1 .. m
  OBVIOUS
<1>5. Holds(art, n, m, src, tgt)
  BY <1>3, <1>4, ArtfulHolds
<1>6. map \in [keys -> 0 .. n - 1]
  BY <1>1, <1>2, DenseIs
<1>7. ASSUME NEW k0 \in keys, NEW k1 \in keys
      PROVE  Held(art.forward, map[k0], map[k1])
               = Cardinality({i \in DOMAIN edges : edges[i] = [source |-> k0, target |-> k1]})
  <2>1. PICK u, v \in 0 .. n - 1 : u = map[k0] /\ v = map[k1]
    BY <1>6
  <2>2. Held(art.forward, u, v) = Cardinality(Between(src, tgt, m, u, v))
    BY <1>5, HeldIs
  <2>3. ASSUME NEW i \in 1 .. m
        PROVE  (src[i] = u /\ tgt[i] = v) <=> edges[i] = [source |-> k0, target |-> k1]
    <3>1. PICK a, c : a = edges[i].source /\ c = edges[i].target
      OBVIOUS
    <3>2. edges[i] = [source |-> a, target |-> c]
      <4>1. edges[i] \in EdgeRows
        BY <1>4
      <4>. QED  BY <3>1, <4>1 DEF EdgeRows
    <3>3. a \in keys /\ c \in keys
      BY <1>1, <1>4, <3>1
    <3>4. src[i] = map[a] /\ tgt[i] = map[c]
      BY <1>3, <1>4, <3>1 DEF Numbered
    <3>5. ASSUME src[i] = u, tgt[i] = v PROVE a = k0 /\ c = k1
      <4>1. map[a] = map[k0] /\ map[c] = map[k1]
        BY <2>1, <3>4, <3>5
      <4>2. keys \subseteq Int /\ IsFiniteSet(keys) /\ map = dense_node_map_from_keys(keys) /\ k0 \in keys /\ k1 \in keys
        BY <1>1
      <4>. QED  BY ONLY <3>3, <4>1, <4>2, DenseInjective
    <3>6. edges[i] = [source |-> k0, target |-> k1] => a = k0 /\ c = k1
      BY <3>1
    <3>. QED  BY <2>1, <3>2, <3>4, <3>5, <3>6
  <2>4. Between(src, tgt, m, u, v) = {i \in DOMAIN edges : edges[i] = [source |-> k0, target |-> k1]}
    BY <1>4, <2>3 DEF Between
  <2>. QED  BY <2>1, <2>2, <2>4
<1>8. Mirrored(art)
  <2>1. NodesOf(art.forward) = n
    BY <1>5 DEF Holds, Shaped, NodesOf
  <2>2. ASSUME NEW u \in 0 .. n - 1, NEW v \in 0 .. n - 1 PROVE Held(art.forward, u, v) = Held(art.inbound, v, u)
    <3>1. /\ Held(art.forward, u, v) = Cardinality(Between(src, tgt, m, u, v))
          /\ Held(art.inbound, v, u) = Cardinality(Between(src, tgt, m, u, v))
      BY <1>5, HeldIs
    <3>. QED  BY <3>1
  <2>. QED  BY <2>1, <2>2 DEF Mirrored
<1>. QED  BY <1>1, <1>7, <1>8 DEF Keyed

\* Whoever writes the stored snapshot writes what it built before.
LEMMA StoreChanges ==
  ASSUME Next, store' # store
  PROVE  \E a \in Actors : built[a] # Absent /\ store' = built[a].art
<1>1. ~(Register \/ User)
  BY DEF Register, RegisterTable, RegisterEdge, RegisterFilter, graph_attach_sync_trigger, User, InsertRow, DeleteRow,
         LogByHand, Change
<1>2. CASE \E w \in Workers : Worker(w)
  <2>1. PICK w \in Workers : PassPersists(w)
    BY <1>2 DEF Worker, Wake, Pass, PassFails, Restart
  <2>. QED  BY <2>1 DEF PassPersists, Finishes, persist_snapshot_bytes, Actors
<1>3. CASE \E s \in Sessions : Session(s)
  <2>1. PICK s \in Sessions : Persist(s)
    BY <1>3 DEF Session, graph_reset, graph_load_snapshot, graph_load_persisted, graph_build, graph_rebuild,
                graph_sync_reload, graph_traverse, graph_maintenance, Fail
  <2>. QED  BY <2>1 DEF Persist, Finishes, persist_snapshot_bytes, Actors
<1>. QED  BY <1>1, <1>2, <1>3 DEF Next

\* Whoever comes to have something built has scanned the rows in that step.
LEMMA BuiltFromScan ==
  ASSUME Building, Next, NEW a \in Actors, built'[a] # built[a], built'[a] # Absent
  PROVE  built'[a].edges = Scanned.val
<1>1. ASSUME NEW x, NEW b, built' = [built EXCEPT ![x] = b], b = Absent \/ b.edges = Scanned.val
      PROVE  built'[a].edges = Scanned.val
  <2>1. built'[a] = IF a = x THEN b ELSE built[a]
    BY <1>1 DEF Building
  <2>. QED  BY <1>1, <2>1
<1>2. ASSUME NEW x, NEW call, NEW art, builds(x, call, Scanned.val, art)
      PROVE  built'[a].edges = Scanned.val
  <2>1. PICK b : b = [call |-> call, edges |-> Scanned.val, art |-> art]
    OBVIOUS
  <2>2. b.edges = Scanned.val /\ built' = [built EXCEPT ![x] = b]
    BY <1>2, <2>1 DEF builds
  <2>. QED  BY <1>1, <2>2
<1>3. ~(Register \/ User)
  BY DEF Register, RegisterTable, RegisterEdge, RegisterFilter, graph_attach_sync_trigger, User, InsertRow, DeleteRow,
         LogByHand, Change
<1>4. CASE \E w \in Workers : Worker(w)
  <2>1. PICK w \in Workers : Worker(w)
    BY <1>4
  <2>2. built' # built
    OBVIOUS
  <2>3. run_maintenance_pass(w, enabled[w]) \/ built' = [built EXCEPT ![w] = Absent]
    BY <2>1, <2>2 DEF Worker, Wake, Pass, PassPersists, PassFails, Restart, Finishes
  <2>. QED  BY <1>1, <1>2, <2>3 DEF run_maintenance_pass
<1>5. CASE \E s \in Sessions : Session(s)
  <2>1. PICK s \in Sessions : Session(s)
    BY <1>5
  <2>2. ~Call(s)
    BY DEF Call
  <2>3. \/ graph_build(s) \/ graph_rebuild(s) \/ (\E on : run_maintenance_pass(s, on))
        \/ built' = [built EXCEPT ![s] = Absent]
    BY <2>1, <2>2 DEF Session, graph_reset, graph_load_snapshot, graph_load_persisted, graph_sync_reload,
                      graph_traverse, graph_maintenance, Persist, Fail, Finishes
  <2>4. CASE graph_build(s)
    BY <1>2, <2>4 DEF graph_build
  <2>5. CASE graph_rebuild(s)
    BY <1>2, <2>5 DEF graph_rebuild
  <2>6. CASE \E on : run_maintenance_pass(s, on)
    BY <1>2, <2>6 DEF run_maintenance_pass
  <2>. QED  BY <1>1, <2>3, <2>4, <2>5, <2>6
<1>. QED  BY <1>3, <1>4, <1>5 DEF Next

\* Whatever tables, rows, sessions, workers and bounds, and whatever is committed between a scan
\* and the write of what was built from it: whenever the stored snapshot changes, it holds the edge
\* rows that one scan found, every pair of keys as often as there were rows of it, forward and
\* inbound.
THEOREM SnapshotWhole == Spec => RebuiltWhole
<1>1. ExtensionInv /\ [Next]_vars =>
        [/\ \A a \in Actors : built'[a] # built[a] /\ built'[a] # Absent => built'[a].edges = Scanned.val
         /\ store' # store => \E a \in Actors : built[a] # Absent /\ Whole(store', built[a].edges)]_vars
  <2>1. ASSUME ExtensionInv, Next
        PROVE  \A a \in Actors : built'[a] # built[a] /\ built'[a] # Absent => built'[a].edges = Scanned.val
    BY <2>1, BuiltFromScan DEF ExtensionInv
  <2>2. ASSUME ExtensionInv, Next, store' # store
        PROVE  \E a \in Actors : built[a] # Absent /\ Whole(store', built[a].edges)
    <3>1. PICK a \in Actors : built[a] # Absent /\ store' = built[a].art
      BY <2>2, StoreChanges
    <3>2. PICK edges, art : edges = built[a].edges /\ art = built[a].art
      OBVIOUS
    <3>3. edges \in Seq(EdgeRows) /\ from_edge_rows(edges).err = "Ok" /\ art = from_edge_rows(edges).val
      BY <2>2, <3>1, <3>2 DEF ExtensionInv, Building, BuiltOK
    <3>4. Whole(art, edges)
      BY <3>3, RowsHeld DEF Whole
    <3>. QED  BY <3>1, <3>2, <3>4
  <2>. QED  BY <2>1, <2>2
<1>. QED  BY <1>1, Invariant, PTL DEF Spec, RebuiltWhole

================================================================================
