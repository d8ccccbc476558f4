---------------------------- MODULE OxgWal_proofs ----------------------------
(***************************************************************************)
(* Proofs about OxgWal, for logs of any length, records of any size and any *)
(* number of torn appends, stray prefixes and rotten cells: replay accepts  *)
(* a prefix of the commits and leaves a clean end, and where lengths can be *)
(* trusted it drops nothing but the damaged tail.                           *)
(***************************************************************************)
EXTENDS OxgWal, SequenceTheorems, OxgInduction, TLAPS

-----------------------------------------------------------------------------
(* Concatenation *)

\* One more piece at the end.
LEMMA Extended ==
  ASSUME NEW A, NEW x \in Seq(A), NEW y \in Seq(A), NEW r \in Seq(A), NEW p, p = x \o y
  PROVE  /\ y \o r \in Seq(A) /\ p \o r = x \o (y \o r)
         /\ Len(y \o r) = Len(y) + Len(r)
         /\ r # << >> => y \o r # << >>
<1>1. y \o r \in Seq(A) /\ Len(y \o r) = Len(y) + Len(r)
  BY ConcatProperties
<1>2. r # << >> => y \o r # << >>
  BY ConcatEqualIffEmpty
<1>3. p \o r = x \o (y \o r)
  BY ConcatAssociative
<1>. QED  BY <1>1, <1>2, <1>3

\* p is x followed by y.
Joined(p, x, y) == p = x \o y

\* One more piece, on either side of what p begins with.
LEMMA JoinedMore ==
  ASSUME NEW A, NEW x \in Seq(A), NEW y \in Seq(A), NEW r \in Seq(A), NEW p, NEW q,
         Joined(p, x, y), Joined(q, p, r)
  PROVE  \E more \in Seq(A) :
           Joined(q, x, more) /\ Joined(more, y, r) /\ (r # << >> => more # << >>)
<1>1. y \o r \in Seq(A) /\ p \o r = x \o (y \o r) /\ (r # << >> => y \o r # << >>)
  BY Extended DEF Joined
<1>. QED  BY <1>1 DEF Joined

\* What iterates to the concatenation of s.
Concat(A, s) == [k \in 1 .. Len(s) |-> [X \in Seq(A) |-> X \o s[k]]]

\* The recursive definition of FlattenSeq, unrolled into a table.
LEMMA FlattenIs ==
  ASSUME NEW A, NEW s \in Seq(Seq(A)), NEW b, Iterates(b, Len(s), Seq(A), << >>, Concat(A, s))
  PROVE  FlattenSeq(s) = b[Len(s)]
<1>. DEFINE n == Len(s)
            Def(u) == [i \in 1 .. n |-> IF i = 1 THEN s[i] ELSE u[i - 1] \o s[i]]
            flatten == CHOOSE u : u = Def(u)
            f == [i \in 1 .. n |-> b[i]]
<1>0. n \in Nat /\ \A i \in 1 .. n : s[i] \in Seq(A)
  OBVIOUS
<1>1. /\ b[0] = << >> /\ \A k \in 0 .. n : b[k] \in Seq(A)
      /\ \A k \in 1 .. n : b[k] = b[k - 1] \o s[k]
  <2>1. /\ b \in [0 .. n -> Seq(A)] /\ b[0] = << >>
        /\ \A k \in 1 .. n : b[k] = Concat(A, s)[k][b[k - 1]]
    BY DEF Iterates
  <2>2. \A k \in 1 .. n : k - 1 \in 0 .. n
    BY <1>0
  <2>3. \A k \in 1 .. n : Concat(A, s)[k] = [X \in Seq(A) |-> X \o s[k]]
    BY DEF Concat
  <2>4. \A k \in 1 .. n : b[k] = b[k - 1] \o s[k]
    BY <2>1, <2>2, <2>3
  <2>. QED  BY <2>1, <2>4
<1>2. CASE n = 0
  <2>1. FlattenSeq(s) = s /\ s = << >>
    BY <1>2 DEF FlattenSeq
  <2>. QED  BY <1>1, <1>2, <2>1
<1>3. CASE n # 0
  <2>1. f = Def(f)
    <3>. SUFFICES ASSUME NEW i \in 1 .. n
         PROVE  b[i] = IF i = 1 THEN s[i] ELSE f[i - 1] \o s[i]
      OBVIOUS
    <3>1. CASE i = 1
      <4>1. PICK r \in Seq(A) : r = s[i]
        BY <1>0
      <4>2. << >> \o r = r
        BY ConcatEmptySeq
      <4>3. i - 1 = 0
        BY <3>1
      <4>4. b[i] = b[0] \o s[i]
        BY <1>1, <4>3
      <4>. QED  BY <1>1, <3>1, <4>1, <4>2, <4>4
    <3>2. CASE i # 1
      <4>1. i - 1 \in 1 .. n
        BY <1>0, <3>2
      <4>. QED  BY <1>1, <3>2, <4>1
    <3>. QED  BY <3>1, <3>2
  <2>2. flatten = Def(flatten)
    <3>1. \E u : u = Def(u)
      BY <2>1
    <3>. QED  BY <3>1
  <2>3. FlattenSeq(s) = flatten[n]
    BY <1>3 DEF FlattenSeq
  <2>. DEFINE T == {0} \cup {i \in 1 .. n : flatten[i] = b[i]}
  <2>. HIDE DEF flatten
  <2>4. ASSUME NEW i \in 1 .. n, i - 1 \in T PROVE i \in T
    <3>1. flatten[i] = IF i = 1 THEN s[i] ELSE flatten[i - 1] \o s[i]
      BY <2>2
    <3>2. b[i] = IF i = 1 THEN s[i] ELSE b[i - 1] \o s[i]
      <4>1. b[i] = f[i] /\ f[i] = Def(f)[i]
        BY <2>1
      <4>2. i # 1 => i - 1 \in 1 .. n
        BY <1>0
      <4>. QED  BY <4>1, <4>2
    <3>3. i # 1 => flatten[i - 1] = b[i - 1]
      BY <1>0, <2>4
    <3>. QED  BY <3>1, <3>2, <3>3
  <2>5. \A i \in 0 .. n : i \in T
    <3>1. 0 \in T
      OBVIOUS
    <3>. HIDE DEF T, n
    <3>. QED  BY <1>0, <2>4, <3>1, AllUpTo
  <2>6. n \in 1 .. n /\ n \in 0 .. n
    BY <1>0, <1>3
  <2>. QED  BY <2>3, <2>5, <2>6
<1>. QED  BY <1>2, <1>3

\* Concatenating one more sequence.
LEMMA FlattenAppend ==
  ASSUME NEW A, NEW s \in Seq(Seq(A)), NEW r \in Seq(A)
  PROVE  FlattenSeq(s) \in Seq(A) /\ FlattenSeq(Append(s, r)) = FlattenSeq(s) \o r
<1>. DEFINE n == Len(s)
            t == Append(s, r)
<1>1. /\ n \in Nat /\ t \in Seq(Seq(A)) /\ Len(t) = n + 1 /\ t[n + 1] = r
      /\ \A i \in 1 .. n : t[i] = s[i]
  BY AppendProperties
<1>. HIDE DEF t
<1>2. PICK c : Iterates(c, n + 1, Seq(A), << >>, Concat(A, t))
  <2>1. Concat(A, t) \in [1 .. n + 1 -> [Seq(A) -> Seq(A)]]
    <3>1. \A k \in 1 .. n + 1 : t[k] \in Seq(A)
      BY <1>1
    <3>2. \A k \in 1 .. n + 1 : \A X \in Seq(A) : X \o t[k] \in Seq(A)
      BY <3>1, ConcatProperties
    <3>. QED  BY <1>1, <3>2 DEF Concat
  <2>2. n + 1 \in Nat /\ << >> \in Seq(A)
    BY <1>1
  <2>. HIDE DEF n
  <2>. QED  BY <2>1, <2>2, IteratesExist
<1>. DEFINE b == [k \in 0 .. n |-> c[k]]
<1>3. Iterates(b, n, Seq(A), << >>, Concat(A, s))
  <2>1. ASSUME NEW k \in 1 .. n PROVE Concat(A, t)[k] = Concat(A, s)[k]
    <3>1. k \in 1 .. n + 1 /\ t[k] = s[k]
      BY <1>1
    <3>. QED  BY <1>1, <3>1 DEF Concat
  <2>2. /\ \A k \in 0 .. n : k \in 0 .. n + 1
        /\ \A k \in 1 .. n : k \in 1 .. n + 1 /\ k - 1 \in 0 .. n
        /\ 0 \in 0 .. n
    BY <1>1
  <2>3. /\ c \in [0 .. n + 1 -> Seq(A)] /\ c[0] = << >>
        /\ \A k \in 1 .. n + 1 : c[k] = Concat(A, t)[k][c[k - 1]]
    BY <1>2 DEF Iterates
  <2>4. b \in [0 .. n -> Seq(A)] /\ b[0] = << >>
    BY <2>2, <2>3
  <2>5. ASSUME NEW k \in 1 .. n PROVE b[k] = Concat(A, s)[k][b[k - 1]]
    <3>1. b[k] = c[k] /\ b[k - 1] = c[k - 1]
      BY <2>2
    <3>2. c[k] = Concat(A, t)[k][c[k - 1]]
      BY <2>2, <2>3
    <3>. QED  BY <2>1, <3>1, <3>2
  <2>. QED  BY <2>4, <2>5 DEF Iterates
<1>4. FlattenSeq(s) = c[n] /\ c[n] \in Seq(A)
  <2>1. FlattenSeq(s) = b[n]
    BY <1>3, FlattenIs
  <2>. QED  BY <1>1, <1>2, <2>1 DEF Iterates
<1>5. FlattenSeq(t) = c[n + 1]
  BY <1>1, <1>2, FlattenIs
<1>6. c[n + 1] = c[n] \o r
  <2>1. n + 1 \in 1 .. n + 1 /\ (n + 1) - 1 = n
    BY <1>1
  <2>2. Concat(A, t)[n + 1] = [X \in Seq(A) |-> X \o r]
    BY <1>1, <2>1 DEF Concat
  <2>. QED  BY <1>2, <1>4, <2>1, <2>2 DEF Iterates
<1>. QED  BY <1>4, <1>5, <1>6 DEF t

\* What follows the first k of the first m sequences.
LEMMA FlattenCut ==
  ASSUME NEW A, NEW s \in Seq(Seq(A)), NEW k \in 0 .. Len(s), NEW m \in 0 .. Len(s), k <= m
  PROVE  \E later \in Seq(A) :
           /\ Joined(FlattenSeq(SubSeq(s, 1, m)), FlattenSeq(SubSeq(s, 1, k)), later)
           /\ k < m /\ (\A i \in 1 .. Len(s) : s[i] # << >>) => later # << >>
<1>. DEFINE Cut(j) == \E later \in Seq(A) :
              /\ Joined(FlattenSeq(SubSeq(s, 1, j)), FlattenSeq(SubSeq(s, 1, k)), later)
              /\ k < j /\ (\A i \in 1 .. Len(s) : s[i] # << >>) => later # << >>
            T == {j \in 0 .. Len(s) : k <= j => Cut(j)}
<1>0. Len(s) \in Nat /\ \A j \in 0 .. Len(s) : SubSeq(s, 1, j) \in Seq(Seq(A))
  OBVIOUS
<1>1. \A j \in 0 .. Len(s) : FlattenSeq(SubSeq(s, 1, j)) \in Seq(A)
  <2>1. << >> \in Seq(A)
    OBVIOUS
  <2>. QED  BY <1>0, <2>1, FlattenAppend
<1>2. Cut(k)
  <2>1. Joined(FlattenSeq(SubSeq(s, 1, k)), FlattenSeq(SubSeq(s, 1, k)), << >>) /\ ~(k < k)
    BY <1>0, <1>1, ConcatEmptySeq DEF Joined
  <2>2. << >> \in Seq(A)
    OBVIOUS
  <2>. QED  BY <2>1, <2>2
<1>3. 0 \in T
  <2>1. CASE k = 0
    BY <1>0, <1>2, <2>1
  <2>2. CASE k # 0
    BY <1>0, <2>2
  <2>. QED  BY <2>1, <2>2
<1>4. ASSUME NEW j \in 1 .. Len(s), j - 1 \in T PROVE j \in T
  <2>1. CASE k = j
    BY <1>2, <2>1
  <2>2. CASE k < j
    <3>1. k <= j - 1 /\ j - 1 \in 0 .. Len(s)
      BY <1>0, <2>2
    <3>2. PICK x \in Seq(A) : x = FlattenSeq(SubSeq(s, 1, k))
      BY <1>1
    <3>3. PICK p : p = FlattenSeq(SubSeq(s, 1, j - 1))
      OBVIOUS
    <3>4. PICK r \in Seq(A) : r = s[j]
      BY <1>0
    <3>5. PICK later \in Seq(A) : Joined(p, x, later)
      BY <1>4, <3>1, <3>2, <3>3
    <3>6. Joined(FlattenSeq(SubSeq(s, 1, j)), p, r)
      <4>1. SubSeq(s, 1, j) = Append(SubSeq(s, 1, j - 1), s[j])
        OBVIOUS
      <4>2. SubSeq(s, 1, j - 1) \in Seq(Seq(A))
        BY <1>0, <3>1
      <4>. QED  BY <3>3, <3>4, <4>1, <4>2, FlattenAppend DEF Joined
    <3>7. PICK more \in Seq(A) :
            Joined(FlattenSeq(SubSeq(s, 1, j)), x, more) /\ (r # << >> => more # << >>)
      BY <3>5, <3>6, JoinedMore
    <3>8. (\A i \in 1 .. Len(s) : s[i] # << >>) => more # << >>
      BY <3>4, <3>7
    <3>9. Cut(j)
      BY <3>2, <3>7, <3>8
    <3>10. j \in 0 .. Len(s)
      BY <1>0
    <3>. HIDE DEF Cut
    <3>. QED  BY <3>9, <3>10
  <2>3. CASE ~(k <= j)
    BY <2>3
  <2>4. k = j \/ k < j \/ ~(k <= j)
    BY <1>0
  <2>. QED  BY <2>1, <2>2, <2>3, <2>4
<1>5. m \in T
  <2>. HIDE DEF T
  <2>. QED  BY <1>0, <1>3, <1>4, AllUpTo
<1>. QED  BY <1>5

\* What follows the first k of the first m sequences begins with the next of them.
LEMMA FlattenNext ==
  ASSUME NEW A, NEW s \in Seq(Seq(A)), NEW k \in 0 .. Len(s), NEW m \in 0 .. Len(s), k < m
  PROVE  \E later, more \in Seq(A) :
           /\ Joined(FlattenSeq(SubSeq(s, 1, m)), FlattenSeq(SubSeq(s, 1, k)), later)
           /\ Joined(later, s[k + 1], more)
           /\ k + 1 < m /\ (\A i \in 1 .. Len(s) : s[i] # << >>) => more # << >>
<1>1. k + 1 \in 0 .. Len(s) /\ k + 1 <= m /\ k + 1 \in 1 .. Len(s)
  OBVIOUS
<1>2. PICK y \in Seq(A) : y = s[k + 1]
  BY <1>1
<1>3. PICK more \in Seq(A) :
        /\ Joined(FlattenSeq(SubSeq(s, 1, m)), FlattenSeq(SubSeq(s, 1, k + 1)), more)
        /\ k + 1 < m /\ (\A i \in 1 .. Len(s) : s[i] # << >>) => more # << >>
  BY <1>1, FlattenCut
<1>4. SubSeq(s, 1, k) \in Seq(Seq(A)) /\ SubSeq(s, 1, k + 1) = Append(SubSeq(s, 1, k), s[k + 1])
  BY <1>1
<1>5. PICK x \in Seq(A) : x = FlattenSeq(SubSeq(s, 1, k))
  BY <1>2, <1>4, FlattenAppend
<1>6. Joined(FlattenSeq(SubSeq(s, 1, k + 1)), x, y)
  BY <1>2, <1>4, <1>5, FlattenAppend DEF Joined
<1>7. PICK later \in Seq(A) : Joined(FlattenSeq(SubSeq(s, 1, m)), x, later) /\ Joined(later, y, more)
  BY <1>3, <1>6, JoinedMore
<1>. QED  BY <1>2, <1>3, <1>5, <1>7

-----------------------------------------------------------------------------
(* Bytes *)

\* Kept folded: what the proofs need of cells in a row is in the next lemmas.
Bytes == Seq(Cells)

\* The two parts of a concatenation.
LEMMA JoinedParts ==
  ASSUME NEW x \in Bytes, NEW y \in Bytes, NEW p, Joined(p, x, y)
  PROVE  /\ p \in Bytes /\ Len(x) \in Nat /\ Len(y) \in Nat /\ Len(p) \in Nat
         /\ Len(p) = Len(x) + Len(y)
         /\ SubSeq(p, 1, Len(x)) = x /\ SubSeq(p, Len(x) + 1, Len(p)) = y
         /\ \A i \in 1 .. Len(x) : p[i] = x[i]
         /\ \A i \in 1 .. Len(y) : p[Len(x) + i] = y[i]
<1>1. p \in Bytes /\ Len(x) \in Nat /\ Len(y) \in Nat /\ Len(p) = Len(x) + Len(y) /\ Len(p) \in Nat
  BY DEF Joined, Bytes
<1>2. SubSeq(p, 1, Len(x)) = x
  BY DEF Joined, Bytes
<1>3. SubSeq(p, Len(x) + 1, Len(p)) = y
  BY DEF Joined, Bytes
<1>4. \A i \in 1 .. Len(x) : p[i] = x[i]
  BY DEF Joined, Bytes
<1>5. \A i \in 1 .. Len(y) : p[Len(x) + i] = y[i]
  BY DEF Joined, Bytes
<1>. QED  BY <1>1, <1>2, <1>3, <1>4, <1>5

\* Bytes can be joined.
LEMMA JoinedExists ==
  ASSUME NEW x \in Bytes, NEW y \in Bytes
  PROVE  \E p \in Bytes : Joined(p, x, y)
BY ConcatProperties DEF Joined, Bytes

\* A prefix.
LEMMA PrefixParts ==
  ASSUME NEW x \in Bytes, NEW n \in 0 .. Len(x)
  PROVE  /\ Len(x) \in Nat /\ SubSeq(x, 1, n) \in Bytes /\ Len(SubSeq(x, 1, n)) = n
         /\ \A i \in 1 .. n : SubSeq(x, 1, n)[i] = x[i]
BY DEF Bytes

\* A suffix.
LEMMA SuffixParts ==
  ASSUME NEW x \in Bytes, NEW n \in 0 .. Len(x)
  PROVE  /\ Len(x) \in Nat /\ SubSeq(x, n + 1, Len(x)) \in Bytes
         /\ Len(SubSeq(x, n + 1, Len(x))) = Len(x) - n
         /\ \A i \in 1 .. Len(x) - n : SubSeq(x, n + 1, Len(x))[i] = x[n + i]
<1>1. Len(x) \in Nat /\ \A i \in 1 .. Len(x) : x[i] \in Cells
  BY DEF Bytes
<1>2. \A i \in n + 1 .. Len(x) : x[i] \in Cells
  BY <1>1
<1>3. /\ SubSeq(x, n + 1, Len(x)) \in Seq(Cells)
      /\ Len(SubSeq(x, n + 1, Len(x))) = IF n + 1 <= Len(x) THEN Len(x) - (n + 1) + 1 ELSE 0
      /\ \A i \in 1 .. Len(x) - (n + 1) + 1 : SubSeq(x, n + 1, Len(x))[i] = x[(n + 1) + i - 1]
  BY <1>1, <1>2, SubSeqProperties
<1>4. PICK y : y = SubSeq(x, n + 1, Len(x))
  OBVIOUS
<1>5. Len(y) = Len(x) - n
  BY <1>1, <1>3, <1>4
<1>6. ASSUME NEW i \in 1 .. Len(x) - n PROVE y[i] = x[n + i]
  <2>1. i \in 1 .. Len(x) - (n + 1) + 1 /\ (n + 1) + i - 1 = n + i
    BY <1>1
  <2>2. y[i] = x[(n + 1) + i - 1]
    BY <1>3, <1>4, <2>1
  <2>. QED  BY <2>1, <2>2
<1>. QED  BY <1>1, <1>3, <1>4, <1>5, <1>6 DEF Bytes

\* Equal bytes.
LEMMA SameBytes ==
  ASSUME NEW x \in Bytes, NEW y \in Bytes, Len(x) = Len(y), \A i \in 1 .. Len(x) : x[i] = y[i]
  PROVE  x = y
BY SeqEqual DEF Bytes

-----------------------------------------------------------------------------
(* Records *)

\* r is laid out as encode_commit lays out commit i.
IsRecord(i, r) ==
    /\ r \in Bytes /\ Len(r) >= 7
    /\ r[1] = Cell(Generation) /\ r[2] = Cell(i) /\ r[4] = Cell(OXGLOGR) /\ r[5] = Cell(Len(r))
    /\ \E ops \in Nat : r[6] = Cell(ops) /\ HEADER_LEN + ops * OP_LEN <= Len(r)
    /\ r[7] = record_crc(r)
    /\ \A j \in 1 .. 6 : \E n \in Nat : r[j] = Cell(n)
    /\ \A j \in 8 .. Len(r) : r[j] # Cell(Generation)

\* A cell is a number or a checksum, never both.
LEMMA CellFacts ==
  /\ HEADER_LEN = 7
  /\ \A n : Number(Cell(n)) = n
  /\ \A m, n : Cell(m) = Cell(n) => m = n
  /\ \A n, r : Cell(n) # record_crc(r)
  /\ \A n \in Nat : Cell(n) \in Cells
<1>1. HEADER_LEN = 7
  BY DEF HEADER_LEN, Fields
<1>2. \A n : Number(Cell(n)) = n
  BY DEF Number, Cell
<1>3. \A m, n : Cell(m) = Cell(n) => m = n
  BY DEF Cell
<1>4. \A n, r : Cell(n) # record_crc(r)
  BY DEF Cell, record_crc
<1>5. \A n \in Nat : Cell(n) \in Cells
  BY DEF Cell, Cells
<1>. QED  BY <1>1, <1>2, <1>3, <1>4, <1>5

\* What a checksum covers, cell by cell.
LEMMA CrcCovers ==
  ASSUME NEW x \in Bytes, Len(x) >= 7
  PROVE  \E c \in Bytes :
           /\ record_crc(x) = [covers |-> c] /\ Len(c) = Len(x) - 1
           /\ \A j \in 1 .. 6 : c[j] = x[j]
           /\ \A j \in 8 .. Len(x) : c[j - 1] = x[j]
<1>0. Len(x) \in Nat /\ 6 \in 0 .. Len(x)
  BY DEF Bytes
<1>1. PICK h \in Bytes : h = SubSeq(x, 1, 6) /\ Len(h) = 6 /\ \A j \in 1 .. 6 : h[j] = x[j]
  BY <1>0, PrefixParts
<1>b. PICK b \in Bytes : /\ b = SubSeq(x, 8, Len(x)) /\ Len(b) = Len(x) - 7
                         /\ \A j \in 1 .. Len(x) - 7 : b[j] = x[7 + j]
  <2>1. 7 \in 0 .. Len(x) /\ 7 + 1 = 8
    BY <1>0
  <2>. QED  BY <2>1, SuffixParts
<1>2. PICK c \in Bytes : Joined(c, h, b)
  BY JoinedExists
<1>3. record_crc(x) = [covers |-> c]
  <2>1. c = h \o b
    BY <1>2 DEF Joined
  <2>2. record_crc(x) = [covers |-> SubSeq(x, 1, 6) \o SubSeq(x, 8, Len(x))]
    BY CellFacts DEF record_crc
  <2>. QED  BY <1>1, <1>b, <2>1, <2>2
<1>4. /\ Len(c) = 6 + Len(b) /\ \A j \in 1 .. 6 : c[j] = h[j]
      /\ \A j \in 1 .. Len(b) : c[6 + j] = b[j]
  <2>1. Len(c) = Len(h) + Len(b)
    BY ONLY h \in Bytes, b \in Bytes, <1>2, JoinedParts
  <2>2. \A j \in 1 .. Len(h) : c[j] = h[j]
    BY ONLY h \in Bytes, b \in Bytes, <1>2, JoinedParts
  <2>3. \A j \in 1 .. Len(b) : c[Len(h) + j] = b[j]
    BY ONLY h \in Bytes, b \in Bytes, <1>2, JoinedParts
  <2>4. Len(h) = 6
    BY <1>1
  <2>. QED  BY ONLY <2>1, <2>2, <2>3, <2>4
<1>5. ASSUME NEW j \in 8 .. Len(x) PROVE c[j - 1] = x[j]
  <2>1. j - 7 \in 1 .. Len(x) - 7 /\ 6 + (j - 7) = j - 1 /\ 7 + (j - 7) = j
    BY <1>0
  <2>2. b[j - 7] = x[j]
    BY <1>b, <2>1
  <2>3. c[j - 1] = b[j - 7]
    BY <1>b, <1>4, <2>1
  <2>. QED  BY <2>2, <2>3
<1>6. Len(c) = Len(x) - 1 /\ \A j \in 1 .. 6 : c[j] = x[j]
  BY <1>0, <1>1, <1>b, <1>4
<1>. QED  BY <1>2, <1>3, <1>5, <1>6

\* Checksums agree exactly when all cells but the checksums' own do.
LEMMA CrcExact ==
  ASSUME NEW x \in Bytes, Len(x) >= 7, NEW y \in Bytes, Len(y) >= 7
  PROVE  record_crc(x) = record_crc(y) <=>
           Len(x) = Len(y) /\ \A j \in 1 .. Len(x) : j # 7 => x[j] = y[j]
<1>1. PICK c \in Bytes :
           /\ record_crc(x) = [covers |-> c] /\ Len(c) = Len(x) - 1
           /\ \A j \in 1 .. 6 : c[j] = x[j]
           /\ \A j \in 8 .. Len(x) : c[j - 1] = x[j]
  BY CrcCovers
<1>2. PICK d \in Bytes :
           /\ record_crc(y) = [covers |-> d] /\ Len(d) = Len(y) - 1
           /\ \A j \in 1 .. 6 : d[j] = y[j]
           /\ \A j \in 8 .. Len(y) : d[j - 1] = y[j]
  BY CrcCovers
<1>3. record_crc(x) = record_crc(y) <=> c = d
  BY <1>1, <1>2
<1>4. Len(x) \in Nat /\ Len(y) \in Nat /\ Len(c) \in Nat
  BY DEF Bytes
<1>5. ASSUME c = d PROVE Len(x) = Len(y) /\ \A j \in 1 .. Len(x) : j # 7 => x[j] = y[j]
  <2>1. Len(x) = Len(y)
    BY <1>1, <1>2, <1>4, <1>5
  <2>2. ASSUME NEW j \in 1 .. Len(x), j # 7 PROVE x[j] = y[j]
    <3>1. CASE j \in 1 .. 6
      BY <1>1, <1>2, <1>5, <3>1
    <3>2. CASE j \in 8 .. Len(x)
      BY <1>1, <1>2, <1>5, <2>1, <3>2
    <3>. QED  BY <1>4, <2>2, <3>1, <3>2
  <2>. QED  BY <2>1, <2>2
<1>6. ASSUME Len(x) = Len(y), \A j \in 1 .. Len(x) : j # 7 => x[j] = y[j] PROVE c = d
  <2>1. ASSUME NEW j \in 1 .. Len(c) PROVE c[j] = d[j]
    <3>1. CASE j \in 1 .. 6
      <4>1. j \in 1 .. Len(x) /\ j # 7
        BY <1>4, <3>1
      <4>. QED  BY <1>1, <1>2, <1>6, <3>1, <4>1
    <3>2. CASE ~(j \in 1 .. 6)
      <4>1. j + 1 \in 8 .. Len(x) /\ (j + 1) - 1 = j /\ j + 1 \in 1 .. Len(x) /\ j + 1 # 7
        BY <1>1, <1>4, <3>2
      <4>2. c[j] = x[j + 1] /\ d[j] = y[j + 1]
        BY <1>1, <1>2, <1>6, <4>1
      <4>. QED  BY <1>6, <4>1, <4>2
    <3>. QED  BY <3>1, <3>2
  <2>2. Len(c) = Len(d)
    BY <1>1, <1>2, <1>6
  <2>. QED  BY <2>1, <2>2, SameBytes
<1>. QED  BY <1>3, <1>5, <1>6

\* Three parts: a header without its checksum, the checksum and the body.
LEMMA HeadJoin ==
  ASSUME NEW h \in Bytes, NEW k \in Bytes, NEW b \in Bytes, Len(h) = 6, Len(k) = 1,
         NEW p \in Bytes, NEW r \in Bytes, Joined(p, h, k), Joined(r, p, b)
  PROVE  /\ Len(b) \in Nat /\ Len(r) = 7 + Len(b)
         /\ \A j \in 1 .. 6 : r[j] = h[j]
         /\ r[7] = k[1]
         /\ \A j \in 1 .. Len(b) : r[7 + j] = b[j]
<1>4. /\ Len(p) = 6 + Len(k) /\ \A j \in 1 .. 6 : p[j] = h[j]
      /\ \A j \in 1 .. Len(k) : p[6 + j] = k[j]
  <2>1. Len(p) = Len(h) + Len(k)
    BY ONLY h \in Bytes, k \in Bytes, Joined(p, h, k), JoinedParts
  <2>2. \A j \in 1 .. Len(h) : p[j] = h[j]
    BY ONLY h \in Bytes, k \in Bytes, Joined(p, h, k), JoinedParts
  <2>3. \A j \in 1 .. Len(k) : p[Len(h) + j] = k[j]
    BY ONLY h \in Bytes, k \in Bytes, Joined(p, h, k), JoinedParts
  <2>4. Len(h) = 6
    OBVIOUS
  <2>. QED  BY ONLY <2>1, <2>2, <2>3, <2>4
<1>5. Len(p) = 7 /\ p[7] = k[1]
  <2>1. 1 \in 1 .. Len(k) /\ 6 + 1 = 7
    OBVIOUS
  <2>2. p[6 + 1] = k[1]
    BY <1>4, <2>1
  <2>. QED  BY <1>4, <2>1, <2>2
<1>6. /\ Len(b) \in Nat /\ Len(r) = 7 + Len(b) /\ \A j \in 1 .. 7 : r[j] = p[j]
      /\ \A j \in 1 .. Len(b) : r[7 + j] = b[j]
  <2>1. Len(r) = Len(p) + Len(b)
    BY ONLY p \in Bytes, b \in Bytes, Joined(r, p, b), JoinedParts
  <2>2. \A j \in 1 .. Len(p) : r[j] = p[j]
    BY ONLY p \in Bytes, b \in Bytes, Joined(r, p, b), JoinedParts
  <2>3. \A j \in 1 .. Len(b) : r[Len(p) + j] = b[j]
    BY ONLY p \in Bytes, b \in Bytes, Joined(r, p, b), JoinedParts
  <2>4. Len(p) = 7
    BY <1>5
  <2>5. Len(b) \in Nat
    BY DEF Bytes
  <2>. QED  BY ONLY <2>1, <2>2, <2>3, <2>4, <2>5
<1>7. r[7] = k[1] /\ \A j \in 1 .. 6 : r[j] = h[j]
  <2>1. 7 \in 1 .. 7 /\ \A j \in 1 .. 6 : j \in 1 .. 7
    OBVIOUS
  <2>. QED  BY ONLY <1>4, <1>5, <1>6, <2>1
<1>. QED  BY <1>6, <1>7

\* encode_commit lays its commit out as a record.
LEMMA EncodeShape ==
  ASSUME NEW i \in Nat, NEW ops \in Nat, NEW blob \in Nat
  PROVE  IsRecord(i, encode_commit(i, i, ops, blob))
<1>. DEFINE header == <<Cell(Generation), Cell(i), Cell(i), Cell(OXGLOGR),
                        Cell(HEADER_LEN + ops * OP_LEN + blob), Cell(ops)>>
            body == [j \in 1 .. (ops * OP_LEN + blob) |-> Cell(20 + i)]
            zero == <<Cell(0)>>
<1>1. PICK n \in Nat : n = ops * OP_LEN + blob /\ n = ops + blob
  BY DEF OP_LEN
<1>2. /\ header \in Bytes /\ Len(header) = 6
      /\ header[1] = Cell(Generation) /\ header[2] = Cell(i) /\ header[3] = Cell(i)
      /\ header[4] = Cell(OXGLOGR) /\ header[5] = Cell(HEADER_LEN + ops * OP_LEN + blob)
      /\ header[6] = Cell(ops)
  <2>1. /\ Generation \in Nat /\ OXGLOGR \in Nat
        /\ HEADER_LEN + ops * OP_LEN + blob \in Nat
    BY CellFacts DEF Generation, OXGLOGR, OP_LEN
  <2>2. /\ Cell(Generation) \in Cells /\ Cell(i) \in Cells /\ Cell(OXGLOGR) \in Cells
        /\ Cell(HEADER_LEN + ops * OP_LEN + blob) \in Cells /\ Cell(ops) \in Cells
    BY <2>1, CellFacts
  <2>3. header \in Seq(Cells)
    BY <2>2
  <2>. QED  BY <2>3 DEF Bytes
<1>4. body \in Bytes /\ Len(body) = n /\ \A j \in 1 .. n : body[j] = Cell(20 + i)
  <2>1. Cell(20 + i) \in Cells
    BY CellFacts
  <2>2. body \in Seq(Cells)
    BY <1>1, <2>1
  <2>3. Len(body) = n
    BY <1>1, <2>1
  <2>. QED  BY <1>1, <2>2, <2>3 DEF Bytes
<1>5. zero \in Bytes /\ Len(zero) = 1 /\ zero[1] = Cell(0)
  <2>1. Cell(0) \in Cells
    BY CellFacts
  <2>2. zero \in Seq(Cells)
    BY <2>1
  <2>. QED  BY <2>2 DEF Bytes
<1>e. encode_commit(i, i, ops, blob) = header \o <<record_crc(header \o zero \o body)>> \o body
  BY DEF encode_commit
<1>. HIDE DEF header, body, zero
<1>3. header[5] = Cell(7 + n)
  <2>1. HEADER_LEN + ops * OP_LEN + blob = 7 + n
    BY <1>1, CellFacts DEF OP_LEN
  <2>. QED  BY <1>2, <2>1
<1>p. PICK p \in Bytes : Joined(p, header, zero)
  BY <1>2, <1>5, JoinedExists
<1>q. PICK x \in Bytes : Joined(x, p, body)
  BY <1>4, JoinedExists
<1>x. x = header \o zero \o body
  BY <1>p, <1>q DEF Joined
<1>6. /\ Len(x) = 7 + n /\ Len(x) >= 7
      /\ \A j \in 1 .. 6 : x[j] = header[j]
      /\ \A j \in 1 .. n : x[7 + j] = body[j]
  <2>1. Len(x) = 7 + Len(body)
    BY <1>2, <1>4, <1>5, <1>p, <1>q, HeadJoin
  <2>2. \A j \in 1 .. 6 : x[j] = header[j]
    BY <1>2, <1>4, <1>5, <1>p, <1>q, HeadJoin
  <2>0. /\ header \in Bytes /\ Len(header) = 6 /\ body \in Bytes
        /\ zero \in Bytes /\ Len(zero) = 1
    BY <1>2, <1>4, <1>5
  <2>3. \A j \in 1 .. Len(body) : x[7 + j] = body[j]
    BY ONLY <2>0, p \in Bytes, x \in Bytes, <1>p, <1>q, HeadJoin
  <2>. QED  BY <1>4, <2>1, <2>2, <2>3
<1>a. \A j \in 1 .. 6 : \E v \in Nat : header[j] = Cell(v)
  <2>1. Generation \in Nat /\ OXGLOGR \in Nat /\ 7 + n \in Nat
    BY DEF Generation, OXGLOGR
  <2>2. \A j \in 1 .. 6 : j = 1 \/ j = 2 \/ j = 3 \/ j = 4 \/ j = 5 \/ j = 6
    OBVIOUS
  <2>. QED  BY <1>2, <1>3, <2>1, <2>2
<1>b. ASSUME NEW j \in 8 .. 7 + n PROVE x[j] = Cell(20 + i)
  <2>1. j - 7 \in 1 .. n /\ 7 + (j - 7) = j
    OBVIOUS
  <2>. QED  BY <1>4, <1>6, <2>1
<1>7. record_crc(x) \in Cells
  <2>1. PICK c \in Bytes :
           /\ record_crc(x) = [covers |-> c] /\ Len(c) = Len(x) - 1
           /\ \A j \in 1 .. 6 : c[j] = x[j]
           /\ \A j \in 8 .. Len(x) : c[j - 1] = x[j]
    BY <1>6, CrcCovers
  <2>2. ASSUME NEW j \in 1 .. Len(c) PROVE c[j] \in [number : Nat]
    <3>0. \A v \in Nat : Cell(v) \in [number : Nat]
      BY DEF Cell
    <3>1. CASE j \in 1 .. 6
      <4>1. c[j] = header[j]
        BY <1>6, <2>1, <3>1
      <4>. QED  BY <1>a, <3>0, <3>1, <4>1
    <3>2. CASE ~(j \in 1 .. 6)
      <4>1. j + 1 \in 8 .. 7 + n /\ (j + 1) - 1 = j /\ 20 + i \in Nat
        BY <1>6, <2>1, <3>2
      <4>2. c[j] = Cell(20 + i)
        BY <1>6, <1>b, <2>1, <4>1
      <4>. QED  BY <3>0, <4>1, <4>2
    <3>. QED  BY <3>1, <3>2
  <2>3. c \in Seq([number : Nat])
    <3>1. c \in Seq(Cells)
      BY DEF Bytes
    <3>2. Len(c) \in Nat /\ c \in [1 .. Len(c) -> Cells]
      BY <3>1, LenProperties
    <3>3. c \in [1 .. Len(c) -> [number : Nat]]
      BY <2>2, <3>2
    <3>. QED  BY <3>2, <3>3, SeqDef
  <2>4. record_crc(x) \in [covers : Seq([number : Nat])]
    BY <2>1, <2>3
  <2>. QED  BY <2>4 DEF Cells
<1>. DEFINE crc == <<record_crc(x)>>
<1>8. crc \in Bytes /\ Len(crc) = 1 /\ crc[1] = record_crc(x)
  <2>1. crc \in Seq(Cells)
    BY <1>7
  <2>. QED  BY <2>1 DEF Bytes
<1>g. encode_commit(i, i, ops, blob) = header \o crc \o body
  BY <1>e, <1>x
<1>. HIDE DEF crc
<1>t. PICK q \in Bytes : Joined(q, header, crc)
  BY <1>2, <1>8, JoinedExists
<1>r. PICK r \in Bytes : Joined(r, q, body)
  BY <1>4, JoinedExists
<1>9. /\ Len(r) = 7 + n /\ Len(r) >= 7
      /\ \A j \in 1 .. 6 : r[j] = header[j]
      /\ r[7] = record_crc(x)
      /\ \A j \in 1 .. n : r[7 + j] = body[j]
  <2>1. Len(r) = 7 + Len(body)
    BY <1>2, <1>4, <1>8, <1>t, <1>r, HeadJoin
  <2>2. \A j \in 1 .. 6 : r[j] = header[j]
    BY <1>2, <1>4, <1>8, <1>t, <1>r, HeadJoin
  <2>0. /\ header \in Bytes /\ Len(header) = 6 /\ body \in Bytes
        /\ crc \in Bytes /\ Len(crc) = 1
    BY <1>2, <1>4, <1>8
  <2>3. \A j \in 1 .. Len(body) : r[7 + j] = body[j]
    BY ONLY <2>0, q \in Bytes, r \in Bytes, <1>t, <1>r, HeadJoin
  <2>4. r[7] = crc[1]
    BY <1>2, <1>4, <1>8, <1>t, <1>r, HeadJoin
  <2>. QED  BY <1>4, <1>8, <2>1, <2>2, <2>3, <2>4
<1>10. encode_commit(i, i, ops, blob) = r
  BY <1>g, <1>t, <1>r DEF Joined
<1>11. ASSUME NEW j \in 8 .. 7 + n PROVE r[j] = Cell(20 + i)
  <2>1. j - 7 \in 1 .. n /\ 7 + (j - 7) = j
    OBVIOUS
  <2>. QED  BY <1>4, <1>9, <2>1
<1>12. record_crc(x) = record_crc(r)
  <2>1. ASSUME NEW j \in 1 .. Len(x), j # 7 PROVE x[j] = r[j]
    <3>1. CASE j \in 1 .. 6
      BY <1>6, <1>9, <3>1
    <3>2. CASE j \in 8 .. 7 + n
      BY <1>b, <1>11, <3>2
    <3>. QED  BY <1>6, <2>1, <3>1, <3>2
  <2>2. Len(x) = Len(r)
    BY <1>6, <1>9
  <2>. QED  BY <1>6, <1>9, <2>1, <2>2, CrcExact
<1>13. Cell(20 + i) # Cell(Generation)
  BY CellFacts DEF Generation
<1>14. HEADER_LEN + ops * OP_LEN <= 7 + n
  BY <1>1, CellFacts DEF OP_LEN
<1>15. \A j \in 1 .. 6 : \E v \in Nat : r[j] = Cell(v)
  BY <1>9, <1>a
<1>16. \A j \in 8 .. Len(r) : r[j] # Cell(Generation)
  BY <1>9, <1>11, <1>13
<1>17. /\ r[1] = Cell(Generation) /\ r[2] = Cell(i) /\ r[4] = Cell(OXGLOGR)
       /\ r[5] = Cell(Len(r)) /\ r[6] = Cell(ops)
  <2>1. 1 \in 1 .. 6 /\ 2 \in 1 .. 6 /\ 4 \in 1 .. 6 /\ 5 \in 1 .. 6 /\ 6 \in 1 .. 6
    OBVIOUS
  <2>. QED  BY <1>2, <1>3, <1>9, <2>1
<1>. QED  BY <1>9, <1>10, <1>12, <1>14, <1>15, <1>16, <1>17 DEF IsRecord

-----------------------------------------------------------------------------
(* Parsing *)

\* The six fields in front of the checksum hold numbers.
Numbered(z) == \A j \in 1 .. 6 : \E v \in Nat : z[j] = Cell(v)

\* z is the beginning of a record, or what a torn or unfinished append leaves.
Begun(z) ==
    /\ Len(z) > 0 => z[1] = Cell(Generation)
    /\ \A j \in 1 .. 6 : j <= Len(z) => \E v \in Nat : z[j] = Cell(v)

\* z begins with some cells of a record, not all of them, and what follows, if
\* anything does, begins like a record.
StrayAt(z, i, q, n) ==
    /\ IsRecord(i, q) /\ n < Len(q) /\ n <= Len(z)
    /\ \A j \in 1 .. n : z[j] = q[j]
    /\ Len(z) > n => z[n + 1] = Cell(Generation)
    /\ \A j \in 1 .. 6 : n + j <= Len(z) => \E v \in Nat : z[n + j] = Cell(v)
Stray(z) == \E i \in Nat, q \in Bytes, n \in Nat \ {0} : StrayAt(z, i, q, n)

\* z begins with the record r but for cell p.
Rotten(z, r, p) ==
    /\ p \in 1 .. Len(r) /\ Len(r) <= Len(z)
    /\ \E v \in Nat : z[p] = Cell(v) /\ Cell(v) # r[p]
    /\ \A j \in 1 .. Len(r) : j # p => z[j] = r[j]

\* What parsing reads of a header of numbers.
LEMMA HeaderParts ==
  ASSUME NEW z \in Bytes, Len(z) >= 7, Numbered(z)
  PROVE  \E len, count \in Nat :
           /\ z[5] = Cell(len) /\ z[6] = Cell(count)
           /\ Header(z).len = len /\ Header(z).crc = z[7]
           /\ well_framed(z) <=> 7 + count <= len /\ len <= Len(z)
<1>1. 5 \in 1 .. 6 /\ 6 \in 1 .. 6
  OBVIOUS
<1>2. PICK len \in Nat : z[5] = Cell(len)
  BY <1>1 DEF Numbered
<1>3. PICK count \in Nat : z[6] = Cell(count)
  BY <1>1 DEF Numbered
<1>4. Number(z[5]) = len /\ Number(z[6]) = count /\ HEADER_LEN = 7
  BY <1>2, <1>3, CellFacts
<1>5. Header(z).len = Number(z[5]) /\ Header(z).op_count = Number(z[6]) /\ Header(z).crc = z[7]
  BY DEF Header
<1>6. well_framed(z) <=> HEADER_LEN + Header(z).op_count * OP_LEN <= Header(z).len
                           /\ Header(z).len <= Len(z)
  BY DEF well_framed
<1>7. 7 + count * 1 = 7 + count
  OBVIOUS
<1>8. well_framed(z) <=> 7 + count <= len /\ len <= Len(z)
  BY <1>4, <1>5, <1>6, <1>7 DEF OP_LEN
<1>. QED  BY <1>2, <1>3, <1>4, <1>5, <1>8

\* A valid record has a checksum of its first len cells.
LEMMA ValidParts ==
  ASSUME NEW z \in Bytes, Len(z) >= 7, Numbered(z), Valid(z)
  PROVE  \E y \in Bytes :
           /\ Len(y) >= 7 /\ Len(y) <= Len(z) /\ z[7] = record_crc(y)
           /\ \A j \in 1 .. Len(y) : y[j] = z[j]
<1>1. PICK len, count \in Nat :
           /\ z[5] = Cell(len) /\ z[6] = Cell(count)
           /\ Header(z).len = len /\ Header(z).crc = z[7]
           /\ well_framed(z) <=> 7 + count <= len /\ len <= Len(z)
  BY HeaderParts
<1>2. well_framed(z) /\ Header(z).crc = record_crc(SubSeq(z, 1, Header(z).len))
  BY DEF Valid
<1>3. Len(z) \in Nat
  BY DEF Bytes
<1>4. 7 <= len /\ len <= Len(z) /\ len \in 0 .. Len(z)
  BY <1>1, <1>2, <1>3
<1>5. PICK y \in Bytes : y = SubSeq(z, 1, len) /\ Len(y) = len /\ \A j \in 1 .. len : y[j] = z[j]
  BY <1>4, PrefixParts
<1>6. z[7] = record_crc(y)
  BY <1>1, <1>2, <1>5
<1>. QED  BY <1>4, <1>5, <1>6

\* A record is accepted whatever follows it.
LEMMA RecordValid ==
  ASSUME NEW i \in Nat, NEW r \in Bytes, IsRecord(i, r), NEW x \in Bytes, NEW z \in Bytes,
         Joined(z, r, x)
  PROVE  /\ Len(z) >= 7 /\ Valid(z) /\ Header(z).len = Len(r) /\ Header(z).lsn = i
         /\ SubSeq(z, 1, Len(r)) = r
<1>1. Len(r) \in Nat /\ Len(x) \in Nat /\ Len(z) = Len(r) + Len(x)
  BY JoinedParts
<1>2. \A j \in 1 .. Len(r) : z[j] = r[j]
  BY JoinedParts
<1>3. SubSeq(z, 1, Len(r)) = r
  BY JoinedParts
<1>4. Len(r) >= 7 /\ Len(z) >= 7
  BY <1>1 DEF IsRecord
<1>5. \A j \in 1 .. 7 : z[j] = r[j]
  BY <1>1, <1>2, <1>4
<1>6. Numbered(z)
  <2>1. \A j \in 1 .. 6 : \E v \in Nat : r[j] = Cell(v)
    BY DEF IsRecord
  <2>2. \A j \in 1 .. 6 : z[j] = r[j]
    BY <1>5
  <2>. QED  BY <2>1, <2>2 DEF Numbered
<1>7. PICK len, count \in Nat :
           /\ z[5] = Cell(len) /\ z[6] = Cell(count)
           /\ Header(z).len = len /\ Header(z).crc = z[7]
           /\ well_framed(z) <=> 7 + count <= len /\ len <= Len(z)
  BY <1>4, <1>6, HeaderParts
<1>8. /\ z[1] = Cell(Generation) /\ z[2] = Cell(i) /\ z[4] = Cell(OXGLOGR)
      /\ z[5] = Cell(Len(r)) /\ z[6] = r[6] /\ z[7] = record_crc(r)
  <2>1. 1 \in 1 .. 7 /\ 2 \in 1 .. 7 /\ 4 \in 1 .. 7 /\ 5 \in 1 .. 7 /\ 6 \in 1 .. 7 /\ 7 \in 1 .. 7
    OBVIOUS
  <2>. QED  BY <1>5, <2>1 DEF IsRecord
<1>9. len = Len(r)
  BY <1>7, <1>8, CellFacts
<1>10. 7 + count <= Len(r)
  <2>1. PICK ops \in Nat : r[6] = Cell(ops) /\ HEADER_LEN + ops * OP_LEN <= Len(r)
    BY DEF IsRecord
  <2>2. count = ops
    BY <1>7, <1>8, <2>1, CellFacts
  <2>. QED  BY <2>1, <2>2, CellFacts DEF OP_LEN
<1>11. well_framed(z)
  BY <1>1, <1>7, <1>9, <1>10
<1>12. Header(z).magic = OXGLOGR /\ Header(z).generation = Generation /\ Header(z).lsn = i
  BY <1>8, CellFacts DEF Header
<1>13. Header(z).crc = record_crc(SubSeq(z, 1, Header(z).len))
  BY <1>3, <1>7, <1>8, <1>9
<1>14. Valid(z)
  BY <1>11, <1>12, <1>13 DEF Valid
<1>. QED  BY <1>3, <1>4, <1>7, <1>9, <1>12, <1>14

\* What an unfinished append left is not a record, whatever was written behind it.
LEMMA StrayInvalid ==
  ASSUME NEW z \in Bytes, Stray(z), Len(z) >= 7
  PROVE  ~Valid(z)
<1>. SUFFICES ASSUME Valid(z) PROVE FALSE
  OBVIOUS
<1>1. PICK i \in Nat, q \in Bytes, n \in Nat \ {0} : StrayAt(z, i, q, n)
  BY DEF Stray
<1>2. Len(z) \in Nat /\ Len(q) \in Nat
  BY DEF Bytes
<1>3. ASSUME NEW j \in 1 .. 7, j > n PROVE \E v \in Nat : z[j] = Cell(v)
  <2>1. j - n \in 1 .. 6 /\ n + (j - n) = j /\ j <= Len(z)
    BY <1>2, <1>3
  <2>. QED  BY <1>1, <2>1 DEF StrayAt
<1>4. Numbered(z)
  <2>. SUFFICES ASSUME NEW j \in 1 .. 6 PROVE \E v \in Nat : z[j] = Cell(v)
    BY DEF Numbered
  <2>1. CASE j > n
    BY <1>3, <2>1
  <2>2. CASE j <= n
    <3>1. z[j] = q[j]
      BY <1>1, <2>2 DEF StrayAt
    <3>2. IsRecord(i, q)
      BY <1>1 DEF StrayAt
    <3>. QED  BY <3>1, <3>2 DEF IsRecord
  <2>. QED  BY <2>1, <2>2
<1>5. PICK y \in Bytes :
           /\ Len(y) >= 7 /\ Len(y) <= Len(z) /\ z[7] = record_crc(y)
           /\ \A j \in 1 .. Len(y) : y[j] = z[j]
  BY <1>4, ValidParts
<1>6. n >= 7
  <2>. SUFFICES ASSUME n < 7 PROVE FALSE
    OBVIOUS
  <2>1. PICK v \in Nat : z[7] = Cell(v)
    BY <1>3
  <2>. QED  BY <1>5, <2>1, CellFacts
<1>7. /\ IsRecord(i, q) /\ n < Len(q) /\ z[7] = q[7]
      /\ Len(z) > n => z[n + 1] = Cell(Generation)
  BY <1>1, <1>6 DEF StrayAt
<1>8. Len(q) >= 7 /\ q[7] = record_crc(q) /\ \A j \in 8 .. Len(q) : q[j] # Cell(Generation)
  BY <1>7 DEF IsRecord
<1>9. record_crc(y) = record_crc(q)
  BY <1>5, <1>7, <1>8
<1>10. Len(y) = Len(q) /\ \A j \in 1 .. Len(y) : j # 7 => y[j] = q[j]
  BY <1>5, <1>8, <1>9, CrcExact
<1>11. n + 1 \in 1 .. Len(y) /\ n + 1 # 7 /\ n + 1 \in 8 .. Len(q) /\ Len(z) > n
  BY <1>2, <1>5, <1>6, <1>7, <1>10
<1>12. z[n + 1] = q[n + 1]
  BY <1>5, <1>10, <1>11
<1>. QED  BY <1>7, <1>8, <1>11, <1>12

\* A record with one changed cell is not valid; with its length and count intact it is
\* still framed as before.
LEMMA RottenInvalid ==
  ASSUME NEW i \in Nat, NEW r \in Bytes, IsRecord(i, r), NEW z \in Bytes, NEW p, Rotten(z, r, p)
  PROVE  /\ Len(z) >= 7 /\ ~Valid(z)
         /\ p \notin {5, 6} => well_framed(z) /\ Header(z).len = Len(r)
<1>1. Len(z) \in Nat /\ Len(r) \in Nat /\ Len(r) >= 7 /\ Len(r) <= Len(z) /\ p \in 1 .. Len(r)
  <2>1. Len(z) \in Nat /\ Len(r) \in Nat
    BY DEF Bytes
  <2>2. Len(r) >= 7
    BY DEF IsRecord
  <2>3. Len(r) <= Len(z) /\ p \in 1 .. Len(r)
    BY DEF Rotten
  <2>. QED  BY <2>1, <2>2, <2>3
<1>2. PICK w \in Nat : z[p] = Cell(w) /\ Cell(w) # r[p]
  BY DEF Rotten
<1>3. \A j \in 1 .. Len(r) : j # p => z[j] = r[j]
  BY DEF Rotten
<1>4. Numbered(z)
  <2>. SUFFICES ASSUME NEW j \in 1 .. 6 PROVE \E v \in Nat : z[j] = Cell(v)
    BY DEF Numbered
  <2>1. CASE j = p
    BY <1>2, <2>1
  <2>2. CASE j # p
    <3>1. j \in 1 .. Len(r)
      BY <1>1
    <3>2. z[j] = r[j]
      BY <1>3, <2>2, <3>1
    <3>. QED  BY <3>2 DEF IsRecord
  <2>. QED  BY <2>1, <2>2
<1>5. ASSUME Valid(z) PROVE FALSE
  <2>1. PICK y \in Bytes :
             /\ Len(y) >= 7 /\ Len(y) <= Len(z) /\ z[7] = record_crc(y)
             /\ \A j \in 1 .. Len(y) : y[j] = z[j]
    BY <1>1, <1>4, <1>5, ValidParts
  <2>2. p # 7
    BY <1>2, <2>1, CellFacts
  <2>3. z[7] = r[7] /\ r[7] = record_crc(r)
    <3>1. 7 \in 1 .. Len(r)
      BY <1>1
    <3>2. z[7] = r[7]
      BY <1>3, <2>2, <3>1
    <3>. QED  BY <3>2 DEF IsRecord
  <2>4. Len(y) = Len(r) /\ \A j \in 1 .. Len(y) : j # 7 => y[j] = r[j]
    <3>1. record_crc(y) = record_crc(r)
      BY <2>1, <2>3
    <3>. QED  BY <1>1, <2>1, <3>1, CrcExact
  <2>5. y[p] = r[p] /\ y[p] = z[p]
    BY <1>1, <2>1, <2>2, <2>4
  <2>. QED  BY <1>2, <2>5
<1>6. ASSUME p \notin {5, 6} PROVE well_framed(z) /\ Header(z).len = Len(r)
  <2>1. PICK len, count \in Nat :
             /\ z[5] = Cell(len) /\ z[6] = Cell(count)
             /\ Header(z).len = len /\ Header(z).crc = z[7]
             /\ well_framed(z) <=> 7 + count <= len /\ len <= Len(z)
    BY <1>1, <1>4, HeaderParts
  <2>2. 5 \in 1 .. Len(r) /\ 6 \in 1 .. Len(r) /\ 5 # p /\ 6 # p
    BY <1>1, <1>6
  <2>3. z[5] = r[5] /\ z[6] = r[6]
    BY <1>3, <2>2
  <2>4. PICK ops \in Nat : r[6] = Cell(ops) /\ HEADER_LEN + ops * OP_LEN <= Len(r)
    BY DEF IsRecord
  <2>5. r[5] = Cell(Len(r))
    BY DEF IsRecord
  <2>6. len = Len(r) /\ count = ops
    BY <2>1, <2>3, <2>4, <2>5, CellFacts
  <2>7. 7 + count <= Len(r)
    BY <2>4, <2>6, CellFacts DEF OP_LEN
  <2>. QED  BY <1>1, <2>1, <2>6, <2>7
<1>. QED  BY <1>1, <1>5, <1>6

-----------------------------------------------------------------------------
(* What appends leave *)

\* The beginning of a record.
LEMMA PrefixBegun ==
  ASSUME NEW i \in Nat, NEW q \in Bytes, IsRecord(i, q), NEW n \in 0 .. Len(q),
         NEW t, t = SubSeq(q, 1, n)
  PROVE  /\ t \in Bytes /\ Len(t) = n /\ Begun(t)
         /\ n > 0 /\ n < Len(q) => Stray(t)
<1>1. /\ Len(q) \in Nat /\ t \in Bytes /\ Len(t) = n /\ \A j \in 1 .. n : t[j] = q[j]
  BY PrefixParts
<1>2. q[1] = Cell(Generation) /\ \A j \in 1 .. 6 : \E v \in Nat : q[j] = Cell(v)
  BY DEF IsRecord
<1>3. Begun(t)
  <2>1. ASSUME Len(t) > 0 PROVE t[1] = Cell(Generation)
    <3>1. 1 \in 1 .. n
      BY <1>1, <2>1
    <3>. QED  BY <1>1, <1>2, <3>1
  <2>2. ASSUME NEW j \in 1 .. 6, j <= Len(t) PROVE \E v \in Nat : t[j] = Cell(v)
    <3>1. j \in 1 .. n
      BY <1>1, <2>2
    <3>. QED  BY <1>1, <1>2, <3>1
  <2>. QED  BY <2>1, <2>2 DEF Begun
<1>4. ASSUME n > 0, n < Len(q) PROVE Stray(t)
  <2>1. n \in Nat \ {0}
    BY <1>4
  <2>2. ~(Len(t) > n) /\ \A j \in 1 .. 6 : ~(n + j <= Len(t))
    BY <1>1
  <2>3. StrayAt(t, i, q, n)
    BY <1>1, <1>4, <2>2 DEF StrayAt
  <2>. QED  BY <2>1, <2>3 DEF Stray
<1>. QED  BY <1>1, <1>3, <1>4

\* Stray cells stay stray when more is written behind them.
LEMMA StrayMore ==
  ASSUME NEW z \in Bytes, Stray(z), NEW t \in Bytes, Begun(t), NEW y \in Bytes, Joined(y, z, t)
  PROVE  Stray(y)
<1>1. PICK i \in Nat, q \in Bytes, n \in Nat \ {0} : StrayAt(z, i, q, n)
  BY DEF Stray
<1>2. /\ Len(z) \in Nat /\ Len(t) \in Nat /\ Len(y) = Len(z) + Len(t)
  BY JoinedParts
<1>3. \A j \in 1 .. Len(z) : y[j] = z[j]
  BY JoinedParts
<1>4. \A j \in 1 .. Len(t) : y[Len(z) + j] = t[j]
  BY JoinedParts
<1>5. /\ IsRecord(i, q) /\ n < Len(q) /\ n <= Len(z)
      /\ \A j \in 1 .. n : z[j] = q[j]
      /\ Len(z) > n => z[n + 1] = Cell(Generation)
      /\ \A j \in 1 .. 6 : n + j <= Len(z) => \E v \in Nat : z[n + j] = Cell(v)
  BY <1>1 DEF StrayAt
<1>6. \A j \in 1 .. n : y[j] = q[j]
  BY <1>2, <1>3, <1>5
<1>7. ASSUME Len(y) > n PROVE y[n + 1] = Cell(Generation)
  <2>1. CASE Len(z) > n
    <3>1. n + 1 \in 1 .. Len(z)
      BY <1>2, <2>1
    <3>. QED  BY <1>3, <1>5, <2>1, <3>1
  <2>2. CASE Len(z) = n
    <3>1. 1 \in 1 .. Len(t) /\ Len(t) > 0 /\ Len(z) + 1 = n + 1
      BY <1>2, <1>7, <2>2
    <3>2. t[1] = Cell(Generation)
      BY <3>1 DEF Begun
    <3>3. y[Len(z) + 1] = t[1]
      BY <1>4, <3>1
    <3>. QED  BY <3>1, <3>2, <3>3
  <2>. QED  BY <1>2, <1>5, <2>1, <2>2
<1>8. ASSUME NEW j \in 1 .. 6, n + j <= Len(y) PROVE \E v \in Nat : y[n + j] = Cell(v)
  <2>1. CASE n + j <= Len(z)
    <3>1. n + j \in 1 .. Len(z)
      BY <1>2, <2>1
    <3>2. y[n + j] = z[n + j]
      BY <1>3, <3>1
    <3>. QED  BY <1>5, <2>1, <3>2
  <2>2. CASE n + j > Len(z)
    <3>0. n <= Len(z)
      BY <1>5
    <3>1. PICK k \in 1 .. 6 : k = n + j - Len(z)
      <4>1. n + j - Len(z) \in 1 .. 6
        BY <1>2, <2>2, <3>0
      <4>. QED  BY <4>1
    <3>2. k \in 1 .. Len(t) /\ k <= Len(t) /\ Len(z) + k = n + j
      BY <1>2, <1>8, <3>1
    <3>3. y[n + j] = t[k]
      BY <1>4, <3>2
    <3>. QED  BY <3>2, <3>3 DEF Begun
  <2>. QED  BY <1>2, <2>1, <2>2
<1>9. n <= Len(y)
  BY <1>2, <1>5
<1>10. StrayAt(y, i, q, n)
  BY <1>5, <1>6, <1>7, <1>8, <1>9 DEF StrayAt
<1>. QED  BY <1>10 DEF Stray

\* A cell of the second part changes.
LEMMA JoinedRot ==
  ASSUME NEW f \in Bytes, NEW x \in Bytes, NEW y \in Bytes, Joined(f, x, y),
         NEW p \in 1 .. Len(y), NEW c \in Cells
  PROVE  \E z \in Bytes :
           /\ Joined([f EXCEPT ![Len(x) + p] = c], x, z) /\ Len(z) = Len(y)
           /\ z[p] = c /\ \A j \in 1 .. Len(y) : j # p => z[j] = y[j]
<1>1. Len(x) \in Nat /\ Len(y) \in Nat /\ Len(f) \in Nat /\ Len(f) = Len(x) + Len(y)
  BY JoinedParts
<1>2. \A j \in 1 .. Len(x) : f[j] = x[j]
  BY JoinedParts
<1>3. \A j \in 1 .. Len(y) : f[Len(x) + j] = y[j]
  BY JoinedParts
<1>4. PICK z : z = [y EXCEPT ![p] = c]
  OBVIOUS
<1>5. /\ z \in Bytes /\ Len(z) = Len(y) /\ z[p] = c
      /\ \A j \in 1 .. Len(y) : j # p => z[j] = y[j]
  BY <1>1, <1>4, ExceptSeq DEF Bytes
<1>6. PICK at \in 1 .. Len(f) : at = Len(x) + p
  BY <1>1
<1>7. PICK g : g = [f EXCEPT ![at] = c]
  OBVIOUS
<1>8. /\ g \in Bytes /\ Len(g) = Len(f) /\ g[at] = c
      /\ \A j \in 1 .. Len(f) : j # at => g[j] = f[j]
  BY <1>1, <1>7, ExceptSeq DEF Bytes
<1>9. PICK q \in Bytes : Joined(q, x, z)
  BY <1>5, JoinedExists
<1>10. Len(q) = Len(x) + Len(z)
  BY <1>5, <1>9, JoinedParts
<1>11. \A j \in 1 .. Len(x) : q[j] = x[j]
  BY <1>5, <1>9, JoinedParts
<1>12. \A j \in 1 .. Len(z) : q[Len(x) + j] = z[j]
  BY <1>5, <1>9, JoinedParts
<1>13. ASSUME NEW j \in 1 .. Len(g) PROVE g[j] = q[j]
  <2>1. CASE j <= Len(x)
    <3>1. j \in 1 .. Len(x) /\ j # at /\ j \in 1 .. Len(f)
      BY <1>1, <1>6, <1>8, <2>1
    <3>. QED  BY <1>2, <1>8, <1>11, <3>1
  <2>2. CASE j > Len(x)
    <3>1. PICK k \in 1 .. Len(y) : Len(x) + k = j
      <4>1. j - Len(x) \in 1 .. Len(y) /\ Len(x) + (j - Len(x)) = j
        BY <1>1, <1>8, <2>2
      <4>. QED  BY <4>1
    <3>2. q[j] = z[k]
      BY <1>5, <1>12, <3>1
    <3>3. CASE k = p
      BY <1>5, <1>6, <1>8, <3>1, <3>2, <3>3
    <3>4. CASE k # p
      <4>1. j # at /\ j \in 1 .. Len(f)
        BY <1>1, <1>6, <1>8, <3>1, <3>4
      <4>2. g[j] = f[j] /\ f[j] = y[k] /\ z[k] = y[k]
        BY <1>3, <1>5, <1>8, <3>1, <3>4, <4>1
      <4>. QED  BY <3>2, <4>2
    <3>. QED  BY <3>3, <3>4
  <2>. QED  BY <1>1, <1>8, <2>1, <2>2
<1>14. Len(g) = Len(q)
  BY <1>1, <1>5, <1>8, <1>10
<1>15. g = q
  BY <1>8, <1>13, <1>14, SameBytes
<1>. QED  BY <1>5, <1>6, <1>7, <1>9, <1>15

-----------------------------------------------------------------------------
(* Logs of records *)

\* FlattenSeq of byte strings.
LEMMA FlatBytes ==
  ASSUME NEW s \in Seq(Bytes), NEW r \in Bytes
  PROVE  /\ FlattenSeq(s) \in Bytes /\ Append(s, r) \in Seq(Bytes)
         /\ Joined(FlattenSeq(Append(s, r)), FlattenSeq(s), r)
<1>1. FlattenSeq(s) \in Seq(Cells) /\ FlattenSeq(Append(s, r)) = FlattenSeq(s) \o r
  BY FlattenAppend DEF Bytes
<1>2. Append(s, r) \in Seq(Bytes)
  BY AppendProperties
<1>. QED  BY <1>1, <1>2 DEF Bytes, Joined

\* Behind the first k of some byte strings comes the next one.
LEMMA FlatNext ==
  ASSUME NEW s \in Seq(Bytes), NEW k \in 0 .. Len(s), NEW m \in 0 .. Len(s), k < m
  PROVE  \E later, more \in Bytes :
           /\ Joined(FlattenSeq(SubSeq(s, 1, m)), FlattenSeq(SubSeq(s, 1, k)), later)
           /\ Joined(later, s[k + 1], more)
           /\ k + 1 < m /\ (\A i \in 1 .. Len(s) : s[i] # << >>) => more # << >>
BY FlattenNext DEF Bytes

\* Joining twice is joining once with more behind.
LEMMA BytesMore ==
  ASSUME NEW x \in Bytes, NEW y \in Bytes, NEW r \in Bytes, NEW p, NEW q,
         Joined(p, x, y), Joined(q, p, r)
  PROVE  \E more \in Bytes : Joined(q, x, more) /\ Joined(more, y, r) /\ (r # << >> => more # << >>)
BY JoinedMore DEF Bytes

\* The first k of some byte strings.
LEMMA FirstOf ==
  ASSUME NEW s \in Seq(Bytes), NEW k \in 0 .. Len(s)
  PROVE  /\ Len(s) \in Nat /\ SubSeq(s, 1, k) \in Seq(Bytes) /\ Len(SubSeq(s, 1, k)) = k
         /\ FlattenSeq(SubSeq(s, 1, k)) \in Bytes
         /\ \A i \in 1 .. k : SubSeq(s, 1, k)[i] = s[i]
         /\ SubSeq(s, 1, Len(s)) = s
         /\ k < Len(s) => SubSeq(s, 1, k + 1) = Append(SubSeq(s, 1, k), s[k + 1])
         /\ \A r \in Bytes : SubSeq(Append(s, r), 1, k) = SubSeq(s, 1, k)
<1>1. Len(s) \in Nat /\ SubSeq(s, 1, k) \in Seq(Bytes) /\ Len(SubSeq(s, 1, k)) = k
  OBVIOUS
<1>2. << >> \in Bytes
  BY DEF Bytes
<1>3. FlattenSeq(SubSeq(s, 1, k)) \in Bytes
  BY <1>1, <1>2, FlatBytes
<1>4. \A i \in 1 .. k : SubSeq(s, 1, k)[i] = s[i]
  OBVIOUS
<1>5. SubSeq(s, 1, Len(s)) = s
  OBVIOUS
<1>6. k < Len(s) => SubSeq(s, 1, k + 1) = Append(SubSeq(s, 1, k), s[k + 1])
  OBVIOUS
<1>7. ASSUME NEW r \in Bytes PROVE SubSeq(Append(s, r), 1, k) = SubSeq(s, 1, k)
  OBVIOUS
<1>. QED  BY <1>1, <1>3, <1>4, <1>5, <1>6, <1>7

\* Bytes and the empty string.
LEMMA JoinedEmpty ==
  ASSUME NEW x \in Bytes
  PROVE  /\ << >> \in Bytes
         /\ \A p : Joined(p, x, << >>) <=> p = x
         /\ \A p : Joined(p, << >>, x) <=> p = x
         /\ x = << >> <=> Len(x) = 0
<1>1. << >> \in Bytes
  BY DEF Bytes
<1>2. x \o << >> = x /\ << >> \o x = x
  BY ConcatEmptySeq DEF Bytes
<1>3. x = << >> <=> Len(x) = 0
  BY EmptySeq DEF Bytes
<1>. QED  BY <1>1, <1>2, <1>3 DEF Joined

-----------------------------------------------------------------------------
(* The inductive invariant *)

First(k) == FlattenSeq(SubSeq(committed, 1, k))

\* What lies behind the first m records of the file: nothing; what unfinished appends
\* left, and anything behind it; or the next record with a rotten cell.
Rest(m, z) ==
    \/ z = << >> /\ m = Len(committed)
    \/ /\ Stray(z) /\ Len(file) > Len(FlattenSeq(committed))
       /\ misled \/ (m = Len(committed) /\ phase = "replay")
    \/ /\ phase = "replay" /\ m < Len(committed)
       /\ \E p : /\ Rotten(z, committed[m + 1], p)
                 /\ misled \/ /\ p \notin {5, 6} /\ spoiled = m + 1
                              /\ Len(z) = Len(committed[m + 1]) => m + 1 = Len(committed)

Held == \E m \in last_lsn .. Len(committed), z \in Bytes : Joined(file, First(m), z) /\ Rest(m, z)

\* The commits are records, numbered from one.
Stored ==
    /\ committed \in Seq(Bytes) /\ Len(committed) <= MaxCommits
    /\ \A i \in 1 .. Len(committed) : IsRecord(i, committed[i])

\* Replay has accepted the first last_lsn of them.
Accepted ==
    /\ last_lsn \in 0 .. Len(committed)
    /\ frames = SubSeq(committed, 1, last_lsn)
    /\ offset = Len(FlattenSeq(frames))

Scalars ==
    /\ file \in Bytes /\ offset \in 0 .. Len(file)
    /\ spoiled \in 0 .. MaxCommits /\ misled \in BOOLEAN /\ damages \in 0 .. MaxDamage
    /\ phase \in {"live", "replay", "ok", "loud"}

WalInv ==
    /\ Scalars /\ Stored /\ Accepted
    /\ phase = "live" => last_lsn = 0
    /\ phase \in {"live", "replay"} => Held
    /\ phase = "ok" => file = FlattenSeq(frames)
    /\ phase = "ok" /\ ~misled => \A i \in (last_lsn + 1) .. Len(committed) : i = spoiled

\* Facts about the first k commits.
LEMMA FirstFacts ==
  ASSUME Stored, NEW k \in 0 .. Len(committed)
  PROVE  /\ Len(committed) \in Nat /\ SubSeq(committed, 1, k) \in Seq(Bytes)
         /\ Len(SubSeq(committed, 1, k)) = k
         /\ First(k) \in Bytes /\ Len(First(k)) \in Nat
         /\ First(Len(committed)) = FlattenSeq(committed)
         /\ k < Len(committed) =>
              /\ k + 1 \in 1 .. Len(committed) /\ committed[k + 1] \in Bytes
              /\ IsRecord(k + 1, committed[k + 1])
              /\ SubSeq(committed, 1, k + 1) = Append(SubSeq(committed, 1, k), committed[k + 1])
              /\ Joined(First(k + 1), First(k), committed[k + 1])
         /\ \A i \in 1 .. Len(committed) : committed[i] # << >>
<1>1. committed \in Seq(Bytes)
  BY DEF Stored
<1>2. /\ Len(committed) \in Nat /\ SubSeq(committed, 1, k) \in Seq(Bytes)
      /\ Len(SubSeq(committed, 1, k)) = k
      /\ First(k) \in Bytes
      /\ First(Len(committed)) = FlattenSeq(committed)
      /\ k < Len(committed) => SubSeq(committed, 1, k + 1) = Append(SubSeq(committed, 1, k), committed[k + 1])
  BY <1>1, FirstOf DEF First
<1>3. Len(First(k)) \in Nat
  BY <1>2 DEF Bytes
<1>4. ASSUME k < Len(committed)
      PROVE  /\ k + 1 \in 1 .. Len(committed) /\ committed[k + 1] \in Bytes
             /\ IsRecord(k + 1, committed[k + 1])
             /\ Joined(First(k + 1), First(k), committed[k + 1])
  <2>1. k + 1 \in 1 .. Len(committed)
    BY <1>2, <1>4
  <2>2. committed[k + 1] \in Bytes
    BY <1>1, <2>1
  <2>3. IsRecord(k + 1, committed[k + 1])
    BY <2>1 DEF Stored
  <2>4. Joined(FlattenSeq(Append(SubSeq(committed, 1, k), committed[k + 1])),
               FlattenSeq(SubSeq(committed, 1, k)), committed[k + 1])
    BY <1>2, <2>2, FlatBytes
  <2>5. Joined(First(k + 1), First(k), committed[k + 1])
    BY <1>2, <1>4, <2>4 DEF First
  <2>. QED  BY <2>1, <2>2, <2>3, <2>5
<1>5. ASSUME NEW i \in 1 .. Len(committed) PROVE committed[i] # << >>
  <2>1. Len(committed[i]) >= 7 /\ committed[i] \in Bytes
    BY DEF Stored, IsRecord
  <2>. QED  BY <2>1, JoinedEmpty
<1>. QED  BY <1>2, <1>3, <1>4, <1>5

\* The type invariant, with cells for bytes.
LEMMA InvTypes ==
  ASSUME WalInv
  PROVE  TypeOK
<1>1. committed \in Seq(Bytes) /\ file \in Bytes /\ last_lsn \in 0 .. Len(committed)
  BY DEF WalInv, Scalars, Stored, Accepted
<1>2. frames \in Seq(Bytes) /\ last_lsn \in Nat
  <2>1. frames = SubSeq(committed, 1, last_lsn)
    BY DEF WalInv, Accepted
  <2>. QED  BY <1>1, <2>1, FirstOf
<1>3. /\ offset \in 0 .. Len(file)
      /\ spoiled \in 0 .. MaxCommits /\ misled \in BOOLEAN /\ damages \in 0 .. MaxDamage
      /\ phase \in {"live", "replay", "ok", "loud"}
  BY DEF WalInv, Scalars
<1>. QED  BY <1>1, <1>2, <1>3 DEF TypeOK, Bytes

\* An empty log holds no commits and no rest.
LEMMA InvInit ==
  ASSUME Init
  PROVE  WalInv
<1>0. << >> \in Bytes /\ << >> \in Seq(Bytes) /\ Len(<< >>) = 0 /\ SubSeq(<< >>, 1, 0) = << >>
  BY DEF Bytes
<1>f. FlattenSeq(<< >>) \in Bytes /\ FlattenSeq(<< >>) = << >>
  <2>1. FlattenSeq(<< >>) \in Bytes
    BY <1>0, FlatBytes
  <2>2. FlattenSeq(<< >>) = << >>
    BY DEF FlattenSeq
  <2>. QED  BY <2>1, <2>2
<1>1. Scalars
  <2>1. MaxCommits \in Nat /\ MaxDamage \in Nat
    BY WalAssumption
  <2>2. file = << >> /\ offset = 0 /\ spoiled = 0 /\ damages = 0 /\ misled = FALSE /\ phase = "live"
    BY DEF Init
  <2>3. file \in Bytes /\ offset \in 0 .. Len(file)
    BY <1>0, <2>2
  <2>4. spoiled \in 0 .. MaxCommits /\ damages \in 0 .. MaxDamage
    BY <2>1, <2>2
  <2>. QED  BY <2>2, <2>3, <2>4 DEF Scalars
<1>2. Stored
  BY <1>0, WalAssumption DEF Init, Stored
<1>3. Accepted
  BY <1>0, <1>f DEF Init, Accepted
<1>4. Held
  <2>1. Joined(file, First(0), << >>)
    BY <1>0, <1>f, JoinedEmpty DEF Init, First
  <2>2. Rest(0, << >>)
    BY <1>0 DEF Init, Rest
  <2>3. 0 \in last_lsn .. Len(committed)
    BY <1>0 DEF Init
  <2>. QED  BY <1>0, <2>1, <2>2, <2>3 DEF Held
<1>. QED  BY <1>1, <1>2, <1>3, <1>4 DEF Init, WalInv

\* What the next append would write.
LEMMA NextIsRecord ==
  ASSUME Stored, NEW ops \in 1 .. MaxOps, NEW blob \in 0 .. MaxBlob
  PROVE  NextRecord(ops, blob) \in Bytes /\ IsRecord(Len(committed) + 1, NextRecord(ops, blob))
<1>1. Len(committed) + 1 \in Nat
  BY DEF Stored
<1>2. ops \in Nat /\ blob \in Nat
  BY WalAssumption
<1>3. IsRecord(Len(committed) + 1, NextRecord(ops, blob))
  BY <1>1, <1>2, EncodeShape DEF NextRecord
<1>. QED  BY <1>3 DEF IsRecord

\* Bytes of an append that did not finish.
LEMMA Unfinished ==
  ASSUME WalInv, phase = "live", NEW t \in Bytes, Begun(t), t # << >> => Stray(t),
         NEW f \in Bytes, Joined(f, file, t)
  PROVE  \E m \in 0 .. Len(committed), z \in Bytes :
           /\ Joined(f, First(m), z)
           /\ \/ z = << >> /\ m = Len(committed)
              \/ /\ Stray(z) /\ Len(f) > Len(FlattenSeq(committed))
                 /\ misled \/ m = Len(committed)
<1>1. Stored /\ file \in Bytes /\ last_lsn = 0 /\ Held
  BY DEF WalInv, Scalars
<1>2. PICK m \in 0 .. Len(committed), z \in Bytes : Joined(file, First(m), z) /\ Rest(m, z)
  BY <1>1 DEF Held
<1>3. /\ Len(committed) \in Nat /\ First(m) \in Bytes /\ Len(First(m)) \in Nat
      /\ First(Len(committed)) = FlattenSeq(committed)
  BY <1>1, FirstFacts
<1>4. Len(f) = Len(file) + Len(t) /\ Len(t) \in Nat /\ Len(file) \in Nat
  BY <1>1, JoinedParts
<1>5. CASE z = << >> /\ m = Len(committed)
  <2>1. file = First(m)
    BY <1>2, <1>3, <1>5, JoinedEmpty
  <2>2. Joined(f, First(m), t)
    BY <2>1
  <2>3. CASE t = << >>
    BY <1>5, <2>2, <2>3
  <2>4. CASE t # << >>
    <3>1. Len(t) > 0
      BY <1>4, <2>4, JoinedEmpty
    <3>2. Len(f) > Len(FlattenSeq(committed))
      BY <1>3, <1>4, <1>5, <2>1, <3>1
    <3>. QED  BY <1>5, <2>2, <2>4, <3>2
  <2>. QED  BY <2>3, <2>4
<1>6. CASE Stray(z) /\ Len(file) > Len(FlattenSeq(committed)) /\ misled
  <2>1. PICK y \in Bytes : Joined(f, First(m), y) /\ Joined(y, z, t)
    BY <1>2, <1>3, BytesMore
  <2>2. Stray(y)
    BY <1>6, <2>1, StrayMore
  <2>3. Len(FlattenSeq(committed)) \in Nat
    <3>1. Len(committed) \in 0 .. Len(committed)
      BY <1>3
    <3>. QED  BY <1>1, <1>3, <3>1, FirstFacts
  <2>4. Len(f) > Len(FlattenSeq(committed))
    BY <1>4, <1>6, <2>3
  <2>. QED  BY <1>6, <2>1, <2>2, <2>4
<1>. QED  BY <1>2, <1>5, <1>6 DEF Rest

\* append_commit.
LEMMA AppendStep ==
  ASSUME WalInv, AppendCommit
  PROVE  WalInv'
<1>1. PICK ops \in 1 .. MaxOps, blob \in 0 .. MaxBlob :
        committed' = Append(committed, NextRecord(ops, blob)) /\ file' = file \o NextRecord(ops, blob)
  BY DEF AppendCommit
<1>2. /\ phase = "live" /\ Len(committed) < MaxCommits
      /\ UNCHANGED <<spoiled, misled, damages, phase, offset, frames, last_lsn>>
  BY DEF AppendCommit, replayState
<1>3. Scalars /\ Stored /\ Accepted /\ last_lsn = 0 /\ Held
  BY <1>2 DEF WalInv
<1>4. PICK r \in Bytes : r = NextRecord(ops, blob) /\ IsRecord(Len(committed) + 1, r)
  BY <1>3, NextIsRecord
<1>5. Joined(file', file, r) /\ committed' = Append(committed, r)
  BY <1>1, <1>4 DEF Joined
<1>6. committed \in Seq(Bytes) /\ file \in Bytes /\ Len(committed) \in Nat
  BY <1>3 DEF Stored, Scalars
<1>7. /\ committed' \in Seq(Bytes) /\ Len(committed') = Len(committed) + 1
      /\ committed'[Len(committed) + 1] = r
      /\ \A i \in 1 .. Len(committed) : committed'[i] = committed[i]
  BY <1>5, <1>6, AppendProperties
<1>8. file' \in Bytes /\ Len(file') = Len(file) + Len(r) /\ Len(r) \in Nat /\ Len(file) \in Nat
  BY <1>5, <1>6, JoinedParts
<1>9. Stored'
  <2>1. ASSUME NEW i \in 1 .. Len(committed') PROVE IsRecord(i, committed'[i])
    <3>1. CASE i \in 1 .. Len(committed)
      BY <1>3, <1>7, <3>1 DEF Stored
    <3>2. CASE i = Len(committed) + 1
      BY <1>4, <1>7, <3>2
    <3>. QED  BY <1>6, <1>7, <2>1, <3>1, <3>2
  <2>2. Len(committed') <= MaxCommits
    <3>1. MaxCommits \in Nat
      BY WalAssumption
    <3>. QED  BY <1>2, <1>6, <1>7, <3>1
  <2>3. \A i \in 1 .. Len(committed') : IsRecord(i, committed'[i])
    BY <2>1
  <2>. QED  BY <1>7, <2>2, <2>3 DEF Stored
<1>10. Scalars'
  <2>1. offset' \in 0 .. Len(file')
    <3>1. offset' = offset /\ offset \in 0 .. Len(file)
      BY <1>2, <1>3 DEF Scalars
    <3>. QED  BY <1>8, <3>1
  <2>. QED  BY <1>2, <1>3, <1>8, <2>1 DEF Scalars
<1>11. \A k \in 0 .. Len(committed) : SubSeq(committed', 1, k) = SubSeq(committed, 1, k)
  BY <1>5, <1>6, FirstOf
<1>12. Accepted'
  <2>1. last_lsn \in 0 .. Len(committed) /\ frames = SubSeq(committed, 1, last_lsn)
        /\ offset = Len(FlattenSeq(frames))
    BY <1>3 DEF Accepted
  <2>2. SubSeq(committed', 1, last_lsn) = SubSeq(committed, 1, last_lsn)
    BY <1>11, <2>1
  <2>3. last_lsn \in 0 .. Len(committed')
    BY <1>6, <1>7, <2>1
  <2>4. FlattenSeq(frames)' = FlattenSeq(frames)
    BY <1>2
  <2>. QED  BY <1>2, <2>1, <2>2, <2>3, <2>4 DEF Accepted
<1>13. \A k \in 0 .. Len(committed) : First(k)' = First(k)
  BY <1>11 DEF First
<1>14. Joined(FlattenSeq(committed'), FlattenSeq(committed), r)
  BY <1>4, <1>5, <1>6, FlatBytes
<1>15. FlattenSeq(committed) \in Bytes
  BY <1>4, <1>6, FlatBytes
<1>16. Len(FlattenSeq(committed')) = Len(FlattenSeq(committed)) + Len(r)
       /\ Len(FlattenSeq(committed)) \in Nat
  BY <1>14, <1>15, JoinedParts
<1>17. Held'
  <2>1. PICK m \in 0 .. Len(committed), z \in Bytes : Joined(file, First(m), z) /\ Rest(m, z)
    BY <1>3 DEF Held
  <2>2. CASE z = << >> /\ m = Len(committed)
    <3>1. First(m) \in Bytes /\ First(m) = FlattenSeq(committed)
      BY <1>3, <2>2, FirstFacts
    <3>2. file = FlattenSeq(committed)
      BY <2>1, <2>2, <3>1, JoinedEmpty
    <3>3. file' = FlattenSeq(committed')
      BY <1>5, <1>14, <3>2 DEF Joined
    <3>4. SubSeq(committed', 1, Len(committed')) = committed'
      BY <1>7
    <3>5. PICK n : n = Len(committed')
      OBVIOUS
    <3>6. First(n)' = file'
      BY <3>3, <3>4, <3>5 DEF First
    <3>7. Joined(file', First(n)', << >>) /\ << >> \in Bytes
      BY <1>8, <3>6, JoinedEmpty
    <3>8. Rest(n, << >>)'
      BY <3>5 DEF Rest
    <3>9. n \in last_lsn' .. Len(committed')
      BY <1>2, <1>3, <1>6, <1>7, <3>5
    <3>. QED  BY <3>7, <3>8, <3>9 DEF Held
  <2>3. CASE Stray(z) /\ Len(file) > Len(FlattenSeq(committed)) /\ misled
    <3>1. First(m) \in Bytes
      BY <1>3, FirstFacts
    <3>2. PICK y \in Bytes : Joined(file', First(m), y) /\ Joined(y, z, r)
      BY <1>4, <1>5, <2>1, <3>1, BytesMore
    <3>3. Begun(r)
      <4>1. Len(r) \in 0 .. Len(r) /\ Len(committed) + 1 \in Nat
        BY <1>6, <1>8
      <4>2. SubSeq(r, 1, Len(r)) = r
        BY DEF Bytes
      <4>. QED  BY <1>4, <4>1, <4>2, PrefixBegun
    <3>4. Stray(y)
      BY <2>3, <3>2, <3>3, StrayMore
    <3>5. Len(file') > Len(FlattenSeq(committed'))
      BY <1>8, <1>16, <2>3
    <3>6. Joined(file', First(m)', y)
      BY <1>13, <3>2
    <3>7. misled'
      BY <1>2, <2>3
    <3>8. Rest(m, y)'
      BY <3>4, <3>5, <3>7 DEF Rest
    <3>9. m \in last_lsn' .. Len(committed')
      BY <1>2, <1>3, <1>6, <1>7
    <3>. QED  BY <3>6, <3>8, <3>9 DEF Held
  <2>. QED  BY <1>2, <2>1, <2>2, <2>3 DEF Rest
<1>. QED  BY <1>2, <1>3, <1>9, <1>10, <1>12, <1>17 DEF WalInv

\* A torn append, with or without later ones.
LEMMA TornStep ==
  ASSUME WalInv, Crash \/ FailedRollback
  PROVE  WalInv'
<1>0. \E ops \in 1 .. MaxOps, blob \in 0 .. MaxBlob :
        \E n \in 0 .. (Len(NextRecord(ops, blob)) - 1) :
          file' = file \o SubSeq(NextRecord(ops, blob), 1, n)
  <2>1. CASE Crash
    BY <2>1 DEF Crash
  <2>2. CASE FailedRollback
    <3>1. PICK ops \in 1 .. MaxOps, blob \in 0 .. MaxBlob :
            \E n \in 1 .. Len(NextRecord(ops, blob)) - 1 :
              file' = file \o SubSeq(NextRecord(ops, blob), 1, n)
      BY <2>2 DEF FailedRollback
    <3>2. \A n \in 1 .. Len(NextRecord(ops, blob)) - 1 : n \in 0 .. (Len(NextRecord(ops, blob)) - 1)
      OBVIOUS
    <3>. QED  BY <3>1, <3>2
  <2>. QED  BY <2>1, <2>2
<1>1. PICK ops \in 1 .. MaxOps, blob \in 0 .. MaxBlob :
        \E n \in 0 .. (Len(NextRecord(ops, blob)) - 1) :
          file' = file \o SubSeq(NextRecord(ops, blob), 1, n)
  BY <1>0
<1>2. /\ phase = "live" /\ phase' \in {"live", "replay"}
      /\ damages < MaxDamage /\ damages' = damages + 1
      /\ UNCHANGED <<committed, spoiled, offset, frames, last_lsn>>
  BY DEF Crash, FailedRollback, replayState
<1>m. /\ misled' \in BOOLEAN /\ (misled => misled') /\ (phase' = "replay" \/ misled')
  BY DEF Crash, FailedRollback, WalInv, Scalars
<1>3. Scalars /\ Stored /\ Accepted /\ last_lsn = 0 /\ file \in Bytes
  BY <1>2 DEF WalInv, Scalars
<1>4. PICK q \in Bytes : q = NextRecord(ops, blob) /\ IsRecord(Len(committed) + 1, q)
  BY <1>3, NextIsRecord
<1>n. PICK n \in 0 .. (Len(q) - 1) : file' = file \o SubSeq(q, 1, n)
  BY <1>1, <1>4
<1>5. n \in 0 .. Len(q) /\ n < Len(q) /\ Len(q) \in Nat /\ Len(committed) + 1 \in Nat
  <2>1. Len(q) \in Nat
    BY DEF Bytes
  <2>2. Len(committed) \in Nat
    BY <1>3 DEF Stored
  <2>. QED  BY <2>1, <2>2
<1>6. PICK t : t = SubSeq(q, 1, n)
  OBVIOUS
<1>7. t \in Bytes /\ Len(t) = n /\ Begun(t) /\ (n > 0 /\ n < Len(q) => Stray(t))
  BY <1>4, <1>5, <1>6, PrefixBegun
<1>8. t # << >> => Stray(t)
  BY <1>5, <1>7, JoinedEmpty
<1>9. Joined(file', file, t)
  BY <1>n, <1>6 DEF Joined
<1>10. file' \in Bytes /\ Len(file') = Len(file) + Len(t) /\ Len(file) \in Nat /\ Len(t) \in Nat
  BY <1>3, <1>7, <1>9, JoinedParts
<1>11. PICK m \in 0 .. Len(committed), z \in Bytes :
           /\ Joined(file', First(m), z)
           /\ \/ z = << >> /\ m = Len(committed)
              \/ /\ Stray(z) /\ Len(file') > Len(FlattenSeq(committed))
                 /\ misled \/ m = Len(committed)
  BY <1>2, <1>7, <1>8, <1>9, <1>10, Unfinished
<1>12. First(m)' = First(m) /\ Len(committed') = Len(committed)
       /\ FlattenSeq(committed') = FlattenSeq(committed)
  BY <1>2 DEF First
<1>13. Rest(m, z)'
  BY <1>11, <1>12, <1>m DEF Rest
<1>14. Held'
  <2>1. Joined(file', First(m)', z)
    BY <1>11, <1>12
  <2>2. m \in last_lsn' .. Len(committed')
    BY <1>2, <1>3, <1>12
  <2>. QED  BY <1>13, <2>1, <2>2 DEF Held
<1>15. Scalars'
  <2>1. offset' \in 0 .. Len(file')
    <3>1. offset' = offset /\ offset \in 0 .. Len(file)
      BY <1>2, <1>3 DEF Scalars
    <3>. QED  BY <1>10, <3>1
  <2>2. damages' \in 0 .. MaxDamage
    <3>1. damages \in 0 .. MaxDamage /\ MaxDamage \in Nat
      BY <1>3, WalAssumption DEF Scalars
    <3>. QED  BY <1>2, <3>1
  <2>3. spoiled' \in 0 .. MaxCommits
    BY <1>2, <1>3 DEF Scalars
  <2>. QED  BY <1>2, <1>m, <1>10, <2>1, <2>2, <2>3 DEF Scalars
<1>16. Stored'
  BY <1>2, <1>3 DEF Stored
<1>17. Accepted'
  BY <1>2, <1>3 DEF Accepted
<1>. QED  BY <1>2, <1>3, <1>14, <1>15, <1>16, <1>17 DEF WalInv

\* A cell rots.
LEMMA RotStep ==
  ASSUME WalInv, BitRot
  PROVE  WalInv'
<1>0. PICK i \in 1 .. Len(committed) : \E p \in 1 .. Len(committed[i]), v \in FlipValues :
         /\ committed[i][p] # Cell(v)
         /\ file' = [file EXCEPT ![Start(i) + p] = Cell(v)]
         /\ spoiled' = i
         /\ misled' = (misled \/ p \in {5, 6})
  BY DEF BitRot
<1>1. PICK p \in 1 .. Len(committed[i]), v \in FlipValues :
         /\ committed[i][p] # Cell(v)
         /\ file' = [file EXCEPT ![Start(i) + p] = Cell(v)]
         /\ spoiled' = i
         /\ misled' = (misled \/ p \in {5, 6})
  BY <1>0
<1>2. /\ phase = "live" /\ phase' = "replay" /\ Len(file) = Len(FlattenSeq(committed))
      /\ damages < MaxDamage /\ damages' = damages + 1
      /\ UNCHANGED <<committed, offset, frames, last_lsn>>
  BY DEF BitRot, replayState
<1>3. Scalars /\ Stored /\ Accepted /\ last_lsn = 0 /\ file \in Bytes /\ Held
  BY <1>2 DEF WalInv, Scalars
<1>4. PICK r \in Bytes : r = committed[i] /\ IsRecord(i, r) /\ i \in Nat
  BY <1>3 DEF Stored
<1>5. PICK k \in 0 .. Len(committed) : k = i - 1 /\ k + 1 = i /\ k < Len(committed)
  <2>1. Len(committed) \in Nat
    BY <1>3 DEF Stored
  <2>2. i - 1 \in 0 .. Len(committed) /\ (i - 1) + 1 = i /\ i - 1 < Len(committed)
    BY <2>1
  <2>. QED  BY <2>2
<1>6. file = FlattenSeq(committed)
  <2>1. PICK m \in 0 .. Len(committed), z \in Bytes : Joined(file, First(m), z) /\ Rest(m, z)
    BY <1>3 DEF Held
  <2>2. Len(file) \in Nat
    BY <1>3 DEF Bytes
  <2>3. z = << >> /\ m = Len(committed)
    BY <1>2, <2>1, <2>2 DEF Rest
  <2>4. First(m) \in Bytes /\ First(m) = FlattenSeq(committed)
    BY <1>3, <2>3, FirstFacts
  <2>. QED  BY <2>1, <2>3, <2>4, JoinedEmpty
<1>7. committed \in Seq(Bytes) /\ Len(committed) \in Nat
      /\ SubSeq(committed, 1, Len(committed)) = committed
      /\ First(k) \in Bytes
      /\ \A j \in 1 .. Len(committed) : committed[j] # << >>
  <2>1. committed \in Seq(Bytes)
    BY <1>3 DEF Stored
  <2>. QED  BY <1>3, <2>1, FirstFacts
<1>8. PICK later, more \in Bytes :
           /\ Joined(file, First(k), later)
           /\ Joined(later, r, more)
           /\ k + 1 < Len(committed) => more # << >>
  <2>1. Len(committed) \in 0 .. Len(committed)
    BY <1>7
  <2>2. PICK later, more \in Bytes :
           /\ Joined(FlattenSeq(SubSeq(committed, 1, Len(committed))),
                     FlattenSeq(SubSeq(committed, 1, k)), later)
           /\ Joined(later, committed[k + 1], more)
           /\ k + 1 < Len(committed) /\ (\A j \in 1 .. Len(committed) : committed[j] # << >>) => more # << >>
    BY <1>5, <1>7, <2>1, FlatNext
  <2>. QED  BY <1>4, <1>5, <1>6, <1>7, <2>2 DEF First
<1>9. Len(later) = Len(r) + Len(more) /\ Len(r) \in Nat /\ Len(more) \in Nat
  BY <1>8, JoinedParts
<1>10. \A j \in 1 .. Len(r) : later[j] = r[j]
  BY <1>8, JoinedParts
<1>11. p \in 1 .. Len(r) /\ p \in 1 .. Len(later) /\ Cell(v) # r[p] /\ v \in Nat
  <2>1. v \in Nat
    BY WalAssumption
  <2>. QED  BY <1>1, <1>4, <1>9, <2>1
<1>12. Start(i) = Len(First(k))
  BY <1>5 DEF Start, First
<1>13. PICK z \in Bytes :
           /\ Joined(file', First(k), z) /\ Len(z) = Len(later)
           /\ z[p] = Cell(v) /\ \A j \in 1 .. Len(later) : j # p => z[j] = later[j]
  <2>1. Cell(v) \in Cells
    BY <1>11, CellFacts
  <2>2. file' = [file EXCEPT ![Len(First(k)) + p] = Cell(v)]
    BY <1>1, <1>12
  <2>3. \E z \in Bytes :
           /\ Joined([file EXCEPT ![Len(First(k)) + p] = Cell(v)], First(k), z) /\ Len(z) = Len(later)
           /\ z[p] = Cell(v) /\ \A j \in 1 .. Len(later) : j # p => z[j] = later[j]
    <3>1. file \in Bytes /\ First(k) \in Bytes /\ Joined(file, First(k), later) /\ p \in 1 .. Len(later)
      BY <1>3, <1>7, <1>8, <1>11
    <3>. QED  BY ONLY <2>1, <3>1, later \in Bytes, JoinedRot
  <2>. QED  BY <2>2, <2>3
<1>14. Rotten(z, r, p)
  <2>1. Len(r) <= Len(z)
    BY <1>9, <1>13
  <2>2. ASSUME NEW j \in 1 .. Len(r), j # p PROVE z[j] = r[j]
    <3>1. j \in 1 .. Len(later)
      BY <1>9
    <3>. QED  BY <1>10, <1>13, <2>2, <3>1
  <2>. QED  BY <1>11, <1>13, <2>1, <2>2 DEF Rotten
<1>15. Len(z) = Len(r) => k + 1 = Len(committed)
  <2>. SUFFICES ASSUME Len(z) = Len(r), k + 1 # Len(committed) PROVE FALSE
    OBVIOUS
  <2>1. Len(more) = 0
    BY <1>9, <1>13
  <2>2. k + 1 < Len(committed)
    <3>1. k < Len(committed) /\ Len(committed) \in Nat
      BY <1>5, <1>7
    <3>. QED  BY <3>1
  <2>. QED  BY <1>8, <2>1, <2>2, JoinedEmpty
<1>16. First(k)' = First(k) /\ committed' = committed
  BY <1>2 DEF First
<1>17. Rest(k, z)'
  <2>1. Rotten(z, committed[k + 1], p)'
    BY <1>4, <1>5, <1>14, <1>16
  <2>2. misled' \/ (p \notin {5, 6} /\ spoiled' = k + 1)
    BY <1>1, <1>5
  <2>3. Len(z) = Len(committed'[k + 1]) => k + 1 = Len(committed')
    BY <1>4, <1>5, <1>15, <1>16
  <2>4. phase' = "replay" /\ k < Len(committed')
    BY <1>2, <1>5, <1>16
  <2>. QED  BY <2>1, <2>2, <2>3, <2>4 DEF Rest
<1>18. Held'
  <2>1. Joined(file', First(k)', z)
    BY <1>13, <1>16
  <2>2. k \in last_lsn' .. Len(committed')
    BY <1>2, <1>3, <1>16
  <2>. QED  BY <1>17, <2>1, <2>2 DEF Held
<1>19. file' \in Bytes /\ Len(file') = Len(file)
  <2>1. file' \in Bytes /\ Len(file') = Len(First(k)) + Len(z)
    BY <1>7, <1>13, JoinedParts
  <2>2. Len(file) = Len(First(k)) + Len(later)
    BY <1>7, <1>8, JoinedParts
  <2>. QED  BY <1>13, <2>1, <2>2
<1>20. Scalars'
  <2>1. offset' \in 0 .. Len(file')
    BY <1>2, <1>3, <1>19 DEF Scalars
  <2>2. damages' \in 0 .. MaxDamage
    <3>1. damages \in 0 .. MaxDamage /\ MaxDamage \in Nat
      BY <1>3, WalAssumption DEF Scalars
    <3>. QED  BY <1>2, <3>1
  <2>3. spoiled' \in 0 .. MaxCommits
    <3>1. MaxCommits \in Nat /\ Len(committed) <= MaxCommits
      BY <1>3, WalAssumption DEF Stored
    <3>. QED  BY <1>1, <1>7, <3>1
  <2>4. misled' \in BOOLEAN
    BY <1>1
  <2>. QED  BY <1>2, <1>19, <2>1, <2>2, <2>3, <2>4 DEF Scalars
<1>21. Stored'
  BY <1>2, <1>3 DEF Stored
<1>22. Accepted'
  BY <1>2, <1>3 DEF Accepted
<1>. QED  BY <1>2, <1>3, <1>18, <1>20, <1>21, <1>22 DEF WalInv

\* Db::open starts to read.
LEMMA OpenStep ==
  ASSUME WalInv, Open
  PROVE  WalInv'
<1>1. /\ phase = "live" /\ phase' = "replay"
      /\ UNCHANGED <<file, committed, spoiled, misled, damages, offset, frames, last_lsn>>
  BY DEF Open, replayState
<1>2. Scalars /\ Stored /\ Accepted /\ Held
  BY <1>1 DEF WalInv
<1>3. PICK m \in last_lsn .. Len(committed), z \in Bytes : Joined(file, First(m), z) /\ Rest(m, z)
  BY <1>2 DEF Held
<1>4. First(m)' = First(m)
  BY <1>1 DEF First
<1>5. Rest(m, z)'
  BY <1>1, <1>3 DEF Rest
<1>6. Held'
  BY <1>1, <1>3, <1>4, <1>5 DEF Held
<1>7. Scalars'
  BY <1>1, <1>2 DEF Scalars
<1>8. Stored'
  BY <1>1, <1>2 DEF Stored
<1>9. Accepted'
  BY <1>1, <1>2 DEF Accepted
<1>. QED  BY <1>1, <1>6, <1>7, <1>8, <1>9 DEF WalInv

\* What the next turn of the replay loop finds: the next commit or, when all that are
\* whole have been accepted, something that is not a record.
LEMMA Turn ==
  ASSUME WalInv, phase = "replay",
         NEW m \in last_lsn .. Len(committed), NEW z \in Bytes, Joined(file, First(m), z), Rest(m, z)
  PROVE  /\ last_lsn < m =>
              /\ offset < Len(file) /\ parse_one_record(Remaining, last_lsn) = "frame"
              /\ Header(Remaining).len = Len(committed[last_lsn + 1])
              /\ Header(Remaining).lsn = last_lsn + 1
              /\ SubSeq(Remaining, 1, Len(committed[last_lsn + 1])) = committed[last_lsn + 1]
              /\ Len(file) >= offset + Len(committed[last_lsn + 1])
         /\ last_lsn = m =>
              /\ Remaining = z /\ SubSeq(file, 1, offset) = FlattenSeq(frames)
              /\ offset < Len(file) => parse_one_record(Remaining, last_lsn) # "frame"
<1>1. /\ Stored /\ file \in Bytes /\ last_lsn \in 0 .. Len(committed)
      /\ frames = SubSeq(committed, 1, last_lsn) /\ offset = Len(FlattenSeq(frames))
  BY DEF WalInv, Scalars, Accepted
<1>2. FlattenSeq(frames) = First(last_lsn) /\ offset = Len(First(last_lsn))
  BY <1>1 DEF First
<1>3. /\ Len(committed) \in Nat /\ First(last_lsn) \in Bytes /\ offset \in Nat
      /\ \A i \in 1 .. Len(committed) : committed[i] # << >>
  BY <1>1, <1>2, FirstFacts
<1>4. m \in 0 .. Len(committed) /\ HEADER_LEN = 7
  BY <1>1, <1>3, CellFacts
<1>5. ASSUME NEW later \in Bytes, Joined(file, First(last_lsn), later)
      PROVE  /\ Remaining = later /\ Len(file) = offset + Len(later) /\ Len(later) \in Nat
             /\ SubSeq(file, 1, offset) = First(last_lsn)
  <2>1. /\ Len(later) \in Nat /\ Len(file) = Len(First(last_lsn)) + Len(later)
    BY <1>3, <1>5, JoinedParts
  <2>2. SubSeq(file, 1, Len(First(last_lsn))) = First(last_lsn)
    BY <1>3, <1>5, JoinedParts
  <2>3. SubSeq(file, Len(First(last_lsn)) + 1, Len(file)) = later
    BY <1>3, <1>5, JoinedParts
  <2>. QED  BY <1>2, <2>1, <2>2, <2>3 DEF Remaining
<1>6. ASSUME last_lsn < m
      PROVE  /\ offset < Len(file) /\ parse_one_record(Remaining, last_lsn) = "frame"
             /\ Header(Remaining).len = Len(committed[last_lsn + 1])
             /\ Header(Remaining).lsn = last_lsn + 1
             /\ SubSeq(Remaining, 1, Len(committed[last_lsn + 1])) = committed[last_lsn + 1]
             /\ Len(file) >= offset + Len(committed[last_lsn + 1])
  <2>1. PICK r \in Bytes : r = committed[last_lsn + 1] /\ IsRecord(last_lsn + 1, r)
    <3>1. last_lsn < Len(committed)
      BY <1>1, <1>3, <1>4, <1>6
    <3>. QED  BY <1>1, <3>1, FirstFacts
  <2>2. PICK part, more \in Bytes : Joined(First(m), First(last_lsn), part) /\ Joined(part, r, more)
    <3>1. committed \in Seq(Bytes)
      BY <1>1 DEF Stored
    <3>2. \E part, more \in Bytes :
             /\ Joined(FlattenSeq(SubSeq(committed, 1, m)), FlattenSeq(SubSeq(committed, 1, last_lsn)), part)
             /\ Joined(part, committed[last_lsn + 1], more)
      BY <1>1, <1>4, <1>6, <3>1, FlatNext
    <3>. QED  BY <2>1, <3>2 DEF First
  <2>3. PICK later \in Bytes : Joined(file, First(last_lsn), later) /\ Joined(later, part, z)
    BY <1>3, <2>2, BytesMore
  <2>4. PICK rest \in Bytes : Joined(later, r, rest)
    BY <2>2, <2>3, BytesMore
  <2>5. /\ Remaining = later /\ Len(file) = offset + Len(later) /\ Len(later) \in Nat
    BY <1>5, <2>3
  <2>6. last_lsn + 1 \in Nat /\ last_lsn \in Nat
    BY <1>1
  <2>7. /\ Len(later) >= 7 /\ Valid(later) /\ Header(later).len = Len(r)
        /\ Header(later).lsn = last_lsn + 1 /\ SubSeq(later, 1, Len(r)) = r
    BY <2>1, <2>4, <2>6, RecordValid
  <2>8. Len(later) >= Len(r) /\ Len(r) \in Nat
    <3>1. Len(later) = Len(r) + Len(rest) /\ Len(r) \in Nat /\ Len(rest) \in Nat
      BY <2>4, JoinedParts
    <3>. QED  BY <3>1
  <2>9. parse_one_record(later, last_lsn) = "frame"
    <3>1. ~(Len(later) < HEADER_LEN)
      BY <1>4, <2>5, <2>7
    <3>2. ~(Header(later).lsn <= last_lsn)
      BY <2>6, <2>7
    <3>. QED  BY <2>7, <3>1, <3>2 DEF parse_one_record
  <2>10. offset < Len(file) /\ Len(file) >= offset + Len(r)
    BY <1>3, <2>5, <2>7, <2>8
  <2>. QED  BY <2>1, <2>5, <2>7, <2>9, <2>10
<1>7. ASSUME last_lsn = m
      PROVE  /\ Remaining = z /\ SubSeq(file, 1, offset) = FlattenSeq(frames)
             /\ offset < Len(file) => parse_one_record(Remaining, last_lsn) # "frame"
  <2>1. Joined(file, First(last_lsn), z)
    BY <1>7
  <2>2. /\ Remaining = z /\ SubSeq(file, 1, offset) = FlattenSeq(frames)
        /\ Len(file) = offset + Len(z) /\ Len(z) \in Nat
    BY <1>2, <1>5, <2>1
  <2>3. ASSUME offset < Len(file), Len(z) >= 7 PROVE ~Valid(z)
    <3>1. CASE z = << >>
      BY <1>3, <2>2, <2>3, <3>1, JoinedEmpty
    <3>2. CASE Stray(z)
      BY <2>3, <3>2, StrayInvalid
    <3>3. CASE m < Len(committed) /\ \E p : Rotten(z, committed[m + 1], p)
      <4>1. committed[m + 1] \in Bytes /\ IsRecord(m + 1, committed[m + 1]) /\ m + 1 \in Nat
        BY <1>1, <1>4, <3>3, FirstFacts
      <4>. QED  BY <3>3, <4>1, RottenInvalid
    <3>. QED  BY <3>1, <3>2, <3>3 DEF Rest
  <2>4. ASSUME offset < Len(file) PROVE parse_one_record(z, last_lsn) # "frame"
    <3>1. CASE Len(z) < 7
      BY <1>4, <3>1 DEF parse_one_record
    <3>2. CASE Len(z) >= 7
      <4>1. ~Valid(z) /\ ~(Len(z) < HEADER_LEN)
        BY <1>4, <2>2, <2>3, <2>4, <3>2
      <4>. QED  BY <4>1 DEF parse_one_record
    <3>. QED  BY <2>2, <3>1, <3>2
  <2>. QED  BY <2>2, <2>4
<1>. QED  BY <1>6, <1>7

\* One record is accepted.
LEMMA RecordStep ==
  ASSUME WalInv, ReplayRecord
  PROVE  WalInv'
<1>1. /\ phase = "replay" /\ offset < Len(file)
      /\ parse_one_record(Remaining, last_lsn) = "frame"
      /\ frames' = Append(frames, SubSeq(Remaining, 1, Header(Remaining).len))
      /\ offset' = offset + Header(Remaining).len
      /\ last_lsn' = Header(Remaining).lsn
      /\ UNCHANGED <<file, committed, spoiled, misled, damages, phase>>
  BY DEF ReplayRecord
<1>2. Scalars /\ Stored /\ Accepted /\ Held
  BY <1>1 DEF WalInv
<1>3. PICK m \in last_lsn .. Len(committed), z \in Bytes : Joined(file, First(m), z) /\ Rest(m, z)
  BY <1>2 DEF Held
<1>4. last_lsn \in 0 .. Len(committed) /\ Len(committed) \in Nat
  BY <1>2 DEF Accepted, Stored
<1>5. last_lsn < m
  <2>1. last_lsn # m
    BY <1>1, <1>3, Turn
  <2>. QED  BY <1>4, <2>1
<1>6. /\ Header(Remaining).len = Len(committed[last_lsn + 1])
      /\ Header(Remaining).lsn = last_lsn + 1
      /\ SubSeq(Remaining, 1, Len(committed[last_lsn + 1])) = committed[last_lsn + 1]
      /\ Len(file) >= offset + Len(committed[last_lsn + 1])
  BY <1>1, <1>3, <1>5, Turn
<1>7. last_lsn < Len(committed)
  BY <1>4, <1>5
<1>8. /\ committed[last_lsn + 1] \in Bytes
      /\ SubSeq(committed, 1, last_lsn + 1) = Append(SubSeq(committed, 1, last_lsn), committed[last_lsn + 1])
      /\ Joined(First(last_lsn + 1), First(last_lsn), committed[last_lsn + 1])
      /\ First(last_lsn) \in Bytes
  BY <1>2, <1>4, <1>7, FirstFacts
<1>9. /\ Len(First(last_lsn + 1)) = Len(First(last_lsn)) + Len(committed[last_lsn + 1])
      /\ Len(committed[last_lsn + 1]) \in Nat
  <2>1. PICK f, x, r : f = First(last_lsn + 1) /\ x = First(last_lsn) /\ r = committed[last_lsn + 1]
    OBVIOUS
  <2>2. x \in Bytes /\ r \in Bytes /\ Joined(f, x, r)
    BY <1>8, <2>1
  <2>3. Len(f) = Len(x) + Len(r) /\ Len(r) \in Nat
    BY ONLY <2>2, JoinedParts
  <2>. QED  BY ONLY <2>1, <2>3
<1>10. frames = SubSeq(committed, 1, last_lsn) /\ offset = Len(FlattenSeq(frames)) /\ offset = Len(First(last_lsn))
  BY <1>2 DEF Accepted, First
<1>11. frames' = SubSeq(committed, 1, last_lsn + 1)
  BY <1>1, <1>6, <1>8, <1>10
<1>12. offset' = Len(First(last_lsn + 1)) /\ last_lsn' = last_lsn + 1
  BY <1>1, <1>6, <1>9, <1>10
<1>13. Accepted'
  <2>1. last_lsn' \in 0 .. Len(committed')
    BY <1>1, <1>4, <1>7, <1>12
  <2>2. frames' = SubSeq(committed', 1, last_lsn')
    BY <1>1, <1>11, <1>12
  <2>3. offset' = Len(FlattenSeq(frames'))
    BY <1>11, <1>12 DEF First
  <2>. QED  BY <2>1, <2>2, <2>3 DEF Accepted
<1>14. Scalars'
  <2>1. offset \in 0 .. Len(file) /\ Len(file) \in Nat
    BY <1>2 DEF Scalars, Bytes
  <2>2. offset' \in 0 .. Len(file)
    BY <1>1, <1>6, <1>9, <2>1
  <2>. QED  BY <1>1, <1>2, <2>2 DEF Scalars
<1>15. Stored'
  BY <1>1, <1>2 DEF Stored
<1>16. Held'
  <2>1. First(m)' = First(m)
    BY <1>1 DEF First
  <2>2. Rest(m, z)'
    BY <1>1, <1>3 DEF Rest
  <2>3. m \in last_lsn' .. Len(committed')
    BY <1>1, <1>4, <1>5, <1>12
  <2>. QED  BY <1>1, <1>3, <2>1, <2>2, <2>3 DEF Held
<1>. QED  BY <1>1, <1>13, <1>14, <1>15, <1>16 DEF WalInv

\* Replay fails loudly.
LEMMA LoudStep ==
  ASSUME WalInv, ReplayLoud
  PROVE  WalInv'
<1>1. /\ phase' = "loud"
      /\ UNCHANGED <<file, committed, spoiled, misled, damages, offset, frames, last_lsn>>
  BY DEF ReplayLoud, replayState
<1>2. Scalars /\ Stored /\ Accepted
  BY DEF WalInv
<1>3. Scalars'
  BY <1>1, <1>2 DEF Scalars
<1>4. Stored'
  BY <1>1, <1>2 DEF Stored
<1>5. Accepted'
  BY <1>1, <1>2 DEF Accepted
<1>. QED  BY <1>1, <1>3, <1>4, <1>5 DEF WalInv

\* Replay stops where no record is left that could be accepted.
LEMMA StopStep ==
  ASSUME WalInv, ReplayStop
  PROVE  WalInv'
<1>1. /\ phase = "replay" /\ phase' = "ok" /\ file' = SubSeq(file, 1, offset)
      /\ offset < Len(file) => parse_one_record(Remaining, last_lsn) = "stop"
      /\ UNCHANGED <<committed, spoiled, misled, damages, offset, frames, last_lsn>>
  BY DEF ReplayStop, replayState
<1>2. Scalars /\ Stored /\ Accepted /\ Held /\ file \in Bytes /\ offset \in 0 .. Len(file)
  BY <1>1 DEF WalInv, Scalars
<1>3. PICK m \in last_lsn .. Len(committed), z \in Bytes : Joined(file, First(m), z) /\ Rest(m, z)
  BY <1>2 DEF Held
<1>4. last_lsn \in 0 .. Len(committed) /\ Len(committed) \in Nat
  BY <1>2 DEF Accepted, Stored
<1>5. last_lsn = m
  <2>1. ~(last_lsn < m)
    BY <1>1, <1>3, Turn
  <2>. QED  BY <1>4, <2>1
<1>6. Remaining = z /\ SubSeq(file, 1, offset) = FlattenSeq(frames)
  BY <1>1, <1>3, <1>5, Turn
<1>7. file' \in Bytes /\ Len(file') = offset /\ offset \in Nat
  BY <1>1, <1>2, PrefixParts
<1>8. Scalars'
  <2>1. offset' \in 0 .. Len(file')
    BY <1>1, <1>7
  <2>. QED  BY <1>1, <1>2, <1>7, <2>1 DEF Scalars
<1>9. Stored'
  BY <1>1, <1>2 DEF Stored
<1>10. Accepted'
  BY <1>1, <1>2 DEF Accepted
<1>11. file' = FlattenSeq(frames')
  BY <1>1, <1>6
<1>12. ASSUME ~misled, NEW i \in (last_lsn + 1) .. Len(committed) PROVE i = spoiled
  <2>1. m < Len(committed)
    BY <1>4, <1>5, <1>12
  <2>2. PICK p : /\ Rotten(z, committed[m + 1], p) /\ p \notin {5, 6} /\ spoiled = m + 1
                 /\ Len(z) = Len(committed[m + 1]) => m + 1 = Len(committed)
    <3>1. m # Len(committed)
      BY <1>4, <2>1
    <3>. QED  BY <1>3, <1>12, <3>1 DEF Rest
  <2>3. PICK r \in Bytes : r = committed[m + 1] /\ IsRecord(m + 1, r)
    BY <1>2, <1>4, <1>5, <2>1, FirstFacts
  <2>4. m + 1 \in Nat /\ Len(z) \in Nat /\ Len(r) \in Nat
    BY <1>4, <1>5 DEF Bytes
  <2>5. Rotten(z, r, p)
    BY <2>2, <2>3
  <2>6. Len(z) >= 7 /\ ~Valid(z) /\ well_framed(z) /\ Header(z).len = Len(r)
    BY <2>2, <2>3, <2>4, <2>5, RottenInvalid
  <2>7. offset < Len(file)
    <3>1. Len(SubSeq(file, offset + 1, Len(file))) = Len(file) - offset /\ Len(file) \in Nat
      BY <1>2, SuffixParts
    <3>. QED  BY <1>2, <1>6, <2>4, <2>6, <3>1 DEF Remaining
  <2>8. is_last(z)
    <3>1. parse_one_record(z, last_lsn) = "stop"
      BY <1>1, <1>6, <2>7
    <3>2. ~(Len(z) < HEADER_LEN)
      BY <2>4, <2>6, CellFacts
    <3>. QED  BY <2>6, <3>1, <3>2 DEF parse_one_record
  <2>9. Len(r) >= Len(z)
    BY <2>6, <2>8 DEF is_last
  <2>10. Len(r) <= Len(z)
    BY <2>5 DEF Rotten
  <2>11. m + 1 = Len(committed)
    BY <2>2, <2>3, <2>4, <2>9, <2>10
  <2>. QED  BY <1>4, <1>5, <1>12, <2>2, <2>11
<1>13. ~misled' => \A i \in (last_lsn' + 1) .. Len(committed') : i = spoiled'
  BY <1>1, <1>12
<1>. QED  BY <1>1, <1>8, <1>9, <1>10, <1>11, <1>13 DEF WalInv

\* The recovered records become the commits of the next run.
LEMMA ResumeStep ==
  ASSUME WalInv, Resume
  PROVE  WalInv'
<1>1. /\ phase = "ok" /\ phase' = "live" /\ committed' = frames /\ spoiled' = 0 /\ misled' = FALSE
      /\ offset' = 0 /\ frames' = << >> /\ last_lsn' = 0 /\ UNCHANGED <<file, damages>>
  BY DEF Resume
<1>2. Scalars /\ Stored /\ Accepted /\ file = FlattenSeq(frames) /\ file \in Bytes
  BY <1>1 DEF WalInv, Scalars
<1>3. /\ last_lsn \in 0 .. Len(committed) /\ frames = SubSeq(committed, 1, last_lsn)
      /\ committed \in Seq(Bytes) /\ Len(committed) \in Nat /\ Len(committed) <= MaxCommits
  BY <1>2 DEF Accepted, Stored
<1>4. /\ frames \in Seq(Bytes) /\ Len(frames) = last_lsn
      /\ \A i \in 1 .. last_lsn : frames[i] = committed[i]
  BY <1>3, FirstOf
<1>5. Stored'
  <2>1. Len(committed') <= MaxCommits
    <3>1. MaxCommits \in Nat
      BY WalAssumption
    <3>. QED  BY <1>1, <1>3, <1>4, <3>1
  <2>2. ASSUME NEW i \in 1 .. Len(committed') PROVE IsRecord(i, committed'[i])
    <3>1. i \in 1 .. last_lsn /\ i \in 1 .. Len(committed)
      BY <1>1, <1>3, <1>4
    <3>. QED  BY <1>1, <1>2, <1>4, <3>1 DEF Stored
  <2>3. \A i \in 1 .. Len(committed') : IsRecord(i, committed'[i])
    BY <2>2
  <2>. QED  BY <1>1, <1>4, <2>1, <2>3 DEF Stored
<1>6. Scalars'
  <2>1. offset' \in 0 .. Len(file')
    <3>1. Len(file) \in Nat
      BY <1>2 DEF Bytes
    <3>. QED  BY <1>1, <3>1
  <2>2. spoiled' \in 0 .. MaxCommits
    <3>1. MaxCommits \in Nat
      BY WalAssumption
    <3>. QED  BY <1>1, <3>1
  <2>3. file' \in Bytes /\ damages' \in 0 .. MaxDamage
    BY <1>1, <1>2 DEF Scalars
  <2>. QED  BY <1>1, <2>1, <2>2, <2>3 DEF Scalars
<1>7. SubSeq(frames, 1, 0) = << >> /\ FlattenSeq(<< >>) = << >> /\ Len(<< >>) = 0
  <2>1. SubSeq(frames, 1, 0) = << >>
    BY <1>4
  <2>2. FlattenSeq(<< >>) = << >>
    BY DEF FlattenSeq
  <2>. QED  BY <2>1, <2>2
<1>8. Accepted'
  <2>1. last_lsn' \in 0 .. Len(committed')
    BY <1>1, <1>3, <1>4
  <2>2. frames' = SubSeq(committed', 1, last_lsn')
    BY <1>1, <1>7
  <2>3. offset' = Len(FlattenSeq(frames'))
    BY <1>1, <1>7
  <2>. QED  BY <2>1, <2>2, <2>3 DEF Accepted
<1>9. Held'
  <2>1. PICK n : n = last_lsn
    OBVIOUS
  <2>2. First(n)' = file'
    <3>1. SubSeq(frames, 1, Len(frames)) = frames
      BY <1>4, FirstOf
    <3>. QED  BY <1>1, <1>2, <1>4, <2>1, <3>1 DEF First
  <2>3. << >> \in Bytes /\ Joined(file', First(n)', << >>)
    BY <1>1, <1>2, <2>2, JoinedEmpty
  <2>4. Rest(n, << >>)'
    BY <1>1, <1>4, <2>1 DEF Rest
  <2>5. n \in last_lsn' .. Len(committed')
    BY <1>1, <1>3, <1>4, <2>1
  <2>. QED  BY <2>3, <2>4, <2>5 DEF Held
<1>. QED  BY <1>1, <1>5, <1>6, <1>8, <1>9 DEF WalInv

\* A step that changes nothing.
LEMMA SameStep ==
  ASSUME WalInv, UNCHANGED vars
  PROVE  WalInv'
<1>1. UNCHANGED <<file, committed, spoiled, misled, damages, phase, offset, frames, last_lsn>>
  BY DEF vars
<1>2. Scalars' = Scalars
  BY <1>1 DEF Scalars
<1>3. Stored' = Stored
  BY <1>1 DEF Stored
<1>4. Accepted' = Accepted
  BY <1>1 DEF Accepted
<1>5. \A m, z : First(m)' = First(m) /\ (Rest(m, z)' <=> Rest(m, z))
  BY <1>1 DEF First, Rest
<1>6. Held => Held'
  BY <1>1, <1>5 DEF Held
<1>. QED  BY <1>1, <1>2, <1>3, <1>4, <1>6 DEF WalInv

-----------------------------------------------------------------------------
(* Theorems *)

\* Every step of an append, of a damage and of the replay keeps the invariant.
LEMMA Inductive == Spec => []WalInv
<1>1. Init => WalInv
  BY InvInit
<1>2. WalInv /\ [Next]_vars => WalInv'
  BY AppendStep, TornStep, RotStep, OpenStep, RecordStep, LoudStep, StopStep, ResumeStep, SameStep DEF Next
<1>. QED  BY <1>1, <1>2, PTL DEF Spec

\* Whatever a crash, a rollback that failed or a rotten cell left in the log, replay
\* (wal.rs, replay and parse_one_record) accepts a prefix of the commits, and the
\* truncation of Db::open leaves their encoding and nothing else.
THEOREM CleanRecovery == Spec => []RecoveredClean
<1>1. ASSUME WalInv PROVE RecoveredClean
  <2>1. /\ last_lsn \in 0 .. Len(committed) /\ frames = SubSeq(committed, 1, last_lsn)
        /\ committed \in Seq(Bytes) /\ Len(committed) \in Nat
    BY <1>1 DEF WalInv, Accepted, Stored
  <2>2. Len(frames) = last_lsn
    BY <2>1, FirstOf
  <2>3. ReplayIsPrefix
    BY <2>1, <2>2 DEF ReplayIsPrefix, IsPrefix
  <2>4. TruncatedClean
    BY <1>1 DEF WalInv, TruncatedClean
  <2>. QED  BY <1>1, <2>3, <2>4, InvTypes DEF RecoveredClean
<1>2. WalInv => RecoveredClean
  BY <1>1
<1>. QED  BY <1>2, Inductive, PTL

\* While lengths and counts can be trusted and nothing lies between the records, a
\* recovery that succeeds drops at most the damaged record, and that was the last: with
\* a commit behind it is_last is false and parse_one_record is loud.
THEOREM TailExact == Spec => []FramedTailDropped
<1>1. ASSUME WalInv PROVE FramedTailDropped
  <2>1. /\ last_lsn \in 0 .. Len(committed) /\ frames = SubSeq(committed, 1, last_lsn)
        /\ committed \in Seq(Bytes)
    BY <1>1 DEF WalInv, Accepted, Stored
  <2>2. Len(frames) = last_lsn
    BY <2>1, FirstOf
  <2>3. phase = "ok" /\ ~misled => \A i \in (last_lsn + 1) .. Len(committed) : i = spoiled
    BY <1>1 DEF WalInv
  <2>. QED  BY <2>2, <2>3 DEF FramedTailDropped, OnlyTailDropped
<1>2. WalInv => FramedTailDropped
  BY <1>1
<1>. QED  BY <1>2, Inductive, PTL
=============================================================================
