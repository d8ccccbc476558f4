---------------------------- MODULE OxgInduction ----------------------------
(***************************************************************************)
(* Induction over the natural numbers in a form that the provers can use:  *)
(* over a set or a function given as a value.                              *)
(***************************************************************************)
EXTENDS Integers, WellFoundedInduction, TLAPS

\* A set of natural numbers that is not empty has a least member.
LEMMA LeastMember ==
  ASSUME NEW T \in SUBSET Nat, T # {}
  PROVE  \E n \in T : \A m \in T : n <= m
<1> DEFINE R == {p \in Nat \X Nat : p[1] < p[2]}
<1>1. IsWellFoundedOn(R, Nat)
  BY NatLessThanWellFounded DEF OpToRel
<1> HIDE DEF R
<1>2. PICK n \in T : \A m \in T : ~(<<m, n>> \in R)
  BY <1>1, WFMin
<1>3. \A m \in T : ~(m < n)
  BY <1>2 DEF R
<1> QED BY <1>3

\* A set that holds zero, and with each number below n the next, holds all up to n.
LEMMA AllUpTo ==
  ASSUME NEW n \in Nat, NEW T, 0 \in T, \A k \in 1 .. n : k - 1 \in T => k \in T
  PROVE  \A k \in 0 .. n : k \in T
<1> SUFFICES ASSUME NEW k \in 0 .. n, k \notin T PROVE FALSE
  OBVIOUS
<1> DEFINE out == {i \in 0 .. n : i \notin T}
<1>1. out \in SUBSET Nat /\ out # {}
  OBVIOUS
<1>2. PICK i \in out : \A j \in out : i <= j
  <2> HIDE DEF out
  <2> QED BY <1>1, LeastMember
<1>3. i \in 1 .. n /\ i - 1 \in 0 .. n
  BY <1>2
<1>4. i - 1 \in T
  BY <1>2, <1>3
<1> QED BY <1>2, <1>3, <1>4

\* b starts with a, and its k-th member is computed from the one before by F[k].
Iterates(b, n, A, a, F) ==
  b \in [0 .. n -> A] /\ b[0] = a /\ \A k \in 1 .. n : b[k] = F[k][b[k - 1]]

\* Such a table exists for any start, functions and length.
LEMMA IteratesExist ==
  ASSUME NEW n \in Nat, NEW A, NEW a \in A, NEW F \in [1 .. n -> [A -> A]]
  PROVE  \E b : Iterates(b, n, A, a, F)
<1> DEFINE Long(m) == \E b \in [0 .. m -> A] : b[0] = a /\ \A k \in 1 .. m : b[k] = F[k][b[k - 1]]
           T == {m \in 0 .. n : Long(m)}
<1>1. 0 \in T
  <2>1. PICK b : b = [k \in 0 .. 0 |-> a]
    OBVIOUS
  <2>2. b \in [0 .. 0 -> A] /\ b[0] = a /\ \A k \in 1 .. 0 : b[k] = F[k][b[k - 1]]
    BY <2>1
  <2>3. Long(0)
    BY <2>2
  <2> HIDE DEF Long
  <2> QED BY <2>3
<1>2. ASSUME NEW m \in 1 .. n, m - 1 \in T PROVE m \in T
  <2>1. PICK b \in [0 .. m - 1 -> A] : b[0] = a /\ \A k \in 1 .. m - 1 : b[k] = F[k][b[k - 1]]
    BY <1>2
  <2> DEFINE c == [k \in 0 .. m |-> IF k = m THEN F[m][b[m - 1]] ELSE b[k]]
  <2>2. c \in [0 .. m -> A]
    BY <2>1
  <2>3. c[0] = a /\ \A k \in 1 .. m : c[k] = F[k][c[k - 1]]
    BY <2>1
  <2> HIDE DEF c
  <2>4. Long(m)
    BY <2>2, <2>3
  <2>5. m \in 0 .. n
    OBVIOUS
  <2> QED BY <2>4, <2>5
<1>3. n \in T
  <2>1. n \in 0 .. n
    OBVIOUS
  <2> HIDE DEF T
  <2> QED BY <1>1, <1>2, <2>1, AllUpTo
<1>4. Long(n)
  BY <1>3
<1> QED BY <1>4 DEF Iterates

\* The tables go on alike as long as they are alike.
StayAlike(u, b, n) == \A k \in 1 .. n : u[k - 1] = b[k - 1] => u[k] = b[k]

\* Two tables that start alike and continue alike end alike.
LEMMA SameTable ==
  ASSUME NEW n \in Nat, NEW u, NEW b, u[0] = b[0],
         StayAlike(u, b, n)
  PROVE  u[n] = b[n]
<1>. DEFINE T == {k \in 0 .. n : u[k] = b[k]}
<1>1. 0 \in T
  OBVIOUS
<1>2. ASSUME NEW k \in 1 .. n, k - 1 \in T PROVE k \in T
  BY <1>2 DEF StayAlike
<1>3. \A k \in 0 .. n : k \in T
  <2>. HIDE DEF T
  <2>. QED  BY <1>1, <1>2, AllUpTo
<1>. QED  BY <1>3

\* The one member of a set with one member.
LEMMA OnlyOne ==
  ASSUME NEW x
  PROVE  (CHOOSE r \in {x} : TRUE) = x
OBVIOUS
=============================================================================
