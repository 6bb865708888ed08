----------------------------- MODULE BasicLemmas -----------------------------
(***************************************************************************)
(* Facts about numbers, finite sets and sequences that the proofs of       *)
(* several components use.                                                 *)
(***************************************************************************)
EXTENDS Integers, Sequences, FiniteSets, FiniteSetTheorems, SequenceTheorems, TLAPS

-----------------------------------------------------------------------------
(* Extreme elements, which take the place of induction.                    *)

(***************************************************************************)
(* A nonempty set of natural numbers has a least element.                  *)
(***************************************************************************)
LEMMA LeastNatural ==
  ASSUME NEW T, T \subseteq Nat, T # {}
  PROVE  \E x \in T : \A y \in T : x <= y
<1> DEFINE R == {ss \in Nat \X Nat : ss[1] < ss[2]}
<1>1. IsWellFoundedOn(R, Nat)
  BY ONLY NatLessThanWellFounded, Zenon DEF OpToRel
<1> HIDE DEF R
<1>2. PICK x \in T : \A y \in T : ~(<<y, x>> \in R)
  BY <1>1, WFMin, Zenon
<1>3. ASSUME NEW y \in T PROVE x <= y
  <2>1. x \in Nat /\ y \in Nat
    OBVIOUS
  <2>2. <<y, x>> \in R <=> y < x
    BY <2>1 DEF R
  <2> QED BY <1>2, <2>1, <2>2
<1> QED BY <1>3

(***************************************************************************)
(* A nonempty finite set of natural numbers has a greatest element.        *)
(***************************************************************************)
LEMMA GreatestNatural ==
  ASSUME NEW S, S \subseteq Nat, S # {}, IsFiniteSet(S)
  PROVE  \E x \in S : \A y \in S : y <= x
<1> DEFINE HasMax(U) == \E x \in U : \A y \in U : y <= x
           Bad(U)    == U # {} /\ IsFiniteSet(U) /\ ~HasMax(U)
           T == {n \in Nat : \E U \in SUBSET S : Bad(U) /\ Cardinality(U) = n}
<1>1. SUFFICES T = {}
  <2>1. Cardinality(S) \in Nat
    BY FS_CardinalityType
  <2> QED BY <1>1, <2>1
<1>2. SUFFICES ASSUME T # {} PROVE FALSE
  OBVIOUS
<1>3. PICK n \in T : \A m \in T : n <= m
  <2>1. T \subseteq Nat
    OBVIOUS
  <2> HIDE DEF T
  <2> QED BY <1>2, <2>1, LeastNatural
<1>4. PICK U \in SUBSET S : Bad(U) /\ Cardinality(U) = n
  OBVIOUS
<1>5. PICK x \in U : TRUE
  BY <1>4
<1> DEFINE V == U \ {x}
<1>6. IsFiniteSet(V) /\ Cardinality(V) = n - 1 /\ V \in SUBSET S
  BY <1>4, FS_RemoveElement
<1>7. x \in Nat /\ n \in Nat /\ \A y \in U : y \in Nat
  OBVIOUS
<1>8. CASE HasMax(V)
  <2>1. PICK z \in V : \A y \in V : y <= z
    BY <1>8
  <2>2. HasMax(U)
    <3>1. CASE x <= z
      BY <2>1, <3>1
    <3>2. CASE ~(x <= z)
      BY <1>7, <2>1, <3>2
    <3> QED BY <3>1, <3>2
  <2> QED BY <1>4, <2>2
<1>9. CASE V = {}
  <2>1. \A y \in U : y = x
    BY <1>9
  <2>2. \A y \in U : y <= x
    BY <1>7, <2>1
  <2> QED BY <1>4, <2>2
<1>10. CASE V # {} /\ ~HasMax(V)
  <2>1. n - 1 \in Nat
    BY <1>6, FS_CardinalityType
  <2>2. n - 1 \in T
    BY <1>6, <1>10, <2>1
  <2> QED BY <1>3, <1>7, <2>2
<1> QED BY <1>8, <1>9, <1>10

\* f holds x and what n applications of g, one after the other, make of it.
Iterates(f, x, g, n, S) ==
  /\ f \in [0 .. n -> S]
  /\ f = [k \in 0 .. n |-> IF k = 0 THEN x ELSE g[f[k - 1]]]

(***************************************************************************)
(* A function may be iterated any number of times: the recursive           *)
(* definition of the values it takes one after the other has a solution.   *)
(***************************************************************************)
LEMMA Iteration ==
  ASSUME NEW S, NEW x \in S, NEW g \in [S -> S], NEW n \in Nat
  PROVE  \E f : Iterates(f, x, g, n, S)
<1> USE DEF Iterates
<1> DEFINE Solves(f, m) == Iterates(f, x, g, m, S)
           T == {m \in Nat : ~\E f : Solves(f, m)}
<1>1. SUFFICES ASSUME T # {} PROVE FALSE
  OBVIOUS
<1>2. PICK m \in T : \A i \in T : m <= i
  <2>1. T \subseteq Nat
    OBVIOUS
  <2> HIDE DEF T
  <2> QED BY <1>1, <2>1, LeastNatural
<1>3. m # 0
  <2> SUFFICES ASSUME m = 0 PROVE FALSE
    OBVIOUS
  <2> DEFINE f == [k \in 0 .. 0 |-> x]
  <2>1. Solves(f, 0)
    OBVIOUS
  <2> QED BY <2>1
<1>4. m - 1 \in Nat /\ m \in Nat
  BY <1>3
<1>5. m - 1 \notin T
  BY <1>2, <1>4
<1>6. PICK f : Solves(f, m - 1)
  BY <1>4, <1>5
<1> DEFINE h == [k \in 0 .. m |-> IF k = m THEN g[f[m - 1]] ELSE f[k]]
<1>7. \A k \in 0 .. m - 1 : f[k] \in S /\ f[k] = IF k = 0 THEN x ELSE g[f[k - 1]]
  BY <1>6
<1>8. h \in [0 .. m -> S]
  BY <1>4, <1>7
<1>9. ASSUME NEW k \in 0 .. m PROVE h[k] = IF k = 0 THEN x ELSE g[h[k - 1]]
  <2>1. CASE k = 0
    BY <1>3, <1>4, <1>7, <2>1
  <2>2. CASE k # 0 /\ k # m
    <3>1. k \in 0 .. m - 1 /\ k - 1 \in 0 .. m /\ k - 1 # m
      BY <1>4, <2>2
    <3> QED BY <1>7, <2>2, <3>1
  <2>3. CASE k = m
    <3>1. m - 1 \in 0 .. m /\ m - 1 # m
      BY <1>4
    <3> QED BY <1>3, <2>3, <3>1
  <2> QED BY <2>1, <2>2, <2>3
<1>10. Solves(h, m)
  <2>1. h = [k \in 0 .. m |-> h[k]]
    OBVIOUS
  <2> HIDE DEF h
  <2> QED BY <1>8, <1>9, <2>1
<1> QED BY <1>10

-----------------------------------------------------------------------------
(* Sequences and their prefixes: a reply grows by one entry at a time      *)
(* until it is all there is to send.                                       *)

(***************************************************************************)
(* A sequence of one entry.                                                *)
(***************************************************************************)
LEMMA Singleton == ASSUME NEW E, NEW x \in E PROVE <<x>> \in Seq(E)
OBVIOUS

\* Behind any p, the first of two entries is the last but one.
LEMMA Joined ==
  ASSUME NEW E, NEW p \in Seq(E), NEW l \in Seq(E), Len(l) = 2
  PROVE  /\ p \o l \in Seq(E) /\ Len(p \o l) >= 2
         /\ (p \o l)[Len(p \o l) - 1] = l[1]
<1>1. Len(p) \in Nat
  OBVIOUS
<1>2. p \o l \in Seq(E) /\ Len(p \o l) = Len(p) + Len(l)
  BY ConcatProperties
<1>3. Len(p \o l) = Len(p) + 2
  BY <1>2
<1>4. (p \o l)[Len(p) + 1] = l[1]
  <2>1. Len(p) + 1 \in 1 .. Len(p) + Len(l) /\ (Len(p) + 1) - Len(p) = 1
    BY <1>1
  <2>2. ~(Len(p) + 1 <= Len(p))
    BY <1>1
  <2>3. \A i \in 1 .. Len(p) + Len(l) :
          (p \o l)[i] = IF i <= Len(p) THEN p[i] ELSE l[i - Len(p)]
    BY ONLY p \in Seq(E), l \in Seq(E), ConcatProperties, Zenon
  <2>4. (p \o l)[Len(p) + 1] = l[(Len(p) + 1) - Len(p)]
    BY ONLY <2>1, <2>2, <2>3, Zenon
  <2> QED BY ONLY <2>1, <2>4, Zenon
<1>5. Len(p) + 2 >= 2 /\ (Len(p) + 2) - 1 = Len(p) + 1
  BY <1>1
<1> QED BY <1>2, <1>3, <1>4, <1>5

(***************************************************************************)
(* One more entry makes the next longer prefix.                            *)
(***************************************************************************)
LEMMA NextPrefix ==
  ASSUME NEW E, NEW s \in Seq(E), NEW k \in Nat, k < Len(s)
  PROVE  Append(SubSeq(s, 1, k), s[k + 1]) = SubSeq(s, 1, k + 1)
<1>1. SubSeq(s, 1, k) \in Seq(E) /\ Len(SubSeq(s, 1, k)) = k
  OBVIOUS
<1>2. s[k + 1] \in E
  OBVIOUS
<1>3. SubSeq(s, 1, k + 1) \in Seq(E) /\ Len(SubSeq(s, 1, k + 1)) = k + 1
  OBVIOUS
<1>4. \A i \in 1 .. k : SubSeq(s, 1, k)[i] = s[i]
  OBVIOUS
<1>5. \A i \in 1 .. k + 1 : SubSeq(s, 1, k + 1)[i] = s[i]
  OBVIOUS
<1>6. \A i \in 1 .. k + 1 : Append(SubSeq(s, 1, k), s[k + 1])[i] = s[i]
  BY <1>1, <1>2, <1>4
<1> QED
  BY <1>1, <1>2, <1>3, <1>5, <1>6

(***************************************************************************)
(* The empty and the whole prefix.                                         *)
(***************************************************************************)
LEMMA EndPrefixes ==
  ASSUME NEW E, NEW s \in Seq(E)
  PROVE  SubSeq(s, 1, 0) = <<>> /\ SubSeq(s, 1, Len(s)) = s
<1>1. SubSeq(s, 1, Len(s)) \in Seq(E) /\ Len(SubSeq(s, 1, Len(s))) = Len(s)
  OBVIOUS
<1>2. \A i \in 1 .. Len(s) : SubSeq(s, 1, Len(s))[i] = s[i]
  OBVIOUS
<1> QED
  BY <1>1, <1>2
=============================================================================
