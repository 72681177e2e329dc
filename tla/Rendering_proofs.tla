-------------------------- MODULE Rendering_proofs --------------------------
(***************************************************************************)
(* What bounding a list of warnings and fitting an answer do: the first    *)
(* for every number of codes and every bound, the second for every list of *)
(* findings, every table and all limits.                                   *)
(*                                                                         *)
(* A list in an order is where its elements stand: how many come before.   *)
(* A bounded list is then its smallest codes, and cutting twice is cutting *)
(* once. A result on its way through the loops of render.go is determined  *)
(* by how many findings and how many rows are left of those given; a turn  *)
(* lowers one of the two numbers, or there is nothing more to do. Whatever *)
(* is reached is valid, because a joined row is; and a turn loses nothing  *)
(* in vain, because joining one more row never makes the joined row        *)
(* smaller.                                                                *)
(***************************************************************************)
EXTENDS Rendering, IndexFormat_proofs

(* What a list of warnings keeps *)

Codes == Image(Warnings)

\* The codes of S before w.
CodesBelow(S, w) == Smaller(ByteOrder, S, w)

\* The first b codes of S.
Smallest(S, b) == {w \in S : Cardinality(CodesBelow(S, w)) < b}

\* Byte order is a strict total order of any codes, and these are finitely many.
LEMMA CodesAreOrdered ==
    ASSUME NEW S \in SUBSET Codes
    PROVE  /\ IsFiniteSet(S) /\ Cardinality(S) \in Nat
           /\ IsOrder(ByteOrder, S)
           /\ \A v, w \in S : <<v, w>> \in ByteOrder <=> WarningLess(v, w)
<1> DEFINE place == DOMAIN Warnings
           n == Len(Warnings)
<1>1. n \in Nat /\ Warnings \in [1 .. n -> Codes] /\ place \subseteq Int
  BY RenderingAssumption, LenProperties DEF Codes
<1>2. /\ \A v \in Codes : \E i \in place : Warnings[i] = v
      /\ \A i, j \in place : Warnings[i] = Warnings[j] => i = j
  BY RenderingAssumption DEF Codes, Image
<1>3. \A v, w \in Codes : <<v, w>> \in ByteOrder <=> WarningLess(v, w)
  BY DEF ByteOrder, Codes
<1>4. /\ \A v \in Codes : ~WarningLess(v, v)
      /\ \A u, v, w \in Codes :
            WarningLess(u, v) /\ WarningLess(v, w) => WarningLess(u, w)
      /\ \A v, w \in Codes : v # w => WarningLess(v, w) \/ WarningLess(w, v)
  BY <1>1, <1>2 DEF WarningLess
<1>5. IsOrder(ByteOrder, S)
  BY <1>3, <1>4 DEF IsOrder
<1>6. Warnings \in Surjection(1 .. n, Codes)
  BY <1>1 DEF Surjection, Codes, Image
<1>7. IsFiniteSet(1 .. n)
  BY <1>1, FS_Interval
<1>8. IsFiniteSet(Codes)
  BY <1>6, <1>7, FS_Surjection
<1>9. IsFiniteSet(S) /\ Cardinality(S) \in Nat
  BY <1>8, FS_Subset, FS_CardinalityType
<1> QED
  BY <1>3, <1>5, <1>9

\* Of two codes that differ one is less, and less than what the other is less
\* than.
LEMMA CodesCompare ==
    /\ \A v, w \in Codes : v # w => WarningLess(v, w) \/ WarningLess(w, v)
    /\ \A u, v, w \in Codes :
          WarningLess(u, v) /\ WarningLess(v, w) => WarningLess(u, w)
    /\ \A v, w \in Codes : <<v, w>> \in ByteOrder <=> WarningLess(v, w)
<1>1. /\ IsOrder(ByteOrder, Codes)
      /\ \A v, w \in Codes : <<v, w>> \in ByteOrder <=> WarningLess(v, w)
  BY CodesAreOrdered
<1> QED
  BY <1>1 DEF IsOrder

\* More codes are no fewer.
LEMMA CodesGrow ==
    ASSUME NEW S \in SUBSET Codes, NEW T \in SUBSET S
    PROVE  /\ Cardinality(T) \in Nat /\ Cardinality(S) \in Nat
           /\ Cardinality(T) <= Cardinality(S)
<1>1. IsFiniteSet(S)
  BY CodesAreOrdered
<1> QED
  BY <1>1, CountGrows

\* The place of a code.
LEMMA CodePlaceIs ==
    ASSUME NEW S \in SUBSET Codes
    PROVE  /\ \A w \in S :
                Cardinality(CodesBelow(S, w)) \in 0 .. Cardinality(S) - 1
           /\ \A v, w \in S :
                WarningLess(v, w)
                  => Cardinality(CodesBelow(S, v))
                       < Cardinality(CodesBelow(S, w))
<1>1. /\ IsFiniteSet(S) /\ IsOrder(ByteOrder, S)
      /\ \A v, w \in S : <<v, w>> \in ByteOrder <=> WarningLess(v, w)
  BY CodesAreOrdered
<1>2. /\ \A w \in S : Cardinality(Smaller(ByteOrder, S, w))
                        \in 0 .. Cardinality(S) - 1
      /\ \A v, w \in S : <<v, w>> \in ByteOrder =>
            Cardinality(Smaller(ByteOrder, S, v))
              < Cardinality(Smaller(ByteOrder, S, w))
  BY <1>1, PlaceIs
<1> QED
  BY <1>1, <1>2 DEF CodesBelow

\* The list of a set of codes.
LEMMA CodeListIs ==
    ASSUME NEW S \in SUBSET Codes
    PROVE  /\ InByteOrder(S) \in Seq(S)
           /\ Len(InByteOrder(S)) = Cardinality(S)
           /\ \A n \in 1 .. Cardinality(S) :
                 Cardinality(CodesBelow(S, InByteOrder(S)[n])) = n - 1
           /\ Image(InByteOrder(S)) = S
           /\ Increasing(InByteOrder(S), WarningLess)
<1> DEFINE c == Cardinality(S)
           list == InByteOrder(S)
<1>1. /\ IsFiniteSet(S) /\ IsOrder(ByteOrder, S) /\ c \in Nat
      /\ \A v, w \in S : <<v, w>> \in ByteOrder <=> WarningLess(v, w)
  BY CodesAreOrdered
<1>2. list = InOrder(S, ByteOrder)
  BY DEF InByteOrder
<1> HIDE DEF list
<1>3. /\ list \in Seq(S) /\ Len(list) = c /\ Image(list) = S
      /\ \A n \in 1 .. c : Cardinality(Smaller(ByteOrder, S, list[n])) = n - 1
      /\ \A n \in 1 .. c - 1 : <<list[n], list[n + 1]>> \in ByteOrder
  BY <1>1, <1>2, ListIs
<1>4. ASSUME NEW n \in 1 .. Len(list) - 1
      PROVE  WarningLess(list[n], list[n + 1])
  <2>1. n \in 1 .. c - 1 /\ n \in 1 .. c /\ n + 1 \in 1 .. c
    BY <1>1, <1>3
  <2>2. list \in [1 .. c -> S]
    BY <1>3, LenProperties
  <2>3. list[n] \in S /\ list[n + 1] \in S
    BY <2>1, <2>2
  <2> QED
    BY <1>1, <1>3, <2>1, <2>3
<1> QED
  BY <1>3, <1>4 DEF list, CodesBelow, Increasing

\* What is left of a list that is cut.
LEMMA CutListIs ==
    ASSUME NEW S \in SUBSET Codes, NEW b \in Nat
    PROVE  /\ Image(Shorter(InByteOrder(S), b)) = Smallest(S, b)
           /\ Cardinality(Smallest(S, b))
                = IF b < Cardinality(S) THEN b ELSE Cardinality(S)
<1> DEFINE c == Cardinality(S)
           list == InByteOrder(S)
           m == IF b < c THEN b ELSE c
           cut == Shorter(list, b)
<1>1. c \in Nat /\ m \in 0 .. c /\ m \in Nat
  BY CodesAreOrdered
<1>2. /\ list \in Seq(S) /\ Len(list) = c /\ Image(list) = S
      /\ \A n \in 1 .. c : Cardinality(CodesBelow(S, list[n])) = n - 1
      /\ DOMAIN list = 1 .. c
      /\ \A n \in 1 .. c : list[n] \in S
  BY CodeListIs, LenProperties
<1>3. /\ cut \in Seq(S) /\ Len(cut) = m
      /\ \A n \in 1 .. m : cut[n] = list[n]
  <2>1. cut = SubSeq(list, 1, m)
    BY <1>2 DEF Shorter
  <2>2. \A n \in 1 .. m : list[n] \in S
    BY <1>1, <1>2
  <2>3. 1 \in Int /\ m \in Int
    BY <1>1
  <2>4. /\ SubSeq(list, 1, m) \in Seq(S)
        /\ Len(SubSeq(list, 1, m)) = IF 1 <= m THEN m - 1 + 1 ELSE 0
        /\ \A i \in 1 .. m - 1 + 1 : SubSeq(list, 1, m)[i] = list[1 + i - 1]
    BY <2>2, <2>3, SubSeqProperties
  <2> QED
    BY <1>1, <2>1, <2>4
<1>4. DOMAIN cut = 1 .. m
  BY <1>3, LenProperties
<1>5. \A n \in 1 .. m : list[n] \in Smallest(S, b)
  <2>1. ASSUME NEW n \in 1 .. m
        PROVE  list[n] \in S /\ Cardinality(CodesBelow(S, list[n])) < b
    <3>1. n \in 1 .. c /\ n - 1 < b
      BY <1>1
    <3> QED
      BY <1>2, <3>1
  <2> QED
    BY <2>1 DEF Smallest
<1>6. ASSUME NEW w \in Smallest(S, b)
      PROVE  \E n \in 1 .. m : list[n] = w
  <2>1. w \in S /\ Cardinality(CodesBelow(S, w)) < b
    BY DEF Smallest
  <2>2. PICK n \in 1 .. c : list[n] = w
    BY <1>2, <2>1 DEF Image
  <2>3. n - 1 < b
    BY <1>2, <2>1, <2>2
  <2> QED
    BY <1>1, <2>2, <2>3
<1>7. Image(cut) = Smallest(S, b)
  BY <1>3, <1>4, <1>5, <1>6 DEF Image
<1>8. Cardinality(Smallest(S, b)) = m
  <2> DEFINE f == [n \in 1 .. m |-> list[n]]
  <2>1. f \in Surjection(1 .. m, Smallest(S, b))
    BY <1>5, <1>6 DEF Surjection
  <2>2. ASSUME NEW i \in 1 .. m, NEW j \in 1 .. m, list[i] = list[j]
        PROVE  i = j
    BY <1>1, <1>2, <2>2
  <2>3. f \in Injection(1 .. m, Smallest(S, b))
    <3>1. \A i \in 1 .. m : f[i] = list[i]
      OBVIOUS
    <3>2. f \in [1 .. m -> Smallest(S, b)]
      BY <1>5
    <3> HIDE DEF f
    <3> QED
      BY <2>2, <3>1, <3>2 DEF Injection, IsInjective
  <2>4. ExistsBijection(1 .. m, Smallest(S, b))
    BY <2>1, <2>3 DEF ExistsBijection, Bijection
  <2> QED
    BY <1>1, <2>4, FS_CountingElements
<1> QED
  BY <1>7, <1>8

\* Cutting before adding, and cutting what it adds up to, keep the same codes.
LEMMA SmallestOfBoth ==
    ASSUME NEW A \in SUBSET Codes, NEW B \in SUBSET Codes, NEW b \in Nat
    PROVE  Smallest(Smallest(A, b) \cup B, b) = Smallest(A \cup B, b)
<1> DEFINE U == A \cup B
           M == Smallest(A, b) \cup B
<1>1. Smallest(A, b) \subseteq A /\ M \subseteq U /\ U \subseteq Codes
  BY DEF Smallest
<1>2. \A S, T \in SUBSET Codes, w \in Codes :
          S \subseteq T => /\ Cardinality(CodesBelow(S, w)) \in Nat
                           /\ Cardinality(CodesBelow(T, w)) \in Nat
                           /\ Cardinality(CodesBelow(S, w))
                                <= Cardinality(CodesBelow(T, w))
  <2> TAKE S, T \in SUBSET Codes, w \in Codes
  <2> HAVE S \subseteq T
  <2>1. /\ CodesBelow(T, w) \subseteq Codes
        /\ CodesBelow(S, w) \subseteq CodesBelow(T, w)
    BY DEF CodesBelow, Smaller
  <2> QED
    BY <2>1, CodesGrow
<1>3. ASSUME NEW w \in Smallest(U, b)
      PROVE  w \in Smallest(M, b)
  <2>1. w \in U /\ Cardinality(CodesBelow(U, w)) < b
    BY DEF Smallest
  <2>2. w \in A => w \in Smallest(A, b)
    <3> SUFFICES ASSUME w \in A PROVE Cardinality(CodesBelow(A, w)) < b
      BY DEF Smallest
    <3>1. /\ Cardinality(CodesBelow(A, w)) \in Nat
          /\ Cardinality(CodesBelow(U, w)) \in Nat
          /\ Cardinality(CodesBelow(A, w)) <= Cardinality(CodesBelow(U, w))
      BY <1>1, <1>2, <2>1
    <3> QED
      BY <2>1, <3>1
  <2>3. /\ Cardinality(CodesBelow(M, w)) \in Nat
        /\ Cardinality(CodesBelow(U, w)) \in Nat
        /\ Cardinality(CodesBelow(M, w)) <= Cardinality(CodesBelow(U, w))
    BY <1>1, <1>2, <2>1
  <2>4. Cardinality(CodesBelow(M, w)) < b
    BY <2>1, <2>3
  <2> QED
    BY <2>1, <2>2, <2>4 DEF Smallest
<1>4. ASSUME NEW w \in Smallest(M, b)
      PROVE  w \in Smallest(U, b)
  <2>1. w \in M /\ Cardinality(CodesBelow(M, w)) < b
    BY DEF Smallest
  <2>2. ASSUME NEW y \in U \ M, WarningLess(y, w)
        PROVE  FALSE
    <3>1. y \in A /\ ~(Cardinality(CodesBelow(A, y)) < b)
      BY <2>2 DEF Smallest
    <3>2. Cardinality(CodesBelow(A, y)) \in 0 .. Cardinality(A) - 1
      BY <3>1, CodePlaceIs
    <3>3. Cardinality(A) \in Nat
      BY CodesAreOrdered
    <3>4. Cardinality(Smallest(A, b)) = b
      BY <3>1, <3>2, <3>3, CutListIs
    <3>5. Smallest(A, b) \subseteq CodesBelow(M, w)
      <4> SUFFICES ASSUME NEW z \in Smallest(A, b) PROVE z \in CodesBelow(M, w)
        OBVIOUS
      <4>1. z \in A /\ Cardinality(CodesBelow(A, z)) < b
        BY DEF Smallest
      <4>2. Cardinality(CodesBelow(A, z)) \in 0 .. Cardinality(A) - 1
        BY <4>1, CodePlaceIs
      <4>3. Cardinality(CodesBelow(A, z)) < Cardinality(CodesBelow(A, y))
        BY <3>1, <3>2, <3>3, <4>1, <4>2
      <4>4. z # y
        BY <3>2, <4>3
      <4>5. ~WarningLess(y, z)
        BY <3>1, <3>2, <4>1, <4>2, <4>3, CodePlaceIs
      <4>6. /\ y \in Codes /\ z \in Codes /\ w \in Codes
            /\ z \in M /\ w \in M
        BY <1>1, <2>1, <3>1, <4>1
      <4>7. WarningLess(z, w)
        BY <2>2, <4>4, <4>5, <4>6, CodesCompare
      <4> QED
        BY <4>6, <4>7, CodesCompare DEF CodesBelow, Smaller
    <3>6. CodesBelow(M, w) \subseteq Codes
      BY <1>1 DEF CodesBelow, Smaller
    <3>7. /\ b <= Cardinality(CodesBelow(M, w))
          /\ Cardinality(CodesBelow(M, w)) \in Nat
      BY <3>4, <3>5, <3>6, CodesGrow
    <3> QED
      BY <2>1, <3>7
  <2>3. CodesBelow(U, w) = CodesBelow(M, w)
    BY <1>1, <2>1, <2>2, CodesCompare DEF CodesBelow, Smaller
  <2> QED
    BY <1>1, <2>1, <2>3 DEF Smallest
<1> QED
  BY <1>3, <1>4

\* And one of the two cuts something exactly when the other does.
LEMMA OverflowOfBoth ==
    ASSUME NEW A \in SUBSET Codes, NEW B \in SUBSET Codes, NEW b \in Nat
    PROVE  (\/ Cardinality(A) > b
            \/ Cardinality(Smallest(A, b) \cup B) > b)
             <=> Cardinality(A \cup B) > b
<1> DEFINE U == A \cup B
           M == Smallest(A, b) \cup B
<1>1. Smallest(A, b) \subseteq A /\ M \subseteq U /\ U \subseteq Codes
  BY DEF Smallest
<1>2. /\ Cardinality(A) \in Nat /\ Cardinality(U) \in Nat
      /\ Cardinality(M) \in Nat
      /\ Cardinality(A) <= Cardinality(U) /\ Cardinality(M) <= Cardinality(U)
  BY <1>1, CodesGrow
<1>3. ASSUME ~(Cardinality(A) > b)
      PROVE  M = U
  <2>1. \A w \in A : Cardinality(CodesBelow(A, w)) < b
    BY <1>2, <1>3, CodePlaceIs
  <2> QED
    BY <2>1 DEF Smallest
<1> QED
  BY <1>2, <1>3

\* The codes a bounded list of the codes G has.
BoundedList(G, b) ==
    Smallest(G \ {WarningLimit}, b)
        \cup (IF Cardinality(G \ {WarningLimit}) > b \/ WarningLimit \in G
              THEN {WarningLimit} ELSE {})

\* Adding to a bounded list is bounding what was added.
LEMMA ListedOfBoth ==
    ASSUME NEW A \in SUBSET Codes, NEW B \in SUBSET Codes, NEW b \in Nat
    PROVE  BoundedList(BoundedList(A, b) \cup B, b) = BoundedList(A \cup B, b)
<1> DEFINE S == A \ {WarningLimit}
           T == B \ {WarningLimit}
<1>1. S \in SUBSET Codes /\ T \in SUBSET Codes
  OBVIOUS
<1>2. Smallest(S, b) \subseteq S
  BY DEF Smallest
<1>3. (BoundedList(A, b) \cup B) \ {WarningLimit} = Smallest(S, b) \cup T
  BY <1>2 DEF BoundedList
<1>4. (A \cup B) \ {WarningLimit} = S \cup T
  OBVIOUS
<1>5. WarningLimit \in BoundedList(A, b)
        <=> Cardinality(S) > b \/ WarningLimit \in A
  BY <1>2 DEF BoundedList
<1> HIDE DEF S, T
<1>6. Smallest(Smallest(S, b) \cup T, b) = Smallest(S \cup T, b)
  BY <1>1, SmallestOfBoth
<1>7. (Cardinality(S) > b \/ Cardinality(Smallest(S, b) \cup T) > b)
        <=> Cardinality(S \cup T) > b
  BY <1>1, OverflowOfBoth
<1> QED
  BY <1>3, <1>4, <1>5, <1>6, <1>7 DEF BoundedList

\* What is kept are codes, no more than the bound and the mark.
LEMMA ListedIs ==
    ASSUME NEW G \in SUBSET Codes, NEW b \in Nat
    PROVE  /\ BoundedList(G, b) \subseteq Codes
           /\ Cardinality(BoundedList(G, b)) <= b + 1
           /\ WarningLimit \notin G =>
                (WarningLimit \in BoundedList(G, b) <=> BoundedList(G, b) # G)
<1> DEFINE T == G \ {WarningLimit}
           P == Smallest(T, b)
<1>1. WarningLimit \in Codes
  BY RenderingAssumption DEF WarningLimit, Codes
<1>2. P \subseteq T /\ T \in SUBSET Codes /\ P \in SUBSET Codes
  BY DEF Smallest
<1>3. BoundedList(G, b) \in {P, P \cup {WarningLimit}}
  BY DEF BoundedList
<1>4. BoundedList(G, b) = IF Cardinality(T) > b \/ WarningLimit \in G
                   THEN P \cup {WarningLimit} ELSE P
  BY DEF BoundedList
<1>5. WarningLimit \notin G => T = G
  OBVIOUS
<1> HIDE DEF T
<1>6. Cardinality(T) \in Nat
  BY <1>2, CodesAreOrdered
<1>7. Cardinality(P) = IF b < Cardinality(T) THEN b ELSE Cardinality(T)
  BY <1>2, CutListIs
<1>8. \A w \in T : Cardinality(CodesBelow(T, w)) \in 0 .. Cardinality(T) - 1
  BY <1>2, CodePlaceIs
<1>9. ~(Cardinality(T) > b) => P = T
  BY <1>6, <1>8 DEF Smallest
<1> HIDE DEF P
<1>10. IsFiniteSet(P) /\ Cardinality(P) \in Nat /\ Cardinality(P) <= b
  BY <1>2, <1>6, <1>7, CodesAreOrdered
<1>11. Cardinality(P \cup {WarningLimit})
          \in {Cardinality(P), Cardinality(P) + 1}
  BY <1>10, FS_AddElement
<1>12. Cardinality(BoundedList(G, b)) <= b + 1
  <2>1. CASE BoundedList(G, b) = P
    BY <1>10, <2>1
  <2>2. CASE BoundedList(G, b) = P \cup {WarningLimit}
    BY <1>10, <1>11, <2>2
  <2> QED
    BY <1>3, <2>1, <2>2
<1>13. ASSUME WarningLimit \notin G
       PROVE  WarningLimit \in BoundedList(G, b) <=> BoundedList(G, b) # G
  BY <1>2, <1>4, <1>5, <1>9, <1>13
<1> QED
  BY <1>1, <1>2, <1>3, <1>12, <1>13

\* The call returns the list of what is kept.
LEMMA AppendIs ==
    ASSUME NEW current \in Seq(Codes), NEW added \in Seq(Codes), NEW b \in Nat
    PROVE  /\ AppendBoundedWarnings(current, added, b)
                = InByteOrder(BoundedList(Image(current) \cup Image(added), b))
           /\ AppendBoundedWarnings(current, added, b) \in Seq(Codes)
           /\ Image(AppendBoundedWarnings(current, added, b))
                = BoundedList(Image(current) \cup Image(added), b)
<1> DEFINE G == Image(current) \cup Image(added)
           T == G \ {WarningLimit}
           K == BoundedList(G, b)
<1>1. G \subseteq Codes /\ T \subseteq Codes
  BY LenProperties DEF Image
<1>2. /\ Len(InByteOrder(T)) = Cardinality(T)
      /\ Image(Shorter(InByteOrder(T), b)) = Smallest(T, b)
  BY <1>1, CodeListIs, CutListIs
<1>3. AppendBoundedWarnings(current, added, b) = InByteOrder(K)
  BY <1>2 DEF AppendBoundedWarnings, BoundedList
<1>4. K \subseteq Codes
  BY <1>1, ListedIs
<1>5. InByteOrder(K) \in Seq(K) /\ Image(InByteOrder(K)) = K
  BY <1>4, CodeListIs
<1> QED
  BY <1>3, <1>4, <1>5, SeqMonotonic

\* The codes of lists one after the other.
LEMMA CodesOfBoth ==
    ASSUME NEW s \in Seq(Codes), NEW t \in Seq(Codes)
    PROVE  s \o t \in Seq(Codes) /\ Image(s \o t) = Image(s) \cup Image(t)
<1> DEFINE m == Len(s)
           n == Len(t)
           both == s \o t
<1>1. /\ m \in Nat /\ n \in Nat /\ DOMAIN s = 1 .. m /\ DOMAIN t = 1 .. n
  BY LenProperties
<1>2. /\ both \in Seq(Codes) /\ Len(both) = m + n
      /\ \A i \in 1 .. m + n : both[i] = IF i <= m THEN s[i] ELSE t[i - m]
  BY ConcatProperties
<1>3. DOMAIN both = 1 .. m + n
  BY <1>2, LenProperties
<1> HIDE DEF m, n, both
<1>0. /\ \A i \in 1 .. m : s[i] \in Image(s)
      /\ \A i \in 1 .. n : t[i] \in Image(t)
  BY <1>1 DEF Image
<1>4. ASSUME NEW i \in 1 .. m + n
      PROVE  both[i] \in Image(s) \cup Image(t)
  <2>1. CASE i <= m
    <3>1. i \in 1 .. m
      BY <1>1, <2>1
    <3> QED
      BY <1>0, <1>2, <2>1, <3>1
  <2>2. CASE ~(i <= m)
    <3>1. i - m \in 1 .. n
      BY <1>1, <2>2
    <3> QED
      BY <1>0, <1>2, <2>2, <3>1
  <2> QED
    BY <2>1, <2>2
<1>5. ASSUME NEW i \in 1 .. m
      PROVE  \E k \in 1 .. m + n : both[k] = s[i]
  <2>1. i \in 1 .. m + n /\ i <= m
    BY <1>1
  <2> QED
    BY <1>2, <2>1
<1>6. ASSUME NEW i \in 1 .. n
      PROVE  \E k \in 1 .. m + n : both[k] = t[i]
  <2> DEFINE k == m + i
  <2>1. k \in 1 .. m + n /\ ~(k <= m) /\ k - m = i
    BY <1>1
  <2> HIDE DEF k
  <2>2. both[k] = t[i]
    BY <1>2, <2>1
  <2> QED
    BY <2>1, <2>2
<1>7. Image(both) = Image(s) \cup Image(t)
  <2>1. Image(both) \subseteq Image(s) \cup Image(t)
    BY <1>3, <1>4 DEF Image
  <2>2. Image(s) \subseteq Image(both)
    BY <1>1, <1>3, <1>5 DEF Image
  <2>3. Image(t) \subseteq Image(both)
    BY <1>1, <1>3, <1>6 DEF Image
  <2> QED
    BY <2>1, <2>2, <2>3
<1> QED
  BY <1>2, <1>7 DEF both

\* Three different places of three are all of them.
LEMMA OrdersOfThree ==
    ASSUME NEW q \in (1 .. 3) \X (1 .. 3) \X (1 .. 3),
           Cardinality(Image(q)) = 3
    PROVE  {q[1], q[2], q[3]} = 1 .. 3
<1>1. Image(q) = {q[1], q[2], q[3]} /\ Image(q) \subseteq 1 .. 3
  BY DEF Image
<1>2. IsFiniteSet(1 .. 3) /\ Cardinality(1 .. 3) = 3
  <2> DEFINE n == 3
  <2>1. n \in Int /\ 1 \in Int
    OBVIOUS
  <2> HIDE DEF n
  <2>2. /\ IsFiniteSet(1 .. n)
        /\ Cardinality(1 .. n) = IF 1 > n THEN 0 ELSE n - 1 + 1
    BY <2>1, FS_Interval
  <2> QED
    BY <2>2 DEF n
<1> QED
  BY <1>1, <1>2, FS_Subset

\* Warnings are cut as often as they are added, and nothing shows it: in any
\* order of the additions of a call to appendBoundedWarnings, the list is the
\* one of the codes added at once.
THEOREM WarningsComeInSteps ==
    ASSUME NEW lists \in Seq(Codes) \X Seq(Codes) \X Seq(Codes), NEW b \in Nat
    PROVE  WarningsInSteps(lists, b)
<1> DEFINE codes(i) == Image(lists[i])
           start == lists[1] \o lists[2] \o lists[3]
           U == Image(start)
           none == <<>>
           one(s, w) == AppendBoundedWarnings(s, w, b)
<1>1. \A i \in 1 .. 3 : lists[i] \in Seq(Codes) /\ codes(i) \in SUBSET Codes
  <2>1. \A i \in 1 .. 3 : lists[i] \in Seq(Codes)
    OBVIOUS
  <2> QED
    BY <2>1, LenProperties DEF Image
<1>2. /\ start \in Seq(Codes) /\ U \in SUBSET Codes
      /\ U = codes(1) \cup codes(2) \cup codes(3)
  <2>1. /\ lists[1] \o lists[2] \in Seq(Codes)
        /\ Image(lists[1] \o lists[2]) = codes(1) \cup codes(2)
    BY <1>1, CodesOfBoth
  <2>2. start \in Seq(Codes) /\ U = codes(1) \cup codes(2) \cup codes(3)
    BY <1>1, <2>1, CodesOfBoth
  <2> QED
    BY <1>1, <2>2
<1>3. none \in Seq(Codes) /\ Image(none) = {}
  BY DEF Image
<1> HIDE DEF none, start
<1>4. one(none, start) = InByteOrder(BoundedList(U, b))
  <2>1. Image(none) \cup Image(start) = U
    BY <1>3
  <2>2. one(none, start)
          = InByteOrder(BoundedList(Image(none) \cup Image(start), b))
    <3>1. none \in Seq(Codes) /\ start \in Seq(Codes) /\ b \in Nat
      BY <1>2, <1>3
    <3>2. AppendBoundedWarnings(none, start, b)
            = InByteOrder(BoundedList(Image(none) \cup Image(start), b))
      BY <3>1, AppendIs
    <3> QED
      BY <3>2
  <2> QED
    BY <2>1, <2>2
<1>5. ASSUME NEW p \in (1 .. 3) \X (1 .. 3) \X (1 .. 3),
             Cardinality(Image(p)) = 3
      PROVE  one(one(one(none, lists[p[1]]), lists[p[2]]), lists[p[3]])
               = InByteOrder(BoundedList(U, b))
  <2>1. /\ lists[p[1]] \in Seq(Codes) /\ lists[p[2]] \in Seq(Codes)
        /\ lists[p[3]] \in Seq(Codes)
    BY <1>1
  <2>2. codes(p[1]) \cup codes(p[2]) \cup codes(p[3]) = U
    <3>1. {p[1], p[2], p[3]} = 1 .. 3
      BY <1>5, OrdersOfThree
    <3>2. codes(1) \cup codes(2) \cup codes(3) = UNION {codes(i) : i \in 1 .. 3}
      OBVIOUS
    <3>3. codes(p[1]) \cup codes(p[2]) \cup codes(p[3])
            = UNION {codes(i) : i \in {p[1], p[2], p[3]}}
      OBVIOUS
    <3> QED
      BY <1>2, <3>1, <3>2, <3>3
  <2> DEFINE A == codes(p[1])
             B == codes(p[2])
             C == codes(p[3])
             first == one(none, lists[p[1]])
             second == one(first, lists[p[2]])
  <2>3. A \in SUBSET Codes /\ B \in SUBSET Codes /\ C \in SUBSET Codes
    BY <1>1
  <2>4. first \in Seq(Codes) /\ Image(first) = BoundedList(A, b)
    <3>1. Image(none) \cup A = A
      BY <1>3
    <3>2. /\ first \in Seq(Codes)
          /\ Image(first) = BoundedList(Image(none) \cup A, b)
      BY <1>3, <2>1, AppendIs
    <3> QED
      BY <3>1, <3>2
  <2> HIDE DEF first
  <2>5. second \in Seq(Codes) /\ Image(second) = BoundedList(A \cup B, b)
    <3>1. /\ second \in Seq(Codes)
          /\ Image(second) = BoundedList(BoundedList(A, b) \cup B, b)
      <4>1. /\ second \in Seq(Codes)
            /\ Image(second) = BoundedList(Image(first) \cup B, b)
        BY <2>1, <2>4, AppendIs
      <4> QED
        BY <2>4, <4>1
    <3> HIDE DEF second, A, B
    <3> QED
      BY <2>3, <3>1, ListedOfBoth
  <2> HIDE DEF second
  <2>6. one(second, lists[p[3]]) = InByteOrder(BoundedList(A \cup B \cup C, b))
    <3>1. one(second, lists[p[3]])
            = InByteOrder(BoundedList(BoundedList(A \cup B, b) \cup C, b))
      <4>1. one(second, lists[p[3]])
              = InByteOrder(BoundedList(Image(second) \cup C, b))
        BY <2>1, <2>5, AppendIs
      <4> QED
        BY <2>5, <4>1
    <3> HIDE DEF A, B, C
    <3>2. BoundedList(BoundedList(A \cup B, b) \cup C, b)
            = BoundedList(A \cup B \cup C, b)
      <4>1. A \cup B \in SUBSET Codes
        BY <2>3
      <4> QED
        BY <2>3, <4>1, ListedOfBoth
    <3> QED
      BY <3>1, <3>2
  <2> QED
    BY <2>2, <2>6 DEF first, second
<1>6. /\ BoundedList(U, b) \in SUBSET Codes
      /\ Cardinality(BoundedList(U, b)) <= b + 1
      /\ WarningLimit \notin U =>
            (WarningLimit \in BoundedList(U, b) <=> BoundedList(U, b) # U)
  <2> HIDE DEF U
  <2> QED
    BY <1>2, ListedIs
<1>7. /\ Len(InByteOrder(BoundedList(U, b))) <= b + 1
      /\ Increasing(InByteOrder(BoundedList(U, b)), WarningLess)
      /\ Image(InByteOrder(BoundedList(U, b))) = BoundedList(U, b)
  BY <1>6, CodeListIs
<1> HIDE DEF U
<1> QED
  BY <1>4, <1>5, <1>6, <1>7 DEF WarningsInSteps, U, none, start

-----------------------------------------------------------------------------
(* Sums over a table *)

\* A sum over the rows T of a table, as CountOf adds it up.
SumOf(t, field, T) == SumOn([g \in T |-> t[g][field]], T)

\* A sum of numbers is a number.
LEMMA SumOfIsNat ==
    ASSUME NEW t, NEW field, NEW n \in Nat,
           \A g \in 1 .. n : t[g][field] \in Nat
    PROVE  SumOf(t, field, 1 .. n) \in Nat
<1> DEFINE w == [g \in 1 .. n |-> t[g][field]]
<1>1. IsFiniteSet(1 .. n) /\ \A g \in 1 .. n : w[g] \in Nat
  BY NumbersUpTo
<1>2. SumOf(t, field, 1 .. n) = SumOn(w, 1 .. n)
  BY DEF SumOf
<1> HIDE DEF w
<1> QED
  BY <1>1, <1>2, SumIsNat

\* No rows add up to 0.
LEMMA SumOfNone ==
    ASSUME NEW t, NEW field
    PROVE  SumOf(t, field, 1 .. 0) = 0
<1>1. 1 .. 0 = {} /\ IsFiniteSet({})
  BY FS_EmptySet
<1>2. SumOn([g \in 1 .. 0 |-> t[g][field]], {}) = 0
  BY <1>1, SumUnfolds
<1> QED
  BY <1>1, <1>2 DEF SumOf

\* The sum of the first n rows, and of one more.
LEMMA SumOfPrefix ==
    ASSUME NEW t, NEW field, NEW n \in Nat,
           \A g \in 1 .. n + 1 : t[g][field] \in Nat
    PROVE  /\ SumOf(t, field, 1 .. n) \in Nat
           /\ SumOf(t, field, 1 .. n + 1)
                = SumOf(t, field, 1 .. n) + t[n + 1][field]
<1> DEFINE w == [g \in 1 .. n + 1 |-> t[g][field]]
           v == [g \in 1 .. n |-> t[g][field]]
<1>1. IsFiniteSet(1 .. n) /\ IsFiniteSet(1 .. n + 1)
  BY FS_Interval
<1>2. n + 1 \in 1 .. n + 1 /\ (1 .. n + 1) \ {n + 1} = 1 .. n
  OBVIOUS
<1>3. /\ \A g \in 1 .. n + 1 : w[g] \in Nat
      /\ \A g \in 1 .. n : w[g] = v[g] /\ v[g] \in Nat
      /\ w[n + 1] = t[n + 1][field]
  BY <1>2
<1>4. /\ SumOf(t, field, 1 .. n + 1) = SumOn(w, 1 .. n + 1)
      /\ SumOf(t, field, 1 .. n) = SumOn(v, 1 .. n)
  BY DEF SumOf
<1> HIDE DEF w, v
<1>5. SumOn(w, 1 .. n + 1) = w[n + 1] + SumOn(w, 1 .. n)
  <2> DEFINE S == 1 .. n + 1
             x == n + 1
  <2>1. IsFiniteSet(S) /\ x \in S /\ \A g \in S : w[g] \in Nat
    BY <1>1, <1>2, <1>3
  <2> HIDE DEF S, x
  <2>2. SumOn(w, S) = w[x] + SumOn(w, S \ {x})
    BY <2>1, SumWithout
  <2> QED
    BY <1>2, <2>2 DEF S, x
<1>6. SumOn(w, 1 .. n) = SumOn(v, 1 .. n) /\ SumOn(w, 1 .. n) \in Nat
  BY <1>1, <1>3, SumOfSame DEF Weights
<1>7. w[n + 1] \in Nat
  BY <1>2, <1>3
<1> QED
  BY <1>3, <1>4, <1>5, <1>6, <1>7

\* The table t has the first k rows of u, and then the m rows of v.
Continues(t, u, v, field, k, m) ==
    /\ \A g \in 1 .. k + m : t[g][field] \in Nat
    /\ \A g \in 1 .. k : u[g][field] = t[g][field]
    /\ \A g \in 1 .. m : v[g][field] = t[k + g][field]

\* Its sum is that of these and of those.
LEMMA SumOfBoth ==
    ASSUME NEW t, NEW u, NEW v, NEW field, NEW k \in Nat, NEW m \in Nat,
           Continues(t, u, v, field, k, m)
    PROVE  /\ SumOf(u, field, 1 .. k) = SumOf(t, field, 1 .. k)
           /\ SumOf(t, field, 1 .. k + m)
                = SumOf(t, field, 1 .. k) + SumOf(v, field, 1 .. m)
           /\ SumOf(t, field, 1 .. k) \in Nat
           /\ SumOf(v, field, 1 .. m) \in Nat
<1> DEFINE differ == {n \in Nat : n <= k /\ SumOf(u, field, 1 .. n)
                                                # SumOf(t, field, 1 .. n)}
           wrong == {n \in Nat : n <= m /\ SumOf(t, field, 1 .. k + n)
                        # SumOf(t, field, 1 .. k) + SumOf(v, field, 1 .. n)}
<1> USE DEF Continues
<1>1. \A n \in 0 .. k : \A g \in 1 .. n :
          t[g][field] \in Nat /\ u[g][field] \in Nat
  OBVIOUS
<1>2. \A n \in 0 .. m : \A g \in 1 .. n :
          v[g][field] \in Nat /\ t[k + g][field] \in Nat
  <2> TAKE n \in 0 .. m
  <2> TAKE g \in 1 .. n
  <2>1. k + g \in 1 .. k + m /\ g \in 1 .. m
    OBVIOUS
  <2> QED
    BY <2>1
<1>5. SumOf(t, field, 1 .. k) \in Nat /\ SumOf(v, field, 1 .. m) \in Nat
  <2>1. /\ \A g \in 1 .. k : t[g][field] \in Nat
        /\ \A g \in 1 .. m : v[g][field] \in Nat
    BY <1>1, <1>2
  <2> QED
    BY <2>1, SumOfIsNat
<1>3. differ = {}
  <2> SUFFICES ASSUME differ # {} PROVE FALSE
    OBVIOUS
  <2>0. differ \in SUBSET Nat
    OBVIOUS
  <2>1. PICK n \in differ : \A j \in differ : n <= j
    <3> HIDE DEF differ
    <3> QED
      BY <2>0, SmallestNumber
  <2>2. CASE n = 0
    BY <2>1, <2>2, SumOfNone
  <2>3. CASE n # 0
    <3> DEFINE j == n - 1
    <3>1. j \in Nat /\ j + 1 = n /\ j < n /\ j <= k /\ n \in 1 .. k
      BY <2>1, <2>3
    <3> HIDE DEF j
    <3>2. SumOf(u, field, 1 .. j) = SumOf(t, field, 1 .. j)
      BY <2>1, <3>1
    <3>3. \A g \in 1 .. j + 1 : t[g][field] \in Nat /\ u[g][field] \in Nat
      BY <1>1, <3>1
    <3>4. /\ SumOf(t, field, 1 .. j + 1)
               = SumOf(t, field, 1 .. j) + t[j + 1][field]
          /\ SumOf(u, field, 1 .. j + 1)
               = SumOf(u, field, 1 .. j) + u[j + 1][field]
      BY <3>1, <3>3, SumOfPrefix
    <3> QED
      BY <2>1, <3>1, <3>2, <3>4
  <2> QED
    BY <2>2, <2>3
<1>4. wrong = {}
  <2> SUFFICES ASSUME wrong # {} PROVE FALSE
    OBVIOUS
  <2>0. wrong \in SUBSET Nat
    OBVIOUS
  <2>1. PICK n \in wrong : \A j \in wrong : n <= j
    <3> HIDE DEF wrong
    <3> QED
      BY <2>0, SmallestNumber
  <2>2. SumOf(t, field, 1 .. k) \in Nat
    BY <1>5
  <2>3. CASE n = 0
    <3>1. k + n = k
      BY <2>3
    <3> QED
      BY <2>1, <2>2, <2>3, <3>1, SumOfNone
  <2>4. CASE n # 0
    <3> DEFINE j == n - 1
    <3>1. j \in Nat /\ j + 1 = n /\ j < n /\ j <= m /\ n \in 1 .. m
      BY <2>1, <2>4
    <3> HIDE DEF j
    <3>2. SumOf(t, field, 1 .. k + j)
            = SumOf(t, field, 1 .. k) + SumOf(v, field, 1 .. j)
      BY <2>1, <3>1
    <3>3. \A g \in 1 .. j + 1 : v[g][field] \in Nat
      <4> TAKE g \in 1 .. j + 1
      <4>1. g \in 1 .. n /\ n \in 0 .. m
        BY <3>1
      <4> QED
        BY <1>2, <4>1
    <3>4. /\ SumOf(v, field, 1 .. j + 1)
               = SumOf(v, field, 1 .. j) + v[j + 1][field]
          /\ SumOf(v, field, 1 .. j) \in Nat
      BY <3>1, <3>3, SumOfPrefix
    <3>5. k + j \in Nat /\ \A g \in 1 .. (k + j) + 1 : t[g][field] \in Nat
      BY <3>1
    <3>6. SumOf(t, field, 1 .. (k + j) + 1)
            = SumOf(t, field, 1 .. k + j) + t[(k + j) + 1][field]
      BY <3>5, SumOfPrefix
    <3>7. (k + j) + 1 = k + n /\ v[n][field] = t[k + n][field]
      BY <3>1
    <3>8. v[n][field] \in Nat
      BY <3>1, <3>3
    <3>9. SumOf(t, field, 1 .. k + n)
            = SumOf(t, field, 1 .. k) + SumOf(v, field, 1 .. n)
      <4> DEFINE a == SumOf(t, field, 1 .. k)
                 b == SumOf(v, field, 1 .. j)
                 c == v[n][field]
      <4>1. SumOf(t, field, 1 .. k + n) = (a + b) + c
        BY <3>2, <3>6, <3>7
      <4>2. SumOf(v, field, 1 .. n) = b + c
        BY <3>1, <3>4
      <4>3. a \in Nat /\ b \in Nat /\ c \in Nat
        BY <2>2, <3>4, <3>8
      <4> HIDE DEF a, b, c
      <4>4. (a + b) + c = a + (b + c)
        BY <4>3
      <4> QED
        BY <4>1, <4>2, <4>4 DEF a
    <3> QED
      BY <2>1, <3>9
  <2> QED
    BY <2>3, <2>4
<1>6. SumOf(u, field, 1 .. k) = SumOf(t, field, 1 .. k)
  BY <1>3
<1>7. SumOf(t, field, 1 .. k + m)
        = SumOf(t, field, 1 .. k) + SumOf(v, field, 1 .. m)
  BY <1>4
<1> QED
  BY <1>5, <1>6, <1>7

-----------------------------------------------------------------------------
(* The two loops *)

\* The n-th turn of one of the two loops, that of FoldRows and that of Fit.
LoopTurn(kind, n, result, bounds) ==
    IF kind # "fold" THEN FitStep(result, bounds)
    ELSE IF n > bounds[1] THEN result ELSE FoldTail(result, bounds[2])

\* The results after 0, 1, ... turns.
TurnsOf(f, kind, m, result, bounds) ==
    f = [n \in 0 .. m |->
            IF n = 0 THEN result ELSE LoopTurn(kind, n, f[n - 1], bounds)]

\* There are such results for every number of times.
LEMMA TurnsThereAre ==
    ASSUME NEW kind, NEW result, NEW bounds, NEW count \in Nat
    PROVE  \E f : TurnsOf(f, kind, count, result, bounds)
<1> DEFINE R(f, m) == TurnsOf(f, kind, m, result, bounds)
           without == {m \in Nat : ~ \E f : R(f, m)}
<1> SUFFICES ASSUME without # {} PROVE FALSE
  OBVIOUS
<1>1. PICK m \in without : \A n \in without : m <= n
  BY SmallestNumber
<1>2. CASE m = 0
  <2>1. R([n \in 0 .. 0 |-> result], 0)
    BY DEF TurnsOf
  <2> QED
    BY <1>2, <2>1
<1>3. CASE m # 0
  <2>1. m - 1 \in Nat /\ m - 1 \notin without
    BY <1>1, <1>3
  <2>2. PICK f : R(f, m - 1)
    BY <2>1
  <2> DEFINE g == [n \in 0 .. m |->
                      IF n = m THEN LoopTurn(kind, m, f[m - 1], bounds)
                      ELSE f[n]]
  <2>3. \A n \in 0 .. m - 1 :
           f[n] = IF n = 0 THEN result ELSE LoopTurn(kind, n, f[n - 1], bounds)
    BY <2>2, <2>1 DEF TurnsOf
  <2>4. ASSUME NEW n \in 0 .. m
        PROVE  g[n] = IF n = 0 THEN result
                      ELSE LoopTurn(kind, n, g[n - 1], bounds)
    <3>1. CASE n = 0
      BY <1>3, <2>1, <2>3, <3>1
    <3>2. CASE n # 0
      <4>1. n - 1 \in 0 .. m /\ n - 1 # m /\ g[n - 1] = f[n - 1]
        BY <2>1, <3>2
      <4>2. CASE n = m
        BY <4>1, <4>2, <3>2
      <4>3. CASE n # m
        <5>1. n \in 0 .. m - 1
          BY <2>1, <4>3
        <5> QED
          BY <2>3, <3>2, <4>1, <4>3, <5>1
      <4> QED
        BY <4>2, <4>3
    <3> QED
      BY <3>1, <3>2
  <2>5. R(g, m)
    <3>1. g = [n \in 0 .. m |-> g[n]]
      OBVIOUS
    <3> HIDE DEF g
    <3> QED
      BY <2>4, <3>1 DEF TurnsOf
  <2> QED
    BY <2>5
<1> QED
  BY <1>2, <1>3

\* FoldRows is the last of them.
LEMMA FoldRowsIs ==
    ASSUME NEW result, NEW count, NEW items, Len(result.table) \in Nat
    PROVE  \E f : /\ f[0] = result
                  /\ \A n \in 1 .. Len(result.table) :
                        f[n] = IF n > count THEN f[n - 1]
                               ELSE FoldTail(f[n - 1], items)
                  /\ FoldRows(result, count, items) = f[Len(result.table)]
<1> DEFINE rows == Len(result.table)
           R(f) == f = [n \in 0 .. rows |->
                          IF n = 0 THEN result
                          ELSE IF n > count THEN f[n - 1]
                          ELSE FoldTail(f[n - 1], items)]
           f == CHOOSE f : R(f)
<1>0. rows \in Nat
  OBVIOUS
<1>1. R(f)
  <2> HIDE DEF rows
  <2>1. PICK g : TurnsOf(g, "fold", rows, result, <<count, items>>)
    BY <1>0, TurnsThereAre
  <2>2. R(g)
    BY <2>1 DEF TurnsOf, LoopTurn
  <2> HIDE DEF R
  <2> QED
    BY <2>2
<1>2. FoldRows(result, count, items) = f[rows]
  BY DEF FoldRows
<1> HIDE DEF f, rows
<1>3. \A n \in 0 .. rows :
         f[n] = IF n = 0 THEN result
                ELSE IF n > count THEN f[n - 1] ELSE FoldTail(f[n - 1], items)
  BY <1>1
<1>4. 0 \in 0 .. rows /\ \A n \in 1 .. rows : n \in 0 .. rows /\ n # 0
  BY <1>0
<1> QED
  BY <1>2, <1>3, <1>4 DEF rows

\* What Fit returns of its last result.
Answer(last, limits) ==
    [result |-> last,
     error  |-> IF ~ValidResult(last, limits) THEN "invalid wire"
                ELSE IF Fits(last, limits) THEN "" ELSE "unrenderable"]

\* And so is what Fit returns, after as many turns as there are findings and
\* rows.
LEMMA FitIs ==
    ASSUME NEW start, NEW limits,
           Len(start.findings) + Len(start.table) \in Nat
    PROVE  \E f : /\ f[0] = Prepared(start, limits)
                  /\ \A n \in 1 .. Len(start.findings) + Len(start.table) :
                        f[n] = FitStep(f[n - 1], limits)
                  /\ Fit(start, limits) = Answer(
                       f[Len(start.findings) + Len(start.table)], limits)
<1> DEFINE count == Len(start.findings) + Len(start.table)
           R(f) == f = [n \in 0 .. count |->
                          IF n = 0 THEN Prepared(start, limits)
                          ELSE FitStep(f[n - 1], limits)]
           f == CHOOSE f : R(f)
<1>0. count \in Nat
  OBVIOUS
<1>1. R(f)
  <2> HIDE DEF count
  <2>1. PICK g : TurnsOf(g, "fit", count, Prepared(start, limits), limits)
    BY <1>0, TurnsThereAre
  <2>2. R(g)
    BY <2>1 DEF TurnsOf, LoopTurn
  <2> HIDE DEF R
  <2> QED
    BY <2>2
<1>2. Fit(start, limits) = Answer(f[count], limits)
  BY DEF Fit, Answer
<1> HIDE DEF f, count
<1>3. \A n \in 0 .. count :
         f[n] = IF n = 0 THEN Prepared(start, limits)
                ELSE FitStep(f[n - 1], limits)
  BY <1>1
<1>4. 0 \in 0 .. count /\ \A n \in 1 .. count : n \in 0 .. count /\ n # 0
  BY <1>0
<1> QED
  BY <1>2, <1>3, <1>4 DEF count

-----------------------------------------------------------------------------
(* Folding a table *)

\* The first n elements of a sequence.
LEMMA PrefixIs ==
    ASSUME NEW S, NEW s \in Seq(S), NEW n \in 0 .. Len(s)
    PROVE  /\ SubSeq(s, 1, n) \in Seq(S)
           /\ Len(SubSeq(s, 1, n)) = n
           /\ \A i \in 1 .. n : SubSeq(s, 1, n)[i] = s[i]
<1>1. n \in Nat /\ \A i \in 1 .. n : s[i] \in S
  OBVIOUS
<1>2. /\ SubSeq(s, 1, n) \in Seq(S)
      /\ Len(SubSeq(s, 1, n)) = IF 1 <= n THEN n - 1 + 1 ELSE 0
      /\ \A i \in 1 .. n - 1 + 1 : SubSeq(s, 1, n)[i] = s[1 + i - 1]
  BY <1>1, SubSeqProperties
<1>3. n - 1 + 1 = n /\ \A i \in 1 .. n : 1 + i - 1 = i
  BY <1>1
<1>4. Len(SubSeq(s, 1, n)) = n
  BY <1>1, <1>2
<1> QED
  BY <1>2, <1>3, <1>4

\* A row of a table before any is folded.
PlainRows(Rows) ==
    \A row \in Rows :
        ~ Folded(row) /\ \A field \in Counts : row[field] \in Nat

\* The counts of the rows are numbers.
Countable(t) ==
    \A g \in DOMAIN t : \A field \in Counts : t[g][field] \in Nat

\* The joined row has the counts of the rows it stands for.
LEMMA JoinedRowCounts ==
    ASSUME NEW rows, NEW items, NEW field \in Counts
    PROVE  JoinedRow(rows, items)[field] = CountOf(rows, field)
<1>1. CASE field = "files"
  BY <1>1 DEF JoinedRow
<1>2. CASE field = "definitions"
  BY <1>2 DEF JoinedRow
<1>3. CASE field = "entryPoints"
  BY <1>3 DEF JoinedRow
<1>4. CASE field = "documents"
  BY <1>4 DEF JoinedRow
<1>5. CASE field = "configurations"
  BY <1>5 DEF JoinedRow
<1> QED
  BY <1>1, <1>2, <1>3, <1>4, <1>5 DEF Counts

\* A count of a table is a sum over its rows.
LEMMA CountIsSum ==
    ASSUME NEW S, NEW t \in Seq(S), NEW field
    PROVE  CountOf(t, field) = SumOf(t, field, 1 .. Len(t))
<1>1. DOMAIN t = 1 .. Len(t)
  OBVIOUS
<1>2. CountOf(t, field) = SumOf(t, field, DOMAIN t)
  BY DEF CountOf, Total, SumOf, SumOn
<1> QED
  BY <1>1, <1>2

\* A row with the sum of the rows it stands for.
LEMMA SumOfJoined ==
    ASSUME NEW t, NEW u, NEW v, NEW field, NEW k \in Nat, NEW m \in Nat,
           Continues(t, u, v, field, k, m),
           u[k + 1][field] = SumOf(v, field, 1 .. m)
    PROVE  /\ u[k + 1][field] \in Nat
           /\ SumOf(u, field, 1 .. k + 1) = SumOf(t, field, 1 .. k + m)
<1>0. /\ \A g \in 1 .. k + m : t[g][field] \in Nat
      /\ \A g \in 1 .. k : u[g][field] = t[g][field]
  BY DEF Continues
<1>1. /\ SumOf(u, field, 1 .. k) = SumOf(t, field, 1 .. k)
      /\ SumOf(t, field, 1 .. k + m)
           = SumOf(t, field, 1 .. k) + SumOf(v, field, 1 .. m)
      /\ SumOf(t, field, 1 .. k) \in Nat
      /\ SumOf(v, field, 1 .. m) \in Nat
  BY SumOfBoth
<1>2. \A g \in 1 .. k + 1 : u[g][field] \in Nat
  <2> TAKE g \in 1 .. k + 1
  <2>1. CASE g = k + 1
    BY <1>1, <2>1
  <2>2. CASE g # k + 1
    <3>1. g \in 1 .. k /\ g \in 1 .. k + m
      BY <2>2
    <3> QED
      BY <1>0, <3>1
  <2> QED
    BY <2>1, <2>2
<1>3. SumOf(u, field, 1 .. k + 1) = SumOf(u, field, 1 .. k) + u[k + 1][field]
  BY <1>2, SumOfPrefix
<1> QED
  BY <1>1, <1>2, <1>3

\* No file is lost when the rows after the first j are joined into one.
LEMMA JoiningKeepsCounts ==
    ASSUME NEW S, NEW t \in Seq(S), Countable(t), NEW j \in 0 .. Len(t),
           NEW items, NEW joined,
           joined = JoinedRow(SubSeq(t, j + 1, Len(t)), items),
           NEW field \in Counts
    PROVE  /\ joined[field] \in Nat
           /\ CountOf(Append(SubSeq(t, 1, j), joined), field)
                = CountOf(t, field)
<1> DEFINE kept == SubSeq(t, 1, j)
           gone == SubSeq(t, j + 1, Len(t))
           u == Append(kept, joined)
           m == Len(t) - j
<1>1. j \in Nat /\ Len(t) \in Nat /\ m \in Nat /\ j + m = Len(t)
  OBVIOUS
<1>2. /\ kept \in Seq(S) /\ Len(kept) = j
      /\ \A g \in 1 .. j : kept[g] = t[g]
  BY PrefixIs
<1>3. /\ gone \in Seq(S) /\ Len(gone) = m
      /\ \A g \in 1 .. m : gone[g] = t[j + g]
  <2> DEFINE first == j + 1
             last == Len(t)
  <2>1. /\ first \in Int /\ last \in Int
        /\ \A i \in first .. last : t[i] \in S
    OBVIOUS
  <2>2. /\ last - first + 1 = m
        /\ (IF first <= last THEN last - first + 1 ELSE 0) = m
        /\ \A i \in 1 .. m : first + i - 1 = j + i
    <3>1. last \in Nat /\ j \in 0 .. last /\ m = last - j
      OBVIOUS
    <3> HIDE DEF last, m
    <3> QED
      BY <3>1
  <2>3. gone = SubSeq(t, first, last)
    OBVIOUS
  <2> HIDE DEF first, last, m, gone
  <2>4. /\ gone \in Seq(S)
        /\ Len(gone) = IF first <= last THEN last - first + 1 ELSE 0
        /\ \A i \in 1 .. last - first + 1 : gone[i] = t[first + i - 1]
    BY <2>1, <2>3, SubSeqProperties
  <2>5. Len(gone) = m
    BY <2>2, <2>4, Zenon
  <2>6. \A i \in 1 .. m : gone[i] = t[first + i - 1]
    BY <2>2, <2>4
  <2> QED
    BY <2>2, <2>4, <2>5, <2>6
<1>4. /\ u \in Seq(S \cup {joined}) /\ Len(u) = j + 1
      /\ u[j + 1] = joined /\ \A g \in 1 .. j : u[g] = t[g]
  <2> HIDE DEF kept
  <2>1. kept \in Seq(S \cup {joined})
    BY <1>2
  <2> QED
    BY <1>1, <1>2, <2>1
<1>5. \A g \in 1 .. j + m : t[g][field] \in Nat
  BY <1>1 DEF Countable
<1> HIDE DEF kept, gone, u, m
<1>6. u[j + 1][field] = SumOf(gone, field, 1 .. m)
  <2>1. joined[field] = CountOf(gone, field)
    BY JoinedRowCounts DEF gone
  <2> QED
    BY <1>3, <1>4, <2>1, CountIsSum
<1>7. /\ \A g \in 1 .. j : u[g][field] = t[g][field]
      /\ \A g \in 1 .. m : gone[g][field] = t[j + g][field]
  BY <1>3, <1>4
<1>7a. Continues(t, u, gone, field, j, m)
  BY <1>5, <1>7 DEF Continues
<1>8. /\ u[j + 1][field] \in Nat
      /\ SumOf(u, field, 1 .. j + 1) = SumOf(t, field, 1 .. j + m)
  BY <1>1, <1>6, <1>7a, SumOfJoined
<1>9. CountOf(u, field) = SumOf(u, field, 1 .. j + 1)
  BY <1>4, CountIsSum
<1>10. CountOf(t, field) = SumOf(t, field, 1 .. j + m)
  BY <1>1, CountIsSum
<1> QED
  BY <1>4, <1>8, <1>9, <1>10 DEF u, kept

\* A result has the fields that fitting changes.
Shape(r) ==
    {"findings", "omitted", "truncated", "warnings", "table", "folded"}
        \subseteq DOMAIN r

\* The first n findings in rank order.
Best(start, n) ==
    [i \in 1 .. n |-> [InRankOrder(start.findings)[i] EXCEPT !.rank = i]]

FindingsAre(start, r, n) ==
    /\ n \in 0 .. Len(start.findings)
    /\ r.findings = Best(start, n)
    /\ r.omitted = start.omitted + Len(start.findings) - n
    /\ r.truncated = (start.truncated \/ r.omitted > 0)

\* The first k rows, and one for the others if there are any.
JoinedAfter(start, r, k) ==
    \E joined :
        /\ r.table = Append(SubSeq(start.table, 1, k), joined)
        /\ Folded(joined)
        /\ \A field \in Counts :
              /\ joined[field] \in Nat
              /\ CountOf(r.table, field) = CountOf(start.table, field)

TableIs(start, r, k) ==
    /\ k \in 0 .. Len(start.table)
    /\ r.folded = start.folded + Len(start.table) - k
    /\ \/ k = Len(start.table) /\ r.table = start.table
       \/ k < Len(start.table) /\ JoinedAfter(start, r, k)

\* A result on its way: n findings and k rows are left.
Left(start, r, n, k) ==
    Shape(r) /\ FindingsAre(start, r, n) /\ TableIs(start, r, k)

\* The rows that are left, and that they have counts.
LEMMA RowsLeft ==
    ASSUME NEW Rows, PlainRows(Rows), NEW start, start.table \in Seq(Rows),
           NEW r, NEW k, TableIs(start, r, k)
    PROVE  /\ \E S : r.table \in Seq(S)
           /\ Len(r.table) \in Nat
           /\ Countable(r.table)
           /\ DirectoryRows(r.table) = SubSeq(start.table, 1, k)
           /\ Len(DirectoryRows(r.table)) = k /\ k \in Nat
           /\ k < Len(r.table) \/ (k = Len(r.table) /\ r.table = start.table)
           /\ k < Len(r.table) =>
                 Len(r.table) = k + 1 /\ Folded(r.table[k + 1])
           /\ SubSeq(r.table, 1, k) = SubSeq(start.table, 1, k)
           /\ \A field \in Counts :
                 CountOf(r.table, field) = CountOf(start.table, field)
<1> DEFINE t == start.table
           kept == SubSeq(t, 1, k)
<1>1. /\ k \in Nat /\ k <= Len(t) /\ Len(t) \in Nat
      /\ \A g \in DOMAIN t :
            ~ Folded(t[g]) /\ \A field \in Counts : t[g][field] \in Nat
  BY DEF TableIs, PlainRows
<1>2. /\ kept \in Seq(Rows) /\ Len(kept) = k
      /\ \A g \in 1 .. k : kept[g] = t[g]
  <2>1. k \in 0 .. Len(t)
    BY <1>1
  <2> QED
    BY <2>1, PrefixIs
<1>3. CASE k = Len(t) /\ r.table = t
  <2>1. kept = t
    BY <1>3, SubSeqFull
  <2>2. DirectoryRows(t) = t
    <3>1. t # <<>> => Len(t) \in DOMAIN t
      BY <1>1
    <3> QED
      BY <1>1, <3>1 DEF DirectoryRows
  <2> QED
    BY <1>1, <1>3, <2>1, <2>2 DEF Countable
<1>4. CASE k < Len(t) /\ JoinedAfter(start, r, k)
  <2>1. PICK joined :
           /\ r.table = Append(kept, joined) /\ Folded(joined)
           /\ \A field \in Counts :
                 /\ joined[field] \in Nat
                 /\ CountOf(r.table, field) = CountOf(t, field)
    BY <1>4 DEF JoinedAfter
  <2> HIDE DEF kept
  <2>2. kept \in Seq(Rows \cup {joined})
    BY <1>2
  <2>3. /\ r.table \in Seq(Rows \cup {joined}) /\ Len(r.table) = k + 1
        /\ r.table[k + 1] = joined
        /\ \A g \in 1 .. k : r.table[g] = kept[g]
    BY <1>1, <1>2, <2>1, <2>2
  <2>4. Countable(r.table)
    <3> SUFFICES ASSUME NEW g \in DOMAIN r.table, NEW field \in Counts
                 PROVE  r.table[g][field] \in Nat
      BY DEF Countable
    <3>1. g \in 1 .. k + 1
      BY <2>3
    <3>2. CASE g = k + 1
      BY <2>1, <2>3, <3>2
    <3>3. CASE g # k + 1
      <4>1. g \in 1 .. k /\ g \in DOMAIN t
        BY <1>1, <3>1, <3>3
      <4> QED
        BY <1>1, <1>2, <2>3, <4>1
    <3> QED
      BY <3>2, <3>3
  <2>5. SubSeq(r.table, 1, k) = kept
    <3>1. /\ SubSeq(r.table, 1, k) \in Seq(Rows \cup {joined})
          /\ Len(SubSeq(r.table, 1, k)) = k
          /\ \A g \in 1 .. k : SubSeq(r.table, 1, k)[g] = r.table[g]
      <4>1. k \in 0 .. Len(r.table)
        BY <1>1, <2>3
      <4> QED
        BY <2>3, <4>1, PrefixIs
    <3> DEFINE other == SubSeq(r.table, 1, k)
    <3>2. /\ other \in Seq(Rows \cup {joined}) /\ Len(other) = k
          /\ \A g \in 1 .. k : other[g] = kept[g]
      BY <2>3, <3>1
    <3> HIDE DEF other
    <3>3. other = kept
      BY <1>2, <2>2, <3>2, SeqEqual
    <3> QED
      BY <3>3 DEF other
  <2>6. DirectoryRows(r.table) = kept
    <3>1. r.table # <<>> /\ Folded(r.table[Len(r.table)])
      <4>1. Len(r.table) # 0
        BY <1>1, <2>3
      <4> QED
        BY <2>1, <2>3, <4>1
    <3>2. Shorter(r.table, Len(r.table) - 1) = SubSeq(r.table, 1, k)
      BY <1>1, <2>3 DEF Shorter
    <3> QED
      BY <2>5, <3>1, <3>2 DEF DirectoryRows
  <2>7. k < Len(r.table)
    BY <1>1, <2>3
  <2> QED
    <3>1. \E S : r.table \in Seq(S)
      BY <2>3
    <3>2. /\ DirectoryRows(r.table) = SubSeq(t, 1, k)
          /\ SubSeq(r.table, 1, k) = SubSeq(t, 1, k)
          /\ Len(DirectoryRows(r.table)) = k
      BY <1>2, <2>5, <2>6 DEF kept
    <3>3. /\ Len(r.table) \in Nat /\ Len(r.table) = k + 1
          /\ Folded(r.table[k + 1])
      BY <1>1, <2>1, <2>3
    <3>4. \A field \in Counts :
             CountOf(r.table, field) = CountOf(start.table, field)
      BY <2>1
    <3> QED
      BY <1>1, <2>4, <2>7, <3>1, <3>2, <3>3, <3>4
<1> QED
  BY <1>3, <1>4 DEF TableIs

\* A turn of the fold joins the last row that is left, if it is not alone.
LEMMA FoldTailKeeps ==
    ASSUME NEW Rows, PlainRows(Rows), NEW start, start.table \in Seq(Rows),
           start.folded \in Nat, NEW items,
           NEW r, NEW n, NEW k, Left(start, r, n, k)
    PROVE  /\ k \in Nat /\ Len(r.table) \in Nat /\ k <= Len(r.table)
           /\ CanFold(r.table) <=> k >= 2
           /\ k < 2 => FoldTail(r, items) = r
           /\ k >= 2 => Left(start, FoldTail(r, items), n, k - 1)
<1>1. TableIs(start, r, k) /\ Shape(r) /\ FindingsAre(start, r, n)
  BY DEF Left
<1>2. /\ \E S : r.table \in Seq(S)
      /\ Len(r.table) \in Nat
      /\ Countable(r.table)
      /\ Len(DirectoryRows(r.table)) = k /\ k \in Nat
      /\ k < Len(r.table) \/ (k = Len(r.table) /\ r.table = start.table)
      /\ k < Len(r.table) => Len(r.table) = k + 1
      /\ SubSeq(r.table, 1, k) = SubSeq(start.table, 1, k)
      /\ \A field \in Counts :
            CountOf(r.table, field) = CountOf(start.table, field)
  BY <1>1, RowsLeft
<1>3. CanFold(r.table) <=> k >= 2
  BY <1>2 DEF CanFold
<1>4. k < 2 => FoldTail(r, items) = r
  BY <1>2, <1>3 DEF FoldTail
<1>5. ASSUME k >= 2
      PROVE  Left(start, FoldTail(r, items), n, k - 1)
  <2> DEFINE j == k - 1
             joined == JoinedRow(SubSeq(r.table, j + 1, Len(r.table)), items)
             table == Append(SubSeq(r.table, 1, j), joined)
             f == [r EXCEPT !.table = table, !.folded = @ + 1]
  <2>1. j \in Nat /\ j < Len(r.table) /\ j \in 0 .. Len(r.table)
        /\ j + 1 = k /\ k <= Len(r.table)
    BY <1>2, <1>5
  <2>2. FoldTail(r, items) = f
    <3>1. Shorter(r.table, j) = SubSeq(r.table, 1, j)
      BY <2>1 DEF Shorter
    <3> QED
      BY <1>2, <1>3, <1>5, <3>1 DEF FoldTail
  <2>3. /\ f.table = table /\ f.folded = r.folded + 1
        /\ f.findings = r.findings /\ f.omitted = r.omitted
        /\ f.truncated = r.truncated /\ Shape(f)
    <3> HIDE DEF table
    <3> QED
      BY <1>1 DEF Shape
  <2>4. \A field \in Counts : /\ joined[field] \in Nat
                              /\ CountOf(table, field) = CountOf(r.table, field)
    <3> TAKE field \in Counts
    <3>1. PICK S : r.table \in Seq(S)
      BY <1>2
    <3> HIDE DEF joined, j
    <3>2. joined = JoinedRow(SubSeq(r.table, j + 1, Len(r.table)), items)
      BY DEF joined
    <3> QED
      BY <1>2, <2>1, <3>1, <3>2, JoiningKeepsCounts
  <2>5. SubSeq(r.table, 1, j) = SubSeq(start.table, 1, j)
    <3>1. PICK S : r.table \in Seq(S)
      BY <1>2
    <3>2. k \in 0 .. Len(start.table) /\ k \in 0 .. Len(r.table)
      BY <1>1, <1>2, <2>1 DEF TableIs
    <3>3. \A i \in 1 .. k : SubSeq(start.table, 1, k)[i] = start.table[i]
      BY <3>2, PrefixIs
    <3>4. \A i \in 1 .. k : SubSeq(r.table, 1, k)[i] = r.table[i]
      BY <3>1, <3>2, PrefixIs
    <3>5. \A i \in 1 .. k : r.table[i] = start.table[i]
      BY <1>2, <3>3, <3>4
    <3>6. /\ j \in 0 .. Len(start.table) /\ j \in 0 .. Len(r.table)
          /\ 1 .. j \subseteq 1 .. k
      BY <2>1, <3>2
    <3> HIDE DEF j
    <3>7. /\ SubSeq(start.table, 1, j) \in Seq(Rows)
          /\ Len(SubSeq(start.table, 1, j)) = j
          /\ \A i \in 1 .. j : SubSeq(start.table, 1, j)[i] = start.table[i]
      BY <3>6, PrefixIs
    <3>8. /\ SubSeq(r.table, 1, j) \in Seq(S)
          /\ Len(SubSeq(r.table, 1, j)) = j
          /\ \A i \in 1 .. j : SubSeq(r.table, 1, j)[i] = r.table[i]
      BY <3>1, <3>6, PrefixIs
    <3> DEFINE x == SubSeq(r.table, 1, j)
               y == SubSeq(start.table, 1, j)
    <3>9. \A i \in 1 .. j : x[i] = y[i]
      BY <3>5, <3>6, <3>7, <3>8
    <3>10. /\ x \in Seq(S \cup Rows) /\ y \in Seq(S \cup Rows)
           /\ Len(x) = j /\ Len(y) = j
      BY <3>7, <3>8
    <3> HIDE DEF x, y
    <3>11. x = y
      BY <3>9, <3>10, SeqEqual
    <3> QED
      BY <3>11 DEF x, y
  <2>6. Folded(joined)
    BY DEF JoinedRow, Folded
  <2> HIDE DEF f, table, joined, j
  <2>7. JoinedAfter(start, f, j)
    <3>1. f.table = Append(SubSeq(start.table, 1, j), joined)
      BY <2>3, <2>5 DEF table
    <3>2. \A field \in Counts :
             /\ joined[field] \in Nat
             /\ CountOf(f.table, field) = CountOf(start.table, field)
      BY <1>2, <2>3, <2>4
    <3> QED
      BY <2>6, <3>1, <3>2 DEF JoinedAfter
  <2>8. TableIs(start, f, j)
    <3>1. /\ k \in 0 .. Len(start.table) /\ Len(start.table) \in Nat
          /\ r.folded = start.folded + Len(start.table) - k
      BY <1>1 DEF TableIs
    <3> DEFINE a == start.folded
               b == Len(start.table)
    <3>2. /\ a \in Nat /\ b \in Nat /\ j \in Nat /\ k = j + 1 /\ k \in 0 .. b
          /\ f.folded = (a + b - k) + 1
      BY <2>1, <2>3, <3>1
    <3> HIDE DEF a, b
    <3>3. j \in 0 .. b /\ j < b /\ (a + b - k) + 1 = a + b - j
      BY <3>2
    <3> QED
      BY <2>7, <3>2, <3>3 DEF TableIs, a, b
  <2>9. FindingsAre(start, f, n)
    BY <1>1, <2>3 DEF FindingsAre
  <2> QED
    BY <2>2, <2>3, <2>8, <2>9 DEF Left, j
<1> QED
  BY <1>2, <1>3, <1>4, <1>5

\* Folding keeps what adds up, and joins a row if there are two.
LEMMA FoldRowsKeeps ==
    ASSUME NEW Rows, PlainRows(Rows), NEW start, start.table \in Seq(Rows),
           start.folded \in Nat, NEW count, NEW items,
           NEW r, NEW n, NEW k, Left(start, r, n, k)
    PROVE  \E j \in 0 .. k :
              /\ Left(start, FoldRows(r, count, items), n, j)
              /\ k >= 2 /\ ~ (1 > count) => j < k
<1> DEFINE m == Len(r.table)
<1>1. k \in Nat /\ m \in Nat /\ k <= m
  BY FoldTailKeeps
<1>2. PICK f :
         /\ f[0] = r
         /\ \A i \in 1 .. m : f[i] = IF i > count THEN f[i - 1]
                                     ELSE FoldTail(f[i - 1], items)
         /\ FoldRows(r, count, items) = f[m]
  BY <1>1, FoldRowsIs
<1> DEFINE ok(i) == \E j \in 0 .. k :
              /\ Left(start, f[i], n, j)
              /\ k >= 2 /\ ~ (1 > count) /\ i >= 1 => j < k
           bad == {i \in Nat : i <= m /\ ~ ok(i)}
<1> HIDE DEF m
<1>3. bad = {}
  <2> SUFFICES ASSUME bad # {} PROVE FALSE
    OBVIOUS
  <2>0. bad \in SUBSET Nat
    OBVIOUS
  <2>1. PICK i \in bad : \A j \in bad : i <= j
    <3> HIDE DEF bad
    <3> QED
      BY <2>0, SmallestNumber
  <2>2. i \in Nat /\ i <= m /\ ~ ok(i)
    OBVIOUS
  <2>3. CASE i = 0
    BY <1>1, <1>2, <2>2, <2>3
  <2>4. CASE i # 0
    <3>1. i \in 1 .. m /\ i - 1 \in Nat /\ i - 1 <= m /\ i - 1 < i
      BY <1>1, <2>2, <2>4
    <3>2. ok(i - 1)
      BY <2>1, <3>1
    <3> HIDE DEF bad
    <3>3. PICK j \in 0 .. k :
             /\ Left(start, f[i - 1], n, j)
             /\ k >= 2 /\ ~ (1 > count) /\ i - 1 >= 1 => j < k
      BY <3>2
    <3>4. f[i] = IF i > count THEN f[i - 1] ELSE FoldTail(f[i - 1], items)
      BY <1>2, <3>1
    <3>5. /\ j < 2 => FoldTail(f[i - 1], items) = f[i - 1]
          /\ j >= 2 => Left(start, FoldTail(f[i - 1], items), n, j - 1)
      <4> DEFINE q == f[i - 1]
      <4>1. Left(start, q, n, j)
        BY <3>3
      <4> HIDE DEF q
      <4>2. j < 2 => FoldTail(q, items) = q
        BY <4>1, FoldTailKeeps
      <4>3. j >= 2 => Left(start, FoldTail(q, items), n, j - 1)
        BY <4>1, FoldTailKeeps
      <4> QED
        BY <4>2, <4>3 DEF q
    <3>6. CASE f[i] = f[i - 1] /\ (i - 1 >= 1 \/ j < k)
      <4>1. Left(start, f[i], n, j)
        BY <3>3, <3>6
      <4>2. k >= 2 /\ ~ (1 > count) /\ i >= 1 => j < k
        BY <3>3, <3>6
      <4> QED
        BY <2>2, <4>1, <4>2
    <3>7. CASE j >= 2 /\ f[i] = FoldTail(f[i - 1], items)
      <4>1. j - 1 \in 0 .. k /\ j - 1 < k
        BY <1>1, <3>7
      <4>2. Left(start, f[i], n, j - 1)
        BY <3>5, <3>7
      <4> QED
        BY <2>2, <4>1, <4>2
    <3>8. CASE f[i] = f[i - 1] /\ ~ (i - 1 >= 1 \/ j < k)
               /\ ~ (j >= 2 /\ f[i] = FoldTail(f[i - 1], items))
      <4>1. i = 1 /\ j = k
        BY <1>1, <3>1, <3>8
      <4>2. k >= 2 => 1 > count
        BY <3>4, <3>8, <4>1
      <4>3. Left(start, f[i], n, k)
        BY <3>3, <3>8, <4>1
      <4> QED
        BY <1>1, <2>2, <4>2, <4>3
    <3>9. f[i] = f[i - 1] \/ (j >= 2 /\ f[i] = FoldTail(f[i - 1], items))
      BY <1>1, <3>4, <3>5
    <3> QED
      BY <3>6, <3>7, <3>8, <3>9
  <2> QED
    BY <2>3, <2>4
<1>4. ok(m)
  BY <1>1, <1>3
<1>5. k >= 2 => m >= 1
  BY <1>1
<1> QED
  BY <1>2, <1>4, <1>5

-----------------------------------------------------------------------------
(* Findings in rank order *)

\* The order of triples of numbers.
LEMMA TriplesCompare ==
    ASSUME NEW a \in Int \X Int \X Int, NEW b \in Int \X Int \X Int
    PROVE  LexLess(a, b) <=>
             \/ a[1] < b[1]
             \/ a[1] = b[1] /\ a[2] < b[2]
             \/ a[1] = b[1] /\ a[2] = b[2] /\ a[3] < b[3]
<1>1. DOMAIN a = {1, 2, 3}
  OBVIOUS
<1>2. LexLess(a, b) <=>
        \E i \in {1, 2, 3} : a[i] < b[i] /\ \A j \in 1 .. i - 1 : a[j] = b[j]
  BY <1>1 DEF LexLess
<1>3. 1 .. 1 - 1 = {} /\ 1 .. 2 - 1 = {1} /\ 1 .. 3 - 1 = {1, 2}
  OBVIOUS
<1> QED
  BY <1>2, <1>3

\* The findings in rank order are those that were found, each once, by rank and
\* then by identity.
LEMMA RankOrderIs ==
    ASSUME NEW findings \in Seq(Findings)
    PROVE  /\ InRankOrder(findings) \in Seq(Findings)
           /\ Len(InRankOrder(findings)) = Len(findings)
           /\ \E order \in Seq(DOMAIN findings) :
                 /\ Len(order) = Len(findings)
                 /\ Image(order) = DOMAIN findings
                 /\ \A i, j \in DOMAIN findings : order[i] = order[j] => i = j
                 /\ \A i \in DOMAIN findings :
                       InRankOrder(findings)[i] = findings[order[i]]
           /\ \A i \in 1 .. Len(findings) - 1 :
                 LET f == InRankOrder(findings)[i]
                     g == InRankOrder(findings)[i + 1]
                 IN  \/ f.rank < g.rank
                     \/ f.rank = g.rank /\ Rank(f.identity) <= Rank(g.identity)
<1> DEFINE D == DOMAIN findings
           place(i) == <<findings[i].rank, Rank(findings[i].identity), i>>
           before == {p \in D \X D : LexLess(place(p[1]), place(p[2]))}
           order == InOrder(D, before)
<1>1. D = 1 .. Len(findings) /\ Len(findings) \in Nat
  OBVIOUS
<1>4. ASSUME NEW i \in D
      PROVE  /\ findings[i].rank \in Nat /\ Rank(findings[i].identity) \in Nat
             /\ i \in Nat
  <2>1. findings[i] \in Findings /\ i \in Nat
    BY <1>1
  <2>2. findings[i].rank \in Nat /\ findings[i].identity \in Strings
    BY <2>1 DEF Findings
  <2> QED
    BY <2>1, <2>2, RankIsNumber
<1>2. \A i \in D : place(i) \in Int \X Int \X Int
  BY <1>4
<1>3. \A i, j \in D : <<i, j>> \in before <=>
         \/ findings[i].rank < findings[j].rank
         \/ findings[i].rank = findings[j].rank /\
              \/ Rank(findings[i].identity) < Rank(findings[j].identity)
              \/ /\ Rank(findings[i].identity) = Rank(findings[j].identity)
                 /\ i < j
  <2> TAKE i, j \in D
  <2>1. <<i, j>> \in before <=> LexLess(place(i), place(j))
    OBVIOUS
  <2>2. place(i) \in Int \X Int \X Int /\ place(j) \in Int \X Int \X Int
    BY <1>2
  <2>3. LexLess(place(i), place(j)) <=>
          \/ place(i)[1] < place(j)[1]
          \/ place(i)[1] = place(j)[1] /\ place(i)[2] < place(j)[2]
          \/ /\ place(i)[1] = place(j)[1] /\ place(i)[2] = place(j)[2]
             /\ place(i)[3] < place(j)[3]
    <3> HIDE DEF place
    <3> QED
      BY <2>2, TriplesCompare
  <2> QED
    BY <2>1, <2>3
<1> DEFINE a(i) == findings[i].rank
           b(i) == Rank(findings[i].identity)
<1> HIDE DEF before, D
<1>5. IsOrder(before, D)
  <2>1. \A i \in D : a(i) \in Nat /\ b(i) \in Nat /\ i \in Nat
    BY <1>4
  <2>2. \A i, j \in D : <<i, j>> \in before <=>
           \/ a(i) < a(j)
           \/ a(i) = a(j) /\ (b(i) < b(j) \/ (b(i) = b(j) /\ i < j))
    BY <1>3
  <2> HIDE DEF a, b
  <2>3. \A v \in D : <<v, v>> \notin before
    BY <2>1, <2>2
  <2>4. \A u, v, w \in D :
           <<u, v>> \in before /\ <<v, w>> \in before => <<u, w>> \in before
    <3> TAKE u, v, w \in D
    <3>1. /\ a(u) \in Nat /\ b(u) \in Nat /\ u \in Nat
          /\ a(v) \in Nat /\ b(v) \in Nat /\ v \in Nat
          /\ a(w) \in Nat /\ b(w) \in Nat /\ w \in Nat
      BY <2>1
    <3> QED
      BY <3>1, <2>2
  <2>5. \A v, w \in D : v # w => <<v, w>> \in before \/ <<w, v>> \in before
    BY <2>1, <2>2
  <2> QED
    BY <2>3, <2>4, <2>5 DEF IsOrder
<1>6. IsFiniteSet(D) /\ Cardinality(D) = Len(findings)
  <2> DEFINE m == Len(findings)
  <2>1. m \in Nat
    BY <1>1
  <2> HIDE DEF m
  <2>2. IsFiniteSet(1 .. m) /\ Cardinality(1 .. m) = m
    BY <2>1, FS_Interval
  <2> QED
    BY <1>1, <2>2 DEF m
<1>7. /\ order \in Seq(D) /\ Len(order) = Len(findings) /\ Image(order) = D
      /\ \A i \in 1 .. Len(findings) - 1 : <<order[i], order[i + 1]>> \in before
  BY <1>5, <1>6, ListIs
<1>7a. \A i, j \in D : order[i] = order[j] => i = j
  <2> HIDE DEF order
  <2>1. IsChain(order, before)
    BY <1>7 DEF IsChain
  <2>2. \A i, j \in 1 .. Len(order) : order[i] = order[j] => i = j
    BY <1>5, <1>7, <2>1, ChainIsCounted
  <2> QED
    BY <1>1, <1>7, <2>2
<1>8. InRankOrder(findings) = [n \in D |-> findings[order[n]]]
  BY DEF InRankOrder, before, D
<1> HIDE DEF order
<1>9. \A i \in D : order[i] \in D /\ findings[order[i]] \in Findings
  BY <1>1, <1>7
<1>10. InRankOrder(findings) \in Seq(Findings)
       /\ Len(InRankOrder(findings)) = Len(findings)
  <2>1. InRankOrder(findings) \in [1 .. Len(findings) -> Findings]
    BY <1>1, <1>8, <1>9
  <2> QED
    BY <1>1, <2>1
<1>11. ASSUME NEW i \in 1 .. Len(findings) - 1
       PROVE  LET f == InRankOrder(findings)[i]
                  g == InRankOrder(findings)[i + 1]
              IN  \/ f.rank < g.rank
                  \/ f.rank = g.rank /\ Rank(f.identity) <= Rank(g.identity)
  <2>1. i \in D /\ i + 1 \in D
    BY <1>1
  <2>2. order[i] \in D /\ order[i + 1] \in D
        /\ <<order[i], order[i + 1]>> \in before
    BY <1>7, <1>9, <2>1
  <2>3. /\ InRankOrder(findings)[i] = findings[order[i]]
        /\ InRankOrder(findings)[i + 1] = findings[order[i + 1]]
    BY <1>8, <2>1
  <2> DEFINE x == order[i]
             y == order[i + 1]
  <2> HIDE DEF x, y
  <2>4. x \in D /\ y \in D /\ <<x, y>> \in before
    BY <2>2 DEF x, y
  <2>5. \/ findings[x].rank < findings[y].rank
        \/ findings[x].rank = findings[y].rank
             /\ Rank(findings[x].identity) <= Rank(findings[y].identity)
    BY <1>3, <1>4, <2>4
  <2> QED
    BY <2>3, <2>5 DEF x, y
<1> QED
  BY <1>7, <1>7a, <1>8, <1>10, <1>11 DEF D

-----------------------------------------------------------------------------
(* Fitting an answer *)

\* A result as the engine gives it, in whose table no row is a joined one.
IsResult(start) ==
    /\ Shape(start)
    /\ start.findings \in Seq(Findings)
    /\ start.omitted \in Nat
    /\ start.truncated \in BOOLEAN
    /\ start.folded \in Nat
    /\ \E Rows : PlainRows(Rows) /\ start.table \in Seq(Rows)

\* What reranking leaves and changes.
LEMMA RerankedIs ==
    ASSUME NEW q, Shape(q)
    PROVE  /\ Shape(Reranked(q))
           /\ Reranked(q).findings
                = [i \in DOMAIN q.findings |->
                     [q.findings[i] EXCEPT !.rank = i]]
           /\ Reranked(q).truncated = (q.truncated \/ q.omitted > 0)
           /\ Reranked(q).omitted = q.omitted
           /\ Reranked(q).warnings = q.warnings
           /\ Reranked(q).table = q.table
           /\ Reranked(q).folded = q.folded
<1> DEFINE F == [i \in DOMAIN q.findings |-> [q.findings[i] EXCEPT !.rank = i]]
           T == q.truncated \/ q.omitted > 0
           f == [q EXCEPT !.findings = F, !.truncated = T]
<1>1. Reranked(q) = f
  BY DEF Reranked, Shape
<1>2. /\ Shape(f) /\ f.findings = F /\ f.truncated = T
      /\ f.omitted = q.omitted /\ f.warnings = q.warnings
      /\ f.table = q.table /\ f.folded = q.folded
  <2> HIDE DEF F, T
  <2> QED
    BY DEF Shape
<1> QED
  BY <1>1, <1>2

\* The first n findings, as they are reported.
LEMMA BestIs ==
    ASSUME NEW start, start.findings \in Seq(Findings),
           NEW n \in 0 .. Len(start.findings)
    PROVE  /\ n \in Nat
           /\ Best(start, n) \in Seq(Findings) /\ Len(Best(start, n)) = n
           /\ \A i \in 1 .. n :
                 [Best(start, n)[i] EXCEPT !.rank = i] = Best(start, n)[i]
           /\ \A i \in 1 .. n :
                 Best(start, n)[i].identity
                   = InRankOrder(start.findings)[i].identity
<1> DEFINE ranked == InRankOrder(start.findings)
           best == Best(start, n)
<1>1. /\ ranked \in Seq(Findings) /\ Len(ranked) = Len(start.findings)
      /\ n \in Nat /\ n <= Len(start.findings) /\ Len(start.findings) \in Nat
  BY RankOrderIs
<1> HIDE DEF ranked
<1>2. \A i \in 1 .. n : ranked[i] \in Findings /\ i \in Nat
  BY <1>1
<1>3. /\ DOMAIN best = 1 .. n
      /\ \A i \in 1 .. n : best[i] = [ranked[i] EXCEPT !.rank = i]
  BY DEF Best, ranked
<1>4. ASSUME NEW i \in 1 .. n
      PROVE  /\ best[i] \in Findings
             /\ best[i].identity = ranked[i].identity
             /\ [best[i] EXCEPT !.rank = i] = best[i]
  <2>1. best[i] = [ranked[i] EXCEPT !.rank = i]
    BY <1>3
  <2> DEFINE x == ranked[i]
             y == best[i]
  <2>2. y = [x EXCEPT !.rank = i] /\ x \in Findings /\ i \in Nat
    BY <1>2, <2>1
  <2> HIDE DEF x, y
  <2>3. y \in Findings /\ y.rank = i /\ y.identity = x.identity
    BY <2>2 DEF Findings
  <2>4. [y EXCEPT !.rank = i] = y
    BY <2>3 DEF Findings
  <2> QED
    BY <2>3, <2>4 DEF x, y
<1>5. best = [i \in 1 .. n |-> best[i]]
  BY DEF Best
<1> HIDE DEF best
<1>6. best \in [1 .. n -> Findings]
  BY <1>4, <1>5
<1>7. best \in Seq(Findings) /\ Len(best) = n
  BY <1>1, <1>6
<1> QED
  BY <1>1, <1>4, <1>7 DEF best, ranked

\* The best of fewer.
LEMMA FewerAreBest ==
    ASSUME NEW start, start.findings \in Seq(Findings),
           NEW n \in 0 .. Len(start.findings), NEW m \in 0 .. n
    PROVE  /\ SubSeq(Best(start, n), 1, m) = Best(start, m)
           /\ [i \in DOMAIN Best(start, m) |->
                 [Best(start, m)[i] EXCEPT !.rank = i]] = Best(start, m)
<1>1. m \in 0 .. Len(start.findings) /\ m \in Nat /\ n \in Nat
      /\ Len(start.findings) \in Nat
  OBVIOUS
<1> DEFINE b == Best(start, n)
           c == Best(start, m)
<1>2. /\ b \in Seq(Findings) /\ Len(b) = n
      /\ c \in Seq(Findings) /\ Len(c) = m
      /\ \A i \in 1 .. m : [c[i] EXCEPT !.rank = i] = c[i]
  BY <1>1, BestIs
<1>3. \A i \in 1 .. m : b[i] = c[i]
  BY <1>1 DEF Best
<1> HIDE DEF b, c
<1>4. /\ SubSeq(b, 1, m) \in Seq(Findings) /\ Len(SubSeq(b, 1, m)) = m
      /\ \A i \in 1 .. m : SubSeq(b, 1, m)[i] = b[i]
  BY <1>2, PrefixIs
<1>5. SubSeq(b, 1, m) = c
  BY <1>2, <1>3, <1>4, SeqEqual
<1>6. DOMAIN c = 1 .. m /\ c = [i \in 1 .. m |-> c[i]]
  BY <1>2
<1>7. [i \in DOMAIN c |-> [c[i] EXCEPT !.rank = i]] = c
  BY <1>2, <1>6
<1> QED
  BY <1>5, <1>7 DEF b, c

\* The last finding is dropped and counted; nothing else changes.
LEMMA DropLastIs ==
    ASSUME NEW start, start.findings \in Seq(Findings), start.omitted \in Nat,
           NEW r, NEW n, Shape(r), FindingsAre(start, r, n), n >= 1
    PROVE  /\ Shape(DropLast(r)) /\ FindingsAre(start, DropLast(r), n - 1)
           /\ DropLast(r).warnings = r.warnings
           /\ DropLast(r).table = r.table
           /\ DropLast(r).folded = r.folded
<1>2. /\ n \in 0 .. Len(start.findings) /\ Len(start.findings) \in Nat
      /\ n \in Nat
      /\ r.findings = Best(start, n) /\ r.findings \in Seq(Findings)
      /\ Len(r.findings) = n
  BY BestIs DEF FindingsAre
<1> DEFINE m == n - 1
           q == [r EXCEPT !.findings = Best(start, m), !.omitted = @ + 1]
           f == Reranked(q)
<1>3. m \in 0 .. n /\ m \in Nat /\ m + 1 = n
      /\ m \in 0 .. Len(start.findings) /\ m < n
  BY <1>2
<1>4. Shorter(r.findings, Len(r.findings) - 1) = Best(start, m)
  <2> HIDE DEF m
  <2>1. Len(r.findings) - 1 = m
    BY <1>2, <1>3
  <2>2. Shorter(r.findings, m) = SubSeq(r.findings, 1, m)
    BY <1>2, <1>3 DEF Shorter
  <2>3. SubSeq(Best(start, n), 1, m) = Best(start, m)
    BY <1>2, <1>3, FewerAreBest
  <2> QED
    BY <1>2, <2>1, <2>2, <2>3
<1>5. DropLast(r) = f
  <2> HIDE DEF m
  <2> QED
    BY <1>4 DEF DropLast
<1>6. /\ Shape(q) /\ q.findings = Best(start, m) /\ q.omitted = r.omitted + 1
      /\ q.truncated = r.truncated /\ q.warnings = r.warnings
      /\ q.table = r.table /\ q.folded = r.folded
  BY DEF Shape
<1> HIDE DEF m, q
<1>7. /\ Shape(f) /\ f.findings = Best(start, m) /\ f.omitted = r.omitted + 1
      /\ f.truncated = (r.truncated \/ f.omitted > 0)
      /\ f.warnings = r.warnings /\ f.table = r.table /\ f.folded = r.folded
  <2>1. /\ Shape(f) /\ f.omitted = q.omitted
        /\ f.truncated = (q.truncated \/ q.omitted > 0)
        /\ f.warnings = q.warnings
        /\ f.table = q.table /\ f.folded = q.folded
        /\ f.findings = [i \in DOMAIN q.findings |->
                           [q.findings[i] EXCEPT !.rank = i]]
    BY <1>6, RerankedIs
  <2>2. [i \in DOMAIN Best(start, m) |->
           [Best(start, m)[i] EXCEPT !.rank = i]] = Best(start, m)
    BY <1>2, <1>3, FewerAreBest
  <2> HIDE DEF f
  <2>3. f.findings = Best(start, m)
    BY <1>6, <2>1, <2>2
  <2> QED
    BY <1>6, <2>1, <2>3
<1> HIDE DEF f
<1>8. /\ r.omitted = start.omitted + Len(start.findings) - n
      /\ r.truncated = (start.truncated \/ r.omitted > 0)
  BY DEF FindingsAre
<1>9. FindingsAre(start, f, m)
  <2> DEFINE a == start.omitted
             b == Len(start.findings)
             c == r.omitted
  <2>1. a \in Nat /\ b \in Nat /\ m \in 0 .. b /\ n = m + 1 /\ n \in 0 .. b
        /\ c = a + b - n
    BY <1>2, <1>3, <1>8
  <2> HIDE DEF a, b, c
  <2>2. c + 1 = a + b - m /\ c + 1 > 0
    BY <2>1
  <2>3. f.omitted = start.omitted + Len(start.findings) - m
    BY <1>7, <2>2 DEF a, b, c
  <2>4. f.omitted > 0
    BY <1>7, <2>2 DEF c
  <2>5. f.truncated = (start.truncated \/ f.omitted > 0)
    BY <1>7, <2>4
  <2> QED
    BY <1>3, <1>7, <2>3, <2>5 DEF FindingsAre
<1> QED
  BY <1>5, <1>7, <1>9 DEF m

\* And the rows that are left stay.
LEMMA DropLastKeeps ==
    ASSUME NEW start, IsResult(start),
           NEW r, NEW n, NEW k, Left(start, r, n, k)
    PROVE  /\ n \in Nat /\ Len(r.findings) = n
           /\ r.findings = <<>> <=> n = 0
           /\ n >= 1 => Left(start, DropLast(r), n - 1, k)
<1>1. /\ Shape(r) /\ FindingsAre(start, r, n) /\ TableIs(start, r, k)
      /\ start.findings \in Seq(Findings) /\ start.omitted \in Nat
  BY DEF Left, IsResult
<1>2. /\ n \in Nat /\ r.findings \in Seq(Findings) /\ Len(r.findings) = n
  BY <1>1, BestIs DEF FindingsAre
<1>3. r.findings = <<>> <=> n = 0
  BY <1>2
<1>4. ASSUME n >= 1
      PROVE  Left(start, DropLast(r), n - 1, k)
  <2> DEFINE f == DropLast(r)
             m == n - 1
  <2>1. /\ Shape(f) /\ FindingsAre(start, f, m)
        /\ f.table = r.table /\ f.folded = r.folded
    BY <1>1, <1>4, DropLastIs
  <2> HIDE DEF f, m
  <2>2. TableIs(start, f, k)
    BY <1>1, <2>1 DEF TableIs, JoinedAfter
  <2>3. Left(start, f, m, k)
    BY <2>1, <2>2 DEF Left
  <2> QED
    BY <2>3 DEF f, m
<1> QED
  BY <1>2, <1>3, <1>4

\* Normalizing leaves the best findings, up to the maximum, and every row.
LEMMA NormalizedIs ==
    ASSUME NEW start, IsResult(start), NEW maximum \in Nat
    PROVE  \E n \in 0 .. Len(start.findings) :
              /\ n <= maximum
              /\ Left(start, Normalized(start, maximum), n, Len(start.table))
              /\ Normalized(start, maximum).warnings
                   = InByteOrder(Image(start.warnings))
<1> DEFINE N == Len(start.findings)
           n == IF maximum < N THEN maximum ELSE N
           cut == Shorter(InRankOrder(start.findings), maximum)
           more == start.omitted + Bigger(0, N - maximum)
           codes == InByteOrder(Image(start.warnings))
           q == [start EXCEPT !.findings = cut, !.omitted = more,
                              !.warnings = codes]
           f == Reranked(q)
<1>1. /\ Shape(start) /\ start.findings \in Seq(Findings)
      /\ start.omitted \in Nat
      /\ start.truncated \in BOOLEAN /\ start.folded \in Nat
  BY DEF IsResult
<1>2. N \in Nat /\ n \in 0 .. N /\ n \in Nat /\ n <= maximum
  BY <1>1
<1>3. /\ InRankOrder(start.findings) \in Seq(Findings)
      /\ Len(InRankOrder(start.findings)) = N
  BY <1>1, RankOrderIs
<1>4. /\ cut \in Seq(Findings) /\ Len(cut) = n
      /\ \A i \in 1 .. n : cut[i] = InRankOrder(start.findings)[i]
  <2>1. cut = SubSeq(InRankOrder(start.findings), 1, n)
    BY <1>3 DEF Shorter
  <2> HIDE DEF n, N, cut
  <2> QED
    BY <1>2, <1>3, <2>1, PrefixIs
<1>5. more = start.omitted + N - n
  <2> DEFINE o == start.omitted
  <2>1. o \in Nat /\ N \in Nat
    BY <1>1, <1>2
  <2> HIDE DEF o, N
  <2>2. o + Bigger(0, N - maximum) = o + N - n
    <3>1. CASE maximum < N
      <4>1. 0 > N - maximum <=> FALSE
        BY <2>1, <3>1
      <4>2. n = maximum /\ Bigger(0, N - maximum) = N - maximum
        BY <3>1, <4>1 DEF Bigger
      <4>3. o + (N - maximum) = o + N - maximum
        BY <2>1
      <4> HIDE DEF n
      <4> QED
        BY <4>2, <4>3
    <3>2. CASE ~ (maximum < N)
      <4>1. Bigger(0, N - maximum) = 0
        BY <2>1, <3>2 DEF Bigger
      <4>2. n = N /\ o + 0 = o + N - N
        BY <2>1, <3>2
      <4> HIDE DEF n
      <4> QED
        BY <4>1, <4>2
    <3> QED
      BY <3>1, <3>2
  <2> QED
    BY <2>2 DEF o
<1>6. Normalized(start, maximum) = f
  BY DEF Normalized
<1> HIDE DEF n, N, cut, more, codes
<1>7. /\ Shape(q) /\ q.findings = cut /\ q.omitted = more
      /\ q.truncated = start.truncated /\ q.warnings = codes
      /\ q.table = start.table /\ q.folded = start.folded
  BY <1>1 DEF Shape
<1> HIDE DEF q
<1>8. /\ Shape(f) /\ f.omitted = more
      /\ f.truncated = (start.truncated \/ more > 0) /\ f.warnings = codes
      /\ f.table = start.table /\ f.folded = start.folded
      /\ f.findings = [i \in DOMAIN cut |-> [cut[i] EXCEPT !.rank = i]]
  BY <1>7, RerankedIs
<1> HIDE DEF f
<1>9. f.findings = Best(start, n)
  <2>1. DOMAIN cut = 1 .. n
    BY <1>2, <1>4
  <2> QED
    BY <1>4, <1>8, <2>1 DEF Best
<1>10. FindingsAre(start, f, n)
  BY <1>2, <1>5, <1>8, <1>9 DEF FindingsAre, N
<1>11. TableIs(start, f, Len(start.table))
  <2>1. Len(start.table) \in Nat
    BY DEF IsResult
  <2>2. start.folded + Len(start.table) - Len(start.table) = start.folded
    BY <1>1, <2>1
  <2> QED
    BY <1>8, <2>1, <2>2 DEF TableIs
<1> QED
  BY <1>2, <1>6, <1>8, <1>10, <1>11 DEF Left, N, codes

\* And so does what is measured first, with fewer rows if there are too many.
LEMMA PreparedIs ==
    ASSUME NEW start, IsResult(start), NEW limits, limits.maximum \in Nat
    PROVE  \E n \in 0 .. Len(start.findings), k \in 0 .. Len(start.table) :
              Left(start, Prepared(start, limits), n, k)
<1> DEFINE first == Normalized(start, limits.maximum)
           count == IF Len(start.table) - limits.rows > 0
                    THEN Len(start.table) - limits.rows + 1 ELSE 0
<1>1. PICK n \in 0 .. Len(start.findings) :
         Left(start, first, n, Len(start.table))
  BY NormalizedIs
<1>2. Prepared(start, limits) = FoldRows(first, count, limits.items)
  BY DEF Prepared
<1>3. PICK Rows : PlainRows(Rows) /\ start.table \in Seq(Rows)
  BY DEF IsResult
<1>4. start.folded \in Nat
  BY DEF IsResult
<1> HIDE DEF first, count
<1>5. PICK k \in 0 .. Len(start.table) :
         Left(start, FoldRows(first, count, limits.items), n, k)
  BY <1>1, <1>3, <1>4, FoldRowsKeeps
<1> QED
  BY <1>2, <1>5

\* Nothing is left to do: the result fits, or is invalid, or has no finding to
\* drop and no row to fold.
Stuck(r, limits) ==
    \/ Fits(r, limits)
    \/ ~ ValidResult(r, limits)
    \/ r.findings = <<>> /\ ~ (Bytes(r) > limits.bytes /\ CanFold(r.table))

\* A turn of the loop leaves fewer findings or rows, if there is something left
\* to do.
LEMMA FitStepKeeps ==
    ASSUME NEW start, IsResult(start), NEW limits,
           NEW r, NEW n, NEW k, Left(start, r, n, k)
    PROVE  /\ n \in Nat /\ k \in Nat
           /\ Stuck(r, limits) => FitStep(r, limits) = r
           /\ n + k <= 0 => Stuck(r, limits)
           /\ ~ Stuck(r, limits) =>
                 \E m \in 0 .. n, j \in 0 .. k :
                    m + j < n + k /\ Left(start, FitStep(r, limits), m, j)
<1>1. PICK Rows : PlainRows(Rows) /\ start.table \in Seq(Rows)
  BY DEF IsResult
<1>2. start.folded \in Nat
  BY DEF IsResult
<1>3. k \in Nat /\ (CanFold(r.table) <=> k >= 2)
  BY <1>1, <1>2, FoldTailKeeps
<1>4. n \in Nat /\ (r.findings = <<>> <=> n = 0)
  BY DropLastKeeps
<1>5. Stuck(r, limits) => FitStep(r, limits) = r
  BY DEF Stuck, FitStep, Shrink
<1>6. n + k <= 0 => Stuck(r, limits)
  <2>1. n + k <= 0 => n = 0 /\ ~ (k >= 2)
    BY <1>3, <1>4
  <2> QED
    BY <1>3, <1>4, <2>1 DEF Stuck
<1>7. ASSUME ~ Stuck(r, limits)
      PROVE  \E m \in 0 .. n, j \in 0 .. k :
                m + j < n + k /\ Left(start, FitStep(r, limits), m, j)
  <2>1. FitStep(r, limits) = Shrink(r, Bytes(r), limits)
    BY <1>7 DEF Stuck, FitStep
  <2>2. CASE Bytes(r) > limits.bytes /\ CanFold(r.table)
    <3> DEFINE count == FoldEstimate(r, Bytes(r), Bytes(r) - limits.bytes)
    <3>1. FitStep(r, limits) = FoldRows(r, count, limits.items)
      BY <2>1, <2>2 DEF Shrink, FoldToFit
    <3>2. ~ (1 > count)
      <4>1. \A x : Bigger(1, x) = x \/ (Bigger(1, x) = 1 /\ 1 > x)
        BY DEF Bigger
      <4>2. \A x : ~ (1 > Bigger(1, x))
        BY DEF Bigger
      <4> QED
        BY <4>2 DEF FoldEstimate
    <3> HIDE DEF count
    <3>3. PICK j \in 0 .. k :
             /\ Left(start, FoldRows(r, count, limits.items), n, j)
             /\ k >= 2 /\ ~ (1 > count) => j < k
      BY <1>1, <1>2, FoldRowsKeeps
    <3>4. j < k
      BY <1>3, <2>2, <3>2, <3>3
    <3>5. n \in 0 .. n /\ n + j < n + k
      BY <1>3, <1>4, <3>4
    <3> QED
      BY <3>1, <3>3, <3>5
  <2>3. CASE ~ (Bytes(r) > limits.bytes /\ CanFold(r.table))
    <3>1. r.findings # <<>>
      BY <1>7, <2>3 DEF Stuck
    <3>2. FitStep(r, limits) = DropLast(r)
      BY <2>1, <2>3, <3>1 DEF Shrink
    <3>3. n >= 1
      BY <1>4, <3>1
    <3>4. Left(start, DropLast(r), n - 1, k)
      BY <3>3, DropLastKeeps
    <3>5. n - 1 \in 0 .. n /\ k \in 0 .. k /\ (n - 1) + k < n + k
      BY <1>3, <1>4, <3>3
    <3> QED
      BY <3>2, <3>4, <3>5
  <2> QED
    BY <2>2, <2>3
<1> QED
  BY <1>3, <1>4, <1>5, <1>6, <1>7

\* The loop has as many turns as it can need.
LEMMA FitEnds ==
    ASSUME NEW start, IsResult(start), NEW limits, limits.maximum \in Nat
    PROVE  \E last, n, k : /\ Fit(start, limits) = Answer(last, limits)
                           /\ Left(start, last, n, k)
                           /\ Stuck(last, limits)
<1> DEFINE N == Len(start.findings) + Len(start.table)
<1>0. Len(start.findings) \in Nat /\ Len(start.table) \in Nat /\ N \in Nat
  <2>1. PICK Rows : /\ start.table \in Seq(Rows)
                    /\ start.findings \in Seq(Findings)
    BY DEF IsResult
  <2> DEFINE a == Len(start.findings)
             b == Len(start.table)
  <2>2. a \in Nat /\ b \in Nat
    BY <2>1
  <2> HIDE DEF a, b
  <2>3. a + b \in Nat
    BY <2>2
  <2> QED
    BY <2>2, <2>3 DEF a, b
<1>1. PICK f : /\ f[0] = Prepared(start, limits)
               /\ \A i \in 1 .. N : f[i] = FitStep(f[i - 1], limits)
               /\ Fit(start, limits) = Answer(f[N], limits)
  BY <1>0, FitIs
<1>2. PICK n0 \in 0 .. Len(start.findings), k0 \in 0 .. Len(start.table) :
         Left(start, f[0], n0, k0)
  BY <1>1, PreparedIs
<1>3. n0 \in Nat /\ k0 \in Nat /\ n0 + k0 <= N
  <2> DEFINE a == Len(start.findings)
             b == Len(start.table)
  <2>1. a \in Nat /\ b \in Nat /\ n0 \in 0 .. a /\ k0 \in 0 .. b /\ N = a + b
    BY <1>0
  <2> HIDE DEF a, b, N
  <2> QED
    BY <2>1
<1> HIDE DEF N
<1> DEFINE ok(i) == \E n, k \in Nat :
              /\ Left(start, f[i], n, k)
              /\ Stuck(f[i], limits) \/ n + k + i <= N
           bad == {i \in Nat : i <= N /\ ~ ok(i)}
<1>4. bad = {}
  <2> SUFFICES ASSUME bad # {} PROVE FALSE
    OBVIOUS
  <2>0. bad \in SUBSET Nat
    OBVIOUS
  <2>1. PICK i \in bad : \A j \in bad : i <= j
    <3> HIDE DEF bad
    <3> QED
      BY <2>0, SmallestNumber
  <2>2. i \in Nat /\ i <= N /\ ~ ok(i)
    OBVIOUS
  <2>3. CASE i = 0
    BY <1>0, <1>2, <1>3, <2>2, <2>3
  <2>4. CASE i # 0
    <3>1. i \in 1 .. N /\ i - 1 \in Nat /\ i - 1 <= N /\ i - 1 < i
      BY <1>0, <2>2, <2>4
    <3>2. ok(i - 1)
      BY <2>1, <3>1
    <3> HIDE DEF bad
    <3>3. PICK n, k \in Nat :
             /\ Left(start, f[i - 1], n, k)
             /\ Stuck(f[i - 1], limits) \/ n + k + (i - 1) <= N
      BY <3>2
    <3>4. f[i] = FitStep(f[i - 1], limits)
      BY <1>1, <3>1
    <3>5. CASE Stuck(f[i - 1], limits)
      <4>1. f[i] = f[i - 1]
        BY <3>3, <3>4, <3>5, FitStepKeeps
      <4> QED
        BY <2>2, <3>3, <3>5, <4>1
    <3>6. CASE ~ Stuck(f[i - 1], limits)
      <4>1. PICK m \in 0 .. n, j \in 0 .. k :
               m + j < n + k /\ Left(start, f[i], m, j)
        BY <3>3, <3>4, <3>6, FitStepKeeps
      <4>2. m \in Nat /\ j \in Nat /\ m + j + i <= N
        BY <1>0, <2>2, <3>3, <3>6, <4>1
      <4> QED
        BY <2>2, <4>1, <4>2
    <3> QED
      BY <3>5, <3>6
  <2> QED
    BY <2>3, <2>4
<1>5. ok(N)
  BY <1>0, <1>4
<1>6. PICK n, k \in Nat :
         Left(start, f[N], n, k) /\ (Stuck(f[N], limits) \/ n + k + N <= N)
  BY <1>5
<1>7. n + k + N <= N => n + k <= 0
  BY <1>0
<1>8. Stuck(f[N], limits)
  BY <1>6, <1>7, FitStepKeeps
<1> QED
  BY <1>1, <1>6, <1>8

\* The rows that are left are the first, and the counts are those there were.
LEMMA TableAddsUp ==
    ASSUME NEW start, IsResult(start), NEW r, NEW n, NEW k,
           Left(start, r, n, k)
    PROVE  TableStillAddsUp(start, r)
<1>1. PICK Rows : PlainRows(Rows) /\ start.table \in Seq(Rows)
  BY DEF IsResult
<1>2. TableIs(start, r, k) /\ start.folded \in Nat
  BY DEF Left, IsResult
<1> DEFINE kept == DirectoryRows(r.table)
<1>3. /\ kept = SubSeq(start.table, 1, k) /\ Len(kept) = k /\ k \in Nat
      /\ Len(r.table) \in Nat
      /\ k < Len(r.table) \/ (k = Len(r.table) /\ r.table = start.table)
      /\ k < Len(r.table) => Len(r.table) = k + 1 /\ Folded(r.table[k + 1])
      /\ \A field \in Counts :
            CountOf(r.table, field) = CountOf(start.table, field)
  BY <1>1, <1>2, RowsLeft
<1> HIDE DEF kept
<1>4. Sums(r.table) = Sums(start.table)
  BY <1>3 DEF Sums
<1>5. /\ k <= Len(start.table) /\ Len(start.table) \in Nat
      /\ r.folded = start.folded + Len(start.table) - k
  BY <1>2 DEF TableIs
<1>6. kept = Shorter(start.table, Len(kept))
  BY <1>3, <1>5 DEF Shorter
<1>7. Len(r.table) <= Len(kept) + 1
  BY <1>3
<1>8. r.folded - start.folded = Len(start.table) - Len(kept)
  <2> DEFINE a == start.folded
             b == Len(start.table)
  <2>1. a \in Nat /\ b \in Nat /\ k \in Nat /\ r.folded = a + b - k
    BY <1>2, <1>3, <1>5
  <2> HIDE DEF a, b
  <2>2. (a + b - k) - a = b - k
    BY <2>1
  <2> QED
    BY <1>3, <2>1, <2>2 DEF a, b
<1>9. kept = r.table \/ Folded(r.table[Len(r.table)])
  <2>1. CASE k < Len(r.table)
    BY <1>3, <2>1
  <2>2. CASE k = Len(r.table) /\ r.table = start.table
    BY <1>1, <1>3, <2>2, SubSeqFull
  <2> QED
    BY <1>3, <2>1, <2>2
<1> QED
  BY <1>4, <1>6, <1>7, <1>8, <1>9 DEF TableStillAddsUp, kept

\* The findings that are left are the best, and the others are counted.
LEMMA FindingsAddUp ==
    ASSUME NEW start, IsResult(start), NEW r, NEW n, NEW k,
           Left(start, r, n, k)
    PROVE  FindingsStillAddUp(start, r)
<1>1. /\ FindingsAre(start, r, n) /\ start.findings \in Seq(Findings)
      /\ start.omitted \in Nat /\ start.truncated \in BOOLEAN
  BY DEF Left, IsResult
<1> DEFINE order == InRankOrder(start.findings)
           ranked == Identities(order)
           names == Identities(r.findings)
<1>2. /\ n \in 0 .. Len(start.findings) /\ Len(start.findings) \in Nat
      /\ n \in Nat /\ n <= Len(start.findings)
      /\ r.findings = Best(start, n) /\ r.findings \in Seq(Findings)
      /\ Len(r.findings) = n
      /\ \A i \in 1 .. n : r.findings[i].identity = order[i].identity
  <2>1. n \in 0 .. Len(start.findings) /\ r.findings = Best(start, n)
    BY <1>1 DEF FindingsAre
  <2>2. /\ n \in Nat
        /\ Best(start, n) \in Seq(Findings) /\ Len(Best(start, n)) = n
        /\ \A i \in 1 .. n : Best(start, n)[i].identity
                               = InRankOrder(start.findings)[i].identity
    <3>1. \A i \in 1 .. n : Best(start, n)[i].identity
                               = InRankOrder(start.findings)[i].identity
      BY <1>1, <2>1, BestIs
    <3> QED
      BY <1>1, <2>1, <3>1, BestIs
  <2>3. Len(start.findings) \in Nat
    BY <1>1
  <2> HIDE DEF order
  <2>4. order = InRankOrder(start.findings)
    BY DEF order
  <2> QED
    BY <2>1, <2>2, <2>3, <2>4
<1>3. order \in Seq(Findings) /\ Len(order) = Len(start.findings)
  BY <1>1, RankOrderIs
<1> HIDE DEF order
<1>4. /\ ranked \in Seq(Strings) /\ Len(ranked) = Len(start.findings)
      /\ \A i \in 1 .. Len(start.findings) : ranked[i] = order[i].identity
  <2>1. /\ DOMAIN order = 1 .. Len(start.findings)
        /\ \A i \in 1 .. Len(start.findings) : order[i] \in Findings
    BY <1>3
  <2>2. ranked \in [1 .. Len(start.findings) -> Strings]
    BY <2>1 DEF Identities, Findings
  <2>3. \A i \in 1 .. Len(start.findings) : ranked[i] = order[i].identity
    BY <2>1 DEF Identities
  <2> QED
    BY <1>2, <2>2, <2>3
<1>5. /\ names \in Seq(Strings) /\ Len(names) = n
      /\ \A i \in 1 .. n : names[i] = r.findings[i].identity
  <2>1. /\ DOMAIN r.findings = 1 .. n
        /\ \A i \in 1 .. n : r.findings[i] \in Findings
    BY <1>2
  <2>2. names \in [1 .. n -> Strings]
    BY <2>1 DEF Identities, Findings
  <2>3. \A i \in 1 .. n : names[i] = r.findings[i].identity
    BY <2>1 DEF Identities
  <2> QED
    BY <1>2, <2>2, <2>3
<1> HIDE DEF ranked, names
<1>6. names = SubSeq(ranked, 1, n)
  <2>1. /\ SubSeq(ranked, 1, n) \in Seq(Strings)
        /\ Len(SubSeq(ranked, 1, n)) = n
        /\ \A i \in 1 .. n : SubSeq(ranked, 1, n)[i] = ranked[i]
    BY <1>2, <1>4, PrefixIs
  <2>2. \A i \in 1 .. n : names[i] = ranked[i]
    BY <1>2, <1>4, <1>5
  <2> QED
    BY <1>5, <2>1, <2>2, SeqEqual
<1>7. SubSeq(ranked, 1, n) = Shorter(ranked, n)
  BY <1>2, <1>4 DEF Shorter
<1>8. Len(r.findings) + r.omitted = Len(ranked) + start.omitted
  <2> DEFINE a == start.omitted
             b == Len(start.findings)
  <2>1. a \in Nat /\ b \in Nat /\ n \in Nat /\ r.omitted = a + b - n
    BY <1>1, <1>2 DEF FindingsAre
  <2> HIDE DEF a, b
  <2>2. n + (a + b - n) = b + a
    BY <2>1
  <2> QED
    BY <1>2, <1>4, <2>1, <2>2 DEF a, b
<1>9. r.truncated <=> start.truncated \/ r.omitted > 0
  BY <1>1 DEF FindingsAre
<1> QED
  BY <1>2, <1>6, <1>7, <1>8, <1>9 DEF FindingsStillAddUp, ranked, names, order

\* What comes of any answer adds up: no count of the table is lost, each row
\* that was folded and each finding that was dropped is counted, those that are
\* left are the first, and an answer is refused only when no finding is left and
\* no row can be folded to save bytes (render.go, Fit).
THEOREM AnswersAddUp ==
    ASSUME NEW Rows, PlainRows(Rows),
           NEW start \in [findings : Seq(Findings), omitted : Nat,
                          truncated : BOOLEAN, warnings : Seq(Image(Warnings)),
                          table : Seq(Rows), folded : Nat],
           NEW limits, limits.maximum \in Nat
    PROVE  AnswerAddsUp(start, Fit(start, limits), limits)
<1>1. IsResult(start)
  BY DEF IsResult, Shape
<1>2. PICK last, n, k : /\ Fit(start, limits) = Answer(last, limits)
                        /\ Left(start, last, n, k)
                        /\ Stuck(last, limits)
  BY <1>1, FitEnds
<1>3. TableStillAddsUp(start, last) /\ FindingsStillAddUp(start, last)
  BY <1>1, <1>2, TableAddsUp, FindingsAddUp
<1>4. /\ Answer(last, limits).result = last
      /\ Answer(last, limits).error = "" => Fits(last, limits)
      /\ Answer(last, limits).error = "unrenderable" =>
            ValidResult(last, limits) /\ ~ Fits(last, limits)
  BY DEF Answer
<1>5. Answer(last, limits).error = "unrenderable" =>
        /\ last.findings = <<>>
        /\ ~ (Bytes(last) > limits.bytes /\ CanFold(last.table))
  BY <1>2, <1>4 DEF Stuck
<1> QED
  BY <1>2, <1>3, <1>4, <1>5 DEF AnswerAddsUp

-----------------------------------------------------------------------------
(* Sizes *)

\* The powers are finitely many numbers.
LEMMA PowersAreNumbers ==
    /\ \A p \in PowersOfTen : p \in Nat
    /\ IsFiniteSet(PowersOfTen)
<1> DEFINE k == 1000000000
<1>1. k \in Nat
  BY SMT
<1>2. \A p \in PowersOfTen : p \in Nat /\ 1 <= p /\ p <= k
  BY SMT DEF PowersOfTen
<1> HIDE DEF k
<1>3. PowersOfTen \in SUBSET (1 .. k)
  BY <1>2
<1>4. IsFiniteSet(1 .. k)
  BY <1>1, NumbersUpTo
<1> QED
  BY <1>2, <1>3, <1>4, FS_Subset

\* A greater number has no fewer digits.
LEMMA MoreDigits ==
    ASSUME NEW m \in Nat, NEW n \in Nat, m <= n
    PROVE  /\ Digits(m) \in Nat /\ Digits(n) \in Nat
           /\ Digits(m) >= 1 /\ Digits(m) <= Digits(n)
<1> DEFINE P(k) == {p \in PowersOfTen : p <= k}
<1>1. P(m) \in SUBSET P(n) /\ P(n) \in SUBSET PowersOfTen
  BY PowersAreNumbers
<1>2. IsFiniteSet(P(n))
  BY <1>1, PowersAreNumbers, FS_Subset
<1>3. Digits(m) = 1 + Cardinality(P(m)) /\ Digits(n) = 1 + Cardinality(P(n))
  BY DEF Digits
<1> HIDE DEF P
<1>4. /\ Cardinality(P(m)) \in Nat /\ Cardinality(P(n)) \in Nat
      /\ Cardinality(P(m)) <= Cardinality(P(n))
  BY <1>1, <1>2, CountGrows
<1> QED
  BY <1>3, <1>4

\* A language in a row, and its size.
LanguageSizes(list) == [i \in DOMAIN list |-> 1 + Digits(list[i][2])]
LanguageSize(list)  == SumOn(LanguageSizes(list), DOMAIN list)

\* A row that may be sent.
Solid(row, items) ==
    /\ Len(row.prefix) \in Nat /\ row.depth \in Nat
    /\ \A field \in Counts : row[field] \in Nat
    /\ row.languages \in Seq(Strings \X Nat)
    /\ ValidRow(row, items)

\* What the counts of a row take.
CountSize(row) ==
    Digits(row.files) + Digits(row.definitions) + Digits(row.entryPoints)
        + Digits(row.documents) + Digits(row.configurations)

\* The size of a list of languages is a number.
LEMMA LanguageSizeIsNat ==
    ASSUME NEW list \in Seq(Strings \X Nat)
    PROVE  /\ LanguageSize(list) \in Nat
           /\ Weights(LanguageSizes(list), DOMAIN list)
<1>1. /\ IsFiniteSet(DOMAIN list)
      /\ \A i \in DOMAIN list : list[i] \in Strings \X Nat
  BY PlacesOf
<1>2. \A i \in DOMAIN list : LanguageSizes(list)[i] \in Nat
  <2> TAKE i \in DOMAIN list
  <2> DEFINE c == list[i][2]
  <2>1. c \in Nat /\ c <= c
    BY <1>1
  <2> HIDE DEF c
  <2>2. Digits(c) \in Nat
    BY <2>1, MoreDigits
  <2> QED
    BY <2>2 DEF LanguageSizes, c
<1> QED
  BY <1>1, <1>2, SumIsNat DEF LanguageSize, Weights

\* The size of a row.
LEMMA RowSizeIs ==
    ASSUME NEW row, NEW items, Solid(row, items)
    PROVE  /\ RowBytes(row) \in Nat /\ RowBytes(row) >= 1
           /\ CountSize(row) \in Nat /\ LanguageSize(row.languages) \in Nat
           /\ Digits(row.depth) \in Nat
           /\ RowBytes(row) = Len(row.prefix) + Digits(row.depth)
                + CountSize(row) + LanguageSize(row.languages)
                + IF row.representative = "" THEN 1 ELSE 2
<1> DEFINE a == Digits(row.depth)
           p == Len(row.prefix)
           f == Digits(row.files)
           d == Digits(row.definitions)
           e == Digits(row.entryPoints)
           o == Digits(row.documents)
           c == Digits(row.configurations)
           l == LanguageSize(row.languages)
           r == IF row.representative = "" THEN 1 ELSE 2
<1>1. p \in Nat /\ l \in Nat /\ r \in Nat /\ r >= 1
  BY LanguageSizeIsNat DEF Solid
<1>2. /\ row.depth \in Nat /\ row.files \in Nat /\ row.definitions \in Nat
      /\ row.entryPoints \in Nat /\ row.documents \in Nat
      /\ row.configurations \in Nat
  BY DEF Solid, Counts
<1>3. /\ a \in Nat /\ f \in Nat /\ d \in Nat /\ e \in Nat /\ o \in Nat
      /\ c \in Nat
  BY <1>2, MoreDigits
<1>4. RowBytes(row) = p + a + f + d + e + o + c + l + r
  BY DEF RowBytes, Total, LanguageSize, LanguageSizes, SumOn
<1>5. CountSize(row) = f + d + e + o + c
  BY DEF CountSize
<1> HIDE DEF a, p, f, d, e, o, c, l, r
<1>6. /\ RowBytes(row) \in Nat /\ RowBytes(row) >= 1 /\ CountSize(row) \in Nat
      /\ RowBytes(row) = p + a + CountSize(row) + l + r
  BY <1>1, <1>3, <1>4, <1>5
<1> QED
  BY <1>1, <1>3, <1>6 DEF a, p, l, r

-----------------------------------------------------------------------------
(* Languages *)

\* The order of the languages of a row.
LanguagePairs(S) == {p \in S \X S : LanguageLess(p[1], p[2])}

\* A set of languages as a list.
LEMMA LanguageList ==
    ASSUME NEW S \in SUBSET (Strings \X Nat), IsFiniteSet(S)
    PROVE  /\ IsOrder(LanguagePairs(S), S)
           /\ IsList(Sorted(S, LanguageLess), S, LanguagePairs(S))
           /\ \A s \in Seq(S) :
                 IsChain(s, LanguagePairs(S)) <=> Increasing(s, LanguageLess)
<1>1. \A x \in S : x[1] \in Strings /\ x[2] \in Nat /\ Rank(x[1]) \in Nat
  BY RankIsNumber
<1>2. \A x, y \in S : x[1] = y[1] /\ x[2] = y[2] => x = y
  OBVIOUS
<1>3. \A x, y \in S : <<x, y>> \in LanguagePairs(S) <=>
          \/ x[2] > y[2]
          \/ x[2] = y[2] /\ Rank(x[1]) < Rank(y[1])
  BY DEF LanguagePairs, LanguageLess, TextLess
<1>4. IsOrder(LanguagePairs(S), S)
  <2>1. \A x \in S : <<x, x>> \notin LanguagePairs(S)
    BY <1>1, <1>3
  <2>2. ASSUME NEW u \in S, NEW v \in S, NEW w \in S,
               <<u, v>> \in LanguagePairs(S), <<v, w>> \in LanguagePairs(S)
        PROVE  <<u, w>> \in LanguagePairs(S)
    <3> DEFINE a == u[2]
               b == v[2]
               c == w[2]
               l == Rank(u[1])
               m == Rank(v[1])
               n == Rank(w[1])
    <3>1. /\ a \in Nat /\ b \in Nat /\ c \in Nat
          /\ l \in Nat /\ m \in Nat /\ n \in Nat
      BY <1>1
    <3>2. /\ a > b \/ (a = b /\ l < m)
          /\ b > c \/ (b = c /\ m < n)
      BY <1>3, <2>2
    <3>3. (a > c \/ (a = c /\ l < n)) => <<u, w>> \in LanguagePairs(S)
      BY <1>3
    <3> HIDE DEF a, b, c, l, m, n
    <3> QED
      BY <3>1, <3>2, <3>3
  <2>3. ASSUME NEW v \in S, NEW w \in S, v # w
        PROVE  <<v, w>> \in LanguagePairs(S) \/ <<w, v>> \in LanguagePairs(S)
    <3> DEFINE a == v[2]
               b == w[2]
               l == Rank(v[1])
               m == Rank(w[1])
    <3>1. a \in Nat /\ b \in Nat /\ l \in Nat /\ m \in Nat
      BY <1>1
    <3>2. a = b => l # m
      BY <1>1, <1>2, <2>3, RankIsNumber
    <3>3. /\ (a > b \/ (a = b /\ l < m)) => <<v, w>> \in LanguagePairs(S)
          /\ (b > a \/ (b = a /\ m < l)) => <<w, v>> \in LanguagePairs(S)
      BY <1>3
    <3> HIDE DEF a, b, l, m
    <3> QED
      BY <3>1, <3>2, <3>3
  <2> QED
    BY <2>1, <2>2, <2>3 DEF IsOrder
<1>5. IsList(Sorted(S, LanguageLess), S, LanguagePairs(S))
  <2>1. Sorted(S, LanguageLess) = InOrder(S, LanguagePairs(S))
    BY DEF Sorted, LanguagePairs
  <2> QED
    BY <1>4, <2>1, OrderedList
<1>6. ASSUME NEW s \in Seq(S)
      PROVE  IsChain(s, LanguagePairs(S)) <=> Increasing(s, LanguageLess)
  <2>1. \A i \in 1 .. Len(s) - 1 : s[i] \in S /\ s[i + 1] \in S
    OBVIOUS
  <2>2. \A x, y \in S : <<x, y>> \in LanguagePairs(S) <=> LanguageLess(x, y)
    BY DEF LanguagePairs
  <2> QED
    BY <2>1, <2>2 DEF IsChain, Increasing
<1> QED
  BY <1>4, <1>5, <1>6

\* The languages of some rows: their places, what is there, and the sum of what
\* is said of one.
LanguageEntries(rows) == UNION {{<<g, i>> : i \in DOMAIN rows[g].languages} :
                           g \in DOMAIN rows}
EntryOf(rows, c) == rows[c[1]].languages[c[2]]
NamedIn(rows)    == {EntryOf(rows, c)[1] : c \in LanguageEntries(rows)}
EntriesOf(rows, l) == {c \in LanguageEntries(rows) : EntryOf(rows, c)[1] = l}
SumFor(rows, l) ==
    SumOn([c \in EntriesOf(rows, l) |-> EntryOf(rows, c)[2]],
          EntriesOf(rows, l))
LanguagesIn(rows) == {<<l, SumFor(rows, l)>> : l \in NamedIn(rows)}

\* Merging cuts the list of their sums.
LEMMA MergedIs ==
    ASSUME NEW rows, NEW items
    PROVE  MergedLanguages(rows, items)
             = Shorter(Sorted(LanguagesIn(rows), LanguageLess), items)
  BY DEF MergedLanguages, LanguagesIn, NamedIn, SumFor, EntriesOf, EntryOf,
         LanguageEntries, Total, SumOn

\* Rows whose languages are lists of names and numbers.
Spoken(rows) ==
    /\ IsFiniteSet(DOMAIN rows)
    /\ \A g \in DOMAIN rows : rows[g].languages \in Seq(Strings \X Nat)

\* There are finitely many languages, and what is said of one is part of its
\* sum.
LEMMA LanguagesAre ==
    ASSUME NEW rows, Spoken(rows)
    PROVE  /\ \A c \in LanguageEntries(rows) :
                 /\ EntryOf(rows, c)[1] \in NamedIn(rows)
                 /\ EntryOf(rows, c)[2] \in Nat
                 /\ EntryOf(rows, c)[2] <= SumFor(rows, EntryOf(rows, c)[1])
           /\ \A l \in NamedIn(rows) : l \in Strings /\ SumFor(rows, l) \in Nat
           /\ LanguagesIn(rows) \in SUBSET (Strings \X Nat)
           /\ IsFiniteSet(LanguagesIn(rows))
<1>1. IsFiniteSet(LanguageEntries(rows))
  <2> DEFINE row(g) == {<<g, i>> : i \in DOMAIN rows[g].languages}
             sets == {row(g) : g \in DOMAIN rows}
             f == [g \in DOMAIN rows |-> row(g)]
  <2>1. IsFiniteSet(sets)
    <3>1. f \in Surjection(DOMAIN rows, sets)
      <4> HIDE DEF row
      <4> QED
        BY DEF Surjection
    <3> HIDE DEF f, sets
    <3> QED
      BY <3>1, FS_Surjection DEF Spoken
  <2>2. \A T \in sets : IsFiniteSet(T)
    <3> SUFFICES ASSUME NEW g \in DOMAIN rows PROVE IsFiniteSet(row(g))
      OBVIOUS
    <3> DEFINE D == DOMAIN rows[g].languages
               h == [i \in D |-> <<g, i>>]
    <3>1. IsFiniteSet(D)
      BY PlacesOf DEF Spoken
    <3>2. h \in Surjection(D, row(g))
      BY DEF Surjection
    <3> HIDE DEF D, h, row
    <3> QED
      BY <3>1, <3>2, FS_Surjection
  <2>3. LanguageEntries(rows) = UNION sets
    BY DEF LanguageEntries
  <2> HIDE DEF sets
  <2> QED
    BY <2>1, <2>2, <2>3, FS_UNION
<1>2. ASSUME NEW c \in LanguageEntries(rows)
      PROVE  /\ EntryOf(rows, c) \in Strings \X Nat
             /\ EntryOf(rows, c)[1] \in NamedIn(rows)
             /\ c \in EntriesOf(rows, EntryOf(rows, c)[1])
  <2>1. PICK g \in DOMAIN rows :
          \E i \in DOMAIN rows[g].languages : c = <<g, i>>
    BY DEF LanguageEntries
  <2>2. PICK i \in DOMAIN rows[g].languages : c = <<g, i>>
    BY <2>1
  <2>3. EntryOf(rows, c) = rows[g].languages[i]
    BY <2>2 DEF EntryOf
  <2>4. rows[g].languages \in Seq(Strings \X Nat)
    BY DEF Spoken
  <2>5. EntryOf(rows, c) \in Strings \X Nat
    BY <2>2, <2>3, <2>4
  <2> QED
    BY <2>5 DEF NamedIn, EntriesOf
<1>3. ASSUME NEW l \in NamedIn(rows)
      PROVE  /\ l \in Strings /\ SumFor(rows, l) \in Nat
             /\ \A c \in EntriesOf(rows, l) :
                   EntryOf(rows, c)[2] <= SumFor(rows, l)
  <2> DEFINE T == EntriesOf(rows, l)
             w == [c \in T |-> EntryOf(rows, c)[2]]
  <2>1. l \in Strings
    BY <1>2 DEF NamedIn
  <2>2. IsFiniteSet(T) /\ T \in SUBSET LanguageEntries(rows)
    BY <1>1, FS_Subset DEF EntriesOf
  <2>3. \A c \in T : w[c] \in Nat /\ w[c] = EntryOf(rows, c)[2]
    <3> HIDE DEF T
    <3> QED
      BY <1>2, <2>2
  <2>4. SumFor(rows, l) = SumOn(w, T)
    BY DEF SumFor
  <2> HIDE DEF T, w
  <2>5. SumOn(w, T) \in Nat
    BY <2>2, <2>3, SumIsNat
  <2>6. ASSUME NEW c \in T PROVE w[c] <= SumOn(w, T)
    <3>1. SumOn(w, T) = w[c] + SumOn(w, T \ {c})
      BY <2>2, <2>3, SumWithout
    <3>2. SumOn(w, T \ {c}) \in Nat
      <4>1. IsFiniteSet(T \ {c}) /\ \A x \in T \ {c} : w[x] \in Nat
        BY <2>2, <2>3, FS_RemoveElement
      <4> DEFINE U == T \ {c}
      <4> HIDE DEF U
      <4>2. IsFiniteSet(U) /\ \A x \in U : w[x] \in Nat
        BY <4>1 DEF U
      <4>3. SumOn(w, U) \in Nat
        BY <4>2, SumIsNat
      <4> QED
        BY <4>3 DEF U
    <3> QED
      BY <2>3, <3>1, <3>2
  <2> QED
    BY <2>1, <2>3, <2>4, <2>5, <2>6 DEF T
<1>4. LanguagesIn(rows) \in SUBSET (Strings \X Nat)
  BY <1>3 DEF LanguagesIn
<1>5. IsFiniteSet(LanguagesIn(rows))
  <2> DEFINE N == NamedIn(rows)
             h == [l \in N |-> <<l, SumFor(rows, l)>>]
  <2>1. IsFiniteSet(N)
    <3>1. N \in SUBSET Strings
      BY <1>3
    <3> QED
      BY <3>1, RankIsNumber, FS_Subset
  <2>2. h \in Surjection(N, LanguagesIn(rows))
    BY DEF Surjection, LanguagesIn
  <2> HIDE DEF N, h
  <2> QED
    BY <2>1, <2>2, FS_Surjection
<1> QED
  BY <1>2, <1>3, <1>4, <1>5

-----------------------------------------------------------------------------
(* The largest languages *)

\* As many times the same number.
LEMMA SumOfConstant ==
    ASSUME NEW S, IsFiniteSet(S), NEW c \in Nat
    PROVE  /\ SumOn([x \in S |-> c], S) = c * Cardinality(S)
           /\ Weights([x \in S |-> c], S)
<1> DEFINE one == [x \in S |-> 1]
           u == [x \in S |-> c]
<1>1. Weights(one, S) /\ \A x \in S : one[x] = 1 /\ u[x] = c * one[x]
  BY DEF Weights
<1>2. Weights(u, S)
  BY DEF Weights
<1> HIDE DEF one, u
<1>3. SumOn(one, S) = Cardinality(S)
  BY <1>1, SumOfOnes
<1>4. SumOn(u, S) = c * SumOn(one, S)
  BY <1>1, SumOfMultiples
<1> QED
  BY <1>2, <1>3, <1>4 DEF u

\* Numbers that do not rise.
Falling(v, n) == \A i, j \in 1 .. n : i <= j => v[j] <= v[i]

\* Of numbers that do not rise, no others are more than the first.
LEMMA FirstAreLargest ==
    ASSUME NEW n \in Nat, NEW v, Weights(v, 1 .. n), Falling(v, n),
           NEW H \in SUBSET (1 .. n), NEW m \in Nat, Cardinality(H) = m
    PROVE  /\ m <= n
           /\ SumOn(v, H) <= SumOn(v, 1 .. m)
<1> DEFINE F == 1 .. m
           A == H \ F
           B == F \ H
           I == H \cap F
<1>1. IsFiniteSet(1 .. n) /\ Cardinality(1 .. n) = n
  BY NumbersUpTo
<1>2. m <= n /\ IsFiniteSet(H)
  BY <1>1, CountGrows
<1>3. IsFiniteSet(F) /\ Cardinality(F) = m /\ F \in SUBSET (1 .. n)
  BY <1>2, NumbersUpTo
<1>4. Weights(v, H) /\ Weights(v, F) /\ Weights(v, A) /\ Weights(v, B)
  BY <1>3 DEF Weights
<1>5. m = 0 => A = {} /\ I = {}
  BY <1>2, FS_EmptySet
<1>6. /\ \A x \in A : x \in 1 .. n /\ ~ (x <= m)
      /\ \A x \in B : x \in 1 .. n /\ x <= m
  BY <1>3
<1>7. H \ I = A /\ F \ I = B /\ I \in SUBSET H /\ I \in SUBSET F
      /\ H \cap F = I /\ F \cap H = I
  OBVIOUS
<1> HIDE DEF F, A, B, I
<1>8. /\ SumOn(v, H) = SumOn(v, I) + SumOn(v, A)
      /\ SumOn(v, I) \in Nat /\ SumOn(v, A) \in Nat
  BY <1>2, <1>4, <1>7, SumOfParts
<1>9. /\ SumOn(v, F) = SumOn(v, I) + SumOn(v, B)
      /\ SumOn(v, B) \in Nat
  BY <1>3, <1>4, <1>7, SumOfParts
<1>10. /\ IsFiniteSet(A) /\ IsFiniteSet(B)
       /\ Cardinality(A) = Cardinality(B)
  <2>1. IsFiniteSet(H \ F) /\ Cardinality(H \ F) = m - Cardinality(H \cap F)
    BY <1>2, FS_Difference
  <2>2. IsFiniteSet(F \ H) /\ Cardinality(F \ H) = m - Cardinality(F \cap H)
    BY <1>3, FS_Difference
  <2> QED
    BY <1>7, <2>1, <2>2 DEF A, B
<1>11. SumOn(v, A) <= SumOn(v, B)
  <2>1. CASE m = 0
    <3>1. A = {}
      BY <1>5, <2>1
    <3>2. SumOn(v, A) = 0
      BY <1>4, <1>10, <3>1, SumAdds
    <3> QED
      BY <1>9, <3>2
  <2>2. CASE m # 0
    <3> DEFINE c == v[m]
               a == [x \in A |-> c]
               b == [x \in B |-> c]
    <3>1. m \in 1 .. n /\ c \in Nat
      BY <1>1, <1>2, <2>2 DEF Weights
    <3>2. /\ \A x \in A : v[x] <= a[x]
          /\ \A x \in B : b[x] <= v[x]
      <4>1. \A x \in A : m <= x /\ x \in 1 .. n
        BY <1>6
      <4> QED
        BY <1>6, <3>1, <4>1 DEF Falling
    <3> HIDE DEF c
    <3>3. /\ SumOn(a, A) = c * Cardinality(A) /\ Weights(a, A)
          /\ SumOn(b, B) = c * Cardinality(B) /\ Weights(b, B)
      BY <1>10, <3>1, SumOfConstant
    <3> HIDE DEF a, b
    <3>4. SumOn(v, A) <= SumOn(a, A) /\ SumOn(a, A) \in Nat
      BY <1>4, <1>10, <3>2, <3>3, SumsCompare
    <3>5. SumOn(b, B) <= SumOn(v, B) /\ SumOn(b, B) \in Nat
      BY <1>4, <1>10, <3>2, <3>3, SumsCompare
    <3>6. SumOn(a, A) = SumOn(b, B)
      BY <1>10, <3>3
    <3> QED
      BY <1>8, <1>9, <3>4, <3>5, <3>6
  <2> QED
    BY <2>1, <2>2
<1> QED
  BY <1>2, <1>8, <1>9, <1>11 DEF F

\* The list of all languages of some rows.
AllIn(rows) == Sorted(LanguagesIn(rows), LanguageLess)

\* Each is in it once, with its sum, and the sums do not rise.
LEMMA AllInIs ==
    ASSUME NEW rows, Spoken(rows)
    PROVE  LET all == AllIn(rows)
           IN  /\ all \in Seq(Strings \X Nat)
               /\ \A l \in NamedIn(rows) : \E i \in DOMAIN all :
                     all[i] = <<l, SumFor(rows, l)>>
               /\ \A i, j \in DOMAIN all : all[i][1] = all[j][1] => i = j
               /\ \A i \in 1 .. Len(all) - 1 : LanguageLess(all[i], all[i + 1])
               /\ \A i, j \in DOMAIN all : i <= j => all[j][2] <= all[i][2]
<1> DEFINE all == AllIn(rows)
           S == LanguagesIn(rows)
<1>1. S \in SUBSET (Strings \X Nat) /\ IsFiniteSet(S)
  BY LanguagesAre
<1> HIDE DEF S
<1>2. IsList(all, S, LanguagePairs(S))
      /\ \A s \in Seq(S) :
            IsChain(s, LanguagePairs(S)) <=> Increasing(s, LanguageLess)
  BY <1>1, LanguageList DEF AllIn, S
<1>3. IsOrder(LanguagePairs(S), S)
  BY <1>1, LanguageList
<1> HIDE DEF all
<1>4. /\ all \in Seq(S) /\ Image(all) = S
      /\ IsChain(all, LanguagePairs(S)) /\ Increasing(all, LanguageLess)
  BY <1>2 DEF IsList
<1>5. all \in Seq(Strings \X Nat)
  BY <1>1, <1>4
<1>6. /\ DOMAIN all = 1 .. Len(all) /\ Len(all) \in Nat
      /\ \A i \in DOMAIN all : all[i] \in S
      /\ \A x \in S : \E i \in DOMAIN all : x = all[i]
  BY <1>4, PlacesOf
<1>7. \A l \in NamedIn(rows) : \E i \in DOMAIN all :
          all[i] = <<l, SumFor(rows, l)>>
  BY <1>6 DEF S, LanguagesIn
<1>8. \A i, j \in DOMAIN all : all[i][1] = all[j][1] => i = j
  <2> SUFFICES ASSUME NEW i \in DOMAIN all, NEW j \in DOMAIN all,
                      all[i][1] = all[j][1]
               PROVE  i = j
    OBVIOUS
  <2>1. all[i] = all[j]
    <3>1. PICK l \in NamedIn(rows) : all[i] = <<l, SumFor(rows, l)>>
      BY <1>6 DEF S, LanguagesIn
    <3>2. PICK k \in NamedIn(rows) : all[j] = <<k, SumFor(rows, k)>>
      BY <1>6 DEF S, LanguagesIn
    <3> QED
      BY <3>1, <3>2
  <2> QED
    BY <1>3, <1>4, <1>6, <2>1, ChainIsCounted
<1>9. \A i \in 1 .. Len(all) - 1 : LanguageLess(all[i], all[i + 1])
  BY <1>4 DEF Increasing
<1>10. \A i, j \in DOMAIN all : i <= j => all[j][2] <= all[i][2]
  <2> SUFFICES ASSUME NEW i \in DOMAIN all, NEW j \in DOMAIN all, i <= j
               PROVE  all[j][2] <= all[i][2]
    OBVIOUS
  <2>0. all[i][2] \in Nat /\ all[j][2] \in Nat
    BY <1>1, <1>6
  <2>1. CASE i = j
    BY <2>0, <2>1
  <2>2. CASE i < j
    <3>1. <<all[i], all[j]>> \in LanguagePairs(S)
      BY <1>3, <1>4, <1>6, <2>2, ChainIsOrdered
    <3> QED
      BY <2>0, <3>1 DEF LanguagePairs, LanguageLess
  <2> QED
    BY <1>6, <2>1, <2>2
<1> QED
  BY <1>5, <1>7, <1>8, <1>9, <1>10 DEF all

\* A list names each language once.
NamedOnce(list) ==
    \A i, j \in DOMAIN list : list[i][1] = list[j][1] => i = j

\* The merged list is the first of all of them.
LEMMA MergedList ==
    ASSUME NEW rows, Spoken(rows), NEW items \in Nat
    PROVE  LET merged == MergedLanguages(rows, items)
           IN  /\ merged \in Seq(Strings \X Nat)
               /\ Len(merged) <= items /\ Len(merged) <= Len(AllIn(rows))
               /\ Len(merged) \in {items, Len(AllIn(rows))}
               /\ \A i \in DOMAIN merged : merged[i] = AllIn(rows)[i]
               /\ \A i \in 2 .. Len(merged) :
                     LanguageLess(merged[i - 1], merged[i])
               /\ NamedOnce(merged)
<1> DEFINE all == AllIn(rows)
           merged == MergedLanguages(rows, items)
           p == IF items < Len(all) THEN items ELSE Len(all)
<1>1. /\ all \in Seq(Strings \X Nat)
      /\ \A i, j \in DOMAIN all : all[i][1] = all[j][1] => i = j
      /\ \A i \in 1 .. Len(all) - 1 : LanguageLess(all[i], all[i + 1])
  BY AllInIs
<1>2. merged = Shorter(all, items)
  BY MergedIs DEF AllIn
<1> HIDE DEF all, merged
<1>3. /\ p \in 0 .. Len(all) /\ p \in Nat /\ p <= items /\ p <= Len(all)
      /\ p \in {items, Len(all)} /\ Len(all) \in Nat
  BY <1>1
<1>4. merged = SubSeq(all, 1, p)
  BY <1>2 DEF Shorter
<1> HIDE DEF p
<1>5. /\ merged \in Seq(Strings \X Nat) /\ Len(merged) = p
      /\ \A i \in 1 .. p : merged[i] = all[i]
  BY <1>1, <1>3, <1>4, PrefixIs
<1>6. DOMAIN merged = 1 .. p /\ DOMAIN all = 1 .. Len(all)
  BY <1>1, <1>5
<1>7. ASSUME NEW i \in 2 .. Len(merged)
      PROVE  LanguageLess(merged[i - 1], merged[i])
  <2>1. /\ i - 1 \in 1 .. Len(all) - 1 /\ (i - 1) + 1 = i
        /\ i - 1 \in 1 .. p /\ i \in 1 .. p
    BY <1>3, <1>5
  <2>2. LanguageLess(all[i - 1], all[(i - 1) + 1])
    BY <1>1, <2>1
  <2> QED
    BY <1>5, <2>1, <2>2
<1>8. NamedOnce(merged)
  <2>1. 1 .. p \subseteq 1 .. Len(all)
    BY <1>3
  <2> SUFFICES ASSUME NEW i \in 1 .. p, NEW j \in 1 .. p,
                      merged[i][1] = merged[j][1]
               PROVE  i = j
    BY <1>6 DEF NamedOnce
  <2>2. /\ i \in DOMAIN all /\ j \in DOMAIN all
        /\ merged[i] = all[i] /\ merged[j] = all[j]
    BY <1>5, <1>6, <2>1
  <2> QED
    BY <1>1, <2>2
<1> QED
  BY <1>3, <1>5, <1>6, <1>7, <1>8 DEF all, merged

\* Merging makes no list of languages smaller, however long it was before.
LEMMA MergedGrows ==
    ASSUME NEW rows, Spoken(rows), NEW items \in Nat, NEW g \in DOMAIN rows,
           NamedOnce(rows[g].languages), Len(rows[g].languages) <= items
    PROVE  LanguageSize(rows[g].languages)
             <= LanguageSize(MergedLanguages(rows, items))
<1> DEFINE list == rows[g].languages
           all == AllIn(rows)
           merged == MergedLanguages(rows, items)
           m == Len(list)
           n == Len(all)
           p == Len(merged)
           v == LanguageSizes(all)
           u == LanguageSizes(list)
           w == LanguageSizes(merged)
           for(i) == <<list[i][1], SumFor(rows, list[i][1])>>
           h == [i \in 1 .. m |-> CHOOSE j \in DOMAIN all : all[j] = for(i)]
           x == [i \in 1 .. m |-> v[h[i]]]
           H == {h[i] : i \in 1 .. m}
<1>1. list \in Seq(Strings \X Nat)
  BY DEF Spoken
<1>2. /\ all \in Seq(Strings \X Nat)
      /\ \A l \in NamedIn(rows) : \E i \in DOMAIN all :
            all[i] = <<l, SumFor(rows, l)>>
      /\ \A i, j \in DOMAIN all : i <= j => all[j][2] <= all[i][2]
  BY AllInIs
<1>3. /\ merged \in Seq(Strings \X Nat)
      /\ p <= items /\ p <= n /\ p \in {items, n}
      /\ \A i \in DOMAIN merged : merged[i] = all[i]
  BY MergedList
<1>4. /\ Weights(u, DOMAIN list) /\ LanguageSize(list) = SumOn(u, DOMAIN list)
      /\ Weights(v, DOMAIN all)
      /\ Weights(w, DOMAIN merged)
      /\ LanguageSize(merged) = SumOn(w, DOMAIN merged)
  BY <1>1, <1>2, <1>3, LanguageSizeIsNat DEF LanguageSize
<1>5. \A i \in DOMAIN list :
         /\ list[i][1] \in NamedIn(rows) /\ list[i][2] \in Nat
         /\ SumFor(rows, list[i][1]) \in Nat
         /\ list[i][2] <= SumFor(rows, list[i][1])
  <2> TAKE i \in DOMAIN list
  <2>1. <<g, i>> \in LanguageEntries(rows) /\ EntryOf(rows, <<g, i>>) = list[i]
    BY DEF LanguageEntries, EntryOf
  <2> HIDE DEF list
  <2> QED
    BY <2>1, LanguagesAre
<1>6. NamedOnce(list) /\ m <= items
  OBVIOUS
<1> HIDE DEF list, all, merged
<1>7. /\ DOMAIN list = 1 .. m /\ m \in Nat
      /\ DOMAIN all = 1 .. n /\ n \in Nat
      /\ DOMAIN merged = 1 .. p /\ p \in Nat
      /\ \A i \in 1 .. m : list[i] \in Strings \X Nat
      /\ \A i \in 1 .. n : all[i] \in Strings \X Nat
  BY <1>1, <1>2, <1>3, PlacesOf
<1> HIDE DEF m, n, p
<1>8. \A i \in 1 .. m : h[i] \in 1 .. n /\ all[h[i]] = for(i)
  <2> TAKE i \in 1 .. m
  <2>1. \E j \in DOMAIN all : all[j] = for(i)
    BY <1>2, <1>5, <1>7
  <2>2. h[i] = CHOOSE j \in DOMAIN all : all[j] = for(i)
    OBVIOUS
  <2> HIDE DEF for, h
  <2> QED
    BY <1>7, <2>1, <2>2
<1> HIDE DEF h
<1>8a. \A i \in 1 .. m : /\ all[h[i]][1] = list[i][1]
                          /\ all[h[i]][2] = SumFor(rows, list[i][1])
  <2> TAKE i \in 1 .. m
  <2>1. all[h[i]] = for(i)
    BY <1>8
  <2>2. for(i)[1] = list[i][1] /\ for(i)[2] = SumFor(rows, list[i][1])
    OBVIOUS
  <2> HIDE DEF for
  <2> QED
    BY <2>1, <2>2
<1>8b. 1 .. p \subseteq 1 .. n
  BY <1>3, <1>7
<1>9. \A i, j \in 1 .. m : h[i] = h[j] => i = j
  <2> SUFFICES ASSUME NEW i \in 1 .. m, NEW j \in 1 .. m, h[i] = h[j]
               PROVE  i = j
    OBVIOUS
  <2>1. list[i][1] = list[j][1]
    BY <1>8a
  <2> QED
    BY <1>6, <1>7, <2>1 DEF NamedOnce
<1>10. \A i \in 1 .. m : v[h[i]] \in Nat /\ u[i] <= v[h[i]]
  <2> TAKE i \in 1 .. m
  <2> DEFINE a == list[i][2]
             b == SumFor(rows, list[i][1])
  <2>1. a \in Nat /\ b \in Nat /\ a <= b
    BY <1>5, <1>7
  <2>2. all[h[i]][2] = b
    BY <1>8a
  <2> HIDE DEF a, b
  <2>3. Digits(a) \in Nat /\ Digits(b) \in Nat /\ Digits(a) <= Digits(b)
    BY <2>1, MoreDigits
  <2>4. u[i] = 1 + Digits(a)
    BY <1>7 DEF LanguageSizes, a
  <2>5. v[h[i]] = 1 + Digits(b)
    BY <1>7, <1>8, <2>2 DEF LanguageSizes
  <2> HIDE DEF u, v
  <2> QED
    BY <2>3, <2>4, <2>5
<1>11. Falling(v, n)
  <2> SUFFICES ASSUME NEW i \in 1 .. n, NEW j \in 1 .. n, i <= j
               PROVE  v[j] <= v[i]
    BY DEF Falling
  <2> DEFINE a == all[j][2]
             b == all[i][2]
  <2>1. a \in Nat /\ b \in Nat /\ a <= b
    BY <1>2, <1>7
  <2> HIDE DEF a, b
  <2>2. Digits(a) \in Nat /\ Digits(b) \in Nat /\ Digits(a) <= Digits(b)
    BY <2>1, MoreDigits
  <2>3. v[j] = 1 + Digits(a) /\ v[i] = 1 + Digits(b)
    BY <1>7 DEF LanguageSizes, a, b
  <2> HIDE DEF v
  <2> QED
    BY <2>2, <2>3
<1>12. \A i \in 1 .. p : w[i] = v[i]
  BY <1>3, <1>7, <1>8b DEF LanguageSizes
<1> HIDE DEF u, v, w
<1>13. /\ SumOn(v, H) = SumOn(x, 1 .. m) /\ Cardinality(H) = m
       /\ Weights(x, 1 .. m)
  <2>1. Renamed(1 .. m, h, v, x)
    BY <1>9, <1>10 DEF Renamed
  <2>2. IsFiniteSet(1 .. m) /\ Cardinality(1 .. m) = m
    BY <1>7, NumbersUpTo
  <2>3. Weights(x, 1 .. m)
    BY <1>10 DEF Weights
  <2> HIDE DEF x
  <2> QED
    BY <2>1, <2>2, <2>3, SumMoves
<1>14. SumOn(u, 1 .. m) <= SumOn(x, 1 .. m)
       /\ SumOn(u, 1 .. m) \in Nat /\ SumOn(x, 1 .. m) \in Nat
  <2>1. IsFiniteSet(1 .. m)
    BY <1>7, NumbersUpTo
  <2>2. \A i \in 1 .. m : u[i] <= x[i]
    BY <1>10
  <2> HIDE DEF x
  <2> QED
    BY <1>4, <1>7, <1>13, <2>1, <2>2, SumsCompare
<1>15. H \in SUBSET (1 .. n)
  BY <1>8
<1> HIDE DEF H, x
<1>16. m <= n /\ SumOn(v, H) <= SumOn(v, 1 .. m)
  BY <1>4, <1>7, <1>11, <1>13, <1>15, FirstAreLargest
<1>17. SumOn(v, 1 .. m) <= SumOn(v, 1 .. p)
       /\ SumOn(v, 1 .. m) \in Nat /\ SumOn(v, 1 .. p) \in Nat
  <2>1. 1 .. m \in SUBSET (1 .. p) /\ IsFiniteSet(1 .. p)
    BY <1>3, <1>6, <1>7, <1>16, NumbersUpTo
  <2>2. Weights(v, 1 .. p)
    BY <1>4, <1>7, <1>8b DEF Weights
  <2> DEFINE T == 1 .. m
             S == 1 .. p
  <2>3. T \in SUBSET S /\ IsFiniteSet(S) /\ Weights(v, S)
    BY <2>1, <2>2
  <2> HIDE DEF T, S
  <2>4. /\ SumOn(v, S) = SumOn(v, T) + SumOn(v, S \ T)
        /\ SumOn(v, T) \in Nat /\ SumOn(v, S \ T) \in Nat
    BY <2>3, SumOfParts
  <2>5. SumOn(v, T) <= SumOn(v, S) /\ SumOn(v, S) \in Nat
    BY <2>4
  <2> QED
    BY <2>4, <2>5 DEF T, S
<1>18. SumOn(w, 1 .. p) = SumOn(v, 1 .. p)
  <2>1. IsFiniteSet(1 .. p) /\ Weights(v, 1 .. p)
    BY <1>4, <1>7, <1>8b, NumbersUpTo DEF Weights
  <2> QED
    BY <1>12, <2>1, SumOfSame
<1> QED
  BY <1>4, <1>7, <1>13, <1>14, <1>16, <1>17, <1>18 DEF list, merged

-----------------------------------------------------------------------------
(* The joined row *)

\* A joined row that may be sent.
SolidJoin(row, items) ==
    /\ Solid(row, items) /\ NamedOnce(row.languages)
    /\ row.prefix = <<"*">> /\ row.depth = 0 /\ row.representative = ""

\* Rows that may be sent.
SolidRows(rows, items) == \A g \in DOMAIN rows : Solid(rows[g], items)

\* Joining rows that may be sent gives one, with no less in any count.
LEMMA JoinedIsSolid ==
    ASSUME NEW S, NEW rows \in Seq(S), NEW items \in Nat,
           SolidRows(rows, items)
    PROVE  /\ SolidJoin(JoinedRow(rows, items), items)
           /\ Spoken(rows)
           /\ \A g \in DOMAIN rows : \A field \in Counts :
                 rows[g][field] <= JoinedRow(rows, items)[field]
<1> DEFINE joined == JoinedRow(rows, items)
<1>1. /\ DOMAIN rows = 1 .. Len(rows) /\ Len(rows) \in Nat
      /\ IsFiniteSet(DOMAIN rows)
  BY PlacesOf
<1>2. Spoken(rows)
  BY <1>1 DEF Spoken, SolidRows, Solid
<1>3. ASSUME NEW field \in Counts
      PROVE  /\ joined[field] \in Nat
             /\ \A g \in DOMAIN rows : rows[g][field] <= joined[field]
  <2> DEFINE D == DOMAIN rows
             w == [g \in D |-> rows[g][field]]
  <2>1. IsFiniteSet(D) /\ \A g \in D : w[g] \in Nat
    BY <1>1 DEF SolidRows, Solid
  <2>2. joined[field] = SumOn(w, D)
    <3>1. CountOf(rows, field) = SumOn(w, D)
      BY DEF CountOf, Total, SumOn
    <3> QED
      BY <3>1, JoinedRowCounts
  <2>3. \A g \in D : w[g] = rows[g][field]
    OBVIOUS
  <2> HIDE DEF D, w, joined
  <2>4. SumOn(w, D) \in Nat
    BY <2>1, SumIsNat
  <2>5. ASSUME NEW g \in D PROVE w[g] <= SumOn(w, D)
    <3> DEFINE U == D \ {g}
    <3>1. SumOn(w, D) = w[g] + SumOn(w, U)
      BY <2>1, SumWithout
    <3>2. IsFiniteSet(U) /\ \A x \in U : w[x] \in Nat
      BY <2>1, FS_RemoveElement
    <3> HIDE DEF U
    <3>3. SumOn(w, U) \in Nat
      BY <3>2, SumIsNat
    <3>4. w[g] \in Nat
      BY <2>1
    <3> QED
      BY <3>1, <3>3, <3>4
  <2> QED
    BY <2>2, <2>3, <2>4, <2>5 DEF D
<1>4. /\ joined.prefix = <<"*">> /\ joined.depth = 0
      /\ joined.representative = ""
      /\ joined.languages = MergedLanguages(rows, items)
  BY DEF JoinedRow
<1> HIDE DEF joined
<1>5. /\ joined.languages \in Seq(Strings \X Nat)
      /\ Len(joined.languages) <= items
      /\ NamedOnce(joined.languages)
      /\ \A i \in 2 .. Len(joined.languages) :
            LanguageLess(joined.languages[i - 1], joined.languages[i])
  BY <1>2, <1>4, MergedList
<1>6. ValidRow(joined, items)
  BY <1>4, <1>5 DEF ValidRow, LanguageLess
<1>7. Len(joined.prefix) = 1
  BY <1>4
<1>8. Solid(joined, items)
  <2>1. Len(joined.prefix) \in Nat /\ joined.depth \in Nat
    <3>1. joined.depth = 0
      BY <1>4
    <3>2. 0 \in Nat /\ 1 \in Nat
      OBVIOUS
    <3> QED
      BY <1>7, <3>1, <3>2, Zenon
  <2>2. \A field \in Counts : joined[field] \in Nat
    BY <1>3
  <2> QED
    BY <1>5, <1>6, <2>1, <2>2, Zenon DEF Solid
<1> QED
  BY <1>2, <1>3, <1>4, <1>5, <1>8 DEF SolidJoin, joined

\* What is joined to a joined row makes it no smaller.
LEMMA JoinedGrows ==
    ASSUME NEW S, NEW rows \in Seq(S), NEW items \in Nat,
           SolidRows(rows, items), NEW g \in DOMAIN rows,
           SolidJoin(rows[g], items)
    PROVE  RowBytes(rows[g]) <= RowBytes(JoinedRow(rows, items))
<1> DEFINE row == rows[g]
           joined == JoinedRow(rows, items)
<1>1. /\ SolidJoin(joined, items) /\ SolidJoin(row, items)
      /\ Spoken(rows)
      /\ \A field \in Counts : row[field] <= joined[field]
  BY JoinedIsSolid
<1>2. LanguageSize(row.languages) <= LanguageSize(joined.languages)
  <2>1. NamedOnce(row.languages) /\ Len(row.languages) <= items
    BY <1>1 DEF SolidJoin, Solid, ValidRow
  <2>2. joined.languages = MergedLanguages(rows, items)
    BY DEF JoinedRow
  <2> HIDE DEF joined
  <2> QED
    BY <1>1, <2>1, <2>2, MergedGrows
<1> HIDE DEF row, joined
<1>3. Solid(row, items) /\ Solid(joined, items)
  BY <1>1 DEF SolidJoin
<1>4. \A field \in Counts :
         /\ Digits(row[field]) \in Nat /\ Digits(joined[field]) \in Nat
         /\ Digits(row[field]) <= Digits(joined[field])
  <2> TAKE field \in Counts
  <2> DEFINE a == row[field]
             b == joined[field]
  <2>1. a \in Nat /\ b \in Nat /\ a <= b
    BY <1>1, <1>3 DEF Solid
  <2> HIDE DEF a, b
  <2>2. Digits(a) \in Nat /\ Digits(b) \in Nat /\ Digits(a) <= Digits(b)
    BY <2>1, MoreDigits
  <2> QED
    BY <2>2 DEF a, b
<1>5. CountSize(row) <= CountSize(joined)
  <2> DEFINE a1 == Digits(row.files)
             a2 == Digits(row.definitions)
             a3 == Digits(row.entryPoints)
             a4 == Digits(row.documents)
             a5 == Digits(row.configurations)
             b1 == Digits(joined.files)
             b2 == Digits(joined.definitions)
             b3 == Digits(joined.entryPoints)
             b4 == Digits(joined.documents)
             b5 == Digits(joined.configurations)
  <2>1. /\ a1 \in Nat /\ b1 \in Nat /\ a1 <= b1
        /\ a2 \in Nat /\ b2 \in Nat /\ a2 <= b2
        /\ a3 \in Nat /\ b3 \in Nat /\ a3 <= b3
        /\ a4 \in Nat /\ b4 \in Nat /\ a4 <= b4
        /\ a5 \in Nat /\ b5 \in Nat /\ a5 <= b5
    BY <1>4 DEF Counts
  <2>2. /\ CountSize(row) = a1 + a2 + a3 + a4 + a5
        /\ CountSize(joined) = b1 + b2 + b3 + b4 + b5
    BY DEF CountSize
  <2> HIDE DEF a1, a2, a3, a4, a5, b1, b2, b3, b4, b5
  <2> QED
    BY <2>1, <2>2
<1>6. /\ RowBytes(row) = Len(row.prefix) + Digits(row.depth) + CountSize(row)
            + LanguageSize(row.languages)
            + IF row.representative = "" THEN 1 ELSE 2
      /\ CountSize(row) \in Nat /\ LanguageSize(row.languages) \in Nat
  BY <1>3, RowSizeIs
<1>7. /\ RowBytes(joined) = Len(joined.prefix) + Digits(joined.depth)
            + CountSize(joined) + LanguageSize(joined.languages)
            + IF joined.representative = "" THEN 1 ELSE 2
      /\ CountSize(joined) \in Nat /\ LanguageSize(joined.languages) \in Nat
  BY <1>3, RowSizeIs
<1>8. Len(row.prefix) = 1 /\ Len(joined.prefix) = 1
      /\ row.depth = 0 /\ joined.depth = 0
      /\ row.representative = "" /\ joined.representative = ""
  BY <1>1 DEF SolidJoin
<1>9. Digits(0) \in Nat
  BY MoreDigits
<1> DEFINE d == Digits(0)
           x == CountSize(row)
           y == CountSize(joined)
           l == LanguageSize(row.languages)
           m == LanguageSize(joined.languages)
<1>10. /\ RowBytes(row) = 1 + d + x + l + 1
       /\ RowBytes(joined) = 1 + d + y + m + 1
       /\ d \in Nat /\ x \in Nat /\ y \in Nat /\ l \in Nat /\ m \in Nat
       /\ x <= y /\ l <= m
  BY <1>2, <1>5, <1>6, <1>7, <1>8, <1>9
<1> HIDE DEF d, x, y, l, m
<1>11. RowBytes(row) <= RowBytes(joined)
  BY <1>10
<1> QED
  BY <1>11 DEF row, joined

-----------------------------------------------------------------------------
(* A table on its way *)

\* The elements of a sequence after the first n.
LEMMA SuffixIs ==
    ASSUME NEW S, NEW s \in Seq(S), NEW n \in 0 .. Len(s)
    PROVE  /\ SubSeq(s, n + 1, Len(s)) \in Seq(S)
           /\ Len(SubSeq(s, n + 1, Len(s))) = Len(s) - n
           /\ \A i \in 1 .. Len(s) - n :
                 SubSeq(s, n + 1, Len(s))[i] = s[n + i]
<1> DEFINE first == n + 1
           last == Len(s)
           m == last - n
           tail == SubSeq(s, first, last)
<1>1. /\ first \in Int /\ last \in Int
      /\ \A i \in first .. last : s[i] \in S
  OBVIOUS
<1>2. /\ last - first + 1 = m
      /\ (IF first <= last THEN last - first + 1 ELSE 0) = m
      /\ \A i \in 1 .. m : first + i - 1 = n + i
  <2>1. last \in Nat /\ n \in 0 .. last
    OBVIOUS
  <2> HIDE DEF last
  <2> QED
    BY <2>1
<1>3. tail = SubSeq(s, first, last)
  OBVIOUS
<1> HIDE DEF first, last, m, tail
<1>4. /\ tail \in Seq(S)
      /\ Len(tail) = IF first <= last THEN last - first + 1 ELSE 0
      /\ \A i \in 1 .. last - first + 1 : tail[i] = s[first + i - 1]
  BY <1>1, <1>3, SubSeqProperties
<1>5. Len(tail) = m
  BY <1>2, <1>4, Zenon
<1>6. \A i \in 1 .. m : tail[i] = s[first + i - 1]
  BY <1>2, <1>4
<1>7. \A i \in 1 .. m : tail[i] = s[n + i]
  BY <1>2, <1>6
<1> QED
  BY <1>4, <1>5, <1>7 DEF first, last, m, tail

\* Sequences that agree at the first n places have the same beginning.
LEMMA PrefixesAgree ==
    ASSUME NEW S, NEW s \in Seq(S), NEW T, NEW t \in Seq(T),
           NEW n \in 0 .. Len(s), n \in 0 .. Len(t),
           \A i \in 1 .. n : s[i] = t[i]
    PROVE  SubSeq(s, 1, n) = SubSeq(t, 1, n)
<1> DEFINE x == SubSeq(s, 1, n)
           y == SubSeq(t, 1, n)
<1>1. /\ x \in Seq(S) /\ Len(x) = n /\ \A i \in 1 .. n : x[i] = s[i]
  BY PrefixIs
<1>2. /\ y \in Seq(T) /\ Len(y) = n /\ \A i \in 1 .. n : y[i] = t[i]
  BY PrefixIs
<1> HIDE DEF x, y
<1>3. x \in Seq(S \cup T) /\ y \in Seq(S \cup T)
  BY <1>1, <1>2
<1>4. \A i \in 1 .. n : x[i] = y[i]
  BY <1>1, <1>2
<1>5. x = y
  BY <1>1, <1>2, <1>3, <1>4, SeqEqual
<1> QED
  BY <1>5 DEF x, y

\* A table that may be sent, in which nothing has been folded.
PlainTable(t, items) ==
    /\ \E S : t \in Seq(S)
    /\ SolidRows(t, items)
    /\ \A g \in DOMAIN t : ~ Folded(t[g])

\* As often a table can be folded.
MostFolds(t) == IF Len(t) >= 2 THEN Len(t) - 1 ELSE 0

\* The table u is t after it was folded k times.
FoldedBy(t, u, k, items) ==
    \/ k = 0 /\ u = t
    \/ /\ k \in 1 .. MostFolds(t)
       /\ \E joined : /\ SolidJoin(joined, items)
                      /\ u = Append(SubSeq(t, 1, Len(t) - k), joined)

\* Its length, its rows, and those that are not joined.
LEMMA FoldedRowsAre ==
    ASSUME NEW items \in Nat, NEW t, PlainTable(t, items),
           NEW u, NEW k, FoldedBy(t, u, k, items)
    PROVE  /\ \E S : u \in Seq(S)
           /\ SolidRows(u, items)
           /\ k \in 0 .. MostFolds(t) /\ k <= Len(t) /\ k \in Nat
           /\ Len(t) \in Nat /\ MostFolds(t) \in Nat
           /\ k >= 1 => k < Len(t)
           /\ Len(u) = IF k = 0 THEN Len(t) ELSE Len(t) - k + 1
           /\ \A g \in 1 .. Len(t) - k : u[g] = t[g]
           /\ k >= 1 => SolidJoin(u[Len(t) - k + 1], items)
           /\ DirectoryRows(u) = SubSeq(t, 1, Len(t) - k)
           /\ Len(DirectoryRows(u)) = Len(t) - k
<1> DEFINE L == Len(t)
<1>0. PICK S : t \in Seq(S)
  BY DEF PlainTable
<1>1. L \in Nat /\ DOMAIN t = 1 .. L
  BY <1>0
<1>2. CASE k = 0 /\ u = t
  <2>1. MostFolds(t) \in Nat /\ 0 \in 0 .. MostFolds(t)
    BY <1>1 DEF MostFolds
  <2>2. DirectoryRows(t) = t
    <3>1. t # <<>> => Len(t) \in DOMAIN t
      BY <1>0, <1>1
    <3> QED
      BY <3>1 DEF DirectoryRows, PlainTable
  <2>3. SubSeq(t, 1, L) = t
    BY <1>0, SubSeqFull
  <2>4. L - 0 = L
    BY <1>1
  <2> QED
    BY <1>0, <1>1, <1>2, <2>1, <2>2, <2>3, <2>4 DEF PlainTable
<1>3. CASE k \in 1 .. MostFolds(t)
  <2>1. PICK joined : /\ SolidJoin(joined, items)
                      /\ u = Append(SubSeq(t, 1, L - k), joined)
    BY <1>1, <1>3 DEF FoldedBy
  <2> DEFINE n == L - k
             kept == SubSeq(t, 1, n)
  <2>2. /\ MostFolds(t) \in Nat /\ k \in Nat /\ k >= 1 /\ k < L
        /\ n \in 0 .. L /\ n \in Nat /\ k \in 0 .. MostFolds(t)
    <3> HIDE DEF L
    <3>1. MostFolds(t) = IF L >= 2 THEN L - 1 ELSE 0
      BY DEF MostFolds, L
    <3> QED
      BY <1>1, <1>3, <3>1
  <2>3. /\ kept \in Seq(S) /\ Len(kept) = n
        /\ \A g \in 1 .. n : kept[g] = t[g]
    <3> HIDE DEF n
    <3> QED
      BY <1>0, <2>2, PrefixIs
  <2>4. u = Append(kept, joined)
    BY <2>1
  <2> HIDE DEF kept
  <2>5. /\ u \in Seq(S \cup {joined}) /\ Len(u) = n + 1
        /\ u[n + 1] = joined /\ \A g \in 1 .. n : u[g] = kept[g]
    <3> HIDE DEF n
    <3>1. kept \in Seq(S \cup {joined})
      BY <2>3
    <3> QED
      BY <2>2, <2>3, <2>4, <3>1
  <2>6. SolidRows(u, items)
    <3> HIDE DEF n
    <3> SUFFICES ASSUME NEW g \in DOMAIN u PROVE Solid(u[g], items)
      BY DEF SolidRows
    <3>1. g \in 1 .. n + 1
      BY <2>5
    <3>2. CASE g = n + 1
      BY <2>1, <2>5, <3>2 DEF SolidJoin
    <3>3. CASE g # n + 1
      <4>1. g \in 1 .. n /\ g \in DOMAIN t
        BY <1>1, <2>2, <3>1, <3>3
      <4> QED
        BY <2>3, <2>5, <4>1 DEF PlainTable, SolidRows
    <3> QED
      BY <3>2, <3>3
  <2>7. DirectoryRows(u) = kept
    <3> HIDE DEF n
    <3>1. Len(u) - 1 = n /\ n < Len(u) /\ n \in 0 .. Len(u) /\ Len(u) # 0
      BY <2>2, <2>5
    <3>2. u # <<>> /\ Folded(u[Len(u)])
      BY <2>1, <2>5, <3>1 DEF SolidJoin, Folded
    <3>3. Shorter(u, Len(u) - 1) = SubSeq(u, 1, n)
      BY <3>1 DEF Shorter
    <3>4. SubSeq(u, 1, n) = SubSeq(t, 1, n)
      <4>1. \A g \in 1 .. n : u[g] = t[g]
        BY <2>3, <2>5
      <4> QED
        BY <1>0, <2>2, <2>5, <3>1, <4>1, PrefixesAgree
    <3> QED
      BY <3>2, <3>3, <3>4 DEF DirectoryRows, kept
  <2>8. /\ \E R : u \in Seq(R)
        /\ \A g \in 1 .. L - k : u[g] = t[g]
        /\ SolidJoin(u[L - k + 1], items)
        /\ DirectoryRows(u) = SubSeq(t, 1, L - k)
        /\ Len(DirectoryRows(u)) = L - k
        /\ Len(u) = L - k + 1
    BY <2>1, <2>3, <2>5, <2>7 DEF kept
  <2>9. k # 0 /\ L \in Nat
    BY <1>1, <2>2
  <2> QED
    BY <2>2, <2>6, <2>8, <2>9
<1> QED
  BY <1>2, <1>3 DEF FoldedBy

\* In particular its length and its last row.
LEMMA FoldedLength ==
    ASSUME NEW items \in Nat, NEW t, PlainTable(t, items),
           NEW u, NEW k, FoldedBy(t, u, k, items)
    PROVE  /\ Len(u) = IF k = 0 THEN Len(t) ELSE Len(t) - k + 1
           /\ Len(t) \in Nat
           /\ k >= 1 => SolidJoin(u[Len(u)], items)
<1>1. /\ Len(u) = IF k = 0 THEN Len(t) ELSE Len(t) - k + 1
      /\ Len(t) \in Nat /\ k \in Nat
  BY FoldedRowsAre
<1>2. k >= 1 => SolidJoin(u[Len(t) - k + 1], items)
  BY FoldedRowsAre
<1>3. k >= 1 => k # 0
  BY <1>1
<1> QED
  BY <1>1, <1>2, <1>3

\* The table u folded once.
TailFolded(u, items) ==
    Append(SubSeq(u, 1, Len(DirectoryRows(u)) - 1),
           JoinedRow(SubSeq(u, Len(DirectoryRows(u)), Len(u)), items))

\* A table that can be folded once more is folded so, and its last row gets no
\* smaller if it was a joined one.
LEMMA TableFolds ==
    ASSUME NEW items \in Nat, NEW t, PlainTable(t, items),
           NEW u, NEW k, FoldedBy(t, u, k, items)
    PROVE  /\ CanFold(u) <=> k < MostFolds(t)
           /\ CanFold(u) =>
                 /\ FoldedBy(t, TailFolded(u, items), k + 1, items)
                 /\ k >= 1 => RowBytes(u[Len(u)])
                      <= RowBytes(TailFolded(u, items)[Len(t) - k])
<1> DEFINE L == Len(t)
           j == L - k - 1
           w == TailFolded(u, items)
<1>1. PICK S : u \in Seq(S)
  BY FoldedRowsAre
<1>2. /\ SolidRows(u, items)
      /\ k \in 0 .. MostFolds(t) /\ k <= L /\ k \in Nat
      /\ L \in Nat /\ MostFolds(t) \in Nat
      /\ Len(u) = IF k = 0 THEN L ELSE L - k + 1
      /\ \A g \in 1 .. L - k : u[g] = t[g]
      /\ k >= 1 => SolidJoin(u[L - k + 1], items)
      /\ Len(DirectoryRows(u)) = L - k
  BY FoldedRowsAre
<1>3. PICK T : t \in Seq(T)
  BY DEF PlainTable
<1>4. MostFolds(t) = IF L >= 2 THEN L - 1 ELSE 0
  BY DEF MostFolds
<1> HIDE DEF L
<1>5. CanFold(u) <=> k < MostFolds(t)
  <2>1. CanFold(u) <=> L - k >= 2
    BY <1>2 DEF CanFold
  <2> QED
    BY <1>2, <1>4, <2>1
<1>6. ASSUME CanFold(u)
      PROVE  /\ FoldedBy(t, w, k + 1, items)
             /\ k >= 1 => RowBytes(u[Len(u)]) <= RowBytes(w[L - k])
  <2>1. /\ k < MostFolds(t) /\ L - k >= 2 /\ j \in Nat /\ j + 1 = L - k
        /\ j \in 0 .. L /\ j \in 0 .. Len(u) /\ k + 1 \in 1 .. MostFolds(t)
        /\ L - (k + 1) = j
    BY <1>2, <1>4, <1>5, <1>6
  <2> HIDE DEF j
  <2> DEFINE gone == SubSeq(u, j + 1, Len(u))
             joined == JoinedRow(gone, items)
             m == Len(u) - j
  <2>2. /\ gone \in Seq(S) /\ Len(gone) = m
        /\ \A i \in 1 .. m : gone[i] = u[j + i]
    BY <1>1, <2>1, SuffixIs
  <2>3. m \in Nat /\ j + m = Len(u) /\ (k >= 1 => m = 2)
    BY <1>2, <2>1
  <2> HIDE DEF m, gone
  <2>4. SolidRows(gone, items)
    <3> SUFFICES ASSUME NEW i \in DOMAIN gone PROVE Solid(gone[i], items)
      BY DEF SolidRows
    <3>1. i \in 1 .. m /\ DOMAIN u = 1 .. Len(u) /\ Len(u) \in Nat
      BY <1>1, <2>2
    <3>2. j + i \in DOMAIN u
      BY <2>1, <2>3, <3>1
    <3> QED
      BY <1>2, <2>2, <3>1, <3>2 DEF SolidRows
  <2>5. SolidJoin(joined, items)
    BY <2>2, <2>4, JoinedIsSolid
  <2>6. k >= 1 => RowBytes(u[Len(u)]) <= RowBytes(joined)
    <3> SUFFICES ASSUME k >= 1 PROVE RowBytes(u[Len(u)]) <= RowBytes(joined)
      OBVIOUS
    <3>0. m = 2 /\ j + 2 = Len(u) /\ L - k + 1 = Len(u)
      BY <1>2, <2>1, <2>3
    <3>1. /\ m = 2 /\ 2 \in DOMAIN gone /\ gone[2] = u[j + 2]
          /\ j + 2 = Len(u) /\ L - k + 1 = Len(u)
      BY <2>2, <3>0
    <3>2. SolidJoin(gone[2], items)
      BY <1>2, <3>1
    <3>3. RowBytes(gone[2]) <= RowBytes(JoinedRow(gone, items))
      BY <2>2, <2>4, <3>1, <3>2, JoinedGrows
    <3> QED
      BY <3>1, <3>3
  <2>7. w = Append(SubSeq(t, 1, j), joined)
    <3>1. Len(DirectoryRows(u)) - 1 = j /\ Len(DirectoryRows(u)) = j + 1
      BY <1>2, <2>1
    <3>2. SubSeq(u, 1, j) = SubSeq(t, 1, j)
      <4>1. \A g \in 1 .. j : u[g] = t[g]
        BY <1>2, <2>1
      <4>2. j \in 0 .. Len(t)
        BY <2>1 DEF L
      <4> QED
        BY <1>1, <1>3, <2>1, <4>1, <4>2, PrefixesAgree
    <3> QED
      BY <3>1, <3>2 DEF TailFolded, gone
  <2>8. FoldedBy(t, w, k + 1, items)
    <3> HIDE DEF w, joined
    <3> QED
      BY <2>1, <2>5, <2>7 DEF FoldedBy, L
  <2>9. w[L - k] = joined
    <3> HIDE DEF w, joined
    <3> DEFINE kept == SubSeq(t, 1, j)
    <3>1. kept \in Seq(T) /\ Len(kept) = j
      <4>1. j \in 0 .. Len(t)
        BY <2>1 DEF L
      <4> QED
        BY <1>3, <4>1, PrefixIs
    <3>2. w = Append(kept, joined)
      BY <2>7
    <3> HIDE DEF kept
    <3>3. kept \in Seq(T \cup {joined})
      BY <3>1
    <3>4. w[j + 1] = joined
      BY <2>1, <3>1, <3>2, <3>3
    <3> QED
      BY <2>1, <3>4
  <2> QED
    BY <2>6, <2>8, <2>9
<1> QED
  BY <1>5, <1>6 DEF L

-----------------------------------------------------------------------------
(* A result on its way *)

\* A turn changes the table and what is counted as folded, if it changes any.
LEMMA FoldTailIs ==
    ASSUME NEW items \in Nat, NEW t, PlainTable(t, items),
           NEW r, {"table", "folded"} \subseteq DOMAIN r,
           NEW k, FoldedBy(t, r.table, k, items)
    PROVE  /\ ~ CanFold(r.table) => FoldTail(r, items) = r
           /\ CanFold(r.table) =>
                 /\ FoldTail(r, items).table = TailFolded(r.table, items)
                 /\ FoldTail(r, items).folded = r.folded + 1
           /\ DOMAIN FoldTail(r, items) = DOMAIN r
           /\ \A x \in DOMAIN r \ {"table", "folded"} :
                 FoldTail(r, items)[x] = r[x]
<1>1. CASE ~ CanFold(r.table)
  <2>1. FoldTail(r, items) = r
    BY <1>1 DEF FoldTail
  <2> QED
    BY <1>1, <2>1
<1>2. CASE CanFold(r.table)
  <2> DEFINE u == r.table
             n == Len(DirectoryRows(u))
             w == TailFolded(u, items)
             f == [r EXCEPT !.table = w, !.folded = @ + 1]
  <2>1. /\ n \in Nat /\ n >= 2 /\ n <= Len(u) /\ Len(u) \in Nat
    <3>1. /\ Len(t) \in Nat /\ k \in Nat /\ k <= Len(t)
          /\ Len(u) = IF k = 0 THEN Len(t) ELSE Len(t) - k + 1
          /\ n = Len(t) - k
      BY FoldedRowsAre
    <3>2. n >= 2
      BY <1>2 DEF CanFold
    <3> HIDE DEF u, n
    <3> QED
      BY <3>1, <3>2
  <2>2. (n - 1) + 1 = n /\ Shorter(u, n - 1) = SubSeq(u, 1, n - 1)
    <3> HIDE DEF n, u
    <3>1. n - 1 < Len(u) /\ (n - 1) + 1 = n
      BY <2>1
    <3> QED
      BY <3>1 DEF Shorter
  <2>3. FoldTail(r, items) = f
    <3>1. FoldTail(r, items)
            = [r EXCEPT !.table =
                  Append(Shorter(u, n - 1),
                         JoinedRow(SubSeq(u, (n - 1) + 1, Len(u)), items)),
                        !.folded = @ + 1]
      BY <1>2 DEF FoldTail
    <3>2. w = Append(Shorter(u, n - 1),
                     JoinedRow(SubSeq(u, (n - 1) + 1, Len(u)), items))
      BY <2>2 DEF TailFolded
    <3> HIDE DEF u, n, w
    <3> QED
      BY <3>1, <3>2
  <2> HIDE DEF w
  <2>4. /\ f.table = w /\ f.folded = r.folded + 1 /\ DOMAIN f = DOMAIN r
        /\ \A x \in DOMAIN r \ {"table", "folded"} : f[x] = r[x]
    OBVIOUS
  <2> QED
    BY <1>2, <2>3, <2>4 DEF w
<1> QED
  BY <1>1, <1>2

\* The tables that come of t, one fold after the other.
Tables(T, t, items) ==
    T[0] = t /\ \A k \in 1 .. MostFolds(t) : T[k] = TailFolded(T[k - 1], items)

\* Each is t after so many folds, and a joined row gets no smaller.
LEMMA TablesAre ==
    ASSUME NEW items \in Nat, NEW t, PlainTable(t, items),
           NEW T, Tables(T, t, items)
    PROVE  /\ MostFolds(t) \in Nat
           /\ \A k \in 0 .. MostFolds(t) :
                 /\ FoldedBy(t, T[k], k, items)
                 /\ CanFold(T[k]) <=> k < MostFolds(t)
           /\ \A k \in 1 .. MostFolds(t) - 1 :
                 RowBytes(T[k][Len(T[k])]) <= RowBytes(T[k + 1][Len(T[k + 1])])
<1> DEFINE m == MostFolds(t)
           bad == {k \in 0 .. m : ~ FoldedBy(t, T[k], k, items)}
<1>0. FoldedBy(t, T[0], 0, items)
  BY DEF Tables, FoldedBy
<1>1. m \in Nat
  BY <1>0, FoldedRowsAre
<1>2. bad = {}
  <2> SUFFICES ASSUME bad # {} PROVE FALSE
    OBVIOUS
  <2>0. bad \in SUBSET Nat
    BY <1>1
  <2>1. PICK k \in bad : \A j \in bad : k <= j
    <3> HIDE DEF bad
    <3> QED
      BY <2>0, SmallestNumber
  <2>2. k \in 0 .. m /\ ~ FoldedBy(t, T[k], k, items)
    OBVIOUS
  <2>3. k # 0
    BY <1>0, <2>2
  <2>4. k - 1 \in 0 .. m /\ ~ (k <= k - 1) /\ k \in 1 .. m /\ (k - 1) + 1 = k
        /\ k - 1 < m
    BY <1>1, <2>2, <2>3
  <2>5. FoldedBy(t, T[k - 1], k - 1, items)
    BY <2>1, <2>4
  <2>6. FoldedBy(t, TailFolded(T[k - 1], items), (k - 1) + 1, items)
    BY <2>4, <2>5, TableFolds
  <2>7. T[k] = TailFolded(T[k - 1], items)
    BY <2>4 DEF Tables
  <2> QED
    BY <2>2, <2>4, <2>6, <2>7
<1>3. \A k \in 0 .. m : FoldedBy(t, T[k], k, items)
  BY <1>2
<1>4. \A k \in 0 .. m : CanFold(T[k]) <=> k < m
  BY <1>3, TableFolds
<1>5. ASSUME NEW k \in 1 .. m - 1
      PROVE  RowBytes(T[k][Len(T[k])]) <= RowBytes(T[k + 1][Len(T[k + 1])])
  <2>1. /\ k \in 0 .. m /\ k >= 1 /\ k < m /\ k + 1 \in 1 .. m
        /\ k + 1 \in 0 .. m /\ (k + 1) - 1 = k
    BY <1>1
  <2>2. FoldedBy(t, T[k], k, items) /\ FoldedBy(t, T[k + 1], k + 1, items)
    BY <1>3, <2>1
  <2>3. T[k + 1] = TailFolded(T[k], items)
    BY <2>1 DEF Tables
  <2>4. CanFold(T[k])
    BY <1>4, <2>1
  <2>5. RowBytes(T[k][Len(T[k])]) <= RowBytes(T[k + 1][Len(t) - k])
    BY <2>1, <2>2, <2>3, <2>4, TableFolds
  <2>6. Len(T[k + 1]) = Len(t) - k
    <3> DEFINE u == T[k + 1]
               j == k + 1
    <3>1. FoldedBy(t, u, j, items) /\ j # 0
      BY <2>1, <2>2
    <3> HIDE DEF u, j
    <3>2. /\ Len(u) = IF j = 0 THEN Len(t) ELSE Len(t) - j + 1
          /\ Len(t) \in Nat
      BY <3>1, FoldedLength
    <3>3. Len(u) = Len(t) - j + 1
      BY <3>1, <3>2
    <3> QED
      BY <2>1, <3>2, <3>3 DEF u, j
  <2> QED
    BY <2>5, <2>6
<1> QED
  BY <1>1, <1>3, <1>4, <1>5

\* Turn after turn, as long as there are rows.
LEMMA TurnsFold ==
    ASSUME NEW r, NEW items, Len(r.table) \in Nat
    PROVE  \E f : f[0] = r /\ \A i \in 1 .. Len(r.table) :
                  f[i] = FoldTail(f[i - 1], items)
<1>1. ASSUME NEW n
      PROVE  \E f : /\ f[0] = r
                    /\ \A i \in 1 .. Len(r.table) :
                          f[i] = IF i > n THEN f[i - 1]
                                 ELSE FoldTail(f[i - 1], items)
  <2> DEFINE m == Len(r.table)
  <2>0. m \in Nat
    OBVIOUS
  <2>1. PICK f :
         /\ f[0] = r
         /\ \A i \in 1 .. m : f[i] = IF i > n THEN f[i - 1]
                                     ELSE FoldTail(f[i - 1], items)
         /\ FoldRows(r, n, items) = f[m]
    BY <2>0, FoldRowsIs
  <2> QED
    BY <2>1
<1>2. PICK f : /\ f[0] = r
               /\ \A i \in 1 .. Len(r.table) :
                     f[i] = IF i > Len(r.table) THEN f[i - 1]
                            ELSE FoldTail(f[i - 1], items)
  BY <1>1
<1>3. \A i \in 1 .. Len(r.table) : ~ (i > Len(r.table))
  OBVIOUS
<1> QED
  BY <1>2, <1>3

\* There are such tables.
LEMMA TablesThereAre ==
    ASSUME NEW items \in Nat, NEW t, PlainTable(t, items)
    PROVE  \E T : Tables(T, t, items)
<1> DEFINE r == [table |-> t, folded |-> 0]
           m == MostFolds(t)
<1>1. FoldedBy(t, r.table, 0, items) /\ r.table = t
  BY DEF FoldedBy
<1>2. Len(t) \in Nat /\ m \in Nat /\ m <= Len(t)
  <2>1. Len(t) \in Nat
    BY <1>1, FoldedRowsAre
  <2> QED
    BY <2>1 DEF MostFolds
<1>3. PICK f : f[0] = r /\ \A i \in 1 .. Len(r.table) :
                               f[i] = FoldTail(f[i - 1], items)
  <2>1. Len(r.table) \in Nat
    BY <1>1, <1>2
  <2> HIDE DEF r
  <2> QED
    BY <2>1, TurnsFold
<1> DEFINE ok(k) == /\ {"table", "folded"} \subseteq DOMAIN f[k]
                    /\ FoldedBy(t, f[k].table, k, items)
           bad == {k \in 0 .. m : ~ ok(k)}
           T == [k \in 0 .. m |-> f[k].table]
<1>4. \A i \in 1 .. m : f[i] = FoldTail(f[i - 1], items)
  <2> TAKE i \in 1 .. m
  <2>1. i \in 1 .. Len(r.table)
    BY <1>1, <1>2
  <2> QED
    BY <1>3, <2>1
<1>5. ASSUME NEW k \in 1 .. m, ok(k - 1)
      PROVE  ok(k) /\ f[k].table = TailFolded(f[k - 1].table, items)
  <2> DEFINE q == f[k - 1]
  <2>1. /\ {"table", "folded"} \subseteq DOMAIN q
        /\ FoldedBy(t, q.table, k - 1, items)
    BY <1>5
  <2>2. f[k] = FoldTail(q, items)
    BY <1>4
  <2>3. k - 1 < m /\ (k - 1) + 1 = k
    BY <1>2
  <2> HIDE DEF q
  <2>4. CanFold(q.table) /\ FoldedBy(t, TailFolded(q.table, items), k, items)
    BY <2>1, <2>3, TableFolds
  <2>5. /\ FoldTail(q, items).table = TailFolded(q.table, items)
        /\ DOMAIN FoldTail(q, items) = DOMAIN q
    BY <2>1, <2>4, FoldTailIs
  <2> QED
    BY <2>1, <2>2, <2>4, <2>5 DEF q
<1>6. bad = {}
  <2> SUFFICES ASSUME bad # {} PROVE FALSE
    OBVIOUS
  <2>0. bad \in SUBSET Nat
    BY <1>2
  <2>1. PICK k \in bad : \A j \in bad : k <= j
    <3> HIDE DEF bad
    <3> QED
      BY <2>0, SmallestNumber
  <2>2. k \in 0 .. m /\ ~ ok(k)
    OBVIOUS
  <2>3. ok(0)
    BY <1>1, <1>3
  <2>4. k # 0
    BY <2>2, <2>3
  <2>5. k - 1 \in 0 .. m /\ ~ (k <= k - 1) /\ k \in 1 .. m
    BY <1>2, <2>2, <2>4
  <2>6. ok(k - 1)
    BY <2>1, <2>5
  <2> HIDE DEF ok
  <2> QED
    BY <1>5, <2>2, <2>5, <2>6
<1>7. T[0] = t
  BY <1>1, <1>2, <1>3
<1>8. \A k \in 1 .. m : T[k] = TailFolded(T[k - 1], items)
  <2> TAKE k \in 1 .. m
  <2>1. k - 1 \in 0 .. m /\ k \in 0 .. m
    BY <1>2
  <2>2. ok(k - 1)
    BY <1>6, <2>1
  <2>3. f[k].table = TailFolded(f[k - 1].table, items)
    <3> HIDE DEF ok
    <3> QED
      BY <1>5, <2>2
  <2> QED
    BY <2>1, <2>3
<1> HIDE DEF T
<1> QED
  BY <1>7, <1>8 DEF Tables

-----------------------------------------------------------------------------
(* What is reached *)

\* The smaller of two numbers.
Lesser(a, b) == IF a < b THEN a ELSE b

\* A result of which n findings are left and k rows have been folded.
Reached(start, T, r, n, k) ==
    /\ Shape(r) /\ FindingsAre(start, r, n)
    /\ k \in 0 .. MostFolds(start.table)
    /\ r.table = T[k] /\ r.folded = start.folded + k
    /\ r.warnings = InByteOrder(Image(start.warnings))

\* Tables that can be reached from what was given.
Foldable(start, T, items) ==
    /\ start.folded \in Nat
    /\ PlainTable(start.table, items)
    /\ Tables(T, start.table, items)

\* A turn folds a row if one can be folded.
LEMMA FoldTailReaches ==
    ASSUME NEW items \in Nat, NEW start, NEW T, Foldable(start, T, items),
           NEW r, NEW n, NEW k, Reached(start, T, r, n, k)
    PROVE  Reached(start, T, FoldTail(r, items), n,
                   Lesser(k + 1, MostFolds(start.table)))
<1> DEFINE t == start.table
           m == MostFolds(t)
           f == FoldTail(r, items)
<1>1. /\ PlainTable(t, items) /\ Tables(T, t, items) /\ start.folded \in Nat
  BY DEF Foldable
<1>2. /\ Shape(r) /\ FindingsAre(start, r, n) /\ k \in 0 .. m
      /\ r.table = T[k] /\ r.folded = start.folded + k
      /\ r.warnings = InByteOrder(Image(start.warnings))
  BY DEF Reached
<1>3. m \in Nat /\ FoldedBy(t, T[k], k, items) /\ (CanFold(T[k]) <=> k < m)
  BY <1>1, <1>2, TablesAre
<1>4. {"table", "folded"} \subseteq DOMAIN r /\ FoldedBy(t, r.table, k, items)
  BY <1>2, <1>3 DEF Shape
<1> HIDE DEF t, m
<1>5. /\ ~ CanFold(r.table) => f = r
      /\ CanFold(r.table) => /\ f.table = TailFolded(r.table, items)
                             /\ f.folded = r.folded + 1
      /\ DOMAIN f = DOMAIN r
      /\ \A x \in DOMAIN r \ {"table", "folded"} : f[x] = r[x]
  BY <1>1, <1>4, FoldTailIs
<1> HIDE DEF f
<1>6. CASE k < m
  <2>1. k + 1 \in 0 .. m /\ k + 1 \in 1 .. m /\ (k + 1) - 1 = k /\ k \in Nat
        /\ Lesser(k + 1, m) = k + 1
    BY <1>2, <1>3, <1>6 DEF Lesser
  <2>2. T[k + 1] = TailFolded(T[k], items)
    BY <1>1, <2>1 DEF Tables, m
  <2>3. f.table = T[k + 1] /\ f.folded = start.folded + (k + 1)
    <3>1. f.table = TailFolded(r.table, items) /\ f.folded = r.folded + 1
      BY <1>2, <1>3, <1>5, <1>6
    <3>2. start.folded + k + 1 = start.folded + (k + 1)
      BY <1>1, <2>1
    <3> QED
      BY <1>2, <2>2, <3>1, <3>2
  <2>4. /\ f.findings = r.findings /\ f.omitted = r.omitted
        /\ f.truncated = r.truncated /\ f.warnings = r.warnings
    BY <1>2, <1>5 DEF Shape
  <2>5. FindingsAre(start, f, n)
    BY <1>2, <2>4 DEF FindingsAre
  <2>6. Shape(f)
    BY <1>2, <1>5 DEF Shape
  <2> QED
    BY <1>2, <2>1, <2>3, <2>4, <2>5, <2>6 DEF Reached, f, m, t
<1>7. CASE ~ (k < m)
  <2>1. f = r
    BY <1>2, <1>3, <1>5, <1>7
  <2>2. Lesser(k + 1, m) = k
    BY <1>2, <1>3, <1>7 DEF Lesser
  <2> QED
    BY <2>1, <2>2 DEF f, m, t
<1> QED
  BY <1>6, <1>7

\* Folding goes as far as it is asked to, or as it can.
LEMMA FoldRowsReaches ==
    ASSUME NEW items \in Nat, NEW start, NEW T, Foldable(start, T, items),
           NEW r, NEW n, NEW k, Reached(start, T, r, n, k), NEW count \in Nat
    PROVE  Reached(start, T, FoldRows(r, count, items), n,
                   Lesser(k + count, MostFolds(start.table)))
<1> DEFINE t == start.table
           most == MostFolds(t)
           m == Len(r.table)
           at2(i) == Lesser(k + Lesser(i, count), most)
<1>1. /\ PlainTable(t, items) /\ Tables(T, t, items)
  BY DEF Foldable
<1>2. k \in 0 .. most /\ r.table = T[k]
  BY DEF Reached
<1>3. most \in Nat /\ FoldedBy(t, T[k], k, items)
  BY <1>1, <1>2, TablesAre
<1>4. /\ m \in Nat /\ k \in Nat /\ k + m >= most
  <2>1. /\ Len(t) \in Nat /\ k \in Nat /\ k <= Len(t)
        /\ m = IF k = 0 THEN Len(t) ELSE Len(t) - k + 1
    BY <1>1, <1>2, <1>3, FoldedRowsAre
  <2>2. most <= Len(t)
    BY <2>1 DEF MostFolds
  <2> HIDE DEF most, m, t
  <2> QED
    BY <1>3, <2>1, <2>2
<1>5. PICK f :
         /\ f[0] = r
         /\ \A i \in 1 .. m : f[i] = IF i > count THEN f[i - 1]
                                     ELSE FoldTail(f[i - 1], items)
         /\ FoldRows(r, count, items) = f[m]
  BY <1>4, FoldRowsIs
<1> DEFINE ok(i) == Reached(start, T, f[i], n, at2(i))
           bad == {i \in Nat : i <= m /\ ~ ok(i)}
<1>6. ok(0)
  <2>1. at2(0) = k
    <3> HIDE DEF most
    <3> QED
      BY <1>2, <1>3, <1>4 DEF Lesser
  <2> QED
    BY <1>5, <2>1
<1> HIDE DEF m, most
<1>7. ASSUME NEW i \in 1 .. m, ok(i - 1)
      PROVE  ok(i)
  <2> DEFINE j == i - 1
             a == at2(j)
             q == f[j]
  <2>1. Reached(start, T, q, n, a)
    BY <1>7
  <2>2. j \in Nat /\ i = j + 1 /\ i \in Nat
    BY <1>4
  <2>3. CASE i > count
    <3>1. at2(i) = at2(j)
      BY <1>4, <2>2, <2>3 DEF Lesser
    <3>2. f[i] = f[j]
      BY <1>5, <2>3
    <3> QED
      BY <2>1, <3>1, <3>2
  <2>4. CASE ~ (i > count)
    <3>1. at2(i) = Lesser(a + 1, most)
      BY <1>3, <1>4, <2>2, <2>4 DEF Lesser
    <3>2. f[i] = FoldTail(q, items)
      BY <1>5, <2>4
    <3> HIDE DEF at2, a, q
    <3>3. Reached(start, T, FoldTail(q, items), n,
                  Lesser(a + 1, MostFolds(start.table)))
      BY <2>1, FoldTailReaches
    <3> QED
      BY <3>1, <3>2, <3>3 DEF most
  <2> QED
    BY <2>3, <2>4
<1>8. bad = {}
  <2> SUFFICES ASSUME bad # {} PROVE FALSE
    OBVIOUS
  <2>0. bad \in SUBSET Nat
    OBVIOUS
  <2>1. PICK i \in bad : \A j \in bad : i <= j
    <3> HIDE DEF bad
    <3> QED
      BY <2>0, SmallestNumber
  <2> HIDE DEF ok
  <2>2. i \in Nat /\ i <= m /\ ~ ok(i)
    OBVIOUS
  <2>3. i # 0
    BY <1>6, <2>2
  <2>4. i - 1 \in Nat /\ i - 1 <= m /\ ~ (i <= i - 1) /\ i \in 1 .. m
    BY <1>4, <2>2, <2>3
  <2>5. ok(i - 1)
    BY <2>1, <2>4
  <2> QED
    BY <1>7, <2>2, <2>4, <2>5
<1>9. ok(m)
  <2> HIDE DEF ok
  <2> QED
    BY <1>4, <1>8
<1>10. at2(m) = Lesser(k + count, most)
  BY <1>3, <1>4 DEF Lesser
<1> HIDE DEF at2
<1> QED
  BY <1>5, <1>9, <1>10 DEF m, most

\* The last finding can be dropped wherever it is.
LEMMA DropLastReaches ==
    ASSUME NEW start, start.findings \in Seq(Findings), start.omitted \in Nat,
           NEW T, NEW r, NEW n, NEW k, Reached(start, T, r, n, k), n >= 1
    PROVE  Reached(start, T, DropLast(r), n - 1, k)
<1>1. Shape(r) /\ FindingsAre(start, r, n)
  BY DEF Reached
<1> DEFINE f == DropLast(r)
           m == n - 1
<1>2. /\ Shape(f) /\ FindingsAre(start, f, m)
      /\ f.warnings = r.warnings /\ f.table = r.table /\ f.folded = r.folded
  BY <1>1, DropLastIs
<1> HIDE DEF f, m
<1>3. Reached(start, T, f, m, k)
  BY <1>2 DEF Reached
<1> QED
  BY <1>3 DEF f, m

\* What is divided by a number.
LEMMA DivisionIs ==
    ASSUME NEW a \in Nat, NEW b \in Nat, b >= 1
    PROVE  /\ a \div b \in Nat
           /\ (a \div b) * b <= a
OBVIOUS

\* After fewer folds than were estimated, rows of one size still take more than
\* there is to save.
LEMMA EstimateIsLow ==
    ASSUME NEW bytes \in Nat, NEW excess \in Nat, excess < bytes,
           NEW rows \in Nat, rows >= 1, NEW size \in Nat, size >= 1,
           (rows - 1) * size <= bytes,
           NEW count \in Nat, count * bytes <= excess * rows,
           NEW d \in Nat, d < count
    PROVE  d * size < excess
<1>1. count < rows
  <2> SUFFICES ASSUME rows <= count PROVE FALSE
    OBVIOUS
  <2>1. rows * bytes <= count * bytes
    OBVIOUS
  <2>2. excess * rows < rows * bytes
    OBVIOUS
  <2> QED
    BY <2>1, <2>2
<1>2. SUFFICES ASSUME excess <= d * size PROVE FALSE
  OBVIOUS
<1>3. d * size <= (count - 1) * size
  OBVIOUS
<1>4. excess * rows <= ((count - 1) * size) * rows
  <2> DEFINE x == (count - 1) * size
  <2>1. x \in Nat /\ excess <= x
    BY <1>2, <1>3
  <2> HIDE DEF x
  <2>2. excess * rows <= x * rows
    BY <2>1
  <2> QED
    BY <2>2 DEF x
<1>5. count * ((rows - 1) * size) <= count * bytes
  <2> DEFINE x == (rows - 1) * size
  <2>1. x \in Nat /\ x <= bytes
    OBVIOUS
  <2> HIDE DEF x
  <2>2. count * x <= count * bytes
    BY <2>1
  <2> QED
    BY <2>2 DEF x
<1>6. count * ((rows - 1) * size) = count * rows * size - count * size
  OBVIOUS
<1>7. ((count - 1) * size) * rows = count * rows * size - rows * size
  OBVIOUS
<1>8. rows * size <= count * size
  <2> DEFINE x == count * rows * size
             y == count * size
             z == rows * size
             u == count * bytes
             v == excess * rows
  <2>1. x \in Nat /\ y \in Nat /\ z \in Nat /\ u \in Nat /\ v \in Nat
    OBVIOUS
  <2>2. u <= v /\ v <= x - z /\ x - y <= u
    BY <1>4, <1>5, <1>6, <1>7
  <2> HIDE DEF x, y, z, u, v
  <2> QED
    BY <2>1, <2>2 DEF y, z
<1>9. count * size < rows * size
  BY <1>1
<1> QED
  BY <1>8, <1>9

-----------------------------------------------------------------------------
(* How many bytes a fold saves *)

\* The sizes of the rows of a table, and their sum.
TableSizes(u) == [g \in DOMAIN u |-> RowBytes(u[g])]
TableSize(u)  == SumOn(TableSizes(u), DOMAIN u)

\* It is a number.
LEMMA TableSizeIs ==
    ASSUME NEW S, NEW u \in Seq(S), NEW items, SolidRows(u, items)
    PROVE  /\ IsFiniteSet(DOMAIN u) /\ TableSize(u) \in Nat
           /\ Weights(TableSizes(u), DOMAIN u)
<1>1. IsFiniteSet(DOMAIN u)
  BY PlacesOf
<1>2. \A g \in DOMAIN u : TableSizes(u)[g] \in Nat
  BY RowSizeIs DEF SolidRows, TableSizes
<1> QED
  BY <1>1, <1>2, SumIsNat DEF TableSize, Weights

\* Rows of one size, and perhaps one more.
LEMMA EvenRows ==
    ASSUME NEW S, NEW u \in Seq(S), NEW items, SolidRows(u, items),
           NEW n \in Nat, n <= Len(u), Len(u) <= n + 1, NEW s \in Nat,
           \A g \in 1 .. n : RowBytes(u[g]) = s
    PROVE  TableSize(u)
             = n * s + IF Len(u) = n THEN 0 ELSE RowBytes(u[Len(u)])
<1> DEFINE w == TableSizes(u)
           c == [g \in 1 .. n |-> s]
<1>1. /\ IsFiniteSet(DOMAIN u) /\ Weights(w, DOMAIN u)
      /\ TableSize(u) = SumOn(w, DOMAIN u)
  BY TableSizeIs DEF TableSize
<1>2. /\ DOMAIN u = 1 .. Len(u) /\ Len(u) \in Nat
      /\ \A g \in DOMAIN u : w[g] = RowBytes(u[g])
  BY DEF TableSizes
<1>3. IsFiniteSet(1 .. n) /\ Cardinality(1 .. n) = n
  BY NumbersUpTo
<1>4. SumOn(c, 1 .. n) = s * n /\ Weights(c, 1 .. n)
  BY <1>3, SumOfConstant
<1>5. s * n = n * s
  OBVIOUS
<1>6. 1 .. n \subseteq DOMAIN u
  BY <1>2
<1>7. \A g \in 1 .. n : w[g] = c[g]
  BY <1>2, <1>6
<1> HIDE DEF w, c
<1>8. SumOn(w, 1 .. n) = n * s
  <2>1. SumOn(w, 1 .. n) = SumOn(c, 1 .. n)
    BY <1>3, <1>4, <1>7, SumOfSame
  <2> QED
    BY <1>4, <1>5, <2>1
<1>9. CASE Len(u) = n
  BY <1>1, <1>2, <1>8, <1>9
<1>10. CASE Len(u) # n
  <2>0. Len(u) = n + 1
    <3> DEFINE l == Len(u)
    <3>1. l \in Nat /\ n \in Nat /\ n <= l /\ l <= n + 1 /\ l # n
      BY <1>2, <1>10
    <3> HIDE DEF l
    <3>2. l = n + 1
      BY <3>1
    <3> QED
      BY <3>2 DEF l
  <2> DEFINE D == DOMAIN u
             x == Len(u)
  <2>1. x = n + 1 /\ x \in D /\ D \ {x} = 1 .. n
    <3>1. (1 .. n + 1) \ {n + 1} = 1 .. n /\ n + 1 \in 1 .. n + 1
      OBVIOUS
    <3> QED
      BY <1>2, <2>0, <3>1
  <2>2. IsFiniteSet(D) /\ \A g \in D : w[g] \in Nat
    BY <1>1 DEF Weights
  <2> HIDE DEF D, x
  <2>3. SumOn(w, D) = w[x] + SumOn(w, D \ {x}) /\ w[x] \in Nat
    BY <2>1, <2>2, SumWithout
  <2>4. TableSize(u) = w[x] + n * s
    BY <1>1, <1>8, <2>1, <2>3 DEF D
  <2>5. w[x] = RowBytes(u[Len(u)])
    BY <1>2, <2>1 DEF D, x
  <2>6. n * s \in Nat
    OBVIOUS
  <2>7. w[x] + n * s = n * s + w[x]
    BY <2>3, <2>6
  <2> QED
    BY <1>10, <2>4, <2>5, <2>7
<1> QED
  BY <1>9, <1>10

\* The size of the joined row after so many folds.
JoinedSize(T, k) == IF k = 0 THEN 0 ELSE RowBytes(T[k][Len(T[k])])

\* It does not fall.
LEMMA JoinedSizesRise ==
    ASSUME NEW items \in Nat, NEW t, PlainTable(t, items),
           NEW T, Tables(T, t, items), NEW a \in 0 .. MostFolds(t)
    PROVE  \A b \in 0 .. MostFolds(t) :
              /\ JoinedSize(T, b) \in Nat
              /\ a <= b => JoinedSize(T, a) <= JoinedSize(T, b)
<1> DEFINE m == MostFolds(t)
           J(k) == JoinedSize(T, k)
<1>1. /\ m \in Nat /\ \A k \in 0 .. m : FoldedBy(t, T[k], k, items)
      /\ \A k \in 1 .. m - 1 :
            RowBytes(T[k][Len(T[k])]) <= RowBytes(T[k + 1][Len(T[k + 1])])
  BY TablesAre
<1>2. ASSUME NEW b \in 0 .. m
      PROVE  J(b) \in Nat
  <2>1. CASE b = 0
    BY <2>1 DEF JoinedSize
  <2>2. CASE b # 0
    <3> DEFINE u == T[b]
    <3>1. FoldedBy(t, u, b, items)
      BY <1>1
    <3>2. b >= 1 /\ b \in Nat
      BY <1>1, <2>2
    <3> HIDE DEF u
    <3>3. SolidJoin(u[Len(u)], items)
      BY <3>1, <3>2, FoldedLength
    <3>4. Solid(u[Len(u)], items)
      BY <3>3 DEF SolidJoin
    <3>5. RowBytes(u[Len(u)]) \in Nat
      BY <3>4, RowSizeIs
    <3> QED
      BY <2>2, <3>5 DEF JoinedSize, u
  <2> QED
    BY <2>1, <2>2
<1>3. ASSUME NEW b \in 1 .. m
      PROVE  J(b - 1) <= J(b)
  <2>1. b - 1 \in 0 .. m /\ b \in 0 .. m
    BY <1>1
  <2>2. J(b - 1) \in Nat /\ J(b) \in Nat
    BY <1>2, <2>1
  <2>3. CASE b = 1
    <3>1. J(b - 1) = 0
      BY <2>3 DEF JoinedSize
    <3> HIDE DEF J
    <3> QED
      BY <2>2, <3>1
  <2>4. CASE b # 1
    <3> DEFINE j == b - 1
    <3>1. j \in 1 .. m - 1 /\ b = j + 1 /\ j # 0 /\ b # 0
      BY <1>1, <2>4
    <3> HIDE DEF j
    <3>2. RowBytes(T[j][Len(T[j])]) <= RowBytes(T[j + 1][Len(T[j + 1])])
      BY <1>1, <3>1
    <3>3. J(j) = RowBytes(T[j][Len(T[j])]) /\ J(b) = RowBytes(T[b][Len(T[b])])
      BY <3>1 DEF JoinedSize
    <3> QED
      BY <3>1, <3>2, <3>3 DEF j
  <2> QED
    BY <2>3, <2>4
<1> HIDE DEF m, J
<1> DEFINE bad == {b \in Nat : b \in 0 .. m /\ a <= b /\ ~ (J(a) <= J(b))}
<1>4. bad = {}
  <2> SUFFICES ASSUME bad # {} PROVE FALSE
    OBVIOUS
  <2>0. bad \in SUBSET Nat
    OBVIOUS
  <2>1. PICK b \in bad : \A j \in bad : b <= j
    <3> HIDE DEF bad
    <3> QED
      BY <2>0, SmallestNumber
  <2>2. b \in Nat /\ b \in 0 .. m /\ a <= b /\ ~ (J(a) <= J(b)) /\ a \in 0 .. m
    BY DEF m
  <2>3. J(a) \in Nat /\ J(b) \in Nat
    BY <1>2, <2>2
  <2>4. a # b
    BY <2>2, <2>3
  <2>5. b - 1 \in Nat /\ b - 1 \in 0 .. m /\ a <= b - 1 /\ ~ (b <= b - 1)
        /\ b \in 1 .. m
    BY <1>1, <2>2, <2>4
  <2>6. J(a) <= J(b - 1)
    BY <2>1, <2>5
  <2>7. J(b - 1) <= J(b) /\ J(b - 1) \in Nat
    BY <1>2, <1>3, <2>5
  <2> QED
    BY <2>2, <2>3, <2>6, <2>7
<1>5. \A b \in 0 .. m : b \in Nat /\ (a <= b => J(a) <= J(b))
  BY <1>1, <1>4
<1> QED
  BY <1>2, <1>5 DEF m, J

\* The rows of a table are of one size.
Even(t, s) == s \in Nat /\ \A g \in DOMAIN t : RowBytes(t[g]) = s

\* The size of a table after so many folds.
LEMMA FoldedSize ==
    ASSUME NEW items \in Nat, NEW t, PlainTable(t, items), NEW s, Even(t, s),
           NEW u, NEW k, FoldedBy(t, u, k, items)
    PROVE  /\ TableSize(u)
                = (Len(t) - k) * s + IF k = 0 THEN 0 ELSE RowBytes(u[Len(u)])
           /\ k \in Nat /\ k <= Len(t)
           /\ Len(u) = IF k = 0 THEN Len(t) ELSE Len(t) - k + 1
<1> DEFINE l == Len(t)
           n == l - k
<1>1. PICK S : u \in Seq(S)
  BY FoldedRowsAre
<1>2. /\ SolidRows(u, items) /\ k <= l /\ k \in Nat
      /\ Len(u) = IF k = 0 THEN l ELSE l - k + 1
      /\ \A g \in 1 .. l - k : u[g] = t[g]
  BY FoldedRowsAre
<1>3. l \in Nat /\ DOMAIN t = 1 .. l /\ s \in Nat
  BY DEF PlainTable, Even
<1> HIDE DEF l
<1>4. /\ n \in Nat /\ n <= Len(u) /\ Len(u) <= n + 1
      /\ (Len(u) = n <=> k = 0) /\ 1 .. n \subseteq DOMAIN t
  BY <1>2, <1>3
<1>5. \A g \in 1 .. n : RowBytes(u[g]) = s
  BY <1>2, <1>4 DEF Even
<1> HIDE DEF n
<1>6. TableSize(u)
        = n * s + IF Len(u) = n THEN 0 ELSE RowBytes(u[Len(u)])
  BY <1>1, <1>2, <1>3, <1>4, <1>5, EvenRows
<1> QED
  BY <1>2, <1>4, <1>6 DEF n, l

\* A fold saves no more than one row.
LEMMA FoldsSave ==
    ASSUME NEW items \in Nat, NEW t, PlainTable(t, items),
           NEW T, Tables(T, t, items), NEW s, Even(t, s),
           NEW a \in 0 .. MostFolds(t), NEW b \in 0 .. MostFolds(t), a <= b
    PROVE  /\ TableSize(T[a]) \in Nat /\ TableSize(T[b]) \in Nat
           /\ TableSize(T[a]) <= TableSize(T[b]) + (b - a) * s
           /\ Len(T[a]) \in Nat /\ (Len(T[a]) - 1) * s <= TableSize(T[a])
<1> DEFINE m == MostFolds(t)
           l == Len(t)
<1>1. /\ m \in Nat /\ \A k \in 0 .. m : FoldedBy(t, T[k], k, items)
  BY TablesAre
<1>2. l \in Nat /\ DOMAIN t = 1 .. l /\ s \in Nat
  BY DEF PlainTable, Even
<1>3. ASSUME NEW k \in 0 .. m
      PROVE  /\ TableSize(T[k]) = (l - k) * s + JoinedSize(T, k)
             /\ JoinedSize(T, k) \in Nat
             /\ k \in Nat /\ k <= l
             /\ Len(T[k]) = IF k = 0 THEN l ELSE l - k + 1
  <2> DEFINE u == T[k]
  <2>1. FoldedBy(t, u, k, items)
    BY <1>1
  <2>2. JoinedSize(T, k) = IF k = 0 THEN 0 ELSE RowBytes(u[Len(u)])
    BY DEF JoinedSize
  <2>3. JoinedSize(T, k) \in Nat
    BY JoinedSizesRise
  <2> HIDE DEF u
  <2>4. /\ TableSize(u)
             = (Len(t) - k) * s + IF k = 0 THEN 0 ELSE RowBytes(u[Len(u)])
        /\ k \in Nat /\ k <= Len(t)
        /\ Len(u) = IF k = 0 THEN Len(t) ELSE Len(t) - k + 1
    BY <2>1, FoldedSize
  <2> QED
    BY <2>2, <2>3, <2>4 DEF u
<1>4. JoinedSize(T, a) <= JoinedSize(T, b)
  BY JoinedSizesRise
<1> DEFINE x == l - b
           y == b - a
           i == JoinedSize(T, a)
           j == JoinedSize(T, b)
<1>5. /\ TableSize(T[a]) = (l - a) * s + i /\ i \in Nat
      /\ TableSize(T[b]) = (l - b) * s + j /\ j \in Nat
      /\ a \in Nat /\ a <= l /\ b \in Nat /\ b <= l
      /\ Len(T[a]) = IF a = 0 THEN l ELSE l - a + 1
  BY <1>3
<1> HIDE DEF l
<1>6. x \in Nat /\ y \in Nat /\ l - a = x + y
  BY <1>2, <1>5
<1>7. i <= j
  BY <1>4
<1>8. TableSize(T[a]) = (x + y) * s + i /\ TableSize(T[b]) = x * s + j
  BY <1>5, <1>6
<1> HIDE DEF x, y, i, j
<1>9. (x + y) * s = x * s + y * s /\ x * s \in Nat /\ y * s \in Nat
  BY <1>2, <1>6
<1>10. /\ TableSize(T[a]) \in Nat /\ TableSize(T[b]) \in Nat
       /\ TableSize(T[a]) <= TableSize(T[b]) + y * s
  BY <1>5, <1>7, <1>8, <1>9
<1>11. Len(T[a]) \in Nat /\ (Len(T[a]) - 1) * s <= TableSize(T[a])
  <2> DEFINE n == Len(T[a])
             z == x + y
  <2>1. /\ n \in Nat /\ (n = z \/ n = z + 1) /\ z \in Nat
        /\ TableSize(T[a]) = z * s + i
    BY <1>2, <1>5, <1>6, <1>8
  <2> HIDE DEF n, z
  <2>2. z * s \in Nat /\ (z - 1) * s = z * s - s /\ (z + 1) - 1 = z
    BY <1>2, <2>1
  <2>3. (n - 1) * s <= z * s + i
    <3>1. CASE n = z
      <4>1. (n - 1) * s = z * s - s
        BY <2>2, <3>1
      <4> QED
        BY <1>2, <1>5, <2>2, <4>1
    <3>2. CASE n = z + 1
      <4>1. (n - 1) * s = z * s
        BY <2>2, <3>2
      <4> QED
        BY <1>5, <2>2, <4>1
    <3> QED
      BY <2>1, <3>1, <3>2
  <2> QED
    BY <2>1, <2>3 DEF n
<1> QED
  BY <1>10, <1>11 DEF y

-----------------------------------------------------------------------------
(* The size of what is reached *)

\* What the findings take, as characters and as bytes.
TextOf(findings) == Total(DOMAIN findings, LAMBDA i : findings[i].text)
BytesOf(findings) ==
    Total(DOMAIN findings, LAMBDA i :
        findings[i].bytes + Digits(findings[i].rank))

\* What the fields take that folding leaves alone.
OtherBytes(r) ==
    FrameBytes + Digits(Len(r.findings)) + Digits(r.omitted)
        + Digits(Characters(r)) + (IF r.truncated THEN 4 ELSE 5)
        + Len(r.warnings) + BytesOf(r.findings)

\* These are numbers.
LEMMA FindingSizesAre ==
    ASSUME NEW findings \in Seq(Findings)
    PROVE  /\ TextOf(findings) \in Nat /\ BytesOf(findings) \in Nat
           /\ Digits(Len(findings)) \in Nat
<1> DEFINE D == DOMAIN findings
           w == [i \in D |-> findings[i].text]
           v == [i \in D |-> findings[i].bytes + Digits(findings[i].rank)]
<1>1. /\ IsFiniteSet(D)
      /\ \A i \in D : findings[i] \in Findings
  BY PlacesOf
<1>2. \A i \in D : w[i] \in Nat
  BY <1>1 DEF Findings
<1>3. \A i \in D : v[i] \in Nat
  <2> TAKE i \in D
  <2> DEFINE b == findings[i].bytes
             k == findings[i].rank
  <2>1. b \in Nat /\ k \in Nat /\ k <= k
    BY <1>1 DEF Findings
  <2> HIDE DEF b, k
  <2>2. Digits(k) \in Nat
    BY <2>1, MoreDigits
  <2>3. b + Digits(k) \in Nat
    BY <2>1, <2>2
  <2> QED
    BY <2>3 DEF b, k
<1>4. /\ TextOf(findings) = SumOn(w, D) /\ BytesOf(findings) = SumOn(v, D)
  BY DEF TextOf, BytesOf, Total, SumOn
<1>5. Digits(Len(findings)) \in Nat
  <2> DEFINE l == Len(findings)
  <2>1. l \in Nat /\ l <= l
    OBVIOUS
  <2> HIDE DEF l
  <2>2. Digits(l) \in Nat
    BY <2>1, MoreDigits
  <2> QED
    BY <2>2 DEF l
<1> HIDE DEF w, v, D
<1> QED
  BY <1>1, <1>2, <1>3, <1>4, <1>5, SumIsNat

\* The characters of a result depend on what is listed, omitted and warned of.
LEMMA CharactersAre ==
    ASSUME NEW r
    PROVE  Characters(r) = FrameText + Digits(Len(r.findings))
             + Digits(r.omitted) + Digits(Len(r.warnings)) + TextOf(r.findings)
  BY DEF Characters, TextOf, Total

\* A result of which nothing was cut yet; its warnings are codes.
Uncut(start) ==
    /\ start.findings \in Seq(Findings) /\ start.omitted \in Nat
    /\ start.truncated \in BOOLEAN /\ start.warnings \in Seq(Codes)

\* Two results with as many findings left have the same characters, and the same
\* bytes but for the table and the number of folded rows.
LEMMA SameFindingsSameSize ==
    ASSUME NEW start, NEW T, NEW n,
           NEW p, NEW k, Reached(start, T, p, n, k),
           NEW r, NEW j, Reached(start, T, r, n, j)
    PROVE  Characters(p) = Characters(r) /\ OtherBytes(p) = OtherBytes(r)
<1>1. /\ p.findings = r.findings /\ p.omitted = r.omitted
      /\ p.warnings = r.warnings /\ p.truncated = r.truncated
  BY DEF Reached, FindingsAre
<1>2. Characters(p) = Characters(r)
  BY <1>1, CharactersAre
<1> QED
  BY <1>1, <1>2 DEF OtherBytes

\* A number has digits.
LEMMA DigitsAre ==
    ASSUME NEW m \in Nat
    PROVE  Digits(m) \in Nat
<1>1. m <= m
  OBVIOUS
<1> QED
  BY <1>1, MoreDigits

\* The warnings of a result.
LEMMA WarningsReached ==
    ASSUME NEW start, start.warnings \in Seq(Codes)
    PROVE  LET w == InByteOrder(Image(start.warnings))
           IN  /\ w \in Seq(Codes)
               /\ Len(w) = Cardinality(Image(start.warnings))
               /\ Len(w) \in Nat
               /\ Increasing(w, WarningLess)
<1> DEFINE I == Image(start.warnings)
           w == InByteOrder(I)
<1>1. I \in SUBSET Codes
  BY DEF Image
<1> HIDE DEF I
<1>2. w \in Seq(I) /\ Len(w) = Cardinality(I) /\ Increasing(w, WarningLess)
  BY <1>1, CodeListIs
<1>3. w \in Seq(Codes)
  BY <1>1, <1>2
<1> QED
  BY <1>2, <1>3 DEF I

\* The bytes of a result.
LEMMA BytesAre ==
    ASSUME NEW items \in Nat, NEW start, Uncut(start),
           NEW T, Foldable(start, T, items),
           NEW r, NEW n, NEW k, Reached(start, T, r, n, k)
    PROVE  /\ Characters(r) \in Nat /\ OtherBytes(r) \in Nat
           /\ start.folded + k \in Nat /\ Digits(start.folded + k) \in Nat
           /\ TableSize(T[k]) \in Nat
           /\ Bytes(r) = OtherBytes(r) + Digits(start.folded + k)
                           + TableSize(T[k])
           /\ Bytes(r) \in Nat
<1>1. /\ start.findings \in Seq(Findings) /\ start.omitted \in Nat
      /\ start.warnings \in Seq(Codes) /\ start.folded \in Nat
      /\ PlainTable(start.table, items) /\ Tables(T, start.table, items)
  BY DEF Uncut, Foldable
<1>2. /\ FindingsAre(start, r, n) /\ k \in 0 .. MostFolds(start.table)
      /\ r.table = T[k] /\ r.folded = start.folded + k
      /\ r.warnings = InByteOrder(Image(start.warnings))
  BY DEF Reached
<1>3. /\ r.findings \in Seq(Findings) /\ n \in 0 .. Len(start.findings)
      /\ r.omitted = start.omitted + Len(start.findings) - n
      /\ Len(start.findings) \in Nat
  BY <1>1, <1>2, BestIs DEF FindingsAre
<1>4. r.omitted \in Nat
  <2> DEFINE o == start.omitted
             l == Len(start.findings)
  <2>1. o \in Nat /\ l \in Nat /\ n \in 0 .. l
    BY <1>1, <1>3
  <2> HIDE DEF o, l
  <2>2. o + l - n \in Nat
    BY <2>1
  <2> QED
    BY <1>3, <2>2 DEF o, l
<1>5. Len(r.warnings) \in Nat
  BY <1>1, <1>2, WarningsReached
<1> DEFINE a == Digits(Len(r.findings))
           o == Digits(r.omitted)
           w == Len(r.warnings)
           x == Digits(Len(r.warnings))
           t == TextOf(r.findings)
           b == BytesOf(r.findings)
           c == Characters(r)
           d == Digits(c)
           i == IF r.truncated THEN 4 ELSE 5
           f == Digits(start.folded + k)
           s == TableSize(T[k])
<1>6. /\ a \in Nat /\ t \in Nat /\ b \in Nat /\ w \in Nat /\ i \in Nat
      /\ o \in Nat /\ x \in Nat /\ FrameText \in Nat /\ FrameBytes \in Nat
  BY <1>3, <1>4, <1>5, FindingSizesAre, DigitsAre, RenderingAssumption
<1>7. c \in Nat
  <2>1. c = FrameText + a + o + x + t
    BY CharactersAre
  <2> HIDE DEF a, o, x, t, c
  <2> QED
    BY <1>6, <2>1
<1>8. d \in Nat
  <2> HIDE DEF c
  <2> QED
    BY <1>7, DigitsAre
<1>9. start.folded + k \in Nat /\ f \in Nat
  <2> DEFINE e == start.folded
             g == e + k
  <2>1. e \in Nat /\ k \in Nat
    BY <1>1, <1>2, TablesAre
  <2> HIDE DEF e
  <2>2. g \in Nat
    BY <2>1
  <2> HIDE DEF g
  <2>3. Digits(g) \in Nat
    BY <2>2, DigitsAre
  <2> QED
    BY <2>2, <2>3 DEF g, e
<1>10. s \in Nat
  <2> DEFINE u == T[k]
  <2>1. FoldedBy(start.table, u, k, items)
    BY <1>1, <1>2, TablesAre
  <2> HIDE DEF u
  <2>2. PICK S : u \in Seq(S)
    <3>1. \E S : u \in Seq(S)
      BY <1>1, <2>1, FoldedRowsAre, Zenon
    <3> QED
      BY <3>1
  <2>3. SolidRows(u, items)
    BY <1>1, <2>1, FoldedRowsAre
  <2>4. TableSize(u) \in Nat
    BY <2>2, <2>3, TableSizeIs
  <2> QED
    BY <2>4 DEF u
<1>11. Bytes(r) = FrameBytes + a + o + d + f + i + w + b + s
  <2>1. s = Total(DOMAIN r.table, LAMBDA g : RowBytes(r.table[g]))
    BY <1>2 DEF TableSize, TableSizes, Total, SumOn
  <2>2. f = Digits(r.folded)
    BY <1>2
  <2>3. b = Total(DOMAIN r.findings, LAMBDA g :
                r.findings[g].bytes + Digits(r.findings[g].rank))
    BY DEF BytesOf
  <2> QED
    BY <2>1, <2>2, <2>3 DEF Bytes
<1>12. OtherBytes(r) = FrameBytes + a + o + d + i + w + b
  BY DEF OtherBytes
<1> HIDE DEF a, o, w, x, t, b, c, d, i, f, s
<1>13. /\ OtherBytes(r) \in Nat /\ Bytes(r) \in Nat
       /\ Bytes(r) = OtherBytes(r) + f + s
  BY <1>6, <1>8, <1>9, <1>10, <1>11, <1>12
<1> QED
  BY <1>7, <1>9, <1>10, <1>13 DEF c, f, s

-----------------------------------------------------------------------------
(* Nothing is lost in vain *)

\* With one more finding it would not fit, however far the table were folded.
Vain(start, T, n, k, limits, top) ==
    n < top => \A p, j : Reached(start, T, p, n + 1, j) /\ j >= k
                            => ~ Fits(p, limits)

\* No row of an even table is lost that could have been kept.
Tight(start, T, n, k, limits, top, first) ==
    n = top /\ first = 0 /\ (\E s : Even(start.table, s))
        => \A p, j : Reached(start, T, p, n, j) /\ j < k => ~ Fits(p, limits)

\* What holds of every result of the loop.
Good(start, T, r, n, k, limits, top, first) ==
    /\ Reached(start, T, r, n, k) /\ n <= top /\ first <= k
    /\ Vain(start, T, n, k, limits, top)
    /\ Tight(start, T, n, k, limits, top, first)

\* Two results that are reached in the same way are of one size.
LEMMA SameIsAsLarge ==
    ASSUME NEW items \in Nat, NEW start, Uncut(start),
           NEW T, Foldable(start, T, items), NEW limits,
           NEW n, NEW k, NEW p, Reached(start, T, p, n, k),
           NEW r, Reached(start, T, r, n, k)
    PROVE  Fits(p, limits) <=> Fits(r, limits)
<1>1. Characters(p) = Characters(r) /\ OtherBytes(p) = OtherBytes(r)
  BY SameFindingsSameSize
<1> DEFINE f == Digits(start.folded + k)
           s == TableSize(T[k])
<1>2. Bytes(p) = OtherBytes(p) + f + s /\ Bytes(r) = OtherBytes(r) + f + s
  BY BytesAre
<1>3. Bytes(p) = Bytes(r)
  BY <1>1, <1>2
<1> QED
  BY <1>1, <1>3 DEF Fits

\* What is left is finitely much.
LEMMA ReachedIs ==
    ASSUME NEW items \in Nat, NEW start, start.findings \in Seq(Findings),
           NEW T, Foldable(start, T, items),
           NEW r, NEW n, NEW k, Reached(start, T, r, n, k)
    PROVE  /\ n \in Nat /\ n <= Len(start.findings)
           /\ Len(start.findings) \in Nat
           /\ k \in Nat /\ MostFolds(start.table) \in Nat
           /\ k <= MostFolds(start.table)
           /\ r.findings = <<>> <=> n = 0
           /\ CanFold(r.table) <=> k < MostFolds(start.table)
<1>1. /\ PlainTable(start.table, items) /\ Tables(T, start.table, items)
  BY DEF Foldable
<1>2. /\ FindingsAre(start, r, n) /\ k \in 0 .. MostFolds(start.table)
      /\ r.table = T[k]
  BY DEF Reached
<1>3. /\ MostFolds(start.table) \in Nat
      /\ CanFold(T[k]) <=> k < MostFolds(start.table)
  BY <1>1, <1>2, TablesAre
<1>4. /\ n \in 0 .. Len(start.findings) /\ Len(start.findings) \in Nat
      /\ r.findings \in Seq(Findings) /\ Len(r.findings) = n
  BY <1>2, BestIs DEF FindingsAre
<1>5. r.findings = <<>> <=> n = 0
  BY <1>4
<1> QED
  BY <1>2, <1>3, <1>4, <1>5

\* A finding is dropped when folding cannot help.
LEMMA DroppingIsNotInVain ==
    ASSUME NEW items \in Nat, NEW start, Uncut(start),
           NEW T, Foldable(start, T, items), NEW limits,
           limits.characters \in Nat, limits.bytes \in Nat,
           NEW r, NEW n, NEW k, NEW top, NEW first,
           Good(start, T, r, n, k, limits, top, first), top \in Nat, n >= 1,
           ~ Fits(r, limits), ~ (Bytes(r) > limits.bytes /\ CanFold(r.table))
    PROVE  Good(start, T, DropLast(r), n - 1, k, limits, top, first)
<1>1. /\ Reached(start, T, r, n, k) /\ n <= top /\ first <= k
      /\ start.findings \in Seq(Findings) /\ start.omitted \in Nat
  BY DEF Good, Uncut
<1> DEFINE most == MostFolds(start.table)
           m == n - 1
<1>2. /\ n \in Nat /\ k \in Nat /\ most \in Nat /\ k <= most
      /\ CanFold(r.table) <=> k < most
  BY <1>1, ReachedIs
<1>3. m + 1 = n /\ m < n /\ m <= top /\ m # top
  BY <1>1, <1>2
<1>4. Reached(start, T, DropLast(r), m, k)
  BY <1>1, DropLastReaches
<1>5. ASSUME NEW p, NEW j, Reached(start, T, p, n, j), j >= k
      PROVE  ~ Fits(p, limits)
  <2>1. j \in Nat /\ j <= most
    BY <1>1, <1>5, ReachedIs
  <2>2. CASE j = k
    <3>1. Reached(start, T, p, n, k)
      BY <1>5, <2>2
    <3> QED
      BY <1>1, <3>1, SameIsAsLarge
  <2>3. CASE j # k
    <3>1. CanFold(r.table)
      BY <1>2, <1>5, <2>1, <2>3
    <3>2. Characters(r) \in Nat /\ Bytes(r) \in Nat
      BY <1>1, BytesAre
    <3>3. Bytes(r) <= limits.bytes
      BY <3>1, <3>2
    <3>4. ~ (Characters(r) <= limits.characters)
      BY <3>3 DEF Fits
    <3>5. Characters(p) = Characters(r)
      BY <1>1, <1>5, SameFindingsSameSize
    <3> QED
      BY <3>4, <3>5 DEF Fits
  <2> QED
    BY <2>2, <2>3
<1>6. Vain(start, T, m, k, limits, top)
  BY <1>3, <1>5 DEF Vain
<1>7. Tight(start, T, m, k, limits, top, first)
  BY <1>3 DEF Tight
<1> HIDE DEF m
<1>8. Good(start, T, DropLast(r), m, k, limits, top, first)
  BY <1>1, <1>3, <1>4, <1>6, <1>7 DEF Good
<1> QED
  BY <1>8 DEF m

\* The estimate.
LEMMA EstimateIs ==
    ASSUME NEW r, NEW bytes \in Nat, bytes >= 1, NEW excess \in Nat,
           Len(r.table) \in Nat
    PROVE  /\ FoldEstimate(r, bytes, excess) \in Nat
           /\ FoldEstimate(r, bytes, excess) >= 1
           /\ FoldEstimate(r, bytes, excess) # 1 =>
                 FoldEstimate(r, bytes, excess) * bytes
                   <= excess * Len(r.table)
<1> DEFINE l == Len(r.table)
           a == excess * l
           d == a \div bytes
<1>1. a \in Nat
  <2> HIDE DEF l
  <2>1. l \in Nat
    BY DEF l
  <2> QED
    BY <2>1
<1>2. FoldEstimate(r, bytes, excess) = Bigger(1, d)
  BY DEF FoldEstimate
<1> HIDE DEF a
<1>3. d \in Nat /\ d * bytes <= a
  BY <1>1, DivisionIs
<1> HIDE DEF d
<1>4. Bigger(1, d) \in Nat /\ Bigger(1, d) >= 1
      /\ (Bigger(1, d) # 1 => Bigger(1, d) = d)
  BY <1>3 DEF Bigger
<1> QED
  BY <1>2, <1>3, <1>4 DEF a

\* Too few folds of an even table leave it too large.
LEMMA FewerFoldsAreTooFew ==
    ASSUME NEW items \in Nat, NEW start, Uncut(start),
           NEW T, Foldable(start, T, items), NEW limits,
           limits.bytes \in Nat \ {0}, NEW s, Even(start.table, s),
           NEW r, NEW n, NEW k, Reached(start, T, r, n, k),
           Bytes(r) > limits.bytes, CanFold(r.table),
           NEW p, NEW j, Reached(start, T, p, n, j), j > k,
           j - k < FoldEstimate(r, Bytes(r), Bytes(r) - limits.bytes)
    PROVE  Bytes(p) > limits.bytes
<1> DEFINE t == start.table
           most == MostFolds(t)
           bytes == Bytes(r)
           limit == limits.bytes
           excess == bytes - limit
           rows == Len(T[k])
           count == FoldEstimate(r, bytes, excess)
           d == j - k
           x == OtherBytes(r)
           e == Digits(start.folded + k)
           f == Digits(start.folded + j)
           u == TableSize(T[k])
           v == TableSize(T[j])
<1>1. /\ PlainTable(t, items) /\ Tables(T, t, items) /\ start.folded \in Nat
      /\ start.findings \in Seq(Findings)
  BY DEF Foldable, Uncut
<1>2. /\ k \in Nat /\ k <= most /\ most \in Nat /\ k < most
      /\ j \in Nat /\ j <= most /\ r.table = T[k]
  BY <1>1, ReachedIs DEF Reached
<1>3. k \in 0 .. most /\ j \in 0 .. most /\ k <= j /\ d \in Nat /\ d >= 1
  BY <1>2
<1>4. /\ u \in Nat /\ v \in Nat /\ u <= v + d * s
      /\ rows \in Nat /\ (rows - 1) * s <= u
  BY <1>1, <1>3, FoldsSave
<1>5. /\ x \in Nat /\ bytes \in Nat /\ bytes = x + e + u /\ e \in Nat
      /\ start.folded + k \in Nat
  BY BytesAre
<1>6. /\ Bytes(p) = OtherBytes(p) + f + v /\ f \in Nat
      /\ start.folded + j \in Nat
  BY BytesAre
<1>7. OtherBytes(p) = x
  BY SameFindingsSameSize
<1>8. e <= f
  <2> DEFINE a == start.folded + k
             b == start.folded + j
  <2>1. a \in Nat /\ b \in Nat
    BY <1>5, <1>6
  <2>2. a <= b
    BY <1>1, <1>2
  <2> HIDE DEF a, b
  <2>3. Digits(a) <= Digits(b)
    BY <2>1, <2>2, MoreDigits
  <2> QED
    BY <2>3 DEF a, b
<1>9. /\ limit \in Nat /\ limit >= 1 /\ bytes > limit /\ bytes >= 1
      /\ excess \in Nat /\ excess < bytes /\ excess = bytes - limit
  <2>1. limit \in Nat /\ limit >= 1 /\ bytes > limit
    OBVIOUS
  <2> HIDE DEF bytes, limit
  <2> QED
    BY <1>5, <2>1
<1>10. s \in Nat /\ s >= 1 /\ rows >= 1
  <2>1. Len(t) \in Nat /\ DOMAIN t = 1 .. Len(t) /\ s \in Nat
    BY <1>1 DEF PlainTable, Even
  <2>2. Len(t) >= 2
    <3> DEFINE l == Len(t)
    <3>1. most = IF l >= 2 THEN l - 1 ELSE 0
      BY DEF MostFolds
    <3> HIDE DEF l, most
    <3>2. l >= 2
      BY <1>2, <2>1, <3>1
    <3> QED
      BY <3>2 DEF l
  <2>3. 1 \in DOMAIN t
    BY <2>1, <2>2
  <2>4. Solid(t[1], items) /\ RowBytes(t[1]) = s
    BY <1>1, <2>3 DEF PlainTable, SolidRows, Even
  <2>5. s >= 1
    BY <2>4, RowSizeIs
  <2>6. rows # 0
    <3> DEFINE w == T[k]
    <3>1. FoldedBy(t, w, k, items)
      BY <1>1, <1>3, TablesAre
    <3> HIDE DEF w
    <3>2. Len(DirectoryRows(w)) = Len(t) - k /\ k <= Len(t)
          /\ Len(w) = IF k = 0 THEN Len(t) ELSE Len(t) - k + 1
      BY <1>1, <3>1, FoldedRowsAre
    <3> DEFINE l == Len(t)
               q == Len(w)
    <3>3. l \in Nat /\ l >= 2 /\ k <= l /\ q = IF k = 0 THEN l ELSE l - k + 1
      BY <2>1, <2>2, <3>2
    <3> HIDE DEF l, q
    <3>4. q # 0
      BY <1>2, <3>3
    <3> QED
      BY <3>4 DEF q, w
  <2> HIDE DEF rows
  <2> QED
    BY <1>4, <2>1, <2>5, <2>6
<1>11. /\ d < count
       /\ count \in Nat /\ count >= 1
       /\ count # 1 => count * bytes <= excess * rows
  <2>1. /\ Len(r.table) = rows /\ rows \in Nat
    BY <1>2, <1>4
  <2>2. d < count
    OBVIOUS
  <2> HIDE DEF bytes, excess, rows, count
  <2> DEFINE c == FoldEstimate(r, bytes, excess)
  <2>3. /\ c \in Nat /\ c >= 1
        /\ c # 1 => c * bytes <= excess * Len(r.table)
    BY <1>5, <1>9, <2>1, EstimateIs
  <2>4. c = count
    BY DEF count
  <2> HIDE DEF c
  <2> QED
    BY <2>1, <2>2, <2>3, <2>4
<1> HIDE DEF bytes, limit, excess, rows, count, d, x, e, f, u, v
<1>12. count # 1
  BY <1>3, <1>11
<1>13. (rows - 1) * s <= bytes
  <2> DEFINE z == (rows - 1) * s
  <2>1. z <= u /\ z \in Int
    BY <1>4, <1>10
  <2> HIDE DEF z
  <2>2. z <= bytes
    BY <1>4, <1>5, <2>1
  <2> QED
    BY <2>2 DEF z
<1>14. d * s < excess
  BY <1>3, <1>5, <1>9, <1>10, <1>11, <1>12, <1>13, <1>4, EstimateIsLow
<1>15. Bytes(p) > limit
  <2> DEFINE z == d * s
  <2>1. z \in Nat
    BY <1>3, <1>10
  <2>2. z < excess /\ u <= v + z /\ Bytes(p) = x + f + v
    BY <1>4, <1>6, <1>7, <1>14
  <2> HIDE DEF z
  <2> QED
    BY <1>4, <1>5, <1>6, <1>8, <1>9, <2>1, <2>2
<1> QED
  BY <1>15 DEF limit

\* Rows are folded only as far as it takes.
LEMMA FoldingIsNotInVain ==
    ASSUME NEW items \in Nat, NEW start, Uncut(start),
           NEW T, Foldable(start, T, items), NEW limits,
           limits.bytes \in Nat \ {0}, limits.items = items,
           NEW r, NEW n, NEW k, NEW top, NEW first,
           Good(start, T, r, n, k, limits, top, first), first \in Nat,
           ~ Fits(r, limits), Bytes(r) > limits.bytes, CanFold(r.table)
    PROVE  \E j : Good(start, T, FoldToFit(r, Bytes(r), limits), n, j,
                       limits, top, first)
<1>1. /\ Reached(start, T, r, n, k) /\ n <= top /\ first <= k
      /\ Vain(start, T, n, k, limits, top)
      /\ Tight(start, T, n, k, limits, top, first)
      /\ start.findings \in Seq(Findings)
  BY DEF Good, Uncut
<1> DEFINE most == MostFolds(start.table)
           count == FoldEstimate(r, Bytes(r), Bytes(r) - limits.bytes)
           f == FoldToFit(r, Bytes(r), limits)
           j == Lesser(k + count, most)
<1>2. k \in Nat /\ most \in Nat /\ k <= most
  BY <1>1, ReachedIs
<1>3. count \in Nat /\ count >= 1
  <2> DEFINE b == Bytes(r)
             x == b - limits.bytes
  <2>1. b \in Nat
    BY <1>1, BytesAre
  <2>2. b \in Nat /\ b >= 1 /\ x \in Nat
    <3> HIDE DEF b
    <3>1. b > limits.bytes /\ limits.bytes \in Nat
      BY DEF b
    <3> QED
      BY <2>1, <3>1
  <2>3. Len(r.table) \in Nat
    <3> DEFINE u == T[k]
    <3>1. /\ PlainTable(start.table, items) /\ Tables(T, start.table, items)
          /\ k \in 0 .. most /\ r.table = u
      BY <1>1 DEF Foldable, Reached
    <3>2. FoldedBy(start.table, u, k, items)
      BY <3>1, TablesAre
    <3> HIDE DEF u
    <3>3. \E S : u \in Seq(S)
      BY <3>1, <3>2, FoldedRowsAre, Zenon
    <3> QED
      BY <3>1, <3>3
  <2> HIDE DEF b, x
  <2>4. FoldEstimate(r, b, x) \in Nat /\ FoldEstimate(r, b, x) >= 1
    BY <2>2, <2>3, EstimateIs
  <2> QED
    BY <2>4 DEF b, x
<1>4. f = FoldRows(r, count, items)
  BY DEF FoldToFit
<1> HIDE DEF f, count
<1>5. Reached(start, T, f, n, j)
  BY <1>1, <1>3, <1>4, FoldRowsReaches
<1>6. j \in Nat /\ k <= j /\ j <= k + count
  <2> HIDE DEF most
  <2> QED
    BY <1>2, <1>3 DEF Lesser
<1> HIDE DEF j
<1>7. Vain(start, T, n, j, limits, top)
  <2> SUFFICES ASSUME n < top, NEW p, NEW i,
                      Reached(start, T, p, n + 1, i), i >= j
               PROVE  ~ Fits(p, limits)
    BY DEF Vain
  <2>1. i \in Nat
    BY <1>1, ReachedIs
  <2>2. i >= k
    BY <1>2, <1>6, <2>1
  <2> QED
    BY <1>1, <2>2 DEF Vain
<1>8. Tight(start, T, n, j, limits, top, first)
  <2> SUFFICES ASSUME n = top, first = 0, NEW s, Even(start.table, s),
                      NEW p, NEW i, Reached(start, T, p, n, i), i < j
               PROVE  ~ Fits(p, limits)
    BY DEF Tight
  <2>1. i \in Nat
    BY <1>1, ReachedIs
  <2>2. CASE i < k
    BY <1>1, <2>2 DEF Tight
  <2>3. CASE i = k
    <3>1. Reached(start, T, p, n, k)
      BY <2>3
    <3> QED
      BY <1>1, <3>1, SameIsAsLarge
  <2>4. CASE i > k
    <3>1. i - k < count
      BY <1>2, <1>3, <1>6, <2>1
    <3>2. i - k < FoldEstimate(r, Bytes(r), Bytes(r) - limits.bytes)
      BY <3>1 DEF count
    <3>3. Bytes(p) > limits.bytes
      BY <1>1, <2>4, <3>2, FewerFoldsAreTooFew
    <3>4. Bytes(p) \in Nat
      BY BytesAre
    <3>5. ~ (Bytes(p) <= limits.bytes)
      BY <3>3, <3>4
    <3> QED
      BY <3>5 DEF Fits
  <2> QED
    BY <1>2, <2>1, <2>2, <2>3, <2>4
<1>9. first <= j
  BY <1>1, <1>2, <1>6
<1>10. Good(start, T, f, n, j, limits, top, first)
  BY <1>1, <1>5, <1>7, <1>8, <1>9 DEF Good
<1> QED
  BY <1>10 DEF f

\* So it is with every turn of the loop.
LEMMA FitStepIsGood ==
    ASSUME NEW items \in Nat, NEW start, Uncut(start),
           NEW T, Foldable(start, T, items), NEW limits,
           limits.characters \in Nat, limits.bytes \in Nat \ {0},
           limits.items = items,
           NEW r, NEW n, NEW k, NEW top, NEW first,
           Good(start, T, r, n, k, limits, top, first),
           first \in Nat, top \in Nat
    PROVE  \E m, j :
              Good(start, T, FitStep(r, limits), m, j, limits, top, first)
<1>1. CASE Fits(r, limits) \/ ~ ValidResult(r, limits)
  <2>1. FitStep(r, limits) = r
    BY <1>1 DEF FitStep
  <2> QED
    BY <2>1
<1>2. CASE ~ (Fits(r, limits) \/ ~ ValidResult(r, limits))
  <2>0. FitStep(r, limits) = Shrink(r, Bytes(r), limits)
    BY <1>2 DEF FitStep
  <2>1. CASE Bytes(r) > limits.bytes /\ CanFold(r.table)
    <3>1. FitStep(r, limits) = FoldToFit(r, Bytes(r), limits)
      BY <2>0, <2>1 DEF Shrink
    <3>2. PICK j : Good(start, T, FoldToFit(r, Bytes(r), limits), n, j,
                        limits, top, first)
      BY <1>2, <2>1, FoldingIsNotInVain
    <3> QED
      BY <3>1, <3>2
  <2>2. CASE ~ (Bytes(r) > limits.bytes /\ CanFold(r.table))
    <3>1. CASE r.findings = <<>>
      <4>1. FitStep(r, limits) = r
        BY <2>0, <2>2, <3>1 DEF Shrink
      <4> QED
        BY <4>1
    <3>2. CASE r.findings # <<>>
      <4>1. FitStep(r, limits) = DropLast(r)
        BY <2>0, <2>2, <3>2 DEF Shrink
      <4>2. n \in Nat /\ n # 0
        BY <3>2, ReachedIs DEF Good, Uncut
      <4>3. n >= 1
        BY <4>2
      <4>4. Good(start, T, DropLast(r), n - 1, k, limits, top, first)
        BY <1>2, <2>2, <4>3, DroppingIsNotInVain
      <4> QED
        BY <4>1, <4>4
    <3> QED
      BY <3>1, <3>2
  <2> QED
    BY <2>1, <2>2
<1> QED
  BY <1>1, <1>2

-----------------------------------------------------------------------------
(* The answer *)

\* The table of a result, as the types of its rows make it.
LEMMA TableIsPlain ==
    ASSUME NEW start, NEW limits, Unfitted(start, limits)
    PROVE  PlainTable(start.table, limits.items)
<1> DEFINE t == start.table
<1>1. start \in Results
  BY DEF Unfitted
<1>2. t \in Seq(TableRows)
  BY <1>1 DEF Results
<1>3. \A g \in DOMAIN t : t[g].prefix # <<"*">> /\ ValidRow(t[g], limits.items)
  BY DEF Unfitted
<1> HIDE DEF t
<1>4. ASSUME NEW g \in DOMAIN t
      PROVE  Solid(t[g], limits.items) /\ ~ Folded(t[g])
  <2> DEFINE row == t[g]
  <2>1. row \in TableRows
    BY <1>2
  <2>2. ValidRow(row, limits.items) /\ row.prefix # <<"*">>
    BY <1>3
  <2> HIDE DEF row
  <2>3. /\ row.prefix \in Seq(Strings) /\ row.depth \in Nat
        /\ row.languages \in Seq(Strings \X Nat)
    BY <2>1 DEF TableRows
  <2>4. /\ row.files \in Nat /\ row.definitions \in Nat
        /\ row.entryPoints \in Nat /\ row.documents \in Nat
        /\ row.configurations \in Nat
    BY <2>1 DEF TableRows
  <2>5. \A field \in Counts : row[field] \in Nat
    BY <2>4 DEF Counts
  <2>6. Len(row.prefix) \in Nat
    BY <2>3
  <2>7. Solid(row, limits.items)
    BY <2>2, <2>3, <2>5, <2>6 DEF Solid
  <2>8. ~ Folded(row)
    BY <2>2 DEF Folded
  <2> QED
    BY <2>7, <2>8 DEF row
<1>5. SolidRows(t, limits.items) /\ \A g \in DOMAIN t : ~ Folded(t[g])
  BY <1>4 DEF SolidRows
<1>6. \E S : t \in Seq(S)
  BY <1>2
<1>7. PlainTable(t, limits.items)
  BY <1>5, <1>6 DEF PlainTable
<1> QED
  BY <1>7 DEF t

\* The other fields.
LEMMA UnfittedIs ==
    ASSUME NEW start, NEW limits, Unfitted(start, limits)
    PROVE  /\ Uncut(start) /\ start.folded \in Nat
           /\ IsResult(start)
           /\ \A i, j \in DOMAIN start.findings : i # j =>
                 start.findings[i].identity # start.findings[j].identity
           /\ Cardinality(Image(start.warnings)) <= limits.items
           /\ \E Rows : PlainRows(Rows) /\ start.table \in Seq(Rows)
<1>1. start \in Results
  BY DEF Unfitted
<1>2. /\ start.findings \in Seq(Findings) /\ start.omitted \in Nat
      /\ start.truncated \in BOOLEAN /\ start.warnings \in Seq(Image(Warnings))
      /\ start.folded \in Nat /\ start.table \in Seq(TableRows)
  BY <1>1 DEF Results
<1>3. Shape(start)
  BY <1>1 DEF Results, Shape
<1>4. Uncut(start)
  BY <1>2 DEF Uncut, Codes
<1>5. \E Rows : PlainRows(Rows) /\ start.table \in Seq(Rows)
  <2> DEFINE t == start.table
             Rows == {t[g] : g \in DOMAIN t}
  <2>1. PlainTable(t, limits.items)
    BY TableIsPlain
  <2>2. PlainRows(Rows)
    <3> SUFFICES ASSUME NEW g \in DOMAIN t
                 PROVE  ~ Folded(t[g])
                        /\ \A field \in Counts : t[g][field] \in Nat
      BY DEF PlainRows
    <3> QED
      BY <2>1 DEF PlainTable, SolidRows, Solid
  <2>3. t \in Seq(Rows)
    <3>1. t \in Seq(TableRows)
      BY <1>2
    <3> HIDE DEF t
    <3>2. Len(t) \in Nat /\ DOMAIN t = 1 .. Len(t)
          /\ t = [g \in 1 .. Len(t) |-> t[g]]
      BY <3>1
    <3> QED
      BY <3>2
  <2> QED
    BY <2>2, <2>3
<1>6. IsResult(start)
  BY <1>2, <1>3, <1>5 DEF IsResult
<1> QED
  BY <1>2, <1>4, <1>5, <1>6 DEF Unfitted

\* A result that is reached with few enough rows is valid.
LEMMA ReachedIsValid ==
    ASSUME NEW start, NEW limits, Unfitted(start, limits), limits.items \in Nat,
           NEW T, Foldable(start, T, limits.items),
           NEW r, NEW n, NEW k, Reached(start, T, r, n, k),
           n <= limits.items, Len(T[k]) <= limits.rows
    PROVE  ValidResult(r, limits)
<1>1. /\ start.findings \in Seq(Findings) /\ start.omitted \in Nat
      /\ start.warnings \in Seq(Codes)
      /\ \A i, j \in DOMAIN start.findings : i # j =>
            start.findings[i].identity # start.findings[j].identity
      /\ Cardinality(Image(start.warnings)) <= limits.items
      /\ PlainTable(start.table, limits.items)
      /\ Tables(T, start.table, limits.items)
  BY UnfittedIs, TableIsPlain DEF Uncut, Foldable
<1>2. /\ FindingsAre(start, r, n) /\ k \in 0 .. MostFolds(start.table)
      /\ r.table = T[k]
      /\ r.warnings = InByteOrder(Image(start.warnings))
  BY DEF Reached
<1>3. /\ n \in 0 .. Len(start.findings) /\ r.findings = Best(start, n)
      /\ r.truncated = (start.truncated \/ r.omitted > 0)
  BY <1>2 DEF FindingsAre
<1>4. /\ r.findings \in Seq(Findings) /\ Len(r.findings) = n /\ n \in Nat
      /\ Len(start.findings) \in Nat
      /\ \A i \in 1 .. n : r.findings[i].identity
                             = InRankOrder(start.findings)[i].identity
  BY <1>1, <1>3, BestIs
<1>5. Increasing(r.warnings, WarningLess) /\ Len(r.warnings) <= limits.items
  <2>1. /\ Len(r.warnings) = Cardinality(Image(start.warnings))
        /\ Increasing(r.warnings, WarningLess)
    BY <1>1, <1>2, WarningsReached
  <2> QED
    BY <1>1, <2>1
<1>6. ASSUME NEW i \in DOMAIN r.findings
      PROVE  r.findings[i].rank = i
  <2>1. i \in 1 .. n /\ i \in Nat /\ i \in 1 .. Len(start.findings)
    BY <1>3, <1>4
  <2> DEFINE x == InRankOrder(start.findings)[i]
  <2>2. x \in Findings
    BY <1>1, <2>1, RankOrderIs
  <2>3. r.findings[i] = [x EXCEPT !.rank = i]
    BY <1>3, <2>1 DEF Best
  <2> HIDE DEF x
  <2>4. [x EXCEPT !.rank = i].rank = i
    BY <2>2 DEF Findings
  <2> QED
    BY <2>3, <2>4
<1>7. ASSUME NEW i \in DOMAIN r.findings, NEW j \in DOMAIN r.findings, i # j
      PROVE  r.findings[i].identity # r.findings[j].identity
  <2>1. /\ i \in 1 .. n /\ j \in 1 .. n
        /\ i \in DOMAIN start.findings /\ j \in DOMAIN start.findings
    BY <1>1, <1>3, <1>4
  <2>2. PICK order \in Seq(DOMAIN start.findings) :
           /\ Len(order) = Len(start.findings)
           /\ \A a, b \in DOMAIN start.findings : order[a] = order[b] => a = b
           /\ \A a \in DOMAIN start.findings :
                 InRankOrder(start.findings)[a] = start.findings[order[a]]
    BY <1>1, RankOrderIs
  <2>3. /\ order[i] # order[j]
        /\ order[i] \in DOMAIN start.findings
        /\ order[j] \in DOMAIN start.findings
    <3>1. order[i] # order[j]
      BY <1>7, <2>1, <2>2
    <3>2. DOMAIN start.findings = 1 .. Len(start.findings)
      BY <1>1
    <3> DEFINE D == DOMAIN start.findings
    <3>3. order \in Seq(D) /\ i \in 1 .. Len(order) /\ j \in 1 .. Len(order)
      BY <2>1, <2>2, <3>2
    <3> HIDE DEF D
    <3>4. order[i] \in D /\ order[j] \in D
      BY <3>3
    <3> QED
      BY <3>1, <3>4 DEF D
  <2>4. start.findings[order[i]].identity # start.findings[order[j]].identity
    BY <1>1, <2>3
  <2> QED
    BY <1>4, <2>1, <2>2, <2>4
<1>8. \A g \in DOMAIN r.table : ValidRow(r.table[g], limits.items)
  <2> DEFINE u == T[k]
  <2>1. FoldedBy(start.table, u, k, limits.items)
    BY <1>1, <1>2, TablesAre
  <2> HIDE DEF u
  <2>2. SolidRows(u, limits.items)
    BY <1>1, <2>1, FoldedRowsAre
  <2>3. \A g \in DOMAIN u : ValidRow(u[g], limits.items)
    BY <2>2 DEF SolidRows, Solid
  <2> QED
    BY <1>2, <2>3 DEF u
<1>9. Len(r.findings) <= limits.items /\ Len(r.table) <= limits.rows
  BY <1>2, <1>4
<1>10. r.omitted > 0 => r.truncated
  BY <1>3
<1> QED
  BY <1>5, <1>6, <1>7, <1>8, <1>9, <1>10 DEF ValidResult

\* What is measured first has few enough rows, and so has every table after it.
LEMMA PreparedReaches ==
    ASSUME NEW start, NEW limits, Unfitted(start, limits), limits \in FitLimits,
           NEW T, Foldable(start, T, limits.items)
    PROVE  \E n, k : /\ Reached(start, T, Prepared(start, limits), n, k)
                     /\ n \in Nat /\ n <= limits.items /\ k \in Nat
                     /\ \A j \in 0 .. MostFolds(start.table) :
                           k <= j => Len(T[j]) <= limits.rows
<1> DEFINE t == start.table
           l == Len(t)
           most == MostFolds(t)
           rows == limits.rows
           b == Normalized(start, limits.maximum)
           count == IF l - rows > 0 THEN (l - rows) + 1 ELSE 0
           k == Lesser(0 + count, most)
<1>1. /\ limits.maximum \in Nat /\ limits.items \in Nat /\ rows \in Nat
      /\ rows >= 2 /\ limits.maximum <= limits.items
  BY DEF FitLimits
<1>2. /\ IsResult(start) /\ start.folded \in Nat
      /\ PlainTable(t, limits.items) /\ Tables(T, t, limits.items)
  BY UnfittedIs DEF Foldable
<1>3. PICK n \in 0 .. Len(start.findings) :
         /\ n <= limits.maximum
         /\ Left(start, b, n, l)
         /\ b.warnings = InByteOrder(Image(start.warnings))
  BY <1>1, <1>2, NormalizedIs
<1>4. /\ Shape(b) /\ FindingsAre(start, b, n)
      /\ b.folded = start.folded + l - l /\ b.table = t
  <2>1. TableIs(start, b, l)
    BY <1>3 DEF Left
  <2>2. b.folded = start.folded + l - l
    BY <2>1 DEF TableIs
  <2>3. l \in Nat
    BY <1>2 DEF PlainTable
  <2>4. ~ (l < l)
    BY <2>3
  <2>5. b.table = t
    BY <2>1, <2>4 DEF TableIs
  <2> QED
    BY <1>3, <2>2, <2>5 DEF Left
<1>5. l \in Nat /\ most \in Nat /\ T[0] = t
  <2>1. l \in Nat
    BY <1>2 DEF PlainTable
  <2>2. most \in Nat
    BY <1>1, <1>2, TablesAre
  <2>3. T[0] = t
    BY <1>2 DEF Tables
  <2> QED
    BY <2>1, <2>2, <2>3
<1>6. b.folded = start.folded + 0
  <2> DEFINE e == start.folded
  <2>1. e \in Nat
    BY <1>2
  <2> HIDE DEF e, l
  <2>2. e + l - l = e + 0
    BY <1>5, <2>1
  <2> QED
    BY <1>4, <2>2 DEF e, l
<1>7. Reached(start, T, b, n, 0)
  BY <1>3, <1>4, <1>5, <1>6 DEF Reached
<1>8. Prepared(start, limits) = FoldRows(b, count, limits.items)
  BY DEF Prepared
<1>9. count \in Nat
  <2> HIDE DEF l, rows
  <2> QED
    BY <1>1, <1>5
<1> HIDE DEF b
<1>10. Reached(start, T, Prepared(start, limits), n, k)
  <2> HIDE DEF count
  <2> QED
    BY <1>1, <1>7, <1>8, <1>9, FoldRowsReaches
<1>11. n \in Nat /\ n <= limits.items
  <2>1. n \in Nat
    OBVIOUS
  <2> QED
    BY <1>1, <1>3, <2>1
<1>12. most = IF l >= 2 THEN l - 1 ELSE 0
  BY DEF MostFolds
<1>13. k \in Nat
  <2> HIDE DEF count, most
  <2> QED
    BY <1>5, <1>9 DEF Lesser
<1>14. ASSUME NEW j \in 0 .. most, k <= j
       PROVE  Len(T[j]) <= rows
  <2> DEFINE u == T[j]
             q == Len(u)
  <2>1. FoldedBy(t, u, j, limits.items)
    BY <1>1, <1>2, TablesAre
  <2>2. j \in Nat /\ j <= most
    BY <1>5
  <2> HIDE DEF u
  <2>3. Len(u) = IF j = 0 THEN Len(t) ELSE Len(t) - j + 1
    <3> DEFINE items == limits.items
    <3>1. items \in Nat /\ PlainTable(t, items) /\ FoldedBy(t, u, j, items)
      BY <1>1, <1>2, <2>1
    <3> HIDE DEF t, items
    <3> QED
      BY <3>1, FoldedLength
  <2>4. q = IF j = 0 THEN l ELSE l - j + 1
    BY <2>3
  <2> HIDE DEF q, l, most, rows
  <2>5. CASE l - rows > 0
    <3>1. count = (l - rows) + 1
      BY <2>5
    <3> HIDE DEF count
    <3>2. k = (l - rows) + 1
      BY <1>1, <1>5, <1>12, <2>5, <3>1 DEF Lesser
    <3> HIDE DEF k
    <3> QED
      BY <1>1, <1>5, <1>14, <2>2, <2>4, <2>5, <3>2 DEF q, u
  <2>6. CASE ~ (l - rows > 0)
    <3>1. q <= rows
      BY <1>1, <1>5, <2>2, <2>4, <2>6
    <3> QED
      BY <3>1 DEF q, u
  <2> QED
    BY <2>5, <2>6
<1> HIDE DEF k, most
<1> QED
  BY <1>10, <1>11, <1>13, <1>14 DEF most

\* A result that has more findings or rows is one that can be reached.
LEMMA OthersReach ==
    ASSUME NEW items \in Nat, NEW start, Uncut(start),
           NEW T, Foldable(start, T, items),
           NEW r, NEW top, NEW k, Reached(start, T, r, top, k),
           NEW n \in 0 .. top, NEW count \in Nat
    PROVE  Reached(start, T,
             FoldRows([r EXCEPT
               !.findings = Shorter(@, n), !.omitted = @ + Len(r.findings) - n,
               !.truncated = @ \/ n < Len(r.findings)], count, items),
             n, Lesser(k + count, MostFolds(start.table)))
<1> DEFINE q == [r EXCEPT
               !.findings = Shorter(@, n), !.omitted = @ + Len(r.findings) - n,
               !.truncated = @ \/ n < Len(r.findings)]
<1>1. /\ start.findings \in Seq(Findings) /\ start.omitted \in Nat
      /\ start.truncated \in BOOLEAN
  BY DEF Uncut
<1>2. /\ Shape(r) /\ FindingsAre(start, r, top)
      /\ k \in 0 .. MostFolds(start.table)
      /\ r.table = T[k] /\ r.folded = start.folded + k
      /\ r.warnings = InByteOrder(Image(start.warnings))
  BY DEF Reached
<1>3. /\ top \in 0 .. Len(start.findings) /\ Len(start.findings) \in Nat
      /\ top \in Nat /\ r.findings = Best(start, top)
      /\ r.omitted = start.omitted + Len(start.findings) - top
      /\ r.truncated = (start.truncated \/ r.omitted > 0)
      /\ r.findings \in Seq(Findings) /\ Len(r.findings) = top
  BY <1>1, <1>2, BestIs DEF FindingsAre
<1>4. n \in Nat /\ n <= top /\ n \in 0 .. Len(start.findings)
  BY <1>3
<1>5. Shorter(r.findings, n) = Best(start, n)
  <2>1. (IF n < top THEN n ELSE top) = n
    BY <1>3, <1>4
  <2>2. Shorter(r.findings, n) = SubSeq(r.findings, 1, n)
    BY <1>3, <2>1 DEF Shorter
  <2>3. SubSeq(Best(start, top), 1, n) = Best(start, n)
    BY <1>1, <1>3, FewerAreBest
  <2> QED
    BY <1>3, <2>2, <2>3
<1>6. /\ Shape(q) /\ q.findings = Best(start, n)
      /\ q.omitted = r.omitted + top - n
      /\ q.truncated = (r.truncated \/ n < top)
      /\ q.table = r.table /\ q.folded = r.folded /\ q.warnings = r.warnings
  BY <1>2, <1>3, <1>5 DEF Shape
<1> HIDE DEF q
<1>7. /\ q.omitted = start.omitted + Len(start.findings) - n
      /\ q.truncated = (start.truncated \/ q.omitted > 0)
  <2> DEFINE o == start.omitted
             l == Len(start.findings)
             c == r.omitted
             d == q.omitted
  <2>1. /\ o \in Nat /\ l \in Nat /\ top \in 0 .. l /\ c = o + l - top
        /\ d = c + top - n /\ n \in 0 .. top
    BY <1>1, <1>3, <1>6
  <2> HIDE DEF o, l, c, d
  <2>2. d = o + l - n /\ (d > 0 <=> (c > 0 \/ n < top))
    BY <2>1
  <2>3. q.truncated = (start.truncated \/ d > 0)
    BY <1>3, <1>6, <2>2 DEF c
  <2> QED
    BY <2>2, <2>3 DEF o, l, d
<1>8. FindingsAre(start, q, n)
  BY <1>4, <1>6, <1>7 DEF FindingsAre
<1>9. Reached(start, T, q, n, k)
  BY <1>2, <1>6, <1>8 DEF Reached
<1>10. Reached(start, T, FoldRows(q, count, items), n,
               Lesser(k + count, MostFolds(start.table)))
  BY <1>9, FoldRowsReaches
<1> QED
  BY <1>10 DEF q

\* What is good is not lost in vain.
LEMMA GoodLosesNothing ==
    ASSUME NEW items \in Nat, NEW start, Uncut(start),
           NEW T, Foldable(start, T, items), NEW limits, limits.items = items,
           NEW prepared, NEW top, NEW first,
           Reached(start, T, prepared, top, first),
           NEW r, NEW n, NEW k, Good(start, T, r, n, k, limits, top, first)
    PROVE  NothingLostInVain(prepared, r, limits)
<1> DEFINE most == MostFolds(start.table)
           more(m, c) == FoldRows([prepared EXCEPT
               !.findings = Shorter(@, m),
               !.omitted = @ + Len(prepared.findings) - m,
               !.truncated = @ \/ m < Len(prepared.findings)], c, limits.items)
           lost == r.folded - prepared.folded
           uniform == prepared.folded = 0
             /\ \A g, h \in DOMAIN prepared.table :
                    RowBytes(prepared.table[g]) = RowBytes(prepared.table[h])
           returned == Len(r.findings)
           better(m, c) ==
             \/ m = returned + 1 /\ c >= lost
             \/ /\ m = returned /\ m = Len(prepared.findings)
                /\ uniform /\ c < lost
<1>1. /\ Reached(start, T, r, n, k) /\ n <= top /\ first <= k
      /\ Vain(start, T, n, k, limits, top)
      /\ Tight(start, T, n, k, limits, top, first)
      /\ start.findings \in Seq(Findings) /\ start.folded \in Nat
      /\ PlainTable(start.table, items) /\ Tables(T, start.table, items)
  BY DEF Good, Uncut, Foldable
<1>2. /\ n \in Nat /\ k \in Nat /\ most \in Nat /\ k <= most
      /\ top \in Nat /\ first \in Nat /\ first <= most
  BY <1>1, ReachedIs
<1>3. /\ r.folded = start.folded + k /\ prepared.folded = start.folded + first
      /\ prepared.table = T[first]
      /\ FindingsAre(start, r, n) /\ FindingsAre(start, prepared, top)
  BY <1>1 DEF Reached
<1>4. returned = n /\ Len(prepared.findings) = top
  BY <1>1, <1>3, BestIs DEF FindingsAre
<1>5. lost = k - first
  <2> DEFINE e == start.folded
  <2>1. e \in Nat /\ r.folded = e + k /\ prepared.folded = e + first
    BY <1>1, <1>3
  <2> HIDE DEF e
  <2> QED
    BY <1>2, <2>1
<1>6. ASSUME uniform
      PROVE  first = 0 /\ \E s : Even(start.table, s)
  <2>1. first = 0
    <3> DEFINE e == start.folded
    <3>1. e \in Nat /\ e + first = 0
      BY <1>1, <1>3, <1>6
    <3> HIDE DEF e
    <3> QED
      BY <1>2, <3>1
  <2>2. prepared.table = start.table
    BY <1>1, <1>3, <2>1 DEF Tables
  <2> DEFINE t == start.table
  <2>3. \A g, h \in DOMAIN t : RowBytes(t[g]) = RowBytes(t[h])
    BY <1>6, <2>2
  <2>4. \E s : Even(t, s)
    <3>1. CASE DOMAIN t = {}
      <4>1. 0 \in Nat
        OBVIOUS
      <4>2. Even(t, 0)
        BY <3>1, <4>1 DEF Even
      <4> QED
        BY <4>2
    <3>2. CASE DOMAIN t # {}
      <4>1. PICK g : g \in DOMAIN t
        BY <3>2
      <4>2. Solid(t[g], items)
        BY <1>1, <4>1 DEF PlainTable, SolidRows
      <4>3. RowBytes(t[g]) \in Nat
        BY <4>2, RowSizeIs
      <4>4. Even(t, RowBytes(t[g]))
        BY <2>3, <4>1, <4>3 DEF Even
      <4> QED
        BY <4>4
    <3> QED
      BY <3>1, <3>2
  <2> QED
    BY <2>1, <2>4
<1>7. ASSUME NEW m \in 0 .. Len(prepared.findings),
             NEW c \in 0 .. Len(prepared.table), better(m, c)
      PROVE  ~ Fits(more(m, c), limits)
  <2> DEFINE p == more(m, c)
             j == Lesser(first + c, most)
  <2>0. Len(prepared.table) \in Nat
    <3> DEFINE u == T[first]
    <3>1. FoldedBy(start.table, u, first, items)
      BY <1>1, <1>2, TablesAre
    <3> HIDE DEF u
    <3>2. \E S : u \in Seq(S)
      BY <1>1, <3>1, FoldedRowsAre, Zenon
    <3> QED
      BY <1>3, <3>2 DEF u
  <2>1. m \in 0 .. top /\ c \in Nat /\ m \in Nat
    BY <1>2, <1>4, <2>0
  <2>2. Reached(start, T, p, m, j)
    <3>1. Reached(start, T,
             FoldRows([prepared EXCEPT
               !.findings = Shorter(@, m),
               !.omitted = @ + Len(prepared.findings) - m,
               !.truncated = @ \/ m < Len(prepared.findings)], c, items),
             m, Lesser(first + c, MostFolds(start.table)))
      BY <2>1, OthersReach
    <3> QED
      BY <3>1
  <2> HIDE DEF p
  <2>3. CASE m = returned + 1 /\ c >= lost
    <3> HIDE DEF most, lost, returned
    <3>1. m = n + 1 /\ n < top
      BY <1>2, <1>4, <2>1, <2>3
    <3>2. j >= k
      BY <1>1, <1>2, <1>5, <2>1, <2>3 DEF Lesser
    <3> HIDE DEF j
    <3>3. Reached(start, T, p, n + 1, j)
      BY <2>2, <3>1
    <3>4. ~ Fits(p, limits)
      BY <1>1, <3>1, <3>2, <3>3 DEF Vain
    <3> QED
      BY <3>4 DEF p
  <2>4. CASE /\ m = returned /\ m = Len(prepared.findings)
             /\ uniform /\ c < lost
    <3>1. first = 0 /\ \E s : Even(start.table, s)
      BY <1>6, <2>4
    <3> HIDE DEF most, lost, returned, uniform
    <3>2. m = n /\ n = top
      BY <1>4, <2>4
    <3>3. j < k
      BY <1>1, <1>2, <1>5, <2>1, <2>4 DEF Lesser
    <3> HIDE DEF j
    <3>4. Reached(start, T, p, n, j)
      BY <2>2, <3>2
    <3>5. ~ Fits(p, limits)
      BY <1>1, <3>1, <3>2, <3>3, <3>4 DEF Tight
    <3> QED
      BY <3>5 DEF p
  <2> HIDE DEF lost, returned, uniform
  <2> QED
    BY <1>7, <2>3, <2>4
<1> QED
  BY <1>7 DEF NothingLostInVain

\* What the loop ends with is good.
LEMMA FitEndsGood ==
    ASSUME NEW start, NEW limits, Unfitted(start, limits), limits \in FitLimits,
           NEW T, Foldable(start, T, limits.items),
           NEW top \in Nat, NEW first \in Nat,
           Reached(start, T, Prepared(start, limits), top, first)
    PROVE  \E last, n, k :
              /\ Fit(start, limits) = Answer(last, limits)
              /\ Good(start, T, last, n, k, limits, top, first)
<1> DEFINE N == Len(start.findings) + Len(start.table)
           items == limits.items
<1>1. /\ items \in Nat /\ limits.characters \in Nat
      /\ limits.bytes \in Nat \ {0}
  BY DEF FitLimits
<1>2. Uncut(start) /\ start.findings \in Seq(Findings)
  BY UnfittedIs DEF Uncut
<1>3. N \in Nat
  <2> DEFINE a == Len(start.findings)
             b == Len(start.table)
  <2>1. a \in Nat
    BY <1>2
  <2>2. b \in Nat
    BY TableIsPlain DEF PlainTable
  <2> HIDE DEF a, b
  <2>3. a + b \in Nat
    BY <2>1, <2>2
  <2> QED
    BY <2>3 DEF a, b
<1>4. PICK f : /\ f[0] = Prepared(start, limits)
               /\ \A i \in 1 .. N : f[i] = FitStep(f[i - 1], limits)
               /\ Fit(start, limits) = Answer(f[N], limits)
  BY <1>3, FitIs
<1> HIDE DEF N
<1> DEFINE ok(i) == \E n, k : Good(start, T, f[i], n, k, limits, top, first)
           bad == {i \in Nat : i <= N /\ ~ ok(i)}
<1>5. ok(0)
  <2>1. Vain(start, T, top, first, limits, top)
    BY DEF Vain
  <2>2. Tight(start, T, top, first, limits, top, first)
    <3> SUFFICES ASSUME first = 0, NEW p, NEW j,
                        Reached(start, T, p, top, j), j < first
                 PROVE  FALSE
      BY DEF Tight
    <3>1. j \in Nat
      BY <1>1, <1>2, ReachedIs
    <3> QED
      BY <3>1
  <2>3. top <= top /\ first <= first
    OBVIOUS
  <2>4. Good(start, T, Prepared(start, limits), top, first, limits, top, first)
    BY <2>1, <2>2, <2>3 DEF Good
  <2> QED
    BY <1>4, <2>4
<1>6. ASSUME NEW i \in 1 .. N, ok(i - 1)
      PROVE  ok(i)
  <2> DEFINE r == f[i - 1]
  <2>1. PICK n, k : Good(start, T, r, n, k, limits, top, first)
    BY <1>6
  <2> HIDE DEF r
  <2>2. \E m, j : Good(start, T, FitStep(r, limits), m, j, limits, top, first)
    BY <1>1, <1>2, <2>1, FitStepIsGood
  <2>3. f[i] = FitStep(r, limits)
    BY <1>4 DEF r
  <2> QED
    BY <2>2, <2>3
<1> HIDE DEF ok
<1>7. bad = {}
  <2> SUFFICES ASSUME bad # {} PROVE FALSE
    OBVIOUS
  <2>0. bad \in SUBSET Nat
    OBVIOUS
  <2>1. PICK i \in bad : \A j \in bad : i <= j
    <3> HIDE DEF bad
    <3> QED
      BY <2>0, SmallestNumber
  <2>2. i \in Nat /\ i <= N /\ ~ ok(i) /\ i # 0
    BY <1>5
  <2>3. i \in 1 .. N /\ i - 1 \in Nat /\ i - 1 <= N /\ ~ (i <= i - 1)
    BY <1>3, <2>2
  <2>4. ok(i - 1)
    BY <2>1, <2>3
  <2> QED
    BY <1>6, <2>2, <2>3, <2>4
<1>8. ok(N)
  <2>1. N \in Nat /\ N <= N
    BY <1>3
  <2> QED
    BY <1>7, <2>1
<1> QED
  BY <1>4, <1>8 DEF ok

\* Whatever valid result is fitted, and to whatever limits: the answer is valid;
\* it adds up; it is refused only when nothing is left to drop or to fold; and
\* it has as many findings as could be sent, and every row that could be kept
\* when the rows are of one size (render.go, Fit, foldOverviewTail and
\* overviewFoldEstimate).
THEOREM FittingKeepsItsWord ==
    ASSUME NEW start, NEW limits, Unfitted(start, limits), limits \in FitLimits
    PROVE  FitKeepsItsWord(start, limits)
<1> DEFINE items == limits.items
           prepared == Prepared(start, limits)
           answer == Fit(start, limits)
<1>1. /\ Uncut(start) /\ start.folded \in Nat
      /\ items \in Nat /\ limits.maximum \in Nat
      /\ PlainTable(start.table, items)
  BY UnfittedIs, TableIsPlain DEF FitLimits
<1>2. PICK T : Foldable(start, T, items)
  <2>1. PICK T : Tables(T, start.table, items)
    BY <1>1, TablesThereAre
  <2> QED
    BY <1>1, <2>1 DEF Foldable
<1>3. PICK top, first :
         /\ Reached(start, T, prepared, top, first)
         /\ top \in Nat /\ top <= items /\ first \in Nat
         /\ \A j \in 0 .. MostFolds(start.table) :
               first <= j => Len(T[j]) <= limits.rows
  BY <1>2, PreparedReaches
<1>4. PICK last, n, k : /\ answer = Answer(last, limits)
                        /\ Good(start, T, last, n, k, limits, top, first)
  BY <1>2, <1>3, FitEndsGood
<1> HIDE DEF answer, prepared
<1>5. /\ answer.result = last
      /\ ValidResult(last, limits) => answer.error # "invalid wire"
  <2>1. /\ Answer(last, limits).result = last
        /\ ValidResult(last, limits)
              => Answer(last, limits).error # "invalid wire"
    BY DEF Answer
  <2> QED
    BY <1>4, <2>1
<1>6. answer.error # "invalid wire"
  <2>1. Reached(start, T, last, n, k) /\ n <= top /\ first <= k
    BY <1>4 DEF Good
  <2>2. n \in Nat /\ k \in 0 .. MostFolds(start.table)
    <3>1. start.findings \in Seq(Findings)
      BY <1>1 DEF Uncut
    <3>2. n \in Nat
      BY <1>1, <1>2, <2>1, <3>1, ReachedIs
    <3> QED
      BY <2>1, <3>2 DEF Reached
  <2>3. n <= items /\ Len(T[k]) <= limits.rows
    BY <1>1, <1>3, <2>1, <2>2
  <2>4. ValidResult(last, limits)
    BY <1>1, <1>2, <2>1, <2>3, ReachedIsValid
  <2> QED
    BY <1>5, <2>4
<1>7. AnswerAddsUp(start, answer, limits)
  <2>1. PICK Rows : PlainRows(Rows) /\ start.table \in Seq(Rows)
    BY UnfittedIs
  <2>2. start \in Results
    BY DEF Unfitted
  <2>3. start \in [findings : Seq(Findings), omitted : Nat,
                   truncated : BOOLEAN, warnings : Seq(Image(Warnings)),
                   table : Seq(Rows), folded : Nat]
    BY <2>1, <2>2 DEF Results
  <2> QED
    BY <1>1, <2>1, <2>3, AnswersAddUp DEF answer
<1>8. NothingLostInVain(prepared, answer.result, limits)
  <2>1. NothingLostInVain(prepared, last, limits)
    BY <1>1, <1>2, <1>3, <1>4, GoodLosesNothing
  <2> QED
    BY <1>5, <2>1
<1>9. AnswerKeepsItsWord(start, prepared, answer, limits)
  BY <1>6, <1>7, <1>8 DEF AnswerKeepsItsWord
<1> QED
  BY <1>9 DEF FitKeepsItsWord, prepared, answer

=============================================================================
