------------------------- MODULE IndexFormat_proofs -------------------------
(***************************************************************************)
(* Theorems about the index file, for every alphabet, every input and      *)
(* every file: both readers accept what the encoder writes, they accept    *)
(* the same files, there is one file for an index, it is no larger than    *)
(* foreseen, and what an update keeps in memory is what a reader loads.    *)
(*                                                                         *)
(* A sorted list is the only one that has its elements in order, so each   *)
(* section a reader accepts is the section the encoder derives. Where a    *)
(* reader only counts, counts decide: lists that each hold no more than    *)
(* they should are complete exactly when their lengths add up. Sums are    *)
(* defined by recursion, and reasoned about by a least set at which they   *)
(* would go wrong.                                                         *)
(***************************************************************************)
EXTENDS IndexFormat, FiniteSetTheorems, SequenceTheorems, TLAPS

(* Orders *)

\* The elements of S before w, in the order of a set of pairs.
Smaller(R, S, w) == {v \in S : <<v, w>> \in R}

\* A strict total order of S.
IsOrder(R, S) ==
    /\ \A v \in S : <<v, v>> \notin R
    /\ \A u, v, w \in S : <<u, v>> \in R /\ <<v, w>> \in R => <<u, w>> \in R
    /\ \A v, w \in S : v # w => <<v, w>> \in R \/ <<w, v>> \in R

\* A part of a finite set has no more elements, and as many only if it is all.
LEMMA CountGrows ==
    ASSUME NEW S, IsFiniteSet(S), NEW T \in SUBSET S
    PROVE  /\ Cardinality(T) \in Nat /\ Cardinality(S) \in Nat
           /\ IsFiniteSet(T)
           /\ Cardinality(T) <= Cardinality(S)
           /\ S # T => Cardinality(T) < Cardinality(S)
<1>1. /\ IsFiniteSet(T)
      /\ Cardinality(S) \in Nat /\ Cardinality(T) \in Nat
      /\ Cardinality(T) <= Cardinality(S)
      /\ Cardinality(S) = Cardinality(T) => S = T
  BY FS_Subset, FS_CardinalityType
<1> QED
  BY <1>1

\* The number of elements before one is its place in the set, counted from 0.
LEMMA PlaceIs ==
    ASSUME NEW S, IsFiniteSet(S), NEW R, IsOrder(R, S)
    PROVE  /\ \A w \in S : Cardinality(Smaller(R, S, w))
                             \in 0 .. Cardinality(S) - 1
           /\ \A v, w \in S : <<v, w>> \in R =>
                Cardinality(Smaller(R, S, v)) < Cardinality(Smaller(R, S, w))
           /\ \A v, w \in S :
                Cardinality(Smaller(R, S, v)) = Cardinality(Smaller(R, S, w))
                  => v = w
<1>1. ASSUME NEW w \in S
      PROVE  Cardinality(Smaller(R, S, w)) \in 0 .. Cardinality(S) - 1
  <2>1. Smaller(R, S, w) \in SUBSET S /\ w \notin Smaller(R, S, w)
    BY DEF Smaller, IsOrder
  <2>2. /\ Cardinality(Smaller(R, S, w)) \in Nat /\ Cardinality(S) \in Nat
        /\ Cardinality(Smaller(R, S, w)) < Cardinality(S)
    BY <2>1, CountGrows
  <2> QED
    BY <2>2
<1>2. ASSUME NEW v \in S, NEW w \in S, <<v, w>> \in R
      PROVE  Cardinality(Smaller(R, S, v)) < Cardinality(Smaller(R, S, w))
  <2>1. Smaller(R, S, v) \in SUBSET Smaller(R, S, w)
    BY <1>2 DEF Smaller, IsOrder
  <2>2. v \in Smaller(R, S, w) /\ v \notin Smaller(R, S, v)
    BY <1>2 DEF Smaller, IsOrder
  <2>3. IsFiniteSet(Smaller(R, S, w))
    BY CountGrows DEF Smaller
  <2> QED
    BY <2>1, <2>2, <2>3, CountGrows
<1>3. ASSUME NEW v \in S, NEW w \in S, v # w,
             Cardinality(Smaller(R, S, v)) = Cardinality(Smaller(R, S, w))
      PROVE  FALSE
  <2>1. /\ Cardinality(Smaller(R, S, v)) \in Int
        /\ Cardinality(Smaller(R, S, w)) \in Int
    BY <1>1
  <2>2. <<v, w>> \in R \/ <<w, v>> \in R
    BY <1>3 DEF IsOrder
  <2> QED
    BY <1>2, <1>3, <2>1, <2>2
<1> QED
  BY <1>1, <1>2, <1>3

\* Every place is taken.
LEMMA PlacesAreTaken ==
    ASSUME NEW S, IsFiniteSet(S), NEW R, IsOrder(R, S),
           NEW n \in 0 .. Cardinality(S) - 1
    PROVE  \E w \in S : Cardinality(Smaller(R, S, w)) = n
<1> DEFINE c == Cardinality(S)
           place == [w \in S |-> Cardinality(Smaller(R, S, w))]
<1>1. c \in Nat
  BY FS_CardinalityType
<1>2. place \in Injection(S, 0 .. c - 1)
  <2>1. \A w \in S : place[w] = Cardinality(Smaller(R, S, w))
    OBVIOUS
  <2>2. place \in [S -> 0 .. c - 1]
    BY PlaceIs
  <2> HIDE DEF place
  <2>3. \A v, w \in S : place[v] = place[w] => v = w
    BY <2>1, PlaceIs
  <2> QED
    BY <2>2, <2>3 DEF Injection, IsInjective
<1>3. IsFiniteSet(0 .. c - 1) /\ Cardinality(0 .. c - 1) = c
  BY <1>1, FS_Interval
<1>4. place \in Surjection(S, 0 .. c - 1)
  BY <1>2, <1>3, FS_Injection
<1> QED
  BY <1>4 DEF Surjection


\* The sequence of a set has each of its elements at its place.
LEMMA ListIs ==
    ASSUME NEW S, IsFiniteSet(S), NEW R, IsOrder(R, S)
    PROVE  /\ InOrder(S, R) \in Seq(S)
           /\ Len(InOrder(S, R)) = Cardinality(S)
           /\ \A n \in 1 .. Cardinality(S) :
                 Cardinality(Smaller(R, S, InOrder(S, R)[n])) = n - 1
           /\ Image(InOrder(S, R)) = S
           /\ \A n \in 1 .. Cardinality(S) - 1 :
                 <<InOrder(S, R)[n], InOrder(S, R)[n + 1]>> \in R
<1> DEFINE c == Cardinality(S)
           list == InOrder(S, R)
           place == {<<Cardinality({v \in S : <<v, w>> \in R}) + 1, w>> : w \in S}
<1>1. c \in Nat
  BY FS_CardinalityType
<1>2. /\ list = [n \in 1 .. c |-> list[n]]
      /\ \A n \in 1 .. c :
            list[n] \in S /\ Cardinality(Smaller(R, S, list[n])) = n - 1
  <2>1. ASSUME NEW n \in 1 .. c
        PROVE  \E p \in place : p[1] = n
    <3>1. n - 1 \in 0 .. c - 1
      BY <1>1
    <3>2. PICK w \in S : Cardinality(Smaller(R, S, w)) = n - 1
      BY <3>1, PlacesAreTaken
    <3>3. <<Cardinality({v \in S : <<v, w>> \in R}) + 1, w>> \in place
      OBVIOUS
    <3>4. Cardinality({v \in S : <<v, w>> \in R}) + 1 = n
      BY <1>1, <3>2 DEF Smaller
    <3> QED
      BY <3>3, <3>4
  <2> DEFINE nth(n) == CHOOSE p \in place : p[1] = n
  <2>2. list = [n \in 1 .. c |-> nth(n)[2]]
    BY DEF InOrder
  <2> HIDE DEF list, c
  <2>3. ASSUME NEW n \in 1 .. c
        PROVE  list[n] \in S /\ Cardinality(Smaller(R, S, list[n])) = n - 1
    <3>1. nth(n) \in place /\ nth(n)[1] = n
      BY <2>1
    <3> HIDE DEF nth
    <3>2. PICK w \in S :
             nth(n) = <<Cardinality({v \in S : <<v, w>> \in R}) + 1, w>>
      BY <3>1
    <3>3. Cardinality(Smaller(R, S, w)) + 1 = n /\ list[n] = w
      BY <2>2, <3>1, <3>2 DEF Smaller
    <3>4. Cardinality(Smaller(R, S, w)) \in Int
      BY PlaceIs
    <3> QED
      BY <3>3, <3>4
  <2> HIDE DEF nth
  <2> QED
    BY <2>2, <2>3
<1> HIDE DEF place
<1>3. list \in Seq(S) /\ Len(list) = c /\ DOMAIN list = 1 .. c
  BY <1>1, <1>2, SeqDef
<1>4. Image(list) = S
  <2>1. ASSUME NEW w \in S
        PROVE  \E n \in 1 .. c : list[n] = w
    <3>1. Cardinality(Smaller(R, S, w)) \in 0 .. c - 1
      BY PlaceIs
    <3>2. PICK n \in 1 .. c : n - 1 = Cardinality(Smaller(R, S, w))
      BY <1>1, <3>1
    <3> QED
      BY <1>2, <3>2, PlaceIs
  <2> QED
    BY <1>2, <1>3, <2>1 DEF Image
<1>5. ASSUME NEW n \in 1 .. c - 1
      PROVE  <<list[n], list[n + 1]>> \in R
  <2>1. n \in 1 .. c /\ n + 1 \in 1 .. c
    BY <1>1
  <2>2. /\ Cardinality(Smaller(R, S, list[n])) = n - 1
        /\ Cardinality(Smaller(R, S, list[n + 1])) = n
        /\ list[n] \in S /\ list[n + 1] \in S
    BY <1>1, <1>2, <2>1
  <2>3. list[n] # list[n + 1]
    BY <2>2
  <2>4. ~(<<list[n + 1], list[n]>> \in R)
    BY <2>2, PlaceIs
  <2> QED
    BY <2>2, <2>3, <2>4 DEF IsOrder
<1> QED
  BY <1>2, <1>3, <1>4, <1>5


\* A set of subsets of a finite set has a least one.
LEMMA LeastSubset ==
    ASSUME NEW S, IsFiniteSet(S), NEW Q \in SUBSET SUBSET S, Q # {}
    PROVE  \E T \in Q : \A U \in SUBSET T : U # T => U \notin Q
<1>1. Q \subseteq FiniteSubsetsOf(S)
  BY FS_Subset DEF FiniteSubsetsOf
<1>2. PICK T \in Q : \A U \in Q : ~ (<<U, T>> \in StrictSubsetOrdering(S))
  BY <1>1, FS_StrictSubsetOrderingWellFounded, WFMin
<1> QED
  BY <1>2 DEF StrictSubsetOrdering

\* A set of numbers has a smallest one.
LEMMA SmallestNumber ==
    ASSUME NEW S \in SUBSET Nat, S # {}
    PROVE  \E m \in S : \A n \in S : m <= n
<1>1. PICK k \in S : TRUE
  OBVIOUS
<1> DEFINE below == {1 .. n : n \in {i \in S : i <= k}}
<1>2. below \in SUBSET SUBSET (1 .. k) /\ below # {}
  <2>1. k \in {i \in S : i <= k}
    OBVIOUS
  <2> QED
    BY <2>1
<1>6. IsFiniteSet(1 .. k)
  BY FS_Interval
<1>3. PICK T \in below : \A U \in SUBSET T : U # T => U \notin below
  <2> HIDE DEF below
  <2> QED
    BY <1>2, <1>6, LeastSubset
<1>4. PICK m \in S : m <= k /\ T = 1 .. m
  OBVIOUS
<1>5. ASSUME NEW n \in S, n < m
      PROVE  FALSE
  <2>1. 1 .. n \in SUBSET T /\ 1 .. n # T /\ 1 .. n \in below
    BY <1>4, <1>5
  <2> QED
    BY <1>3, <2>1
<1> QED
  BY <1>5

\* The numbers up to n are n numbers.
LEMMA NumbersUpTo ==
    ASSUME NEW n \in Nat
    PROVE  IsFiniteSet(1 .. n) /\ Cardinality(1 .. n) = n
  BY FS_Interval

\* A chain of R: each element comes before the next.
IsChain(s, R) == \A i \in 1 .. Len(s) - 1 : <<s[i], s[i + 1]>> \in R

\* In a chain every element comes before all later ones.
LEMMA ChainIsOrdered ==
    ASSUME NEW S, NEW s \in Seq(S), NEW R, IsOrder(R, S), IsChain(s, R)
    PROVE  \A i, j \in 1 .. Len(s) : i < j => <<s[i], s[j]>> \in R
<1> DEFINE n == Len(s)
<1>0. n \in Nat /\ \A i \in 1 .. n : s[i] \in S
  OBVIOUS
<1> SUFFICES ASSUME NEW i \in 1 .. n PROVE \A j \in 1 .. n : i < j => <<s[i], s[j]>> \in R
  OBVIOUS
<1> DEFINE bad == {j \in 1 .. n : i < j /\ <<s[i], s[j]>> \notin R}
<1> SUFFICES ASSUME bad # {} PROVE FALSE
  OBVIOUS
<1>1. PICK j \in bad : \A k \in bad : j <= k
  <2>1. bad \in SUBSET Nat
    BY <1>0
  <2> HIDE DEF bad
  <2> QED
    BY <2>1, SmallestNumber
<1>2. j - 1 \in 1 .. n - 1 /\ j \in 1 .. n /\ i <= j - 1
  BY <1>0, <1>1
<1>3. <<s[j - 1], s[j]>> \in R
  <2>1. <<s[j - 1], s[(j - 1) + 1]>> \in R
    BY <1>2 DEF IsChain
  <2>2. (j - 1) + 1 = j
    BY <1>2
  <2> QED
    BY <2>1, <2>2
<1>4. CASE i = j - 1
  BY <1>1, <1>3, <1>4
<1>5. CASE i < j - 1
  <2>1. j - 1 \notin bad
    BY <1>0, <1>1, <1>2
  <2>2. j - 1 \in 1 .. n
    BY <1>0, <1>2
  <2>3. <<s[i], s[j - 1]>> \in R
    BY <1>5, <2>1, <2>2
  <2>4. s[i] \in S /\ s[j - 1] \in S /\ s[j] \in S
    BY <1>0, <1>2, <2>2
  <2> QED
    BY <1>1, <1>3, <2>3, <2>4 DEF IsOrder
<1> QED
  BY <1>0, <1>2, <1>4, <1>5

\* A chain names its elements once, so it has as many places as elements.
LEMMA ChainIsCounted ==
    ASSUME NEW S, NEW s \in Seq(S), NEW R, IsOrder(R, S), IsChain(s, R)
    PROVE  /\ \A i, j \in 1 .. Len(s) : s[i] = s[j] => i = j
           /\ IsFiniteSet(Image(s)) /\ Cardinality(Image(s)) = Len(s)
<1> DEFINE n == Len(s)
<1>0. n \in Nat /\ DOMAIN s = 1 .. n /\ \A i \in 1 .. n : s[i] \in S
  OBVIOUS
<1>1. \A i, j \in 1 .. n : s[i] = s[j] => i = j
  <2> SUFFICES ASSUME NEW i \in 1 .. n, NEW j \in 1 .. n, i < j, s[i] = s[j]
               PROVE  FALSE
    BY <1>0
  <2>1. <<s[i], s[j]>> \in R
    BY ChainIsOrdered
  <2> QED
    BY <1>0, <2>1 DEF IsOrder
<1>2. s \in Bijection(1 .. n, Image(s))
  <2>1. s \in [1 .. n -> Image(s)]
    BY <1>0 DEF Image
  <2>2. \A y \in Image(s) : \E i \in 1 .. n : s[i] = y
    BY <1>0 DEF Image
  <2> QED
    BY <1>1, <2>1, <2>2
       DEF Bijection, Injection, Surjection, IsInjective
<1>3. IsFiniteSet(1 .. n) /\ Cardinality(1 .. n) = n
  BY <1>0, NumbersUpTo
<1>4. ExistsBijection(1 .. n, Image(s))
  BY <1>2 DEF ExistsBijection
<1> QED
  BY <1>1, <1>3, <1>4, FS_Bijection

\* There is one chain through the elements of a set: the set in that order.
LEMMA ChainIsList ==
    ASSUME NEW S, NEW s \in Seq(S), NEW R, IsOrder(R, S), IsChain(s, R),
           Image(s) = S
    PROVE  s = InOrder(S, R) /\ IsFiniteSet(S) /\ Cardinality(S) = Len(s)
<1> DEFINE n == Len(s)
           list == InOrder(S, R)
<1>0. n \in Nat /\ DOMAIN s = 1 .. n /\ \A i \in 1 .. n : s[i] \in S
  OBVIOUS
<1>1. /\ IsFiniteSet(S) /\ Cardinality(S) = n
      /\ \A i, j \in 1 .. n : s[i] = s[j] => i = j
  BY ChainIsCounted
<1>2. /\ list \in Seq(S) /\ Len(list) = n /\ Image(list) = S
      /\ IsChain(list, R)
  BY <1>1, ListIs DEF IsChain
<1> HIDE DEF list
<1>3. \A i, j \in 1 .. n : i < j => <<s[i], s[j]>> \in R /\ <<list[i], list[j]>> \in R
  BY <1>2, ChainIsOrdered
<1>4. DOMAIN list = 1 .. n /\ \A i \in 1 .. n : list[i] \in S
  BY <1>2
<1> DEFINE bad == {i \in 1 .. n : s[i] # list[i]}
<1>5. bad = {}
  <2> SUFFICES ASSUME bad # {} PROVE FALSE
    OBVIOUS
  <2>1. PICK i \in bad : \A k \in bad : i <= k
    <3>1. bad \in SUBSET Nat
      BY <1>0
    <3> HIDE DEF bad
    <3> QED
      BY <3>1, SmallestNumber
  <2>2. i \in 1 .. n /\ \A k \in 1 .. n : k < i => s[k] = list[k]
    BY <1>0, <2>1
  <2>3. PICK j \in 1 .. n : list[j] = s[i]
    BY <1>0, <1>2, <1>4, <2>2 DEF Image
  <2>4. PICK k \in 1 .. n : s[k] = list[i]
    BY <1>0, <1>4, <2>2 DEF Image
  <2>5. i < j
    <3>1. j # i
      BY <2>1, <2>3
    <3>2. ~ (j < i)
      BY <1>1, <2>2, <2>3
    <3> QED
      BY <1>0, <2>2, <3>1, <3>2
  <2>6. i < k
    <3>1. k # i
      BY <2>1, <2>4
    <3>2. ~ (k < i)
      <4> SUFFICES ASSUME k < i PROVE FALSE
        OBVIOUS
      <4>1. <<list[k], list[i]>> \in R /\ list[k] = list[i]
        BY <1>3, <2>2, <2>4
      <4> QED
        BY <1>4, <2>2, <4>1 DEF IsOrder
    <3> QED
      BY <1>0, <2>2, <3>1, <3>2
  <2>7. <<list[i], s[i]>> \in R /\ <<s[i], list[i]>> \in R
    BY <1>3, <2>2, <2>3, <2>4, <2>5, <2>6
  <2> QED
    BY <1>0, <1>4, <2>2, <2>7 DEF IsOrder
<1>6. s = [i \in 1 .. n |-> s[i]] /\ list = [i \in 1 .. n |-> list[i]]
  BY <1>0, <1>2, <1>4
<1> QED
  BY <1>1, <1>5, <1>6 DEF list

\* Numbers of distinct elements order them.
LEMMA NumbersOrder ==
    ASSUME NEW S, NEW f, \A x \in S : f[x] \in Nat,
           \A x, y \in S : f[x] = f[y] => x = y,
           NEW R, \A x, y \in S : <<x, y>> \in R <=> f[x] < f[y]
    PROVE  IsOrder(R, S)
<1>1. \A v \in S : <<v, v>> \notin R
  OBVIOUS
<1>2. \A u, v, w \in S : <<u, v>> \in R /\ <<v, w>> \in R => <<u, w>> \in R
  OBVIOUS
<1>3. \A v, w \in S : v # w => <<v, w>> \in R \/ <<w, v>> \in R
  OBVIOUS
<1> QED
  BY <1>1, <1>2, <1>3 DEF IsOrder

\* So do lists of numbers.
LEMMA TuplesOrder ==
    ASSUME NEW S, NEW N \in Nat, NEW f, \A x \in S : f[x] \in [1 .. N -> Nat],
           \A x, y \in S : f[x] = f[y] => x = y,
           NEW R, \A x, y \in S : <<x, y>> \in R <=> LexLess(f[x], f[y])
    PROVE  IsOrder(R, S)
<1>0. \A x, y \in S : <<x, y>> \in R <=>
         \E i \in 1 .. N : /\ f[x][i] < f[y][i]
                           /\ \A j \in 1 .. i - 1 : f[x][j] = f[y][j]
  <2> TAKE x, y \in S
  <2>1. DOMAIN f[x] = 1 .. N
    OBVIOUS
  <2> QED
    BY <2>1 DEF LexLess
<1>1. \A x \in S : \A i \in 1 .. N : f[x][i] \in Nat
  OBVIOUS
<1>2. \A v \in S : <<v, v>> \notin R
  BY <1>0, <1>1
<1>3. ASSUME NEW u \in S, NEW v \in S, NEW w \in S, <<u, v>> \in R,
             <<v, w>> \in R
      PROVE  <<u, w>> \in R
  <2>1. PICK i \in 1 .. N : /\ f[u][i] < f[v][i]
                            /\ \A j \in 1 .. i - 1 : f[u][j] = f[v][j]
    BY <1>0, <1>3
  <2>2. PICK k \in 1 .. N : /\ f[v][k] < f[w][k]
                            /\ \A j \in 1 .. k - 1 : f[v][j] = f[w][j]
    BY <1>0, <1>3
  <2>3. /\ f[u][i] \in Nat /\ f[v][i] \in Nat /\ f[w][i] \in Nat
        /\ f[u][k] \in Nat /\ f[v][k] \in Nat /\ f[w][k] \in Nat
    BY <1>1
  <2>4. CASE i < k
    <3>1. i \in 1 .. k - 1
      BY <2>4
    <3>2. f[u][i] < f[w][i]
      BY <2>1, <2>2, <2>3, <3>1
    <3>3. \A j \in 1 .. i - 1 : j \in 1 .. k - 1
      BY <2>4
    <3>4. \A j \in 1 .. i - 1 : f[u][j] = f[w][j]
      BY <2>1, <2>2, <3>3
    <3> QED
      BY <1>0, <3>2, <3>4
  <2>5. CASE i = k
    <3>2. f[u][i] < f[w][i]
      BY <2>1, <2>2, <2>3, <2>5
    <3>3. \A j \in 1 .. i - 1 : f[u][j] = f[w][j]
      BY <2>1, <2>2, <2>5
    <3> QED
      BY <1>0, <3>2, <3>3
  <2>6. CASE k < i
    <3>1. k \in 1 .. i - 1
      BY <2>6
    <3>2. f[u][k] < f[w][k]
      BY <2>1, <2>2, <2>3, <3>1
    <3>3. \A j \in 1 .. k - 1 : j \in 1 .. i - 1
      BY <2>6
    <3>4. \A j \in 1 .. k - 1 : f[u][j] = f[w][j]
      BY <2>1, <2>2, <3>3
    <3> QED
      BY <1>0, <3>2, <3>4
  <2> QED
    BY <2>4, <2>5, <2>6
<1>4. ASSUME NEW v \in S, NEW w \in S, v # w
      PROVE  <<v, w>> \in R \/ <<w, v>> \in R
  <2> DEFINE differ == {i \in 1 .. N : f[v][i] # f[w][i]}
  <2>1. differ # {}
    <3> SUFFICES ASSUME differ = {} PROVE FALSE
      OBVIOUS
    <3>1. f[v] = [i \in 1 .. N |-> f[v][i]] /\ f[w] = [i \in 1 .. N |-> f[w][i]]
      OBVIOUS
    <3> QED
      BY <1>4, <3>1
  <2>2. PICK i \in differ : \A k \in differ : i <= k
    <3>1. differ \in SUBSET Nat
      OBVIOUS
    <3> HIDE DEF differ
    <3> QED
      BY <2>1, <3>1, SmallestNumber
  <2>3. i \in 1 .. N /\ \A j \in 1 .. i - 1 : f[v][j] = f[w][j]
    BY <2>2
  <2>4. f[v][i] < f[w][i] \/ f[w][i] < f[v][i]
    BY <1>1, <2>2
  <2> QED
    BY <1>0, <2>3, <2>4
<1> QED
  BY <1>2, <1>3, <1>4 DEF IsOrder

-----------------------------------------------------------------------------
(* Sums *)

\* The sum of the numbers that w gives the elements of T.
SumOn(w, T) == SumFunctionOnSet(w, T)

\* The element that is added first.
Picked(T) == CHOOSE x \in T : TRUE

\* One more turn of the recursion.
Added(f, w, T) == IF T = {} THEN 0 ELSE w[Picked(T)] + f[T \ {Picked(T)}]

\* The function that is unfolded.
Adds(f, w, S) ==
    f = [T \in SUBSET S |->
            IF T = {} THEN 0
            ELSE w[CHOOSE x \in T : TRUE] + f[T \ {CHOOSE x \in T : TRUE}]]

\* There is such a function.
LEMMA SumsThereAre ==
    ASSUME NEW w, NEW S, IsFiniteSet(S)
    PROVE  \E f : Adds(f, w, S)
<1> DEFINE upTo(f, n) ==
               /\ f = [T \in SUBSET S |-> f[T]]
               /\ \A T \in SUBSET S :
                     Cardinality(T) <= n => f[T] = Added(f, w, T)
           without == {n \in Nat : ~ \E f : upTo(f, n)}
<1>0. \A T \in SUBSET S : IsFiniteSet(T) /\ Cardinality(T) \in Nat
                          /\ Cardinality(T) <= Cardinality(S)
  BY FS_Subset, FS_CardinalityType
<1>1. without = {}
  <2> SUFFICES ASSUME without # {} PROVE FALSE
    OBVIOUS
  <2>1. PICK n \in without : \A m \in without : n <= m
    BY SmallestNumber
  <2>0. n \in Nat
    OBVIOUS
  <2>2. CASE n = 0
    <3> DEFINE f == [T \in SUBSET S |-> 0]
    <3>1. ASSUME NEW T \in SUBSET S, Cardinality(T) <= n
          PROVE  f[T] = Added(f, w, T)
      <4>1. T = {}
        BY <1>0, <2>2, <3>1, FS_EmptySet
      <4> QED
        BY <4>1 DEF Added
    <3>2. upTo(f, n)
      BY <3>1
    <3> QED
      BY <3>2
  <2>3. CASE n # 0
    <3>1. n - 1 \in Nat /\ n - 1 \notin without
      <4> HIDE DEF without
      <4> QED
        BY <2>0, <2>1, <2>3
    <3>2. PICK h : upTo(h, n - 1)
      BY <3>1
    <3> DEFINE f == [T \in SUBSET S |-> Added(h, w, T)]
    <3>3. \A T \in SUBSET S :
             Cardinality(T) <= n - 1 => f[T] = h[T]
      BY <3>2
    <3>4. ASSUME NEW T \in SUBSET S, Cardinality(T) <= n
          PROVE  f[T] = Added(f, w, T)
      <4>1. CASE T = {}
        BY <4>1 DEF Added
      <4>2. CASE T # {}
        <5> DEFINE U == T \ {Picked(T)}
        <5>1. Picked(T) \in T
          BY <4>2 DEF Picked
        <5>2. U \in SUBSET S /\ Cardinality(U) = Cardinality(T) - 1
          BY <1>0, <5>1, FS_RemoveElement
        <5>3. Cardinality(U) <= n - 1
          BY <1>0, <3>4, <5>2
        <5>4. f[U] = h[U]
          BY <3>3, <5>2, <5>3
        <5>5. f[T] = Added(h, w, T)
          OBVIOUS
        <5> HIDE DEF f
        <5> QED
          BY <4>2, <5>4, <5>5 DEF Added
      <4> QED
        BY <4>1, <4>2
    <3>5. f = [T \in SUBSET S |-> f[T]]
      OBVIOUS
    <3> HIDE DEF f
    <3>6. upTo(f, n)
      BY <3>4, <3>5
    <3> QED
      BY <3>6
  <2> QED
    BY <2>2, <2>3
<1>2. Cardinality(S) \in Nat
  BY FS_CardinalityType
<1>3. PICK f : upTo(f, Cardinality(S))
  BY <1>1, <1>2
<1>4. \A T \in SUBSET S : f[T] = Added(f, w, T)
  BY <1>0, <1>3
<1>5. Adds(f, w, S)
  BY <1>3, <1>4 DEF Adds, Added, Picked
<1> QED
  BY <1>5

\* And its value at S is the sum.
LEMMA SumIs ==
    ASSUME NEW w, NEW S, IsFiniteSet(S)
    PROVE  \E f : Adds(f, w, S) /\ SumOn(w, S) = f[S]
<1>1. SumOn(w, S) = (CHOOSE f : Adds(f, w, S))[S]
  BY DEF SumOn, SumFunctionOnSet, FoldFunctionOnSet, MapThenFoldSet, Adds
<1> QED
  BY <1>1, SumsThereAre

\* A sum is that of one number and the others.
LEMMA SumUnfolds ==
    ASSUME NEW w, NEW S, IsFiniteSet(S)
    PROVE  /\ S = {} => SumOn(w, S) = 0
           /\ S # {} => SumOn(w, S)
                = w[Picked(S)] + SumOn(w, S \ {Picked(S)})
<1>1. PICK f : Adds(f, w, S) /\ SumOn(w, S) = f[S]
  BY SumIs
<1>2. \A T \in SUBSET S : f[T] = Added(f, w, T)
  BY <1>1 DEF Adds, Added, Picked
<1>3. CASE S = {}
  BY <1>1, <1>2, <1>3 DEF Added
<1>4. CASE S # {}
  <2> DEFINE U == S \ {Picked(S)}
  <2>1. IsFiniteSet(U) /\ U \in SUBSET S
    BY FS_Subset
  <2>2. PICK g : Adds(g, w, U) /\ SumOn(w, U) = g[U]
    BY <2>1, SumIs
  <2>3. \A T \in SUBSET U : g[T] = Added(g, w, T)
    BY <2>2 DEF Adds, Added, Picked
  <2> DEFINE differ == {T \in SUBSET U : f[T] # g[T]}
  <2>4. differ = {}
    <3> SUFFICES ASSUME differ # {} PROVE FALSE
      OBVIOUS
    <3>0. differ \in SUBSET SUBSET U
      OBVIOUS
    <3> HIDE DEF differ, U
    <3>1. PICK T \in differ : \A V \in SUBSET T : V # T => V \notin differ
      BY <2>1, <3>0, LeastSubset
    <3> USE DEF differ
    <3>2. T \in SUBSET U /\ T \in SUBSET S
      BY <2>1
    <3>3. f[T] = Added(f, w, T) /\ g[T] = Added(g, w, T)
      BY <1>2, <2>3, <3>2
    <3>4. CASE T = {}
      BY <3>3, <3>4 DEF Added
    <3>5. CASE T # {}
      <4>1. Picked(T) \in T
        BY <3>5 DEF Picked
      <4>2. f[T \ {Picked(T)}] = g[T \ {Picked(T)}]
        BY <3>1, <3>2, <4>1
      <4> QED
        BY <3>3, <3>5, <4>2 DEF Added
    <3> QED
      BY <3>4, <3>5
  <2>5. f[U] = g[U]
    BY <2>4
  <2> QED
    BY <1>1, <1>2, <1>4, <2>2, <2>5 DEF Added
<1> QED
  BY <1>3, <1>4

\* A sum of numbers is a number.
LEMMA SumIsNat ==
    ASSUME NEW w, NEW S, IsFiniteSet(S),
           \A g \in S : w[g] \in Nat
    PROVE  SumOn(w, S) \in Nat
<1> DEFINE bad == {T \in SUBSET S : SumOn(w, T) \notin Nat}
<1> SUFFICES ASSUME bad # {} PROVE FALSE
  OBVIOUS
<1>1. bad \in SUBSET SUBSET S
  OBVIOUS
<1>2. PICK T \in bad : \A U \in SUBSET T : U # T => U \notin bad
  <2> HIDE DEF bad
  <2> QED
    BY <1>1, LeastSubset
<1>3. IsFiniteSet(T) /\ T \in SUBSET S
  BY FS_Subset
<1>4. T # {}
  <2>1. SumOn(w, T) \notin Nat
    OBVIOUS
  <2>2. T = {} => SumOn(w, T) = 0
    BY <1>3, SumUnfolds
  <2> QED
    BY <2>1, <2>2
<1>5. Picked(T) \in T
  BY <1>4 DEF Picked
<1>6. SumOn(w, T \ {Picked(T)}) \in Nat
  BY <1>2, <1>3, <1>5
<1> QED
  BY <1>3, <1>4, <1>5, <1>6, SumUnfolds

\* Any number may be added first.
LEMMA SumWithout ==
    ASSUME NEW w, NEW S, IsFiniteSet(S),
           \A g \in S : w[g] \in Nat, NEW x \in S
    PROVE  SumOn(w, S) = w[x] + SumOn(w, S \ {x})
<1> DEFINE sum(T) == SumOn(w, T)
           val(y) == w[y]
           bad == {T \in SUBSET S : \E y \in T : sum(T) # val(y) + sum(T \ {y})}
<1> SUFFICES ASSUME bad # {} PROVE FALSE
  OBVIOUS
<1>1. bad \in SUBSET SUBSET S
  OBVIOUS
<1>2. PICK T \in bad : \A U \in SUBSET T : U # T => U \notin bad
  <2> HIDE DEF bad
  <2> QED
    BY <1>1, LeastSubset
<1>3. PICK y \in T : sum(T) # val(y) + sum(T \ {y})
  OBVIOUS
<1> DEFINE z == Picked(T)
<1>4. T \in SUBSET S /\ z \in T
  BY <1>3 DEF Picked
<1>5. \A U \in SUBSET T : IsFiniteSet(U) /\ sum(U) \in Nat
  <2> TAKE U \in SUBSET T
  <2>1. IsFiniteSet(U) /\ \A g \in U : w[g] \in Nat
    BY <1>4, FS_Subset
  <2> QED
    BY <2>1, SumIsNat
<1>6. sum(T) = val(z) + sum(T \ {z})
  BY <1>4, <1>5, SumUnfolds
<1>7. y # z
  BY <1>3, <1>6
<1>8. sum(T \ {z}) = val(y) + sum((T \ {z}) \ {y})
  BY <1>2, <1>4, <1>7
<1>9. sum(T \ {y}) = val(z) + sum((T \ {y}) \ {z})
  BY <1>2, <1>3, <1>4, <1>7
<1>10. (T \ {z}) \ {y} = (T \ {y}) \ {z}
  OBVIOUS
<1>11. /\ val(y) \in Nat /\ val(z) \in Nat
       /\ sum((T \ {y}) \ {z}) \in Nat
  BY <1>3, <1>4, <1>5
<1>12. sum(T) # val(y) + sum(T \ {y})
  BY <1>3
<1> HIDE DEF sum, val
<1> DEFINE rest == sum((T \ {y}) \ {z})
           a == val(y)
           b == val(z)
<1>13. sum(T) = b + (a + rest) /\ sum(T \ {y}) = b + rest
  BY <1>6, <1>8, <1>9, <1>10
<1>14. a \in Nat /\ b \in Nat /\ rest \in Nat
  BY <1>11
<1> HIDE DEF rest, a, b
<1>15. b + (a + rest) = a + (b + rest)
  BY <1>14
<1> QED
  BY <1>12, <1>13, <1>15 DEF a

\* The weights of the elements of S.
Weights(w, S) == \A x \in S : w[x] \in Nat

\* What holds of no elements, and of one more than it holds of, holds of all.
LEMMA OneByOne ==
    ASSUME NEW S, IsFiniteSet(S), NEW Q \in SUBSET SUBSET S, {} \in Q,
           \A T \in Q : \A x \in S \ T : T \cup {x} \in Q
    PROVE  S \in Q
<1> DEFINE bad == (SUBSET S) \ Q
<1> SUFFICES ASSUME bad # {} PROVE FALSE
  OBVIOUS
<1>1. PICK T \in bad : \A U \in SUBSET T : U # T => U \notin bad
  <2>1. bad \in SUBSET SUBSET S
    OBVIOUS
  <2> HIDE DEF bad
  <2> QED
    BY <2>1, LeastSubset
<1>2. PICK x : x \in T
  OBVIOUS
<1>3. T \ {x} \in Q
  BY <1>1, <1>2
<1>4. (T \ {x}) \cup {x} = T /\ x \in S \ (T \ {x})
  BY <1>2
<1> QED
  BY <1>3, <1>4

\* The sum of one number more.
LEMMA SumAdds ==
    ASSUME NEW S, IsFiniteSet(S), NEW w, Weights(w, S)
    PROVE  /\ SumOn(w, {}) = 0
           /\ \A T \in SUBSET S : IsFiniteSet(T) /\ SumOn(w, T) \in Nat
           /\ \A T \in SUBSET S : \A x \in S \ T :
                 SumOn(w, T \cup {x}) = w[x] + SumOn(w, T)
<1>1. SumOn(w, {}) = 0
  BY FS_EmptySet, SumUnfolds
<1>2. \A T \in SUBSET S : IsFiniteSet(T) /\ SumOn(w, T) \in Nat
  <2> TAKE T \in SUBSET S
  <2>1. IsFiniteSet(T) /\ \A g \in T : w[g] \in Nat
    BY FS_Subset DEF Weights
  <2> QED
    BY <2>1, SumIsNat
<1>3. ASSUME NEW T \in SUBSET S, NEW x \in S \ T
      PROVE  SumOn(w, T \cup {x}) = w[x] + SumOn(w, T)
  <2>1. /\ IsFiniteSet(T \cup {x}) /\ x \in T \cup {x}
        /\ \A g \in T \cup {x} : w[g] \in Nat
    BY <1>2 DEF Weights
  <2>2. (T \cup {x}) \ {x} = T
    OBVIOUS
  <2> QED
    BY <2>1, <2>2, SumWithout
<1> QED
  BY <1>1, <1>2, <1>3

\* Smaller numbers have a smaller sum, or are the same.
LEMMA SumsCompare ==
    ASSUME NEW S, IsFiniteSet(S), NEW w, NEW v, Weights(w, S), Weights(v, S),
           \A x \in S : w[x] <= v[x]
    PROVE  /\ SumOn(w, S) \in Nat /\ SumOn(v, S) \in Nat
           /\ SumOn(w, S) <= SumOn(v, S)
           /\ SumOn(w, S) = SumOn(v, S) => \A x \in S : w[x] = v[x]
<1> DEFINE Q == {T \in SUBSET S :
                    /\ SumOn(w, T) <= SumOn(v, T)
                    /\ SumOn(w, T) = SumOn(v, T) => \A x \in T : w[x] = v[x]}
<1>1. \A T \in SUBSET S : SumOn(w, T) \in Nat /\ SumOn(v, T) \in Nat
  BY SumAdds
<1>2. {} \in Q
  BY SumAdds
<1>3. ASSUME NEW T \in Q, NEW x \in S \ T
      PROVE  T \cup {x} \in Q
  <2>1. /\ SumOn(w, T \cup {x}) = w[x] + SumOn(w, T)
        /\ SumOn(v, T \cup {x}) = v[x] + SumOn(v, T)
    BY SumAdds
  <2>2. /\ w[x] \in Nat /\ v[x] \in Nat /\ w[x] <= v[x]
        /\ SumOn(w, T) \in Nat /\ SumOn(v, T) \in Nat
        /\ SumOn(w, T) <= SumOn(v, T)
    BY <1>1 DEF Weights
  <2> DEFINE a == SumOn(w, T)
             b == SumOn(v, T)
  <2>3. /\ w[x] + a <= v[x] + b
        /\ w[x] + a = v[x] + b => w[x] = v[x] /\ a = b
    <3> HIDE DEF a, b
    <3> QED
      BY <2>2 DEF a, b
  <2>4. a = b => \A y \in T : w[y] = v[y]
    OBVIOUS
  <2> QED
    BY <2>1, <2>3, <2>4
<1>4. S \in Q
  <2>1. Q \in SUBSET SUBSET S
    OBVIOUS
  <2> HIDE DEF Q
  <2> QED
    BY <1>2, <1>3, <2>1, OneByOne
<1> QED
  BY <1>1, <1>4

\* The same numbers have the same sum.
LEMMA SumOfSame ==
    ASSUME NEW S, IsFiniteSet(S), NEW w, NEW v, Weights(v, S),
           \A x \in S : w[x] = v[x]
    PROVE  SumOn(w, S) = SumOn(v, S) /\ SumOn(w, S) \in Nat
<1>1. Weights(w, S) /\ \A x \in S : w[x] <= v[x] /\ v[x] <= w[x]
  BY DEF Weights
<1>2. /\ SumOn(w, S) \in Nat /\ SumOn(v, S) \in Nat
      /\ SumOn(w, S) <= SumOn(v, S)
  BY <1>1, SumsCompare
<1>3. SumOn(v, S) <= SumOn(w, S)
  BY <1>1, SumsCompare
<1> QED
  BY <1>2, <1>3

\* A sum of sums, and of multiples.
LEMMA SumOfSums ==
    ASSUME NEW S, IsFiniteSet(S), NEW w, NEW v, Weights(w, S), Weights(v, S),
           NEW u, \A x \in S : u[x] = w[x] + v[x]
    PROVE  SumOn(u, S) = SumOn(w, S) + SumOn(v, S)
<1> DEFINE Q == {T \in SUBSET S : SumOn(u, T) = SumOn(w, T) + SumOn(v, T)}
<1>0. Weights(u, S)
  BY DEF Weights
<1>1. \A T \in SUBSET S : SumOn(w, T) \in Nat /\ SumOn(v, T) \in Nat
  BY SumAdds
<1>2. {} \in Q
  BY <1>0, SumAdds
<1>3. ASSUME NEW T \in Q, NEW x \in S \ T
      PROVE  T \cup {x} \in Q
  <2>1. /\ SumOn(w, T \cup {x}) = w[x] + SumOn(w, T)
        /\ SumOn(v, T \cup {x}) = v[x] + SumOn(v, T)
        /\ SumOn(u, T \cup {x}) = u[x] + SumOn(u, T)
    BY <1>0, SumAdds
  <2>2. /\ w[x] \in Nat /\ v[x] \in Nat /\ u[x] = w[x] + v[x]
        /\ SumOn(w, T) \in Nat /\ SumOn(v, T) \in Nat
        /\ SumOn(u, T) = SumOn(w, T) + SumOn(v, T)
    BY <1>1 DEF Weights
  <2> QED
    BY <2>1, <2>2
<1>4. S \in Q
  <2>1. Q \in SUBSET SUBSET S
    OBVIOUS
  <2> HIDE DEF Q
  <2> QED
    BY <1>2, <1>3, <2>1, OneByOne
<1> QED
  BY <1>4

\* The sum of multiples is the multiple of the sum.
LEMMA SumOfMultiples ==
    ASSUME NEW S, IsFiniteSet(S), NEW w, Weights(w, S), NEW c \in Nat,
           NEW u, \A x \in S : u[x] = c * w[x]
    PROVE  SumOn(u, S) = c * SumOn(w, S)
<1> DEFINE Q == {T \in SUBSET S : SumOn(u, T) = c * SumOn(w, T)}
<1>0. Weights(u, S)
  BY DEF Weights
<1>1. \A T \in SUBSET S : SumOn(w, T) \in Nat
  BY SumAdds
<1>2. {} \in Q
  BY <1>0, SumAdds
<1>3. ASSUME NEW T \in Q, NEW x \in S \ T
      PROVE  T \cup {x} \in Q
  <2>1. /\ SumOn(w, T \cup {x}) = w[x] + SumOn(w, T)
        /\ SumOn(u, T \cup {x}) = u[x] + SumOn(u, T)
    BY <1>0, SumAdds
  <2>2. /\ w[x] \in Nat /\ u[x] = c * w[x]
        /\ SumOn(w, T) \in Nat
        /\ SumOn(u, T) = c * SumOn(w, T)
    BY <1>1 DEF Weights
  <2> DEFINE a == SumOn(w, T)
             b == w[x]
  <2>3. c * b + c * a = c * (b + a)
    <3>1. a \in Nat /\ b \in Nat
      BY <2>2
    <3> HIDE DEF a, b
    <3> QED
      BY <3>1
  <2> QED
    BY <2>1, <2>2, <2>3
<1>4. S \in Q
  <2>1. Q \in SUBSET SUBSET S
    OBVIOUS
  <2> HIDE DEF Q
  <2> QED
    BY <1>2, <1>3, <2>1, OneByOne
<1> QED
  BY <1>4

\* A sum of ones counts.
LEMMA SumOfOnes ==
    ASSUME NEW S, IsFiniteSet(S), NEW w, \A x \in S : w[x] = 1
    PROVE  SumOn(w, S) = Cardinality(S)
<1> DEFINE Q == {T \in SUBSET S : SumOn(w, T) = Cardinality(T)}
<1>0. Weights(w, S)
  BY DEF Weights
<1>1. \A T \in SUBSET S : IsFiniteSet(T) /\ Cardinality(T) \in Nat
  BY FS_Subset, FS_CardinalityType
<1>2. {} \in Q
  BY <1>0, SumAdds, FS_EmptySet
<1>3. ASSUME NEW T \in Q, NEW x \in S \ T
      PROVE  T \cup {x} \in Q
  <2>1. SumOn(w, T \cup {x}) = 1 + SumOn(w, T)
    BY <1>0, SumAdds
  <2>2. Cardinality(T \cup {x}) = Cardinality(T) + 1
    BY <1>1, FS_AddElement
  <2> QED
    BY <1>1, <2>1, <2>2
<1>4. S \in Q
  <2>1. Q \in SUBSET SUBSET S
    OBVIOUS
  <2> HIDE DEF Q
  <2> QED
    BY <1>2, <1>3, <2>1, OneByOne
<1> QED
  BY <1>4

\* A sum over two sets that have nothing in common.
LEMMA SumOfParts ==
    ASSUME NEW S, IsFiniteSet(S), NEW w, Weights(w, S), NEW T \in SUBSET S
    PROVE  /\ SumOn(w, S) = SumOn(w, T) + SumOn(w, S \ T)
           /\ SumOn(w, T) \in Nat /\ SumOn(w, S \ T) \in Nat
<1> DEFINE R == S \ T
           Q == {U \in SUBSET R : SumOn(w, T \cup U) = SumOn(w, T) + SumOn(w, U)}
<1>0. IsFiniteSet(R)
  BY FS_Subset
<1>1. /\ \A U \in SUBSET S : SumOn(w, U) \in Nat
      /\ SumOn(w, {}) = 0
  BY SumAdds
<1>2. {} \in Q
  <2>1. T \cup {} = T
    OBVIOUS
  <2> QED
    BY <1>1, <2>1
<1>3. ASSUME NEW U \in Q, NEW x \in R \ U
      PROVE  U \cup {x} \in Q
  <2>1. /\ U \in SUBSET S /\ T \cup U \in SUBSET S
        /\ x \in S \ U /\ x \in S \ (T \cup U)
        /\ T \cup (U \cup {x}) = (T \cup U) \cup {x}
    OBVIOUS
  <2>2. SumOn(w, T \cup U) = SumOn(w, T) + SumOn(w, U)
    OBVIOUS
  <2>3. SumOn(w, U \cup {x}) = w[x] + SumOn(w, U)
    BY <2>1, SumAdds
  <2> DEFINE V == T \cup U
  <2>5. SumOn(w, V \cup {x}) = w[x] + SumOn(w, V)
    <3>1. V \in SUBSET S /\ x \in S \ V
      BY <2>1
    <3> HIDE DEF V
    <3> QED
      BY <3>1, SumAdds
  <2> DEFINE a == SumOn(w, T)
             b == SumOn(w, U)
             c == w[x]
  <2>6. a \in Nat /\ b \in Nat /\ c \in Nat
    BY <1>1, <2>1 DEF Weights
  <2>4. SumOn(w, T \cup (U \cup {x})) = a + (c + b)
    <3>1. SumOn(w, T \cup (U \cup {x})) = c + (a + b)
      BY <2>1, <2>2, <2>5
    <3> HIDE DEF a, b, c
    <3> QED
      BY <2>6, <3>1
  <2> QED
    BY <2>3, <2>4
<1>4. R \in Q
  <2>1. Q \in SUBSET SUBSET R
    OBVIOUS
  <2> HIDE DEF Q, R
  <2> QED
    BY <1>0, <1>2, <1>3, <2>1, OneByOne
<1>5. T \cup R = S
  OBVIOUS
<1> QED
  BY <1>1, <1>4, <1>5

\* h takes different places to different ones, with the same number there.
Renamed(S, h, w, v) ==
    /\ \A x, y \in S : h[x] = h[y] => x = y
    /\ \A x \in S : v[x] \in Nat /\ w[h[x]] = v[x]

\* A sum does not depend on what its numbers are numbered by.
LEMMA SumMoves ==
    ASSUME NEW S, IsFiniteSet(S), NEW h, NEW w, NEW v, Renamed(S, h, w, v)
    PROVE  /\ SumOn(w, {h[x] : x \in S}) = SumOn(v, S)
           /\ IsFiniteSet({h[x] : x \in S})
           /\ Cardinality({h[x] : x \in S}) = Cardinality(S)
<1>. USE DEF Renamed
<1> DEFINE img(T) == {h[x] : x \in T}
           Q == {T \in SUBSET S : SumOn(w, img(T)) = SumOn(v, T)}
<1>0. IsFiniteSet(img(S)) /\ Cardinality(img(S)) = Cardinality(S)
  <2> DEFINE g == [x \in S |-> h[x]]
  <2>1. g \in Bijection(S, img(S))
    BY DEF Bijection, Injection, Surjection, IsInjective
  <2>2. ExistsBijection(S, img(S))
    BY <2>1 DEF ExistsBijection
  <2> QED
    BY <2>2, FS_Bijection
<1>1. Weights(v, S) /\ Weights(w, img(S))
  BY DEF Weights
<1>2. {} \in Q
  <2>1. img({}) = {}
    OBVIOUS
  <2> HIDE DEF img
  <2> QED
    BY <1>0, <1>1, <2>1, SumAdds
<1>3. ASSUME NEW T \in Q, NEW x \in S \ T
      PROVE  T \cup {x} \in Q
  <2>1. /\ img(T \cup {x}) = img(T) \cup {h[x]}
        /\ img(T) \in SUBSET img(S) /\ h[x] \in img(S) \ img(T)
    OBVIOUS
  <2> HIDE DEF img
  <2>2. /\ SumOn(v, T \cup {x}) = v[x] + SumOn(v, T)
        /\ SumOn(w, img(T) \cup {h[x]}) = w[h[x]] + SumOn(w, img(T))
    BY <1>0, <1>1, <2>1, SumAdds
  <2> QED
    BY <2>1, <2>2
<1>4. S \in Q
  <2>1. Q \in SUBSET SUBSET S
    OBVIOUS
  <2> HIDE DEF Q
  <2> QED
    BY <1>2, <1>3, <2>1, OneByOne
<1> QED
  BY <1>0, <1>4

\* The second components of the pairs that have x first.
Paired(P, U, x) == {y \in U : <<x, y>> \in P}

\* Pairs are counted by their first components.
LEMMA CountPairs ==
    ASSUME NEW S, IsFiniteSet(S), NEW U, IsFiniteSet(U), NEW P \in SUBSET (S \X U)
    PROVE  /\ SumOn([x \in S |-> Cardinality(Paired(P, U, x))], S)
                = Cardinality(P)
           /\ Weights([x \in S |-> Cardinality(Paired(P, U, x))], S)
<1> DEFINE w == [x \in S |-> Cardinality(Paired(P, U, x))]
           from(T) == {p \in P : p[1] \in T}
           Q == {T \in SUBSET S : SumOn(w, T) = Cardinality(from(T))}
<1>0. IsFiniteSet(P)
  BY FS_Product, FS_Subset
<1>1. \A x \in S : /\ IsFiniteSet(Paired(P, U, x)) /\ w[x] \in Nat
                   /\ w[x] = Cardinality(Paired(P, U, x))
  BY FS_Subset, FS_CardinalityType DEF Paired
<1> HIDE DEF w
<1>5. Weights(w, S)
  BY <1>1 DEF Weights
<1>2. {} \in Q
  <2>1. from({}) = {}
    OBVIOUS
  <2> QED
    BY <1>5, <2>1, SumAdds, FS_EmptySet
<1>3. ASSUME NEW T \in Q, NEW x \in S \ T
      PROVE  T \cup {x} \in Q
  <2> DEFINE row == {<<x, y>> : y \in Paired(P, U, x)}
  <2>1. from(T \cup {x}) = from(T) \cup row /\ from(T) \cap row = {}
        /\ from(T) \in SUBSET P
    <3>1. ASSUME NEW p \in P, p[1] = x PROVE p \in row
      <4>1. p = <<p[1], p[2]>> /\ p[2] \in U
        OBVIOUS
      <4>2. p[2] \in Paired(P, U, x)
        BY <3>1, <4>1 DEF Paired
      <4> QED
        BY <3>1, <4>1, <4>2
    <3>2. ASSUME NEW p \in row PROVE p \in P /\ p[1] = x
      <4>1. PICK y \in Paired(P, U, x) : p = <<x, y>>
        OBVIOUS
      <4> QED
        BY <4>1 DEF Paired
    <3> HIDE DEF row
    <3> QED
      BY <3>1, <3>2
  <2>2. IsFiniteSet(row) /\ Cardinality(row) = w[x]
    <3> DEFINE g == [y \in Paired(P, U, x) |-> <<x, y>>]
    <3>1. g \in Bijection(Paired(P, U, x), row)
      BY DEF Bijection, Injection, Surjection, IsInjective
    <3>2. ExistsBijection(Paired(P, U, x), row)
      BY <3>1 DEF ExistsBijection
    <3> QED
      BY <1>1, <3>2, FS_Bijection
  <2>3. IsFiniteSet(from(T)) /\ Cardinality(from(T)) \in Nat
    BY <1>0, <2>1, FS_Subset, FS_CardinalityType
  <2>4. Cardinality({}) = 0
    BY FS_EmptySet
  <2> HIDE DEF from, row
  <2>5. Cardinality(from(T \cup {x})) = Cardinality(from(T)) + w[x]
    <3>1. Cardinality(from(T) \cup row)
            = Cardinality(from(T)) + Cardinality(row)
                - Cardinality(from(T) \cap row)
      BY <2>2, <2>3, FS_Union
    <3>2. Cardinality(row) \in Nat
      BY <1>1, <2>2
    <3>3. Cardinality(from(T) \cup row)
            = Cardinality(from(T)) + Cardinality(row)
      <4> DEFINE a == Cardinality(from(T))
                 b == Cardinality(row)
      <4>1. Cardinality(from(T) \cup row) = a + b - 0
        BY <2>1, <2>4, <3>1
      <4>2. a \in Int /\ b \in Int
        BY <2>3, <3>2
      <4> HIDE DEF a, b
      <4>3. a + b - 0 = a + b
        BY <4>2
      <4> QED
        BY <4>1, <4>3 DEF a, b
    <3> QED
      BY <2>1, <2>2, <3>3
  <2>6. SumOn(w, T \cup {x}) = w[x] + SumOn(w, T)
    BY <1>5, SumAdds
  <2> QED
    BY <1>1, <2>3, <2>5, <2>6
<1>4. S \in Q
  <2>1. Q \in SUBSET SUBSET S
    OBVIOUS
  <2> HIDE DEF Q
  <2> QED
    BY <1>2, <1>3, <2>1, OneByOne
<1>6. from(S) = P
  OBVIOUS
<1> QED
  BY <1>4, <1>5, <1>6 DEF w

\* Pairs are as many counted from one side as from the other.
LEMMA CountTwice ==
    ASSUME NEW S, IsFiniteSet(S), NEW U, IsFiniteSet(U), NEW P \in SUBSET (S \X U)
    PROVE  SumOn([x \in S |-> Cardinality({y \in U : <<x, y>> \in P})], S)
             = SumOn([y \in U |-> Cardinality({x \in S : <<x, y>> \in P})], U)
<1> DEFINE F == {<<p[2], p[1]>> : p \in P}
<1>1. F \in SUBSET (U \X S)
  OBVIOUS
<1>2. Cardinality(F) = Cardinality(P)
  <2> DEFINE g == [p \in P |-> <<p[2], p[1]>>]
  <2>1. g \in Bijection(P, F)
    BY DEF Bijection, Injection, Surjection, IsInjective
  <2>2. ExistsBijection(P, F) /\ IsFiniteSet(P)
    BY <2>1, FS_Product, FS_Subset DEF ExistsBijection
  <2> QED
    BY <2>2, FS_Bijection
<1>3. \A x \in S, y \in U : <<y, x>> \in F <=> <<x, y>> \in P
  <2> TAKE x \in S, y \in U
  <2>1. ASSUME <<x, y>> \in P PROVE <<y, x>> \in F
    <3>1. <<y, x>> = << <<x, y>>[2], <<x, y>>[1] >>
      OBVIOUS
    <3> QED
      BY <2>1, <3>1
  <2>2. ASSUME <<y, x>> \in F PROVE <<x, y>> \in P
    <3>1. PICK p \in P : <<y, x>> = <<p[2], p[1]>>
      BY <2>2
    <3>2. p = <<p[1], p[2]>>
      OBVIOUS
    <3> QED
      BY <3>1, <3>2
  <2> QED
    BY <2>1, <2>2
<1> HIDE DEF F
<1>4. /\ SumOn([x \in S |-> Cardinality(Paired(P, U, x))], S) = Cardinality(P)
      /\ SumOn([y \in U |-> Cardinality(Paired(F, S, y))], U) = Cardinality(F)
  BY <1>1, CountPairs
<1>5. \A y \in U : Paired(F, S, y) = {x \in S : <<x, y>> \in P}
  BY <1>3 DEF Paired
<1>6. [y \in U |-> Cardinality(Paired(F, S, y))]
        = [y \in U |-> Cardinality({x \in S : <<x, y>> \in P})]
  BY <1>5
<1> QED
  BY <1>2, <1>4, <1>6 DEF Paired

-----------------------------------------------------------------------------
(* Lists in order *)

\* A list of a set in an order, and the only one.
IsList(l, S, R) ==
    /\ IsFiniteSet(S) /\ l \in Seq(S) /\ Image(l) = S /\ Len(l) = Cardinality(S)
    /\ IsChain(l, R)
    /\ \A s \in Seq(S) : Image(s) = S /\ IsChain(s, R) => s = l

\* The sequence of a set in an order is its list.
LEMMA OrderedList ==
    ASSUME NEW S, IsFiniteSet(S), NEW R, IsOrder(R, S)
    PROVE  IsList(InOrder(S, R), S, R)
<1>1. /\ InOrder(S, R) \in Seq(S) /\ Image(InOrder(S, R)) = S
      /\ Len(InOrder(S, R)) = Cardinality(S) /\ IsChain(InOrder(S, R), R)
  BY ListIs DEF IsChain
<1>2. \A s \in Seq(S) : Image(s) = S /\ IsChain(s, R) => s = InOrder(S, R)
  BY ChainIsList
<1> QED
  BY <1>1, <1>2 DEF IsList

\* The elements of a list are those at its places.
LEMMA PlacesOf ==
    ASSUME NEW S, NEW s \in Seq(S)
    PROVE  /\ Len(s) \in Nat /\ DOMAIN s = 1 .. Len(s)
           /\ \A i \in DOMAIN s : s[i] \in S
           /\ \A i \in DOMAIN s : s[i] \in Image(s)
           /\ Image(s) \subseteq S
           /\ \A x \in Image(s) : \E i \in DOMAIN s : x = s[i]
           /\ s = [i \in 1 .. Len(s) |-> s[i]]
           /\ s \in Seq(Image(s))
           /\ IsFiniteSet(DOMAIN s) /\ Cardinality(DOMAIN s) = Len(s)
<1>1. /\ Len(s) \in Nat /\ DOMAIN s = 1 .. Len(s)
      /\ \A i \in DOMAIN s : s[i] \in S
      /\ s = [i \in 1 .. Len(s) |-> s[i]]
  OBVIOUS
<1>2. /\ \A i \in DOMAIN s : s[i] \in Image(s)
      /\ Image(s) \subseteq S
      /\ \A x \in Image(s) : \E i \in DOMAIN s : x = s[i]
  BY <1>1 DEF Image
<1>3. s \in Seq(Image(s))
  <2>1. s \in [1 .. Len(s) -> Image(s)]
    BY <1>1, <1>2
  <2> QED
    BY <1>1, <2>1, SeqDef
<1>4. IsFiniteSet(DOMAIN s) /\ Cardinality(DOMAIN s) = Len(s)
  <2> DEFINE n == Len(s)
  <2>1. n \in Nat
    BY <1>1
  <2> HIDE DEF n
  <2>2. IsFiniteSet(1 .. n) /\ Cardinality(1 .. n) = n
    BY <2>1, NumbersUpTo
  <2> QED
    BY <1>1, <2>2 DEF n
<1> QED
  BY <1>1, <1>2, <1>3, <1>4

\* A list of one thing after the other is the pairs of neighbours.
LEMMA PairByPair ==
    ASSUME NEW S, NEW s \in Seq(S), NEW R
    PROVE  IsChain(s, R) <=> \A i \in DOMAIN s : i > 1 => <<s[i - 1], s[i]>> \in R
<1>1. Len(s) \in Nat /\ DOMAIN s = 1 .. Len(s)
  BY PlacesOf
<1>2. ASSUME IsChain(s, R), NEW i \in DOMAIN s, i > 1
      PROVE  <<s[i - 1], s[i]>> \in R
  <2>1. i - 1 \in 1 .. Len(s) - 1 /\ (i - 1) + 1 = i
    BY <1>1, <1>2
  <2>2. <<s[i - 1], s[(i - 1) + 1]>> \in R
    BY <1>2, <2>1 DEF IsChain
  <2> QED
    BY <2>1, <2>2
<1>3. ASSUME \A i \in DOMAIN s : i > 1 => <<s[i - 1], s[i]>> \in R,
             NEW i \in 1 .. Len(s) - 1
      PROVE  <<s[i], s[i + 1]>> \in R
  <2>1. i + 1 \in DOMAIN s /\ i + 1 > 1 /\ (i + 1) - 1 = i
    BY <1>1
  <2>2. <<s[(i + 1) - 1], s[i + 1]>> \in R
    BY <1>3, <2>1
  <2> QED
    BY <2>1, <2>2
<1> QED
  BY <1>2, <1>3 DEF IsChain

-----------------------------------------------------------------------------
(* Texts and keys *)

\* The place of a text is a number, and tells it; there are finitely many.
LEMMA RankIsNumber ==
    /\ \A t \in Strings : Rank(t) \in Nat
    /\ \A t, u \in Strings : Rank(t) = Rank(u) => t = u
    /\ IsFiniteSet(Strings)
<1>0. /\ Alphabet \in Seq(Strings)
      /\ DOMAIN Alphabet = 1 .. Len(Alphabet) /\ Len(Alphabet) \in Nat
  BY AlphabetAssumption, LenProperties
<1>1. ASSUME NEW t \in Strings
      PROVE  Rank(t) \in DOMAIN Alphabet /\ Alphabet[Rank(t)] = t
  <2>1. PICK i \in DOMAIN Alphabet : Alphabet[i] = t
    BY DEF Image, Strings
  <2>2. Rank(t) = CHOOSE j \in DOMAIN Alphabet : Alphabet[j] = t
    BY DEF Rank, Ranks
  <2> QED
    BY <2>1, <2>2
<1>2. \A t \in Strings : Rank(t) \in Nat
  BY <1>0, <1>1
<1>3. \A t, u \in Strings : Rank(t) = Rank(u) => t = u
  BY <1>1
<1>4. IsFiniteSet(Strings)
  <2>1. Alphabet \in Bijection(DOMAIN Alphabet, Strings)
    <3>1. Alphabet \in [DOMAIN Alphabet -> Strings]
      BY <1>0
    <3>2. \A t \in Strings : \E i \in DOMAIN Alphabet : Alphabet[i] = t
      BY <1>1
    <3> QED
      BY <3>1, <3>2, AlphabetAssumption
         DEF Bijection, Injection, Surjection, IsInjective
  <2>2. IsFiniteSet(DOMAIN Alphabet)
    BY <1>0, PlacesOf
  <2>3. ExistsBijection(DOMAIN Alphabet, Strings)
    BY <2>1 DEF ExistsBijection
  <2> QED
    BY <2>2, <2>3, FS_Bijection
<1> QED
  BY <1>2, <1>3, <1>4

\* Texts in byte order.
TextPairs(S) == {p \in S \X S : TextLess(p[1], p[2])}

\* A set of texts as a list.
LEMMA TextList ==
    ASSUME NEW S \in SUBSET Strings
    PROVE  /\ IsOrder(TextPairs(S), S)
           /\ IsList(Sorted(S, TextLess), S, TextPairs(S))
           /\ \A s \in Seq(S) : IsChain(s, TextPairs(S)) <=> Increasing(s, TextLess)
<1>1. \A x, y \in S : <<x, y>> \in TextPairs(S) <=> Rank(x) < Rank(y)
  BY DEF TextPairs, TextLess
<1>2. IsOrder(TextPairs(S), S)
  <2> DEFINE f == [x \in S |-> Rank(x)]
  <2>1. \A x \in S : f[x] \in Nat
    BY RankIsNumber
  <2>2. \A x, y \in S : f[x] = f[y] => x = y
    BY RankIsNumber
  <2>3. \A x, y \in S : <<x, y>> \in TextPairs(S) <=> f[x] < f[y]
    BY <1>1
  <2> HIDE DEF f
  <2> QED
    BY <2>1, <2>2, <2>3, NumbersOrder
<1>3. IsFiniteSet(S)
  BY RankIsNumber, FS_Subset
<1>4. IsList(Sorted(S, TextLess), S, TextPairs(S))
  <2>1. Sorted(S, TextLess) = InOrder(S, TextPairs(S))
    BY DEF Sorted, TextPairs
  <2> QED
    BY <1>2, <1>3, <2>1, OrderedList
<1>5. ASSUME NEW s \in Seq(S)
      PROVE  IsChain(s, TextPairs(S)) <=> Increasing(s, TextLess)
  <2>1. \A i \in 1 .. Len(s) - 1 : s[i] \in S /\ s[i + 1] \in S
    OBVIOUS
  <2> QED
    BY <1>1, <2>1 DEF IsChain, Increasing, TextLess
<1> QED
  BY <1>2, <1>4, <1>5

\* Numbers in their order.
NatPairs(S) == {p \in S \X S : NatLess(p[1], p[2])}

\* A set of numbers as a list.
LEMMA NumberList ==
    ASSUME NEW S \in SUBSET Nat, IsFiniteSet(S)
    PROVE  /\ IsOrder(NatPairs(S), S)
           /\ IsList(Sorted(S, NatLess), S, NatPairs(S))
           /\ \A s \in Seq(S) : IsChain(s, NatPairs(S)) <=> Increasing(s, NatLess)
<1>1. \A x, y \in S : <<x, y>> \in NatPairs(S) <=> x < y
  BY DEF NatPairs, NatLess
<1>2. IsOrder(NatPairs(S), S)
  <2> DEFINE f == [x \in S |-> x]
  <2>1. /\ \A x \in S : f[x] \in Nat
        /\ \A x, y \in S : f[x] = f[y] => x = y
        /\ \A x, y \in S : <<x, y>> \in NatPairs(S) <=> f[x] < f[y]
    BY <1>1
  <2> HIDE DEF f
  <2> QED
    BY <2>1, NumbersOrder
<1>4. IsList(Sorted(S, NatLess), S, NatPairs(S))
  <2>1. Sorted(S, NatLess) = InOrder(S, NatPairs(S))
    BY DEF Sorted, NatPairs
  <2> QED
    BY <1>2, <2>1, OrderedList
<1>5. ASSUME NEW s \in Seq(S)
      PROVE  IsChain(s, NatPairs(S)) <=> Increasing(s, NatLess)
  <2>1. \A i \in 1 .. Len(s) - 1 : s[i] \in S /\ s[i + 1] \in S
    OBVIOUS
  <2> QED
    BY <1>1, <2>1 DEF IsChain, Increasing, NatLess
<1> QED
  BY <1>2, <1>4, <1>5

\* Keys in their order.
KeyType == Strings \X Strings \X Strings

KeyPairs(S) == {p \in S \X S : KeyLess(p[1], p[2])}

\* A set of keys as a list.
LEMMA KeyList ==
    ASSUME NEW S \in SUBSET KeyType
    PROVE  /\ IsOrder(KeyPairs(S), S)
           /\ IsList(Sorted(S, KeyLess), S, KeyPairs(S))
           /\ \A s \in Seq(S) : IsChain(s, KeyPairs(S)) <=> Increasing(s, KeyLess)
<1>1. \A x, y \in S : <<x, y>> \in KeyPairs(S) <=> KeyLess(x, y)
  BY DEF KeyPairs
<1>2. IsOrder(KeyPairs(S), S)
  <2> DEFINE f == [x \in S |-> [i \in 1 .. 3 |-> Rank(x[i])]]
  <2>0. ASSUME NEW x \in S, NEW i \in 1 .. 3
        PROVE  x[i] \in Strings
    <3>1. /\ x[1] \in Strings /\ x[2] \in Strings /\ x[3] \in Strings
          /\ i = 1 \/ i = 2 \/ i = 3
      BY DEF KeyType
    <3> QED
      BY <3>1
  <2>1. \A x \in S : f[x] \in [1 .. 3 -> Nat]
    BY <2>0, RankIsNumber
  <2>2. ASSUME NEW x \in S, NEW y \in S, f[x] = f[y]
        PROVE  x = y
    <3>1. \A i \in 1 .. 3 : Rank(x[i]) = Rank(y[i])
      BY <2>2
    <3>2. \A i \in 1 .. 3 : x[i] = y[i]
      BY <2>0, <3>1, RankIsNumber
    <3>3. x = <<x[1], x[2], x[3]>> /\ y = <<y[1], y[2], y[3]>>
      BY DEF KeyType
    <3> QED
      BY <3>2, <3>3
  <2>3. ASSUME NEW x \in S, NEW y \in S
        PROVE  <<x, y>> \in KeyPairs(S) <=> LexLess(f[x], f[y])
    <3>1. \A i \in 1 .. 3 : x[i] = y[i] <=> Rank(x[i]) = Rank(y[i])
      BY <2>0, RankIsNumber
    <3>2. DOMAIN f[x] = 1 .. 3
      OBVIOUS
    <3>3. \A i \in 1 .. 3 : f[x][i] = Rank(x[i]) /\ f[y][i] = Rank(y[i])
      OBVIOUS
    <3> HIDE DEF f
    <3>4. \A i \in 1 .. 3 : \A j \in 1 .. i - 1 : j \in 1 .. 3
      OBVIOUS
    <3>5. KeyLess(x, y) <=> LexLess(f[x], f[y])
      BY <3>1, <3>2, <3>3, <3>4 DEF KeyLess, LexLess
    <3> QED
      BY <1>1, <3>5
  <2> HIDE DEF f
  <2> QED
    BY <2>1, <2>2, <2>3, TuplesOrder
<1>3. IsFiniteSet(S)
  <2>1. IsFiniteSet(Strings \X Strings)
    BY RankIsNumber, FS_Product
  <2>2. IsFiniteSet((Strings \X Strings) \X Strings)
    BY <2>1, RankIsNumber, FS_Product
  <2> DEFINE h == [p \in (Strings \X Strings) \X Strings |-> <<p[1][1], p[1][2], p[2]>>]
  <2>3. h \in Surjection((Strings \X Strings) \X Strings, KeyType)
    <3>1. h \in [(Strings \X Strings) \X Strings -> KeyType]
      BY DEF KeyType
    <3>2. \A k \in KeyType : \E p \in (Strings \X Strings) \X Strings : h[p] = k
      <4> TAKE k \in KeyType
      <4>1. <<<<k[1], k[2]>>, k[3]>> \in (Strings \X Strings) \X Strings
        BY DEF KeyType
      <4>2. h[<<<<k[1], k[2]>>, k[3]>>] = k
        BY <4>1 DEF KeyType
      <4> QED
        BY <4>1, <4>2
    <3> HIDE DEF h
    <3> QED
      BY <3>1, <3>2 DEF Surjection
  <2>4. IsFiniteSet(KeyType)
    BY <2>2, <2>3, FS_Surjection
  <2> QED
    BY <2>4, FS_Subset
<1>4. IsList(Sorted(S, KeyLess), S, KeyPairs(S))
  <2>1. Sorted(S, KeyLess) = InOrder(S, KeyPairs(S))
    BY DEF Sorted, KeyPairs
  <2> QED
    BY <1>2, <1>3, <2>1, OrderedList
<1>5. ASSUME NEW s \in Seq(S)
      PROVE  IsChain(s, KeyPairs(S)) <=> Increasing(s, KeyLess)
  <2>1. \A i \in 1 .. Len(s) - 1 : s[i] \in S /\ s[i + 1] \in S
    OBVIOUS
  <2> QED
    BY <1>1, <2>1 DEF IsChain, Increasing
<1> QED
  BY <1>2, <1>4, <1>5

-----------------------------------------------------------------------------
(* Counting what is found *)

\* The elements of S that have y, when D gives what each of them has.
Having(S, D, y) == {x \in S : y \in D[x]}

\* A list of distinct keys; for each some elements of S, all of which have it.
Finds(n, key, found, S, U, D) ==
    /\ n \in Nat /\ IsFiniteSet(S) /\ IsFiniteSet(U)
    /\ \A x \in S : D[x] \subseteq U
    /\ \A y \in U : \E x \in S : y \in D[x]
    /\ \A i, j \in 1 .. n : key[i] = key[j] => i = j
    /\ \A i \in 1 .. n : found[i] \subseteq Having(S, D, key[i]) /\ found[i] # {}

\* There are as many in all as the elements have keys exactly if every key is
\* listed, with every element that has it.
LEMMA AllAreFound ==
    ASSUME NEW n, NEW key, NEW found, NEW S, NEW U, NEW D,
           Finds(n, key, found, S, U, D)
    PROVE  SumOn([i \in 1 .. n |-> Cardinality(found[i])], 1 .. n)
              = SumOn([x \in S |-> Cardinality(D[x])], S)
           <=> /\ {key[i] : i \in 1 .. n} = U
               /\ \A i \in 1 .. n : found[i] = Having(S, D, key[i])
<1> DEFINE I == 1 .. n
           K == {key[i] : i \in I}
           P == {p \in S \X U : p[2] \in D[p[1]]}
           f == [i \in I |-> Cardinality(found[i])]
           v == [i \in I |-> Cardinality(Having(S, D, key[i]))]
           w == [y \in U |-> Cardinality(Having(S, D, y))]
           d == [x \in S |-> Cardinality(D[x])]
<1>0. /\ n \in Nat /\ IsFiniteSet(S) /\ IsFiniteSet(U)
      /\ \A x \in S : D[x] \subseteq U
      /\ \A y \in U : \E x \in S : y \in D[x]
      /\ \A i, j \in I : key[i] = key[j] => i = j
      /\ \A i \in I : found[i] \subseteq Having(S, D, key[i]) /\ found[i] # {}
  BY DEF Finds
<1>1. IsFiniteSet(I)
  BY <1>0, NumbersUpTo
<1>2. ASSUME NEW y
      PROVE  /\ IsFiniteSet(Having(S, D, y))
             /\ Cardinality(Having(S, D, y)) \in Nat
             /\ \A T \in SUBSET Having(S, D, y) :
                   /\ Cardinality(T) \in Nat
                   /\ Cardinality(T) <= Cardinality(Having(S, D, y))
                   /\ Cardinality(T) = Cardinality(Having(S, D, y))
                        => T = Having(S, D, y)
  <2>1. Having(S, D, y) \in SUBSET S
    BY DEF Having
  <2>2. IsFiniteSet(Having(S, D, y)) /\ Cardinality(Having(S, D, y)) \in Nat
    BY <1>0, <2>1, FS_Subset, FS_CardinalityType
  <2> QED
    BY <2>2, FS_Subset, FS_CardinalityType
<1>3. SumOn(w, U) = SumOn(d, S)
  <2>1. /\ \A x \in S : {y \in U : <<x, y>> \in P} = D[x]
        /\ \A y \in U : {x \in S : <<x, y>> \in P} = Having(S, D, y)
    BY <1>0 DEF Having
  <2>2. /\ [x \in S |-> Cardinality({y \in U : <<x, y>> \in P})] = d
        /\ [y \in U |-> Cardinality({x \in S : <<x, y>> \in P})] = w
    BY <2>1
  <2>3. P \in SUBSET (S \X U)
    OBVIOUS
  <2> HIDE DEF P, w, d
  <2> QED
    BY <1>0, <2>2, <2>3, CountTwice
<1>4. K \in SUBSET U
  <2>1. ASSUME NEW i \in I PROVE key[i] \in U
    BY <1>0 DEF Having
  <2> QED
    BY <2>1
<1>5. SumOn(v, I) = SumOn(w, K)
  <2>1. /\ \A i \in I : v[i] \in Nat /\ w[key[i]] = v[i]
    BY <1>2, <1>4
  <2> HIDE DEF v, w, I
  <2> QED
    BY <1>0, <1>1, <2>1, SumMoves DEF Renamed
<1>6. Weights(f, I) /\ Weights(v, I) /\ \A i \in I : f[i] <= v[i]
  BY <1>0, <1>2 DEF Weights
<1>7. Weights(w, U)
  BY <1>2 DEF Weights
<1>8. /\ SumOn(f, I) \in Nat /\ SumOn(v, I) \in Nat /\ SumOn(f, I) <= SumOn(v, I)
      /\ SumOn(f, I) = SumOn(v, I) => \A i \in I : f[i] = v[i]
  <2> HIDE DEF f, v, I
  <2> QED
    BY <1>1, <1>6, SumsCompare
<1>9. /\ SumOn(w, U) = SumOn(w, K) + SumOn(w, U \ K)
      /\ SumOn(w, K) \in Nat /\ SumOn(w, U \ K) \in Nat
  <2> HIDE DEF w, K
  <2> QED
    BY <1>0, <1>4, <1>7, SumOfParts
<1>10. ASSUME SumOn(w, U \ K) = 0 PROVE K = U
  <2> DEFINE zero == [y \in U \ K |-> 0]
  <2>1. /\ IsFiniteSet(U \ K) /\ Weights(zero, U \ K) /\ Weights(w, U \ K)
        /\ \A y \in U \ K : zero[y] <= w[y]
    BY <1>0, <1>7, FS_Subset DEF Weights
  <2>2. SumOn(zero, U \ K) = SumOn(w, U \ K)
    <3> HIDE DEF zero, w, K
    <3>1. SumOn(zero, U \ K) \in Nat /\ SumOn(zero, U \ K) <= SumOn(w, U \ K)
      BY <2>1, SumsCompare
    <3> QED
      BY <1>10, <3>1
  <2>3. \A y \in U \ K : zero[y] = w[y]
    <3> HIDE DEF zero, w, K
    <3> QED
      BY <2>1, <2>2, SumsCompare
  <2>4. ASSUME NEW y \in U \ K PROVE FALSE
    <3>1. Cardinality(Having(S, D, y)) = 0
      BY <2>3
    <3>2. Having(S, D, y) = {}
      BY <1>2, <3>1, FS_EmptySet
    <3> QED
      BY <1>0, <3>2 DEF Having
  <2> QED
    BY <1>4, <2>4
<1>11. ASSUME SumOn(f, I) = SumOn(d, S)
       PROVE  K = U /\ \A i \in I : found[i] = Having(S, D, key[i])
  <2>1. SumOn(f, I) = SumOn(v, I) /\ SumOn(w, U \ K) = 0
    <3> DEFINE few   == SumOn(f, I)
               some  == SumOn(v, I)
               more  == SumOn(w, U \ K)
    <3>1. few = some + more /\ few <= some
      BY <1>3, <1>5, <1>8, <1>9, <1>11
    <3>2. few \in Nat /\ some \in Nat /\ more \in Nat
      BY <1>8, <1>9
    <3> HIDE DEF few, some, more
    <3>3. few = some /\ more = 0
      BY <3>1, <3>2
    <3> QED
      BY <3>3 DEF few, some, more
  <2>2. \A i \in I : Cardinality(found[i]) = Cardinality(Having(S, D, key[i]))
    BY <1>8, <2>1
  <2> QED
    BY <1>0, <1>2, <1>10, <2>1, <2>2
<1>12. ASSUME K = U, \A i \in I : found[i] = Having(S, D, key[i])
       PROVE  SumOn(f, I) = SumOn(d, S)
  <2>1. f = v
    BY <1>12
  <2> QED
    BY <1>3, <1>5, <1>12, <2>1
<1> QED
  BY <1>11, <1>12

-----------------------------------------------------------------------------
(* The records *)

\* The records of an input, each with its own identity.
Distinct(records) ==
    /\ records \in Seq(Records)
    /\ \A i, j \in DOMAIN records :
          records[i].identity = records[j].identity => i = j

\* The order of the records of a set.
IdentityPairs(S) == {p \in S \X S : IdentityLess(p[1], p[2])}

\* Records with different identities have a list.
LEMMA RecordList ==
    ASSUME NEW S \in SUBSET Records, IsFiniteSet(S),
           \A q, r \in S : q.identity = r.identity => q = r
    PROVE  /\ IsOrder(IdentityPairs(S), S)
           /\ IsList(Sorted(S, IdentityLess),
                     S, IdentityPairs(S))
           /\ \A s \in Seq(S) :
                 IsChain(s, IdentityPairs(S))
                    <=> Increasing(s, IdentityLess)
<1>1. \A x, y \in S :
         <<x, y>> \in IdentityPairs(S) <=> Rank(x.identity) < Rank(y.identity)
  BY DEF IdentityPairs, IdentityLess, TextLess
<1>2. IsOrder(IdentityPairs(S), S)
  <2> DEFINE f == [x \in S |-> Rank(x.identity)]
  <2>0. \A x \in S : x.identity \in Strings
    BY DEF Records
  <2>1. \A x \in S : f[x] \in Nat
    BY <2>0, RankIsNumber
  <2>2. \A x, y \in S : f[x] = f[y] => x = y
    BY <2>0, RankIsNumber
  <2>3. \A x, y \in S : <<x, y>> \in IdentityPairs(S) <=> f[x] < f[y]
    BY <1>1
  <2> HIDE DEF f
  <2> QED
    BY <2>1, <2>2, <2>3, NumbersOrder
<1>4. IsList(Sorted(S, IdentityLess),
             S, IdentityPairs(S))
  <2>1. Sorted(S, IdentityLess)
          = InOrder(S, IdentityPairs(S))
    BY DEF Sorted, IdentityPairs
  <2> QED
    BY <1>2, <2>1, OrderedList
<1>5. ASSUME NEW s \in Seq(S)
      PROVE  IsChain(s, IdentityPairs(S))
                <=> Increasing(s, IdentityLess)
  <2>1. \A i \in 1 .. Len(s) - 1 : s[i] \in S /\ s[i + 1] \in S
    OBVIOUS
  <2> QED
    BY <1>1, <2>1 DEF IsChain, Increasing, IdentityLess, TextLess
<1> QED
  BY <1>2, <1>4, <1>5

\* A record whose terms are in order.
TermsAreRead(r) == ValidRecord(r) /\ Increasing(r.terms, TextLess)

\* What the reader of the records accepts, and what the validator does.
LEMMA RecordsAreRead ==
    ASSUME NEW records \in Seq(Records)
    PROVE  /\ RecordsRead(records) <=> RawRecordsRead(records)
           /\ RecordsRead(records) => Distinct(records)
<1> DEFINE R == {p \in Records \X Records : IdentityLess(p[1], p[2])}
<1>1. \A i \in DOMAIN records : records[i] \in Records
  BY PlacesOf
<1>2. DOMAIN records = 1 .. Len(records) /\ Len(records) \in Nat
  BY PlacesOf
<1>3. IsChain(records, R) <=> Increasing(records, IdentityLess)
  <2>1. \A i \in 1 .. Len(records) - 1 :
           records[i] \in Records /\ records[i + 1] \in Records
    BY <1>1, <1>2
  <2> QED
    BY <2>1 DEF IsChain, Increasing
<1>4. IsChain(records, R) <=>
        \A i \in DOMAIN records :
            i > 1 => IdentityLess(records[i - 1], records[i])
  <2>1. IsChain(records, R) <=>
          \A i \in DOMAIN records : i > 1 => <<records[i - 1], records[i]>> \in R
    <3> HIDE DEF R
    <3> QED
      BY PairByPair
  <2>2. \A i \in DOMAIN records :
           i > 1 => records[i - 1] \in Records /\ records[i] \in Records
    <3> SUFFICES ASSUME NEW i \in DOMAIN records, i > 1
                 PROVE  i - 1 \in DOMAIN records
      BY <1>1
    <3> QED
      BY <1>2
  <2> QED
    BY <2>1, <2>2
<1>5. RecordsRead(records) <=> RawRecordsRead(records)
  BY <1>3, <1>4 DEF RecordsRead, RawRecordsRead, IdentityLess
<1>6. ASSUME RecordsRead(records)
      PROVE  Distinct(records)
  <2> DEFINE ids == [i \in DOMAIN records |-> records[i].identity]
  <2>1. ids \in Seq(Strings) /\ Len(ids) = Len(records)
    <3>1. \A i \in DOMAIN records : records[i].identity \in Strings
      BY <1>1 DEF Records
    <3>2. ids \in [1 .. Len(records) -> Strings]
      BY <1>2, <3>1
    <3> QED
      BY <1>2, <3>2, SeqDef
  <2>2. IsChain(ids, TextPairs(Strings))
    <3>1. ASSUME NEW i \in 1 .. Len(records) - 1
          PROVE  TextLess(ids[i], ids[i + 1])
      <4>1. i \in DOMAIN records /\ i + 1 \in DOMAIN records
        BY <1>2
      <4>2. TextLess(records[i].identity, records[i + 1].identity)
        BY <1>6 DEF RecordsRead, Increasing, IdentityLess
      <4> QED
        BY <4>1, <4>2
    <3>2. Increasing(ids, TextLess)
      BY <2>1, <3>1 DEF Increasing
    <3> HIDE DEF ids
    <3> QED
      BY <2>1, <3>2, TextList
  <2>3. \A i, j \in 1 .. Len(ids) : ids[i] = ids[j] => i = j
    <3>1. IsOrder(TextPairs(Strings), Strings)
      BY TextList
    <3> HIDE DEF ids
    <3> QED
      BY <2>1, <2>2, <3>1, ChainIsCounted
  <2> QED
    BY <1>2, <2>1, <2>3 DEF Distinct
<1> QED
  BY <1>5, <1>6

-----------------------------------------------------------------------------
(* The postings *)

\* A posting as it is read.
PostingType == [term : Strings, ordinals : Seq(Nat)]

\* The records that have a term.
TermsOf(records)    == [o \in DOMAIN records |-> Image(records[o].terms)]
Holders(records, t) == Having(DOMAIN records, TermsOf(records), t)

\* Every posting is sound, whatever is missing.
PostingsHold(postings, records) ==
    /\ postings \in Seq(PostingType)
    /\ Increasing(postings, TermLess)
    /\ \A i \in DOMAIN postings :
          LET s == postings[i].ordinals
          IN  /\ s # <<>> /\ Increasing(s, NatLess)
              /\ \A j \in DOMAIN s :
                    /\ s[j] \in DOMAIN records
                    /\ postings[i].term \in Image(records[s[j]].terms)

\* There are as many ordinals as terms.
PostingsCount(postings, records) ==
    SumOn([i \in DOMAIN postings |-> Len(postings[i].ordinals)], DOMAIN postings)
      = SumOn([o \in DOMAIN records |-> Len(records[o].terms)], DOMAIN records)

\* The records of a list whose terms are in order.
TermsInOrder(records) ==
    /\ records \in Seq(Records)
    /\ \A o \in DOMAIN records : Increasing(records[o].terms, TextLess)

\* The terms of a record are in one order only, and as many as they are.
LEMMA TermsAreCounted ==
    ASSUME NEW records, TermsInOrder(records)
    PROVE  /\ \A o \in DOMAIN records :
                 /\ records[o].terms \in Seq(Strings)
                 /\ Image(records[o].terms) \in SUBSET Strings
                 /\ IsFiniteSet(Image(records[o].terms))
                 /\ Cardinality(Image(records[o].terms)) = Len(records[o].terms)
                 /\ records[o].terms = Sorted(Image(records[o].terms), TextLess)
           /\ AllTerms(records) \in SUBSET Strings
           /\ IsFiniteSet(AllTerms(records))
<1>1. ASSUME NEW o \in DOMAIN records
      PROVE  /\ records[o].terms \in Seq(Strings)
             /\ Image(records[o].terms) \in SUBSET Strings
             /\ IsFiniteSet(Image(records[o].terms))
             /\ Cardinality(Image(records[o].terms)) = Len(records[o].terms)
             /\ records[o].terms = Sorted(Image(records[o].terms), TextLess)
  <2> DEFINE s == records[o].terms
  <2>1. s \in Seq(Strings) /\ Increasing(s, TextLess)
    <3>1. records[o] \in Records
      BY PlacesOf DEF TermsInOrder
    <3> QED
      BY <3>1 DEF TermsInOrder, Records
  <2> HIDE DEF s
  <2>2. Image(s) \in SUBSET Strings /\ s \in Seq(Image(s))
    BY <2>1, PlacesOf
  <2> DEFINE S == Image(s)
  <2>3. /\ IsOrder(TextPairs(S), S) /\ IsChain(s, TextPairs(S))
        /\ IsList(Sorted(S, TextLess), S, TextPairs(S))
    <3> HIDE DEF S
    <3> QED
      BY <2>1, <2>2, TextList DEF S
  <2>4. IsFiniteSet(S) /\ Cardinality(S) = Len(s)
    BY <2>2, <2>3, ChainIsCounted
  <2>5. s = Sorted(S, TextLess)
    BY <2>2, <2>3 DEF IsList
  <2> QED
    BY <2>1, <2>2, <2>4, <2>5 DEF s
<1>2. AllTerms(records) \in SUBSET Strings
  BY <1>1 DEF AllTerms
<1> QED
  BY <1>1, <1>2, RankIsNumber, FS_Subset

\* What holds of each posting.
LEMMA PostingIs ==
    ASSUME NEW postings, NEW records, PostingsHold(postings, records),
           records \in Seq(Records), NEW i \in DOMAIN postings
    PROVE  LET s == postings[i].ordinals
               S == Image(s)
               t == postings[i].term
           IN  /\ t \in Strings /\ s \in Seq(Nat)
               /\ S \subseteq Holders(records, t) /\ S # {}
               /\ IsFiniteSet(S) /\ Cardinality(S) = Len(s)
               /\ s = Sorted(S, NatLess)
<1> DEFINE s == postings[i].ordinals
           S == Image(s)
           t == postings[i].term
<1>1. t \in Strings /\ s \in Seq(Nat)
  <2>1. postings[i] \in PostingType
    BY PlacesOf DEF PostingsHold
  <2> QED
    BY <2>1 DEF PostingType
<1>2. /\ s # <<>> /\ Increasing(s, NatLess)
      /\ \A j \in DOMAIN s :
            s[j] \in DOMAIN records /\ t \in Image(records[s[j]].terms)
  BY DEF PostingsHold
<1> HIDE DEF s, t
<1>3. S \subseteq Holders(records, t)
  BY <1>2 DEF Image, Holders, Having, TermsOf
<1>4. S # {} /\ s \in Seq(S) /\ S \in SUBSET Nat
  <2>1. 1 \in DOMAIN s
    BY <1>1, <1>2
  <2> QED
    BY <1>1, <2>1, PlacesOf
<1>5. IsFiniteSet(DOMAIN records)
  BY PlacesOf
<1>6. IsFiniteSet(S)
  <2>1. S \in SUBSET DOMAIN records
    BY <1>3 DEF Holders, Having
  <2> QED
    BY <1>5, <2>1, FS_Subset
<1>7. /\ IsOrder(NatPairs(S), S) /\ IsChain(s, NatPairs(S))
      /\ IsList(Sorted(S, NatLess), S, NatPairs(S))
  <2> HIDE DEF S
  <2> QED
    BY <1>2, <1>4, <1>6, NumberList
<1>8. Cardinality(S) = Len(s)
  BY <1>4, <1>7, ChainIsCounted
<1>9. s = Sorted(S, NatLess)
  BY <1>4, <1>7 DEF IsList
<1> QED
  BY <1>1, <1>3, <1>4, <1>6, <1>8, <1>9 DEF s, t

\* The terms of sound postings are listed in order.
LEMMA PostingTerms ==
    ASSUME NEW postings, NEW records, PostingsHold(postings, records)
    PROVE  LET terms == [i \in DOMAIN postings |-> postings[i].term]
           IN  /\ terms \in Seq(Strings) /\ Len(terms) = Len(postings)
               /\ IsChain(terms, TextPairs(Strings))
               /\ \A i, j \in DOMAIN postings : terms[i] = terms[j] => i = j
<1> DEFINE terms == [i \in DOMAIN postings |-> postings[i].term]
           n == Len(postings)
<1>1. n \in Nat /\ DOMAIN postings = 1 .. n
      /\ \A i \in DOMAIN postings : postings[i] \in PostingType
  BY PlacesOf DEF PostingsHold
<1>2. terms \in Seq(Strings) /\ Len(terms) = n
  <2>1. terms \in [1 .. n -> Strings]
    BY <1>1 DEF PostingType
  <2> HIDE DEF n, terms
  <2> QED
    BY <1>1, <2>1, SeqDef
<1>3. Increasing(terms, TextLess)
  <2>1. ASSUME NEW i \in 1 .. n - 1
        PROVE  TextLess(terms[i], terms[i + 1])
    <3>1. i \in DOMAIN postings /\ i + 1 \in DOMAIN postings
      BY <1>1
    <3>2. TextLess(postings[i].term, postings[i + 1].term)
      BY <2>1 DEF PostingsHold, Increasing, TermLess
    <3> QED
      BY <3>1, <3>2
  <2> QED
    BY <1>2, <2>1 DEF Increasing
<1>4. IsOrder(TextPairs(Strings), Strings) /\ IsChain(terms, TextPairs(Strings))
  <2> HIDE DEF terms
  <2> QED
    BY <1>2, <1>3, TextList
<1>5. \A i, j \in 1 .. Len(terms) : terms[i] = terms[j] => i = j
  <2> HIDE DEF terms
  <2> QED
    BY <1>2, <1>4, ChainIsCounted
<1> QED
  BY <1>1, <1>2, <1>4, <1>5

\* Sound postings that are as many as they should be are those derived.
LEMMA PostingsThatCount ==
    ASSUME NEW postings, NEW records, PostingsHold(postings, records),
           TermsInOrder(records)
    PROVE  PostingsCount(postings, records) <=> postings = Postings(records)
<1> DEFINE n == Len(postings)
           key == [i \in DOMAIN postings |-> postings[i].term]
           found == [i \in DOMAIN postings |-> Image(postings[i].ordinals)]
           S == DOMAIN records
           U == AllTerms(records)
           D == TermsOf(records)
           list == Sorted(U, TextLess)
<1>1. n \in Nat /\ DOMAIN postings = 1 .. n
      /\ \A i \in DOMAIN postings : postings[i] \in PostingType
  BY PlacesOf DEF PostingsHold
<1>2. key \in Seq(Strings) /\ Len(key) = n /\ IsChain(key, TextPairs(Strings))
      /\ \A i, j \in DOMAIN postings : key[i] = key[j] => i = j
  BY PostingTerms
<1>0. records \in Seq(Records)
  BY DEF TermsInOrder
<1>3. \A i \in DOMAIN postings :
        /\ found[i] \subseteq Having(S, D, key[i]) /\ found[i] # {}
        /\ Cardinality(found[i]) = Len(postings[i].ordinals)
        /\ postings[i].ordinals = Sorted(found[i], NatLess)
  <2> TAKE i \in DOMAIN postings
  <2> QED
    BY <1>0, PostingIs DEF Holders
<1>4. Finds(n, key, found, S, U, D)
  <2>1. IsFiniteSet(S) /\ IsFiniteSet(U)
    BY <1>0, PlacesOf, TermsAreCounted
  <2>2. /\ \A x \in S : D[x] \subseteq U
        /\ \A y \in U : \E x \in S : y \in D[x]
    BY DEF AllTerms, TermsOf
  <2> QED
    BY <1>1, <1>2, <1>3, <2>1, <2>2 DEF Finds
<1>5. /\ [i \in 1 .. n |-> Cardinality(found[i])]
            = [i \in DOMAIN postings |-> Len(postings[i].ordinals)]
      /\ [x \in S |-> Cardinality(D[x])]
            = [o \in DOMAIN records |-> Len(records[o].terms)]
  BY <1>1, <1>3, TermsAreCounted DEF TermsOf
<1>6. PostingsCount(postings, records) <=>
        /\ {key[i] : i \in 1 .. n} = U
        /\ \A i \in 1 .. n : found[i] = Having(S, D, key[i])
  <2>1. SumOn([i \in 1 .. n |-> Cardinality(found[i])], 1 .. n)
           = SumOn([x \in S |-> Cardinality(D[x])], S)
        <=> /\ {key[i] : i \in 1 .. n} = U
            /\ \A i \in 1 .. n : found[i] = Having(S, D, key[i])
    <3> HIDE DEF n, key, found, S, U, D
    <3> QED
      BY <1>4, AllAreFound
  <2> QED
    BY <1>1, <1>5, <2>1 DEF PostingsCount
<1>7. IsList(list, U, TextPairs(U)) /\ IsOrder(TextPairs(U), U)
  <2>1. U \in SUBSET Strings
    BY TermsAreCounted
  <2> HIDE DEF U
  <2> QED
    BY <2>1, TextList
<1>8. Postings(records)
        = [i \in DOMAIN list |-> [term |-> list[i], ordinals |->
              Sorted(Having(S, D, list[i]), NatLess)]]
  <2>1. \A t : {o \in DOMAIN records : t \in Image(records[o].terms)}
                 = Having(S, D, t)
    BY DEF Having, TermsOf
  <2> QED
    BY <2>1 DEF Postings
<1>9. ASSUME {key[i] : i \in 1 .. n} = U,
             \A i \in 1 .. n : found[i] = Having(S, D, key[i])
      PROVE  postings = Postings(records)
  <2>1. Image(key) = U
    BY <1>1, <1>9 DEF Image
  <2>2. key \in Seq(U)
    BY <1>2, <2>1, PlacesOf
  <2>3. IsChain(key, TextPairs(U))
    <3>1. \A i \in 1 .. Len(key) - 1 : key[i] \in U /\ key[i + 1] \in U
      BY <2>2
    <3> HIDE DEF key, U
    <3> QED
      BY <1>2, <3>1 DEF IsChain, TextPairs
  <2>4. key = list
    <3> HIDE DEF key, list, U
    <3> QED
      BY <1>7, <2>1, <2>2, <2>3 DEF IsList
  <2>5. \A i \in DOMAIN postings :
           postings[i] = [term |-> list[i], ordinals |->
                             Sorted(Having(S, D, list[i]), NatLess)]
    <3> TAKE i \in DOMAIN postings
    <3>1. postings[i] \in PostingType /\ postings[i].term = list[i]
      BY <1>1, <2>4
    <3>2. postings[i].ordinals = Sorted(Having(S, D, list[i]), NatLess)
      BY <1>1, <1>3, <1>9, <2>4
    <3> HIDE DEF list, S, D
    <3> QED
      BY <3>1, <3>2 DEF PostingType
  <2>6. DOMAIN list = DOMAIN postings
    <3>1. DOMAIN key = DOMAIN postings
      OBVIOUS
    <3> HIDE DEF key, list
    <3> QED
      BY <2>4, <3>1
  <2>7. postings = [i \in DOMAIN postings |-> postings[i]]
    BY <1>1, PlacesOf DEF PostingsHold
  <2> HIDE DEF list, S, D
  <2> QED
    BY <1>8, <2>5, <2>6, <2>7
<1>10. ASSUME postings = Postings(records)
       PROVE  /\ {key[i] : i \in 1 .. n} = U
              /\ \A i \in 1 .. n : found[i] = Having(S, D, key[i])
  <2>1. DOMAIN postings = DOMAIN list
    <3> HIDE DEF list, S, D
    <3> QED
      BY <1>8, <1>10
  <2>2. \A i \in 1 .. n : /\ key[i] = list[i]
                          /\ postings[i].ordinals
                               = Sorted(Having(S, D, key[i]), NatLess)
    <3> HIDE DEF list, S, D
    <3> QED
      BY <1>1, <1>8, <1>10, <2>1
  <2>3. Image(list) = U
    BY <1>7 DEF IsList
  <2>4. {key[i] : i \in 1 .. n} = U
    <3> HIDE DEF list
    <3> QED
      BY <1>1, <2>1, <2>2, <2>3 DEF Image
  <2>5. ASSUME NEW i \in 1 .. n
        PROVE  found[i] = Having(S, D, key[i])
    <3> DEFINE H == Having(S, D, key[i])
    <3>1. H \in SUBSET S /\ S \in SUBSET Nat /\ IsFiniteSet(S)
      BY <1>0, PlacesOf DEF Having
    <3>2. IsFiniteSet(H) /\ H \in SUBSET Nat
      <4> HIDE DEF H, S
      <4> QED
        BY <3>1, FS_Subset
    <3>3. Image(Sorted(H, NatLess)) = H
      <4> HIDE DEF H
      <4> QED
        BY <3>2, NumberList DEF IsList
    <3> QED
      BY <1>1, <2>2, <3>3
  <2> QED
    BY <2>4, <2>5
<1> QED
  BY <1>6, <1>9, <1>10

\* The postings that are derived are sound.
LEMMA DerivedPostingsHold ==
    ASSUME NEW records, TermsInOrder(records)
    PROVE  PostingsHold(Postings(records), records)
<1> DEFINE U == AllTerms(records)
           list == Sorted(U, TextLess)
           H(t) == {o \in DOMAIN records : t \in Image(records[o].terms)}
           postings == Postings(records)
<1>0. records \in Seq(Records)
  BY DEF TermsInOrder
<1>1. IsList(list, U, TextPairs(U)) /\ U \in SUBSET Strings
      /\ Increasing(list, TextLess)
  <2>1. U \in SUBSET Strings
    BY TermsAreCounted
  <2>2. IsList(list, U, TextPairs(U))
    <3> HIDE DEF U
    <3> QED
      BY <2>1, TextList
  <2>3. list \in Seq(U) /\ IsChain(list, TextPairs(U))
    BY <2>2 DEF IsList
  <2> HIDE DEF list, U
  <2> QED
    BY <2>1, <2>2, <2>3, TextList
<1>2. /\ list \in Seq(U) /\ Image(list) = U
      /\ DOMAIN list = 1 .. Len(list) /\ Len(list) \in Nat
  <2>1. list \in Seq(U) /\ Image(list) = U
    BY <1>1 DEF IsList
  <2> HIDE DEF list, U
  <2> QED
    BY <2>1, PlacesOf
<1>3. postings = [i \in DOMAIN list |-> [term |-> list[i], ordinals |->
                     Sorted(H(list[i]), NatLess)]]
  BY DEF Postings
<1>4. ASSUME NEW t \in U
      PROVE  /\ Sorted(H(t), NatLess) \in Seq(Nat)
             /\ Sorted(H(t), NatLess) # <<>>
             /\ Increasing(Sorted(H(t), NatLess), NatLess)
             /\ \A j \in DOMAIN Sorted(H(t), NatLess) :
                   Sorted(H(t), NatLess)[j] \in H(t)
  <2> DEFINE h == H(t)
             s == Sorted(h, NatLess)
  <2>1. h \in SUBSET DOMAIN records /\ h # {}
    BY DEF AllTerms
  <2>2. IsFiniteSet(h) /\ h \in SUBSET Nat
    <3>1. IsFiniteSet(DOMAIN records) /\ DOMAIN records \in SUBSET Nat
      BY <1>0, PlacesOf
    <3> HIDE DEF h
    <3> QED
      BY <2>1, <3>1, FS_Subset
  <2> HIDE DEF h
  <2>3. IsList(s, h, NatPairs(h))
    BY <2>2, NumberList
  <2>4. s \in Seq(h) /\ Image(s) = h /\ IsChain(s, NatPairs(h))
    BY <2>3 DEF IsList
  <2> HIDE DEF s
  <2>6. Increasing(s, NatLess)
    <3>1. \A x \in Seq(h) : IsChain(x, NatPairs(h)) <=> Increasing(x, NatLess)
      BY <2>2, NumberList
    <3> QED
      BY <2>4, <3>1
  <2>5. s \in Seq(Nat) /\ s # <<>> /\ \A j \in DOMAIN s : s[j] \in h
    <3>1. s # <<>>
      BY <2>1, <2>4 DEF Image
    <3>2. \A j \in DOMAIN s : s[j] \in h
      BY <2>4
    <3>3. s \in Seq(Nat)
      <4>1. s \in [1 .. Len(s) -> Nat] /\ Len(s) \in Nat
        <5>1. /\ s = [j \in 1 .. Len(s) |-> s[j]] /\ Len(s) \in Nat
              /\ DOMAIN s = 1 .. Len(s)
          BY <2>4, PlacesOf
        <5> QED
          BY <2>2, <3>2, <5>1
      <4> QED
        BY <4>1, SeqDef
    <3> QED
      BY <3>1, <3>2, <3>3
  <2> QED
    BY <2>5, <2>6 DEF s, h
<1> HIDE DEF U, list, H
<1>5. \A i \in DOMAIN list : list[i] \in U
  BY <1>2
<1>6. postings \in Seq(PostingType) /\ Len(postings) = Len(list)
      /\ DOMAIN postings = DOMAIN list
  <2>1. postings \in [1 .. Len(list) -> PostingType]
    BY <1>1, <1>2, <1>3, <1>4, <1>5 DEF PostingType
  <2> HIDE DEF postings
  <2> QED
    BY <1>2, <2>1, SeqDef
<1>7. \A i \in DOMAIN postings :
         /\ postings[i].term = list[i]
         /\ postings[i].ordinals = Sorted(H(list[i]), NatLess)
  BY <1>3, <1>6
<1> HIDE DEF postings
<1>8. Increasing(postings, TermLess)
  <2>1. ASSUME NEW i \in 1 .. Len(postings) - 1
        PROVE  TermLess(postings[i], postings[i + 1])
    <3>1. i \in DOMAIN postings /\ i + 1 \in DOMAIN postings
      BY <1>2, <1>6
    <3>2. TextLess(list[i], list[i + 1])
      BY <1>1, <1>6 DEF Increasing
    <3> QED
      BY <1>7, <3>1, <3>2 DEF TermLess
  <2> QED
    BY <2>1 DEF Increasing
<1>9. ASSUME NEW i \in DOMAIN postings
      PROVE  LET s == postings[i].ordinals
             IN  /\ s # <<>> /\ Increasing(s, NatLess)
                 /\ \A j \in DOMAIN s :
                       /\ s[j] \in DOMAIN records
                       /\ postings[i].term \in Image(records[s[j]].terms)
  <2>1. list[i] \in U
    BY <1>5, <1>6
  <2>2. \A o \in H(list[i]) :
           o \in DOMAIN records /\ list[i] \in Image(records[o].terms)
    BY DEF H
  <2> QED
    BY <1>4, <1>7, <2>1, <2>2
<1> QED
  BY <1>6, <1>8, <1>9 DEF PostingsHold, postings

\* The postings that are read are those derived, and the validator reads the
\* same ones.
LEMMA PostingsAreRead ==
    ASSUME NEW file, TermsInOrder(file.records),
           file.postings \in Seq(PostingType)
    PROVE  /\ PostingsRead(file) <=> file.postings = Postings(file.records)
           /\ PostingsRead(file) <=> RawPostingsRead(file)
<1> DEFINE postings == file.postings
           records == file.records
           R == {p \in PostingType \X PostingType : TermLess(p[1], p[2])}
<1>1. PostingsRead(file) <=>
        PostingsHold(postings, records) /\ PostingsCount(postings, records)
  BY DEF PostingsRead, PostingsHold, PostingsCount, OrdinalsHold, Total, SumOn
<1>2. PostingsRead(file) <=> postings = Postings(records)
  BY <1>1, PostingsThatCount, DerivedPostingsHold
<1>3. \A i \in DOMAIN postings : postings[i] \in PostingType
      /\ DOMAIN postings = 1 .. Len(postings) /\ Len(postings) \in Nat
  BY PlacesOf
<1>4. IsChain(postings, R) <=>
        Increasing(postings, TermLess)
  <2>1. \A i \in 1 .. Len(postings) - 1 :
           postings[i] \in PostingType /\ postings[i + 1] \in PostingType
    BY <1>3
  <2> HIDE DEF postings
  <2> QED
    BY <2>1 DEF IsChain, Increasing
<1>5. IsChain(postings, R) <=>
        \A i \in DOMAIN postings :
            i > 1 => TermLess(postings[i - 1], postings[i])
  <2>1. IsChain(postings, R) <=> \A i \in DOMAIN postings :
            i > 1 => <<postings[i - 1], postings[i]>> \in R
    <3> HIDE DEF R
    <3> QED
      BY PairByPair
  <2>2. \A i \in DOMAIN postings :
           i > 1 => postings[i - 1] \in PostingType /\ postings[i] \in PostingType
    <3> SUFFICES ASSUME NEW i \in DOMAIN postings, i > 1
                 PROVE  i - 1 \in DOMAIN postings
      BY <1>3
    <3> QED
      BY <1>3
  <2> HIDE DEF postings
  <2> QED
    BY <2>1, <2>2
<1>6. PostingsRead(file) <=> RawPostingsRead(file)
  BY <1>4, <1>5 DEF PostingsRead, RawPostingsRead, TermLess
<1> QED
  BY <1>2, <1>6

-----------------------------------------------------------------------------
(* Runs of ordinals *)

\* A run, and the ordinals it covers.
RunType    == (Nat \ {0}) \X Nat
Covered(r) == r[1] .. r[1] + r[2] - 1

\* A longest run of numbers of S.
IsRun(r, S) ==
    /\ r \in RunType /\ r[2] # 0
    /\ r[1] - 1 \notin S /\ r[1] + r[2] \notin S /\ Covered(r) \subseteq S

\* Where the run that starts at o ends, and the runs of a set.
EndOf(S, o) == CHOOSE e \in S : /\ e >= o /\ e + 1 \notin S
                               /\ o .. e \subseteq S
RunSet(S)   == {<<o, EndOf(S, o) - o + 1>> : o \in {x \in S : x - 1 \notin S}}

\* From every number of S a run goes on to a last one.
LEMMA RunEnds ==
    ASSUME NEW n \in Nat, NEW S \in SUBSET (1 .. n), NEW o \in S
    PROVE  /\ \E e \in S : e >= o /\ e + 1 \notin S /\ o .. e \subseteq S
           /\ \A d, e \in S :
                 (/\ d >= o /\ d + 1 \notin S /\ o .. d \subseteq S
                  /\ e >= o /\ e + 1 \notin S /\ o .. e \subseteq S) => d = e
<1> DEFINE last == {e \in Nat : e >= o /\ e + 1 \notin S}
<1>1. n \in last
  OBVIOUS
<1>2. PICK e \in last : \A m \in last : e <= m
  <2>1. last \in SUBSET Nat /\ last # {}
    BY <1>1
  <2> HIDE DEF last
  <2> QED
    BY <2>1, SmallestNumber
<1>3. ASSUME NEW x \in o .. e
      PROVE  x \in S
  <2> SUFFICES ASSUME x \notin S PROVE FALSE
    OBVIOUS
  <2>1. x # o /\ x \in Nat /\ x > o
    OBVIOUS
  <2>2. x - 1 \in last
    BY <2>1
  <2> QED
    BY <1>2, <2>1, <2>2
<1>4. e \in S /\ e >= o /\ e + 1 \notin S /\ o .. e \subseteq S
  BY <1>2, <1>3
<1>5. ASSUME NEW d \in S, NEW f \in S, d >= o, d + 1 \notin S, o .. d \subseteq S,
             f >= o, f + 1 \notin S, o .. f \subseteq S
      PROVE  d = f
  <2>1. ~ (d < f)
    <3> SUFFICES ASSUME d < f PROVE FALSE
      OBVIOUS
    <3>1. d + 1 \in o .. f
      BY <1>5
    <3> QED
      BY <1>5, <3>1
  <2>2. ~ (f < d)
    <3> SUFFICES ASSUME f < d PROVE FALSE
      OBVIOUS
    <3>1. f + 1 \in o .. d
      BY <1>5
    <3> QED
      BY <1>5, <3>1
  <2>3. d \in Nat /\ f \in Nat
    OBVIOUS
  <2> QED
    BY <2>1, <2>2, <2>3
<1>6. \E d \in S : d >= o /\ d + 1 \notin S /\ o .. d \subseteq S
  BY <1>4
<1> QED
  BY <1>5, <1>6

\* The runs of a set are its longest runs.
LEMMA RunSetIs ==
    ASSUME NEW n \in Nat, NEW S \in SUBSET (1 .. n)
    PROVE  \A r : r \in RunSet(S) <=> IsRun(r, S)
<1>1. ASSUME NEW o \in S
      PROVE  /\ EndOf(S, o) \in S /\ EndOf(S, o) >= o /\ EndOf(S, o) + 1 \notin S
             /\ o .. EndOf(S, o) \subseteq S
  BY RunEnds DEF EndOf
<1>2. ASSUME NEW r \in RunSet(S)
      PROVE  IsRun(r, S)
  <2>1. PICK o \in S : o - 1 \notin S /\ r = <<o, EndOf(S, o) - o + 1>>
    BY DEF RunSet
  <2> DEFINE e == EndOf(S, o)
  <2>2. e \in S /\ e >= o /\ e + 1 \notin S /\ o .. e \subseteq S
    BY <1>1
  <2>3. r = <<o, e - o + 1>>
    BY <2>1
  <2> HIDE DEF e
  <2>4. o + (e - o + 1) = e + 1 /\ o + (e - o + 1) - 1 = e
    BY <2>2
  <2>5. r \in RunType /\ r[1] = o /\ r[2] = e - o + 1 /\ r[2] # 0
    BY <2>2, <2>3 DEF RunType
  <2> QED
    BY <2>1, <2>2, <2>4, <2>5 DEF IsRun, Covered
<1>3. ASSUME NEW r, IsRun(r, S)
      PROVE  r \in RunSet(S)
  <2> DEFINE o == r[1]
             e == r[1] + r[2] - 1
  <2>1. /\ r[1] \in Nat /\ r[2] \in Nat /\ r[2] # 0 /\ r = <<r[1], r[2]>>
        /\ r[1] # 0
    BY <1>3 DEF IsRun, RunType
  <2>2. o .. e \subseteq S /\ o - 1 \notin S /\ e + 1 \notin S
    BY <1>3, <2>1 DEF IsRun, Covered
  <2>3. o \in o .. e /\ e \in o .. e /\ e >= o
    BY <2>1
  <2>4. r[2] = e - o + 1
    BY <2>1
  <2>5. r = <<o, e - o + 1>>
    BY <2>1, <2>4
  <2> HIDE DEF o, e
  <2>6. e = EndOf(S, o)
    <3>1. o \in S /\ e \in S
      BY <2>2, <2>3
    <3> DEFINE f == EndOf(S, o)
    <3>2. f \in S /\ f >= o /\ f + 1 \notin S /\ o .. f \subseteq S
      BY <1>1, <3>1
    <3> HIDE DEF f
    <3>3. e = f
      BY <2>2, <2>3, <3>1, <3>2, RunEnds
    <3> QED
      BY <3>3 DEF f
  <2> QED
    BY <2>2, <2>3, <2>5, <2>6 DEF RunSet
<1> QED
  BY <1>2, <1>3

\* A run that starts later does not touch the other.
LEMMA RunsDoNotTouch ==
    ASSUME NEW S, NEW q, NEW r, IsRun(q, S), IsRun(r, S)
    PROVE  /\ q[1] < r[1] => Separate(q, r)
           /\ q[1] = r[1] => q = r
<1>1. /\ q[1] \in Nat /\ q[2] \in Nat /\ q[2] # 0 /\ q = <<q[1], q[2]>>
      /\ r[1] \in Nat /\ r[2] \in Nat /\ r[2] # 0 /\ r = <<r[1], r[2]>>
  BY DEF IsRun, RunType
<1> DEFINE a == q[1]
           b == q[2]
           c == r[1]
           d == r[2]
<1>2. /\ a - 1 \notin S /\ a + b \notin S /\ a .. a + b - 1 \subseteq S
      /\ c - 1 \notin S /\ c + d \notin S /\ c .. c + d - 1 \subseteq S
  BY DEF IsRun, Covered
<1>3. a \in Nat /\ b \in Nat /\ b # 0 /\ c \in Nat /\ d \in Nat /\ d # 0
  BY <1>1
<1> HIDE DEF a, b, c, d
<1>4. ASSUME a < c PROVE a + b < c
  <2>1. c \in S
    BY <1>2, <1>3
  <2>2. c # a + b
    BY <1>2, <2>1
  <2>3. ~ (c < a + b)
    <3> SUFFICES ASSUME c < a + b PROVE FALSE
      OBVIOUS
    <3>1. c - 1 \in a .. a + b - 1
      BY <1>3, <1>4
    <3> QED
      BY <1>2, <3>1
  <2> QED
    BY <1>3, <2>2, <2>3
<1>5. ASSUME a = c PROVE b = d
  <2>1. ~ (b < d)
    <3> SUFFICES ASSUME b < d PROVE FALSE
      OBVIOUS
    <3>1. a + b \in c .. c + d - 1
      BY <1>3, <1>5
    <3> QED
      BY <1>2, <3>1
  <2>2. ~ (d < b)
    <3> SUFFICES ASSUME d < b PROVE FALSE
      OBVIOUS
    <3>1. c + d \in a .. a + b - 1
      BY <1>3, <1>5
    <3> QED
      BY <1>2, <3>1
  <2> QED
    BY <1>3, <2>1, <2>2
<1>6. q[1] < r[1] => Separate(q, r)
  BY <1>4 DEF Separate, a, b, c
<1>7. q[1] = r[1] => q = r
  BY <1>1, <1>5 DEF a, b, c, d
<1> QED
  BY <1>6, <1>7

\* The runs of a set are finitely many, and in order of where they start.
RunPairs(Q) == {p \in Q \X Q : RunLess(p[1], p[2])}

\* The runs of a set of ordinals are the list of its runs.
LEMMA RunList ==
    ASSUME NEW n \in Nat, NEW S \in SUBSET (1 .. n)
    PROVE  IsList(Runs(S), RunSet(S), RunPairs(RunSet(S)))
<1> DEFINE Q == RunSet(S)
<1>1. Q \in SUBSET ((1 .. n) \X (0 .. n))
  <2>1. ASSUME NEW r \in Q PROVE r \in (1 .. n) \X (0 .. n)
    <3>1. IsRun(r, S)
      BY RunSetIs
    <3>2. /\ r[1] \in Nat /\ r[2] \in Nat /\ r[2] # 0 /\ r = <<r[1], r[2]>>
          /\ r[1] # 0 /\ r[1] .. r[1] + r[2] - 1 \subseteq S
      BY <3>1 DEF IsRun, RunType, Covered
    <3> DEFINE a == r[1]
               b == r[2]
    <3>3. a \in 1 .. n /\ b \in 0 .. n
      <4>1. a \in Nat /\ b \in Nat /\ b # 0 /\ a # 0 /\ a .. a + b - 1 \subseteq S
        BY <3>2
      <4> HIDE DEF a, b
      <4>2. a \in a .. a + b - 1 /\ a + b - 1 \in a .. a + b - 1
        BY <4>1
      <4> QED
        BY <4>1, <4>2
    <3> QED
      BY <3>2, <3>3
  <2> QED
    BY <2>1
<1>2. IsFiniteSet(Q)
  <2>1. IsFiniteSet(1 .. n) /\ IsFiniteSet(0 .. n)
    BY FS_Interval
  <2>2. IsFiniteSet((1 .. n) \X (0 .. n))
    BY <2>1, FS_Product
  <2> HIDE DEF Q
  <2> QED
    BY <1>1, <2>2, FS_Subset
<1>3. IsOrder(RunPairs(Q), Q)
  <2> DEFINE f == [r \in Q |-> r[1]]
  <2>1. \A r \in Q : f[r] \in Nat
    BY <1>1
  <2>2. \A q, r \in Q : f[q] = f[r] => q = r
    BY RunSetIs, RunsDoNotTouch
  <2>3. \A q, r \in Q : <<q, r>> \in RunPairs(Q) <=> f[q] < f[r]
    BY DEF RunPairs, RunLess
  <2> HIDE DEF f, Q
  <2> QED
    BY <2>1, <2>2, <2>3, NumbersOrder
<1>4. Runs(S) = InOrder(Q, RunPairs(Q))
  BY DEF Runs, Sorted, RunPairs, RunSet, EndOf
<1> HIDE DEF Q
<1> QED
  BY <1>2, <1>3, <1>4, OrderedList DEF Q

\* Runs in the order of a file: they end at n at the latest.
RunsHold(runs, n) ==
    /\ runs \in Seq(RunType)
    /\ \A i \in DOMAIN runs : runs[i][2] # 0 /\ runs[i][1] + runs[i][2] - 1 <= n
    /\ Increasing(runs, Separate)

\* The ordinals that are covered.
Covering(runs) == UNION {Covered(r) : r \in Image(runs)}

\* What such runs are one by one.
LEMMA RunIs ==
    ASSUME NEW n \in Nat, NEW runs, RunsHold(runs, n)
    PROVE  /\ Len(runs) \in Nat /\ DOMAIN runs = 1 .. Len(runs)
           /\ \A i \in DOMAIN runs :
                 /\ runs[i] = <<runs[i][1], runs[i][2]>> /\ runs[i] \in RunType
                 /\ runs[i][1] \in Nat /\ runs[i][1] # 0
                 /\ runs[i][2] \in Nat /\ runs[i][2] # 0
                 /\ runs[i][1] + runs[i][2] - 1 <= n
           /\ \A i, j \in DOMAIN runs :
                 i < j => runs[i][1] + runs[i][2] < runs[j][1]
           /\ Covering(runs) \in SUBSET (1 .. n)
           /\ \A x : x \in Covering(runs) <=>
                        \E i \in DOMAIN runs : x \in Covered(runs[i])
<1>1. /\ Len(runs) \in Nat /\ DOMAIN runs = 1 .. Len(runs)
      /\ \A i \in DOMAIN runs : runs[i] \in RunType
  BY PlacesOf DEF RunsHold
<1>2. \A i \in DOMAIN runs :
         /\ runs[i] = <<runs[i][1], runs[i][2]>> /\ runs[i] \in RunType
         /\ runs[i][1] \in Nat /\ runs[i][1] # 0
         /\ runs[i][2] \in Nat /\ runs[i][2] # 0
         /\ runs[i][1] + runs[i][2] - 1 <= n
  BY <1>1 DEF RunsHold, RunType
<1>3. \A i, j \in DOMAIN runs : i < j => runs[i][1] + runs[i][2] < runs[j][1]
  <2> SUFFICES ASSUME NEW i \in DOMAIN runs
               PROVE  \A j \in DOMAIN runs :
                         i < j => runs[i][1] + runs[i][2] < runs[j][1]
    OBVIOUS
  <2> DEFINE bad == {j \in DOMAIN runs :
                        i < j /\ ~ (runs[i][1] + runs[i][2] < runs[j][1])}
  <2> SUFFICES ASSUME bad # {} PROVE FALSE
    OBVIOUS
  <2>1. PICK j \in bad : \A k \in bad : j <= k
    <3>1. bad \in SUBSET Nat
      BY <1>1
    <3> HIDE DEF bad
    <3> QED
      BY <3>1, SmallestNumber
  <2>2. j - 1 \in 1 .. Len(runs) - 1 /\ (j - 1) + 1 = j /\ j - 1 \in DOMAIN runs
        /\ i <= j - 1 /\ j \in DOMAIN runs
    BY <1>1, <2>1
  <2>3. runs[j - 1][1] + runs[j - 1][2] < runs[j][1]
    <3>1. Separate(runs[j - 1], runs[(j - 1) + 1])
      BY <2>2 DEF RunsHold, Increasing
    <3> QED
      BY <2>2, <3>1 DEF Separate
  <2>4. CASE i = j - 1
    BY <2>1, <2>3, <2>4
  <2>5. CASE i < j - 1
    <3>1. j - 1 \notin bad
      BY <1>1, <2>1, <2>2
    <3>2. runs[i][1] + runs[i][2] < runs[j - 1][1]
      BY <2>2, <2>5, <3>1
    <3>3. /\ runs[i][1] \in Nat /\ runs[i][2] \in Nat
          /\ runs[j - 1][1] \in Nat /\ runs[j - 1][2] \in Nat
          /\ runs[j][1] \in Nat
      BY <1>2, <2>2
    <3>4. runs[i][1] + runs[i][2] < runs[j][1]
      BY <2>3, <3>2, <3>3
    <3> QED
      BY <2>1, <3>4
  <2> QED
    BY <1>1, <2>2, <2>4, <2>5
<1>4. \A x : x \in Covering(runs) <=>
                \E i \in DOMAIN runs : x \in Covered(runs[i])
  BY DEF Covering, Image
<1>5. Covering(runs) \in SUBSET (1 .. n)
  <2>1. ASSUME NEW i \in DOMAIN runs, NEW x \in Covered(runs[i])
        PROVE  x \in 1 .. n
    <3>1. x \in runs[i][1] .. runs[i][1] + runs[i][2] - 1
      BY <2>1 DEF Covered
    <3> QED
      BY <1>2, <3>1
  <2> QED
    BY <1>4, <2>1
<1> QED
  BY <1>1, <1>2, <1>3, <1>4, <1>5

\* The runs of a file are the runs of what they cover, and count it.
LEMMA RunsThatHold ==
    ASSUME NEW n \in Nat, NEW runs, RunsHold(runs, n)
    PROVE  /\ runs = Runs(Covering(runs))
           /\ SumOn([i \in DOMAIN runs |-> runs[i][2]], DOMAIN runs)
                 = Cardinality(Covering(runs))
           /\ Len(runs) <= Cardinality(Covering(runs))
           /\ IsFiniteSet(Covering(runs))
           /\ runs # <<>> => Covering(runs) # {}
<1> DEFINE S == Covering(runs)
           I == DOMAIN runs
           c == [i \in I |-> runs[i][2]]
<1>1. /\ Len(runs) \in Nat /\ I = 1 .. Len(runs) /\ runs \in Seq(RunType)
      /\ \A i \in I :
            /\ runs[i] = <<runs[i][1], runs[i][2]>> /\ runs[i] \in RunType
            /\ runs[i][1] \in Nat /\ runs[i][1] # 0
            /\ runs[i][2] \in Nat /\ runs[i][2] # 0
            /\ runs[i][1] + runs[i][2] - 1 <= n
      /\ \A i, j \in I : i < j => runs[i][1] + runs[i][2] < runs[j][1]
      /\ S \in SUBSET (1 .. n)
      /\ \A x : x \in S <=> \E i \in I : x \in Covered(runs[i])
  BY RunIs DEF RunsHold
<1> HIDE DEF S
<1>2. \A i, j \in I : \A x : x \in Covered(runs[i]) /\ x \in Covered(runs[j])
                               => i = j
  <2>1. ASSUME NEW i \in I, NEW j \in I, i < j,
               NEW x, x \in Covered(runs[i]), x \in Covered(runs[j])
        PROVE  FALSE
    <3>1. /\ x \in runs[i][1] .. runs[i][1] + runs[i][2] - 1
          /\ x \in runs[j][1] .. runs[j][1] + runs[j][2] - 1
      BY <2>1 DEF Covered
    <3>2. runs[i][1] + runs[i][2] < runs[j][1]
      BY <1>1, <2>1
    <3> QED
      BY <1>1, <3>1, <3>2
  <2>2. \A i, j \in I : i = j \/ i < j \/ j < i
    BY <1>1
  <2> QED
    BY <2>1, <2>2
<1>3. ASSUME NEW i \in I
      PROVE  IsRun(runs[i], S)
  <2> DEFINE a == runs[i][1]
             b == runs[i][2]
  <2>1. a \in Nat /\ b \in Nat /\ a # 0 /\ b # 0
    BY <1>1
  <2>2. Covered(runs[i]) \subseteq S
    BY <1>1
  <2>3. ASSUME NEW j \in I, j # i
        PROVE  a - 1 \notin Covered(runs[j]) /\ a + b \notin Covered(runs[j])
    <3> DEFINE p == runs[j][1]
               q == runs[j][2]
    <3>1. p \in Nat /\ q \in Nat /\ p # 0 /\ q # 0
      BY <1>1
    <3>2. a + b < p \/ p + q < a
      <4>1. i < j \/ j < i
        BY <1>1, <2>3
      <4> QED
        BY <1>1, <4>1
    <3>3. Covered(runs[j]) = p .. p + q - 1
      BY DEF Covered
    <3> HIDE DEF a, b, p, q
    <3> QED
      BY <2>1, <3>1, <3>2, <3>3
  <2>4. a - 1 \notin Covered(runs[i]) /\ a + b \notin Covered(runs[i])
    <3>1. Covered(runs[i]) = a .. a + b - 1
      BY DEF Covered
    <3> HIDE DEF a, b
    <3> QED
      BY <2>1, <3>1
  <2>5. a - 1 \notin S /\ a + b \notin S
    BY <1>1, <2>3, <2>4
  <2> QED
    BY <1>1, <2>1, <2>2, <2>5 DEF IsRun
<1>4. Image(runs) = RunSet(S)
  <2>1. ASSUME NEW r \in Image(runs) PROVE r \in RunSet(S)
    BY <1>1, <1>3, RunSetIs DEF Image
  <2>2. ASSUME NEW r \in RunSet(S) PROVE r \in Image(runs)
    <3>1. IsRun(r, S)
      BY <1>1, RunSetIs
    <3>2. r[1] \in Covered(r) /\ r[1] - 1 \notin S
      BY <3>1 DEF IsRun, Covered, RunType
    <3>3. r[1] \in S
      BY <3>1, <3>2 DEF IsRun
    <3>4. PICK i \in I : r[1] \in Covered(runs[i])
      BY <1>1, <3>3
    <3>5. r[1] = runs[i][1]
      <4> DEFINE a == runs[i][1]
                 b == runs[i][2]
                 o == r[1]
      <4>1. a \in Nat /\ b \in Nat /\ o \in a .. a + b - 1
        BY <1>1, <3>4 DEF Covered
      <4>2. o - 1 \notin a .. a + b - 1
        BY <1>1, <3>2 DEF Covered
      <4> HIDE DEF a, b, o
      <4>3. o = a
        BY <4>1, <4>2
      <4> QED
        BY <4>3 DEF a, o
    <3>6. r = runs[i]
      BY <1>3, <3>1, <3>5, RunsDoNotTouch
    <3> QED
      BY <3>6 DEF Image
  <2> QED
    BY <2>1, <2>2
<1>5. IsChain(runs, RunPairs(RunSet(S)))
  <2> SUFFICES ASSUME NEW i \in 1 .. Len(runs) - 1
               PROVE  <<runs[i], runs[i + 1]>> \in RunPairs(RunSet(S))
    BY DEF IsChain
  <2>1. i \in I /\ i + 1 \in I /\ i < i + 1
    BY <1>1
  <2>2. runs[i] \in RunSet(S) /\ runs[i + 1] \in RunSet(S)
    BY <1>4, <2>1 DEF Image
  <2>3. runs[i][1] < runs[i + 1][1]
    <3>1. /\ runs[i][1] \in Nat /\ runs[i][2] \in Nat /\ runs[i + 1][1] \in Nat
          /\ runs[i][1] + runs[i][2] < runs[i + 1][1]
      BY <1>1, <2>1
    <3> QED
      BY <3>1
  <2> QED
    BY <2>2, <2>3 DEF RunPairs, RunLess
<1>6. runs = Runs(S)
  <2>1. runs \in Seq(RunSet(S))
    BY <1>1, <1>4, PlacesOf
  <2>2. IsList(Runs(S), RunSet(S), RunPairs(RunSet(S)))
    BY <1>1, RunList
  <2> QED
    BY <1>4, <1>5, <2>1, <2>2 DEF IsList
<1>7. IsFiniteSet(S) /\ IsFiniteSet(I) /\ Cardinality(I) = Len(runs)
  BY <1>1, NumbersUpTo, FS_Subset
<1>8. SumOn(c, I) = Cardinality(S)
  <2> DEFINE P == {p \in I \X S : p[2] \in Covered(runs[p[1]])}
             one == [o \in S |-> Cardinality({i \in I : <<i, o>> \in P})]
  <2>1. P \in SUBSET (I \X S)
    OBVIOUS
  <2>2. ASSUME NEW i \in I
        PROVE  Cardinality({o \in S : <<i, o>> \in P}) = c[i]
    <3>1. {o \in S : <<i, o>> \in P} = Covered(runs[i])
      BY <1>1
    <3> DEFINE a == runs[i][1]
               b == runs[i][2]
    <3>2. a \in Nat /\ b \in Nat /\ b # 0
      BY <1>1
    <3>3. Cardinality(a .. a + b - 1) = b
      <4> HIDE DEF a, b
      <4>1. a \in Int /\ a + b - 1 \in Int /\ ~ (a > a + b - 1)
            /\ (a + b - 1) - a + 1 = b
        BY <3>2
      <4> QED
        BY <4>1, FS_Interval
    <3> QED
      BY <3>1, <3>3 DEF Covered
  <2>3. ASSUME NEW o \in S
        PROVE  one[o] = 1
    <3>1. PICK i \in I : o \in Covered(runs[i])
      BY <1>1
    <3>2. {j \in I : <<j, o>> \in P} = {i}
      BY <1>2, <3>1
    <3> QED
      BY <3>2, FS_Singleton
  <2>4. [i \in I |-> Cardinality({o \in S : <<i, o>> \in P})] = c
    BY <2>2
  <2> DEFINE by == [i \in I |-> Cardinality({o \in S : <<i, o>> \in P})]
  <2>5. SumOn(c, I) = SumOn(one, S)
    <3>1. by = [i \in I |-> Cardinality({o \in S : <<i, o>> \in P})]
          /\ one = [o \in S |-> Cardinality({i \in I : <<i, o>> \in P})]
      OBVIOUS
    <3>2. by = c
      BY <2>4
    <3> HIDE DEF P, by, one, c, I
    <3>3. SumOn(by, I) = SumOn(one, S)
      BY <1>7, <2>1, <3>1, CountTwice
    <3> QED
      BY <3>2, <3>3
  <2>6. SumOn(one, S) = Cardinality(S)
    <3> HIDE DEF one
    <3> QED
      BY <1>7, <2>3, SumOfOnes
  <2> QED
    BY <2>5, <2>6
<1>9. Len(runs) <= Cardinality(S)
  <2> DEFINE ones == [i \in I |-> 1]
  <2>1. Weights(c, I) /\ Weights(ones, I) /\ \A i \in I : ones[i] <= c[i]
    <3>1. \A i \in I : runs[i][2] \in Nat /\ runs[i][2] # 0
      BY <1>1
    <3> QED
      BY <3>1 DEF Weights
  <2>2. \A i \in I : ones[i] = 1
    OBVIOUS
  <2> HIDE DEF ones, c, I
  <2> QED
    BY <1>7, <1>8, <2>1, <2>2, SumOfOnes, SumsCompare
<1>10. ASSUME runs # <<>> PROVE S # {}
  <2>1. 1 \in I
    BY <1>1, <1>10
  <2>2. runs[1][1] \in Covered(runs[1])
    BY <1>1, <2>1 DEF Covered
  <2> QED
    BY <1>1, <2>1, <2>2
<1> QED
  BY <1>6, <1>7, <1>8, <1>9, <1>10 DEF S

\* The runs of a set of ordinals are such runs, and cover it.
LEMMA DerivedRunsHold ==
    ASSUME NEW n \in Nat, NEW S \in SUBSET (1 .. n)
    PROVE  /\ RunsHold(Runs(S), n) /\ Covering(Runs(S)) = S
           /\ S # {} => Runs(S) # <<>>
<1> DEFINE runs == Runs(S)
           Q == RunSet(S)
<1>1. /\ runs \in Seq(Q) /\ Image(runs) = Q /\ IsChain(runs, RunPairs(Q))
  BY RunList DEF IsList
<1>2. \A r \in Q : IsRun(r, S)
  BY RunSetIs
<1> HIDE DEF runs, Q
<1>3. /\ DOMAIN runs = 1 .. Len(runs) /\ Len(runs) \in Nat
      /\ \A i \in DOMAIN runs : runs[i] \in Q
      /\ runs = [i \in 1 .. Len(runs) |-> runs[i]]
  BY <1>1, PlacesOf
<1>4. runs \in Seq(RunType)
  <2>1. runs \in [1 .. Len(runs) -> RunType]
    BY <1>2, <1>3 DEF IsRun
  <2> QED
    BY <1>3, <2>1, SeqDef
<1>5. ASSUME NEW i \in DOMAIN runs
      PROVE  runs[i][2] # 0 /\ runs[i][1] + runs[i][2] - 1 <= n
  <2>1. IsRun(runs[i], S)
    BY <1>2, <1>3
  <2> DEFINE a == runs[i][1]
             b == runs[i][2]
  <2>2. a \in Nat /\ b \in Nat /\ b # 0 /\ a .. a + b - 1 \subseteq S
    BY <2>1 DEF IsRun, RunType, Covered
  <2> HIDE DEF a, b
  <2>3. a + b - 1 \in a .. a + b - 1
    BY <2>2
  <2>4. b # 0 /\ a + b - 1 <= n
    BY <2>2, <2>3
  <2> QED
    BY <2>4 DEF a, b
<1>6. Increasing(runs, Separate)
  <2> SUFFICES ASSUME NEW i \in 1 .. Len(runs) - 1
               PROVE  Separate(runs[i], runs[i + 1])
    BY DEF Increasing
  <2>1. i \in DOMAIN runs /\ i + 1 \in DOMAIN runs
    BY <1>3
  <2>2. IsRun(runs[i], S) /\ IsRun(runs[i + 1], S)
    BY <1>2, <1>3, <2>1
  <2>3. runs[i][1] < runs[i + 1][1]
    BY <1>1 DEF IsChain, RunPairs, RunLess
  <2> QED
    BY <2>2, <2>3, RunsDoNotTouch
<1>7. RunsHold(runs, n)
  BY <1>4, <1>5, <1>6 DEF RunsHold
<1>8. Covering(runs) = S
  <2>1. ASSUME NEW x \in Covering(runs) PROVE x \in S
    <3>1. PICK r \in Q : x \in Covered(r)
      BY <1>1, <2>1 DEF Covering
    <3> QED
      BY <1>2, <3>1 DEF IsRun
  <2>2. ASSUME NEW x \in S PROVE x \in Covering(runs)
    <3> DEFINE first == {o \in 1 .. x : o .. x \subseteq S}
    <3>0. x \in Nat /\ x # 0 /\ x <= n
      OBVIOUS
    <3>1. x \in first
      BY <3>0
    <3>2. PICK o \in first : \A m \in first : o <= m
      <4>1. first \in SUBSET Nat /\ first # {}
        BY <3>0, <3>1
      <4> HIDE DEF first
      <4> QED
        BY <4>1, SmallestNumber
    <3>3. o \in Nat /\ o # 0 /\ o <= x /\ o .. x \subseteq S /\ o \in S
      BY <3>0, <3>2
    <3>4. o - 1 \notin S
      <4> SUFFICES ASSUME o - 1 \in S PROVE FALSE
        OBVIOUS
      <4>1. o - 1 \in 1 .. x /\ o - 1 .. x \subseteq S
        BY <3>0, <3>3
      <4> QED
        BY <3>2, <3>3, <4>1
    <3>5. PICK e \in S : e >= x /\ e + 1 \notin S /\ x .. e \subseteq S
      BY RunEnds
    <3> DEFINE r == <<o, e - o + 1>>
    <3>6. o .. e \subseteq S /\ e \in Nat
      BY <3>0, <3>3, <3>5
    <3>7. IsRun(r, S) /\ x \in Covered(r)
      <4>1. r[1] = o /\ r[2] = e - o + 1
        OBVIOUS
      <4>2. o + (e - o + 1) = e + 1 /\ o + (e - o + 1) - 1 = e /\ e >= o
        BY <3>0, <3>3, <3>5, <3>6
      <4>3. r \in RunType /\ r[2] # 0
        BY <3>3, <3>6, <4>2 DEF RunType
      <4> HIDE DEF r
      <4> QED
        BY <3>0, <3>3, <3>4, <3>5, <3>6, <4>1, <4>2, <4>3 DEF IsRun, Covered
    <3>8. r \in Q
      BY <3>7, RunSetIs DEF Q
    <3> HIDE DEF r
    <3> QED
      BY <1>1, <3>7, <3>8 DEF Covering
  <2> QED
    BY <2>1, <2>2
<1>9. ASSUME S # {} PROVE runs # <<>>
  <2>1. Q # {}
    BY <1>1, <1>8, <1>9 DEF Covering
  <2> QED
    BY <1>1, <2>1 DEF Image
<1> QED
  BY <1>7, <1>8, <1>9 DEF runs

\* A query as it is read.
QueryType == [key : KeyType, count : Nat, runs : Seq(RunType)]

\* A query list is read if its runs are those of some ordinals of records, and
\* its count is theirs.
LEMMA RunsAreRead ==
    ASSUME NEW query, query.runs \in Seq(RunType), query.count \in Nat,
           NEW S, NEW records \in Seq(S)
    PROVE  RunsRead(query, records) <=>
             /\ RunOrdinals(query) \in SUBSET DOMAIN records
             /\ RunOrdinals(query) # {}
             /\ query.count = Cardinality(RunOrdinals(query))
             /\ query.runs = Runs(RunOrdinals(query))
<1> DEFINE n == Len(records)
           runs == query.runs
           O == RunOrdinals(query)
<1>1. n \in Nat /\ DOMAIN records = 1 .. n
  BY PlacesOf
<1>2. O = Covering(runs)
  BY DEF RunOrdinals, Covering, Covered
<1>3. RunsRead(query, records) <=>
        /\ query.count # 0 /\ query.count <= n
        /\ runs # <<>> /\ Len(runs) <= query.count
        /\ RunsHold(runs, n)
        /\ SumOn([i \in DOMAIN runs |-> runs[i][2]], DOMAIN runs) = query.count
  BY DEF RunsRead, RunsHold, Total, SumOn
<1> HIDE DEF n, O
<1>4. ASSUME RunsRead(query, records)
      PROVE  /\ O \in SUBSET DOMAIN records /\ O # {}
             /\ query.count = Cardinality(O) /\ runs = Runs(O)
  BY <1>1, <1>2, <1>3, <1>4, RunsThatHold, RunIs
<1>5. ASSUME O \in SUBSET DOMAIN records, O # {}, query.count = Cardinality(O),
             runs = Runs(O)
      PROVE  RunsRead(query, records)
  <2>1. RunsHold(runs, n) /\ runs # <<>>
    BY <1>1, <1>5, DerivedRunsHold
  <2>2. /\ SumOn([i \in DOMAIN runs |-> runs[i][2]], DOMAIN runs) = query.count
        /\ Len(runs) <= query.count /\ IsFiniteSet(O)
    BY <1>1, <1>2, <1>5, <2>1, RunsThatHold
  <2>3. IsFiniteSet(1 .. n) /\ Cardinality(1 .. n) = n
    BY <1>1, NumbersUpTo
  <2>4. Cardinality(O) <= n /\ Cardinality(O) # 0
    BY <1>1, <1>5, <2>2, <2>3, FS_Subset, FS_EmptySet
  <2> QED
    BY <1>3, <1>5, <2>1, <2>2, <2>4
<1> QED
  BY <1>4, <1>5 DEF O

-----------------------------------------------------------------------------
(* Queries *)

\* The keys of a record are three texts each.
LEMMA KeysAreTexts ==
    ASSUME NEW r \in Records
    PROVE  Keys(r) \in SUBSET KeyType
<1>1. /\ r.name \in Strings /\ r.kind \in Strings /\ r.language \in Strings
      /\ r.source \in Strings /\ r.evidence \in Strings
      /\ r.terms \in Seq(Strings)
  BY DEF Records
<1>2. Image(r.terms) \in SUBSET Strings
  BY <1>1, PlacesOf
<1>3. /\ {"", "s", "q", "t", "f", "kind", "language", "source", "evidence",
          "operation", "symbols", "docs", "reference"} \subseteq Strings
      /\ \A t \in Strings : Lower[t] \in Strings /\ ShortName[t] \in Strings
                            /\ Tokens[t] \in SUBSET Strings
  BY TextsAssumption DEF KeyTexts
<1>0. \A a, b, c \in Strings : <<a, b, c>> \in KeyType
  BY DEF KeyType
<1>4. ASSUME NEW names \in SUBSET Strings
      PROVE  ShortKeys(names) \subseteq KeyType
  <2> SUFFICES ASSUME NEW k \in ShortKeys(names) PROVE k \in KeyType
    OBVIOUS
  <2>1. PICK n \in names : k = <<"s", "", ShortName[n]>>
    BY DEF ShortKeys
  <2>2. ShortName[n] \in Strings /\ "s" \in Strings /\ "" \in Strings
    BY <1>3
  <2> QED
    BY <1>0, <2>1, <2>2
<1>5. ReferenceKeys(r) \subseteq KeyType
  <2>1. ShortKeys(Image(r.terms)) \subseteq KeyType
    BY <1>2, <1>4
  <2>2. {<<"q", "", Lower[t]>> : t \in {u \in Image(r.terms) : Lower[u] \in Dotted}}
          \subseteq KeyType
    <3> SUFFICES ASSUME NEW t \in Image(r.terms)
                 PROVE  <<"q", "", Lower[t]>> \in KeyType
      OBVIOUS
    <3>1. Lower[t] \in Strings /\ "q" \in Strings /\ "" \in Strings
      BY <1>2, <1>3
    <3> QED
      BY <1>0, <3>1
  <2>3. <<"f", "kind", "reference">> \in KeyType
    BY <1>0, <1>3
  <2> QED
    BY <2>1, <2>2, <2>3 DEF ReferenceKeys
<1>6. FacetKeys(r) \subseteq KeyType
  <2>1. /\ <<"f", "language", r.language>> \in KeyType
        /\ <<"f", "kind", r.kind>> \in KeyType
        /\ <<"f", "source", r.source>> \in KeyType
        /\ <<"f", "evidence", r.evidence>> \in KeyType
        /\ <<"f", "operation", "symbols">> \in KeyType
        /\ <<"f", "operation", "docs">> \in KeyType
    BY <1>0, <1>1, <1>3
  <2> QED
    BY <2>1 DEF FacetKeys
<1>7. {<<"q", "", Lower[r.name]>>} \subseteq KeyType
  <2>1. Lower[r.name] \in Strings /\ "q" \in Strings /\ "" \in Strings
    BY <1>1, <1>3
  <2> QED
    BY <1>0, <2>1
<1>8. ShortKeys({r.name}) \subseteq KeyType
  BY <1>1, <1>4
<1>9. {<<"t", "", Lower[t]>> :
          t \in {r.name} \cup Tokens[r.name] \cup Image(r.terms)} \subseteq KeyType
  <2>1. {r.name} \cup Tokens[r.name] \cup Image(r.terms) \subseteq Strings
    BY <1>1, <1>2, <1>3
  <2> SUFFICES ASSUME NEW t \in Strings
               PROVE  <<"t", "", Lower[t]>> \in KeyType
    BY <2>1
  <2>2. Lower[t] \in Strings /\ "t" \in Strings /\ "" \in Strings
    BY <1>3
  <2> QED
    BY <1>0, <2>2
<1> QED
  BY <1>5, <1>6, <1>7, <1>8, <1>9 DEF Keys

\* So are those of all records, and they are finitely many.
LEMMA AllKeysAreTexts ==
    ASSUME NEW records \in Seq(Records)
    PROVE  /\ AllKeys(records) \in SUBSET KeyType
           /\ IsFiniteSet(AllKeys(records))
           /\ \A o \in DOMAIN records :
                 /\ KeysOf(records)[o] = Keys(records[o])
                 /\ Keys(records[o]) \in SUBSET AllKeys(records)
                 /\ IsFiniteSet(Keys(records[o]))
<1>1. \A o \in DOMAIN records : Keys(records[o]) \in SUBSET KeyType
  <2> TAKE o \in DOMAIN records
  <2>1. records[o] \in Records
    BY PlacesOf
  <2> QED
    BY <2>1, KeysAreTexts
<1>2. AllKeys(records) \in SUBSET KeyType
  BY <1>1 DEF AllKeys
<1>3. IsFiniteSet(AllKeys(records))
  BY <1>2, KeyList DEF IsList
<1>4. \A o \in DOMAIN records : Keys(records[o]) \in SUBSET AllKeys(records)
  BY DEF AllKeys
<1> QED
  BY <1>2, <1>3, <1>4, FS_Subset DEF KeysOf

\* The records that are found by a key.
KeyHolders(records, k) == Having(DOMAIN records, KeysOf(records), k)

\* What both readers require of the list of queries alone: keys in order, and
\* runs that are those of some ordinals.
QueriesHold(queries, records) ==
    /\ queries \in Seq(QueryType) /\ records \in Seq(Records)
    /\ Increasing(queries, QueryLess)
    /\ \A i \in DOMAIN queries : RunsRead(queries[i], records)

\* The keys of such a list are in order, and each query is made of its ordinals.
LEMMA QueryKeys ==
    ASSUME NEW queries, NEW records, QueriesHold(queries, records)
    PROVE  LET keys == [i \in DOMAIN queries |-> queries[i].key]
           IN  /\ keys \in Seq(KeyType) /\ Len(keys) = Len(queries)
               /\ IsChain(keys, KeyPairs(KeyType))
               /\ \A i, j \in DOMAIN queries : keys[i] = keys[j] => i = j
               /\ \A i \in DOMAIN queries :
                     LET O == RunOrdinals(queries[i])
                     IN  /\ O \in SUBSET DOMAIN records /\ O # {}
                         /\ queries[i] = [key |-> keys[i],
                                          count |-> Cardinality(O),
                                          runs |-> Runs(O)]
<1> DEFINE keys == [i \in DOMAIN queries |-> queries[i].key]
           n == Len(queries)
<1>1. n \in Nat /\ DOMAIN queries = 1 .. n
      /\ \A i \in DOMAIN queries : queries[i] \in QueryType
  BY PlacesOf DEF QueriesHold
<1>2. keys \in Seq(KeyType) /\ Len(keys) = n
  <2>1. keys \in [1 .. n -> KeyType]
    BY <1>1 DEF QueryType
  <2> HIDE DEF n, keys
  <2> QED
    BY <1>1, <2>1, SeqDef
<1>3. Increasing(keys, KeyLess)
  <2>1. ASSUME NEW i \in 1 .. n - 1
        PROVE  KeyLess(keys[i], keys[i + 1])
    <3>1. i \in DOMAIN queries /\ i + 1 \in DOMAIN queries
      BY <1>1
    <3>2. KeyLess(queries[i].key, queries[i + 1].key)
      BY <2>1 DEF QueriesHold, Increasing, QueryLess
    <3> QED
      BY <3>1, <3>2
  <2> QED
    BY <1>2, <2>1 DEF Increasing
<1>4. IsOrder(KeyPairs(KeyType), KeyType) /\ IsChain(keys, KeyPairs(KeyType))
  <2> HIDE DEF keys
  <2> QED
    BY <1>2, <1>3, KeyList
<1>5. \A i, j \in 1 .. Len(keys) : keys[i] = keys[j] => i = j
  <2> HIDE DEF keys
  <2> QED
    BY <1>2, <1>4, ChainIsCounted
<1>6. ASSUME NEW i \in DOMAIN queries
      PROVE  LET O == RunOrdinals(queries[i])
             IN  /\ O \in SUBSET DOMAIN records /\ O # {}
                 /\ queries[i] = [key |-> keys[i], count |-> Cardinality(O),
                                  runs |-> Runs(O)]
  <2> DEFINE O == RunOrdinals(queries[i])
  <2>1. /\ queries[i] \in QueryType /\ RunsRead(queries[i], records)
        /\ records \in Seq(Records)
        /\ queries[i].runs \in Seq(RunType) /\ queries[i].count \in Nat
    BY <1>1 DEF QueriesHold, QueryType
  <2>2. /\ O \in SUBSET DOMAIN records /\ O # {}
        /\ queries[i].count = Cardinality(O) /\ queries[i].runs = Runs(O)
    BY <2>1, RunsAreRead
  <2>3. queries[i].key = keys[i]
    OBVIOUS
  <2> HIDE DEF O, keys
  <2>4. queries[i] = [key |-> keys[i], count |-> Cardinality(O), runs |-> Runs(O)]
    BY <2>1, <2>2, <2>3 DEF QueryType
  <2> QED
    BY <2>2, <2>4 DEF O
<1> QED
  BY <1>1, <1>2, <1>4, <1>5, <1>6

\* Such a list is the one derived when it has all keys and finds for each the
\* records that hold it.
LEMMA QueriesThatFind ==
    ASSUME NEW queries, NEW records, QueriesHold(queries, records)
    PROVE  queries = Queries(records) <=>
             /\ {queries[i].key : i \in DOMAIN queries} = AllKeys(records)
             /\ \A i \in DOMAIN queries :
                   RunOrdinals(queries[i]) = KeyHolders(records, queries[i].key)
<1> DEFINE keys == [i \in DOMAIN queries |-> queries[i].key]
           U == AllKeys(records)
           S == DOMAIN records
           D == KeysOf(records)
           H(k) == Having(S, D, k)
           list == Sorted(U, KeyLess)
<1>0. records \in Seq(Records) /\ queries \in Seq(QueryType)
  BY DEF QueriesHold
<1>1. /\ keys \in Seq(KeyType) /\ Len(keys) = Len(queries)
      /\ IsChain(keys, KeyPairs(KeyType))
      /\ \A i \in DOMAIN queries :
            LET O == RunOrdinals(queries[i])
            IN  queries[i] = [key |-> keys[i], count |-> Cardinality(O),
                              runs |-> Runs(O)]
  BY QueryKeys
<1>2. IsList(list, U, KeyPairs(U))
  <2>1. U \in SUBSET KeyType
    BY <1>0, AllKeysAreTexts
  <2> HIDE DEF U
  <2> QED
    BY <2>1, KeyList
<1>3. Queries(records)
        = [i \in DOMAIN list |->
              [key |-> list[i], count |-> Cardinality(H(list[i])),
               runs |-> Runs(H(list[i]))]]
  BY DEF Queries, Having
<1>4. ASSUME {queries[i].key : i \in DOMAIN queries} = U,
             \A i \in DOMAIN queries :
                RunOrdinals(queries[i]) = KeyHolders(records, queries[i].key)
      PROVE  queries = Queries(records)
  <2>1. Image(keys) = U
    BY <1>4 DEF Image
  <2>2. keys \in Seq(U)
    BY <1>1, <2>1, PlacesOf
  <2>3. IsChain(keys, KeyPairs(U))
    <3>1. \A i \in 1 .. Len(keys) - 1 : keys[i] \in U /\ keys[i + 1] \in U
      BY <2>2
    <3> HIDE DEF keys, U
    <3> QED
      BY <1>1, <3>1 DEF IsChain, KeyPairs
  <2>4. keys = list
    <3> HIDE DEF keys, list, U
    <3> QED
      BY <1>2, <2>1, <2>2, <2>3 DEF IsList
  <2>5. \A i \in DOMAIN queries :
           queries[i] = [key |-> list[i], count |-> Cardinality(H(list[i])),
                         runs |-> Runs(H(list[i]))]
    <3> TAKE i \in DOMAIN queries
    <3>1. RunOrdinals(queries[i]) = H(list[i])
      <4>1. queries[i].key = list[i]
        BY <2>4
      <4> HIDE DEF list
      <4> QED
        BY <1>4, <4>1 DEF KeyHolders
    <3>2. keys[i] = list[i]
      BY <2>4
    <3> HIDE DEF list, H, keys
    <3> QED
      BY <1>1, <3>1, <3>2
  <2>6. DOMAIN list = DOMAIN queries
    <3>1. DOMAIN keys = DOMAIN queries
      OBVIOUS
    <3> HIDE DEF keys, list
    <3> QED
      BY <2>4, <3>1
  <2>7. queries = [i \in DOMAIN queries |-> queries[i]]
    BY <1>0, PlacesOf
  <2> HIDE DEF list, H
  <2> QED
    BY <1>3, <2>5, <2>6, <2>7
<1>5. ASSUME queries = Queries(records)
      PROVE  /\ {queries[i].key : i \in DOMAIN queries} = U
             /\ \A i \in DOMAIN queries :
                   RunOrdinals(queries[i]) = KeyHolders(records, queries[i].key)
  <2>1. DOMAIN queries = DOMAIN list
    <3> HIDE DEF list, H
    <3> QED
      BY <1>3, <1>5
  <2>2. \A i \in DOMAIN queries :
           queries[i].key = list[i] /\ queries[i].runs = Runs(H(list[i]))
    <3> HIDE DEF list, H
    <3> QED
      BY <1>3, <1>5, <2>1
  <2>3. Image(list) = U
    BY <1>2 DEF IsList
  <2>4. {queries[i].key : i \in DOMAIN queries} = U
    <3> HIDE DEF list
    <3> QED
      BY <2>1, <2>2, <2>3 DEF Image
  <2>5. ASSUME NEW i \in DOMAIN queries
        PROVE  RunOrdinals(queries[i]) = KeyHolders(records, queries[i].key)
    <3>1. RunOrdinals(queries[i]) = Covering(Runs(H(list[i])))
      BY <2>2 DEF RunOrdinals, Covering, Covered
    <3>2. H(list[i]) \in SUBSET (1 .. Len(records)) /\ Len(records) \in Nat
      BY <1>0, PlacesOf DEF Having
    <3>3. Covering(Runs(H(list[i]))) = H(list[i])
      <4> HIDE DEF H, list
      <4> QED
        BY <3>2, DerivedRunsHold
    <3> QED
      BY <2>2, <3>1, <3>3 DEF KeyHolders
  <2> QED
    BY <2>4, <2>5
<1> QED
  BY <1>4, <1>5

\* The queries that are derived are such a list.
LEMMA DerivedQueriesHold ==
    ASSUME NEW records \in Seq(Records)
    PROVE  QueriesHold(Queries(records), records)
<1> DEFINE U == AllKeys(records)
           n == Len(records)
           H(k) == KeyHolders(records, k)
           list == Sorted(U, KeyLess)
           queries == Queries(records)
<1>1. IsList(list, U, KeyPairs(U)) /\ U \in SUBSET KeyType
      /\ Increasing(list, KeyLess)
  <2>1. U \in SUBSET KeyType
    BY AllKeysAreTexts
  <2>2. IsList(list, U, KeyPairs(U))
    <3> HIDE DEF U
    <3> QED
      BY <2>1, KeyList
  <2>3. list \in Seq(U) /\ IsChain(list, KeyPairs(U))
    BY <2>2 DEF IsList
  <2> HIDE DEF list, U
  <2> QED
    BY <2>1, <2>2, <2>3, KeyList
<1>2. /\ list \in Seq(U) /\ Image(list) = U
      /\ DOMAIN list = 1 .. Len(list) /\ Len(list) \in Nat
  <2>1. list \in Seq(U) /\ Image(list) = U
    BY <1>1 DEF IsList
  <2> HIDE DEF list, U
  <2> QED
    BY <2>1, PlacesOf
<1>3. queries = [i \in DOMAIN list |->
                    [key |-> list[i], count |-> Cardinality(H(list[i])),
                     runs |-> Runs(H(list[i]))]]
  BY DEF Queries, Having, KeyHolders
<1>4. n \in Nat /\ DOMAIN records = 1 .. n
      /\ IsFiniteSet(1 .. n)
  BY PlacesOf
<1>5. ASSUME NEW k \in U
      PROVE  /\ H(k) \in SUBSET (1 .. n) /\ H(k) # {}
             /\ Cardinality(H(k)) \in Nat
             /\ Runs(H(k)) \in Seq(RunType) /\ Covering(Runs(H(k))) = H(k)
  <2>1. H(k) \in SUBSET (1 .. n)
    BY <1>4 DEF KeyHolders, Having
  <2>2. H(k) # {}
    BY DEF KeyHolders, Having, AllKeys, KeysOf
  <2> HIDE DEF H, n
  <2> QED
    BY <1>4, <2>1, <2>2, FS_Subset, FS_CardinalityType, DerivedRunsHold
      DEF RunsHold
<1> HIDE DEF U, list, H, n
<1>6. \A i \in DOMAIN list : list[i] \in U
  BY <1>2
<1>7. queries \in Seq(QueryType) /\ Len(queries) = Len(list)
      /\ DOMAIN queries = DOMAIN list
  <2>1. queries \in [1 .. Len(list) -> QueryType]
    BY <1>1, <1>2, <1>3, <1>5, <1>6 DEF QueryType
  <2> HIDE DEF queries
  <2> QED
    BY <1>2, <2>1, SeqDef
<1>8. \A i \in DOMAIN queries :
         /\ queries[i].key = list[i]
         /\ queries[i].count = Cardinality(H(list[i]))
         /\ queries[i].runs = Runs(H(list[i]))
  BY <1>3, <1>7
<1> HIDE DEF queries
<1>9. Increasing(queries, QueryLess)
  <2>1. ASSUME NEW i \in 1 .. Len(queries) - 1
        PROVE  QueryLess(queries[i], queries[i + 1])
    <3>1. i \in DOMAIN queries /\ i + 1 \in DOMAIN queries
      BY <1>2, <1>7
    <3>2. KeyLess(list[i], list[i + 1])
      BY <1>1, <1>7 DEF Increasing
    <3> QED
      BY <1>8, <3>1, <3>2 DEF QueryLess
  <2> QED
    BY <2>1 DEF Increasing
<1>10. ASSUME NEW i \in DOMAIN queries
       PROVE  RunsRead(queries[i], records)
  <2> DEFINE q == queries[i]
             h == H(list[i])
  <2>1. list[i] \in U
    BY <1>6, <1>7
  <2>2. /\ q.runs \in Seq(RunType) /\ q.count \in Nat
        /\ q.count = Cardinality(h) /\ q.runs = Runs(h)
        /\ h \in SUBSET DOMAIN records /\ h # {} /\ Covering(q.runs) = h
    BY <1>4, <1>5, <1>8, <2>1
  <2>3. RunOrdinals(q) = h
    BY <2>2 DEF RunOrdinals, Covering, Covered
  <2> HIDE DEF q, h
  <2>4. RunsRead(q, records)
    BY <2>2, <2>3, RunsAreRead
  <2> QED
    BY <2>4 DEF q
<1> QED
  BY <1>7, <1>9, <1>10 DEF QueriesHold, queries

\* A validator that counts finds the same lists as one that derives.
LEMMA QueriesThatCount ==
    ASSUME NEW queries, NEW records, QueriesHold(queries, records)
    PROVE  ((\A i \in DOMAIN queries : \A o \in RunOrdinals(queries[i]) :
                queries[i].key \in KeysOf(records)[o])
            /\ SumOn([i \in DOMAIN queries |-> queries[i].count], DOMAIN queries)
                 = SumOn([o \in DOMAIN records |-> Cardinality(KeysOf(records)[o])],
                         DOMAIN records))
             <=> queries = Queries(records)
<1> DEFINE n == Len(queries)
           key == [i \in DOMAIN queries |-> queries[i].key]
           found == [i \in DOMAIN queries |-> RunOrdinals(queries[i])]
           S == DOMAIN records
           U == AllKeys(records)
           D == KeysOf(records)
<1>1. n \in Nat /\ DOMAIN queries = 1 .. n
  BY PlacesOf DEF QueriesHold
<1>2. /\ \A i, j \in DOMAIN queries : key[i] = key[j] => i = j
      /\ \A i \in DOMAIN queries :
            /\ found[i] \in SUBSET S /\ found[i] # {}
            /\ queries[i].count = Cardinality(found[i])
  <2>1. \A i \in DOMAIN queries :
           LET O == RunOrdinals(queries[i])
           IN  /\ O \in SUBSET DOMAIN records /\ O # {}
               /\ queries[i].count = Cardinality(O)
    <3> TAKE i \in DOMAIN queries
    <3>1. LET O == RunOrdinals(queries[i])
          IN  /\ O \in SUBSET DOMAIN records /\ O # {}
              /\ queries[i] = [key |-> key[i], count |-> Cardinality(O),
                               runs |-> Runs(O)]
      BY QueryKeys
    <3> QED
      BY <3>1
  <2>2. \A i, j \in DOMAIN queries : key[i] = key[j] => i = j
    BY QueryKeys
  <2> QED
    BY <2>1, <2>2
<1>0. records \in Seq(Records)
  BY DEF QueriesHold
<1>3. /\ [i \in 1 .. n |-> Cardinality(found[i])]
           = [i \in DOMAIN queries |-> queries[i].count]
      /\ {key[i] : i \in 1 .. n} = {queries[i].key : i \in DOMAIN queries}
  BY <1>1, <1>2
<1>4. ASSUME \A i \in DOMAIN queries : found[i] \subseteq Having(S, D, key[i])
      PROVE  SumOn([i \in 1 .. n |-> Cardinality(found[i])], 1 .. n)
                = SumOn([x \in S |-> Cardinality(D[x])], S)
             <=> /\ {key[i] : i \in 1 .. n} = U
                 /\ \A i \in 1 .. n : found[i] = Having(S, D, key[i])
  <2>1. IsFiniteSet(S) /\ IsFiniteSet(U)
    BY <1>0, PlacesOf, AllKeysAreTexts
  <2>2. /\ \A x \in S : D[x] \subseteq U
        /\ \A y \in U : \E x \in S : y \in D[x]
    BY DEF AllKeys, KeysOf
  <2>3. Finds(n, key, found, S, U, D)
    BY <1>1, <1>2, <1>4, <2>1, <2>2 DEF Finds
  <2> HIDE DEF n, key, found, S, U, D
  <2> QED
    BY <2>3, AllAreFound
<1>5. (\A i \in DOMAIN queries : \A o \in RunOrdinals(queries[i]) :
          queries[i].key \in KeysOf(records)[o])
        <=> \A i \in DOMAIN queries : found[i] \subseteq Having(S, D, key[i])
  <2>1. \A i \in DOMAIN queries :
           (\A o \in RunOrdinals(queries[i]) : queries[i].key \in D[o])
              <=> found[i] \subseteq Having(S, D, key[i])
    BY <1>2 DEF Having
  <2> QED
    BY <2>1
<1>6. queries = Queries(records) <=>
        /\ {key[i] : i \in 1 .. n} = U
        /\ \A i \in 1 .. n : found[i] = Having(S, D, key[i])
  <2>1. \A i \in DOMAIN queries :
           RunOrdinals(queries[i]) = KeyHolders(records, queries[i].key)
              <=> found[i] = Having(S, D, key[i])
    BY DEF KeyHolders
  <2> QED
    BY <1>1, <1>3, <2>1, QueriesThatFind
<1> DEFINE sum == SumOn([i \in DOMAIN queries |-> queries[i].count], DOMAIN queries)
           all == SumOn([o \in S |-> Cardinality(D[o])], S)
<1>7. (\A i \in DOMAIN queries : found[i] \subseteq Having(S, D, key[i])) =>
        (sum = all <=> queries = Queries(records))
  BY <1>1, <1>3, <1>4, <1>6
<1>8. queries = Queries(records) =>
        \A i \in DOMAIN queries : found[i] \subseteq Having(S, D, key[i])
  BY <1>1, <1>6
<1> QED
  BY <1>5, <1>7, <1>8

\* The queries that are read are those derived, and the validator reads the
\* same ones.
LEMMA QueriesAreRead ==
    ASSUME NEW file, file.records \in Seq(Records),
           file.queries \in Seq(QueryType)
    PROVE  /\ QueriesRead(file) <=> file.queries = Queries(file.records)
           /\ RawQueriesRead(file) <=> file.queries = Queries(file.records)
<1> DEFINE queries == file.queries
           records == file.records
           U == AllKeys(records)
           D == KeysOf(records)
           keys == [i \in DOMAIN queries |-> queries[i].key]
<1>1. DOMAIN D = DOMAIN records
  BY DEF KeysOf
<1>2. queries = Queries(records) => QueriesHold(queries, records)
  BY DerivedQueriesHold
<1>3. RawQueriesRead(file) <=>
        /\ QueriesHold(queries, records)
        /\ \A i \in DOMAIN queries : \A o \in RunOrdinals(queries[i]) :
              queries[i].key \in D[o]
        /\ SumOn([i \in DOMAIN queries |-> queries[i].count], DOMAIN queries)
             = SumOn([o \in DOMAIN records |-> Cardinality(D[o])], DOMAIN records)
  BY <1>1 DEF RawQueriesRead, QueriesHold, Total, SumOn
<1>4. QueriesRead(file) <=>
        /\ QueriesHold(queries, records)
        /\ Len(queries) = Cardinality(U)
        /\ \A i \in DOMAIN queries :
              /\ queries[i].key \in U
              /\ RunOrdinals(queries[i]) = KeyHolders(records, queries[i].key)
  BY <1>1 DEF QueriesRead, QueriesHold, KeyHolders, Having
<1>5. ASSUME QueriesHold(queries, records)
      PROVE  (Len(queries) = Cardinality(U)
              /\ \A i \in DOMAIN queries : queries[i].key \in U)
               <=> {queries[i].key : i \in DOMAIN queries} = U
  <2>1. /\ keys \in Seq(KeyType) /\ Len(keys) = Len(queries)
        /\ IsChain(keys, KeyPairs(KeyType))
    BY <1>5, QueryKeys
  <2>2. Image(keys) = {queries[i].key : i \in DOMAIN queries}
    BY DEF Image
  <2> HIDE DEF keys
  <2>3. IsFiniteSet(Image(keys)) /\ Cardinality(Image(keys)) = Len(keys)
    BY <2>1, ChainIsCounted, KeyList
  <2>4. IsFiniteSet(U)
    BY AllKeysAreTexts
  <2>5. ASSUME Image(keys) \subseteq U, Cardinality(Image(keys)) = Cardinality(U)
        PROVE  Image(keys) = U
    <3> HIDE DEF U
    <3> QED
      BY <2>4, <2>5, CountGrows
  <2> QED
    BY <2>1, <2>2, <2>3, <2>5
<1>6. RawQueriesRead(file) <=> queries = Queries(records)
  BY <1>2, <1>3, QueriesThatCount
<1>7. QueriesRead(file) <=> queries = Queries(records)
  BY <1>2, <1>4, <1>5, QueriesThatFind
<1> QED
  BY <1>6, <1>7

-----------------------------------------------------------------------------
(* The path order and the map *)

\* The validator's copy of the orders is the same.
LEMMA GroupsAgree ==
    ASSUME NEW records
    PROVE  MapGroups(records) = RawMapGroups(records)
  BY DEF MapGroups, RawMapGroups, Groups, PathOrder, RawPathOrder, Preference,
         RawPreference, MapKindTier, RawKindTier, Earlier

\* The ordinals in path order.
PathPairs(records) == Earlier(DOMAIN records, records, PathOrder)

\* The path order leaves no two records in one place, as it ends with their
\* identities.
LEMMA PathOrderIs ==
    ASSUME NEW records, Distinct(records)
    PROVE  /\ IsOrder(PathPairs(records), DOMAIN records)
           /\ IsList(ByPath(records), DOMAIN records, PathPairs(records))
<1> DEFINE S == DOMAIN records
           R == PathPairs(records)
           f == [x \in S |-> PathOrder(records[x])]
<1>1. \A x \in S : records[x] \in Records
  BY PlacesOf DEF Distinct
<1>2. ASSUME NEW x \in S
      PROVE  f[x] \in [1 .. 6 -> Nat] /\ f[x][6] = Rank(records[x].identity)
  <2>1. /\ records[x].path \in Strings /\ records[x].start \in Nat
        /\ records[x].kind \in Strings /\ records[x].name \in Strings
        /\ records[x].identity \in Strings
    BY <1>1 DEF Records
  <2>2. Lower[records[x].path] \in Strings /\ Lower[records[x].name] \in Strings
    BY <2>1, TextsAssumption
  <2> DEFINE a == Rank(Lower[records[x].path])
             b == Rank(records[x].path)
             c == records[x].start
             d == Rank(records[x].kind)
             e == Rank(Lower[records[x].name])
             g == Rank(records[x].identity)
  <2>3. a \in Nat /\ b \in Nat /\ c \in Nat /\ d \in Nat /\ e \in Nat /\ g \in Nat
    BY <2>1, <2>2, RankIsNumber
  <2>4. f[x] = <<a, b, c, d, e, g>>
    BY DEF PathOrder
  <2> HIDE DEF a, b, c, d, e, g, f
  <2>5. f[x] \in [1 .. 6 -> Nat] /\ f[x][6] = g
    BY <2>3, <2>4
  <2> QED
    BY <2>5 DEF g
<1>3. ASSUME NEW x \in S, NEW y \in S, f[x] = f[y]
      PROVE  x = y
  <2>1. Rank(records[x].identity) = Rank(records[y].identity)
    BY <1>2, <1>3
  <2>2. records[x].identity \in Strings /\ records[y].identity \in Strings
    BY <1>1 DEF Records
  <2>3. records[x].identity = records[y].identity
    BY <2>1, <2>2, RankIsNumber
  <2> QED
    BY <2>3 DEF Distinct
<1>4. \A x, y \in S : <<x, y>> \in R <=> LexLess(f[x], f[y])
  <2>1. \A x, y \in S :
           <<x, y>> \in R <=> LexLess(PathOrder(records[x]), PathOrder(records[y]))
    BY DEF PathPairs, Earlier
  <2> HIDE DEF R
  <2> QED
    BY <2>1
<1>5. IsOrder(R, S)
  <2> HIDE DEF S, R, f
  <2> QED
    BY <1>2, <1>3, <1>4, TuplesOrder
<1>6. ByPath(records) = InOrder(S, R)
  BY DEF ByPath, PathPairs
<1>7. IsFiniteSet(S)
  BY PlacesOf DEF Distinct
<1> QED
  BY <1>5, <1>6, <1>7, OrderedList

\* The path order that is checked pair by pair is the one derived.
LEMMA MapsAreRead ==
    ASSUME NEW file, Distinct(file.records), file.byPath \in Seq(Nat)
    PROVE  MapRead(file) <=> RawMapRead(file)
<1> DEFINE records == file.records
           S == DOMAIN records
           R == PathPairs(records)
           s == file.byPath
<1>1. IsOrder(R, S) /\ IsList(ByPath(records), S, R)
  BY PathOrderIs
<1>2. S = 1 .. Len(records) /\ Len(records) \in Nat
      /\ Cardinality(S) = Len(records)
  BY PlacesOf DEF Distinct
<1>3. ASSUME s \in Seq(S)
      PROVE  Increasing(s, LAMBDA m, n :
                 LexLess(RawPathOrder(records[m]), RawPathOrder(records[n])))
               <=> IsChain(s, R)
  <2>1. \A i \in 1 .. Len(s) - 1 : s[i] \in S /\ s[i + 1] \in S
    <3> HIDE DEF s, S
    <3> QED
      BY <1>3
  <2>2. \A i \in 1 .. Len(s) - 1 :
           <<s[i], s[i + 1]>> \in R <=>
              LexLess(RawPathOrder(records[s[i]]), RawPathOrder(records[s[i + 1]]))
    <3> TAKE i \in 1 .. Len(s) - 1
    <3>1. <<s[i], s[i + 1]>> \in S \X S
      BY <2>1
    <3>2. <<s[i], s[i + 1]>> \in R <=>
             LexLess(PathOrder(records[s[i]]), PathOrder(records[s[i + 1]]))
      BY <3>1 DEF PathPairs, Earlier
    <3>3. \A r : PathOrder(r) = RawPathOrder(r)
      BY DEF PathOrder, RawPathOrder
    <3> QED
      BY <3>2, <3>3
  <2> HIDE DEF s, R
  <2> QED
    BY <2>2 DEF Increasing, IsChain
<1>4. ASSUME Image(s) = S
      PROVE  s \in Seq(S)
  BY <1>4, PlacesOf
<1>5. ASSUME s = ByPath(records)
      PROVE  /\ Len(s) = Len(records) /\ Image(s) = S /\ s \in Seq(S)
             /\ IsChain(s, R)
  BY <1>1, <1>2, <1>5 DEF IsList
<1>6. ASSUME Image(s) = S, IsChain(s, R)
      PROVE  s = ByPath(records)
  BY <1>1, <1>4, <1>6 DEF IsList
<1> DEFINE ordered == Increasing(s, LAMBDA m, n :
                 LexLess(RawPathOrder(records[m]), RawPathOrder(records[n])))
<1>7. MapRead(file) <=>
        /\ s = ByPath(records)
        /\ file.groups = MapGroups(records).groups
        /\ file.partial = MapGroups(records).partial
  BY DEF MapRead
<1>8. RawMapRead(file) <=>
        /\ Len(s) = Len(records) /\ Image(s) = S /\ ordered
        /\ file.groups = MapGroups(records).groups
        /\ file.partial = MapGroups(records).partial
  BY GroupsAgree DEF RawMapRead
<1>9. s = ByPath(records) <=> Len(s) = Len(records) /\ Image(s) = S /\ ordered
  <2> HIDE DEF s, R, S
  <2>1. s \in Seq(S) => (ordered <=> IsChain(s, R))
    BY <1>3
  <2> HIDE DEF ordered
  <2> QED
    BY <1>4, <1>5, <1>6, <2>1
<1> HIDE DEF ordered
<1> QED
  BY <1>7, <1>8, <1>9

-----------------------------------------------------------------------------
(* Canonical records *)

\* Records that are read are canonical: encoding them again changes nothing.
LEMMA ReadRecordsAreCanonical ==
    ASSUME NEW records \in Seq(Records), RecordsRead(records)
    PROVE  /\ Distinct(records) /\ TermsInOrder(records)
           /\ Canonical(records) = records
<1>1. Distinct(records) /\ TermsInOrder(records)
  BY RecordsAreRead DEF RecordsRead, TermsInOrder
<1> DEFINE S == Image(records)
<1>2. /\ S \in SUBSET Records /\ records \in Seq(S) /\ IsFiniteSet(S)
      /\ \A i \in DOMAIN records : records[i] \in Records
      /\ records = [i \in DOMAIN records |-> records[i]]
  <2>1. /\ S \in SUBSET Records /\ records \in Seq(S)
        /\ \A i \in DOMAIN records : records[i] \in Records
        /\ records = [i \in DOMAIN records |-> records[i]]
    BY PlacesOf
  <2>2. IsFiniteSet(DOMAIN records)
    BY PlacesOf
  <2>3. records \in Surjection(DOMAIN records, S)
    BY <2>1 DEF Surjection, Image
  <2> QED
    BY <2>1, <2>2, <2>3, FS_Surjection
<1>3. \A q, r \in S : q.identity = r.identity => q = r
  BY <1>1 DEF Distinct, Image
<1>4. Sorted(S, IdentityLess) = records
  <2> HIDE DEF S
  <2>1. IsChain(records, IdentityPairs(S)) /\ Image(records) = S
    <3>1. IsChain(records, IdentityPairs(S)) <=> Increasing(records, IdentityLess)
      BY <1>2, <1>3, RecordList
    <3> QED
      BY <3>1 DEF RecordsRead, S
  <2>2. IsList(Sorted(S, IdentityLess), S, IdentityPairs(S))
    BY <1>2, <1>3, RecordList
  <2> QED
    BY <1>2, <2>1, <2>2 DEF IsList
<1>5. ASSUME NEW i \in DOMAIN records
      PROVE  [records[i] EXCEPT !.terms = Sorted(Image(records[i].terms), TextLess)]
               = records[i]
  <2>1. records[i].terms = Sorted(Image(records[i].terms), TextLess)
    BY <1>1, TermsAreCounted
  <2>2. records[i] \in Records
    BY <1>2
  <2> DEFINE sorted == Sorted(Image(records[i].terms), TextLess)
  <2> HIDE DEF sorted
  <2> QED
    BY <2>1, <2>2 DEF Records, sorted
<1>6. Canonical(records) = [i \in DOMAIN records |->
          [records[i] EXCEPT !.terms = Sorted(Image(records[i].terms), TextLess)]]
  BY <1>4 DEF Canonical
<1> QED
  BY <1>1, <1>2, <1>5, <1>6

\* What is encodable has canonical records, which are read.
LEMMA CanonicalIsRead ==
    ASSUME NEW input \in Seq(Records), Encodable(input)
    PROVE  /\ Canonical(input) \in Seq(Records)
           /\ RecordsRead(Canonical(input))
           /\ {Canonical(input)[i].path : i \in DOMAIN Canonical(input)}
                = {r.path : r \in Image(input)}
<1> DEFINE S == Image(input)
           sorted == Sorted(S, IdentityLess)
           terms(i) == Sorted(Image(sorted[i].terms), TextLess)
           records == Canonical(input)
<1>1. /\ S \in SUBSET Records /\ IsFiniteSet(S)
      /\ \A r \in S : \E i \in DOMAIN input : r = input[i]
  <2>1. /\ S \in SUBSET Records /\ input \in Seq(S)
        /\ \A r \in S : \E i \in DOMAIN input : r = input[i]
        /\ IsFiniteSet(DOMAIN input)
    BY PlacesOf
  <2>2. input \in Surjection(DOMAIN input, S)
    BY <2>1, PlacesOf DEF Surjection, Image
  <2> QED
    BY <2>1, <2>2, FS_Surjection
<1>2. \A q, r \in S : q.identity = r.identity => q = r
  BY <1>1 DEF Encodable
<1>3. \A r \in S : ValidRecord(r)
  BY <1>1 DEF Encodable
<1>4. /\ sorted \in Seq(S) /\ Image(sorted) = S
      /\ Increasing(sorted, IdentityLess)
  <2> HIDE DEF S
  <2>1. IsList(sorted, S, IdentityPairs(S))
    BY <1>1, <1>2, RecordList
  <2>2. sorted \in Seq(S) /\ Image(sorted) = S /\ IsChain(sorted, IdentityPairs(S))
    BY <2>1 DEF IsList
  <2> HIDE DEF sorted
  <2>3. \A s \in Seq(S) :
           IsChain(s, IdentityPairs(S)) <=> Increasing(s, IdentityLess)
    BY <1>1, <1>2, RecordList
  <2> QED
    BY <2>2, <2>3
<1>5. records = [i \in DOMAIN sorted |-> [sorted[i] EXCEPT !.terms = terms(i)]]
  BY DEF Canonical
<1> HIDE DEF records, sorted, S
<1>6. /\ Len(sorted) \in Nat /\ DOMAIN sorted = 1 .. Len(sorted)
      /\ \A i \in DOMAIN sorted : sorted[i] \in S /\ sorted[i] \in Records
  BY <1>1, <1>4, PlacesOf
<1>7. ASSUME NEW i \in DOMAIN sorted
      PROVE  terms(i) \in Seq(Strings) /\ Increasing(terms(i), TextLess)
  <2> DEFINE T == Image(sorted[i].terms)
             l == terms(i)
  <2>1. T \in SUBSET Strings
    BY <1>6, PlacesOf DEF Records
  <2>2. l = Sorted(T, TextLess)
    OBVIOUS
  <2> HIDE DEF l, T
  <2>3. IsList(l, T, TextPairs(T))
    BY <2>1, <2>2, TextList
  <2>4. l \in Seq(T) /\ IsChain(l, TextPairs(T))
    BY <2>3 DEF IsList
  <2>5. Increasing(l, TextLess)
    BY <2>1, <2>4, TextList
  <2>6. l \in Seq(Strings)
    BY <2>1, <2>4
  <2> QED
    BY <2>5, <2>6 DEF l
<1>8. \A i \in DOMAIN sorted :
         /\ records[i] = [sorted[i] EXCEPT !.terms = terms(i)]
         /\ records[i] \in Records /\ records[i].terms = terms(i)
         /\ records[i].identity = sorted[i].identity
         /\ records[i].start = sorted[i].start /\ records[i].end = sorted[i].end
         /\ records[i].kind = sorted[i].kind /\ records[i].count = sorted[i].count
         /\ records[i].path = sorted[i].path
  <2> TAKE i \in DOMAIN sorted
  <2>1. sorted[i] \in Records /\ terms(i) \in Seq(Strings)
    BY <1>6, <1>7
  <2>2. records[i] = [sorted[i] EXCEPT !.terms = terms(i)]
    BY <1>5
  <2> HIDE DEF terms
  <2> QED
    BY <2>1, <2>2 DEF Records
<1>9. records \in Seq(Records) /\ Len(records) = Len(sorted)
      /\ DOMAIN records = DOMAIN sorted
  <2>1. records \in [1 .. Len(sorted) -> Records]
    BY <1>5, <1>6, <1>8
  <2> QED
    BY <1>6, <2>1, SeqDef
<1>10. Increasing(records, IdentityLess)
  <2> SUFFICES ASSUME NEW i \in 1 .. Len(records) - 1
               PROVE  IdentityLess(records[i], records[i + 1])
    BY DEF Increasing
  <2>1. i \in DOMAIN sorted /\ i + 1 \in DOMAIN sorted
    BY <1>6, <1>9
  <2>2. IdentityLess(sorted[i], sorted[i + 1])
    BY <1>4, <1>9 DEF Increasing
  <2> QED
    BY <1>8, <2>1, <2>2 DEF IdentityLess
<1>11. \A i \in DOMAIN records :
          ValidRecord(records[i]) /\ Increasing(records[i].terms, TextLess)
  <2> TAKE i \in DOMAIN records
  <2>1. ValidRecord(sorted[i])
    BY <1>3, <1>6, <1>9
  <2>2. ValidRecord(records[i])
    BY <1>8, <1>9, <2>1 DEF ValidRecord
  <2> QED
    BY <1>7, <1>8, <1>9, <2>2
<1>12. {records[i].path : i \in DOMAIN records} = {r.path : r \in S}
  <2>1. \A r \in S : \E i \in DOMAIN records : r = sorted[i]
    BY <1>4, <1>9 DEF Image
  <2> QED
    BY <1>6, <1>8, <1>9, <2>1
<1> QED
  BY <1>9, <1>10, <1>11, <1>12 DEF RecordsRead, records, S

-----------------------------------------------------------------------------
(* The readers and the encoder *)

\* A file with sections of the right shape.
Readable(file) ==
    /\ file.records \in Seq(Records) /\ file.postings \in Seq(PostingType)
    /\ file.queries \in Seq(QueryType) /\ file.byPath \in Seq(Nat)

\* For such a file the decoder compares with what it derives, and so does the
\* validator in effect.
LEMMA ReadersDerive ==
    ASSUME NEW file, Readable(file)
    PROVE  /\ Decodes(file) <=>
                /\ file.version = 4 /\ RecordsRead(file.records)
                /\ file.postings = Postings(file.records)
                /\ file.queries = Queries(file.records)
                /\ MapRead(file) /\ CatalogueRead(file.catalogue)
           /\ Validates(file) <=> Decodes(file)
<1>1. RecordsRead(file.records) <=> RawRecordsRead(file.records)
  BY RecordsAreRead DEF Readable
<1>2. RecordsRead(file.records) =>
        Distinct(file.records) /\ TermsInOrder(file.records)
  BY ReadRecordsAreCanonical DEF Readable
<1>3. RecordsRead(file.records) =>
        /\ PostingsRead(file) <=> file.postings = Postings(file.records)
        /\ PostingsRead(file) <=> RawPostingsRead(file)
  BY <1>2, PostingsAreRead DEF Readable
<1>4. /\ QueriesRead(file) <=> file.queries = Queries(file.records)
      /\ RawQueriesRead(file) <=> file.queries = Queries(file.records)
  BY QueriesAreRead DEF Readable
<1>5. RecordsRead(file.records) => (MapRead(file) <=> RawMapRead(file))
  BY <1>2, MapsAreRead DEF Readable
<1> QED
  BY <1>1, <1>3, <1>4, <1>5 DEF Decodes, Validates

\* Files that can be read at all are such files.
LEMMA IndexFilesAreReadable ==
    ASSUME NEW file \in IndexFiles
    PROVE  Readable(file)
  BY DEF IndexFiles, Readable, PostingType, QueryType, KeyType, RunType

\* Both readers accept the same files, whatever a file holds.
THEOREM TheReadersAgree ==
    ASSUME NEW file \in IndexFiles
    PROVE  ReadersAgree(file)
  BY ReadersDerive, IndexFilesAreReadable DEF ReadersAgree

\* A file that is read is the one encoded for its records.
THEOREM AnIndexHasOneFile ==
    ASSUME NEW file \in IndexFiles
    PROVE  OneFilePerIndex(file)
<1> SUFFICES ASSUME Decodes(file)
             PROVE  file = Encode(file.records, file.catalogue)
  BY DEF OneFilePerIndex
<1> DEFINE records == file.records
           map == MapGroups(records)
<1>1. Readable(file)
  BY IndexFilesAreReadable
<1>2. /\ file.version = 4 /\ RecordsRead(records)
      /\ file.postings = Postings(records) /\ file.queries = Queries(records)
      /\ MapRead(file)
  BY <1>1, ReadersDerive
<1>3. Canonical(records) = records
  BY <1>1, <1>2, ReadRecordsAreCanonical DEF Readable
<1>4. /\ file.byPath = ByPath(records)
      /\ file.groups = map.groups /\ file.partial = map.partial
  BY <1>2 DEF MapRead
<1>5. file = [version |-> file.version, records |-> file.records,
              postings |-> file.postings, queries |-> file.queries,
              byPath |-> file.byPath, groups |-> file.groups,
              partial |-> file.partial, catalogue |-> file.catalogue]
  BY DEF IndexFiles
<1>6. Encode(records, file.catalogue)
        = [version |-> 4, records |-> records, postings |-> Postings(records),
           queries |-> Queries(records), byPath |-> ByPath(records),
           groups |-> map.groups, partial |-> map.partial,
           catalogue |-> file.catalogue]
  BY <1>3 DEF Encode
<1> QED
  BY <1>2, <1>4, <1>5, <1>6

\* What is encoded is such a file.
LEMMA EncodedIsReadable ==
    ASSUME NEW input \in Seq(Records), Encodable(input), NEW catalogue
    PROVE  LET file    == Encode(input, catalogue)
               records == Canonical(input)
           IN  /\ Readable(file) /\ MapRead(file)
               /\ records \in Seq(Records) /\ RecordsRead(records)
               /\ file.version = 4 /\ file.records = records
               /\ file.postings = Postings(records)
               /\ file.queries = Queries(records)
               /\ file.byPath = ByPath(records)
               /\ file.groups = MapGroups(records).groups
               /\ file.partial = MapGroups(records).partial
               /\ file.catalogue = catalogue
<1> DEFINE file == Encode(input, catalogue)
           records == Canonical(input)
<1>1. records \in Seq(Records) /\ RecordsRead(records)
  BY CanonicalIsRead
<1>2. /\ file.version = 4 /\ file.records = records
      /\ file.postings = Postings(records)
      /\ file.queries = Queries(records)
      /\ file.byPath = ByPath(records)
      /\ file.groups = MapGroups(records).groups
      /\ file.partial = MapGroups(records).partial
      /\ file.catalogue = catalogue
  BY DEF Encode
<1>3. Distinct(records) /\ TermsInOrder(records)
  BY <1>1, ReadRecordsAreCanonical
<1> HIDE DEF file, records
<1>4. Postings(records) \in Seq(PostingType)
  BY <1>3, DerivedPostingsHold DEF PostingsHold
<1>5. Queries(records) \in Seq(QueryType)
  BY <1>1, DerivedQueriesHold DEF QueriesHold
<1>6. ByPath(records) \in Seq(Nat)
  <2>1. ByPath(records) \in Seq(DOMAIN records)
    BY <1>3, PathOrderIs DEF IsList
  <2>2. DOMAIN records \in SUBSET Nat
    BY <1>1, PlacesOf
  <2> QED
    BY <2>1, <2>2
<1>7. Readable(file)
  BY <1>1, <1>2, <1>4, <1>5, <1>6 DEF Readable
<1>8. MapRead(file)
  BY <1>2 DEF MapRead
<1> QED
  BY <1>1, <1>2, <1>7, <1>8 DEF file, records

\* Both readers accept what the encoder writes, whatever it is given.
THEOREM WhatIsWrittenIsRead ==
    ASSUME NEW input \in Seq(Records), NEW catalogue
    PROVE  WrittenIsRead(input, catalogue)
<1> SUFFICES ASSUME Encodable(input), CatalogueRead(catalogue)
             PROVE  /\ Decodes(Encode(input, catalogue))
                    /\ Validates(Encode(input, catalogue))
  BY DEF WrittenIsRead
<1> DEFINE file == Encode(input, catalogue)
           records == Canonical(input)
<1>1. /\ Readable(file) /\ MapRead(file)
      /\ RecordsRead(records)
      /\ file.version = 4 /\ file.records = records
      /\ file.postings = Postings(records)
      /\ file.queries = Queries(records)
      /\ file.catalogue = catalogue
  BY EncodedIsReadable
<1> HIDE DEF file, records
<1>2. Decodes(file) /\ Validates(file)
  BY <1>1, ReadersDerive
<1> QED
  BY <1>2 DEF file

-----------------------------------------------------------------------------
(* The index in memory *)

\* The records an update keeps are those the encoder writes.
LEMMA PublishedIsCanonical ==
    ASSUME NEW input \in Seq(Records), Encodable(input),
           \A i \in DOMAIN input : Increasing(input[i].terms, TextLess)
    PROVE  Published(input) = Canonical(input)
<1> DEFINE S == Image(input)
           sorted == Sorted(S, IdentityLess)
<1>1. /\ S \in SUBSET Records /\ IsFiniteSet(S)
      /\ \A r \in S : \E i \in DOMAIN input : r = input[i]
  <2>1. /\ S \in SUBSET Records /\ input \in Seq(S)
        /\ \A r \in S : \E i \in DOMAIN input : r = input[i]
        /\ IsFiniteSet(DOMAIN input)
    BY PlacesOf
  <2>2. input \in Surjection(DOMAIN input, S)
    BY <2>1, PlacesOf DEF Surjection, Image
  <2> QED
    BY <2>1, <2>2, FS_Surjection
<1>2. \A q, r \in S : q.identity = r.identity => q = r
  BY <1>1 DEF Encodable
<1>3. \A r \in S : r \in Records /\ Increasing(r.terms, TextLess)
  BY <1>1
<1>4. sorted \in Seq(S)
  <2> HIDE DEF S
  <2> QED
    BY <1>1, <1>2, RecordList DEF IsList
<1>5. Published(input) = sorted
      /\ Canonical(input) = [i \in DOMAIN sorted |->
           [sorted[i] EXCEPT !.terms = Sorted(Image(sorted[i].terms), TextLess)]]
  BY DEF Published, Canonical
<1> HIDE DEF S, sorted
<1>6. /\ \A i \in DOMAIN sorted : sorted[i] \in S
      /\ sorted = [i \in DOMAIN sorted |-> sorted[i]]
  BY <1>4, PlacesOf
<1>7. ASSUME NEW r \in S
      PROVE  [r EXCEPT !.terms = Sorted(Image(r.terms), TextLess)] = r
  <2>1. r \in Records /\ r.terms \in Seq(Strings) /\ Increasing(r.terms, TextLess)
    BY <1>3 DEF Records
  <2>2. r.terms = Sorted(Image(r.terms), TextLess)
    <3> DEFINE T == Image(r.terms)
    <3>1. T \in SUBSET Strings /\ r.terms \in Seq(T) /\ Image(r.terms) = T
      BY <2>1, PlacesOf
    <3> HIDE DEF T
    <3>2. IsChain(r.terms, TextPairs(T)) /\ IsList(Sorted(T, TextLess), T, TextPairs(T))
      BY <2>1, <3>1, TextList
    <3>3. r.terms = Sorted(T, TextLess)
      BY <3>1, <3>2 DEF IsList
    <3> QED
      BY <3>3 DEF T
  <2> DEFINE l == Sorted(Image(r.terms), TextLess)
  <2> HIDE DEF l
  <2> QED
    BY <2>1, <2>2 DEF Records, l
<1> QED
  BY <1>5, <1>6, <1>7

\* What a reader makes of postings and of queries, and what an update keeps.
LoadedTerms(postings) ==
    [t \in {p.term : p \in Image(postings)} |->
        (CHOOSE p \in Image(postings) : p.term = t).ordinals]

KeptTerms(records) ==
    [t \in AllTerms(records) |->
        Sorted({o \in DOMAIN records : t \in Image(records[o].terms)}, NatLess)]

LoadedKeys(queries) ==
    [k \in {q.key : q \in Image(queries)} |->
        RunOrdinals(CHOOSE q \in Image(queries) : q.key = k)]

KeptKeys(records) ==
    [k \in AllKeys(records) |->
        {o \in DOMAIN KeysOf(records) : k \in KeysOf(records)[o]}]

\* A reader finds under each term what an update has put there.
LEMMA PostingsAreLoaded ==
    ASSUME NEW records, TermsInOrder(records)
    PROVE  LoadedTerms(Postings(records)) = KeptTerms(records)
<1> DEFINE U == AllTerms(records)
           list == Sorted(U, TextLess)
           postings == Postings(records)
           L(t) == Sorted({o \in DOMAIN records : t \in Image(records[o].terms)},
                          NatLess)
<1>1. Image(list) = U
  <2>1. U \in SUBSET Strings
    BY TermsAreCounted
  <2> HIDE DEF U
  <2> QED
    BY <2>1, TextList DEF IsList
<1>2. postings = [i \in DOMAIN list |-> [term |-> list[i], ordinals |-> L(list[i])]]
  BY DEF Postings
<1> HIDE DEF L, U, list, postings
<1>3. \A p \in Image(postings) : p.term \in U /\ p.ordinals = L(p.term)
  BY <1>1, <1>2 DEF Image
<1>4. \A t \in U : \E p \in Image(postings) : p.term = t
  BY <1>1, <1>2 DEF Image
<1>5. {p.term : p \in Image(postings)} = U
  BY <1>3, <1>4
<1>6. ASSUME NEW t \in U
      PROVE  (CHOOSE p \in Image(postings) : p.term = t).ordinals = L(t)
  <2> DEFINE p == CHOOSE q \in Image(postings) : q.term = t
  <2>1. p \in Image(postings) /\ p.term = t
    BY <1>4
  <2> HIDE DEF p
  <2>2. p.ordinals = L(t)
    BY <1>3, <2>1
  <2> QED
    BY <2>2 DEF p
<1>7. [t \in {p.term : p \in Image(postings)} |->
          (CHOOSE p \in Image(postings) : p.term = t).ordinals]
        = [t \in U |-> L(t)]
  BY <1>5, <1>6
<1> QED
  BY <1>7 DEF U, L, postings, LoadedTerms, KeptTerms

\* And under each key.
LEMMA QueriesAreLoaded ==
    ASSUME NEW records \in Seq(Records)
    PROVE  LoadedKeys(Queries(records)) = KeptKeys(records)
<1> DEFINE U == AllKeys(records)
           H(k) == KeyHolders(records, k)
           queries == Queries(records)
<1>1. QueriesHold(queries, records)
  BY DerivedQueriesHold
<1>2. /\ {queries[i].key : i \in DOMAIN queries} = U
      /\ \A i \in DOMAIN queries : RunOrdinals(queries[i]) = H(queries[i].key)
  BY <1>1, QueriesThatFind
<1>3. \A k : {o \in DOMAIN KeysOf(records) : k \in KeysOf(records)[o]} = H(k)
  BY DEF KeyHolders, Having, KeysOf
<1> HIDE DEF U, H, queries
<1>4. \A q \in Image(queries) : q.key \in U /\ RunOrdinals(q) = H(q.key)
  <2> SUFFICES ASSUME NEW i \in DOMAIN queries
               PROVE  queries[i].key \in U /\ RunOrdinals(queries[i]) = H(queries[i].key)
    BY DEF Image
  <2> QED
    BY <1>2
<1>5. \A k \in U : \E q \in Image(queries) : q.key = k
  BY <1>2 DEF Image
<1>6. {q.key : q \in Image(queries)} = U
  BY <1>4, <1>5
<1>7. ASSUME NEW k \in U
      PROVE  RunOrdinals(CHOOSE q \in Image(queries) : q.key = k) = H(k)
  <2> DEFINE q == CHOOSE q \in Image(queries) : q.key = k
  <2>1. q \in Image(queries) /\ q.key = k
    BY <1>5
  <2> HIDE DEF q
  <2>2. RunOrdinals(q) = H(k)
    BY <1>4, <2>1
  <2> QED
    BY <2>2 DEF q
<1>8. [k \in {q.key : q \in Image(queries)} |->
          RunOrdinals(CHOOSE q \in Image(queries) : q.key = k)]
        = [k \in U |-> H(k)]
  BY <1>6, <1>7
<1> QED
  BY <1>3, <1>8 DEF U, queries, LoadedKeys, KeptKeys

\* A process that has updated the index has in memory what another reads.
THEOREM MemoryIsTheDisk ==
    ASSUME NEW input \in Seq(Records), NEW catalogue
    PROVE  MemoryIsDisk(input, catalogue)
<1> SUFFICES ASSUME Encodable(input),
                    \A i \in DOMAIN input : Increasing(input[i].terms, TextLess)
             PROVE  Materialized(Published(input))
                      = Loaded(Encode(input, catalogue))
  BY DEF MemoryIsDisk
<1> DEFINE file == Encode(input, catalogue)
           records == Canonical(input)
<1>1. Published(input) = records
  BY PublishedIsCanonical
<1>2. /\ records \in Seq(Records) /\ RecordsRead(records)
      /\ file.records = records
      /\ file.postings = Postings(records)
      /\ file.queries = Queries(records)
      /\ file.byPath = ByPath(records)
      /\ file.groups = MapGroups(records).groups
      /\ file.partial = MapGroups(records).partial
  BY EncodedIsReadable
<1> HIDE DEF file, records
<1>3. TermsInOrder(records)
  BY <1>2, ReadRecordsAreCanonical
<1>4. /\ LoadedTerms(file.postings) = KeptTerms(records)
      /\ LoadedKeys(file.queries) = KeptKeys(records)
  BY <1>2, <1>3, PostingsAreLoaded, QueriesAreLoaded
<1>5. Loaded(file) = Snapshot(file.records, LoadedTerms(file.postings),
                              LoadedKeys(file.queries), file.byPath, file.groups,
                              file.partial)
  BY DEF Loaded, LoadedTerms, LoadedKeys
<1>6. Materialized(records)
        = Snapshot(records, KeptTerms(records), KeptKeys(records),
                   ByPath(records), MapGroups(records).groups,
                   MapGroups(records).partial)
  BY DEF Materialized, KeptTerms, KeptKeys
<1>7. Materialized(records) = Loaded(file)
  BY <1>2, <1>4, <1>5, <1>6
<1> QED
  BY <1>1, <1>7 DEF file

-----------------------------------------------------------------------------
(* The size that is foreseen *)

\* A text, a key and a record take a number of bytes.
LEMMA SizesAreNumbers ==
    /\ \A t \in Strings : Length[t] \in Nat
    /\ \A k \in KeyType : KeySize(k) \in Nat
    /\ \A r \in Records : RecordSize(r) \in Nat
<1>1. \A t \in Strings : Length[t] \in Nat
  BY TextsAssumption
<1>2. ASSUME NEW k \in KeyType
      PROVE  KeySize(k) \in Nat
  <2>1. k[2] \in Strings /\ k[3] \in Strings
    BY DEF KeyType
  <2>2. Length[k[2]] \in Nat /\ Length[k[3]] \in Nat
    BY <1>1, <2>1
  <2> QED
    BY <2>2 DEF KeySize
<1>3. ASSUME NEW r \in Records
      PROVE  RecordSize(r) \in Nat
  <2> DEFINE F == {"identity", "path", "language", "kind", "source", "name",
                   "evidence"}
             T == Image(r.terms)
             w == [field \in F |-> 4 + Length[r[field]]]
             v == [t \in T |-> 4 + Length[t]]
  <2>1. RecordSize(r) = 16 + SumOn(w, F) + SumOn(v, T)
    BY DEF RecordSize, Total, SumOn
  <2>2. \A field \in F : w[field] \in Nat
    <3>1. \A field \in F : r[field] \in Strings
      BY DEF Records
    <3> QED
      BY <1>1, <3>1
  <2>3. \A t \in T : v[t] \in Nat
    <3>1. T \in SUBSET Strings
      BY PlacesOf DEF Records
    <3> QED
      BY <1>1, <3>1
  <2>4. IsFiniteSet(F)
    <3>1. F = {"identity"} \cup ({"path"} \cup ({"language"} \cup ({"kind"} \cup
                ({"source"} \cup ({"name"} \cup {"evidence"})))))
      OBVIOUS
    <3> QED
      <4>1. \A S, x : IsFiniteSet(S) => IsFiniteSet({x} \cup S)
        BY FS_Singleton, FS_Union
      <4>2. IsFiniteSet({"name"} \cup {"evidence"})
        BY <4>1, FS_Singleton
      <4>3. IsFiniteSet({"kind"} \cup ({"source"} \cup ({"name"} \cup {"evidence"})))
        BY <4>1, <4>2
      <4>4. IsFiniteSet({"language"} \cup ({"kind"} \cup
                ({"source"} \cup ({"name"} \cup {"evidence"}))))
        BY <4>1, <4>3
      <4>5. IsFiniteSet({"path"} \cup ({"language"} \cup ({"kind"} \cup
                ({"source"} \cup ({"name"} \cup {"evidence"})))))
        BY <4>1, <4>4
      <4> QED
        BY <3>1, <4>1, <4>5
  <2>5. IsFiniteSet(T)
    <3>1. T \in SUBSET Strings
      BY PlacesOf DEF Records
    <3> QED
      BY <3>1, RankIsNumber, FS_Subset
  <2> HIDE DEF F, T, w, v
  <2>6. SumOn(w, F) \in Nat /\ SumOn(v, T) \in Nat
    BY <2>2, <2>3, <2>4, <2>5, SumIsNat
  <2> QED
    BY <2>1, <2>6
<1> QED
  BY <1>1, <1>2, <1>3

\* What the terms take, and how often they occur.
TermSizes(records) == SumOn([t \in AllTerms(records) |-> 8 + Length[t]],
                            AllTerms(records))
TermCounts(records) == SumOn([o \in DOMAIN records |-> Len(records[o].terms)],
                             DOMAIN records)

\* The postings take what is foreseen of them, exactly.
LEMMA PostingsSize ==
    ASSUME NEW records, TermsInOrder(records), NEW postings,
           postings = Postings(records)
    PROVE  /\ SumOn([i \in DOMAIN postings |->
                 8 + Length[postings[i].term] + 4 * Len(postings[i].ordinals)],
                DOMAIN postings)
              = TermSizes(records) + 4 * TermCounts(records)
           /\ TermSizes(records) \in Nat /\ TermCounts(records) \in Nat
<1> DEFINE I == DOMAIN postings
           U == AllTerms(records)
           u == [i \in I |-> 8 + Length[postings[i].term]
                                + 4 * Len(postings[i].ordinals)]
           w == [i \in I |-> 8 + Length[postings[i].term]]
           x == [i \in I |-> Len(postings[i].ordinals)]
           v == [i \in I |-> 4 * x[i]]
           h == [i \in I |-> postings[i].term]
           size == [t \in U |-> 8 + Length[t]]
<1>1. PostingsHold(postings, records) /\ PostingsCount(postings, records)
  BY DerivedPostingsHold, PostingsThatCount
<1>2. /\ IsFiniteSet(I)
      /\ \A i \in I : postings[i].term \in Strings
                      /\ postings[i].ordinals \in Seq(Nat)
  <2>1. postings \in Seq(PostingType)
    BY <1>1 DEF PostingsHold
  <2>2. IsFiniteSet(I) /\ \A i \in I : postings[i] \in PostingType
    BY <2>1, PlacesOf
  <2> QED
    BY <2>2 DEF PostingType
<1>3. \A i \in I : /\ Length[postings[i].term] \in Nat
                   /\ Len(postings[i].ordinals) \in Nat
  BY <1>2, SizesAreNumbers
<1>4. \A i, j \in I : h[i] = h[j] => i = j
  BY <1>1, PostingTerms
<1>5. {h[i] : i \in I} = U
  <2> DEFINE list == Sorted(U, TextLess)
  <2>1. Image(list) = U
    <3>1. U \in SUBSET Strings
      BY TermsAreCounted
    <3> HIDE DEF U
    <3> QED
      BY <3>1, TextList DEF IsList
  <2>2. I = DOMAIN list /\ \A i \in I : h[i] = list[i]
    BY DEF Postings
  <2> HIDE DEF list, h, I
  <2> QED
    BY <2>1, <2>2 DEF Image
<1>6. \A i \in I : /\ w[i] \in Nat /\ x[i] \in Nat /\ v[i] \in Nat
                   /\ v[i] = 4 * x[i] /\ u[i] = w[i] + v[i]
                   /\ h[i] \in U /\ size[h[i]] = w[i]
  BY <1>3, <1>5
<1> DEFINE a == SumOn(w, I)
           b == SumOn(x, I)
<1>7. TermCounts(records) = b
  BY <1>1 DEF PostingsCount, TermCounts
<1>8. TermSizes(records) = SumOn(size, {h[i] : i \in I})
  BY <1>5 DEF TermSizes
<1> HIDE DEF I, U, u, w, x, v, h, size
<1>9. a \in Nat /\ b \in Nat
  BY <1>2, <1>6, SumIsNat
<1>10. SumOn(size, {h[i] : i \in I}) = a
  <2>1. Renamed(I, h, size, w)
    BY <1>4, <1>6 DEF Renamed
  <2> QED
    BY <1>2, <2>1, SumMoves
<1>11. SumOn(v, I) = 4 * b
  BY <1>2, <1>6, SumOfMultiples DEF Weights
<1>12. SumOn(u, I) = a + SumOn(v, I)
  BY <1>2, <1>6, SumOfSums DEF Weights
<1>13. SumOn(u, I) = TermSizes(records) + 4 * TermCounts(records)
  BY <1>7, <1>8, <1>10, <1>11, <1>12
<1>14. TermSizes(records) \in Nat /\ TermCounts(records) \in Nat
  BY <1>7, <1>8, <1>9, <1>10
<1> QED
  BY <1>13, <1>14 DEF u, I

\* What the keys take, and how many records have.
KeySizes(records) == SumOn([k \in AllKeys(records) |-> 12 + KeySize(k)],
                           AllKeys(records))
KeyCounts(records) == SumOn([o \in DOMAIN records |-> Cardinality(Keys(records[o]))],
                            DOMAIN records)

\* The queries take no more: there are no more runs than ordinals.
LEMMA QueriesSize ==
    ASSUME NEW records \in Seq(Records), NEW queries, queries = Queries(records)
    PROVE  /\ SumOn([i \in DOMAIN queries |->
                 12 + KeySize(queries[i].key) + 8 * Len(queries[i].runs)],
                DOMAIN queries)
              <= KeySizes(records) + 8 * KeyCounts(records)
           /\ SumOn([i \in DOMAIN queries |->
                 12 + KeySize(queries[i].key) + 8 * Len(queries[i].runs)],
                DOMAIN queries) \in Nat
           /\ KeySizes(records) \in Nat /\ KeyCounts(records) \in Nat
<1> DEFINE I == DOMAIN queries
           U == AllKeys(records)
           u == [i \in I |-> 12 + KeySize(queries[i].key)
                                + 8 * Len(queries[i].runs)]
           w == [i \in I |-> 12 + KeySize(queries[i].key)]
           x == [i \in I |-> queries[i].count]
           v == [i \in I |-> 8 * x[i]]
           y == [i \in I |-> w[i] + v[i]]
           h == [i \in I |-> queries[i].key]
           size == [k \in U |-> 12 + KeySize(k)]
<1>1. QueriesHold(queries, records)
  BY DerivedQueriesHold
<1>2. /\ IsFiniteSet(I)
      /\ \A i \in I : queries[i].key \in KeyType /\ queries[i].count \in Nat
                      /\ queries[i].runs \in Seq(RunType)
                      /\ Len(queries[i].runs) <= queries[i].count
  <2>1. /\ queries \in Seq(QueryType)
        /\ \A i \in I : RunsRead(queries[i], records)
    BY <1>1 DEF QueriesHold
  <2>2. IsFiniteSet(I) /\ \A i \in I : queries[i] \in QueryType
    BY <2>1, PlacesOf
  <2>3. \A i \in I : Len(queries[i].runs) <= queries[i].count
    BY <2>1 DEF RunsRead
  <2> QED
    BY <2>2, <2>3 DEF QueryType
<1>3. \A i \in I : /\ KeySize(queries[i].key) \in Nat
                   /\ Len(queries[i].runs) \in Nat
  BY <1>2, SizesAreNumbers
<1>4. \A i, j \in I : h[i] = h[j] => i = j
  BY <1>1, QueryKeys
<1>5. {h[i] : i \in I} = U
  BY <1>1, QueriesThatFind
<1>6. \A i \in I : /\ w[i] \in Nat /\ x[i] \in Nat /\ v[i] \in Nat /\ u[i] \in Nat
                   /\ v[i] = 8 * x[i] /\ y[i] = w[i] + v[i] /\ y[i] \in Nat
                   /\ u[i] <= y[i]
                   /\ h[i] \in U /\ size[h[i]] = w[i]
  <2> SUFFICES ASSUME NEW i \in I
               PROVE  /\ w[i] \in Nat /\ x[i] \in Nat /\ v[i] \in Nat
                      /\ u[i] \in Nat
                      /\ v[i] = 8 * x[i] /\ y[i] = w[i] + v[i] /\ y[i] \in Nat
                      /\ u[i] <= y[i]
                      /\ h[i] \in U /\ size[h[i]] = w[i]
    OBVIOUS
  <2> DEFINE k == KeySize(queries[i].key)
             l == Len(queries[i].runs)
             c == queries[i].count
  <2>1. k \in Nat /\ l \in Nat /\ c \in Nat /\ l <= c
    BY <1>2, <1>3
  <2>2. w[i] = 12 + k /\ x[i] = c /\ v[i] = 8 * c /\ u[i] = 12 + k + 8 * l
        /\ y[i] = w[i] + v[i]
    OBVIOUS
  <2>3. h[i] \in U /\ size[h[i]] = w[i]
    BY <1>5
  <2> HIDE DEF k, l, c, w, x, v, u, y, h, size, U, I
  <2> QED
    BY <2>1, <2>2, <2>3
<1> DEFINE a == SumOn(w, I)
           b == SumOn(x, I)
<1>7. KeyCounts(records) = b
  <2>1. [o \in DOMAIN records |-> Cardinality(KeysOf(records)[o])]
          = [o \in DOMAIN records |-> Cardinality(Keys(records[o]))]
    BY DEF KeysOf
  <2> QED
    BY <1>1, <2>1, QueriesThatCount DEF KeyCounts
<1>8. KeySizes(records) = SumOn(size, {h[i] : i \in I})
  BY <1>5 DEF KeySizes
<1> HIDE DEF I, U, u, w, x, v, y, h, size
<1>9. a \in Nat /\ b \in Nat /\ SumOn(u, I) \in Nat
  BY <1>2, <1>6, SumIsNat
<1>10. SumOn(size, {h[i] : i \in I}) = a
  <2>1. Renamed(I, h, size, w)
    BY <1>4, <1>6 DEF Renamed
  <2> QED
    BY <1>2, <2>1, SumMoves
<1>11. SumOn(v, I) = 8 * b
  BY <1>2, <1>6, SumOfMultiples DEF Weights
<1>12. SumOn(y, I) = a + SumOn(v, I)
  BY <1>2, <1>6, SumOfSums DEF Weights
<1>13. SumOn(u, I) <= SumOn(y, I)
  BY <1>2, <1>6, SumsCompare DEF Weights
<1>14. SumOn(u, I) <= KeySizes(records) + 8 * KeyCounts(records)
  BY <1>7, <1>8, <1>10, <1>11, <1>12, <1>13
<1>15. KeySizes(records) \in Nat /\ KeyCounts(records) \in Nat
  BY <1>7, <1>8, <1>9, <1>10
<1> QED
  BY <1>9, <1>14, <1>15 DEF u, I

\* The first structural record of each path, as Groups has it.
Heads(records) ==
    {i \in DOMAIN records : Structural(records[i]) /\
        i = CHOOSE j \in {k \in DOMAIN records :
                             records[k].path = records[i].path
                             /\ Structural(records[k])} :
              \A l \in {k \in DOMAIN records :
                           records[k].path = records[i].path
                           /\ Structural(records[k])} \ {j} :
                  LexLess(PathOrder(records[j]), PathOrder(records[l]))}

\* The heads in path order.
HeadList(records) == InOrder(Heads(records),
                             Earlier(Heads(records), records, PathOrder))

\* The groups are those of the first heads, and name one ordinal each.
LEMMA GroupsAre ==
    ASSUME NEW records
    PROVE  LET groups == MapGroups(records).groups
               list   == HeadList(records)
           IN  /\ DOMAIN groups = 1 .. (IF Len(list) > MaximumGroups
                                        THEN MaximumGroups ELSE Len(list))
               /\ \A n \in DOMAIN groups :
                     /\ groups[n].path = records[list[n]].path
                     /\ Len(groups[n].ordinals) = 1
  BY DEF MapGroups, Groups, HeadList, Heads


\* The paths, and what they take.
PathTexts(records) == {records[i].path : i \in DOMAIN records}
PathSizes(S) == SumOn([p \in S |-> 12 + Length[p]], S)

\* As long as all paths may have a group, the smallest are all of them.
LEMMA AllPathsAreKept ==
    ASSUME NEW records \in Seq(Records),
           Cardinality(PathTexts(records)) <= MaximumGroups
    PROVE  /\ SmallestPaths(records) = PathTexts(records)
           /\ PathTexts(records) \in SUBSET Strings
           /\ IsFiniteSet(PathTexts(records))
<1> DEFINE P == PathTexts(records)
<1>1. P \in SUBSET Strings
  <2>1. \A i \in DOMAIN records : records[i] \in Records
    BY PlacesOf
  <2>2. \A i \in DOMAIN records : records[i].path \in Strings
    BY <2>1 DEF Records
  <2> QED
    BY <2>2 DEF PathTexts
<1>2. IsFiniteSet(P)
  BY <1>1, RankIsNumber, FS_Subset
<1>3. ASSUME NEW p \in P
      PROVE  Cardinality({q \in P : TextLess(q, p)}) < MaximumGroups
  <2> DEFINE B == {q \in P : TextLess(q, p)}
  <2>1. B \in SUBSET P /\ P # B
    <3>1. Rank(p) \in Nat
      BY <1>1, RankIsNumber
    <3>2. p \notin B
      BY <3>1 DEF TextLess
    <3> QED
      BY <3>2
  <2> HIDE DEF B, P
  <2>2. Cardinality(B) < Cardinality(P) /\ Cardinality(B) \in Nat
        /\ Cardinality(P) \in Nat
    BY <1>2, <2>1, CountGrows
  <2>3. MaximumGroups \in Nat /\ Cardinality(P) <= MaximumGroups
    BY TextsAssumption DEF P
  <2>4. Cardinality(B) < MaximumGroups
    BY <2>2, <2>3
  <2> QED
    BY <2>4 DEF B
<1>4. SmallestPaths(records) = P
  BY <1>3 DEF SmallestPaths, PathTexts
<1> QED
  BY <1>1, <1>2, <1>4

\* The groups take no more than the paths that are foreseen.
LEMMA GroupsSize ==
    ASSUME NEW records, Distinct(records), NEW groups,
           groups = MapGroups(records).groups,
           Cardinality(PathTexts(records)) <= MaximumGroups
    PROVE  /\ SumOn([n \in DOMAIN groups |->
                 8 + Length[groups[n].path] + 4 * Len(groups[n].ordinals)],
                DOMAIN groups)
              <= PathSizes(SmallestPaths(records))
           /\ SumOn([n \in DOMAIN groups |->
                 8 + Length[groups[n].path] + 4 * Len(groups[n].ordinals)],
                DOMAIN groups) \in Nat
           /\ PathSizes(SmallestPaths(records)) \in Nat
<1> DEFINE S == DOMAIN records
           T == Heads(records)
           R == Earlier(T, records, PathOrder)
           list == HeadList(records)
           I == DOMAIN groups
           P == PathTexts(records)
           u == [n \in I |-> 8 + Length[groups[n].path]
                                + 4 * Len(groups[n].ordinals)]
           h == [n \in I |-> groups[n].path]
           size == [p \in P |-> 12 + Length[p]]
<1>1. /\ records \in Seq(Records) /\ IsFiniteSet(S)
      /\ S = 1 .. Len(records) /\ Len(records) \in Nat
  BY PlacesOf DEF Distinct
<1>2. T \in SUBSET S /\ IsFiniteSet(T)
  <2>1. T \in SUBSET S
    BY DEF Heads
  <2> QED
    BY <1>1, <2>1, FS_Subset
<1>3. IsOrder(R, T)
  <2>1. IsOrder(PathPairs(records), S)
    BY PathOrderIs
  <2>2. \A x, y \in T : <<x, y>> \in R <=> <<x, y>> \in PathPairs(records)
    BY <1>2 DEF Earlier, PathPairs
  <2> HIDE DEF R, T, S
  <2> QED
    BY <1>2, <2>1, <2>2 DEF IsOrder
<1>4. IsList(list, T, R)
  <2> HIDE DEF R, T
  <2>1. list = InOrder(T, R)
    BY DEF HeadList, R, T
  <2> QED
    BY <1>2, <1>3, <2>1, OrderedList
<1>5. /\ Len(list) \in Nat /\ DOMAIN list = 1 .. Len(list)
      /\ \A n \in DOMAIN list : list[n] \in T
      /\ \A m, n \in 1 .. Len(list) : list[m] = list[n] => m = n
  <2> HIDE DEF list, T, R
  <2>1. list \in Seq(T) /\ IsChain(list, R)
    BY <1>4 DEF IsList
  <2> QED
    BY <1>3, <2>1, PlacesOf, ChainIsCounted
<1>6. /\ I \in SUBSET (1 .. Len(list)) /\ IsFiniteSet(I)
      /\ \A n \in I : h[n] = records[list[n]].path /\ Len(groups[n].ordinals) = 1
  <2>1. /\ I = 1 .. (IF Len(list) > MaximumGroups
                     THEN MaximumGroups ELSE Len(list))
        /\ \A n \in I : h[n] = records[list[n]].path
                        /\ Len(groups[n].ordinals) = 1
    BY GroupsAre
  <2> HIDE DEF I, list, h
  <2>2. I \in SUBSET (1 .. Len(list))
    BY <1>5, <2>1, TextsAssumption
  <2>3. IsFiniteSet(1 .. Len(list))
    BY <1>5, NumbersUpTo
  <2> QED
    BY <2>1, <2>2, <2>3, FS_Subset
<1>7. \A i, j \in T : records[i].path = records[j].path => i = j
  BY DEF Heads
<1>8. \A m, n \in I : h[m] = h[n] => m = n
  <2> TAKE m, n \in I
  <2>1. m \in 1 .. Len(list) /\ n \in 1 .. Len(list)
    BY <1>6
  <2>2. list[m] \in T /\ list[n] \in T
    BY <1>5, <2>1
  <2> HIDE DEF list, h, T
  <2> QED
    BY <1>5, <1>6, <1>7, <2>1, <2>2
<1>9. P \in SUBSET Strings /\ IsFiniteSet(P) /\ SmallestPaths(records) = P
  BY <1>1, AllPathsAreKept
<1>10. \A n \in I : h[n] \in P
  <2> TAKE n \in I
  <2>1. list[n] \in S
    BY <1>2, <1>5, <1>6
  <2> HIDE DEF list, h
  <2> QED
    BY <1>6, <2>1 DEF PathTexts
<1>11. \A n \in I : u[n] \in Nat /\ size[h[n]] = u[n]
  <2> TAKE n \in I
  <2>1. h[n] \in P /\ Len(groups[n].ordinals) = 1 /\ h[n] = groups[n].path
    BY <1>6, <1>10
  <2>2. Length[groups[n].path] \in Nat
    BY <1>9, <2>1, SizesAreNumbers
  <2>3. u[n] = 8 + Length[groups[n].path] + 4 * 1
    BY <2>1
  <2>4. size[h[n]] = 12 + Length[groups[n].path]
    BY <2>1
  <2> HIDE DEF u, size, h
  <2> QED
    BY <2>2, <2>3, <2>4
<1>12. Weights(size, P)
  BY <1>9, SizesAreNumbers DEF Weights
<1>13. PathSizes(SmallestPaths(records)) = SumOn(size, P)
  BY <1>9 DEF PathSizes
<1> DEFINE taken == {h[n] : n \in I}
<1>14. taken \in SUBSET P
  BY <1>10
<1>15. SumOn(size, taken) = SumOn(u, I)
  <2>1. Renamed(I, h, size, u)
    BY <1>8, <1>11 DEF Renamed
  <2> HIDE DEF I, h, size, u
  <2> QED
    BY <1>6, <2>1, SumMoves
<1> HIDE DEF I, h, size, u, taken, P
<1>16. /\ SumOn(size, P) = SumOn(size, taken) + SumOn(size, P \ taken)
       /\ SumOn(size, taken) \in Nat /\ SumOn(size, P \ taken) \in Nat
  BY <1>9, <1>12, <1>14, SumOfParts
<1>17. /\ SumOn(u, I) <= PathSizes(SmallestPaths(records))
       /\ SumOn(u, I) \in Nat /\ PathSizes(SmallestPaths(records)) \in Nat
  BY <1>13, <1>15, <1>16
<1> QED
  BY <1>17 DEF u, I

\* What the records take.
RecordSizes(records) == SumOn([i \in DOMAIN records |-> RecordSize(records[i])],
                              DOMAIN records)

\* What is foreseen, section by section.
LEMMA ForeseenIs ==
    ASSUME NEW records, TermsInOrder(records), NEW catalogue
    PROVE  /\ Foreseen(records, catalogue)
                = 38 + catalogue.bytes + 4 * Len(records)
                  + (RecordSizes(records) + 4 * TermCounts(records)
                     + 8 * KeyCounts(records))
                  + TermSizes(records) + KeySizes(records)
                  + PathSizes(SmallestPaths(records))
           /\ RecordSizes(records) \in Nat
<1> DEFINE S == DOMAIN records
           w == [i \in S |-> RecordSize(records[i])]
           x == [i \in S |-> Len(records[i].terms)]
           y == [i \in S |-> Cardinality(Keys(records[i]))]
           x4 == [i \in S |-> 4 * x[i]]
           y8 == [i \in S |-> 8 * y[i]]
           wx == [i \in S |-> w[i] + x4[i]]
           all == [i \in S |-> RecordSize(records[i])
                       + 4 * Len(records[i].terms) + 8 * Cardinality(Keys(records[i]))]
<1>1. records \in Seq(Records)
  BY DEF TermsInOrder
<1>2. IsFiniteSet(S) /\ \A i \in S : records[i] \in Records
  BY <1>1, PlacesOf
<1>3. \A i \in S : w[i] \in Nat /\ x[i] \in Nat /\ y[i] \in Nat
  <2> TAKE i \in S
  <2>1. RecordSize(records[i]) \in Nat
    BY <1>2, SizesAreNumbers
  <2>2. records[i].terms \in Seq(Strings)
    BY <1>2 DEF Records
  <2>3. IsFiniteSet(Keys(records[i]))
    BY <1>1, AllKeysAreTexts
  <2> QED
    BY <2>1, <2>2, <2>3, FS_CardinalityType
<1>4. \A i \in S : /\ x4[i] = 4 * x[i] /\ y8[i] = 8 * y[i]
                   /\ x4[i] \in Nat /\ y8[i] \in Nat
                   /\ wx[i] = w[i] + x4[i] /\ wx[i] \in Nat
                   /\ all[i] = wx[i] + y8[i]
  <2> SUFFICES ASSUME NEW i \in S
               PROVE  /\ x4[i] = 4 * x[i] /\ y8[i] = 8 * y[i]
                      /\ x4[i] \in Nat /\ y8[i] \in Nat
                      /\ wx[i] = w[i] + x4[i] /\ wx[i] \in Nat
                      /\ all[i] = wx[i] + y8[i]
    OBVIOUS
  <2>1. /\ x4[i] = 4 * x[i] /\ y8[i] = 8 * y[i] /\ wx[i] = w[i] + x4[i]
        /\ all[i] = w[i] + 4 * x[i] + 8 * y[i]
    OBVIOUS
  <2> HIDE DEF w, x, y, x4, y8, wx, all, S
  <2> QED
    BY <1>3, <2>1
<1>5. Foreseen(records, catalogue)
        = 22 + 16 + catalogue.bytes + 4 * Len(records) + SumOn(all, S)
            + TermSizes(records) + KeySizes(records)
            + PathSizes(SmallestPaths(records))
  BY DEF Foreseen, Total, SumOn, TermSizes, KeySizes, PathSizes
<1>6. /\ RecordSizes(records) = SumOn(w, S)
      /\ TermCounts(records) = SumOn(x, S)
      /\ KeyCounts(records) = SumOn(y, S)
  BY DEF RecordSizes, TermCounts, KeyCounts
<1> HIDE DEF S, w, x, y, x4, y8, wx, all
<1>7. SumOn(all, S) = SumOn(wx, S) + SumOn(y8, S)
  BY <1>2, <1>4, SumOfSums DEF Weights
<1>8. SumOn(wx, S) = SumOn(w, S) + SumOn(x4, S)
  BY <1>2, <1>3, <1>4, SumOfSums DEF Weights
<1>9. SumOn(x4, S) = 4 * SumOn(x, S) /\ SumOn(y8, S) = 8 * SumOn(y, S)
  BY <1>2, <1>3, <1>4, SumOfMultiples DEF Weights
<1>10. SumOn(w, S) \in Nat
  BY <1>2, <1>3, SumIsNat
<1>11. 22 + 16 = 38
  OBVIOUS
<1> QED
  BY <1>5, <1>6, <1>7, <1>8, <1>9, <1>10, <1>11

\* What is written, section by section.
LEMMA SizeIs ==
    ASSUME NEW file
    PROVE  Size(file)
             = 10 + (4 + RecordSizes(file.records))
                  + (4 + SumOn([i \in DOMAIN file.postings |->
                            8 + Length[file.postings[i].term]
                              + 4 * Len(file.postings[i].ordinals)],
                          DOMAIN file.postings))
                  + (4 + SumOn([i \in DOMAIN file.queries |->
                            12 + KeySize(file.queries[i].key)
                               + 8 * Len(file.queries[i].runs)],
                          DOMAIN file.queries))
                  + (4 + SumOn([i \in DOMAIN file.byPath |-> 4],
                               DOMAIN file.byPath))
                  + (4 + SumOn([i \in DOMAIN file.groups |->
                            8 + Length[file.groups[i].path]
                              + 4 * Len(file.groups[i].ordinals)],
                          DOMAIN file.groups))
                  + 8 + file.catalogue.bytes
  BY DEF Size, Total, SumOn, RecordSizes

\* The size that is foreseen is enough.
THEOREM TheSizeIsForeseen ==
    ASSUME NEW input \in Seq(Records), NEW catalogue \in Catalogs
    PROVE  SizeIsForeseen(input, catalogue)
<1> DEFINE file == Encode(input, catalogue)
           records == Canonical(input)
<1> SUFFICES ASSUME Encodable(input),
                    Cardinality({r.path : r \in Image(input)}) <= MaximumGroups
             PROVE  Size(file) <= Foreseen(records, catalogue)
  BY DEF SizeIsForeseen
<1>1. /\ records \in Seq(Records) /\ RecordsRead(records)
      /\ file.records = records
      /\ file.postings = Postings(records)
      /\ file.queries = Queries(records)
      /\ file.byPath = ByPath(records)
      /\ file.groups = MapGroups(records).groups
      /\ file.catalogue = catalogue
  BY EncodedIsReadable
<1>2. Cardinality(PathTexts(records)) <= MaximumGroups
  <2>1. PathTexts(records) = {r.path : r \in Image(input)}
    BY CanonicalIsRead DEF PathTexts
  <2> QED
    BY <2>1
<1> HIDE DEF file, records
<1>3. Distinct(records) /\ TermsInOrder(records)
  BY <1>1, ReadRecordsAreCanonical
<1> DEFINE b == catalogue.bytes
           n == Len(records)
           A == RecordSizes(records)
           X == TermCounts(records)
           Y == KeyCounts(records)
           T == TermSizes(records)
           K == KeySizes(records)
           P == PathSizes(SmallestPaths(records))
           postings == file.postings
           queries == file.queries
           groups == file.groups
           byPath == file.byPath
           p == SumOn([i \in DOMAIN postings |->
                    8 + Length[postings[i].term] + 4 * Len(postings[i].ordinals)],
                   DOMAIN postings)
           q == SumOn([i \in DOMAIN queries |->
                    12 + KeySize(queries[i].key) + 8 * Len(queries[i].runs)],
                   DOMAIN queries)
           four == [i \in DOMAIN byPath |-> 4]
           o == SumOn(four, DOMAIN byPath)
           g == SumOn([i \in DOMAIN groups |->
                    8 + Length[groups[i].path] + 4 * Len(groups[i].ordinals)],
                   DOMAIN groups)
<1>4. /\ postings = Postings(records) /\ queries = Queries(records)
      /\ groups = MapGroups(records).groups /\ byPath = ByPath(records)
  BY <1>1
<1>5. Size(file) = 10 + (4 + A) + (4 + p) + (4 + q) + (4 + o) + (4 + g) + 8 + b
  BY <1>1, SizeIs
<1>6. Foreseen(records, catalogue) = 38 + b + 4 * n + (A + 4 * X + 8 * Y) + T + K + P
      /\ A \in Nat
  BY <1>3, ForeseenIs
<1> HIDE DEF postings, queries, groups, byPath
<1>7. p = T + 4 * X /\ T \in Nat /\ X \in Nat
  BY <1>3, <1>4, PostingsSize
<1>8. q <= K + 8 * Y /\ q \in Nat /\ K \in Nat /\ Y \in Nat
  BY <1>1, <1>4, QueriesSize
<1>9. g <= P /\ g \in Nat /\ P \in Nat
  BY <1>2, <1>3, <1>4, GroupsSize
<1>10. n \in Nat /\ o = 4 * n
  <2>1. /\ n \in Nat /\ Cardinality(DOMAIN records) = n
        /\ IsList(byPath, DOMAIN records, PathPairs(records))
    BY <1>1, <1>3, <1>4, PathOrderIs, PlacesOf
  <2>2. byPath \in Seq(DOMAIN records) /\ Len(byPath) = n
    BY <2>1 DEF IsList
  <2> DEFINE I == DOMAIN byPath
             one == [i \in I |-> 1]
  <2>3. IsFiniteSet(I) /\ Cardinality(I) = n
    BY <2>2, PlacesOf
  <2>4. \A i \in I : one[i] = 1 /\ one[i] \in Nat /\ four[i] = 4 * one[i]
    OBVIOUS
  <2> HIDE DEF I, one, four, n
  <2>5. SumOn(one, I) = n
    BY <2>3, <2>4, SumOfOnes
  <2>6. SumOn(four, I) = 4 * SumOn(one, I)
    BY <2>3, <2>4, SumOfMultiples DEF Weights
  <2> QED
    BY <2>1, <2>5, <2>6 DEF I
<1>11. b \in Nat
  BY DEF Catalogs
<1> HIDE DEF b, n, A, X, Y, T, K, P, p, q, o, g
<1>12. Size(file) <= Foreseen(records, catalogue)
  BY <1>5, <1>6, <1>7, <1>8, <1>9, <1>10, <1>11
<1> QED
  BY <1>12

=============================================================================
