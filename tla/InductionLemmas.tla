-------------------------- MODULE InductionLemmas --------------------------
(***************************************************************************)
(* Induction, finite orders, subsequences, sums, folds and loops, for the  *)
(* proofs of the components.  The predicate of an induction is a set (the  *)
(* numbers or the subsets for which the claim holds), an order is a set of *)
(* pairs and the step of a fold is a function, so that every prover can    *)
(* instantiate them.                                                       *)
(***************************************************************************)
EXTENDS Integers, Sequences, FiniteSets, FiniteSetTheorems, Collections, TLAPS

\* Every non-empty set of naturals has a least element.
LEMMA LeastNumber ==
  ASSUME NEW T \in SUBSET Nat, T # {}
  PROVE  \E n \in T : \A m \in T : n <= m
<1>1. \A m, n \in Nat : m < n => <<m, n>> \in OpToRel(<, Nat)
  BY DEF OpToRel
<1>2. \E R : IsWellFoundedOn(R, Nat) /\ \A m, n \in Nat : m < n => <<m, n>> \in R
  BY <1>1, NatLessThanWellFounded
<1>3. PICK R : IsWellFoundedOn(R, Nat) /\ \A m, n \in Nat : m < n => <<m, n>> \in R
  BY <1>2
<1>4. T \subseteq Nat /\ IsWellFoundedOn(R, Nat)
  BY <1>3
<1>5. \E n \in T : \A m \in T : ~ (<<m, n>> \in R)
  BY <1>4, WFMin, Zenon
<1>6. PICK n \in T : \A m \in T : ~ (<<m, n>> \in R)
  BY <1>5
<1>7. \A m \in T : ~ (m < n)
  BY <1>3, <1>4, <1>6
<1> QED
  BY <1>4, <1>7

\* Strong induction on the size of a subset, with a set for the predicate.
LEMMA SubsetInduction ==
  ASSUME NEW S, IsFiniteSet(S), NEW Good,
         \A T \in SUBSET S : (\A x \in T : T \ {x} \in Good) => T \in Good
  PROVE  \A T \in SUBSET S : T \in Good
<1> DEFINE Sizes == {n \in Nat : \E T \in SUBSET S : T \notin Good /\ Cardinality(T) = n}
<1>1. SUFFICES ASSUME NEW T \in SUBSET S, T \notin Good PROVE FALSE
  OBVIOUS
<1>2. \A U \in SUBSET S : IsFiniteSet(U) /\ Cardinality(U) \in Nat
  BY FS_Subset, FS_CardinalityType
<1>3. Cardinality(T) \in Sizes
  BY <1>1, <1>2
<1>4. PICK n \in Sizes : \A m \in Sizes : n <= m
  BY <1>3, LeastNumber
<1>5. PICK U \in SUBSET S : U \notin Good /\ Cardinality(U) = n
  BY <1>4
<1>6. PICK x \in U : U \ {x} \notin Good
  BY <1>5
<1>7. Cardinality(U \ {x}) = n - 1 /\ U \ {x} \in SUBSET S
  BY <1>2, <1>5, <1>6, FS_RemoveElement
<1>8. n - 1 \in Sizes
  BY <1>2, <1>6, <1>7
<1> QED
  BY <1>4, <1>8

LEMMA NumberInduction ==
  ASSUME NEW Good, 0 \in Good, \A n \in Nat : n \in Good => n + 1 \in Good
  PROVE  \A n \in Nat : n \in Good
<1>1. SUFFICES ASSUME Nat \ Good # {} PROVE FALSE
  OBVIOUS
<1>2. PICK n \in Nat \ Good : \A m \in Nat \ Good : n <= m
  BY <1>1, LeastNumber
<1>3. n - 1 \in Nat /\ n - 1 \in Good
  BY <1>2
<1> QED
  BY <1>2, <1>3

-----------------------------------------------------------------------------
(* Finite orders.                                                          *)

\* R orders S strictly, with no two elements of S unrelated.
Orders(R, S) ==
    /\ \A x \in S : <<x, x>> \notin R
    /\ \A x, y \in S : x # y => <<x, y>> \in R \/ <<y, x>> \in R
    /\ \A x, y, z \in S : <<x, y>> \in R /\ <<y, z>> \in R => <<x, z>> \in R

\* The elements up to x.
UpTo(x, R, S) == {y \in S : <<y, x>> \in R \/ y = x}

\* Counting the elements up to each one numbers a finite set along its order.
LEMMA Places ==
  ASSUME NEW S, IsFiniteSet(S), NEW R, Orders(R, S)
  PROVE  /\ \A x \in S : Cardinality(UpTo(x, R, S)) \in 1 .. Cardinality(S)
         /\ \A x, y \in S : <<x, y>> \in R => Cardinality(UpTo(x, R, S)) < Cardinality(UpTo(y, R, S))
         /\ \A n \in 1 .. Cardinality(S) : \E x \in S : Cardinality(UpTo(x, R, S)) = n
<1> DEFINE place == [x \in S |-> Cardinality(UpTo(x, R, S))]
<1>1. ASSUME NEW x \in S
      PROVE  /\ IsFiniteSet(UpTo(x, R, S)) /\ Cardinality(UpTo(x, R, S)) \in 1 .. Cardinality(S)
  <2>1. UpTo(x, R, S) \subseteq S /\ x \in UpTo(x, R, S)
    BY DEF UpTo
  <2>2. IsFiniteSet(UpTo(x, R, S)) /\ Cardinality(UpTo(x, R, S)) <= Cardinality(S)
    BY <2>1, FS_Subset
  <2>3. Cardinality(UpTo(x, R, S)) # 0
    BY <2>1, <2>2, FS_EmptySet
  <2>4. PICK m \in Nat, n \in Nat : m = Cardinality(UpTo(x, R, S)) /\ n = Cardinality(S)
    BY <2>2, FS_CardinalityType
  <2>5. m \in 1 .. n
    BY <2>2, <2>3, <2>4
  <2> QED
    BY <2>2, <2>4, <2>5
<1>2. ASSUME NEW x \in S, NEW y \in S, <<x, y>> \in R
      PROVE  Cardinality(UpTo(x, R, S)) < Cardinality(UpTo(y, R, S))
  <2>1. UpTo(x, R, S) \subseteq UpTo(y, R, S)
    BY <1>2 DEF Orders, UpTo
  <2>2. y \in UpTo(y, R, S) /\ y \notin UpTo(x, R, S)
    BY <1>2 DEF Orders, UpTo
  <2>3. /\ Cardinality(UpTo(x, R, S)) <= Cardinality(UpTo(y, R, S))
        /\ Cardinality(UpTo(x, R, S)) # Cardinality(UpTo(y, R, S))
    BY <1>1, <2>1, <2>2, FS_Subset
  <2>4. PICK m \in Nat, n \in Nat : m = Cardinality(UpTo(x, R, S)) /\ n = Cardinality(UpTo(y, R, S))
    BY <1>1, FS_CardinalityType
  <2> QED
    BY <2>3, <2>4
<1>3. place \in Injection(S, 1 .. Cardinality(S))
  <2>1. place \in [S -> 1 .. Cardinality(S)]
    BY <1>1
  <2>2. ASSUME NEW x \in S, NEW y \in S, place[x] = place[y] PROVE x = y
    <3>1. PICK m \in Nat, n \in Nat : m = Cardinality(UpTo(x, R, S)) /\ n = Cardinality(UpTo(y, R, S))
      BY <1>1, FS_CardinalityType
    <3>2. m = n
      BY <2>2, <3>1
    <3>3. ASSUME <<x, y>> \in R \/ <<y, x>> \in R PROVE FALSE
      <4>1. CASE <<x, y>> \in R
        <5>1. Cardinality(UpTo(x, R, S)) < Cardinality(UpTo(y, R, S))
          BY <1>2, <4>1
        <5> QED
          BY <3>1, <3>2, <5>1
      <4>2. CASE <<y, x>> \in R
        <5>1. Cardinality(UpTo(y, R, S)) < Cardinality(UpTo(x, R, S))
          BY <1>2, <4>2
        <5> QED
          BY <3>1, <3>2, <5>1
      <4> QED
        BY <3>3, <4>1, <4>2
    <3> QED
      BY <3>3 DEF Orders
  <2> HIDE DEF place
  <2> QED
    BY <2>1, <2>2 DEF Injection, IsInjective
<1>4. Cardinality(S) \in Nat
  BY FS_CardinalityType
<1>5. IsFiniteSet(1 .. Cardinality(S)) /\ Cardinality(1 .. Cardinality(S)) = Cardinality(S)
  <2>1. PICK n \in Nat : n = Cardinality(S)
    BY <1>4
  <2>2. IsFiniteSet(1 .. n) /\ Cardinality(1 .. n) = IF 1 > n THEN 0 ELSE n - 1 + 1
    BY FS_Interval
  <2> QED
    BY <2>1, <2>2
<1>6. place \in Surjection(S, 1 .. Cardinality(S))
  <2> HIDE DEF place
  <2> QED
    BY <1>3, <1>5, FS_Injection
<1>7. ASSUME NEW n \in 1 .. Cardinality(S) PROVE \E x \in S : Cardinality(UpTo(x, R, S)) = n
  BY <1>6 DEF Surjection
<1> QED
  BY <1>1, <1>2, <1>7

\* A finite order can be written as a sequence.
LEMMA OrderedSequence ==
  ASSUME NEW S, IsFiniteSet(S), NEW R, Orders(R, S)
  PROVE  \E s \in [1 .. Cardinality(S) -> S] :
            \A i, j \in 1 .. Cardinality(S) : i < j => <<s[i], s[j]>> \in R
<1> DEFINE At(n) == CHOOSE x \in S : Cardinality(UpTo(x, R, S)) = n
           s == [n \in 1 .. Cardinality(S) |-> At(n)]
<1>1. ASSUME NEW n \in 1 .. Cardinality(S)
      PROVE  At(n) \in S /\ Cardinality(UpTo(At(n), R, S)) = n
  BY Places
<1> HIDE DEF At
<1>2. ASSUME NEW i \in 1 .. Cardinality(S), NEW j \in 1 .. Cardinality(S), i < j
      PROVE  <<At(i), At(j)>> \in R
  <2>1. Cardinality(S) \in Nat
    BY FS_CardinalityType
  <2>2. i \in Int /\ j \in Int
    BY <2>1
  <2>3. At(i) # At(j)
    BY <1>1, <1>2, <2>2
  <2>4. ~ (<<At(j), At(i)>> \in R)
    <3>1. <<At(j), At(i)>> \in R => j < i
      BY <1>1, Places
    <3> QED
      BY <1>2, <2>2, <3>1
  <2> QED
    BY <1>1, <2>3, <2>4 DEF Orders
<1>3. s \in [1 .. Cardinality(S) -> S]
  BY <1>1
<1>4. \A i, j \in 1 .. Cardinality(S) : i < j => <<s[i], s[j]>> \in R
  BY <1>2
<1> QED
  BY <1>3, <1>4

-----------------------------------------------------------------------------
(* Subsequences.                                                           *)

\* The indices of what is picked from s, in order.
Indices(at, s, S) ==
    LET c == Cardinality(S)
    IN  /\ c \in Nat /\ at \in [1 .. c -> S]
        /\ DOMAIN Picked(s, S) = 1 .. c
        /\ \A k \in 1 .. c : Picked(s, S)[k] = s[at[k]]
        /\ \A k, l \in 1 .. c : k < l => at[k] < at[l]
        /\ \A i \in S : \E k \in 1 .. c : at[k] = i

LEMMA PickedIndices ==
  ASSUME NEW s, NEW n \in Nat, NEW S \in SUBSET (1 .. n)
  PROVE  \E at : Indices(at, s, S)
<1> DEFINE R == {r \in S \X S : r[1] < r[2]}
           place(i) == Cardinality({j \in S : j <= i})
           at(k) == CHOOSE i \in S : place(i) = k
<1>1. IsFiniteSet(S) /\ Cardinality(S) \in Nat
  <2>1. IsFiniteSet(1 .. n)
    BY FS_Interval
  <2>2. IsFiniteSet(S)
    BY <2>1, FS_Subset
  <2> QED
    BY <2>2, FS_CardinalityType
<1>2. \A x, y \in S : x \in Int /\ (<<x, y>> \in R <=> x < y)
  OBVIOUS
<1>3. Orders(R, S)
  <2> HIDE DEF R
  <2> QED
    BY <1>2 DEF Orders
<1>4. /\ \A x \in S : place(x) \in 1 .. Cardinality(S)
      /\ \A x, y \in S : <<x, y>> \in R => place(x) < place(y)
      /\ \A k \in 1 .. Cardinality(S) : \E x \in S : place(x) = k
  <2> HIDE DEF R
  <2>1. \A i \in S : UpTo(i, R, S) = {j \in S : j <= i}
    <3> SUFFICES ASSUME NEW i \in S, NEW j \in S PROVE <<j, i>> \in R \/ j = i <=> j <= i
      BY DEF UpTo
    <3> QED
      BY <1>2
  <2>2. \A i \in S : Cardinality(UpTo(i, R, S)) = place(i)
    BY <2>1
  <2>3. /\ \A x \in S : Cardinality(UpTo(x, R, S)) \in 1 .. Cardinality(S)
        /\ \A x, y \in S : <<x, y>> \in R => Cardinality(UpTo(x, R, S)) < Cardinality(UpTo(y, R, S))
        /\ \A k \in 1 .. Cardinality(S) : \E x \in S : Cardinality(UpTo(x, R, S)) = k
    BY <1>1, <1>3, Places
  <2> HIDE DEF place
  <2> QED
    BY <2>2, <2>3
<1>5. \A x, y \in S : place(x) = place(y) => x = y
  <2> SUFFICES ASSUME NEW x \in S, NEW y \in S, place(x) = place(y), x # y PROVE FALSE
    <3> HIDE DEF place
    <3> QED
      OBVIOUS
  <2>1. <<x, y>> \in R \/ <<y, x>> \in R
    <3> HIDE DEF R, place
    <3> QED
      BY <1>2
  <2>2. place(x) \in Nat /\ place(y) \in Nat
    <3> HIDE DEF place
    <3> QED
      BY <1>1, <1>4
  <2> HIDE DEF place, R
  <2> QED
    BY <1>4, <2>1, <2>2
<1>6. ASSUME NEW k \in 1 .. Cardinality(S) PROVE at(k) \in S /\ place(at(k)) = k
  <2> HIDE DEF place
  <2> QED
    BY <1>4
<1>7. Picked(s, S) = [k \in 1 .. Cardinality(S) |-> s[at(k)]]
  BY DEF Picked
<1> HIDE DEF at, place
<1>8. \A i \in S : place(i) \in 1 .. Cardinality(S) /\ at(place(i)) = i
  BY <1>4, <1>5, <1>6
<1>9. ASSUME NEW k \in 1 .. Cardinality(S), NEW l \in 1 .. Cardinality(S), k < l
      PROVE  at(k) < at(l)
  <2> HIDE DEF R
  <2>1. PICK x \in S, y \in S : x = at(k) /\ y = at(l) /\ place(x) = k /\ place(y) = l
    BY <1>6
  <2>2. k \in Int /\ l \in Int /\ x \in Int /\ y \in Int
    BY <1>1
  <2>3. y < x => l < k
    <3>1. y < x => <<y, x>> \in R
      BY <1>2
    <3>2. <<y, x>> \in R => place(y) < place(x)
      BY <1>4
    <3> QED
      BY <2>1, <3>1, <3>2
  <2>4. x # y
    BY <1>9, <2>1, <2>2
  <2>5. x < y
    BY <1>9, <2>2, <2>3, <2>4
  <2> QED
    BY <2>1, <2>5
<1> DEFINE f == [k \in 1 .. Cardinality(S) |-> at(k)]
<1>10. Indices(f, s, S)
  <2> HIDE DEF R
  <2> QED
    BY <1>1, <1>6, <1>7, <1>8, <1>9 DEF Indices
<1> HIDE DEF f, R
<1> QED
  BY <1>10

\* The elements picked are those at the indices, each once.
LEMMA PickedFacts ==
  ASSUME NEW s, NEW n \in Nat, NEW S \in SUBSET (1 .. n)
  PROVE  /\ Cardinality(S) \in Nat /\ DOMAIN Picked(s, S) = 1 .. Cardinality(S)
         /\ \A k \in 1 .. Cardinality(S) : \E i \in S : Picked(s, S)[k] = s[i]
         /\ \A i \in S : \E k \in 1 .. Cardinality(S) : Picked(s, S)[k] = s[i]
         /\ (\A i, j \in S : s[i] = s[j] => i = j) =>
               \A k, l \in 1 .. Cardinality(S) : Picked(s, S)[k] = Picked(s, S)[l] => k = l
<1>1. PICK at : Indices(at, s, S)
  BY PickedIndices
<1>2. PICK c, q : c = Cardinality(S) /\ q = Picked(s, S)
  OBVIOUS
<1>3. /\ c \in Nat /\ at \in [1 .. c -> S] /\ DOMAIN q = 1 .. c
      /\ \A k \in 1 .. c : q[k] = s[at[k]]
  BY <1>1, <1>2 DEF Indices
<1>4. \A k, l \in 1 .. c : k < l => at[k] < at[l]
  BY <1>1, <1>2 DEF Indices
<1>5. \A i \in S : \E k \in 1 .. c : at[k] = i
  BY <1>1, <1>2 DEF Indices
<1>6. ASSUME \A i, j \in S : s[i] = s[j] => i = j, NEW k \in 1 .. c, NEW l \in 1 .. c, q[k] = q[l]
      PROVE  k = l
  <2>1. at[k] \in S /\ at[l] \in S /\ s[at[k]] = s[at[l]]
    BY <1>3, <1>6
  <2>2. at[k] = at[l]
    BY <1>6, <2>1
  <2>3. \A x \in S : x \in Int
    OBVIOUS
  <2>4. at[k] \in Int
    BY <2>1, <2>3
  <2>5. k \in Int /\ l \in Int
    BY <1>3
  <2> QED
    BY <1>4, <2>2, <2>4, <2>5
<1>7. /\ \A k \in 1 .. c : \E i \in S : q[k] = s[i]
      /\ \A i \in S : \E k \in 1 .. c : q[k] = s[i]
  BY <1>3, <1>5, ZenonT(60)
<1> QED
  BY <1>2, <1>3, <1>6, <1>7

LEMMA PickedSeq ==
  ASSUME NEW s, NEW n \in Nat, NEW S \in SUBSET (1 .. n), NEW R, \A i \in S : s[i] \in R
  PROVE  Picked(s, S) \in Seq(R) /\ Len(Picked(s, S)) = Cardinality(S)
<1>1. PICK q, c : q = Picked(s, S) /\ c = Cardinality(S)
  OBVIOUS
<1>2. c \in Nat /\ DOMAIN q = 1 .. c /\ \A k \in 1 .. c : \E i \in S : q[k] = s[i]
  <2>1. PICK at : Indices(at, s, S)
    BY PickedIndices
  <2> QED
    BY <1>1, <2>1 DEF Indices
<1>3. \A k \in 1 .. c : q[k] \in R
  BY <1>2
<1>4. q = [k \in 1 .. c |-> s[CHOOSE i \in S : Cardinality({j \in S : j <= i}) = k]]
  BY <1>1 DEF Picked
<1>5. q \in [1 .. c -> R]
  BY <1>2, <1>3, <1>4
<1> QED
  BY <1>1, <1>2, <1>5

\* The elements of a set of numbers in order, each once.
Ascends(q, c, S) ==
    /\ c \in Nat /\ q \in [1 .. c -> S] /\ Len(q) = c
    /\ \A k \in 1 .. c : q[k] \in S /\ q[k] \in Int
    /\ \A k, l \in 1 .. c : k < l => q[k] < q[l]
    /\ \A t \in S : \E k \in 1 .. c : q[k] = t

LEMMA AscendingIs ==
  ASSUME NEW n \in Nat, NEW S \in SUBSET (1 .. n)
  PROVE  Ascends(Ascending(S), Cardinality(S), S)
<1>0. PICK c, q : c = Cardinality(S) /\ q = Ascending(S)
  OBVIOUS
<1>1. PICK s : s = [t \in S |-> t]
  OBVIOUS
<1>2. q = Picked(s, S)
  BY <1>0, <1>1 DEF Ascending
<1>3. PICK at : Indices(at, s, S)
  BY PickedIndices
<1>4. /\ c \in Nat /\ at \in [1 .. c -> S] /\ DOMAIN q = 1 .. c
      /\ \A k \in 1 .. c : q[k] = s[at[k]]
      /\ \A k, l \in 1 .. c : k < l => at[k] < at[l]
      /\ \A i \in S : \E k \in 1 .. c : at[k] = i
  BY <1>0, <1>2, <1>3 DEF Indices
<1>5. \A k \in 1 .. c : q[k] = at[k]
  BY <1>1, <1>4
<1>6. q = [k \in 1 .. c |-> q[k]]
  BY <1>0, <1>2, <1>4 DEF Picked
<1>7. q \in [1 .. c -> S]
  BY <1>4, <1>5, <1>6
<1>8. Len(q) = c
  BY <1>4, <1>7
<1>9. \A t \in S : \E k \in 1 .. c : q[k] = t
  BY <1>4, <1>5
<1>10. \A k \in 1 .. c : q[k] \in S /\ q[k] \in Int
  <2>1. \A t \in S : t \in Int
    OBVIOUS
  <2> QED
    BY <1>7, <2>1
<1>11. Ascends(q, c, S)
  BY <1>4, <1>5, <1>7, <1>8, <1>9, <1>10 DEF Ascends
<1> QED
  BY <1>0, <1>11

\* The k-th has k elements up to it.
LEMMA AscendingPlace ==
  ASSUME NEW n \in Nat, NEW S \in SUBSET (1 .. n), NEW k \in 1 .. Cardinality(S)
  PROVE  Ascending(S)[k] \in S /\ Cardinality({x \in S : x <= Ascending(S)[k]}) = k
<1>1. PICK c, q : c = Cardinality(S) /\ q = Ascending(S)
  OBVIOUS
<1>2. Ascends(q, c, S)
  BY <1>1, AscendingIs
<1>3. /\ c \in Nat /\ \A l \in 1 .. c : q[l] \in S /\ q[l] \in Int
      /\ \A l, m \in 1 .. c : l < m => q[l] < q[m]
      /\ \A x \in S : \E l \in 1 .. c : q[l] = x
  BY <1>2 DEF Ascends
<1>4. k \in 1 .. c /\ k \in Nat
  BY <1>1, <1>3
<1> DEFINE T == {x \in S : x <= q[k]}
           f == [l \in 1 .. k |-> q[l]]
<1>5. \A l \in 1 .. k : l \in 1 .. c
  BY <1>3, <1>4
<1>6. ASSUME NEW l \in 1 .. c, NEW m \in 1 .. c, q[l] <= q[m] PROVE l <= m
  <2>1. ASSUME m < l PROVE FALSE
    <3>1. q[m] < q[l] /\ q[m] \in Int /\ q[l] \in Int
      BY <1>3, <2>1
    <3> QED
      BY <1>6, <3>1
  <2> QED
    BY <1>3, <2>1
<1>7. \A l \in 1 .. k : q[l] \in T
  <2> SUFFICES ASSUME NEW l \in 1 .. k PROVE q[l] <= q[k]
    BY <1>3, <1>5
  <2>1. CASE l = k
    BY <1>3, <1>4, <2>1
  <2>2. CASE l # k
    <3>1. q[l] < q[k] /\ q[l] \in Int /\ q[k] \in Int
      BY <1>3, <1>4, <1>5, <2>2
    <3> QED
      BY <3>1
  <2> QED
    BY <2>1, <2>2
<1>8. \A l, m \in 1 .. k : q[l] = q[m] => l = m
  <2> SUFFICES ASSUME NEW l \in 1 .. k, NEW m \in 1 .. k, q[l] = q[m] PROVE l = m
    OBVIOUS
  <2>1. q[l] \in Int /\ q[m] \in Int /\ l \in 1 .. c /\ m \in 1 .. c
    BY <1>3, <1>5
  <2>2. l <= m /\ m <= l
    BY <1>6, <2>1
  <2> QED
    BY <1>3, <2>1, <2>2
<1>9. \A x \in T : \E l \in 1 .. k : q[l] = x
  <2> SUFFICES ASSUME NEW x \in T PROVE \E l \in 1 .. k : q[l] = x
    OBVIOUS
  <2>1. PICK l \in 1 .. c : q[l] = x
    BY <1>3
  <2>2. l <= k
    BY <1>4, <1>6, <2>1
  <2> QED
    BY <1>3, <1>4, <2>1, <2>2
<1> HIDE DEF T
<1>10. f \in [1 .. k -> T] /\ \A l \in 1 .. k : f[l] = q[l]
  BY <1>7
<1> HIDE DEF f
<1>11. \A l, m \in 1 .. k : f[l] = f[m] => l = m
  BY <1>8, <1>10
<1>12. \A x \in T : \E l \in 1 .. k : f[l] = x
  BY <1>9, <1>10
<1>13. f \in Bijection(1 .. k, T)
  BY <1>10, <1>11, <1>12 DEF Bijection, Injection, Surjection, IsInjective
<1>14. ExistsBijection(1 .. k, T)
  BY <1>13 DEF ExistsBijection
<1>15. Cardinality(T) = k
  BY <1>4, <1>14, FS_CountingElements
<1> QED
  BY <1>1, <1>3, <1>4, <1>15 DEF T

\* What is the same up to the k-th has the same k-th.
LEMMA AscendingAgree ==
  ASSUME NEW n \in Nat, NEW S \in SUBSET (1 .. n), NEW R \in SUBSET (1 .. n),
         NEW k \in 1 .. Cardinality(S), \A x \in 1 .. Ascending(S)[k] : x \in S <=> x \in R
  PROVE  k \in 1 .. Cardinality(R) /\ Ascending(R)[k] = Ascending(S)[k]
<1>1. PICK y : y = Ascending(S)[k]
  OBVIOUS
<1>2. y \in S /\ Cardinality({x \in S : x <= y}) = k /\ \A x \in 1 .. y : x \in S <=> x \in R
  BY <1>1, AscendingPlace
<1>3. y \in R
  BY <1>2
<1>4. {x \in S : x <= y} = {x \in R : x <= y}
  <2>1. y \in Int /\ \A x \in S : x \in Int /\ 1 <= x
    BY <1>2
  <2>2. \A x \in R : x \in Int /\ 1 <= x
    OBVIOUS
  <2>3. \A x \in Int : 1 <= x /\ x <= y => x \in 1 .. y
    BY <2>1
  <2>4. \A x : x \in S /\ x <= y => x \in R
    BY <1>2, <2>1, <2>3
  <2>5. \A x : x \in R /\ x <= y => x \in S
    BY <1>2, <2>1, <2>2, <2>3
  <2> QED
    BY <2>4, <2>5
<1>5. PICK d, p : d = Cardinality(R) /\ p = Ascending(R)
  OBVIOUS
<1>6. Ascends(p, d, R)
  BY <1>5, AscendingIs
<1>7. PICK l \in 1 .. d : p[l] = y
  BY <1>3, <1>6 DEF Ascends
<1>8. Cardinality({x \in R : x <= y}) = l
  BY <1>5, <1>7, AscendingPlace
<1>9. l = k
  BY <1>2, <1>4, <1>8
<1> QED
  BY <1>1, <1>5, <1>7, <1>9

-----------------------------------------------------------------------------
(* Sums over finite sets, as the fold of the library computes them.        *)

Chosen(s) == CHOOSE x \in s : TRUE

\* The function the fold of the library is defined by.
Partial(f, g, S) ==
    f = [s \in SUBSET S |-> IF s = {} THEN 0 ELSE g[Chosen(s)] + f[s \ {Chosen(s)}]]

LEMMA ChosenIn == ASSUME NEW s, s # {} PROVE Chosen(s) \in s
  BY DEF Chosen

LEMMA SumIsPartial ==
  ASSUME NEW g, NEW S PROVE SumOver(g, S) = (CHOOSE f : Partial(f, g, S))[S]
  BY DEF SumOver, Partial, Chosen, MapThenSumSet, MapThenFoldSet

LEMMA PartialExists ==
  ASSUME NEW g, NEW S, IsFiniteSet(S)
  PROVE  \E f : Partial(f, g, S)
<1> DEFINE Step(f, s) == IF s = {} THEN 0 ELSE g[Chosen(s)] + f[s \ {Chosen(s)}]
           Small(n) == {s \in SUBSET S : Cardinality(s) <= n}
           Good == {n \in Nat : \E f : f = [s \in Small(n) |-> Step(f, s)]}
<1>1. \A s \in SUBSET S : IsFiniteSet(s) /\ Cardinality(s) \in Nat
  BY FS_Subset, FS_CardinalityType
<1>2. 0 \in Good
  <2>1. \A s \in Small(0) : s = {}
    BY <1>1, FS_EmptySet
  <2> DEFINE f == [s \in Small(0) |-> 0]
  <2>2. f = [s \in Small(0) |-> Step(f, s)]
    BY <2>1
  <2> QED
    BY <2>2
<1>3. ASSUME NEW n \in Nat, n \in Good PROVE n + 1 \in Good
  <2>1. PICK f : f = [s \in Small(n) |-> Step(f, s)]
    BY <1>3
  <2> DEFINE h == [s \in Small(n + 1) |-> Step(f, s)]
  <2>2. ASSUME NEW s \in Small(n + 1), s # {}
        PROVE  s \ {Chosen(s)} \in Small(n) /\ s \ {Chosen(s)} \in Small(n + 1)
    <3>1. Chosen(s) \in s
      BY <2>2, ChosenIn
    <3>2. Cardinality(s \ {Chosen(s)}) = Cardinality(s) - 1
      BY <1>1, <3>1, FS_RemoveElement
    <3> QED
      BY <1>1, <3>2
  <2>3. \A s \in Small(n) : h[s] = f[s]
    <3>1. \A s \in Small(n) : f[s] = Step(f, s)
      BY <2>1
    <3>2. \A s \in Small(n) : s \in Small(n + 1)
      BY <1>1
    <3> HIDE DEF Small, Step
    <3> QED
      BY <3>1, <3>2
  <2>4. \A s \in Small(n + 1) : Step(f, s) = Step(h, s)
    BY <2>2, <2>3
  <2>5. h = [s \in Small(n + 1) |-> Step(h, s)]
    <3> HIDE DEF Small, Step
    <3> QED
      BY <2>4
  <2>6. \E k : k = [s \in Small(n + 1) |-> Step(k, s)]
    <3> HIDE DEF h, Small, Step
    <3> QED
      BY <2>5
  <2> HIDE DEF Small, Step
  <2> QED
    BY <2>6
<1>4. Cardinality(S) \in Good
  <2> HIDE DEF Good
  <2>1. \A n \in Nat : n \in Good
    BY <1>2, <1>3, NumberInduction
  <2> QED
    BY <2>1, FS_CardinalityType
<1>5. Small(Cardinality(S)) = SUBSET S
  BY FS_Subset
<1> QED
  BY <1>4, <1>5 DEF Partial

\* A total does not depend on the set whose subsets it was unfolded over.
LEMMA SumUnfolds ==
  ASSUME NEW g, NEW S, IsFiniteSet(S)
  PROVE  SumOver(g, S) = IF S = {} THEN 0 ELSE g[Chosen(S)] + SumOver(g, S \ {Chosen(S)})
<1>1. PICK f : Partial(f, g, S) /\ SumOver(g, S) = f[S]
  BY PartialExists, SumIsPartial
<1>2. ASSUME S # {}
      PROVE  f[S \ {Chosen(S)}] = SumOver(g, S \ {Chosen(S)})
  <2> DEFINE R == S \ {Chosen(S)}

  <2>1. IsFiniteSet(R)
    BY FS_RemoveElement
  <2>2. PICK h : Partial(h, g, R) /\ SumOver(g, R) = h[R]
    BY <2>1, PartialExists, SumIsPartial
  <2> DEFINE Same == {T \in SUBSET R : f[T] = h[T]}
  <2>3. ASSUME NEW T \in SUBSET R, \A x \in T : T \ {x} \in Same
        PROVE  T \in Same
    <3>1. T \in SUBSET S
      OBVIOUS
    <3>2. T # {} => f[T \ {Chosen(T)}] = h[T \ {Chosen(T)}]
      BY <2>3, ChosenIn
    <3>3. f[T] = IF T = {} THEN 0 ELSE g[Chosen(T)] + f[T \ {Chosen(T)}]
      BY <1>1, <3>1 DEF Partial
    <3>4. h[T] = IF T = {} THEN 0 ELSE g[Chosen(T)] + h[T \ {Chosen(T)}]
      BY <2>2 DEF Partial
    <3> QED
      BY <3>2, <3>3, <3>4
  <2>4. R \in Same
    <3> HIDE DEF Same
    <3>1. \A T \in SUBSET R : T \in Same
      BY <2>1, <2>3, SubsetInduction
    <3> QED
      BY <3>1
  <2> QED
    BY <2>2, <2>4
<1>3. f[S] = IF S = {} THEN 0 ELSE g[Chosen(S)] + f[S \ {Chosen(S)}]
  BY <1>1 DEF Partial
<1> QED
  BY <1>1, <1>2, <1>3

LEMMA SumType ==
  ASSUME NEW S, IsFiniteSet(S), NEW g, \A t \in S : g[t] \in Int
  PROVE  \A T \in SUBSET S : SumOver(g, T) \in Int
<1> DEFINE Good == {T \in SUBSET S : SumOver(g, T) \in Int}
<1>1. ASSUME NEW T \in SUBSET S, \A x \in T : T \ {x} \in Good PROVE T \in Good
  <2>1. SumOver(g, T) = IF T = {} THEN 0 ELSE g[Chosen(T)] + SumOver(g, T \ {Chosen(T)})
    BY FS_Subset, SumUnfolds
  <2> QED
    BY <1>1, <2>1, ChosenIn
<1> HIDE DEF Good
<1>2. \A T \in SUBSET S : T \in Good
  BY <1>1, SubsetInduction
<1> QED
  BY <1>2 DEF Good

\* Whatever element is taken out first, the total is the same.
LEMMA SumWithout ==
  ASSUME NEW S, IsFiniteSet(S), NEW g, \A t \in S : g[t] \in Int
  PROVE  \A T \in SUBSET S : \A x \in T : SumOver(g, T) = g[x] + SumOver(g, T \ {x})
<1> DEFINE Good == {T \in SUBSET S : \A x \in T : SumOver(g, T) = g[x] + SumOver(g, T \ {x})}
<1>1. ASSUME NEW T \in SUBSET S, \A x \in T : T \ {x} \in Good,
             NEW x \in T
      PROVE  SumOver(g, T) = g[x] + SumOver(g, T \ {x})
  <2> DEFINE c == Chosen(T)
  <2>1. c \in T
    BY ChosenIn
  <2> HIDE DEF c
  <2>2. SumOver(g, T) = g[c] + SumOver(g, T \ {c})
    BY FS_Subset, SumUnfolds DEF c
  <2>3. CASE x = c
    BY <2>2, <2>3
  <2>4. CASE x # c
    <3>1. SumOver(g, T \ {c}) = g[x] + SumOver(g, (T \ {c}) \ {x})
      BY <1>1, <2>1, <2>4
    <3>2. SumOver(g, T \ {x}) = g[c] + SumOver(g, (T \ {x}) \ {c})
      BY <1>1, <2>1, <2>4
    <3>3. (T \ {c}) \ {x} = (T \ {x}) \ {c}
      OBVIOUS
    <3>4. SumOver(g, (T \ {x}) \ {c}) \in Int /\ g[x] \in Int /\ g[c] \in Int
      BY <2>1, SumType
    <3>5. SumOver(g, T \ {c}) = g[x] + SumOver(g, (T \ {x}) \ {c})
      BY <3>1, <3>3
    <3> QED
      BY <2>2, <3>2, <3>4, <3>5
  <2> QED
    BY <2>3, <2>4
<1>2. ASSUME NEW T \in SUBSET S, \A x \in T : T \ {x} \in Good PROVE T \in Good
  BY <1>1, <1>2
<1> HIDE DEF Good
<1>3. \A T \in SUBSET S : T \in Good
  BY <1>2, SubsetInduction
<1> QED
  BY <1>3 DEF Good

LEMMA SumSame ==
  ASSUME NEW S, IsFiniteSet(S), NEW g, NEW h, \A t \in S : g[t] = h[t]
  PROVE  SumOver(g, S) = SumOver(h, S)
<1> DEFINE Good == {T \in SUBSET S : SumOver(g, T) = SumOver(h, T)}
<1>1. ASSUME NEW T \in SUBSET S, \A x \in T : T \ {x} \in Good PROVE T \in Good
  <2>1. /\ SumOver(g, T) = IF T = {} THEN 0 ELSE g[Chosen(T)] + SumOver(g, T \ {Chosen(T)})
        /\ SumOver(h, T) = IF T = {} THEN 0 ELSE h[Chosen(T)] + SumOver(h, T \ {Chosen(T)})
    BY FS_Subset, SumUnfolds
  <2> QED
    BY <1>1, <2>1, ChosenIn
<1> HIDE DEF Good
<1>2. \A T \in SUBSET S : T \in Good
  BY <1>1, SubsetInduction
<1> QED
  BY <1>2 DEF Good

LEMMA SumNat ==
  ASSUME NEW S, IsFiniteSet(S), NEW g, \A t \in S : g[t] \in Nat
  PROVE  \A T \in SUBSET S : SumOver(g, T) \in Nat
<1> DEFINE Good == {T \in SUBSET S : SumOver(g, T) \in Nat}
<1>1. ASSUME NEW T \in SUBSET S, \A x \in T : T \ {x} \in Good PROVE T \in Good
  <2>1. SumOver(g, T) = IF T = {} THEN 0 ELSE g[Chosen(T)] + SumOver(g, T \ {Chosen(T)})
    BY FS_Subset, SumUnfolds
  <2> QED
    BY <1>1, <2>1, ChosenIn
<1> HIDE DEF Good
<1>2. \A T \in SUBSET S : T \in Good
  BY <1>1, SubsetInduction
<1> QED
  BY <1>2 DEF Good

LEMMA SumNone == ASSUME NEW g PROVE SumOver(g, {}) = 0
  BY FS_EmptySet, SumUnfolds

LEMMA SumOne ==
  ASSUME NEW g, NEW x, g[x] \in Int PROVE SumOver(g, {x}) = g[x]
<1>1. IsFiniteSet({x}) /\ {x} \ {x} = {}
  BY FS_Singleton
<1>2. SumOver(g, {x}) = g[x] + SumOver(g, {x} \ {x})
  BY <1>1, SumWithout
<1> QED
  BY <1>1, <1>2, SumNone

\* The more elements, the more there is of what is never negative.
LEMMA SumPart ==
  ASSUME NEW S, IsFiniteSet(S), NEW g, \A t \in S : g[t] \in Nat, NEW U \in SUBSET S
  PROVE  SumOver(g, U) <= SumOver(g, S)
<1> DEFINE Good == {T \in SUBSET S : U \subseteq T => SumOver(g, U) <= SumOver(g, T)}
<1>1. ASSUME NEW T \in SUBSET S, \A x \in T : T \ {x} \in Good PROVE T \in Good
  <2>1. \A V \in SUBSET S : SumOver(g, V) \in Nat
    BY SumNat
  <2>2. CASE T = U
    BY <2>1, <2>2
  <2>3. ASSUME U \subseteq T, T # U PROVE SumOver(g, U) <= SumOver(g, T)
    <3>1. PICK x \in T : x \notin U
      BY <2>3
    <3>2. SumOver(g, T) = g[x] + SumOver(g, T \ {x})
      BY SumWithout
    <3>3. SumOver(g, U) <= SumOver(g, T \ {x})
      BY <1>1, <2>3, <3>1
    <3>4. SumOver(g, U) \in Nat /\ SumOver(g, T \ {x}) \in Nat /\ g[x] \in Nat
      BY <2>1
    <3> QED
      BY <3>2, <3>3, <3>4
  <2> QED
    BY <2>2, <2>3
<1> HIDE DEF Good
<1>2. S \in Good
  BY <1>1, SubsetInduction
<1> QED
  BY <1>2 DEF Good

\* A sum of sums.
LEMMA SumAdds ==
  ASSUME NEW S, IsFiniteSet(S), NEW f, NEW g, NEW h,
         \A t \in S : g[t] \in Int /\ h[t] \in Int /\ f[t] = g[t] + h[t]
  PROVE  \A T \in SUBSET S : SumOver(f, T) = SumOver(g, T) + SumOver(h, T)
<1> DEFINE Good == {T \in SUBSET S : SumOver(f, T) = SumOver(g, T) + SumOver(h, T)}
<1>1. ASSUME NEW T \in SUBSET S, \A x \in T : T \ {x} \in Good PROVE T \in Good
  <2>1. CASE T = {}
    BY <2>1, SumNone
  <2>2. CASE T # {}
    <3>1. PICK x \in T : TRUE
      BY <2>2
    <3>2. /\ SumOver(f, T) = f[x] + SumOver(f, T \ {x})
          /\ SumOver(g, T) = g[x] + SumOver(g, T \ {x})
          /\ SumOver(h, T) = h[x] + SumOver(h, T \ {x})
      BY SumWithout
    <3>3. /\ SumOver(g, T \ {x}) \in Int /\ SumOver(h, T \ {x}) \in Int
          /\ SumOver(f, T \ {x}) = SumOver(g, T \ {x}) + SumOver(h, T \ {x})
      BY <1>1, <3>1, SumType
    <3>4. g[x] \in Int /\ h[x] \in Int /\ f[x] = g[x] + h[x]
      OBVIOUS
    <3> QED
      BY <3>2, <3>3, <3>4
  <2> QED
    BY <2>1, <2>2
<1> HIDE DEF Good
<1>2. \A T \in SUBSET S : T \in Good
  BY <1>1, SubsetInduction
<1> QED
  BY <1>2 DEF Good

\* A sum of more is more.
LEMMA SumBelow ==
  ASSUME NEW S, IsFiniteSet(S), NEW g, NEW h,
         \A t \in S : g[t] \in Int /\ h[t] \in Int /\ g[t] <= h[t]
  PROVE  SumOver(g, S) <= SumOver(h, S)
<1> DEFINE d == [t \in S |-> h[t] - g[t]]
<1>1. \A t \in S : d[t] \in Nat /\ h[t] = g[t] + d[t]
  OBVIOUS
<1> HIDE DEF d
<1>2. SumOver(h, S) = SumOver(g, S) + SumOver(d, S)
  BY <1>1, SumAdds
<1>3. SumOver(g, S) \in Int /\ SumOver(d, S) \in Nat
  BY <1>1, SumNat, SumType
<1> QED
  BY <1>2, <1>3

\* A sum with a factor.
LEMMA SumTimes ==
  ASSUME NEW S, IsFiniteSet(S), NEW c \in Int, NEW f, NEW g,
         \A t \in S : g[t] \in Int /\ f[t] = c * g[t]
  PROVE  SumOver(f, S) = c * SumOver(g, S)
<1> DEFINE Good == {T \in SUBSET S : SumOver(f, T) = c * SumOver(g, T)}
<1>1. ASSUME NEW T \in SUBSET S, \A x \in T : T \ {x} \in Good PROVE T \in Good
  <2>1. CASE T = {}
    BY <2>1, SumNone
  <2>2. CASE T # {}
    <3>1. PICK x \in T : TRUE
      BY <2>2
    <3>2. PICK m, n : m = g[x] /\ n = SumOver(g, T \ {x})
      OBVIOUS
    <3>3. \A t \in S : f[t] \in Int
      OBVIOUS
    <3>4. SumOver(f, T) = f[x] + SumOver(f, T \ {x}) /\ SumOver(g, T) = m + n
      BY <3>2, <3>3, SumWithout
    <3>5. m \in Int /\ n \in Int /\ f[x] = c * m /\ SumOver(f, T \ {x}) = c * n
      BY <1>1, <3>1, <3>2, SumType
    <3>6. c * (m + n) = c * m + c * n
      BY <3>5
    <3> QED
      BY <3>4, <3>5, <3>6
  <2> QED
    BY <2>1, <2>2
<1> HIDE DEF Good
<1>2. \A T \in SUBSET S : T \in Good
  BY <1>1, SubsetInduction, Zenon
<1> QED
  BY <1>2 DEF Good

LEMMA SumZero ==
  ASSUME NEW S, IsFiniteSet(S), NEW g, \A t \in S : g[t] = 0
  PROVE  SumOver(g, S) = 0
<1>1. \A t \in S : g[t] \in Int /\ g[t] = 0 * g[t]
  OBVIOUS
<1>2. SumOver(g, S) = 0 * SumOver(g, S)
  BY <1>1, SumTimes
<1>3. SumOver(g, S) \in Int
  BY <1>1, SumType
<1> QED
  BY <1>2, <1>3

\* The same numbers at shifted indices have the same sum.
Shifted(f, g, a, n) == \A i \in 1 .. n : g[i] \in Int /\ f[a + i] = g[i]

LEMMA SumShift ==
  ASSUME NEW n \in Nat, NEW a \in Nat, NEW f, NEW g, Shifted(f, g, a, n)
  PROVE  SumOver(f, a + 1 .. a + n) = SumOver(g, 1 .. n)
<1>0. \A i \in 1 .. n : g[i] \in Int /\ f[a + i] = g[i]
  BY DEF Shifted
<1> DEFINE Good == {k \in Nat : k <= n => SumOver(f, a + 1 .. a + k) = SumOver(g, 1 .. k)}
<1>1. 0 \in Good
  <2>1. a + 1 .. a + 0 = {} /\ 1 .. 0 = {}
    OBVIOUS
  <2>2. SumOver(f, {}) = 0 /\ SumOver(g, {}) = 0
    BY SumNone
  <2> QED
    BY <2>1, <2>2
<1>2. ASSUME NEW k \in Nat, k \in Good PROVE k + 1 \in Good
  <2> SUFFICES ASSUME k + 1 <= n
               PROVE  SumOver(f, a + 1 .. a + (k + 1)) = SumOver(g, 1 .. k + 1)
    OBVIOUS
  <2>1. SumOver(f, a + 1 .. a + k) = SumOver(g, 1 .. k)
    BY <1>2
  <2>2. PICK S, T, x, y : /\ S = a + 1 .. a + (k + 1) /\ T = 1 .. k + 1
                          /\ x = a + (k + 1) /\ y = k + 1
    OBVIOUS
  <2>3. /\ x \in S /\ S \ {x} = a + 1 .. a + k /\ y \in T /\ T \ {y} = 1 .. k
        /\ IsFiniteSet(S) /\ IsFiniteSet(T) /\ S \in SUBSET S /\ T \in SUBSET T
    <3>1. x \in S /\ S \ {x} = a + 1 .. a + k
      BY <2>2
    <3>2. y \in T /\ T \ {y} = 1 .. k
      BY <2>2
    <3>3. IsFiniteSet(S) /\ IsFiniteSet(T)
      BY <2>2, FS_Interval
    <3> QED
      BY <3>1, <3>2, <3>3
  <2>4. \A i \in T : i \in 1 .. n
    BY <2>2
  <2>5. ASSUME NEW j \in S PROVE f[j] \in Int
    <3>1. PICK i \in 1 .. n : j = a + i
      <4>1. j - a \in 1 .. n /\ j = a + (j - a)
        BY <2>2
      <4> QED
        BY <4>1
    <3> QED
      BY <1>0, <3>1
  <2>6. \A i \in T : g[i] \in Int
    BY <1>0, <2>4
  <2>7. f[x] = g[y]
    BY <1>0, <2>2, <2>3, <2>4
  <2>8. SumOver(f, S) = f[x] + SumOver(f, S \ {x})
    BY <2>3, <2>5, SumWithout
  <2>9. SumOver(g, T) = g[y] + SumOver(g, T \ {y})
    BY <2>3, <2>6, SumWithout
  <2> QED
    BY <2>1, <2>2, <2>3, <2>7, <2>8, <2>9
<1> HIDE DEF Good
<1>3. \A k \in Nat : k \in Good
  BY <1>1, <1>2, NumberInduction
<1> QED
  BY <1>3 DEF Good

-----------------------------------------------------------------------------
(* Folds over sequences.                                                   *)

Greatest(s) == Max(s)

LEMMA GreatestIs ==
  ASSUME NEW n \in Nat, NEW s \in SUBSET (1 .. n), s # {}
  PROVE  Greatest(s) \in s /\ \A x \in s : x <= Greatest(s)
<1> DEFINE above == {k \in Nat : \E x \in s : x = n - k}
<1>1. PICK x \in s : TRUE
  OBVIOUS
<1>2. n - x \in above
  OBVIOUS
<1>3. PICK k \in above : \A m \in above : k <= m
  BY <1>2, LeastNumber
<1>4. PICK y \in s : y = n - k
  BY <1>3
<1>5. \A z \in s : y >= z
  <2> SUFFICES ASSUME NEW z \in s PROVE y >= z
    OBVIOUS
  <2>1. n - z \in above
    OBVIOUS
  <2> QED
    BY <1>3, <1>4, <2>1
<1> HIDE DEF above
<1> QED
  BY <1>5 DEF Greatest, Max

\* The last of the first k numbers is k.
LEMMA GreatestOfFirst ==
  ASSUME NEW n \in Nat, NEW k \in 1 .. n
  PROVE  /\ Greatest(1 .. k) = k /\ (1 .. k) \ {k} = 1 .. k - 1
         /\ 1 .. k \in SUBSET (1 .. n) /\ 1 .. k # {}
<1>1. k \in Nat /\ k \in 1 .. k /\ 1 .. k \in SUBSET (1 .. k)
  OBVIOUS
<1>2. Greatest(1 .. k) \in 1 .. k /\ k <= Greatest(1 .. k)
  BY <1>1, GreatestIs
<1> QED
  BY <1>1, <1>2

\* What may follow the k-th element: a value of D for each value of D.
Steps(n, D) == [(1 .. n) \X D -> D]

\* The values of a fold on all sets of indices.
FoldTable(f, D, b, n, G) ==
    /\ f \in [SUBSET (1 .. n) -> D]
    /\ f = [s \in SUBSET (1 .. n) |->
               IF s = {} THEN b ELSE G[<<Greatest(s), f[s \ {Greatest(s)}]>>]]

\* A fold of a step that stays within a set exists on all sets of indices.
LEMMA FoldExists ==
  ASSUME NEW D, NEW b \in D, NEW n \in Nat, NEW G \in Steps(n, D)
  PROVE  \E f : FoldTable(f, D, b, n, G)
<1> USE DEF Steps
<1> DEFINE S == 1 .. n
           Step(f, s) == IF s = {} THEN b ELSE G[<<Greatest(s), f[s \ {Greatest(s)}]>>]
           Small(k) == {s \in SUBSET S : Cardinality(s) <= k}
           Good == {k \in Nat : \E f \in [Small(k) -> D] : f = [s \in Small(k) |-> Step(f, s)]}
<1>0. IsFiniteSet(S)
  BY FS_Interval
<1>1. \A s \in SUBSET S : IsFiniteSet(s) /\ Cardinality(s) \in Nat
  BY <1>0, FS_Subset, FS_CardinalityType
<1>2. 0 \in Good
  <2>1. \A s \in Small(0) : s = {}
    BY <1>1, FS_EmptySet
  <2> DEFINE f == [s \in Small(0) |-> b]
  <2>2. f \in [Small(0) -> D] /\ f = [s \in Small(0) |-> Step(f, s)]
    BY <2>1
  <2> QED
    BY <2>2
<1>3. ASSUME NEW k \in Nat, k \in Good PROVE k + 1 \in Good
  <2>1. PICK f \in [Small(k) -> D] : f = [s \in Small(k) |-> Step(f, s)]
    BY <1>3
  <2> DEFINE h == [s \in Small(k + 1) |-> Step(f, s)]
  <2>2. ASSUME NEW s \in Small(k + 1), s # {}
        PROVE  /\ s \ {Greatest(s)} \in Small(k) /\ s \ {Greatest(s)} \in Small(k + 1)
               /\ Greatest(s) \in 1 .. n
    <3>1. Greatest(s) \in s
      BY <2>2, GreatestIs
    <3> DEFINE g == Greatest(s)
    <3> HIDE DEF g
    <3>2. g \in s /\ Cardinality(s \ {g}) = Cardinality(s) - 1
      BY <1>1, <3>1, FS_RemoveElement DEF g
    <3>3. s \ {g} \in Small(k) /\ s \ {g} \in Small(k + 1) /\ g \in 1 .. n
      BY <1>1, <3>2
    <3> QED
      BY <3>3 DEF g
  <2>3. \A s \in Small(k) : h[s] = f[s]
    <3>1. \A s \in Small(k) : f[s] = Step(f, s)
      BY <2>1
    <3>2. \A s \in Small(k) : s \in Small(k + 1)
      BY <1>1
    <3> HIDE DEF Small, Step
    <3> QED
      BY <3>1, <3>2
  <2>4. \A s \in Small(k + 1) : Step(f, s) = Step(h, s) /\ Step(f, s) \in D
    <3> SUFFICES ASSUME NEW s \in Small(k + 1) PROVE Step(f, s) = Step(h, s) /\ Step(f, s) \in D
      OBVIOUS
    <3>1. CASE s = {}
      BY <3>1
    <3>2. CASE s # {}
      <4> DEFINE g == Greatest(s)  r == s \ {g}
      <4> HIDE DEF g, r
      <4>1. r \in Small(k) /\ g \in 1 .. n
        BY <2>2, <3>2, SMTT(30) DEF g, r
      <4>2. h[r] = f[r] /\ f[r] \in D
        BY <2>1, <2>3, <4>1
      <4>3. Step(f, s) = G[<<g, f[r]>>] /\ Step(h, s) = G[<<g, h[r]>>]
        BY <3>2 DEF g, r
      <4>4. G[<<g, f[r]>>] \in D
        BY <4>1, <4>2
      <4> HIDE DEF Step, h
      <4> QED
        BY <4>2, <4>3, <4>4
    <3> QED
      BY <3>1, <3>2
  <2>5. h = [s \in Small(k + 1) |-> Step(h, s)] /\ h \in [Small(k + 1) -> D]
    <3> HIDE DEF Small, Step
    <3> QED
      BY <2>4
  <2>6. \E e \in [Small(k + 1) -> D] : e = [s \in Small(k + 1) |-> Step(e, s)]
    <3> HIDE DEF h, Small, Step
    <3> QED
      BY <2>5
  <2> HIDE DEF Small, Step
  <2> QED
    BY <2>6
<1>4. Cardinality(S) \in Good
  <2> HIDE DEF Good
  <2>1. \A k \in Nat : k \in Good
    BY <1>2, <1>3, NumberInduction
  <2> QED
    BY <1>1, <2>1
<1>5. Small(Cardinality(S)) = SUBSET S
  BY <1>0, FS_Subset
<1> HIDE DEF Small, S
<1>6. PICK f \in [SUBSET S -> D] : f = [s \in SUBSET S |-> Step(f, s)]
  BY <1>4, <1>5
<1>7. FoldTable(f, D, b, n, G)
  BY <1>6, Zenon DEF S, FoldTable
<1> QED
  BY <1>7

\* The values a fold goes through: h[k] after the first k elements.
Course(h, D, b, n, G) ==
    /\ h[0] = b
    /\ \A k \in 0 .. n : h[k] \in D
    /\ \A k \in 1 .. n : h[k] = G[<<k, h[k - 1]>>]

\* The function a fold over the sets of indices is defined by.
Folds(f, D, b, n, G) ==
    /\ f[{}] = b
    /\ \A s \in SUBSET (1 .. n) :
          s # {} /\ f[s \ {Greatest(s)}] \in D => f[s] = G[<<Greatest(s), f[s \ {Greatest(s)}]>>]

LEMMA FoldHasCourse ==
  ASSUME NEW D, NEW b \in D, NEW n \in Nat, NEW G \in Steps(n, D),
         NEW f, Folds(f, D, b, n, G)
  PROVE  \E h : Course(h, D, b, n, G) /\ h[n] = f[1 .. n]
<1> USE DEF Steps
<1> DEFINE h == [k \in 0 .. n |-> f[1 .. k]]
           Good == {k \in Nat : k <= n => h[k] \in D}
<1>1. h[0] = b
  <2>1. 0 \in 0 .. n /\ 1 .. 0 = {}
    OBVIOUS
  <2> QED
    BY <2>1 DEF Folds
<1>2. ASSUME NEW k \in 1 .. n, h[k - 1] \in D PROVE h[k] = G[<<k, h[k - 1]>>] /\ h[k] \in D
  <2>1. /\ Greatest(1 .. k) = k /\ (1 .. k) \ {k} = 1 .. k - 1
        /\ 1 .. k \in SUBSET (1 .. n) /\ 1 .. k # {}
    BY GreatestOfFirst
  <2>2. h[k] = f[1 .. k] /\ h[k - 1] = f[1 .. k - 1]
    OBVIOUS
  <2> HIDE DEF h
  <2>3. PICK s : s = 1 .. k
    OBVIOUS
  <2>4. f[s] = G[<<k, h[k - 1]>>]
    BY <1>2, <2>1, <2>2, <2>3 DEF Folds
  <2>5. <<k, h[k - 1]>> \in (1 .. n) \X D
    BY <1>2
  <2> QED
    BY <2>2, <2>3, <2>4, <2>5
<1> HIDE DEF h
<1>3. 0 \in Good
  BY <1>1
<1>4. ASSUME NEW k \in Nat, k \in Good PROVE k + 1 \in Good
  <2>1. CASE k + 1 <= n
    <3>1. PICK m : m = k + 1
      OBVIOUS
    <3>2. m \in 1 .. n /\ m - 1 = k
      BY <2>1, <3>1
    <3>3. h[m - 1] \in D
      BY <1>4, <2>1, <3>2
    <3>4. h[m] \in D
      BY <1>2, <3>2, <3>3
    <3> QED
      BY <3>1, <3>4
  <2>2. CASE ~(k + 1 <= n)
    BY <2>2
  <2> QED
    BY <2>1, <2>2
<1>5. \A k \in Nat : k \in Good
  <2> HIDE DEF Good
  <2> QED
    BY <1>3, <1>4, NumberInduction
<1>6. \A k \in 0 .. n : h[k] \in D
  BY <1>5
<1>7. \A k \in 1 .. n : h[k] = G[<<k, h[k - 1]>>]
  <2> SUFFICES ASSUME NEW k \in 1 .. n PROVE h[k] = G[<<k, h[k - 1]>>]
    OBVIOUS
  <2>1. k - 1 \in 0 .. n
    OBVIOUS
  <2> QED
    BY <1>2, <1>6, <2>1
<1>8. Course(h, D, b, n, G)
  BY <1>1, <1>6, <1>7 DEF Course
<1>9. h[n] = f[1 .. n]
  BY DEF h
<1> QED
  BY <1>8, <1>9

LEMMA CourseExists ==
  ASSUME NEW D, NEW b \in D, NEW n \in Nat, NEW G \in Steps(n, D)
  PROVE  \E h : Course(h, D, b, n, G)
<1>1. PICK f : FoldTable(f, D, b, n, G)
  BY FoldExists
<1>2. Folds(f, D, b, n, G)
  <2>1. f[{}] = b
    BY <1>1 DEF FoldTable
  <2>2. ASSUME NEW s \in SUBSET (1 .. n), s # {}
        PROVE  f[s] = G[<<Greatest(s), f[s \ {Greatest(s)}]>>]
    BY <1>1, <2>2 DEF FoldTable
  <2> QED
    BY <2>1, <2>2 DEF Folds
<1> QED
  BY <1>2, FoldHasCourse

\* What holds at the start of a fold and is kept by its steps holds at its end.
LEMMA CourseInduction ==
  ASSUME NEW h, NEW n \in Nat, NEW Good, <<0, h[0]>> \in Good,
         \A k \in 0 .. n - 1 : <<k, h[k]>> \in Good => <<k + 1, h[k + 1]>> \in Good
  PROVE  <<n, h[n]>> \in Good
<1> DEFINE Known == {k \in Nat : k <= n => <<k, h[k]>> \in Good}
<1>1. 0 \in Known
  OBVIOUS
<1>2. ASSUME NEW k \in Nat, k \in Known PROVE k + 1 \in Known
  <2>1. CASE k + 1 <= n
    <3>1. k \in 0 .. n - 1 /\ k <= n
      BY <2>1
    <3>2. <<k + 1, h[k + 1]>> \in Good
      BY <1>2, <3>1
    <3> QED
      BY <3>2
  <2>2. CASE ~(k + 1 <= n)
    BY <2>2
  <2> QED
    BY <2>1, <2>2
<1>3. \A k \in Nat : k \in Known
  <2> HIDE DEF Known
  <2> QED
    BY <1>1, <1>2, NumberInduction
<1> QED
  BY <1>3

-----------------------------------------------------------------------------
(* Loops: a function that goes from next to next until it stops, with less *)
(* left to do each time.                                                   *)

Unwinds(f, D, stop, next, r) == f = [x \in D |-> IF x \in stop THEN r[x] ELSE f[next[x]]]

\* There is less left to do, from B down.
Lessens(D, stop, next, left, B) ==
    /\ B \in Nat /\ \A x \in D : left[x] \in 0 .. B
    /\ \A x \in D \ stop : next[x] \in D /\ left[next[x]] < left[x]

LEMMA LoopExists ==
  ASSUME NEW D, NEW stop, NEW next, NEW r, NEW B, NEW left, Lessens(D, stop, next, left, B)
  PROVE  \E f : Unwinds(f, D, stop, next, r)
<1> B \in Nat /\ (\A x \in D : left[x] \in 0 .. B) /\ \A x \in D \ stop : next[x] \in D /\ left[next[x]] < left[x]
  BY DEF Lessens
<1> DEFINE Below(n) == {x \in D : left[x] <= n}
           Step(f, x) == IF x \in stop THEN r[x] ELSE f[next[x]]
           Good == {n \in Nat : \E f : f = [x \in Below(n) |-> Step(f, x)]}
<1>1. ASSUME NEW n \in Nat, NEW x \in Below(n + 1), x \notin stop PROVE next[x] \in Below(n)
  <2>1. x \in D /\ left[x] <= n + 1 /\ left[x] \in 0 .. B
    OBVIOUS
  <2>2. next[x] \in D /\ left[next[x]] < left[x]
    BY <1>1, <2>1
  <2>3. left[next[x]] \in 0 .. B
    BY <2>2
  <2> QED
    BY <2>1, <2>2, <2>3
<1>2. 0 \in Good
  <2>1. \A x \in Below(0) : x \in stop
    <3> SUFFICES ASSUME NEW x \in Below(0), x \notin stop PROVE FALSE
      OBVIOUS
    <3>1. x \in D /\ left[x] <= 0 /\ left[x] \in 0 .. B
      OBVIOUS
    <3>2. next[x] \in D /\ left[next[x]] < left[x]
      BY <3>1
    <3>3. left[next[x]] \in 0 .. B
      BY <3>2
    <3> QED
      BY <3>1, <3>2, <3>3
  <2> DEFINE f == [x \in Below(0) |-> r[x]]
  <2>2. \A x \in Below(0) : r[x] = Step(f, x)
    BY <2>1
  <2>3. f = [x \in Below(0) |-> Step(f, x)]
    <3> HIDE DEF Below, Step
    <3> QED
      BY <2>2
  <2>4. \E g : g = [x \in Below(0) |-> Step(g, x)]
    <3> HIDE DEF f, Below, Step
    <3> QED
      BY <2>3
  <2> HIDE DEF Below, Step
  <2> QED
    BY <2>4
<1>3. ASSUME NEW n \in Nat, n \in Good PROVE n + 1 \in Good
  <2>1. PICK f : f = [x \in Below(n) |-> Step(f, x)]
    BY <1>3
  <2> DEFINE h == [x \in Below(n + 1) |-> Step(f, x)]
  <2>2. \A x \in Below(n + 1) : x \notin stop => h[next[x]] = f[next[x]]
    <3> SUFFICES ASSUME NEW x \in Below(n + 1), x \notin stop PROVE h[next[x]] = f[next[x]]
      OBVIOUS
    <3>1. next[x] \in Below(n)
      BY <1>1
    <3>2. next[x] \in Below(n + 1)
      <4>1. next[x] \in D /\ left[next[x]] <= n
        BY <3>1
      <4>2. left[next[x]] \in 0 .. B
        BY <4>1
      <4> QED
        BY <4>1, <4>2
    <3>3. h[next[x]] = Step(f, next[x])
      BY <3>2
    <3>4. f[next[x]] = Step(f, next[x])
      <4> HIDE DEF Below, Step
      <4> QED
        BY <2>1, <3>1
    <3> QED
      BY <3>3, <3>4
  <2>3. \A x \in Below(n + 1) : Step(f, x) = Step(h, x)
    BY <2>2
  <2>4. h = [x \in Below(n + 1) |-> Step(h, x)]
    <3> HIDE DEF Below, Step
    <3> QED
      BY <2>3
  <2>5. \E g : g = [x \in Below(n + 1) |-> Step(g, x)]
    <3> HIDE DEF h, Below, Step
    <3> QED
      BY <2>4
  <2> HIDE DEF Below, Step
  <2> QED
    BY <2>5
<1>4. B \in Good
  <2> HIDE DEF Good
  <2>1. \A n \in Nat : n \in Good
    BY <1>2, <1>3, NumberInduction
  <2> QED
    BY <2>1
<1>5. Below(B) = D
  OBVIOUS
<1> QED
  BY <1>4, <1>5 DEF Unwinds

\* It ends at one of what it passes.
LEMMA LoopEnds ==
  ASSUME NEW D, NEW stop, NEW next, NEW r, NEW B, NEW left, Lessens(D, stop, next, left, B),
         NEW f, Unwinds(f, D, stop, next, r), NEW G \in SUBSET D, \A x \in G \ stop : next[x] \in G, NEW x0 \in G
  PROVE  \E y \in G \cap stop : f[x0] = r[y]
<1> B \in Nat /\ (\A x \in D : left[x] \in 0 .. B) /\ \A x \in D \ stop : next[x] \in D /\ left[next[x]] < left[x]
  BY DEF Lessens
<1> DEFINE Ends(x) == \E y \in G \cap stop : f[x] = r[y]
           Good == {n \in Nat : \A x \in G : left[x] <= n => Ends(x)}
<1>1. ASSUME NEW x \in G, x \in stop PROVE Ends(x)
  <2>1. f[x] = r[x]
    BY <1>1 DEF Unwinds
  <2> QED
    BY <1>1, <2>1
<1>2. ASSUME NEW x \in G, x \notin stop, Ends(next[x]) PROVE Ends(x)
  <2>1. f[x] = f[next[x]]
    BY <1>2 DEF Unwinds
  <2> QED
    BY <1>2, <2>1
<1>3. ASSUME NEW x \in G, x \notin stop PROVE next[x] \in G /\ left[next[x]] < left[x] /\ left[x] \in 0 .. B /\ left[next[x]] \in 0 .. B
  BY <1>3
<1> HIDE DEF Ends
<1>4. 0 \in Good
  <2> SUFFICES ASSUME NEW x \in G, left[x] <= 0 PROVE Ends(x)
    OBVIOUS
  <2>1. x \notin stop => FALSE
    BY <1>3
  <2> QED
    BY <1>1, <2>1
<1>5. ASSUME NEW n \in Nat, n \in Good PROVE n + 1 \in Good
  <2> SUFFICES ASSUME NEW x \in G, left[x] <= n + 1 PROVE Ends(x)
    OBVIOUS
  <2>1. CASE x \in stop
    BY <1>1, <2>1
  <2>2. CASE x \notin stop
    <3>1. next[x] \in G /\ left[next[x]] <= n
      BY <1>3, <2>2
    <3>2. Ends(next[x])
      BY <1>5, <3>1
    <3> QED
      BY <1>2, <2>2, <3>2
  <2> QED
    BY <2>1, <2>2
<1>6. \A n \in Nat : n \in Good
  <2> HIDE DEF Good
  <2> QED
    BY <1>4, <1>5, NumberInduction
<1>7. left[x0] <= B
  OBVIOUS
<1>8. Ends(x0)
  BY <1>6, <1>7
<1> QED
  BY <1>8 DEF Ends
=============================================================================
