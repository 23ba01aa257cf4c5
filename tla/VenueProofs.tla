----------------------------- MODULE VenueProofs -----------------------------
(***************************************************************************)
(* Proofs about the sandbox venue and its fill engine (SandboxVenue,       *)
(* PaperFillEngine), for any books, orders, prices and quantities.         *)
(***************************************************************************)
EXTENDS SandboxVenue, InductionLemmas, SequenceTheorems

-----------------------------------------------------------------------------
(* One sweep of a ladder.                                                  *)

Ladder == [Prices -> Nat]

\* The place of a price on the ladder a side takes from, the best first.
Rank(side, p) == IF side = "buy" THEN p ELSE MaxPrice + 1 - p

Best(side, k) == {p \in Prices : Rank(side, p) <= k}

Lesser(a, b) == IF a <= b THEN a ELSE b

LEMMA MinIs == ASSUME NEW a \in Int, NEW b \in Int PROVE Min({a, b}) = Lesser(a, b)
  BY DEF Min, Lesser

LEMMA MaxIs == ASSUME NEW a \in Int PROVE Max({0, a}) = IF a <= 0 THEN 0 ELSE a
  BY DEF Max

LEMMA PriceFacts == IsFiniteSet(Prices) /\ \A p \in Prices : p \in Nat
<1>1. MaxPrice \in Nat
  BY EngineAssumption
<1> QED
  BY <1>1, FS_Interval DEF Prices

LEMMA RankFacts ==
  ASSUME NEW side \in Sides
  PROVE  /\ \A p \in Prices : Rank(side, p) \in 1 .. MaxPrice
         /\ \A p, q \in Prices : /\ Better(side, p, q) <=> Rank(side, p) < Rank(side, q)
                                 /\ Within(side, p, q) <=> Rank(side, p) <= Rank(side, q)
                                 /\ Rank(side, p) = Rank(side, q) => p = q
         /\ \A k \in 1 .. MaxPrice : \E p \in Prices : Rank(side, p) = k
<1>1. MaxPrice \in Nat
  BY EngineAssumption
<1>2. \A p \in Prices : Rank(side, p) \in 1 .. MaxPrice
  BY <1>1 DEF Rank, Prices
<1>3. \A p, q \in Prices : /\ Better(side, p, q) <=> Rank(side, p) < Rank(side, q)
                           /\ Within(side, p, q) <=> Rank(side, p) <= Rank(side, q)
                           /\ Rank(side, p) = Rank(side, q) => p = q
  BY <1>1 DEF Rank, Prices, Better, Within, Sides
<1>4. ASSUME NEW k \in 1 .. MaxPrice PROVE \E p \in Prices : Rank(side, p) = k
  <2>1. (IF side = "buy" THEN k ELSE MaxPrice + 1 - k) \in Prices
    BY <1>1 DEF Prices
  <2>2. Rank(side, IF side = "buy" THEN k ELSE MaxPrice + 1 - k) = k
    BY <1>1 DEF Rank
  <2> QED
    BY <2>1, <2>2
<1> QED
  BY <1>2, <1>3, <1>4

\* The best k + 1 levels are the best k and one more.
LEMMA BestFacts ==
  ASSUME NEW side \in Sides
  PROVE  /\ Best(side, 0) = {} /\ Best(side, MaxPrice) = Prices
         /\ \A k \in Int : Best(side, k) \in SUBSET Prices
         /\ \A p \in Prices : /\ p \in Best(side, Rank(side, p))
                              /\ Best(side, Rank(side, p)) \ {p} = Best(side, Rank(side, p) - 1)
                              /\ {q \in Prices : Better(side, q, p)} = Best(side, Rank(side, p) - 1)
<1>1. MaxPrice \in Nat
  BY EngineAssumption
<1>2. \A p \in Prices : Rank(side, p) \in Int /\ Rank(side, p) >= 1 /\ Rank(side, p) <= MaxPrice
  BY <1>1, RankFacts
<1>3. ASSUME NEW p \in Prices
      PROVE  /\ p \in Best(side, Rank(side, p))
             /\ Best(side, Rank(side, p)) \ {p} = Best(side, Rank(side, p) - 1)
             /\ {q \in Prices : Better(side, q, p)} = Best(side, Rank(side, p) - 1)
  <2>1. \A q \in Prices : q # p => Rank(side, q) # Rank(side, p)
    BY RankFacts
  <2>2. \A q \in Prices : Better(side, q, p) <=> Rank(side, q) < Rank(side, p)
    BY RankFacts
  <2> QED
    BY <1>2, <2>1, <2>2 DEF Best
<1> QED
  BY <1>1, <1>2, <1>3 DEF Best

\* What a ladder shows within a bound.
Shown(side, bound, ladder) == [p \in Prices |-> IF Within(side, p, bound) THEN ladder[p] ELSE 0]

LEMMA TakesIs ==
  ASSUME NEW side \in Sides, NEW n \in Nat, NEW bound \in Prices, NEW ladder \in Ladder,
         NEW p \in Prices
  PROVE  LET shown == Shown(side, bound, ladder)
             ahead == SumOver(shown, Best(side, Rank(side, p) - 1))
         IN  /\ shown \in Ladder /\ ahead \in Nat /\ shown[p] <= ladder[p]
             /\ Takes(side, n, bound, ladder)[p] =
                   IF n <= ahead THEN 0 ELSE Lesser(shown[p], n - ahead)
<1> DEFINE shown == Shown(side, bound, ladder)
           better == {q \in Prices : Better(side, q, p)}
<1>1. shown \in Ladder /\ \A q \in Prices : ladder[q] \in Nat
  BY DEF Shown, Ladder
<1>2. better \in SUBSET Prices /\ IsFiniteSet(better) /\ better = Best(side, Rank(side, p) - 1)
  BY PriceFacts, BestFacts, FS_Subset
<1>3. SumOver(shown, better) \in Nat /\ SumOver(ladder, better) \in Nat
  <2> HIDE DEF shown, better
  <2> QED
    BY <1>1, <1>2, PriceFacts, SumNat DEF Ladder
<1>4. CASE Within(side, p, bound)
  <2>1. \A q \in better : Within(side, q, bound)
    <3> SUFFICES ASSUME NEW q \in better PROVE Within(side, q, bound)
      OBVIOUS
    <3>1. MaxPrice \in Nat
      BY EngineAssumption
    <3>2. /\ Rank(side, q) \in Int /\ Rank(side, p) \in Int /\ Rank(side, bound) \in Int
          /\ Rank(side, q) < Rank(side, p) /\ Rank(side, p) <= Rank(side, bound)
      BY <1>4, <3>1, RankFacts
    <3> QED
      BY <3>2, RankFacts
  <2>2. \A q \in better : shown[q] = ladder[q]
    BY <2>1 DEF Shown
  <2>3. SumOver(shown, better) = SumOver(ladder, better)
    <3> HIDE DEF shown, better
    <3> QED
      BY <1>2, <2>2, SumSame
  <2> DEFINE a == SumOver(ladder, better)
  <2>4. Takes(side, n, bound, ladder)[p] = Min({ladder[p], Max({0, n - a})}) /\ shown[p] = ladder[p]
    BY <1>4 DEF Takes, Depth, Shown
  <2>5. a \in Nat /\ n - a \in Int /\ shown[p] \in Nat
    BY <1>1, <1>3, <2>4
  <2> HIDE DEF a, shown
  <2>6. Max({0, n - a}) = IF n <= a THEN 0 ELSE n - a
    BY <2>5, MaxIs
  <2>7. Max({0, n - a}) \in Nat
    BY <2>5, <2>6
  <2>8. Takes(side, n, bound, ladder)[p] = Lesser(shown[p], Max({0, n - a}))
    <3>1. PICK m : m = Max({0, n - a})
      OBVIOUS
    <3>2. PICK c : c = shown[p]
      OBVIOUS
    <3>0. m \in Int /\ c \in Int
      BY <2>5, <2>7, <3>1, <3>2
    <3>3. Min({c, m}) = Lesser(c, m)
      BY <3>0, MinIs
    <3>4. Takes(side, n, bound, ladder)[p] = Min({c, m})
      BY <2>4, <3>1, <3>2
    <3> QED
      BY <3>1, <3>2, <3>3, <3>4
  <2>9. Takes(side, n, bound, ladder)[p] = IF n <= a THEN 0 ELSE Lesser(shown[p], n - a)
    BY <2>5, <2>6, <2>8 DEF Lesser
  <2>10. a = SumOver(shown, Best(side, Rank(side, p) - 1))
    BY <1>2, <2>3 DEF a
  <2> QED
    BY <1>1, <2>4, <2>5, <2>9, <2>10 DEF shown
<1>5. CASE ~Within(side, p, bound)
  <2>1. Takes(side, n, bound, ladder)[p] = 0 /\ shown[p] = 0
    BY <1>5 DEF Takes, Shown
  <2> DEFINE a == SumOver(shown, better)
  <2> HIDE DEF a, shown, better
  <2>2. a \in Nat /\ a = SumOver(shown, Best(side, Rank(side, p) - 1)) /\ ladder[p] \in Nat
    BY <1>1, <1>2, <1>3 DEF a
  <2>3. Takes(side, n, bound, ladder)[p] = IF n <= a THEN 0 ELSE Lesser(shown[p], n - a)
    BY <2>1, <2>2 DEF Lesser
  <2> QED
    BY <1>1, <2>1, <2>2, <2>3 DEF shown
<1> QED
  BY <1>4, <1>5
\* The price k + 1 levels down, and the levels above it.
LEMMA NextLevel ==
  ASSUME NEW side \in Sides, NEW k \in Nat, k + 1 <= MaxPrice
  PROVE  \E p \in Prices : /\ Rank(side, p) = k + 1
                           /\ p \in Best(side, k + 1)
                           /\ Best(side, k + 1) \ {p} = Best(side, k)
<1>1. MaxPrice \in Nat
  BY EngineAssumption
<1>2. k + 1 \in 1 .. MaxPrice
  BY <1>1
<1>3. PICK p \in Prices : Rank(side, p) = k + 1
  BY <1>2, RankFacts
<1>4. Rank(side, p) - 1 = k
  BY <1>3
<1> QED
  BY <1>3, <1>4, BestFacts

\* A sweep takes from the best k levels what is shown there, up to what is wanted.
LEMMA TakesBest ==
  ASSUME NEW side \in Sides, NEW n \in Nat, NEW bound \in Prices, NEW ladder \in Ladder
  PROVE  \A k \in Nat : k <= MaxPrice =>
            SumOver(Takes(side, n, bound, ladder), Best(side, k))
              = Lesser(n, SumOver(Shown(side, bound, ladder), Best(side, k)))
<1> DEFINE takes == Takes(side, n, bound, ladder)
           shown == Shown(side, bound, ladder)
           Good == {k \in Nat : k <= MaxPrice =>
                       SumOver(takes, Best(side, k)) = Lesser(n, SumOver(shown, Best(side, k)))}
<1>1. /\ shown \in Ladder /\ \A p \in Prices : shown[p] \in Nat /\ takes[p] \in Nat
  <2>1. \A p \in Prices : shown[p] \in Nat
    BY DEF Shown, Ladder
  <2>2. shown \in Ladder
    BY DEF Shown, Ladder
  <2>3. ASSUME NEW p \in Prices PROVE takes[p] \in Nat
    <3> DEFINE ahead == SumOver(shown, Best(side, Rank(side, p) - 1))
    <3>1. ahead \in Nat /\ takes[p] = IF n <= ahead THEN 0 ELSE Lesser(shown[p], n - ahead)
      BY TakesIs
    <3> HIDE DEF ahead, takes, shown
    <3>2. shown[p] \in Nat
      BY <2>1
    <3> QED
      BY <3>1, <3>2 DEF Lesser
  <2> QED
    BY <2>1, <2>2, <2>3
<1>2. 0 \in Good
  <2>1. SumOver(takes, {}) = 0 /\ SumOver(shown, {}) = 0
    BY SumNone
  <2>2. Best(side, 0) = {}
    BY BestFacts
  <2> HIDE DEF takes, shown
  <2> QED
    BY <2>1, <2>2 DEF Lesser
<1>3. ASSUME NEW k \in Nat, k \in Good PROVE k + 1 \in Good
  <2> SUFFICES ASSUME k + 1 <= MaxPrice
               PROVE  SumOver(takes, Best(side, k + 1)) = Lesser(n, SumOver(shown, Best(side, k + 1)))
    OBVIOUS
  <2>1. MaxPrice \in Nat /\ k <= MaxPrice
    <3>1. MaxPrice \in Nat
      BY EngineAssumption
    <3> QED
      BY <3>1
  <2>2. PICK p \in Prices : /\ Rank(side, p) = k + 1
                            /\ p \in Best(side, k + 1)
                            /\ Best(side, k + 1) \ {p} = Best(side, k)
    BY NextLevel
  <2> DEFINE a == SumOver(shown, Best(side, k))  t == SumOver(takes, Best(side, k))
  <2>3. t = Lesser(n, a)
    BY <1>3, <2>1
  <2>4. Rank(side, p) - 1 = k
    BY <2>2
  <2>5. a \in Nat /\ takes[p] = IF n <= a THEN 0 ELSE Lesser(shown[p], n - a)
    BY <2>4, TakesIs
  <2> HIDE DEF takes, shown
  <2>6. /\ SumOver(takes, Best(side, k + 1)) = takes[p] + t
        /\ SumOver(shown, Best(side, k + 1)) = shown[p] + a
    <3>1. Best(side, k + 1) \in SUBSET Prices
      BY BestFacts
    <3>2. \A q \in Prices : takes[q] \in Int /\ shown[q] \in Int
      BY <1>1
    <3> QED
      BY <2>2, <3>1, <3>2, PriceFacts, SumWithout
  <2>7. takes[p] \in Nat /\ shown[p] \in Nat
    BY <1>1
  <2>8. PICK x, y : x = takes[p] /\ y = shown[p]
    OBVIOUS
  <2> HIDE DEF a, t
  <2>9. x + t = Lesser(n, y + a)
    BY <2>3, <2>5, <2>7, <2>8 DEF Lesser
  <2> QED
    BY <2>6, <2>8, <2>9
<1> HIDE DEF Good
<1>4. \A k \in Nat : k \in Good
  BY <1>2, <1>3, NumberInduction
<1> QED
  BY <1>4 DEF Good
Scaled(f, g, c, S) == \A x \in S : g[x] \in Int /\ f[x] = c * g[x]

LEMMA SumScaled ==
  ASSUME NEW S, IsFiniteSet(S), NEW c \in Int, NEW f, NEW g, Scaled(f, g, c, S)
  PROVE  SumOver(f, S) = c * SumOver(g, S)
<1>1. \A x \in S : g[x] \in Int /\ f[x] = c * g[x]
  BY DEF Scaled
<1> QED
  BY <1>1, SumTimes

LEMMA MoreTimes ==
  ASSUME NEW a \in Nat, NEW b \in Nat, NEW c \in Nat
  PROVE  a * c \in Nat /\ (a <= b => a * c <= b * c) /\ (c = 0 => a * c = b * c)
  OBVIOUS

\* What a sweep of a ladder, for a quantity and within a bound, may do.
SweepSound(side, n, bound, ladder, sweep) ==
    /\ sweep.filled \in Nat /\ sweep.filled <= n /\ sweep.notional \in Nat
    /\ sweep.ladder \in Ladder /\ \A p \in Prices : sweep.ladder[p] <= ladder[p]
    /\ sweep.filled < n => \A p \in Prices : Within(side, p, bound) => sweep.ladder[p] = 0
    /\ (\A p \in Prices : Within(side, p, bound) => ladder[p] = 0) => sweep.filled = 0
    /\ (\E p \in Prices : Within(side, p, bound) /\ ladder[p] > 0) /\ n > 0 => sweep.filled > 0
    /\ side = "buy" => sweep.notional <= bound * sweep.filled
    /\ side = "sell" => sweep.notional >= bound * sweep.filled
    /\ SumOver(ladder, Prices) = SumOver(sweep.ladder, Prices) + sweep.filled
    /\ \A S \in SUBSET Prices : SumOver(ladder, S) <= SumOver(sweep.ladder, S) + sweep.filled

LEMMA SweepIsSound ==
  ASSUME NEW side \in Sides, NEW n \in Nat, NEW bound \in Prices, NEW ladder \in Ladder
  PROVE  SweepSound(side, n, bound, ladder, _sweep(side, n, bound, ladder))
<1>1. PICK takes : takes = Takes(side, n, bound, ladder)
  OBVIOUS
<1>2. PICK shown : shown = Shown(side, bound, ladder)
  OBVIOUS
<1>3. PICK rest : rest = [p \in Prices |-> ladder[p] - takes[p]]
  OBVIOUS
<1>4. PICK value : value = [p \in Prices |-> p * takes[p]]
  OBVIOUS
<1>5. PICK sweep : sweep = _sweep(side, n, bound, ladder)
  OBVIOUS
<1>6. /\ sweep.filled = SumOver(takes, Prices) /\ sweep.ladder = rest
      /\ sweep.notional = SumOver(value, Prices)
  BY <1>1, <1>3, <1>4, <1>5 DEF _sweep, Depth
<1>7. \A p \in Prices : shown[p] = IF Within(side, p, bound) THEN ladder[p] ELSE 0
  BY <1>2 DEF Shown
<1>8. \A p \in Prices : ladder[p] \in Nat /\ shown[p] \in Nat /\ shown[p] <= ladder[p]
  BY <1>7 DEF Ladder
<1> DEFINE Ahead(p) == SumOver(shown, Best(side, Rank(side, p) - 1))
<1>9. \A p \in Prices : /\ Ahead(p) \in Nat
                        /\ takes[p] = IF n <= Ahead(p) THEN 0 ELSE Lesser(shown[p], n - Ahead(p))
  BY <1>1, <1>2, TakesIs
<1>10. \A p \in Prices : /\ takes[p] \in Nat /\ takes[p] <= shown[p] /\ takes[p] <= ladder[p]
  <2> SUFFICES ASSUME NEW p \in Prices
               PROVE  takes[p] \in Nat /\ takes[p] <= shown[p] /\ takes[p] <= ladder[p]
    OBVIOUS
  <2>1. PICK a : a = Ahead(p)
    OBVIOUS
  <2>2. a \in Nat /\ takes[p] = IF n <= a THEN 0 ELSE Lesser(shown[p], n - a)
    BY <1>9, <2>1
  <2> HIDE DEF Ahead
  <2> QED
    BY <1>8, <2>2 DEF Lesser
<1>11. SumOver(takes, Prices) = Lesser(n, SumOver(shown, Prices))
  <2>1. MaxPrice \in Nat /\ MaxPrice <= MaxPrice
    BY EngineAssumption
  <2>2. Best(side, MaxPrice) = Prices
    BY BestFacts
  <2> QED
    BY <1>1, <1>2, <2>1, <2>2, TakesBest
<1>12. PICK filled, all : filled = SumOver(takes, Prices) /\ all = SumOver(shown, Prices)
  OBVIOUS
<1>13. filled \in Nat /\ all \in Nat /\ filled = Lesser(n, all) /\ filled <= n
  <2>1. filled \in Nat /\ all \in Nat
    BY <1>8, <1>10, <1>12, PriceFacts, SumNat
  <2>2. filled = Lesser(n, all)
    BY <1>11, <1>12
  <2> QED
    BY <2>1, <2>2 DEF Lesser
<1>14. rest \in Ladder /\ \A p \in Prices : rest[p] = ladder[p] - takes[p] /\ rest[p] <= ladder[p]
  BY <1>3, <1>8, <1>10 DEF Ladder
<1>15. ASSUME filled < n, NEW p \in Prices, Within(side, p, bound) PROVE rest[p] = 0
  <2>1. PICK a : a = Ahead(p)
    OBVIOUS
  <2>2. a \in Nat /\ takes[p] = IF n <= a THEN 0 ELSE Lesser(shown[p], n - a)
    BY <1>9, <2>1
  <2>3. a + shown[p] <= all
    <3> DEFINE B == Best(side, Rank(side, p))
    <3>1. B \in SUBSET Prices /\ p \in B /\ B \ {p} = Best(side, Rank(side, p) - 1)
      <4>1. Rank(side, p) \in Int
        <5>1. MaxPrice \in Nat
          BY EngineAssumption
        <5> QED
          BY <5>1, RankFacts
      <4> QED
        BY <4>1, BestFacts
    <3> HIDE DEF B
    <3>2. \A q \in Prices : shown[q] \in Int
      BY <1>8
    <3>3. SumOver(shown, B) = shown[p] + SumOver(shown, B \ {p})
      BY <3>1, <3>2, PriceFacts, SumWithout
    <3>4. SumOver(shown, B) <= SumOver(shown, Prices)
      BY <1>8, <3>1, PriceFacts, SumPart
    <3>5. SumOver(shown, B \ {p}) = a
      BY <2>1, <3>1
    <3>6. shown[p] + a <= all
      BY <1>12, <3>3, <3>4, <3>5
    <3> QED
      BY <1>8, <2>2, <3>6
  <2>4. all < n
    BY <1>13, <1>15 DEF Lesser
  <2>5. takes[p] = shown[p]
    BY <1>8, <1>13, <2>2, <2>3, <2>4 DEF Lesser
  <2>6. shown[p] = ladder[p]
    BY <1>7, <1>15
  <2> QED
    BY <1>8, <1>14, <2>5, <2>6
<1>16. ASSUME \A p \in Prices : Within(side, p, bound) => ladder[p] = 0 PROVE filled = 0
  <2>1. \A p \in Prices : takes[p] = 0
    <3>1. \A p \in Prices : shown[p] = 0
      BY <1>7, <1>16
    <3> QED
      BY <1>10, <3>1
  <2> QED
    BY <1>12, <2>1, PriceFacts, SumZero
<1>17. ASSUME NEW p \in Prices, Within(side, p, bound), ladder[p] > 0, n > 0 PROVE filled > 0
  <2>1. CASE filled < n
    <3>1. takes[p] > 0
      BY <1>8, <1>10, <1>14, <1>15, <1>17, <2>1
    <3>2. SumOver(takes, {p}) <= SumOver(takes, Prices)
      <4>1. {p} \in SUBSET Prices
        OBVIOUS
      <4> QED
        BY <1>10, <4>1, PriceFacts, SumPart
    <3>3. SumOver(takes, {p}) = takes[p]
      BY <1>10, SumOne
    <3> QED
      BY <1>10, <1>12, <1>13, <3>1, <3>2, <3>3
  <2>2. CASE ~(filled < n)
    BY <1>13, <1>17, <2>2
  <2> QED
    BY <2>1, <2>2
<1>18. PICK scaled : scaled = [p \in Prices |-> bound * takes[p]]
  OBVIOUS
<1>19. /\ SumOver(scaled, Prices) = bound * filled /\ bound \in Nat
       /\ \A p \in Prices : /\ value[p] \in Nat /\ scaled[p] \in Nat
                            /\ side = "buy" => value[p] <= scaled[p]
                            /\ side = "sell" => value[p] >= scaled[p]
  <2>1. bound \in Nat
    BY PriceFacts
  <2>2. \A p \in Prices : takes[p] \in Int /\ scaled[p] = bound * takes[p]
    BY <1>10, <1>18
  <2>3. SumOver(scaled, Prices) = bound * SumOver(takes, Prices)
    <3>1. bound \in Int /\ IsFiniteSet(Prices)
      BY <2>1, PriceFacts
    <3>2. Scaled(scaled, takes, bound, Prices)
      BY <2>2 DEF Scaled
    <3> QED
      BY <3>1, <3>2, SumScaled, Zenon
  <2>4. ASSUME NEW p \in Prices
        PROVE  /\ value[p] \in Nat /\ scaled[p] \in Nat
               /\ side = "buy" => value[p] <= scaled[p]
               /\ side = "sell" => value[p] >= scaled[p]
    <3>1. p \in Nat /\ takes[p] \in Nat /\ value[p] = p * takes[p] /\ scaled[p] = bound * takes[p]
      BY <1>4, <1>10, <1>18, PriceFacts
    <3>2. PICK t, v, s : t = takes[p] /\ v = value[p] /\ s = scaled[p]
      OBVIOUS
    <3>3. v \in Nat /\ s \in Nat /\ (p <= bound => v <= s) /\ (bound <= p => s <= v)
          /\ (t = 0 => v = s)
      BY <2>1, <3>1, <3>2, MoreTimes
    <3>4. CASE ~Within(side, p, bound)
      <4>1. t = 0
        BY <1>7, <1>8, <1>10, <3>2, <3>4
      <4> QED
        BY <3>2, <3>3, <4>1
    <3>5. CASE Within(side, p, bound)
      <4>1. (side = "buy" => p <= bound) /\ (side = "sell" => bound <= p)
        BY <2>1, <3>1, <3>5 DEF Within, Better
      <4> QED
        BY <3>2, <3>3, <4>1
    <3> QED
      BY <3>4, <3>5
  <2> QED
    BY <1>12, <2>1, <2>3, <2>4
<1>20. /\ SumOver(value, Prices) \in Nat
       /\ side = "buy" => SumOver(value, Prices) <= bound * filled
       /\ side = "sell" => SumOver(value, Prices) >= bound * filled
  <2>1. SumOver(value, Prices) \in Nat
    BY <1>19, PriceFacts, SumNat
  <2>2. ASSUME side = "buy" PROVE SumOver(value, Prices) <= SumOver(scaled, Prices)
    <3>1. \A p \in Prices : value[p] \in Int /\ scaled[p] \in Int /\ value[p] <= scaled[p]
      BY <1>19, <2>2
    <3> QED
      BY <3>1, PriceFacts, SumBelow
  <2>3. ASSUME side = "sell" PROVE SumOver(scaled, Prices) <= SumOver(value, Prices)
    <3>1. \A p \in Prices : value[p] \in Int /\ scaled[p] \in Int /\ scaled[p] <= value[p]
      BY <1>19, <2>3
    <3> QED
      BY <3>1, PriceFacts, SumBelow
  <2>4. PICK s, v : s = SumOver(scaled, Prices) /\ v = SumOver(value, Prices)
    OBVIOUS
  <2>5. s \in Nat
    BY <1>19, <2>4, PriceFacts, SumNat
  <2>6. SumOver(value, Prices) <= s => s >= SumOver(value, Prices)
    BY <2>1, <2>5
  <2>7. s <= v => v >= s
    BY <2>1, <2>4, <2>5
  <2>8. s = bound * filled
    BY <1>19, <2>4
  <2> QED
    BY <2>1, <2>2, <2>3, <2>4, <2>7, <2>8, Zenon
<1>21. \A S \in SUBSET Prices : /\ SumOver(ladder, S) = SumOver(rest, S) + SumOver(takes, S)
                                /\ SumOver(rest, S) \in Nat
                                /\ SumOver(takes, S) \in Nat /\ SumOver(takes, S) <= filled
  <2>1. \A p \in Prices : rest[p] \in Int /\ takes[p] \in Int /\ ladder[p] = rest[p] + takes[p]
    BY <1>8, <1>10, <1>14
  <2>2. \A p \in Prices : rest[p] \in Nat
    BY <1>14 DEF Ladder
  <2>3. \A S \in SUBSET Prices : SumOver(ladder, S) = SumOver(rest, S) + SumOver(takes, S)
    BY <2>1, PriceFacts, SumAdds
  <2>4. \A S \in SUBSET Prices : SumOver(rest, S) \in Nat /\ SumOver(takes, S) \in Nat
    BY <1>10, <2>2, PriceFacts, SumNat
  <2>5. \A S \in SUBSET Prices : SumOver(takes, S) <= SumOver(takes, Prices)
    BY <1>10, PriceFacts, SumPart
  <2> QED
    BY <1>12, <2>3, <2>4, <2>5
<1>22. /\ SumOver(ladder, Prices) = SumOver(rest, Prices) + filled
       /\ \A S \in SUBSET Prices : SumOver(ladder, S) <= SumOver(rest, S) + filled
  <2>1. SumOver(ladder, Prices) = SumOver(rest, Prices) + filled
    BY <1>12, <1>21
  <2>2. ASSUME NEW S \in SUBSET Prices PROVE SumOver(ladder, S) <= SumOver(rest, S) + filled
    <3>1. PICK l, r, t : l = SumOver(ladder, S) /\ r = SumOver(rest, S) /\ t = SumOver(takes, S)
      OBVIOUS
    <3>2. l = r + t /\ r \in Nat /\ t \in Nat /\ t <= filled
      BY <1>21, <3>1
    <3> QED
      BY <1>13, <3>1, <3>2
  <2> QED
    BY <2>1, <2>2
<1>23. sweep.filled = filled
  BY <1>6, <1>12
<1> HIDE DEF Ahead
<1>24. (\E p \in Prices : Within(side, p, bound) /\ ladder[p] > 0) /\ n > 0 => filled > 0
  BY <1>17
<1>25. /\ side = "buy" => sweep.notional <= bound * sweep.filled
       /\ side = "sell" => sweep.notional >= bound * sweep.filled
  BY <1>6, <1>20, <1>23, Zenon
<1>26. SweepSound(side, n, bound, ladder, sweep)
  BY <1>6, <1>13, <1>14, <1>15, <1>16, <1>20, <1>22, <1>23, <1>24, <1>25, Zenon DEF SweepSound
<1> QED
  BY <1>5, <1>26
-----------------------------------------------------------------------------
(* What a sequence of reports filled.                                      *)

FillReport ==
    [id : Ids, side : Sides, quantity : Nat, notional : Nat,
     status : {"filled", "partially_filled"}, remaining : Nat]

\* A sum over the first indices grows by the next one.
LEMMA SumNext ==
  ASSUME NEW n \in Nat, NEW f, NEW g, g[n + 1] \in Int,
         \A i \in 1 .. n : f[i] \in Int /\ g[i] = f[i]
  PROVE  SumOver(g, 1 .. n + 1) = SumOver(f, 1 .. n) + g[n + 1]
<1>1. IsFiniteSet(1 .. n) /\ IsFiniteSet(1 .. n + 1)
  BY FS_Interval
<1>2. /\ n + 1 \in 1 .. n + 1 /\ (1 .. n + 1) \ {n + 1} = 1 .. n
      /\ 1 .. n + 1 \in SUBSET (1 .. n + 1)
  OBVIOUS
<1>3. \A i \in 1 .. n + 1 : g[i] \in Int
  <2> SUFFICES ASSUME NEW i \in 1 .. n + 1 PROVE g[i] \in Int
    OBVIOUS
  <2>1. i \in 1 .. n \/ i = n + 1
    OBVIOUS
  <2> QED
    BY <2>1
<1>4. SumOver(g, 1 .. n + 1) = g[n + 1] + SumOver(g, 1 .. n)
  <2>1. PICK x, S : x = n + 1 /\ S = 1 .. n + 1
    OBVIOUS
  <2>2. IsFiniteSet(S) /\ x \in S /\ S \ {x} = 1 .. n /\ S \in SUBSET S /\ \A i \in S : g[i] \in Int
    BY <1>1, <1>2, <1>3, <2>1
  <2>3. SumOver(g, S) = g[x] + SumOver(g, S \ {x})
    BY <2>2, SumWithout
  <2> QED
    BY <2>1, <2>2, <2>3
<1>5. SumOver(f, 1 .. n) = SumOver(g, 1 .. n) /\ SumOver(f, 1 .. n) \in Int
  <2>1. SumOver(f, 1 .. n) = SumOver(g, 1 .. n)
    BY <1>1, SumSame
  <2>2. SumOver(f, 1 .. n) \in Int
    BY <1>1, SumType
  <2> QED
    BY <2>1, <2>2
<1> QED
  BY <1>4, <1>5

LEMMA FilledAppend ==
  ASSUME NEW rs \in Seq(FillReport), NEW r \in FillReport
  PROVE  /\ Filled(Append(rs, r), 1 .. Len(rs) + 1) = Filled(rs, 1 .. Len(rs)) + r.quantity
         /\ Filled(rs, 1 .. Len(rs)) \in Nat
<1>1. PICK n : n = Len(rs)
  OBVIOUS
<1>2. n \in Nat /\ DOMAIN rs = 1 .. n
  BY <1>1
<1>3. PICK f : f = [i \in DOMAIN rs |-> rs[i].quantity]
  OBVIOUS
<1>4. PICK g : g = [i \in DOMAIN Append(rs, r) |-> Append(rs, r)[i].quantity]
  OBVIOUS
<1>5. \A i \in 1 .. n : rs[i] \in FillReport
  BY <1>1
<1>6. \A i \in 1 .. n : f[i] \in Nat
  BY <1>2, <1>3, <1>5 DEF FillReport
<1>7. /\ DOMAIN Append(rs, r) = 1 .. n + 1
      /\ \A i \in 1 .. n : Append(rs, r)[i] = rs[i]
      /\ Append(rs, r)[n + 1] = r
  BY <1>1
<1>8. g[n + 1] = r.quantity /\ r.quantity \in Nat /\ \A i \in 1 .. n : g[i] = f[i]
  BY <1>2, <1>3, <1>4, <1>7 DEF FillReport
<1>9. SumOver(g, 1 .. n + 1) = SumOver(f, 1 .. n) + g[n + 1]
  <2>1. \A i \in 1 .. n : f[i] \in Int
    BY <1>6
  <2>2. g[n + 1] \in Int
    BY <1>8
  <2> QED
    BY <1>2, <1>8, <2>1, <2>2, SumNext
<1>10. SumOver(f, 1 .. n) \in Nat
  <2>1. IsFiniteSet(1 .. n)
    BY <1>2, FS_Interval
  <2> QED
    BY <1>6, <2>1, SumNat
<1>11. Filled(rs, 1 .. n) = SumOver(f, 1 .. n) /\ Filled(Append(rs, r), 1 .. n + 1) = SumOver(g, 1 .. n + 1)
  BY <1>3, <1>4 DEF Filled
<1> QED
  BY <1>1, <1>8, <1>9, <1>10, <1>11

-----------------------------------------------------------------------------
(* One side of advance: what the fold over its line has done so far.       *)

\* What is left of a resting order.
Leftover == [id : Ids, limit : Prices, remaining : Nat]

Acc == [ladder : Ladder, left : Seq(Leftover), reports : Seq(FillReport)]

\* A line in priority: orders of their own, each reaching as far as those behind it.
InLine(side, line) ==
    /\ line \in Seq(_RestingOrder)
    /\ \A m, n \in 1 .. Len(line) : line[m].id = line[n].id => m = n
    /\ \A m, n \in 1 .. Len(line) : m < n =>
          \A p \in Prices : Within(side, p, line[n].limit) => Within(side, p, line[m].limit)

\* A report says what was taken off an order.
Tells(side, x, y, r) ==
    /\ r.id = x.id /\ r.side = side
    /\ r.quantity = x.remaining - y.remaining /\ r.quantity > 0
    /\ r.remaining = y.remaining
    /\ side = "buy" => r.notional <= x.limit * r.quantity
    /\ side = "sell" => r.notional >= x.limit * r.quantity

SweptTypes(line, k, acc) ==
    /\ acc \in Acc /\ Len(acc.left) = k
    /\ \A i \in 1 .. k : /\ acc.left[i].id = line[i].id
                         /\ acc.left[i].limit = line[i].limit
                         /\ acc.left[i].remaining <= line[i].remaining

\* The order is worked on only when those ahead of it are complete, and what
\* an incomplete one may take is gone.
SweptInTurn(side, line, k, acc) ==
    /\ \A i \in 1 .. k : acc.left[i].remaining > 0 =>
          \A p \in Prices : Within(side, p, line[i].limit) => acc.ladder[p] = 0
    /\ \A i \in 1 .. k : \A m \in 1 .. k :
          m < i /\ acc.left[i].remaining < line[i].remaining => acc.left[m].remaining = 0

SweptReports(side, line, k, acc) ==
    /\ \A j \in 1 .. Len(acc.reports) :
          \E i \in 1 .. k : Tells(side, line[i], acc.left[i], acc.reports[j])
    /\ \A i \in 1 .. k : acc.left[i].remaining < line[i].remaining =>
          \E j \in 1 .. Len(acc.reports) : acc.reports[j].id = line[i].id
    /\ \A i, j \in 1 .. Len(acc.reports) : acc.reports[i].id = acc.reports[j].id => i = j

\* What left the ladder was filled.
SweptDepth(ladder, acc) ==
    LET filled == Filled(acc.reports, 1 .. Len(acc.reports))
    IN  /\ filled \in Nat
        /\ SumOver(ladder, Prices) = SumOver(acc.ladder, Prices) + filled
        /\ \A S \in SUBSET Prices : SumOver(ladder, S) <= SumOver(acc.ladder, S) + filled

Swept(side, ladder, line, k, acc) ==
    /\ SweptTypes(line, k, acc)
    /\ SweptInTurn(side, line, k, acc)
    /\ SweptReports(side, line, k, acc)
    /\ SweptDepth(ladder, acc)

\* One order more.
OneMore(side, acc, x, sweep, y, r, new) ==
    /\ SweepSound(side, x.remaining, x.limit, acc.ladder, sweep)
    /\ y \in Leftover /\ y.id = x.id /\ y.limit = x.limit /\ y.remaining = x.remaining - sweep.filled
    /\ r \in FillReport /\ (sweep.filled > 0 => Tells(side, x, y, r)) /\ r.quantity = sweep.filled
    /\ new \in Acc
    /\ new.ladder = sweep.ladder /\ new.left = Append(acc.left, y)
    /\ new.reports = IF sweep.filled = 0 THEN acc.reports ELSE Append(acc.reports, r)

LEMMA FillOneIs ==
  ASSUME NEW side \in Sides, NEW acc \in Acc, NEW x \in _RestingOrder
  PROVE  \E sweep, y, r : OneMore(side, acc, x, sweep, y, r, FillOne(side, acc, x))
<1>1. PICK sweep : sweep = _sweep(side, x.remaining, x.limit, acc.ladder)
  OBVIOUS
<1>2. /\ x.remaining \in Nat /\ x.remaining > 0 /\ x.limit \in Prices /\ x.id \in Ids
      /\ acc.ladder \in Ladder /\ acc.left \in Seq(Leftover) /\ acc.reports \in Seq(FillReport)
  <2>1. MaxQty \in Nat
    BY EngineAssumption
  <2> QED
    BY <2>1 DEF _RestingOrder, Acc
<1>3. SweepSound(side, x.remaining, x.limit, acc.ladder, sweep)
  BY <1>1, <1>2, SweepIsSound
<1>4. /\ sweep.filled \in Nat /\ sweep.filled <= x.remaining /\ sweep.notional \in Nat
      /\ sweep.ladder \in Ladder
      /\ side = "buy" => sweep.notional <= x.limit * sweep.filled
      /\ side = "sell" => sweep.notional >= x.limit * sweep.filled
  BY <1>3, Zenon DEF SweepSound
<1>5. PICK y : y = [x EXCEPT !.remaining = x.remaining - sweep.filled]
  OBVIOUS
<1>6. /\ y \in Leftover /\ y.id = x.id /\ y.limit = x.limit
      /\ y.remaining = x.remaining - sweep.filled
  <2>1. /\ y = [id |-> x.id, limit |-> x.limit, remaining |-> x.remaining - sweep.filled]
    BY <1>5 DEF _RestingOrder
  <2>2. x.remaining - sweep.filled \in Nat
    BY <1>2, <1>4
  <2> QED
    BY <1>2, <2>1, <2>2 DEF Leftover
<1>7. PICK r : r = Report(x.id, side, sweep.filled, sweep.notional,
                          IF y.remaining = 0 THEN "filled" ELSE "partially_filled", y.remaining)
  OBVIOUS
<1>8. /\ r \in FillReport /\ r.id = x.id /\ r.side = side /\ r.quantity = sweep.filled
      /\ r.remaining = y.remaining /\ r.notional = sweep.notional
  BY <1>2, <1>4, <1>6, <1>7 DEF FillReport, Report, Leftover
<1>9. sweep.filled > 0 => Tells(side, x, y, r)
  <2>1. sweep.filled = x.remaining - y.remaining
    BY <1>2, <1>4, <1>6
  <2> QED
    BY <1>4, <1>8, <2>1, Zenon DEF Tells
<1>10. FillOne(side, acc, x) =
          [ladder |-> sweep.ladder, left |-> Append(acc.left, y),
           reports |-> IF sweep.filled = 0 THEN acc.reports ELSE Append(acc.reports, r)]
  BY <1>1, <1>5, <1>6, <1>7 DEF FillOne
<1>11. FillOne(side, acc, x) \in Acc
  <2>1. Append(acc.left, y) \in Seq(Leftover)
    BY <1>2, <1>6
  <2>2. Append(acc.reports, r) \in Seq(FillReport)
    BY <1>2, <1>8
  <2> QED
    BY <1>2, <1>4, <1>10, <2>1, <2>2 DEF Acc
<1>12. PICK new : new = FillOne(side, acc, x)
  OBVIOUS
<1>13. /\ new.ladder = sweep.ladder /\ new.left = Append(acc.left, y)
       /\ new.reports = IF sweep.filled = 0 THEN acc.reports ELSE Append(acc.reports, r)
  BY <1>10, <1>12
<1>14. OneMore(side, acc, x, sweep, y, r, new)
  BY <1>3, <1>6, <1>8, <1>9, <1>11, <1>12, <1>13, Zenon DEF OneMore
<1> QED
  BY <1>12, <1>14
LEMMA SweptStart ==
  ASSUME NEW side \in Sides, NEW ladder \in Ladder, NEW line
  PROVE  LET none == [ladder |-> ladder, left |-> <<>>, reports |-> <<>>]
         IN  none \in Acc /\ Swept(side, ladder, line, 0, none)
<1>1. PICK none : none = [ladder |-> ladder, left |-> <<>>, reports |-> <<>>]
  OBVIOUS
<1>2. /\ none \in Acc /\ none.ladder = ladder /\ none.left = <<>> /\ none.reports = <<>>
      /\ Len(none.left) = 0 /\ Len(none.reports) = 0
  BY <1>1 DEF Acc
<1>3. SweptTypes(line, 0, none)
  BY <1>2 DEF SweptTypes
<1>4. SweptInTurn(side, line, 0, none)
  BY DEF SweptInTurn
<1>5. SweptReports(side, line, 0, none)
  BY <1>2 DEF SweptReports
<1>6. SweptDepth(ladder, none)
  <2>1. Filled(none.reports, 1 .. 0) = 0
    <3>1. 1 .. 0 = {}
      OBVIOUS
    <3> QED
      BY <3>1, SumNone DEF Filled
  <2>2. \A S \in SUBSET Prices : SumOver(ladder, S) \in Nat
    <3>1. \A p \in Prices : ladder[p] \in Nat
      BY DEF Ladder
    <3> QED
      BY <3>1, PriceFacts, SumNat
  <2>3. \A S \in SUBSET Prices : SumOver(ladder, S) = SumOver(ladder, S) + 0
    BY <2>2
  <2>4. \A S \in SUBSET Prices : SumOver(ladder, S) <= SumOver(ladder, S) + 0
    BY <2>2
  <2> QED
    BY <1>2, <2>1, <2>3, <2>4 DEF SweptDepth
<1> QED
  BY <1>1, <1>2, <1>3, <1>4, <1>5, <1>6 DEF Swept

\* The number of indices, their order and the prefix of Append.
LEMMA AppendFacts ==
  ASSUME NEW D, NEW s \in Seq(D), NEW x \in D
  PROVE  /\ Len(s) \in Nat /\ Len(Append(s, x)) = Len(s) + 1 /\ Append(s, x) \in Seq(D)
         /\ \A i \in 1 .. Len(s) : Append(s, x)[i] = s[i] /\ s[i] \in D
         /\ Append(s, x)[Len(s) + 1] = x
  OBVIOUS

LEMMA SweptStep ==
  ASSUME NEW side \in Sides, NEW ladder \in Ladder, NEW line, InLine(side, line),
         NEW k \in Nat, k + 1 <= Len(line), NEW acc, Swept(side, ladder, line, k, acc)
  PROVE  Swept(side, ladder, line, k + 1, FillOne(side, acc, line[k + 1]))
<1> DEFINE K == k + 1  x == line[K]
<1>1. /\ line \in Seq(_RestingOrder) /\ Len(line) \in Nat
      /\ \A i \in 1 .. Len(line) : /\ line[i] \in _RestingOrder /\ line[i].id \in Ids
                                   /\ line[i].limit \in Prices
                                   /\ line[i].remaining \in Nat /\ line[i].remaining > 0
  <2>1. MaxQty \in Nat
    BY EngineAssumption
  <2>2. line \in Seq(_RestingOrder)
    BY DEF InLine
  <2>3. Len(line) \in Nat /\ \A i \in 1 .. Len(line) : line[i] \in _RestingOrder
    BY <2>2
  <2>4. \A z \in _RestingOrder : /\ z.id \in Ids /\ z.limit \in Prices
                                 /\ z.remaining \in Nat /\ z.remaining > 0
    BY <2>1 DEF _RestingOrder
  <2> QED
    BY <2>2, <2>3, <2>4
<1>2. K \in 1 .. Len(line) /\ \A i \in 1 .. k : i \in 1 .. Len(line) /\ i < K
  BY <1>1
<1>3. x \in _RestingOrder /\ acc \in Acc
  BY <1>1, <1>2 DEF Swept, SweptTypes
<1>4. PICK sweep, y, r : OneMore(side, acc, x, sweep, y, r, FillOne(side, acc, x))
  BY <1>3, FillOneIs
<1>5. PICK new : new = FillOne(side, acc, x)
  OBVIOUS
<1> HIDE DEF x
<1>6. /\ SweepSound(side, x.remaining, x.limit, acc.ladder, sweep)
      /\ y \in Leftover /\ y.id = x.id /\ y.limit = x.limit /\ y.remaining = x.remaining - sweep.filled
      /\ r \in FillReport /\ (sweep.filled > 0 => Tells(side, x, y, r)) /\ r.quantity = sweep.filled
      /\ new \in Acc
      /\ new.ladder = sweep.ladder /\ new.left = Append(acc.left, y)
      /\ new.reports = IF sweep.filled = 0 THEN acc.reports ELSE Append(acc.reports, r)
  BY <1>4, <1>5, Zenon DEF OneMore
<1>7. /\ acc.ladder \in Ladder /\ acc.left \in Seq(Leftover) /\ acc.reports \in Seq(FillReport)
  BY <1>3 DEF Acc
<1>8. /\ Len(acc.left) = k /\ Len(new.left) = K
      /\ \A i \in 1 .. k : new.left[i] = acc.left[i] /\ acc.left[i] \in Leftover
      /\ new.left[K] = y
  BY <1>6, <1>7, AppendFacts DEF Swept, SweptTypes
<1>9. /\ sweep.filled \in Nat /\ sweep.filled <= x.remaining
      /\ sweep.ladder \in Ladder /\ \A p \in Prices : sweep.ladder[p] <= acc.ladder[p]
      /\ sweep.filled < x.remaining => \A p \in Prices : Within(side, p, x.limit) => sweep.ladder[p] = 0
      /\ (\A p \in Prices : Within(side, p, x.limit) => acc.ladder[p] = 0) => sweep.filled = 0
      /\ SumOver(acc.ladder, Prices) = SumOver(sweep.ladder, Prices) + sweep.filled
      /\ \A S \in SUBSET Prices : SumOver(acc.ladder, S) <= SumOver(sweep.ladder, S) + sweep.filled
  BY <1>6, Zenon DEF SweepSound
<1>10. x.remaining \in Nat /\ x.remaining > 0 /\ x.limit \in Prices /\ x = line[K] /\ x.id \in Ids
  BY <1>1, <1>2 DEF x
<1>11. \A i \in 1 .. K : i \in 1 .. k \/ i = K
  OBVIOUS
<1>12. \A i \in 1 .. k : /\ acc.left[i].id = line[i].id /\ acc.left[i].limit = line[i].limit
                         /\ acc.left[i].remaining <= line[i].remaining
                         /\ acc.left[i].remaining \in Nat
  BY <1>8 DEF Swept, SweptTypes, Leftover
<1>13. SweptTypes(line, K, new)
  <2>1. y.id = line[K].id /\ y.limit = line[K].limit /\ y.remaining <= line[K].remaining
    BY <1>6, <1>9, <1>10
  <2>2. \A i \in 1 .. K : /\ new.left[i].id = line[i].id
                          /\ new.left[i].limit = line[i].limit
                          /\ new.left[i].remaining <= line[i].remaining
    BY <1>8, <1>11, <1>12, <2>1
  <2> QED
    BY <1>6, <1>8, <2>2 DEF SweptTypes
<1>14. SweptInTurn(side, line, K, new)
  <2>1. ASSUME NEW i \in 1 .. k, acc.left[i].remaining > 0, NEW p \in Prices,
               Within(side, p, line[i].limit)
        PROVE  acc.ladder[p] = 0
    BY <2>1 DEF Swept, SweptInTurn
  <2>2. ASSUME NEW i \in 1 .. K, new.left[i].remaining > 0, NEW p \in Prices,
               Within(side, p, line[i].limit)
        PROVE  new.ladder[p] = 0
    <3>1. CASE i \in 1 .. k
      <4>1. acc.ladder[p] = 0
        BY <1>8, <2>1, <2>2, <3>1
      <4> QED
        BY <1>6, <1>9, <4>1 DEF Ladder
    <3>2. CASE i = K
      <4>1. sweep.filled < x.remaining
        BY <1>6, <1>8, <1>9, <1>10, <2>2, <3>2
      <4> QED
        BY <1>6, <1>9, <1>10, <2>2, <3>2, <4>1
    <3> QED
      BY <1>11, <3>1, <3>2
  <2>3. ASSUME NEW i \in 1 .. K, NEW m \in 1 .. K, m < i, new.left[i].remaining < line[i].remaining
        PROVE  new.left[m].remaining = 0
    <3>1. m \in 1 .. k
      BY <2>3
    <3>2. CASE i \in 1 .. k
      <4>1. acc.left[m].remaining = 0
        BY <1>8, <2>3, <3>1, <3>2 DEF Swept, SweptInTurn
      <4> QED
        BY <1>8, <3>1, <4>1
    <3>3. CASE i = K
      <4>1. sweep.filled # 0
        BY <1>6, <1>8, <1>9, <1>10, <2>3, <3>3
      <4>2. PICK p \in Prices : Within(side, p, x.limit) /\ acc.ladder[p] # 0
        BY <1>9, <4>1
      <4>3. Within(side, p, line[m].limit)
        <5>1. m \in 1 .. Len(line) /\ m < K
          BY <1>2, <3>1
        <5> QED
          BY <1>2, <1>10, <4>2, <5>1 DEF InLine
      <4>4. ~(acc.left[m].remaining > 0)
        BY <2>1, <3>1, <4>2, <4>3
      <4> QED
        BY <1>8, <1>12, <3>1, <4>4
    <3> QED
      BY <1>11, <3>2, <3>3
  <2> QED
    BY <2>2, <2>3 DEF SweptInTurn
<1> DEFINE M == Len(acc.reports)
<1>15. M \in Nat /\ \A j \in 1 .. M : acc.reports[j] \in FillReport
  BY <1>7
<1>16. /\ sweep.filled = 0 => new.reports = acc.reports
       /\ sweep.filled # 0 => /\ Len(new.reports) = M + 1 /\ new.reports[M + 1] = r
                              /\ \A j \in 1 .. M : new.reports[j] = acc.reports[j]
  <2>1. CASE sweep.filled = 0
    BY <1>6, <2>1
  <2>2. CASE sweep.filled # 0
    <3>1. new.reports = Append(acc.reports, r)
      BY <1>6, <2>2
    <3> QED
      BY <1>6, <1>7, <2>2, <3>1, AppendFacts
  <2> QED
    BY <2>1, <2>2
<1>17. \A i \in 1 .. k : acc.left[i].remaining < line[i].remaining =>
          \E j \in 1 .. M : acc.reports[j].id = line[i].id
  BY DEF Swept, SweptReports
<1>18. \A j \in 1 .. M : \E i \in 1 .. k : Tells(side, line[i], acc.left[i], acc.reports[j])
  BY DEF Swept, SweptReports
<1>19. \A i, j \in 1 .. M : acc.reports[i].id = acc.reports[j].id => i = j
  BY DEF Swept, SweptReports
<1> HIDE DEF M
<1>20. SweptReports(side, line, K, new)
  <2>1. CASE sweep.filled = 0
    <3>1. new.reports = acc.reports
      BY <1>16, <2>1
    <3>2. \A j \in 1 .. M : \E i \in 1 .. K : Tells(side, line[i], new.left[i], new.reports[j])
      <4> SUFFICES ASSUME NEW j \in 1 .. M
                   PROVE  \E i \in 1 .. K : Tells(side, line[i], new.left[i], new.reports[j])
        OBVIOUS
      <4>1. PICK i \in 1 .. k : Tells(side, line[i], acc.left[i], acc.reports[j])
        BY <1>18
      <4>2. i \in 1 .. K /\ new.left[i] = acc.left[i]
        BY <1>8
      <4> QED
        BY <3>1, <4>1, <4>2
    <3>3. \A i \in 1 .. K : new.left[i].remaining < line[i].remaining =>
             \E j \in 1 .. M : new.reports[j].id = line[i].id
      <4> SUFFICES ASSUME NEW i \in 1 .. K, new.left[i].remaining < line[i].remaining
                   PROVE  \E j \in 1 .. M : new.reports[j].id = line[i].id
        OBVIOUS
      <4>1. i # K
        BY <1>6, <1>8, <1>10, <2>1
      <4>2. i \in 1 .. k
        BY <1>11, <4>1
      <4> QED
        BY <1>8, <1>17, <3>1, <4>2
    <3> QED
      BY <1>19, <3>1, <3>2, <3>3 DEF SweptReports, M
  <2>2. CASE sweep.filled # 0
    <3>1. Len(new.reports) = M + 1 /\ new.reports[M + 1] = r
          /\ \A j \in 1 .. M : new.reports[j] = acc.reports[j]
      BY <1>16, <2>2
    <3>2. Tells(side, x, y, r) /\ r.id = x.id
      <4>1. sweep.filled > 0
        BY <1>9, <2>2
      <4> QED
        BY <1>6, <4>1 DEF Tells
    <3>3. \A j \in 1 .. M + 1 : j \in 1 .. M \/ j = M + 1
      BY <1>15
    <3>4. \A j \in 1 .. M + 1 : \E i \in 1 .. K : Tells(side, line[i], new.left[i], new.reports[j])
      <4> SUFFICES ASSUME NEW j \in 1 .. M + 1
                   PROVE  \E i \in 1 .. K : Tells(side, line[i], new.left[i], new.reports[j])
        OBVIOUS
      <4>1. CASE j \in 1 .. M
        <5>1. PICK i \in 1 .. k : Tells(side, line[i], acc.left[i], acc.reports[j])
          BY <1>18, <4>1
        <5>2. i \in 1 .. K /\ new.left[i] = acc.left[i]
          BY <1>8
        <5> QED
          BY <3>1, <4>1, <5>1, <5>2
      <4>2. CASE j = M + 1
        <5>1. K \in 1 .. K
          OBVIOUS
        <5> QED
          BY <1>8, <1>10, <3>1, <3>2, <4>2, <5>1
      <4> QED
        BY <3>3, <4>1, <4>2
    <3>5. \A i \in 1 .. K : new.left[i].remaining < line[i].remaining =>
             \E j \in 1 .. M + 1 : new.reports[j].id = line[i].id
      <4> SUFFICES ASSUME NEW i \in 1 .. K, new.left[i].remaining < line[i].remaining
                   PROVE  \E j \in 1 .. M + 1 : new.reports[j].id = line[i].id
        OBVIOUS
      <4>1. CASE i \in 1 .. k
        <5>1. PICK j \in 1 .. M : acc.reports[j].id = line[i].id
          BY <1>8, <1>17, <4>1
        <5>2. j \in 1 .. M + 1 /\ new.reports[j] = acc.reports[j]
          BY <1>15, <3>1
        <5> QED
          BY <5>1, <5>2
      <4>2. CASE i = K
        <5>1. M + 1 \in 1 .. M + 1
          BY <1>15
        <5> QED
          BY <1>10, <3>1, <3>2, <4>2, <5>1
      <4> QED
        BY <1>11, <4>1, <4>2
    <3>6. \A j \in 1 .. M : acc.reports[j].id # x.id
      <4> SUFFICES ASSUME NEW j \in 1 .. M PROVE acc.reports[j].id # x.id
        OBVIOUS
      <4>1. PICK i \in 1 .. k : Tells(side, line[i], acc.left[i], acc.reports[j])
        BY <1>18
      <4>2. i \in 1 .. Len(line) /\ i # K
        BY <1>2
      <4>3. line[i].id # line[K].id
        BY <1>2, <4>2 DEF InLine
      <4> QED
        BY <1>10, <4>1, <4>3 DEF Tells
    <3>7. \A i, j \in 1 .. M + 1 : new.reports[i].id = new.reports[j].id => i = j
      <4> SUFFICES ASSUME NEW i \in 1 .. M + 1, NEW j \in 1 .. M + 1,
                          new.reports[i].id = new.reports[j].id
                   PROVE  i = j
        OBVIOUS
      <4>1. CASE i \in 1 .. M /\ j \in 1 .. M
        BY <1>19, <3>1, <4>1
      <4>2. CASE i \in 1 .. M /\ j = M + 1
        BY <3>1, <3>2, <3>6, <4>2
      <4>3. CASE i = M + 1 /\ j \in 1 .. M
        BY <3>1, <3>2, <3>6, <4>3
      <4> QED
        BY <3>3, <4>1, <4>2, <4>3
    <3> QED
      BY <3>1, <3>4, <3>5, <3>7 DEF SweptReports
  <2> QED
    BY <2>1, <2>2
<1>21. SweptDepth(ladder, new)
  <2>1. PICK f : f = Filled(acc.reports, 1 .. Len(acc.reports))
    OBVIOUS
  <2>2. /\ f \in Nat /\ SumOver(ladder, Prices) = SumOver(acc.ladder, Prices) + f
        /\ \A S \in SUBSET Prices : SumOver(ladder, S) <= SumOver(acc.ladder, S) + f
    BY <2>1 DEF Swept, SweptDepth
  <2>3. PICK g : g = Filled(new.reports, 1 .. Len(new.reports))
    OBVIOUS
  <2>4. g = f + sweep.filled
    <3>1. CASE sweep.filled = 0
      <4>1. g = f
        BY <1>16, <2>1, <2>3, <3>1
      <4> QED
        BY <2>2, <3>1, <4>1
    <3>2. CASE sweep.filled # 0
      <4>1. new.reports = Append(acc.reports, r) /\ Len(new.reports) = Len(acc.reports) + 1
        BY <1>6, <1>16, <3>2 DEF M
      <4>2. r \in FillReport /\ r.quantity = sweep.filled
        BY <1>6
      <4> QED
        BY <1>7, <2>1, <2>3, <4>1, <4>2, FilledAppend
    <3> QED
      BY <3>1, <3>2
  <2>5. \A S \in SUBSET Prices : SumOver(sweep.ladder, S) \in Nat /\ SumOver(acc.ladder, S) \in Nat
                                 /\ SumOver(ladder, S) \in Nat
    <3>1. \A p \in Prices : sweep.ladder[p] \in Nat /\ acc.ladder[p] \in Nat /\ ladder[p] \in Nat
      BY <1>7, <1>9 DEF Ladder
    <3> QED
      BY <3>1, PriceFacts, SumNat
  <2>6. SumOver(ladder, Prices) = SumOver(sweep.ladder, Prices) + g
    <3>1. PICK a, b, c : a = SumOver(ladder, Prices) /\ b = SumOver(acc.ladder, Prices)
                         /\ c = SumOver(sweep.ladder, Prices)
      OBVIOUS
    <3>2. PICK s : s = sweep.filled
      OBVIOUS
    <3>3. a = b + f /\ b = c + s /\ b \in Nat /\ c \in Nat /\ s \in Nat
          /\ f \in Nat /\ g = f + s
      BY <1>9, <2>2, <2>4, <2>5, <3>1, <3>2
    <3>4. a = c + g
      BY <3>3
    <3> QED
      BY <3>1, <3>4
  <2>7. ASSUME NEW S \in SUBSET Prices PROVE SumOver(ladder, S) <= SumOver(sweep.ladder, S) + g
    <3>1. PICK a, b, c : a = SumOver(ladder, S) /\ b = SumOver(acc.ladder, S)
                         /\ c = SumOver(sweep.ladder, S)
      OBVIOUS
    <3>2. PICK s : s = sweep.filled
      OBVIOUS
    <3>3. a <= b + f /\ b <= c + s /\ a \in Nat /\ b \in Nat /\ c \in Nat /\ s \in Nat
          /\ f \in Nat /\ g = f + s
      BY <1>9, <2>2, <2>4, <2>5, <3>1, <3>2
    <3>4. a <= c + g
      BY <3>3
    <3> QED
      BY <3>1, <3>4
  <2>8. g \in Nat
    BY <1>9, <2>2, <2>4
  <2> QED
    BY <1>6, <2>3, <2>6, <2>7, <2>8 DEF SweptDepth
<1> QED
  BY <1>5, <1>13, <1>14, <1>20, <1>21 DEF Swept, x
\* The function the fold of AdvanceSide is defined by.
SideFold(f, side, none, line) ==
    f = [s \in SUBSET DOMAIN line |->
            IF s = {} THEN none
            ELSE FillOne(side, f[s \ {Greatest(s)}], line[Greatest(s)])]

LEMMA AdvanceSideIs ==
  ASSUME NEW side, NEW b
  PROVE  AdvanceSide(side, b) =
            (CHOOSE f : SideFold(f, side, [ladder |-> _ladder(b, side), left |-> <<>>, reports |-> <<>>],
                                 InPriority(side)))[DOMAIN InPriority(side)]
  BY DEF AdvanceSide, FoldLeft, MapThenFoldSet, SideFold, Greatest

\* The whole side is swept.
LEMMA SideIsSwept ==
  ASSUME NEW side \in Sides, NEW b, _ladder(b, side) \in Ladder, InLine(side, InPriority(side))
  PROVE  Swept(side, _ladder(b, side), InPriority(side), Len(InPriority(side)), AdvanceSide(side, b))
<1>1. PICK ladder, line, n : ladder = _ladder(b, side) /\ line = InPriority(side) /\ n = Len(line)
  OBVIOUS
<1>2. PICK none : none = [ladder |-> ladder, left |-> <<>>, reports |-> <<>>]
  OBVIOUS
<1>3. /\ ladder \in Ladder /\ InLine(side, line) /\ none \in Acc
      /\ Swept(side, ladder, line, 0, none)
  BY <1>1, <1>2, SweptStart
<1>4. n \in Nat /\ DOMAIN line = 1 .. n /\ \A k \in 1 .. n : line[k] \in _RestingOrder
  <2>1. line \in Seq(_RestingOrder)
    BY <1>3 DEF InLine
  <2> QED
    BY <1>1, <2>1
<1>5. PICK G : G = [z \in (1 .. n) \X Acc |-> FillOne(side, z[2], line[z[1]])]
  OBVIOUS
<1>6. \A k \in 1 .. n : \A acc \in Acc : /\ FillOne(side, acc, line[k]) \in Acc
                                         /\ G[<<k, acc>>] = FillOne(side, acc, line[k])
                                         /\ <<k, acc>> \in (1 .. n) \X Acc
  <2> SUFFICES ASSUME NEW k \in 1 .. n, NEW acc \in Acc
               PROVE  /\ FillOne(side, acc, line[k]) \in Acc
                      /\ G[<<k, acc>>] = FillOne(side, acc, line[k])
                      /\ <<k, acc>> \in (1 .. n) \X Acc
    OBVIOUS
  <2>1. FillOne(side, acc, line[k]) \in Acc
    BY <1>4, FillOneIs, Zenon DEF OneMore
  <2> QED
    BY <1>5, <2>1
<1>7. G \in Steps(n, Acc)
  <2>1. ASSUME NEW z \in (1 .. n) \X Acc PROVE FillOne(side, z[2], line[z[1]]) \in Acc
    <3>1. z[1] \in 1 .. n /\ z[2] \in Acc
      BY <2>1
    <3> QED
      BY <1>6, <3>1
  <2> QED
    BY <1>5, <2>1 DEF Steps
<1>8. \E f : SideFold(f, side, none, line)
  <2>1. PICK f : FoldTable(f, Acc, none, n, G)
    BY <1>3, <1>4, <1>7, FoldExists
  <2>2. \A s \in SUBSET (1 .. n) :
           s # {} => G[<<Greatest(s), f[s \ {Greatest(s)}]>>]
                       = FillOne(side, f[s \ {Greatest(s)}], line[Greatest(s)])
    <3> SUFFICES ASSUME NEW s \in SUBSET (1 .. n), s # {}
                 PROVE  G[<<Greatest(s), f[s \ {Greatest(s)}]>>]
                          = FillOne(side, f[s \ {Greatest(s)}], line[Greatest(s)])
      OBVIOUS
    <3>1. Greatest(s) \in 1 .. n
      BY <1>4, GreatestIs
    <3>2. s \ {Greatest(s)} \in SUBSET (1 .. n)
      OBVIOUS
    <3>3. f[s \ {Greatest(s)}] \in Acc
      BY <2>1, <3>2 DEF FoldTable
    <3> QED
      BY <1>6, <3>1, <3>3
  <2>3. f = [s \in SUBSET DOMAIN line |->
                IF s = {} THEN none
                ELSE FillOne(side, f[s \ {Greatest(s)}], line[Greatest(s)])]
    BY <1>4, <2>1, <2>2 DEF FoldTable
  <2> QED
    BY <2>3, Zenon DEF SideFold
<1>9. PICK f : f = CHOOSE g : SideFold(g, side, none, line)
  OBVIOUS
<1>10. SideFold(f, side, none, line)
  BY <1>8, <1>9
<1>11. AdvanceSide(side, b) = f[1 .. n]
  BY <1>1, <1>2, <1>4, <1>9, AdvanceSideIs
<1>12. Folds(f, Acc, none, n, G)
  <2>1. f[{}] = none
    BY <1>4, <1>10 DEF SideFold
  <2>2. ASSUME NEW s \in SUBSET (1 .. n), s # {}, f[s \ {Greatest(s)}] \in Acc
        PROVE  f[s] = G[<<Greatest(s), f[s \ {Greatest(s)}]>>]
    <3>1. Greatest(s) \in 1 .. n
      BY <1>4, <2>2, GreatestIs
    <3>2. f[s] = FillOne(side, f[s \ {Greatest(s)}], line[Greatest(s)])
      BY <1>4, <1>10, <2>2 DEF SideFold
    <3> QED
      BY <1>6, <2>2, <3>1, <3>2
  <2> QED
    BY <2>1, <2>2 DEF Folds
<1>13. PICK h : Course(h, Acc, none, n, G) /\ h[n] = f[1 .. n]
  BY <1>3, <1>4, <1>7, <1>12, FoldHasCourse
<1> DEFINE Good == {z \in (0 .. n) \X Acc : Swept(side, ladder, line, z[1], z[2])}
<1>14. <<0, h[0]>> \in Good
  BY <1>3, <1>4, <1>13 DEF Course
<1>15. ASSUME NEW k \in 0 .. n - 1, <<k, h[k]>> \in Good PROVE <<k + 1, h[k + 1]>> \in Good
  <2>1. k \in Nat /\ k + 1 \in 1 .. n /\ k + 1 - 1 = k /\ k + 1 <= Len(line)
    BY <1>1, <1>4
  <2>2. h[k] \in Acc /\ Swept(side, ladder, line, k, h[k])
    BY <1>15
  <2>3. PICK m : m = k + 1
    OBVIOUS
  <2>4. h[m] = G[<<m, h[m - 1]>>] /\ h[m] \in Acc /\ m - 1 = k
    BY <2>1, <2>3, <1>13 DEF Course
  <2>5. h[m] = FillOne(side, h[k], line[m])
    BY <1>6, <2>1, <2>2, <2>3, <2>4
  <2>6. Swept(side, ladder, line, k + 1, FillOne(side, h[k], line[k + 1]))
    BY <1>3, <2>1, <2>2, SweptStep
  <2>7. Swept(side, ladder, line, m, h[m])
    BY <2>3, <2>5, <2>6
  <2> QED
    BY <2>1, <2>3, <2>4, <2>7
<1>16. <<n, h[n]>> \in Good
  <2> HIDE DEF Good
  <2> QED
    BY <1>4, <1>14, <1>15, CourseInduction
<1> QED
  BY <1>1, <1>11, <1>13, <1>16
-----------------------------------------------------------------------------
(* The line of a side: its queues, the best price first.                   *)

\* Every queue holds the orders of its price.
QueueTypes ==
    /\ queue \in [Sides \X Prices -> Seq(_RestingOrder)]
    /\ \A k \in Sides \X Prices : \A i \in DOMAIN queue[k] : queue[k][i].limit = k[2]

QueueInv == QueueTypes /\ QueuedOnce

\* The queues of a side, in the order in which they are worked.
Levels(side) == [n \in Prices |-> queue[<<side, BestFirst(side, n)>>]]

LevelsSound(side, levels) ==
    /\ \A n \in Prices : /\ BestFirst(side, n) \in Prices
                         /\ Rank(side, BestFirst(side, n)) = MaxPrice + 1 - n
                         /\ levels[n] = queue[<<side, BestFirst(side, n)>>]
                         /\ levels[n] \in Seq(_RestingOrder)
    /\ \A p \in Prices : \E n \in Prices : BestFirst(side, n) = p
    /\ \A n \in Prices : \A i \in 1 .. Len(levels[n]) :
          levels[n][i] \in _RestingOrder /\ levels[n][i].limit = BestFirst(side, n)
    /\ \A m, n \in Prices : \A i \in 1 .. Len(levels[m]), j \in 1 .. Len(levels[n]) :
          levels[m][i].id = levels[n][j].id => m = n /\ i = j

LEMMA LevelFacts ==
  ASSUME QueueInv, NEW side \in Sides
  PROVE  LevelsSound(side, Levels(side))
<1>1. PICK levels : levels = Levels(side)
  OBVIOUS
<1>2. MaxPrice \in Nat
  BY EngineAssumption
<1>3. \A n \in Prices : /\ BestFirst(side, n) \in Prices
                        /\ Rank(side, BestFirst(side, n)) = MaxPrice + 1 - n
  BY <1>2 DEF BestFirst, Rank, Prices
<1>4. \A n \in Prices : levels[n] = queue[<<side, BestFirst(side, n)>>]
  BY <1>1 DEF Levels
<1>5. \A p \in Prices : \E n \in Prices : BestFirst(side, n) = p
  <2> SUFFICES ASSUME NEW p \in Prices PROVE \E n \in Prices : BestFirst(side, n) = p
    OBVIOUS
  <2>1. BestFirst(side, p) \in Prices /\ BestFirst(side, BestFirst(side, p)) = p
    BY <1>2 DEF BestFirst, Prices
  <2> QED
    BY <2>1
<1>6. \A m, n \in Prices : BestFirst(side, m) = BestFirst(side, n) => m = n
  BY <1>2 DEF BestFirst, Prices
<1>7. \A n \in Prices : <<side, BestFirst(side, n)>> \in Sides \X Prices
  BY <1>3
<1>8. ASSUME NEW n \in Prices
      PROVE  /\ levels[n] \in Seq(_RestingOrder)
             /\ \A i \in 1 .. Len(levels[n]) :
                   levels[n][i] \in _RestingOrder /\ levels[n][i].limit = BestFirst(side, n)
  <2>1. PICK k, q : k = <<side, BestFirst(side, n)>> /\ q = queue[k]
    OBVIOUS
  <2>2. k \in Sides \X Prices /\ k[2] = BestFirst(side, n) /\ levels[n] = q
    BY <1>4, <1>7, <2>1
  <2>3. q \in Seq(_RestingOrder) /\ \A i \in DOMAIN q : q[i].limit = k[2]
    BY <2>1, <2>2 DEF QueueInv, QueueTypes
  <2>4. \A i \in 1 .. Len(q) : i \in DOMAIN q /\ q[i] \in _RestingOrder
    BY <2>3
  <2> QED
    BY <2>2, <2>3, <2>4
<1>9. ASSUME NEW m \in Prices, NEW n \in Prices,
             NEW i \in 1 .. Len(levels[m]), NEW j \in 1 .. Len(levels[n]),
             levels[m][i].id = levels[n][j].id
      PROVE  m = n /\ i = j
  <2>1. PICK k, l : k = <<side, BestFirst(side, m)>> /\ l = <<side, BestFirst(side, n)>>
    OBVIOUS
  <2>2. /\ k \in DOMAIN queue /\ l \in DOMAIN queue
        /\ levels[m] = queue[k] /\ levels[n] = queue[l]
    BY <1>4, <1>7, <2>1 DEF QueueInv, QueueTypes
  <2>3. i \in DOMAIN queue[k] /\ j \in DOMAIN queue[l]
    BY <1>8, <2>2
  <2>4. k = l /\ i = j
    BY <1>9, <2>2, <2>3 DEF QueueInv, QueuedOnce
  <2> QED
    BY <1>6, <2>1, <2>4
<1> QED
  BY <1>1, <1>3, <1>4, <1>5, <1>8, <1>9 DEF LevelsSound

\* The first k levels, one behind the other.
Flat(f, seqs, L) == f = [i \in 1 .. L |-> IF i = 1 THEN seqs[i] ELSE f[i - 1] \o seqs[i]]

LEMMA FlattenIs ==
  ASSUME NEW seqs, Len(seqs) # 0
  PROVE  FlattenSeq(seqs) = (CHOOSE f : Flat(f, seqs, Len(seqs)))[Len(seqs)]
  BY DEF FlattenSeq, Flat

LEMMA FlatExists ==
  ASSUME NEW R, NEW L \in Nat, NEW seqs, \A i \in 1 .. L : seqs[i] \in Seq(R)
  PROVE  \E f : Flat(f, seqs, L)
<1>1. PICK G : G = [z \in (1 .. L) \X Seq(R) |-> z[2] \o seqs[z[1]]]
  OBVIOUS
<1>2. G \in Steps(L, Seq(R))
  <2>1. ASSUME NEW z \in (1 .. L) \X Seq(R) PROVE z[2] \o seqs[z[1]] \in Seq(R)
    <3>1. z[2] \in Seq(R) /\ seqs[z[1]] \in Seq(R)
      OBVIOUS
    <3> QED
      BY <3>1, ConcatProperties
  <2> QED
    BY <1>1, <2>1 DEF Steps
<1>3. PICK h : Course(h, Seq(R), <<>>, L, G)
  <2>1. <<>> \in Seq(R)
    OBVIOUS
  <2> QED
    BY <1>2, <2>1, CourseExists
<1>4. \A i \in 1 .. L : h[i] = h[i - 1] \o seqs[i]
  <2> SUFFICES ASSUME NEW i \in 1 .. L PROVE h[i] = h[i - 1] \o seqs[i]
    OBVIOUS
  <2>1. i - 1 \in 0 .. L
    OBVIOUS
  <2>2. h[i] = G[<<i, h[i - 1]>>] /\ h[i - 1] \in Seq(R)
    BY <1>3, <2>1 DEF Course
  <2> QED
    BY <1>1, <2>2
<1> DEFINE f == [i \in 1 .. L |-> h[i]]
<1>5. ASSUME NEW i \in 1 .. L
      PROVE  f[i] = IF i = 1 THEN seqs[i] ELSE f[i - 1] \o seqs[i]
  <2>1. f[i] = h[i - 1] \o seqs[i]
    BY <1>4
  <2>2. CASE i = 1
    <3>1. h[i - 1] = <<>>
      BY <1>3, <2>2 DEF Course
    <3>2. <<>> \o seqs[i] = seqs[i]
      <4>1. seqs[i] \in Seq(R)
        OBVIOUS
      <4> QED
        BY <4>1, ConcatEmptySeq
    <3> QED
      BY <2>1, <2>2, <3>1, <3>2
  <2>3. CASE i # 1
    <3>1. i - 1 \in 1 .. L
      BY <2>3
    <3> QED
      BY <2>1, <2>3, <3>1
  <2> QED
    BY <2>2, <2>3
<1>6. Flat(f, seqs, L)
  BY <1>5 DEF Flat
<1> QED
  BY <1>6
\* A line made of the first k levels of a side.
LineOf(side, levels, k, s) ==
    /\ s \in Seq(_RestingOrder)
    /\ \A m \in 1 .. Len(s) : \E n \in 1 .. k : \E i \in 1 .. Len(levels[n]) : s[m] = levels[n][i]
    /\ \A n \in 1 .. k : \A i \in 1 .. Len(levels[n]) : \E m \in 1 .. Len(s) : s[m] = levels[n][i]
    /\ \A m, n \in 1 .. Len(s) : s[m].id = s[n].id => m = n
    /\ \A m, n \in 1 .. Len(s) : m < n => Rank(side, s[m].limit) >= Rank(side, s[n].limit)

LEMMA FirstLevel ==
  ASSUME QueueInv, NEW side \in Sides
  PROVE  LineOf(side, Levels(side), 1, Levels(side)[1])
<1>1. PICK levels, s : levels = Levels(side) /\ s = levels[1]
  OBVIOUS
<1>2. 1 \in Prices /\ MaxPrice \in Nat
  BY EngineAssumption DEF Prices
<1>3. /\ s \in Seq(_RestingOrder) /\ Rank(side, BestFirst(side, 1)) = MaxPrice
      /\ \A i \in 1 .. Len(s) : s[i].limit = BestFirst(side, 1)
      /\ \A i, j \in 1 .. Len(s) : s[i].id = s[j].id => i = j
  <2>1. LevelsSound(side, levels)
    BY <1>1, LevelFacts
  <2>2. s \in Seq(_RestingOrder) /\ Rank(side, BestFirst(side, 1)) = MaxPrice
    <3>1. s \in Seq(_RestingOrder) /\ Rank(side, BestFirst(side, 1)) = MaxPrice + 1 - 1
      BY <1>1, <1>2, <2>1, Zenon DEF LevelsSound
    <3>2. MaxPrice + 1 - 1 = MaxPrice
      BY <1>2
    <3> QED
      BY <3>1, <3>2
  <2>3. \A i \in 1 .. Len(s) : s[i].limit = BestFirst(side, 1)
    BY <1>1, <1>2, <2>1 DEF LevelsSound
  <2>4. \A i, j \in 1 .. Len(s) : s[i].id = s[j].id => i = j
    BY <1>1, <1>2, <2>1 DEF LevelsSound
  <2> QED
    BY <2>2, <2>3, <2>4
<1>4. \A m \in 1 .. Len(s) : \E n \in 1 .. 1 : \E i \in 1 .. Len(levels[n]) : s[m] = levels[n][i]
  BY <1>1
<1>5. \A n \in 1 .. 1 : \A i \in 1 .. Len(levels[n]) : \E m \in 1 .. Len(s) : s[m] = levels[n][i]
  BY <1>1
<1>6. \A m, n \in 1 .. Len(s) : m < n => Rank(side, s[m].limit) >= Rank(side, s[n].limit)
  BY <1>2, <1>3
<1> QED
  BY <1>1, <1>3, <1>4, <1>5, <1>6 DEF LineOf

LEMMA LevelBelow ==
  ASSUME QueueInv, NEW side \in Sides, NEW k \in 1 .. MaxPrice, k + 1 <= MaxPrice,
         NEW s, LineOf(side, Levels(side), k, s)
  PROVE  LineOf(side, Levels(side), k + 1, s \o Levels(side)[k + 1])
<1>1. PICK levels, K, q, t : /\ levels = Levels(side) /\ K = k + 1
                             /\ q = levels[K] /\ t = s \o q
  OBVIOUS
<1>2. MaxPrice \in Nat
  BY EngineAssumption
<1>3. K \in Prices /\ k \in Nat /\ K \in Nat /\ \A n \in 1 .. k : n \in Prices /\ n < K /\ n \in 1 .. K
  BY <1>1, <1>2 DEF Prices
<1>4. /\ s \in Seq(_RestingOrder)
      /\ \A m \in 1 .. Len(s) : \E n \in 1 .. k : \E i \in 1 .. Len(levels[n]) : s[m] = levels[n][i]
      /\ \A n \in 1 .. k : \A i \in 1 .. Len(levels[n]) : \E m \in 1 .. Len(s) : s[m] = levels[n][i]
      /\ \A m, n \in 1 .. Len(s) : s[m].id = s[n].id => m = n
      /\ \A m, n \in 1 .. Len(s) : m < n => Rank(side, s[m].limit) >= Rank(side, s[n].limit)
  BY <1>1 DEF LineOf
<1>5. /\ q \in Seq(_RestingOrder)
      /\ \A n \in Prices : /\ Rank(side, BestFirst(side, n)) = MaxPrice + 1 - n
                           /\ \A i \in 1 .. Len(levels[n]) : levels[n][i].limit = BestFirst(side, n)
      /\ \A m, n \in Prices : \A i \in 1 .. Len(levels[m]), j \in 1 .. Len(levels[n]) :
            levels[m][i].id = levels[n][j].id => m = n /\ i = j
  <2>1. LevelsSound(side, levels)
    BY <1>1, LevelFacts
  <2> QED
    BY <1>1, <1>3, <2>1 DEF LevelsSound
<1>6. PICK a, b : a = Len(s) /\ b = Len(q)
  OBVIOUS
<1>7. /\ a \in Nat /\ b \in Nat /\ t \in Seq(_RestingOrder) /\ Len(t) = a + b
      /\ \A m \in 1 .. a + b : t[m] = IF m <= a THEN s[m] ELSE q[m - a]
  BY <1>1, <1>4, <1>5, <1>6, ConcatProperties
<1>8. \A m \in 1 .. a + b : \/ m \in 1 .. a /\ t[m] = s[m]
                            \/ m - a \in 1 .. b /\ t[m] = q[m - a] /\ ~(m \in 1 .. a)
  BY <1>7
<1>9. \A m \in 1 .. a + b : \E n \in 1 .. K : \E i \in 1 .. Len(levels[n]) : t[m] = levels[n][i]
  <2> SUFFICES ASSUME NEW m \in 1 .. a + b
               PROVE  \E n \in 1 .. K : \E i \in 1 .. Len(levels[n]) : t[m] = levels[n][i]
    OBVIOUS
  <2>1. CASE m \in 1 .. a /\ t[m] = s[m]
    BY <1>3, <1>4, <1>6, <2>1, SMTT(30)
  <2>2. CASE m - a \in 1 .. b /\ t[m] = q[m - a]
    <3>1. K \in 1 .. K
      BY <1>1, <1>3
    <3> QED
      BY <1>1, <1>6, <2>2, <3>1
  <2> QED
    BY <1>8, <2>1, <2>2
<1>10. \A n \in 1 .. K : \A i \in 1 .. Len(levels[n]) : \E m \in 1 .. a + b : t[m] = levels[n][i]
  <2> SUFFICES ASSUME NEW n \in 1 .. K, NEW i \in 1 .. Len(levels[n])
               PROVE  \E m \in 1 .. a + b : t[m] = levels[n][i]
    OBVIOUS
  <2>1. CASE n \in 1 .. k
    <3>1. PICK m \in 1 .. a : s[m] = levels[n][i]
      BY <1>4, <1>6, <2>1
    <3>2. m \in 1 .. a + b /\ m <= a
      BY <1>7
    <3> QED
      BY <1>7, <3>1, <3>2
  <2>2. CASE n = K
    <3>1. i \in 1 .. b
      BY <1>1, <1>6, <2>2
    <3>2. PICK m : m = a + i
      OBVIOUS
    <3>3. m \in 1 .. a + b /\ ~(m <= a) /\ m - a = i
      BY <1>7, <3>1, <3>2
    <3>4. t[m] = q[i]
      BY <1>7, <3>3
    <3> QED
      BY <1>1, <2>2, <3>3, <3>4
  <2>3. n \in 1 .. k \/ n = K
    BY <1>1, <1>3
  <2> QED
    BY <2>1, <2>2, <2>3
\* An order of the line so far differs from those of the level below it.
<1>11. ASSUME NEW m \in 1 .. a, NEW j \in 1 .. b
       PROVE  s[m].id # q[j].id /\ Rank(side, s[m].limit) >= Rank(side, q[j].limit)
  <2>1. PICK n \in 1 .. k : \E i \in 1 .. Len(levels[n]) : s[m] = levels[n][i]
    BY <1>4, <1>6
  <2>2. PICK i \in 1 .. Len(levels[n]) : s[m] = levels[n][i]
    BY <2>1
  <2>3. n \in Prices /\ n < K /\ n \in Int /\ K \in Int /\ j \in 1 .. Len(levels[K]) /\ q[j] = levels[K][j]
    BY <1>1, <1>3, <1>6
  <2>4. s[m].id # q[j].id
    BY <1>3, <1>5, <2>2, <2>3
  <2>5. s[m].limit = BestFirst(side, n) /\ q[j].limit = BestFirst(side, K)
    BY <1>3, <1>5, <2>2, <2>3
  <2>6. Rank(side, s[m].limit) = MaxPrice + 1 - n /\ Rank(side, q[j].limit) = MaxPrice + 1 - K
    BY <1>3, <1>5, <2>3, <2>5
  <2>7. PICK x, y : x = Rank(side, s[m].limit) /\ y = Rank(side, q[j].limit)
    OBVIOUS
  <2>8. x >= y
    BY <1>2, <2>3, <2>6, <2>7
  <2> QED
    BY <2>4, <2>7, <2>8
<1>12. \A i, j \in 1 .. b : q[i].id = q[j].id => i = j
  BY <1>1, <1>3, <1>5, <1>6
<1>13. \A i, j \in 1 .. b : Rank(side, q[i].limit) >= Rank(side, q[j].limit)
  <2> SUFFICES ASSUME NEW i \in 1 .. b, NEW j \in 1 .. b
               PROVE  Rank(side, q[i].limit) >= Rank(side, q[j].limit)
    OBVIOUS
  <2>1. /\ Rank(side, q[i].limit) = MaxPrice + 1 - K /\ Rank(side, q[j].limit) = MaxPrice + 1 - K
    BY <1>1, <1>3, <1>5, <1>6
  <2>2. PICK x, y : x = Rank(side, q[i].limit) /\ y = Rank(side, q[j].limit)
    OBVIOUS
  <2>3. x >= y
    BY <1>2, <1>3, <2>1, <2>2
  <2> QED
    BY <2>2, <2>3
<1>14. \A m, n \in 1 .. a + b : t[m].id = t[n].id => m = n
  <2> SUFFICES ASSUME NEW m \in 1 .. a + b, NEW n \in 1 .. a + b, t[m].id = t[n].id PROVE m = n
    OBVIOUS
  <2>1. CASE m \in 1 .. a /\ n \in 1 .. a
    BY <1>4, <1>6, <1>8, <2>1
  <2>2. CASE m \in 1 .. a /\ ~(n \in 1 .. a)
    BY <1>8, <1>11, <2>2
  <2>3. CASE ~(m \in 1 .. a) /\ n \in 1 .. a
    BY <1>8, <1>11, <2>3
  <2>4. CASE ~(m \in 1 .. a) /\ ~(n \in 1 .. a)
    <3>1. /\ m - a \in 1 .. b /\ n - a \in 1 .. b
          /\ t[m] = q[m - a] /\ t[n] = q[n - a]
      BY <1>8, <2>4
    <3>2. m - a = n - a
      BY <1>12, <3>1
    <3> QED
      BY <1>7, <3>2
  <2> QED
    BY <2>1, <2>2, <2>3, <2>4
<1>15. \A m, n \in 1 .. a + b : m < n => Rank(side, t[m].limit) >= Rank(side, t[n].limit)
  <2> SUFFICES ASSUME NEW m \in 1 .. a + b, NEW n \in 1 .. a + b, m < n
               PROVE  Rank(side, t[m].limit) >= Rank(side, t[n].limit)
    OBVIOUS
  <2>1. CASE m \in 1 .. a /\ n \in 1 .. a
    BY <1>4, <1>6, <1>8, <2>1
  <2>2. CASE m \in 1 .. a /\ ~(n \in 1 .. a)
    BY <1>8, <1>11, <2>2
  <2>3. CASE ~(m \in 1 .. a)
    <3>1. ~(n \in 1 .. a)
      BY <1>7, <2>3
    <3> QED
      BY <1>8, <1>13, <2>3, <3>1
  <2> QED
    BY <2>1, <2>2, <2>3
<1>16. LineOf(side, levels, K, t)
  BY <1>7, <1>9, <1>10, <1>14, <1>15 DEF LineOf
<1> QED
  BY <1>1, <1>16

\* Every queued order of a side stands once in its line, in priority.
LEMMA LineFacts ==
  ASSUME QueueInv, NEW side \in Sides
  PROVE  LET line == InPriority(side)
         IN  /\ InLine(side, line)
             /\ \A m \in 1 .. Len(line) : \E p \in Prices : \E i \in DOMAIN queue[<<side, p>>] :
                   line[m] = queue[<<side, p>>][i]
             /\ \A p \in Prices : \A i \in DOMAIN queue[<<side, p>>] : \E m \in 1 .. Len(line) :
                   line[m] = queue[<<side, p>>][i]
<1>1. PICK levels, line : levels = Levels(side) /\ line = InPriority(side)
  OBVIOUS
<1>2. MaxPrice \in Nat /\ MaxPrice > 0 /\ Prices = 1 .. MaxPrice
  BY EngineAssumption DEF Prices
<1>3. Len(levels) = MaxPrice
  BY <1>1, <1>2 DEF Levels
<1>4. LevelsSound(side, levels) /\ \A n \in 1 .. MaxPrice : levels[n] \in Seq(_RestingOrder)
  <2>1. LevelsSound(side, levels)
    BY <1>1, LevelFacts
  <2> QED
    BY <1>2, <2>1 DEF LevelsSound
<1>5. \E f : Flat(f, levels, MaxPrice)
  BY <1>2, <1>4, FlatExists
<1>6. PICK f : f = CHOOSE g : Flat(g, levels, MaxPrice)
  OBVIOUS
<1>7. Flat(f, levels, MaxPrice)
  BY <1>5, <1>6
<1>8. line = f[MaxPrice]
  <2>1. line = FlattenSeq(levels)
    BY <1>1 DEF InPriority, Levels
  <2> QED
    BY <1>2, <1>3, <1>6, <2>1, FlattenIs
<1> DEFINE Good == {k \in Nat : k + 1 <= MaxPrice => LineOf(side, levels, k + 1, f[k + 1])}
<1>9. 0 \in Good
  <2>1. f[1] = levels[1]
    BY <1>2, <1>7 DEF Flat
  <2>2. LineOf(side, levels, 1, f[1])
    BY <1>1, <2>1, FirstLevel
  <2>3. 0 + 1 = 1
    OBVIOUS
  <2> QED
    BY <2>2, <2>3
<1>10. ASSUME NEW k \in Nat, k \in Good PROVE k + 1 \in Good
  <2>1. SUFFICES ASSUME k + 1 + 1 <= MaxPrice
                 PROVE  LineOf(side, levels, k + 1 + 1, f[k + 1 + 1])
    OBVIOUS
  <2>2. PICK j, l : j = k + 1 /\ l = k + 1 + 1
    OBVIOUS
  <2>3. /\ j \in 1 .. MaxPrice /\ l = j + 1 /\ l <= MaxPrice /\ l \in 1 .. MaxPrice /\ l # 1
        /\ l - 1 = j /\ j + 1 <= MaxPrice /\ k + 1 <= MaxPrice
    BY <1>2, <2>1, <2>2
  <2>4. LineOf(side, levels, j, f[j])
    BY <1>10, <2>2, <2>3
  <2>5. f[l] = f[j] \o levels[l]
    BY <1>7, <2>3 DEF Flat
  <2>6. LineOf(side, levels, j + 1, f[j] \o levels[j + 1])
    BY <1>1, <2>3, <2>4, LevelBelow
  <2> QED
    BY <2>2, <2>3, <2>5, <2>6
<1>11. LineOf(side, levels, MaxPrice, line)
  <2>1. \A k \in Nat : k \in Good
    <3> HIDE DEF Good
    <3> QED
      BY <1>9, <1>10, NumberInduction
  <2>2. PICK k : k = MaxPrice - 1
    OBVIOUS
  <2>3. k \in Nat /\ k + 1 = MaxPrice /\ k + 1 <= MaxPrice
    BY <1>2, <2>2
  <2> QED
    BY <1>8, <2>1, <2>3
<1>12. /\ line \in Seq(_RestingOrder)
       /\ \A m, n \in 1 .. Len(line) : line[m].id = line[n].id => m = n
       /\ \A m, n \in 1 .. Len(line) : m < n => Rank(side, line[m].limit) >= Rank(side, line[n].limit)
       /\ \A m \in 1 .. Len(line) : \E n \in 1 .. MaxPrice : \E i \in 1 .. Len(levels[n]) :
             line[m] = levels[n][i]
       /\ \A n \in 1 .. MaxPrice : \A i \in 1 .. Len(levels[n]) : \E m \in 1 .. Len(line) :
             line[m] = levels[n][i]
  BY <1>11 DEF LineOf
<1>13. InLine(side, line)
  <2>1. ASSUME NEW m \in 1 .. Len(line), NEW n \in 1 .. Len(line), m < n,
               NEW p \in Prices, Within(side, p, line[n].limit)
        PROVE  Within(side, p, line[m].limit)
    <3>1. line[m].limit \in Prices /\ line[n].limit \in Prices
      <4>1. line[m] \in _RestingOrder /\ line[n] \in _RestingOrder
        BY <1>12
      <4> QED
        BY <4>1 DEF _RestingOrder
    <3>2. PICK a, b, c : a = Rank(side, p) /\ b = Rank(side, line[n].limit) /\ c = Rank(side, line[m].limit)
      OBVIOUS
    <3>3. a \in Int /\ b \in Int /\ c \in Int
      <4>1. \A q \in Prices : Rank(side, q) \in Int
        BY <1>2, RankFacts
      <4> QED
        BY <3>1, <3>2, <4>1
    <3>4. a <= b /\ c >= b
      <4>1. a <= b
        BY <2>1, <3>1, <3>2, RankFacts
      <4>2. c >= b
        BY <1>12, <2>1, <3>2
      <4> QED
        BY <4>1, <4>2
    <3>5. a <= c
      BY <3>3, <3>4
    <3> QED
      BY <3>1, <3>2, <3>5, RankFacts
  <2> QED
    BY <1>12, <2>1 DEF InLine
<1>14. /\ \A n \in Prices : /\ BestFirst(side, n) \in Prices
                            /\ levels[n] = queue[<<side, BestFirst(side, n)>>]
                            /\ DOMAIN levels[n] = 1 .. Len(levels[n])
       /\ \A p \in Prices : \E n \in Prices : BestFirst(side, n) = p
  <2>1. \A n \in Prices : levels[n] \in Seq(_RestingOrder)
    BY <1>4 DEF LevelsSound
  <2>2. \A n \in Prices : DOMAIN levels[n] = 1 .. Len(levels[n])
    BY <2>1
  <2> QED
    BY <1>4, <2>2 DEF LevelsSound
<1>15. ASSUME NEW m \in 1 .. Len(line)
       PROVE  \E p \in Prices : \E i \in DOMAIN queue[<<side, p>>] : line[m] = queue[<<side, p>>][i]
  <2>1. PICK n \in Prices : \E i \in 1 .. Len(levels[n]) : line[m] = levels[n][i]
    BY <1>2, <1>12
  <2>2. PICK i \in 1 .. Len(levels[n]) : line[m] = levels[n][i]
    BY <2>1
  <2>3. PICK p : p = BestFirst(side, n)
    OBVIOUS
  <2>4. p \in Prices /\ levels[n] = queue[<<side, p>>] /\ i \in DOMAIN queue[<<side, p>>]
    BY <1>14, <2>2, <2>3
  <2> QED
    BY <2>2, <2>4
<1>16. ASSUME NEW p \in Prices, NEW i \in DOMAIN queue[<<side, p>>]
       PROVE  \E m \in 1 .. Len(line) : line[m] = queue[<<side, p>>][i]
  <2>1. PICK n \in Prices : BestFirst(side, n) = p
    BY <1>14
  <2>2. levels[n] = queue[<<side, p>>] /\ i \in 1 .. Len(levels[n])
    BY <1>14, <2>1
  <2> QED
    BY <1>2, <1>12, <2>2
<1> QED
  BY <1>1, <1>13, <1>15, <1>16
-----------------------------------------------------------------------------
(* advance as a whole.                                                     *)

\* Both sides of an advance to b.
SideSound(side, b) ==
    LET line == InPriority(side)
    IN  /\ InLine(side, line)
        /\ \A m \in 1 .. Len(line) : \E p \in Prices : \E i \in DOMAIN queue[<<side, p>>] :
              line[m] = queue[<<side, p>>][i]
        /\ \A p \in Prices : \A i \in DOMAIN queue[<<side, p>>] : \E m \in 1 .. Len(line) :
              line[m] = queue[<<side, p>>][i]
        /\ Swept(side, _ladder(b, side), line, Len(line), AdvanceSide(side, b))

LEMMA SideIsSound ==
  ASSUME QueueInv, NEW b \in OrderBook, NEW side \in Sides
  PROVE  SideSound(side, b)
<1>1. _ladder(b, side) \in Ladder
  BY DEF _ladder, OrderBook, Ladder
<1>2. InLine(side, InPriority(side))
  BY LineFacts
<1>3. Swept(side, _ladder(b, side), InPriority(side), Len(InPriority(side)), AdvanceSide(side, b))
  BY <1>1, <1>2, SideIsSwept
<1> QED
  BY <1>2, <1>3, LineFacts, Zenon DEF SideSound

\* What is left of the order at a place of a line, and what is reported.
Line(side) == InPriority(side)
Left(side, b) == AdvanceSide(side, b).left
Told(side, b) == AdvanceSide(side, b).reports

LEMMA SideTypes ==
  ASSUME QueueInv, NEW b \in OrderBook, NEW side \in Sides
  PROVE  /\ Line(side) \in Seq(_RestingOrder) /\ Len(Line(side)) \in Nat
         /\ DOMAIN Line(side) = 1 .. Len(Line(side))
         /\ Left(side, b) \in Seq(Leftover) /\ Len(Left(side, b)) = Len(Line(side))
         /\ DOMAIN Left(side, b) = 1 .. Len(Line(side))
         /\ \A n \in 1 .. Len(Line(side)) :
               /\ Line(side)[n] \in _RestingOrder /\ Left(side, b)[n] \in Leftover
               /\ Left(side, b)[n].id = Line(side)[n].id
               /\ Left(side, b)[n].limit = Line(side)[n].limit
               /\ Left(side, b)[n].remaining <= Line(side)[n].remaining
         /\ Told(side, b) \in Seq(FillReport) /\ Len(Told(side, b)) \in Nat
         /\ DOMAIN Told(side, b) = 1 .. Len(Told(side, b))
<1>1. PICK line, acc : line = Line(side) /\ acc = AdvanceSide(side, b)
  OBVIOUS
<1>2. InLine(side, line) /\ SweptTypes(line, Len(line), acc)
  BY <1>1, SideIsSound DEF SideSound, Swept, Line
<1>3. line \in Seq(_RestingOrder)
  BY <1>2 DEF InLine
<1>4. /\ acc \in Acc /\ Len(acc.left) = Len(line)
      /\ \A n \in 1 .. Len(line) : /\ acc.left[n].id = line[n].id
                                   /\ acc.left[n].limit = line[n].limit
                                   /\ acc.left[n].remaining <= line[n].remaining
  BY <1>2 DEF SweptTypes
<1>5. acc.left \in Seq(Leftover) /\ acc.reports \in Seq(FillReport)
  BY <1>4 DEF Acc
<1>6. /\ Len(line) \in Nat /\ DOMAIN line = 1 .. Len(line)
      /\ \A n \in 1 .. Len(line) : line[n] \in _RestingOrder
  BY <1>3
<1>7. /\ DOMAIN acc.left = 1 .. Len(line)
      /\ \A n \in 1 .. Len(line) : acc.left[n] \in Leftover
  BY <1>4, <1>5
<1>8. Len(acc.reports) \in Nat /\ DOMAIN acc.reports = 1 .. Len(acc.reports)
  BY <1>5
<1>9. Left(side, b) = acc.left /\ Told(side, b) = acc.reports
  BY <1>1 DEF Left, Told
<1> QED
  BY <1>1, <1>3, <1>4, <1>5, <1>6, <1>7, <1>8, <1>9

\* An order stands in one place of one line.
LEMMA LinesApart ==
  ASSUME QueueInv, NEW s \in Sides, NEW t \in Sides,
         NEW m \in 1 .. Len(Line(s)), NEW n \in 1 .. Len(Line(t)),
         Line(s)[m].id = Line(t)[n].id
  PROVE  s = t /\ m = n
<1>1. PICK p \in Prices : \E i \in DOMAIN queue[<<s, p>>] : Line(s)[m] = queue[<<s, p>>][i]
  BY LineFacts DEF Line
<1>2. PICK i \in DOMAIN queue[<<s, p>>] : Line(s)[m] = queue[<<s, p>>][i]
  BY <1>1
<1>3. PICK q \in Prices : \E j \in DOMAIN queue[<<t, q>>] : Line(t)[n] = queue[<<t, q>>][j]
  BY LineFacts DEF Line
<1>4. PICK j \in DOMAIN queue[<<t, q>>] : Line(t)[n] = queue[<<t, q>>][j]
  BY <1>3
<1>5. PICK k, l : k = <<s, p>> /\ l = <<t, q>>
  OBVIOUS
<1>6. k \in DOMAIN queue /\ l \in DOMAIN queue
  BY <1>5 DEF QueueInv, QueueTypes
<1>7. k = l
  BY <1>2, <1>4, <1>5, <1>6 DEF QueueInv, QueuedOnce
<1>8. s = t
  BY <1>5, <1>7
<1>9. InLine(s, Line(s))
  BY LineFacts DEF Line
<1> QED
  BY <1>8, <1>9 DEF InLine

\* The orders of a queue stand in the line of its side.
LEMMA QueuedInLine ==
  ASSUME QueueInv, NEW k \in Sides \X Prices, NEW i \in DOMAIN queue[k]
  PROVE  \E m \in 1 .. Len(Line(k[1])) : Line(k[1])[m] = queue[k][i]
<1>1. PICK s, p : s = k[1] /\ p = k[2]
  OBVIOUS
<1>2. s \in Sides /\ p \in Prices /\ k = <<s, p>>
  BY <1>1
<1>3. \E m \in 1 .. Len(Line(s)) : Line(s)[m] = queue[<<s, p>>][i]
  BY <1>2, LineFacts DEF Line
<1> QED
  BY <1>1, <1>2, <1>3

\* What an advance leaves of the queues: the leftovers of each line.
LEMMA LeftQueued ==
  ASSUME QueueInv, NEW b \in OrderBook, NEW k \in Sides \X Prices
  PROVE  /\ AdvanceQueue(b)[k] \in Seq(_RestingOrder)
         /\ \A j \in DOMAIN AdvanceQueue(b)[k] :
               \E i \in 1 .. Len(Line(k[1])) :
                  /\ AdvanceQueue(b)[k][j] = Left(k[1], b)[i]
                  /\ Left(k[1], b)[i].limit = k[2] /\ Left(k[1], b)[i].remaining > 0
         /\ \A i, j \in DOMAIN AdvanceQueue(b)[k] :
               AdvanceQueue(b)[k][i].id = AdvanceQueue(b)[k][j].id => i = j
<1>1. PICK s, p, line, left, q : /\ s = k[1] /\ p = k[2] /\ line = Line(s) /\ left = Left(s, b)
                                 /\ q = AdvanceQueue(b)[k]
  OBVIOUS
<1>2. s \in Sides /\ p \in Prices
  BY <1>1
<1> DEFINE S == {i \in DOMAIN left : left[i].limit = p /\ left[i].remaining > 0}
<1>3. q = Picked(left, S)
  BY <1>1 DEF AdvanceQueue, Left
<1>4. /\ Len(line) \in Nat /\ DOMAIN left = 1 .. Len(line)
      /\ \A n \in 1 .. Len(line) :
            /\ line[n] \in _RestingOrder /\ left[n] \in Leftover
            /\ left[n].id = line[n].id /\ left[n].limit = line[n].limit
            /\ left[n].remaining <= line[n].remaining
  BY <1>1, <1>2, SideTypes
<1>5. S \in SUBSET (1 .. Len(line))
  BY <1>4
<1>6. \A i \in S : i \in 1 .. Len(line) /\ left[i].limit = p /\ left[i].remaining > 0
  BY <1>4
<1> HIDE DEF S
<1>7. \A i \in S : left[i] \in _RestingOrder
  <2> SUFFICES ASSUME NEW i \in S PROVE left[i] \in _RestingOrder
    OBVIOUS
  <2>1. MaxQty \in Nat
    BY EngineAssumption
  <2>2. /\ left[i] \in Leftover /\ left[i].remaining > 0 /\ left[i].remaining <= line[i].remaining
        /\ line[i] \in _RestingOrder
    BY <1>4, <1>6
  <2>3. left[i].remaining \in 1 .. MaxQty
    <3>1. left[i].remaining \in Nat
      BY <2>2 DEF Leftover
    <3>2. line[i].remaining \in 1 .. MaxQty
      BY <2>2 DEF _RestingOrder
    <3> QED
      BY <2>1, <2>2, <3>1, <3>2
  <2> QED
    BY <2>2, <2>3 DEF Leftover, _RestingOrder
<1>8. q \in Seq(_RestingOrder)
  BY <1>3, <1>4, <1>5, <1>7, PickedSeq
<1>9. PICK at : Indices(at, left, S)
  BY <1>4, <1>5, PickedIndices
<1>10. \A j \in DOMAIN q : at[j] \in S /\ q[j] = left[at[j]]
  BY <1>3, <1>9 DEF Indices
<1>11. ASSUME NEW i \in DOMAIN q, NEW j \in DOMAIN q, q[i].id = q[j].id PROVE i = j
  <2>1. /\ at[i] \in 1 .. Len(line) /\ at[j] \in 1 .. Len(line)
        /\ line[at[i]].id = line[at[j]].id
    BY <1>4, <1>6, <1>10, <1>11
  <2>2. at[i] = at[j]
    BY <1>1, <1>2, <2>1, LinesApart
  <2>3. \A m, n \in DOMAIN q : m < n => at[m] < at[n]
    BY <1>3, <1>9 DEF Indices
  <2>4. i \in Nat /\ j \in Nat
    BY <1>8
  <2>5. at[i] \in Int /\ at[j] \in Int
    BY <2>1
  <2> QED
    BY <2>2, <2>3, <2>4, <2>5
<1>12. ASSUME NEW j \in DOMAIN q
       PROVE  \E i \in 1 .. Len(line) : /\ q[j] = left[i] /\ left[i].limit = p
                                        /\ left[i].remaining > 0
  BY <1>6, <1>10
<1> QED
  BY <1>1, <1>8, <1>11, <1>12
LEMMA AdvanceKeepsQueues ==
  ASSUME QueueInv, NEW b \in OrderBook, queue' = AdvanceQueue(b)
  PROVE  QueueInv'
<1>1. queue' \in [Sides \X Prices -> Seq(_RestingOrder)]
  <2>1. \A k \in Sides \X Prices : AdvanceQueue(b)[k] \in Seq(_RestingOrder)
    BY LeftQueued
  <2>2. AdvanceQueue(b) = [k \in Sides \X Prices |-> AdvanceQueue(b)[k]]
    BY DEF AdvanceQueue
  <2> QED
    BY <2>1, <2>2
<1>2. ASSUME NEW k \in Sides \X Prices, NEW j \in DOMAIN queue'[k]
      PROVE  /\ k[1] \in Sides
             /\ \E i \in 1 .. Len(Line(k[1])) :
                  /\ queue'[k][j].id = Line(k[1])[i].id /\ queue'[k][j].limit = k[2]
                  /\ Line(k[1])[i].limit = k[2]
  <2>1. k[1] \in Sides
    OBVIOUS
  <2>2. PICK i \in 1 .. Len(Line(k[1])) : /\ queue'[k][j] = Left(k[1], b)[i]
                                          /\ Left(k[1], b)[i].limit = k[2]
    BY LeftQueued
  <2>3. Left(k[1], b)[i].id = Line(k[1])[i].id /\ Left(k[1], b)[i].limit = Line(k[1])[i].limit
    BY <2>1, SideTypes
  <2> QED
    BY <2>1, <2>2, <2>3
<1>3. \A k \in Sides \X Prices : \A j \in DOMAIN queue'[k] : queue'[k][j].limit = k[2]
  BY <1>2
<1>4. ASSUME NEW k \in Sides \X Prices, NEW l \in Sides \X Prices,
             NEW i \in DOMAIN queue'[k], NEW j \in DOMAIN queue'[l],
             queue'[k][i].id = queue'[l][j].id
      PROVE  k = l /\ i = j
  <2>1. PICK m \in 1 .. Len(Line(k[1])) : /\ queue'[k][i].id = Line(k[1])[m].id
                                          /\ Line(k[1])[m].limit = k[2]
    BY <1>2
  <2>2. PICK n \in 1 .. Len(Line(l[1])) : /\ queue'[l][j].id = Line(l[1])[n].id
                                          /\ Line(l[1])[n].limit = l[2]
    BY <1>2
  <2>3. k[1] \in Sides /\ l[1] \in Sides /\ Line(k[1])[m].id = Line(l[1])[n].id
    BY <1>4, <2>1, <2>2
  <2>4. k[1] = l[1] /\ m = n
    BY <2>3, LinesApart
  <2>5. k[2] = l[2]
    BY <2>1, <2>2, <2>4
  <2>6. k = l
    BY <2>4, <2>5
  <2>7. i \in DOMAIN AdvanceQueue(b)[k] /\ j \in DOMAIN AdvanceQueue(b)[k]
        /\ AdvanceQueue(b)[k][i].id = AdvanceQueue(b)[k][j].id
    BY <1>4, <2>6
  <2>8. i = j
    BY <2>7, LeftQueued
  <2> QED
    BY <2>6, <2>8
<1>5. DOMAIN queue' = Sides \X Prices
  BY <1>1
<1> QED
  BY <1>1, <1>3, <1>4, <1>5 DEF QueueInv, QueueTypes, QueuedOnce

\* What is still queued after an advance was not completed by it.
LEMMA StillQueued ==
  ASSUME QueueInv, NEW b \in OrderBook, queue' = AdvanceQueue(b), NEW x \in Queued'
  PROVE  \E side \in Sides : \E n \in 1 .. Len(Line(side)) :
            /\ x = Left(side, b)[n] /\ x.id = Line(side)[n].id /\ x.remaining > 0
<1>1. QueueInv'
  BY AdvanceKeepsQueues
<1>2. DOMAIN queue' = Sides \X Prices
  BY <1>1 DEF QueueInv, QueueTypes
<1>3. PICK k \in Sides \X Prices : x \in ToSet(queue'[k])
  BY <1>2 DEF Queued
<1>4. PICK j \in DOMAIN queue'[k] : x = queue'[k][j]
  BY <1>3 DEF ToSet
<1>5. PICK i \in 1 .. Len(Line(k[1])) : /\ queue'[k][j] = Left(k[1], b)[i]
                                        /\ Left(k[1], b)[i].remaining > 0
  BY <1>4, LeftQueued
<1>6. k[1] \in Sides
  OBVIOUS
<1>7. Left(k[1], b)[i].id = Line(k[1])[i].id
  BY <1>6, SideTypes
<1> QED
  BY <1>4, <1>5, <1>6, <1>7

\* The report of the order at a place of a line.
TellsOf(side, n, b, r) == Tells(side, Line(side)[n], Left(side, b)[n], r)

SideTells(side, b, rs) ==
    /\ \A j \in 1 .. Len(rs) : \E n \in 1 .. Len(Line(side)) : TellsOf(side, n, b, rs[j])
    /\ \A n \in 1 .. Len(Line(side)) :
          Left(side, b)[n].remaining < Line(side)[n].remaining =>
             \E j \in 1 .. Len(rs) : rs[j].id = Line(side)[n].id
    /\ \A i, j \in 1 .. Len(rs) : rs[i].id = rs[j].id => i = j

LEMMA SideReports ==
  ASSUME QueueInv, NEW b \in OrderBook, NEW side \in Sides
  PROVE  SideTells(side, b, Told(side, b))
<1>1. SweptReports(side, Line(side), Len(Line(side)), AdvanceSide(side, b))
  BY SideIsSound DEF SideSound, Swept, Line
<1> QED
  BY <1>1 DEF SweptReports, SideTells, Told, Left, TellsOf

\* The reports of an advance: those of the buys, then those of the sells.
ReportsSound(b, rs) ==
    /\ rs \in Seq(FillReport)
    /\ \A j \in 1 .. Len(rs) : \E side \in Sides : \E n \in 1 .. Len(Line(side)) :
          TellsOf(side, n, b, rs[j])
    /\ \A side \in Sides : \A n \in 1 .. Len(Line(side)) :
          Left(side, b)[n].remaining < Line(side)[n].remaining =>
             \E j \in 1 .. Len(rs) : rs[j].id = Line(side)[n].id
    /\ \A i, j \in 1 .. Len(rs) : rs[i].id = rs[j].id => i = j
    /\ \A side \in Sides : Filled(rs, {i \in DOMAIN rs : rs[i].side = side})
                             = Filled(Told(side, b), 1 .. Len(Told(side, b)))

LEMMA ReportFacts ==
  ASSUME QueueInv, NEW b \in OrderBook
  PROVE  ReportsSound(b, AdvanceReports(b))
<1>1. PICK B, C, rs, m, n : /\ B = Told("buy", b) /\ C = Told("sell", b) /\ rs = B \o C
                            /\ m = Len(B) /\ n = Len(C)
  OBVIOUS
<1>2. "buy" \in Sides /\ "sell" \in Sides /\ \A s \in Sides : s = "buy" \/ s = "sell"
  BY DEF Sides
<1>3. /\ B \in Seq(FillReport) /\ C \in Seq(FillReport) /\ m \in Nat /\ n \in Nat
      /\ DOMAIN B = 1 .. m /\ DOMAIN C = 1 .. n
  BY <1>1, <1>2, SideTypes
<1>4. /\ rs \in Seq(FillReport) /\ Len(rs) = m + n
      /\ \A j \in 1 .. m + n : rs[j] = IF j <= m THEN B[j] ELSE C[j - m]
  BY <1>1, <1>3, ConcatProperties
<1>5. rs = AdvanceReports(b)
  BY <1>1 DEF AdvanceReports, Told
<1>6. /\ \A j \in 1 .. m : \E k \in 1 .. Len(Line("buy")) : TellsOf("buy", k, b, B[j])
      /\ \A k \in 1 .. Len(Line("buy")) :
            Left("buy", b)[k].remaining < Line("buy")[k].remaining =>
               \E j \in 1 .. m : B[j].id = Line("buy")[k].id
      /\ \A i, j \in 1 .. m : B[i].id = B[j].id => i = j
  <2>1. SideTells("buy", b, B)
    BY <1>1, <1>2, SideReports
  <2> QED
    BY <1>1, <2>1 DEF SideTells
<1>7. /\ \A j \in 1 .. n : \E k \in 1 .. Len(Line("sell")) : TellsOf("sell", k, b, C[j])
      /\ \A k \in 1 .. Len(Line("sell")) :
            Left("sell", b)[k].remaining < Line("sell")[k].remaining =>
               \E j \in 1 .. n : C[j].id = Line("sell")[k].id
      /\ \A i, j \in 1 .. n : C[i].id = C[j].id => i = j
  <2>1. SideTells("sell", b, C)
    BY <1>1, <1>2, SideReports
  <2> QED
    BY <1>1, <2>1 DEF SideTells
<1>8. \A j \in 1 .. m + n : \/ j \in 1 .. m /\ rs[j] = B[j]
                            \/ ~(j \in 1 .. m) /\ j - m \in 1 .. n /\ rs[j] = C[j - m]
  BY <1>3, <1>4
<1>9. ASSUME NEW j \in 1 .. m + n
      PROVE  \E side \in Sides : \E k \in 1 .. Len(Line(side)) : TellsOf(side, k, b, rs[j])
  BY <1>2, <1>6, <1>7, <1>8
<1>10. ASSUME NEW side \in Sides, NEW k \in 1 .. Len(Line(side)),
              Left(side, b)[k].remaining < Line(side)[k].remaining
       PROVE  \E j \in 1 .. m + n : rs[j].id = Line(side)[k].id
  <2>1. CASE side = "buy"
    <3>1. PICK j \in 1 .. m : B[j].id = Line("buy")[k].id
      BY <1>6, <1>10, <2>1
    <3>2. j \in 1 .. m + n /\ rs[j] = B[j]
      BY <1>3, <1>4
    <3> QED
      BY <2>1, <3>1, <3>2
  <2>2. CASE side = "sell"
    <3>1. PICK j \in 1 .. n : C[j].id = Line("sell")[k].id
      BY <1>7, <1>10, <2>2
    <3>2. PICK i : i = m + j
      OBVIOUS
    <3>3. i \in 1 .. m + n /\ ~(i <= m) /\ i - m = j
      BY <1>3, <3>2
    <3>4. rs[i] = C[j]
      BY <1>4, <3>3
    <3> QED
      BY <2>2, <3>1, <3>3, <3>4
  <2> QED
    BY <1>2, <2>1, <2>2
<1>11. ASSUME NEW i \in 1 .. m, NEW j \in 1 .. n PROVE B[i].id # C[j].id /\ B[i].side = "buy"
                                                       /\ C[j].side = "sell"
  <2>1. PICK k \in 1 .. Len(Line("buy")) : TellsOf("buy", k, b, B[i])
    BY <1>6
  <2>2. PICK l \in 1 .. Len(Line("sell")) : TellsOf("sell", l, b, C[j])
    BY <1>7
  <2>3. B[i].id = Line("buy")[k].id /\ C[j].id = Line("sell")[l].id
        /\ B[i].side = "buy" /\ C[j].side = "sell"
    BY <2>1, <2>2 DEF TellsOf, Tells
  <2>4. Line("buy")[k].id # Line("sell")[l].id
    BY <1>2, LinesApart
  <2> QED
    BY <2>3, <2>4
<1>12. ASSUME NEW i \in 1 .. m + n, NEW j \in 1 .. m + n, rs[i].id = rs[j].id PROVE i = j
  <2>1. CASE i \in 1 .. m /\ j \in 1 .. m
    BY <1>6, <1>8, <1>12, <2>1
  <2>2. CASE i \in 1 .. m /\ ~(j \in 1 .. m)
    BY <1>8, <1>11, <1>12, <2>2
  <2>3. CASE ~(i \in 1 .. m) /\ j \in 1 .. m
    BY <1>8, <1>11, <1>12, <2>3
  <2>4. CASE ~(i \in 1 .. m) /\ ~(j \in 1 .. m)
    <3>1. i - m \in 1 .. n /\ j - m \in 1 .. n /\ rs[i] = C[i - m] /\ rs[j] = C[j - m]
      BY <1>8, <2>4
    <3>2. i - m = j - m
      BY <1>7, <1>12, <3>1
    <3> QED
      BY <1>3, <3>2
  <2> QED
    BY <2>1, <2>2, <2>3, <2>4
<1>13. \A j \in 1 .. m + n : rs[j].side = "buy" <=> j \in 1 .. m
  <2> SUFFICES ASSUME NEW j \in 1 .. m + n PROVE rs[j].side = "buy" <=> j \in 1 .. m
    OBVIOUS
  <2>1. \A i \in 1 .. m : B[i].side = "buy"
    BY <1>6 DEF TellsOf, Tells
  <2>2. \A i \in 1 .. n : C[i].side = "sell"
    BY <1>7 DEF TellsOf, Tells
  <2> QED
    BY <1>8, <2>1, <2>2
<1>14. \A j \in 1 .. m + n : rs[j].side = "sell" <=> ~(j \in 1 .. m)
  <2> SUFFICES ASSUME NEW j \in 1 .. m + n PROVE rs[j].side = "sell" <=> ~(j \in 1 .. m)
    OBVIOUS
  <2>1. \A i \in 1 .. m : B[i].side = "buy"
    BY <1>6 DEF TellsOf, Tells
  <2>2. \A i \in 1 .. n : C[i].side = "sell"
    BY <1>7 DEF TellsOf, Tells
  <2> QED
    BY <1>8, <2>1, <2>2
<1>15. PICK f, g, h : /\ f = [i \in DOMAIN rs |-> rs[i].quantity]
                      /\ g = [i \in DOMAIN B |-> B[i].quantity]
                      /\ h = [i \in DOMAIN C |-> C[i].quantity]
  OBVIOUS
<1>16. DOMAIN rs = 1 .. m + n /\ \A i \in 1 .. m : i \in 1 .. m + n
  BY <1>3, <1>4
<1>17. \A i \in 1 .. m : f[i] = g[i]
  BY <1>3, <1>8, <1>15, <1>16
<1>18. \A i \in 1 .. n : h[i] \in Int /\ f[m + i] = h[i]
  <2> SUFFICES ASSUME NEW i \in 1 .. n PROVE h[i] \in Int /\ f[m + i] = h[i]
    OBVIOUS
  <2>1. C[i] \in FillReport /\ h[i] = C[i].quantity
    BY <1>1, <1>3, <1>15
  <2>2. PICK j : j = m + i
    OBVIOUS
  <2>3. j \in 1 .. m + n /\ ~(j <= m) /\ j - m = i
    BY <1>3, <2>2
  <2>4. rs[j] = C[i]
    BY <1>4, <2>3
  <2>5. f[j] = C[i].quantity
    BY <1>15, <1>16, <2>3, <2>4
  <2> QED
    BY <2>1, <2>2, <2>5 DEF FillReport
<1>19. {i \in DOMAIN rs : rs[i].side = "buy"} = 1 .. m
  BY <1>13, <1>16
<1>20. {i \in DOMAIN rs : rs[i].side = "sell"} = m + 1 .. m + n
  <2>1. \A j \in 1 .. m + n : ~(j \in 1 .. m) <=> j \in m + 1 .. m + n
    BY <1>3
  <2>2. \A j \in m + 1 .. m + n : j \in 1 .. m + n
    BY <1>3
  <2> QED
    BY <1>14, <1>16, <2>1, <2>2
<1>21. ASSUME NEW side \in Sides
       PROVE  Filled(rs, {i \in DOMAIN rs : rs[i].side = side})
                = Filled(Told(side, b), 1 .. Len(Told(side, b)))
  <2>1. CASE side = "buy"
    <3>1. SumOver(f, 1 .. m) = SumOver(g, 1 .. m)
      <4>1. IsFiniteSet(1 .. m)
        BY <1>3, FS_Interval
      <4> QED
        BY <1>17, <4>1, SumSame
    <3> QED
      BY <1>1, <1>15, <1>19, <2>1, <3>1 DEF Filled
  <2>2. CASE side = "sell"
    <3>1. SumOver(f, m + 1 .. m + n) = SumOver(h, 1 .. n)
      <4>1. Shifted(f, h, m, n)
        BY <1>18 DEF Shifted
      <4> QED
        BY <1>3, <4>1, SumShift
    <3> QED
      BY <1>1, <1>15, <1>20, <2>2, <3>1 DEF Filled
  <2> QED
    BY <1>2, <2>1, <2>2
<1>22. ReportsSound(b, rs)
  BY <1>4, <1>9, <1>10, <1>12, <1>21 DEF ReportsSound
<1> QED
  BY <1>5, <1>22
-----------------------------------------------------------------------------
(* What the other calls do to the queues.                                  *)

LEMMA QueuedFacts ==
  ASSUME QueueInv
  PROVE  /\ DOMAIN queue = Sides \X Prices
         /\ \A k \in Sides \X Prices : \A i \in DOMAIN queue[k] : queue[k][i] \in Queued
         /\ \A x \in Queued : /\ x \in _RestingOrder /\ x.id \in QueuedIds
                              /\ \E k \in Sides \X Prices : \E i \in DOMAIN queue[k] : x = queue[k][i]
<1>1. DOMAIN queue = Sides \X Prices /\ \A k \in Sides \X Prices : queue[k] \in Seq(_RestingOrder)
  BY DEF QueueInv, QueueTypes
<1>2. \A k \in Sides \X Prices : \A i \in DOMAIN queue[k] : queue[k][i] \in Queued
  BY <1>1 DEF Queued, ToSet
<1>3. ASSUME NEW x \in Queued
      PROVE  /\ x \in _RestingOrder /\ x.id \in QueuedIds
             /\ \E k \in Sides \X Prices : \E i \in DOMAIN queue[k] : x = queue[k][i]
  <2>1. PICK k \in Sides \X Prices : x \in ToSet(queue[k])
    BY <1>1, <1>3 DEF Queued
  <2>2. PICK i \in DOMAIN queue[k] : x = queue[k][i]
    BY <2>1 DEF ToSet
  <2>3. queue[k][i] \in _RestingOrder
    BY <1>1
  <2> QED
    BY <1>3, <2>2, <2>3 DEF QueuedIds
<1> QED
  BY <1>1, <1>2, <1>3

LEMMA DequeueFacts ==
  ASSUME QueueInv, NEW ids, queue' = _dequeue(ids)
  PROVE  QueueInv' /\ Queued' \in SUBSET {x \in Queued : x.id \notin ids}
<1> DEFINE S(k) == {i \in DOMAIN queue[k] : queue[k][i].id \notin ids}
<1>1. DOMAIN queue = Sides \X Prices /\ \A k \in Sides \X Prices : queue[k] \in Seq(_RestingOrder)
  BY DEF QueueInv, QueueTypes
<1>2. DOMAIN queue' = Sides \X Prices /\ \A k \in Sides \X Prices : queue'[k] = Picked(queue[k], S(k))
  BY <1>1 DEF _dequeue
<1>3. ASSUME NEW k \in Sides \X Prices
      PROVE  /\ queue'[k] \in Seq(_RestingOrder)
             /\ \A j \in DOMAIN queue'[k] : \E i \in DOMAIN queue[k] :
                   queue'[k][j] = queue[k][i] /\ queue[k][i].id \notin ids
             /\ \A i, j \in DOMAIN queue'[k] : queue'[k][i].id = queue'[k][j].id => i = j
  <2>1. PICK q, n, T : q = queue[k] /\ n = Len(q) /\ T = S(k)
    OBVIOUS
  <2>2. q \in Seq(_RestingOrder) /\ n \in Nat /\ DOMAIN q = 1 .. n
    BY <1>1, <2>1
  <2>3. T \in SUBSET (1 .. n) /\ \A i \in T : i \in DOMAIN q /\ q[i] \in _RestingOrder /\ q[i].id \notin ids
    BY <2>1, <2>2
  <2> HIDE DEF S
  <2>4. queue'[k] = Picked(q, T)
    BY <1>2, <2>1
  <2>5. Picked(q, T) \in Seq(_RestingOrder)
    BY <2>2, <2>3, PickedSeq
  <2>6. PICK at : Indices(at, q, T)
    BY <2>2, <2>3, PickedIndices
  <2>7. /\ \A j \in DOMAIN queue'[k] : at[j] \in T /\ queue'[k][j] = q[at[j]] /\ j \in Nat
        /\ \A i, j \in DOMAIN queue'[k] : i < j => at[i] < at[j]
    BY <2>4, <2>6 DEF Indices
  <2>8. ASSUME NEW i \in DOMAIN queue'[k], NEW j \in DOMAIN queue'[k],
               queue'[k][i].id = queue'[k][j].id
        PROVE  i = j
    <3>1. at[i] \in DOMAIN q /\ at[j] \in DOMAIN q /\ q[at[i]].id = q[at[j]].id
      BY <2>3, <2>7, <2>8
    <3>2. at[i] = at[j]
      BY <1>1, <2>1, <3>1 DEF QueueInv, QueuedOnce
    <3>3. at[i] \in Int /\ at[j] \in Int
      BY <2>2, <3>1
    <3> QED
      BY <2>7, <3>2, <3>3
  <2>9. \A j \in DOMAIN queue'[k] : \E i \in DOMAIN queue[k] :
           queue'[k][j] = queue[k][i] /\ queue[k][i].id \notin ids
    BY <2>1, <2>3, <2>7
  <2> QED
    BY <2>4, <2>5, <2>8, <2>9
<1>4. queue' \in [Sides \X Prices -> Seq(_RestingOrder)]
  <2>1. queue' = [k \in Sides \X Prices |-> queue'[k]]
    BY <1>1 DEF _dequeue
  <2> QED
    BY <1>3, <2>1
<1>5. \A k \in Sides \X Prices : \A j \in DOMAIN queue'[k] : queue'[k][j].limit = k[2]
  <2> SUFFICES ASSUME NEW k \in Sides \X Prices, NEW j \in DOMAIN queue'[k]
               PROVE  queue'[k][j].limit = k[2]
    OBVIOUS
  <2>1. PICK i \in DOMAIN queue[k] : queue'[k][j] = queue[k][i]
    BY <1>3
  <2> QED
    BY <2>1 DEF QueueInv, QueueTypes
<1>6. ASSUME NEW k \in Sides \X Prices, NEW l \in Sides \X Prices,
             NEW i \in DOMAIN queue'[k], NEW j \in DOMAIN queue'[l],
             queue'[k][i].id = queue'[l][j].id
      PROVE  k = l /\ i = j
  <2>1. PICK m \in DOMAIN queue[k] : queue'[k][i] = queue[k][m]
    BY <1>3
  <2>2. PICK n \in DOMAIN queue[l] : queue'[l][j] = queue[l][n]
    BY <1>3
  <2>3. k = l
    BY <1>1, <1>6, <2>1, <2>2 DEF QueueInv, QueuedOnce
  <2> QED
    BY <1>3, <1>6, <2>3
<1>7. QueueInv'
  BY <1>2, <1>4, <1>5, <1>6 DEF QueueInv, QueueTypes, QueuedOnce
<1>8. ASSUME NEW x \in Queued' PROVE x \in {y \in Queued : y.id \notin ids}
  <2>1. PICK k \in Sides \X Prices : x \in ToSet(queue'[k])
    BY <1>2, <1>8 DEF Queued
  <2>2. PICK j \in DOMAIN queue'[k] : x = queue'[k][j]
    BY <2>1 DEF ToSet
  <2>3. PICK i \in DOMAIN queue[k] : x = queue[k][i] /\ queue[k][i].id \notin ids
    BY <1>3, <2>2
  <2> QED
    BY <2>3, QueuedFacts
<1> QED
  BY <1>7, <1>8

\* An order that is not queued joins the end of the queue of its price.
LEMMA EnqueueFacts ==
  ASSUME QueueInv, NEW key \in Sides \X Prices, NEW x \in _RestingOrder,
         x.limit = key[2], x.id \notin QueuedIds, queue' = _enqueue(key, x)
  PROVE  QueueInv' /\ Queued' \in SUBSET (Queued \cup {x})
<1>1. DOMAIN queue = Sides \X Prices /\ \A k \in Sides \X Prices : queue[k] \in Seq(_RestingOrder)
  BY DEF QueueInv, QueueTypes
<1>2. PICK q, n : q = queue[key] /\ n = Len(q)
  OBVIOUS
<1>3. /\ q \in Seq(_RestingOrder) /\ n \in Nat /\ DOMAIN q = 1 .. n
      /\ Append(q, x) \in Seq(_RestingOrder) /\ DOMAIN Append(q, x) = 1 .. n + 1
      /\ \A i \in 1 .. n : Append(q, x)[i] = q[i]
      /\ Append(q, x)[n + 1] = x
  BY <1>1, <1>2
<1>4. /\ DOMAIN queue' = Sides \X Prices /\ queue'[key] = Append(q, x)
      /\ \A k \in Sides \X Prices : k # key => queue'[k] = queue[k]
  BY <1>1, <1>2 DEF _enqueue
<1>5. queue' \in [Sides \X Prices -> Seq(_RestingOrder)]
  BY <1>1, <1>2, <1>3 DEF _enqueue, QueueInv, QueueTypes
<1>6. ASSUME NEW k \in Sides \X Prices, NEW j \in DOMAIN queue'[k]
      PROVE  \/ j \in DOMAIN queue[k] /\ queue'[k][j] = queue[k][j]
             \/ k = key /\ j = n + 1 /\ queue'[k][j] = x
  <2>1. CASE k = key
    <3>1. j \in 1 .. n \/ j = n + 1
      BY <1>3, <1>4, <1>6, <2>1
    <3> QED
      BY <1>2, <1>3, <1>4, <2>1, <3>1
  <2>2. CASE k # key
    BY <1>4, <1>6, <2>2
  <2> QED
    BY <2>1, <2>2
<1>7. \A k \in Sides \X Prices : \A j \in DOMAIN queue'[k] : queue'[k][j].limit = k[2]
  BY <1>6 DEF QueueInv, QueueTypes
<1>8. \A k \in Sides \X Prices : \A i \in DOMAIN queue[k] : queue[k][i].id # x.id
  BY QueuedFacts
<1>9. ASSUME NEW k \in Sides \X Prices, NEW l \in Sides \X Prices,
             NEW i \in DOMAIN queue'[k], NEW j \in DOMAIN queue'[l],
             queue'[k][i].id = queue'[l][j].id
      PROVE  k = l /\ i = j
  <2>1. CASE i \in DOMAIN queue[k] /\ queue'[k][i] = queue[k][i]
             /\ j \in DOMAIN queue[l] /\ queue'[l][j] = queue[l][j]
    BY <1>1, <1>9, <2>1 DEF QueueInv, QueuedOnce
  <2>2. CASE i \in DOMAIN queue[k] /\ queue'[k][i] = queue[k][i] /\ queue'[l][j] = x
    BY <1>8, <1>9, <2>2
  <2>3. CASE queue'[k][i] = x /\ j \in DOMAIN queue[l] /\ queue'[l][j] = queue[l][j]
    BY <1>8, <1>9, <2>3
  <2>4. CASE k = key /\ i = n + 1 /\ l = key /\ j = n + 1
    BY <2>4
  <2> QED
    BY <1>6, <2>1, <2>2, <2>3, <2>4
<1>10. QueueInv'
  BY <1>4, <1>5, <1>7, <1>9 DEF QueueInv, QueueTypes, QueuedOnce
<1>11. ASSUME NEW y \in Queued' PROVE y \in Queued \cup {x}
  <2>1. PICK k \in Sides \X Prices : y \in ToSet(queue'[k])
    BY <1>4, <1>11 DEF Queued
  <2>2. PICK j \in DOMAIN queue'[k] : y = queue'[k][j]
    BY <2>1 DEF ToSet
  <2> QED
    BY <1>6, <2>2, QueuedFacts
<1> QED
  BY <1>10, <1>11
-----------------------------------------------------------------------------
(* One submit.                                                             *)

SubmitSound(o, r, report) ==
    /\ report.id = o /\ report.side = r.side
    /\ report.status \in {"rejected", "new", "filled", "partially_filled"}
    /\ report.quantity \in Nat /\ report.quantity <= r.quantity
    /\ report.status \in {"rejected", "new"} => report.quantity = 0
    /\ report.status = "filled" => report.quantity = r.quantity
    /\ report.status = "partially_filled" => report.quantity < r.quantity
    /\ TouchShown /\ report.status = "partially_filled" /\ r.type = "limit" => report.quantity > 0
    /\ Rests(r) => r.type = "limit" /\ report.status \in {"new", "partially_filled"}

LEMMA RequestFacts ==
  ASSUME NEW r \in Requests
  PROVE  /\ r \in OrderRequest /\ r.side \in Sides /\ r.type \in {"market", "limit"}
         /\ r.quantity \in 1 .. MaxQty /\ r.quantity \in Nat /\ r.quantity > 0
         /\ r.limit \in Prices
<1>1. r \in OrderRequest /\ MaxQty \in Nat
  BY EngineAssumption DEF RequestsAssumption
<1> QED
  BY <1>1 DEF OrderRequest

LEMMA BookFacts ==
  ASSUME NEW b \in Books
  PROVE  /\ b \in OrderBook /\ b # NoBook
         /\ \A side \in Sides : _ladder(b, side) \in Ladder
<1>1. b \in OrderBook
  BY EngineAssumption DEF BooksAssumption
<1>2. b.bid # 0
  BY <1>1, EngineAssumption DEF OrderBook, Prices
<1>3. b # NoBook
  BY <1>2 DEF NoBook
<1> QED
  BY <1>1, <1>3 DEF _ladder, OrderBook, Ladder

LEMMA SubmitFacts ==
  ASSUME book \in Books, NEW o, NEW r \in Requests
  PROVE  SubmitSound(o, r, SubmitReport(o, r))
<1>1. PICK sweep, status, report :
        sweep = SubmitSweep(r) /\ status = SubmitStatus(r) /\ report = SubmitReport(o, r)
  OBVIOUS
<1>2. /\ r.side \in Sides /\ r.type \in {"market", "limit"} /\ r.quantity \in Nat
      /\ r.quantity > 0 /\ r.limit \in Prices
  BY RequestFacts
<1>3. PICK ladder : ladder = _ladder(book, r.side)
  OBVIOUS
<1>4. ladder \in Ladder /\ book \in OrderBook
  BY <1>2, <1>3, BookFacts
<1>5. NoBound(r.side) \in Prices
  BY EngineAssumption DEF NoBound, Prices
<1>6. /\ sweep.filled \in Nat /\ sweep.filled <= r.quantity
      /\ TouchShown /\ r.type = "limit" /\ Crosses(r) => sweep.filled > 0
  <2>1. CASE r.type = "market"
    <3>1. sweep = _sweep(r.side, r.quantity, NoBound(r.side), ladder)
      BY <1>1, <1>3, <2>1 DEF SubmitSweep
    <3>2. SweepSound(r.side, r.quantity, NoBound(r.side), ladder, sweep)
      BY <1>2, <1>4, <1>5, <3>1, SweepIsSound
    <3>3. sweep.filled \in Nat /\ sweep.filled <= r.quantity
      BY <3>2, Zenon DEF SweepSound
    <3> QED
      BY <2>1, <3>3
  <2>2. CASE r.type = "limit" /\ Crosses(r)
    <3>1. sweep = _sweep(r.side, r.quantity, r.limit, ladder)
      BY <1>1, <1>3, <2>2 DEF SubmitSweep
    <3>2. SweepSound(r.side, r.quantity, r.limit, ladder, sweep)
      BY <1>2, <1>4, <3>1, SweepIsSound
    <3>3. /\ sweep.filled \in Nat /\ sweep.filled <= r.quantity
          /\ (\E p \in Prices : Within(r.side, p, r.limit) /\ ladder[p] > 0) /\ r.quantity > 0
                => sweep.filled > 0
      BY <3>2, Zenon DEF SweepSound
    <3>4. ASSUME TouchShown
          PROVE  \E p \in Prices : Within(r.side, p, r.limit) /\ ladder[p] > 0
      <4>1. book.bid \in Prices /\ book.ask \in Prices /\ book.bids[book.bid] > 0 /\ book.asks[book.ask] > 0
        BY <1>4, <3>4 DEF TouchShown, OrderBook
      <4>2. \A p \in Prices : p \in Int
        BY PriceFacts
      <4>3. CASE r.side = "buy"
        <5>1. book.ask <= r.limit /\ ladder = book.asks
          BY <1>2, <1>3, <2>2, <4>1, <4>2, <4>3 DEF Crosses, _ladder
        <5>2. Within(r.side, book.ask, r.limit)
          BY <1>2, <4>1, <4>2, <4>3, <5>1 DEF Within, Better
        <5> QED
          BY <4>1, <5>1, <5>2
      <4>4. CASE r.side # "buy"
        <5>1. r.limit <= book.bid /\ ladder = book.bids
          BY <1>2, <1>3, <2>2, <4>1, <4>2, <4>4 DEF Crosses, _ladder
        <5>2. Within(r.side, book.bid, r.limit)
          BY <1>2, <4>1, <4>2, <4>4, <5>1 DEF Within, Better
        <5> QED
          BY <4>1, <5>1, <5>2
      <4> QED
        BY <4>3, <4>4
    <3> QED
      BY <1>2, <3>3, <3>4
  <2>3. CASE r.type = "limit" /\ ~Crosses(r)
    <3>1. sweep = [filled |-> 0, notional |-> 0]
      BY <1>1, <2>3 DEF SubmitSweep
    <3> QED
      BY <1>2, <2>3, <3>1
  <2> QED
    BY <1>2, <2>1, <2>2, <2>3
<1>7. status = IF PostOnlyRejected(r) THEN "rejected"
               ELSE IF r.type = "limit" /\ ~Crosses(r) THEN "new"
               ELSE IF sweep.filled >= r.quantity THEN "filled"
               ELSE IF r.type = "limit" /\ r.tif = "fok" THEN "rejected"
               ELSE "partially_filled"
  BY <1>1 DEF SubmitStatus
<1>8. /\ report.id = o /\ report.side = r.side /\ report.status = status
      /\ report.quantity = IF status \in {"filled", "partially_filled"} THEN sweep.filled ELSE 0
  BY <1>1 DEF SubmitReport, Report
<1>9. /\ status \in {"rejected", "new", "filled", "partially_filled"}
      /\ status = "filled" => sweep.filled >= r.quantity
      /\ status = "partially_filled" => ~(sweep.filled >= r.quantity)
                                        /\ (r.type = "limit" => Crosses(r))
  BY <1>7
<1>10. Rests(r) => r.type = "limit" /\ status \in {"new", "partially_filled"}
  BY <1>1 DEF Rests
<1>11. report.quantity \in Nat /\ report.quantity <= r.quantity
  BY <1>2, <1>6, <1>8
<1>12. status = "filled" => report.quantity = r.quantity
  BY <1>2, <1>6, <1>8, <1>9
<1>13. status = "partially_filled" => report.quantity < r.quantity
  BY <1>2, <1>6, <1>8, <1>9
<1>14. TouchShown /\ status = "partially_filled" /\ r.type = "limit" => report.quantity > 0
  BY <1>6, <1>8, <1>9
<1>15. status \in {"rejected", "new"} => report.quantity = 0
  BY <1>8
<1> QED
  BY <1>1, <1>8, <1>9, <1>10, <1>11, <1>12, <1>13, <1>14, <1>15 DEF SubmitSound

\* What a submit does to the queues.
LEMMA SubmitQueues ==
  ASSUME QueueInv, book \in Books, NEW o \in Ids, NEW r \in Requests, o \notin QueuedIds,
         queue' = SubmitQueue(o, r)
  PROVE  /\ QueueInv'
         /\ \A x \in Queued' : \/ x \in Queued
                               \/ /\ Rests(r) /\ x.id = o
                                  /\ x.remaining = r.quantity - SubmitReport(o, r).quantity
<1>1. PICK report : report = SubmitReport(o, r)
  OBVIOUS
<1>2. SubmitSound(o, r, report)
  BY <1>1, SubmitFacts
<1>3. /\ r.side \in Sides /\ r.quantity \in 1 .. MaxQty /\ r.limit \in Prices /\ MaxQty \in Nat
  BY RequestFacts, EngineAssumption
<1>4. CASE Rests(r)
  <2>1. report.quantity \in Nat /\ report.quantity < r.quantity
    <3>1. report.status \in {"new", "partially_filled"} /\ report.quantity \in Nat
      BY <1>2, <1>4 DEF SubmitSound
    <3>2. report.status = "new" => report.quantity = 0
      BY <1>2 DEF SubmitSound
    <3>3. report.status = "partially_filled" => report.quantity < r.quantity
      BY <1>2 DEF SubmitSound
    <3> QED
      BY <1>3, <3>1, <3>2, <3>3
  <2>2. PICK key, x : /\ key = <<r.side, r.limit>>
                      /\ x = [id |-> o, limit |-> r.limit, remaining |-> r.quantity - report.quantity]
    OBVIOUS
  <2>3. r.quantity - report.quantity \in 1 .. MaxQty
    BY <1>3, <2>1
  <2>4. /\ key \in Sides \X Prices /\ x \in _RestingOrder /\ x.limit = key[2] /\ x.id = o
        /\ x.remaining = r.quantity - report.quantity
    BY <1>3, <2>2, <2>3 DEF _RestingOrder
  <2>5. queue' = _enqueue(key, x)
    BY <1>1, <1>4, <2>2 DEF SubmitQueue
  <2>6. QueueInv' /\ Queued' \in SUBSET (Queued \cup {x})
    BY <2>4, <2>5, EnqueueFacts
  <2> QED
    BY <1>1, <1>4, <2>4, <2>6
<1>5. CASE ~Rests(r)
  <2>1. queue' = queue
    BY <1>5 DEF SubmitQueue
  <2>2. QueueInv' /\ Queued' = Queued
    BY <2>1 DEF QueueInv, QueueTypes, QueuedOnce, Queued
  <2> QED
    BY <2>2
<1> QED
  BY <1>4, <1>5
-----------------------------------------------------------------------------
(* What an advance does to the venue's records.                            *)

\* The values a record may take, whatever is done to it.
Record ==
    [status : {"none", "new", "partially_filled"} \cup TERMINAL_STATUSES,
     side : {"none"} \cup Sides, quantity : Nat, filled : Nat, created : Int, expires : Int]

\* What a report makes of the record of its order.
Booked(s, report) ==
    LET updated == with_fill(s, report.quantity)
    IN  IF resting(updated) /\ report.remaining > 0 THEN as_rested(updated) ELSE updated

OneEach(rs) == \A i, j \in 1 .. Len(rs) : rs[i].id = rs[j].id => i = j

LEMMA BookedType ==
  ASSUME NEW s \in Record, NEW report \in FillReport
  PROVE  /\ Booked(s, report) \in Record
         /\ Booked(s, report).status \in {"filled", "partially_filled"}
         /\ Booked(s, report).status = "filled" <=> s.filled + report.quantity = s.quantity
         /\ Booked(s, report).filled = s.filled + report.quantity
         /\ Booked(s, report).quantity = s.quantity
         /\ Booked(s, report).side = s.side
         /\ Booked(s, report).created = s.created
         /\ \/ Booked(s, report).expires = s.expires
            \/ s.expires = NoTime /\ Booked(s, report).expires = s.created + resting_ttl
<1>1. resting_ttl \in Int
  BY TtlAssumption
<1>2. report.quantity \in Nat
  BY DEF FillReport
<1>3. PICK u : u = with_fill(s, report.quantity)
  OBVIOUS
<1>4. /\ u \in Record /\ u.status \in {"filled", "partially_filled"}
      /\ u.status = "filled" <=> s.filled + report.quantity = s.quantity
      /\ u.filled = s.filled + report.quantity /\ u.quantity = s.quantity /\ u.side = s.side
      /\ u.created = s.created /\ u.expires = s.expires
  <2>1. PICK f, t : /\ f = s.filled + report.quantity
                    /\ t = IF f = s.quantity THEN "filled" ELSE "partially_filled"
    OBVIOUS
  <2>2. f \in Nat /\ t \in {"filled", "partially_filled"} /\ (t = "filled" <=> f = s.quantity)
    BY <1>2, <2>1 DEF Record
  <2>3. u = [[s EXCEPT !.filled = f] EXCEPT !.status = t]
    BY <1>3, <2>1 DEF with_fill
  <2>4. t \in {"none", "new", "partially_filled"} \cup TERMINAL_STATUSES
    BY <2>2 DEF TERMINAL_STATUSES
  <2> HIDE DEF TERMINAL_STATUSES
  <2>5. u \in Record /\ u.status = t /\ u.filled = f /\ u.quantity = s.quantity
        /\ u.side = s.side /\ u.created = s.created /\ u.expires = s.expires
    BY <2>2, <2>3, <2>4 DEF Record
  <2> QED
    BY <2>1, <2>2, <2>5
<1>5. PICK v : v = as_rested(u)
  OBVIOUS
<1>6. /\ v \in Record /\ v.status = u.status /\ v.filled = u.filled /\ v.quantity = u.quantity
      /\ v.side = u.side /\ v.created = u.created
      /\ \/ v.expires = u.expires
         \/ u.expires = NoTime /\ v.expires = u.created + resting_ttl
  <2>1. PICK e : e = IF u.expires = NoTime THEN u.created + resting_ttl ELSE u.expires
    OBVIOUS
  <2>2. e \in Int
    BY <1>1, <1>4, <2>1 DEF Record
  <2>3. v = [u EXCEPT !.expires = e]
    BY <1>5, <2>1 DEF as_rested
  <2> QED
    BY <1>4, <2>1, <2>2, <2>3 DEF Record
<1>7. Booked(s, report) = u \/ Booked(s, report) = v
  BY <1>3, <1>5, Zenon DEF Booked
<1> QED
  BY <1>4, <1>6, <1>7

LEMMA ApplyReportIs ==
  ASSUME NEW ss \in [Ids -> Record], NEW report \in FillReport
  PROVE  /\ ApplyReport(ss, report) \in [Ids -> Record]
         /\ report.id \in Ids
         /\ ApplyReport(ss, report)[report.id] = Booked(ss[report.id], report)
         /\ \A o \in Ids : o # report.id => ApplyReport(ss, report)[o] = ss[o]
<1>1. report.id \in Ids /\ ss[report.id] \in Record
  BY DEF FillReport
<1>2. Booked(ss[report.id], report) \in Record
  BY <1>1, BookedType
<1>3. ApplyReport(ss, report) = [ss EXCEPT ![report.id] = Booked(ss[report.id], report)]
  BY Zenon DEF ApplyReport, Booked
<1> QED
  BY <1>1, <1>2, <1>3

\* The function the fold of Advance is defined by.
StateFold(f, ss, rs) ==
    f = [s \in SUBSET DOMAIN rs |->
            IF s = {} THEN ss ELSE ApplyReport(f[s \ {Greatest(s)}], rs[Greatest(s)])]

LEMMA StatesFoldIs ==
  ASSUME NEW ss, NEW rs
  PROVE  FoldLeft(ApplyReport, ss, rs) = (CHOOSE f : StateFold(f, ss, rs))[DOMAIN rs]
  BY DEF FoldLeft, MapThenFoldSet, StateFold, Greatest

\* Every report is booked on the record of its own order.
AllBooked(ss, rs, k, result) ==
    /\ result \in [Ids -> Record]
    /\ \A i \in 1 .. k : result[rs[i].id] = Booked(ss[rs[i].id], rs[i])
    /\ \A o \in Ids : (\A i \in 1 .. k : rs[i].id # o) => result[o] = ss[o]

LEMMA BookedStep ==
  ASSUME NEW ss \in [Ids -> Record], NEW rs \in Seq(FillReport), OneEach(rs),
         NEW k \in Nat, k + 1 <= Len(rs), NEW acc, AllBooked(ss, rs, k, acc)
  PROVE  AllBooked(ss, rs, k + 1, ApplyReport(acc, rs[k + 1]))
<1>1. PICK m, n : m = k + 1 /\ n = Len(rs)
  OBVIOUS
<1>2. /\ m \in 1 .. n /\ n \in Nat /\ rs[m] \in FillReport
      /\ \A i \in 1 .. m : i \in 1 .. n /\ (i = m \/ i \in 1 .. k)
      /\ \A i \in 1 .. k : i \in 1 .. n /\ i \in 1 .. m /\ i # m
  BY <1>1
<1>3. PICK new : new = ApplyReport(acc, rs[m])
  OBVIOUS
<1>4. /\ new \in [Ids -> Record] /\ rs[m].id \in Ids
      /\ new[rs[m].id] = Booked(acc[rs[m].id], rs[m])
      /\ \A o \in Ids : o # rs[m].id => new[o] = acc[o]
  BY <1>2, <1>3, ApplyReportIs DEF AllBooked
<1>5. \A i \in 1 .. n : rs[i].id \in Ids
  <2>1. \A i \in 1 .. n : rs[i] \in FillReport
    BY <1>1
  <2> QED
    BY <2>1 DEF FillReport
<1>6. acc[rs[m].id] = ss[rs[m].id]
  BY <1>1, <1>2, <1>4 DEF AllBooked, OneEach
<1>7. \A i \in 1 .. m : new[rs[i].id] = Booked(ss[rs[i].id], rs[i])
  <2> SUFFICES ASSUME NEW i \in 1 .. m PROVE new[rs[i].id] = Booked(ss[rs[i].id], rs[i])
    OBVIOUS
  <2>1. CASE i = m
    BY <1>4, <1>6, <2>1
  <2>2. CASE i # m
    <3>1. i \in 1 .. k /\ i \in 1 .. n
      BY <1>2, <2>2
    <3>2. rs[i].id # rs[m].id
      BY <1>1, <1>2, <2>2, <3>1 DEF OneEach
    <3> QED
      BY <1>4, <1>5, <3>1, <3>2 DEF AllBooked
  <2> QED
    BY <2>1, <2>2
<1>8. ASSUME NEW o \in Ids, \A i \in 1 .. m : rs[i].id # o PROVE new[o] = ss[o]
  <2>1. o # rs[m].id /\ \A i \in 1 .. k : rs[i].id # o
    BY <1>2, <1>8, <1>1
  <2> QED
    BY <1>4, <2>1 DEF AllBooked
<1> QED
  BY <1>1, <1>3, <1>4, <1>7, <1>8 DEF AllBooked

LEMMA StatesAreBooked ==
  ASSUME NEW ss \in [Ids -> Record], NEW rs \in Seq(FillReport), OneEach(rs)
  PROVE  AllBooked(ss, rs, Len(rs), FoldLeft(ApplyReport, ss, rs))
<1> DEFINE D == [Ids -> Record]
<1>1. PICK n : n = Len(rs)
  OBVIOUS
<1>2. n \in Nat /\ DOMAIN rs = 1 .. n /\ \A k \in 1 .. n : rs[k] \in FillReport
  BY <1>1
<1>3. PICK G : G = [z \in (1 .. n) \X D |-> ApplyReport(z[2], rs[z[1]])]
  OBVIOUS
<1>4. \A k \in 1 .. n : \A acc \in D : /\ ApplyReport(acc, rs[k]) \in D
                                       /\ G[<<k, acc>>] = ApplyReport(acc, rs[k])
  <2> SUFFICES ASSUME NEW k \in 1 .. n, NEW acc \in D
               PROVE  /\ ApplyReport(acc, rs[k]) \in D
                      /\ G[<<k, acc>>] = ApplyReport(acc, rs[k])
    BY Zenon
  <2>1. ApplyReport(acc, rs[k]) \in D
    BY <1>2, ApplyReportIs
  <2> HIDE DEF D
  <2> QED
    BY <1>3, <2>1
<1> HIDE DEF D
<1>5. G \in Steps(n, D)
  <2>1. ASSUME NEW z \in (1 .. n) \X D PROVE ApplyReport(z[2], rs[z[1]]) \in D
    <3>1. z[1] \in 1 .. n /\ z[2] \in D
      BY <2>1
    <3> QED
      BY <1>4, <3>1
  <2> QED
    BY <1>3, <2>1 DEF Steps
<1>6. ss \in D
  BY DEF D
<1>7. \E f : StateFold(f, ss, rs)
  <2>1. PICK f : FoldTable(f, D, ss, n, G)
    BY <1>2, <1>5, <1>6, FoldExists
  <2>2. \A s \in SUBSET (1 .. n) :
           s # {} => G[<<Greatest(s), f[s \ {Greatest(s)}]>>]
                       = ApplyReport(f[s \ {Greatest(s)}], rs[Greatest(s)])
    <3> SUFFICES ASSUME NEW s \in SUBSET (1 .. n), s # {}
                 PROVE  G[<<Greatest(s), f[s \ {Greatest(s)}]>>]
                          = ApplyReport(f[s \ {Greatest(s)}], rs[Greatest(s)])
      OBVIOUS
    <3>1. Greatest(s) \in 1 .. n
      BY <1>2, GreatestIs
    <3>2. s \ {Greatest(s)} \in SUBSET (1 .. n)
      OBVIOUS
    <3>3. f[s \ {Greatest(s)}] \in D
      BY <2>1, <3>2 DEF FoldTable
    <3> QED
      BY <1>4, <3>1, <3>3
  <2>3. f = [s \in SUBSET DOMAIN rs |->
                IF s = {} THEN ss ELSE ApplyReport(f[s \ {Greatest(s)}], rs[Greatest(s)])]
    BY <1>2, <2>1, <2>2 DEF FoldTable
  <2> QED
    BY <2>3, Zenon DEF StateFold
<1>8. PICK f : f = CHOOSE g : StateFold(g, ss, rs)
  OBVIOUS
<1>9. StateFold(f, ss, rs)
  BY <1>7, <1>8
<1>10. FoldLeft(ApplyReport, ss, rs) = f[1 .. n]
  BY <1>2, <1>8, StatesFoldIs
<1>11. Folds(f, D, ss, n, G)
  <2>1. f[{}] = ss
    BY <1>2, <1>9 DEF StateFold
  <2>2. ASSUME NEW s \in SUBSET (1 .. n), s # {}, f[s \ {Greatest(s)}] \in D
        PROVE  f[s] = G[<<Greatest(s), f[s \ {Greatest(s)}]>>]
    <3>1. Greatest(s) \in 1 .. n
      BY <1>2, <2>2, GreatestIs
    <3>2. f[s] = ApplyReport(f[s \ {Greatest(s)}], rs[Greatest(s)])
      BY <1>2, <1>9, <2>2 DEF StateFold
    <3> QED
      BY <1>4, <2>2, <3>1, <3>2
  <2> QED
    BY <2>1, <2>2 DEF Folds
<1>12. PICK h : Course(h, D, ss, n, G) /\ h[n] = f[1 .. n]
  BY <1>2, <1>5, <1>6, <1>11, FoldHasCourse
<1> DEFINE Good == {z \in (0 .. n) \X D : AllBooked(ss, rs, z[1], z[2])}
<1>13. <<0, h[0]>> \in Good
  <2>1. AllBooked(ss, rs, 0, ss)
    BY DEF AllBooked
  <2> QED
    BY <1>2, <1>6, <1>12, <2>1 DEF Course
<1>14. ASSUME NEW k \in 0 .. n - 1, <<k, h[k]>> \in Good PROVE <<k + 1, h[k + 1]>> \in Good
  <2>1. k \in Nat /\ k + 1 \in 1 .. n /\ k + 1 - 1 = k /\ k + 1 <= Len(rs) /\ k + 1 \in 0 .. n
    BY <1>1, <1>2
  <2>2. h[k] \in D /\ AllBooked(ss, rs, k, h[k])
    BY <1>14
  <2>3. PICK m : m = k + 1
    OBVIOUS
  <2>4. h[m] = G[<<m, h[m - 1]>>] /\ h[m] \in D /\ m - 1 = k
    BY <2>1, <2>3, <1>12 DEF Course
  <2>5. h[m] = ApplyReport(h[k], rs[m])
    BY <1>4, <2>1, <2>2, <2>3, <2>4
  <2>6. AllBooked(ss, rs, k + 1, ApplyReport(h[k], rs[k + 1]))
    BY <2>1, <2>2, BookedStep
  <2>7. AllBooked(ss, rs, m, h[m])
    BY <2>3, <2>5, <2>6
  <2> QED
    BY <2>1, <2>3, <2>4, <2>7
<1>15. <<n, h[n]>> \in Good
  <2> HIDE DEF Good
  <2> QED
    BY <1>2, <1>13, <1>14, CourseInduction
<1> QED
  BY <1>1, <1>10, <1>12, <1>15
\* The reports that are recorded are those ahead of the first which cannot be.
LEMMA AppliedFacts ==
  ASSUME NEW rs \in Seq(FillReport), OneEach(rs)
  PROVE  /\ Applied(rs) \in Seq(FillReport) /\ OneEach(Applied(rs))
         /\ \A i \in 1 .. Len(Applied(rs)) : Recordable(Applied(rs)[i])
         /\ (\A i \in 1 .. Len(rs) : Recordable(rs[i])) => Applied(rs) = rs
<1>1. PICK n, bad : n = Len(rs) /\ bad = {i \in DOMAIN rs : ~Recordable(rs[i])}
  OBVIOUS
<1>2. /\ n \in Nat /\ DOMAIN rs = 1 .. n /\ bad \in SUBSET (1 .. n)
      /\ \A i \in 1 .. n : i \in bad \/ Recordable(rs[i])
      /\ \A i \in bad : ~Recordable(rs[i])
  BY <1>1
<1>3. Applied(rs) = IF bad = {} THEN rs ELSE SubSeq(rs, 1, Min(bad) - 1)
  BY <1>1 DEF Applied
<1>4. CASE bad = {}
  <2>1. Applied(rs) = rs /\ \A i \in 1 .. n : Recordable(rs[i])
    BY <1>2, <1>3, <1>4
  <2> QED
    BY <1>1, <2>1
<1>5. CASE bad # {}
  <2>1. bad \in SUBSET Nat
    BY <1>2
  <2>2. PICK k \in bad : \A m \in bad : k <= m
    BY <1>5, <2>1, LeastNumber
  <2>3. Min(bad) \in bad /\ \A m \in bad : Min(bad) <= m
    BY <2>2 DEF Min
  <2>4. PICK l : l = Min(bad) - 1
    OBVIOUS
  <2>5. l \in 0 .. n /\ l \in Nat /\ \A i \in 1 .. l : i \in 1 .. n /\ i \notin bad
    <3>1. PICK m : m = Min(bad)
      OBVIOUS
    <3>2. m \in 1 .. n /\ n \in Nat /\ l = m - 1 /\ \A i \in bad : m <= i
      BY <1>2, <2>3, <2>4, <3>1
    <3>3. l \in 0 .. n /\ l \in Nat /\ \A i \in 1 .. l : i \in 1 .. n /\ ~(m <= i)
      BY <3>2
    <3> QED
      BY <3>2, <3>3
  <2>6. PICK s : s = SubSeq(rs, 1, l)
    OBVIOUS
  <2>7. Applied(rs) = s
    BY <1>3, <1>5, <2>4, <2>6
  <2>8. s \in Seq(FillReport) /\ Len(s) = l /\ \A i \in 1 .. l : s[i] = rs[i]
    BY <1>1, <2>5, <2>6
  <2>9. OneEach(s)
    BY <1>1, <2>5, <2>8 DEF OneEach
  <2>10. \A i \in 1 .. l : Recordable(s[i])
    BY <1>2, <2>5, <2>8
  <2>11. ~ \A i \in 1 .. n : Recordable(rs[i])
    BY <1>2, <1>5
  <2> QED
    BY <1>1, <2>7, <2>8, <2>9, <2>10, <2>11
<1> QED
  BY <1>4, <1>5

\* One filled quantity, or none, of an order whose reports are one at most.
LEMMA FilledOfOne ==
  ASSUME NEW rs \in Seq(FillReport), OneEach(rs), NEW o
  PROVE  /\ \A j \in 1 .. Len(rs) :
              rs[j].id = o => Filled(rs, {i \in DOMAIN rs : rs[i].id = o}) = rs[j].quantity
         /\ (\A j \in 1 .. Len(rs) : rs[j].id # o) => Filled(rs, {i \in DOMAIN rs : rs[i].id = o}) = 0
         /\ Filled(rs, {i \in DOMAIN rs : rs[i].id = o}) \in Nat
<1>1. PICK f, S : f = [i \in DOMAIN rs |-> rs[i].quantity] /\ S = {i \in DOMAIN rs : rs[i].id = o}
  OBVIOUS
<1>2. Filled(rs, {i \in DOMAIN rs : rs[i].id = o}) = SumOver(f, S)
  BY <1>1 DEF Filled
<1>3. \A i \in 1 .. Len(rs) : rs[i] \in FillReport
  OBVIOUS
<1>4. \A i \in 1 .. Len(rs) : f[i] = rs[i].quantity /\ f[i] \in Nat
  BY <1>1, <1>3 DEF FillReport
<1>5. ASSUME NEW j \in 1 .. Len(rs), rs[j].id = o PROVE SumOver(f, S) = rs[j].quantity
  <2>1. S = {j}
    BY <1>1, <1>5 DEF OneEach
  <2> QED
    <3>1. f[j] = rs[j].quantity /\ f[j] \in Int
      BY <1>4
    <3>2. SumOver(f, {j}) = f[j]
      BY <3>1, SumOne
    <3> QED
      BY <2>1, <3>1, <3>2
<1>6. ASSUME \A j \in 1 .. Len(rs) : rs[j].id # o PROVE SumOver(f, S) = 0
  <2>1. S = {}
    BY <1>1, <1>6
  <2> QED
    BY <2>1, SumNone
<1>7. SumOver(f, S) \in Nat
  BY <1>4, <1>5, <1>6
<1> QED
  BY <1>2, <1>5, <1>6, <1>7

-----------------------------------------------------------------------------
(* The venue: its types, and what of the queues holds on every step.       *)

VenueTypes ==
    /\ book \in Books \cup {NoBook}
    /\ states \in [Ids -> {NoState} \cup VenueOrderState]
    /\ executed \in [Ids -> Nat]
    /\ book = NoBook => states = [o \in Ids |-> NoState]

VenueSafe == VenueTypes /\ QueueInv

LEMMA VenueConstants ==
  /\ MaxTime \in Nat /\ resting_ttl \in Nat /\ resting_ttl > 0 /\ MaxQty \in Nat /\ MaxPrice \in Nat
  /\ {NoState} \cup VenueOrderState \in SUBSET Record
  /\ NoState \notin VenueOrderState /\ NoState \in Record
<1>1. /\ MaxTime \in Nat /\ resting_ttl \in Nat /\ resting_ttl > 0 /\ MaxQty \in Nat /\ MaxPrice \in Nat
  BY TtlAssumption, EngineAssumption
<1>2. NoState \in Record
  BY DEF NoState, NoTime, Record
<1>3. ASSUME NEW s \in VenueOrderState PROVE s \in Record
  BY <1>1 DEF VenueOrderState, Record, NoTime
<1>4. NoState \notin VenueOrderState
  BY DEF VenueOrderState, NoState, Sides
<1> QED
  BY <1>1, <1>2, <1>3, <1>4

\* A fill that can be recorded gives a record again.
LEMMA BookedVenue ==
  ASSUME NEW s \in VenueOrderState, NEW report \in FillReport, Fillable(s, report.quantity)
  PROVE  /\ Booked(s, report) \in VenueOrderState
         /\ Booked(s, report).filled <= s.quantity
         /\ s.expires # NoTime => Booked(s, report).expires = s.expires
<1>1. /\ s \in Record /\ s.quantity \in 1 .. MaxQty /\ s.filled \in 0 .. MaxQty /\ MaxQty \in Nat
      /\ MaxTime \in Nat /\ resting_ttl \in Nat
      /\ s.created \in 0 .. MaxTime /\ s.expires \in {NoTime} \cup 0 .. MaxTime + resting_ttl
  BY VenueConstants DEF VenueOrderState
<1>2. PICK n : n = report.quantity
  OBVIOUS
<1>3. n \in Nat /\ n > 0 /\ n <= s.quantity - s.filled
  BY <1>2 DEF FillReport, Fillable
<1>4. PICK v : v = Booked(s, report)
  OBVIOUS
<1>5. /\ v \in Record
      /\ v.status \in {"filled", "partially_filled"}
      /\ v.filled = s.filled + n /\ v.quantity = s.quantity /\ v.side = s.side
      /\ v.created = s.created
      /\ \/ v.expires = s.expires
         \/ s.expires = NoTime /\ v.expires = s.created + resting_ttl
  BY <1>1, <1>2, <1>4, BookedType
<1>6. v.filled \in 0 .. MaxQty /\ v.filled <= s.quantity
  BY <1>1, <1>3, <1>5
<1>7. v.expires \in {NoTime} \cup 0 .. MaxTime + resting_ttl
  BY <1>1, <1>5
<1>8. v.quantity \in 1 .. MaxQty /\ v.side \in Sides /\ v.created \in 0 .. MaxTime
  BY <1>5 DEF VenueOrderState
<1>9. v.status \in {"new", "partially_filled"} \cup TERMINAL_STATUSES
  BY <1>5 DEF TERMINAL_STATUSES
<1>10. v \in VenueOrderState
  BY <1>5, <1>6, <1>7, <1>8, <1>9 DEF VenueOrderState, Record
<1> QED
  BY <1>4, <1>5, <1>6, <1>10
\* The record a submit gives rise to.
RecordedSound(r, report, s) ==
    /\ s \in {NoState} \cup VenueOrderState
    /\ s.expires # NoTime => s # NoState
    /\ s = NoState => report.status = "partially_filled" /\ report.quantity = 0
    /\ s # NoState =>
          /\ s.quantity = r.quantity /\ s.filled = report.quantity
          /\ \/ s.status \in {"rejected", "new"} /\ report.status = s.status /\ s.filled = 0
             \/ s.status = "filled" /\ report.status = s.status /\ s.filled = s.quantity
             \/ /\ s.status = "partially_filled" /\ report.status = s.status
                /\ s.filled > 0 /\ s.filled < s.quantity

LEMMA RecordedFacts ==
  ASSUME NEW o \in Ids, NEW r \in Requests, NEW t \in 0 .. MaxTime, NEW report,
         SubmitSound(o, r, report)
  PROVE  RecordedSound(r, report, Recorded(r, t, report))
<1>1. /\ r.side \in Sides /\ r.quantity \in 1 .. MaxQty /\ MaxQty \in Nat /\ MaxTime \in Nat
      /\ resting_ttl \in Nat /\ t \in Int
      /\ t \in {NoTime} \cup 0 .. MaxTime + resting_ttl
      /\ t + resting_ttl \in {NoTime} \cup 0 .. MaxTime + resting_ttl
  BY RequestFacts, VenueConstants
<1>2. PICK q : q = report.quantity
  OBVIOUS
<1>3. /\ q \in 0 .. MaxQty /\ q \in Nat /\ q <= r.quantity
      /\ report.status \in {"rejected", "new", "filled", "partially_filled"}
      /\ report.status \in {"rejected", "new"} => q = 0
      /\ report.status = "filled" => q = r.quantity
      /\ report.status = "partially_filled" => q < r.quantity
  BY <1>1, <1>2 DEF SubmitSound
<1> DEFINE Made(status, filled, expires) ==
             [status |-> status, side |-> r.side, quantity |-> r.quantity, filled |-> filled,
              created |-> t, expires |-> expires]
<1>4. PICK fresh : fresh = [NoState EXCEPT !.status = "new", !.side = r.side,
                                           !.quantity = r.quantity, !.created = t]
  OBVIOUS
<1>5. fresh = Made("new", 0, NoTime)
  BY <1>4 DEF NoState
<1>6. ASSUME NEW status \in {"new", "partially_filled"} \cup TERMINAL_STATUSES,
             NEW expires \in {NoTime} \cup 0 .. MaxTime + resting_ttl, NEW n \in 0 .. MaxQty
      PROVE  /\ Made(status, n, expires) \in VenueOrderState /\ Made(status, n, expires) # NoState
             /\ Made(status, n, expires).status = status /\ Made(status, n, expires).filled = n
             /\ Made(status, n, expires).quantity = r.quantity
  <2>1. Made(status, n, expires) \in VenueOrderState
    BY <1>1, <1>6 DEF VenueOrderState
  <2> QED
    BY <2>1, VenueConstants
<1>7. NoTime \in {NoTime} \cup 0 .. MaxTime + resting_ttl /\ 0 \in 0 .. MaxQty
  BY <1>1
<1>8. PICK s : s = Recorded(r, t, report)
  OBVIOUS
<1>9. CASE report.status = "rejected"
  <2>1. s = [fresh EXCEPT !.status = "rejected"]
    BY <1>4, <1>8, <1>9 DEF Recorded
  <2>2. s = Made("rejected", 0, NoTime) /\ "rejected" \in {"new", "partially_filled"} \cup TERMINAL_STATUSES
    BY <1>5, <2>1 DEF TERMINAL_STATUSES
  <2> HIDE DEF Made
  <2>3. s \in VenueOrderState /\ s # NoState /\ s.status = "rejected" /\ s.filled = 0 /\ s.quantity = r.quantity
    BY <1>6, <1>7, <2>2
  <2> QED
    BY <1>2, <1>3, <1>8, <1>9, <2>3 DEF RecordedSound
<1>10. CASE report.status = "new"
  <2>1. s = as_rested(fresh)
    BY <1>4, <1>8, <1>10 DEF Recorded
  <2>2. s = Made("new", 0, t + resting_ttl) /\ "new" \in {"new", "partially_filled"} \cup TERMINAL_STATUSES
    BY <1>5, <2>1 DEF as_rested
  <2> HIDE DEF Made
  <2>3. s \in VenueOrderState /\ s # NoState /\ s.status = "new" /\ s.filled = 0 /\ s.quantity = r.quantity
    BY <1>1, <1>6, <1>7, <2>2
  <2> QED
    BY <1>2, <1>3, <1>8, <1>10, <2>3 DEF RecordedSound
<1>11. CASE report.status = "filled"
  <2>1. s = with_fill(fresh, q)
    BY <1>2, <1>4, <1>8, <1>11 DEF Recorded
  <2>2. s = Made("filled", q, NoTime) /\ "filled" \in {"new", "partially_filled"} \cup TERMINAL_STATUSES
    <3>1. PICK u : u = [fresh EXCEPT !.filled = q]
      OBVIOUS
    <3>2. fresh.filled + q = q /\ q = fresh.quantity
      BY <1>3, <1>5, <1>11
    <3>3. s = [u EXCEPT !.status = "filled"]
      BY <2>1, <3>1, <3>2 DEF with_fill
    <3> QED
      BY <1>5, <3>1, <3>3 DEF TERMINAL_STATUSES
  <2> HIDE DEF Made
  <2>3. s \in VenueOrderState /\ s # NoState /\ s.status = "filled" /\ s.filled = q /\ s.quantity = r.quantity
    BY <1>3, <1>6, <1>7, <2>2
  <2> QED
    BY <1>2, <1>3, <1>8, <1>11, <2>3 DEF RecordedSound
<1>12. CASE report.status = "partially_filled"
  <2>1. s = IF Fillable(fresh, q) THEN as_rested(with_fill(fresh, q)) ELSE NoState
    BY <1>2, <1>4, <1>8, <1>12 DEF Recorded
  <2>2. Fillable(fresh, q) <=> q > 0
    BY <1>1, <1>3, <1>5 DEF Fillable, TERMINAL_STATUSES
  <2>3. CASE q > 0
    <3>1. s = Made("partially_filled", q, t + resting_ttl)
      <4>1. PICK u : u = [fresh EXCEPT !.filled = q]
        OBVIOUS
      <4>2. fresh.filled + q = q /\ q # fresh.quantity
        BY <1>1, <1>3, <1>5, <1>12
      <4>3. PICK v : v = [u EXCEPT !.status = "partially_filled"]
        OBVIOUS
      <4>4. with_fill(fresh, q) = v
        BY <4>1, <4>2, <4>3 DEF with_fill
      <4>5. v = Made("partially_filled", q, NoTime)
        BY <1>5, <4>1, <4>3
      <4>6. s = as_rested(v)
        BY <2>1, <2>2, <2>3, <4>4
      <4> QED
        BY <4>5, <4>6 DEF as_rested
    <3> HIDE DEF Made
    <3>2. s \in VenueOrderState /\ s # NoState /\ s.status = "partially_filled" /\ s.filled = q
          /\ s.quantity = r.quantity
      BY <1>1, <1>3, <1>6, <3>1
    <3> QED
      BY <1>2, <1>3, <1>8, <1>12, <2>3, <3>2 DEF RecordedSound
  <2>4. CASE ~(q > 0)
    <3>1. s = NoState /\ q = 0 /\ NoState.expires = NoTime
      BY <1>3, <2>1, <2>2, <2>4 DEF NoState
    <3> QED
      BY <1>2, <1>8, <1>12, <3>1 DEF RecordedSound
  <2> QED
    BY <2>3, <2>4
<1> QED
  BY <1>3, <1>9, <1>10, <1>11, <1>12

\* One submit, on the queues, the records and the history.
LEMMA SubmitStep ==
  ASSUME VenueSafe, NEW o \in Ids, NEW r \in Requests, NEW t \in 0 .. MaxTime, Submit(o, r, t)
  PROVE  \E s, report : /\ SubmitSound(o, r, report) /\ RecordedSound(r, report, s)
                        /\ report = SubmitReport(o, r)
                        /\ book \in Books /\ o \notin Known /\ o \notin QueuedIds
                        /\ states[o] = NoState
                        /\ states' = [states EXCEPT ![o] = s]
                        /\ executed' = [executed EXCEPT ![o] = @ + report.quantity]
                        /\ reports' = IF s = NoState THEN <<>> ELSE <<report>>
                        /\ unrecorded' = IF s = NoState /\ Rests(r) THEN unrecorded \cup {o} ELSE unrecorded
                        /\ book' = book
                        /\ QueueInv'
                        /\ \A x \in Queued' : \/ x \in Queued
                                              \/ /\ Rests(r) /\ x.id = o
                                                 /\ x.remaining = r.quantity - report.quantity
<1>1. PICK s, report : report = SubmitReport(o, r) /\ s = Recorded(r, t, report)
  OBVIOUS
<1>2. book \in Books /\ QueueInv
  BY DEF VenueSafe, VenueTypes, Submit
<1>3. SubmitSound(o, r, report)
  BY <1>1, <1>2, SubmitFacts
<1>4. RecordedSound(r, report, s)
  BY <1>1, <1>3, RecordedFacts
<1>5. o \notin Known /\ o \notin QueuedIds /\ states[o] = NoState
  BY DEF Submit, Used, Known
<1>6. /\ states' = [states EXCEPT ![o] = s]
      /\ unrecorded' = IF s = NoState /\ Rests(r) THEN unrecorded \cup {o} ELSE unrecorded
      /\ executed' = [executed EXCEPT ![o] = @ + report.quantity]
      /\ reports' = IF s = NoState THEN <<>> ELSE <<report>>
      /\ book' = book /\ queue' = SubmitQueue(o, r)
  BY <1>1, Zenon DEF Submit
<1>7. /\ QueueInv'
      /\ \A x \in Queued' : \/ x \in Queued
                            \/ /\ Rests(r) /\ x.id = o
                               /\ x.remaining = r.quantity - report.quantity
  BY <1>1, <1>2, <1>5, <1>6, SubmitQueues
<1> QED
  BY <1>1, <1>2, <1>3, <1>4, <1>5, <1>6, <1>7
\* One advance, on the queues, the records and the history.
AdvanceSound(b, rs, done) ==
    /\ b \in OrderBook /\ b # NoBook /\ rs = AdvanceReports(b) /\ done = Applied(rs)
    /\ ReportsSound(b, rs)
    /\ book' = b /\ queue' = AdvanceQueue(b) /\ QueueInv'
    /\ reports' = IF done = rs THEN rs ELSE <<>>
    /\ executed' = [o \in Ids |-> executed[o] + Filled(rs, {i \in DOMAIN rs : rs[i].id = o})]
    /\ (\A i \in 1 .. Len(rs) : Recordable(rs[i])) => done = rs
    /\ states' \in [Ids -> {NoState} \cup VenueOrderState]
    /\ \A o \in Ids :
          \/ states'[o] = states[o] /\ \A i \in 1 .. Len(done) : done[i].id # o
          \/ \E i \in 1 .. Len(done) :
                /\ done[i].id = o /\ done[i] \in FillReport
                /\ states[o] \in VenueOrderState /\ Fillable(states[o], done[i].quantity)
                /\ states'[o] = Booked(states[o], done[i])

LEMMA AdvanceStep ==
  ASSUME VenueSafe, NEW b \in Books, Advance(b)
  PROVE  AdvanceSound(b, AdvanceReports(b), Applied(AdvanceReports(b)))
<1>1. b \in OrderBook /\ b # NoBook /\ QueueInv /\ states \in [Ids -> {NoState} \cup VenueOrderState]
  BY BookFacts DEF VenueSafe, VenueTypes
<1>2. PICK rs, done : rs = AdvanceReports(b) /\ done = Applied(rs)
  OBVIOUS
<1>3. ReportsSound(b, rs)
  BY <1>1, <1>2, ReportFacts
<1>4. rs \in Seq(FillReport) /\ OneEach(rs)
  BY <1>3 DEF ReportsSound, OneEach
<1>5. /\ done \in Seq(FillReport) /\ OneEach(done)
      /\ \A i \in 1 .. Len(done) : Recordable(done[i])
      /\ (\A i \in 1 .. Len(rs) : Recordable(rs[i])) => done = rs
  BY <1>2, <1>4, AppliedFacts
<1>6. /\ book' = b /\ queue' = AdvanceQueue(b) /\ reports' = IF done = rs THEN rs ELSE <<>>
      /\ states' = FoldLeft(ApplyReport, states, done)
      /\ executed' = [o \in Ids |-> executed[o] + Filled(rs, {i \in DOMAIN rs : rs[i].id = o})]
  BY <1>2, Zenon DEF Advance
<1>7. states \in [Ids -> Record]
  BY <1>1, VenueConstants
<1>8. AllBooked(states, done, Len(done), states')
  BY <1>5, <1>6, <1>7, StatesAreBooked
<1>9. \A o \in Ids :
          \/ states'[o] = states[o] /\ \A i \in 1 .. Len(done) : done[i].id # o
          \/ \E i \in 1 .. Len(done) :
                /\ done[i].id = o /\ done[i] \in FillReport
                /\ states[o] \in VenueOrderState /\ Fillable(states[o], done[i].quantity)
                /\ states'[o] = Booked(states[o], done[i])
  <2> SUFFICES ASSUME NEW o \in Ids, NEW i \in 1 .. Len(done), done[i].id = o
               PROVE  /\ done[i] \in FillReport
                      /\ states[o] \in VenueOrderState /\ Fillable(states[o], done[i].quantity)
                      /\ states'[o] = Booked(states[o], done[i])
    BY <1>8 DEF AllBooked
  <2>1. done[i] \in FillReport
    BY <1>5
  <2>2. o \in Known /\ Fillable(states[o], done[i].quantity)
    BY <1>5 DEF Recordable
  <2>3. states[o] \in VenueOrderState
    BY <1>1, <2>2 DEF Known
  <2>4. states'[o] = Booked(states[o], done[i])
    BY <1>8 DEF AllBooked
  <2> QED
    BY <2>1, <2>2, <2>3, <2>4
<1>10. \A o \in Ids : states'[o] \in {NoState} \cup VenueOrderState
  <2> SUFFICES ASSUME NEW o \in Ids PROVE states'[o] \in {NoState} \cup VenueOrderState
    OBVIOUS
  <2>1. CASE states'[o] = states[o]
    BY <1>1, <2>1
  <2>2. ASSUME NEW i \in 1 .. Len(done), done[i] \in FillReport,
               states[o] \in VenueOrderState, Fillable(states[o], done[i].quantity),
               states'[o] = Booked(states[o], done[i])
        PROVE  states'[o] \in VenueOrderState
    BY <2>2, BookedVenue
  <2> QED
    BY <1>9, <2>1, <2>2
<1>11. states' \in [Ids -> {NoState} \cup VenueOrderState]
  <2>1. states' \in [Ids -> Record]
    BY <1>8 DEF AllBooked
  <2> QED
    BY <1>10, <2>1
<1>12. QueueInv'
  BY <1>1, <1>6, AdvanceKeepsQueues
<1>13. AdvanceSound(b, rs, done)
  BY <1>1, <1>2, <1>3, <1>5, <1>6, <1>9, <1>11, <1>12 DEF AdvanceSound
<1> QED
  BY <1>2, <1>13

\* The records that a cancel or an expiry ends.
LEMMA EndedVenue ==
  ASSUME NEW s \in VenueOrderState, NEW status \in TERMINAL_STATUSES
  PROVE  /\ [s EXCEPT !.status = status] \in VenueOrderState
         /\ [s EXCEPT !.status = status].status = status
         /\ [s EXCEPT !.status = status].filled = s.filled
         /\ [s EXCEPT !.status = status].quantity = s.quantity
         /\ [s EXCEPT !.status = status].expires = s.expires
  BY DEF VenueOrderState

CancelSound(o) ==
    /\ o \in Ids /\ states[o] \in VenueOrderState /\ resting(states[o])
    /\ states' = [states EXCEPT ![o].status = "cancelled"]
    /\ book' = book /\ executed' = executed
    /\ QueueInv' /\ Queued' \in SUBSET {x \in Queued : x.id \notin {o}}

LEMMA CancelStep ==
  ASSUME VenueSafe, NEW o \in Ids, Cancel(o)
  PROVE  CancelSound(o)
<1>1. /\ states[o] \in VenueOrderState /\ resting(states[o]) /\ queue' = _dequeue({o})
      /\ states' = [states EXCEPT ![o].status = "cancelled"]
      /\ book' = book /\ executed' = executed /\ QueueInv
  BY DEF VenueSafe, VenueTypes, Cancel, Known
<1>2. QueueInv' /\ Queued' \in SUBSET {x \in Queued : x.id \notin {o}}
  BY <1>1, DequeueFacts
<1> QED
  BY <1>1, <1>2 DEF CancelSound

ExpireSound(due) ==
    /\ due \in SUBSET Ids /\ due # {}
    /\ \A o \in due : states[o] \in VenueOrderState /\ resting(states[o])
    /\ states' = [o \in Ids |-> IF o \in due THEN [states[o] EXCEPT !.status = "expired"] ELSE states[o]]
    /\ book' = book /\ executed' = executed
    /\ QueueInv' /\ Queued' \in SUBSET {x \in Queued : x.id \notin due}

LEMMA ExpireStep ==
  ASSUME VenueSafe, NEW t, ExpireDue(t)
  PROVE  ExpireSound(Due(t))
<1>1. PICK due : due = Due(t)
  OBVIOUS
<1>2. /\ queue' = _dequeue(due) /\ book' = book /\ executed' = executed /\ QueueInv
      /\ states' = [o \in Ids |-> IF o \in due THEN [states[o] EXCEPT !.status = "expired"]
                                              ELSE states[o]]
      /\ due # {}
  BY <1>1, Zenon DEF VenueSafe, ExpireDue
<1>3. due \in SUBSET Ids /\ \A o \in due : states[o] \in VenueOrderState /\ resting(states[o])
  BY <1>1 DEF VenueSafe, VenueTypes, Due, Known
<1>4. QueueInv' /\ Queued' \in SUBSET {x \in Queued : x.id \notin due}
  BY <1>2, DequeueFacts
<1>5. ExpireSound(due)
  BY <1>2, <1>3, <1>4, Zenon DEF ExpireSound
<1> QED
  BY <1>1, <1>5

LEMMA VenueStarts == Init => VenueSafe
<1> SUFFICES ASSUME Init PROVE VenueSafe
  OBVIOUS
<1>1. queue = [k \in Sides \X Prices |-> <<>>] /\ book = NoBook
  BY DEF Init, EngineInit
<1>2. queue \in [Sides \X Prices -> Seq(_RestingOrder)] /\ \A k \in Sides \X Prices : queue[k] = <<>>
  BY <1>1
<1>3. QueueInv
  BY <1>2 DEF QueueInv, QueueTypes, QueuedOnce
<1>4. VenueTypes
  BY <1>1 DEF Init, VenueTypes
<1> QED
  BY <1>3, <1>4 DEF VenueSafe

LEMMA VenueKept == VenueSafe /\ [Next]_vars => VenueSafe'
<1> SUFFICES ASSUME VenueSafe, [Next]_vars PROVE VenueSafe'
  OBVIOUS
<1>0. /\ book \in Books \cup {NoBook} /\ states \in [Ids -> {NoState} \cup VenueOrderState]
      /\ executed \in [Ids -> Nat] /\ QueueInv /\ QueueTypes
      /\ book = NoBook => states = [o \in Ids |-> NoState]
  BY DEF VenueSafe, VenueTypes, QueueInv
<1>1. ASSUME NEW b \in Books, SetBook(b) PROVE VenueSafe'
  <2>1. /\ book' = b /\ b # NoBook /\ states' = states /\ executed' = executed /\ queue' = queue
    BY <1>1, BookFacts DEF SetBook, set_book, venueVars
  <2>2. QueueInv'
    BY <1>0, <2>1 DEF QueueInv, QueueTypes, QueuedOnce
  <2> QED
    BY <1>0, <2>1, <2>2 DEF VenueSafe, VenueTypes
<1>2. ASSUME NEW o \in Ids, NEW r \in Requests, NEW t \in 0 .. MaxTime, Submit(o, r, t) PROVE VenueSafe'
  <2>1. PICK s, report : /\ SubmitSound(o, r, report) /\ RecordedSound(r, report, s)
                         /\ book \in Books
                         /\ states' = [states EXCEPT ![o] = s]
                         /\ executed' = [executed EXCEPT ![o] = @ + report.quantity]
                         /\ book' = book /\ QueueInv'
    BY <1>2, SubmitStep
  <2>2. s \in {NoState} \cup VenueOrderState /\ report.quantity \in Nat
    BY <2>1 DEF SubmitSound, RecordedSound
  <2>3. states' \in [Ids -> {NoState} \cup VenueOrderState] /\ executed' \in [Ids -> Nat]
    BY <1>0, <2>1, <2>2
  <2>4. book' \in Books /\ book' # NoBook
    BY <2>1, BookFacts
  <2> QED
    BY <2>1, <2>3, <2>4 DEF VenueSafe, VenueTypes
<1>3. ASSUME NEW b \in Books, Advance(b) PROVE VenueSafe'
  <2>1. PICK rs, done : AdvanceSound(b, rs, done)
    BY <1>3, AdvanceStep
  <2>2. rs \in Seq(FillReport) /\ OneEach(rs)
    BY <2>1 DEF AdvanceSound, ReportsSound, OneEach
  <2>3. \A o \in Ids : Filled(rs, {i \in DOMAIN rs : rs[i].id = o}) \in Nat
    BY <2>2, FilledOfOne
  <2>4. \A o \in Ids : executed[o] + Filled(rs, {i \in DOMAIN rs : rs[i].id = o}) \in Nat
    BY <1>0, <2>3
  <2>5. executed' \in [Ids -> Nat]
    BY <2>1, <2>4 DEF AdvanceSound
  <2>6. book' \in Books /\ book' # NoBook /\ states' \in [Ids -> {NoState} \cup VenueOrderState] /\ QueueInv'
    BY <2>1 DEF AdvanceSound
  <2> QED
    BY <2>5, <2>6 DEF VenueSafe, VenueTypes
<1>4. ASSUME NEW o \in Ids, Cancel(o) PROVE VenueSafe'
  <2>1. CancelSound(o)
    BY <1>4, CancelStep
  <2>2. [states[o] EXCEPT !.status = "cancelled"] \in VenueOrderState
    BY <2>1, EndedVenue DEF CancelSound, TERMINAL_STATUSES
  <2>3. states' = [states EXCEPT ![o] = [states[o] EXCEPT !.status = "cancelled"]]
    BY <2>1 DEF CancelSound
  <2>4. states' \in [Ids -> {NoState} \cup VenueOrderState]
    BY <1>0, <2>2, <2>3
  <2>5. book # NoBook
    BY <1>0, <2>1, VenueConstants DEF CancelSound
  <2>6. book' = book /\ executed' = executed /\ QueueInv'
    BY <2>1 DEF CancelSound
  <2> QED
    BY <1>0, <2>4, <2>5, <2>6 DEF VenueSafe, VenueTypes
<1>5. ASSUME NEW t, ExpireDue(t) PROVE VenueSafe'
  <2>1. PICK due : ExpireSound(due)
    BY <1>5, ExpireStep
  <2>2. \A o \in due : [states[o] EXCEPT !.status = "expired"] \in VenueOrderState
    BY <2>1, EndedVenue DEF ExpireSound, TERMINAL_STATUSES
  <2>3. states' \in [Ids -> {NoState} \cup VenueOrderState]
    BY <1>0, <2>1, <2>2 DEF ExpireSound
  <2>4. book # NoBook
    BY <1>0, <2>1, VenueConstants DEF ExpireSound
  <2>5. book' = book /\ executed' = executed /\ QueueInv'
    BY <2>1 DEF ExpireSound
  <2> QED
    BY <1>0, <2>3, <2>4, <2>5 DEF VenueSafe, VenueTypes
<1>6. CASE UNCHANGED vars
  BY <1>0, <1>6 DEF vars, VenueSafe, VenueTypes, QueueInv, QueueTypes, QueuedOnce
<1> QED
  BY <1>1, <1>2, <1>3, <1>4, <1>5, <1>6 DEF Next

LEMMA VenueSafety == Spec => []VenueSafe
  BY VenueStarts, VenueKept, PTL DEF Spec
-----------------------------------------------------------------------------
(* What an advance may do.                                                 *)

\* Only advance fills an order the venue knows.
LEMMA OnlyAdvanceFills ==
  ASSUME VenueSafe, [Next]_vars, executed' # executed, Known' = Known
  PROVE  \E b \in Books : Advance(b)
<1>0. executed \in [Ids -> Nat] /\ states \in [Ids -> {NoState} \cup VenueOrderState]
  BY DEF VenueSafe, VenueTypes
<1>1. ASSUME NEW o \in Ids, NEW r \in Requests, NEW t \in 0 .. MaxTime, Submit(o, r, t) PROVE FALSE
  <2>1. PICK s, report : /\ SubmitSound(o, r, report) /\ RecordedSound(r, report, s)
                         /\ o \notin Known
                         /\ states' = [states EXCEPT ![o] = s]
                         /\ executed' = [executed EXCEPT ![o] = @ + report.quantity]
    BY <1>1, SubmitStep
  <2>2. states'[o] = s
    BY <1>0, <2>1
  <2>3. s = NoState
    BY <2>1, <2>2 DEF Known
  <2>4. report.quantity = 0
    BY <2>1, <2>3 DEF RecordedSound
  <2>5. executed' = executed
    BY <1>0, <2>1, <2>4
  <2> QED
    BY <2>5
<1>2. ASSUME NEW o, Cancel(o) PROVE FALSE
  BY <1>2 DEF Cancel
<1>3. ASSUME NEW t, ExpireDue(t) PROVE FALSE
  BY <1>3 DEF ExpireDue
<1>4. ASSUME NEW b, SetBook(b) PROVE FALSE
  BY <1>4 DEF SetBook, venueVars
<1>5. ~ UNCHANGED vars
  BY DEF vars
<1> QED
  BY <1>1, <1>2, <1>3, <1>4, <1>5 DEF Next

\* What an advance reports of an order is about the one place it has in line.
LEMMA ReportedPlace ==
  ASSUME VenueSafe, NEW b \in OrderBook, NEW rs, ReportsSound(b, rs), NEW i \in 1 .. Len(rs),
         NEW side \in Sides, NEW n \in 1 .. Len(Line(side)), rs[i].id = Line(side)[n].id
  PROVE  TellsOf(side, n, b, rs[i])
<1>1. PICK s \in Sides : \E m \in 1 .. Len(Line(s)) : TellsOf(s, m, b, rs[i])
  BY DEF ReportsSound
<1>2. PICK m \in 1 .. Len(Line(s)) : TellsOf(s, m, b, rs[i])
  BY <1>1
<1>3. rs[i].id = Line(s)[m].id
  BY <1>2 DEF TellsOf, Tells
<1>4. QueueInv /\ Line(s)[m].id = Line(side)[n].id
  BY <1>3 DEF VenueSafe
<1>5. s = side /\ m = n
  BY <1>4, LinesApart
<1> QED
  BY <1>2, <1>5

LEMMA FillsInPriority ==
  ASSUME VenueSafe, NEW b \in Books, Advance(b), NEW i \in DOMAIN reports', NEW side \in Sides,
         NEW n \in DOMAIN InPriority(side), NEW m \in 1 .. n - 1,
         reports'[i].id = InPriority(side)[n].id
  PROVE  InPriority(side)[m].id \notin QueuedIds'
<1>1. PICK rs, done : AdvanceSound(b, rs, done)
  BY AdvanceStep
<1>2. b \in OrderBook /\ ReportsSound(b, rs) /\ queue' = AdvanceQueue(b) /\ QueueInv
  BY <1>1 DEF AdvanceSound, VenueSafe
<1>3. reports' = rs /\ i \in 1 .. Len(rs)
  <2>1. reports' = rs \/ reports' = <<>>
    BY <1>1 DEF AdvanceSound
  <2>2. rs \in Seq(FillReport)
    BY <1>2 DEF ReportsSound
  <2> QED
    BY <2>1, <2>2
<1>4. PICK line, left : line = Line(side) /\ left = Left(side, b)
  OBVIOUS
<1>5. /\ n \in 1 .. Len(line) /\ m \in 1 .. Len(line) /\ m < n /\ Len(line) \in Nat
      /\ line = InPriority(side)
  <2>1. DOMAIN line = 1 .. Len(line) /\ Len(line) \in Nat
    BY <1>2, <1>4, SideTypes
  <2> QED
    BY <1>4, <2>1 DEF Line
<1>6. TellsOf(side, n, b, rs[i])
  BY <1>2, <1>3, <1>4, <1>5, ReportedPlace
<1>7. /\ line[n].remaining \in Nat /\ left[n].remaining \in Nat /\ left[m].remaining \in Nat
  <2>1. line[n] \in _RestingOrder /\ left[n] \in Leftover /\ left[m] \in Leftover
    BY <1>2, <1>4, <1>5, SideTypes
  <2> QED
    BY <2>1, VenueConstants DEF Leftover, _RestingOrder
<1>8. left[n].remaining < line[n].remaining
  <2>1. rs[i].quantity = line[n].remaining - left[n].remaining /\ rs[i].quantity > 0
    BY <1>4, <1>6 DEF TellsOf, Tells
  <2> QED
    BY <1>7, <2>1
<1>9. SweptInTurn(side, line, Len(line), AdvanceSide(side, b)) /\ left = AdvanceSide(side, b).left
  BY <1>2, <1>4, SideIsSound DEF SideSound, Swept, Line, Left
<1>10. left[m].remaining = 0
  BY <1>5, <1>8, <1>9 DEF SweptInTurn
<1>11. ASSUME NEW x \in Queued', x.id = line[m].id PROVE FALSE
  <2>1. PICK s \in Sides : \E l \in 1 .. Len(Line(s)) :
           x = Left(s, b)[l] /\ x.id = Line(s)[l].id /\ x.remaining > 0
    BY <1>2, <1>11, StillQueued
  <2>2. PICK l \in 1 .. Len(Line(s)) :
           x = Left(s, b)[l] /\ x.id = Line(s)[l].id /\ x.remaining > 0
    BY <2>1
  <2>3. s = side /\ l = m
    <3>1. Line(s)[l].id = Line(side)[m].id /\ m \in 1 .. Len(Line(side)) /\ QueueInv
      BY <1>2, <1>4, <1>5, <1>11, <2>2
    <3> QED
      BY <3>1, LinesApart
  <2> QED
    BY <1>4, <1>7, <1>10, <2>2, <2>3
<1> QED
  BY <1>5, <1>11 DEF QueuedIds

\* What advance fills on a side is what left the new book's ladder there.
LEMMA FillsFromDepth ==
  ASSUME VenueSafe, NEW b \in Books, Advance(b), NEW side \in Sides
  PROVE  LET fills == {i \in DOMAIN reports' : reports'[i].side = side}
         IN  /\ Filled(reports', fills) <= Depth(_ladder(b, side), Prices)
             /\ \A i \in fills, x \in ToSet(InPriority(side)) :
                  reports'[i].id = x.id =>
                      IF side = "buy"
                      THEN reports'[i].notional <= x.limit * reports'[i].quantity
                      ELSE reports'[i].notional >= x.limit * reports'[i].quantity
<1>1. PICK rs, done : AdvanceSound(b, rs, done)
  BY AdvanceStep
<1>2. b \in OrderBook /\ ReportsSound(b, rs) /\ QueueInv /\ rs \in Seq(FillReport)
  BY <1>1 DEF AdvanceSound, VenueSafe, ReportsSound
<1>3. PICK acc, ladder, total : /\ acc = AdvanceSide(side, b) /\ ladder = _ladder(b, side)
                                /\ total = Filled(acc.reports, 1 .. Len(acc.reports))
  OBVIOUS
<1>4. SweptDepth(ladder, acc) /\ acc.ladder \in Ladder
  BY <1>2, <1>3, SideIsSound DEF SideSound, Swept, SweptTypes, Acc
<1>5. total \in Nat /\ SumOver(ladder, Prices) = SumOver(acc.ladder, Prices) + total
  BY <1>3, <1>4 DEF SweptDepth
<1>6. SumOver(acc.ladder, Prices) \in Nat
  <2>1. IsFiniteSet(Prices) /\ \A p \in Prices : acc.ladder[p] \in Nat
    BY <1>4, PriceFacts DEF Ladder
  <2> QED
    BY <2>1, SumNat
<1>7. total <= Depth(ladder, Prices) /\ 0 <= Depth(ladder, Prices)
  BY <1>5, <1>6 DEF Depth
<1>8. CASE reports' = rs
  <2>1. Filled(rs, {i \in DOMAIN rs : rs[i].side = side}) = total
    BY <1>2, <1>3 DEF ReportsSound, Told
  <2>2. ASSUME NEW i \in DOMAIN rs, NEW x \in ToSet(InPriority(side)), rs[i].id = x.id
        PROVE  IF side = "buy" THEN rs[i].notional <= x.limit * rs[i].quantity
                               ELSE rs[i].notional >= x.limit * rs[i].quantity
    <3>1. DOMAIN Line(side) = 1 .. Len(Line(side)) /\ i \in 1 .. Len(rs)
      BY <1>2, SideTypes
    <3>2. PICK n \in 1 .. Len(Line(side)) : x = Line(side)[n]
      BY <2>2, <3>1 DEF ToSet, Line
    <3>3. TellsOf(side, n, b, rs[i])
      BY <1>2, <2>2, <3>1, <3>2, ReportedPlace
    <3> QED
      BY <3>2, <3>3, Zenon DEF TellsOf, Tells, Sides
  <2> QED
    BY <1>3, <1>7, <1>8, <2>1, <2>2
<1>9. CASE reports' = <<>>
  <2>1. {i \in DOMAIN reports' : reports'[i].side = side} = {}
    BY <1>9
  <2>2. Filled(reports', {}) = 0
    BY SumNone DEF Filled
  <2> QED
    BY <1>3, <1>7, <2>1, <2>2
<1> QED
  BY <1>1, <1>8, <1>9 DEF AdvanceSound

\* Price-time priority of advance, for any books, orders and prices: an order
\* fills only when every order ahead of it on its side has been filled
\* completely (paper_fill_engine.py advance).
THEOREM PriceTime == Spec => PriceTimePriority
<1>1. VenueSafe /\ [Next]_vars =>
        [AdvanceFills => \A i \in DOMAIN reports', side \in Sides :
           LET line == InPriority(side)
           IN \A n \in DOMAIN line : \A m \in 1 .. n - 1 :
                reports'[i].id = line[n].id => line[m].id \notin QueuedIds']_vars
  <2> SUFFICES ASSUME VenueSafe, [Next]_vars, AdvanceFills,
                      NEW i \in DOMAIN reports', NEW side \in Sides,
                      NEW n \in DOMAIN InPriority(side), NEW m \in 1 .. n - 1,
                      reports'[i].id = InPriority(side)[n].id
               PROVE  InPriority(side)[m].id \notin QueuedIds'
    OBVIOUS
  <2>1. PICK b \in Books : Advance(b)
    BY OnlyAdvanceFills DEF AdvanceFills
  <2> QED
    BY <2>1, FillsInPriority
<1> QED
  BY <1>1, VenueSafety, PTL DEF Spec, PriceTimePriority

\* advance never fills more than the new book shows, whatever number of orders
\* compete for it, and never beyond an order's limit (paper_fill_engine.py
\* advance and _sweep).
THEOREM DepthKept == Spec => DepthConserved
<1>1. VenueSafe /\ [Next]_vars =>
        [AdvanceFills => \A side \in Sides :
           LET fills == {i \in DOMAIN reports' : reports'[i].side = side}
           IN  /\ Filled(reports', fills) <= Depth(_ladder(book', side), Prices)
               /\ \A i \in fills, x \in ToSet(InPriority(side)) :
                    reports'[i].id = x.id =>
                        IF side = "buy"
                        THEN reports'[i].notional <= x.limit * reports'[i].quantity
                        ELSE reports'[i].notional >= x.limit * reports'[i].quantity]_vars
  <2> SUFFICES ASSUME VenueSafe, [Next]_vars, AdvanceFills, NEW side \in Sides
               PROVE  LET fills == {i \in DOMAIN reports' : reports'[i].side = side}
                      IN  /\ Filled(reports', fills) <= Depth(_ladder(book', side), Prices)
                          /\ \A i \in fills, x \in ToSet(InPriority(side)) :
                               reports'[i].id = x.id =>
                                   IF side = "buy"
                                   THEN reports'[i].notional <= x.limit * reports'[i].quantity
                                   ELSE reports'[i].notional >= x.limit * reports'[i].quantity
    OBVIOUS
  <2>1. PICK b \in Books : Advance(b)
    BY OnlyAdvanceFills DEF AdvanceFills
  <2>2. book' = b
    BY <2>1 DEF Advance
  <2> QED
    BY <2>1, <2>2, FillsFromDepth, Zenon
<1> QED
  BY <1>1, VenueSafety, PTL DEF Spec, DepthConserved
-----------------------------------------------------------------------------
(* The life of one order.                                                  *)

\* How the record of an order may change in one call.
AcceptMove(s, t) ==
    /\ s = NoState /\ t \in VenueOrderState
    /\ \/ t.status \in {"rejected", "new"} /\ t.filled = 0
       \/ t.status = "filled" /\ t.filled = t.quantity
       \/ t.status = "partially_filled" /\ t.filled > 0 /\ t.filled < t.quantity

FillMove(s, t) ==
    \E report \in FillReport :
        s \in VenueOrderState /\ Fillable(s, report.quantity) /\ t = Booked(s, report)

EndMove(s, t) ==
    /\ s \in VenueOrderState /\ resting(s)
    /\ \E status \in {"cancelled", "expired"} : t = [s EXCEPT !.status = status]

Moves(s, t) == t = s \/ AcceptMove(s, t) \/ FillMove(s, t) \/ EndMove(s, t)

LEMMA StatesMove ==
  ASSUME VenueSafe, [Next]_vars, NEW o \in Ids
  PROVE  Moves(states[o], states'[o])
<1>0. states \in [Ids -> {NoState} \cup VenueOrderState]
  BY DEF VenueSafe, VenueTypes
<1>1. ASSUME NEW p \in Ids, NEW r \in Requests, NEW t \in 0 .. MaxTime, Submit(p, r, t)
      PROVE  Moves(states[o], states'[o])
  <2>1. PICK s, report : /\ RecordedSound(r, report, s) /\ states[p] = NoState
                         /\ states' = [states EXCEPT ![p] = s]
    BY <1>1, SubmitStep
  <2>2. CASE o # p
    BY <1>0, <2>1, <2>2 DEF Moves
  <2>3. CASE o = p /\ s = NoState
    BY <1>0, <2>1, <2>3 DEF Moves
  <2>4. CASE o = p /\ s # NoState
    <3>1. states'[o] = s /\ states[o] = NoState
      BY <1>0, <2>1, <2>4
    <3>2. AcceptMove(NoState, s)
      BY <2>1, <2>4 DEF RecordedSound, AcceptMove
    <3> QED
      BY <3>1, <3>2 DEF Moves
  <2> QED
    BY <2>2, <2>3, <2>4
<1>2. ASSUME NEW b \in Books, Advance(b) PROVE Moves(states[o], states'[o])
  <2>1. PICK rs, done : AdvanceSound(b, rs, done)
    BY <1>2, AdvanceStep
  <2>2. \/ states'[o] = states[o]
        \/ \E i \in 1 .. Len(done) :
              /\ done[i] \in FillReport
              /\ states[o] \in VenueOrderState /\ Fillable(states[o], done[i].quantity)
              /\ states'[o] = Booked(states[o], done[i])
    BY <2>1 DEF AdvanceSound
  <2> QED
    BY <2>2 DEF Moves, FillMove
<1>3. ASSUME NEW p \in Ids, Cancel(p) PROVE Moves(states[o], states'[o])
  <2>1. CancelSound(p)
    BY <1>3, CancelStep
  <2>2. states'[o] = IF o = p THEN [states[o] EXCEPT !.status = "cancelled"] ELSE states[o]
    BY <1>0, <2>1 DEF CancelSound
  <2> QED
    BY <2>1, <2>2 DEF CancelSound, Moves, EndMove
<1>4. ASSUME NEW t, ExpireDue(t) PROVE Moves(states[o], states'[o])
  <2>1. PICK due : ExpireSound(due)
    BY <1>4, ExpireStep
  <2>2. states'[o] = IF o \in due THEN [states[o] EXCEPT !.status = "expired"] ELSE states[o]
    BY <2>1 DEF ExpireSound
  <2> QED
    BY <2>1, <2>2 DEF ExpireSound, Moves, EndMove
<1>5. ASSUME NEW b, SetBook(b) PROVE Moves(states[o], states'[o])
  BY <1>5 DEF SetBook, Moves, venueVars
<1>6. CASE UNCHANGED vars
  BY <1>6 DEF vars, Moves
<1> QED
  BY <1>1, <1>2, <1>3, <1>4, <1>5, <1>6 DEF Next

\* What the lifecycle sees of a record.
View(s) == [status |-> s.status, quantity |-> s.quantity, filled |-> s.filled]

LEMMA ViewType ==
  /\ View(NoState) = Lifecycle!NoOrder
  /\ \A s \in VenueOrderState : View(s) \in Lifecycle!VenueOrder
<1>1. View(NoState) = Lifecycle!NoOrder
  BY DEF View, NoState, Lifecycle!NoOrder
<1>2. ASSUME NEW s \in VenueOrderState PROVE View(s) \in Lifecycle!VenueOrder
  BY DEF View, VenueOrderState, Lifecycle!VenueOrder, Lifecycle!LiveStatuses,
         Lifecycle!TERMINAL_STATUSES, TERMINAL_STATUSES
<1> QED
  BY <1>1, <1>2

LEMMA FillIsTransition ==
  ASSUME NEW v \in Lifecycle!VenueOrder, v.status \in {"new", "partially_filled"},
         NEW n \in Nat, n > 0, n <= v.quantity - v.filled, NEW w,
         w = [status |-> IF v.filled + n = v.quantity THEN "filled" ELSE "partially_filled",
              quantity |-> v.quantity, filled |-> v.filled + n]
  PROVE  Lifecycle!with_fill(v, w)
<1>1. PICK q, f : q = v.quantity /\ f = v.filled
  OBVIOUS
<1>2. q \in Nat /\ f \in Nat /\ v = [status |-> v.status, quantity |-> q, filled |-> f]
  BY <1>1, VenueConstants DEF Lifecycle!VenueOrder
<1>3. n \in 1 .. q - f /\ (n = q - f <=> f + n = q)
  BY <1>1, <1>2
<1>4. ~ Lifecycle!terminal(v)
  BY DEF Lifecycle!terminal, Lifecycle!TERMINAL_STATUSES
<1>5. Lifecycle!remaining_quantity(v) = q - f
  BY <1>1 DEF Lifecycle!remaining_quantity
<1>6. PICK t : t = IF n = q - f THEN "filled" ELSE "partially_filled"
  OBVIOUS
<1>7. w = [status |-> t, quantity |-> q, filled |-> f + n]
  BY <1>1, <1>3, <1>6
<1>8. w = [v EXCEPT !.filled = @ + n, !.status = t]
  <2>1. PICK a, g : a = v.status /\ g = f + n
    OBVIOUS
  <2>2. v = [status |-> a, quantity |-> q, filled |-> f]
    BY <1>2, <2>1
  <2>3. PICK u : u = [v EXCEPT !.filled = g]
    OBVIOUS
  <2>4. u = [status |-> a, quantity |-> q, filled |-> g]
    BY <2>2, <2>3
  <2>5. w = [u EXCEPT !.status = t]
    BY <1>7, <2>1, <2>4
  <2> QED
    BY <1>1, <2>1, <2>3, <2>5
<1> QED
  BY <1>3, <1>4, <1>5, <1>6, <1>8 DEF Lifecycle!with_fill

LEMMA MoveIsTransition ==
  ASSUME NEW s \in {NoState} \cup VenueOrderState, NEW t \in {NoState} \cup VenueOrderState,
         Moves(s, t)
  PROVE  View(t) = View(s) \/ Lifecycle!Transition(View(s), View(t))
<1>1. CASE t = s
  BY <1>1
<1>2. CASE AcceptMove(s, t)
  <2>1. t \in VenueOrderState /\ View(s) = Lifecycle!NoOrder /\ View(t) \in Lifecycle!VenueOrder
    BY <1>2, ViewType DEF AcceptMove
  <2>2. PICK q, f : q = t.quantity /\ f = t.filled
    OBVIOUS
  <2>3. q \in 1 .. MaxQty /\ q \in Nat /\ f \in Nat /\ View(t) = [status |-> t.status, quantity |-> q, filled |-> f]
    BY <2>1, <2>2, VenueConstants DEF VenueOrderState, View
  <2>4. PICK fresh : fresh = [status |-> "new", quantity |-> q, filled |-> 0]
    OBVIOUS
  <2>5. fresh \in Lifecycle!VenueOrder
    BY <2>3, <2>4, VenueConstants DEF Lifecycle!VenueOrder, Lifecycle!LiveStatuses
  <2>6. CASE t.status = "new" /\ f = 0
    BY <2>1, <2>3, <2>6 DEF Lifecycle!Transition, Lifecycle!Accept
  <2>7. CASE t.status = "rejected" /\ f = 0
    <3>1. View(t) = [fresh EXCEPT !.status = "rejected"]
      BY <2>3, <2>4, <2>7
    <3> QED
      BY <2>1, <2>3, <2>4, <3>1 DEF Lifecycle!Transition
  <2>8. CASE t.status \in {"filled", "partially_filled"} /\ f > 0 /\ f <= q
             /\ t.status = IF f = q THEN "filled" ELSE "partially_filled"
    <3>1. Lifecycle!with_fill(fresh, View(t))
      <4>1. /\ fresh.status \in {"new", "partially_filled"} /\ f <= fresh.quantity - fresh.filled
            /\ View(t) = [status |-> IF fresh.filled + f = fresh.quantity THEN "filled" ELSE "partially_filled",
                          quantity |-> fresh.quantity, filled |-> fresh.filled + f]
        BY <2>3, <2>4, <2>8
      <4> QED
        BY <2>3, <2>5, <2>8, <4>1, FillIsTransition
    <3> QED
      BY <2>1, <2>3, <2>4, <3>1 DEF Lifecycle!Transition
  <2> QED
    BY <1>2, <2>2, <2>3, <2>6, <2>7, <2>8 DEF AcceptMove
<1>3. CASE FillMove(s, t)
  <2>1. PICK report \in FillReport :
           s \in VenueOrderState /\ Fillable(s, report.quantity) /\ t = Booked(s, report)
    BY <1>3 DEF FillMove
  <2>2. PICK n : n = report.quantity
    OBVIOUS
  <2>3. n \in Nat /\ n > 0 /\ n <= s.quantity - s.filled /\ s.status \notin TERMINAL_STATUSES
    BY <2>1, <2>2 DEF FillReport, Fillable
  <2>4. s.status \in {"new", "partially_filled"} /\ s \in Record
    BY <2>1, <2>3, VenueConstants DEF VenueOrderState
  <2>5. /\ t.status \in {"filled", "partially_filled"}
        /\ t.status = "filled" <=> s.filled + n = s.quantity
        /\ t.filled = s.filled + n /\ t.quantity = s.quantity
    BY <2>1, <2>2, <2>4, BookedType
  <2>6. PICK v, w : v = View(s) /\ w = View(t)
    OBVIOUS
  <2>7. /\ v \in Lifecycle!VenueOrder /\ v.status = s.status /\ v.quantity = s.quantity /\ v.filled = s.filled
    BY <2>1, <2>6, ViewType DEF View
  <2>8. w = [status |-> IF v.filled + n = v.quantity THEN "filled" ELSE "partially_filled",
             quantity |-> v.quantity, filled |-> v.filled + n]
    BY <2>5, <2>6, <2>7 DEF View
  <2>9. Lifecycle!with_fill(v, w)
    BY <2>3, <2>4, <2>7, <2>8, FillIsTransition
  <2> QED
    BY <2>6, <2>9 DEF Lifecycle!Transition
<1>4. CASE EndMove(s, t)
  <2>1. PICK status \in {"cancelled", "expired"} : t = [s EXCEPT !.status = status]
    BY <1>4 DEF EndMove
  <2>2. s \in VenueOrderState /\ s.status \in {"new", "partially_filled"} /\ s.filled < s.quantity
    BY <1>4 DEF EndMove, resting
  <2>3. PICK v, w : v = View(s) /\ w = View(t)
    OBVIOUS
  <2>4. v \in Lifecycle!VenueOrder /\ v.status = s.status /\ v.quantity = s.quantity /\ v.filled = s.filled
    BY <2>2, <2>3, ViewType DEF View
  <2>5. w = [v EXCEPT !.status = status]
    BY <2>1, <2>2, <2>3 DEF View, VenueOrderState
  <2>6. ~ Lifecycle!terminal(v)
    BY <2>2, <2>4 DEF Lifecycle!terminal, Lifecycle!TERMINAL_STATUSES
  <2>7. v.quantity \in Nat /\ v.filled \in Nat /\ v.filled < v.quantity
    BY <2>2, <2>4, VenueConstants DEF VenueOrderState
  <2>8. Lifecycle!resting(v)
    BY <2>2, <2>4, <2>7 DEF Lifecycle!resting, Lifecycle!LiveStatuses, Lifecycle!remaining_quantity
  <2> QED
    BY <2>3, <2>4, <2>5, <2>6, <2>8 DEF Lifecycle!Transition, Lifecycle!replace_terminal
<1> QED
  BY <1>1, <1>2, <1>3, <1>4 DEF Moves

\* Every order of the venue lives as order_lifecycle.py allows, a step of its
\* own or none in every call, and its deadline never moves.
THEOREM OrdersLive == Spec => OrderLife
<1>1. Init => Lifecycle!Init
  <2> SUFFICES ASSUME Init PROVE Lifecycle!Init
    OBVIOUS
  <2>1. \A o \in Ids : View(states[o]) = Lifecycle!NoOrder
    BY ViewType DEF Init
  <2> QED
    BY <2>1 DEF Lifecycle!Init, View
<1>2. VenueSafe /\ VenueSafe' /\ [Next]_vars =>
        [Lifecycle!Next]_[o \in Ids |-> [status |-> states[o].status,
                                         quantity |-> states[o].quantity,
                                         filled |-> states[o].filled]]
  <2> SUFFICES ASSUME VenueSafe, VenueSafe', [Next]_vars PROVE Lifecycle!Next
    OBVIOUS
  <2>1. \A o \in Ids : /\ states[o] \in {NoState} \cup VenueOrderState
                       /\ states'[o] \in {NoState} \cup VenueOrderState
    BY DEF VenueSafe, VenueTypes
  <2>2. \A o \in Ids : View(states'[o]) \in {Lifecycle!NoOrder} \cup Lifecycle!VenueOrder
    BY <2>1, ViewType
  <2>3. \A o \in Ids : \/ View(states'[o]) = View(states[o])
                       \/ Lifecycle!Transition(View(states[o]), View(states'[o]))
    BY <2>1, StatesMove, MoveIsTransition
  <2> QED
    BY <2>2, <2>3 DEF Lifecycle!Next, View
<1>3. VenueSafe /\ [Next]_vars =>
        [\A o \in Ids : states[o].expires # NoTime => states'[o].expires = states[o].expires]_vars
  <2> SUFFICES ASSUME VenueSafe, [Next]_vars, NEW o \in Ids, states[o].expires # NoTime
               PROVE  states'[o].expires = states[o].expires
    OBVIOUS
  <2>1. PICK s, t : s = states[o] /\ t = states'[o]
    OBVIOUS
  <2>2. s # NoState /\ s \in {NoState} \cup VenueOrderState
    BY <2>1 DEF NoState, VenueSafe, VenueTypes
  <2>3. t = s \/ FillMove(s, t) \/ EndMove(s, t)
    BY <2>1, <2>2, StatesMove DEF Moves, AcceptMove
  <2>4. FillMove(s, t) => t.expires = s.expires
    BY <2>1, BookedVenue DEF FillMove
  <2>5. EndMove(s, t) => t.expires = s.expires
    BY DEF EndMove, VenueOrderState
  <2> QED
    BY <2>1, <2>3, <2>4, <2>5
<1> QED
  BY <1>1, <1>2, <1>3, VenueSafety, PTL
     DEF Spec, OrderLife, LifecycleSpec, DeadlineFixed, Lifecycle!Spec
-----------------------------------------------------------------------------
(* The two records of an order agree while no order is unrecorded.         *)

VenueInv == VenueSafe /\ QueueAgrees /\ EveryFillRecorded

\* An order that stands in a line is queued.
LEMMA LineIsQueued ==
  ASSUME VenueSafe, NEW b \in OrderBook, NEW side \in Sides, NEW n \in 1 .. Len(Line(side))
  PROVE  Line(side)[n] \in Queued /\ Line(side)[n].id \in Ids
<1>1. QueueInv
  BY DEF VenueSafe
<1>2. SideSound(side, b)
  BY <1>1, SideIsSound
<1>3. PICK p \in Prices : \E i \in DOMAIN queue[<<side, p>>] : Line(side)[n] = queue[<<side, p>>][i]
  BY <1>2 DEF SideSound, Line
<1>4. Line(side)[n] \in Queued
  BY <1>1, <1>3, QueuedFacts
<1>5. Line(side)[n] \in _RestingOrder
  BY <1>1, <1>4, QueuedFacts
<1> QED
  BY <1>4, <1>5 DEF _RestingOrder

\* While the records agree, every report of an advance can be recorded.
LEMMA AllRecordable ==
  ASSUME VenueInv, NEW b \in OrderBook, NEW rs, ReportsSound(b, rs), NEW i \in 1 .. Len(rs)
  PROVE  Recordable(rs[i])
<1>1. PICK side \in Sides : \E n \in 1 .. Len(Line(side)) : TellsOf(side, n, b, rs[i])
  BY DEF ReportsSound
<1>2. PICK n \in 1 .. Len(Line(side)) : TellsOf(side, n, b, rs[i])
  BY <1>1
<1>3. QueueInv /\ VenueSafe
  BY DEF VenueInv, VenueSafe
<1>4. PICK x, y : x = Line(side)[n] /\ y = Left(side, b)[n]
  OBVIOUS
<1>5. x \in _RestingOrder /\ y \in Leftover /\ x \in Queued
  BY <1>3, <1>4, SideTypes, LineIsQueued
<1>6. x.remaining \in Nat /\ y.remaining \in Nat
  BY <1>5, VenueConstants DEF Leftover, _RestingOrder
<1>7. /\ rs[i].id = x.id /\ rs[i].quantity = x.remaining - y.remaining /\ rs[i].quantity > 0
  BY <1>2, <1>4 DEF TellsOf, Tells
<1>8. x.id \in Known /\ resting(states[x.id]) /\ x.remaining = states[x.id].quantity - states[x.id].filled
  BY <1>5 DEF VenueInv, QueueAgrees
<1>9. states[x.id].status \notin TERMINAL_STATUSES
  BY <1>8 DEF resting, TERMINAL_STATUSES
<1>10. rs[i].quantity <= states[x.id].quantity - states[x.id].filled
  <2>1. PICK q : q = states[x.id].quantity - states[x.id].filled
    OBVIOUS
  <2>2. rs[i].quantity = q - y.remaining /\ q \in Nat
    BY <1>6, <1>7, <1>8, <2>1
  <2>3. rs[i].quantity <= q
    BY <1>6, <2>2
  <2> QED
    BY <2>1, <2>3
<1> QED
  BY <1>7, <1>8, <1>9, <1>10 DEF Recordable, Fillable

\* What an advance leaves of an order is what its record still asks for.
LEMMA AdvanceAgrees ==
  ASSUME VenueInv, NEW b \in OrderBook, NEW rs, AdvanceSound(b, rs, rs), NEW x \in Queued'
  PROVE  /\ x.id \in Known' /\ resting(states'[x.id])
         /\ x.remaining = states'[x.id].quantity - states'[x.id].filled
<1>1. /\ QueueInv /\ VenueSafe /\ queue' = AdvanceQueue(b) /\ ReportsSound(b, rs)
      /\ states \in [Ids -> {NoState} \cup VenueOrderState]
  BY DEF VenueInv, VenueSafe, VenueTypes, AdvanceSound
<1>2. PICK side \in Sides : \E n \in 1 .. Len(Line(side)) :
         x = Left(side, b)[n] /\ x.id = Line(side)[n].id /\ x.remaining > 0
  BY <1>1, StillQueued
<1>3. PICK n \in 1 .. Len(Line(side)) :
         x = Left(side, b)[n] /\ x.id = Line(side)[n].id /\ x.remaining > 0
  BY <1>2
<1>4. PICK y, o : y = Line(side)[n] /\ o = x.id
  OBVIOUS
<1>5. /\ y \in _RestingOrder /\ x \in Leftover /\ y \in Queued /\ o \in Ids /\ y.id = o
      /\ x.remaining <= y.remaining
  BY <1>1, <1>3, <1>4, SideTypes, LineIsQueued
<1>6. PICK s : s = states[o]
  OBVIOUS
<1>7. o \in Known /\ resting(s) /\ y.remaining = s.quantity - s.filled
  BY <1>5, <1>6 DEF VenueInv, QueueAgrees
<1>8. s \in VenueOrderState /\ s.quantity \in Nat /\ s.filled \in Nat
  BY <1>1, <1>6, <1>7, VenueConstants DEF Known, VenueOrderState
<1>9. x.remaining \in Nat /\ y.remaining \in Nat
  BY <1>5, VenueConstants DEF Leftover, _RestingOrder
<1>10. CASE states'[o] = s /\ \A i \in 1 .. Len(rs) : rs[i].id # o
  <2>1. ~(x.remaining < y.remaining)
    BY <1>1, <1>3, <1>4, <1>5, <1>10 DEF ReportsSound
  <2>2. x.remaining = y.remaining
    BY <1>5, <1>9, <2>1
  <2> QED
    BY <1>4, <1>5, <1>6, <1>7, <1>10, <2>2 DEF Known
<1>11. ASSUME NEW i \in 1 .. Len(rs), rs[i].id = o, rs[i] \in FillReport, states'[o] = Booked(s, rs[i])
       PROVE  o \in Known' /\ resting(states'[o]) /\ x.remaining = states'[o].quantity - states'[o].filled
  <2>1. TellsOf(side, n, b, rs[i])
    BY <1>1, <1>4, <1>5, <1>11, ReportedPlace
  <2>2. PICK q, t : q = rs[i].quantity /\ t = states'[o]
    OBVIOUS
  <2>3. q = y.remaining - x.remaining
    BY <1>3, <1>4, <2>1, <2>2 DEF TellsOf, Tells
  <2>4. /\ t.status \in {"filled", "partially_filled"} /\ (t.status = "filled" <=> s.filled + q = s.quantity)
        /\ t.filled = s.filled + q /\ t.quantity = s.quantity
    BY <1>8, <1>11, <2>2, BookedType, VenueConstants
  <2>5. t.quantity - t.filled = x.remaining /\ s.filled + q # s.quantity /\ t.filled < t.quantity
    BY <1>3, <1>7, <1>8, <1>9, <2>3, <2>4
  <2>6. t.status = "partially_filled" /\ t # NoState
    BY <2>4, <2>5 DEF NoState
  <2> QED
    BY <1>5, <2>2, <2>5, <2>6 DEF Known, resting
<1>12. \/ states'[o] = s /\ \A i \in 1 .. Len(rs) : rs[i].id # o
       \/ \E i \in 1 .. Len(rs) : rs[i].id = o /\ rs[i] \in FillReport /\ states'[o] = Booked(s, rs[i])
  BY <1>5, <1>6 DEF AdvanceSound
<1> QED
  BY <1>4, <1>10, <1>11, <1>12

\* An advance records exactly what it fills.
LEMMA AdvanceRecords ==
  ASSUME VenueInv, NEW b \in OrderBook, NEW rs, AdvanceSound(b, rs, rs), NEW o \in Ids
  PROVE  states'[o].filled = executed'[o] /\ executed'[o] <= states'[o].quantity
<1>1. /\ ReportsSound(b, rs) /\ executed \in [Ids -> Nat]
      /\ executed' = [p \in Ids |-> executed[p] + Filled(rs, {i \in DOMAIN rs : rs[i].id = p})]
  BY DEF VenueInv, VenueSafe, VenueTypes, AdvanceSound
<1>2. rs \in Seq(FillReport) /\ OneEach(rs)
  BY <1>1 DEF ReportsSound, OneEach
<1>3. PICK s, e, n : s = states[o] /\ e = executed[o] /\ n = Filled(rs, {i \in DOMAIN rs : rs[i].id = o})
  OBVIOUS
<1>4. executed'[o] = e + n /\ e \in Nat /\ s.filled = e /\ e <= s.quantity
  BY <1>1, <1>3 DEF VenueInv, EveryFillRecorded
<1>5. CASE states'[o] = s /\ \A i \in 1 .. Len(rs) : rs[i].id # o
  <2>1. n = 0
    BY <1>2, <1>3, <1>5, FilledOfOne
  <2> QED
    BY <1>4, <1>5, <2>1
<1>6. ASSUME NEW i \in 1 .. Len(rs), rs[i].id = o, rs[i] \in FillReport, s \in VenueOrderState,
             Fillable(s, rs[i].quantity), states'[o] = Booked(s, rs[i])
      PROVE  states'[o].filled = executed'[o] /\ executed'[o] <= states'[o].quantity
  <2>1. n = rs[i].quantity
    BY <1>2, <1>3, <1>6, FilledOfOne
  <2>2. states'[o].filled = s.filled + rs[i].quantity /\ states'[o].quantity = s.quantity
    BY <1>6, BookedType, VenueConstants
  <2>3. states'[o].filled <= s.quantity
    BY <1>6, BookedVenue
  <2> QED
    BY <1>4, <2>1, <2>2, <2>3
<1>7. \/ states'[o] = s /\ \A i \in 1 .. Len(rs) : rs[i].id # o
      \/ \E i \in 1 .. Len(rs) :
            /\ rs[i].id = o /\ rs[i] \in FillReport /\ s \in VenueOrderState
            /\ Fillable(s, rs[i].quantity) /\ states'[o] = Booked(s, rs[i])
  BY <1>3 DEF AdvanceSound
<1> QED
  BY <1>5, <1>6, <1>7

\* The records stay in step on every call that leaves no order unrecorded.
LEMMA RecordsKept ==
  ASSUME VenueInv, [Next]_vars, unrecorded' = {}
  PROVE  VenueInv'
<1>0. /\ states \in [Ids -> {NoState} \cup VenueOrderState] /\ executed \in [Ids -> Nat]
      /\ VenueSafe /\ QueueInv /\ VenueSafe'
      /\ \A x \in Queued : /\ x.id \in Known /\ resting(states[x.id])
                           /\ x.remaining = states[x.id].quantity - states[x.id].filled
      /\ \A o \in Ids : states[o].filled = executed[o] /\ executed[o] <= states[o].quantity
  BY VenueKept DEF VenueInv, VenueSafe, VenueTypes, QueueAgrees, EveryFillRecorded
<1>1. ASSUME NEW b, SetBook(b) PROVE VenueInv'
  <2>1. Queued' = Queued /\ states' = states /\ executed' = executed /\ Known' = Known
    BY <1>1 DEF SetBook, set_book, Queued, Known, venueVars
  <2> QED
    BY <1>0, <2>1 DEF VenueInv, QueueAgrees, EveryFillRecorded
<1>2. ASSUME NEW o \in Ids, NEW r \in Requests, NEW t \in 0 .. MaxTime, Submit(o, r, t) PROVE VenueInv'
  <2>1. PICK s, report : /\ SubmitSound(o, r, report) /\ RecordedSound(r, report, s)
                         /\ o \notin Known /\ o \notin QueuedIds /\ states[o] = NoState
                         /\ states' = [states EXCEPT ![o] = s]
                         /\ executed' = [executed EXCEPT ![o] = @ + report.quantity]
                         /\ unrecorded' = IF s = NoState /\ Rests(r) THEN unrecorded \cup {o} ELSE unrecorded
                         /\ \A x \in Queued' : \/ x \in Queued
                                               \/ /\ Rests(r) /\ x.id = o
                                                  /\ x.remaining = r.quantity - report.quantity
    BY <1>0, <1>2, SubmitStep
  <2>2. /\ states'[o] = s /\ executed'[o] = executed[o] + report.quantity
        /\ \A p \in Ids : p # o => states'[p] = states[p] /\ executed'[p] = executed[p]
    BY <1>0, <2>1
  <2>3. /\ r.quantity \in Nat /\ r.quantity > 0 /\ report.quantity \in Nat /\ report.quantity <= r.quantity
    BY <2>1, RequestFacts DEF SubmitSound
  <2>4. executed[o] = 0 /\ NoState.filled = 0 /\ NoState.quantity = 0
    BY <1>0, <2>1 DEF NoState
  <2>5. ASSUME NEW x \in Queued'
        PROVE  /\ x.id \in Known' /\ resting(states'[x.id])
               /\ x.remaining = states'[x.id].quantity - states'[x.id].filled
    <3>1. CASE x \in Queued
      <4>1. x.id \in Known /\ x.id \in QueuedIds
        BY <1>0, <3>1 DEF QueuedIds
      <4>2. states'[x.id] = states[x.id] /\ x.id \in Known'
        BY <2>1, <2>2, <4>1 DEF Known
      <4> QED
        BY <1>0, <3>1, <4>2
    <3>2. CASE Rests(r) /\ x.id = o /\ x.remaining = r.quantity - report.quantity
      <4>1. r.type = "limit" /\ report.status \in {"new", "partially_filled"}
        BY <2>1, <3>2 DEF SubmitSound
      <4>2. report.status = "partially_filled" => report.quantity < r.quantity
        BY <2>1, <4>1 DEF SubmitSound
      <4>3. s # NoState
        BY <2>1, <3>2
      <4>4. s.quantity = r.quantity /\ s.filled = report.quantity /\ s.status = report.status
        BY <2>1, <4>1, <4>3 DEF RecordedSound
      <4>5. report.status = "new" => report.quantity = 0
        BY <2>1 DEF SubmitSound
      <4>6. s.filled < s.quantity
        BY <2>3, <4>1, <4>2, <4>4, <4>5
      <4> QED
        BY <2>2, <3>2, <4>1, <4>3, <4>4, <4>6 DEF Known, resting
    <3> QED
      BY <2>1, <3>1, <3>2
  <2>6. ASSUME NEW p \in Ids PROVE states'[p].filled = executed'[p] /\ executed'[p] <= states'[p].quantity
    <3>1. CASE p # o
      BY <1>0, <2>2, <3>1
    <3>2. CASE p = o /\ s = NoState
      <4>1. report.quantity = 0
        BY <2>1, <3>2 DEF RecordedSound
      <4> QED
        BY <2>2, <2>4, <3>2, <4>1
    <3>3. CASE p = o /\ s # NoState
      <4>1. s.quantity = r.quantity /\ s.filled = report.quantity
        BY <2>1, <3>3 DEF RecordedSound
      <4> QED
        BY <2>2, <2>3, <2>4, <3>3, <4>1
    <3> QED
      BY <3>1, <3>2, <3>3
  <2> QED
    BY <1>0, <2>5, <2>6 DEF VenueInv, QueueAgrees, EveryFillRecorded
<1>3. ASSUME NEW b \in Books, Advance(b) PROVE VenueInv'
  <2>1. PICK rs, done : AdvanceSound(b, rs, done)
    BY <1>0, <1>3, AdvanceStep
  <2>2. b \in OrderBook /\ ReportsSound(b, rs)
    BY <2>1 DEF AdvanceSound
  <2>3. \A i \in 1 .. Len(rs) : Recordable(rs[i])
    BY <2>2, AllRecordable
  <2>4. AdvanceSound(b, rs, rs)
    <3>1. done = rs
      BY <2>1, <2>3 DEF AdvanceSound
    <3> QED
      BY <2>1, <3>1
  <2>5. \A x \in Queued' : /\ x.id \in Known' /\ resting(states'[x.id])
                           /\ x.remaining = states'[x.id].quantity - states'[x.id].filled
    BY <2>2, <2>4, AdvanceAgrees
  <2>6. \A o \in Ids : states'[o].filled = executed'[o] /\ executed'[o] <= states'[o].quantity
    BY <2>2, <2>4, AdvanceRecords
  <2> QED
    BY <1>0, <2>5, <2>6 DEF VenueInv, QueueAgrees, EveryFillRecorded
<1>4. ASSUME NEW gone \in SUBSET Ids, executed' = executed,
             \A o \in Ids \ gone : states'[o] = states[o],
             \A o \in gone : states'[o].filled = states[o].filled /\ states'[o].quantity = states[o].quantity,
             Queued' \in SUBSET {x \in Queued : x.id \notin gone}
      PROVE  VenueInv'
  <2>1. ASSUME NEW x \in Queued'
        PROVE  /\ x.id \in Known' /\ resting(states'[x.id])
               /\ x.remaining = states'[x.id].quantity - states'[x.id].filled
    <3>1. x \in Queued /\ x.id \in Known /\ x.id \notin gone
      BY <1>0, <1>4, <2>1
    <3>2. states'[x.id] = states[x.id] /\ x.id \in Known'
      BY <1>4, <3>1 DEF Known
    <3> QED
      BY <1>0, <3>1, <3>2
  <2>2. \A o \in Ids : states'[o].filled = states[o].filled /\ states'[o].quantity = states[o].quantity
    BY <1>4
  <2> QED
    BY <1>0, <1>4, <2>1, <2>2 DEF VenueInv, QueueAgrees, EveryFillRecorded
<1>5. ASSUME NEW o \in Ids, Cancel(o) PROVE VenueInv'
  <2>1. CancelSound(o)
    BY <1>0, <1>5, CancelStep
  <2>2. states' = [states EXCEPT ![o] = [states[o] EXCEPT !.status = "cancelled"]]
    BY <2>1 DEF CancelSound
  <2>3. /\ states'[o] = [states[o] EXCEPT !.status = "cancelled"]
        /\ \A p \in Ids \ {o} : states'[p] = states[p]
    BY <1>0, <2>2
  <2>4. states'[o].filled = states[o].filled /\ states'[o].quantity = states[o].quantity
    BY <2>1, <2>3, EndedVenue DEF CancelSound, TERMINAL_STATUSES
  <2>5. {o} \in SUBSET Ids /\ \A p \in {o} : p = o
    OBVIOUS
  <2> QED
    BY <1>4, <2>1, <2>3, <2>4, <2>5 DEF CancelSound
<1>6. ASSUME NEW t, ExpireDue(t) PROVE VenueInv'
  <2>1. PICK due : ExpireSound(due)
    BY <1>0, <1>6, ExpireStep
  <2>2. /\ \A o \in due : states'[o] = [states[o] EXCEPT !.status = "expired"] /\ states[o] \in VenueOrderState
        /\ \A o \in Ids \ due : states'[o] = states[o]
        /\ due \in SUBSET Ids
    BY <2>1 DEF ExpireSound
  <2>3. \A o \in due : states'[o].filled = states[o].filled /\ states'[o].quantity = states[o].quantity
    <3> SUFFICES ASSUME NEW o \in due
                 PROVE  states'[o].filled = states[o].filled /\ states'[o].quantity = states[o].quantity
      OBVIOUS
    <3>1. states[o] \in VenueOrderState /\ "expired" \in TERMINAL_STATUSES
      BY <2>2 DEF TERMINAL_STATUSES
    <3>2. states'[o] = [states[o] EXCEPT !.status = "expired"]
      BY <2>2
    <3> QED
      BY <3>1, <3>2, EndedVenue
  <2> QED
    BY <1>4, <2>1, <2>2, <2>3 DEF ExpireSound
<1>7. CASE UNCHANGED vars
  <2>1. Queued' = Queued /\ states' = states /\ executed' = executed /\ Known' = Known
    BY <1>7 DEF vars, Queued, Known
  <2> QED
    BY <1>0, <2>1 DEF VenueInv, QueueAgrees, EveryFillRecorded
<1> QED
  BY <1>1, <1>2, <1>3, <1>5, <1>6, <1>7 DEF Next

LEMMA RecordsStart == Init => VenueInv
<1> SUFFICES ASSUME Init PROVE VenueInv
  OBVIOUS
<1>1. \A k \in DOMAIN queue : queue[k] = <<>>
  BY DEF Init, EngineInit
<1>2. Queued = {}
  BY <1>1 DEF Queued, ToSet
<1>3. \A o \in Ids : states[o] = NoState /\ executed[o] = 0
  BY DEF Init
<1> QED
  BY <1>2, <1>3, VenueStarts DEF VenueInv, QueueAgrees, EveryFillRecorded, NoState

\* No call takes an order off the list of the unrecorded, and only a submit at
\* an empty touch puts one on it.
LEMMA PartsOnce ==
  ASSUME VenueSafe, [Next]_vars
  PROVE  /\ unrecorded \in SUBSET unrecorded'
         /\ unrecorded' # unrecorded => ~TouchShown
<1>1. ASSUME NEW b, SetBook(b) PROVE unrecorded' = unrecorded
  BY <1>1 DEF SetBook, venueVars
<1>2. ASSUME NEW o \in Ids, NEW r \in Requests, NEW t \in 0 .. MaxTime, Submit(o, r, t)
      PROVE  /\ unrecorded \in SUBSET unrecorded'
             /\ unrecorded' # unrecorded => ~TouchShown
  <2>1. PICK s, report : /\ SubmitSound(o, r, report) /\ RecordedSound(r, report, s)
                         /\ unrecorded' = IF s = NoState /\ Rests(r) THEN unrecorded \cup {o} ELSE unrecorded
    BY <1>2, SubmitStep
  <2>2. ASSUME s = NoState, Rests(r), TouchShown PROVE FALSE
    <3>1. report.status = "partially_filled" /\ report.quantity = 0
      BY <2>1, <2>2 DEF RecordedSound
    <3>2. r.type = "limit"
      BY <2>1, <2>2 DEF SubmitSound
    <3> QED
      BY <2>1, <2>2, <3>1, <3>2 DEF SubmitSound
  <2> QED
    BY <2>1, <2>2
<1>3. ASSUME NEW b, Advance(b) PROVE unrecorded' = unrecorded
  BY <1>3, Zenon DEF Advance
<1>4. ASSUME NEW o, Cancel(o) PROVE unrecorded' = unrecorded
  BY <1>4 DEF Cancel
<1>5. ASSUME NEW t, ExpireDue(t) PROVE unrecorded' = unrecorded
  BY <1>5, Zenon DEF ExpireDue
<1>6. CASE UNCHANGED vars
  BY <1>6 DEF vars
<1> QED
  BY <1>1, <1>2, <1>3, <1>4, <1>5, <1>6 DEF Next

InStep == VenueSafe /\ (unrecorded = {} => VenueInv)

LEMMA RecordsSafety == Spec => []InStep
<1>1. Init => InStep
  BY RecordsStart DEF VenueInv, InStep
<1>2. ASSUME InStep, [Next]_vars PROVE InStep'
  <2>1. VenueSafe /\ VenueSafe'
    BY <1>2, VenueKept DEF InStep
  <2>2. ASSUME unrecorded' = {} PROVE VenueInv'
    <3>1. unrecorded \in SUBSET unrecorded'
      BY <1>2, <2>1, PartsOnce
    <3>2. VenueInv
      BY <1>2, <2>2, <3>1 DEF InStep
    <3> QED
      BY <1>2, <2>2, <3>2, RecordsKept
  <2> QED
    BY <2>1, <2>2 DEF InStep
<1> QED
  BY <1>1, <1>2, PTL DEF Spec

\* Engine and venue agree on every order, whatever the interleaving of submits,
\* advances, cancels and expiries (sandbox_venue.py submit, advance, cancel and
\* expire_due each update both), over any books, until a limit meets a book
\* with an empty touch: nothing else parts the two records.
THEOREM VenueAgrees == Spec => RecordsAgree
<1>1. InStep => Agreement
  BY DEF InStep, VenueInv, VenueSafe, QueueInv, Agreement
<1>2. InStep' => Agreement'
  BY DEF InStep, VenueInv, VenueSafe, QueueInv, Agreement
<1>3. VenueSafe /\ InStep' /\ [Next]_vars =>
        [Agreement' /\ (unrecorded' # unrecorded => ~TouchShown)]_vars
  BY <1>2, PartsOnce
<1> QED
  BY <1>1, <1>3, RecordsSafety, VenueSafety, PTL DEF Spec, RecordsAgree

\* Every call leaves a book set, or none was ever set.
LEMMA BookStays ==
  ASSUME VenueSafe, [Next]_vars, ~ UNCHANGED vars
  PROVE  book' \in Books
<1>0. /\ book \in Books \cup {NoBook} /\ states \in [Ids -> {NoState} \cup VenueOrderState]
      /\ book = NoBook => states = [o \in Ids |-> NoState]
  BY DEF VenueSafe, VenueTypes
<1>1. ASSUME NEW b \in Books, SetBook(b) PROVE book' \in Books
  BY <1>1 DEF SetBook, set_book
<1>2. ASSUME NEW o, NEW r, NEW t, Submit(o, r, t) PROVE book' \in Books
  BY <1>0, <1>2, Zenon DEF Submit
<1>3. ASSUME NEW b \in Books, Advance(b) PROVE book' \in Books
  BY <1>3, Zenon DEF Advance
<1>4. ASSUME NEW o \in Ids, Cancel(o) PROVE book' \in Books
  <2>1. CancelSound(o)
    BY <1>4, CancelStep
  <2> QED
    BY <1>0, <2>1, VenueConstants DEF CancelSound
<1>5. ASSUME NEW t, ExpireDue(t) PROVE book' \in Books
  <2>1. PICK due : ExpireSound(due)
    BY <1>5, ExpireStep
  <2> QED
    BY <1>0, <2>1, VenueConstants DEF ExpireSound
<1> QED
  BY <1>1, <1>2, <1>3, <1>4, <1>5 DEF Next

LEMMA NothingLeft ==
  ASSUME VenueSafe, NEW b \in Books, Advance(b), NEW rs, rs = AdvanceReports(b),
         NEW k \in Sides \X Prices, queue'[k] # <<>>
  PROVE  Filled(rs, {i \in DOMAIN rs : rs[i].side = k[1]})
           >= Depth(_ladder(b, k[1]), {p \in Prices : Within(k[1], p, k[2])})
<1>1. VenueSafe
  OBVIOUS
<1>2. PICK done : AdvanceSound(b, rs, done)
  BY <1>1, AdvanceStep
<1>3. /\ b \in OrderBook /\ ReportsSound(b, rs) /\ QueueInv /\ queue' = AdvanceQueue(b)
  BY <1>1, <1>2 DEF AdvanceSound, VenueSafe
<1>5. PICK side, acc, ladder, total :
         /\ side = k[1] /\ acc = AdvanceSide(side, b) /\ ladder = _ladder(b, side)
         /\ total = Filled(acc.reports, 1 .. Len(acc.reports))
  OBVIOUS
<1>6. side \in Sides /\ k[2] \in Prices
  BY <1>5
<1>7. /\ SweptDepth(ladder, acc) /\ acc.ladder \in Ladder
      /\ SweptInTurn(side, Line(side), Len(Line(side)), acc)
  BY <1>3, <1>5, <1>6, SideIsSound DEF SideSound, Swept, SweptTypes, Acc, Line
<1>8. Filled(rs, {i \in DOMAIN rs : rs[i].side = side}) = total
  BY <1>3, <1>5, <1>6 DEF ReportsSound, Told
<1>9. \E i \in 1 .. Len(Line(side)) :
         Left(side, b)[i].limit = k[2] /\ Left(side, b)[i].remaining > 0
  <2>1. queue'[k] = AdvanceQueue(b)[k] /\ AdvanceQueue(b)[k] \in Seq(_RestingOrder)
    BY <1>3, LeftQueued
  <2>2. 1 \in DOMAIN AdvanceQueue(b)[k]
    BY <2>1
  <2> QED
    BY <1>3, <1>5, <2>2, LeftQueued
<1>10. PICK i \in 1 .. Len(Line(side)) :
          Left(side, b)[i].limit = k[2] /\ Left(side, b)[i].remaining > 0
  BY <1>9
<1>11. Line(side)[i].limit = k[2]
  BY <1>3, <1>6, <1>10, SideTypes
<1>12. PICK S : S = {p \in Prices : Within(side, p, k[2])}
  OBVIOUS
<1>13. \A p \in S : acc.ladder[p] = 0
  BY <1>5, <1>7, <1>10, <1>11, <1>12 DEF SweptInTurn, Left
<1>14. S \in SUBSET Prices /\ IsFiniteSet(S)
  BY <1>12, PriceFacts, FS_Subset
<1>15. SumOver(acc.ladder, S) = 0
  BY <1>13, <1>14, SumZero
<1>16. total \in Nat /\ SumOver(ladder, S) <= SumOver(acc.ladder, S) + total
  BY <1>5, <1>7, <1>14 DEF SweptDepth
<1>17. SumOver(ladder, S) \in Int
  <2>1. ladder \in Ladder
    BY <1>5, <1>6, BookFacts
  <2>2. \A p \in S : ladder[p] \in Int
    BY <1>14, <2>1 DEF Ladder
  <2> QED
    BY <1>14, <2>2, SumType
<1>18. total >= SumOver(ladder, S)
  BY <1>15, <1>16, <1>17
<1> QED
  BY <1>5, <1>8, <1>12, <1>18 DEF Depth

\* advance leaves no order waiting beside liquidity it may take
\* (paper_fill_engine.py advance), whatever the books, those without size at
\* the touch among them.
THEOREM DepthUsed == Spec => AdvanceExhausts
<1>1. VenueSafe /\ [Next]_vars =>
        [Advance(book') =>
           LET fills == AdvanceReports(book')
           IN \A k \in DOMAIN queue' : queue'[k] # <<>> =>
                Filled(fills, {i \in DOMAIN fills : fills[i].side = k[1]})
                  >= Depth(_ladder(book', k[1]), {p \in Prices : Within(k[1], p, k[2])})]_vars
  <2> SUFFICES ASSUME VenueSafe, [Next]_vars, ~ UNCHANGED vars, Advance(book'),
                      NEW fills, fills = AdvanceReports(book'),
                      NEW k \in DOMAIN queue', queue'[k] # <<>>
               PROVE  Filled(fills, {i \in DOMAIN fills : fills[i].side = k[1]})
                        >= Depth(_ladder(book', k[1]), {p \in Prices : Within(k[1], p, k[2])})
    OBVIOUS
  <2>1. VenueSafe /\ book' \in Books /\ QueueInv'
    BY BookStays, VenueKept DEF VenueSafe
  <2>2. PICK b \in Books : b = book'
    BY <2>1
  <2>3. Advance(b) /\ fills = AdvanceReports(b)
    BY <2>2
  <2>4. k \in Sides \X Prices
    BY <2>1 DEF QueueInv, QueueTypes
  <2> QED
    BY <2>2, <2>3, <2>4, NothingLeft
<1> QED
  BY <1>1, VenueSafety, PTL DEF Spec, AdvanceExhausts
=============================================================================
