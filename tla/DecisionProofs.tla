--------------------------- MODULE DecisionProofs ---------------------------
(***************************************************************************)
(* Proofs about what decides and what it is trusted with: the chain of     *)
(* model providers (OmegaFallback), the proposals of the reasoners         *)
(* (Proposals), what is remembered of their trades (Learning), paper       *)
(* campaigns (PaperCampaign), the capital that follows them (CapitalRamp), *)
(* the passports of strategies (StrategyLadder), and the evidence for      *)
(* them: frozen datasets (ResearchData), labels and splits (Validation),   *)
(* experiments and the research loop (ExperimentRegistry).                 *)
(***************************************************************************)
EXTENDS OmegaFallback, Proposals, Learning, PaperCampaign, CapitalRamp, StrategyLadder,
        ResearchData, Validation, ExperimentRegistry, InductionLemmas, SequenceTheorems, FiniteSetTheorems, TLAPS

-----------------------------------------------------------------------------
(***************************************************************************)
(* OmegaFallback: the chain gives up for no lesser reason than that every  *)
(* provider is out.                                                        *)
(*                                                                         *)
(* The request for a provider's next key and the index of its pool move    *)
(* together: a worker that has made so many attempts has used so many      *)
(* different keys, and those that follow are new to it until all are used. *)
(* Every provider of a decision without a winner waits, is skipped behind  *)
(* its circuit, or is at work; at the end none waits and none is at work.  *)
(***************************************************************************)

-----------------------------------------------------------------------------
(* The chain and the pools of keys.                                        *)

NoRepeat(q) == \A i, j \in 1 .. Len(q) : q[i] = q[j] => i = j

LEMMA PickedSequence ==
  ASSUME NEW s, NEW n \in Nat, NEW S \in SUBSET (1 .. n), NEW T, \A i \in S : s[i] \in T,
         \A i, j \in S : s[i] = s[j] => i = j
  PROVE  /\ Picked(s, S) \in Seq(T) /\ NoRepeat(Picked(s, S))
         /\ \A x : x \in Range(Picked(s, S)) <=> \E i \in S : x = s[i]
<1> DEFINE c == Cardinality(S)
           q == Picked(s, S)
<1>1. /\ c \in Nat /\ DOMAIN q = 1 .. c
      /\ \A k \in 1 .. c : \E i \in S : q[k] = s[i]
      /\ \A i \in S : \E k \in 1 .. c : q[k] = s[i]
      /\ \A k, l \in 1 .. c : q[k] = q[l] => k = l
  BY PickedFacts, ZenonT(60)
<1>2. q = [k \in 1 .. c |-> q[k]]
  BY DEF Picked
<1> HIDE DEF c, q
<1>3. q \in [1 .. c -> T]
  BY <1>1, <1>2
<1>4. q \in Seq(T) /\ Len(q) = c
  BY <1>1, <1>3, SeqDef, LenProperties
<1>5. \A x : x \in Range(q) <=> \E i \in S : x = s[i]
  <2>1. Range(q) = {q[k] : k \in 1 .. c}
    BY <1>1 DEF Range
  <2>2. ASSUME NEW k \in 1 .. c PROVE \E i \in S : q[k] = s[i]
    BY <1>1
  <2>3. ASSUME NEW i \in S PROVE s[i] \in Range(q)
    <3>1. PICK k \in 1 .. c : q[k] = s[i]
      BY <1>1
    <3> QED
      BY <2>1, <3>1
  <2>4. ASSUME NEW x, x \in Range(q) PROVE \E i \in S : x = s[i]
    <3>1. PICK k \in 1 .. c : x = q[k]
      BY <2>1, <2>4
    <3> QED
      BY <2>2, <3>1
  <2>5. ASSUME NEW x, NEW i \in S, x = s[i] PROVE x \in Range(q)
    BY <2>3, <2>5
  <2> QED
    BY <2>4, <2>5
<1> QED
  BY <1>1, <1>4, <1>5 DEF NoRepeat, q

LEMMA PickedOnce ==
  ASSUME NEW T, NEW s \in Seq(T), NEW S \in SUBSET (1 .. Len(s)),
         \A i, j \in S : s[i] = s[j] => i = j
  PROVE  /\ Picked(s, S) \in Seq(T) /\ NoRepeat(Picked(s, S))
         /\ \A x : x \in Range(Picked(s, S)) <=> \E i \in S : x = s[i]
<1>1. PICK n \in Nat : n = Len(s)
  OBVIOUS
<1>2. S \in SUBSET (1 .. n) /\ \A i \in S : s[i] \in T
  BY <1>1
<1>3. \A i, j \in S : s[i] = s[j] => i = j
  OBVIOUS
<1> QED
  BY <1>2, <1>3, PickedSequence

LEMMA FirstsOnce ==
  ASSUME NEW T, NEW s \in Seq(T)
  PROVE  /\ Len(s) \in Nat /\ Firsts(s) \subseteq 1 .. Len(s) /\ \A i \in Firsts(s) : s[i] \in T
         /\ \A i, j \in Firsts(s) : s[i] = s[j] => i = j
<1>1. Len(s) \in Nat /\ DOMAIN s = 1 .. Len(s) /\ \A i \in 1 .. Len(s) : s[i] \in T
  OBVIOUS
<1>2. ASSUME NEW i \in Firsts(s), NEW j \in Firsts(s), s[i] = s[j] PROVE i = j
  <2>1. i \in Int /\ j \in Int /\ 1 <= i /\ 1 <= j
    BY <1>1 DEF Firsts
  <2>2. ~(i < j) /\ ~(j < i)
    BY <1>2, <2>1 DEF Firsts
  <2> QED
    BY <2>1, <2>2
<1> QED
  BY <1>1, <1>2 DEF Firsts

LEMMA PoolFacts ==
  ASSUME NEW p \in Range(priority)
  PROVE  Len(Pool(p)) \in Nat /\ NoRepeat(Pool(p))
<1> DEFINE all == EnvKeys[p] \o FileKeys[p]
           names == Range(EnvKeys[p]) \cup Range(FileKeys[p])
<1>1. all \in Seq(names)
  <2>1. PICK e, f : e = EnvKeys[p] /\ f = FileKeys[p] /\ e \in Seq(Range(e)) /\ f \in Seq(Range(f))
    BY FallbackAssumption
  <2>2. names = Range(e) \cup Range(f) /\ all = e \o f
    BY <2>1
  <2> HIDE DEF names, all
  <2>3. e \in Seq(names) /\ f \in Seq(names)
    <3>1. Range(e) \subseteq names /\ Range(f) \subseteq names
      BY <2>2
    <3>2. \A i \in 1 .. Len(e) : e[i] \in names
      BY <2>1, <3>1
    <3>3. \A i \in 1 .. Len(f) : f[i] \in names
      BY <2>1, <3>1
    <3>4. e \in [1 .. Len(e) -> names] /\ f \in [1 .. Len(f) -> names] /\ Len(e) \in Nat /\ Len(f) \in Nat
      BY <2>1, <3>2, <3>3
    <3> QED
      BY <3>4, SeqDef
  <2> QED
    BY <2>2, <2>3, ConcatProperties
<1>2. Pool(p) = Picked(all, Firsts(all))
  BY DEF Pool
<1> HIDE DEF all, names
<1>3. /\ Len(all) \in Nat /\ Firsts(all) \subseteq 1 .. Len(all)
      /\ \A i, j \in Firsts(all) : all[i] = all[j] => i = j
  BY <1>1, FirstsOnce
<1>4. Pool(p) \in Seq(names) /\ NoRepeat(Pool(p))
  BY <1>1, <1>2, <1>3, PickedOnce
<1> QED
  BY <1>4

LEMMA ChainFacts ==
  Chain \in Seq(Specs) /\ NoRepeat(Chain) /\ "none" \notin Specs
<1> DEFINE able == {i \in Firsts(priority) : Pool(priority[i]) # << >> \/ priority[i] \in Keyless}
           names == Range(priority)
<1>0. priority \in Seq(names) /\ "none" \notin names
  BY FallbackAssumption
<1> HIDE DEF names
<1>1. /\ Len(priority) \in Nat /\ Firsts(priority) \subseteq 1 .. Len(priority)
      /\ \A i, j \in Firsts(priority) : priority[i] = priority[j] => i = j
  BY <1>0, FirstsOnce
<1>2. \E S : Chain \in Seq(S) /\ NoRepeat(Chain) /\ "none" \notin S
  <2>1. CASE able = {}
    <3>1. Chain = <<"ovh">>
      BY <2>1 DEF Chain
    <3>2. <<"ovh">> \in Seq({"ovh"}) /\ Len(<<"ovh">>) = 1 /\ "none" \notin {"ovh"}
      OBVIOUS
    <3>3. NoRepeat(Chain)
      BY <3>1, <3>2 DEF NoRepeat
    <3> QED
      BY <3>1, <3>2, <3>3
  <2>2. CASE able # {}
    <3>1. Chain = Picked(priority, able)
      BY <2>2 DEF Chain
    <3>2. able \subseteq 1 .. Len(priority) /\ \A i, j \in able : priority[i] = priority[j] => i = j
      BY <1>1
    <3> HIDE DEF able
    <3>3. Chain \in Seq(names) /\ NoRepeat(Chain)
      BY <1>0, <3>1, <3>2, PickedOnce
    <3> QED
      BY <1>0, <3>3
  <2> QED
    BY <2>1, <2>2
<1>3. PICK S : Chain \in Seq(S) /\ NoRepeat(Chain) /\ "none" \notin S
  BY <1>2
<1>4. \A i \in 1 .. Len(Chain) : Chain[i] \in Specs /\ Chain[i] \in S
  BY <1>3 DEF Specs, Range
<1>5. Chain \in Seq(Specs)
  <2>1. Chain \in [1 .. Len(Chain) -> Specs] /\ Len(Chain) \in Nat
    BY <1>3, <1>4
  <2> QED
    BY <2>1, SeqDef
<1>6. "none" \notin Specs
  BY <1>3, <1>4 DEF Specs, Range
<1> QED
  BY <1>3, <1>5, <1>6

LEMMA KeyFacts ==
  ASSUME NEW p \in Specs
  PROVE  /\ Keys[p] \in Nat
         /\ Keys[p] # 0 => \A i, j \in 1 .. Keys[p] : Pool(p)[i] = Pool(p)[j] => i = j
<1>1. CASE p \in Range(priority)
  <2>1. Keys[p] = Len(Pool(p))
    BY <1>1 DEF Keys
  <2> QED
    BY <1>1, <2>1, PoolFacts DEF NoRepeat
<1>2. CASE p \notin Range(priority)
  BY <1>2 DEF Keys
<1> QED
  BY <1>1, <1>2

LEMMA RankedFacts ==
  /\ Ready \in Seq(Specs) /\ NoRepeat(Ready) /\ Range(Ready) = {p \in Specs : ~Open(p)}
  /\ Ranked \in Seq(Specs) /\ NoRepeat(Ranked) /\ Range(Ranked) = Specs
<1> DEFINE shut == {i \in DOMAIN Chain : ~Open(Chain[i])}
           open == {i \in DOMAIN Chain : Open(Chain[i])}
           late == Picked(Chain, open)
<1>1. /\ Len(Chain) \in Nat /\ DOMAIN Chain = 1 .. Len(Chain)
      /\ \A i \in 1 .. Len(Chain) : Chain[i] \in Specs
      /\ \A i, j \in 1 .. Len(Chain) : Chain[i] = Chain[j] => i = j
      /\ \A p \in Specs : \E i \in 1 .. Len(Chain) : Chain[i] = p
  BY ChainFacts DEF NoRepeat, Specs, Range
<1>2. Ready \in Seq(Specs) /\ NoRepeat(Ready) /\ \A p : p \in Range(Ready) <=> \E i \in shut : p = Chain[i]
  <2>1. shut \subseteq 1 .. Len(Chain)
    BY <1>1
  <2>2. Ready = Picked(Chain, shut)
    BY DEF Ready
  <2> HIDE DEF shut
  <2> QED
    BY <1>1, <2>1, <2>2, ChainFacts, PickedOnce
<1>3. late \in Seq(Specs) /\ NoRepeat(late) /\ \A p : p \in Range(late) <=> \E i \in open : p = Chain[i]
  <2>1. open \subseteq 1 .. Len(Chain)
    BY <1>1
  <2> HIDE DEF open
  <2> QED
    BY <1>1, <2>1, ChainFacts, PickedOnce
<1>4. Range(Ready) = {p \in Specs : ~Open(p)} /\ Range(late) = {p \in Specs : Open(p)}
  <2>1. /\ \A p : p \in Range(Ready) <=> \E i \in shut : p = Chain[i]
        /\ \A p : p \in Range(late) <=> \E i \in open : p = Chain[i]
    BY <1>2, <1>3
  <2>2. ASSUME NEW p \in Specs, ~Open(p) PROVE \E i \in shut : p = Chain[i]
    BY <1>1, <2>2
  <2>3. ASSUME NEW p \in Specs, Open(p) PROVE \E i \in open : p = Chain[i]
    BY <1>1, <2>3
  <2>4. \A i \in shut : Chain[i] \in Specs /\ ~Open(Chain[i])
    BY <1>1
  <2>5. \A i \in open : Chain[i] \in Specs /\ Open(Chain[i])
    BY <1>1
  <2> HIDE DEF shut, open, late
  <2> QED
    BY <2>1, <2>2, <2>3, <2>4, <2>5
<1>5. Ranked = Ready \o late
  BY DEF Ranked
<1> HIDE DEF shut, open, late
<1>6. PICK m \in Nat, n \in Nat : m = Len(Ready) /\ n = Len(late)
  BY <1>2, <1>3
<1>7. /\ Ranked \in Seq(Specs) /\ Len(Ranked) = m + n
      /\ \A i \in 1 .. m + n : Ranked[i] = IF i <= m THEN Ready[i] ELSE late[i - m]
  BY <1>2, <1>3, <1>5, <1>6, ConcatProperties
<1>8. /\ \A i \in 1 .. m : Ready[i] \in Specs /\ ~Open(Ready[i])
      /\ \A i \in 1 .. n : late[i] \in Specs /\ Open(late[i])
  BY <1>2, <1>3, <1>4, <1>6 DEF Range
<1>9. NoRepeat(Ranked)
  <2> SUFFICES ASSUME NEW i \in 1 .. m + n, NEW j \in 1 .. m + n, Ranked[i] = Ranked[j] PROVE i = j
    BY <1>7 DEF NoRepeat
  <2>1. CASE i <= m /\ j <= m
    BY <1>2, <1>6, <1>7, <2>1 DEF NoRepeat
  <2>2. CASE i > m /\ j > m
    <3>1. i - m \in 1 .. n /\ j - m \in 1 .. n /\ late[i - m] = late[j - m]
      BY <1>7, <2>2
    <3>2. i - m = j - m
      BY <1>3, <1>6, <3>1 DEF NoRepeat
    <3> QED
      BY <3>2
  <2>3. CASE i <= m /\ j > m
    <3>1. i \in 1 .. m /\ j - m \in 1 .. n /\ Ranked[i] = Ready[i] /\ Ranked[j] = late[j - m]
      BY <1>7, <2>3
    <3> QED
      BY <1>8, <3>1
  <2>4. CASE i > m /\ j <= m
    <3>1. j \in 1 .. m /\ i - m \in 1 .. n /\ Ranked[j] = Ready[j] /\ Ranked[i] = late[i - m]
      BY <1>7, <2>4
    <3> QED
      BY <1>8, <3>1
  <2> QED
    BY <2>1, <2>2, <2>3, <2>4
<1>10. Range(Ranked) = Specs
  <2>1. \A i \in 1 .. m + n : Ranked[i] \in Specs
    BY <1>7
  <2>2. ASSUME NEW p \in Specs PROVE \E i \in 1 .. m + n : Ranked[i] = p
    <3>1. CASE ~Open(p)
      <4>1. PICK i \in 1 .. m : Ready[i] = p
        BY <1>2, <1>4, <1>6, <3>1 DEF Range
      <4>2. i \in 1 .. m + n /\ Ranked[i] = p
        BY <1>7, <4>1
      <4> QED
        BY <4>2
    <3>2. CASE Open(p)
      <4>1. PICK i \in 1 .. n : late[i] = p
        BY <1>3, <1>4, <1>6, <3>2 DEF Range
      <4>2. m + i \in 1 .. m + n /\ ~(m + i <= m) /\ (m + i) - m = i
        OBVIOUS
      <4>3. Ranked[m + i] = p
        BY <1>7, <4>1, <4>2
      <4> QED
        BY <4>2, <4>3
    <3> QED
      BY <3>1, <3>2
  <2>3. DOMAIN Ranked = 1 .. m + n
    BY <1>7
  <2> QED
    BY <2>1, <2>2, <2>3 DEF Range
<1> QED
  BY <1>2, <1>4, <1>7, <1>9, <1>10

\* A queue loses its head, and with it one provider.
LEMMA TailOnce ==
  ASSUME NEW T, NEW q \in Seq(T), q # << >>, NoRepeat(q)
  PROVE  /\ Tail(q) \in Seq(T) /\ NoRepeat(Tail(q)) /\ Head(q) \in T
         /\ Head(q) \in Range(q) /\ Head(q) \notin Range(Tail(q))
         /\ \A x : x \in Range(q) <=> x = Head(q) \/ x \in Range(Tail(q))
<1>1. PICK n \in Nat : Len(q) = n + 1
  <2>1. Len(q) \in Nat /\ Len(q) # 0
    BY EmptySeq
  <2>2. Len(q) - 1 \in Nat /\ Len(q) = (Len(q) - 1) + 1
    BY <2>1
  <2> QED
    BY <2>2
<1>0. PICK r : r = Tail(q)
  OBVIOUS
<1>2. r = Tail(q) /\ r \in Seq(T) /\ Len(r) = n /\ \A i \in 1 .. n : r[i] = q[i + 1]
  <2>1. Tail(q) \in Seq(T) /\ Len(Tail(q)) = Len(q) - 1 /\ \A i \in 1 .. Len(Tail(q)) : Tail(q)[i] = q[i + 1]
    BY HeadTailProperties
  <2> HIDE <1>0
  <2>2. r \in Seq(T) /\ Len(r) = Len(q) - 1 /\ \A i \in 1 .. Len(r) : r[i] = q[i + 1]
    BY <1>0, <2>1
  <2>3. Len(r) = n
    BY <1>1, <2>2
  <2> QED
    BY <1>0, <2>2, <2>3
<1>3. Head(q) = q[1] /\ Head(q) \in T /\ DOMAIN q = 1 .. n + 1 /\ DOMAIN r = 1 .. n
  BY <1>1, <1>2
<1>4. \A i, j \in 1 .. n + 1 : q[i] = q[j] => i = j
  BY <1>1 DEF NoRepeat
<1>5. \A i \in 1 .. n : i + 1 \in 1 .. n + 1 /\ i + 1 # 1 /\ i \in Int
  OBVIOUS
<1>6. 1 \in 1 .. n + 1
  OBVIOUS
<1>7. NoRepeat(r)
  <2> SUFFICES ASSUME NEW i \in 1 .. n, NEW j \in 1 .. n, r[i] = r[j] PROVE i = j
    BY <1>2 DEF NoRepeat
  <2>1. i + 1 = j + 1
    BY <1>2, <1>4, <1>5
  <2> QED
    BY <2>1
<1>8. Head(q) \in Range(q) /\ Head(q) \notin Range(r)
  BY <1>2, <1>3, <1>4, <1>5, <1>6 DEF Range
<1>9. ASSUME NEW i \in 1 .. n + 1 PROVE q[i] = Head(q) \/ q[i] \in Range(r)
  <2>1. CASE i = 1
    BY <1>3, <2>1
  <2>2. CASE i # 1
    <3>1. i - 1 \in 1 .. n /\ (i - 1) + 1 = i
      BY <2>2
    <3>2. r[i - 1] = q[i]
      BY <1>2, <3>1
    <3> QED
      BY <1>3, <3>1, <3>2 DEF Range
  <2> QED
    BY <2>1, <2>2
<1>10. ASSUME NEW i \in 1 .. n PROVE r[i] \in Range(q)
  BY <1>2, <1>3, <1>5 DEF Range
<1>11. \A x : x \in Range(q) <=> x = Head(q) \/ x \in Range(r)
  <2>1. \A x : x \in Range(q) <=> \E i \in 1 .. n + 1 : x = q[i]
    BY <1>3 DEF Range
  <2>2. \A x : x \in Range(r) <=> \E i \in 1 .. n : x = r[i]
    BY <1>3 DEF Range
  <2> QED
    BY <1>8, <1>9, <1>10, <2>1, <2>2
<1> QED
  BY <1>2, <1>3, <1>7, <1>8, <1>11, SMTT(30)

-----------------------------------------------------------------------------
(* The invariant.                                                          *)

\* The key that comes m requests after the one at index k of n.
Later(n, k, m) == IF k + m < n THEN k + m ELSE (k + m) - n

\* A worker has used as many keys as it made attempts, and the keys that follow
\* are new to it until it has used them all.
Rotated(p, w, k) ==
    /\ IF Keys[p] = 0 THEN k = 0 ELSE k \in 0 .. Keys[p] - 1
    /\ w.state \in {"none", "calling", "ok", "refused", "failed"}
    /\ w.attempt \in Nat /\ w.attempt <= Attempts(p)
    /\ IsFiniteSet(w.used) /\ Cardinality(w.used) = w.attempt
    /\ w.state = "none" => w.attempt = 0
    /\ w.state = "refused" => w.attempt = Attempts(p)
    /\ Keys[p] # 0 => \A m \in 0 .. (Keys[p] - w.attempt) - 1 :
                          Pool(p)[Later(Keys[p], k, m) + 1] \notin w.used

LEMMA AttemptsFacts ==
  ASSUME NEW p \in Specs
  PROVE  Attempts(p) \in Nat /\ Attempts(p) >= 1 /\ (Keys[p] # 0 => Attempts(p) = Keys[p])
         /\ (Keys[p] = 0 => Attempts(p) = 1)
  BY KeyFacts DEF Attempts

\* Nothing is used at first, whatever the key.
LEMMA RotatedAtFirst ==
  ASSUME NEW p \in Specs, NEW k, IF Keys[p] = 0 THEN k = 0 ELSE k \in 0 .. Keys[p] - 1
  PROVE  Rotated(p, Worker, k)
<1>1. Worker.state = "none" /\ Worker.attempt = 0 /\ Worker.used = {}
  BY DEF Worker
<1>2. IsFiniteSet({}) /\ Cardinality({}) = 0
  BY FS_EmptySet
<1> QED
  BY <1>1, <1>2, AttemptsFacts DEF Rotated

\* One more request is sent, with the next key.
LEMMA RotatedOnce ==
  ASSUME NEW p \in Specs, NEW w, NEW k, Rotated(p, w, k), w.attempt < Attempts(p),
         NEW x, x.state = "calling", x.attempt = w.attempt + 1,
         x.used = w.used \cup {IF Keys[p] = 0 THEN "anonymous" ELSE Pool(p)[k + 1]}
  PROVE  Rotated(p, x, IF Keys[p] = 0 THEN 0 ELSE (k + 1) % Keys[p])
<1>1. CASE Keys[p] = 0
  <2>1. w.attempt = 0 /\ w.used = {}
    <3>1. w.attempt = 0
      BY <1>1, AttemptsFacts DEF Rotated
    <3> QED
      BY <3>1, FS_EmptySet DEF Rotated
  <2>2. x.used = {"anonymous"} /\ x.attempt = 1
    BY <1>1, <2>1
  <2>3. IsFiniteSet({"anonymous"}) /\ Cardinality({"anonymous"}) = 1
    BY FS_Singleton
  <2> QED
    BY <1>1, <2>2, <2>3, AttemptsFacts DEF Rotated
<1>2. CASE Keys[p] # 0
  <2>1. PICK n \in Nat, a \in Nat : n = Keys[p] /\ a = w.attempt
    BY KeyFacts DEF Rotated
  <2>2. n # 0 /\ n = Attempts(p) /\ a < n /\ k \in 0 .. n - 1
    BY <1>2, <2>1, AttemptsFacts DEF Rotated
  <2>3. PICK key : key = Pool(p)[k + 1]
    OBVIOUS
  <2>4. x.used = w.used \cup {key}
    BY <1>2, <2>3
  <2>5. /\ IsFiniteSet(w.used) /\ Cardinality(w.used) = a
        /\ \A m \in 0 .. (n - a) - 1 : Pool(p)[Later(n, k, m) + 1] \notin w.used
    BY <1>2, <2>1 DEF Rotated
  <2>6. key \notin w.used
    <3>1. 0 \in 0 .. (n - a) - 1 /\ Later(n, k, 0) = k
      BY <2>2 DEF Later
    <3>2. Pool(p)[Later(n, k, 0) + 1] \notin w.used
      BY <2>5, <3>1
    <3> QED
      BY <2>3, <3>1, <3>2
  <2>7. IsFiniteSet(x.used) /\ Cardinality(x.used) = a + 1
    BY <2>4, <2>5, <2>6, FS_AddElement, SMTT(30)
  <2>8. (k + 1) % n = Later(n, k, 1) /\ Later(n, k, 1) \in 0 .. n - 1
    <3>1. CASE k + 1 < n
      BY <2>2, <3>1 DEF Later
    <3>2. CASE k + 1 = n
      <4>1. n % n = 0
        BY <2>2
      <4> QED
        BY <2>2, <3>2, <4>1 DEF Later
    <3> QED
      BY <2>2, <3>1, <3>2
  <2>9. ASSUME NEW m \in 0 .. (n - (a + 1)) - 1
        PROVE  Pool(p)[Later(n, Later(n, k, 1), m) + 1] \notin x.used
    <3>1. /\ m + 1 \in 0 .. (n - a) - 1 /\ Later(n, Later(n, k, 1), m) = Later(n, k, m + 1)
          /\ Later(n, k, m + 1) \in 0 .. n - 1 /\ Later(n, k, m + 1) # k
      BY <2>2 DEF Later
    <3>2. PICK l \in 0 .. n - 1 : l = Later(n, k, m + 1) /\ l # k
      BY <3>1
    <3>3. Pool(p)[l + 1] \notin w.used
      BY <2>5, <3>1, <3>2
    <3>4. l + 1 \in 1 .. n /\ k + 1 \in 1 .. n /\ l + 1 # k + 1
      BY <2>2, <3>2
    <3>5. Pool(p)[l + 1] # key
      BY <1>2, <2>1, <2>3, <3>4, KeyFacts
    <3> QED
      BY <2>4, <3>1, <3>2, <3>3, <3>5
  <2>10. PICK kk \in 0 .. n - 1 : kk = Later(n, k, 1) /\ kk = (k + 1) % n
    BY <2>8
  <2>11. \A m \in 0 .. (n - (a + 1)) - 1 : Pool(p)[Later(n, kk, m) + 1] \notin x.used
    BY <2>9, <2>10
  <2>12. x.attempt = a + 1 /\ a + 1 <= n
    BY <2>1, <2>2
  <2>13. Rotated(p, x, kk)
    BY <1>2, <2>1, <2>2, <2>7, <2>10, <2>11, <2>12 DEF Rotated
  <2> QED
    BY <1>2, <2>1, <2>10, <2>13
<1> QED
  BY <1>1, <1>2

\* A circuit: its failures belong to the streak, it opens only at the threshold,
\* and its key is one of the pool.
Circuit(p, h, n) ==
    /\ h.failures <= n
    /\ h.open_until # Closed => h.failures >= circuit_threshold
    /\ IF Keys[p] = 0 THEN h.key = 0 ELSE h.key \in 0 .. Keys[p] - 1

Circuits(h, s) ==
    /\ h \in [Specs -> [failures : Nat, open_until : Int, key : Nat]]
    /\ s \in [Specs -> Nat]
    /\ \A p \in Specs : Circuit(p, h[p], s[p])

\* The place of provider p in decision d: waiting, skipped or at work.
Placed(d, p, n) ==
    /\ p \in Range(d.queue) \/ p \in d.skipped => d.workers[p].state = "none"
    /\ p \in Range(d.queue) => p \notin d.skipped
    /\ p \in d.skipped => n >= circuit_threshold
    /\ d.winner = "none" =>
          p \in Range(d.queue) \/ p \in d.skipped \/ d.workers[p].state # "none"
    /\ d.pc = "returned" =>
          /\ p \notin Range(d.queue) /\ d.workers[p].state # "calling"
          /\ d.winner = "none" => d.workers[p].state # "ok"

WellFormed(d) ==
    /\ d = [pc |-> d.pc, mode |-> d.mode, queue |-> d.queue, winner |-> d.winner,
            workers |-> d.workers, skipped |-> d.skipped]
    /\ d.queue \in Seq(Specs) /\ NoRepeat(d.queue)
    /\ d.workers = [p \in Specs |-> d.workers[p]]
    /\ \A p \in Specs : d.workers[p] = [state |-> d.workers[p].state,
                                        attempt |-> d.workers[p].attempt, used |-> d.workers[p].used]

UnderWay(d, h, s) ==
    /\ WellFormed(d)
    /\ \A p \in Specs : Placed(d, p, s[p]) /\ Rotated(p, d.workers[p], h[p].key)

FallbackInv ==
    /\ clock \in Nat
    /\ Circuits(health, streak)
    /\ decision = NoDecision \/ UnderWay(decision, health, streak)

LEMMA FallbackStarts == FallbackInit => FallbackInv
<1> SUFFICES ASSUME FallbackInit PROVE FallbackInv
  OBVIOUS
<1>1. ASSUME NEW p \in Specs PROVE Circuit(p, health[p], streak[p])
  BY KeyFacts DEF FallbackInit, Circuit
<1>2. /\ health \in [Specs -> [failures : Nat, open_until : Int, key : Nat]]
      /\ streak \in [Specs -> Nat]
  BY DEF FallbackInit, Closed
<1> QED
  BY <1>1, <1>2 DEF FallbackInit, FallbackInv, Circuits

LEMMA FallbackShows == FallbackInv => FallbackIsSound
<1> SUFFICES ASSUME FallbackInv PROVE FallbackIsSound
  OBVIOUS
<1>1. AsideIsExhausted
  <2> SUFFICES ASSUME decision.pc = "returned", decision.winner = "none",
                      NEW p \in Specs \ decision.skipped
               PROVE  /\ decision.workers[p].state \in {"failed", "refused"}
                      /\ decision.workers[p].state = "refused" =>
                            Cardinality(decision.workers[p].used) = Attempts(p)
    BY DEF AsideIsExhausted
  <2>1. decision # NoDecision
    BY DEF NoDecision
  <2>2. Placed(decision, p, streak[p]) /\ Rotated(p, decision.workers[p], health[p].key)
    BY <2>1 DEF FallbackInv, UnderWay
  <2> QED
    BY <2>2 DEF Placed, Rotated
<1>2. ASSUME NEW p \in Specs
      PROVE  /\ Open(p) => streak[p] >= circuit_threshold
             /\ decision.pc # "idle" /\ p \in decision.skipped => streak[p] >= circuit_threshold
             /\ health[p].failures <= streak[p]
  <2>1. Circuit(p, health[p], streak[p]) /\ health[p].failures \in Nat /\ streak[p] \in Nat
    BY DEF FallbackInv, Circuits
  <2>2. health[p].failures <= streak[p] /\ (Open(p) => streak[p] >= circuit_threshold)
    BY <2>1, FallbackAssumption DEF Circuit, Open
  <2>3. decision.pc # "idle" /\ p \in decision.skipped => streak[p] >= circuit_threshold
    <3>1. decision.pc # "idle" => decision # NoDecision
      BY DEF NoDecision
    <3> QED
      BY <3>1 DEF FallbackInv, UnderWay, Placed
  <2> QED
    BY <2>2, <2>3
<1>3. OpenAfterStreak
  BY <1>2 DEF OpenAfterStreak
<1> QED
  BY <1>1, <1>3 DEF FallbackIsSound

-----------------------------------------------------------------------------
(* The steps.                                                              *)

\* Provider p goes on working: it leaves the queue, if it was there, and the
\* places of the others do not change.
LEMMA WorkGoesOn ==
  ASSUME NEW d, NEW h, NEW s, UnderWay(d, h, s), d.pc = "asking", NEW p \in Specs,
         NEW q \in Seq(Specs), NoRepeat(q), p \notin Range(q), p \notin d.skipped,
         \A r \in Specs : r # p => (r \in Range(q) <=> r \in Range(d.queue)),
         NEW x, x = [state |-> x.state, attempt |-> x.attempt, used |-> x.used], x.state # "none",
         NEW k, NEW n, Rotated(p, x, k.key),
         NEW h2, NEW s2, h2 = [h EXCEPT ![p] = k], s2 = [s EXCEPT ![p] = n],
         h = [r \in Specs |-> h[r]], s = [r \in Specs |-> s[r]],
         NEW e, e = [pc |-> d.pc, mode |-> d.mode, queue |-> q, winner |-> d.winner,
                     workers |-> [d.workers EXCEPT ![p] = x], skipped |-> d.skipped]
  PROVE  UnderWay(e, h2, s2)
<1>1. PICK ws : ws = [d.workers EXCEPT ![p] = x]
  OBVIOUS
<1>2. /\ e.pc = "asking" /\ e.queue = q /\ e.winner = d.winner /\ e.workers = ws /\ e.skipped = d.skipped
      /\ e = [pc |-> e.pc, mode |-> e.mode, queue |-> e.queue, winner |-> e.winner,
              workers |-> e.workers, skipped |-> e.skipped]
  BY <1>1
<1>3. ws = [r \in Specs |-> IF r = p THEN x ELSE d.workers[r]]
  BY <1>1 DEF UnderWay, WellFormed
<1>4. h2 = [r \in Specs |-> IF r = p THEN k ELSE h[r]] /\ s2 = [r \in Specs |-> IF r = p THEN n ELSE s[r]]
  OBVIOUS
<1>5. ASSUME NEW r \in Specs
      PROVE  /\ Placed(e, r, s2[r]) /\ Rotated(r, e.workers[r], h2[r].key)
             /\ ws[r] = [state |-> ws[r].state, attempt |-> ws[r].attempt, used |-> ws[r].used]
  <2>1. CASE r = p
    <3>1. ws[r] = x /\ h2[r] = k
      BY <1>3, <1>4, <2>1
    <3> QED
      BY <1>2, <2>1, <3>1 DEF Placed
  <2>2. CASE r # p
    <3>1. ws[r] = d.workers[r] /\ h2[r] = h[r] /\ s2[r] = s[r]
      BY <1>3, <1>4, <2>2
    <3>2. r \in Range(q) <=> r \in Range(d.queue)
      BY <2>2
    <3>3. /\ Placed(d, r, s[r]) /\ Rotated(r, d.workers[r], h[r].key)
          /\ d.workers[r] = [state |-> d.workers[r].state,
                             attempt |-> d.workers[r].attempt, used |-> d.workers[r].used]
      BY DEF UnderWay, WellFormed
    <3>4. Rotated(r, e.workers[r], h2[r].key)
      BY <1>2, <3>1, <3>3
    <3>5. Placed(e, r, s2[r])
      BY <1>2, <3>1, <3>2, <3>3 DEF Placed
    <3> QED
      BY <3>1, <3>3, <3>4, <3>5
  <2> QED
    BY <2>1, <2>2
<1>6. WellFormed(e)
  <2>1. ws = [r \in Specs |-> ws[r]]
    BY <1>3
  <2> QED
    BY <1>2, <1>5, <2>1 DEF WellFormed
<1> QED
  BY <1>5, <1>6 DEF UnderWay

\* The circuits of a step that changes only p's.
LEMMA OneCircuit ==
  ASSUME NEW h, NEW s, Circuits(h, s), NEW p \in Specs,
         NEW k \in [failures : Nat, open_until : Int, key : Nat], NEW n \in Nat, Circuit(p, k, n),
         NEW h2, NEW s2, h2 = [h EXCEPT ![p] = k], s2 = [s EXCEPT ![p] = n]
  PROVE  Circuits(h2, s2)
<1>1. h2 = [r \in Specs |-> IF r = p THEN k ELSE h[r]] /\ s2 = [r \in Specs |-> IF r = p THEN n ELSE s[r]]
  BY DEF Circuits
<1>2. /\ h2 \in [Specs -> [failures : Nat, open_until : Int, key : Nat]]
      /\ s2 \in [Specs -> Nat]
  BY DEF Circuits
<1>3. ASSUME NEW r \in Specs PROVE Circuit(r, h2[r], s2[r])
  <2>1. CASE r = p
    BY <1>1, <2>1
  <2>2. CASE r # p
    BY <1>1, <2>2 DEF Circuits
  <2> QED
    BY <2>1, <2>2
<1> QED
  BY <1>2, <1>3 DEF Circuits

\* The next key of a pool.
LEMMA NextOfPool ==
  ASSUME NEW p \in Specs, NEW k, IF Keys[p] = 0 THEN k = 0 ELSE k \in 0 .. Keys[p] - 1
  PROVE  LET m == IF Keys[p] = 0 THEN 0 ELSE (k + 1) % Keys[p]
         IN  m \in Nat /\ IF Keys[p] = 0 THEN m = 0 ELSE m \in 0 .. Keys[p] - 1
<1>1. PICK n \in Nat : n = Keys[p]
  BY KeyFacts
<1>2. CASE n = 0
  BY <1>1, <1>2
<1>3. CASE n # 0
  <2>1. k + 1 \in Nat /\ (k + 1) % n \in 0 .. n - 1
    BY <1>1, <1>3
  <2> QED
    BY <1>1, <1>3, <2>1
<1> QED
  BY <1>2, <1>3

LEMMA HealthRecord ==
  ASSUME NEW h, NEW s, Circuits(h, s), NEW p \in Specs
  PROVE  /\ h[p] = [failures |-> h[p].failures, open_until |-> h[p].open_until, key |-> h[p].key]
         /\ h[p].failures \in Nat /\ h[p].open_until \in Int /\ h[p].key \in Nat /\ s[p] \in Nat
         /\ Circuit(p, h[p], s[p])
         /\ h = [r \in Specs |-> h[r]] /\ s = [r \in Specs |-> s[r]]
  BY DEF Circuits

LEMMA StateOfWorker ==
  ASSUME NEW d, WellFormed(d), NEW p \in Specs, NEW v
  PROVE  /\ [d EXCEPT !.workers[p].state = v] =
               [pc |-> d.pc, mode |-> d.mode, queue |-> d.queue, winner |-> d.winner,
                workers |-> [d.workers EXCEPT ![p] = [state |-> v, attempt |-> d.workers[p].attempt,
                                                      used |-> d.workers[p].used]],
                skipped |-> d.skipped]
<1>1. PICK ws, w : ws = d.workers /\ w = ws[p]
  OBVIOUS
<1>2. ws = [r \in Specs |-> ws[r]] /\ w = [state |-> w.state, attempt |-> w.attempt, used |-> w.used]
  BY <1>1 DEF WellFormed
<1>3. [ws EXCEPT ![p].state = v] = [ws EXCEPT ![p] = [state |-> v, attempt |-> w.attempt, used |-> w.used]]
  <2>1. [w EXCEPT !.state = v] = [state |-> v, attempt |-> w.attempt, used |-> w.used]
    BY <1>2
  <2>2. [ws EXCEPT ![p].state = v] = [ws EXCEPT ![p] = [w EXCEPT !.state = v]]
    <3>1. [ws EXCEPT ![p].state = v] = [ws EXCEPT ![p] = [ws[p] EXCEPT !.state = v]]
      BY <1>2
    <3> QED
      BY <1>1, <3>1
  <2> QED
    BY <2>1, <2>2
<1>4. d = [pc |-> d.pc, mode |-> d.mode, queue |-> d.queue, winner |-> d.winner,
           workers |-> d.workers, skipped |-> d.skipped]
  BY DEF WellFormed
<1>5. PICK ws2 : ws2 = [ws EXCEPT ![p].state = v]
  OBVIOUS
<1>6. [d EXCEPT !.workers[p].state = v] = [d EXCEPT !.workers = ws2]
  BY <1>1, <1>4, <1>5
<1>7. [d EXCEPT !.workers = ws2] = [pc |-> d.pc, mode |-> d.mode, queue |-> d.queue,
                                    winner |-> d.winner, workers |-> ws2, skipped |-> d.skipped]
  BY <1>4
<1> QED
  BY <1>1, <1>3, <1>5, <1>6, <1>7

\* What the invariant says of a worker that is calling.
LEMMA CallerFacts ==
  ASSUME FallbackInv, NEW p \in Specs, decision.pc = "asking", p \in Calling
  PROVE  /\ UnderWay(decision, health, streak) /\ WellFormed(decision)
         /\ decision.queue \in Seq(Specs) /\ NoRepeat(decision.queue)
         /\ p \notin Range(decision.queue) /\ p \notin decision.skipped
         /\ Rotated(p, decision.workers[p], health[p].key)
<1>1. decision # NoDecision
  BY DEF NoDecision
<1>2. UnderWay(decision, health, streak) /\ WellFormed(decision)
  BY <1>1 DEF FallbackInv, UnderWay
<1>3. decision.workers[p].state = "calling"
  BY DEF Calling
<1>4. Placed(decision, p, streak[p]) /\ Rotated(p, decision.workers[p], health[p].key)
  BY <1>2 DEF UnderWay
<1> QED
  BY <1>2, <1>3, <1>4 DEF Placed, WellFormed

LEMMA ReplyOkKeeps ==
  ASSUME FallbackInv, NEW p \in Specs, ReplyOk(p) PROVE FallbackInv'
<1>1. /\ decision.pc = "asking" /\ p \in Calling
      /\ health' = Succeed(health, p) /\ streak' = [streak EXCEPT ![p] = 0]
      /\ decision' = [decision EXCEPT !.workers[p].state = "ok"] /\ clock' = clock
  BY DEF ReplyOk
<1>2. Circuits(health, streak) /\ clock \in Nat
  BY DEF FallbackInv
<1> DEFINE w == decision.workers[p]
           x == [state |-> "ok", attempt |-> w.attempt, used |-> w.used]
           k == [failures |-> 0, open_until |-> Closed, key |-> health[p].key]
<1>3. health' = [health EXCEPT ![p] = k]
  <2>1. health[p] = [failures |-> health[p].failures, open_until |-> health[p].open_until,
                     key |-> health[p].key]
    BY <1>2, HealthRecord
  <2>2. [[health[p] EXCEPT !.failures = 0] EXCEPT !.open_until = Closed] = k
    <3>1. PICK a, b, c : a = health[p].failures /\ b = health[p].open_until /\ c = health[p].key
      OBVIOUS
    <3>2. health[p] = [failures |-> a, open_until |-> b, key |-> c]
      BY <2>1, <3>1
    <3>3. PICK g : g = [health[p] EXCEPT !.failures = 0]
      OBVIOUS
    <3>4. g = [failures |-> 0, open_until |-> b, key |-> c]
      BY <3>2, <3>3
    <3>5. [g EXCEPT !.open_until = Closed] = [failures |-> 0, open_until |-> Closed, key |-> c]
      BY <3>4
    <3> QED
      BY <3>1, <3>3, <3>5
  <2>3. Succeed(health, p) = [health EXCEPT ![p] = [[health[p] EXCEPT !.failures = 0] EXCEPT !.open_until = Closed]]
    BY <1>2 DEF Succeed, Circuits
  <2> QED
    BY <1>1, <2>2, <2>3
<1>4. k \in [failures : Nat, open_until : Int, key : Nat] /\ Circuit(p, k, 0)
  <2>1. health[p].key \in Nat /\ Circuit(p, health[p], streak[p])
    BY <1>2, HealthRecord
  <2>2. Closed \in Int
    BY DEF Closed
  <2>3. k \in [failures : Nat, open_until : Int, key : Nat]
    BY <2>1, <2>2
  <2>4. k.failures = 0 /\ k.open_until = Closed /\ k.key = health[p].key
    OBVIOUS
  <2> HIDE DEF k
  <2>5. Circuit(p, k, 0)
    BY <2>1, <2>4 DEF Circuit
  <2> QED
    BY <2>3, <2>5
<1>5. Circuits(health', streak')
  <2> HIDE DEF k
  <2>1. 0 \in Nat
    OBVIOUS
  <2> QED
    BY <1>1, <1>2, <1>3, <1>4, <2>1, OneCircuit
<1>6. Rotated(p, x, k.key)
  BY <1>1, CallerFacts DEF Rotated
<1>7. decision' = [pc |-> decision.pc, mode |-> decision.mode, queue |-> decision.queue,
                   winner |-> decision.winner, workers |-> [decision.workers EXCEPT ![p] = x],
                   skipped |-> decision.skipped]
  BY <1>1, CallerFacts, StateOfWorker
<1>8. x = [state |-> x.state, attempt |-> x.attempt, used |-> x.used] /\ x.state # "none"
  OBVIOUS
<1> HIDE DEF x, k
<1>9. UnderWay(decision', health', streak')
  <2>1. health = [r \in Specs |-> health[r]] /\ streak = [r \in Specs |-> streak[r]]
    BY <1>2, HealthRecord
  <2>2. PICK n : n = 0
    OBVIOUS
  <2>3. streak' = [streak EXCEPT ![p] = n]
    BY <1>1, <2>2
  <2>4. decision.pc = "asking" /\ p \in Calling
    BY <1>1
  <2> QED
    BY <1>3, <1>6, <1>7, <1>8, <2>1, <2>3, <2>4, CallerFacts, WorkGoesOn
<1> QED
  BY <1>1, <1>2, <1>5, <1>9 DEF FallbackInv

LEMMA RefusalKeeps ==
  ASSUME FallbackInv, NEW p \in Specs, NEW refused \in BOOLEAN, ReplyFails(p, refused)
  PROVE  FallbackInv'
<1>1. decision.pc = "asking" /\ p \in Calling /\ clock' = clock
  BY DEF ReplyFails
<1>2. Circuits(health, streak) /\ clock \in Nat
  BY DEF FallbackInv
<1> DEFINE w == decision.workers[p]
<1>3. /\ health[p] = [failures |-> health[p].failures, open_until |-> health[p].open_until,
                      key |-> health[p].key]
      /\ health[p].failures \in Nat /\ health[p].open_until \in Int /\ health[p].key \in Nat
      /\ streak[p] \in Nat /\ Circuit(p, health[p], streak[p])
      /\ health = [r \in Specs |-> health[r]] /\ streak = [r \in Specs |-> streak[r]]
  BY <1>2, HealthRecord
<1>4. CASE Rotates(p, refused)
  <2> DEFINE x == [state |-> "calling", attempt |-> w.attempt + 1, used |-> w.used \cup {KeyAt(health, p)}]
             k == [failures |-> health[p].failures, open_until |-> health[p].open_until,
                   key |-> IF Keys[p] = 0 THEN 0 ELSE (health[p].key + 1) % Keys[p]]
  <2>1. /\ decision' = [decision EXCEPT !.workers = Sent(@, health, p)]
        /\ health' = NextKey(health, p) /\ streak' = streak
    BY <1>4 DEF ReplyFails
  <2>2. health' = [health EXCEPT ![p] = k]
    <3>1. [health[p] EXCEPT !.key = IF Keys[p] = 0 THEN 0 ELSE (health[p].key + 1) % Keys[p]] = k
      BY <1>3
    <3>2. NextKey(health, p) = [health EXCEPT ![p] = [health[p] EXCEPT !.key =
                                   IF Keys[p] = 0 THEN 0 ELSE (health[p].key + 1) % Keys[p]]]
      BY <1>3 DEF NextKey
    <3> QED
      BY <2>1, <3>1, <3>2
  <2>3. streak' = [streak EXCEPT ![p] = streak[p]]
    BY <1>3, <2>1
  <2>4. k \in [failures : Nat, open_until : Int, key : Nat] /\ Circuit(p, k, streak[p])
    <3>1. IF Keys[p] = 0 THEN health[p].key = 0 ELSE health[p].key \in 0 .. Keys[p] - 1
      BY <1>3 DEF Circuit
    <3>2. /\ (IF Keys[p] = 0 THEN 0 ELSE (health[p].key + 1) % Keys[p]) \in Nat
          /\ IF Keys[p] = 0 THEN k.key = 0 ELSE k.key \in 0 .. Keys[p] - 1
      BY <3>1, NextOfPool
    <3> QED
      BY <1>3, <3>2 DEF Circuit
  <2>5. Circuits(health', streak')
    BY <1>2, <1>3, <2>2, <2>3, <2>4, OneCircuit
  <2>6. Rotated(p, x, k.key)
    <3>1. Rotated(p, w, health[p].key) /\ w.attempt < Attempts(p)
      BY <1>1, <1>4, CallerFacts DEF Rotates
    <3>2. x.used = w.used \cup {IF Keys[p] = 0 THEN "anonymous" ELSE Pool(p)[health[p].key + 1]}
      BY DEF KeyAt
    <3> HIDE DEF w
    <3>3. x.state = "calling" /\ x.attempt = w.attempt + 1
      OBVIOUS
    <3>4. k.key = IF Keys[p] = 0 THEN 0 ELSE (health[p].key + 1) % Keys[p]
      OBVIOUS
    <3> HIDE DEF x, k
    <3> QED
      BY <3>1, <3>2, <3>3, <3>4, RotatedOnce
  <2>7. decision' = [pc |-> decision.pc, mode |-> decision.mode, queue |-> decision.queue,
                     winner |-> decision.winner, workers |-> [decision.workers EXCEPT ![p] = x],
                     skipped |-> decision.skipped]
    <3>1. decision = [pc |-> decision.pc, mode |-> decision.mode, queue |-> decision.queue,
                      winner |-> decision.winner, workers |-> decision.workers,
                      skipped |-> decision.skipped]
      BY <1>1, CallerFacts DEF WellFormed
    <3>2. PICK ws : ws = Sent(decision.workers, health, p)
      OBVIOUS
    <3>3. ws = [decision.workers EXCEPT ![p] = x]
      BY <3>2 DEF Sent
    <3>4. decision' = [decision EXCEPT !.workers = ws]
      BY <2>1, <3>2
    <3> HIDE DEF x
    <3> QED
      BY <3>1, <3>3, <3>4
  <2>8. x = [state |-> x.state, attempt |-> x.attempt, used |-> x.used] /\ x.state # "none"
    OBVIOUS
  <2> HIDE DEF x, k
  <2>9. UnderWay(decision', health', streak')
    BY <1>1, <1>3, <2>2, <2>3, <2>6, <2>7, <2>8, CallerFacts, WorkGoesOn
  <2> QED
    BY <1>1, <1>2, <2>5, <2>9 DEF FallbackInv
<1>5. CASE ~Rotates(p, refused)
  <2> DEFINE v == IF refused THEN "refused" ELSE "failed"
             x == [state |-> v, attempt |-> w.attempt, used |-> w.used]
             k == [failures |-> health[p].failures + 1,
                   open_until |-> IF health[p].failures + 1 >= circuit_threshold
                                  THEN clock + circuit_cooldown ELSE health[p].open_until,
                   key |-> health[p].key]
  <2>1. /\ decision' = [decision EXCEPT !.workers[p].state = v]
        /\ health' = Fail(health, p) /\ streak' = [streak EXCEPT ![p] = @ + 1]
    BY <1>5 DEF ReplyFails
  <2>2. health' = [health EXCEPT ![p] = k]
    <3> DEFINE u == IF health[p].failures + 1 >= circuit_threshold
                    THEN clock + circuit_cooldown ELSE health[p].open_until
               f == health[p].failures + 1
    <3>1. [[health[p] EXCEPT !.failures = f] EXCEPT !.open_until = u] = [failures |-> f, open_until |-> u, key |-> health[p].key]
      <4> HIDE DEF f, u
      <4>1. PICK a, b, c : a = health[p].failures /\ b = health[p].open_until /\ c = health[p].key
        OBVIOUS
      <4>2. health[p] = [failures |-> a, open_until |-> b, key |-> c]
        BY <1>3, <4>1
      <4>3. PICK g : g = [health[p] EXCEPT !.failures = f]
        OBVIOUS
      <4>4. g = [failures |-> f, open_until |-> b, key |-> c]
        BY <4>2, <4>3
      <4>5. [g EXCEPT !.open_until = u] = [failures |-> f, open_until |-> u, key |-> c]
        BY <4>4
      <4> QED
        BY <4>1, <4>3, <4>5
    <3>2. Fail(health, p) = [health EXCEPT ![p] = [[health[p] EXCEPT !.failures = f] EXCEPT !.open_until = u]]
      BY <1>3 DEF Fail
    <3> QED
      BY <2>1, <3>1, <3>2
  <2>3. streak' = [streak EXCEPT ![p] = streak[p] + 1]
    BY <2>1
  <2>4. k \in [failures : Nat, open_until : Int, key : Nat] /\ Circuit(p, k, streak[p] + 1)
    <3>1. clock + circuit_cooldown \in Int
      BY <1>2, FallbackAssumption
    <3>2. k \in [failures : Nat, open_until : Int, key : Nat]
      BY <1>3, <3>1
    <3>3. k.failures = health[p].failures + 1 /\ k.key = health[p].key
          /\ k.open_until = IF health[p].failures + 1 >= circuit_threshold
                            THEN clock + circuit_cooldown ELSE health[p].open_until
      OBVIOUS
    <3> HIDE DEF k
    <3>4. Circuit(p, k, streak[p] + 1)
      BY <1>3, <3>3, FallbackAssumption DEF Circuit
    <3> QED
      BY <3>2, <3>4
  <2>5. Circuits(health', streak')
    <3>1. streak[p] + 1 \in Nat
      BY <1>3
    <3> HIDE DEF k
    <3> QED
      BY <1>2, <2>2, <2>3, <2>4, <3>1, OneCircuit
  <2>6. Rotated(p, x, k.key)
    <3>1. Rotated(p, w, health[p].key) /\ (refused => ~(w.attempt < Attempts(p)))
      BY <1>1, <1>5, CallerFacts DEF Rotates
    <3>2. Attempts(p) \in Nat /\ (v = "refused" => w.attempt = Attempts(p))
      BY <3>1, AttemptsFacts DEF Rotated
    <3>3. v \in {"refused", "failed"}
      OBVIOUS
    <3> HIDE DEF v
    <3>4. x.state = v /\ x.attempt = w.attempt /\ x.used = w.used /\ k.key = health[p].key
      OBVIOUS
    <3> HIDE DEF x, k, w
    <3> QED
      BY <3>1, <3>2, <3>3, <3>4 DEF Rotated
  <2>7. decision' = [pc |-> decision.pc, mode |-> decision.mode, queue |-> decision.queue,
                     winner |-> decision.winner, workers |-> [decision.workers EXCEPT ![p] = x],
                     skipped |-> decision.skipped]
    BY <1>1, <2>1, CallerFacts, StateOfWorker
  <2>8. x = [state |-> x.state, attempt |-> x.attempt, used |-> x.used] /\ x.state # "none"
    OBVIOUS
  <2> HIDE DEF x, k
  <2>9. UnderWay(decision', health', streak')
    BY <1>1, <1>3, <2>2, <2>3, <2>6, <2>7, <2>8, CallerFacts, WorkGoesOn
  <2> QED
    BY <1>1, <1>2, <2>5, <2>9 DEF FallbackInv
<1> QED
  BY <1>4, <1>5

\* What is left of a circuit whose cooldown is over.
LEMMA RefreshedFacts ==
  ASSUME Circuits(health, streak)
  PROVE  Circuits(Refreshed, streak) /\ \A p \in Specs : Refreshed[p].key = health[p].key
<1>1. ASSUME NEW p \in Specs
      PROVE  /\ Refreshed[p] \in [failures : Nat, open_until : Int, key : Nat]
             /\ Refreshed[p].key = health[p].key /\ Circuit(p, Refreshed[p], streak[p])
  <2>1. /\ health[p] = [failures |-> health[p].failures, open_until |-> health[p].open_until,
                        key |-> health[p].key]
        /\ health[p].failures \in Nat /\ health[p].open_until \in Int /\ health[p].key \in Nat
        /\ streak[p] \in Nat /\ Circuit(p, health[p], streak[p])
    BY HealthRecord
  <2>2. CASE health[p].open_until # Closed /\ ~Open(p)
    <3>1. PICK a, b, c : a = health[p].failures /\ b = health[p].open_until /\ c = health[p].key
      OBVIOUS
    <3>2. health[p] = [failures |-> a, open_until |-> b, key |-> c]
      BY <2>1, <3>1
    <3>3. PICK g : g = [health[p] EXCEPT !.open_until = Closed]
      OBVIOUS
    <3>4. g = [failures |-> a, open_until |-> Closed, key |-> c]
      BY <3>2, <3>3
    <3>5. [g EXCEPT !.failures = 0] = [failures |-> 0, open_until |-> Closed, key |-> c]
      BY <3>4
    <3>6. Refreshed[p] = [failures |-> 0, open_until |-> Closed, key |-> c]
      BY <2>2, <3>3, <3>5 DEF Refreshed
    <3>7. Closed \in Int /\ c \in Nat /\ c = health[p].key
      BY <2>1, <3>1 DEF Closed
    <3>8. PICK r : r = Refreshed[p] /\ r.failures = 0 /\ r.open_until = Closed /\ r.key = c
      BY <3>6
    <3>9. Circuit(p, r, streak[p])
      BY <2>1, <3>7, <3>8 DEF Circuit
    <3> QED
      BY <3>6, <3>7, <3>8, <3>9
  <2>3. CASE ~(health[p].open_until # Closed /\ ~Open(p))
    <3>1. Refreshed[p] = health[p]
      BY <2>3 DEF Refreshed
    <3> QED
      BY <2>1, <3>1
  <2> QED
    BY <2>2, <2>3
<1>2. Refreshed = [p \in Specs |-> Refreshed[p]]
  BY DEF Refreshed
<1>3. Refreshed \in [Specs -> [failures : Nat, open_until : Int, key : Nat]]
  BY <1>1, <1>2
<1> QED
  BY <1>1, <1>3 DEF Circuits

\* A provider behind an open circuit has its streak of failures.
LEMMA OpenFacts ==
  ASSUME Circuits(health, streak), NEW p \in Specs, Open(p)
  PROVE  streak[p] >= circuit_threshold
<1>1. /\ health[p].failures \in Nat /\ streak[p] \in Nat /\ Circuit(p, health[p], streak[p])
  BY HealthRecord
<1>2. health[p].open_until # Closed
  BY DEF Open
<1> QED
  BY <1>1, <1>2, FallbackAssumption DEF Circuit

LEMMA AskKeeps ==
  ASSUME FallbackInv, NEW mode, Ask(mode) PROVE FallbackInv'
<1> DEFINE queue == IF mode = "sequential" THEN Ranked ELSE Ready
           skipped == IF mode = "sequential" THEN {} ELSE {p \in Specs : Open(p)}
           ws == [p \in Specs |-> Worker]
<1>1. /\ health' = Refreshed /\ streak' = streak /\ clock' = clock
      /\ decision' = [pc |-> "asking", mode |-> mode, queue |-> queue, winner |-> "none",
                      workers |-> ws, skipped |-> skipped]
  BY DEF Ask
<1>2. Circuits(health, streak) /\ clock \in Nat
  BY DEF FallbackInv
<1>3. Circuits(health', streak')
  BY <1>1, <1>2, RefreshedFacts
<1>4. /\ queue \in Seq(Specs) /\ NoRepeat(queue)
      /\ \A p \in Specs : (p \in Range(queue) \/ p \in skipped) /\ ~(p \in Range(queue) /\ p \in skipped)
                          /\ (p \in skipped => Open(p))
  <2>1. CASE mode = "sequential"
    BY <2>1, RankedFacts
  <2>2. CASE mode # "sequential"
    BY <2>2, RankedFacts
  <2> QED
    BY <2>1, <2>2
<1> HIDE DEF queue, skipped
<1>5. \A p \in Specs : ws[p] = Worker
  OBVIOUS
<1>6. ws = [p \in Specs |-> ws[p]]
  OBVIOUS
<1> HIDE DEF ws
<1>7. /\ decision'.pc = "asking" /\ decision'.queue = queue /\ decision'.winner = "none"
      /\ decision'.workers = ws /\ decision'.skipped = skipped
      /\ decision' = [pc |-> decision'.pc, mode |-> decision'.mode, queue |-> decision'.queue,
                      winner |-> decision'.winner, workers |-> decision'.workers,
                      skipped |-> decision'.skipped]
  BY <1>1
<1>8. /\ Worker.state = "none"
      /\ Worker = [state |-> Worker.state, attempt |-> Worker.attempt, used |-> Worker.used]
  BY DEF Worker
<1>9. WellFormed(decision')
  BY <1>4, <1>5, <1>6, <1>7, <1>8 DEF WellFormed
<1>10. ASSUME NEW p \in Specs
       PROVE  Placed(decision', p, streak'[p]) /\ Rotated(p, decision'.workers[p], health'[p].key)
  <2>1. p \in skipped => streak[p] >= circuit_threshold
    BY <1>2, <1>4, OpenFacts
  <2>2. Placed(decision', p, streak'[p])
    BY <1>1, <1>4, <1>5, <1>7, <1>8, <2>1 DEF Placed
  <2>3. health'[p].key = health[p].key /\ Circuit(p, health[p], streak[p])
    BY <1>1, <1>2, RefreshedFacts, HealthRecord
  <2>4. PICK k : k = health[p].key
    OBVIOUS
  <2>5. Rotated(p, Worker, k)
    BY <2>3, <2>4, RotatedAtFirst DEF Circuit
  <2> QED
    BY <1>5, <1>7, <2>2, <2>3, <2>4, <2>5
<1> QED
  BY <1>1, <1>2, <1>3, <1>9, <1>10 DEF FallbackInv, UnderWay

\* The head of the queue is skipped: its circuit is open.
LEMMA SkipKeeps ==
  ASSUME FallbackInv, MayStart, Open(Head(decision.queue)),
         decision' = [decision EXCEPT !.queue = Tail(@), !.skipped = @ \cup {Head(decision.queue)}],
         UNCHANGED <<health, clock, streak>>
  PROVE  FallbackInv'
<1>1. decision.pc = "asking" /\ decision.queue # << >> /\ decision.winner = "none"
  BY DEF MayStart
<1>2. UnderWay(decision, health, streak) /\ WellFormed(decision) /\ Circuits(health, streak) /\ clock \in Nat
  <2>1. decision # NoDecision
    BY <1>1 DEF NoDecision
  <2> QED
    BY <2>1 DEF FallbackInv, UnderWay
<1>3. PICK p, q : p = Head(decision.queue) /\ q = Tail(decision.queue)
  OBVIOUS
<1>4. /\ q \in Seq(Specs) /\ NoRepeat(q) /\ p \in Specs /\ p \in Range(decision.queue) /\ p \notin Range(q)
      /\ \A x : x \in Range(decision.queue) <=> x = p \/ x \in Range(q)
  BY <1>1, <1>2, <1>3, TailOnce DEF WellFormed
<1>5. PICK sk : sk = decision.skipped \cup {p}
  OBVIOUS
<1>6. decision' = [pc |-> decision.pc, mode |-> decision.mode, queue |-> q, winner |-> decision.winner,
                   workers |-> decision.workers, skipped |-> sk]
  <2>1. decision = [pc |-> decision.pc, mode |-> decision.mode, queue |-> decision.queue,
                    winner |-> decision.winner, workers |-> decision.workers,
                    skipped |-> decision.skipped]
    BY <1>2 DEF WellFormed
  <2>2. PICK g : g = [decision EXCEPT !.queue = q]
    OBVIOUS
  <2>3. g = [pc |-> decision.pc, mode |-> decision.mode, queue |-> q, winner |-> decision.winner,
             workers |-> decision.workers, skipped |-> decision.skipped]
    BY <2>1, <2>2
  <2>4. decision' = [g EXCEPT !.skipped = sk]
    BY <1>3, <1>5, <2>1, <2>2, <2>3
  <2> QED
    BY <2>3, <2>4
<1>7. /\ decision'.pc = "asking" /\ decision'.queue = q /\ decision'.winner = "none"
      /\ decision'.workers = decision.workers /\ decision'.skipped = sk
      /\ decision' = [pc |-> decision'.pc, mode |-> decision'.mode, queue |-> decision'.queue,
                      winner |-> decision'.winner, workers |-> decision'.workers,
                      skipped |-> decision'.skipped]
  <2>1. PICK m, ws : m = decision.mode /\ ws = decision.workers
    OBVIOUS
  <2>2. decision' = [pc |-> "asking", mode |-> m, queue |-> q, winner |-> "none", workers |-> ws,
                     skipped |-> sk]
    BY <1>1, <1>6, <2>1
  <2>3. PICK e : e = decision'
    OBVIOUS
  <2>4. e = [pc |-> "asking", mode |-> m, queue |-> q, winner |-> "none", workers |-> ws, skipped |-> sk]
    BY <2>2, <2>3
  <2>5. /\ e.pc = "asking" /\ e.mode = m /\ e.queue = q /\ e.winner = "none" /\ e.workers = ws /\ e.skipped = sk
        /\ e = [pc |-> e.pc, mode |-> e.mode, queue |-> e.queue, winner |-> e.winner,
                workers |-> e.workers, skipped |-> e.skipped]
    BY <2>4
  <2> QED
    BY <2>1, <2>3, <2>5
<1>8. WellFormed(decision')
  <2>1. /\ decision.workers = [r \in Specs |-> decision.workers[r]]
        /\ \A r \in Specs : decision.workers[r] =
              [state |-> decision.workers[r].state, attempt |-> decision.workers[r].attempt,
               used |-> decision.workers[r].used]
    BY <1>2 DEF WellFormed
  <2> QED
    BY <1>4, <1>7, <2>1 DEF WellFormed
<1>9. streak[p] >= circuit_threshold
  BY <1>2, <1>3, <1>4, OpenFacts
<1>10. ASSUME NEW r \in Specs
       PROVE  Placed(decision', r, streak'[r]) /\ Rotated(r, decision'.workers[r], health'[r].key)
  <2>1. Placed(decision, r, streak[r]) /\ Rotated(r, decision.workers[r], health[r].key)
    BY <1>2 DEF UnderWay
  <2>2. CASE r = p
    BY <1>4, <1>5, <1>7, <1>9, <2>1, <2>2 DEF Placed
  <2>3. CASE r # p
    <3>1. (r \in Range(q) <=> r \in Range(decision.queue)) /\ (r \in sk <=> r \in decision.skipped)
      BY <1>4, <1>5, <2>3
    <3>2. Placed(decision', r, streak'[r])
      BY <1>1, <1>7, <2>1, <3>1 DEF Placed
    <3> QED
      BY <1>7, <2>1, <3>2
  <2> QED
    BY <2>2, <2>3
<1> QED
  BY <1>2, <1>8, <1>10 DEF FallbackInv, UnderWay

\* The head of the queue starts, with its next key; g is its circuit.
Entered(g, h) ==
    /\ MayStart
    /\ g \in {health[Head(decision.queue)], Refreshed[Head(decision.queue)]}
    /\ h = [health EXCEPT ![Head(decision.queue)] = g]
    /\ decision' = [decision EXCEPT !.queue = Tail(@), !.workers = Sent(@, h, Head(decision.queue))]
    /\ health' = NextKey(h, Head(decision.queue))
    /\ UNCHANGED <<clock, streak>>

LEMMA StartKeeps ==
  ASSUME FallbackInv, NEW g, NEW h, Entered(g, h) PROVE FallbackInv'
<1>0. /\ MayStart /\ g \in {health[Head(decision.queue)], Refreshed[Head(decision.queue)]}
      /\ h = [health EXCEPT ![Head(decision.queue)] = g]
      /\ decision' = [decision EXCEPT !.queue = Tail(@), !.workers = Sent(@, h, Head(decision.queue))]
      /\ health' = NextKey(h, Head(decision.queue)) /\ clock' = clock /\ streak' = streak
  BY DEF Entered
<1>1. decision.pc = "asking" /\ decision.queue # << >> /\ decision.winner = "none"
  BY <1>0 DEF MayStart
<1>2. UnderWay(decision, health, streak) /\ WellFormed(decision) /\ Circuits(health, streak) /\ clock \in Nat
  <2>1. decision # NoDecision
    BY <1>1 DEF NoDecision
  <2> QED
    BY <2>1 DEF FallbackInv, UnderWay
<1>3. PICK p, q : p = Head(decision.queue) /\ q = Tail(decision.queue)
  OBVIOUS
<1>4. /\ q \in Seq(Specs) /\ NoRepeat(q) /\ p \in Specs /\ p \in Range(decision.queue) /\ p \notin Range(q)
      /\ \A x : x \in Range(decision.queue) <=> x = p \/ x \in Range(q)
  BY <1>1, <1>2, <1>3, TailOnce DEF WellFormed
<1> DEFINE w == decision.workers[p]
           nk == IF Keys[p] = 0 THEN 0 ELSE (g.key + 1) % Keys[p]
           x == [state |-> "calling", attempt |-> w.attempt + 1, used |-> w.used \cup {KeyAt(h, p)}]
           k == [failures |-> g.failures, open_until |-> g.open_until, key |-> nk]
<1>5. /\ g = [failures |-> g.failures, open_until |-> g.open_until, key |-> g.key]
      /\ g.failures \in Nat /\ g.open_until \in Int /\ g.key \in Nat
      /\ Circuit(p, g, streak[p]) /\ g.key = health[p].key
      /\ streak[p] \in Nat /\ health = [r \in Specs |-> health[r]] /\ streak = [r \in Specs |-> streak[r]]
  <2>1. Circuits(Refreshed, streak) /\ Refreshed[p].key = health[p].key
    BY <1>2, <1>4, RefreshedFacts
  <2>2. CASE g = health[p]
    BY <1>2, <1>4, <2>2, HealthRecord
  <2>3. CASE g = Refreshed[p]
    <3>1. streak[p] \in Nat /\ health = [r \in Specs |-> health[r]] /\ streak = [r \in Specs |-> streak[r]]
      BY <1>2, <1>4, HealthRecord
    <3> QED
      BY <1>4, <2>1, <2>3, <3>1, HealthRecord
  <2> QED
    BY <1>0, <1>3, <2>2, <2>3
<1>6. health' = [health EXCEPT ![p] = k]
  <2>1. h = [r \in Specs |-> IF r = p THEN g ELSE health[r]]
    BY <1>0, <1>3, <1>5
  <2>2. [g EXCEPT !.key = nk] = k
    <3> HIDE DEF nk
    <3>1. PICK a, b, c : a = g.failures /\ b = g.open_until /\ c = g.key
      OBVIOUS
    <3>2. g = [failures |-> a, open_until |-> b, key |-> c]
      BY <1>5, <3>1
    <3>3. [g EXCEPT !.key = nk] = [failures |-> a, open_until |-> b, key |-> nk]
      BY <3>2
    <3> QED
      BY <3>1, <3>3
  <2>3. NextKey(h, p) = [h EXCEPT ![p] = [g EXCEPT !.key = nk]]
    BY <2>1, <1>4 DEF NextKey
  <2> HIDE DEF k
  <2>4. health' = [h EXCEPT ![p] = k]
    BY <1>0, <1>3, <2>2, <2>3
  <2>5. [h EXCEPT ![p] = k] = [r \in Specs |-> IF r = p THEN k ELSE health[r]]
    BY <2>1
  <2>6. [health EXCEPT ![p] = k] = [r \in Specs |-> IF r = p THEN k ELSE health[r]]
    BY <1>5
  <2> QED
    BY <2>4, <2>5, <2>6
<1>7. streak' = [streak EXCEPT ![p] = streak[p]]
  BY <1>0, <1>5
<1>8. nk \in Nat /\ IF Keys[p] = 0 THEN nk = 0 ELSE nk \in 0 .. Keys[p] - 1
  <2>1. IF Keys[p] = 0 THEN g.key = 0 ELSE g.key \in 0 .. Keys[p] - 1
    BY <1>5 DEF Circuit
  <2> QED
    BY <1>4, <2>1, NextOfPool
<1>9. k \in [failures : Nat, open_until : Int, key : Nat] /\ Circuit(p, k, streak[p])
  <2> HIDE DEF nk
  <2>1. k \in [failures : Nat, open_until : Int, key : Nat]
    BY <1>5, <1>8
  <2>2. k.failures = g.failures /\ k.open_until = g.open_until /\ k.key = nk
    OBVIOUS
  <2> HIDE DEF k
  <2>3. Circuit(p, k, streak[p])
    BY <1>5, <1>8, <2>2 DEF Circuit
  <2> QED
    BY <2>1, <2>3
<1>10. Circuits(health', streak')
  <2>1. p \in Specs /\ streak[p] \in Nat /\ Circuits(health, streak)
    BY <1>2, <1>4, <1>5
  <2>2. PICK kk, n : kk = k /\ n = streak[p]
    OBVIOUS
  <2> HIDE DEF k
  <2>3. /\ kk \in [failures : Nat, open_until : Int, key : Nat] /\ n \in Nat /\ Circuit(p, kk, n)
        /\ health' = [health EXCEPT ![p] = kk] /\ streak' = [streak EXCEPT ![p] = n]
    BY <1>6, <1>7, <1>9, <2>1, <2>2
  <2> QED
    BY <2>1, <2>3, OneCircuit
<1>11. /\ Placed(decision, p, streak[p]) /\ Rotated(p, w, g.key)
       /\ w.state = "none" /\ w.attempt = 0 /\ p \notin decision.skipped
  <2>1. Placed(decision, p, streak[p]) /\ Rotated(p, w, g.key)
    BY <1>2, <1>4, <1>5 DEF UnderWay
  <2> QED
    BY <1>4, <2>1 DEF Placed, Rotated
<1>12. Rotated(p, x, k.key)
  <2>1. w.attempt < Attempts(p)
    BY <1>4, <1>11, AttemptsFacts
  <2>2. h[p] = g
    BY <1>0, <1>3, <1>4, <1>5
  <2>3. x.used = w.used \cup {IF Keys[p] = 0 THEN "anonymous" ELSE Pool(p)[g.key + 1]}
    BY <2>2 DEF KeyAt
  <2> HIDE DEF w
  <2>4. x.state = "calling" /\ x.attempt = w.attempt + 1
    OBVIOUS
  <2>5. k.key = IF Keys[p] = 0 THEN 0 ELSE (g.key + 1) % Keys[p]
    OBVIOUS
  <2>6. p \in Specs /\ Rotated(p, w, g.key)
    BY <1>4, <1>11
  <2> HIDE DEF x, k, nk
  <2>7. PICK l : l = g.key
    OBVIOUS
  <2>8. Rotated(p, x, IF Keys[p] = 0 THEN 0 ELSE (l + 1) % Keys[p])
    BY <2>1, <2>3, <2>4, <2>6, <2>7, RotatedOnce
  <2> QED
    BY <2>5, <2>7, <2>8
<1>13. decision' = [pc |-> decision.pc, mode |-> decision.mode, queue |-> q, winner |-> decision.winner,
                    workers |-> [decision.workers EXCEPT ![p] = x], skipped |-> decision.skipped]
  <2>1. decision = [pc |-> decision.pc, mode |-> decision.mode, queue |-> decision.queue,
                    winner |-> decision.winner, workers |-> decision.workers,
                    skipped |-> decision.skipped]
    BY <1>2 DEF WellFormed
  <2>2. PICK ws : ws = Sent(decision.workers, h, p)
    OBVIOUS
  <2>3. ws = [decision.workers EXCEPT ![p] = x]
    BY <2>2 DEF Sent
  <2> HIDE DEF x
  <2>4. PICK d : d = [decision EXCEPT !.queue = q]
    OBVIOUS
  <2>5. d = [pc |-> decision.pc, mode |-> decision.mode, queue |-> q, winner |-> decision.winner,
             workers |-> decision.workers, skipped |-> decision.skipped]
    BY <2>1, <2>4
  <2>6. decision' = [d EXCEPT !.workers = ws]
    BY <1>0, <1>3, <2>1, <2>2, <2>4, <2>5
  <2> QED
    BY <2>3, <2>5, <2>6
<1>14. x = [state |-> x.state, attempt |-> x.attempt, used |-> x.used] /\ x.state # "none"
  OBVIOUS
<1> HIDE DEF x, k
<1>15. UnderWay(decision', health', streak')
  <2>1. \A r \in Specs : r # p => (r \in Range(q) <=> r \in Range(decision.queue))
    BY <1>4
  <2>2. /\ UnderWay(decision, health, streak) /\ decision.pc = "asking" /\ p \in Specs
        /\ q \in Seq(Specs) /\ NoRepeat(q) /\ p \notin Range(q) /\ p \notin decision.skipped
        /\ health = [r \in Specs |-> health[r]] /\ streak = [r \in Specs |-> streak[r]]
    BY <1>1, <1>2, <1>4, <1>5, <1>11
  <2>3. PICK n : n = streak[p]
    OBVIOUS
  <2>4. streak' = [streak EXCEPT ![p] = n]
    BY <1>7, <2>3
  <2>5. PICK kk, xx : kk = k /\ xx = x
    OBVIOUS
  <2>6. /\ health' = [health EXCEPT ![p] = kk] /\ Rotated(p, xx, kk.key)
        /\ xx = [state |-> xx.state, attempt |-> xx.attempt, used |-> xx.used] /\ xx.state # "none"
        /\ decision' = [pc |-> decision.pc, mode |-> decision.mode, queue |-> q, winner |-> decision.winner,
                        workers |-> [decision.workers EXCEPT ![p] = xx], skipped |-> decision.skipped]
    BY <1>6, <1>12, <1>13, <1>14, <2>5
  <2> QED
    BY <2>1, <2>2, <2>4, <2>6, WorkGoesOn
<1> QED
  BY <1>0, <1>2, <1>10, <1>15 DEF FallbackInv

LEMMA StartNextKeeps ==
  ASSUME FallbackInv, StartNext PROVE FallbackInv'
<1> DEFINE p == Head(decision.queue)
           h == IF decision.mode = "sequential" THEN [health EXCEPT ![p] = Refreshed[p]] ELSE health
<1>1. MayStart /\ clock' = clock /\ streak' = streak
  BY DEF StartNext
<1>2. CASE decision.mode = "sequential" /\ Open(p)
  <2>1. /\ decision' = [decision EXCEPT !.queue = Tail(@), !.skipped = @ \cup {Head(decision.queue)}]
        /\ health' = health
    BY <1>2 DEF StartNext
  <2> QED
    BY <1>1, <1>2, <2>1, SkipKeeps
<1>3. CASE ~(decision.mode = "sequential" /\ Open(p))
  <2>1. /\ decision' = [decision EXCEPT !.queue = Tail(@), !.workers = Sent(@, h, Head(decision.queue))]
        /\ health' = NextKey(h, Head(decision.queue))
    BY <1>3 DEF StartNext
  <2>2. PICK g : /\ g \in {health[Head(decision.queue)], Refreshed[Head(decision.queue)]}
                 /\ h = [health EXCEPT ![Head(decision.queue)] = g]
    <3>1. CASE decision.mode = "sequential"
      BY <3>1
    <3>2. CASE decision.mode # "sequential"
      <4>1. health = [health EXCEPT ![Head(decision.queue)] = health[Head(decision.queue)]]
        BY DEF FallbackInv, Circuits
      <4> QED
        BY <3>2, <4>1
    <3> QED
      BY <3>1, <3>2
  <2> HIDE DEF h
  <2>3. Entered(g, h)
    BY <1>1, <2>1, <2>2 DEF Entered
  <2> QED
    BY <2>3, StartKeeps
<1> QED
  BY <1>2, <1>3

\* A step that leaves the circuits and the workers of a decision as they are.
LEMMA PlacesKept ==
  ASSUME FallbackInv, decision.pc = "asking", NEW pc, NEW q, NEW v,
         q \in Seq(Specs), NoRepeat(q), \A p \in Specs : p \in Range(q) => p \in Range(decision.queue),
         \A p \in Specs : v = "none" =>
            (p \in Range(decision.queue) => p \in Range(q)) /\ decision.winner = "none",
         \A p \in Specs : pc = "returned" =>
            /\ p \notin Range(q) /\ decision.workers[p].state # "calling"
            /\ v = "none" => decision.workers[p].state # "ok",
         decision' = [pc |-> pc, mode |-> decision.mode, queue |-> q, winner |-> v,
                      workers |-> decision.workers, skipped |-> decision.skipped],
         health' = health, streak' = streak, clock' = clock
  PROVE  FallbackInv'
<1>1. UnderWay(decision, health, streak) /\ WellFormed(decision) /\ Circuits(health, streak) /\ clock \in Nat
  <2>1. decision # NoDecision
    BY DEF NoDecision
  <2> QED
    BY <2>1 DEF FallbackInv, UnderWay
<1>2. PICK e, m, ws, sk : e = decision' /\ m = decision.mode /\ ws = decision.workers /\ sk = decision.skipped
  OBVIOUS
<1>3. e = [pc |-> pc, mode |-> m, queue |-> q, winner |-> v, workers |-> ws, skipped |-> sk]
  BY <1>2
<1>4. /\ e.pc = pc /\ e.mode = m /\ e.queue = q /\ e.winner = v /\ e.workers = ws /\ e.skipped = sk
      /\ e = [pc |-> e.pc, mode |-> e.mode, queue |-> e.queue, winner |-> e.winner,
              workers |-> e.workers, skipped |-> e.skipped]
  BY <1>3
<1>5. WellFormed(e)
  <2>1. /\ ws = [r \in Specs |-> ws[r]]
        /\ \A r \in Specs : ws[r] = [state |-> ws[r].state, attempt |-> ws[r].attempt, used |-> ws[r].used]
    BY <1>1, <1>2 DEF WellFormed
  <2> QED
    BY <1>4, <2>1 DEF WellFormed
<1>6. ASSUME NEW r \in Specs
      PROVE  Placed(e, r, streak[r]) /\ Rotated(r, e.workers[r], health[r].key)
  <2>1. Placed(decision, r, streak[r]) /\ Rotated(r, decision.workers[r], health[r].key)
    BY <1>1 DEF UnderWay
  <2>2. /\ r \in Range(q) => r \in Range(decision.queue)
        /\ v = "none" => (r \in Range(decision.queue) => r \in Range(q)) /\ decision.winner = "none"
        /\ pc = "returned" =>
              /\ r \notin Range(q) /\ decision.workers[r].state # "calling"
              /\ v = "none" => decision.workers[r].state # "ok"
    OBVIOUS
  <2>3. Placed(e, r, streak[r])
    BY <1>2, <1>4, <2>1, <2>2 DEF Placed
  <2> QED
    BY <1>2, <1>4, <2>1, <2>3
<1> QED
  BY <1>1, <1>2, <1>5, <1>6 DEF FallbackInv, UnderWay

LEMMA ChooseKeeps ==
  ASSUME FallbackInv, NEW p \in Specs, Choose(p) PROVE FallbackInv'
<1>1. /\ decision.pc = "asking" /\ decision' = [decision EXCEPT !.winner = p, !.queue = << >>]
      /\ UNCHANGED <<clock, health, streak>>
  BY DEF Choose
<1>2. WellFormed(decision)
  <2>1. decision # NoDecision
    BY <1>1 DEF NoDecision
  <2> QED
    BY <2>1 DEF FallbackInv, UnderWay
<1>3. decision' = [pc |-> "asking", mode |-> decision.mode, queue |-> << >>, winner |-> p,
                   workers |-> decision.workers, skipped |-> decision.skipped]
  <2>1. PICK m, q, v, ws, sk : m = decision.mode /\ q = decision.queue /\ v = decision.winner
                               /\ ws = decision.workers /\ sk = decision.skipped
    OBVIOUS
  <2>2. decision = [pc |-> "asking", mode |-> m, queue |-> q, winner |-> v, workers |-> ws, skipped |-> sk]
    BY <1>1, <1>2, <2>1 DEF WellFormed
  <2>3. PICK d : d = [decision EXCEPT !.winner = p]
    OBVIOUS
  <2>4. d = [pc |-> "asking", mode |-> m, queue |-> q, winner |-> p, workers |-> ws, skipped |-> sk]
    BY <2>2, <2>3
  <2>5. decision' = [d EXCEPT !.queue = << >>]
    BY <1>1, <2>3
  <2>6. [d EXCEPT !.queue = << >>] =
           [pc |-> "asking", mode |-> m, queue |-> << >>, winner |-> p, workers |-> ws, skipped |-> sk]
    BY <2>4
  <2> QED
    BY <2>1, <2>5, <2>6
<1>4. << >> \in Seq(Specs) /\ NoRepeat(<< >>) /\ \A r : r \notin Range(<< >>)
  BY DEF NoRepeat, Range
<1>5. p # "none"
  BY ChainFacts
<1> HIDE DEF Choose
<1>6. \A r \in Specs : p = "none" =>
            (r \in Range(decision.queue) => r \in Range(<< >>)) /\ decision.winner = "none"
  BY <1>5
<1>7. \A r \in Specs : r \in Range(<< >>) => r \in Range(decision.queue)
  BY <1>4
<1>8. PICK q, pc : q = << >> /\ pc = "asking"
  OBVIOUS
<1>9. \A r \in Specs : pc = "returned" =>
            /\ r \notin Range(q) /\ decision.workers[r].state # "calling"
            /\ p = "none" => decision.workers[r].state # "ok"
  BY <1>8
<1>10. /\ q \in Seq(Specs) /\ NoRepeat(q) /\ \A r \in Specs : r \in Range(q) => r \in Range(decision.queue)
       /\ \A r \in Specs : p = "none" =>
            (r \in Range(decision.queue) => r \in Range(q)) /\ decision.winner = "none"
       /\ decision' = [pc |-> pc, mode |-> decision.mode, queue |-> q, winner |-> p,
                      workers |-> decision.workers, skipped |-> decision.skipped]
  BY <1>3, <1>4, <1>6, <1>7, <1>8
<1>11. decision.pc = "asking" /\ health' = health /\ streak' = streak /\ clock' = clock
  BY <1>1
<1> QED
  BY <1>9, <1>10, <1>11, PlacesKept

LEMMA ReturnKeeps ==
  ASSUME FallbackInv, Return PROVE FallbackInv'
<1>1. /\ decision.pc = "asking" /\ decision.queue = << >> /\ Calling = {}
      /\ Succeeded # {} => decision.winner # "none"
      /\ decision' = [decision EXCEPT !.pc = "returned"]
      /\ health' = health /\ streak' = streak /\ clock' = clock
  BY DEF Return
<1>2. WellFormed(decision)
  <2>1. decision # NoDecision
    BY <1>1 DEF NoDecision
  <2> QED
    BY <2>1 DEF FallbackInv, UnderWay
<1>3. PICK pc, q, v : pc = "returned" /\ q = decision.queue /\ v = decision.winner
  OBVIOUS
<1>4. decision' = [pc |-> pc, mode |-> decision.mode, queue |-> q, winner |-> v,
                   workers |-> decision.workers, skipped |-> decision.skipped]
  <2>1. PICK a, m, ws, sk : a = decision.pc /\ m = decision.mode /\ ws = decision.workers
                            /\ sk = decision.skipped
    OBVIOUS
  <2>2. decision = [pc |-> a, mode |-> m, queue |-> q, winner |-> v, workers |-> ws, skipped |-> sk]
    BY <1>2, <1>3, <2>1 DEF WellFormed
  <2>3. [decision EXCEPT !.pc = pc] =
           [pc |-> pc, mode |-> m, queue |-> q, winner |-> v, workers |-> ws, skipped |-> sk]
    BY <2>2
  <2> QED
    BY <1>1, <1>3, <2>1, <2>3
<1>5. q \in Seq(Specs) /\ NoRepeat(q)
  BY <1>2, <1>3 DEF WellFormed
<1>6. ASSUME NEW p \in Specs
      PROVE  /\ p \notin Range(q) /\ decision.workers[p].state # "calling"
             /\ v = "none" => decision.workers[p].state # "ok"
  <2>1. p \notin Range(q)
    BY <1>1, <1>3 DEF Range
  <2>2. decision.workers[p].state # "calling"
    BY <1>1 DEF Calling
  <2>3. v = "none" => decision.workers[p].state # "ok"
    BY <1>1, <1>3 DEF Succeeded
  <2> QED
    BY <2>1, <2>2, <2>3
<1>7. /\ \A p \in Specs : p \in Range(q) => p \in Range(decision.queue)
      /\ \A p \in Specs : v = "none" =>
            (p \in Range(decision.queue) => p \in Range(q)) /\ decision.winner = "none"
      /\ \A p \in Specs : pc = "returned" =>
            /\ p \notin Range(q) /\ decision.workers[p].state # "calling"
            /\ v = "none" => decision.workers[p].state # "ok"
  BY <1>3, <1>6
<1>8. decision.pc = "asking" /\ health' = health /\ streak' = streak /\ clock' = clock
  BY <1>1
<1> QED
  BY <1>4, <1>5, <1>7, <1>8, PlacesKept

LEMMA FallbackSteps ==
  FallbackInv /\ [FallbackStep]_fallbackVars => FallbackInv'
<1> SUFFICES ASSUME FallbackInv, [FallbackStep]_fallbackVars PROVE FallbackInv'
  OBVIOUS
<1>1. ASSUME NEW mode \in RaceModes, Ask(mode) PROVE FallbackInv'
  BY <1>1, AskKeeps
<1>2. CASE StartNext
  BY <1>2, StartNextKeeps
<1>3. CASE Return
  BY <1>3, ReturnKeeps
<1>4. CASE Done
  BY <1>4 DEF Done, FallbackInv
<1>5. CASE Tick
  <2>1. clock' \in Nat /\ UNCHANGED <<health, decision, streak>>
    BY <1>5 DEF Tick, FallbackInv
  <2> QED
    BY <2>1 DEF FallbackInv
<1>6. ASSUME NEW p \in Specs, ReplyOk(p) PROVE FallbackInv'
  BY <1>6, ReplyOkKeeps
<1>7. ASSUME NEW p \in Specs, Choose(p) PROVE FallbackInv'
  BY <1>7, ChooseKeeps
<1>8. ASSUME NEW p \in Specs, NEW refused \in BOOLEAN, ReplyFails(p, refused) PROVE FallbackInv'
  BY <1>8, RefusalKeeps
<1>9. CASE UNCHANGED fallbackVars
  BY <1>9 DEF fallbackVars, FallbackInv
<1> QED
  BY <1>1, <1>2, <1>3, <1>4, <1>5, <1>6, <1>7, <1>8, <1>9 DEF FallbackStep

\* smart_fallback_reasoner.py:5-9: standing aside means that every provider is
\* out, and none is counted out without its streak of failures.
THEOREM FallbackSound ==
  FallbackInit /\ [][FallbackStep]_fallbackVars => []FallbackIsSound
<1>1. FallbackInit => FallbackInv
  BY FallbackStarts
<1>2. FallbackInv /\ [FallbackStep]_fallbackVars => FallbackInv'
  BY FallbackSteps
<1>3. FallbackInv => FallbackIsSound
  BY FallbackShows
<1> QED
  BY <1>1, <1>2, <1>3, PTL

-----------------------------------------------------------------------------
(***************************************************************************)
(* PaperCampaign: the verdict of a campaign stands on the days of one run, *)
(* for any number of runners and days, crashes and cancellations.          *)
(* CapitalRamp: no capital is granted that was not earned.                 *)
(*                                                                         *)
(* The day's row is the lock: of all runs that begin only one can save day *)
(* 1, and only that one goes on. It is alone until its verdict is written, *)
(* and what the others still have to write carries no verdict. After the   *)
(* paper campaign, what is granted is bounded by the periods that were     *)
(* kept.                                                                   *)
(***************************************************************************)

Workers == Runners \cup {"operator"}
Actions == {"none", "advanced", "hold", "retired"}

DayJob == [pc : {"day", "save"}, day : 1 .. target_days, attempt : Nat \ {0}, evidence : CandidateEvidence]
FinishJob == [pc : {"finish"}, action : {"advanced", "hold", "retired"}, days : 1 .. target_days]

\* What is still to be written: a start that goes on with the first day, a
\* cancellation, or a verdict.
FirstDay == {j \in DayJob : j.pc = "day" /\ j.day = 1}
StartUpdate == [pc : {"set", "write"}, to : {"running"}, action : Actions, days : Nat, next : FirstDay]
CancelUpdate == [pc : {"set", "write"}, to : {"cancelled"}, action : Actions, days : Nat, next : {Rest}]
VerdictUpdate == [pc : {"set", "write"}, to : {"completed", "retired"}, action : Actions,
                  days : 1 .. target_days, next : {Rest}]

CampaignTypeOK ==
    /\ campaign \in [status : CampaignStatus, action : Actions, days_run : Nat]
    /\ outcomes \in [1 .. target_days -> Nat]
    /\ job \in [Workers -> {Rest} \cup DayJob \cup FinishJob \cup StartUpdate \cup CancelUpdate \cup VerdictUpdate]
    /\ attempts \in Nat

\* The worker has saved a day and has not yet written what came of it.
Past(w) == \/ job[w] \in DayJob /\ job[w].day > 1
           \/ job[w] \in FinishJob \cup VerdictUpdate

\* The days 1 to n are saved, all by one run, and no other day is.
Filled(n) ==
    /\ \A d \in 1 .. target_days : outcomes[d] # 0 <=> d <= n
    /\ \A c, d \in 1 .. n : outcomes[c] = outcomes[d]

WorkerInv(w) ==
    /\ job[w] \in DayJob /\ job[w].day > 1 =>
          /\ Filled(job[w].day - 1)
          /\ outcomes[1] = job[w].attempt
    /\ job[w] \in FinishJob \cup VerdictUpdate => Filled(job[w].days)
    /\ job[w] \in FinishJob /\ job[w].action # "retired" => job[w].days = target_days
    /\ job[w] \in VerdictUpdate /\ job[w].to = "completed" => job[w].days = target_days

CampaignInv ==
    /\ CampaignTypeOK
    /\ \E n \in 0 .. target_days : Filled(n)
    /\ \A w \in Workers : WorkerInv(w)
    /\ \A v, w \in Workers : Past(v) /\ Past(w) => v = w
    /\ campaign.status \in {"completed", "retired"} =>
          /\ \A w \in Workers : ~Past(w)
          /\ campaign.days_run \in 1 .. target_days /\ Filled(campaign.days_run)
    /\ campaign.status = "completed" => campaign.days_run = target_days

-----------------------------------------------------------------------------
\* The kinds of jobs are told apart by pc and to.
LEMMA KindsApart ==
  ASSUME NEW j
  PROVE  /\ j \in {Rest} => j.pc = "idle"
         /\ j \in DayJob => j.pc \in {"day", "save"}
         /\ j \in FinishJob => j.pc = "finish"
         /\ j \in StartUpdate \cup CancelUpdate \cup VerdictUpdate => j.pc \in {"set", "write"}
         /\ j \in StartUpdate => j.to = "running"
         /\ j \in CancelUpdate => j.to = "cancelled"
         /\ j \in VerdictUpdate => j.to \in {"completed", "retired"}
  BY DEF Rest, DayJob, FinishJob, StartUpdate, CancelUpdate, VerdictUpdate

LEMMA CampaignInitially == CampaignInit => CampaignInv
<1> SUFFICES ASSUME CampaignInit PROVE CampaignInv
  OBVIOUS
<1>1. CampaignTypeOK
  BY TargetAssumption DEF CampaignInit, CampaignTypeOK, CampaignStatus, Actions, Workers
<1>2. \A w \in Workers : job[w] = Rest
  BY DEF CampaignInit, Workers
<1>3. \A w \in Workers : ~Past(w) /\ WorkerInv(w)
  BY <1>2, KindsApart DEF Past, WorkerInv
<1>4. 0 \in 0 .. target_days /\ Filled(0)
  BY TargetAssumption DEF CampaignInit, Filled
<1> QED
  BY <1>1, <1>3, <1>4 DEF CampaignInv, CampaignInit

\* A step of worker w that writes no day, leaves w with a job that is not past a
\* day, or one that keeps what w had found, and gives no verdict.
LEMMA QuietStep ==
  ASSUME CampaignInv, NEW w \in Workers, NEW j,
         job' = [job EXCEPT ![w] = j], UNCHANGED outcomes, CampaignTypeOK',
         Past(w)' => Past(w), WorkerInv(w)',
         \/ campaign' = campaign
         \/ campaign'.status \notin {"completed", "retired"}
  PROVE  CampaignInv'
<1>1. \A v \in Workers \ {w} : job'[v] = job[v]
  BY DEF CampaignInv, CampaignTypeOK
<1>2. \A v \in Workers : Past(v)' => Past(v)
  BY <1>1 DEF Past
<1>3. \A v \in Workers : WorkerInv(v)'
  BY <1>1 DEF CampaignInv, WorkerInv, Filled
<1>4. \A n : Filled(n)' <=> Filled(n)
  BY DEF Filled
<1> QED
  BY <1>2, <1>3, <1>4 DEF CampaignInv

LEMMA SetReadInv ==
  ASSUME CampaignInv, NEW w \in Workers, SetRead(w)
  PROVE  CampaignInv'
<1>1. CampaignTypeOK /\ WorkerInv(w) /\ job[w].pc = "set"
  BY DEF CampaignInv, SetRead
<1>2. job[w] \in StartUpdate \cup CancelUpdate \cup VerdictUpdate
  BY <1>1, KindsApart DEF CampaignTypeOK
<1>3. CASE campaign.status \in Terminal
  <2>1. job' = [job EXCEPT ![w] = Rest] /\ UNCHANGED <<campaign, outcomes, attempts>>
    BY <1>3 DEF SetRead
  <2>2. CampaignTypeOK' /\ job'[w] = Rest
    BY <1>1, <2>1 DEF CampaignTypeOK
  <2>3. ~Past(w)' /\ WorkerInv(w)'
    BY <2>2, KindsApart DEF Past, WorkerInv
  <2> QED
    BY <2>1, <2>2, <2>3, QuietStep
<1>4. CASE campaign.status \notin Terminal
  <2> DEFINE j == [job[w] EXCEPT !.pc = "write"]
  <2>1. job' = [job EXCEPT ![w] = j] /\ UNCHANGED <<campaign, outcomes, attempts>>
    BY <1>4 DEF SetRead
  <2>2. /\ job[w] \in VerdictUpdate => j \in VerdictUpdate
        /\ job[w] \in StartUpdate => j \in StartUpdate
        /\ job[w] \in CancelUpdate => j \in CancelUpdate
        /\ j.to = job[w].to /\ j.days = job[w].days /\ j.pc = "write"
    BY <1>2 DEF VerdictUpdate, StartUpdate, CancelUpdate
  <2>3. CampaignTypeOK' /\ job'[w] = j
    BY <1>1, <1>2, <2>1, <2>2 DEF CampaignTypeOK
  <2>4. j \notin DayJob \cup FinishJob /\ (j \in VerdictUpdate => job[w] \in VerdictUpdate)
    BY <1>2, <2>2, KindsApart
  <2>5. (Past(w)' => Past(w)) /\ WorkerInv(w)'
    BY <1>1, <2>1, <2>2, <2>3, <2>4 DEF Past, WorkerInv, Filled
  <2> QED
    BY <2>1, <2>3, <2>5, QuietStep
<1> QED
  BY <1>3, <1>4

LEMMA SetWriteInv ==
  ASSUME CampaignInv, NEW w \in Workers, SetWrite(w)
  PROVE  CampaignInv'
<1>1. CampaignTypeOK /\ WorkerInv(w) /\ job[w].pc = "write"
  BY DEF CampaignInv, SetWrite
<1>2. job[w] \in StartUpdate \cup CancelUpdate \cup VerdictUpdate
  BY <1>1, KindsApart DEF CampaignTypeOK
<1>3. /\ campaign' = [status |-> job[w].to, action |-> job[w].action, days_run |-> job[w].days]
      /\ job' = [job EXCEPT ![w] = job[w].next] /\ UNCHANGED <<outcomes, attempts>>
  BY DEF SetWrite
<1>4. job[w].next \in {Rest} \cup FirstDay
  BY <1>2 DEF StartUpdate, CancelUpdate, VerdictUpdate
<1>5. CampaignTypeOK' /\ job'[w] = job[w].next
  BY <1>1, <1>2, <1>3, <1>4 DEF CampaignTypeOK, StartUpdate, CancelUpdate, VerdictUpdate, FirstDay,
     CampaignStatus, Terminal
<1>6. ~Past(w)' /\ WorkerInv(w)'
  BY <1>4, <1>5, KindsApart DEF Past, WorkerInv, FirstDay
<1>7. CASE job[w] \in StartUpdate \cup CancelUpdate
  <2>1. campaign'.status \notin {"completed", "retired"}
    BY <1>3, <1>7, KindsApart
  <2> QED
    BY <1>3, <1>5, <1>6, <2>1, QuietStep
<1>8. CASE job[w] \in VerdictUpdate
  \* Nobody else is past a day, and the days are those that the verdict counts.
  <2>1. PICK n \in 1 .. target_days : n = job[w].days
    BY <1>8 DEF VerdictUpdate
  <2>0. /\ campaign'.days_run = n /\ Filled(n)
        /\ campaign'.status = job[w].to /\ (campaign'.status = "completed" => n = target_days)
    BY <1>1, <1>3, <1>8, <2>1 DEF WorkerInv
  <2>6. Filled(n)'
    BY <1>3, <2>0 DEF Filled
  <2>2. \A v \in Workers \ {w} : job'[v] = job[v] /\ ~Past(v)
    BY <1>1, <1>3, <1>8 DEF CampaignInv, CampaignTypeOK, Past
  <2>3. \A v \in Workers : ~Past(v)'
    BY <1>6, <2>2 DEF Past
  <2>4. \A v \in Workers : WorkerInv(v)'
    BY <1>3, <1>6, <2>2 DEF CampaignInv, WorkerInv, Filled
  <2>5. \E k \in 0 .. target_days : Filled(k)'
    BY <2>6
  <2> QED
    BY <1>5, <2>0, <2>3, <2>4, <2>5, <2>6 DEF CampaignInv
<1> QED
  BY <1>2, <1>7, <1>8

LEMMA RunCampaignInv ==
  ASSUME CampaignInv, NEW r \in Runners, NEW e \in BeforeCanary, RunCampaign(r, e)
  PROVE  CampaignInv'
<1> DEFINE days == [pc |-> "day", day |-> 1, attempt |-> attempts + 1, evidence |-> e]
<1>1. CampaignTypeOK /\ r \in Workers
  BY DEF CampaignInv, Workers
<1>2. days \in FirstDay
  BY <1>1, TargetAssumption DEF CampaignTypeOK, FirstDay, DayJob, BeforeCanary
<1>3. PICK j \in {Rest, days, Update("running", campaign.action, campaign.days_run, days)} :
          job' = [job EXCEPT ![r] = j]
  <2>1. CASE campaign.status \in Terminal
    BY <2>1 DEF RunCampaign, Terminal
  <2>2. CASE campaign.status = "running"
    BY <2>2 DEF RunCampaign, Terminal
  <2>3. CASE campaign.status \notin Terminal /\ campaign.status # "running"
    BY <2>3 DEF RunCampaign
  <2> QED
    BY <2>1, <2>2, <2>3
<1>4. Update("running", campaign.action, campaign.days_run, days) \in StartUpdate
  BY <1>1, <1>2 DEF CampaignTypeOK, Update, StartUpdate
<1>5. j \in {Rest} \cup FirstDay \cup StartUpdate
  BY <1>2, <1>3, <1>4
<1>6. UNCHANGED <<campaign, outcomes>> /\ attempts' = attempts + 1
  BY DEF RunCampaign
<1>7. CampaignTypeOK' /\ job'[r] = j
  BY <1>1, <1>3, <1>5, <1>6 DEF CampaignTypeOK, FirstDay
<1>8. ~Past(r)' /\ WorkerInv(r)'
  BY <1>5, <1>7, KindsApart DEF Past, WorkerInv, FirstDay
<1> QED
  BY <1>1, <1>3, <1>6, <1>7, <1>8, QuietStep

LEMMA BeginDayInv ==
  ASSUME CampaignInv, NEW r \in Runners, BeginDay(r)
  PROVE  CampaignInv'
<1>1. CampaignTypeOK /\ r \in Workers /\ WorkerInv(r) /\ job[r].pc = "day"
  BY DEF CampaignInv, Workers, BeginDay
<1>2. job[r] \in DayJob
  BY <1>1, KindsApart DEF CampaignTypeOK
<1>3. PICK j \in {Rest, [job[r] EXCEPT !.pc = "save"]} : job' = [job EXCEPT ![r] = j]
  BY DEF BeginDay
<1>4. UNCHANGED <<campaign, outcomes, attempts>>
  BY DEF BeginDay
<1>5. j \in {Rest} \cup DayJob /\ (j # Rest => j.day = job[r].day /\ j.attempt = job[r].attempt)
  BY <1>2, <1>3 DEF DayJob
<1>6. CampaignTypeOK' /\ job'[r] = j
  BY <1>1, <1>3, <1>4, <1>5 DEF CampaignTypeOK
<1>7. (Past(r)' => Past(r)) /\ WorkerInv(r)'
  BY <1>1, <1>2, <1>4, <1>5, <1>6, KindsApart DEF Past, WorkerInv, Filled
<1> QED
  BY <1>1, <1>3, <1>4, <1>6, <1>7, QuietStep

LEMMA FinishInv ==
  ASSUME CampaignInv, NEW r \in Runners, Finish(r)
  PROVE  CampaignInv'
<1>1. CampaignTypeOK /\ r \in Workers /\ WorkerInv(r) /\ job[r].pc = "finish"
  BY DEF CampaignInv, Workers, Finish
<1>2. job[r] \in FinishJob
  BY <1>1, KindsApart DEF CampaignTypeOK
<1> DEFINE u == Update(IF job[r].action = "retired" THEN "retired" ELSE "completed",
                       job[r].action, job[r].days, Rest)
<1>3. PICK j \in {Rest, u} : job' = [job EXCEPT ![r] = j]
  BY DEF Finish
<1>4. UNCHANGED <<campaign, outcomes, attempts>>
  BY DEF Finish
<1>5. /\ u \in VerdictUpdate /\ u.days = job[r].days
      /\ u.to = "completed" => job[r].action # "retired"
  BY <1>2 DEF Update, VerdictUpdate, FinishJob, Actions
<1>6. CampaignTypeOK' /\ job'[r] = j
  BY <1>1, <1>3, <1>4, <1>5 DEF CampaignTypeOK
<1>7. Past(r)
  BY <1>2 DEF Past
<1>8. WorkerInv(r)'
  <2>1. CASE j = Rest
    BY <1>6, <2>1, KindsApart DEF WorkerInv
  <2>2. CASE j = u
    <3>1. job'[r] \notin DayJob \cup FinishJob /\ job'[r].days = job[r].days
      BY <1>5, <1>6, <2>2, KindsApart
    <3>2. Filled(job[r].days) /\ (job'[r].to = "completed" => job[r].days = target_days)
      BY <1>1, <1>2, <1>5, <1>6, <2>2 DEF WorkerInv
    <3>3. PICK n : n = job[r].days
      OBVIOUS
    <3>4. Filled(n)'
      BY <1>4, <3>2, <3>3 DEF Filled
    <3> QED
      BY <3>1, <3>2, <3>3, <3>4 DEF WorkerInv
  <2> QED
    BY <1>3, <2>1, <2>2
<1> QED
  BY <1>1, <1>3, <1>4, <1>6, <1>7, <1>8, QuietStep

LEMMA CancelInv ==
  ASSUME CampaignInv, CancelCampaign
  PROVE  CampaignInv'
<1> DEFINE j == Update("cancelled", campaign.action, campaign.days_run, Rest)
<1>1. CampaignTypeOK /\ "operator" \in Workers /\ job' = [job EXCEPT !["operator"] = j]
      /\ UNCHANGED <<campaign, outcomes, attempts>>
  BY DEF CampaignInv, Workers, CancelCampaign
<1>2. j \in CancelUpdate
  BY <1>1 DEF CampaignTypeOK, Update, CancelUpdate
<1>3. CampaignTypeOK' /\ job'["operator"] = j
  BY <1>1, <1>2 DEF CampaignTypeOK
<1>4. ~Past("operator")' /\ WorkerInv("operator")'
  BY <1>2, <1>3, KindsApart DEF Past, WorkerInv
<1> QED
  BY <1>1, <1>3, <1>4, QuietStep

LEMMA DiesInv ==
  ASSUME CampaignInv, ProcessDies
  PROVE  CampaignInv'
<1>1. CampaignTypeOK
  BY DEF CampaignInv
<1>2. UNCHANGED <<campaign, outcomes, attempts>> /\ job' = [w \in Workers |-> Rest]
  BY <1>1 DEF ProcessDies, CampaignTypeOK
<1>3. CampaignTypeOK'
  BY <1>1, <1>2 DEF CampaignTypeOK
<1>4. \A w \in Workers : ~Past(w)' /\ WorkerInv(w)'
  BY <1>2, KindsApart DEF Past, WorkerInv
<1>5. \A n : Filled(n)' <=> Filled(n)
  BY <1>2 DEF Filled
<1> QED
  BY <1>2, <1>3, <1>4, <1>5 DEF CampaignInv

-----------------------------------------------------------------------------
(* The day is saved.                                                       *)

LEMMA SaveDayInv ==
  ASSUME CampaignInv, NEW r \in Runners, NEW m \in DeploymentMonitor, NEW sharpe \in BOOLEAN,
         SaveDay(r, m, sharpe)
  PROVE  CampaignInv'
<1> DEFINE d == job[r].day
           j == Judge(job[r], m, sharpe)
<1>1. CampaignTypeOK /\ r \in Workers /\ WorkerInv(r) /\ job[r].pc = "save"
  BY DEF CampaignInv, Workers, SaveDay
<1>2. job[r] \in DayJob /\ d \in 1 .. target_days /\ job[r].attempt \in Nat \ {0}
  <2>1. job[r] \in DayJob
    BY <1>1, KindsApart DEF CampaignTypeOK
  <2> QED
    BY <2>1 DEF DayJob
<1>3. CASE Recorded(d)
  <2>1. job' = [job EXCEPT ![r] = Rest] /\ UNCHANGED <<outcomes, campaign, attempts>>
    BY <1>3 DEF SaveDay
  <2>2. CampaignTypeOK' /\ job'[r] = Rest
    BY <1>1, <2>1 DEF CampaignTypeOK
  <2>3. ~Past(r)' /\ WorkerInv(r)'
    BY <2>2, KindsApart DEF Past, WorkerInv
  <2> QED
    BY <1>1, <2>1, <2>2, <2>3, QuietStep
<1>4. CASE ~Recorded(d)
  <2>1. /\ outcomes' = [outcomes EXCEPT ![d] = job[r].attempt]
        /\ job' = [job EXCEPT ![r] = j] /\ UNCHANGED <<campaign, attempts>>
    BY <1>4 DEF SaveDay
  <2>2. outcomes[d] = 0 /\ Filled(d - 1) /\ (d > 1 => outcomes[1] = job[r].attempt)
    <3>1. CASE d > 1
      BY <1>1, <1>2, <1>4, <3>1 DEF Recorded, WorkerInv
    <3>2. CASE d = 1
      <4>1. PICK n \in 0 .. target_days : Filled(n)
        BY DEF CampaignInv
      <4>2. outcomes[1] = 0
        BY <1>4, <3>2 DEF Recorded
      <4>3. n = 0
        BY <1>2, <3>2, <4>1, <4>2 DEF Filled
      <4> QED
        BY <3>2, <4>1, <4>2, <4>3
    <3> QED
      BY <1>2, <3>1, <3>2
  \* With the day saved the days up to it are there, all of this run.
  <2>3. ASSUME NEW n, n = d PROVE Filled(n)' /\ outcomes'[1] = job[r].attempt
    BY <1>1, <1>2, <2>1, <2>2, <2>3, TargetAssumption DEF CampaignTypeOK, Filled
  \* Nobody else is past a day: its days would be there, and this one too.
  <2>4. \A v \in Workers \ {r} : ~Past(v) /\ job'[v] = job[v]
    <3> SUFFICES ASSUME NEW v \in Workers \ {r}, Past(v) PROVE FALSE
      BY <1>1, <2>1 DEF CampaignTypeOK
    <3>1. CASE d > 1
      BY <1>1, <1>2, <3>1 DEF Past, CampaignInv
    <3>2. CASE d = 1
      <4>1. outcomes[1] = 0
        BY <2>2, <3>2
      <4>2. CASE job[v] \in DayJob /\ job[v].day > 1
        BY <4>1, <4>2, TargetAssumption DEF CampaignInv, WorkerInv, Filled, DayJob
      <4>3. CASE job[v] \in FinishJob \cup VerdictUpdate
        BY <4>1, <4>3, TargetAssumption DEF CampaignInv, WorkerInv, Filled, FinishJob, VerdictUpdate
      <4> QED
        BY <4>2, <4>3 DEF Past
    <3> QED
      BY <1>2, <3>1, <3>2
  <2>5. \/ j = [job[r] EXCEPT !.pc = "day", !.day = d + 1] /\ d < target_days
        \/ j \in FinishJob /\ j.days = d /\ (j.action = "retired" \/ d = target_days)
    <3>1. CASE rollback_required(m)
      <4>1. j = [pc |-> "finish", action |-> "retired", days |-> d]
        BY <3>1 DEF Judge
      <4> QED
        BY <1>2, <4>1 DEF FinishJob
    <3>2. CASE ~rollback_required(m) /\ d < target_days
      BY <3>2 DEF Judge
    <3>3. CASE ~rollback_required(m) /\ ~(d < target_days)
      <4>1. PICK a \in {"advanced", "hold"} : j = [pc |-> "finish", days |-> d, action |-> a]
        BY <3>3 DEF Judge
      <4> QED
        BY <1>2, <3>3, <4>1, TargetAssumption DEF FinishJob
    <3> QED
      BY <3>1, <3>2, <3>3
  <2>6. \/ j \in DayJob /\ j.day = d + 1 /\ j.attempt = job[r].attempt
        \/ j \in FinishJob /\ j.days = d /\ (j.action = "retired" \/ d = target_days)
    <3>1. CASE j = [job[r] EXCEPT !.pc = "day", !.day = d + 1] /\ d < target_days
      <4>1. d + 1 \in 1 .. target_days
        BY <1>2, <3>1, TargetAssumption
      <4>2. j = [pc |-> "day", day |-> d + 1, attempt |-> job[r].attempt, evidence |-> job[r].evidence]
        BY <1>2, <3>1 DEF DayJob
      <4> QED
        BY <1>2, <4>1, <4>2 DEF DayJob
    <3> QED
      BY <2>5, <3>1
  <2>7. CampaignTypeOK' /\ job'[r] = j
    BY <1>1, <1>2, <2>1, <2>6 DEF CampaignTypeOK
  <2>8. WorkerInv(r)'
    <3>1. PICK n : n = d
      OBVIOUS
    <3>2. Filled(n)' /\ outcomes'[1] = job[r].attempt
      BY <2>3, <3>1
    <3>3. CASE j \in DayJob /\ j.day = d + 1 /\ j.attempt = job[r].attempt
      <4>1. job'[r].day - 1 = n /\ job'[r] \notin FinishJob \cup VerdictUpdate
        BY <1>2, <2>7, <3>1, <3>3, KindsApart
      <4> QED
        BY <2>7, <3>2, <3>3, <4>1 DEF WorkerInv
    <3>4. CASE j \in FinishJob /\ j.days = d /\ (j.action = "retired" \/ d = target_days)
      <4>1. job'[r].days = n /\ job'[r] \notin DayJob \cup VerdictUpdate
        BY <2>7, <3>1, <3>4, KindsApart
      <4> QED
        BY <2>7, <3>1, <3>2, <3>4, <4>1 DEF WorkerInv
    <3> QED
      BY <2>6, <3>3, <3>4
  <2>9. \A v \in Workers : WorkerInv(v)' /\ (v # r => ~Past(v)')
    <3>1. ASSUME NEW v \in Workers \ {r} PROVE ~Past(v)' /\ WorkerInv(v)'
      <4>1. ~Past(v)'
        BY <2>4, <3>1 DEF Past
      <4> QED
        BY <4>1 DEF Past, WorkerInv
    <3> QED
      BY <2>8, <3>1
  <2>10. \E n \in 0 .. target_days : Filled(n)'
    BY <1>2, <2>3
  \* A campaign that had its verdict would have had all its days.
  <2>11. campaign'.status \notin {"completed", "retired"}
    <3> SUFFICES ASSUME campaign.status \in {"completed", "retired"} PROVE FALSE
      BY <2>1
    <3>1. ~Past(r) /\ campaign.days_run \in 1 .. target_days /\ Filled(campaign.days_run)
      BY <1>1 DEF CampaignInv
    <3>2. d = 1
      BY <1>2, <3>1 DEF Past
    <3> QED
      BY <2>2, <3>1, <3>2, TargetAssumption DEF Filled
  <2> QED
    BY <2>7, <2>9, <2>10, <2>11 DEF CampaignInv
<1> QED
  BY <1>3, <1>4

-----------------------------------------------------------------------------
LEMMA CampaignPreserved == CampaignInv /\ [CampaignStep]_campaignVars => CampaignInv'
<1> SUFFICES ASSUME CampaignInv, [CampaignStep]_campaignVars PROVE CampaignInv'
  OBVIOUS
<1>1. ASSUME NEW w \in DOMAIN job, SetRead(w) \/ SetWrite(w) PROVE CampaignInv'
  <2>1. w \in Workers
    BY <1>1 DEF CampaignInv, CampaignTypeOK
  <2> QED
    BY <1>1, <2>1, SetReadInv, SetWriteInv
<1>2. ASSUME NEW r \in Runners, NEW e \in BeforeCanary, RunCampaign(r, e) PROVE CampaignInv'
  BY <1>2, RunCampaignInv
<1>3. ASSUME NEW r \in Runners, NEW m \in DeploymentMonitor, NEW sharpe \in BOOLEAN, SaveDay(r, m, sharpe)
      PROVE CampaignInv'
  BY <1>3, SaveDayInv
<1>4. ASSUME NEW r \in Runners, BeginDay(r) \/ Finish(r) PROVE CampaignInv'
  BY <1>4, BeginDayInv, FinishInv
<1>5. CASE CancelCampaign
  BY <1>5, CancelInv
<1>6. CASE ProcessDies
  BY <1>6, DiesInv
<1>7. CASE UNCHANGED campaignVars
  BY <1>7 DEF campaignVars, CampaignInv, CampaignTypeOK, Filled, Past, WorkerInv
<1> QED
  BY <1>1, <1>2, <1>3, <1>4, <1>5, <1>6, <1>7 DEF CampaignStep

LEMMA VerdictFollows == CampaignInv => VerdictOfOneRun
<1> SUFFICES ASSUME CampaignInv PROVE VerdictOfOneRun
  OBVIOUS
<1>1. \A c, e \in Days : outcomes[c] = outcomes[e]
  BY DEF CampaignInv, Filled, Days
<1>2. ASSUME campaign.status \in {"completed", "retired"} PROVE Days = 1 .. campaign.days_run
  <2>1. PICK n \in 1 .. target_days : n = campaign.days_run /\ Filled(n)
    BY <1>2 DEF CampaignInv
  <2>2. \A d : d \in Days <=> d \in 1 .. n
    BY <2>1, TargetAssumption DEF Filled, Days
  <2> QED
    BY <2>1, <2>2
<1>3. campaign.status = "completed" => campaign.days_run = target_days
  BY DEF CampaignInv
<1> QED
  BY <1>1, <1>2, <1>3 DEF VerdictOfOneRun

\* The days behind a verdict are the days of one run, all of them, for any number
\* of runners that may start, die, be cancelled and start again
\* (PaperCampaignService.run_campaign, save_day_outcome, set_campaign_status).
THEOREM OneRunOneVerdict == CampaignInit /\ [][CampaignStep]_campaignVars => []VerdictOfOneRun
  BY CampaignInitially, CampaignPreserved, VerdictFollows, PTL

-----------------------------------------------------------------------------
(* After paper: a canary campaign, a program and a ramp (CapitalRamp).     *)

\* A canary campaign in its periods has kept every stay limit so far; what is
\* offered to production has kept them to the end.
CanaryInv ==
    /\ canary \in [pc : {"idle", "refused"}] \cup
                  [pc : {"period", "retired", "hold", "production_ready"},
                   day : 1 .. campaign_days, evidence : CandidateEvidence, authorized : {TRUE}]
    /\ canary.pc \in {"idle", "period", "production_ready"} => breaches = {}
    /\ canary.pc = "production_ready" =>
          canary.day = campaign_days /\ allowed("production", canary.evidence)

\* A stop is the last of the results, and the stage earned is one that passed.
ProgramInv ==
    /\ program.results \in Seq(StageVerdicts)
    /\ Len(program.results) <= 5
    /\ ~program.over => Len(program.results) < 5
    /\ \A i \in DOMAIN program.results :
          Stops(program.results[i]) => program.over /\ i = Len(program.results)
    /\ \E k \in 1 .. 5 :
          /\ program.earned = ProgramStages[k]
          /\ k = 1 \/ (k <= Len(program.results) /\ program.results[k] = "passed")

\* Of the periods so far, every step of the fraction has used hold_periods, and
\* the streak has not been used yet.
RampInv ==
    /\ ramp \in [period : Nat, fraction : Nat, streak : Nat,
                boundary : {"ramping", "capped", "cut"}]
    /\ ramp.fraction <= max_fraction
    /\ \E tiers \in Nat :
          /\ hold_periods * tiers + ramp.streak <= ramp.period
          /\ ramp.fraction <= floor_fraction + step_fraction * tiers

AfterPaperInv == CanaryInv /\ ProgramInv /\ RampInv

AfterPaperStep == CanaryStep \/ ProgramStep \/ ScaleStep

LEMMA AfterPaperInitially == RampInit => AfterPaperInv
<1> SUFFICES ASSUME RampInit PROVE AfterPaperInv
  OBVIOUS
<1>1. CanaryInv
  BY DEF RampInit, CanaryInv
<1>2. ProgramInv
  <2>1. program.earned = ProgramStages[1] /\ program.results = << >> /\ ~program.over
    BY DEF RampInit, ProgramStages
  <2> QED
    BY <2>1 DEF ProgramInv
<1>3. RampInv
  <2>1. /\ hold_periods * 0 + 0 <= 0
        /\ floor_fraction <= floor_fraction + step_fraction * 0
    BY RampAssumption
  <2> QED
    BY <2>1, RampAssumption DEF RampInit, RampInv
<1> QED
  BY <1>1, <1>2, <1>3 DEF AfterPaperInv

LEMMA StartCanaryInv ==
  ASSUME CanaryInv, NEW authorized \in BOOLEAN, NEW e \in CandidateEvidence,
         StartCanary(authorized, e)
  PROVE  CanaryInv' /\ UNCHANGED <<program, ramp>>
  BY RampAssumption DEF CanaryInv, StartCanary

LEMMA CanaryPeriodInv ==
  ASSUME CanaryInv, NEW m \in DeploymentMonitor, CanaryPeriod(m)
  PROVE  CanaryInv' /\ UNCHANGED <<program, ramp>>
<1>1. /\ canary.day \in 1 .. campaign_days /\ breaches = {} /\ canary.authorized
      /\ canary \in [pc : {"period", "retired", "hold", "production_ready"},
                     day : 1 .. campaign_days, evidence : CandidateEvidence, authorized : {TRUE}]
  BY DEF CanaryInv, CanaryPeriod
<1>2. CASE rollback_required(m)
  BY <1>1, <1>2 DEF CanaryInv, CanaryPeriod
<1>3. CASE ~rollback_required(m) /\ canary.day < campaign_days
  <2>1. canary' = [canary EXCEPT !.day = @ + 1] /\ breaches' = {}
    BY <1>1, <1>3 DEF CanaryPeriod
  <2>2. canary.day + 1 \in 1 .. campaign_days
    BY <1>1, <1>3, RampAssumption
  <2> QED
    BY <1>1, <2>1, <2>2 DEF CanaryInv, CanaryPeriod
<1>4. CASE ~rollback_required(m) /\ ~(canary.day < campaign_days)
  <2>1. canary.day = campaign_days
    BY <1>1, <1>4, RampAssumption
  <2>2. /\ canary' = [canary EXCEPT !.pc = IF allowed("production", canary.evidence)
                                         THEN "production_ready" ELSE "hold"]
        /\ breaches' = {}
    BY <1>1, <1>4 DEF CanaryPeriod
  <2> QED
    BY <1>1, <2>1, <2>2 DEF CanaryInv, CanaryPeriod
<1> QED
  BY <1>2, <1>3, <1>4

LEMMA RunStageInv ==
  ASSUME ProgramInv, NEW verdict \in StageVerdicts, RunStage(verdict)
  PROVE  ProgramInv' /\ UNCHANGED <<canary, ramp, breaches>>
<1> DEFINE done == Len(program.results)
<1>1. /\ program.results \in Seq(StageVerdicts) /\ done \in Nat /\ done < 5 /\ ~program.over
  BY DEF ProgramInv, RunStage
<1>2. /\ program'.results = Append(program.results, verdict)
      /\ program'.over = (Stops(verdict) \/ done + 1 = 5)
      /\ program'.earned = IF verdict = "passed" THEN ProgramStages[done + 1] ELSE program.earned
  BY DEF RunStage, ProgramStages
<1>3. /\ Len(program'.results) = done + 1 /\ program'.results \in Seq(StageVerdicts)
      /\ DOMAIN program'.results = 1 .. done + 1
      /\ program'.results[done + 1] = verdict
      /\ \A i \in 1 .. done : program'.results[i] = program.results[i]
  BY <1>1, <1>2
<1>4. \A i \in 1 .. done : ~Stops(program.results[i])
  BY <1>1 DEF ProgramInv
<1>5. \A i \in DOMAIN program'.results :
         Stops(program'.results[i]) => program'.over /\ i = Len(program'.results)
  <2> TAKE i \in DOMAIN program'.results
  <2>1. CASE i \in 1 .. done
    BY <1>3, <1>4, <2>1
  <2>2. CASE i = done + 1
    BY <1>2, <1>3, <2>2
  <2> QED
    BY <1>1, <1>3, <2>1, <2>2
<1>6. \E k \in 1 .. 5 :
         /\ program'.earned = ProgramStages[k]
         /\ k = 1 \/ (k <= done + 1 /\ program'.results[k] = "passed")
  <2>1. CASE verdict = "passed"
    BY <1>1, <1>2, <1>3, <2>1
  <2>2. CASE verdict # "passed"
    <3>1. PICK k \in 1 .. 5 : /\ program.earned = ProgramStages[k]
                              /\ k = 1 \/ (k <= done /\ program.results[k] = "passed")
      BY DEF ProgramInv
    <3>2. k = 1 \/ (k <= done + 1 /\ program'.results[k] = "passed")
      BY <1>1, <1>3, <3>1
    <3> QED
      BY <1>2, <2>2, <3>1, <3>2
  <2> QED
    BY <2>1, <2>2
<1>7. Len(program'.results) <= 5 /\ (~program'.over => Len(program'.results) < 5)
  <2>1. ~program'.over => done + 1 # 5
    BY <1>2, Zenon
  <2> QED
    BY <1>1, <1>3, <2>1
<1> QED
  BY <1>3, <1>5, <1>6, <1>7 DEF ProgramInv, RunStage

LEMMA ScalePeriodInv ==
  ASSUME RampInv, NEW m \in DeploymentMonitor, ScalePeriod(m)
  PROVE  RampInv' /\ UNCHANGED <<canary, program, breaches>>
<1> DEFINE clean == [ramp EXCEPT !.period = @ + 1, !.streak = @ + 1]
           held(t, kept, period) == hold_periods * t + kept <= period
           within(t, fraction) == fraction <= floor_fraction + step_fraction * t
<1> USE RampAssumption
<1>1. /\ ramp.period \in Nat /\ ramp.streak \in Nat /\ ramp.fraction \in Nat
      /\ ramp \in [period : Nat, fraction : Nat, streak : Nat,
                  boundary : {"ramping", "capped", "cut"}]
      /\ ramp.fraction <= max_fraction
  BY DEF RampInv
<1>2. PICK t \in Nat : held(t, ramp.streak, ramp.period) /\ within(t, ramp.fraction)
  BY DEF RampInv
<1>3. /\ held(t, ramp.streak + 1, ramp.period + 1)
      /\ within(t, floor_fraction)
  <2>1. PICK x \in Int : x = hold_periods * t
    OBVIOUS
  <2>2. PICK y \in Nat : y = step_fraction * t
    OBVIOUS
  <2> QED
    BY <1>1, <1>2, <2>1, <2>2
<1>4. clean = [period |-> ramp.period + 1, fraction |-> ramp.fraction,
               streak |-> ramp.streak + 1, boundary |-> ramp.boundary]
  <2>1. PICK r : r = [ramp EXCEPT !.period = ramp.period + 1]
    OBVIOUS
  <2>2. r = [period |-> ramp.period + 1, fraction |-> ramp.fraction, streak |-> ramp.streak,
             boundary |-> ramp.boundary]
    BY <1>1, <2>1
  <2>3. PICK c : c = clean
    OBVIOUS
  <2>4. c = [r EXCEPT !.streak = ramp.streak + 1]
    BY <1>1, <2>1, <2>3
  <2>5. c = [period |-> ramp.period + 1, fraction |-> ramp.fraction, streak |-> ramp.streak + 1,
             boundary |-> ramp.boundary]
    BY <2>2, <2>4
  <2> HIDE DEF clean
  <2> QED
    BY <2>3, <2>5
<1>5. CASE rollback_required(m)
  <2>1. ramp' = [period |-> ramp.period + 1, fraction |-> floor_fraction,
                 streak |-> ramp.streak + 1, boundary |-> "cut"]
    BY <1>4, <1>5 DEF ScalePeriod
  <2> QED
    BY <1>1, <1>3, <2>1 DEF RampInv, ScalePeriod
<1>6. CASE ~rollback_required(m) /\ ramp.fraction >= max_fraction
  <2>1. ramp' = [period |-> ramp.period + 1, fraction |-> ramp.fraction,
                 streak |-> ramp.streak + 1, boundary |-> "capped"]
    BY <1>4, <1>6 DEF ScalePeriod
  <2> QED
    BY <1>1, <1>2, <1>3, <2>1 DEF RampInv, ScalePeriod
<1>7. CASE ~rollback_required(m) /\ ~(ramp.fraction >= max_fraction)
  <2>1. ramp' = IF clean.streak >= hold_periods THEN Earned(clean) ELSE clean
    BY <1>7 DEF ScalePeriod
  <2>2. CASE clean.streak >= hold_periods
    <3>1. PICK f \in Nat : /\ f = IF ramp.fraction + step_fraction < max_fraction
                                 THEN ramp.fraction + step_fraction ELSE max_fraction
                           /\ f <= max_fraction /\ f <= ramp.fraction + step_fraction
      BY <1>1, <1>7
    <3>2. ramp' = [period |-> ramp.period + 1, fraction |-> f, streak |-> 0,
                   boundary |-> ramp.boundary]
      BY <1>4, <2>1, <2>2, <3>1 DEF Earned
    <3>3. held(t + 1, 0, ramp.period + 1) /\ within(t + 1, f)
      <4>1. /\ hold_periods * (t + 1) = hold_periods * t + hold_periods
            /\ step_fraction * (t + 1) = step_fraction * t + step_fraction
        OBVIOUS
      <4>2. PICK x \in Int : x = hold_periods * t
        OBVIOUS
      <4>3. PICK y \in Int : y = step_fraction * t
        OBVIOUS
      <4>4. ramp.streak + 1 >= hold_periods
        BY <1>4, <2>2
      <4> QED
        BY <1>1, <1>2, <3>1, <4>1, <4>2, <4>3, <4>4
    <3> QED
      BY <1>1, <3>1, <3>2, <3>3 DEF RampInv, ScalePeriod
  <2>3. CASE ~(clean.streak >= hold_periods)
    BY <1>1, <1>2, <1>3, <1>4, <2>1, <2>3 DEF RampInv, ScalePeriod
  <2> QED
    BY <2>2, <2>3
<1> QED
  BY <1>5, <1>6, <1>7

LEMMA AfterPaperPreserved == AfterPaperInv /\ [AfterPaperStep]_rampVars => AfterPaperInv'
<1> SUFFICES ASSUME AfterPaperInv, [AfterPaperStep]_rampVars PROVE AfterPaperInv'
  OBVIOUS
<1>1. CASE CanaryStep
  <2>1. CanaryInv' /\ UNCHANGED <<program, ramp>>
    BY <1>1, StartCanaryInv, CanaryPeriodInv DEF CanaryStep, AfterPaperInv
  <2> QED
    BY <2>1 DEF AfterPaperInv, ProgramInv, RampInv
<1>2. CASE ProgramStep
  <2>1. ProgramInv' /\ UNCHANGED <<canary, ramp, breaches>>
    BY <1>2, RunStageInv DEF ProgramStep, AfterPaperInv
  <2> QED
    BY <2>1 DEF AfterPaperInv, CanaryInv, RampInv
<1>3. CASE ScaleStep
  <2>1. RampInv' /\ UNCHANGED <<canary, program, breaches>>
    BY <1>3, ScalePeriodInv DEF ScaleStep, AfterPaperInv
  <2> QED
    BY <2>1 DEF AfterPaperInv, CanaryInv, ProgramInv
<1>4. CASE UNCHANGED rampVars
  BY <1>4 DEF rampVars, AfterPaperInv, CanaryInv, ProgramInv, RampInv
<1> QED
  BY <1>1, <1>2, <1>3, <1>4 DEF AfterPaperStep

\* The chain of gates is cumulative.
LEMMA GatesCumulate ==
  ASSUME NEW e, allowed("production", e)
  PROVE  allowed("paper", e) /\ allowed("canary", e)
  BY DEF allowed, missing

\* What is a whole number of times in a period is at most its quotient.
LEMMA WholeTimes ==
  ASSUME NEW h \in Nat \ {0}, NEW p \in Nat, NEW t \in Nat, h * t <= p
  PROVE  p \div h \in Nat /\ t <= p \div h
<1>1. PICK q \in Nat : q = p \div h /\ h * q <= p /\ p < h * q + h
  OBVIOUS
<1>2. ASSUME q + 1 <= t PROVE h * (q + 1) <= h * t
  BY <1>2
<1>3. h * (q + 1) = h * q + h
  OBVIOUS
<1> QED
  BY <1>1, <1>2, <1>3

LEMMA NothingUnearnedFollows == AfterPaperInv => NothingUnearned
<1> SUFFICES ASSUME AfterPaperInv PROVE NothingUnearned
  OBVIOUS
<1>1. ReadyIsEarned
  BY GatesCumulate DEF AfterPaperInv, CanaryInv, ReadyIsEarned
<1>2. ProgramStopsAtFailure
  <2>1. PICK k \in 1 .. 5 : /\ program.earned = ProgramStages[k]
                            /\ k = 1 \/ (k <= Len(program.results) /\ program.results[k] = "passed")
    BY DEF AfterPaperInv, ProgramInv
  <2>2. \A j \in 1 .. 5 : ProgramStages[j] = ProgramStages[k] => j = k
    BY DEF ProgramStages
  <2>3. SUFFICES ASSUME NEW i \in DOMAIN program.results, program.results[i] \in {"held", "failed"},
                        NEW j \in DOMAIN ProgramStages, j >= i /\ j > 1,
                        program.earned = ProgramStages[j]
                 PROVE  FALSE
    BY DEF ProgramStopsAtFailure
  <2>4. j = k /\ j \in 1 .. 5
    BY <2>1, <2>2, <2>3 DEF ProgramStages
  <2>5. i = Len(program.results)
    BY <2>3 DEF AfterPaperInv, ProgramInv, Stops
  <2> QED
    BY <2>1, <2>3, <2>4, <2>5 DEF AfterPaperInv, ProgramInv
<1>3. ExposureIsEarned
  <2>1. PICK t \in Nat : /\ hold_periods * t + ramp.streak <= ramp.period
                         /\ ramp.fraction <= floor_fraction + step_fraction * t
    BY DEF AfterPaperInv, RampInv
  <2>2. ramp.period \in Nat /\ ramp.streak \in Nat /\ ramp.fraction \in Nat
    BY DEF AfterPaperInv, RampInv
  <2>3. hold_periods * t <= ramp.period
    <3>1. PICK x \in Int : x = hold_periods * t
      BY RampAssumption
    <3> QED
      BY <2>1, <2>2, <3>1
  <2>4. PICK q \in Nat : q = ramp.period \div hold_periods /\ t <= q
    BY <2>2, <2>3, WholeTimes, RampAssumption
  <2>5. step_fraction * t <= step_fraction * q
    BY <2>4, RampAssumption
  <2>6. ramp.fraction <= floor_fraction + step_fraction * q
    <3>1. PICK x \in Int : x = step_fraction * t
      BY RampAssumption
    <3>2. PICK y \in Int : y = step_fraction * q
      BY RampAssumption
    <3> QED
      BY <2>1, <2>2, <2>5, <3>1, <3>2, RampAssumption
  <2> QED
    BY <2>4, <2>6 DEF ExposureIsEarned, AfterPaperInv, RampInv
<1> QED
  BY <1>1, <1>2, <1>3 DEF NothingUnearned

\* For any length of a canary campaign and any parameters of the ramp: production
\* is offered only after an authorized campaign without a breach whose candidate
\* passes every gate, a program earns nothing at or beyond a stop, and the
\* fraction stays within what the clean periods have paid for
\* (CanaryHarness.run, AutonomyProgram.run, GradualScalingRunner.run).
THEOREM CapitalIsEarned == RampInit /\ [][AfterPaperStep]_rampVars => []NothingUnearned
  BY AfterPaperInitially, AfterPaperPreserved, NothingUnearnedFollows, PTL

-----------------------------------------------------------------------------
(***************************************************************************)
(* StrategyLadder, for any ids, reports, campaigns and crashes: the ledger *)
(* of a passport explains its snapshot, retirement is final, the death     *)
(* system leads no passport up, and capital goes to evidence.              *)
(*                                                                         *)
(* The first three rest on what is known while a change is between its two *)
(* writes: its event begins in the status the row still has, ends in the   *)
(* status of the snapshot to come, and was not begun for a retired         *)
(* passport. The last rests on what a passport of each status was granted  *)
(* by, and on the order of the candidates being total.                     *)
(***************************************************************************)

Change == [passport : Ids, snapshot : StrategyPassport,
           then : {"nothing", "record_rollback", "rollback_event"}]

LadderTypeOK ==
    /\ passport \in [Ids -> {NoPassport} \cup StrategyPassport]
    /\ ledger \in [Ids -> Seq(PassportLifecycleEvent)]
    /\ writer \in {Idle} \cup Change

\* The row of p stands where its last event left it; one event behind when p is torn.
Replayed(p) ==
    ledger[p] # << >> =>
        IF p \in torn THEN passport[p].status \in {Last(ledger[p]).from, Last(ledger[p]).to}
        ELSE passport[p].status = Last(ledger[p]).to

\* What is known between event and snapshot, and of a change whose snapshot is
\* written and whose rollback is to be recorded.
Underway ==
    LET p == writer.passport
    IN  writer \in Change =>
            /\ passport[p] \in StrategyPassport /\ ledger[p] # << >>
            /\ IF writer.then = "rollback_event"
               THEN passport[p].status = Last(ledger[p]).to /\ p \notin torn
               ELSE /\ passport[p].status = Last(ledger[p]).from
                    /\ writer.snapshot.status = Last(ledger[p]).to
                    /\ passport[p].status = "retired" => writer.snapshot.status = "retired"

LedgerInv ==
    /\ LadderTypeOK
    /\ Underway
    /\ \A p \in Ids : ~Issued(p) => ledger[p] = << >>
    /\ \A p \in Ids : writer.passport # p => Replayed(p)

-----------------------------------------------------------------------------
(* The two chains.                                                         *)

LEMMA StatusChainFacts ==
  /\ DOMAIN StatusChain = 1 .. 5
  /\ \A i, j \in 1 .. 5 : StatusChain[i] = StatusChain[j] => i = j
  /\ \A i \in 1 .. 5 : StatusChain[i] \in Statuses \ {"retired"}
  /\ \A s \in Statuses \ {"retired"} : \E i \in 1 .. 5 : s = StatusChain[i]
<1>1. DOMAIN StatusChain = 1 .. 5
  BY DEF StatusChain
<1>2. \A i \in 1 .. 5 : i \in {1, 2, 3, 4, 5}
  OBVIOUS
<1>3. StatusChain[1] = "research" /\ StatusChain[2] = "candidate" /\ StatusChain[3] = "paper"
      /\ StatusChain[4] = "canary" /\ StatusChain[5] = "live"
  BY DEF StatusChain
<1>4. \A i, j \in 1 .. 5 : StatusChain[i] = StatusChain[j] => i = j
  BY <1>2, <1>3
<1>5. \A i \in 1 .. 5 : StatusChain[i] \in Statuses \ {"retired"}
  BY <1>1, <1>2, <1>3 DEF Statuses, Range
<1>6. \A s \in Statuses \ {"retired"} : \E i \in 1 .. 5 : s = StatusChain[i]
  BY <1>1 DEF Statuses, Range
<1> QED
  BY <1>1, <1>4, <1>5, <1>6

LEMMA EnvironmentChainFacts ==
  /\ DOMAIN ENVIRONMENT_CHAIN = 1 .. 5
  /\ \A i, j \in 1 .. 5 : ENVIRONMENT_CHAIN[i] = ENVIRONMENT_CHAIN[j] => i = j
  /\ \A i \in 1 .. 5 : ENVIRONMENT_CHAIN[i] # NoEnvironment
<1>1. DOMAIN ENVIRONMENT_CHAIN = 1 .. 5
  BY DEF ENVIRONMENT_CHAIN
<1>2. \A i \in 1 .. 5 : i \in {1, 2, 3, 4, 5}
  OBVIOUS
<1>3. ENVIRONMENT_CHAIN[1] = "research" /\ ENVIRONMENT_CHAIN[2] = "validation"
      /\ ENVIRONMENT_CHAIN[3] = "paper" /\ ENVIRONMENT_CHAIN[4] = "canary"
      /\ ENVIRONMENT_CHAIN[5] = "production"
  BY DEF ENVIRONMENT_CHAIN
<1> QED
  BY <1>1, <1>2, <1>3 DEF NoEnvironment

\* Where a rung stands in both chains, and what lies below it.
LEMMA RungFacts ==
  ASSUME NEW i \in 1 .. 5
  PROVE  /\ Rung(StatusChain[i]) = i
         /\ environment_for_status(StatusChain[i]) = ENVIRONMENT_CHAIN[i]
         /\ status_for_environment(ENVIRONMENT_CHAIN[i]) = StatusChain[i]
         /\ i = 1 => previous_environment(ENVIRONMENT_CHAIN[i]) = NoEnvironment
         /\ i # 1 => previous_environment(ENVIRONMENT_CHAIN[i]) = ENVIRONMENT_CHAIN[i - 1]
<1>1. (CHOOSE j \in DOMAIN StatusChain : StatusChain[j] = StatusChain[i]) = i
  BY StatusChainFacts
<1>2. (CHOOSE j \in DOMAIN ENVIRONMENT_CHAIN : ENVIRONMENT_CHAIN[j] = ENVIRONMENT_CHAIN[i]) = i
  BY EnvironmentChainFacts
<1> QED
  BY <1>1, <1>2 DEF Rung, environment_for_status, status_for_environment, previous_environment

\* The death system decides to stay, or on a status that is no higher.
LEMMA DecisionDescends ==
  ASSUME NEW pp \in StrategyPassport, NEW triggered,
         evaluate(pp, triggered).action # "stay"
  PROVE  /\ pp.status # "retired"
         /\ StatusFor(evaluate(pp, triggered)) \in Statuses
         /\ Descends(pp.status, StatusFor(evaluate(pp, triggered)))
<1> DEFINE candidates == (IF triggered THEN {EdgeCandidate(pp)} ELSE {}) \cup
                         (IF CampaignRetired(pp) THEN {CampaignCandidate(pp)} ELSE {})
           signalled == evaluate(pp, triggered)
<1>1. pp.status # "retired" /\ candidates # {}
  BY DEF evaluate
<1>2. PICK i \in 1 .. 5 : pp.status = StatusChain[i]
  BY <1>1, StatusChainFacts DEF StrategyPassport
\* Every candidate retires, or names a rung that is no higher.
<1>3. ASSUME NEW c \in candidates
      PROVE  /\ Severity(c.action) \in Nat
             /\ \/ c.action = "retire" /\ c.to = NoEnvironment
                \/ \E k \in 1 .. i : c.action \in {"degrade", "demote"} /\ c.to = ENVIRONMENT_CHAIN[k]
  <2>1. CASE i = 1
    BY <1>2, <1>3, <2>1, RungFacts DEF EdgeCandidate, CampaignCandidate, Severity
  <2>2. CASE i # 1
    <3>1. /\ environment_for_status(pp.status) = ENVIRONMENT_CHAIN[i]
          /\ previous_environment(ENVIRONMENT_CHAIN[i]) = ENVIRONMENT_CHAIN[i - 1]
          /\ i - 1 \in 1 .. 5 /\ ENVIRONMENT_CHAIN[i - 1] # NoEnvironment
      BY <1>2, <2>2, RungFacts, EnvironmentChainFacts
    <3>2. CASE c = EdgeCandidate(pp)
      BY <3>1, <3>2 DEF EdgeCandidate, Severity
    <3>3. CASE c = CampaignCandidate(pp)
      <4>1. CASE i = 2
        <5>1. previous_environment(ENVIRONMENT_CHAIN[i - 1]) = NoEnvironment
          BY <4>1, RungFacts
        <5> QED
          BY <3>1, <3>3, <4>1, <5>1 DEF CampaignCandidate, Severity
      <4>2. CASE i # 2
        <5>1. /\ previous_environment(ENVIRONMENT_CHAIN[i - 1]) = ENVIRONMENT_CHAIN[(i - 1) - 1]
              /\ (i - 1) - 1 \in 1 .. i /\ ENVIRONMENT_CHAIN[(i - 1) - 1] # NoEnvironment
          BY <2>2, <4>2, <3>1, RungFacts, EnvironmentChainFacts
        <5> QED
          BY <3>1, <3>3, <5>1 DEF CampaignCandidate, Severity
      <4> QED
        BY <4>1, <4>2
    <3> QED
      BY <1>3, <3>2, <3>3
  <2> QED
    BY <2>1, <2>2
<1>4. signalled \in candidates
  <2>1. \E c \in candidates : \A d \in candidates : Severity(d.action) <= Severity(c.action)
    <3>1. \A c, d \in candidates : Severity(c.action) <= Severity(d.action) \/ Severity(d.action) <= Severity(c.action)
      BY <1>3
    <3>2. \A c \in candidates : c = EdgeCandidate(pp) \/ c = CampaignCandidate(pp)
      OBVIOUS
    <3> HIDE DEF candidates
    <3> QED
      BY <1>1, <3>1, <3>2
  <2>2. signalled = CHOOSE c \in candidates : \A d \in candidates : Severity(d.action) <= Severity(c.action)
    BY <1>1 DEF evaluate
  <2> HIDE DEF candidates, signalled
  <2> QED
    BY <2>1, <2>2
<1>5. CASE signalled.action = "retire" /\ signalled.to = NoEnvironment
  BY <1>1, <1>5 DEF StatusFor, Descends, Statuses
<1>6. CASE \E k \in 1 .. i : signalled.action \in {"degrade", "demote"} /\ signalled.to = ENVIRONMENT_CHAIN[k]
  <2>1. PICK k \in 1 .. i : signalled.action \in {"degrade", "demote"} /\ signalled.to = ENVIRONMENT_CHAIN[k]
    BY <1>6
  <2>2. k \in 1 .. 5
    OBVIOUS
  <2>3. StatusFor(signalled) = StatusChain[k]
    BY <2>1, <2>2, RungFacts, EnvironmentChainFacts DEF StatusFor
  <2> QED
    BY <1>1, <1>2, <2>2, <2>3, RungFacts, StatusChainFacts DEF Descends
<1> QED
  BY <1>3, <1>4, <1>5, <1>6

-----------------------------------------------------------------------------
(* The writes.                                                             *)

LEMMA IdlePassport == Idle \notin Change /\ \A p \in Ids : Idle.passport # p
  BY IdsAssumption DEF Idle, Change

LEMMA Unissued == NoPassport \notin StrategyPassport
  BY DEF NoPassport, StrategyPassport, Statuses, Range, StatusChain

LEMMA LadderInitially == LadderInit => LedgerInv
<1> SUFFICES ASSUME LadderInit PROVE LedgerInv
  OBVIOUS
<1>1. LadderTypeOK
  BY DEF LadderInit, LadderTypeOK
<1>2. Underway
  BY IdlePassport DEF LadderInit, Underway
<1> QED
  BY <1>1, <1>2 DEF LadderInit, LedgerInv, Replayed

\* A row that is written when it is issued has no events yet.
LEMMA IssueInv ==
  ASSUME LedgerInv, NEW p \in Ids, NEW r \in Reports, issue_passport(p, r)
  PROVE  LedgerInv'
<1>1. LadderTypeOK /\ writer = Idle /\ ledger[p] = << >>
  BY DEF LedgerInv, issue_passport
<1>2. PICK new \in StrategyPassport : passport' = [passport EXCEPT ![p] = new]
  <2>1. verdict_for_evidence(r) \in {"reject", "observe", "promote_to_paper"}
    BY ReportsAssumption DEF verdict_for_evidence, Report
  <2>2. "retired" \in Statuses /\ "candidate" \in Statuses
    <3>1. StatusChain[2] = "candidate"
      BY DEF StatusChain
    <3> QED
      BY <3>1, StatusChainFacts DEF Statuses
  <2> DEFINE new == [status |-> IF verdict_for_evidence(r) = "reject" THEN "retired" ELSE "candidate",
                     verdict |-> verdict_for_evidence(r), evidence |-> r,
                     paper_evidence |-> "none", live_evidence |-> "none"]
  <2>3. new \in StrategyPassport
    BY <2>1, <2>2 DEF StrategyPassport
  <2>4. passport' = [passport EXCEPT ![p] = new]
    BY DEF issue_passport
  <2> HIDE DEF new
  <2> QED
    BY <2>3, <2>4
<1>3. UNCHANGED <<ledger, writer, torn>>
  BY DEF issue_passport
<1>4. LadderTypeOK'
  BY <1>1, <1>2, <1>3 DEF LadderTypeOK
<1>5. Underway'
  BY <1>1, <1>3, IdlePassport DEF Underway
<1>6. \A q \in Ids : ~Issued(q)' => ledger'[q] = << >>
  BY <1>1, <1>2, <1>3, Unissued DEF LedgerInv, LadderTypeOK, Issued
<1>7. ASSUME NEW q \in Ids, writer'.passport # q PROVE Replayed(q)'
  BY <1>1, <1>2, <1>3, <1>7 DEF LedgerInv, LadderTypeOK, Replayed
<1> QED
  BY <1>4, <1>5, <1>6, <1>7 DEF LedgerInv

\* An event is appended: its change is under way from now on.
LEMMA AppendInv ==
  ASSUME LedgerInv, NEW p \in Ids, NEW type \in EventTypes, NEW snapshot \in StrategyPassport,
         NEW then \in {"nothing", "record_rollback"}, Issued(p),
         writer = Idle \/ writer.passport = p,
         AppendEvent(p, type, snapshot, then), UNCHANGED <<passport, torn>>,
         passport[p].status = "retired" => snapshot.status = "retired"
  PROVE  LedgerInv'
<1> DEFINE event == [event_type |-> type, from |-> passport[p].status, to |-> snapshot.status]
<1>1. LadderTypeOK /\ passport[p] \in StrategyPassport
  BY DEF LedgerInv, LadderTypeOK, Issued
<1>2. event \in PassportLifecycleEvent
  BY <1>1 DEF StrategyPassport, PassportLifecycleEvent
<1>3. /\ ledger' = [ledger EXCEPT ![p] = Append(ledger[p], event)]
      /\ writer' = [passport |-> p, snapshot |-> snapshot, then |-> then]
  BY DEF AppendEvent
<1>4. ledger[p] \in Seq(PassportLifecycleEvent)
  BY <1>1 DEF LadderTypeOK
<1> HIDE DEF event
<1>5. /\ ledger'[p] = Append(ledger[p], event) /\ ledger'[p] # << >>
      /\ Last(ledger'[p]) = event
  BY <1>1, <1>2, <1>3, <1>4 DEF LadderTypeOK, Last
<1>6. writer' \in Change /\ writer'.passport = p /\ writer'.then = then /\ writer'.snapshot = snapshot
  BY <1>3 DEF Change
<1>7. LadderTypeOK'
  <2>1. Append(ledger[p], event) \in Seq(PassportLifecycleEvent)
    BY <1>2, <1>4
  <2> QED
    BY <1>1, <1>3, <1>6, <2>1 DEF LadderTypeOK
<1>8. event.from = passport[p].status /\ event.to = snapshot.status
  BY DEF event
<1>9. Underway'
  BY <1>1, <1>5, <1>6, <1>8 DEF Underway
<1>10. ASSUME NEW q \in Ids, q # p
       PROVE  /\ ledger'[q] = ledger[q]
              /\ Replayed(q)' /\ (~Issued(q)' => ledger'[q] = << >>)
  <2>1. ledger'[q] = ledger[q]
    BY <1>1, <1>3, <1>10 DEF LadderTypeOK
  <2>2. writer.passport # q
    BY <1>10, IdlePassport
  <2> QED
    BY <1>10, <2>1, <2>2 DEF LedgerInv, Replayed, Issued
<1>11. Issued(p)'
  BY DEF Issued
<1> QED
  BY <1>6, <1>7, <1>9, <1>10, <1>11 DEF LedgerInv

\* What a change makes of a snapshot is a passport again.
LEMMA Rewritten ==
  ASSUME NEW pp \in StrategyPassport, NEW s \in Statuses, NEW r \in Reports,
         NEW paper \in {"retired", "completed"},
         NEW live \in {"canary_retired", "canary_completed", "calibration", "rollback"}
  PROVE  /\ [pp EXCEPT !.status = s] \in StrategyPassport
         /\ [pp EXCEPT !.status = s].status = s
         /\ Reverdict(pp, r) \in StrategyPassport
         /\ [pp EXCEPT !.paper_evidence = paper] \in StrategyPassport
         /\ [pp EXCEPT !.live_evidence = live] \in StrategyPassport
         /\ [pp EXCEPT !.paper_evidence = paper].status = pp.status
         /\ [pp EXCEPT !.live_evidence = live].status = pp.status
<1>1. verdict_for_evidence(r) \in {"reject", "observe", "promote_to_paper"}
  BY ReportsAssumption DEF verdict_for_evidence, Report
<1>2. "retired" \in Statuses
  BY DEF Statuses
<1>3. Reverdict(pp, r) \in StrategyPassport
  BY <1>1, <1>2 DEF Reverdict, StrategyPassport
<1> QED
  BY <1>3 DEF StrategyPassport

\* The changes that _require_alive guards.
LEMMA AliveInv ==
  ASSUME LedgerInv, NEW p \in Ids, NEW s \in Statuses, NEW r \in Reports,
         NEW paper \in {"retired", "completed"}, NEW live \in {"canary_retired", "canary_completed"},
         \/ transition(p, s) \/ rerecord_evidence(p, r) \/ record_paper_campaign(p, paper)
         \/ record_canary(p, live) \/ record_calibration(p)
  PROVE  LedgerInv'
<1>1. /\ writer = Idle /\ Issued(p) /\ passport[p].status # "retired" /\ UNCHANGED <<passport, torn>>
  BY DEF transition, rerecord_evidence, record_paper_campaign, record_canary, record_calibration, Alive
<1>2. passport[p] \in StrategyPassport
  BY <1>1 DEF LedgerInv, LadderTypeOK, Issued
<1>4. Statuses # {} /\ Reports # {}
  BY DEF Statuses
<1>3. PICK type \in EventTypes, snapshot \in StrategyPassport : AppendEvent(p, type, snapshot, "nothing")
  <2>1. CASE transition(p, s)
    <3>1. [passport[p] EXCEPT !.status = s] \in StrategyPassport
      BY <1>2, <1>4, Rewritten
    <3>2. AppendEvent(p, "status_change", [passport[p] EXCEPT !.status = s], "nothing")
      BY <2>1 DEF transition
    <3> QED
      BY <3>1, <3>2 DEF EventTypes
  <2>2. CASE rerecord_evidence(p, r)
    <3>1. Reverdict(passport[p], r) \in StrategyPassport
      BY <1>2, <1>4, Rewritten
    <3>2. AppendEvent(p, "evidence_update", Reverdict(passport[p], r), "nothing")
      BY <2>2 DEF rerecord_evidence
    <3> QED
      BY <3>1, <3>2 DEF EventTypes
  <2>3. CASE record_paper_campaign(p, paper)
    <3>1. [passport[p] EXCEPT !.paper_evidence = paper] \in StrategyPassport
      BY <1>2, <1>4, Rewritten
    <3>2. AppendEvent(p, "paper_campaign_update", [passport[p] EXCEPT !.paper_evidence = paper], "nothing")
      BY <2>3 DEF record_paper_campaign
    <3> QED
      BY <3>1, <3>2 DEF EventTypes
  <2>4. CASE record_canary(p, live)
    <3>1. [passport[p] EXCEPT !.live_evidence = live] \in StrategyPassport
      BY <1>2, <1>4, Rewritten
    <3>2. AppendEvent(p, "canary_update", [passport[p] EXCEPT !.live_evidence = live], "nothing")
      BY <2>4 DEF record_canary
    <3> QED
      BY <3>1, <3>2 DEF EventTypes
  <2>5. CASE record_calibration(p)
    <3>1. [passport[p] EXCEPT !.live_evidence = "calibration"] \in StrategyPassport
      BY <1>2, <1>4, Rewritten
    <3>2. AppendEvent(p, "calibration_update", [passport[p] EXCEPT !.live_evidence = "calibration"], "nothing")
      BY <2>5 DEF record_calibration
    <3> QED
      BY <3>1, <3>2 DEF EventTypes
  <2> QED
    BY <2>1, <2>2, <2>3, <2>4, <2>5
<1> QED
  BY <1>1, <1>3, AppendInv

LEMMA RollbackInv ==
  ASSUME LedgerInv, record_rollback
  PROVE  LedgerInv'
<1>1. PICK p \in Ids : p = writer.passport /\ passport[p] \in StrategyPassport
  BY DEF LedgerInv, LadderTypeOK, Underway, Change, record_rollback
<1> DEFINE after == [passport[p] EXCEPT !.live_evidence = "rollback"]
<1>2. Issued(p) /\ after \in StrategyPassport /\ after.status = passport[p].status
  BY <1>1, Unissued DEF Issued, StrategyPassport
<1>3. PICK snapshot \in StrategyPassport :
          /\ AppendEvent(p, "rollback_update", snapshot, "nothing")
          /\ snapshot.status = passport[p].status
  BY <1>1, <1>2 DEF record_rollback
<1>4. UNCHANGED <<passport, torn>>
  BY DEF record_rollback
<1> QED
  BY <1>1, <1>2, <1>3, <1>4, AppendInv DEF EventTypes

\* The death system's change; a retired passport is left alone.
LEMMA ApplyInv ==
  ASSUME LedgerInv, NEW p \in Ids, apply(p)
  PROVE  LedgerInv'
<1> DEFINE signalled == evaluate(passport[p], Triggered(p))
<1>1. writer = Idle /\ Issued(p) /\ UNCHANGED <<passport, torn>>
  BY DEF apply
<1>2. passport[p] \in StrategyPassport
  BY <1>1 DEF LedgerInv, LadderTypeOK, Issued
<1>3. CASE signalled.action = "stay"
  BY <1>1, <1>3 DEF apply, LedgerInv, LadderTypeOK, Underway, Replayed, Issued
<1>4. CASE signalled.action # "stay"
  <2>1. passport[p].status # "retired" /\ StatusFor(signalled) \in Statuses
    BY <1>2, <1>4, DecisionDescends
  <2>2. [passport[p] EXCEPT !.status = StatusFor(signalled)] \in StrategyPassport
    BY <1>2, <2>1 DEF StrategyPassport
  <2>3. PICK snapshot \in StrategyPassport : AppendEvent(p, "status_change", snapshot, "record_rollback")
    BY <1>4, <2>2 DEF apply
  <2> QED
    BY <1>1, <2>1, <2>2, <2>3, AppendInv DEF EventTypes
<1> QED
  BY <1>3, <1>4

LEMMA ReplaceInv ==
  ASSUME LedgerInv, Replace
  PROVE  LedgerInv'
<1> DEFINE p == writer.passport
<1>1. /\ LadderTypeOK /\ writer \in Change /\ p \in Ids /\ writer.snapshot \in StrategyPassport
      /\ writer.then # "rollback_event" /\ ledger[p] # << >>
      /\ writer.snapshot.status = Last(ledger[p]).to
  BY DEF LedgerInv, LadderTypeOK, Underway, Change, Replace
<1>2. /\ passport' = [passport EXCEPT ![p] = writer.snapshot] /\ torn' = torn \ {p} /\ ledger' = ledger
      /\ writer' = Idle \/ writer' = [writer EXCEPT !.then = "rollback_event"]
  BY DEF Replace
<1>3. \/ writer' = Idle
      \/ writer' \in Change /\ writer'.passport = p /\ writer'.then = "rollback_event"
  BY <1>1, <1>2 DEF Change
<1>4. LadderTypeOK'
  BY <1>1, <1>2, <1>3 DEF LadderTypeOK
<1>5. passport'[p] = writer.snapshot
  BY <1>1, <1>2 DEF LadderTypeOK
<1>6. Underway'
  BY <1>1, <1>2, <1>3, <1>5, IdlePassport DEF Underway
<1>7. ASSUME NEW q \in Ids PROVE Replayed(q)' /\ (~Issued(q)' => ledger'[q] = << >>)
  <2>1. CASE q = p
    BY <1>1, <1>2, <1>5, <2>1, Unissued DEF Replayed, Issued
  <2>2. CASE q # p
    <3>1. passport'[q] = passport[q] /\ (q \in torn' <=> q \in torn)
      BY <1>1, <1>2, <1>7, <2>2 DEF LadderTypeOK
    <3> QED
      BY <1>2, <1>7, <2>2, <3>1 DEF LedgerInv, Replayed, Issued
  <2> QED
    BY <2>1, <2>2
<1> QED
  BY <1>4, <1>6, <1>7 DEF LedgerInv

LEMMA CrashInv ==
  ASSUME LedgerInv, Crash
  PROVE  LedgerInv'
<1>1. LadderTypeOK /\ writer' = Idle /\ UNCHANGED <<passport, ledger>>
  BY DEF LedgerInv, Crash
<1>2. LadderTypeOK'
  BY <1>1 DEF LadderTypeOK
<1>3. Underway'
  BY <1>1, IdlePassport DEF Underway
<1>4. ASSUME NEW q \in Ids PROVE Replayed(q)' /\ (~Issued(q)' => ledger'[q] = << >>)
  <2>1. CASE writer.passport # q
    <3>1. q \in torn' <=> q \in torn
      BY <2>1 DEF Crash
    <3> QED
      BY <1>1, <1>4, <2>1, <3>1 DEF LedgerInv, Replayed, Issued
  <2>2. CASE writer.passport = q
    <3>1. writer \in Change
      BY <1>1, <1>4, <2>2, IdlePassport DEF LadderTypeOK
    <3>2. IF writer.then = "rollback_event" THEN torn' = torn ELSE torn' = torn \cup {q}
      BY <2>2, <3>1, IdlePassport DEF Crash
    <3> QED
      BY <1>1, <2>2, <3>1, <3>2, Unissued DEF LedgerInv, Underway, Replayed, Issued
  <2> QED
    BY <2>1, <2>2
<1> QED
  BY <1>2, <1>3, <1>4 DEF LedgerInv

-----------------------------------------------------------------------------
LEMMA LedgerPreserved == LedgerInv /\ [LadderStep]_ladderVars => LedgerInv'
<1> SUFFICES ASSUME LedgerInv, [LadderStep]_ladderVars PROVE LedgerInv'
  OBVIOUS
<1>1. ASSUME NEW p \in Ids, NEW r \in Reports, issue_passport(p, r) PROVE LedgerInv'
  BY <1>1, IssueInv
<1>2. ASSUME NEW p \in Ids, NEW r \in Reports, rerecord_evidence(p, r) PROVE LedgerInv'
  BY <1>2, AliveInv DEF Statuses
<1>3. ASSUME NEW p \in Ids,
             \/ \E to \in Statuses : transition(p, to)
             \/ \E action \in {"retired", "completed"} : record_paper_campaign(p, action)
             \/ \E action \in {"canary_retired", "canary_completed"} : record_canary(p, action)
             \/ record_calibration(p)
      PROVE LedgerInv'
  <2>1. passport[p] \in StrategyPassport /\ passport[p].evidence \in Reports
    BY <1>3 DEF LedgerInv, LadderTypeOK, Issued, Alive, transition, record_paper_campaign, record_canary,
       record_calibration, StrategyPassport
  <2> QED
    BY <1>3, <2>1, AliveInv DEF StrategyPassport
<1>4. ASSUME NEW p \in Ids, apply(p) PROVE LedgerInv'
  BY <1>4, ApplyInv
<1>5. CASE Replace
  BY <1>5, ReplaceInv
<1>6. CASE record_rollback
  BY <1>6, RollbackInv
<1>7. CASE Crash
  BY <1>7, CrashInv
<1>8. CASE UNCHANGED <<passport, ledger, writer, torn>>
  BY <1>8 DEF LedgerInv, LadderTypeOK, Underway, Replayed, Issued
<1>9. ASSUME NEW p \in Ids,
             reset(p) \/ \E drifted, paying \in BOOLEAN : record(p, drifted, paying)
      PROVE LedgerInv'
  BY <1>8, <1>9 DEF reset, record
<1> QED
  BY <1>1, <1>2, <1>3, <1>4, <1>5, <1>6, <1>7, <1>8, <1>9, ReportsAssumption, IdsAssumption
     DEF LadderStep, ladderVars

\* The ledger of a passport replays to its row, except between the two writes of a
\* change and after a crash there, when the row is one event behind
\* (EvidenceEngineService._append_event, DeathSystemService.apply).
THEOREM LedgerReplays == LadderInit /\ [][LadderStep]_ladderVars => []LedgerExplains
<1>1. LedgerInv => LedgerExplains
  <2> SUFFICES ASSUME LedgerInv, NEW p \in Ids, ledger[p] # << >>
               PROVE  IF p \in torn \/ writer.passport = p
                      THEN passport[p].status \in {Last(ledger[p]).from, Last(ledger[p]).to}
                      ELSE passport[p].status = Last(ledger[p]).to
    BY DEF LedgerExplains
  <2>1. CASE writer.passport = p
    <3>1. writer \in Change
      BY <2>1, IdlePassport DEF LedgerInv, LadderTypeOK
    <3> QED
      BY <2>1, <3>1 DEF LedgerInv, Underway
  <2>2. CASE writer.passport # p
    BY <2>2 DEF LedgerInv, Replayed
  <2> QED
    BY <2>1, <2>2
<1> QED
  BY LadderInitially, LedgerPreserved, <1>1, PTL

-----------------------------------------------------------------------------
(* Death.                                                                  *)

Descent ==
    \A p \in Ids :
        /\ RetiredStays(p)
        /\ Len(ledger'[p]) > Len(ledger[p]) /\ writer'.then = "record_rollback" =>
               Descends(passport[p].status, ledger'[p][Len(ledger'[p])].to)

LEMMA DeathStep == LedgerInv /\ [LadderStep]_ladderVars => [Descent]_ladderVars
<1> SUFFICES ASSUME LedgerInv, LadderStep, NEW p \in Ids
             PROVE  /\ RetiredStays(p)
                    /\ Len(ledger'[p]) > Len(ledger[p]) /\ writer'.then = "record_rollback" =>
                           Descends(passport[p].status, ledger'[p][Len(ledger'[p])].to)
  BY DEF Descent
<1>1. LadderTypeOK
  BY DEF LedgerInv
<1>2. CASE UNCHANGED <<passport, ledger>>
  BY <1>1, <1>2 DEF RetiredStays, LadderTypeOK
<1>3. ASSUME NEW q \in Ids, NEW r \in Reports, issue_passport(q, r)
      PROVE  ledger' = ledger /\ RetiredStays(p)
  BY <1>1, <1>3 DEF issue_passport, RetiredStays, LadderTypeOK, Issued
<1>4. ASSUME Replace PROVE ledger' = ledger /\ RetiredStays(p)
  <2>1. /\ writer \in Change /\ passport' = [passport EXCEPT ![writer.passport] = writer.snapshot]
        /\ passport[writer.passport].status = "retired" => writer.snapshot.status = "retired"
    BY <1>4 DEF LedgerInv, LadderTypeOK, Underway, Replace
  <2> QED
    BY <1>1, <1>4, <2>1 DEF Replace, RetiredStays, LadderTypeOK
<1>5. ASSUME NEW q \in Ids, apply(q)
      PROVE  /\ passport' = passport
             /\ Len(ledger'[p]) > Len(ledger[p]) =>
                    Descends(passport[p].status, ledger'[p][Len(ledger'[p])].to)
  <2> DEFINE signalled == evaluate(passport[q], Triggered(q))
  <2>1. passport' = passport /\ Issued(q)
    BY <1>5 DEF apply
  <2>2. passport[q] \in StrategyPassport /\ ledger[q] \in Seq(PassportLifecycleEvent)
    BY <1>1, <2>1 DEF LadderTypeOK, Issued
  <2>3. CASE signalled.action = "stay"
    BY <1>1, <1>5, <2>1, <2>3 DEF apply, LadderTypeOK
  <2>4. CASE signalled.action # "stay"
    <3> DEFINE event == [event_type |-> "status_change", from |-> passport[q].status,
                         to |-> [passport[q] EXCEPT !.status = StatusFor(signalled)].status]
    <3>1. ledger' = [ledger EXCEPT ![q] = Append(ledger[q], event)]
      BY <1>5, <2>4 DEF apply, AppendEvent
    <3>2. Descends(passport[q].status, StatusFor(signalled))
      BY <2>2, <2>4, DecisionDescends
    <3>3. event.to = StatusFor(signalled)
      BY <2>2 DEF StrategyPassport
    <3> HIDE DEF event, signalled
    <3>4. CASE p = q
      <4>1. ledger'[p] = Append(ledger[p], event)
        BY <1>1, <3>1, <3>4 DEF LadderTypeOK
      <4>2. ledger'[p][Len(ledger'[p])] = event
        BY <2>2, <3>4, <4>1
      <4> QED
        BY <2>1, <3>2, <3>3, <3>4, <4>2
    <3>5. CASE p # q
      BY <1>1, <2>1, <3>1, <3>5 DEF LadderTypeOK
    <3> QED
      BY <3>4, <3>5
  <2> QED
    BY <2>3, <2>4
<1>6. ASSUME NEW q \in Ids,
             \/ \E r \in Reports : rerecord_evidence(q, r)
             \/ \E to \in Statuses : transition(q, to)
             \/ \E action \in {"retired", "completed"} : record_paper_campaign(q, action)
             \/ \E action \in {"canary_retired", "canary_completed"} : record_canary(q, action)
             \/ record_calibration(q) \/ record_rollback
      PROVE  passport' = passport /\ writer'.then = "nothing"
  <2>1. passport' = passport /\ \E x, type, snapshot : AppendEvent(x, type, snapshot, "nothing")
    <3>1. CASE \E r \in Reports : rerecord_evidence(q, r)
      BY <3>1 DEF rerecord_evidence
    <3>2. CASE \E to \in Statuses : transition(q, to)
      BY <3>2 DEF transition
    <3>3. CASE \E action \in {"retired", "completed"} : record_paper_campaign(q, action)
      BY <3>3 DEF record_paper_campaign
    <3>4. CASE \E action \in {"canary_retired", "canary_completed"} : record_canary(q, action)
      BY <3>4 DEF record_canary
    <3>5. CASE record_calibration(q)
      BY <3>5 DEF record_calibration
    <3>6. CASE record_rollback
      BY <3>6 DEF record_rollback
    <3> QED
      BY <1>6, <3>1, <3>2, <3>3, <3>4, <3>5, <3>6
  <2> QED
    BY <2>1 DEF AppendEvent
<1>7. ASSUME NEW q \in Ids,
             reset(q) \/ \E drifted, paying \in BOOLEAN : record(q, drifted, paying)
      PROVE  UNCHANGED <<passport, ledger>>
  BY <1>7 DEF reset, record
<1>8. Crash => UNCHANGED <<passport, ledger>>
  BY DEF Crash
<1>9. CASE passport' = passport /\ writer'.then = "nothing"
  BY <1>9 DEF RetiredStays
<1>10. CASE ledger' = ledger /\ RetiredStays(p)
  <2>1. ledger'[p] = ledger[p]
    BY <1>10
  <2>2. Len(ledger[p]) \in Nat
    BY <1>1 DEF LadderTypeOK
  <2> QED
    BY <1>10, <2>1, <2>2
<1>11. ASSUME NEW q \in Ids, apply(q)
       PROVE  /\ RetiredStays(p)
              /\ Len(ledger'[p]) > Len(ledger[p]) =>
                    Descends(passport[p].status, ledger'[p][Len(ledger'[p])].to)
  BY <1>5, <1>11 DEF RetiredStays
<1> QED
  BY <1>2, <1>3, <1>4, <1>6, <1>7, <1>8, <1>9, <1>10, <1>11, ReportsAssumption, IdsAssumption DEF LadderStep

\* A retired passport stays retired, and every status that the death system writes
\* is on the same rung, below it, or retired (EvidenceEngineService._require_alive,
\* DeathSystemService.apply, _campaign_candidate).
THEOREM DeathNeverLifts == LadderInit /\ [][LadderStep]_ladderVars => DeathIsFinal
<1>1. LadderInit /\ [][LadderStep]_ladderVars => [][Descent]_ladderVars
  BY LadderInitially, LedgerPreserved, DeathStep, PTL
<1> QED
  BY <1>1 DEF Descent, DeathIsFinal

-----------------------------------------------------------------------------
(* Capital.                                                                *)

\* A snapshot says what its evidence says, and one that was rejected is dead.
Honest(pp) ==
    /\ pp.verdict = verdict_for_evidence(pp.evidence)
    /\ pp.verdict = "reject" => pp.status = "retired"

\* So do the rows, and the row that is to be written.
EvidenceInv ==
    /\ \A p \in Ids : Issued(p) => Honest(passport[p])
    /\ writer \in Change => Honest(writer.snapshot)

\* What is appended carries an honest snapshot.
LEMMA AppendHonest ==
  ASSUME EvidenceInv, NEW p, NEW type, NEW then, NEW snapshot, AppendEvent(p, type, snapshot, then),
         Honest(snapshot), UNCHANGED passport
  PROVE  EvidenceInv'
<1>1. writer'.snapshot = snapshot
  BY DEF AppendEvent
<1>2. Honest(writer'.snapshot)
  BY <1>1
<1>3. \A p0 \in Ids : Issued(p0)' => Honest(passport[p0])'
  BY DEF EvidenceInv, Issued, Honest
<1> QED
  BY <1>2, <1>3 DEF EvidenceInv, Honest

\* What a change makes of an honest snapshot is honest: a status only for one that
\* was not rejected, a verdict with its evidence.
LEMMA RewrittenHonest ==
  ASSUME NEW pp \in StrategyPassport, Honest(pp), NEW s \in Statuses, NEW r \in Reports,
         NEW paper, NEW live
  PROVE  /\ pp.status # "retired" => Honest([pp EXCEPT !.status = s])
         /\ Honest([pp EXCEPT !.paper_evidence = paper])
         /\ Honest([pp EXCEPT !.live_evidence = live])
         /\ Honest(Reverdict(pp, r))
<1>1. /\ pp.status # "retired" => Honest([pp EXCEPT !.status = s])
      /\ Honest([pp EXCEPT !.paper_evidence = paper])
      /\ Honest([pp EXCEPT !.live_evidence = live])
  BY DEF Honest, StrategyPassport
<1>2. /\ Reverdict(pp, r).evidence = r
      /\ Reverdict(pp, r).verdict = verdict_for_evidence(r)
      /\ verdict_for_evidence(r) = "reject" => Reverdict(pp, r).status = "retired"
  BY DEF Reverdict, StrategyPassport
<1> QED
  BY <1>1, <1>2 DEF Honest

LEMMA EvidencePreserved == LedgerInv /\ EvidenceInv /\ [LadderStep]_ladderVars => EvidenceInv'
<1> SUFFICES ASSUME LedgerInv, EvidenceInv, [LadderStep]_ladderVars PROVE EvidenceInv'
  OBVIOUS
<1>0. LadderTypeOK
  BY DEF LedgerInv
<1>a. ASSUME NEW p \in Ids, Issued(p)
      PROVE  passport[p] \in StrategyPassport /\ Honest(passport[p]) /\ passport[p].evidence \in Reports
  BY <1>0, <1>a DEF LadderTypeOK, EvidenceInv, Issued, StrategyPassport
<1>1. ASSUME NEW p \in Ids, NEW r \in Reports, issue_passport(p, r) PROVE EvidenceInv'
  <2> DEFINE new == [status |-> IF verdict_for_evidence(r) = "reject" THEN "retired" ELSE "candidate",
                     verdict |-> verdict_for_evidence(r), evidence |-> r,
                     paper_evidence |-> "none", live_evidence |-> "none"]
  <2>1. passport' = [passport EXCEPT ![p] = new] /\ writer' = writer /\ writer = Idle
    BY <1>1 DEF issue_passport
  <2>2. Honest(new)
    BY DEF Honest
  <2> HIDE DEF new
  <2>3. \A q \in Ids : Issued(q)' => Honest(passport'[q])
    BY <1>0, <2>1, <2>2 DEF LadderTypeOK, EvidenceInv, Issued
  <2> QED
    BY <2>1, <2>3, IdlePassport DEF EvidenceInv, Honest
<1>2. ASSUME NEW p \in Ids, NEW r \in Reports, rerecord_evidence(p, r) PROVE EvidenceInv'
  <2>1. Issued(p) /\ AppendEvent(p, "evidence_update", Reverdict(passport[p], r), "nothing") /\ passport' = passport
    BY <1>2 DEF rerecord_evidence, Alive
  <2>2. Honest(Reverdict(passport[p], r))
    BY <1>a, <2>1, RewrittenHonest DEF StrategyPassport
  <2> QED
    BY <2>1, <2>2, AppendHonest
<1>3. ASSUME NEW p \in Ids, NEW to \in Statuses, transition(p, to) PROVE EvidenceInv'
  <2>1. Issued(p) /\ passport[p].status # "retired" /\ passport' = passport
        /\ AppendEvent(p, "status_change", [passport[p] EXCEPT !.status = to], "nothing")
    BY <1>3 DEF transition, Alive
  <2>2. Honest([passport[p] EXCEPT !.status = to])
    BY <1>a, <2>1, RewrittenHonest
  <2> QED
    BY <2>1, <2>2, AppendHonest
<1>4. ASSUME NEW p \in Ids, NEW action, record_paper_campaign(p, action) PROVE EvidenceInv'
  <2>1. Issued(p) /\ passport' = passport
        /\ AppendEvent(p, "paper_campaign_update", [passport[p] EXCEPT !.paper_evidence = action], "nothing")
    BY <1>4 DEF record_paper_campaign, Alive
  <2>2. Honest([passport[p] EXCEPT !.paper_evidence = action])
    BY <1>a, <2>1, RewrittenHonest DEF StrategyPassport
  <2> QED
    BY <2>1, <2>2, AppendHonest
<1>5. ASSUME NEW p \in Ids, NEW action, record_canary(p, action) PROVE EvidenceInv'
  <2>1. Issued(p) /\ passport' = passport
        /\ AppendEvent(p, "canary_update", [passport[p] EXCEPT !.live_evidence = action], "nothing")
    BY <1>5 DEF record_canary, Alive
  <2>2. Honest([passport[p] EXCEPT !.live_evidence = action])
    BY <1>a, <2>1, RewrittenHonest DEF StrategyPassport
  <2> QED
    BY <2>1, <2>2, AppendHonest
<1>6. ASSUME NEW p \in Ids, record_calibration(p) PROVE EvidenceInv'
  <2>1. Issued(p) /\ passport' = passport
        /\ AppendEvent(p, "calibration_update", [passport[p] EXCEPT !.live_evidence = "calibration"], "nothing")
    BY <1>6 DEF record_calibration, Alive
  <2>2. Honest([passport[p] EXCEPT !.live_evidence = "calibration"])
    BY <1>a, <2>1, RewrittenHonest DEF StrategyPassport
  <2> QED
    BY <2>1, <2>2, AppendHonest
<1>7. ASSUME NEW p \in Ids, apply(p) PROVE EvidenceInv'
  <2> DEFINE signalled == evaluate(passport[p], Triggered(p))
  <2>1. Issued(p) /\ passport' = passport
    BY <1>7 DEF apply
  <2>2. CASE signalled.action = "stay"
    <3>1. writer' = writer
      BY <1>7, <2>2 DEF apply
    <3> QED
      BY <2>1, <3>1 DEF EvidenceInv, Issued, Honest
  <2>3. CASE signalled.action # "stay"
    <3>1. passport[p].status # "retired" /\ StatusFor(signalled) \in Statuses
      BY <1>a, <2>1, <2>3, DecisionDescends
    <3>2. Honest([passport[p] EXCEPT !.status = StatusFor(signalled)])
      BY <1>a, <2>1, <3>1, RewrittenHonest DEF StrategyPassport
    <3>3. AppendEvent(p, "status_change", [passport[p] EXCEPT !.status = StatusFor(signalled)], "record_rollback")
      BY <1>7, <2>3 DEF apply
    <3> QED
      BY <2>1, <3>2, <3>3, AppendHonest
  <2> QED
    BY <2>2, <2>3
<1>8. CASE Replace
  <2>1. /\ writer \in Change /\ writer.passport \in Ids
        /\ passport' = [passport EXCEPT ![writer.passport] = writer.snapshot]
        /\ writer' = Idle \/ writer' = [writer EXCEPT !.then = "rollback_event"]
    BY <1>0, <1>8 DEF LadderTypeOK, Replace, Change
  <2>2. Honest(writer.snapshot)
    BY <2>1 DEF EvidenceInv
  <2>3. \A q \in Ids : Issued(q)' => Honest(passport'[q])
    BY <1>0, <2>1, <2>2 DEF LadderTypeOK, EvidenceInv, Issued
  <2>4. writer' \in Change => writer'.snapshot = writer.snapshot
    BY <2>1, IdlePassport DEF Change
  <2> QED
    BY <2>2, <2>3, <2>4 DEF EvidenceInv, Honest
<1>9. CASE record_rollback
  <2>1. PICK p \in Ids : p = writer.passport /\ passport[p] \in StrategyPassport
    BY <1>9 DEF LedgerInv, LadderTypeOK, Underway, Change, record_rollback
  <2>2. Issued(p) /\ passport' = passport
        /\ AppendEvent(p, "rollback_update", [passport[p] EXCEPT !.live_evidence = "rollback"], "nothing")
    BY <1>9, <2>1, Unissued DEF record_rollback, Issued
  <2>3. Honest([passport[p] EXCEPT !.live_evidence = "rollback"])
    BY <1>a, <2>2, RewrittenHonest DEF StrategyPassport
  <2> QED
    BY <2>2, <2>3, AppendHonest
<1>10. CASE Crash
  BY <1>10, IdlePassport DEF Crash, EvidenceInv, Issued, Honest
<1>11. ASSUME UNCHANGED <<passport, writer>> PROVE EvidenceInv'
  BY <1>11 DEF EvidenceInv, Issued, Honest
<1>12. ASSUME NEW p \in Ids,
              reset(p) \/ \E drifted, paying \in BOOLEAN : record(p, drifted, paying)
       PROVE EvidenceInv'
  BY <1>11, <1>12 DEF reset, record
<1> QED
  BY <1>1, <1>2, <1>3, <1>4, <1>5, <1>6, <1>7, <1>8, <1>9, <1>10, <1>11, <1>12, ReportsAssumption,
     IdsAssumption DEF LadderStep, ladderVars

-----------------------------------------------------------------------------
(* The competition ladder.                                                 *)

\* Of two passports with evidence one comes first, and what comes first of three
\* comes before the third.
LEMMA LadderOrder ==
  ASSUME LedgerInv
  PROVE  LET real == {p \in Ids : Real(p)}
         IN  /\ \A p \in real : ~Before(p, p)
             /\ \A p, q \in real : p # q => Before(p, q) \/ Before(q, p)
             /\ \A p, q, r \in real : Before(p, q) /\ Before(q, r) => Before(p, r)
<1> DEFINE real == {p \in Ids : Real(p)}
           key(p) == SharpeKey(passport[p].evidence)
           gain(p) == passport[p].evidence.excess
<1>1. ASSUME NEW p \in real PROVE gain(p) \in Int /\ key(p) \in Int /\ p \in Int
  BY ReportsAssumption, IdsAssumption
     DEF Real, Issued, LedgerInv, LadderTypeOK, StrategyPassport, Report, SharpeKey
<1>2. \A p, q : Before(p, q) <=> \/ gain(p) > gain(q)
                                 \/ gain(p) = gain(q) /\ key(p) > key(q)
                                 \/ gain(p) = gain(q) /\ key(p) = key(q) /\ p < q
  BY DEF Before
<1> HIDE DEF real, key, gain
<1>3. /\ \A p \in real : ~Before(p, p)
      /\ \A p, q \in real : p # q => Before(p, q) \/ Before(q, p)
      /\ \A p, q, r \in real : Before(p, q) /\ Before(q, r) => Before(p, r)
  BY <1>1, <1>2
<1> QED
  BY <1>3 DEF real

\* Every passport with evidence has its place in the ladder: its rank is a place,
\* and nobody else has it.
LEMMA EverybodyRanked ==
  ASSUME LedgerInv, registry # << >>, NEW p \in Ids, Real(p)
  PROVE  p \in Range(registry)
<1> DEFINE real == {q \in Ids : Real(q)}
           ahead(q) == {r \in real : Before(r, q)}
<1>1. p \in real /\ IsFiniteSet(real) /\ Cardinality(real) \in Nat
  BY IdsAssumption, FS_Subset, FS_CardinalityType
<1>2. ASSUME NEW q \in real
      PROVE  /\ IsFiniteSet(ahead(q)) /\ Cardinality(ahead(q)) \in Nat
             /\ Cardinality(ahead(q)) < Cardinality(real)
  <2>1. ahead(q) \subseteq real /\ q \notin ahead(q)
    BY LadderOrder
  <2> QED
    BY <1>1, <2>1, FS_Subset, FS_CardinalityType
<1>3. ASSUME NEW q \in real, q # p PROVE Cardinality(ahead(q)) # Cardinality(ahead(p))
  <2>1. ASSUME NEW a \in real, NEW b \in real, Before(a, b)
        PROVE  Cardinality(ahead(a)) < Cardinality(ahead(b))
    <3>1. ahead(a) \subseteq ahead(b) /\ a \in ahead(b) /\ a \notin ahead(a)
      BY <2>1, LadderOrder
    <3> HIDE DEF real, ahead
    <3>2. /\ Cardinality(ahead(a)) <= Cardinality(ahead(b))
          /\ Cardinality(ahead(a)) # Cardinality(ahead(b))
      BY <1>2, <3>1, FS_Subset
    <3> QED
      BY <1>2, <3>2
  <2>2. Before(p, q) \/ Before(q, p)
    BY <1>1, <1>3, LadderOrder
  <2> HIDE DEF real, ahead
  <2>3. PICK m \in Nat, n \in Nat : m = Cardinality(ahead(p)) /\ n = Cardinality(ahead(q))
    BY <1>1, <1>2
  <2>4. m < n \/ n < m
    BY <1>1, <2>1, <2>2, <2>3
  <2> QED
    BY <2>3, <2>4
<1>4. PICK rank \in 1 .. Cardinality(real) : rank = PlaceOf(p, real)
  <2>1. PlaceOf(p, real) = Cardinality(ahead(p)) + 1
    BY DEF PlaceOf
  <2> HIDE DEF real, ahead
  <2> QED
    BY <1>1, <1>2, <2>1
<1>5. (CHOOSE q \in real : PlaceOf(q, real) = rank) = p
  <2>1. ASSUME NEW q \in real, PlaceOf(q, real) = rank PROVE q = p
    <3>1. PlaceOf(q, real) = Cardinality(ahead(q)) + 1 /\ PlaceOf(p, real) = Cardinality(ahead(p)) + 1
      BY DEF PlaceOf
    <3> HIDE DEF real, ahead
    <3>2. PICK m \in Nat, n \in Nat : m = Cardinality(ahead(p)) /\ n = Cardinality(ahead(q))
      BY <1>1, <1>2
    <3>3. m + 1 = n + 1
      <4>1. PlaceOf(p, real) = rank /\ PlaceOf(q, real) = rank
        BY <1>4, <2>1
      <4>2. Cardinality(ahead(q)) + 1 = Cardinality(ahead(p)) + 1
        BY <3>1, <4>1, Zenon
      <4> QED
        BY <3>2, <4>2
    <3>4. m = n
      BY <3>3
    <3> QED
      BY <1>3, <3>2, <3>4
  <2> HIDE DEF real
  <2> QED
    BY <1>1, <1>4, <2>1
<1>6. registry = [k \in 1 .. Cardinality(real) |-> CHOOSE q \in real : PlaceOf(q, real) = k]
  BY DEF registry
<1> HIDE DEF real
<1> QED
  BY <1>4, <1>5, <1>6 DEF Range

LEMMA CapitalFollows == LedgerInv /\ EvidenceInv => CapitalFollowsEvidence
<1> SUFFICES ASSUME LedgerInv, EvidenceInv PROVE CapitalFollowsEvidence
  OBVIOUS
<1>1. ASSUME NEW p \in Ids, Issued(p)
      PROVE  /\ passport[p] \in StrategyPassport /\ Honest(passport[p])
             /\ passport[p].evidence \in Reports /\ passport[p].evidence \in Report
  BY <1>1, ReportsAssumption DEF LedgerInv, LadderTypeOK, EvidenceInv, Issued, StrategyPassport
\* A promotion has four folds behind it, and every gate.
<1>2. ASSUME NEW p \in Ids, Issued(p), passport[p].verdict = "promote_to_paper"
      PROVE  LET e == passport[p].evidence
             IN  /\ e.pbo # "high" /\ e.dsr = "positive"
                 /\ e.positive_folds /\ e.beats_hold /\ e.shallow /\ e.folds > 0
  <2> DEFINE e == passport[p].evidence
  <2>1. verdict_for_evidence(e) = "promote_to_paper" /\ e \in Report /\ e \in Reports
    BY <1>1, <1>2 DEF Honest
  <2>2. e.pbo # "high" /\ e.dsr = "positive" /\ e.positive_folds /\ e.beats_hold /\ e.shallow
    BY <2>1 DEF verdict_for_evidence, Report
  <2>3. e.folds \in Nat /\ ~(e.folds < 4)
    BY <2>1, <2>2, ReportsAssumption DEF Report
  <2> QED
    BY <2>2, <2>3
<1>3. GatesBehindCapital
  BY <1>2 DEF GatesBehindCapital, Eligible, Real
<1>4. AllocatorsAgree
  BY <1>2 DEF AllocatorsAgree, Eligible, Competes, Real
<1>5. CapitalIsRanked
  <2>1. ASSUME NEW p \in Ids, rebalance(Ids)[p] = "resize"
        PROVE  passport[p].status # "retired" /\ (registry # << >> => p \in Range(registry))
    <3>1. Eligible(p)
      BY <2>1 DEF rebalance
    <3> QED
      BY <3>1, EverybodyRanked DEF Eligible
  <2>2. ASSUME NEW s \in Statuses PROVE composition[s] <= Cardinality({p \in Ids : Issued(p)})
    <3> DEFINE issued == {p \in Ids : Issued(p)}
               some == {p \in Ids : Issued(p) /\ passport[p].status = s}
    <3>1. /\ Cardinality(issued) \in Nat /\ Cardinality(some) \in Nat
          /\ Cardinality(some) <= Cardinality(issued)
      <4>1. some \subseteq issued /\ issued \subseteq Ids
        OBVIOUS
      <4> HIDE DEF some, issued
      <4> QED
        BY <4>1, IdsAssumption, FS_Subset, FS_CardinalityType
    <3>2. composition[s] = 0 \/ composition[s] = Cardinality(some)
      BY DEF composition
    <3> HIDE DEF some, issued
    <3>3. composition[s] <= Cardinality(issued)
      BY <3>1, <3>2
    <3> QED
      BY <3>3 DEF issued
  <2> QED
    BY <2>1, <2>2 DEF CapitalIsRanked
<1>6. QualityIsHonest
  <2> SUFFICES ASSUME NEW issued \in SUBSET Ids
               PROVE  LET q == quality(issued)
                      IN  /\ q.rejected \cap q.alive = {}
                          /\ q.alive \cup q.dead = q.promoted \cup q.observed \cup q.rejected
                          /\ q.rate_known <=> q.alive \cup q.dead # {}
                          /\ \A p \in issued : Eligible(p) => p \in q.alive \cap q.promoted
    BY DEF QualityIsHonest
  <2> DEFINE q == quality(issued)
  <2>1. /\ q.alive = {p \in issued : Issued(p) /\ passport[p].status # "retired"}
        /\ q.dead = {p \in issued : Issued(p) /\ passport[p].status = "retired"}
        /\ q.promoted = {p \in issued : Issued(p) /\ passport[p].verdict = "promote_to_paper"}
        /\ q.observed = {p \in issued : Issued(p) /\ passport[p].verdict = "observe"}
        /\ q.rejected = {p \in issued : Issued(p) /\ passport[p].verdict = "reject"}
    BY DEF quality
  <2>2. q.rate_known <=> {p \in issued : Issued(p)} # {}
    BY Zenon DEF quality
  <2>3. \A p \in issued : Issued(p) =>
            /\ passport[p].verdict \in {"reject", "observe", "promote_to_paper"}
            /\ passport[p].verdict = "reject" => passport[p].status = "retired"
    BY <1>1 DEF StrategyPassport, Honest
  <2> HIDE DEF q
  <2>4. q.rejected \cap q.alive = {} /\ q.alive \cup q.dead = q.promoted \cup q.observed \cup q.rejected
    BY <2>1, <2>3
  <2>5. q.rate_known <=> q.alive \cup q.dead # {}
    <3>1. {p \in issued : Issued(p)} = q.alive \cup q.dead
      BY <2>1
    <3> QED
      BY <2>2, <3>1, Zenon
  <2>6. \A p \in issued : Eligible(p) => p \in q.alive \cap q.promoted
    BY <2>1 DEF Eligible, Real
  <2> QED
    BY <2>4, <2>5, <2>6 DEF q
<1> QED
  BY <1>3, <1>4, <1>5, <1>6 DEF CapitalFollowsEvidence

\* However often evidence is recorded anew, campaigns end and the process dies
\* between the writes: who is given capital passed every gate of the evidence on
\* the row, both allocators choose the same passports, each of them has its place
\* in the ladder, and no rejected passport counts as a survivor
\* (capital_allocator.py:160, ensemble_allocator.py:157, measured_loop.py:137).
THEOREM EvidenceBehindCapital == LadderInit /\ [][LadderStep]_ladderVars => []CapitalFollowsEvidence
<1>1. LadderInit => EvidenceInv
  BY IdlePassport DEF LadderInit, EvidenceInv, Issued
<1> QED
  BY LadderInitially, LedgerPreserved, EvidencePreserved, CapitalFollows, <1>1, PTL

-----------------------------------------------------------------------------
(***************************************************************************)
(* Proposals: every reasoner's answer keeps the one contract that the risk *)
(* gate and the simulator read, and what the strict adapters accept, the   *)
(* tolerant one accepts too.                                               *)
(*                                                                         *)
(* Each reasoner makes one of a few forms (stand aside, a rule's action    *)
(* with a bracket from the volatility, a model's own action with its       *)
(* plan), and each form is InForm: of the right type, with a bracket that   *)
(* has at least the floor's room unless the model wrote its own.           *)
(***************************************************************************)

LEMMA ProductGrows ==
  ASSUME NEW r \in Nat, NEW a \in Nat, NEW b \in Nat, a <= b
  PROVE  r * a \in Nat /\ r * a <= r * b
<1>1. PICK d \in Nat : b = a + d
  <2>1. b - a \in Nat /\ b = a + (b - a)
    OBVIOUS
  <2> QED
    BY <2>1
<1>2. r * (a + d) = r * a + r * d
  OBVIOUS
<1>3. r * a \in Nat /\ r * d \in Nat
  OBVIOUS
<1> QED
  BY <1>1, <1>2, <1>3

\* Every stop of the code's own making lies between the floor and the ceiling.
LEMMA StopsAreRoomy ==
  ASSUME NEW deviation \in Maybe(Deviations)
  PROVE  stop_distance_from_volatility(deviation) \in min_stop .. max_stop
<1>1. CASE deviation = << >>
  BY <1>1, ReasonersAssumption DEF stop_distance_from_volatility
<1>2. CASE deviation # << >>
  <2>1. PICK v \in Deviations : deviation = <<v>>
    BY <1>2 DEF Maybe
  <2>2. v \in Nat /\ deviation[1] = v
    BY <2>1, ReasonersAssumption
  <2>3. stop_multiple * v \in Nat
    BY <2>2, ReasonersAssumption
  <2>4. CASE v > 0
    <3>1. stop_distance_from_volatility(deviation) = Least(max_stop, Most(min_stop, stop_multiple * v))
      BY <1>2, <2>2, <2>4 DEF stop_distance_from_volatility
    <3> QED
      BY <2>3, <3>1, ReasonersAssumption DEF Least, Most
  <2>5. CASE ~(v > 0)
    BY <2>2, <2>5, ReasonersAssumption DEF stop_distance_from_volatility
  <2> QED
    BY <2>4, <2>5
<1> QED
  BY <1>1, <1>2

LEMMA OwnPlans ==
  ASSUME NEW stop \in min_stop .. max_stop
  PROVE  /\ bracket_plan(stop) \in Seq(PreTradePlan) /\ bracket_plan(stop) # << >>
         /\ HasBracket(bracket_plan(stop)) /\ bracket_plan(stop)[1].stop >= min_stop
<1>1. stop \in Nat /\ stop > 0 /\ stop <= max_stop /\ max_stop \in Nat /\ risk_reward \in Nat /\ risk_reward > 0
  BY ReasonersAssumption
<1>2. risk_reward * stop \in Nat /\ risk_reward * stop <= risk_reward * max_stop
  BY <1>1, ProductGrows
<1>3. risk_reward * stop > 0
  BY <1>1
<1>4. risk_reward * max_stop \in Nat
  BY <1>1
<1>5. PICK target \in Nat : target = risk_reward * stop
  BY <1>2
<1> DEFINE plan == [stop |-> stop, target |-> target]
<1>6. plan \in PreTradePlan
  BY <1>1, <1>2, <1>4, <1>5 DEF PreTradePlan
<1>7. bracket_plan(stop) = <<plan>> /\ <<plan>>[1] = plan
  BY <1>5 DEF bracket_plan
<1>8. plan.stop = stop /\ plan.target = target
  OBVIOUS
<1> HIDE DEF plan
<1>9. <<plan>> \in Seq(PreTradePlan) /\ <<plan>> # << >>
  BY <1>6
<1> QED
  BY <1>1, <1>3, <1>5, <1>7, <1>8, <1>9, ReasonersAssumption DEF HasBracket

\* The ranges of a proposal's fields, as names: a prover that sees an interval
\* of a thousand numbers in every fact tries them one by one.
SizeRange == 1 .. 1000
PercentRange == 0 .. 100
NamedActions == RISK_INCREASING \cup {"exit", "stand_aside", "scale_out", "reduce_risk"}

LEMMA Ranges ==
  /\ \A n : n \in SizeRange <=> n \in Nat /\ 1 <= n /\ n <= 1000
  /\ \A n : n \in PercentRange <=> n \in Nat /\ n <= 100
<1>1. \A n : n \in SizeRange <=> n \in Nat /\ 1 <= n /\ n <= 1000
  BY SMTT(30) DEF SizeRange
<1>2. \A n : n \in PercentRange <=> n \in Nat /\ n <= 100
  BY DEF PercentRange
<1> QED
  BY <1>1, <1>2

\* The size after the scaling with the confidence.
LEMMA Scaled ==
  ASSUME NEW p, p.size \in SizeRange, p.confidence \in PercentRange
  PROVE  ConfidenceScaled(p) \in SizeRange
<1>1. PICK s, c : s = p.size /\ c = p.confidence
  OBVIOUS
<1>0. s \in Nat /\ 1 <= s /\ s <= 1000 /\ c \in Nat
  BY <1>1, Ranges
<1>2. PICK m \in Int : m = s * (50 + c)
  BY <1>0
<1>3. PICK n \in Int : n = m \div 100
  OBVIOUS
<1>4. ConfidenceScaled(p) = IF c = 50 THEN s ELSE Most(10, Least(1000, n))
  BY <1>1, <1>2, <1>3 DEF ConfidenceScaled
<1>5. ConfidenceScaled(p) \in Nat /\ 1 <= ConfidenceScaled(p) /\ ConfidenceScaled(p) <= 1000
  BY <1>0, <1>3, <1>4 DEF Least, Most
<1> QED
  BY <1>5, Ranges

\* What a proposal of a reasoner is, when it is one: in the ranges of a
\* DecisionProposal, and with a bracket if it adds risk, unless the plan is the
\* model's ("theirs").
InForm(p, theirs) ==
    /\ p \in DecisionProposal
    /\ p.action \in RISK_INCREASING => HasBracket(p.plan) \/ theirs = "bare"
    /\ HasBracket(p.plan) => p.plan[1].stop >= min_stop \/ theirs = "bracket"

LEMMA SoundMade ==
  ASSUME NEW action \in NamedActions,
         NEW size \in SizeRange, NEW confidence \in PercentRange, NEW plan \in Seq(PreTradePlan), NEW theirs,
         action \in RISK_INCREASING => HasBracket(plan) \/ theirs = "bare",
         HasBracket(plan) => plan[1].stop >= min_stop \/ theirs = "bracket"
  PROVE  \A p : p = [action |-> action, size |-> size, confidence |-> confidence, plan |-> plan] => InForm(p, theirs)
<1> SUFFICES ASSUME NEW p, p = [action |-> action, size |-> size, confidence |-> confidence, plan |-> plan]
             PROVE  InForm(p, theirs)
  OBVIOUS
<1>1. p \in DecisionProposal
  BY DEF DecisionProposal, SizeRange, PercentRange, NamedActions
<1>2. p.action = action /\ p.plan = plan
  OBVIOUS
<1> QED
  BY <1>1, <1>2 DEF InForm

LEMMA SoundIsBounded == ASSUME NEW p, NEW theirs, InForm(p, theirs) PROVE Bounded(p)
<1>1. p \in DecisionProposal
  BY DEF InForm
<1>2. p.size \in SizeRange /\ p.confidence \in PercentRange
  BY <1>1 DEF DecisionProposal, SizeRange, PercentRange
<1> QED
  BY <1>1, <1>2, Scaled DEF Bounded, SizeRange

LEMMA EmptyPlan == << >> \in Seq(PreTradePlan) /\ ~HasBracket(<< >>)
  BY DEF HasBracket

LEMMA StandAsideSound ==
  ASSUME NEW n \in SizeRange, NEW theirs,
         NEW p, p = [action |-> "stand_aside", size |-> n, confidence |-> 50, plan |-> << >>]
  PROVE  InForm(p, theirs)
<1>1. /\ "stand_aside" \in NamedActions
      /\ "stand_aside" \notin RISK_INCREASING /\ 50 \in PercentRange
  BY DEF RISK_INCREASING, PercentRange, NamedActions
<1> QED
  BY <1>1, EmptyPlan, SoundMade, Zenon

-----------------------------------------------------------------------------
LEMMA ConfidenceInRange ==
  ASSUME NEW rate \in Int PROVE SolverConfidence(rate) \in 0 .. 100
<1>1. PICK m \in Nat : m = Magnitude(rate)
  BY DEF Magnitude
<1>2. PICK l \in Nat : l = Least(m + 1, 2 * m)
  BY DEF Least
<1>3. PICK d \in Nat : d = (40 * l) \div (m + 1)
  OBVIOUS
<1>4. SolverConfidence(rate) = Least(95, 50 + d)
  BY <1>1, <1>2, <1>3 DEF SolverConfidence
<1> QED
  BY <1>4 DEF Least

LEMMA SolverSound ==
  ASSUME NEW c \in MarketContext, NEW theirs
  PROVE  /\ InForm(Solver(c), theirs)
         /\ Solver(c).plan # << >> =>
               /\ c.momentum # << >> /\ c.momentum # <<0>>
               /\ Solver(c).action = IF c.momentum[1] > 0 THEN "enter_long" ELSE "enter_short"
<1>1. c.momentum \in Maybe(Rates) /\ c.volatility \in Maybe(Deviations) /\ base_size \in SizeRange
  BY ReasonersAssumption DEF MarketContext, SizeRange
<1>2. CASE Direction(c) = "none" \/ Vetoed(c)
  <2>1. Solver(c) = [action |-> "stand_aside", size |-> base_size, confidence |-> 50, plan |-> << >>]
    BY <1>2 DEF Solver, StandAside
  <2>2. Solver(c).plan = << >>
    BY <2>1
  <2>3. InForm(Solver(c), theirs)
    BY <1>1, <2>1, StandAsideSound, Zenon
  <2> QED
    BY <2>2, <2>3
<1>3. CASE ~(Direction(c) = "none" \/ Vetoed(c))
  <2>1. /\ c.momentum # << >>
        /\ \/ Direction(c) = "enter_long" /\ c.momentum[1] > 0
           \/ Direction(c) = "enter_short" /\ c.momentum[1] < 0
    BY <1>3 DEF Direction
  <2>2. PICK rate \in Rates : c.momentum = <<rate>>
    BY <1>1, <2>1 DEF Maybe
  <2>3. rate \in Int /\ c.momentum[1] = rate
    BY <2>2, ReasonersAssumption
  <2>4. PICK confidence \in PercentRange : confidence = SolverConfidence(c.momentum[1])
    BY <2>3, ConfidenceInRange DEF PercentRange
  <2>5. PICK stop \in min_stop .. max_stop : stop = stop_distance_from_volatility(c.volatility)
    BY <1>1, StopsAreRoomy
  <2>6. PICK plan : plan = bracket_plan(stop)
    OBVIOUS
  <2>7. plan \in Seq(PreTradePlan) /\ HasBracket(plan) /\ plan[1].stop >= min_stop
    BY <2>6, OwnPlans
  <2>8. Solver(c) = [action |-> Direction(c), size |-> base_size, confidence |-> confidence, plan |-> plan]
    BY <1>3, <2>4, <2>5, <2>6 DEF Solver
  <2>9. InForm(Solver(c), theirs)
    <3>1. Direction(c) \in NamedActions
      BY <2>1 DEF RISK_INCREASING, NamedActions
    <3> QED
      BY <1>1, <2>7, <2>8, <3>1, SoundMade, Zenon
  <2>10. Solver(c).action = Direction(c) /\ c.momentum # <<0>>
    BY <2>1, <2>2, <2>3, <2>8
  <2> QED
    BY <2>1, <2>3, <2>9, <2>10
<1> QED
  BY <1>2, <1>3

LEMMA ScorerSound ==
  ASSUME NEW c \in MarketContext, NEW theirs
  PROVE  /\ InForm(Scorer(c), theirs)
         /\ c.momentum # << >> /\ c.momentum # <<0>> =>
               Scorer(c).action = IF c.momentum[1] > 0 THEN "enter_long" ELSE "enter_short"
<1>1. c.momentum \in Maybe(Rates) /\ base_size \in SizeRange
  BY ReasonersAssumption DEF MarketContext, SizeRange
<1>2. CASE c.momentum = << >> \/ c.momentum = <<0>>
  <2>1. Scorer(c) = [action |-> "stand_aside", size |-> base_size, confidence |-> 50, plan |-> << >>]
    BY <1>2 DEF Scorer, StandAside
  <2>2. InForm(Scorer(c), theirs)
    BY <1>1, <2>1, StandAsideSound, Zenon
  <2> QED
    BY <1>2, <2>2
<1>3. CASE ~(c.momentum = << >> \/ c.momentum = <<0>>)
  <2>1. PICK rate \in Rates : c.momentum = <<rate>>
    BY <1>1, <1>3 DEF Maybe
  <2>2. rate \in Int /\ c.momentum[1] = rate
    BY <2>1, ReasonersAssumption
  <2>3. PICK m \in Nat : m = Magnitude(rate)
    BY <2>2 DEF Magnitude
  <2>4. base_size * (1 + m) \in Nat /\ base_size * (1 + m) >= 1
    <3>1. base_size \in Nat /\ base_size >= 1
      BY <1>1 DEF SizeRange
    <3>2. base_size * (1 + m) = base_size + base_size * m /\ base_size * m \in Nat
      BY <3>1
    <3> QED
      BY <3>1, <3>2
  <2>5. PICK size \in SizeRange : size = Least(max_size, base_size * (1 + m))
    BY <2>4, ReasonersAssumption DEF Least, SizeRange
  <2>6. << >> \in Maybe(Deviations)
    BY DEF Maybe
  <2>7. PICK stop \in min_stop .. max_stop : stop = stop_distance_from_volatility(<< >>)
    BY <2>6, StopsAreRoomy
  <2>8. PICK plan : plan = bracket_plan(stop)
    OBVIOUS
  <2>9. plan \in Seq(PreTradePlan) /\ HasBracket(plan) /\ plan[1].stop >= min_stop
    BY <2>8, OwnPlans
  <2>10. Scorer(c) = [action |-> IF rate > 0 THEN "enter_long" ELSE "enter_short",
                      size |-> size, confidence |-> 50, plan |-> plan]
    BY <1>3, <2>2, <2>3, <2>5, <2>7, <2>8 DEF Scorer
  <2>11. InForm(Scorer(c), theirs)
    <3>1. PICK action : action = IF rate > 0 THEN "enter_long" ELSE "enter_short"
      OBVIOUS
    <3>2. action \in NamedActions /\ 50 \in PercentRange
      BY <3>1 DEF RISK_INCREASING, NamedActions, PercentRange
    <3>3. Scorer(c) = [action |-> action, size |-> size, confidence |-> 50, plan |-> plan]
      BY <2>10, <3>1
    <3> QED
      BY <2>9, <3>2, <3>3, SoundMade, Zenon
  <2> QED
    BY <2>2, <2>10, <2>11
<1> QED
  BY <1>2, <1>3

-----------------------------------------------------------------------------
\* The adapters of a model's reply.
LEMMA ReplyTypes ==
  ASSUME NEW r \in Reply
  PROVE  /\ r.action \in {"enter_long", "exit", "stand_aside", "hold", "bogus"}
         /\ r.size[1] \in {"absent", "words", "percent", "number"} /\ r.size[2] \in Int
         /\ r.confidence[1] \in {"absent", "words", "number"} /\ r.confidence[2] \in Int
         /\ r.plan \in {"absent", "bracket", "bare", "invalid"}
<1>1. Sizes \subseteq Int /\ Confidences \subseteq Int
  BY ReasonersAssumption
<1>2. /\ r.size \in {<<"absent", 0>>, <<"words", 0>>, <<"percent", 0>>} \cup {<<"number", v>> : v \in Sizes}
      /\ r.confidence \in {<<"absent", 0>>, <<"words", 0>>} \cup {<<"number", v>> : v \in Confidences}
      /\ r.action \in {"enter_long", "exit", "stand_aside", "hold", "bogus"}
      /\ r.plan \in {"absent", "bracket", "bare", "invalid"}
  BY DEF Reply
<1>3. r.size[1] \in {"absent", "words", "percent", "number"} /\ r.size[2] \in Int
  BY <1>1, <1>2
<1>4. r.confidence[1] \in {"absent", "words", "number"} /\ r.confidence[2] \in Int
  BY <1>1, <1>2
<1> QED
  BY <1>2, <1>3, <1>4

\* The plan of a proposal that is not raised.
LEMMA PlansSound ==
  ASSUME NEW r, r.plan \in {"absent", "bracket", "bare"}, NEW c \in MarketContext, NEW action
  PROVE  /\ PlanOf(r, c, action) \in Seq(PreTradePlan)
         /\ action \in RISK_INCREASING => HasBracket(PlanOf(r, c, action)) \/ r.plan = "bare"
         /\ HasBracket(PlanOf(r, c, action)) =>
               PlanOf(r, c, action)[1].stop >= min_stop \/ r.plan = "bracket"
<1>1. CASE action \notin RISK_INCREASING
  <2>1. PlanOf(r, c, action) = << >>
    BY <1>1 DEF PlanOf
  <2> QED
    BY <1>1, <2>1, EmptyPlan
<1>2. CASE action \in RISK_INCREASING /\ r.plan = "bracket"
  <2> DEFINE plan == [stop |-> 1, target |-> 3]
  <2>1. PlanOf(r, c, action) = <<plan>>
    BY <1>2 DEF PlanOf
  <2>2. risk_reward * max_stop \in Nat /\ max_stop >= 1
    BY ReasonersAssumption
  <2>3. plan \in PreTradePlan
    BY <2>2, ReasonersAssumption DEF PreTradePlan
  <2>4. <<plan>> \in Seq(PreTradePlan)
    BY <2>3
  <2>5. HasBracket(<<plan>>)
    BY DEF HasBracket
  <2> QED
    BY <1>2, <2>1, <2>4, <2>5
<1>3. CASE action \in RISK_INCREASING /\ r.plan = "bare"
  <2> DEFINE plan == [stop |-> 0, target |-> 0]
  <2>1. PlanOf(r, c, action) = <<plan>>
    BY <1>3 DEF PlanOf
  <2>2. risk_reward * max_stop \in Nat /\ max_stop \in Nat
    BY ReasonersAssumption
  <2>3. plan \in PreTradePlan
    BY <2>2 DEF PreTradePlan
  <2>4. <<plan>> \in Seq(PreTradePlan)
    BY <2>3
  <2>5. ~HasBracket(<<plan>>)
    BY DEF HasBracket
  <2> QED
    BY <1>3, <2>1, <2>4, <2>5
<1>4. CASE action \in RISK_INCREASING /\ r.plan = "absent"
  <2>1. c.volatility \in Maybe(Deviations)
    BY DEF MarketContext
  <2>2. PICK stop \in min_stop .. max_stop : stop = stop_distance_from_volatility(c.volatility)
    BY <2>1, StopsAreRoomy
  <2>3. PlanOf(r, c, action) = bracket_plan(stop)
    BY <1>4, <2>2 DEF PlanOf
  <2> QED
    BY <2>3, OwnPlans
<1> QED
  BY <1>1, <1>2, <1>3, <1>4

LEMMA OmegaNumbers ==
  ASSUME NEW r \in Reply, NEW action
  PROVE  OmegaSize(r.size, action) \in SizeRange /\ OmegaConfidence(r.confidence) \in PercentRange
<1>1. /\ r.size[1] \in {"absent", "words", "percent", "number"} /\ r.size[2] \in Int
      /\ r.confidence[1] \in {"absent", "words", "number"} /\ r.confidence[2] \in Int
  BY ReplyTypes
<1>2. OmegaSize(r.size, action) \in SizeRange
  <2> DEFINE written == CASE r.size[1] = "number" -> r.size[2] [] r.size[1] = "percent" -> 1 [] OTHER -> 100
             clamped == IF action \in {"stand_aside", "exit", "reduce_risk"} \/ written > 1000
                        THEN Least(Most(written, 10), 1000) ELSE written
  <2>1. written \in Int
    BY <1>1
  <2>2. OmegaSize(r.size, action) = IF clamped <= 0 THEN 100 ELSE clamped
    BY Zenon DEF OmegaSize
  <2> HIDE DEF written
  <2>3. clamped \in Int /\ clamped <= 1000
    BY <2>1 DEF Least, Most
  <2> HIDE DEF clamped
  <2> QED
    BY <2>2, <2>3 DEF SizeRange
<1>3. OmegaConfidence(r.confidence) \in PercentRange
  <2> DEFINE written == IF r.confidence[1] = "number" THEN r.confidence[2] ELSE 50
             scaled == IF written > 100 THEN written \div 100 ELSE written
  <2>1. written \in Int
    BY <1>1
  <2>2. OmegaConfidence(r.confidence) = Least(Most(scaled, 1), 99)
    BY Zenon DEF OmegaConfidence
  <2> HIDE DEF written
  <2>3. scaled \in Int
    BY <2>1
  <2> HIDE DEF scaled
  <2> QED
    BY <2>2, <2>3 DEF Least, Most, PercentRange
<1> QED
  BY <1>2, <1>3

LEMMA OmegaSound ==
  ASSUME NEW r \in Reply, NEW c \in MarketContext
  PROVE  OmegaProposal(r, c) = Raised \/ InForm(OmegaProposal(r, c), r.plan)
<1> DEFINE action == IF r.action = "hold" THEN "stand_aside" ELSE r.action
           raises == action = "bogus" \/ r.confidence[1] = "absent" \/ PlanRaises(r, action)
<1>1. /\ r.action \in {"enter_long", "exit", "stand_aside", "hold", "bogus"}
      /\ r.plan \in {"absent", "bracket", "bare", "invalid"}
  BY ReplyTypes
<1>2. OmegaProposal(r, c) =
        IF raises THEN Raised
        ELSE [action |-> action, size |-> OmegaSize(r.size, action),
              confidence |-> OmegaConfidence(r.confidence), plan |-> PlanOf(r, c, action)]
  BY DEF OmegaProposal
<1>3. ASSUME ~raises PROVE InForm(OmegaProposal(r, c), r.plan)
  <2>1. action \in {"enter_long", "exit", "stand_aside"}
    BY <1>1, <1>3
  <2> HIDE DEF action, raises
  <2>2. PICK size \in SizeRange : size = OmegaSize(r.size, action)
    BY OmegaNumbers
  <2>3. PICK confidence \in PercentRange : confidence = OmegaConfidence(r.confidence)
    BY OmegaNumbers
  <2>4. PICK plan : plan = PlanOf(r, c, action)
    OBVIOUS
  <2>5. /\ plan \in Seq(PreTradePlan)
        /\ action \in RISK_INCREASING => HasBracket(plan) \/ r.plan = "bare"
        /\ HasBracket(plan) => plan[1].stop >= min_stop \/ r.plan = "bracket"
    <3>1. CASE action \in RISK_INCREASING
      <4>1. r.plan \in {"absent", "bracket", "bare"}
        BY <1>1, <1>3, <3>1 DEF PlanRaises, raises
      <4> QED
        BY <2>4, <4>1, PlansSound
    <3>2. CASE action \notin RISK_INCREASING
      <4>1. plan = << >>
        BY <2>4, <3>2 DEF PlanOf
      <4> QED
        BY <3>2, <4>1, EmptyPlan
    <3> QED
      BY <3>1, <3>2
  <2>6. OmegaProposal(r, c) = [action |-> action, size |-> size, confidence |-> confidence, plan |-> plan]
    BY <1>2, <1>3, <2>2, <2>3, <2>4
  <2>7. action \in NamedActions
    BY <2>1 DEF RISK_INCREASING, NamedActions
  <2> QED
    BY <2>5, <2>6, <2>7, SoundMade, Zenon
<1> QED
  BY <1>2, <1>3

LEMMA StandsAside == \A theirs : InForm(StandAside, theirs) /\ StandAside # Raised /\ Raised.action = "raised"
<1>1. StandAside = [action |-> "stand_aside", size |-> 100, confidence |-> 50, plan |-> << >>] /\ 100 \in SizeRange
  BY DEF StandAside, SizeRange
<1>2. StandAside # Raised /\ Raised.action = "raised"
  BY <1>1 DEF Raised
<1>3. /\ "stand_aside" \in NamedActions
      /\ "stand_aside" \notin RISK_INCREASING /\ 50 \in PercentRange
  BY DEF RISK_INCREASING, PercentRange, NamedActions
<1>4. \A theirs : InForm(StandAside, theirs)
  BY <1>1, <1>3, EmptyPlan, SoundMade, Zenon
<1> QED
  BY <1>2, <1>4

LEMMA OmniSound ==
  ASSUME NEW r \in Reply, NEW c \in MarketContext
  PROVE  OmniProposal(r, c) = Raised \/ InForm(OmniProposal(r, c), r.plan)
<1> DEFINE raises == \/ r.action \in {"hold", "bogus"} \/ PlanRaises(r, r.action)
                     \/ r.size[1] \in {"words", "percent"} \/ r.confidence[1] # "number"
                     \/ r.size[1] = "number" /\ r.size[2] \notin 1 .. 1000
                     \/ r.confidence[2] \notin 1 .. 100
           size == IF r.size[1] = "absent" THEN 100 ELSE r.size[2]
           confidence == r.confidence[2]
           plan == PlanOf(r, c, r.action)
<1>1. /\ r.action \in {"enter_long", "exit", "stand_aside", "hold", "bogus"}
      /\ r.size[1] \in {"absent", "words", "percent", "number"}
      /\ r.plan \in {"absent", "bracket", "bare", "invalid"}
  BY ReplyTypes
<1>2. OmniProposal(r, c) = IF raises THEN Raised
                           ELSE [action |-> r.action, size |-> size, confidence |-> confidence, plan |-> plan]
  BY Zenon DEF OmniProposal
<1>3. ASSUME ~raises PROVE InForm(OmniProposal(r, c), r.plan)
  <2>1. r.action \in {"enter_long", "exit", "stand_aside"}
    BY <1>1, <1>3
  <2>2. size \in SizeRange
    BY <1>1, <1>3 DEF SizeRange
  <2>3. confidence \in PercentRange
    BY <1>3 DEF PercentRange
  <2>4. /\ plan \in Seq(PreTradePlan)
        /\ r.action \in RISK_INCREASING => HasBracket(plan) \/ r.plan = "bare"
        /\ HasBracket(plan) => plan[1].stop >= min_stop \/ r.plan = "bracket"
    <3>1. CASE r.action \in RISK_INCREASING
      <4>1. r.plan \in {"absent", "bracket", "bare"}
        BY <1>1, <1>3, <3>1 DEF PlanRaises
      <4> QED
        BY <4>1, PlansSound
    <3>2. CASE r.action \notin RISK_INCREASING
      <4>1. plan = << >>
        BY <3>2 DEF PlanOf
      <4> QED
        BY <3>2, <4>1, EmptyPlan
    <3> QED
      BY <3>1, <3>2
  <2>5. r.action \in NamedActions
    BY <2>1 DEF RISK_INCREASING, NamedActions
  <2>6. OmniProposal(r, c) = [action |-> r.action, size |-> size, confidence |-> confidence, plan |-> plan]
    BY <1>2, <1>3
  <2> HIDE DEF size, confidence, plan, raises
  <2> QED
    BY <2>2, <2>3, <2>4, <2>5, <2>6, SoundMade, Zenon
<1> HIDE DEF raises
<1> QED
  BY <1>2, <1>3

LEMMA PydanticSound ==
  ASSUME NEW r \in Reply, NEW c \in MarketContext
  PROVE  PydanticProposal(r, c) = Raised \/ InForm(PydanticProposal(r, c), "absent")
<1> DEFINE s == [r EXCEPT !.plan = "absent"]
           plan == PlanOf(s, c, r.action)
<1>1. r.action \in {"enter_long", "exit", "stand_aside", "hold", "bogus"}
  BY ReplyTypes
<1>2. s.plan = "absent"
  BY DEF Reply
<1>3. PydanticProposal(r, c) = IF ~PydanticAccepts(r) THEN Raised
        ELSE [action |-> r.action, size |-> r.size[2], confidence |-> r.confidence[2], plan |-> plan]
  BY Zenon DEF PydanticProposal
<1> HIDE DEF s
<1>4. /\ plan \in Seq(PreTradePlan)
      /\ r.action \in RISK_INCREASING => HasBracket(plan) \/ s.plan = "bare"
      /\ HasBracket(plan) => plan[1].stop >= min_stop \/ s.plan = "bracket"
  BY <1>2, PlansSound
<1>5. ASSUME PydanticAccepts(r)
      PROVE  /\ r.action \in NamedActions
             /\ r.size[2] \in SizeRange /\ r.confidence[2] \in PercentRange
  BY <1>1, <1>5 DEF PydanticAccepts, RISK_INCREASING, NamedActions, SizeRange, PercentRange
<1> HIDE DEF plan
<1>6. ASSUME PydanticAccepts(r) PROVE InForm(PydanticProposal(r, c), "absent")
  <2>1. PydanticProposal(r, c) = [action |-> r.action, size |-> r.size[2], confidence |-> r.confidence[2], plan |-> plan]
    BY <1>3, <1>6
  <2>2. /\ r.action \in RISK_INCREASING => HasBracket(plan) \/ "absent" = "bare"
        /\ HasBracket(plan) => plan[1].stop >= min_stop \/ "absent" = "bracket"
    BY <1>2, <1>4
  <2> QED
    BY <1>4, <1>5, <1>6, <2>1, <2>2, SoundMade, Zenon
<1> QED
  BY <1>3, <1>6

-----------------------------------------------------------------------------
\* What the tolerant adapter makes of a reply the strict one takes.
LEMMA NumbersTolerated ==
  ASSUME NEW r \in Reply, NEW action
  PROVE  /\ r.size[1] = "number" /\ r.size[2] \in SizeRange /\ action \in RISK_INCREASING =>
               OmegaSize(r.size, action) = r.size[2]
         /\ r.size[1] = "absent" /\ action \in RISK_INCREASING => OmegaSize(r.size, action) = 100
         /\ r.confidence[1] = "number" /\ r.confidence[2] \in PercentRange =>
               Magnitude(OmegaConfidence(r.confidence) - r.confidence[2]) <= 1
<1>1. ASSUME r.size[1] = "number", r.size[2] \in SizeRange, action \in RISK_INCREASING
      PROVE  OmegaSize(r.size, action) = r.size[2]
  <2>0. PICK n : n = r.size[2]
    OBVIOUS
  <2>1. n \in Nat /\ 1 <= n /\ n <= 1000
    BY <1>1, <2>0, Ranges
  <2>2. action \notin {"stand_aside", "exit", "reduce_risk"}
    BY <1>1 DEF RISK_INCREASING
  <2> DEFINE written == CASE r.size[1] = "number" -> r.size[2] [] r.size[1] = "percent" -> 1 [] OTHER -> 100
             clamped == IF action \in {"stand_aside", "exit", "reduce_risk"} \/ written > 1000
                        THEN Least(Most(written, 10), 1000) ELSE written
  <2>3. written = n
    BY <1>1, <2>0
  <2>4. OmegaSize(r.size, action) = IF clamped <= 0 THEN 100 ELSE clamped
    BY Zenon DEF OmegaSize
  <2> HIDE DEF written
  <2>5. clamped = n
    BY <2>1, <2>2, <2>3
  <2> HIDE DEF clamped
  <2>6. OmegaSize(r.size, action) = n
    BY <2>1, <2>4, <2>5
  <2> QED
    BY <2>0, <2>6
<1>2. ASSUME r.size[1] = "absent", action \in RISK_INCREASING PROVE OmegaSize(r.size, action) = 100
  <2>1. action \notin {"stand_aside", "exit", "reduce_risk"}
    BY <1>2 DEF RISK_INCREASING
  <2> DEFINE written == CASE r.size[1] = "number" -> r.size[2] [] r.size[1] = "percent" -> 1 [] OTHER -> 100
             clamped == IF action \in {"stand_aside", "exit", "reduce_risk"} \/ written > 1000
                        THEN Least(Most(written, 10), 1000) ELSE written
  <2>3. written = 100
    BY <1>2
  <2>4. OmegaSize(r.size, action) = IF clamped <= 0 THEN 100 ELSE clamped
    BY Zenon DEF OmegaSize
  <2> HIDE DEF written
  <2>5. clamped = 100
    BY <2>1, <2>3
  <2> HIDE DEF clamped
  <2> QED
    BY <2>4, <2>5
<1>3. ASSUME r.confidence[1] = "number", r.confidence[2] \in PercentRange
      PROVE  Magnitude(OmegaConfidence(r.confidence) - r.confidence[2]) <= 1
  <2>0. PICK n : n = r.confidence[2]
    OBVIOUS
  <2>1. n \in Nat /\ n <= 100
    BY <1>3, <2>0, Ranges
  <2>2. OmegaConfidence(r.confidence) = Least(Most(n, 1), 99)
    BY <1>3, <2>0, <2>1 DEF OmegaConfidence
  <2>3. Magnitude(Least(Most(n, 1), 99) - n) <= 1
    BY <2>1 DEF Least, Most, Magnitude
  <2> QED
    BY <2>0, <2>2, <2>3
<1> QED
  BY <1>1, <1>2, <1>3

LEMMA OmniTolerated ==
  ASSUME NEW r \in Reply, NEW c \in MarketContext
  PROVE  OmegaTolerates(OmniProposal(r, c), OmegaProposal(r, c))
<1> DEFINE strict == OmniProposal(r, c)
           p == OmegaProposal(r, c)
           size == IF r.size[1] = "absent" THEN 100 ELSE r.size[2]
<1>1. SUFFICES ASSUME strict # Raised
               PROVE  /\ p.action = strict.action /\ (p.action \in RISK_INCREASING => p.size = strict.size)
                      /\ Magnitude(p.confidence - strict.confidence) <= 1
  BY SMTT(30) DEF OmegaTolerates
<1>2. /\ r.action \notin {"hold", "bogus"} /\ ~PlanRaises(r, r.action)
      /\ r.size[1] \notin {"words", "percent"} /\ r.confidence[1] = "number"
      /\ r.size[1] = "number" => r.size[2] \in SizeRange
      /\ r.confidence[2] \in PercentRange
      /\ strict = [action |-> r.action, size |-> size, confidence |-> r.confidence[2], plan |-> PlanOf(r, c, r.action)]
  BY <1>1 DEF OmniProposal, SizeRange, PercentRange
<1>3. r.size[1] \in {"absent", "number"}
  BY <1>2, ReplyTypes
<1>4. p = [action |-> r.action, size |-> OmegaSize(r.size, r.action),
           confidence |-> OmegaConfidence(r.confidence), plan |-> PlanOf(r, c, r.action)]
  BY <1>2 DEF OmegaProposal
<1>5. strict.action = r.action /\ strict.size = size /\ strict.confidence = r.confidence[2]
  BY <1>2
<1>6. p.action = r.action /\ p.size = OmegaSize(r.size, r.action) /\ p.confidence = OmegaConfidence(r.confidence)
  BY <1>4
<1>7. r.action \in RISK_INCREASING => OmegaSize(r.size, r.action) = size
  BY <1>2, <1>3, NumbersTolerated
<1>8. Magnitude(OmegaConfidence(r.confidence) - r.confidence[2]) <= 1
  BY <1>2, NumbersTolerated
<1> HIDE DEF p, strict, size
<1> QED
  BY <1>5, <1>6, <1>7, <1>8

LEMMA PydanticTolerated ==
  ASSUME NEW r \in Reply, NEW c \in MarketContext, r.plan # "invalid"
  PROVE  OmegaTolerates(PydanticProposal(r, c), OmegaProposal(r, c))
<1> DEFINE strict == PydanticProposal(r, c)
           p == OmegaProposal(r, c)
           plan == PlanOf([r EXCEPT !.plan = "absent"], c, r.action)
<1>1. SUFFICES ASSUME strict # Raised
               PROVE  /\ p.action = strict.action /\ (p.action \in RISK_INCREASING => p.size = strict.size)
                      /\ Magnitude(p.confidence - strict.confidence) <= 1
  BY DEF OmegaTolerates
<1>2. /\ PydanticAccepts(r)
      /\ strict = [action |-> r.action, size |-> r.size[2], confidence |-> r.confidence[2], plan |-> plan]
  BY <1>1 DEF PydanticProposal
<1>3. /\ r.action \notin {"hold", "bogus"} /\ r.size[1] = "number" /\ r.confidence[1] = "number"
      /\ r.size[2] \in SizeRange /\ r.confidence[2] \in PercentRange
  BY <1>2 DEF PydanticAccepts, SizeRange, PercentRange
<1>4. p = [action |-> r.action, size |-> OmegaSize(r.size, r.action),
           confidence |-> OmegaConfidence(r.confidence), plan |-> PlanOf(r, c, r.action)]
  BY <1>3 DEF OmegaProposal, PlanRaises
<1>5. strict.action = r.action /\ strict.size = r.size[2] /\ strict.confidence = r.confidence[2]
  BY <1>2
<1>6. p.action = r.action /\ p.size = OmegaSize(r.size, r.action) /\ p.confidence = OmegaConfidence(r.confidence)
  BY <1>4
<1>7. r.action \in RISK_INCREASING => OmegaSize(r.size, r.action) = r.size[2]
  BY <1>3, NumbersTolerated
<1>8. Magnitude(OmegaConfidence(r.confidence) - r.confidence[2]) <= 1
  BY <1>3, NumbersTolerated
<1> HIDE DEF p, strict
<1> QED
  BY <1>5, <1>6, <1>7, <1>8

-----------------------------------------------------------------------------
\* Each reasoner is asked once, about the input that was chosen.
Answered ==
    [who \in Reasoners |->
        CASE who = "solver" -> Solver(context) [] who = "scorer" -> Scorer(context)
          [] who = "omega" -> OmegaProposal(reply, context)
          [] who = "omni" -> Answer(OmniProposal(reply, context))
          [] who = "pydantic" -> Answer(PydanticProposal(reply, context))]

ProposalInv ==
    /\ context \in MarketContext /\ reply \in Reply
    /\ answers = << >> \/ answers = Answered

LEMMA ProposalsKept == ProposalInit => ProposalInv
  BY DEF ProposalInit, ProposalInv

LEMMA ProposalsStep == ProposalInv /\ [AskAll]_proposalVars => ProposalInv'
<1>1. ASSUME ProposalInv, AskAll PROVE ProposalInv'
  <2>1. context' = context /\ reply' = reply /\ answers' = Answered
    BY <1>1 DEF AskAll, Answered
  <2>2. Answered' = Answered
    BY <2>1 DEF Answered
  <2> QED
    BY <1>1, <2>1, <2>2 DEF ProposalInv
<1>2. ASSUME ProposalInv, UNCHANGED proposalVars PROVE ProposalInv'
  BY <1>2 DEF proposalVars, ProposalInv, Answered
<1> QED
  BY <1>1, <1>2

\* A sound proposal keeps to the contract.
LEMMA SoundKeeps ==
  ASSUME NEW p, NEW theirs, InForm(p, theirs), NEW who,
         theirs # "absent" => theirs = reply.plan /\ who \in {"omega", "omni"}
  PROVE  Bounded(p) /\ Protected(who, p) /\ StopsHaveFloor(who, p)
<1>1. Bounded(p)
  BY SoundIsBounded
<1> QED
  BY <1>1 DEF InForm, Protected, StopsHaveFloor

LEMMA RaisedKeeps == \A who : Bounded(Raised) /\ Protected(who, Raised) /\ StopsHaveFloor(who, Raised)
<1>1. Raised.action \notin RISK_INCREASING /\ Raised.plan = << >>
  BY DEF Raised, RISK_INCREASING
<1> QED
  BY <1>1, EmptyPlan DEF Bounded, Protected, StopsHaveFloor

LEMMA ProposalsSay == ASSUME ProposalInv PROVE ReasonersAgree
<1>1. SUFFICES ASSUME answers # << >>
      PROVE  /\ \A who \in Reasoners :
                  Bounded(answers[who]) /\ Protected(who, answers[who]) /\ StopsHaveFloor(who, answers[who])
             /\ SolverWithinScorer(answers)
             /\ OmegaTolerates(OmniProposal(reply, context), answers["omega"])
             /\ reply.plan # "invalid" => OmegaTolerates(PydanticProposal(reply, context), answers["omega"])
  BY Zenon DEF ReasonersAgree
<1>2. context \in MarketContext /\ reply \in Reply /\ answers = Answered
  BY <1>1 DEF ProposalInv
<1>3. /\ answers["solver"] = Solver(context) /\ answers["scorer"] = Scorer(context)
      /\ answers["omega"] = OmegaProposal(reply, context)
      /\ answers["omni"] = Answer(OmniProposal(reply, context))
      /\ answers["pydantic"] = Answer(PydanticProposal(reply, context))
  BY <1>2 DEF Answered, Reasoners
<1> DEFINE Fit(who) == Bounded(answers[who]) /\ Protected(who, answers[who]) /\ StopsHaveFloor(who, answers[who])
<1>4. Fit("solver")
  BY <1>2, <1>3, SolverSound, SoundKeeps
<1>5. Fit("scorer")
  BY <1>2, <1>3, ScorerSound, SoundKeeps
<1>6. Fit("omega")
  BY <1>2, <1>3, OmegaSound, SoundKeeps, RaisedKeeps
<1>7. Fit("omni")
  <2>1. answers["omni"] = StandAside \/ InForm(answers["omni"], reply.plan)
    BY <1>2, <1>3, OmniSound DEF Answer
  <2> QED
    BY <2>1, StandsAside, SoundKeeps
<1>8. Fit("pydantic")
  <2>1. answers["pydantic"] = StandAside \/ InForm(answers["pydantic"], "absent")
    BY <1>2, <1>3, PydanticSound DEF Answer
  <2> QED
    BY <2>1, StandsAside, SoundKeeps
<1>9. \A who \in Reasoners : Fit(who)
  <2> HIDE DEF Fit
  <2> QED
    BY <1>4, <1>5, <1>6, <1>7, <1>8 DEF Reasoners
<1>10. SolverWithinScorer(answers)
  BY <1>2, <1>3, SolverSound, ScorerSound DEF SolverWithinScorer
<1>11. OmegaTolerates(OmniProposal(reply, context), answers["omega"])
  BY <1>2, <1>3, OmniTolerated
<1>12. reply.plan # "invalid" => OmegaTolerates(PydanticProposal(reply, context), answers["omega"])
  BY <1>2, <1>3, PydanticTolerated
<1> QED
  BY <1>9, <1>10, <1>11, <1>12

\* The reasoners keep to one contract, whatever the context and the reply, and
\* for any settings within their configured ranges: their proposals are bounded,
\* every entry has its bracket or is the model's own to be refused, and where
\* two of them read the same they do not contradict each other
\* (rule_based_solver.py, quant_momentum_scorer.py, smart_fallback_reasoner.py,
\* omni_route_reasoner.py, pydantic_ai_reasoner.py).
THEOREM OneContract == ProposalInit /\ [][AskAll]_proposalVars => []ReasonersAgree
<1> QED
  BY ProposalsKept, ProposalsStep, ProposalsSay, PTL

-----------------------------------------------------------------------------
(***************************************************************************)
(* Learning: what the memory holds are results that were booked, a recall  *)
(* reads no more than its limit, and the estimate of the edge is backed by *)
(* results of its symbol.                                                  *)
(*                                                                         *)
(* A reflection is a recursion over the places of a column.  It is read    *)
(* through a course of values: after each place the memory is still        *)
(* faithful, and what was heard only grows.  A row that is closed is       *)
(* always a result that was booked, and one that is open is of a trade     *)
(* that was opened after every result booked under its id, which is why a  *)
(* row written over after a restart does not let memory disagree with a    *)
(* row whose id was used once.                                             *)
(***************************************************************************)

WinsOf(booked, s) == {r \in booked : r.symbol = s /\ r.pnl > 0}
LossesOf(booked, s) == {r \in booked : r.symbol = s /\ r.pnl < 0}

\* Every episode is a booked result, and no two are of one id.
Faithful(rows, booked) ==
    /\ \A i \in 1 .. Len(rows) : rows[i] \in booked
    /\ \A i, j \in 1 .. Len(rows) : i # j => rows[i].id # rows[j].id

\* An estimate counts no more than was booked, and enough to say something.
Backed(estimate, booked, s) ==
    estimate # << >> =>
        \E w, l \in Nat : /\ estimate = <<[wins |-> w, losses |-> l]>>
                          /\ w <= Cardinality(WinsOf(booked, s))
                          /\ l <= Cardinality(LossesOf(booked, s))
                          /\ w + l \in MinOutcomes .. RecallLimit

LEMMA EpisodeTypes ==
  ASSUME NEW e \in MemoryEpisode
  PROVE  e.id \in TradeIds /\ e.symbol \in Symbols /\ e.opened \in Nat /\ e.opened \in 1 .. MaxTrades
         /\ e.pnl \in Int /\ e.pnl \in Outcomes
<1>1. 1 .. MaxTrades \subseteq Nat /\ Outcomes \subseteq Int
  BY LearningAssumption
<1> QED
  BY <1>1 DEF MemoryEpisode

\* Of some rows no more than RecallLimit are recalled: the oldest of them has the
\* others before it.
LEMMA RecallBound ==
  ASSUME NEW rows \in Seq(MemoryEpisode), NEW s
  PROVE  /\ Recalled(rows, s) \in SUBSET (1 .. Len(rows))
         /\ \A i \in Recalled(rows, s) : rows[i].symbol = s
         /\ IsFiniteSet(Recalled(rows, s)) /\ Cardinality(Recalled(rows, s)) \in 0 .. RecallLimit
<1> DEFINE n == Len(rows)
           Of == {i \in 1 .. n : rows[i].symbol = s}
           Ahead(i) == {j \in Of : Sooner(rows, j, i)}
           R == {i \in Of : Cardinality(Ahead(i)) < RecallLimit}
<1>1. n \in Nat /\ IsFiniteSet(1 .. n) /\ RecallLimit \in Nat \ {0}
  BY FS_Interval, LearningAssumption
<1>2. Recalled(rows, s) = R /\ R \in SUBSET Of /\ Of \in SUBSET (1 .. n)
  <2>1. DOMAIN rows = 1 .. n
    OBVIOUS
  <2> QED
    BY <2>1, Zenon DEF Recalled
<1>3. \A S \in SUBSET Of : IsFiniteSet(S) /\ Cardinality(S) \in Nat
  BY <1>1, <1>2, FS_Subset, FS_CardinalityType
<1>4. \A i \in 1 .. n : rows[i].opened \in Nat
  BY EpisodeTypes
<1>5. ASSUME R # {} PROVE Cardinality(R) <= RecallLimit
  <2> DEFINE T == {rows[i].opened : i \in R}
  <2>1. T \in SUBSET Nat /\ T # {}
    BY <1>2, <1>4, <1>5
  <2>2. PICK t \in T : \A u \in T : t <= u
    BY <2>1, LeastNumber
  <2> DEFINE I == {i \in R : rows[i].opened = t}
  <2>3. I \in SUBSET Nat /\ I # {}
    <3>1. PICK j \in R : rows[j].opened = t
      BY <2>2
    <3>2. 1 .. n \in SUBSET Nat /\ R \in SUBSET (1 .. n)
      BY <1>2
    <3> HIDE DEF R
    <3> QED
      BY <3>1, <3>2
  <2>4. PICK i \in I : \A j \in I : i <= j
    BY <2>3, LeastNumber
  <2>5. i \in R /\ rows[i].opened = t
    BY <2>4
  <2>6. R \ {i} \in SUBSET Ahead(i)
    <3>1. ASSUME NEW j \in R \ {i} PROVE j \in Of /\ Sooner(rows, j, i)
      <4>1. /\ j \in Of /\ j \in 1 .. n /\ i \in 1 .. n /\ rows[j].opened \in Nat /\ t \in Nat
            /\ t <= rows[j].opened /\ (rows[j].opened = t => i <= j)
        BY <1>2, <1>4, <2>1, <2>2, <2>4, <2>5
      <4>2. i # j /\ i \in Nat /\ j \in Nat
        BY <4>1
      <4> QED
        BY <2>5, <4>1, <4>2 DEF Sooner
    <3> QED
      BY <3>1
  <2>7. Cardinality(Ahead(i)) < RecallLimit /\ Ahead(i) \in SUBSET Of
    BY <2>5
  <2> HIDE DEF R, Ahead, I, T
  <2>8. Cardinality(R \ {i}) <= Cardinality(Ahead(i)) /\ Cardinality(Ahead(i)) \in Nat
    BY <1>3, <2>6, <2>7, FS_Subset
  <2>9. Cardinality(R \ {i}) = Cardinality(R) - 1 /\ Cardinality(R) \in Nat
    BY <1>2, <1>3, <2>5, FS_RemoveElement
  <2> QED
    BY <1>1, <2>7, <2>8, <2>9
<1>6. R = {} => Cardinality(R) = 0
  BY FS_EmptySet
<1>7. \A i \in R : rows[i].symbol = s
  OBVIOUS
<1> HIDE DEF R
<1>8. IsFiniteSet(R) /\ Cardinality(R) \in Nat
  BY <1>2, <1>3
<1>9. Cardinality(R) <= RecallLimit
  BY <1>1, <1>5, <1>6
<1>10. PICK c : c = Cardinality(R)
  OBVIOUS
<1>11. c \in 0 .. RecallLimit
  BY <1>1, <1>8, <1>9, <1>10
<1>12. Recalled(rows, s) \in SUBSET (1 .. n)
  BY <1>2
<1> HIDE DEF Of
<1> QED
  BY <1>2, <1>7, <1>8, <1>10, <1>11, <1>12, Zenon

\* Some episodes are no more than the results they are.
LEMMA EpisodesCount ==
  ASSUME NEW rows \in Seq(MemoryEpisode), NEW booked, Faithful(rows, booked),
         NEW S \in SUBSET (1 .. Len(rows)), NEW T, IsFiniteSet(T),
         \A i \in S : rows[i] \in T
  PROVE  Cardinality(S) <= Cardinality(T)
<1> DEFINE f == [i \in S |-> rows[i]]
<1>1. f \in Injection(S, T)
  BY DEF Injection, IsInjective, Faithful
<1> QED
  BY <1>1, FS_Injection

LEMMA EstimateBacked ==
  ASSUME NEW rows \in Seq(MemoryEpisode), NEW booked, IsFiniteSet(booked), Faithful(rows, booked), NEW s
  PROVE  Backed(estimate_edge(rows, s), booked, s)
<1> DEFINE R == Recalled(rows, s)
           W == {i \in R : rows[i].pnl > 0}
           L == {i \in R : rows[i].pnl < 0}
           w == Cardinality(W)
           l == Cardinality(L)
<1>1. /\ R \in SUBSET (1 .. Len(rows)) /\ IsFiniteSet(R) /\ Cardinality(R) \in 0 .. RecallLimit
      /\ \A i \in R : rows[i].symbol = s
  BY RecallBound
<1>2. \A i \in 1 .. Len(rows) : rows[i].pnl \in Int
  BY EpisodeTypes
<1>3. w <= Cardinality(WinsOf(booked, s))
  <2>1. \A i \in W : rows[i] \in WinsOf(booked, s)
    BY <1>1 DEF Faithful, WinsOf
  <2>2. IsFiniteSet(WinsOf(booked, s))
    BY FS_Subset DEF WinsOf
  <2> QED
    BY <1>1, <2>1, <2>2, EpisodesCount
<1>4. l <= Cardinality(LossesOf(booked, s))
  <2>1. \A i \in L : rows[i] \in LossesOf(booked, s)
    BY <1>1 DEF Faithful, LossesOf
  <2>2. IsFiniteSet(LossesOf(booked, s))
    BY FS_Subset DEF LossesOf
  <2> QED
    BY <1>1, <2>1, <2>2, EpisodesCount
<1>5. w \in Nat /\ l \in Nat /\ w + l <= Cardinality(R)
  <2>1. IsFiniteSet(W) /\ IsFiniteSet(L) /\ W \cup L \in SUBSET R /\ W \cap L = {}
    BY <1>1, <1>2, FS_Subset
  <2>2. w \in Nat /\ l \in Nat
    BY <2>1, FS_CardinalityType
  <2>3. Cardinality(W \cup L) = w + l
    <3> HIDE DEF W, L
    <3>1. Cardinality(W \cap L) = 0
      BY <2>1, FS_EmptySet
    <3>2. Cardinality(W \cup L) = Cardinality(W) + Cardinality(L) - Cardinality(W \cap L)
      BY <2>1, FS_Union
    <3> QED
      BY <2>2, <3>1, <3>2
  <2> QED
    BY <1>1, <2>1, <2>2, <2>3, FS_Subset
<1>6. estimate_edge(rows, s) = IF w + l < MinOutcomes THEN << >> ELSE <<[wins |-> w, losses |-> l]>>
  BY DEF estimate_edge
<1> HIDE DEF w, l, R
<1>7. ASSUME estimate_edge(rows, s) # << >> PROVE w + l \in MinOutcomes .. RecallLimit
  <2>1. ~(w + l < MinOutcomes)
    BY <1>6, <1>7
  <2> QED
    BY <1>1, <1>5, <2>1, LearningAssumption
<1> QED
  BY <1>3, <1>4, <1>5, <1>6, <1>7 DEF Backed

\* What is backed stays so when more is booked.
LEMMA BackedGrows ==
  ASSUME NEW estimate, NEW booked, NEW more, NEW s, booked \subseteq more, IsFiniteSet(more),
         Backed(estimate, booked, s)
  PROVE  Backed(estimate, more, s)
<1>1. /\ WinsOf(booked, s) \in SUBSET WinsOf(more, s) /\ LossesOf(booked, s) \in SUBSET LossesOf(more, s)
      /\ WinsOf(more, s) \in SUBSET more /\ LossesOf(more, s) \in SUBSET more
  BY DEF WinsOf, LossesOf
<1>2. IsFiniteSet(WinsOf(more, s)) /\ IsFiniteSet(LossesOf(more, s))
  BY <1>1, FS_Subset
<1>3. /\ IsFiniteSet(WinsOf(booked, s)) /\ Cardinality(WinsOf(booked, s)) <= Cardinality(WinsOf(more, s))
      /\ IsFiniteSet(LossesOf(booked, s)) /\ Cardinality(LossesOf(booked, s)) <= Cardinality(LossesOf(more, s))
  BY <1>1, <1>2, FS_Subset
<1>4. PICK a \in Nat, b \in Nat, c \in Nat, d \in Nat :
         /\ a = Cardinality(WinsOf(booked, s)) /\ b = Cardinality(WinsOf(more, s))
         /\ c = Cardinality(LossesOf(booked, s)) /\ d = Cardinality(LossesOf(more, s))
  BY <1>2, <1>3, FS_CardinalityType
<1>5. a <= b /\ c <= d
  BY <1>3, <1>4
<1>6. \A w \in Nat : (w <= a => w <= b) /\ (w <= c => w <= d)
  BY <1>5
<1> QED
  BY <1>4, <1>6 DEF Backed

-----------------------------------------------------------------------------
\* The ids whose episode the rows have.
Heard(rows) == {rows[i].id : i \in 1 .. Len(rows)}

\* The result that a row shows.
RowResult(id) ==
    [id |-> id, symbol |-> trade_ledger[id].symbol, opened |-> trade_ledger[id].opened,
     pnl |-> trade_ledger[id].pnl]

ClosedRows == {id \in TradeIds : trade_ledger[id].status = "closed"}

RowsBooked == \A id \in ClosedRows : RowResult(id) \in results

\* Recording a closed row keeps the rows faithful, and its episode is there.
LEMMA RecordKeeps ==
  ASSUME (results \subseteq MemoryEpisode)', RowsBooked',
         NEW rows \in Seq(MemoryEpisode), Faithful(rows, results'), NEW id \in ClosedRows'
  PROVE  /\ Record(rows, id) \in Seq(MemoryEpisode) /\ Faithful(Record(rows, id), results')
         /\ Heard(Record(rows, id)) = Heard(rows) \cup {id}
<1> DEFINE e == RowResult(id)'
<1>1. CASE \E i \in DOMAIN rows : rows[i].id = id
  BY <1>1 DEF Record, Heard
<1>2. CASE ~\E i \in DOMAIN rows : rows[i].id = id
  <2>1. Record(rows, id) = Append(rows, e)
    BY <1>2 DEF Record, RowResult
  <2>2. e \in results' /\ e \in MemoryEpisode /\ e.id = id
    BY DEF RowsBooked, RowResult
  <2>4. PICK n \in Nat : n = Len(rows)
    OBVIOUS
  <2>5. PICK new : new = Append(rows, e)
    OBVIOUS
  <2> HIDE DEF e
  <2>6. /\ new \in Seq(MemoryEpisode) /\ Len(new) = n + 1 /\ new[n + 1] = e
        /\ \A i \in 1 .. n : new[i] = rows[i]
    BY <2>2, <2>4, <2>5, AppendProperties
  <2>7. \A i \in 1 .. n + 1 : i \in 1 .. n \/ i = n + 1
    OBVIOUS
  <2>9. \A i \in 1 .. n : rows[i].id # id
    BY <1>2, <2>4
  <2>10. Faithful(new, results')
    BY <2>2, <2>4, <2>6, <2>7, <2>9, SMTT(30) DEF Faithful
  <2>11. Heard(new) = Heard(rows) \cup {id}
    BY <2>2, <2>4, <2>6, <2>7 DEF Heard
  <2> QED
    BY <2>1, <2>5, <2>6, <2>10, <2>11
<1> QED
  BY <1>1, <1>2

DueTo(s, until) ==
    {k \in Latest(Len(listed[s]), ReflectLimit) : trade_ledger[listed[s][k]].status = "closed" /\ k < until}

\* The table that a reflection is read from.
Remembers(f, s, until) ==
    f = [k \in 0 .. Len(listed'[s]) |->
            IF k = 0 THEN memory
            ELSE IF k \in DueTo(s, until)' THEN Record(f[k - 1], listed'[s][k]) ELSE f[k - 1]]

LEMMA ReflectedIs ==
  ASSUME NEW CONSTANT s, NEW CONSTANT until
  PROVE  Reflected(s, until) = (CHOOSE f : Remembers(f, s, until))[Len(listed'[s])]
  BY DEF Reflected, Remembers, DueTo

\* A reflection keeps the rows faithful and what was heard, and records what is due.
LEMMA ReflectionKeeps ==
  ASSUME (results \subseteq MemoryEpisode)', RowsBooked', NEW CONSTANT s, listed'[s] \in Seq(TradeIds),
         memory \in Seq(MemoryEpisode), Faithful(memory, results'), NEW CONSTANT until \in Int
  PROVE  /\ Reflected(s, until) \in Seq(MemoryEpisode) /\ Faithful(Reflected(s, until), results')
         /\ Heard(memory) \subseteq Heard(Reflected(s, until))
         /\ \A k \in DueTo(s, until)' : listed'[s][k] \in Heard(Reflected(s, until))
<1> DEFINE D == {x \in Seq(MemoryEpisode) : Faithful(x, results') /\ Heard(memory) \subseteq Heard(x)}
           Due == DueTo(s, until)'
           n == Len(listed'[s])
           G == [z \in (1 .. n) \X D |-> IF z[1] \in Due THEN Record(z[2], listed'[s][z[1]]) ELSE z[2]]
<1>1. n \in Nat /\ Due \in SUBSET (1 .. n) /\ \A k \in Due : listed'[s][k] \in ClosedRows'
  BY DEF DueTo, Latest, ClosedRows
<1> HIDE DEF Due
<1>0. /\ \A rows \in D, k \in 1 .. n :
            G[<<k, rows>>] = IF k \in Due THEN Record(rows, listed'[s][k]) ELSE rows
      /\ G = [z \in (1 .. n) \X D |-> G[z]]
  OBVIOUS
<1> HIDE DEF G
<1>2. \A rows \in D, k \in 1 .. n :
         /\ G[<<k, rows>>] = IF k \in Due THEN Record(rows, listed'[s][k]) ELSE rows
         /\ G[<<k, rows>>] \in D
         /\ Heard(rows) \subseteq Heard(G[<<k, rows>>])
         /\ k \in Due => listed'[s][k] \in Heard(G[<<k, rows>>])
  <2> SUFFICES ASSUME NEW rows \in D, NEW k \in 1 .. n
               PROVE  /\ G[<<k, rows>>] = IF k \in Due THEN Record(rows, listed'[s][k]) ELSE rows
                      /\ G[<<k, rows>>] \in D
                      /\ Heard(rows) \subseteq Heard(G[<<k, rows>>])
                      /\ k \in Due => listed'[s][k] \in Heard(G[<<k, rows>>])
    OBVIOUS
  <2>1. G[<<k, rows>>] = IF k \in Due THEN Record(rows, listed'[s][k]) ELSE rows
    BY <1>0
  <2>2. CASE k \in Due
    <3>1. listed'[s][k] \in ClosedRows'
      BY <1>1, <2>2
    <3> QED
      BY <2>1, <2>2, <3>1, RecordKeeps
  <2>3. CASE k \notin Due
    BY <2>1, <2>3
  <2> QED
    BY <2>1, <2>2, <2>3
<1>3. G \in Steps(n, D)
  <2>1. \A z \in (1 .. n) \X D : z[1] \in 1 .. n /\ z[2] \in D /\ z = <<z[1], z[2]>>
    OBVIOUS
  <2>2. \A z \in (1 .. n) \X D : G[z] \in D
    BY <1>2, <2>1
  <2> HIDE DEF D
  <2> QED
    BY <1>0, <2>2 DEF Steps
<1>4. memory \in D
  OBVIOUS
<1> HIDE DEF D
<1>5. PICK h : Course(h, D, memory, n, G)
  BY <1>1, <1>3, <1>4, CourseExists
<1> DEFINE f == [k \in 0 .. n |-> h[k]]
<1>6. Remembers(f, s, until)
  <2>1. ASSUME NEW k \in 0 .. n
        PROVE  f[k] = IF k = 0 THEN memory
                      ELSE IF k \in Due THEN Record(f[k - 1], listed'[s][k]) ELSE f[k - 1]
    <3>1. CASE k = 0
      BY <1>5, <3>1 DEF Course
    <3>2. CASE k # 0
      <4>1. k \in 1 .. n /\ k - 1 \in 0 .. n
        BY <1>1, <3>2
      <4>2. h[k] = G[<<k, h[k - 1]>>] /\ h[k - 1] \in D
        BY <1>5, <4>1 DEF Course
      <4> QED
        BY <1>2, <3>2, <4>1, <4>2
    <3> QED
      BY <3>1, <3>2
  <2> QED
    BY <2>1, Zenon DEF Remembers, Due
<1>7. \E g : Remembers(g, s, until)
  BY <1>6
<1>8. PICK g : g = CHOOSE x : Remembers(x, s, until)
  OBVIOUS
<1>9. Remembers(g, s, until)
  BY <1>7, <1>8
<1>10. Reflected(s, until) = g[n]
  BY <1>8, ReflectedIs
<1>11. /\ g[0] = memory
       /\ \A k \in 1 .. n : g[k] = IF k \in Due THEN Record(g[k - 1], listed'[s][k]) ELSE g[k - 1]
  <2>1. \A k \in 0 .. n : g[k] = IF k = 0 THEN memory
                                 ELSE IF k \in Due THEN Record(g[k - 1], listed'[s][k]) ELSE g[k - 1]
    BY <1>9, Zenon DEF Remembers, Due
  <2>2. 0 \in 0 .. n /\ \A k \in 1 .. n : k \in 0 .. n /\ k # 0
    BY <1>1
  <2> QED
    BY <2>1, <2>2
<1> DEFINE Good == {z \in (0 .. n) \X D : \A k \in Due : k <= z[1] => listed'[s][k] \in Heard(z[2])}
<1>12. <<0, g[0]>> \in Good
  <2>1. \A k \in Due : ~(k <= 0)
    BY <1>1
  <2> QED
    BY <1>1, <1>4, <1>11, <2>1
<1>13. ASSUME NEW k \in 0 .. n - 1, <<k, g[k]>> \in Good PROVE <<k + 1, g[k + 1]>> \in Good
  <2>1. PICK m : m = k + 1
    OBVIOUS
  <2>2. m \in 1 .. n /\ m - 1 = k /\ k \in Int /\ m \in 0 .. n
    BY <1>1, <2>1
  <2>3. g[k] \in D /\ \A j \in Due : j <= k => listed'[s][j] \in Heard(g[k])
    BY <1>13
  <2>4. g[m] = G[<<m, g[k]>>]
    BY <1>2, <1>11, <2>2, <2>3
  <2>5. g[m] \in D /\ Heard(g[k]) \subseteq Heard(g[m]) /\ (m \in Due => listed'[s][m] \in Heard(g[m]))
    BY <1>2, <2>2, <2>3, <2>4
  <2>6. \A j \in Due : j <= m => listed'[s][j] \in Heard(g[m])
    <3> SUFFICES ASSUME NEW j \in Due, j <= m PROVE listed'[s][j] \in Heard(g[m])
      OBVIOUS
    <3>1. j = m \/ j <= k
      BY <1>1, <2>1, <2>2
    <3> QED
      BY <2>3, <2>5, <3>1
  <2> QED
    BY <2>1, <2>2, <2>5, <2>6
<1>14. <<n, g[n]>> \in Good
  <2> HIDE DEF Good
  <2> QED
    BY <1>1, <1>12, <1>13, CourseInduction
<1>15. g[n] \in D /\ \A k \in Due : k <= n => listed'[s][k] \in Heard(g[n])
  BY <1>14
<1> QED
  BY <1>1, <1>10, <1>15 DEF D, Due

-----------------------------------------------------------------------------
LearningTypes ==
    /\ trade_ledger \in [TradeIds -> TradeRow \cup {NoRow}]
    /\ listed \in [Symbols -> Seq(TradeIds)]
    /\ open_records \in [Symbols -> 0 .. MaxId] /\ sequence \in 0 .. MaxId /\ openings \in 0 .. MaxTrades
    /\ memory \in Seq(MemoryEpisode)
    /\ results \subseteq MemoryEpisode /\ IsFiniteSet(results)
    /\ current \in [Symbols -> BOOLEAN] /\ DOMAIN edge = Symbols

\* A trade that the simulator has open is open in its row.
HeldOpen ==
    \A s \in Symbols : open_records[s] # 0 =>
        /\ open_records[s] <= sequence
        /\ trade_ledger[open_records[s]] \in TradeRow
        /\ trade_ledger[open_records[s]].status = "open" /\ trade_ledger[open_records[s]].symbol = s

\* The row of a result has it, or is of a trade that was opened later.
ResultsOlder ==
    \A r \in results :
        /\ r.opened <= openings
        /\ \/ trade_ledger[r.id].status = "closed"
           \/ trade_ledger[r.id].status = "open" /\ r.opened < trade_ledger[r.id].opened

RowsKnown == \A id \in TradeIds : trade_ledger[id] # NoRow => trade_ledger[id].opened <= openings

\* Nothing that is due of this symbol is without its episode.
Complete(s) ==
    \A k \in Latest(Len(listed[s]), ReflectLimit) :
        trade_ledger[listed[s][k]].status = "closed" => listed[s][k] \in Heard(memory)

LearningInv ==
    /\ LearningTypes /\ HeldOpen /\ ResultsOlder /\ RowsKnown /\ RowsBooked
    /\ Faithful(memory, results)
    /\ \A s \in Symbols : current[s] => Complete(s)
    /\ \A s \in Symbols : Backed(edge[s], results, s)

LEMMA LearningStarts == LearningInit => LearningInv
<1> SUFFICES ASSUME LearningInit PROVE LearningInv
  OBVIOUS
<1>1. /\ trade_ledger = [id \in TradeIds |-> NoRow] /\ listed = [s \in Symbols |-> << >>]
      /\ open_records = [s \in Symbols |-> 0] /\ sequence = 0 /\ openings = 0
      /\ memory = << >> /\ edge = [s \in Symbols |-> << >>]
      /\ results = {} /\ current = [s \in Symbols |-> TRUE]
      /\ MaxTrades \in Nat /\ MaxId \in Nat /\ ReflectLimit \in Nat
  BY LearningAssumption DEF LearningInit
<1>2. LearningTypes
  <2>1. IsFiniteSet(results)
    BY <1>1, FS_EmptySet
  <2>2. << >> \in Seq(TradeIds) /\ << >> \in Seq(MemoryEpisode)
    OBVIOUS
  <2> QED
    BY <1>1, <2>1, <2>2 DEF LearningTypes
<1>3. \A id \in TradeIds : trade_ledger[id] = NoRow /\ trade_ledger[id].status # "closed"
  BY <1>1 DEF NoRow
<1>4. HeldOpen /\ ResultsOlder /\ RowsKnown /\ RowsBooked
  BY <1>1, <1>3 DEF HeldOpen, ResultsOlder, RowsKnown, RowsBooked, ClosedRows
<1>5. Faithful(memory, results)
  BY <1>1 DEF Faithful
<1>6. \A s \in Symbols : Complete(s)
  BY <1>1 DEF Complete, Latest
<1>7. \A s \in Symbols : Backed(edge[s], results, s)
  BY <1>1 DEF Backed
<1> QED
  BY <1>2, <1>4, <1>5, <1>6, <1>7 DEF LearningInv

\* What saving a row does to the columns.
LEMMA SaveKeeps ==
  ASSUME LearningTypes, NEW CONSTANT id \in TradeIds, NEW t, t \in TradeRow, SaveTrade(id, t)
  PROVE  /\ trade_ledger' \in [TradeIds -> TradeRow \cup {NoRow}] /\ listed' \in [Symbols -> Seq(TradeIds)]
         /\ trade_ledger'[id] = t
         /\ \A x \in TradeIds : x # id => trade_ledger'[x] = trade_ledger[x]
         /\ \A s \in Symbols : \/ listed'[s] = listed[s]
                               \/ listed'[s] = Append(listed[s], id)
<1>1. /\ trade_ledger \in [TradeIds -> TradeRow \cup {NoRow}] /\ listed \in [Symbols -> Seq(TradeIds)]
      /\ t.symbol \in Symbols
  BY DEF LearningTypes, TradeRow
<1>2. trade_ledger' = [trade_ledger EXCEPT ![id] = t]
  BY DEF SaveTrade
<1>3. CASE trade_ledger[id] = NoRow
  <2>1. listed' = [listed EXCEPT ![t.symbol] = Append(listed[t.symbol], id)]
    BY <1>3 DEF SaveTrade
  <2>2. Append(listed[t.symbol], id) \in Seq(TradeIds)
    BY <1>1
  <2> QED
    BY <1>1, <1>2, <2>1, <2>2
<1>4. CASE trade_ledger[id] # NoRow
  BY <1>1, <1>2, <1>4 DEF SaveTrade
<1> QED
  BY <1>3, <1>4

\* A column that got one more open row, or none, misses no more than before.
LEMMA CompleteOpen ==
  ASSUME LearningTypes, NEW CONSTANT id \in TradeIds, NEW t, t \in TradeRow, SaveTrade(id, t),
         t.status = "open", memory' = memory, NEW CONSTANT s \in Symbols, Complete(s)
  PROVE  Complete(s)'
<1>1. /\ listed[s] \in Seq(TradeIds) /\ trade_ledger'[id] = t
      /\ \A x \in TradeIds : x # id => trade_ledger'[x] = trade_ledger[x]
      /\ listed'[s] = listed[s] \/ listed'[s] = Append(listed[s], id)
  BY SaveKeeps DEF LearningTypes
<1>2. PICK n \in Nat : n = Len(listed[s])
  BY <1>1
<1>3. PICK q : q = listed'[s]
  OBVIOUS
<1>4. /\ Len(q) \in {n, n + 1} /\ \A k \in 1 .. n : q[k] = listed[s][k]
      /\ \A k \in 1 .. Len(q) : k \in 1 .. n \/ q[k] = id
  <2>1. CASE q = listed[s]
    BY <1>2, <2>1
  <2>2. CASE q = Append(listed[s], id)
    <3>1. Len(q) = n + 1 /\ q[n + 1] = id /\ \A k \in 1 .. n : q[k] = listed[s][k]
      BY <1>1, <1>2, <2>2, AppendProperties
    <3> QED
      BY <3>1
  <2> QED
    BY <1>1, <1>3, <2>1, <2>2
<1>5. SUFFICES ASSUME NEW k \in Latest(Len(q), ReflectLimit), trade_ledger'[q[k]].status = "closed"
               PROVE  q[k] \in Heard(memory)
  BY <1>3 DEF Complete
<1>6. q[k] # id
  BY <1>1, <1>5
<1>7. k \in 1 .. n /\ k \in Latest(n, ReflectLimit)
  BY <1>4, <1>6, <1>2, LearningAssumption DEF Latest
<1>8. q[k] = listed[s][k] /\ q[k] \in TradeIds
  BY <1>1, <1>2, <1>4, <1>7
<1>9. trade_ledger[q[k]].status = "closed"
  BY <1>1, <1>5, <1>6, <1>8
<1> QED
  BY <1>2, <1>7, <1>8, <1>9 DEF Complete

\* A column without the row that was saved misses no more than before.
LEMMA CompleteUntouched ==
  ASSUME LearningTypes, NEW CONSTANT id \in TradeIds, NEW t, t \in TradeRow, SaveTrade(id, t),
         NEW CONSTANT s \in Symbols, Complete(s), Heard(memory) \subseteq Heard(memory'),
         \A k \in DOMAIN listed'[s] : listed'[s][k] # id
  PROVE  Complete(s)'
<1>1. /\ listed[s] \in Seq(TradeIds)
      /\ \A x \in TradeIds : x # id => trade_ledger'[x] = trade_ledger[x]
      /\ listed'[s] = listed[s] \/ listed'[s] = Append(listed[s], id)
  BY SaveKeeps DEF LearningTypes
<1>2. listed'[s] = listed[s]
  <2> SUFFICES ASSUME listed'[s] = Append(listed[s], id) PROVE FALSE
    BY <1>1
  <2>1. PICK n \in Nat : n = Len(listed[s])
    BY <1>1
  <2>2. PICK q : q = Append(listed[s], id)
    OBVIOUS
  <2>3. Len(q) = n + 1 /\ q[n + 1] = id /\ q \in Seq(TradeIds)
    BY <1>1, <2>1, <2>2, AppendProperties
  <2>4. n + 1 \in DOMAIN q
    BY <2>3
  <2> QED
    BY <2>2, <2>3, <2>4
<1>3. \A k \in 1 .. Len(listed[s]) : listed[s][k] \in TradeIds /\ listed[s][k] # id
  BY <1>1, <1>2
<1>4. Latest(Len(listed[s]), ReflectLimit) \subseteq 1 .. Len(listed[s])
  BY DEF Latest
<1> QED
  BY <1>1, <1>2, <1>3, <1>4 DEF Complete

LEMMA OpenKeeps ==
  ASSUME LearningInv, NEW CONSTANT s \in Symbols, NEW CONSTANT id \in TradeIds, OpenTrade(s, id)
  PROVE  LearningInv'
<1> DEFINE t == [symbol |-> s, opened |-> openings + 1, status |-> "open", pnl |-> 0]
<1>1. /\ open_records[s] = 0 /\ id > sequence /\ openings < MaxTrades /\ SaveTrade(id, t)
      /\ open_records' = [open_records EXCEPT ![s] = id] /\ sequence' = id /\ openings' = openings + 1
      /\ memory' = memory /\ edge' = edge /\ results' = results /\ current' = current
  BY DEF OpenTrade
<1>2. /\ LearningTypes /\ MaxTrades \in Nat /\ MaxId \in Nat /\ 0 \in Outcomes
      /\ openings \in Nat /\ sequence \in Nat /\ id \in Nat /\ id \in 1 .. MaxId
      /\ open_records \in [Symbols -> 0 .. MaxId]
  BY LearningAssumption DEF LearningInv, LearningTypes, TradeIds
<1>3. t \in TradeRow
  BY <1>1, <1>2 DEF TradeRow
<1>4. t.status = "open" /\ t.symbol = s /\ t.opened = openings + 1
  OBVIOUS
<1> HIDE DEF t
<1>5. /\ trade_ledger' \in [TradeIds -> TradeRow \cup {NoRow}] /\ listed' \in [Symbols -> Seq(TradeIds)]
      /\ trade_ledger'[id] = t
      /\ \A x \in TradeIds : x # id => trade_ledger'[x] = trade_ledger[x]
  BY <1>1, <1>2, <1>3, SaveKeeps
<1>6. LearningTypes'
  <2>1. open_records' \in [Symbols -> 0 .. MaxId] /\ sequence' \in 0 .. MaxId /\ openings' \in 0 .. MaxTrades
    BY <1>1, <1>2
  <2> QED
    BY <1>1, <1>2, <1>5, <2>1 DEF LearningTypes
<1>7. HeldOpen'
  <2> SUFFICES ASSUME NEW x \in Symbols, open_records'[x] # 0
               PROVE  /\ open_records'[x] <= sequence' /\ trade_ledger'[open_records'[x]] \in TradeRow
                      /\ trade_ledger'[open_records'[x]].status = "open" /\ trade_ledger'[open_records'[x]].symbol = x
    BY DEF HeldOpen
  <2>1. CASE x = s
    BY <1>1, <1>2, <1>3, <1>4, <1>5, <2>1
  <2>2. CASE x # s
    <3>1. open_records'[x] = open_records[x] /\ open_records[x] \in 1 .. MaxId /\ open_records[x] <= sequence
      BY <1>1, <1>2, <2>2 DEF LearningInv, HeldOpen
    <3>2. open_records[x] # id /\ open_records[x] \in TradeIds
      BY <1>1, <1>2, <3>1 DEF TradeIds
    <3> QED
      BY <1>1, <1>2, <1>5, <3>1, <3>2 DEF LearningInv, HeldOpen
  <2> QED
    BY <2>1, <2>2
<1>8. ResultsOlder'
  <2> SUFFICES ASSUME NEW r \in results
               PROVE  /\ r.opened <= openings'
                      /\ \/ trade_ledger'[r.id].status = "closed"
                         \/ trade_ledger'[r.id].status = "open" /\ r.opened < trade_ledger'[r.id].opened
    BY <1>1 DEF ResultsOlder
  <2>1. r.opened \in Nat /\ r.id \in TradeIds
    BY <1>2, EpisodeTypes DEF LearningTypes
  <2>2. r.opened <= openings' /\ r.opened < openings'
    BY <1>1, <1>2, <2>1 DEF LearningInv, ResultsOlder
  <2>3. CASE r.id = id
    BY <1>1, <1>4, <1>5, <2>1, <2>2, <2>3
  <2>4. CASE r.id # id
    <3>1. trade_ledger'[r.id] = trade_ledger[r.id]
      BY <1>5, <2>1, <2>4
    <3> QED
      BY <2>2, <3>1 DEF LearningInv, ResultsOlder
  <2> QED
    BY <2>3, <2>4
<1>9. RowsKnown'
  <2> SUFFICES ASSUME NEW x \in TradeIds, trade_ledger'[x] # NoRow
               PROVE  trade_ledger'[x].opened <= openings'
    BY DEF RowsKnown
  <2>1. CASE x = id
    BY <1>1, <1>2, <1>4, <1>5, <2>1
  <2>2. CASE x # id
    <3>1. trade_ledger'[x] = trade_ledger[x] /\ trade_ledger[x] \in TradeRow
      BY <1>2, <1>5, <2>2 DEF LearningTypes
    <3>2. trade_ledger[x].opened \in Nat /\ trade_ledger[x].opened <= openings
      BY <1>2, <3>1 DEF LearningInv, RowsKnown, TradeRow
    <3> QED
      BY <1>1, <1>2, <3>1, <3>2
  <2> QED
    BY <2>1, <2>2
<1>10. RowsBooked'
  <2> SUFFICES ASSUME NEW x \in ClosedRows' PROVE RowResult(x)' \in results'
    BY DEF RowsBooked
  <2>1. x \in TradeIds /\ x # id
    BY <1>4, <1>5 DEF ClosedRows
  <2>2. trade_ledger'[x] = trade_ledger[x] /\ x \in ClosedRows
    BY <1>5, <2>1 DEF ClosedRows
  <2>3. RowResult(x) \in results
    BY <2>2 DEF LearningInv, RowsBooked
  <2> QED
    BY <1>1, <2>2, <2>3 DEF RowResult
<1>11. \A x \in Symbols : current'[x] => Complete(x)'
  <2>1. ASSUME NEW CONSTANT x \in Symbols, Complete(x) PROVE Complete(x)'
    BY <1>1, <1>2, <1>3, <1>4, <2>1, CompleteOpen
  <2> QED
    BY <1>1, <2>1 DEF LearningInv
<1>12. Faithful(memory', results') /\ \A x \in Symbols : Backed(edge'[x], results', x)
  BY <1>1 DEF LearningInv
<1> QED
  BY <1>6, <1>7, <1>8, <1>9, <1>10, <1>11, <1>12 DEF LearningInv

\* A booking: the row of the trade is closed, or a row is added or written over by
\* a slice, and its result is there.
LEMMA BookedKeeps ==
  ASSUME LearningInv, NEW CONSTANT s \in Symbols, open_records[s] # 0, NEW CONSTANT id \in TradeIds,
         NEW CONSTANT pnl \in Outcomes, Booked(s, id, pnl), openings' = openings
  PROVE  /\ (results \subseteq MemoryEpisode)' /\ IsFiniteSet(results') /\ results \subseteq results'
         /\ ResultsOlder' /\ RowsKnown' /\ RowsBooked'
         /\ trade_ledger' \in [TradeIds -> TradeRow \cup {NoRow}] /\ listed' \in [Symbols -> Seq(TradeIds)]
         /\ \A x \in TradeIds : x # id => trade_ledger'[x] = trade_ledger[x]
         /\ \E t : t \in TradeRow /\ SaveTrade(id, t)
         /\ Faithful(memory, results')
         /\ \A x \in Symbols : Backed(edge[x], results', x)
<1> DEFINE opened == trade_ledger[open_records[s]].opened
           t == [symbol |-> s, opened |-> opened, status |-> "closed", pnl |-> pnl]
           r == [id |-> id, symbol |-> s, opened |-> opened, pnl |-> pnl]
<1>1. SaveTrade(id, t) /\ results' = results \cup {r}
  BY DEF Booked
<1>2. LearningTypes /\ trade_ledger[open_records[s]] \in TradeRow /\ open_records[s] \in TradeIds
  BY DEF LearningInv, HeldOpen, LearningTypes, TradeIds
<1>3. opened \in 1 .. MaxTrades /\ opened <= openings
  <2>1. trade_ledger[open_records[s]] # NoRow
    BY <1>2 DEF LearningInv, HeldOpen, NoRow
  <2> QED
    BY <1>2, <2>1 DEF LearningInv, RowsKnown, TradeRow
<1> HIDE DEF opened
<1>4. t \in TradeRow /\ r \in MemoryEpisode
  BY <1>3 DEF TradeRow, MemoryEpisode
<1>5. /\ t.symbol = s /\ t.opened = opened /\ t.status = "closed" /\ t.pnl = pnl
      /\ r = [id |-> id, symbol |-> t.symbol, opened |-> t.opened, pnl |-> t.pnl]
      /\ r.id = id /\ r.opened = opened
  OBVIOUS
<1> HIDE DEF t, r
<1>6. /\ trade_ledger' \in [TradeIds -> TradeRow \cup {NoRow}] /\ listed' \in [Symbols -> Seq(TradeIds)]
      /\ trade_ledger'[id] = t
      /\ \A x \in TradeIds : x # id => trade_ledger'[x] = trade_ledger[x]
  BY <1>1, <1>2, <1>4, SaveKeeps
<1>7. (results \subseteq MemoryEpisode)' /\ IsFiniteSet(results') /\ results \subseteq results'
  <2>1. IsFiniteSet(results) /\ results \subseteq MemoryEpisode
    BY <1>2 DEF LearningTypes
  <2>2. IsFiniteSet(results \cup {r})
    BY <2>1, FS_AddElement
  <2> QED
    BY <1>1, <1>4, <2>1, <2>2
<1>8. ResultsOlder'
  <2> SUFFICES ASSUME NEW y \in results'
               PROVE  /\ y.opened <= openings
                      /\ \/ trade_ledger'[y.id].status = "closed"
                         \/ trade_ledger'[y.id].status = "open" /\ y.opened < trade_ledger'[y.id].opened
    BY DEF ResultsOlder
  <2>1. y.id \in TradeIds /\ y.opened <= openings
    BY <1>1, <1>3, <1>5, <1>7, EpisodeTypes DEF LearningInv, ResultsOlder
  <2>2. CASE y.id = id
    BY <1>5, <1>6, <2>1, <2>2
  <2>3. CASE y.id # id
    BY <1>1, <1>5, <1>6, <2>1, <2>3 DEF LearningInv, ResultsOlder
  <2> QED
    BY <2>2, <2>3
<1>9. RowsKnown'
  BY <1>3, <1>5, <1>6 DEF LearningInv, RowsKnown
<1>10. RowsBooked'
  <2> SUFFICES ASSUME NEW x \in ClosedRows' PROVE RowResult(x)' \in results'
    BY DEF RowsBooked
  <2>1. CASE x = id
    BY <1>1, <1>5, <1>6, <2>1 DEF RowResult
  <2>2. CASE x # id
    <3>1. trade_ledger'[x] = trade_ledger[x] /\ x \in ClosedRows
      BY <1>6, <2>2 DEF ClosedRows
    <3>2. RowResult(x) \in results
      BY <3>1 DEF LearningInv, RowsBooked
    <3> QED
      BY <1>1, <3>1, <3>2 DEF RowResult
  <2> QED
    BY <2>1, <2>2
<1>11. Faithful(memory, results')
  BY <1>7 DEF LearningInv, Faithful
<1>12. \A x \in Symbols : Backed(edge[x], results', x)
  BY <1>7, BackedGrows DEF LearningInv
<1> QED
  BY <1>1, <1>4, <1>6, <1>7, <1>8, <1>9, <1>10, <1>11, <1>12

\* What it leaves of the open trades.
LEMMA HeldAfter ==
  ASSUME LearningInv, NEW CONSTANT s \in Symbols, NEW CONSTANT id \in TradeIds,
         \A x \in TradeIds : x # id => trade_ledger'[x] = trade_ledger[x],
         open_records' \in [Symbols -> 0 .. MaxId],
         \A x \in Symbols : open_records'[x] # 0 => open_records'[x] = open_records[x] /\ open_records[x] # id,
         sequence' \in Int, sequence <= sequence'
  PROVE  HeldOpen'
<1> SUFFICES ASSUME NEW x \in Symbols, open_records'[x] # 0
             PROVE  /\ open_records'[x] <= sequence' /\ trade_ledger'[open_records'[x]] \in TradeRow
                    /\ trade_ledger'[open_records'[x]].status = "open" /\ trade_ledger'[open_records'[x]].symbol = x
  BY DEF HeldOpen
<1>1. /\ open_records'[x] = open_records[x] /\ open_records[x] # id /\ open_records[x] \in TradeIds
      /\ open_records[x] \in Int /\ open_records[x] <= sequence /\ sequence \in Int
  BY LearningAssumption DEF LearningInv, LearningTypes, HeldOpen, TradeIds
<1>2. trade_ledger'[open_records[x]] = trade_ledger[open_records[x]]
  BY <1>1
<1> QED
  BY <1>1, <1>2 DEF LearningInv, HeldOpen

\* No two symbols hold one row.
LEMMA HeldApart ==
  ASSUME LearningInv, NEW CONSTANT s \in Symbols, NEW CONSTANT x \in Symbols, open_records[s] # 0, x # s
  PROVE  open_records[x] # open_records[s]
  BY DEF LearningInv, HeldOpen

LEMMA SliceKeeps ==
  ASSUME LearningInv, NEW CONSTANT s \in Symbols, NEW CONSTANT id \in TradeIds,
         NEW CONSTANT pnl \in Outcomes, CloseSlice(s, id, pnl)
  PROVE  LearningInv'
<1>1. /\ open_records[s] # 0 /\ id > sequence /\ Booked(s, id, pnl) /\ sequence' = id /\ current' = Untouched(id)
      /\ open_records' = open_records /\ openings' = openings /\ memory' = memory /\ edge' = edge
  BY DEF CloseSlice
<1>2. /\ LearningTypes /\ id \in 0 .. MaxId /\ id \in Int /\ sequence \in Int /\ sequence <= sequence'
      /\ open_records \in [Symbols -> 0 .. MaxId]
  BY <1>1, LearningAssumption DEF LearningInv, LearningTypes, TradeIds
<1>3. /\ (results \subseteq MemoryEpisode)' /\ IsFiniteSet(results')
      /\ ResultsOlder' /\ RowsKnown' /\ RowsBooked'
      /\ trade_ledger' \in [TradeIds -> TradeRow \cup {NoRow}] /\ listed' \in [Symbols -> Seq(TradeIds)]
      /\ \A x \in TradeIds : x # id => trade_ledger'[x] = trade_ledger[x]
      /\ \E t : t \in TradeRow /\ SaveTrade(id, t)
      /\ Faithful(memory, results')
      /\ \A x \in Symbols : Backed(edge[x], results', x)
  BY <1>1, BookedKeeps
<1>4. LearningTypes'
  <2>1. current' \in [Symbols -> BOOLEAN]
    BY <1>1, <1>2 DEF Untouched, LearningTypes
  <2> QED
    BY <1>1, <1>2, <1>3, <2>1 DEF LearningTypes
<1>5. HeldOpen'
  <2>1. \A x \in Symbols : open_records[x] # id
    <3>1. \A x \in Symbols : open_records[x] # 0 => open_records[x] <= sequence /\ open_records[x] \in Int
      BY LearningAssumption DEF LearningInv, LearningTypes, HeldOpen
    <3> QED
      BY <1>1, <1>2, <3>1 DEF TradeIds
  <2> QED
    BY <1>1, <1>2, <1>3, <2>1, HeldAfter
<1>6. ASSUME NEW CONSTANT x \in Symbols, current'[x] PROVE Complete(x)'
  <2>1. current[x] /\ \A k \in DOMAIN listed'[x] : listed'[x][k] # id
    BY <1>1, <1>6 DEF Untouched
  <2>2. Complete(x)
    BY <2>1 DEF LearningInv
  <2> QED
    BY <1>1, <1>2, <1>3, <2>1, <2>2, CompleteUntouched
<1> QED
  BY <1>1, <1>3, <1>4, <1>5, <1>6 DEF LearningInv

LEMMA UnseenKeeps ==
  ASSUME LearningInv, NEW CONSTANT s \in Symbols, NEW CONSTANT pnl \in Outcomes, CloseUnseen(s, pnl)
  PROVE  LearningInv'
<1>1. /\ open_records[s] # 0 /\ Booked(s, open_records[s], pnl) /\ current' = Untouched(open_records[s])
      /\ open_records' = [open_records EXCEPT ![s] = 0] /\ openings' = openings /\ memory' = memory /\ edge' = edge
      /\ sequence' = sequence
  BY DEF CloseUnseen
<1>2. /\ LearningTypes /\ open_records[s] \in TradeIds /\ sequence \in Int
      /\ open_records \in [Symbols -> 0 .. MaxId] /\ 0 \in 0 .. MaxId
  BY <1>1, LearningAssumption DEF LearningInv, LearningTypes, TradeIds
<1>3. open_records' \in [Symbols -> 0 .. MaxId] /\ open_records'[s] = 0 /\ \A x \in Symbols : x # s => open_records'[x] = open_records[x]
  BY <1>1, <1>2
<1>4. PICK id \in TradeIds : id = open_records[s]
  BY <1>2
<1>5. /\ (results \subseteq MemoryEpisode)' /\ IsFiniteSet(results')
      /\ ResultsOlder' /\ RowsKnown' /\ RowsBooked'
      /\ trade_ledger' \in [TradeIds -> TradeRow \cup {NoRow}] /\ listed' \in [Symbols -> Seq(TradeIds)]
      /\ \A x \in TradeIds : x # id => trade_ledger'[x] = trade_ledger[x]
      /\ \E t : t \in TradeRow /\ SaveTrade(id, t)
      /\ Faithful(memory, results')
      /\ \A x \in Symbols : Backed(edge[x], results', x)
  BY <1>1, <1>4, BookedKeeps
<1>6. LearningTypes'
  <2>1. current' \in [Symbols -> BOOLEAN]
    BY <1>1, <1>2 DEF Untouched, LearningTypes
  <2> QED
    BY <1>1, <1>2, <1>3, <1>5, <2>1 DEF LearningTypes
<1>7. HeldOpen'
  <2>1. \A x \in Symbols : open_records'[x] # 0 => open_records'[x] = open_records[x] /\ open_records[x] # id
    BY <1>1, <1>3, <1>4, HeldApart
  <2> QED
    BY <1>1, <1>2, <1>3, <1>5, <2>1, HeldAfter
<1>8. ASSUME NEW CONSTANT x \in Symbols, current'[x] PROVE Complete(x)'
  <2>1. current[x] /\ \A k \in DOMAIN listed'[x] : listed'[x][k] # id
    BY <1>1, <1>4, <1>8 DEF Untouched
  <2>2. Complete(x)
    BY <2>1 DEF LearningInv
  <2> QED
    BY <1>1, <1>2, <1>5, <2>1, <2>2, CompleteUntouched
<1> QED
  BY <1>1, <1>5, <1>6, <1>7, <1>8 DEF LearningInv

LEMMA CloseKeeps ==
  ASSUME LearningInv, NEW CONSTANT s \in Symbols, NEW CONSTANT pnl \in Outcomes, CloseTrade(s, pnl)
  PROVE  LearningInv'
<1>1. /\ open_records[s] # 0 /\ Booked(s, open_records[s], pnl)
      /\ open_records' = [open_records EXCEPT ![s] = 0] /\ openings' = openings /\ sequence' = sequence
      /\ edge' = IF estimate_edge(memory', s) = << >> THEN edge
                 ELSE [edge EXCEPT ![s] = estimate_edge(memory', s)]
  BY DEF CloseTrade
<1>2. /\ LearningTypes /\ open_records[s] \in TradeIds /\ sequence \in Int
      /\ open_records \in [Symbols -> 0 .. MaxId] /\ 0 \in 0 .. MaxId
  BY <1>1, LearningAssumption DEF LearningInv, LearningTypes, TradeIds
<1>3. open_records' \in [Symbols -> 0 .. MaxId] /\ open_records'[s] = 0 /\ \A x \in Symbols : x # s => open_records'[x] = open_records[x]
  BY <1>1, <1>2
<1>4. PICK id \in TradeIds : id = open_records[s]
  BY <1>2
<1>5. /\ (results \subseteq MemoryEpisode)' /\ IsFiniteSet(results')
      /\ ResultsOlder' /\ RowsKnown' /\ RowsBooked'
      /\ trade_ledger' \in [TradeIds -> TradeRow \cup {NoRow}] /\ listed' \in [Symbols -> Seq(TradeIds)]
      /\ \A x \in TradeIds : x # id => trade_ledger'[x] = trade_ledger[x]
      /\ \E t : t \in TradeRow /\ SaveTrade(id, t)
      /\ Faithful(memory, results')
      /\ \A x \in Symbols : Backed(edge[x], results', x)
  BY <1>1, <1>4, BookedKeeps
<1>6. PICK until \in 1 .. Len(listed'[s]) + 1 :
         /\ memory' = Reflected(s, until)
         /\ current' = [Untouched(open_records[s]) EXCEPT ![s] = (until = Len(listed'[s]) + 1)]
  BY DEF CloseTrade
<1>7. until \in Int /\ listed'[s] \in Seq(TradeIds) /\ memory \in Seq(MemoryEpisode)
  BY <1>2, <1>5 DEF LearningTypes
<1>8. /\ memory' \in Seq(MemoryEpisode) /\ Faithful(memory', results')
      /\ Heard(memory) \subseteq Heard(memory')
      /\ \A k \in DueTo(s, until)' : listed'[s][k] \in Heard(memory')
  BY <1>5, <1>6, <1>7, ReflectionKeeps
<1>9. LearningTypes'
  <2>1. current' \in [Symbols -> BOOLEAN] /\ DOMAIN edge' = Symbols
    BY <1>1, <1>2, <1>6 DEF Untouched, LearningTypes
  <2> QED
    BY <1>1, <1>2, <1>3, <1>5, <1>8, <2>1 DEF LearningTypes
<1>10. HeldOpen'
  <2>1. \A x \in Symbols : open_records'[x] # 0 => open_records'[x] = open_records[x] /\ open_records[x] # id
    BY <1>1, <1>3, <1>4, HeldApart
  <2> QED
    BY <1>1, <1>2, <1>3, <1>5, <2>1, HeldAfter
<1>11. ASSUME NEW CONSTANT x \in Symbols, current'[x] PROVE Complete(x)'
  <2>1. CASE x = s
    <3>1. until = Len(listed'[s]) + 1
      BY <1>6, <1>11, <2>1 DEF Untouched
    <3>2. SUFFICES ASSUME NEW CONSTANT k \in Latest(Len(listed'[s]), ReflectLimit),
                          trade_ledger'[listed'[s][k]].status = "closed"
                   PROVE  listed'[s][k] \in Heard(memory')
      BY <2>1 DEF Complete
    <3>3. Len(listed'[s]) \in Nat /\ k \in Int /\ k < until
      BY <1>7, <3>1 DEF Latest
    <3>4. k \in DueTo(s, until)'
      BY <3>2, <3>3 DEF DueTo
    <3> QED
      BY <1>8, <3>4
  <2>2. CASE x # s
    <3>1. current[x] /\ \A k \in DOMAIN listed'[x] : listed'[x][k] # id
      BY <1>4, <1>6, <1>11, <2>2 DEF Untouched
    <3>2. Complete(x)
      BY <3>1 DEF LearningInv
    <3> QED
      BY <1>2, <1>5, <1>8, <3>1, <3>2, CompleteUntouched
  <2> QED
    BY <2>1, <2>2
<1>12. ASSUME NEW CONSTANT x \in Symbols PROVE Backed(edge'[x], results', x)
  <2>1. Backed(estimate_edge(memory', s), results', s)
    BY <1>5, <1>8, EstimateBacked
  <2>2. PICK new : new = estimate_edge(memory', s)
    OBVIOUS
  <2>3. edge'[x] = edge[x] \/ (x = s /\ edge'[x] = new)
    BY <1>1, <1>2, <2>2 DEF LearningTypes
  <2> QED
    BY <1>5, <2>1, <2>2, <2>3
<1> QED
  BY <1>5, <1>8, <1>9, <1>10, <1>11, <1>12 DEF LearningInv

LEMMA RestartKeeps == ASSUME LearningInv, Restart PROVE LearningInv'
<1>1. /\ open_records' = [s \in Symbols |-> 0] /\ sequence' = 0 /\ edge' = [s \in Symbols |-> << >>]
      /\ trade_ledger' = trade_ledger /\ listed' = listed /\ openings' = openings /\ memory' = memory
      /\ results' = results /\ current' = current
  BY DEF Restart
<1>2. LearningTypes' /\ HeldOpen'
  BY <1>1, LearningAssumption DEF LearningInv, LearningTypes, HeldOpen
<1>3. ResultsOlder' /\ RowsKnown' /\ RowsBooked' /\ Faithful(memory', results')
  BY <1>1 DEF LearningInv, ResultsOlder, RowsKnown, RowsBooked, ClosedRows, RowResult
<1>4. \A s \in Symbols : current'[s] => Complete(s)'
  BY <1>1 DEF LearningInv, Complete
<1>5. \A s \in Symbols : Backed(edge'[s], results', s)
  BY <1>1 DEF Backed
<1> QED
  BY <1>2, <1>3, <1>4, <1>5 DEF LearningInv

LEMMA LearningKeeps == LearningInv /\ [LearningStep]_learningVars => LearningInv'
<1> SUFFICES ASSUME LearningInv, [LearningStep]_learningVars PROVE LearningInv'
  OBVIOUS
<1>1. ASSUME NEW s \in Symbols, NEW id \in TradeIds, OpenTrade(s, id) PROVE LearningInv'
  BY <1>1, OpenKeeps
<1>2. ASSUME NEW s \in Symbols, NEW id \in TradeIds, NEW pnl \in Outcomes, CloseSlice(s, id, pnl)
      PROVE  LearningInv'
  BY <1>2, SliceKeeps
<1>3. ASSUME NEW s \in Symbols, NEW pnl \in Outcomes, CloseUnseen(s, pnl) \/ CloseTrade(s, pnl)
      PROVE  LearningInv'
  BY <1>3, UnseenKeeps, CloseKeeps
<1>4. CASE Restart
  BY <1>4, RestartKeeps
<1>5. CASE UNCHANGED learningVars
  BY <1>5 DEF learningVars, LearningInv, LearningTypes, HeldOpen, ResultsOlder, RowsKnown, RowsBooked,
              ClosedRows, RowResult, Complete
<1> QED
  BY <1>1, <1>2, <1>3, <1>4, <1>5 DEF LearningStep

LEMMA LearningSays == ASSUME LearningInv PROVE LearningIsEvidence
<1>1. /\ LearningTypes /\ DOMAIN memory = 1 .. Len(memory) /\ Faithful(memory, results)
  BY DEF LearningInv, LearningTypes
<1>2. \A i, j \in DOMAIN memory : memory[i] \in results /\ (i # j => memory[i].id # memory[j].id)
  BY <1>1 DEF Faithful
<1>3. ASSUME NEW i \in DOMAIN memory, \A r \in results : r.id = memory[i].id => r = memory[i]
      PROVE  \/ /\ trade_ledger[memory[i].id].status = "open"
                /\ trade_ledger[memory[i].id].opened # memory[i].opened
             \/ /\ trade_ledger[memory[i].id].status = "closed"
                /\ trade_ledger[memory[i].id].pnl = memory[i].pnl
  <2>1. PICK e \in results : e = memory[i]
    BY <1>2
  <2>2. e \in MemoryEpisode /\ e.id \in TradeIds /\ e.opened \in Nat
    BY <1>1, <2>1, EpisodeTypes DEF LearningTypes
  <2>3. CASE trade_ledger[e.id].status = "closed"
    <3>1. RowResult(e.id) \in results /\ RowResult(e.id).id = e.id
      BY <2>2, <2>3 DEF LearningInv, RowsBooked, ClosedRows, RowResult
    <3>2. RowResult(e.id) = e
      BY <1>3, <2>1, <3>1
    <3>3. trade_ledger[e.id].pnl = e.pnl
      BY <3>2 DEF RowResult
    <3> QED
      BY <2>1, <2>3, <3>3
  <2>4. CASE trade_ledger[e.id].status # "closed"
    <3>1. trade_ledger[e.id].status = "open" /\ e.opened < trade_ledger[e.id].opened
      BY <2>1, <2>4 DEF LearningInv, ResultsOlder
    <3>2. trade_ledger[e.id] \in TradeRow
      BY <1>1, <2>2, <3>1 DEF LearningTypes, NoRow
    <3>3. trade_ledger[e.id].opened \in Int
      BY <3>2, LearningAssumption DEF TradeRow
    <3> QED
      BY <2>1, <2>2, <3>1, <3>3
  <2> QED
    BY <2>3, <2>4
<1>4. ASSUME NEW s \in Symbols
      PROVE  /\ current[s] => \A k \in Latest(Len(listed[s]), ReflectLimit) :
                   trade_ledger[listed[s][k]].status = "closed" =>
                       \E i \in DOMAIN memory : memory[i].id = listed[s][k]
             /\ edge[s] # << >> =>
                   /\ edge[s][1].wins <= Wins(s) /\ edge[s][1].losses <= Losses(s)
                   /\ edge[s][1].wins + edge[s][1].losses \in MinOutcomes .. RecallLimit
  <2>1. current[s] => Complete(s)
    BY DEF LearningInv
  <2>2. Wins(s) = Cardinality(WinsOf(results, s)) /\ Losses(s) = Cardinality(LossesOf(results, s))
    BY DEF Wins, Losses, WinsOf, LossesOf
  <2>3. Backed(edge[s], results, s)
    BY DEF LearningInv
  <2>4. current[s] => \A k \in Latest(Len(listed[s]), ReflectLimit) :
           trade_ledger[listed[s][k]].status = "closed" =>
               \E i \in DOMAIN memory : memory[i].id = listed[s][k]
    BY <1>1, <2>1 DEF Complete, Heard
  <2>5. edge[s] # << >> =>
           /\ edge[s][1].wins <= Wins(s) /\ edge[s][1].losses <= Losses(s)
           /\ edge[s][1].wins + edge[s][1].losses \in MinOutcomes .. RecallLimit
    <3> SUFFICES ASSUME edge[s] # << >>
                 PROVE  /\ edge[s][1].wins <= Wins(s) /\ edge[s][1].losses <= Losses(s)
                        /\ edge[s][1].wins + edge[s][1].losses \in MinOutcomes .. RecallLimit
      OBVIOUS
    <3>1. PICK w \in Nat, l \in Nat :
             /\ edge[s] = <<[wins |-> w, losses |-> l]>>
             /\ w <= Cardinality(WinsOf(results, s)) /\ l <= Cardinality(LossesOf(results, s))
             /\ w + l \in MinOutcomes .. RecallLimit
      BY <2>3 DEF Backed
    <3>2. edge[s][1].wins = w /\ edge[s][1].losses = l
      BY <3>1
    <3> QED
      BY <2>2, <3>1, <3>2
  <2> QED
    BY <2>4, <2>5
<1> QED
  BY <1>2, <1>3, <1>4, Zenon DEF LearningIsEvidence

\* What is learned is evidence: every episode is a result that was booked under
\* its id, no id counts twice, none that is recent is missing after a whole
\* reflection, and no estimate counts more than was booked, for any number of
\* symbols, trades, closes without a reflection, failures and restarts
\* (reflection_service.py reflect, estimate_edge).
THEOREM LearnsFromEvidence ==
  LearningInit /\ [][LearningStep]_learningVars => []LearningIsEvidence
<1> QED
  BY LearningStarts, LearningKeeps, LearningSays, PTL

-----------------------------------------------------------------------------
(***************************************************************************)
(* ResearchData: a claimed test period is never served to train with, by   *)
(* rows written in the zone of the claim; the audit calls no version a     *)
(* leak over a claim in UTC; and a run reports a claimed window with the   *)
(* last bars of its series in it.                                          *)
(*                                                                         *)
(* Texts written in one zone are in the order of their moments (OneZone),  *)
(* so that what the firewall compares is what it means. The rest: every    *)
(* load refuses what meets a claim, the claim of a run is there before the *)
(* run is reported (ResearchInv), what every version holds are records of  *)
(* the period, and the last bars of a series, taken in order, are a window *)
(* of just so many bars.                                                   *)
(***************************************************************************)

\* Every frozen record is a record, whatever was frozen, and what the last run
\* reports is claimed.
ResearchInv ==
    /\ versions \in Seq(Range(versions))
    /\ \A v \in Range(versions) : v.records \in SUBSET DatasetRecord
    /\ RunIsOutOfSample

\* Of times that are written in one zone, the texts are in the order of the
\* moments.
LEMMA OneZone ==
  ASSUME NEW t, NEW u, t.at \in Int, u.at \in Int, t.zone \in Int, u.zone = t.zone
  PROVE  NotAfter(t, u) <=> t.at <= u.at
<1>1. PICK a, b, z : a = t.at /\ b = u.at /\ z = t.zone /\ a \in Int /\ b \in Int /\ z \in Int
  OBVIOUS
<1>2. Reading(t) = a + z /\ Reading(u) = b + z
  BY <1>1 DEF Reading
<1>3. NotAfter(t, u) <=> \/ a + z < b + z
                         \/ a + z = b + z /\ IF z < 0 THEN z <= z ELSE 0 <= z /\ z <= z
  BY <1>1, <1>2, Zenon DEF NotAfter
<1> QED
  BY <1>1, <1>3

LEMMA UtcIs == ASSUME NEW moment PROVE Utc(moment).at = moment /\ Utc(moment).zone = 0
  BY DEF Utc

\* What is claimed in the zone of a row covers it as the texts are between.
LEMMA InsideCovers ==
  ASSUME NEW lock, NEW t, lock.start.at \in Int, lock.end.at \in Int, t.at \in Int, t.zone \in Int,
         lock.start.zone = t.zone, lock.end.zone = t.zone
  PROVE  Inside(lock, t) <=> Covers(lock, t)
<1>1. NotAfter(lock.start, t) <=> lock.start.at <= t.at
  BY OneZone
<1>2. NotAfter(t, lock.end) <=> t.at <= lock.end.at
  BY OneZone
<1> QED
  BY <1>1, <1>2 DEF Inside, Covers

\* The last test_size times of a series are a window that ends it.
LEMMA WindowEnds ==
  ASSUME NEW n \in Nat, NEW times \in SUBSET (1 .. n), Cardinality(times) >= 1 + test_size,
         NEW w, w = OutOfSample(times)
  PROVE  /\ w.start = Utc(w.start.at) /\ w.end = Utc(w.end.at) /\ ReadBack(w) = w
         /\ w.end.at \in times /\ w.start.at \in times /\ w.start.at <= w.end.at
         /\ \A t \in times : t <= w.end.at
         /\ Cardinality({t \in times : Covers(w, Utc(t))}) = test_size
<1>1. PICK c, q : c = Cardinality(times) /\ q = Ascending(times)
  OBVIOUS
<1>2. /\ c \in Nat /\ q \in [1 .. c -> times] /\ Len(q) = c
      /\ \A k \in 1 .. c : q[k] \in times /\ q[k] \in Int
      /\ \A k, l \in 1 .. c : k < l => q[k] < q[l]
      /\ \A t \in times : \E k \in 1 .. c : q[k] = t
  <2>1. Ascends(q, c, times)
    BY <1>1, AscendingIs
  <2> QED
    BY <2>1 DEF Ascends
<1>3. test_size \in Nat \ {0} /\ c >= 1 + test_size
  BY <1>1, ResearchAssumption
<1>4. PICK b \in Nat : b = c - test_size
  BY <1>2, <1>3
<1>5. b + 1 \in 1 .. c /\ c \in 1 .. c /\ b + test_size = c
  BY <1>2, <1>3, <1>4
<1>6. w = [start |-> Utc(q[b + 1]), end |-> Utc(q[c])]
  <2>1. w = [start |-> Utc(q[c - test_size + 1]), end |-> Utc(q[c])]
    <3>1. OutOfSample(times) = [start |-> Utc(Ascending(times)[Len(Ascending(times)) - test_size + 1]),
                                end |-> Utc(Ascending(times)[Len(Ascending(times))])]
      BY Zenon DEF OutOfSample
    <3>2. Len(q) = c /\ Ascending(times) = q
      BY <1>1, <1>2
    <3> QED
      BY <3>1, <3>2
  <2>2. c - test_size + 1 = b + 1
    BY <1>2, <1>3, <1>4
  <2> QED
    BY <2>1, <2>2
<1>7. w.start.at = q[b + 1] /\ w.end.at = q[c]
  BY <1>6, UtcIs
<1>16. w.start = Utc(w.start.at) /\ w.end = Utc(w.end.at) /\ ReadBack(w) = w
  BY <1>6, <1>7 DEF ReadBack
<1>8. \A k \in 1 .. c : q[k] \in times /\ q[k] \in Int
  BY <1>2
<1>9. \A k, l \in 1 .. c : k <= l => q[k] <= q[l]
  <2> SUFFICES ASSUME NEW k \in 1 .. c, NEW l \in 1 .. c, k <= l PROVE q[k] <= q[l]
    OBVIOUS
  <2>1. CASE k = l
    BY <1>8, <2>1
  <2>2. CASE k # l
    <3>1. k < l
      BY <1>2, <2>2
    <3>2. q[k] < q[l] /\ q[k] \in Int /\ q[l] \in Int
      BY <1>2, <1>8, <3>1
    <3> QED
      BY <3>2
  <2> QED
    BY <2>1, <2>2
<1>10. \A t \in times : t <= w.end.at
  <2> SUFFICES ASSUME NEW t \in times PROVE t <= w.end.at
    OBVIOUS
  <2>1. PICK k \in 1 .. c : q[k] = t
    BY <1>2
  <2>2. k <= c
    BY <1>2
  <2> QED
    BY <1>5, <1>7, <1>9, <2>1, <2>2
<1> DEFINE T == {t \in times : Covers(w, Utc(t))}
           f == [i \in 1 .. test_size |-> q[b + i]]
<1>11. \A i \in 1 .. test_size : b + i \in 1 .. c /\ b + 1 <= b + i /\ b + i <= c
  BY <1>3, <1>4, <1>5
<1>12. \A i \in 1 .. test_size : q[b + i] \in T
  BY <1>5, <1>7, <1>8, <1>9, <1>11, UtcIs DEF Covers
<1>13. \A i, j \in 1 .. test_size : q[b + i] = q[b + j] => i = j
  <2> SUFFICES ASSUME NEW i \in 1 .. test_size, NEW j \in 1 .. test_size, i < j PROVE q[b + i] # q[b + j]
    BY <1>3
  <2>1. b + i < b + j
    BY <1>3, <1>4
  <2>2. q[b + i] < q[b + j] /\ q[b + i] \in Int /\ q[b + j] \in Int
    BY <1>2, <1>8, <1>11, <2>1
  <2> QED
    BY <2>2
<1>14. \A t \in T : \E i \in 1 .. test_size : q[b + i] = t
  <2> SUFFICES ASSUME NEW t \in T PROVE \E i \in 1 .. test_size : q[b + i] = t
    OBVIOUS
  <2>1. t \in times /\ q[b + 1] <= t
    BY <1>7, UtcIs DEF Covers
  <2>2. PICK k \in 1 .. c : q[k] = t
    BY <1>2, <2>1
  <2>3. k >= b + 1
    <3>1. ASSUME k < b + 1 PROVE FALSE
      <4>1. q[k] < q[b + 1] /\ q[k] \in Int /\ q[b + 1] \in Int
        BY <1>2, <1>5, <1>8, <3>1
      <4> QED
        BY <2>1, <2>2, <4>1
    <3> QED
      BY <1>2, <1>4, <3>1
  <2>4. k - b \in 1 .. test_size /\ b + (k - b) = k
    BY <1>2, <1>3, <1>4, <1>5, <2>3
  <2> QED
    BY <2>2, <2>4
<1>15. Cardinality(T) = test_size
  <2> HIDE DEF T
  <2>1. f \in [1 .. test_size -> T] /\ \A i \in 1 .. test_size : f[i] = q[b + i]
    BY <1>12
  <2> HIDE DEF f
  <2>2. f \in Bijection(1 .. test_size, T)
    <3>1. \A i, j \in 1 .. test_size : f[i] = f[j] => i = j
      BY <1>13, <2>1
    <3>2. \A t \in T : \E i \in 1 .. test_size : f[i] = t
      BY <1>14, <2>1
    <3> QED
      BY <2>1, <3>1, <3>2 DEF Bijection, Injection, Surjection, IsInjective
  <2>3. ExistsBijection(1 .. test_size, T)
    BY <2>2 DEF ExistsBijection
  <2> QED
    BY <1>3, <2>3, FS_CountingElements
<1> QED
  BY <1>5, <1>7, <1>8, <1>9, <1>10, <1>15, <1>16

\* A version is one of those frozen.
LEMMA VersionIs == ASSUME NEW n \in Numbers PROVE Version(n) \in Range(versions)
<1>1. PICK j \in DOMAIN versions : versions[j].version = n
  BY DEF Numbers
<1>2. PICK k : k = CHOOSE i \in DOMAIN versions : versions[i].version = n
  OBVIOUS
<1>3. k \in DOMAIN versions
  BY <1>1, <1>2
<1>4. Version(n) = versions[k]
  BY <1>2 DEF Version
<1> QED
  BY <1>3, <1>4 DEF Range

LEMMA TimesOfRecords ==
  ASSUME NEW records \in SUBSET DatasetRecord
  PROVE  /\ MomentsOf(records) \in SUBSET (1 .. LastMoment) /\ LastMoment \in Nat
         /\ \A r \in records : r.source.at \in 1 .. LastMoment /\ r.source.zone \in Int
         /\ MomentsOf(records) = {t.at : t \in Sources(records)}
<1>1. \A r \in records : r.source \in [at : Moments, zone : Zones \cup {0}]
  BY DEF DatasetRecord
<1>2. \A z \in Zones \cup {0} : z \in Int
  BY ResearchAssumption
<1>3. \A r \in records : r.source.at \in 1 .. LastMoment /\ r.source.zone \in Int
  BY <1>1, <1>2 DEF Moments
<1> QED
  BY <1>3, ResearchAssumption DEF Sources, MomentsOf

LEMMA RecordMade ==
  ASSUME NEW at \in Moments, NEW zone \in Zones \cup {0}, NEW available \in Moments, NEW reach \in Moments
  PROVE  [source |-> [at |-> at, zone |-> zone], available |-> available, reach |-> reach] \in DatasetRecord
  BY DEF DatasetRecord

\* The whole of a version is in the scope of everything, so that a record in a
\* claimed period is a conflict.
LEMMA AllIsScoped ==
  ASSUME NEW v, v.records \in SUBSET DatasetRecord
  PROVE  Scoped(v, Everything) = v.records
<1>1. \A r \in v.records : r.available \in 1 .. LastMoment /\ LastMoment \in Nat
  BY ResearchAssumption DEF DatasetRecord, Moments
<1>2. Everything.windows = {} /\ Everything.available_by = LastMoment
  BY DEF Everything
<1> QED
  BY <1>1, <1>2 DEF Scoped

\* The audit asks for the records of a claim that was read back; the firewall
\* for those of the claim.
LEMMA NothingLeaks == ASSUME ResearchInv PROVE LeaksExplained
<1> SUFFICES ASSUME NEW v \in Range(versions), NEW lock \in test_period_locks, ProtectedBy(v, lock) # {},
                    ReadBack(lock) = lock
             PROVE  Conflicts(v, Everything)
  BY DEF LeaksExplained, Leaks
<1>1. PICK r \in v.records : Inside(lock, r.source)
  BY DEF ProtectedBy
<1>2. Scoped(v, Everything) = v.records
  BY AllIsScoped DEF ResearchInv
<1> QED
  BY <1>1, <1>2 DEF Conflicts

\* A version is appended or refused: the frozen ones stay.
LEMMA FreezeKeeps ==
  ASSUME ResearchInv, NEW kind, NEW records \in SUBSET DatasetRecord, NEW created, NEW loaded,
         Freeze(kind, records, created, loaded)
  PROVE  ResearchInv' /\ IsPrefix(versions, versions') /\ answer'.served = loaded
<1>1. PICK v : v.records = records /\ versions' = Appended(v)
  <2>1. PICK number : versions' = Appended([version |-> number, kind |-> kind, created |-> created, records |-> records])
    BY DEF Freeze
  <2> QED
    BY <2>1
<1>2. answer'.served = loaded /\ RunIsOutOfSample'
  <2>1. answer'.served = loaded /\ answer'.run = << >>
    BY DEF Freeze, Silent
  <2> QED
    BY <2>1 DEF RunIsOutOfSample
<1>3. versions \in Seq(Range(versions)) /\ Len(versions) \in Nat
  BY DEF ResearchInv
<1>4. CASE versions' = versions
  BY <1>2, <1>3, <1>4 DEF ResearchInv, IsPrefix
<1>5. CASE versions' = Append(versions, v)
  <2> DEFINE all == Range(versions) \cup {v}
  <2>1. versions \in Seq(all) /\ versions' \in Seq(all)
    BY <1>3, <1>5
  <2>2. /\ Len(versions') = Len(versions) + 1
        /\ \A i \in 1 .. Len(versions) : versions'[i] = versions[i]
        /\ versions'[Len(versions) + 1] = v
    BY <1>3, <1>5
  <2>3. Range(versions') = all
    BY <1>3, <2>1, <2>2 DEF Range
  <2>4. IsPrefix(versions, versions')
    BY <1>3, <2>1, <2>2 DEF IsPrefix
  <2>5. ResearchInv'
    BY <1>1, <1>2, <2>1, <2>3 DEF ResearchInv
  <2> QED
    BY <1>2, <2>4, <2>5
<1> QED
  BY <1>1, <1>4, <1>5 DEF Appended

LEMMA NoChange == versions \in Seq(Range(versions)) => IsPrefix(versions, versions)
  BY DEF IsPrefix

Firewall ==
    /\ test_period_locks \subseteq test_period_locks' /\ IsPrefix(versions, versions')
    /\ \A t \in answer'.served, lock \in test_period_locks :
          lock.start.zone = t.zone /\ lock.end.zone = t.zone => ~Covers(lock, t)

\* Claims are made of times.
LocksAre == \A lock \in test_period_locks : lock.start.at \in Int /\ lock.end.at \in Int

LEMMA ClearOfClaims ==
  ASSUME LocksAre, NEW v, v.records \in SUBSET DatasetRecord, NEW scope, ~Conflicts(v, scope),
         NEW t \in Sources(Scoped(v, scope)), NEW lock \in test_period_locks,
         lock.start.zone = t.zone, lock.end.zone = t.zone
  PROVE  ~Covers(lock, t)
<1>1. PICK r \in Scoped(v, scope) : r.source = t
  BY DEF Sources
<1>2. ~Inside(lock, t)
  BY <1>1 DEF Conflicts
<1>3. r \in v.records
  BY <1>1 DEF Scoped
<1>4. t.at \in Int /\ t.zone \in Int
  BY <1>1, <1>3, TimesOfRecords
<1> QED
  BY <1>2, <1>4, InsideCovers DEF LocksAre

LEMMA RunReports ==
  ASSUME ResearchInv, NEW n \in Numbers, EvidenceRun(n)
  PROVE  RunIsOutOfSample'
<1>1. PICK v : v = Version(n)
  OBVIOUS
<1>2. v \in Range(versions) /\ v.records \in SUBSET DatasetRecord
  BY <1>1, VersionIs DEF ResearchInv
<1>3. PICK times, w : times = MomentsOf(v.records) /\ w = OutOfSample(times)
  OBVIOUS
<1>4. /\ Cardinality(times) >= 1 + test_size
      /\ test_period_locks' = IF \E lock \in test_period_locks : ReadBack(lock) = w THEN test_period_locks
                              ELSE test_period_locks \cup {w}
      /\ answer' = [Silent EXCEPT !.run = <<Sources(v.records), w>>]
      /\ versions' = versions
  BY <1>1, <1>3, Zenon DEF EvidenceRun
<1>5. times \in SUBSET (1 .. LastMoment) /\ LastMoment \in Nat /\ times = {t.at : t \in Sources(v.records)}
  BY <1>2, <1>3, TimesOfRecords
<1>6. /\ w.start = Utc(w.start.at) /\ w.end = Utc(w.end.at) /\ ReadBack(w) = w
      /\ w.end.at \in times /\ w.start.at \in times /\ w.start.at <= w.end.at
      /\ \A t \in times : t <= w.end.at
      /\ Cardinality({t \in times : Covers(w, Utc(t))}) = test_size
  BY <1>3, <1>4, <1>5, WindowEnds
<1>12. \A t \in times : t \in Int
  BY <1>5
<1>7. Max(times) = w.end.at
  <2>1. Greatest(times) \in times /\ w.end.at <= Greatest(times)
    BY <1>5, <1>6, GreatestIs
  <2>2. Greatest(times) <= w.end.at /\ Greatest(times) \in Int /\ w.end.at \in Int
    BY <1>6, <1>12, <2>1
  <2> QED
    BY <2>1, <2>2 DEF Greatest
<1>8. Min(times) \in times /\ \A t \in times : Min(times) <= t
  <2>1. times # {}
    BY <1>6
  <2>2. times \in SUBSET Nat
    BY <1>5
  <2>3. PICK m \in times : \A t \in times : m <= t
    BY <2>1, <2>2, LeastNumber
  <2> QED
    BY <2>3 DEF Min
<1>9. ASSUME \A t \in Sources(v.records) : t.zone = 0 PROVE ~Dead(w)'
  <2>1. PICK r \in v.records : r.source.at = w.end.at
    BY <1>3, <1>6 DEF MomentsOf
  <2>2. w.start.at \in Int /\ w.end.at \in Int /\ Min(times) \in Int
    BY <1>6, <1>8, <1>12
  <2>3. Inside(w, r.source)
    <3>1. r.source.zone = 0
      BY <1>9, <2>1 DEF Sources
    <3>2. w.start.zone = 0 /\ w.end.zone = 0
      BY <1>6, UtcIs
    <3>3. Covers(w, r.source)
      BY <1>6, <2>1, <2>2 DEF Covers
    <3> QED
      BY <2>1, <2>2, <3>1, <3>2, <3>3, InsideCovers
  <2>4. Overlaps(Window(v), w)
    <3>1. Window(v).start = Min(times) /\ Window(v).end = w.end.at
      BY <1>3, <1>7 DEF Window
    <3> QED
      BY <1>6, <1>8, <2>2, <3>1 DEF Overlaps
  <2>5. ProtectedBy(v, w) # {}
    BY <1>6, <2>1, <2>3, <2>4 DEF ProtectedBy
  <2> QED
    BY <1>2, <1>4, <2>5 DEF Dead
<1>10. answer'.run = <<Sources(v.records), w>>
  BY <1>4 DEF Silent
<1>11. \E lock \in test_period_locks' : ReadBack(lock) = w
  BY <1>4, <1>6
<1>13. answer'.run[1] = Sources(v.records) /\ answer'.run[2] = w
  BY <1>10
<1> QED
  BY <1>5, <1>6, <1>7, <1>9, <1>11, <1>13 DEF RunIsOutOfSample

LEMMA LabelsAreRecords ==
  ASSUME NEW records \in SUBSET DatasetRecord
  PROVE  SamplesOf(records) \in SUBSET DatasetRecord
<1>1. PICK c, s, times : times = MomentsOf(records) /\ c = Cardinality(times) /\ s = Ascending(times)
  OBVIOUS
<1>2. times \in SUBSET (1 .. LastMoment) /\ LastMoment \in Nat
  BY <1>1, TimesOfRecords
<1>3. Ascends(s, c, times)
  BY <1>1, <1>2, AscendingIs
<1>4. c \in Nat /\ Len(s) = c /\ \A k \in 1 .. c : s[k] \in Moments
  BY <1>2, <1>3 DEF Ascends, Moments
<1>5. SamplesOf(records) =
        {[source |-> Utc(s[i]), available |-> s[i], reach |-> s[i + LabelHorizon]] : i \in 1 .. c - LabelHorizon}
  BY <1>1, <1>4 DEF SamplesOf
<1>6. \A i \in 1 .. c - LabelHorizon : i \in 1 .. c /\ i + LabelHorizon \in 1 .. c
  BY <1>4, ResearchAssumption
<1>7. \A i \in 1 .. c - LabelHorizon : s[i] \in Moments /\ s[i + LabelHorizon] \in Moments
  BY <1>4, <1>6
<1>8. \A i \in 1 .. c - LabelHorizon :
        [source |-> Utc(s[i]), available |-> s[i], reach |-> s[i + LabelHorizon]] \in DatasetRecord
  BY <1>7, RecordMade DEF Utc
<1> QED
  BY <1>5, <1>8

LEMMA ClaimsAreTimes ==
  ASSUME NEW lock \in TestPeriodLock
  PROVE  lock.start.at \in Int /\ lock.end.at \in Int
  BY ResearchAssumption DEF TestPeriodLock, Times, Moments

LEMMA FirewallStep ==
  ResearchInv /\ LocksAre /\ [ResearchStep]_researchVars => ResearchInv' /\ LocksAre' /\ [Firewall]_researchVars
<1> SUFFICES ASSUME ResearchInv, LocksAre, [ResearchStep]_researchVars
             PROVE  ResearchInv' /\ LocksAre' /\ [Firewall]_researchVars
  OBVIOUS
<1>0. Silent.served = {} /\ Silent.run = << >> /\ IsPrefix(versions, versions)
  BY NoChange DEF Silent, ResearchInv
<1>1. ASSUME versions' = versions, RunIsOutOfSample' PROVE ResearchInv'
  BY <1>1 DEF ResearchInv
<1>2. ASSUME answer'.run = << >> PROVE RunIsOutOfSample'
  BY <1>2 DEF RunIsOutOfSample
<1>3. ASSUME test_period_locks' = test_period_locks PROVE LocksAre'
  BY <1>3 DEF LocksAre
<1>4. CASE DayPasses
  <2>1. versions' = versions /\ test_period_locks' = test_period_locks /\ answer' = Silent
    BY <1>4 DEF DayPasses
  <2> QED
    BY <1>0, <1>1, <1>2, <1>3, <2>1 DEF Firewall
<1>5. ASSUME NEW times \in Series, NEW zone \in Zones, NEW available_at \in Moments,
             BuildRaw(times, zone, available_at)
      PROVE  ResearchInv' /\ LocksAre' /\ Firewall
  <2>1. PICK records : /\ records = {[source |-> [at |-> t, zone |-> zone], available |-> available_at, reach |-> t]
                                     : t \in times}
                       /\ Freeze("raw", records, available_at, {})
    BY <1>5 DEF BuildRaw
  <2>2. test_period_locks' = test_period_locks
    BY <1>5 DEF BuildRaw
  <2>3. records \in SUBSET DatasetRecord
    <3>1. \A t \in times : t \in Moments
      BY ResearchAssumption DEF Moments
    <3>2. \A t \in times : [source |-> [at |-> t, zone |-> zone], available |-> available_at, reach |-> t] \in DatasetRecord
      BY <3>1, RecordMade
    <3> QED
      BY <2>1, <3>2
  <2>4. ResearchInv' /\ IsPrefix(versions, versions') /\ answer'.served = {}
    BY <2>1, <2>3, FreezeKeeps
  <2> QED
    BY <1>3, <2>2, <2>4 DEF Firewall
<1>6. ASSUME NEW n \in Numbers, BuildLabelled(n) PROVE ResearchInv' /\ LocksAre' /\ Firewall
  <2>1. PICK v : v = Version(n)
    OBVIOUS
  <2>2. v.records \in SUBSET DatasetRecord
    BY <2>1, VersionIs DEF ResearchInv
  <2>3. /\ ~Conflicts(v, Everything) /\ test_period_locks' = test_period_locks
        /\ Freeze("normalized", SamplesOf(v.records), today, Sources(v.records))
    BY <1>6, <2>1 DEF BuildLabelled
  <2>4. SamplesOf(v.records) \in SUBSET DatasetRecord
    BY <2>2, LabelsAreRecords
  <2>5. ResearchInv' /\ IsPrefix(versions, versions') /\ answer'.served = Sources(v.records)
    BY <2>3, <2>4, FreezeKeeps
  <2>6. answer'.served = Sources(Scoped(v, Everything))
    BY <2>2, <2>5, AllIsScoped
  <2>7. \A t \in answer'.served, lock \in test_period_locks :
          lock.start.zone = t.zone /\ lock.end.zone = t.zone => ~Covers(lock, t)
    BY <2>2, <2>3, <2>6, ClearOfClaims
  <2> QED
    BY <1>3, <2>3, <2>5, <2>7 DEF Firewall
<1>7. ASSUME NEW n \in Numbers, EvidenceRun(n) PROVE ResearchInv' /\ LocksAre' /\ Firewall
  <2>1. versions' = versions /\ test_period_locks \subseteq test_period_locks' /\ answer'.served = {}
    BY <1>0, <1>7 DEF EvidenceRun, Silent
  <2>2. LocksAre'
    <3>1. PICK v : v = Version(n)
      OBVIOUS
    <3>2. PICK times, w : times = MomentsOf(v.records) /\ w = OutOfSample(times)
      OBVIOUS
    <3>3. Cardinality(times) >= 1 + test_size /\ test_period_locks' \in {test_period_locks, test_period_locks \cup {w}}
      BY <1>7, <3>1, <3>2, Zenon DEF EvidenceRun
    <3>4. times \in SUBSET (1 .. LastMoment) /\ LastMoment \in Nat
      BY <3>1, <3>2, VersionIs, TimesOfRecords DEF ResearchInv
    <3>5. w.end.at \in times /\ w.start.at \in times
      BY <3>2, <3>3, <3>4, WindowEnds
    <3>6. \A t \in times : t \in Int
      BY <3>4
    <3>7. w.end.at \in Int /\ w.start.at \in Int
      BY <3>5, <3>6
    <3> QED
      BY <3>3, <3>7 DEF LocksAre
  <2> QED
    BY <1>0, <1>1, <1>7, <2>1, <2>2, RunReports DEF Firewall
<1>8. ASSUME NEW n \in Numbers, NEW scope \in Scopes, Train(n, scope) PROVE ResearchInv' /\ LocksAre' /\ Firewall
  <2>1. PICK v : v = Version(n)
    OBVIOUS
  <2>2. /\ ~Conflicts(v, scope) /\ versions' = versions /\ test_period_locks' = test_period_locks
        /\ answer' = [Silent EXCEPT !.served = Sources(Scoped(v, scope))]
    BY <1>8, <2>1 DEF Train
  <2>3. answer'.served = Sources(Scoped(v, scope)) /\ answer'.run = << >>
    BY <2>2 DEF Silent
  <2>4. v.records \in SUBSET DatasetRecord
    BY <2>1, VersionIs DEF ResearchInv
  <2>5. \A t \in answer'.served, lock \in test_period_locks :
          lock.start.zone = t.zone /\ lock.end.zone = t.zone => ~Covers(lock, t)
    BY <2>2, <2>3, <2>4, ClearOfClaims
  <2> QED
    BY <1>0, <1>1, <1>2, <1>3, <2>2, <2>3, <2>5 DEF Firewall
<1>9. ASSUME NEW lock \in TestPeriodLock, Claim(lock) PROVE ResearchInv' /\ LocksAre' /\ Firewall
  <2>1. versions' = versions /\ test_period_locks' = test_period_locks \cup {lock} /\ answer' = Silent
    BY <1>9 DEF Claim
  <2>2. LocksAre'
    BY <2>1, ClaimsAreTimes DEF LocksAre
  <2> QED
    BY <1>0, <1>1, <1>2, <2>1, <2>2 DEF Firewall
<1>10. CASE UNCHANGED researchVars
  <2>1. versions' = versions /\ test_period_locks' = test_period_locks /\ answer' = answer
    BY <1>10 DEF researchVars
  <2>2. RunIsOutOfSample'
    BY <2>1 DEF ResearchInv, RunIsOutOfSample, Dead, ProtectedBy
  <2> QED
    BY <1>1, <1>3, <1>10, <2>1, <2>2
<1> QED
  BY <1>4, <1>5, <1>6, <1>7, <1>8, <1>9, <1>10 DEF ResearchStep

LEMMA ResearchStarts == ResearchInit => ResearchInv /\ LocksAre
<1> SUFFICES ASSUME ResearchInit PROVE ResearchInv /\ LocksAre
  OBVIOUS
<1>1. answer.run = << >>
  BY DEF ResearchInit, Silent
<1> QED
  BY <1>1 DEF ResearchInit, ResearchInv, LocksAre, RunIsOutOfSample, Range

LEMMA ResearchSays == ResearchInv => LeaksExplained /\ RunIsOutOfSample
  BY NothingLeaks DEF ResearchInv

\* A period that is claimed is not served to train with from then on, by no
\* version and by no scope, of rows written in the zone of the claim; claims and
\* versions stay as they are; the audit calls no version a leak over a claim in
\* UTC; and an evidence run reports a window that is claimed, with the last bars
\* of its series in it (dataset_store.py:7-28).
THEOREM ClaimsHold == ResearchInit /\ [][ResearchStep]_researchVars => FirewallHolds
<1>1. [Firewall]_researchVars <=>
      [/\ test_period_locks \subseteq test_period_locks' /\ IsPrefix(versions, versions')
       /\ \A t \in answer'.served, lock \in test_period_locks :
             lock.start.zone = t.zone /\ lock.end.zone = t.zone => ~Covers(lock, t)]_researchVars
  BY DEF Firewall
<1> QED
  BY <1>1, ResearchStarts, FirewallStep, ResearchSays, PTL DEF FirewallHolds

-----------------------------------------------------------------------------
(***************************************************************************)
(* Validation: what a model is trained on does not depend on the prices it *)
(* is tested on.                                                           *)
(*                                                                         *)
(* A label rests on the prices from the first record it looks back to, up  *)
(* to the record it ends at, and on no other (Rests): the barriers touched *)
(* up to the first are the same, so it is the first one still. Features    *)
(* rest on the records at or before their moment. A price changed at or    *)
(* after the start of the test period is out of reach of a sample whose    *)
(* label has ended, and whether earlier records have labels at all, hence  *)
(* the place of the sample, is unchanged too. That the splitters keep only *)
(* such samples is FoldKept; it needs each test set to be nonempty, as the *)
(* size of the smallest fold gives.                                        *)
(***************************************************************************)

-----------------------------------------------------------------------------
(* Studies.                                                                *)

Studies ==
    UNION {[times : {hours}, prices : [DOMAIN hours -> PriceLevels], definition : LabelDefinition,
            sample_every : 1 .. 2, design : Designs] : hours \in Clocks}

\* A series of n records, in the order of their times.
InSeries(st, n) ==
    /\ n \in Nat /\ DOMAIN st.times = 1 .. n /\ DOMAIN st.prices = 1 .. n
    /\ st.prices \in Seq(PriceLevels) /\ Len(st.prices) = n
    /\ \A i \in 1 .. n : st.times[i] \in Nat \ {0}
    /\ \A i, j \in 1 .. n : i <= j => st.times[i] <= st.times[j]

LEMMA StudyIs ==
  ASSUME NEW st \in Studies
  PROVE  /\ \E n : InSeries(st, n)
         /\ st.definition \in LabelDefinition /\ st.sample_every \in 1 .. 2 /\ st.design \in Designs
         /\ st = [times |-> st.times, prices |-> st.prices, definition |-> st.definition,
                  sample_every |-> st.sample_every, design |-> st.design]
<1>1. PICK hours \in Clocks : st \in [times : {hours}, prices : [DOMAIN hours -> PriceLevels],
                                      definition : LabelDefinition, sample_every : 1 .. 2, design : Designs]
  BY DEF Studies
<1>2. hours \in Seq(Nat \ {0}) /\ \A i, j \in DOMAIN hours : i <= j => hours[i] <= hours[j]
  BY ValidationAssumption
<1>3. PICK n \in Nat : DOMAIN hours = 1 .. n
  BY <1>2
<1>4. st.times = hours /\ st.prices \in [1 .. n -> PriceLevels]
  BY <1>1, <1>3
<1>5. st.prices \in Seq(PriceLevels) /\ Len(st.prices) = n /\ DOMAIN st.prices = 1 .. n
  BY <1>3, <1>4
<1>6. \A i \in 1 .. n : hours[i] \in Nat \ {0}
  BY <1>2, <1>3
<1>7. InSeries(st, n)
  BY <1>2, <1>3, <1>4, <1>5, <1>6 DEF InSeries
<1> QED
  BY <1>1, <1>7

LEMMA DefinitionIs ==
  ASSUME NEW d \in LabelDefinition
  PROVE  /\ d.horizon \in Nat \ {0}
         /\ d.kind \in {"fixed_horizon", "triple_barrier"}
         /\ d.kind = "triple_barrier" => d.volatility_lookback = 2
  BY ValidationAssumption DEF LabelDefinition

\* The same study with other prices.
Variant(other, st) ==
    /\ other.times = st.times /\ other.definition = st.definition /\ other.sample_every = st.sample_every
    /\ DOMAIN other.prices = DOMAIN st.prices /\ Len(other.prices) = Len(st.prices)
    /\ other.prices \in Seq(PriceLevels)

SamePrices(other, st, from, to) ==
    \A x \in DOMAIN st.prices : from <= x /\ x <= to => other.prices[x] = st.prices[x]

\* The first record that a label looks at.
LooksFrom(st, i) ==
    IF st.definition.kind = "fixed_horizon" THEN i
    ELSE IF i > st.definition.volatility_lookback THEN i - st.definition.volatility_lookback ELSE 1

LEMMA LooksFromIs ==
  ASSUME NEW st, st.definition \in LabelDefinition, NEW i \in Nat \ {0}
  PROVE  LooksFrom(st, i) \in 1 .. i
<1>1. CASE st.definition.kind = "fixed_horizon"
  BY <1>1 DEF LooksFrom
<1>2. CASE st.definition.kind # "fixed_horizon"
  <2>1. st.definition.volatility_lookback = 2
    BY <1>2, DefinitionIs
  <2>2. LooksFrom(st, i) = IF i > 2 THEN i - 2 ELSE 1
    BY <1>2, <2>1 DEF LooksFrom
  <2> QED
    BY <2>2
<1> QED
  BY <1>1, <1>2

LEMMA TrailingSame ==
  ASSUME NEW st, NEW n, InSeries(st, n), st.definition \in LabelDefinition, NEW i \in 1 .. n,
         st.definition.kind # "fixed_horizon",
         NEW other, Variant(other, st), SamePrices(other, st, LooksFrom(st, i), i)
  PROVE  Trailing(other, i) = Trailing(st, i)
<1>1. PICK m : m = LooksFrom(st, i)
  OBVIOUS
<1>2. n \in Nat /\ m \in 1 .. i
  BY <1>1, LooksFromIs DEF InSeries
<1>3. PICK p, q : p = st.prices /\ q = other.prices
  OBVIOUS
<1>4. /\ p \in Seq(PriceLevels) /\ q \in Seq(PriceLevels) /\ Len(p) = n /\ Len(q) = n
      /\ \A x \in 1 .. n : m <= x /\ x <= i => q[x] = p[x]
  BY <1>1, <1>3 DEF InSeries, Variant, SamePrices
<1>5. Trailing(st, i) = SubSeq(p, m, i - 1) /\ Trailing(other, i) = SubSeq(q, m, i - 1)
  BY <1>1, <1>3 DEF Trailing, LooksFrom, Variant
<1>6. ASSUME NEW s \in {p, q} PROVE SubSeq(s, m, i - 1) = [x \in 1 .. (1 + (i - 1) - m) |-> s[x + m - 1]]
  BY <1>2, <1>4
<1>7. \A x \in 1 .. (1 + (i - 1) - m) : q[x + m - 1] = p[x + m - 1]
  BY <1>2, <1>4
<1> QED
  BY <1>5, <1>6, <1>7

-----------------------------------------------------------------------------
(* Labels.                                                                 *)

\* No label: too near to the end.
Skipped(st, i) == i + st.definition.horizon > Len(st.prices)

LEMMA LabelIsNone == ASSUME NEW st, NEW i, NEW value, NEW steps PROVE Labelled(st, i, value, steps) # Unlabelled
<1>1. "label_start" \in DOMAIN Labelled(st, i, value, steps)
  BY DEF Labelled
<1>2. "label_start" \notin DOMAIN Unlabelled
  BY DEF Unlabelled
<1> QED
  BY <1>1, <1>2

LEMMA SkippedIs == ASSUME NEW st, NEW i PROVE LabelFor(st, i) = Unlabelled <=> Skipped(st, i)
<1>1. CASE i + st.definition.horizon > Len(st.prices)
  BY <1>1 DEF LabelFor, Skipped
<1>2. CASE ~(i + st.definition.horizon > Len(st.prices)) /\ st.definition.kind = "fixed_horizon"
  <2>1. LabelFor(st, i) = FixedHorizon(st, i)
    BY <1>2 DEF LabelFor
  <2>2. PICK value : FixedHorizon(st, i) = Labelled(st, i, value, st.definition.horizon)
    BY Zenon DEF FixedHorizon
  <2> QED
    BY <1>2, <2>1, <2>2, LabelIsNone DEF Skipped
<1>3. CASE ~(i + st.definition.horizon > Len(st.prices)) /\ st.definition.kind # "fixed_horizon"
  <2>1. LabelFor(st, i) = TripleBarrier(st, i)
    BY <1>3 DEF LabelFor
  <2>2. PICK value, steps : TripleBarrier(st, i) = Labelled(st, i, value, steps)
    BY Zenon DEF TripleBarrier
  <2> QED
    BY <1>3, <2>1, <2>2, LabelIsNone DEF Skipped
<1> QED
  BY <1>1, <1>2, <1>3

\* Whether there is a label does not depend on the prices.
LEMMA SkippedSame ==
  ASSUME NEW st, NEW i, NEW other, Variant(other, st)
  PROVE  LabelFor(other, i) = Unlabelled <=> LabelFor(st, i) = Unlabelled
<1>1. other.definition = st.definition /\ Len(other.prices) = Len(st.prices)
  BY DEF Variant
<1>2. Skipped(other, i) <=> Skipped(st, i)
  BY <1>1 DEF Skipped
<1> QED
  BY <1>2, SkippedIs

\* A label is of one start and one end, and rests on the prices up to the end.
Rests(st, n, i, e) ==
    /\ e \in 1 .. n /\ i <= e
    /\ LabelFor(st, i).label_start = st.times[i] /\ LabelFor(st, i).label_end = st.times[e]
    /\ \A other : Variant(other, st) /\ SamePrices(other, st, LooksFrom(st, i), e) =>
                     LabelFor(other, i) = LabelFor(st, i)

LEMMA LabelEnds ==
  ASSUME NEW st, NEW i, NEW value, NEW steps
  PROVE  /\ Labelled(st, i, value, steps).label_start = st.times[i]
         /\ Labelled(st, i, value, steps).label_end = st.times[i + steps]
  BY DEF Labelled

LEMMA FixedRests ==
  ASSUME NEW st, NEW n, InSeries(st, n), st.definition \in LabelDefinition, NEW i \in 1 .. n,
         st.definition.kind = "fixed_horizon", LabelFor(st, i) # Unlabelled
  PROVE  \E e : Rests(st, n, i, e)
<1>1. PICK h : h = st.definition.horizon
  OBVIOUS
<1>2. h \in Nat \ {0} /\ n \in Nat /\ Len(st.prices) = n /\ DOMAIN st.prices = 1 .. n
  BY <1>1, DefinitionIs DEF InSeries
<1>3. i + h <= n
  BY <1>1, <1>2, SkippedIs DEF Skipped
<1>4. PICK e \in 1 .. n : e = i + h
  BY <1>2, <1>3
<1>5. i <= e /\ LooksFrom(st, i) = i
  BY <1>2, <1>4 DEF LooksFrom
<1>6. LabelFor(st, i) = FixedHorizon(st, i)
  BY <1>1, <1>2, <1>3 DEF LabelFor
<1>7. LabelFor(st, i).label_start = st.times[i] /\ LabelFor(st, i).label_end = st.times[e]
  <2>1. PICK value : FixedHorizon(st, i) = Labelled(st, i, value, h)
    BY <1>1, Zenon DEF FixedHorizon
  <2> QED
    BY <1>4, <1>6, <2>1, LabelEnds
<1>8. ASSUME NEW other, Variant(other, st), SamePrices(other, st, i, e)
      PROVE  LabelFor(other, i) = LabelFor(st, i)
  <2>1. other.prices[i] = st.prices[i] /\ other.prices[i + h] = st.prices[i + h]
    BY <1>2, <1>4, <1>5, <1>8 DEF SamePrices
  <2>2. other.times = st.times /\ other.definition = st.definition /\ Len(other.prices) = n
    BY <1>2, <1>8 DEF Variant
  <2>3. LabelFor(other, i) = FixedHorizon(other, i)
    BY <1>1, <1>2, <1>3, <2>2 DEF LabelFor
  <2>4. FixedHorizon(other, i) = FixedHorizon(st, i)
    BY <1>1, <2>1, <2>2 DEF FixedHorizon, Labelled
  <2> QED
    BY <1>6, <2>3, <2>4
<1> QED
  BY <1>5, <1>7, <1>8 DEF Rests

\* The least of a set of steps, and of another that is the same up to it.
LEMMA LeastStep ==
  ASSUME NEW h \in Nat, NEW X \in SUBSET (1 .. h), h \in X
  PROVE  /\ Min(X) \in X /\ \A x \in X : Min(X) <= x
         /\ \A Y \in SUBSET (1 .. h) : (\A x \in 1 .. Min(X) : x \in X <=> x \in Y) => Min(Y) = Min(X)
<1>1. PICK m \in X : \A x \in X : m <= x
  BY LeastNumber
<1>2. Min(X) \in X /\ \A x \in X : Min(X) <= x
  BY <1>1 DEF Min
<1>3. ASSUME NEW Y \in SUBSET (1 .. h), \A x \in 1 .. Min(X) : x \in X <=> x \in Y PROVE Min(Y) = Min(X)
  <2>1. PICK a : a = Min(X)
    OBVIOUS
  <2>2. a \in X /\ a \in 1 .. h /\ a \in 1 .. a /\ \A x \in 1 .. a : x \in X <=> x \in Y
    <3>1. a \in X
      BY <1>2, <2>1
    <3>2. a \in 1 .. h
      BY <3>1
    <3>3. a \in 1 .. a
      BY <3>2
    <3>4. \A x \in 1 .. a : x \in X <=> x \in Y
      BY <1>3, <2>1, Zenon
    <3> QED
      BY <3>1, <3>2, <3>3, <3>4
  <2>3. a \in Y
    BY <2>2
  <2>4. PICK b \in Y : \A y \in Y : b <= y
    BY <2>3, LeastNumber
  <2>5. Min(Y) \in Y /\ \A y \in Y : Min(Y) <= y
    BY <2>4 DEF Min
  <2>6. PICK c : c = Min(Y)
    OBVIOUS
  <2>7. c \in 1 .. h /\ c \in Y /\ c <= a
    BY <2>3, <2>5, <2>6
  <2>8. c \in 1 .. a
    BY <2>2, <2>7
  <2>9. c \in X /\ a <= c
    BY <1>2, <2>1, <2>2, <2>7, <2>8
  <2> QED
    BY <2>1, <2>2, <2>6, <2>7, <2>9
<1> QED
  BY <1>2, <1>3

\* The steps at which the triple barrier may end.
Ups(st, i, s) ==
    Reaches(st.prices[i + s] - st.prices[i], Trailing(st, i), st.definition.profit_distance)
Downs(st, i, s) ==
    Reaches(st.prices[i] - st.prices[i + s], Trailing(st, i), st.definition.loss_distance)
Exits(st, i) ==
    {s \in 1 .. st.definition.horizon : Ups(st, i, s) \/ Downs(st, i, s) \/ s = st.definition.horizon}

LEMMA TripleIs ==
  ASSUME NEW st, NEW i
  PROVE  TripleBarrier(st, i) =
            Labelled(st, i, IF Ups(st, i, Min(Exits(st, i))) THEN 1
                            ELSE IF Downs(st, i, Min(Exits(st, i))) THEN -1 ELSE 0, Min(Exits(st, i)))
  BY Zenon DEF TripleBarrier, Ups, Downs, Exits

LEMMA TripleRests ==
  ASSUME NEW st, NEW n, InSeries(st, n), st.definition \in LabelDefinition, NEW i \in 1 .. n,
         st.definition.kind # "fixed_horizon", LabelFor(st, i) # Unlabelled
  PROVE  \E e : Rests(st, n, i, e)
<1>1. PICK h, X, a : h = st.definition.horizon /\ X = Exits(st, i) /\ a = Min(X)
  OBVIOUS
<1>2. h \in Nat \ {0} /\ n \in Nat /\ Len(st.prices) = n /\ DOMAIN st.prices = 1 .. n
  BY <1>1, DefinitionIs DEF InSeries
<1>3. i + h <= n
  BY <1>1, <1>2, SkippedIs DEF Skipped
<1>4. X \in SUBSET (1 .. h) /\ h \in X
  BY <1>1, <1>2 DEF Exits
<1>5. /\ a \in X
      /\ \A Y \in SUBSET (1 .. h) : (\A x \in 1 .. a : x \in X <=> x \in Y) => Min(Y) = a
  BY <1>1, <1>2, <1>4, LeastStep
<1>6. a \in 1 .. h
  BY <1>4, <1>5
<1>7. PICK e \in 1 .. n : e = i + a
  BY <1>2, <1>3, <1>6
<1>8. i <= e /\ LooksFrom(st, i) \in 1 .. i
  BY <1>2, <1>6, <1>7, LooksFromIs
<1>9. LabelFor(st, i) = TripleBarrier(st, i)
  BY <1>1, <1>2, <1>3 DEF LabelFor
<1>10. TripleBarrier(st, i) =
         Labelled(st, i, IF Ups(st, i, a) THEN 1 ELSE IF Downs(st, i, a) THEN -1 ELSE 0, a)
  BY <1>1, <1>3, TripleIs
<1>11. LabelFor(st, i).label_start = st.times[i] /\ LabelFor(st, i).label_end = st.times[e]
  BY <1>7, <1>9, <1>10, LabelEnds
<1>12. ASSUME NEW other, Variant(other, st), SamePrices(other, st, LooksFrom(st, i), e)
       PROVE  LabelFor(other, i) = LabelFor(st, i)
  <2>1. other.times = st.times /\ other.definition = st.definition /\ Len(other.prices) = n
    BY <1>2, <1>12 DEF Variant
  <2>2. SamePrices(other, st, LooksFrom(st, i), i)
    BY <1>2, <1>7, <1>8, <1>12 DEF SamePrices
  <2>3. Trailing(other, i) = Trailing(st, i)
    BY <1>12, <2>2, TrailingSame
  <2>4. other.prices[i] = st.prices[i]
    BY <1>2, <1>8, <2>2 DEF SamePrices
  <2>5. ASSUME NEW s \in 1 .. a PROVE other.prices[i + s] = st.prices[i + s]
    <3>1. i + s \in 1 .. n /\ LooksFrom(st, i) <= i + s /\ i + s <= e
      BY <1>2, <1>3, <1>6, <1>7, <1>8
    <3> QED
      BY <1>2, <1>12, <3>1 DEF SamePrices
  <2>6. ASSUME NEW s \in 1 .. a
        PROVE  (Ups(other, i, s) <=> Ups(st, i, s)) /\ (Downs(other, i, s) <=> Downs(st, i, s))
    BY <2>1, <2>3, <2>4, <2>5 DEF Ups, Downs
  <2>7. PICK Y : Y = Exits(other, i)
    OBVIOUS
  <2>8. Y \in SUBSET (1 .. h) /\ \A s \in 1 .. a : s \in X <=> s \in Y
    <3>1. \A s \in 1 .. a : s \in 1 .. h
      BY <1>2, <1>6
    <3> QED
      BY <1>1, <2>1, <2>6, <2>7, <3>1 DEF Exits
  <2>9. Min(Y) = a
    BY <1>5, <2>8
  <2>10. LabelFor(other, i) = TripleBarrier(other, i)
    BY <1>1, <1>2, <1>3, <2>1 DEF LabelFor
  <2>11. TripleBarrier(other, i) =
           Labelled(other, i, IF Ups(other, i, a) THEN 1 ELSE IF Downs(other, i, a) THEN -1 ELSE 0, a)
    BY <1>3, <2>1, <2>3, <2>7, <2>9, TripleIs
  <2>12. a \in 1 .. a
    BY <1>2, <1>6
  <2>13. (Ups(other, i, a) <=> Ups(st, i, a)) /\ (Downs(other, i, a) <=> Downs(st, i, a))
    BY <2>6, <2>12
  <2> QED
    BY <1>9, <1>10, <2>1, <2>10, <2>11, <2>13 DEF Labelled
<1> QED
  BY <1>8, <1>11, <1>12 DEF Rests

LEMMA LabelsRest ==
  ASSUME NEW st, NEW n, InSeries(st, n), st.definition \in LabelDefinition, NEW i \in 1 .. n, LabelFor(st, i) # Unlabelled
  PROVE  \E e : Rests(st, n, i, e)
  BY FixedRests, TripleRests

-----------------------------------------------------------------------------
(* Samples.                                                                *)

\* The study with another price at one record.
OnlyAt(other, st, j) ==
    /\ Variant(other, st) /\ j \in DOMAIN st.prices
    /\ \A x \in DOMAIN st.prices : x # j => other.prices[x] = st.prices[x]

LEMMA Earlier ==
  ASSUME NEW st, NEW n, InSeries(st, n), NEW i \in 1 .. n, NEW j \in 1 .. n, st.times[i] < st.times[j]
  PROVE  i < j
<1>1. st.times[i] \in Nat /\ st.times[j] \in Nat /\ n \in Nat
  BY DEF InSeries
<1>2. j <= i => st.times[j] <= st.times[i]
  BY DEF InSeries
<1> QED
  BY <1>1, <1>2

LEMMA FeaturesSame ==
  ASSUME NEW st, NEW n, InSeries(st, n), NEW i \in 1 .. n, NEW j \in 1 .. n, st.times[i] < st.times[j],
         NEW other, OnlyAt(other, st, j)
  PROVE  Features(other, i) = Features(st, i)
<1>1. PICK seen : seen = {x \in DOMAIN st.times : st.times[x] <= st.times[i]}
  OBVIOUS
<1>2. n \in Nat /\ DOMAIN st.times = 1 .. n /\ DOMAIN st.prices = 1 .. n /\ \A x \in 1 .. n : st.times[x] \in Nat
  BY DEF InSeries
<1>3. seen \in SUBSET (1 .. n) /\ i \in seen
  BY <1>1, <1>2
<1>4. PICK last : last = Max(seen)
  OBVIOUS
<1>5. last \in seen
  BY <1>2, <1>3, <1>4, GreatestIs DEF Greatest
<1>6. last \in 1 .. n /\ st.times[last] <= st.times[i]
  BY <1>1, <1>2, <1>5
<1>7. st.times[last] < st.times[j]
  BY <1>2, <1>6
<1>8. last < j
  BY <1>6, <1>7, Earlier
<1>9. other.prices[last] = st.prices[last] /\ (last > 1 => other.prices[last - 1] = st.prices[last - 1])
  <2>1. last > 1 => last - 1 \in 1 .. n /\ last - 1 # j
    BY <1>2, <1>6, <1>8
  <2>2. last # j
    BY <1>2, <1>6, <1>8
  <2> QED
    BY <1>2, <1>6, <2>1, <2>2 DEF OnlyAt
<1>10. other.times = st.times
  BY DEF OnlyAt, Variant
<1>11. /\ Features(st, i) = [price |-> st.prices[last], n_prior |-> last,
                             previous |-> IF last > 1 THEN st.prices[last - 1] ELSE 0]
       /\ Features(other, i) = [price |-> other.prices[last], n_prior |-> last,
                                previous |-> IF last > 1 THEN other.prices[last - 1] ELSE 0]
  BY <1>1, <1>4, <1>10 DEF Features
<1> QED
  BY <1>9, <1>11

LabelledIn(st) == {i \in Starts(st) : LabelFor(st, i) # Unlabelled}

Sample(st, i) ==
    [sample_index |-> i, decision_time |-> st.times[i], features |-> Features(st, i), window |-> LabelFor(st, i)]

\* The samples are of the labelled records, in their order.
Sampled(st, n, c) ==
    /\ LabelledIn(st) \in SUBSET (1 .. n) /\ c \in Nat
    /\ DOMAIN Generated(st) = 1 .. c /\ Len(Generated(st)) = c
    /\ \A k \in 1 .. c : /\ Ascending(LabelledIn(st))[k] \in LabelledIn(st)
                         /\ Generated(st)[k] = Sample(st, Ascending(LabelledIn(st))[k])

LEMMA SampledIs ==
  ASSUME NEW st, NEW n, InSeries(st, n)
  PROVE  Sampled(st, n, Cardinality(LabelledIn(st)))
<1>1. PICK S, c, q : S = LabelledIn(st) /\ c = Cardinality(S) /\ q = Ascending(S)
  OBVIOUS
<1>2. n \in Nat /\ S \in SUBSET (1 .. n)
  BY <1>1 DEF InSeries, LabelledIn, Starts
<1>3. Ascends(q, c, S)
  BY <1>1, <1>2, AscendingIs
<1>4. c \in Nat /\ DOMAIN q = 1 .. c /\ \A k \in 1 .. c : q[k] \in S
  BY <1>3 DEF Ascends
<1>5. Generated(st) = [k \in DOMAIN q |-> Sample(st, q[k])]
  BY <1>1 DEF Generated, LabelledIn, Sample
<1>6. Len(Generated(st)) = c
  BY <1>4, <1>5
<1> QED
  BY <1>1, <1>2, <1>4, <1>5, <1>6 DEF Sampled

\* A sample whose label has ended is the same whatever comes afterwards.
LEMMA GeneratedSame ==
  ASSUME NEW st, NEW n, InSeries(st, n), st.definition \in LabelDefinition,
         NEW k \in 1 .. Cardinality(LabelledIn(st)), NEW e,
         Rests(st, n, Ascending(LabelledIn(st))[k], e), NEW j \in 1 .. n, st.times[e] < st.times[j],
         NEW other, OnlyAt(other, st, j)
  PROVE  Generated(other)[k] = Generated(st)[k]
<1>1. PICK S, R, i : S = LabelledIn(st) /\ R = LabelledIn(other) /\ i = Ascending(S)[k]
  OBVIOUS
<1>2. n \in Nat /\ DOMAIN st.prices = 1 .. n
  BY DEF InSeries
<1>3. Sampled(st, n, Cardinality(S))
  BY <1>1, SampledIs
<1>4. S \in SUBSET (1 .. n) /\ i \in S /\ Generated(st)[k] = Sample(st, i)
  BY <1>1, <1>3 DEF Sampled
<1>5. Variant(other, st) /\ InSeries(other, n)
  <2>1. Variant(other, st)
    BY DEF OnlyAt
  <2> QED
    BY <2>1 DEF InSeries, Variant
<1>6. i \in 1 .. n /\ e \in 1 .. n /\ i <= e /\ e < j
  BY <1>1, <1>4, Earlier DEF Rests
<1>7. \A x : LabelFor(other, x) = Unlabelled <=> LabelFor(st, x) = Unlabelled
  BY <1>5, SkippedSame
<1>8. ASSUME NEW x \in 1 .. i PROVE x \in S <=> x \in R
  <2>1. Starts(other) = Starts(st)
    BY <1>5 DEF Variant, Starts
  <2> QED
    BY <1>1, <1>7, <2>1 DEF LabelledIn
<1>9. R \in SUBSET (1 .. n)
  BY <1>1, <1>5 DEF InSeries, LabelledIn, Starts
<1>10. k \in 1 .. Cardinality(R) /\ Ascending(R)[k] = i
  BY <1>1, <1>2, <1>4, <1>8, <1>9, AscendingAgree
<1>11. Sampled(other, n, Cardinality(R))
  BY <1>1, <1>5, SampledIs
<1>12. Generated(other)[k] = Sample(other, i)
  BY <1>1, <1>10, <1>11 DEF Sampled
<1>13. other.times = st.times
  BY <1>5 DEF Variant
<1>14. st.times[i] < st.times[j]
  BY <1>6 DEF InSeries
<1>15. Features(other, i) = Features(st, i)
  BY <1>6, <1>14, FeaturesSame
<1>16. LabelFor(other, i) = LabelFor(st, i)
  <2>1. \A y \in 1 .. n : y <= e => y # j
    BY <1>2, <1>6
  <2>2. SamePrices(other, st, LooksFrom(st, i), e)
    BY <1>2, <2>1 DEF SamePrices, OnlyAt
  <2> QED
    BY <1>1, <1>5, <2>2 DEF Rests
<1> QED
  BY <1>4, <1>12, <1>13, <1>15, <1>16 DEF Sample

-----------------------------------------------------------------------------
(* Folds.                                                                  *)

\* What a split makes of the samples: the rule of its kind kept.
FoldKept(f, taken, design) ==
    /\ f.test \in SUBSET (DOMAIN taken) /\ f.test # {} /\ f.train \in SUBSET (DOMAIN taken) /\ f.train \cap f.test = {}
    /\ design.method = "walk_forward" =>
          \A k \in f.train : taken[k].window.label_end <= TestStart(taken, f.test) - design.embargo
    /\ design.method # "walk_forward" =>
          \A k \in f.train : \/ taken[k].window.label_end < TestStart(taken, f.test)
                             \/ taken[k].window.label_start >= TestEnd(taken, f.test) + design.embargo

LEMMA WalkKept ==
  ASSUME NEW taken, NEW c \in Nat, Len(taken) = c, DOMAIN taken = 1 .. c, NEW design, design.method = "walk_forward",
         design.train_size \in Nat, design.test_size \in Nat \ {0}, NEW f \in Walked(taken, design)
  PROVE  FoldKept(f, taken, design)
<1>1. PICK ts : ts = design.test_size
  OBVIOUS
<1>2. PICK start, test, train :
         /\ start \in design.train_size .. c /\ start + ts <= c /\ test = start + 1 .. start + ts
         /\ train = (IF design.expanding \/ start < design.train_size THEN 1
                     ELSE start - design.train_size + 1) .. start
         /\ f = [test |-> test, train |-> purge_before_test(taken, train, test, design.embargo)]
  BY <1>1, Zenon DEF Walked
<1>3. start \in Nat /\ ts \in Nat \ {0}
  BY <1>1, <1>2
<1>4. test \in SUBSET (1 .. c) /\ start + 1 \in test
  BY <1>2, <1>3
<1>5. train \in SUBSET (1 .. start)
  <2>1. start - design.train_size + 1 >= 1
    BY <1>2
  <2> QED
    BY <1>2, <1>3, <2>1
<1>6. train \in SUBSET (1 .. c) /\ train \cap test = {}
  <2>1. \A x \in test : x > start
    BY <1>2, <1>3
  <2>2. \A x \in train : x \in 1 .. c /\ ~(x > start)
    BY <1>2, <1>3, <1>5
  <2> QED
    BY <2>1, <2>2
<1>7. /\ f.test = test /\ f.train \in SUBSET train
      /\ \A k \in f.train : taken[k].window.label_end <= TestStart(taken, test) - design.embargo
  BY <1>2 DEF purge_before_test
<1> QED
  BY <1>4, <1>6, <1>7 DEF FoldKept

\* A fold of as many samples as there are folds has one, and is among them.
LEMMA FoldIs ==
  ASSUME NEW c \in Nat, NEW m \in Nat \ {0}, m <= c, NEW i \in 1 .. m
  PROVE  Fold(c, m, i) \in SUBSET (1 .. c) /\ Fold(c, m, i) # {}
<1>1. PICK q : q = c \div m
  OBVIOUS
<1>2. q \in Nat /\ q * m <= c /\ q >= 1
  BY <1>1
<1>3. PICK a : a = (i - 1) * q
  OBVIOUS
<1>4. a \in Nat /\ i * q = a + q
  BY <1>2, <1>3
<1>5. a + q <= c
  <2>1. (i - 1) * q + q = i * q
    BY <1>2
  <2>2. i * q <= m * q
    BY <1>2
  <2> QED
    BY <1>2, <1>3, <2>1, <2>2
<1>6. Fold(c, m, i) = a + 1 .. (IF i < m THEN a + q ELSE c)
  BY <1>1, <1>3, <1>4 DEF Fold
<1>7. a + 1 \in Fold(c, m, i)
  BY <1>2, <1>4, <1>5, <1>6
<1>8. \A x \in Fold(c, m, i) : x \in 1 .. c
  BY <1>2, <1>4, <1>5, <1>6
<1> QED
  BY <1>7, <1>8

LEMMA GroupKept ==
  ASSUME NEW taken, NEW c \in Nat, Len(taken) = c, DOMAIN taken = 1 .. c, NEW design, design.method # "walk_forward",
         design.n_splits \in Nat \ {0}, design.n_splits <= c, NEW sizes \in Nat \ {0},
         NEW f \in Grouped(taken, design, sizes)
  PROVE  FoldKept(f, taken, design)
<1>1. PICK m : m = design.n_splits
  OBVIOUS
<1>2. PICK g, test :
         /\ g \in SUBSET (1 .. m) /\ Cardinality(g) = sizes /\ test = UNION {Fold(c, m, i) : i \in g}
         /\ f = [test |-> test, train |-> purge_and_embargo(taken, DOMAIN taken \ test, test, design.embargo)]
  BY <1>1, Zenon DEF Grouped
<1>3. g # {}
  BY <1>2, FS_EmptySet
<1>4. PICK i \in g : TRUE
  BY <1>3
<1>5. \A x \in g : Fold(c, m, x) \in SUBSET (1 .. c) /\ Fold(c, m, x) # {}
  BY <1>1, <1>2, FoldIs
<1>6. test \in SUBSET (1 .. c) /\ test # {}
  <2>1. \A x \in test : x \in 1 .. c
    BY <1>2, <1>5
  <2>2. PICK x : x \in Fold(c, m, i)
    BY <1>5
  <2>3. x \in test
    BY <1>2, <2>2
  <2> QED
    BY <2>1, <2>3
<1>7. /\ f.test = test /\ f.train \in SUBSET (DOMAIN taken \ test)
      /\ \A k \in f.train : \/ taken[k].window.label_end < TestStart(taken, test)
                            \/ taken[k].window.label_start >= TestEnd(taken, test) + design.embargo
  BY <1>2 DEF purge_and_embargo
<1> QED
  BY <1>6, <1>7 DEF FoldKept

\* What a design asks for.
LEMMA DesignIs ==
  ASSUME NEW design \in Designs
  PROVE  /\ design.embargo \in 0 .. 1
         /\ \/ /\ design.method = "purged_kfold" /\ design.n_splits \in Nat \ {0}
            \/ /\ design.method = "combinatorial" /\ design.n_splits \in Nat \ {0}
               /\ design.n_test_groups \in Nat \ {0}
            \/ /\ design.method = "walk_forward" /\ design.train_size \in Nat /\ design.test_size \in Nat \ {0}
<1>1. MaxSplits \in Nat
  BY ValidationAssumption
<1>2. CASE design \in [method : {"purged_kfold"}, n_splits : 2 .. MaxSplits, embargo : 0 .. 1]
  BY <1>1, <1>2
<1>3. CASE design \in [method : {"walk_forward"}, train_size : 1 .. 2, test_size : 1 .. 2, step_size : 1 .. 2,
                       expanding : BOOLEAN, embargo : 0 .. 1]
  BY <1>3
<1>4. CASE design \in [method : {"combinatorial"}, n_splits : {MaxSplits}, n_test_groups : 1 .. MaxSplits - 1,
                       embargo : 0 .. 1]
  <2>1. design.n_test_groups \in 1 .. MaxSplits - 1 /\ design.n_splits = MaxSplits
    BY <1>4
  <2>2. design.n_splits \in Nat \ {0} /\ design.n_test_groups \in Nat \ {0}
    BY <1>1, <2>1
  <2> QED
    BY <1>4, <2>2
<1> QED
  BY <1>2, <1>3, <1>4 DEF Designs

LEMMA SplitKept ==
  ASSUME NEW taken, NEW c \in Nat, Len(taken) = c, DOMAIN taken = 1 .. c, NEW design \in Designs,
         design.method # "walk_forward" => design.n_splits <= c, NEW f \in Splits(taken, design)
  PROVE  FoldKept(f, taken, design)
<1>1. CASE design.method = "walk_forward"
  <2>1. f \in Walked(taken, design)
    BY <1>1 DEF Splits
  <2> QED
    BY <1>1, <2>1, DesignIs, WalkKept
<1>2. CASE design.method = "purged_kfold"
  <2>1. f \in Grouped(taken, design, 1)
    BY <1>2 DEF Splits
  <2>2. design.n_splits \in Nat \ {0} /\ design.n_splits <= c
    BY <1>2, DesignIs
  <2> QED
    BY <1>2, <2>1, <2>2, GroupKept
<1>3. CASE design.method = "combinatorial"
  <2>1. f \in Grouped(taken, design, design.n_test_groups)
    BY <1>3 DEF Splits
  <2>2. design.n_splits \in Nat \ {0} /\ design.n_splits <= c /\ design.n_test_groups \in Nat \ {0}
    BY <1>3, DesignIs
  <2> QED
    BY <1>3, <2>1, <2>2, GroupKept
<1> QED
  BY <1>1, <1>2, <1>3, DesignIs

-----------------------------------------------------------------------------
(* Nothing of the test period is learnt.                                   *)

LEMMA SampleRests ==
  ASSUME NEW st, NEW n, InSeries(st, n), st.definition \in LabelDefinition, NEW k \in 1 .. Cardinality(LabelledIn(st))
  PROVE  LET i == Ascending(LabelledIn(st))[k]
         IN  i \in 1 .. n /\ Generated(st)[k] = Sample(st, i) /\ \E e : Rests(st, n, i, e)
<1>1. Sampled(st, n, Cardinality(LabelledIn(st)))
  BY SampledIs
<1>2. PICK i : i = Ascending(LabelledIn(st))[k]
  OBVIOUS
<1>3. i \in LabelledIn(st) /\ i \in 1 .. n /\ Generated(st)[k] = Sample(st, i)
  BY <1>1, <1>2 DEF Sampled
<1>4. LabelFor(st, i) # Unlabelled
  BY <1>3 DEF LabelledIn
<1>5. \E e : Rests(st, n, i, e)
  BY <1>3, <1>4, LabelsRest
<1> QED
  BY <1>2, <1>3, <1>5

\* A label has its interval within the series.
LEMMA SampleTimes ==
  ASSUME NEW st, NEW n, InSeries(st, n), st.definition \in LabelDefinition, NEW k \in 1 .. Cardinality(LabelledIn(st))
  PROVE  LET w == Generated(st)[k].window
         IN  w.label_start \in Nat /\ w.label_end \in 1 .. st.times[n] /\ w.label_start <= w.label_end /\ st.times[n] \in Nat
<1>1. PICK i : /\ i \in 1 .. n /\ Generated(st)[k] = Sample(st, i) /\ \E e : Rests(st, n, i, e)
  BY SampleRests
<1>2. PICK e : Rests(st, n, i, e)
  BY <1>1
<1>3. PICK w : w = Generated(st)[k].window
  OBVIOUS
<1>4. w = LabelFor(st, i)
  BY <1>1, <1>3 DEF Sample
<1>5. e \in 1 .. n /\ i <= e /\ w.label_start = st.times[i] /\ w.label_end = st.times[e]
  BY <1>2, <1>4 DEF Rests
<1>6. n \in Nat /\ n \in 1 .. n /\ e <= n
  BY <1>5 DEF InSeries
<1>7. st.times[i] \in Nat /\ st.times[e] \in Nat \ {0} /\ st.times[n] \in Nat
  BY <1>1, <1>5, <1>6 DEF InSeries
<1>8. st.times[i] <= st.times[e] /\ st.times[e] <= st.times[n]
  BY <1>1, <1>5, <1>6 DEF InSeries
<1> QED
  BY <1>3, <1>5, <1>7, <1>8

LEMMA TestPeriod ==
  ASSUME NEW st, NEW n, InSeries(st, n), st.definition \in LabelDefinition,
         NEW test \in SUBSET (1 .. Cardinality(LabelledIn(st))), test # {}
  PROVE  LET from == TestStart(Generated(st), test)
             to == TestEnd(Generated(st), test)
         IN  from \in Nat /\ to \in Nat /\ from <= to
<1>1. PICK taken, last : taken = Generated(st) /\ last = st.times[n]
  OBVIOUS
<1>2. \A k \in test : /\ taken[k].window.label_start \in Nat /\ taken[k].window.label_end \in 1 .. last
                      /\ taken[k].window.label_start <= taken[k].window.label_end /\ last \in Nat
  BY <1>1, SampleTimes
<1>3. PICK k \in test : TRUE
  OBVIOUS
<1>4. PICK A, B : /\ A = {taken[x].window.label_start : x \in test} /\ B = {taken[x].window.label_end : x \in test}
  OBVIOUS
<1>5. A \in SUBSET Nat /\ taken[k].window.label_start \in A
  BY <1>2, <1>3, <1>4
<1>6. B \in SUBSET (1 .. last) /\ taken[k].window.label_end \in B /\ last \in Nat
  BY <1>2, <1>3, <1>4
<1>7. Min(A) \in A /\ \A x \in A : Min(A) <= x
  <2>1. PICK m \in A : \A x \in A : m <= x
    BY <1>5, LeastNumber
  <2> QED
    BY <2>1 DEF Min
<1>8. Max(B) \in B /\ \A x \in B : x <= Max(B)
  BY <1>6, GreatestIs DEF Greatest
<1>9. TestStart(taken, test) = Min(A) /\ TestEnd(taken, test) = Max(B)
  BY <1>4 DEF TestStart, TestEnd
<1>10. PICK a, b : a = Min(A) /\ b = Max(B)
  OBVIOUS
<1>11. a \in Nat /\ b \in 1 .. last /\ a <= taken[k].window.label_start /\ taken[k].window.label_end <= b
  BY <1>5, <1>6, <1>7, <1>8, <1>10
<1>12. a <= b
  BY <1>2, <1>3, <1>11
<1> QED
  BY <1>1, <1>9, <1>10, <1>11, <1>12

\* A perturbed study is another price at one record of the period.
LEMMA PerturbedIs ==
  ASSUME study \in Studies, NEW n, InSeries(study, n), NEW from, NEW to, NEW other \in Perturbed(from, to)
  PROVE  \E j \in 1 .. n : from <= study.times[j] /\ study.times[j] <= to /\ OnlyAt(other, study, j)
<1>1. PICK j \in {i \in DOMAIN study.times : from <= study.times[i] /\ study.times[i] <= to}, price \in PriceLevels :
         other = [study EXCEPT !.prices[j] = price]
  BY SMT DEF Perturbed
<1>2. PICK times, prices, definition, every, design :
         study = [times |-> times, prices |-> prices, definition |-> definition, sample_every |-> every, design |-> design]
  BY StudyIs
<1>3. j \in 1 .. n /\ from <= study.times[j] /\ study.times[j] <= to
  BY <1>1 DEF InSeries
<1>4. /\ other.times = times /\ other.prices = [prices EXCEPT ![j] = price]
      /\ other.definition = definition /\ other.sample_every = every
  BY <1>1, <1>2
<1>5. n \in Nat /\ prices \in Seq(PriceLevels) /\ Len(prices) = n /\ DOMAIN prices = 1 .. n
  BY <1>2 DEF InSeries
<1>6. /\ other.prices \in Seq(PriceLevels) /\ Len(other.prices) = n /\ DOMAIN other.prices = 1 .. n
      /\ \A x \in 1 .. n : x # j => other.prices[x] = prices[x]
  <2>1. PICK r : r = [prices EXCEPT ![j] = price]
    OBVIOUS
  <2>2. price \in PriceLevels /\ prices \in [1 .. n -> PriceLevels]
    BY <1>1, <1>5
  <2>3. r \in [1 .. n -> PriceLevels] /\ \A x \in 1 .. n : x # j => r[x] = prices[x]
    BY <2>1, <2>2
  <2>4. r \in Seq(PriceLevels) /\ Len(r) = n /\ DOMAIN r = 1 .. n
    BY <1>5, <2>3
  <2> QED
    BY <1>4, <2>1, <2>3, <2>4
<1>7. OnlyAt(other, study, j)
  BY <1>2, <1>3, <1>4, <1>5, <1>6 DEF OnlyAt, Variant
<1> QED
  BY <1>3, <1>7

\* The moment a label looks back to is the one of the first record it looks at.
LEMMA LooksBackIs ==
  ASSUME study \in Studies, NEW n, InSeries(study, n), NEW i \in 1 .. n, NEW s, s.sample_index = i,
         s.window.label_start = study.times[i]
  PROVE  LooksBackTo(s) = study.times[LooksFrom(study, i)]
<1>1. CASE study.definition.kind = "fixed_horizon"
  BY <1>1 DEF LooksBackTo, LooksFrom
<1>2. CASE study.definition.kind # "fixed_horizon"
  <2>1. study.definition.volatility_lookback = 2 /\ n \in Nat
    BY <1>2, StudyIs, DefinitionIs DEF InSeries
  <2>2. Max({1, i - 2}) = IF i > 2 THEN i - 2 ELSE 1
    <3>1. PICK m : m = IF i > 2 THEN i - 2 ELSE 1
      OBVIOUS
    <3>2. m \in {1, i - 2} /\ m \in Int /\ \A x \in {1, i - 2} : m >= x /\ x \in Int
      BY <2>1, <3>1
    <3>3. \E x \in {1, i - 2} : \A y \in {1, i - 2} : x >= y
      BY <3>2
    <3>4. Max({1, i - 2}) \in {1, i - 2} /\ \A y \in {1, i - 2} : Max({1, i - 2}) >= y
      BY <3>3, Zenon DEF Max
    <3>5. PICK x : x = Max({1, i - 2})
      OBVIOUS
    <3>6. x \in Int /\ x >= m /\ m >= x
      BY <3>2, <3>4, <3>5
    <3>7. x = m
      BY <3>2, <3>6
    <3> QED
      BY <3>1, <3>5, <3>7
  <2> QED
    BY <1>2, <2>1, <2>2 DEF LooksBackTo, LooksFrom
<1> QED
  BY <1>1, <1>2

ValidationInv ==
    /\ study \in Studies
    /\ stage \in {"labelled", "split"} => samples = Generated(study)
    /\ stage = "split" => folds = Splits(samples, study.design)
    /\ stage = "split" /\ study.design.method # "walk_forward" => Len(samples) >= study.design.n_splits

LEMMA ValidationInvHolds == ValidationInit /\ [][ValidationStep]_validationVars => []ValidationInv
<1>1. ValidationInit => ValidationInv
  BY DEF ValidationInit, ValidationInv, Studies
<1>2. ValidationInv /\ [ValidationStep]_validationVars => ValidationInv'
  <2> SUFFICES ASSUME ValidationInv, [ValidationStep]_validationVars PROVE ValidationInv'
    OBVIOUS
  <2>1. CASE Generate
    <3>1. study' = study /\ stage = "frozen"
      BY <2>1 DEF Generate
    <3>2. stage' = "refused" \/ (stage' = "labelled" /\ samples' = Generated(study))
      BY <2>1, Zenon DEF Generate
    <3>3. stage' = "labelled" => samples' = Generated(study')
      BY <3>1, <3>2
    <3> QED
      BY <3>1, <3>2, <3>3 DEF ValidationInv
  <2>2. CASE Split
    <3>1. study' = study /\ samples' = samples /\ stage = "labelled" /\ samples = Generated(study)
      BY <2>2 DEF Split, ValidationInv
    <3>2. CASE study.design.method # "walk_forward" /\ Len(samples) < study.design.n_splits
      <4>1. stage' = "refused"
        BY <2>2, <3>2 DEF Split
      <4> QED
        BY <3>1, <4>1 DEF ValidationInv
    <3>3. CASE ~(study.design.method # "walk_forward" /\ Len(samples) < study.design.n_splits)
      <4>1. stage' = "split" /\ folds' = Splits(samples, study.design)
        BY <2>2, <3>3, Zenon DEF Split
      <4>2. folds' = Splits(samples', study'.design)
        BY <3>1, <4>1
      <4>3. study.design.method # "walk_forward" => Len(samples) >= study.design.n_splits
        <5>1. PICK n : InSeries(study, n)
          BY StudyIs DEF ValidationInv
        <5>2. Len(samples) \in Nat
          BY <3>1, <5>1, SampledIs DEF Sampled
        <5>3. study.design \in Designs
          BY StudyIs DEF ValidationInv
        <5>4. study.design.method # "walk_forward" => study.design.n_splits \in Nat
          BY <5>3, DesignIs
        <5> QED
          BY <3>3, <5>2, <5>4
      <4>4. samples' = Generated(study')
        BY <3>1
      <4>5. study' \in Studies
        BY <3>1 DEF ValidationInv
      <4>6. study'.design.method # "walk_forward" => Len(samples') >= study'.design.n_splits
        BY <3>1, <4>3
      <4> QED
        BY <4>2, <4>4, <4>5, <4>6, Zenon DEF ValidationInv
    <3> QED
      BY <3>2, <3>3
  <2>3. CASE UNCHANGED validationVars
    <3>1. study' = study /\ samples' = samples /\ folds' = folds /\ stage' = stage
      BY <2>3 DEF validationVars
    <3> QED
      BY <3>1 DEF ValidationInv
  <2> QED
    BY <2>1, <2>2, <2>3 DEF ValidationStep
<1> QED
  BY <1>1, <1>2, PTL

\* LeakFree of one fold, whose test period is [from, to].
FoldLeakFree(f, from, to) ==
    /\ f.train \cap f.test = {}
    /\ study.design.method = "walk_forward" =>
          \A other \in {o \in Perturbed(from + 1, Max(Range(study.times))) : Sound(o)} :
              \A k \in f.train : Generated(other)[k] = samples[k]
    /\ study.design.method # "walk_forward" =>
          \A other \in {o \in Perturbed(from, to - 1) : Sound(o)} :
              \A k \in f.train :
                  samples[k].window.label_start < from \/ LooksBackTo(samples[k]) >= to =>
                      LabelFor(other, samples[k].sample_index) = samples[k].window

LEMMA FoldsLeakFree ==
  (stage = "split" => \A f \in folds : FoldLeakFree(f, TestStart(samples, f.test), TestEnd(samples, f.test))) => LeakFree
  BY Zenon DEF LeakFree, FoldLeakFree

LEMMA SplitsAreSound == ValidationInv => LeakFree
<1> SUFFICES ASSUME ValidationInv, stage = "split", NEW f \in folds,
                    NEW from, from = TestStart(samples, f.test), NEW to, to = TestEnd(samples, f.test)
             PROVE  FoldLeakFree(f, from, to)
  BY FoldsLeakFree
<1>1. /\ study \in Studies /\ samples = Generated(study) /\ folds = Splits(samples, study.design)
      /\ study.design.method # "walk_forward" => Len(samples) >= study.design.n_splits
  BY DEF ValidationInv
<1>2. PICK n : InSeries(study, n)
  BY <1>1, StudyIs
<1>3. study.definition \in LabelDefinition /\ study.design \in Designs
  BY <1>1, StudyIs
<1>4. PICK S, c : S = LabelledIn(study) /\ c = Cardinality(S)
  OBVIOUS
<1>5. c \in Nat /\ DOMAIN samples = 1 .. c /\ Len(samples) = c
  BY <1>1, <1>2, <1>4, SampledIs DEF Sampled
<1>6. FoldKept(f, samples, study.design)
  <2>1. study.design.method # "walk_forward" => study.design.n_splits <= c
    <3>1. study.design.method # "walk_forward" => study.design.n_splits \in Nat
      BY <1>3, DesignIs
    <3> QED
      BY <1>1, <1>5, <3>1
  <2> QED
    BY <1>1, <1>3, <1>5, <2>1, SplitKept
<1>7. from \in Nat /\ to \in Nat /\ from <= to
  <2>1. f.test \in SUBSET (1 .. c) /\ f.test # {}
    BY <1>5, <1>6 DEF FoldKept
  <2> QED
    BY <1>1, <1>2, <1>3, <1>4, <2>1, TestPeriod
<1>8. f.train \in SUBSET (1 .. c) /\ f.train \cap f.test = {}
  BY <1>5, <1>6 DEF FoldKept
<1>9. study.design.embargo \in 0 .. 1
  BY <1>3, DesignIs
<1>10. n \in Nat /\ \A x \in 1 .. n : study.times[x] \in Nat
  BY <1>2 DEF InSeries
<1>11. ASSUME study.design.method = "walk_forward", NEW other \in Perturbed(from + 1, Max(Range(study.times))),
              NEW k \in f.train
       PROVE  Generated(other)[k] = samples[k]
  <2>1. PICK j \in 1 .. n : from + 1 <= study.times[j] /\ OnlyAt(other, study, j)
    BY <1>1, <1>2, <1>11, PerturbedIs
  <2>2. PICK i \in 1 .. n : i = Ascending(S)[k] /\ samples[k] = Sample(study, i) /\ \E e : Rests(study, n, i, e)
    BY <1>1, <1>2, <1>3, <1>4, <1>8, <1>11, SampleRests
  <2>3. PICK e : Rests(study, n, i, e)
    BY <2>2
  <2>4. samples[k].window.label_end = study.times[e] /\ e \in 1 .. n
    BY <2>2, <2>3 DEF Rests, Sample
  <2>5. study.times[e] <= from - study.design.embargo
    BY <1>6, <1>11, <2>4 DEF FoldKept
  <2>6. study.times[e] < study.times[j]
    BY <1>7, <1>9, <1>10, <2>1, <2>4, <2>5
  <2>7. k \in 1 .. Cardinality(LabelledIn(study)) /\ Rests(study, n, Ascending(LabelledIn(study))[k], e)
    BY <1>4, <1>8, <1>11, <2>2, <2>3
  <2> QED
    BY <1>1, <1>2, <1>3, <2>1, <2>6, <2>7, GeneratedSame
<1>12. ASSUME study.design.method # "walk_forward", NEW other \in Perturbed(from, to - 1), NEW k \in f.train,
              samples[k].window.label_start < from \/ LooksBackTo(samples[k]) >= to
       PROVE  LabelFor(other, samples[k].sample_index) = samples[k].window
  <2>1. PICK j \in 1 .. n : from <= study.times[j] /\ study.times[j] <= to - 1 /\ OnlyAt(other, study, j)
    BY <1>1, <1>2, <1>12, PerturbedIs
  <2>2. PICK i \in 1 .. n : samples[k] = Sample(study, i) /\ \E e : Rests(study, n, i, e)
    BY <1>1, <1>2, <1>3, <1>4, <1>8, <1>12, SampleRests
  <2>3. PICK e : Rests(study, n, i, e)
    BY <2>2
  <2>4. /\ samples[k].sample_index = i /\ samples[k].window = LabelFor(study, i)
        /\ samples[k].window.label_start = study.times[i] /\ samples[k].window.label_end = study.times[e]
        /\ e \in 1 .. n /\ i <= e
    BY <2>2, <2>3 DEF Rests, Sample
  <2>5. study.times[e] < from \/ study.times[i] >= to + study.design.embargo
    BY <1>6, <1>12, <2>4 DEF FoldKept
  <2>6. PICK m : m = LooksFrom(study, i)
    OBVIOUS
  <2>7. m \in 1 .. i /\ m \in 1 .. n
    <3>1. m \in 1 .. i
      BY <1>3, <2>6, LooksFromIs
    <3> QED
      BY <1>10, <3>1
  <2>8. LooksBackTo(samples[k]) = study.times[m]
    BY <1>1, <1>2, <2>4, <2>6, LooksBackIs
  <2>9. \A x \in 1 .. n : m <= x /\ x <= e => x # j
    <3>1. CASE study.times[e] < from
      <4>1. study.times[e] < study.times[j]
        BY <1>7, <1>10, <2>1, <2>4, <3>1
      <4>2. e < j
        BY <1>2, <2>4, <4>1, Earlier
      <4> QED
        BY <1>10, <2>4, <4>2
    <3>2. CASE ~(study.times[e] < from)
      <4>1. study.times[i] >= to + study.design.embargo
        BY <2>5, <3>2
      <4>2. ~(study.times[i] < from)
        BY <1>7, <1>9, <1>10, <4>1
      <4>3. study.times[m] >= to
        BY <1>12, <2>4, <2>8, <4>2
      <4>4. study.times[j] < study.times[m]
        BY <1>7, <1>10, <2>1, <2>7, <4>3
      <4>5. j < m
        BY <1>2, <2>7, <4>4, Earlier
      <4> QED
        BY <1>10, <2>7, <4>5
    <3> QED
      BY <3>1, <3>2
  <2>10. SamePrices(other, study, LooksFrom(study, i), e)
    BY <1>2, <2>1, <2>6, <2>9 DEF SamePrices, OnlyAt, InSeries
  <2>11. Variant(other, study)
    BY <2>1 DEF OnlyAt
  <2> QED
    BY <2>3, <2>4, <2>10, <2>11 DEF Rests
<1> QED
  BY <1>8, <1>11, <1>12, Zenon DEF FoldLeakFree

\* A walk-forward training set is the same whatever happens after the moment its
\* test period begins; a K-fold or combinatorial one keeps its labels whatever
\* happens in the test period, its last moment excepted, save for a volatility
\* that looks back into it (purged_cv.py:52-96, label_engine.py:56-60).
THEOREM TrainedOnThePast == ValidationInit /\ [][ValidationStep]_validationVars => []LeakFree
  BY ValidationInvHolds, SplitsAreSound, PTL

-----------------------------------------------------------------------------
(***************************************************************************)
(* ExperimentRegistry: what the research reports is what the registry and  *)
(* the runs say.                                                           *)
(*                                                                         *)
(* The code walks up parent by parent and down generation by generation;   *)
(* a walk is the unwinding of a loop that ends because it uses up a finite *)
(* table. Each is compared with the same third thing, the least number of  *)
(* steps that lead from an experiment up to another (First): a walk up has *)
(* an ancestor at that place, a walk down has a descendant in that layer,  *)
(* whatever is dangling and whatever comes round in a circle. That needs   *)
(* no more of the table than that it is a sequence of records. An insight  *)
(* is earned when it is surfaced, and is never changed.                    *)
(***************************************************************************)

-----------------------------------------------------------------------------
(* The table.                                                              *)

Row == [id : Experiments, claim : {plan.claim : plan \in Plans}, parent : {plan.parent : plan \in Plans},
        status : {"running", "done", "failed"}]

LEMMA KnownIs ==
  ASSUME experiments \in Seq(Row)
  PROVE  Known \in SUBSET Experiments /\ IsFiniteSet(Known) /\ Cardinality(Known) \in Nat
<1>1. PICK n \in Nat : DOMAIN experiments = 1 .. n
  OBVIOUS
<1>2. \A i \in 1 .. n : experiments[i].id \in Experiments
  <2>1. \A i \in 1 .. n : experiments[i] \in Row
    BY <1>1
  <2>2. \A row \in Row : row.id \in Experiments
    BY DEF Row
  <2> QED
    BY <2>1, <2>2
<1>3. PICK f : f = [i \in 1 .. n |-> experiments[i].id]
  OBVIOUS
<1>4. f \in Surjection(1 .. n, Known)
  BY <1>1, <1>3 DEF Surjection, Known
<1>5. IsFiniteSet(1 .. n)
  BY FS_Interval
<1>6. IsFiniteSet(Known)
  BY <1>4, <1>5, FS_Surjection
<1>7. Known \in SUBSET Experiments
  BY <1>1, <1>2 DEF Known
<1> QED
  BY <1>6, <1>7, FS_CardinalityType

Par(x) == Get(x).parent

-----------------------------------------------------------------------------
(* Sequences that grow at their end.                                       *)

LEMMA LastIs == ASSUME NEW S, NEW s \in Seq(S), s # << >> PROVE Last(s) = s[Len(s)] /\ Len(s) \in Nat \ {0}
  BY DEF Last

LEMMA TailIs ==
  ASSUME NEW S, NEW s \in Seq(S), s # << >>
  PROVE  /\ Tail(s) \in Seq(S) /\ Len(s) \in Nat \ {0} /\ Len(Tail(s)) = Len(s) - 1
         /\ \A i \in 1 .. Len(s) - 1 : Tail(s)[i] = s[i + 1]
         /\ Range(Tail(s)) = {s[i] : i \in 2 .. Len(s)}
<1>1. PICK n, t : n = Len(s) /\ t = Tail(s)
  OBVIOUS
<1>2. n \in Nat \ {0}
  BY <1>1
<1>3. t \in Seq(S) /\ Len(t) = n - 1 /\ \A i \in 1 .. n - 1 : t[i] = s[i + 1]
  BY <1>1, HeadTailProperties
<1>4. DOMAIN t = 1 .. n - 1
  BY <1>3
<1>5. Range(t) = {s[i] : i \in 2 .. n}
  <2>1. \A i \in 1 .. n - 1 : i + 1 \in 2 .. n
    BY <1>2
  <2>2. \A i \in 2 .. n : i - 1 \in 1 .. n - 1 /\ t[i - 1] = s[i]
    BY <1>2, <1>3
  <2> QED
    BY <1>3, <1>4, <2>1, <2>2 DEF Range
<1> QED
  BY <1>1, <1>2, <1>3, <1>5

LEMMA AppendIs ==
  ASSUME NEW S, NEW s \in Seq(S), NEW x \in S
  PROVE  /\ Append(s, x) \in Seq(S) /\ Append(s, x) # << >> /\ Len(Append(s, x)) = Len(s) + 1
         /\ \A i \in 1 .. Len(s) : Append(s, x)[i] = s[i]
         /\ Append(s, x)[Len(s) + 1] = x
         /\ Range(Tail(Append(s, x))) = IF s = << >> THEN {} ELSE Range(Tail(s)) \cup {x}
<1>1. PICK n, t : n = Len(s) /\ t = Append(s, x)
  OBVIOUS
<1>2. n \in Nat /\ t \in Seq(S) /\ Len(t) = n + 1 /\ (\A i \in 1 .. n : t[i] = s[i]) /\ t[n + 1] = x
  BY <1>1
<1>3. t # << >>
  BY <1>2
<1>4. CASE s = << >>
  <2>1. Tail(t) = << >>
    BY <1>1, <1>4, HeadTailAppend
  <2>2. Range(Tail(t)) = {}
    BY <2>1 DEF Range
  <2> QED
    BY <1>1, <1>2, <1>3, <1>4, <2>2
<1>5. CASE s # << >>
  <2>1. Range(Tail(t)) = {t[i] : i \in 2 .. n + 1} /\ Range(Tail(s)) = {s[i] : i \in 2 .. n}
    <3>1. Range(Tail(s)) = {s[i] : i \in 2 .. Len(s)}
      BY <1>5, TailIs
    <3>2. Range(Tail(t)) = {t[i] : i \in 2 .. Len(t)}
      BY <1>2, <1>3, TailIs
    <3> QED
      BY <1>1, <1>2, <3>1, <3>2
  <2>2. n \in Nat \ {0}
    BY <1>1, <1>5
  <2>3. \A i \in 2 .. n + 1 : i \in 2 .. n \/ i = n + 1
    BY <2>2
  <2>4. n + 1 \in 2 .. n + 1 /\ \A i \in 2 .. n : i \in 2 .. n + 1 /\ i \in 1 .. n
    BY <2>2
  <2>5. \A y : y \in Range(Tail(t)) <=> y \in Range(Tail(s)) \cup {x}
    <3>1. ASSUME NEW y \in Range(Tail(t)) PROVE y \in Range(Tail(s)) \cup {x}
      BY <1>2, <2>1, <2>3, <2>4
    <3>2. ASSUME NEW y \in Range(Tail(s)) PROVE y \in Range(Tail(t))
      BY <1>2, <2>1, <2>4
    <3>3. x \in Range(Tail(t))
      BY <1>2, <2>1, <2>4
    <3> QED
      BY <3>1, <3>2, <3>3
  <2>6. Range(Tail(t)) = Range(Tail(s)) \cup {x}
    BY <2>5
  <2> QED
    BY <1>1, <1>2, <1>3, <1>5, <2>6
<1> QED
  BY <1>4, <1>5

-----------------------------------------------------------------------------
(* The walk up.                                                            *)

UpStop ==
    {c \in Seq(Experiments) : Par(Last(c)) \notin Known \/ Par(Last(c)) \in Range(Tail(c))}
UpNext == [c \in Seq(Experiments) |-> Append(c, Par(Last(c)))]
UpEnd == [c \in Seq(Experiments) |-> Tail(c)]
UpLeft ==
    [c \in Seq(Experiments) |->
        IF c = << >> THEN Cardinality(Known) + 1 ELSE Cardinality(Known \ Range(Tail(c)))]

WalkedUp(f) ==
    f = [chain \in Seq(Experiments) |->
            IF Par(Last(chain)) \notin Known \/ Par(Last(chain)) \in Range(Tail(chain))
            THEN Tail(chain) ELSE f[Append(chain, Par(Last(chain)))]]

LEMMA WalkUnwinds == ASSUME NEW f PROVE Unwinds(f, Seq(Experiments), UpStop, UpNext, UpEnd) <=> WalkedUp(f)
<1>1. ASSUME NEW c \in Seq(Experiments)
      PROVE  (IF c \in UpStop THEN UpEnd[c] ELSE f[UpNext[c]]) =
                (IF Par(Last(c)) \notin Known \/ Par(Last(c)) \in Range(Tail(c))
                 THEN Tail(c) ELSE f[Append(c, Par(Last(c)))])
  BY DEF UpStop, UpNext, UpEnd
<1> QED
  BY <1>1 DEF Unwinds, WalkedUp

LEMMA WalkIs == ASSUME NEW e PROVE WalkAncestors(e) = (CHOOSE f : WalkedUp(f))[<<e>>]
  BY DEF WalkAncestors, WalkedUp, Par

LEMMA UpDescends ==
  ASSUME experiments \in Seq(Row)
  PROVE  Lessens(Seq(Experiments), UpStop, UpNext, UpLeft, Cardinality(Known) + 1)
<1>1. Known \in SUBSET Experiments /\ IsFiniteSet(Known) /\ Cardinality(Known) \in Nat
  BY KnownIs
<1>2. PICK n \in Nat : n = Cardinality(Known)
  BY <1>1
<1>3. ASSUME NEW T PROVE IsFiniteSet(Known \ T) /\ Cardinality(Known \ T) \in 0 .. n
  <2>1. Known \ T \in SUBSET Known
    OBVIOUS
  <2>2. IsFiniteSet(Known \ T) /\ Cardinality(Known \ T) <= n
    BY <1>1, <1>2, <2>1, FS_Subset
  <2> QED
    BY <1>2, <2>2, FS_CardinalityType
<1>4. \A c \in Seq(Experiments) : UpLeft[c] \in 0 .. n + 1
  <2> SUFFICES ASSUME NEW c \in Seq(Experiments) PROVE UpLeft[c] \in 0 .. n + 1
    OBVIOUS
  <2>1. CASE c = << >>
    <3>1. UpLeft[c] = n + 1
      BY <1>2, <2>1 DEF UpLeft
    <3> QED
      BY <3>1
  <2>2. CASE c # << >>
    <3>1. UpLeft[c] = Cardinality(Known \ Range(Tail(c)))
      BY <2>2 DEF UpLeft
    <3>2. UpLeft[c] \in 0 .. n
      BY <1>3, <3>1
    <3> QED
      BY <3>2
  <2> QED
    BY <2>1, <2>2
<1>5. ASSUME NEW c \in Seq(Experiments) \ UpStop
      PROVE  UpNext[c] \in Seq(Experiments) /\ UpLeft[UpNext[c]] < UpLeft[c]
  <2>1. PICK p : p = Par(Last(c))
    OBVIOUS
  <2>2. p \in Known /\ p \in Experiments /\ p \notin Range(Tail(c)) /\ UpNext[c] = Append(c, p)
    BY <1>1, <2>1 DEF UpStop, UpNext
  <2>3. /\ UpNext[c] \in Seq(Experiments) /\ UpNext[c] # << >>
        /\ Range(Tail(UpNext[c])) = IF c = << >> THEN {} ELSE Range(Tail(c)) \cup {p}
    BY <2>2, AppendIs
  <2>4. UpLeft[UpNext[c]] = Cardinality(Known \ Range(Tail(UpNext[c])))
    BY <2>3 DEF UpLeft
  <2>5. CASE c = << >>
    <3>1. UpLeft[c] = n + 1
      BY <1>2, <2>5 DEF UpLeft
    <3>2. UpLeft[UpNext[c]] \in 0 .. n
      BY <1>3, <2>4
    <3> QED
      BY <2>3, <3>1, <3>2
  <2>6. CASE c # << >>
    <3>1. PICK T : T = Known \ Range(Tail(c))
      OBVIOUS
    <3>2. UpLeft[c] = Cardinality(T) /\ IsFiniteSet(T) /\ Cardinality(T) \in Nat /\ p \in T
      <4>1. UpLeft[c] = Cardinality(T)
        BY <2>6, <3>1 DEF UpLeft
      <4>2. IsFiniteSet(T) /\ Cardinality(T) \in Nat
        BY <1>1, <3>1, FS_Subset, FS_CardinalityType
      <4> QED
        BY <2>2, <3>1, <4>1, <4>2
    <3>3. Known \ Range(Tail(UpNext[c])) = T \ {p}
      BY <2>3, <2>6, <3>1
    <3>4. Cardinality(T \ {p}) = Cardinality(T) - 1
      BY <3>2, FS_RemoveElement
    <3>5. UpLeft[UpNext[c]] = UpLeft[c] - 1 /\ UpLeft[c] \in Nat
      BY <2>4, <3>2, <3>3, <3>4
    <3> QED
      BY <2>3, <3>5
  <2> QED
    BY <2>5, <2>6
<1> QED
  BY <1>2, <1>4, <1>5 DEF Lessens

\* The k-th on the way up from d.
At(d, up, k) == IF k = 0 THEN d ELSE up[k]

\* The ancestors of d: each the parent of the one before, none twice, until one
\* is missing or comes again.
AncestorsOf(d, up, n) ==
    /\ n \in Nat /\ up \in Seq(Experiments) /\ DOMAIN up = 1 .. n
    /\ \A k \in 1 .. n : up[k] \in Known /\ up[k] = Par(At(d, up, k - 1))
    /\ \A j, k \in 1 .. n : up[j] = up[k] => j = k
    /\ Par(At(d, up, n)) \notin Known \/ \E k \in 1 .. n : Par(At(d, up, n)) = up[k]

\* The chains the walk from d goes through.
ChainsOf(d) ==
    {c \in Seq(Experiments) :
        /\ c # << >> /\ c[1] = d
        /\ \A k \in 2 .. Len(c) : c[k] \in Known /\ c[k] = Par(c[k - 1])
        /\ \A j, k \in 2 .. Len(c) : c[j] = c[k] => j = k}

LEMMA ChainsGrow ==
  ASSUME experiments \in Seq(Row), NEW d, NEW c \in ChainsOf(d) \ UpStop
  PROVE  UpNext[c] \in ChainsOf(d)
<1>1. PICK n, p, t : n = Len(c) /\ p = Par(Last(c)) /\ t = UpNext[c]
  OBVIOUS
<1>2. c \in Seq(Experiments) /\ c # << >> /\ c[1] = d
  BY DEF ChainsOf
<1>3. n \in Nat \ {0} /\ p = Par(c[n])
  BY <1>1, <1>2, LastIs
<1>4. p \in Known /\ p \in Experiments /\ p \notin Range(Tail(c)) /\ t = Append(c, p)
  BY <1>1, <1>2, KnownIs DEF UpStop, UpNext
<1>5. t \in Seq(Experiments) /\ t # << >> /\ Len(t) = n + 1 /\ (\A i \in 1 .. n : t[i] = c[i]) /\ t[n + 1] = p
  BY <1>1, <1>2, <1>4, AppendIs
<1>6. \A k \in 2 .. n : p # c[k]
  BY <1>1, <1>2, <1>4, TailIs
<1>7. t[1] = d
  BY <1>2, <1>3, <1>5
<1>8. ASSUME NEW k \in 2 .. n + 1 PROVE t[k] \in Known /\ t[k] = Par(t[k - 1])
  <2>1. CASE k = n + 1
    <3>1. t[k - 1] = c[n]
      BY <1>3, <1>5, <2>1
    <3> QED
      BY <1>3, <1>4, <1>5, <2>1, <3>1
  <2>2. CASE k # n + 1
    <3>1. k \in 2 .. n /\ k \in 1 .. n /\ k - 1 \in 1 .. n
      BY <1>3, <2>2
    <3>2. t[k] = c[k] /\ t[k - 1] = c[k - 1]
      BY <1>5, <3>1
    <3>3. c[k] \in Known /\ c[k] = Par(c[k - 1])
      BY <1>1, <3>1 DEF ChainsOf
    <3> QED
      BY <3>2, <3>3
  <2> QED
    BY <2>1, <2>2
<1>9. ASSUME NEW j \in 2 .. n + 1, NEW k \in 2 .. n + 1, t[j] = t[k] PROVE j = k
  <2>1. \A i \in 2 .. n + 1 : i = n + 1 \/ (i \in 2 .. n /\ i \in 1 .. n)
    BY <1>3
  <2>2. \A i \in 2 .. n : t[i] = c[i] /\ c[i] # p
    BY <1>3, <1>5, <1>6
  <2>3. CASE j = n + 1
    BY <1>5, <1>9, <2>1, <2>2, <2>3
  <2>4. CASE k = n + 1
    BY <1>5, <1>9, <2>1, <2>2, <2>4
  <2>5. CASE j # n + 1 /\ k # n + 1
    <3>1. j \in 2 .. n /\ k \in 2 .. n /\ c[j] = c[k]
      BY <1>9, <2>1, <2>2, <2>5
    <3> QED
      BY <1>1, <3>1 DEF ChainsOf
  <2> QED
    BY <2>3, <2>4, <2>5
<1> QED
  BY <1>1, <1>5, <1>7, <1>8, <1>9 DEF ChainsOf

LEMMA WalkUp ==
  ASSUME experiments \in Seq(Row), NEW d \in Experiments
  PROVE  \E n : AncestorsOf(d, WalkAncestors(d), n)
<1>1. PICK f : Unwinds(f, Seq(Experiments), UpStop, UpNext, UpEnd) /\ WalkAncestors(d) = f[<<d>>]
  <2>1. \E f : Unwinds(f, Seq(Experiments), UpStop, UpNext, UpEnd)
    BY UpDescends, LoopExists
  <2>2. \E f : WalkedUp(f)
    BY <2>1, WalkUnwinds
  <2>3. WalkedUp(CHOOSE f : WalkedUp(f))
    BY <2>2
  <2> QED
    BY <2>3, WalkIs, WalkUnwinds
<1>2. ChainsOf(d) \in SUBSET Seq(Experiments)
  BY DEF ChainsOf
<1>3. \A c \in ChainsOf(d) \ UpStop : UpNext[c] \in ChainsOf(d)
  BY ChainsGrow
<1>4. <<d>> \in ChainsOf(d)
  BY DEF ChainsOf
<1>5. PICK c \in ChainsOf(d) \cap UpStop : f[<<d>>] = UpEnd[c]
  BY <1>1, <1>2, <1>3, <1>4, UpDescends, LoopEnds
<1>6. PICK m, up : m = Len(c) /\ up = Tail(c)
  OBVIOUS
<1>7. c \in Seq(Experiments) /\ c # << >> /\ c[1] = d
  BY <1>5 DEF ChainsOf
<1>8. /\ \A k \in 2 .. m : c[k] \in Known /\ c[k] = Par(c[k - 1])
      /\ \A j, k \in 2 .. m : c[j] = c[k] => j = k
  BY <1>5, <1>6 DEF ChainsOf
<1>9. /\ m \in Nat \ {0} /\ Len(up) = m - 1 /\ up \in Seq(Experiments) /\ Range(up) = {c[i] : i \in 2 .. m}
      /\ \A i \in 1 .. m - 1 : up[i] = c[i + 1]
  BY <1>6, <1>7, TailIs
<1>10. PICK n \in Nat : n = m - 1
  BY <1>9
<1>11. DOMAIN up = 1 .. n
  BY <1>9, <1>10
<1>12. ASSUME NEW k \in 0 .. n PROVE At(d, up, k) = c[k + 1]
  BY <1>7, <1>9, <1>10 DEF At
<1>13. ASSUME NEW k \in 1 .. n PROVE up[k] \in Known /\ up[k] = Par(At(d, up, k - 1))
  <2>1. k + 1 \in 2 .. m /\ (k + 1) - 1 = k /\ k - 1 \in 0 .. n /\ (k - 1) + 1 = k
    BY <1>10, <1>9
  <2>2. up[k] = c[k + 1] /\ At(d, up, k - 1) = c[k]
    BY <1>9, <1>10, <1>12, <2>1
  <2> QED
    BY <1>8, <2>1, <2>2
<1>14. ASSUME NEW j \in 1 .. n, NEW k \in 1 .. n, up[j] = up[k] PROVE j = k
  <2>1. j + 1 \in 2 .. m /\ k + 1 \in 2 .. m /\ c[j + 1] = c[k + 1]
    BY <1>9, <1>10, <1>14
  <2> QED
    BY <1>8, <2>1
<1>15. Par(At(d, up, n)) = Par(Last(c))
  <2>1. At(d, up, n) = c[m]
    <3>1. n \in 0 .. n /\ n + 1 = m
      BY <1>9, <1>10
    <3> QED
      BY <1>12, <3>1
  <2> QED
    BY <1>6, <1>7, <2>1, LastIs
<1>16. Par(Last(c)) \notin Known \/ Par(Last(c)) \in Range(up)
  BY <1>5, <1>6 DEF UpStop
<1>17. Par(At(d, up, n)) \notin Known \/ \E k \in 1 .. n : Par(At(d, up, n)) = up[k]
  BY <1>11, <1>15, <1>16 DEF Range
<1>18. WalkAncestors(d) = up
  BY <1>1, <1>5, <1>6, <1>7 DEF UpEnd
<1> QED
  BY <1>9, <1>11, <1>13, <1>14, <1>17, <1>18 DEF AncestorsOf

-----------------------------------------------------------------------------
(* Paths from child to parent.                                             *)

Path(p, d, e, k) ==
    /\ k \in Nat /\ \A i \in 0 .. k : p[i] \in Known
    /\ p[0] = d /\ p[k] = e
    /\ \A i \in 1 .. k : p[i] = Par(p[i - 1])

StepsTo(d, e, k) == \E p : Path(p, d, e, k)

\* The shortest path of at least one step.
First(d, e, k) == k \in Nat \ {0} /\ StepsTo(d, e, k) /\ \A j \in 1 .. k - 1 : ~StepsTo(d, e, j)

LEMMA StepsUp ==
  ASSUME NEW d \in Known, NEW e, NEW k \in Nat
  PROVE  StepsTo(d, e, k + 1) <=> Par(d) \in Known /\ StepsTo(Par(d), e, k)
<1>1. ASSUME StepsTo(d, e, k + 1) PROVE Par(d) \in Known /\ StepsTo(Par(d), e, k)
  <2>1. PICK p : Path(p, d, e, k + 1)
    BY <1>1 DEF StepsTo
  <2>2. /\ \A i \in 0 .. k + 1 : p[i] \in Known
        /\ p[0] = d /\ p[k + 1] = e /\ \A i \in 1 .. k + 1 : p[i] = Par(p[i - 1])
    BY <2>1 DEF Path
  <2>3. PICK q : q = [i \in 0 .. k |-> p[i + 1]]
    OBVIOUS
  <2>4. \A i \in 0 .. k : q[i] = p[i + 1] /\ i + 1 \in 0 .. k + 1 /\ i + 1 \in 1 .. k + 1
    BY <2>3
  <2>5. q[0] = Par(d)
    <3>1. 0 \in 0 .. k /\ 1 \in 1 .. k + 1 /\ 0 + 1 = 1 /\ 1 - 1 = 0
      OBVIOUS
    <3> QED
      BY <2>2, <2>4, <3>1
  <2>6. q[k] = e
    BY <2>2, <2>4
  <2>7. \A i \in 0 .. k : q[i] \in Known
    BY <2>2, <2>4
  <2>8. ASSUME NEW i \in 1 .. k PROVE q[i] = Par(q[i - 1])
    <3>1. q[i] = p[i + 1] /\ q[i - 1] = p[i] /\ i + 1 \in 1 .. k + 1 /\ (i + 1) - 1 = i
      BY <2>3
    <3> QED
      BY <2>2, <3>1
  <2>9. Path(q, Par(d), e, k)
    BY <2>5, <2>6, <2>7, <2>8 DEF Path
  <2>10. 0 \in 0 .. k
    OBVIOUS
  <2> QED
    BY <2>5, <2>7, <2>9, <2>10 DEF StepsTo
<1>2. ASSUME Par(d) \in Known, StepsTo(Par(d), e, k) PROVE StepsTo(d, e, k + 1)
  <2>1. PICK p : Path(p, Par(d), e, k)
    BY <1>2 DEF StepsTo
  <2>2. /\ \A i \in 0 .. k : p[i] \in Known
        /\ p[0] = Par(d) /\ p[k] = e /\ \A i \in 1 .. k : p[i] = Par(p[i - 1])
    BY <2>1 DEF Path
  <2>3. PICK q : q = [i \in 0 .. k + 1 |-> IF i = 0 THEN d ELSE p[i - 1]]
    OBVIOUS
  <2>4. q[0] = d /\ q[k + 1] = p[k]
    BY <2>3
  <2>5. ASSUME NEW i \in 0 .. k + 1 PROVE q[i] \in Known
    <3>1. CASE i = 0
      BY <2>4, <3>1
    <3>2. CASE i # 0
      <4>1. i - 1 \in 0 .. k /\ q[i] = p[i - 1]
        BY <2>3, <3>2
      <4> QED
        BY <2>2, <4>1
    <3> QED
      BY <3>1, <3>2
  <2>6. ASSUME NEW i \in 1 .. k + 1 PROVE q[i] = Par(q[i - 1])
    <3>1. CASE i = 1
      <4>1. q[1] = p[0]
        BY <2>3
      <4> QED
        BY <2>2, <2>4, <3>1, <4>1
    <3>2. CASE i # 1
      <4>1. i - 1 \in 1 .. k /\ q[i] = p[i - 1] /\ q[i - 1] = p[(i - 1) - 1]
        BY <2>3, <3>2
      <4> QED
        BY <2>2, <4>1
    <3> QED
      BY <3>1, <3>2
  <2>7. Path(q, d, e, k + 1)
    BY <2>2, <2>4, <2>5, <2>6 DEF Path
  <2> QED
    BY <2>7 DEF StepsTo
<1> QED
  BY <1>1, <1>2

LEMMA StepsNone == ASSUME NEW d \in Known, NEW e PROVE StepsTo(d, e, 0) <=> d = e
<1>1. d = e => Path([i \in {0} |-> d], d, e, 0)
  BY DEF Path
<1> QED
  BY <1>1 DEF StepsTo, Path

\* A path has a shortest one.
LEMMA FirstExists ==
  ASSUME NEW d, NEW e, NEW k \in Nat \ {0}, StepsTo(d, e, k)
  PROVE  \E j \in 1 .. k : First(d, e, j)
<1>1. PICK T : T = {j \in Nat \ {0} : StepsTo(d, e, j)}
  OBVIOUS
<1>2. T \in SUBSET Nat /\ k \in T
  BY <1>1
<1>3. PICK j \in T : \A m \in T : j <= m
  BY <1>2, LeastNumber
<1>4. j \in Nat \ {0} /\ j <= k /\ StepsTo(d, e, j)
  BY <1>1, <1>2, <1>3
<1>5. ASSUME NEW i \in 1 .. j - 1 PROVE ~StepsTo(d, e, i)
  <2>1. i \in Nat \ {0} /\ ~(j <= i)
    BY <1>4
  <2> QED
    BY <1>1, <1>3, <2>1
<1>6. First(d, e, j)
  BY <1>4, <1>5 DEF First
<1> QED
  BY <1>4, <1>6

LEMMA FirstOne == ASSUME NEW d \in Known, NEW e \in Known PROVE First(d, e, 1) <=> Par(d) = e
<1>1. StepsTo(d, e, 0 + 1) <=> Par(d) \in Known /\ StepsTo(Par(d), e, 0)
  BY StepsUp
<1>2. Par(d) \in Known => (StepsTo(Par(d), e, 0) <=> Par(d) = e)
  BY StepsNone
<1>3. First(d, e, 1) <=> StepsTo(d, e, 1)
  BY DEF First
<1> QED
  BY <1>1, <1>2, <1>3

LEMMA FirstNext ==
  ASSUME NEW d \in Known, NEW e \in Known, NEW k \in Nat \ {0}
  PROVE  First(d, e, k + 1) <=> /\ Par(d) \in Known /\ First(Par(d), e, k)
                                /\ \A j \in 1 .. k : ~First(d, e, j)
<1>1. ASSUME First(d, e, k + 1) PROVE Par(d) \in Known /\ First(Par(d), e, k) /\ \A j \in 1 .. k : ~First(d, e, j)
  <2>1. StepsTo(d, e, k + 1) /\ \A j \in 1 .. k : ~StepsTo(d, e, j)
    BY <1>1 DEF First
  <2>2. Par(d) \in Known /\ StepsTo(Par(d), e, k)
    BY <2>1, StepsUp
  <2>3. ASSUME NEW j \in 1 .. k - 1 PROVE ~StepsTo(Par(d), e, j)
    <3>1. j \in Nat /\ j + 1 \in 1 .. k
      OBVIOUS
    <3> QED
      BY <2>1, <2>2, <3>1, StepsUp
  <2> QED
    BY <2>1, <2>2, <2>3 DEF First
<1>2. ASSUME Par(d) \in Known, First(Par(d), e, k), \A j \in 1 .. k : ~First(d, e, j) PROVE First(d, e, k + 1)
  <2>1. StepsTo(d, e, k + 1)
    BY <1>2, StepsUp DEF First
  <2>2. ASSUME NEW j \in 1 .. k, StepsTo(d, e, j) PROVE FALSE
    <3>1. PICK i \in 1 .. j : First(d, e, i)
      BY <2>2, FirstExists
    <3>2. i \in 1 .. k
      OBVIOUS
    <3> QED
      BY <1>2, <3>1, <3>2
  <2> QED
    BY <2>1, <2>2 DEF First
<1> QED
  BY <1>1, <1>2

-----------------------------------------------------------------------------
(* The walk up finds each ancestor by the shortest path.                   *)

LEMMA UpPath ==
  ASSUME NEW d \in Known, NEW up, NEW n, AncestorsOf(d, up, n), NEW k \in 0 .. n
  PROVE  StepsTo(d, At(d, up, k), k)
<1>1. PICK p : p = [i \in 0 .. k |-> At(d, up, i)]
  OBVIOUS
<1>2. n \in Nat /\ \A i \in 1 .. n : up[i] \in Known /\ up[i] = Par(At(d, up, i - 1))
  BY DEF AncestorsOf
<1>3. ASSUME NEW i \in 0 .. k PROVE p[i] \in Known
  <2>1. i = 0 \/ i \in 1 .. n
    BY <1>2
  <2> QED
    BY <1>1, <1>2, <2>1 DEF At
<1>4. ASSUME NEW i \in 1 .. k PROVE p[i] = Par(p[i - 1])
  <2>1. i \in 1 .. n /\ i \in 0 .. k /\ i - 1 \in 0 .. k /\ i # 0
    BY <1>2
  <2>2. p[i] = up[i] /\ p[i - 1] = At(d, up, i - 1)
    BY <1>1, <2>1 DEF At
  <2> QED
    BY <1>2, <2>1, <2>2
<1>5. k \in Nat /\ 0 \in 0 .. k /\ k \in 0 .. k
  BY <1>2
<1>6. p[0] = d /\ p[k] = At(d, up, k)
  BY <1>1, <1>5 DEF At
<1>7. Path(p, d, At(d, up, k), k)
  BY <1>3, <1>4, <1>5, <1>6 DEF Path
<1> QED
  BY <1>7 DEF StepsTo

\* There is one way up.
LEMMA OneWay ==
  ASSUME NEW d, NEW up, NEW n, AncestorsOf(d, up, n), NEW e, NEW k, NEW p, Path(p, d, e, k)
  PROVE  \A i \in Nat : i <= k /\ i <= n => p[i] = At(d, up, i)
<1> DEFINE Good == {i \in Nat : i <= k /\ i <= n => p[i] = At(d, up, i)}
<1>1. n \in Nat /\ k \in Nat /\ p[0] = d /\ \A i \in 1 .. k : p[i] = Par(p[i - 1])
  BY DEF AncestorsOf, Path
<1>2. \A i \in 1 .. n : up[i] = Par(At(d, up, i - 1))
  BY DEF AncestorsOf
<1>3. 0 \in Good
  BY <1>1 DEF At
<1>4. ASSUME NEW i \in Nat, i \in Good PROVE i + 1 \in Good
  <2>1. CASE i + 1 <= k /\ i + 1 <= n
    <3>1. i <= k /\ i <= n /\ i + 1 \in 1 .. k /\ i + 1 \in 1 .. n /\ (i + 1) - 1 = i /\ i + 1 # 0
      BY <1>1, <2>1
    <3>2. p[i] = At(d, up, i)
      BY <1>4, <3>1
    <3>3. p[i + 1] = up[i + 1]
      BY <1>1, <1>2, <3>1, <3>2
    <3>4. p[i + 1] = At(d, up, i + 1)
      BY <3>1, <3>3 DEF At
    <3> QED
      BY <3>4
  <2>2. CASE ~(i + 1 <= k /\ i + 1 <= n)
    BY <2>2
  <2> QED
    BY <2>1, <2>2
<1> HIDE DEF Good
<1>5. \A i \in Nat : i \in Good
  BY <1>3, <1>4, NumberInduction
<1> QED
  BY <1>5 DEF Good

\* What comes again on a path can be cut out.
LEMMA ShortCut ==
  ASSUME NEW d, NEW e, NEW k, NEW p, Path(p, d, e, k), NEW i \in 0 .. k, NEW j \in 0 .. k, i < j, p[i] = p[j]
  PROVE  StepsTo(d, e, k - (j - i))
<1>1. /\ k \in Nat /\ \A x \in 0 .. k : p[x] \in Known
      /\ p[0] = d /\ p[k] = e /\ \A x \in 1 .. k : p[x] = Par(p[x - 1])
  BY DEF Path
<1>2. PICK m \in Nat : m = j - i
  BY <1>1
<1>3. k - m \in Nat /\ i <= k - m /\ m >= 1 /\ i + m = j
  BY <1>1, <1>2
<1>4. PICK q : q = [x \in 0 .. k - m |-> IF x <= i THEN p[x] ELSE p[x + m]]
  OBVIOUS
<1>5. ASSUME NEW x \in 0 .. k - m PROVE q[x] \in Known
  <2>1. x \in 0 .. k /\ x + m \in 0 .. k
    BY <1>1, <1>3
  <2> QED
    BY <1>1, <1>4, <2>1
<1>6. q[0] = d
  <2>1. 0 \in 0 .. k - m /\ 0 <= i
    BY <1>1, <1>3
  <2> QED
    BY <1>1, <1>4, <2>1
<1>7. q[k - m] = e
  <2>1. CASE i = k - m
    <3>1. j = k /\ q[k - m] = p[i]
      BY <1>1, <1>3, <1>4, <2>1
    <3> QED
      BY <1>1, <3>1
  <2>2. CASE i # k - m
    <3>1. k - m \in 0 .. k - m /\ ~(k - m <= i) /\ (k - m) + m = k
      BY <1>1, <1>3, <2>2
    <3> QED
      BY <1>1, <1>4, <3>1
  <2> QED
    BY <2>1, <2>2
<1>8. ASSUME NEW x \in 1 .. k - m PROVE q[x] = Par(q[x - 1])
  <2>1. x \in 0 .. k - m /\ x - 1 \in 0 .. k - m /\ x \in 1 .. k /\ x + m \in 1 .. k
    BY <1>1, <1>3
  <2>2. CASE x <= i
    <3>1. q[x] = p[x] /\ q[x - 1] = p[x - 1]
      BY <1>1, <1>4, <2>1, <2>2
    <3> QED
      BY <1>1, <2>1, <3>1
  <2>3. CASE x = i + 1
    <3>1. q[x] = p[x + m] /\ q[x - 1] = p[i] /\ (x + m) - 1 = j
      BY <1>1, <1>3, <1>4, <2>1, <2>3
    <3>2. p[x + m] = Par(p[(x + m) - 1])
      BY <1>1, <2>1
    <3> QED
      BY <3>1, <3>2
  <2>4. CASE x > i + 1
    <3>1. q[x] = p[x + m] /\ q[x - 1] = p[(x - 1) + m] /\ (x - 1) + m = (x + m) - 1
      BY <1>1, <1>3, <1>4, <2>1, <2>4
    <3>2. p[x + m] = Par(p[(x + m) - 1])
      BY <1>1, <2>1
    <3> QED
      BY <3>1, <3>2
  <2> QED
    BY <1>1, <2>2, <2>3, <2>4
<1>9. Path(q, d, e, k - m)
  BY <1>3, <1>5, <1>6, <1>7, <1>8 DEF Path
<1> QED
  BY <1>2, <1>9 DEF StepsTo

LEMMA UpFirst ==
  ASSUME NEW d \in Known, NEW up, NEW n, AncestorsOf(d, up, n), NEW e, NEW k \in Nat \ {0}
  PROVE  k \in 1 .. n /\ up[k] = e <=> First(d, e, k)
<1>1. n \in Nat /\ \A i, j \in 1 .. n : up[i] = up[j] => i = j
  BY DEF AncestorsOf
<1>2. ASSUME k \in 1 .. n, up[k] = e PROVE First(d, e, k)
  <2>1. StepsTo(d, e, k)
    <3>1. k \in 0 .. n /\ At(d, up, k) = e
      BY <1>1, <1>2 DEF At
    <3> QED
      BY <3>1, UpPath
  <2>2. ASSUME NEW j \in 1 .. k - 1, StepsTo(d, e, j) PROVE FALSE
    <3>1. PICK p : Path(p, d, e, j)
      BY <2>2 DEF StepsTo
    <3>2. j \in Nat /\ j <= n /\ j <= j /\ j # 0 /\ j \in 1 .. n /\ j # k
      BY <1>1, <1>2
    <3>3. p[j] = At(d, up, j)
      BY <3>1, <3>2, OneWay
    <3>4. p[j] = e /\ At(d, up, j) = up[j]
      BY <3>1, <3>2 DEF Path, At
    <3> QED
      BY <1>1, <1>2, <3>2, <3>3, <3>4
  <2> QED
    BY <2>1, <2>2 DEF First
<1>3. ASSUME First(d, e, k) PROVE k \in 1 .. n /\ up[k] = e
  <2>1. PICK p : Path(p, d, e, k)
    BY <1>3 DEF First, StepsTo
  <2>2. \A i \in Nat : i <= k /\ i <= n => p[i] = At(d, up, i)
    BY <2>1, OneWay
  <2>3. CASE k <= n
    <3>1. p[k] = At(d, up, k) /\ k # 0 /\ k \in 1 .. n
      BY <1>1, <2>2, <2>3
    <3> QED
      BY <2>1, <3>1 DEF Path, At
  <2>4. CASE ~(k <= n)
    <3>1. n + 1 \in 1 .. k /\ n + 1 \in 0 .. k /\ n <= k /\ (n + 1) - 1 = n
      BY <1>1, <2>4
    <3>2. p[n] = At(d, up, n)
      BY <1>1, <2>2, <3>1
    <3>3. p[n + 1] = Par(At(d, up, n)) /\ p[n + 1] \in Known
      BY <2>1, <3>1, <3>2 DEF Path
    <3>4. PICK j \in 1 .. n : p[n + 1] = up[j]
      BY <3>3 DEF AncestorsOf
    <3>5. j \in Nat /\ j <= k /\ j <= n /\ j # 0 /\ j \in 0 .. k /\ j < n + 1
      BY <1>1, <3>1
    <3>6. p[j] = p[n + 1]
      BY <2>2, <3>4, <3>5 DEF At
    <3>7. StepsTo(d, e, k - ((n + 1) - j))
      BY <2>1, <3>1, <3>5, <3>6, ShortCut
    <3>8. k - ((n + 1) - j) \in 1 .. k - 1
      BY <1>1, <3>1, <3>5
    <3> QED
      BY <1>3, <3>7, <3>8 DEF First
  <2> QED
    BY <2>3, <2>4
<1> QED
  BY <1>2, <1>3

-----------------------------------------------------------------------------
(* The walk down finds each generation of shortest paths.                  *)

Fresh(g) == Children(Last(g)) \ UNION Range(Tail(g))

DownStop == {g \in Seq(SUBSET Experiments) : Fresh(g) = {}}
DownNext == [g \in Seq(SUBSET Experiments) |-> Append(g, Fresh(g))]
DownEnd == [g \in Seq(SUBSET Experiments) |-> Tail(g)]
DownLeft ==
    [g \in Seq(SUBSET Experiments) |->
        IF g = << >> THEN Cardinality(Known) + 1 ELSE Cardinality(Known \ UNION Range(Tail(g)))]

WalkedDown(f) ==
    f = [generations \in Seq(SUBSET Experiments) |->
            IF Fresh(generations) = {} THEN Tail(generations) ELSE f[Append(generations, Fresh(generations))]]

LEMMA DownUnwinds == ASSUME NEW f PROVE Unwinds(f, Seq(SUBSET Experiments), DownStop, DownNext, DownEnd) <=> WalkedDown(f)
<1>1. ASSUME NEW g \in Seq(SUBSET Experiments)
      PROVE  (IF g \in DownStop THEN DownEnd[g] ELSE f[DownNext[g]]) =
                (IF Fresh(g) = {} THEN Tail(g) ELSE f[Append(g, Fresh(g))])
  BY DEF DownStop, DownNext, DownEnd
<1> QED
  BY <1>1 DEF Unwinds, WalkedDown

LEMMA DownWalkIs == ASSUME NEW e PROVE WalkDescendants(e) = (CHOOSE f : WalkedDown(f))[<<{e}>>]
  BY DEF WalkDescendants, WalkedDown, Fresh

LEMMA DownDescends ==
  ASSUME experiments \in Seq(Row)
  PROVE  Lessens(Seq(SUBSET Experiments), DownStop, DownNext, DownLeft, Cardinality(Known) + 1)
<1>1. Known \in SUBSET Experiments /\ IsFiniteSet(Known) /\ Cardinality(Known) \in Nat
  BY KnownIs
<1>2. PICK n \in Nat : n = Cardinality(Known)
  BY <1>1
<1>3. ASSUME NEW T \in SUBSET Known PROVE IsFiniteSet(T) /\ Cardinality(T) \in 0 .. n
  <2>1. IsFiniteSet(T) /\ Cardinality(T) <= n
    BY <1>1, <1>2, FS_Subset
  <2> QED
    BY <1>2, <2>1, FS_CardinalityType
<1>4. \A g \in Seq(SUBSET Experiments) : DownLeft[g] \in 0 .. n + 1
  <2> SUFFICES ASSUME NEW g \in Seq(SUBSET Experiments) PROVE DownLeft[g] \in 0 .. n + 1
    OBVIOUS
  <2>1. CASE g = << >>
    <3>1. DownLeft[g] = n + 1
      BY <1>2, <2>1 DEF DownLeft
    <3> QED
      BY <3>1
  <2>2. CASE g # << >>
    <3>1. DownLeft[g] = Cardinality(Known \ UNION Range(Tail(g)))
      BY <2>2 DEF DownLeft
    <3>2. DownLeft[g] \in 0 .. n
      BY <1>3, <3>1
    <3> QED
      BY <3>2
  <2> QED
    BY <2>1, <2>2
<1>5. ASSUME NEW g \in Seq(SUBSET Experiments) \ DownStop
      PROVE  DownNext[g] \in Seq(SUBSET Experiments) /\ DownLeft[DownNext[g]] < DownLeft[g]
  <2>1. PICK new : new = Fresh(g)
    OBVIOUS
  <2>2. /\ new \in SUBSET Known /\ new \in SUBSET Experiments /\ new # {} /\ new \cap UNION Range(Tail(g)) = {}
        /\ DownNext[g] = Append(g, new)
    BY <1>1, <2>1 DEF DownStop, DownNext, Fresh, Children
  <2>3. /\ DownNext[g] \in Seq(SUBSET Experiments) /\ DownNext[g] # << >>
        /\ Range(Tail(DownNext[g])) = IF g = << >> THEN {} ELSE Range(Tail(g)) \cup {new}
    BY <2>2, AppendIs
  <2>4. DownLeft[DownNext[g]] = Cardinality(Known \ UNION Range(Tail(DownNext[g])))
    BY <2>3 DEF DownLeft
  <2>5. CASE g = << >>
    <3>1. DownLeft[g] = n + 1
      BY <1>2, <2>5 DEF DownLeft
    <3>2. DownLeft[DownNext[g]] \in 0 .. n
      BY <1>3, <2>4
    <3> QED
      BY <2>3, <3>1, <3>2
  <2>6. CASE g # << >>
    <3>1. PICK T, U : T = Known \ UNION Range(Tail(g)) /\ U = Known \ UNION Range(Tail(DownNext[g]))
      OBVIOUS
    <3>2. PICK x : x \in new
      BY <2>2
    <3>3. U \in SUBSET T /\ x \in T /\ x \notin U
      BY <2>2, <2>3, <2>6, <3>1, <3>2
    <3>4. T \in SUBSET Known
      BY <3>1
    <3>5. IsFiniteSet(T) /\ Cardinality(T) \in 0 .. n
      BY <1>3, <3>4
    <3>6. Cardinality(U) <= Cardinality(T) /\ Cardinality(U) \in 0 .. n /\ Cardinality(U) # Cardinality(T)
      <4>1. U \in SUBSET Known
        BY <3>3, <3>4
      <4> QED
        BY <1>3, <3>3, <3>5, <4>1, FS_Subset
    <3>7. DownLeft[g] = Cardinality(T) /\ DownLeft[DownNext[g]] = Cardinality(U)
      BY <2>4, <2>6, <3>1 DEF DownLeft
    <3>8. PICK a, b : a = Cardinality(T) /\ b = Cardinality(U)
      OBVIOUS
    <3>9. b < a
      BY <3>5, <3>6, <3>8
    <3> QED
      BY <2>3, <3>7, <3>8, <3>9
  <2> QED
    BY <2>5, <2>6
<1> QED
  BY <1>2, <1>4, <1>5 DEF Lessens

\* The experiments at the distance k below e.
Layer(e, k) == {d \in Known : First(d, e, k)}

LEMMA LayerOne == ASSUME NEW e \in Known PROVE Children({e}) = Layer(e, 1)
  BY FirstOne DEF Children, Layer, Par

LEMMA LayerNext ==
  ASSUME NEW e \in Known, NEW k \in Nat \ {0}
  PROVE  Layer(e, k + 1) = {d \in Children(Layer(e, k)) : \A j \in 1 .. k : d \notin Layer(e, j)}
<1>1. ASSUME NEW d \in Known
      PROVE  d \in Layer(e, k + 1) <=> d \in Children(Layer(e, k)) /\ \A j \in 1 .. k : d \notin Layer(e, j)
  BY FirstNext DEF Children, Layer, Par
<1>2. Layer(e, k + 1) \in SUBSET Known /\ Children(Layer(e, k)) \in SUBSET Known
  BY DEF Layer, Children
<1> QED
  BY <1>1, <1>2

LayersOf(e) ==
    {g \in Seq(SUBSET Experiments) :
        g # << >> /\ g[1] = {e} /\ \A k \in 2 .. Len(g) : g[k] = Layer(e, k - 1)}

LEMMA FreshIs ==
  ASSUME NEW e \in Known, NEW g \in LayersOf(e)
  PROVE  Len(g) \in Nat \ {0} /\ Fresh(g) = Layer(e, Len(g))
<1>1. PICK n : n = Len(g)
  OBVIOUS
<1>2. g \in Seq(SUBSET Experiments) /\ g # << >> /\ g[1] = {e} /\ \A k \in 2 .. n : g[k] = Layer(e, k - 1)
  BY <1>1 DEF LayersOf
<1>3. n \in Nat \ {0} /\ Last(g) = g[n] /\ Range(Tail(g)) = {g[i] : i \in 2 .. n}
  <2>1. Last(g) = g[Len(g)] /\ Len(g) \in Nat \ {0}
    BY <1>2, LastIs
  <2>2. Range(Tail(g)) = {g[i] : i \in 2 .. Len(g)}
    BY <1>2, TailIs
  <2> QED
    BY <1>1, <2>1, <2>2
<1>4. CASE n = 1
  <2>1. 2 .. n = {}
    BY <1>4
  <2>2. UNION Range(Tail(g)) = {}
    BY <1>3, <2>1
  <2>3. Fresh(g) = Children({e})
    BY <1>2, <1>3, <1>4, <2>2 DEF Fresh
  <2> QED
    BY <1>1, <1>4, <2>3, LayerOne
<1>5. CASE n # 1
  <2>1. PICK k \in Nat \ {0} : n = k + 1
    <3>1. n - 1 \in Nat \ {0} /\ n = (n - 1) + 1
      BY <1>3, <1>5
    <3> QED
      BY <3>1
  <2>2. Last(g) = Layer(e, k)
    <3>1. n \in 2 .. n /\ n - 1 = k
      BY <2>1
    <3> QED
      BY <1>2, <1>3, <3>1
  <2>3. \A x : x \in UNION Range(Tail(g)) <=> \E j \in 1 .. k : x \in Layer(e, j)
    <3>1. \A i \in 2 .. n : g[i] = Layer(e, i - 1) /\ i - 1 \in 1 .. k
      BY <1>2, <2>1
    <3>2. \A j \in 1 .. k : j + 1 \in 2 .. n /\ (j + 1) - 1 = j
      BY <2>1
    <3>3. \A j \in 1 .. k : g[j + 1] = Layer(e, j) /\ j + 1 \in 2 .. n
      BY <1>2, <3>2
    <3>4. ASSUME NEW x, x \in UNION Range(Tail(g)) PROVE \E j \in 1 .. k : x \in Layer(e, j)
      <4>1. PICK i \in 2 .. n : x \in g[i]
        BY <1>3, <3>4
      <4> QED
        BY <3>1, <4>1
    <3>5. ASSUME NEW x, NEW j \in 1 .. k, x \in Layer(e, j) PROVE x \in UNION Range(Tail(g))
      <4>1. j + 1 \in 2 .. n /\ x \in g[j + 1]
        BY <3>3, <3>5
      <4> QED
        BY <1>3, <4>1
    <3> QED
      BY <3>4, <3>5
  <2>4. Fresh(g) = {d \in Children(Layer(e, k)) : \A j \in 1 .. k : d \notin Layer(e, j)}
    BY <2>2, <2>3 DEF Fresh
  <2> QED
    BY <1>1, <1>3, <2>1, <2>4, LayerNext
<1> QED
  BY <1>4, <1>5

LEMMA LayersGrow ==
  ASSUME experiments \in Seq(Row), NEW e \in Known, NEW g \in LayersOf(e) \ DownStop
  PROVE  DownNext[g] \in LayersOf(e)
<1>1. PICK n, t, new : n = Len(g) /\ t = DownNext[g] /\ new = Fresh(g)
  OBVIOUS
<1>2. g \in Seq(SUBSET Experiments) /\ g # << >> /\ g[1] = {e} /\ \A k \in 2 .. n : g[k] = Layer(e, k - 1)
  BY <1>1 DEF LayersOf
<1>3. n \in Nat \ {0} /\ new = Layer(e, n)
  BY <1>1, FreshIs
<1>4. new \in SUBSET Experiments /\ t = Append(g, new)
  BY <1>1, <1>2, <1>3, KnownIs DEF Layer, DownNext
<1>5. t \in Seq(SUBSET Experiments) /\ t # << >> /\ Len(t) = n + 1 /\ (\A i \in 1 .. n : t[i] = g[i]) /\ t[n + 1] = new
  BY <1>1, <1>2, <1>4, AppendIs
<1>6. t[1] = {e}
  BY <1>2, <1>3, <1>5
<1>7. ASSUME NEW k \in 2 .. n + 1 PROVE t[k] = Layer(e, k - 1)
  <2>1. CASE k = n + 1
    <3>1. k - 1 = n
      BY <1>3, <2>1
    <3> QED
      BY <1>3, <1>5, <2>1, <3>1
  <2>2. CASE k # n + 1
    <3>1. k \in 2 .. n /\ k \in 1 .. n
      BY <1>3, <2>2
    <3> QED
      BY <1>2, <1>5, <3>1
  <2> QED
    BY <2>1, <2>2
<1> QED
  BY <1>1, <1>5, <1>6, <1>7 DEF LayersOf

\* The generations after e, until one is empty, as are all that would follow.
GenerationsOf(e, down, n) ==
    /\ n \in Nat /\ DOMAIN down = 1 .. n
    /\ \A k \in 1 .. n : down[k] = Layer(e, k)
    /\ \A k \in Nat : k > n => Layer(e, k) = {}

LEMMA LayersEnd ==
  ASSUME NEW e \in Known, NEW n \in Nat \ {0}, Layer(e, n) = {}
  PROVE  \A k \in Nat : k >= n => Layer(e, k) = {}
<1> DEFINE Good == {k \in Nat : k >= n => Layer(e, k) = {}}
<1>1. 0 \in Good
  OBVIOUS
<1>2. ASSUME NEW k \in Nat, k \in Good PROVE k + 1 \in Good
  <2>1. CASE k + 1 = n
    BY <2>1
  <2>2. CASE k + 1 > n
    <3>1. k \in Nat \ {0} /\ Layer(e, k) = {}
      BY <1>2, <2>2
    <3>2. Children(Layer(e, k)) = {}
      BY <3>1 DEF Children
    <3>3. Layer(e, k + 1) = {}
      BY <3>1, <3>2, LayerNext
    <3> QED
      BY <3>3
  <2>3. CASE k + 1 < n
    BY <2>3
  <2> QED
    BY <2>1, <2>2, <2>3
<1> HIDE DEF Good
<1>3. \A k \in Nat : k \in Good
  BY <1>1, <1>2, NumberInduction
<1> QED
  BY <1>3 DEF Good

LEMMA WalkDown ==
  ASSUME experiments \in Seq(Row), NEW e \in Known
  PROVE  \E n : GenerationsOf(e, WalkDescendants(e), n)
<1>1. PICK f : Unwinds(f, Seq(SUBSET Experiments), DownStop, DownNext, DownEnd) /\ WalkDescendants(e) = f[<<{e}>>]
  <2>1. \E f : Unwinds(f, Seq(SUBSET Experiments), DownStop, DownNext, DownEnd)
    BY DownDescends, LoopExists
  <2>2. \E f : WalkedDown(f)
    BY <2>1, DownUnwinds
  <2>3. WalkedDown(CHOOSE f : WalkedDown(f))
    BY <2>2
  <2> QED
    BY <2>3, DownWalkIs, DownUnwinds
<1>2. LayersOf(e) \in SUBSET Seq(SUBSET Experiments)
  BY DEF LayersOf
<1>3. \A g \in LayersOf(e) \ DownStop : DownNext[g] \in LayersOf(e)
  BY LayersGrow
<1>4. <<{e}>> \in LayersOf(e)
  <2>1. {e} \in SUBSET Experiments
    BY KnownIs
  <2>2. <<{e}>> \in Seq(SUBSET Experiments)
    BY <2>1
  <2> QED
    BY <2>2 DEF LayersOf
<1>5. PICK g \in LayersOf(e) \cap DownStop : f[<<{e}>>] = DownEnd[g]
  BY <1>1, <1>2, <1>3, <1>4, DownDescends, LoopEnds
<1>6. PICK m, down : m = Len(g) /\ down = Tail(g)
  OBVIOUS
<1>7. g \in Seq(SUBSET Experiments) /\ g # << >> /\ \A k \in 2 .. m : g[k] = Layer(e, k - 1)
  BY <1>5, <1>6 DEF LayersOf
<1>8. m \in Nat \ {0} /\ Len(down) = m - 1 /\ down \in Seq(SUBSET Experiments) /\ \A i \in 1 .. m - 1 : down[i] = g[i + 1]
  BY <1>6, <1>7, TailIs
<1>9. PICK n \in Nat : n = m - 1
  BY <1>8
<1>10. DOMAIN down = 1 .. n
  BY <1>8, <1>9
<1>11. ASSUME NEW k \in 1 .. n PROVE down[k] = Layer(e, k)
  <2>1. k + 1 \in 2 .. m /\ (k + 1) - 1 = k /\ down[k] = g[k + 1]
    BY <1>8, <1>9
  <2> QED
    BY <1>7, <2>1
<1>12. Layer(e, m) = {}
  BY <1>5, <1>6, FreshIs DEF DownStop
<1>13. \A k \in Nat : k > n => Layer(e, k) = {}
  <2>1. \A k \in Nat : k >= m => Layer(e, k) = {}
    BY <1>8, <1>12, LayersEnd
  <2> QED
    BY <1>8, <1>9, <2>1
<1>14. WalkDescendants(e) = down
  BY <1>1, <1>5, <1>6, <1>7 DEF DownEnd
<1> QED
  BY <1>10, <1>11, <1>13, <1>14 DEF GenerationsOf

-----------------------------------------------------------------------------
(* What the walks say of each other.                                       *)

LEMMA LineageIs ==
  ASSUME NEW e
  PROVE  /\ ExperimentLineage(e).ancestors = WalkAncestors(e) /\ ExperimentLineage(e).descendants = WalkDescendants(e)
         /\ ExperimentLineage(e).cycle <=> Par(Last(<<e>> \o WalkAncestors(e))) \in Range(WalkAncestors(e))
  BY DEF ExperimentLineage, Par

LEMMA InverseHolds == experiments \in Seq(Row) => WalksAreInverse
<1> SUFFICES ASSUME experiments \in Seq(Row), NEW e \in Known, NEW d \in Known, NEW k \in 1 .. Len(experiments),
                    NEW up, up = ExperimentLineage(d).ancestors, NEW down, down = ExperimentLineage(e).descendants
             PROVE  (k \in DOMAIN up /\ up[k] = e) <=> (k \in DOMAIN down /\ d \in down[k])
  BY DEF WalksAreInverse
<1>0. up = WalkAncestors(d) /\ down = WalkDescendants(e)
  BY LineageIs
<1>1. PICK n : AncestorsOf(d, up, n)
  BY <1>0, KnownIs, WalkUp
<1>2. PICK m : GenerationsOf(e, down, m)
  BY <1>0, WalkDown
<1>3. k \in Nat \ {0}
  OBVIOUS
<1>4. (k \in 1 .. n /\ up[k] = e) <=> First(d, e, k)
  BY <1>1, <1>3, UpFirst
<1>5. (k \in 1 .. m /\ d \in down[k]) <=> First(d, e, k)
  <2>1. m \in Nat /\ (\A i \in 1 .. m : down[i] = Layer(e, i)) /\ \A i \in Nat : i > m => Layer(e, i) = {}
    BY <1>2 DEF GenerationsOf
  <2>2. d \in Layer(e, k) <=> First(d, e, k)
    BY DEF Layer
  <2>3. CASE k <= m
    <3>1. k \in 1 .. m
      BY <1>3, <2>1, <2>3
    <3> QED
      BY <2>1, <2>2, <3>1
  <2>4. CASE ~(k <= m)
    <3>1. k > m /\ k \notin 1 .. m
      BY <1>3, <2>1, <2>4
    <3> QED
      BY <1>3, <2>1, <2>2, <3>1
  <2> QED
    BY <2>3, <2>4
<1>6. DOMAIN up = 1 .. n /\ DOMAIN down = 1 .. m
  BY <1>1, <1>2 DEF AncestorsOf, GenerationsOf
<1> QED
  BY <1>4, <1>5, <1>6

\* To be one's own ancestor is to be on a circle.
LEMMA OwnAncestor ==
  ASSUME experiments \in Seq(Row), NEW a \in Known
  PROVE  a \in Range(WalkAncestors(a)) <=> \E k \in Nat \ {0} : StepsTo(a, a, k)
<1>1. PICK up, n : up = WalkAncestors(a) /\ AncestorsOf(a, up, n)
  BY KnownIs, WalkUp
<1>2. n \in Nat /\ DOMAIN up = 1 .. n
  BY <1>1 DEF AncestorsOf
<1>3. ASSUME a \in Range(up) PROVE \E k \in Nat \ {0} : StepsTo(a, a, k)
  <2>1. PICK k \in 1 .. n : up[k] = a
    BY <1>2, <1>3 DEF Range
  <2>2. k \in Nat \ {0}
    BY <1>2
  <2>3. First(a, a, k)
    BY <1>1, <2>1, <2>2, UpFirst
  <2> QED
    BY <2>2, <2>3 DEF First
<1>4. ASSUME NEW k \in Nat \ {0}, StepsTo(a, a, k) PROVE a \in Range(up)
  <2>1. PICK j \in 1 .. k : First(a, a, j)
    BY <1>4, FirstExists
  <2>2. j \in Nat \ {0}
    OBVIOUS
  <2>3. j \in 1 .. n /\ up[j] = a
    BY <1>1, <2>1, <2>2, UpFirst
  <2> QED
    BY <1>2, <2>3 DEF Range
<1> QED
  BY <1>1, <1>3, <1>4

\* A circle that is met is a circle.
LEMMA CircleCloses ==
  ASSUME NEW e, NEW up, NEW n, AncestorsOf(e, up, n), NEW j \in 1 .. n, Par(At(e, up, n)) = up[j]
  PROVE  StepsTo(up[j], up[j], (n - j) + 1)
<1>1. n \in Nat /\ \A k \in 1 .. n : up[k] \in Known /\ up[k] = Par(At(e, up, k - 1))
  BY DEF AncestorsOf
<1>2. PICK m \in Nat : m = n - j
  BY <1>1
<1>3. PICK q : q = [i \in 0 .. m + 1 |-> IF i <= m THEN up[j + i] ELSE up[j]]
  OBVIOUS
<1>4. ASSUME NEW i \in 0 .. m + 1 PROVE q[i] \in Known
  <2>1. CASE i <= m
    <3>1. j + i \in 1 .. n
      BY <1>1, <1>2, <2>1
    <3> QED
      BY <1>1, <1>3, <2>1, <3>1
  <2>2. CASE ~(i <= m)
    BY <1>1, <1>3, <2>2
  <2> QED
    BY <2>1, <2>2
<1>5. q[0] = up[j] /\ q[m + 1] = up[j]
  <2>1. 0 \in 0 .. m + 1 /\ 0 <= m /\ j + 0 = j /\ m + 1 \in 0 .. m + 1 /\ ~(m + 1 <= m)
    BY <1>1, <1>2
  <2> QED
    BY <1>3, <2>1
<1>6. ASSUME NEW i \in 1 .. m + 1 PROVE q[i] = Par(q[i - 1])
  <2>1. i \in 0 .. m + 1 /\ i - 1 \in 0 .. m + 1 /\ i - 1 <= m
    BY <1>2
  <2>2. q[i - 1] = up[j + (i - 1)]
    BY <1>3, <2>1
  <2>3. CASE i <= m
    <3>1. j + i \in 1 .. n /\ (j + i) - 1 = j + (i - 1) /\ j + (i - 1) # 0
      BY <1>1, <1>2, <2>3
    <3>2. q[i] = up[j + i]
      BY <1>3, <2>1, <2>3
    <3> QED
      BY <1>1, <2>2, <3>1, <3>2 DEF At
  <2>4. CASE ~(i <= m)
    <3>1. j + (i - 1) = n /\ n # 0
      BY <1>1, <1>2, <2>4
    <3>2. q[i] = up[j]
      BY <1>3, <2>1, <2>4
    <3> QED
      BY <2>2, <3>1, <3>2 DEF At
  <2> QED
    BY <2>3, <2>4
<1>7. Path(q, up[j], up[j], m + 1)
  BY <1>4, <1>5, <1>6 DEF Path
<1> QED
  BY <1>2, <1>7 DEF StepsTo

\* The way from an ancestor on is the rest of the way.
FollowsOn(p, k, up, n, j) == \A i \in Nat : i <= k /\ i <= n - j => p[i] = up[j + i]

LEMMA WayOn ==
  ASSUME NEW e, NEW up, NEW n, AncestorsOf(e, up, n), NEW j \in 1 .. n, NEW x, NEW k, NEW p, Path(p, up[j], x, k)
  PROVE  FollowsOn(p, k, up, n, j)
<1> DEFINE Good == {i \in Nat : i <= k /\ i <= n - j => p[i] = up[j + i]}
<1>1. n \in Nat /\ k \in Nat /\ p[0] = up[j] /\ \A i \in 1 .. k : p[i] = Par(p[i - 1])
  BY DEF AncestorsOf, Path
<1>2. \A i \in 1 .. n : up[i] = Par(At(e, up, i - 1))
  BY DEF AncestorsOf
<1>3. 0 \in Good
  <2>1. j + 0 = j
    BY <1>1
  <2> QED
    BY <1>1, <2>1
<1>4. ASSUME NEW i \in Nat, i \in Good PROVE i + 1 \in Good
  <2>1. CASE i + 1 <= k /\ i + 1 <= n - j
    <3>1. /\ i <= k /\ i <= n - j /\ i + 1 \in 1 .. k /\ (i + 1) - 1 = i
          /\ j + (i + 1) \in 1 .. n /\ (j + (i + 1)) - 1 = j + i /\ j + i # 0
      BY <1>1, <2>1
    <3>2. p[i] = up[j + i]
      BY <1>4, <3>1
    <3>3. up[j + (i + 1)] = Par(up[j + i])
      BY <1>2, <3>1 DEF At
    <3>4. p[i + 1] = Par(p[i])
      BY <1>1, <3>1
    <3> QED
      BY <3>2, <3>3, <3>4
  <2>2. CASE ~(i + 1 <= k /\ i + 1 <= n - j)
    BY <2>2
  <2> QED
    BY <2>1, <2>2
<1> HIDE DEF Good
<1>5. \A i \in Nat : i \in Good
  BY <1>3, <1>4, NumberInduction
<1> QED
  BY <1>5 DEF Good, FollowsOn

LEMMA CirclesHold == experiments \in Seq(Row) => CirclesAreReported
<1> SUFFICES ASSUME experiments \in Seq(Row), NEW e \in Known, NEW up, up = WalkAncestors(e)
             PROVE  Par(Last(<<e>> \o up)) \in Range(up) <=> \E a \in Range(up) : a \in Range(WalkAncestors(a))
  BY LineageIs DEF CirclesAreReported
<1>1. PICK n : AncestorsOf(e, up, n)
  BY KnownIs, WalkUp
<1>2. /\ n \in Nat /\ DOMAIN up = 1 .. n /\ \A k \in 1 .. n : up[k] \in Known
      /\ \A i, k \in 1 .. n : up[i] = up[k] => i = k
      /\ Par(At(e, up, n)) \notin Known \/ \E k \in 1 .. n : Par(At(e, up, n)) = up[k]
  BY <1>1 DEF AncestorsOf
<1>3. Last(<<e>> \o up) = At(e, up, n)
  <2>1. up \in Seq(Experiments) /\ Len(up) = n /\ e \in Experiments
    BY <1>1, <1>2, KnownIs DEF AncestorsOf
  <2>2. PICK s : s = <<e>> \o up
    OBVIOUS
  <2>3. <<e>> \in Seq(Experiments) /\ Len(<<e>>) = 1 /\ <<e>>[1] = e
    BY <2>1
  <2>4. /\ s \in Seq(Experiments) /\ Len(s) = n + 1 /\ s[1] = e
        /\ \A k \in 1 .. n : s[1 + k] = up[k]
    BY <1>2, <2>1, <2>2, <2>3
  <2>5. Last(s) = s[n + 1]
    BY <2>4 DEF Last
  <2>6. CASE n = 0
    BY <2>2, <2>4, <2>5, <2>6 DEF At
  <2>7. CASE n # 0
    <3>1. n \in 1 .. n /\ 1 + n = n + 1
      BY <1>2, <2>7
    <3> QED
      BY <2>2, <2>4, <2>5, <2>7, <3>1 DEF At
  <2> QED
    BY <2>6, <2>7
<1>4. ASSUME Par(At(e, up, n)) \in Range(up) PROVE \E a \in Range(up) : a \in Range(WalkAncestors(a))
  <2>1. PICK j \in 1 .. n : Par(At(e, up, n)) = up[j]
    BY <1>2, <1>4 DEF Range
  <2>2. StepsTo(up[j], up[j], (n - j) + 1) /\ (n - j) + 1 \in Nat \ {0}
    <3>1. (n - j) + 1 \in Nat \ {0}
      BY <1>2
    <3> QED
      BY <1>1, <2>1, <3>1, CircleCloses
  <2>3. up[j] \in Range(WalkAncestors(up[j]))
    BY <1>2, <2>2, OwnAncestor
  <2>4. up[j] \in Range(up)
    BY <1>2 DEF Range
  <2> QED
    BY <2>3, <2>4
<1>5. ASSUME NEW a \in Range(up), a \in Range(WalkAncestors(a)) PROVE Par(At(e, up, n)) \in Range(up)
  <2>1. PICK j \in 1 .. n : a = up[j]
    BY <1>2 DEF Range
  <2>2. PICK k \in Nat \ {0} : StepsTo(a, a, k)
    BY <1>2, <1>5, <2>1, OwnAncestor
  <2>3. PICK p : Path(p, up[j], up[j], k)
    BY <2>1, <2>2 DEF StepsTo
  <2>4. \A i \in Nat : i <= k /\ i <= n - j => p[i] = up[j + i]
    <3>1. FollowsOn(p, k, up, n, j)
      BY <1>1, <2>3, WayOn
    <3> QED
      BY <3>1 DEF FollowsOn
  <2>5. ~(k <= n - j)
    <3>1. ASSUME k <= n - j PROVE FALSE
      <4>1. k \in Nat /\ k <= k /\ j + k \in 1 .. n /\ j + k # j
        BY <1>2, <3>1
      <4>2. p[k] = up[j + k] /\ p[k] = up[j]
        BY <2>3, <2>4, <3>1, <4>1 DEF Path
      <4> QED
        BY <1>2, <4>1, <4>2
    <3> QED
      BY <3>1
  <2>6. PICK m \in Nat : m = n - j
    BY <1>2
  <2>7. m <= k /\ m <= n - j /\ m + 1 \in 1 .. k /\ m + 1 \in 0 .. k /\ (m + 1) - 1 = m /\ j + m = n /\ n # 0
    BY <1>2, <2>5, <2>6
  <2>8. p[m] = up[n]
    BY <2>4, <2>7
  <2>9. p[m + 1] = Par(up[n]) /\ p[m + 1] \in Known
    BY <2>3, <2>7, <2>8 DEF Path
  <2>10. PICK i \in 1 .. n : Par(At(e, up, n)) = up[i]
    BY <1>2, <2>7, <2>9 DEF At
  <2> QED
    BY <1>2, <2>10 DEF Range
<1> QED
  BY <1>3, <1>4, <1>5

-----------------------------------------------------------------------------
(* The research loop.                                                      *)

InsightEarned(insight) ==
    \E o \in Range(insight.outcomes) :
        /\ o.ok /\ o.sharpe /\ o.improvement_bps >= 0
        /\ insight.outcomes[insight.best].ok
        /\ insight.outcomes[insight.best].improvement_bps >= o.improvement_bps

\* The first of the greatest improvement is there.
LEMMA BestIs ==
  ASSUME NEW runs \in Seq(ExperimentOutcome), NEW i \in DOMAIN runs, runs[i].ok
  PROVE  LET b == BestOverall(runs)
         IN  b \in DOMAIN runs /\ runs[b].ok /\ runs[b].improvement_bps >= runs[i].improvement_bps
<1>1. PICK n \in Nat : DOMAIN runs = 1 .. n
  OBVIOUS
<1>2. \A k \in 1 .. n : runs[k].improvement_bps \in {-1, 0, 1}
  <2>1. \A k \in 1 .. n : runs[k] \in ExperimentOutcome
    BY <1>1
  <2> QED
    BY <2>1 DEF ExperimentOutcome
<1>3. PICK v : v = [k \in 1 .. n |-> runs[k].improvement_bps]
  OBVIOUS
<1> DEFINE Ended == {k \in 1 .. n : runs[k].ok}
           gaps == {1 - v[k] : k \in Ended}
<1>4. PICK top \in Ended : \A j \in Ended : v[j] <= v[top]
  <2>1. i \in Ended
    BY <1>1
  <2>2. \A k \in Ended : v[k] \in {-1, 0, 1}
    BY <1>2, <1>3
  <2>3. \A k \in Ended : 1 - v[k] \in Nat
    BY <2>2
  <2>4. gaps \in SUBSET Nat /\ 1 - v[i] \in gaps
    BY <2>1, <2>3
  <2>5. PICK least \in gaps : \A gap \in gaps : least <= gap
    BY <2>4, LeastNumber
  <2>6. PICK k \in Ended : least = 1 - v[k]
    BY <2>5
  <2>7. \A j \in Ended : 1 - v[k] <= 1 - v[j]
    BY <2>5, <2>6
  <2>8. \A j \in Ended : v[j] <= v[k]
    BY <2>2, <2>7
  <2> QED
    BY <2>8
<1>5. PICK T : T = {k \in 1 .. n : runs[k].ok /\ v[k] = v[top]}
  OBVIOUS
<1>6. T \in SUBSET Nat /\ top \in T
  BY <1>1, <1>4, <1>5
<1>7. PICK best \in T : \A k \in T : best <= k
  BY <1>6, LeastNumber
<1>8. best \in 1 .. n /\ runs[best].ok /\ v[best] = v[top]
  BY <1>5, <1>7
<1>9. ASSUME NEW j \in 1 .. n, runs[j].ok
      PROVE  v[j] < v[best] \/ (v[j] = v[best] /\ best <= j)
  <2>1. v[j] <= v[best] /\ v[j] \in Int /\ v[best] \in Int
    <3>1. j \in Ended /\ best \in Ended
      BY <1>8, <1>9
    <3>2. v[j] \in {-1, 0, 1} /\ v[best] \in {-1, 0, 1}
      BY <1>2, <1>3, <1>8
    <3> QED
      BY <1>4, <1>8, <3>1, <3>2
  <2>2. v[j] = v[best] => j \in T
    BY <1>5, <1>8, <1>9
  <2> QED
    BY <1>7, <2>1, <2>2
<1> DEFINE IsBest(k) ==
             /\ runs[k].ok
             /\ \A j \in DOMAIN runs : runs[j].ok =>
                   \/ runs[j].improvement_bps < runs[k].improvement_bps
                   \/ runs[j].improvement_bps = runs[k].improvement_bps /\ k <= j
<1>10. IsBest(best) /\ best \in DOMAIN runs
  BY <1>1, <1>3, <1>8, <1>9
<1>11. PICK b : b = BestOverall(runs)
  OBVIOUS
<1>12. b = CHOOSE k \in DOMAIN runs : IsBest(k)
  BY <1>11 DEF BestOverall
<1> HIDE DEF IsBest
<1>13. b \in DOMAIN runs /\ IsBest(b)
  BY <1>10, <1>12
<1>14. runs[b].ok /\ runs[b].improvement_bps >= runs[i].improvement_bps
  <2>1. b \in 1 .. n /\ i \in 1 .. n
    BY <1>1, <1>13
  <2>2. runs[b].improvement_bps \in Int /\ runs[i].improvement_bps \in Int
    BY <1>2, <2>1
  <2>3. \/ runs[i].improvement_bps < runs[b].improvement_bps
        \/ runs[i].improvement_bps = runs[b].improvement_bps
    BY <1>13 DEF IsBest
  <2> QED
    BY <1>13, <2>2, <2>3 DEF IsBest
<1> QED
  BY <1>11, <1>13, <1>14

LEMMA PromisingIsEarned ==
  ASSUME NEW claim, NEW runs \in Seq(ExperimentOutcome), Verdict(runs) = "promising"
  PROVE  InsightEarned(CandidateInsight(claim, runs))
<1>1. \E o \in Range(runs) : o.ok /\ Passed(o)
  BY DEF Verdict
<1>2. PICK i \in DOMAIN runs : runs[i].ok /\ Passed(runs[i])
  BY <1>1 DEF Range
<1>3. PICK insight : insight = CandidateInsight(claim, runs)
  OBVIOUS
<1>4. insight.outcomes = runs /\ insight.best = BestOverall(runs)
  BY <1>3 DEF CandidateInsight
<1>5. runs[insight.best].ok /\ runs[insight.best].improvement_bps >= runs[i].improvement_bps
  BY <1>2, <1>4, BestIs
<1>6. runs[i] \in Range(runs)
  BY DEF Range
<1> QED
  BY <1>2, <1>3, <1>4, <1>5, <1>6 DEF InsightEarned, Passed

\* A sequence of earned insights.
AllEarned(insights) == \E all : insights \in Seq(all) /\ \A x \in all : InsightEarned(x)

LEMMA EarnedGrows ==
  ASSUME NEW insights, AllEarned(insights), NEW x, InsightEarned(x)
  PROVE  AllEarned(Append(insights, x))
<1>1. PICK all : insights \in Seq(all) /\ \A y \in all : InsightEarned(y)
  BY DEF AllEarned
<1>2. insights \in Seq(all \cup {x}) /\ x \in all \cup {x}
  <2>1. insights = [k \in 1 .. Len(insights) |-> insights[k]] /\ Len(insights) \in Nat
    BY <1>1
  <2>2. \A k \in 1 .. Len(insights) : insights[k] \in all
    BY <1>1
  <2> QED
    BY <2>1, <2>2, SeqDef
<1>3. Append(insights, x) \in Seq(all \cup {x})
  BY <1>2
<1>4. \A y \in all \cup {x} : InsightEarned(y)
  BY <1>1
<1> QED
  BY <1>3, <1>4 DEF AllEarned

LEMMA NothingEarned == AllEarned(<< >>)
<1> DEFINE nothing == {}
<1>1. << >> \in Seq(nothing) /\ \A x \in nothing : InsightEarned(x)
  OBVIOUS
<1> HIDE DEF nothing
<1> QED
  BY <1>1 DEF AllEarned

\* A cycle of research.
IsCycle(c) ==
    /\ DOMAIN c = {"left", "claim", "outcomes", "insights", "rejected"}
    /\ c = [field \in DOMAIN c |-> c[field]]
    /\ c.outcomes \in Seq(ExperimentOutcome) /\ AllEarned(c.insights)

RegistryInv == experiments \in Seq(Row) /\ IsCycle(cycle)

LEMMA FieldSet ==
  ASSUME NEW c, IsCycle(c), NEW name \in {"left", "claim", "outcomes", "insights", "rejected"}, NEW value,
         name = "outcomes" => value \in Seq(ExperimentOutcome),
         name = "insights" => AllEarned(value)
  PROVE  IsCycle([c EXCEPT ![name] = value])
<1>1. PICK d : d = [c EXCEPT ![name] = value]
  OBVIOUS
<1>2. DOMAIN d = DOMAIN c /\ d = [field \in DOMAIN d |-> d[field]]
  BY <1>1 DEF IsCycle
<1>3. \A field \in DOMAIN c : d[field] = IF field = name THEN value ELSE c[field]
  BY <1>1 DEF IsCycle
<1>4. d.outcomes \in Seq(ExperimentOutcome) /\ AllEarned(d.insights)
  BY <1>3 DEF IsCycle
<1>5. IsCycle(d)
  BY <1>2, <1>4 DEF IsCycle
<1> QED
  BY <1>1, <1>5

LEMMA InvTraces == RegistryInv => ResearchIsTraceable
<1> SUFFICES ASSUME RegistryInv PROVE ResearchIsTraceable
  OBVIOUS
<1>1. experiments \in Seq(Row)
  BY DEF RegistryInv
<1>2. WalksAreInverse /\ CirclesAreReported
  BY <1>1, InverseHolds, CirclesHold
<1>3. AllEarned(cycle.insights)
  BY DEF RegistryInv, IsCycle
<1>4. PICK all : cycle.insights \in Seq(all) /\ \A x \in all : InsightEarned(x)
  BY <1>3 DEF AllEarned
<1>5. ASSUME NEW k \in DOMAIN cycle.insights PROVE InsightEarned(cycle.insights[k])
  BY <1>4
<1>6. InsightsAreEarned
  BY <1>5 DEF InsightsAreEarned, InsightEarned
<1> QED
  BY <1>2, <1>6 DEF ResearchIsTraceable

LEMMA RegistryStarts == RegistryInit => RegistryInv
<1> SUFFICES ASSUME RegistryInit PROVE RegistryInv
  OBVIOUS
<1>1. experiments \in Seq(Row)
  BY DEF RegistryInit
<1>2. IsCycle(NoCycle)
  BY NothingEarned DEF IsCycle, NoCycle
<1> QED
  BY <1>1, <1>2 DEF RegistryInit, RegistryInv

LEMMA TableKept ==
  ASSUME experiments \in Seq(Row), RegistryStep
  PROVE  experiments' \in Seq(Row) /\ cycle' = cycle
<1>1. ASSUME NEW e \in Experiments, NEW plan \in Plans, Register(e, plan)
      PROVE  experiments' \in Seq(Row) /\ cycle' = cycle
  <2>1. ExperimentRecord(e, plan) \in Row
    BY DEF ExperimentRecord, Row
  <2> QED
    BY <1>1, <2>1 DEF Register, Saved
<1>2. ASSUME NEW i \in DOMAIN experiments, NEW status \in {"done", "failed"}, RecordResult(i, status)
      PROVE  experiments' \in Seq(Row) /\ cycle' = cycle
  <2>1. PICK n \in Nat : DOMAIN experiments = 1 .. n /\ experiments \in [1 .. n -> Row]
    BY SeqDef
  <2>2. [experiments[i] EXCEPT !.status = status] \in Row
    <3>1. experiments[i] \in Row
      BY <2>1
    <3> QED
      BY <3>1 DEF Row
  <2>3. experiments' = [experiments EXCEPT ![i] = [experiments[i] EXCEPT !.status = status]] /\ cycle' = cycle
    BY <1>2 DEF RecordResult
  <2>4. experiments' \in [1 .. n -> Row]
    BY <2>1, <2>2, <2>3
  <2> QED
    BY <2>1, <2>3, <2>4, SeqDef
<1> QED
  BY <1>1, <1>2 DEF RegistryStep

LEMMA LoopKept ==
  ASSUME IsCycle(cycle), LoopStep
  PROVE  IsCycle(cycle') /\ experiments' = experiments
<1>1. ASSUME NEW count \in 1 .. MaxCandidates, RunCycle(count) PROVE IsCycle(cycle') /\ experiments' = experiments
  <2>1. IsCycle(NoCycle)
    BY NothingEarned DEF IsCycle, NoCycle
  <2>2. IsCycle([NoCycle EXCEPT !["left"] = count])
    BY <2>1, FieldSet
  <2> QED
    BY <1>1, <2>2 DEF RunCycle
<1>2. ASSUME NextHypothesis PROVE IsCycle(cycle') /\ experiments' = experiments
  <2>1. PICK new : new = Families[(cursor % Len(Families)) + 1]
    OBVIOUS
  <2>2. PICK fewer : fewer = [cycle EXCEPT !["left"] = cycle.left - 1]
    OBVIOUS
  <2>3. IsCycle(fewer) /\ fewer.rejected = cycle.rejected
    <3>1. IsCycle(fewer)
      BY <2>2, FieldSet
    <3> QED
      BY <2>2, <3>1 DEF IsCycle
  <2>4. cycle' = IF Studied(new) THEN [fewer EXCEPT !["rejected"] = fewer.rejected + 1]
                 ELSE [fewer EXCEPT !["claim"] = new]
    BY <1>2, <2>1, <2>2 DEF NextHypothesis
  <2>5. /\ IsCycle([fewer EXCEPT !["rejected"] = fewer.rejected + 1])
        /\ IsCycle([fewer EXCEPT !["claim"] = new])
    BY <2>3, FieldSet
  <2> QED
    BY <1>2, <2>4, <2>5 DEF NextHypothesis
<1>3. ASSUME NEW o \in ExperimentOutcome, RunExperiment(o) PROVE IsCycle(cycle') /\ experiments' = experiments
  <2>1. PICK runs : runs = Append(cycle.outcomes, o)
    OBVIOUS
  <2>2. runs \in Seq(ExperimentOutcome)
    BY <2>1 DEF IsCycle
  <2>3. PICK unclaimed : unclaimed = [cycle EXCEPT !["claim"] = "none"]
    OBVIOUS
  <2>4. PICK weighed : weighed = [unclaimed EXCEPT !["outcomes"] = << >>]
    OBVIOUS
  <2>5. IsCycle(unclaimed)
    BY <2>3, FieldSet
  <2>6. IsCycle(weighed)
    <3>1. << >> \in Seq(ExperimentOutcome)
      OBVIOUS
    <3> QED
      BY <2>4, <2>5, <3>1, FieldSet
  <2>7. CASE cycle' = [cycle EXCEPT !["outcomes"] = runs]
    <3>1. IsCycle([cycle EXCEPT !["outcomes"] = runs])
      BY <2>2, FieldSet
    <3> QED
      BY <1>3, <2>7, <3>1 DEF RunExperiment
  <2>8. CASE /\ Verdict(runs) = "promising"
             /\ cycle' = [weighed EXCEPT !["insights"] =
                            Append(weighed.insights, CandidateInsight(cycle.claim, runs))]
    <3>1. PICK claim, x : claim = cycle.claim /\ x = CandidateInsight(claim, runs)
      OBVIOUS
    <3>2. InsightEarned(x)
      BY <2>2, <2>8, <3>1, PromisingIsEarned
    <3>3. AllEarned(weighed.insights)
      BY <2>6 DEF IsCycle
    <3>4. AllEarned(Append(weighed.insights, x))
      BY <3>2, <3>3, EarnedGrows
    <3>5. IsCycle([weighed EXCEPT !["insights"] = Append(weighed.insights, x)])
      BY <2>6, <3>4, FieldSet
    <3> QED
      BY <1>3, <2>8, <3>1, <3>5 DEF RunExperiment
  <2>9. CASE cycle' = weighed
    BY <1>3, <2>6, <2>9 DEF RunExperiment
  <2>10. \/ cycle' = [cycle EXCEPT !["outcomes"] = runs]
         \/ /\ Verdict(runs) = "promising"
            /\ cycle' = [weighed EXCEPT !["insights"] =
                           Append(weighed.insights, CandidateInsight(cycle.claim, runs))]
         \/ cycle' = weighed
    <3>1. weighed = [cycle EXCEPT !.claim = "none", !.outcomes = << >>]
      BY <2>3, <2>4
    <3>2. PICK going, surfaced : /\ going = [cycle EXCEPT !.outcomes = runs]
                                 /\ surfaced = [weighed EXCEPT !.insights =
                                                  Append(@, CandidateInsight(cycle.claim, runs))]
      OBVIOUS
    <3>3. cycle' = CASE Len(runs) < experiments_per_hypothesis -> going
                     [] Len(runs) = experiments_per_hypothesis /\ Verdict(runs) = "promising" -> surfaced
                     [] OTHER -> weighed
      BY <1>3, <2>1, <3>1, <3>2 DEF RunExperiment
    <3>4. cycle' = going \/ (Verdict(runs) = "promising" /\ cycle' = surfaced) \/ cycle' = weighed
      BY <3>3
    <3> QED
      BY <3>2, <3>4
  <2> QED
    BY <2>7, <2>8, <2>9, <2>10
<1> QED
  BY <1>1, <1>2, <1>3 DEF LoopStep

\* What the research reports is what the registry and the runs say: the walks
\* over the lineage are each other's inverse, a circle is reported by everyone
\* above it, and an insight names a run that did no worse than one that cleared
\* both bars (experiment_lineage_service.py:70, 103, research_loop.py:127).
THEOREM ResearchTraced ==
  RegistryInit /\ [][RegistryStep \/ LoopStep]_registryVars => []ResearchIsTraceable
<1>1. RegistryInit => RegistryInv
  BY RegistryStarts
<1>2. RegistryInv /\ [RegistryStep \/ LoopStep]_registryVars => RegistryInv'
  <2> SUFFICES ASSUME RegistryInv, [RegistryStep \/ LoopStep]_registryVars PROVE RegistryInv'
    OBVIOUS
  <2>1. CASE RegistryStep
    BY <2>1, TableKept DEF RegistryInv
  <2>2. CASE LoopStep
    BY <2>2, LoopKept DEF RegistryInv
  <2>3. CASE UNCHANGED registryVars
    BY <2>3 DEF registryVars, RegistryInv
  <2> QED
    BY <2>1, <2>2, <2>3
<1> QED
  BY <1>1, <1>2, InvTraces, PTL
=============================================================================
