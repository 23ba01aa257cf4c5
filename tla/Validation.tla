----------------------------- MODULE Validation -----------------------------
(***************************************************************************)
(* From a frozen series of prices to training and test sets: LabelEngine   *)
(* makes samples, with features of the past and a label of the records     *)
(* that follow, and the purged splitters divide them by the intervals of   *)
(* their labels.  Several records may have one source time.                *)
(***************************************************************************)
EXTENDS Integers, FiniteSets, FiniteSetsExt, Sequences, SequencesExt, Collections

CONSTANTS
    PriceLevels,        \* prices a record may have
    Clocks,             \* source times of a series, in order
    MaxHorizon,         \* bound on a label's horizon
    MaxSplits           \* bound on the number of folds

ASSUME ValidationAssumption ==
    /\ \A clock \in Clocks : clock \in Seq(Nat \ {0}) /\ \A i, j \in DOMAIN clock : i <= j => clock[i] <= clock[j]
    /\ MaxHorizon \in Nat /\ MaxSplits \in Nat

\* Multiples are 1 here; a distance of 0 is no fallback.
LabelDefinition ==
    [kind : {"fixed_horizon"}, horizon : 1 .. MaxHorizon]
        \cup [kind : {"triple_barrier"}, horizon : 1 .. MaxHorizon, volatility_lookback : {2},
              profit_distance : 0 .. 1, loss_distance : 0 .. 1]

Designs ==
    [method : {"purged_kfold"}, n_splits : 2 .. MaxSplits, embargo : 0 .. 1]
        \cup [method : {"walk_forward"}, train_size : 1 .. 2, test_size : 1 .. 2, step_size : 1 .. 2,
              expanding : BOOLEAN, embargo : 0 .. 1]
        \cup [method : {"combinatorial"}, n_splits : {MaxSplits}, n_test_groups : 1 .. MaxSplits - 1,
              embargo : 0 .. 1]

VARIABLES
    study,          \* the series, and what is asked of it
    samples,        \* what LabelEngine.generate returned
    folds,          \* what split returned: the positions to train and to test on
    stage           \* "frozen", "labelled", "split" or "refused"

validationVars == <<study, samples, folds, stage>>

Unlabelled == [label |-> "none"]

\* _std over the trailing window, squared and times the square of its length:
\* the squared differences of its pairs.
Spread(window) ==
    MapThenSumSet(LAMBDA pair : (window[pair[1]] - window[pair[2]]) * (window[pair[1]] - window[pair[2]]),
                  {pair \in (DOMAIN window) \X (DOMAIN window) : pair[1] < pair[2]})

Trailing(st, i) == SubSeq(st.prices, IF i > st.definition.volatility_lookback
                                     THEN i - st.definition.volatility_lookback ELSE 1, i - 1)

\* A move of d prices reaches a barrier: a multiple of the volatility away, or,
\* where there is none, at the absolute distance.
Reaches(d, window, distance) ==
    IF Spread(window) > 0 THEN d > 0 /\ Len(window) * Len(window) * d * d >= Spread(window) ELSE d >= distance

\* TripleBarrierConfig refuses a barrier without a distance, the upper and the
\* lower, for the whole series.  It is made before LabelEngine's own check for a
\* missing distance (label_engine.py:211), which therefore never skips a sample.
ConfigRaises(st, i) ==
    LET d == st.definition
    IN  /\ d.kind = "triple_barrier" /\ i + d.horizon <= Len(st.prices)
        /\ Spread(Trailing(st, i)) = 0 /\ (d.profit_distance = 0 \/ d.loss_distance = 0)

\* A mutant of the two: the label says that it ends a record earlier.
Labelled_Early(st, i, value, steps) ==
    [label |-> value, label_start |-> st.times[i], label_end |-> st.times[i + steps - 1]]

Labelled(st, i, value, steps) ==
    [label |-> value, label_start |-> st.times[i], label_end |-> st.times[i + steps]]

FixedHorizon(st, i) ==
    LET now == st.prices[i]
        then == st.prices[i + st.definition.horizon]
    IN  Labelled(st, i, IF then > now THEN 1 ELSE IF then < now THEN -1 ELSE 0, st.definition.horizon)

\* The first barrier that is touched, the upper before the lower, and at the
\* horizon the vertical one.
TripleBarrier(st, i) ==
    LET d == st.definition
        window == Trailing(st, i)
        up(s) == Reaches(st.prices[i + s] - st.prices[i], window, d.profit_distance)
        down(s) == Reaches(st.prices[i] - st.prices[i + s], window, d.loss_distance)
        exit == Min({s \in 1 .. d.horizon : up(s) \/ down(s) \/ s = d.horizon})
    IN  Labelled(st, i, IF up(exit) THEN 1 ELSE IF down(exit) THEN -1 ELSE 0, exit)

LabelFor(st, i) ==
    IF i + st.definition.horizon > Len(st.prices) THEN Unlabelled
    ELSE IF st.definition.kind = "fixed_horizon" THEN FixedHorizon(st, i) ELSE TripleBarrier(st, i)

\* _features_prior_to: of all records at or before the decision's source time.
Features(st, i) ==
    LET last == Max({j \in DOMAIN st.times : st.times[j] <= st.times[i]})
    IN  [price |-> st.prices[last], n_prior |-> last,
         previous |-> IF last > 1 THEN st.prices[last - 1] ELSE 0]

Starts(st) == {i \in DOMAIN st.prices : (i - 1) % st.sample_every = 0}

Generated(st) ==
    LET labelled == Ascending({i \in Starts(st) : LabelFor(st, i) # Unlabelled})
    IN  [k \in DOMAIN labelled |->
            [sample_index |-> labelled[k], decision_time |-> st.times[labelled[k]],
             features |-> Features(st, labelled[k]), window |-> LabelFor(st, labelled[k])]]

ValidationInit ==
    /\ study \in UNION {[times : {clock}, prices : [DOMAIN clock -> PriceLevels], definition : LabelDefinition,
                         sample_every : 1 .. 2, design : Designs] : clock \in Clocks}
    /\ samples = << >> /\ folds = {} /\ stage = "frozen"

Generate ==
    /\ stage = "frozen"
    /\ IF \E i \in Starts(study) : ConfigRaises(study, i)
       THEN stage' = "refused" /\ UNCHANGED samples
       ELSE stage' = "labelled" /\ samples' = Generated(study)
    /\ UNCHANGED <<study, folds>>

-----------------------------------------------------------------------------
TestStart(taken, test) == Min({taken[k].window.label_start : k \in test})
TestEnd(taken, test) == Max({taken[k].window.label_end : k \in test})

purge_and_embargo(taken, train, test, embargo) ==
    {k \in train : \/ taken[k].window.label_end < TestStart(taken, test)
                   \/ taken[k].window.label_start >= TestEnd(taken, test) + embargo}

\* A mutant of purge_before_test: the training samples before the test ones.
purge_before_test_Not(taken, train, test, embargo) == train

purge_before_test(taken, train, test, embargo) ==
    {k \in train : taken[k].window.label_end <= TestStart(taken, test) - embargo}

\* The i-th of k folds of n; the last has the rest.
Fold(n, k, i) == (i - 1) * (n \div k) + 1 .. (IF i < k THEN i * (n \div k) ELSE n)

\* PurgedKFold and CombinatorialPurgedCV: the groups tested together.
Grouped(taken, design, sizes) ==
    LET fold(i) == Fold(Len(taken), design.n_splits, i)
    IN  {LET test == UNION {fold(i) : i \in group}
         IN  [test |-> test,
              train |-> purge_and_embargo(taken, DOMAIN taken \ test, test, design.embargo)]
         : group \in {g \in SUBSET (1 .. design.n_splits) : Cardinality(g) = sizes}}

\* WalkForwardCV
Walked(taken, design) ==
    LET fold(start) ==
            LET test == start + 1 .. start + design.test_size
                train == (IF design.expanding \/ start < design.train_size THEN 1
                          ELSE start - design.train_size + 1) .. start
            IN  [test |-> test, train |-> purge_before_test(taken, train, test, design.embargo)]
    IN  {fold(start) : start \in {s \in design.train_size .. Len(taken) :
                                    /\ (s - design.train_size) % design.step_size = 0
                                    /\ s + design.test_size <= Len(taken)}}

Splits(taken, design) ==
    CASE design.method = "purged_kfold" -> Grouped(taken, design, 1)
      [] design.method = "combinatorial" ->
            {f \in Grouped(taken, design, design.n_test_groups) : f.train # {}}
      [] design.method = "walk_forward" -> Walked(taken, design)

Split ==
    /\ stage = "labelled"
    /\ IF study.design.method # "walk_forward" /\ Len(samples) < study.design.n_splits
       THEN stage' = "refused" /\ UNCHANGED folds
       ELSE stage' = "split" /\ folds' = Splits(samples, study.design)
    /\ UNCHANGED <<study, samples>>

ValidationStep == Generate \/ Split

-----------------------------------------------------------------------------
\* The study with one price changed, at a record of a period.
Perturbed(from, to) ==
    {[study EXCEPT !.prices[j] = price] :
        j \in {i \in DOMAIN study.times : from <= study.times[i] /\ study.times[i] <= to}, price \in PriceLevels}

Sound(st) == \A i \in Starts(st) : ~ConfigRaises(st, i)

\* A label that looks back for its volatility looks no further than after a time.
LooksBackTo(s) ==
    IF study.definition.kind = "fixed_horizon" THEN s.window.label_start
    ELSE study.times[Max({1, s.sample_index - study.definition.volatility_lookback})]

\* What a model is trained on does not depend on the prices it is tested on.  A
\* walk-forward training set, features and labels, is the same whatever happens
\* after the moment its test period begins; a K-fold or combinatorial one keeps
\* its labels whatever happens in the test period, its last moment excepted, save
\* for a volatility that looks back into it (purged_cv.py:52-96,
\* label_engine.py:56-60).
LeakFree ==
    stage = "split" =>
        \A f \in folds :
            LET from == TestStart(samples, f.test)
                to == TestEnd(samples, f.test)
            IN  /\ f.train \cap f.test = {}
                /\ study.design.method = "walk_forward" =>
                      \A other \in {o \in Perturbed(from + 1, Max(Range(study.times))) : Sound(o)} :
                          \A k \in f.train : Generated(other)[k] = samples[k]
                /\ study.design.method # "walk_forward" =>
                      \A other \in {o \in Perturbed(from, to - 1) : Sound(o)} :
                          \A k \in f.train :
                              LET s == samples[k]
                              IN  s.window.label_start < from \/ LooksBackTo(s) >= to =>
                                    LabelFor(other, s.sample_index) = s.window

\* "Its features are computed only from records whose source time precedes that
\* moment, and its label is computed strictly from the horizon records that
\* follow it" (label_engine.py:57-59): no record is in both.
FeaturesPrecedeLabel ==
    \A k \in DOMAIN samples : samples[k].features.n_prior <= samples[k].sample_index
=============================================================================
