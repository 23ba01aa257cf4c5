------------------------- MODULE ExperimentRegistry -------------------------
(***************************************************************************)
(* The registry of experiments, the walk over their lineage, and the       *)
(* research loop that asks the registry whether a claim is new, runs its   *)
(* experiments and surfaces what the evidence supports.                    *)
(***************************************************************************)
EXTENDS Integers, FiniteSets, Sequences, SequencesExt

CONSTANTS
    Experiments,        \* experiment ids
    Plans,              \* experiments that may be registered: claim, dataset, group, parent
    Families,           \* claims of the generator's catalog, in order
    Alike,              \* pairs of claims, one a prefix of the other and at least 24 letters long
    experiments_per_hypothesis,
    MaxCandidates       \* bound on the hypotheses of one cycle

NoParent == "none"

\* One run: has it ended, does its Sharpe clear the floor, and its improvement,
\* whose floor is 0.
ExperimentOutcome == [ok : BOOLEAN, sharpe : BOOLEAN, improvement_bps : {-1, 0, 1}]

VARIABLES
    experiments,        \* the table experiments, in the order of registration
    final_tests,        \* the table final_test_claims
    cursor,             \* HypothesisGenerator._cursor
    cycle               \* the cycle under way

registryVars == <<experiments, final_tests, cursor, cycle>>

NoCycle == [left |-> 0, claim |-> "none", outcomes |-> << >>, insights |-> << >>, rejected |-> 0]

RegistryInit == experiments = << >> /\ final_tests = {} /\ cursor = 0 /\ cycle = NoCycle

Known == {experiments[i].id : i \in DOMAIN experiments}
Get(e) == experiments[CHOOSE i \in DOMAIN experiments : experiments[i].id = e]

-----------------------------------------------------------------------------
ExperimentRecord(e, plan) ==
    [id |-> e, claim |-> plan.claim, parent |-> plan.parent, status |-> "running"]

\* claim_final_test
Claimed(plan) ==
    IF plan.group = "final_test" THEN final_tests \cup {plan.dataset} ELSE final_tests

\* save: an id that exists is refused.
Saved(record) == IF record.id \in Known THEN experiments ELSE Append(experiments, record)

\* A final test claims its dataset before it is saved, and keeps it when the
\* save is refused; tuning and validation are refused on a claimed one.
Register(e, plan) ==
    /\ plan.group = "final_test" \/ plan.dataset \notin final_tests
    /\ final_tests' = Claimed(plan)
    /\ experiments' = Saved(ExperimentRecord(e, plan))
    /\ UNCHANGED <<cursor, cycle>>

\* complete and fail: a record that is closed stays so.
RecordResult(i, status) ==
    /\ experiments[i].status = "running"
    /\ experiments' = [experiments EXCEPT ![i].status = status]
    /\ UNCHANGED <<final_tests, cursor, cycle>>

-----------------------------------------------------------------------------
(* ExperimentLineageService.                                               *)

\* A mutant of WalkAncestors: the experiment asked about counts as visited.
WalkAncestors_RootVisited(e) ==
    LET walk[chain \in Seq(Experiments)] ==
            LET parent == Get(Last(chain)).parent
            IN  IF parent \notin Known \/ parent \in Range(chain) THEN Tail(chain)
                ELSE walk[Append(chain, parent)]
    IN  walk[<<e>>]

\* _walk_ancestors: the parents, nearest first, until one is missing or comes
\* again.
WalkAncestors(e) ==
    LET walk[chain \in Seq(Experiments)] ==
            LET parent == Get(Last(chain)).parent
            IN  IF parent \notin Known \/ parent \in Range(Tail(chain)) THEN Tail(chain)
                ELSE walk[Append(chain, parent)]
    IN  walk[<<e>>]

Children(generation) == {c \in Known : Get(c).parent \in generation}

\* _walk_descendants: generation after generation, each record in the first one
\* it appears in.
WalkDescendants(e) ==
    LET walk[generations \in Seq(SUBSET Experiments)] ==
            LET new == Children(Last(generations)) \ UNION Range(Tail(generations))
            IN  IF new = {} THEN Tail(generations) ELSE walk[Append(generations, new)]
    IN  walk[<<{e}>>]

ExperimentLineage(e) ==
    LET up == WalkAncestors(e)
        stop == Get(Last(<<e>> \o up)).parent
    IN  [ancestors |-> up, descendants |-> WalkDescendants(e),
         dangling_parent |-> Get(e).parent # NoParent /\ Get(e).parent \notin Known,
         cycle |-> stop \in Range(up), cycle_ids |-> IF stop \in Range(up) THEN Range(up) ELSE {}]

-----------------------------------------------------------------------------
(* The research loop.                                                      *)

Studied(claim) ==
    \E i \in DOMAIN experiments :
        /\ experiments[i].status = "done"
        /\ experiments[i].claim = claim \/ <<experiments[i].claim, claim>> \in Alike

RunCycle(count) ==
    /\ cycle.left = 0 /\ cycle.claim = "none"
    /\ cycle' = [NoCycle EXCEPT !.left = count]
    /\ UNCHANGED <<experiments, final_tests, cursor>>

\* The next hypothesis of the catalog, which starts over; a studied one is
\* rejected.
NextHypothesis ==
    LET claim == Families[(cursor % Len(Families)) + 1]
    IN  /\ cycle.left > 0 /\ cycle.claim = "none"
        /\ cursor' = (cursor + 1) % Len(Families)
        /\ cycle' = IF Studied(claim) THEN [cycle EXCEPT !.left = @ - 1, !.rejected = @ + 1]
                    ELSE [cycle EXCEPT !.left = @ - 1, !.claim = claim]
        /\ UNCHANGED <<experiments, final_tests>>

Passed(o) == o.ok /\ o.sharpe /\ o.improvement_bps >= 0

\* _summarize
Verdict(outcomes) ==
    LET completed == {o \in Range(outcomes) : o.ok}
    IN  CASE \E o \in completed : Passed(o) -> "promising"
          [] completed # {} /\ \A o \in completed : ~o.sharpe /\ o.improvement_bps < 0 -> "refuted"
          [] OTHER -> "inconclusive"

\* The experiment an insight names: the first of the greatest improvement.
BestOverall(outcomes) ==
    CHOOSE k \in DOMAIN outcomes :
        /\ outcomes[k].ok
        /\ \A j \in DOMAIN outcomes : outcomes[j].ok =>
              \/ outcomes[j].improvement_bps < outcomes[k].improvement_bps
              \/ outcomes[j].improvement_bps = outcomes[k].improvement_bps /\ k <= j

CandidateInsight(claim, outcomes) ==
    [claim |-> claim, outcomes |-> outcomes, best |-> BestOverall(outcomes)]

\* One run of the hypothesis; after the last one the evidence is weighed.
RunExperiment(o) ==
    LET outcomes == Append(cycle.outcomes, o)
        weighed == [cycle EXCEPT !.claim = "none", !.outcomes = << >>]
    IN  /\ cycle.claim # "none"
        /\ cycle' = CASE Len(outcomes) < experiments_per_hypothesis ->
                             [cycle EXCEPT !.outcomes = outcomes]
                      [] Len(outcomes) = experiments_per_hypothesis /\ Verdict(outcomes) = "promising" ->
                             [weighed EXCEPT !.insights = Append(@, CandidateInsight(cycle.claim, outcomes))]
                      [] OTHER -> weighed
        /\ UNCHANGED <<experiments, final_tests, cursor>>

RegistryStep ==
    \/ \E e \in Experiments, plan \in Plans : Register(e, plan)
    \/ \E i \in DOMAIN experiments, status \in {"done", "failed"} : RecordResult(i, status)

LoopStep ==
    \/ \E count \in 1 .. MaxCandidates : RunCycle(count)
    \/ NextHypothesis
    \/ \E o \in ExperimentOutcome : RunExperiment(o)

-----------------------------------------------------------------------------
\* The two walks are each other's inverse, distance included, whatever is
\* dangling and whatever names itself in a circle: d is in the k-th generation
\* after e exactly when e is the k-th ancestor of d.
WalksAreInverse ==
    \A e, d \in Known :
        LET up == ExperimentLineage(d).ancestors
            down == ExperimentLineage(e).descendants
        IN  \A k \in 1 .. Len(experiments) :
                (k \in DOMAIN up /\ up[k] = e) <=> (k \in DOMAIN down /\ d \in down[k])

\* A circle is reported by everyone above it, and the circle is then complete:
\* someone on it is his own ancestor.
CirclesAreReported ==
    \A e \in Known :
        LET lineage == ExperimentLineage(e)
        IN  lineage.cycle <=> \E a \in Range(lineage.ancestors) : a \in Range(WalkAncestors(a))

\* An insight rests on an experiment that cleared both bars, and names one that
\* did no worse.
InsightsAreEarned ==
    \A k \in DOMAIN cycle.insights :
        LET insight == cycle.insights[k]
        IN  \E o \in Range(insight.outcomes) :
                /\ o.ok /\ o.sharpe /\ o.improvement_bps >= 0
                /\ insight.outcomes[insight.best].ok
                /\ insight.outcomes[insight.best].improvement_bps >= o.improvement_bps

\* What the research reports is what the registry and the runs say
\* (experiment_lineage_service.py:70, 103, research_loop.py:127).
ResearchIsTraceable == WalksAreInverse /\ CirclesAreReported /\ InsightsAreEarned

\* What a document says and the code does not: cycle_ids lists the ids on the
\* loop (experiment_lineage.py:46); those that lead to it are listed too.
LoopIdsAreTheLoop ==
    \A e \in Known : \A i \in ExperimentLineage(e).cycle_ids : i \in Range(WalkAncestors(i))

\* What a document says and the code does not: the loop spends its budget on new
\* questions (research_loop.py:15-17); a catalog shorter than the budget gives a
\* claim twice in one cycle, and nothing of the first run is in the registry
\* unless the runner put it there.
ClaimsAreNew ==
    \A j, k \in DOMAIN cycle.insights :
        cycle.insights[j].claim = cycle.insights[k].claim => j = k
=============================================================================
