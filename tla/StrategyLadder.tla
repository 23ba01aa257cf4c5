--------------------------- MODULE StrategyLadder ---------------------------
(***************************************************************************)
(* A strategy's passport and who may change it: the evidence engine        *)
(* (verdict, lifecycle, attached campaign results), the edge monitor, the  *)
(* death system that demotes and retires, and the two allocators that give *)
(* capital.  One process works at a time (the command line); it may die    *)
(* between the two writes of one change, ledger event then snapshot.       *)
(***************************************************************************)
EXTENDS Integers, FiniteSets, SequencesExt

CONSTANTS
    Ids,                \* passport ids
    Reports,            \* out-of-sample reports an evaluation may produce
    Worked,             \* bound: passports that change after they were issued
    RivalReports,       \* bound: reports of the others
    MaxEvents,          \* bound on the lifecycle events of one passport
    MaxObservations,    \* bound on the returns fed to one edge monitor
    MaxTorn,            \* bound on the torn passports that a crash may find
    min_observations, cooldown_observations,
    min_ladder_candidates, min_score

\* The two chains of the code, in step (edge_monitor.py:43-49).
StatusChain == <<"research", "candidate", "paper", "canary", "live">>
ENVIRONMENT_CHAIN == <<"research", "validation", "paper", "canary", "production">>

Statuses == Range(StatusChain) \cup {"retired"}
NoEnvironment == "none"

\* What a report says, by the gates that read it.  A Deflated Sharpe is unknown
\* with fewer than four folds (decision_pipeline_evaluator.py:417).
Report ==
    [pbo : {"none", "low", "high"}, dsr : {"unknown", "negative", "positive"},
     folds : Nat, positive_folds : BOOLEAN, beats_hold : BOOLEAN, shallow : BOOLEAN,
     excess : Int]

\* Passports are numbered in the order of their ids.
ASSUME IdsAssumption == Ids \subseteq Nat \ {0} /\ IsFiniteSet(Ids) /\ Worked \subseteq Ids
ASSUME ReportsAssumption ==
    /\ Reports \subseteq Report /\ RivalReports \subseteq Reports
    /\ \A r \in Reports : r.folds < 4 => r.dsr = "unknown"

\* A passport as its row keeps it; paper_evidence and live_evidence hold one
\* record each, of the kind that was written last.
StrategyPassport ==
    [status : Statuses, verdict : {"reject", "observe", "promote_to_paper"},
     evidence : Reports, paper_evidence : {"none", "retired", "completed"},
     live_evidence : {"none", "canary_retired", "canary_completed", "calibration", "rollback"}]

NoPassport == [status |-> "none"]
EventTypes == {"status_change", "evidence_update", "paper_campaign_update", "canary_update",
               "calibration_update", "rollback_update"}
PassportLifecycleEvent == [event_type : EventTypes, from : Statuses, to : Statuses]

VARIABLES
    passport,       \* strategy_passports
    ledger,         \* passport_lifecycle_events of each passport
    writer,         \* the change under way: its snapshot is still to be written
    monitor,        \* EdgeMonitorService, in memory
    torn            \* history: passports whose last event lost its snapshot

ladderVars == <<passport, ledger, writer, monitor, torn>>

Idle == [passport |-> 0]        \* by IdsAssumption no id is 0
NoMonitor == [observations |-> 0]

LadderInit ==
    /\ passport = [p \in Ids |-> NoPassport]
    /\ ledger = [p \in Ids |-> << >>]
    /\ writer = Idle
    /\ monitor = [p \in Ids |-> NoMonitor]
    /\ torn = {}

Issued(p) == passport[p] # NoPassport

-----------------------------------------------------------------------------
(* The evidence engine.                                                    *)

\* The first gate that fails decides; an unknown Sharpe is asked second.
verdict_for_evidence(r) ==
    CASE r.pbo = "high" -> "reject"
      [] r.pbo # "high" /\ r.dsr = "negative" -> "reject"
      [] r.pbo # "high" /\ r.dsr = "unknown" -> "observe"
      [] OTHER -> IF r.positive_folds /\ r.beats_hold /\ r.shallow THEN "promote_to_paper"
                  ELSE "reject"

\* save_passport refuses an id that exists.
issue_passport(p, r) ==
    /\ writer = Idle /\ ~Issued(p)
    /\ passport' = [passport EXCEPT ![p] =
           [status |-> IF verdict_for_evidence(r) = "reject" THEN "retired" ELSE "candidate",
            verdict |-> verdict_for_evidence(r), evidence |-> r,
            paper_evidence |-> "none", live_evidence |-> "none"]]
    /\ UNCHANGED <<ledger, writer, monitor, torn>>

\* A mutant of Alive: a retired passport may be written again.
Alive_Any(p) == Issued(p)

\* _require_alive
Alive(p) == Issued(p) /\ passport[p].status # "retired"

\* A mutant of AppendEvent: the event ends in the status it began with.
AppendEvent_Same(p, type, snapshot, then) ==
    /\ Len(ledger[p]) < MaxEvents
    /\ ledger' = [ledger EXCEPT ![p] = Append(@,
           [event_type |-> type, from |-> passport[p].status, to |-> passport[p].status])]
    /\ writer' = [passport |-> p, snapshot |-> snapshot, then |-> then]

\* The first of the two writes: the event.  The snapshot follows in Replace.
AppendEvent(p, type, snapshot, then) ==
    /\ Len(ledger[p]) < MaxEvents
    /\ ledger' = [ledger EXCEPT ![p] = Append(@,
           [event_type |-> type, from |-> passport[p].status, to |-> snapshot.status])]
    /\ writer' = [passport |-> p, snapshot |-> snapshot, then |-> then]

transition(p, to) ==
    /\ writer = Idle /\ Alive(p)
    /\ AppendEvent(p, "status_change", [passport[p] EXCEPT !.status = to], "nothing")
    /\ UNCHANGED <<passport, monitor, torn>>

\* A mutant of Reverdict: the evidence is replaced, the verdict is kept.
Reverdict_Kept(old, r) ==
    [old EXCEPT !.evidence = r,
                !.status = IF verdict_for_evidence(r) = "reject" THEN "retired" ELSE @]

\* The snapshot of a new evaluation round.
Reverdict(old, r) ==
    [old EXCEPT !.evidence = r, !.verdict = verdict_for_evidence(r),
                !.status = IF verdict_for_evidence(r) = "reject" THEN "retired" ELSE @]

rerecord_evidence(p, r) ==
    /\ writer = Idle /\ Alive(p)
    /\ AppendEvent(p, "evidence_update", Reverdict(passport[p], r), "nothing")
    /\ UNCHANGED <<passport, monitor, torn>>

record_paper_campaign(p, action) ==
    /\ writer = Idle /\ Alive(p)
    /\ AppendEvent(p, "paper_campaign_update",
                   [passport[p] EXCEPT !.paper_evidence = action], "nothing")
    /\ UNCHANGED <<passport, monitor, torn>>

\* The live section is replaced by the record of the canary campaign.
record_canary(p, action) ==
    /\ writer = Idle /\ Alive(p)
    /\ AppendEvent(p, "canary_update",
                   [passport[p] EXCEPT !.live_evidence = action], "nothing")
    /\ UNCHANGED <<passport, monitor, torn>>

\* The live section is replaced by a calibration report.
record_calibration(p) ==
    /\ writer = Idle /\ Alive(p)
    /\ AppendEvent(p, "calibration_update",
                   [passport[p] EXCEPT !.live_evidence = "calibration"], "nothing")
    /\ UNCHANGED <<passport, monitor, torn>>

\* The second write, the snapshot.  DeathSystemService.apply goes on to
\* record_rollback, which asks only that the passport exists.
Replace ==
    LET p == writer.passport
    IN  /\ writer # Idle /\ writer.then # "rollback_event"
        /\ passport' = [passport EXCEPT ![p] = writer.snapshot]
        /\ torn' = torn \ {p}
        /\ writer' = IF writer.then = "record_rollback"
                     THEN [writer EXCEPT !.then = "rollback_event"] ELSE Idle
        /\ UNCHANGED <<ledger, monitor>>

record_rollback ==
    LET p == writer.passport
    IN  /\ writer # Idle /\ writer.then = "rollback_event"
        /\ AppendEvent(p, "rollback_update",
                       [passport[p] EXCEPT !.live_evidence = "rollback"], "nothing")
        /\ UNCHANGED <<passport, monitor, torn>>

\* The process dies: the change under way loses what was not written, the edge
\* monitors are gone.
Crash ==
    /\ Cardinality(torn) <= MaxTorn
    /\ torn' = IF writer # Idle /\ writer.then # "rollback_event"
               THEN torn \cup {writer.passport} ELSE torn
    /\ writer' = Idle
    /\ monitor' = [p \in Ids |-> NoMonitor]
    /\ UNCHANGED <<passport, ledger>>

-----------------------------------------------------------------------------
(* The edge monitor.  ADWIN is in ResearchAlgorithms; here it says whether *)
(* this return cut the window (drifted) and whether what is left pays.     *)

\* _verdict on a monitor's counters.
edge_verdict(m) ==
    CASE m.observations < min_observations -> "insufficient"
      [] m.observations >= min_observations /\ m.paying ->
             IF m.drifted THEN "watching" ELSE "healthy"
      [] OTHER -> IF m.drifted \/ m.decayed THEN "decayed" ELSE "watching"

\* EdgeMonitorService.record.  The mark of a decay is set by the first decay
\* and by no later state reset.
record(p, drifted, paying) ==
    LET m == monitor[p]
        now == [observations |-> m.observations + 1, drifted |-> drifted, paying |-> paying,
                decayed |-> m # NoMonitor /\ m.decayed,
                triggered_at |-> IF m = NoMonitor THEN 0 ELSE m.triggered_at]
    IN  /\ writer = Idle /\ Issued(p)
        /\ m.observations < MaxObservations
        /\ monitor' = [monitor EXCEPT ![p] =
               [now EXCEPT !.decayed = @ \/ edge_verdict(now) = "decayed"]]
        /\ UNCHANGED <<passport, ledger, writer, torn>>

reset(p) ==
    /\ writer = Idle /\ monitor[p] # NoMonitor
    /\ monitor' = [monitor EXCEPT ![p] = NoMonitor]
    /\ UNCHANGED <<passport, ledger, writer, torn>>

Rung(status) == CHOOSE i \in DOMAIN StatusChain : StatusChain[i] = status

\* environment_for_status and status_for_environment, a bijection.
environment_for_status(status) == ENVIRONMENT_CHAIN[Rung(status)]
status_for_environment(environment) ==
    StatusChain[CHOOSE i \in DOMAIN ENVIRONMENT_CHAIN : ENVIRONMENT_CHAIN[i] = environment]

previous_environment(environment) ==
    LET i == CHOOSE j \in DOMAIN ENVIRONMENT_CHAIN : ENVIRONMENT_CHAIN[j] = environment
    IN  IF i = 1 THEN NoEnvironment ELSE ENVIRONMENT_CHAIN[i - 1]

\* demotion_trigger: a decay verdict out of its cooldown, read with the
\* passport's status.
Triggered(p) ==
    LET m == monitor[p]
    IN  /\ m # NoMonitor /\ edge_verdict(m) = "decayed"
        /\ \/ m.triggered_at = 0
           \/ m.observations >= m.triggered_at + cooldown_observations

-----------------------------------------------------------------------------
(* The death system.                                                       *)

Severity(action) == CASE action = "stay" -> 0 [] action = "degrade" -> 1
                      [] action = "demote" -> 2 [] action = "retire" -> 3

\* _campaign_breach_reasons
CampaignRetired(pp) == pp.paper_evidence = "retired" \/ pp.live_evidence = "canary_retired"

\* The edge monitor's candidate: one step down, at the bottom death.
EdgeCandidate(pp) ==
    LET target == previous_environment(environment_for_status(pp.status))
    IN  [action |-> IF target = NoEnvironment THEN "retire" ELSE "degrade", to |-> target]

\* A mutant of CampaignCandidate: from the second rung, up to the third.
CampaignCandidate_Up(pp) ==
    LET environment == environment_for_status(pp.status)
        one == previous_environment(environment)
    IN  IF one = NoEnvironment THEN [action |-> "retire", to |-> NoEnvironment]
        ELSE [action |-> "demote",
              to |-> IF previous_environment(one) = NoEnvironment THEN "paper"
                     ELSE previous_environment(one)]

\* The campaigns' candidate: two steps down; with one step left, no step.
CampaignCandidate(pp) ==
    LET environment == environment_for_status(pp.status)
        one == previous_environment(environment)
    IN  IF one = NoEnvironment THEN [action |-> "retire", to |-> NoEnvironment]
        ELSE [action |-> "demote",
              to |-> IF previous_environment(one) = NoEnvironment THEN environment
                     ELSE previous_environment(one)]

\* evaluate: the harshest action wins.  Of equal actions the targets agree.
evaluate(pp, triggered) ==
    LET candidates == (IF triggered THEN {EdgeCandidate(pp)} ELSE {}) \cup
                      (IF CampaignRetired(pp) THEN {CampaignCandidate(pp)} ELSE {})
    IN  IF pp.status = "retired" \/ candidates = {}
        THEN [action |-> "stay", to |-> NoEnvironment]
        ELSE CHOOSE c \in candidates : \A d \in candidates : Severity(d.action) <= Severity(c.action)

\* _status_for_decision
StatusFor(decision) ==
    IF decision.action = "retire" \/ decision.to = NoEnvironment THEN "retired"
    ELSE status_for_environment(decision.to)

\* The monitor is asked, the verdict is computed and applied.  An advisory is
\* remembered by the monitor whatever becomes of it.
apply(p) ==
    LET decision == evaluate(passport[p], Triggered(p))
    IN  /\ writer = Idle /\ Issued(p)
        /\ monitor' = IF Triggered(p)
                      THEN [monitor EXCEPT ![p].triggered_at = monitor[p].observations]
                      ELSE monitor
        /\ IF decision.action = "stay" THEN UNCHANGED <<ledger, writer>>
           ELSE AppendEvent(p, "status_change",
                            [passport[p] EXCEPT !.status = StatusFor(decision)], "record_rollback")
        /\ UNCHANGED <<passport, torn>>

LadderStep ==
    \/ \E p \in Ids \ Worked, r \in RivalReports : issue_passport(p, r)
    \/ \E p \in Worked :
          \/ \E r \in Reports : issue_passport(p, r) \/ rerecord_evidence(p, r)
          \/ \E to \in Statuses : transition(p, to)
          \/ \E action \in {"retired", "completed"} : record_paper_campaign(p, action)
          \/ \E action \in {"canary_retired", "canary_completed"} : record_canary(p, action)
          \/ record_calibration(p) \/ reset(p) \/ apply(p)
          \/ \E drifted, paying \in BOOLEAN : record(p, drifted, paying)
    \/ Replace
    \/ record_rollback
    \/ Crash

-----------------------------------------------------------------------------
(* What reads the passports: the population and the two allocators.        *)

\* member_from_passport: a member is real when its evidence has folds.
Real(p) == Issued(p) /\ passport[p].evidence.folds > 0

\* The order of the competition ladder: mean excess, Deflated Sharpe, id.
SharpeKey(e) == CASE e.dsr = "positive" -> 2 [] e.dsr = "negative" -> 1 [] OTHER -> 0

Before(p, q) ==
    LET e == passport[p].evidence  f == passport[q].evidence
    IN  \/ e.excess > f.excess
        \/ e.excess = f.excess /\ SharpeKey(e) > SharpeKey(f)
        \/ e.excess = f.excess /\ SharpeKey(e) = SharpeKey(f) /\ p < q

PlaceOf(p, real) == Cardinality({q \in real : Before(q, p)}) + 1

\* registry: no ladder below its minimum of real members.  Retired passports
\* compete as the others do.
registry ==
    LET real == {p \in Ids : Real(p)}
    IN  IF Cardinality(real) < min_ladder_candidates THEN << >>
        ELSE [rank \in 1 .. Cardinality(real) |-> CHOOSE p \in real : PlaceOf(p, real) = rank]

\* composition: the members of each status, for enough real members.
composition ==
    IF Cardinality({p \in Ids : Real(p)}) < min_ladder_candidates THEN [s \in Statuses |-> 0]
    ELSE [s \in Statuses |-> Cardinality({p \in Ids : Issued(p) /\ passport[p].status = s})]

\* CapitalAllocationService._verdict
Eligible(p) ==
    /\ Real(p) /\ passport[p].status # "retired"
    /\ passport[p].verdict = "promote_to_paper"
    /\ passport[p].evidence.excess >= min_score

\* EnsembleAllocator._profiles and _series_complete: who competes, of those with
\* an estimate of their volatility and a return series.
Competes(p, volatility, series) ==
    /\ Issued(p) /\ passport[p].verdict = "promote_to_paper"
    /\ passport[p].status # "retired"
    /\ p \in volatility /\ p \in series

\* MeasuredResearchLoop.quality of the passports a loop issued, read from the
\* ledger as it is now; without passports there is no rate.
quality(issued) ==
    LET there == {p \in issued : Issued(p)}
        verdicts(v) == {p \in there : passport[p].verdict = v}
    IN  [alive |-> {p \in there : passport[p].status # "retired"},
         dead |-> {p \in there : passport[p].status = "retired"},
         promoted |-> verdicts("promote_to_paper"), observed |-> verdicts("observe"),
         rejected |-> verdicts("reject"), rate_known |-> there # {}]

\* CapitalAllocationService.plan and rebalance: what is held of a passport that
\* is not eligible is sold.
rebalance(held) ==
    [p \in held |-> IF Eligible(p) THEN "resize" ELSE "exit"]

-----------------------------------------------------------------------------
\* The ledger replays to the snapshot: its last event ends in the snapshot's
\* status, except while that snapshot is being written, and after a crash
\* between the two, when the snapshot is one event behind (evidence_engine.py
\* writes event and snapshot in two transactions).
LedgerExplains ==
    \A p \in Ids : ledger[p] # << >> =>
        IF p \in torn \/ writer.passport = p
        THEN passport[p].status \in {Last(ledger[p]).from, Last(ledger[p]).to}
        ELSE passport[p].status = Last(ledger[p]).to

GatesBehindCapital ==
    \A p \in Ids : Eligible(p) =>
        LET e == passport[p].evidence
        IN  e.pbo # "high" /\ e.dsr = "positive" /\ e.positive_folds /\ e.beats_hold /\ e.shallow

AllocatorsAgree ==
    \A p \in Ids : Eligible(p) <=>
        Competes(p, Ids, Ids) /\ passport[p].evidence.excess >= min_score

\* What is bought or kept is alive and has its place in the ladder.
CapitalIsRanked ==
    /\ \A p \in Ids : rebalance(Ids)[p] = "resize" =>
          passport[p].status # "retired" /\ (registry # << >> => p \in Range(registry))
    /\ \A s \in Statuses : composition[s] <= Cardinality({p \in Ids : Issued(p)})

\* A loop is never credited with a survivor that the gates rejected, and who can
\* be given capital is a survivor that was promoted.
QualityIsHonest ==
    \A issued \in SUBSET Ids :
        LET q == quality(issued)
        IN  /\ q.rejected \cap q.alive = {} /\ q.alive \cup q.dead = q.promoted \cup q.observed \cup q.rejected
            /\ q.rate_known <=> q.alive \cup q.dead # {}
            /\ \A p \in issued : Eligible(p) => p \in q.alive \cap q.promoted

\* Capital goes to evidence that passed every gate, however often the evidence
\* was recorded anew; the two allocators, written apart, choose the same
\* passports above the floor, and a loop's score counts no rejected survivor
\* (capital_allocator.py:160, ensemble_allocator.py:157, measured_loop.py:137).
CapitalFollowsEvidence == GatesBehindCapital /\ AllocatorsAgree /\ CapitalIsRanked /\ QualityIsHonest

RetiredStays(p) == Issued(p) /\ passport[p].status = "retired" => passport'[p].status = "retired"

Descends(from, to) == to = "retired" \/ (from # "retired" /\ Rung(to) <= Rung(from))

\* Nothing brings a retired passport back, and what the death system decides
\* never leads up the chain (death_system.py:79, passport.py:40-42).
DeathIsFinal ==
    [][\A p \in Ids :
          /\ RetiredStays(p)
          /\ Len(ledger'[p]) > Len(ledger[p]) /\ writer'.then = "record_rollback" =>
                 Descends(passport[p].status, ledger'[p][Len(ledger'[p])].to)]_ladderVars

\* What a document says and the code does not: of two signals the harsher action
\* wins and two signals never soften a decision (domain/death_system.py:21-25).
TwoSignalsNeverSoften ==
    \A p \in Ids : Alive(p) /\ CampaignRetired(passport[p]) =>
        LET alone == StatusFor(EdgeCandidate(passport[p]))
            both == StatusFor(evaluate(passport[p], TRUE))
        IN  Descends(alone, both)
=============================================================================
