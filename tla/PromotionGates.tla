--------------------------- MODULE PromotionGates ---------------------------
(***************************************************************************)
(* The gates of the promotion engine and what is judged with them beside   *)
(* paper campaigns: canary campaigns, the capital ramp, and the program    *)
(* that strings the stages together.                                       *)
(***************************************************************************)
EXTENDS Integers, Sequences

CONSTANTS
    paper_period_days_min, canary_period_days_min,
    EvidenceDays        \* paper and canary days a candidate may come with

Environments == {"research", "validation", "paper", "canary", "production"}

\* Evidence by its gates: a figure that is missing does not pass its gate, and
\* neither does one below its floor.  Days are counted.
CandidateEvidence ==
    [validation_samples : BOOLEAN, validation_sharpe : BOOLEAN,
     paper_days : EvidenceDays, paper_sharpe : BOOLEAN, canary_days : EvidenceDays]

\* A monitor by its stay limits: which of them it is above.
DeploymentMonitor == [failed_orders : BOOLEAN, drawdown : BOOLEAN, underperformance : BOOLEAN]

rollback_required(m) == m.failed_orders \/ m.drawdown \/ m.underperformance

\* A mutant of missing: production asks for its own window only.
missing_OwnOnly(target, e) ==
    {r \in {"validation sample count", "validation sharpe"} : target = "paper" /\
        ~(IF r = "validation sharpe" THEN e.validation_sharpe ELSE e.validation_samples)} \cup
    {r \in {"canary deployment window"} : target = "production" /\
        e.canary_days < canary_period_days_min} \cup
    {r \in {"paper deployment window"} : target = "canary" /\ e.paper_days < paper_period_days_min}

\* The requirements of the cumulative chain that the evidence leaves open.
missing(target, e) ==
    LET gate(requirement, targets, met) ==
            IF target \in targets /\ ~met THEN {requirement} ELSE {}
    IN  gate("validation sample count", {"paper", "canary", "production"}, e.validation_samples) \cup
        gate("validation sharpe", {"paper", "canary", "production"}, e.validation_sharpe) \cup
        gate("paper deployment window", {"canary", "production"},
             e.paper_days >= paper_period_days_min) \cup
        gate("paper sharpe", {"canary", "production"}, e.paper_sharpe) \cup
        gate("canary deployment window", {"production"}, e.canary_days >= canary_period_days_min)

allowed(target, e) == missing(target, e) = {}
=============================================================================
