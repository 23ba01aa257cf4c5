----------------------------- MODULE CapitalRamp -----------------------------
(***************************************************************************)
(* After paper: a canary campaign, period by period, the program that      *)
(* strings the stages together, and the ramp of capital.  They share no    *)
(* state; the code runs each on demand.                                    *)
(***************************************************************************)
EXTENDS PromotionGates, SequencesExt

CONSTANTS
    campaign_days,          \* CanaryHarnessConfig
    floor_fraction, step_fraction, max_fraction, hold_periods, max_periods

ASSUME RampAssumption ==
    /\ campaign_days \in Nat \ {0} /\ hold_periods \in Nat \ {0} /\ max_periods \in Nat \ {0}
    /\ floor_fraction \in Nat /\ step_fraction \in Nat /\ max_fraction \in Nat
    /\ floor_fraction <= max_fraction

ProgramStages == <<"research", "validation", "paper", "canary", "production">>
StageVerdicts == {"passed", "held", "failed", "skipped", "no runner"}

VARIABLES
    canary,     \* the canary campaign: [pc, day, evidence, authorized] and its result
    program,    \* the program run: next stage, stages so far, stage earned
    ramp,       \* the ramp: [period, fraction, streak, boundary]
    breaches    \* history: periods of the canary campaign that broke a stay limit

rampVars == <<canary, program, ramp, breaches>>

RampInit ==
    /\ canary = [pc |-> "idle"]
    /\ program = [results |-> << >>, earned |-> "research", over |-> FALSE]
    /\ ramp = [period |-> 0, fraction |-> floor_fraction, streak |-> 0, boundary |-> "ramping"]
    /\ breaches = {}

\* CanaryHarness.run refuses to start unless the operator authorized it.
StartCanary(authorized, e) ==
    /\ canary.pc = "idle"
    /\ canary' = IF authorized
                 THEN [pc |-> "period", day |-> 1, evidence |-> e, authorized |-> TRUE]
                 ELSE [pc |-> "refused"]
    /\ UNCHANGED <<program, ramp, breaches>>

\* One monitored period; after the last one the gate of production is asked,
\* with the evidence the campaign began with.
CanaryPeriod(m) ==
    /\ canary.pc = "period"
    /\ breaches' = IF rollback_required(m) THEN breaches \cup {canary.day} ELSE breaches
    /\ canary' =
           IF rollback_required(m) THEN [canary EXCEPT !.pc = "retired"]
           ELSE IF canary.day < campaign_days THEN [canary EXCEPT !.day = @ + 1]
           ELSE [canary EXCEPT !.pc = IF allowed("production", canary.evidence)
                                      THEN "production_ready" ELSE "hold"]
    /\ UNCHANGED <<program, ramp>>

\* A mutant of Stops: a held stage does not stop the program.
Stops_Failed(verdict) == verdict = "failed"

\* The verdicts that end a program run; a stage that is skipped, or has no
\* runner, does not.
Stops(verdict) == verdict \in {"held", "failed"}

\* AutonomyProgram.run, one stage; the stages after the last one are recorded
\* as not reached.
RunStage(verdict) ==
    LET done == Len(program.results)
    IN  /\ ~program.over
        /\ program' = [results |-> Append(program.results, verdict),
                       earned |-> IF verdict = "passed" THEN ProgramStages[done + 1]
                                  ELSE program.earned,
                       over |-> Stops(verdict) \/ done + 1 = Len(ProgramStages)]
        /\ UNCHANGED <<canary, ramp, breaches>>

\* A tier is earned: the fraction grows by a step, up to the ceiling.
Earned(r) ==
    [r EXCEPT !.fraction = IF @ + step_fraction < max_fraction THEN @ + step_fraction
                           ELSE max_fraction,
              !.streak = 0]

\* GradualScalingRunner.run, one period: a breach cuts to the floor and ends
\* the ramp, a clean period at the ceiling ends it, hold_periods of them in a
\* row earn a tier.
ScalePeriod(m) ==
    LET clean == [ramp EXCEPT !.period = @ + 1, !.streak = @ + 1]
    IN  /\ ramp.boundary = "ramping" /\ ramp.period < max_periods
        /\ ramp' =
               CASE rollback_required(m) ->
                        [clean EXCEPT !.fraction = floor_fraction, !.boundary = "cut"]
                 [] ~rollback_required(m) /\ ramp.fraction >= max_fraction ->
                        [clean EXCEPT !.boundary = "capped"]
                 [] OTHER -> IF clean.streak >= hold_periods THEN Earned(clean) ELSE clean
        /\ UNCHANGED <<canary, program, breaches>>

CanaryStep ==
    \/ \E authorized \in BOOLEAN, e \in CandidateEvidence : StartCanary(authorized, e)
    \/ \E m \in DeploymentMonitor : CanaryPeriod(m)

ProgramStep == \E verdict \in StageVerdicts : RunStage(verdict)

ScaleStep == \E m \in DeploymentMonitor : ScalePeriod(m)

-----------------------------------------------------------------------------
\* Production is offered to a candidate whose canary was authorized, survived
\* every period, and whose evidence passes the gates of paper and canary too
\* (promotion_engine.py:52-56).
ReadyIsEarned ==
    canary.pc = "production_ready" =>
        /\ canary.authorized /\ breaches = {} /\ canary.day = campaign_days
        /\ \A target \in {"paper", "canary"} : allowed(target, canary.evidence)

\* No stage is earned at or beyond one that held or failed; research is where
\* every candidate stands.
ProgramStopsAtFailure ==
    \A i \in DOMAIN program.results : program.results[i] \in {"held", "failed"} =>
        \A j \in DOMAIN ProgramStages : j >= i /\ j > 1 => program.earned # ProgramStages[j]

\* Exposure stays below the operator's ceiling and within what the clean periods
\* so far have earned, hold_periods for each step.
ExposureIsEarned ==
    /\ ramp.fraction <= max_fraction
    /\ ramp.fraction <= floor_fraction + step_fraction * (ramp.period \div hold_periods)

NothingUnearned == ReadyIsEarned /\ ProgramStopsAtFailure /\ ExposureIsEarned
=============================================================================
