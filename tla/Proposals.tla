------------------------------ MODULE Proposals ------------------------------
(***************************************************************************)
(* What the reasoners make of a market context, and of a model's reply:    *)
(* the rule-based solver, the quant scorer, and the three adapters that    *)
(* turn the reply of a language model into a proposal.  All are functions  *)
(* of their inputs.  Sizes and distances are in thousandths, confidence in *)
(* hundredths; a feature or plan that may be missing is << >> or <<value>>.*)
(***************************************************************************)
EXTENDS Integers, Sequences

CONSTANTS
    Rates, Deviations,      \* rates of change and deviations a context may hold
    Sizes, Confidences,     \* numbers a model may write for the two
    momentum_entry, volatility_cap, base_size, max_size,
    stop_multiple, min_stop, default_stop, max_stop, risk_reward

\* The settings of the reasoners (SolverConfig, QuantScorerConfig) are positive, a
\* size is no more than the account, and the default stop has the floor's room;
\* a deviation is not negative.
ASSUME ReasonersAssumption ==
    /\ Rates \subseteq Int /\ Deviations \subseteq Nat
    /\ Sizes \subseteq Int /\ Confidences \subseteq Int
    /\ momentum_entry \in Int /\ volatility_cap \in Int
    /\ base_size \in 1 .. 1000 /\ max_size \in base_size .. 1000
    /\ stop_multiple \in Nat /\ min_stop \in Nat \ {0} /\ max_stop \in Nat
    /\ default_stop \in min_stop .. max_stop
    /\ risk_reward \in Nat \ {0} /\ 3 <= risk_reward * max_stop

Maybe(S) == {<< >>} \cup {<<v>> : v \in S}
Least(a, b) == IF a < b THEN a ELSE b
Most(a, b) == IF a > b THEN a ELSE b
Magnitude(x) == IF x < 0 THEN -x ELSE x

\* The features that the reasoners read.
MarketContext ==
    [trend : {"none", "flat", "up", "down"}, momentum : Maybe(Rates), volume : {"none", "thin", "full"},
     volatility : Maybe(Deviations)]

\* A model's reply, as parsed JSON: a number that is there, absent, or words; a
\* size may be written "50%".
Reply ==
    [action : {"enter_long", "exit", "stand_aside", "hold", "bogus"},
     size : {<<"absent", 0>>, <<"words", 0>>, <<"percent", 0>>} \cup {<<"number", v>> : v \in Sizes},
     confidence : {<<"absent", 0>>, <<"words", 0>>} \cup {<<"number", v>> : v \in Confidences},
     plan : {"absent", "bracket", "bare", "invalid"}]

RISK_INCREASING == {"enter_long", "enter_short", "scale_in"}

\* A stop or target of 0 is not defined.
PreTradePlan == [stop : 0 .. max_stop, target : 0 .. risk_reward * max_stop]
HasBracket(plan) == plan # << >> /\ plan[1].stop > 0 /\ plan[1].target > 0

\* The fields that the risk gate and the simulator read, in the ranges a
\* proposal and its actions are checked for when they are made.
DecisionProposal ==
    [action : RISK_INCREASING \cup {"exit", "stand_aside", "scale_out", "reduce_risk"},
     size : 1 .. 1000, confidence : 0 .. 100, plan : Seq(PreTradePlan)]

\* No proposal: the adapter raises.
Raised == [action |-> "raised", size |-> 0, confidence |-> 0, plan |-> << >>]

StandAside == [action |-> "stand_aside", size |-> 100, confidence |-> 50, plan |-> << >>]

\* A mutant of stop_distance_from_volatility: no floor.
stop_distance_from_volatility_Bare(deviation) ==
    IF deviation = << >> THEN default_stop ELSE Least(max_stop, stop_multiple * deviation[1])

stop_distance_from_volatility(deviation) ==
    IF deviation # << >> /\ deviation[1] > 0
    THEN Least(max_stop, Most(min_stop, stop_multiple * deviation[1]))
    ELSE default_stop

bracket_plan(stop) == <<[stop |-> stop, target |-> risk_reward * stop]>>

-----------------------------------------------------------------------------
(* RuleBasedSolver                                                         *)

\* Trend and a material rate of change that point the same way.
Direction(c) ==
    CASE c.momentum = << >> -> "none"
      [] c.momentum # << >> /\ c.trend = "up" /\ c.momentum[1] > 0
            /\ c.momentum[1] >= momentum_entry -> "enter_long"
      [] c.momentum # << >> /\ c.trend = "down" /\ c.momentum[1] < 0
            /\ -c.momentum[1] >= momentum_entry -> "enter_short"
      [] OTHER -> "none"

\* What volume and volatility, when they are there, veto.
Vetoed(c) == c.volume = "thin" \/ (c.volatility # << >> /\ c.volatility[1] > volatility_cap)

\* Half, and up to 0.45 more with the strength of the signal.
SolverConfidence(rate) ==
    Least(95, 50 + (40 * Least(Magnitude(rate) + 1, 2 * Magnitude(rate))) \div (Magnitude(rate) + 1))

Solver(c) ==
    IF Direction(c) = "none" \/ Vetoed(c) THEN [StandAside EXCEPT !.size = base_size]
    ELSE [action |-> Direction(c), size |-> base_size,
          confidence |-> SolverConfidence(c.momentum[1]),
          plan |-> bracket_plan(stop_distance_from_volatility(c.volatility))]

-----------------------------------------------------------------------------
(* QuantMomentumScorer                                                     *)

\* Any sign of momentum, sized by its strength.  The deviation it looks up,
\* std_dev_pct, is in no feature: the stop is always the default.
Scorer(c) ==
    IF c.momentum = << >> \/ c.momentum = <<0>> THEN [StandAside EXCEPT !.size = base_size]
    ELSE [action |-> IF c.momentum[1] > 0 THEN "enter_long" ELSE "enter_short",
          size |-> Least(max_size, base_size * (1 + Magnitude(c.momentum[1]))),
          confidence |-> 50,
          plan |-> bracket_plan(stop_distance_from_volatility(<< >>))]

-----------------------------------------------------------------------------
(* SmartFallbackReasoner._proposal_from_dict, AiOmniRouteReasoner's, and   *)
(* PydanticAIReasoner's output schema                                      *)

\* The model's own plan, or a bracket from the volatility; only for more risk.
PlanOf(r, c, action) ==
    CASE action \notin RISK_INCREASING -> << >>
      [] action \in RISK_INCREASING /\ r.plan = "bracket" -> <<[stop |-> 1, target |-> 3]>>
      [] action \in RISK_INCREASING /\ r.plan = "bare" -> <<[stop |-> 0, target |-> 0]>>
      [] OTHER -> bracket_plan(stop_distance_from_volatility(c.volatility))

PlanRaises(r, action) == action \in RISK_INCREASING /\ r.plan = "invalid"

\* A size that is no number is 0.10, and "50%" is 0.10 of a hundredth.
OmegaSize(size, action) ==
    LET written == CASE size[1] = "number" -> size[2] [] size[1] = "percent" -> 1 [] OTHER -> 100
        clamped == IF action \in {"stand_aside", "exit", "reduce_risk"} \/ written > 1000
                   THEN Least(Most(written, 10), 1000) ELSE written
    IN  IF clamped <= 0 THEN 100 ELSE clamped

OmegaConfidence(confidence) ==
    LET written == IF confidence[1] = "number" THEN confidence[2] ELSE 50
        scaled == IF written > 100 THEN written \div 100 ELSE written
    IN  Least(Most(scaled, 1), 99)

\* The tolerant adapter: "hold" stands aside, odd numbers are put right.
OmegaProposal(r, c) ==
    LET action == IF r.action = "hold" THEN "stand_aside" ELSE r.action
    IN  IF action = "bogus" \/ r.confidence[1] = "absent" \/ PlanRaises(r, action) THEN Raised
        ELSE [action |-> action, size |-> OmegaSize(r.size, action),
              confidence |-> OmegaConfidence(r.confidence), plan |-> PlanOf(r, c, action)]

\* The strict adapter: what is not a number in range raises.
OmniProposal(r, c) ==
    IF \/ r.action \in {"hold", "bogus"} \/ PlanRaises(r, r.action)
       \/ r.size[1] \in {"words", "percent"} \/ r.confidence[1] # "number"
       \/ r.size[1] = "number" /\ r.size[2] \notin 1 .. 1000
       \/ r.confidence[2] \notin 1 .. 100
    THEN Raised
    ELSE [action |-> r.action, size |-> IF r.size[1] = "absent" THEN 100 ELSE r.size[2],
          confidence |-> r.confidence[2], plan |-> PlanOf(r, c, r.action)]

\* The schema is checked before the proposal is built, and holds no plan.
PydanticAccepts(r) ==
    /\ r.action \notin {"hold", "bogus"} /\ r.size[1] = "number" /\ r.confidence[1] = "number"
    /\ r.size[2] \in 1 .. 1000 /\ r.confidence[2] \in 0 .. 100

PydanticProposal(r, c) ==
    IF ~PydanticAccepts(r) THEN Raised
    ELSE [action |-> r.action, size |-> r.size[2], confidence |-> r.confidence[2],
          plan |-> PlanOf([r EXCEPT !.plan = "absent"], c, r.action)]

\* Every failure of the two that stand alone stands aside.
Answer(proposal) == IF proposal = Raised THEN StandAside ELSE proposal

\* The decision pipeline scales the size with the confidence.
ConfidenceScaled(p) ==
    LET scaled == Least(1000, (p.size * (50 + p.confidence)) \div 100)
    IN  IF p.confidence = 50 THEN p.size ELSE Most(10, scaled)

-----------------------------------------------------------------------------
VARIABLES context, reply, answers   \* what was asked, and each reasoner's answer

proposalVars == <<context, reply, answers>>

ProposalInit == context \in MarketContext /\ reply \in Reply /\ answers = << >>

Reasoners == {"solver", "scorer", "omega", "omni", "pydantic"}

AskAll ==
    /\ answers = << >>
    /\ answers' = [who \in Reasoners |->
           CASE who = "solver" -> Solver(context) [] who = "scorer" -> Scorer(context)
             [] who = "omega" -> OmegaProposal(reply, context)
             [] who = "omni" -> Answer(OmniProposal(reply, context))
             [] who = "pydantic" -> Answer(PydanticProposal(reply, context))]
    /\ UNCHANGED <<context, reply>>

Bounded(p) ==
    p # Raised => p \in DecisionProposal /\ ConfidenceScaled(p) \in 1 .. 1000

\* A proposal that adds risk has a bracket the gate takes, unless the model
\* wrote a plan of its own; then the gate refuses it.
Protected(who, p) ==
    p.action \in RISK_INCREASING =>
        HasBracket(p.plan) \/ (who \in {"omega", "omni"} /\ reply.plan = "bare")

\* A stop of the code's own making has room; the model's may be anywhere.
StopsHaveFloor(who, p) ==
    HasBracket(p.plan) =>
        p.plan[1].stop >= min_stop \/ (who \in {"omega", "omni"} /\ reply.plan = "bracket")

\* Where the solver enters, the scorer enters too and on the same side: the
\* solver only adds conditions.
SolverWithinScorer(a) == a["solver"].plan # << >> => a["scorer"].action = a["solver"].action

\* What a strict adapter accepts the tolerant one accepts, to the same effect.
OmegaTolerates(strict, p) ==
    strict # Raised =>
        /\ p.action = strict.action /\ (p.action \in RISK_INCREASING => p.size = strict.size)
        /\ Magnitude(p.confidence - strict.confidence) <= 1

\* The reasoners, which may replace each other at start, keep to one contract:
\* bounded proposals, every entry protected or refused, and where two of them
\* read the same thing they do not contradict each other.
ReasonersAgree ==
    answers # << >> =>
        /\ \A who \in Reasoners :
              Bounded(answers[who]) /\ Protected(who, answers[who]) /\ StopsHaveFloor(who, answers[who])
        /\ SolverWithinScorer(answers)
        /\ OmegaTolerates(OmniProposal(reply, context), answers["omega"])
        /\ reply.plan # "invalid" => OmegaTolerates(PydanticProposal(reply, context), answers["omega"])
=============================================================================
