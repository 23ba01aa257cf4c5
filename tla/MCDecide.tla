------------------------------ MODULE MCDecide ------------------------------
(***************************************************************************)
(* Small instances of what is read and recorded, what decides and what     *)
(* learns.  The parts share no state, and a behaviour is about one of      *)
(* them: the order book (BookFeed), the macro calendar (MacroCalendar),    *)
(* stored events (EventStore), proposals (Proposals), the chain of model   *)
(* providers (OmegaFallback), memory (Learning), passports                 *)
(* (StrategyLadder), a paper campaign (PaperCampaign), what follows it     *)
(* (CapitalRamp), frozen data (ResearchData), samples and folds            *)
(* (Validation), and the experiments with the loop that runs them          *)
(* (ExperimentRegistry).                                                   *)
(***************************************************************************)
EXTENDS BookFeed, MacroCalendar, EventStore, Proposals, OmegaFallback, Learning, StrategyLadder, PaperCampaign, CapitalRamp,
        ResearchData, Validation, ExperimentRegistry

Priority == <<"groq", "gemini", "ovh">>
InEnv == [p \in Range(Priority) |-> IF p = "groq" THEN <<"k1">> ELSE << >>]
InFile == [p \in Range(Priority) |->
              CASE p = "groq" -> <<"k1", "k2">> [] p = "gemini" -> <<"k3">> [] OTHER -> << >>]

SomeRates == {-8, -1, 0, 8}
SomeSizes == {-5, 5, 1000, 10000}
SomeOutcomes == {-1, 0, 1}

\* A report that passes every gate, and some that one gate refuses.
Passing == [pbo |-> "low", dsr |-> "positive", folds |-> 4, positive_folds |-> TRUE,
            beats_hold |-> TRUE, shallow |-> TRUE, excess |-> 1]
SomeReports ==
    {Passing, [Passing EXCEPT !.dsr = "negative"],
     [Passing EXCEPT !.dsr = "unknown", !.folds = 0], [Passing EXCEPT !.beats_hold = FALSE, !.excess = -1]}

OneRival == {Passing}

\* Five records, one a moment, and the same with two of one moment.
SomeClocks == {<<1, 2, 3, 4, 5>>, <<1, 2, 2, 3, 4>>}

\* Variations that may name each other, or themselves, as parent, and a final
\* test whose claim begins like one of the catalog.
Catalog == <<"momentum", "reversal">>
SomePlans ==
    {[claim |-> "momentum", dataset |-> "d1", group |-> "tuning", parent |-> p] :
        p \in Experiments \cup {NoParent}}
    \cup {[claim |-> "reverse", dataset |-> "d1", group |-> "final_test", parent |-> NoParent]}
SharedPrefix == {<<"reverse", "reversal">>}

\* Three figures of one week: two that stop new risk and one that does not.
ThisWeek ==
    <<[currency |-> "USD", high |-> TRUE, at |-> 1], [currency |-> "EUR", high |-> TRUE, at |-> 2],
      [currency |-> "USD", high |-> FALSE, at |-> 1]>>

VARIABLE part       \* the part this behaviour is about

decideVars == <<proposalVars, fallbackVars, learningVars>>
ladder == <<ladderVars, campaignVars, rampVars>>
research == <<researchVars, validationVars, registryVars>>
records == <<bookVars, calendarVars, storeVars>>
vars == <<part, records, decideVars, ladder, research>>

Init ==
    /\ part \in {"book", "calendar", "store", "proposals", "fallback", "learning", "passports",
                 "campaign", "canary", "program", "ramp", "data", "folds", "lineage", "loop"}
    /\ BookInit /\ (part # "book" => adapter = CHOOSE a \in Adapters : TRUE)
    /\ CalendarInit /\ StoreInit
    /\ IF part = "proposals" THEN ProposalInit
       ELSE context = "none" /\ reply = "none" /\ answers = << >>
    /\ FallbackInit /\ LearningInit
    /\ LadderInit /\ CampaignInit /\ RampInit
    /\ ResearchInit /\ RegistryInit
    /\ IF part = "folds" THEN ValidationInit
       ELSE study = "none" /\ samples = << >> /\ folds = {} /\ stage = "refused"

Book == part = "book" /\ BookStep /\ UNCHANGED <<part, calendarVars, storeVars, decideVars, ladder, research>>
Calendar == part = "calendar" /\ CalendarStep /\ UNCHANGED <<part, bookVars, storeVars, decideVars, ladder, research>>
Store == part = "store" /\ StoreStep /\ UNCHANGED <<part, bookVars, calendarVars, decideVars, ladder, research>>
Propose == part = "proposals" /\ AskAll /\ UNCHANGED <<part, records, fallbackVars, learningVars, ladder, research>>
Fallback == part = "fallback" /\ FallbackStep /\ UNCHANGED <<part, records, proposalVars, learningVars, ladder, research>>
Learn == part = "learning" /\ LearningStep /\ UNCHANGED <<part, records, proposalVars, fallbackVars, ladder, research>>
Passports == part = "passports" /\ LadderStep /\ UNCHANGED <<part, records, campaignVars, rampVars, decideVars, research>>
Campaign == part = "campaign" /\ CampaignStep /\ UNCHANGED <<part, records, ladderVars, rampVars, decideVars, research>>
Ramp ==
    /\ \/ part = "canary" /\ CanaryStep
       \/ part = "program" /\ ProgramStep
       \/ part = "ramp" /\ ScaleStep
    /\ UNCHANGED <<part, records, ladderVars, campaignVars, decideVars, research>>
Data == part = "data" /\ ResearchStep /\ UNCHANGED <<part, records, validationVars, registryVars, decideVars, ladder>>
Folds == part = "folds" /\ ValidationStep /\ UNCHANGED <<part, records, researchVars, registryVars, decideVars, ladder>>

\* The loop is studied beside one experiment, lineages without the loop.
Registry ==
    /\ \/ part \in {"lineage", "loop"} /\ RegistryStep
       \/ part = "loop" /\ LoopStep
    /\ part = "loop" => Known' \subseteq {"e1"}
    /\ UNCHANGED <<part, records, researchVars, validationVars, decideVars, ladder>>

Next ==
    \/ Book \/ Calendar \/ Store
    \/ Propose \/ Fallback \/ Learn
    \/ Passports \/ Campaign \/ Ramp
    \/ Data \/ Folds \/ Registry

Spec == Init /\ [][Next]_vars
=============================================================================
