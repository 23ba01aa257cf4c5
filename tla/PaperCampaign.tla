--------------------------- MODULE PaperCampaign ---------------------------
(***************************************************************************)
(* One paper campaign: PaperCampaignService over the autonomy store, the   *)
(* runner that judges each day, and the operator who may cancel it.  A     *)
(* run reads the row, then writes it; the store's set_campaign_status      *)
(* reads outside its lock, so another thread may write in between.         *)
(***************************************************************************)
EXTENDS Integers, FiniteSets, PromotionGates

CONSTANTS
    Runners,            \* threads that may call run_campaign
    target_days,
    MaxAttempts         \* bound on the calls of run_campaign

ASSUME TargetAssumption == target_days \in Nat \ {0}
ASSUME RunnersAssumption == "operator" \notin Runners

Terminal == {"completed", "retired", "cancelled"}
CampaignStatus == {"pending", "running"} \cup Terminal

\* autonomy_campaigns: one row.
CampaignRunRecord ==
    [status : CampaignStatus, action : {"none", "advanced", "hold", "retired"},
     days_run : 0 .. target_days]

VARIABLES
    campaign,       \* the row
    outcomes,       \* autonomy_day_outcomes: the attempt that wrote each day, 0 for none
    job,            \* what each runner, and the operator, is doing
    attempts        \* number of run_campaign calls so far

campaignVars == <<campaign, outcomes, job, attempts>>

Rest == [pc |-> "idle"]

CampaignInit ==
    /\ campaign = [status |-> "pending", action |-> "none", days_run |-> 0]
    /\ outcomes = [d \in 1 .. target_days |-> 0]
    /\ job = [w \in Runners \cup {"operator"} |-> Rest]
    /\ attempts = 0

\* set_campaign_status begins: an update "to" that goes on with pc "next".
Update(to, action, days, next) ==
    [pc |-> "set", to |-> to, action |-> action, days |-> days, next |-> next]

\* The row is read and checked: a terminal campaign is not written.
SetRead(w) ==
    /\ job[w].pc = "set"
    /\ job' = [job EXCEPT ![w] = IF campaign.status \in Terminal THEN Rest
                                 ELSE [@ EXCEPT !.pc = "write"]]
    /\ UNCHANGED <<campaign, outcomes, attempts>>

\* The row is written, from what was read.
SetWrite(w) ==
    /\ job[w].pc = "write"
    /\ campaign' = [status |-> job[w].to, action |-> job[w].action, days_run |-> job[w].days]
    /\ job' = [job EXCEPT ![w] = @.next]
    /\ UNCHANGED <<outcomes, attempts>>

\* run_campaign begins: a terminal campaign raises; one that is not running is
\* started first.
RunCampaign(r, e) ==
    LET days == [pc |-> "day", day |-> 1, attempt |-> attempts + 1, evidence |-> e]
    IN  /\ job[r] = Rest
        /\ attempts < MaxAttempts
        /\ attempts' = attempts + 1
        /\ job' = [job EXCEPT ![r] =
               CASE campaign.status \in Terminal -> Rest
                 [] campaign.status = "running" -> days
                 [] OTHER -> Update("running", campaign.action, campaign.days_run, days)]
        /\ UNCHANGED <<campaign, outcomes>>

\* The boundary of a day: a cancelled campaign stands down.  Then the day runs.
BeginDay(r) ==
    /\ job[r].pc = "day"
    /\ job' = [job EXCEPT ![r] = IF campaign.status = "cancelled" THEN Rest
                                 ELSE [@ EXCEPT !.pc = "save"]]
    /\ UNCHANGED <<campaign, outcomes, attempts>>

\* A mutant of Recorded: the day's row is replaced.
Recorded_Replaced(d) == FALSE

\* UNIQUE (campaign_id, day)
Recorded(d) == outcomes[d] # 0

\* The evidence a full window adds: its days and the Sharpe of these days, which
\* is 0 for fewer than two.
Accumulate(e, sharpe) ==
    [e EXCEPT !.paper_days = @ + target_days, !.paper_sharpe = sharpe /\ target_days >= 2]

\* What the day leads to: retirement on a broken stay limit, the next day, or,
\* after the last one, the gate of the canary.
Judge(j, m, sharpe) ==
    CASE rollback_required(m) ->
             [pc |-> "finish", action |-> "retired", days |-> j.day]
      [] ~rollback_required(m) /\ j.day < target_days ->
             [j EXCEPT !.pc = "day", !.day = @ + 1]
      [] OTHER ->
             [pc |-> "finish", days |-> j.day,
              action |-> IF allowed("canary", Accumulate(j.evidence, sharpe)) THEN "advanced"
                         ELSE "hold"]

\* The day's outcome is saved and judged.  A day that is there raises.
SaveDay(r, m, sharpe) ==
    /\ job[r].pc = "save"
    /\ IF Recorded(job[r].day)
       THEN job' = [job EXCEPT ![r] = Rest] /\ UNCHANGED outcomes
       ELSE /\ outcomes' = [outcomes EXCEPT ![job[r].day] = job[r].attempt]
            /\ job' = [job EXCEPT ![r] = Judge(@, m, sharpe)]
    /\ UNCHANGED <<campaign, attempts>>

\* The verdict is written unless the row reads cancelled.
Finish(r) ==
    /\ job[r].pc = "finish"
    /\ job' = [job EXCEPT ![r] =
           IF campaign.status = "cancelled" THEN Rest
           ELSE Update(IF @.action = "retired" THEN "retired" ELSE "completed",
                       @.action, @.days, Rest)]
    /\ UNCHANGED <<campaign, outcomes, attempts>>

\* cancel_campaign: refused for a terminal campaign.
CancelCampaign ==
    /\ job["operator"] = Rest /\ campaign.status \notin Terminal
    /\ job' = [job EXCEPT !["operator"] =
           Update("cancelled", campaign.action, campaign.days_run, Rest)]
    /\ UNCHANGED <<campaign, outcomes, attempts>>

\* The process dies; the rows stay.
ProcessDies ==
    /\ job' = [w \in DOMAIN job |-> Rest]
    /\ UNCHANGED <<campaign, outcomes, attempts>>

\* The gate of the canary does not read canary days.
BeforeCanary == {e \in CandidateEvidence : e.canary_days = 0}

CampaignStep ==
    \/ \E w \in DOMAIN job : SetRead(w) \/ SetWrite(w)
    \/ \E r \in Runners :
          \/ \E e \in BeforeCanary : RunCampaign(r, e)
          \/ \E m \in DeploymentMonitor, sharpe \in BOOLEAN : SaveDay(r, m, sharpe)
          \/ BeginDay(r) \/ Finish(r)
    \/ CancelCampaign
    \/ ProcessDies

-----------------------------------------------------------------------------
Days == {d \in 1 .. target_days : outcomes[d] # 0}

\* A verdict stands on the days of one run, all of them there: retries after a
\* crash and two runs of one campaign never mix (paper_campaign_service.py:172).
VerdictOfOneRun ==
    /\ \A c, d \in Days : outcomes[c] = outcomes[d]
    /\ campaign.status = "completed" => Days = 1 .. target_days
    /\ campaign.status \in {"completed", "retired"} => Days = 1 .. campaign.days_run

\* What a document says and the code does not: no race allows a cancelled
\* campaign to finish (paper_campaign_service.py:22).
CancelledStays ==
    [][campaign.status = "cancelled" => campaign'.status = "cancelled"]_campaignVars
=============================================================================
