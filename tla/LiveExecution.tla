--------------------------- MODULE LiveExecution ---------------------------
(***************************************************************************)
(* The live order path above the gateways of VenueLinks:                   *)
(* ExecutionCore.process_proposal (application/execution/                  *)
(* execution_core.py): supervisor, order, gate, size cap, prop rules,      *)
(* authorisation, submit.  Whether supervisor and gate let a proposal pass *)
(* is open here; their verdicts are those of PaperSimulator and            *)
(* TradingPlatform, and of the veto of Reconciliation.                     *)
(***************************************************************************)
EXTENDS VenueLinks, FiniteSetsExt

CONSTANTS
    live_trading_authorized   \* the operator's configuration

VARIABLES
    decided     \* an order built and gated, not yet submitted

liveVars == <<linkVars, decided>>

Undecided == [order |-> Nobody, request |-> NoRequest]

LiveInit ==
    /\ Init
    /\ decided = Undecided

-----------------------------------------------------------------------------
(* process_proposal.                                                       *)

\* An exit inverts the position it is told of, and sells when it is told of none;
\* the list of positions is the caller's.
SideOf(action, known) ==
    CASE action = "enter_long"  -> "buy"
      [] action = "enter_short" -> "sell"
      [] action = "scale_in"    -> IF known = "sell" THEN "sell" ELSE "buy"
      [] OTHER                  -> IF known = "sell" THEN "buy" ELSE "sell"

\* _apply_risk_reduction: the gate's size is a cap, never an increase.
Reduced(want, cap) == Min({want, cap})

\* Supervisor, build, gate: an order is decided, or the call ends here.
Decide(o, action, s, want, cap, known) ==
    /\ decided = Undecided /\ caller = Nobody
    /\ request[o] = NoRequest /\ \A p \in Orders : p < o => request[p] # NoRequest
    /\ decided' = [order |-> o,
                   request |-> [symbol |-> s, side |-> SideOf(action, known),
                                quantity |-> IF action \in {"exit", "scale_out"} THEN want
                                             ELSE Reduced(want, cap)]]
    /\ UNCHANGED linkVars

\* check_pre_trade refuses: news, or a weekend with a position.  (Its loss
\* counters are never written: prop_rules.py:122, 210, 243-246.)
PropRulesRefuse ==
    /\ decided # Undecided
    /\ decided' = Undecided
    /\ UNCHANGED linkVars

\* The order goes to the live gateway.
ExecuteLive ==
    /\ decided # Undecided
    /\ gateway # "paper" /\ live_trading_authorized
    /\ Submit(decided.order, decided.request)
    /\ decided' = Undecided

\* Paper mode: the fill engine answers, and when it raises the core reports
\* the whole order filled (execution_core.py:463-478).
ExecutePaper(n) ==
    /\ decided # Undecided
    /\ gateway = "paper"
    /\ LET o == decided.order
           r == decided.request
       IN  /\ Accept(o, r)
           /\ \/ /\ n <= r.quantity
                 /\ executed' = [executed EXCEPT ![o] = n]
                 /\ report' = [report EXCEPT ![o] =
                        [status |-> IF n = r.quantity THEN "filled"
                                    ELSE IF n > 0 THEN "partially_filled" ELSE "unfilled",
                         quantity |-> n]]
              \/ /\ UNCHANGED executed
                 /\ report' = [report EXCEPT ![o] = [status |-> "filled", quantity |-> r.quantity]]
    /\ decided' = Undecided
    /\ UNCHANGED <<link, caller, work, resting, answer, files>>

Actions == {"enter_long", "enter_short", "scale_in", "exit", "scale_out"}

LiveStep ==
    \/ \E o \in Orders, action \in Actions, s \in Symbols, want, cap \in 1 .. MaxQty,
          known \in Sides \cup {"none"} : Decide(o, action, s, want, cap, known)
    \/ PropRulesRefuse
    \/ ExecuteLive
    \/ \E n \in 0 .. MaxQty : ExecutePaper(n)
    \/ LinkStep /\ UNCHANGED decided

\* A caller's timeout expires whatever else happens; nothing else is promised.
LiveFairness == \A o \in Orders : WF_liveVars(Timeout(o) /\ UNCHANGED decided)

LiveSpec == LiveInit /\ [][LiveStep]_liveVars /\ LiveFairness
=============================================================================
