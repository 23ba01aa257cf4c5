-------------------------- MODULE MCLiveExecution --------------------------
(***************************************************************************)
(* Small instances of what stands between decisions and a real account.    *)
(* The parts share no state, and a behaviour is about one of them: orders  *)
(* sent to a venue (LiveExecution), and the reconciliation of positions    *)
(* (Reconciliation).                                                       *)
(***************************************************************************)
EXTENDS LiveExecution, Reconciliation

VARIABLE part       \* the part this behaviour is about

vars == <<part, liveVars, reconciliationVars>>

\* A part that is not looked at has one initial state.
MCInit ==
    /\ part \in {"orders", "reconciliation"}
    /\ LiveInit /\ (part # "orders" => gateway = CHOOSE g \in Gateways : TRUE)
    /\ ReconciliationInit
    /\ part # "reconciliation" => account = [m \in Markets |-> 0]

OrderPath == part = "orders" /\ LiveStep /\ UNCHANGED <<part, reconciliationVars>>
Reconcile == part = "reconciliation" /\ ReconciliationStep /\ UNCHANGED <<part, liveVars>>

MCNext == OrderPath \/ Reconcile

MCSpec == MCInit /\ [][MCNext]_vars /\ LiveFairness /\ ReconciliationFairness
=============================================================================
