--------------------------- MODULE Reconciliation ---------------------------
(***************************************************************************)
(* Reconciliation of an account's positions with the paper simulator's     *)
(* (presentation/api/routes_reconciliation.py, application/execution/      *)
(* reconciliation_service.py), and the veto it feeds to the risk gate.     *)
(* A client reads the account and posts what it read; the route runs in a  *)
(* thread of its own, beside the decisions, so what it compares may be     *)
(* older than what it feeds, and two requests may feed the gate in turns.  *)
(*                                                                         *)
(* The route lower-cases the symbols a client posts.  The simulator's are  *)
(* those of the market events, some of them in upper case (mt5_adapter.py: *)
(* 106), and the gate looks a proposal's symbol up as it is written.       *)
(***************************************************************************)
EXTENDS Integers

CONSTANTS
    Markets,
    Clients,        \* requests of the route that may run beside each other
    MaxPosition,    \* bound on the size of a position
    MaxRestarts     \* bound on the restarts of the process

ASSUME ReconciliationAssumption ==
    MaxPosition \in Nat /\ MaxRestarts \in Nat

\* A symbol as it is written: a market, in lower or in upper case.
Names == [market : Markets, upper : BOOLEAN]
NoName == [market |-> "none", upper |-> FALSE]

\* Signed positions; 0 is none.
Volumes == -MaxPosition .. MaxPosition
Flat == [n \in Names |-> 0]

VARIABLES
    account,        \* what the real account holds
    simulated,      \* the simulator's positions
    judged,         \* a symbol the gate has let through, not yet acted on
    blocked,        \* the gate's _reconciliation_mismatches
    requests,       \* the requests of the route
    restarts

reconciliationVars == <<account, simulated, judged, blocked, requests, restarts>>

Reports == [symbol : Names, consistent : BOOLEAN]
Idle == [stage |-> "idle", positions |-> [m \in Markets |-> 0], reports |-> {}]
Requests == [stage : {"idle", "posted", "feeding"}, positions : [Markets -> Volumes],
             reports : SUBSET Reports]

ReconciliationInit ==
    /\ account \in [Markets -> Volumes]
    /\ simulated = Flat
    /\ judged = NoName
    /\ blocked = {}
    /\ requests = [c \in Clients |-> Idle]
    /\ restarts = 0

-----------------------------------------------------------------------------
(* The simulator and the account.                                          *)

\* External: the account trades.
AccountMoves(m, q) ==
    /\ account' = [account EXCEPT ![m] = q]
    /\ UNCHANGED <<simulated, judged, blocked, requests, restarts>>

\* The gate is asked for new risk: refused on a symbol that is vetoed.
Judge(n) ==
    /\ judged = NoName
    /\ n \notin blocked
    /\ judged' = n
    /\ UNCHANGED <<account, simulated, blocked, requests, restarts>>

\* What was judged is opened, unless the symbol holds a position or the order
\* is not filled.
Open(q) ==
    /\ judged # NoName
    /\ simulated' = [simulated EXCEPT ![judged] = IF @ = 0 THEN q ELSE @]
    /\ judged' = NoName
    /\ UNCHANGED <<account, blocked, requests, restarts>>

\* A proposal whose first action is an exit passes the gate whole, and all of
\* its actions are applied: it may close, and open, on a vetoed symbol.  Brackets
\* and the operator close, too.
ExitFirst(n, q) ==
    /\ judged = NoName \/ q = 0
    /\ simulated' = [simulated EXCEPT ![n] = q]
    /\ UNCHANGED <<account, judged, blocked, requests, restarts>>

\* Positions and vetoes are in memory only.
Restart ==
    /\ restarts < MaxRestarts
    /\ restarts' = restarts + 1
    /\ simulated' = Flat
    /\ judged' = NoName
    /\ blocked' = {}
    /\ requests' = [c \in Clients |-> Idle]
    /\ UNCHANGED account

-----------------------------------------------------------------------------
(* The route.                                                              *)

\* External: a client posts what it read of the account.  What it failed to read
\* it leaves out (ccxt_gateway.py:392-398), which reads as no position.
Post(c, known) ==
    /\ requests[c].stage = "idle"
    /\ requests' = [requests EXCEPT ![c] =
           [stage |-> "posted", positions |-> [m \in Markets |-> IF m \in known THEN account[m] ELSE 0],
            reports |-> {}]]
    /\ UNCHANGED <<account, simulated, judged, blocked, restarts>>

\* The position posted for a symbol.
Listed(positions, n) == IF n.upper THEN 0 ELSE positions[n.market]

\* A mutant of ReportsOf: only the sizes are compared.
ReportsOf_SizesOnly(positions) ==
    {[symbol |-> n, consistent |-> simulated[n] \in {Listed(positions, n), -Listed(positions, n)}] :
        n \in {n \in Names : Listed(positions, n) # 0 \/ simulated[n] # 0}}

\* One report for every symbol seen on either side; signed volumes are compared.
ReportsOf(positions) ==
    {[symbol |-> n, consistent |-> Listed(positions, n) = simulated[n]] :
        n \in {n \in Names : Listed(positions, n) # 0 \/ simulated[n] # 0}}

\* The reports are made and saved, all of them before the gate hears of one.
Compare(c) ==
    /\ requests[c].stage = "posted"
    /\ requests' = [requests EXCEPT ![c] = IF ReportsOf(@.positions) = {} THEN Idle
                       ELSE [Idle EXCEPT !.stage = "feeding", !.reports = ReportsOf(requests[c].positions)]]
    /\ UNCHANGED <<account, simulated, judged, blocked, restarts>>

\* save_report raises: the gate is not fed.
SaveFails(c) ==
    /\ requests[c].stage = "posted"
    /\ requests' = [requests EXCEPT ![c] = Idle]
    /\ UNCHANGED <<account, simulated, judged, blocked, restarts>>

\* A request whose report r the gate has been told of; with its last it ends.
Told(q, r) == IF q.reports = {r} THEN Idle ELSE [q EXCEPT !.reports = @ \ {r}]

\* One symbol at a time: a mismatch blocks it, agreement clears it.
Feed(c) ==
    \E r \in requests[c].reports :
        /\ blocked' = IF r.consistent THEN blocked \ {r.symbol} ELSE blocked \cup {r.symbol}
        /\ requests' = [requests EXCEPT ![c] = Told(@, r)]
        /\ UNCHANGED <<account, simulated, judged, restarts>>

ReconciliationStep ==
    \/ \E m \in Markets, q \in Volumes : AccountMoves(m, q)
    \/ \E n \in Names : Judge(n)
    \/ \E q \in Volumes : Open(q)
    \/ \E n \in Names, q \in Volumes : ExitFirst(n, q)
    \/ Restart
    \/ \E c \in Clients, known \in SUBSET Markets : Post(c, known)
    \/ \E c \in Clients : Compare(c) \/ SaveFails(c) \/ Feed(c)

\* A thread that has saved its reports goes on to feed them; neither clients nor
\* the store promise anything.
ReconciliationFairness == \A c \in Clients : WF_reconciliationVars(Feed(c))

ReconciliationSpec ==
    ReconciliationInit /\ [][ReconciliationStep]_reconciliationVars /\ ReconciliationFairness

-----------------------------------------------------------------------------
\* A comparison of what the account holds.
TrueComparison == \E c \in Clients : requests[c].positions = account /\ Compare(c)

\* What the gate is told of a symbol stands apart from what the simulator holds:
\* one of the two is flat or they differ.  A symbol in upper case is told flat.
StandsApart(n) == Listed(account, n) # simulated[n]

\* A veto is lifted by a report of agreement only, and no report can agree on a
\* symbol in upper case: once vetoed, it stays vetoed until the process is
\* restarted, whatever the account holds.
UpperCaseStaysVetoed ==
    [][\A n \in blocked : n.upper => n \in blocked' \/ restarts' # restarts]_reconciliationVars

\* Once account and simulator stand still, a difference between them ends up
\* vetoing its symbol for good, as long as a comparison of the true account
\* succeeds now and then: requests that read the account earlier, or failed to,
\* and feed the gate later, do not lift it (routes_reconciliation.py:88-115).
MismatchIsVetoed ==
    /\ UpperCaseStaysVetoed
    /\ \A n \in Names :
           /\ []<><<TrueComparison>>_reconciliationVars
           /\ <>[][UNCHANGED <<account, simulated>>]_reconciliationVars
           /\ <>[]StandsApart(n)
           => <>[](n \in blocked)
=============================================================================
