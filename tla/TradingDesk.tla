---------------------------- MODULE TradingDesk ----------------------------
(***************************************************************************)
(* What the running platform promises of its paper positions: it acts like *)
(* a desk where one person decides at a time.                              *)
(*                                                                         *)
(* An observation is decided on once or not at all, in one step: it closes *)
(* the position of its symbol or opens one, at the very price that was     *)
(* observed, or changes nothing.  After the kill switch one more position  *)
(* may be opened, by the decision that was under way.  There is no lock    *)
(* here, no book to be set and nothing between the parts of a decision;    *)
(* that "the lock serialises them" (main.py:227-230) is what has to be     *)
(* shown.  Which of its choices a decision takes is PaperSimulator's.      *)
(***************************************************************************)
EXTENDS Integers

CONSTANTS Threads,          \* who may decide
          Symbols, Prices

VARIABLES
    asked,          \* thread -> the observation it has to decide on, at most one
    positions,      \* symbol -> entry price, or None
    killed,         \* the kill switch
    late            \* openings since the kill switch was pulled

vars == <<asked, positions, killed, late>>

None == 0

Observation == [symbol : Symbols, price : Prices]

Init ==
    /\ asked = [t \in Threads |-> {}]
    /\ positions = [s \in Symbols |-> None]
    /\ killed = FALSE
    /\ late = 0

Observe(t, o) ==
    /\ asked[t] = {}
    /\ asked' = [asked EXCEPT ![t] = {o}]
    /\ UNCHANGED <<positions, killed, late>>

\* Skipped by the pipeline, or nothing came of it.
StandAside(t) ==
    /\ asked' = [asked EXCEPT ![t] = {}]
    /\ UNCHANGED <<positions, killed, late>>

Close(o) ==
    /\ positions[o.symbol] # None
    /\ positions' = [positions EXCEPT ![o.symbol] = None]
    /\ UNCHANGED late

Open(o) ==
    /\ positions[o.symbol] = None
    /\ positions' = [positions EXCEPT ![o.symbol] = o.price]
    /\ IF killed THEN late = 0 /\ late' = 1 ELSE UNCHANGED late

Decide(t) ==
    /\ \E o \in asked[t] : Close(o) \/ Open(o)
    /\ asked' = [asked EXCEPT ![t] = {}]
    /\ UNCHANGED killed

\* The operator closes, and opens nothing.
CloseByHand(s) ==
    /\ positions' = [positions EXCEPT ![s] = None]
    /\ UNCHANGED <<asked, killed, late>>

Pull ==
    /\ killed' = TRUE
    /\ UNCHANGED <<asked, positions, late>>

Release ==
    /\ killed' = FALSE
    /\ late' = 0
    /\ UNCHANGED <<asked, positions>>

Next ==
    \/ \E t \in Threads :
          \/ \E o \in Observation : Observe(t, o)
          \/ StandAside(t)
          \/ Decide(t)
    \/ \E s \in Symbols : CloseByHand(s)
    \/ Pull \/ Release

Spec == Init /\ [][Next]_vars
=============================================================================
