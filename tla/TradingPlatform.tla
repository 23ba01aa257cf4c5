-------------------------- MODULE TradingPlatform --------------------------
(***************************************************************************)
(* The running paper platform: the threads that meet on one paper          *)
(* simulator and one fill engine, and the operator's switches.             *)
(*                                                                         *)
(*   Consumers  tasks of MarketLoopService.start; each event is handled in *)
(*              a worker thread (market_loop_service.py)                   *)
(*   Drives     requests of POST /drive, in the server's thread pool       *)
(*              (routes_drive.py)                                          *)
(*   Operator   the manual close and flatten routes, which run on the      *)
(*              event loop itself (routes_operator.py)                     *)
(*                                                                         *)
(* They share operator_lock.  The kill switch, the auto-trade mode and     *)
(* start/stop are set without it (routes_supervisor.py, routes_engine.py). *)
(*                                                                         *)
(* What PaperSimulator says in detail is one step here: a position is its  *)
(* entry price, every position is long, and whether a proposal opens,      *)
(* closes or does nothing is free.                                         *)
(***************************************************************************)
EXTENDS Integers

CONSTANTS Consumers, Drives, Operator, Free,
          Markets,
          Prices,
          StopDistance, TargetDistance,
          min_decision_interval,     \* cooldown between decisions of a market
          max_data_age,              \* age at which an observation is stale
          Delays,                    \* how late an observation may arrive
          MaxNow                     \* bound: the clock

Pipeline == Consumers \cup Drives
Threads  == Pipeline \cup {Operator}

ASSUME ThreadAssumption ==
    /\ Operator \notin Pipeline
    /\ Free \notin Threads
    /\ Consumers \cap Drives = {}

ASSUME ParameterAssumption ==
    /\ Prices \subseteq Nat \ {0}
    /\ StopDistance \in Nat \ {0} /\ TargetDistance \in Nat \ {0}
    /\ min_decision_interval \in Nat /\ max_data_age \in Nat
    /\ Delays \subseteq Nat /\ MaxNow \in Nat

\* A feed names a market in upper case, the drive route in lower case; the
\* simulator keys positions by the name as it came.
FeedSymbols  == Markets \X {"upper"}
DriveSymbols == Markets \X {"lower"}
Symbols      == FeedSymbols \cup DriveSymbols

market(s) == s[1]           \* s.lower(), the key of the cooldown
upper(s)  == <<s[1], "upper">>

VARIABLES
    lock,               \* operator_lock: its holder, or Free
    pc,                 \* thread -> where it is
    req,                \* thread of the pipeline -> what it decides on
    order,              \* the operator's request
    book,               \* NoMark, or the symbol and price of set_mark_price
    positions,          \* symbol -> entry price, or None
    last_decision,      \* market -> time of the last stamp, or Never
    last_observation,   \* symbol -> time of the latest observation, or Never
    killed,             \* the kill switch
    auto_trade,         \* FALSE: watch-only
    running,            \* MarketLoopService._running
    now,                \* bound: the clock, 0 .. MaxNow
    late                \* history: openings since the kill switch was pulled

switches == <<killed, auto_trade, running>>
clocks   == <<last_decision, last_observation, now>>
vars == <<lock, pc, req, order, book, positions, clocks, switches, late>>

None     == 0
Never    == -1
NoSymbol == <<"none", "none">>
NoMark    == [symbol |-> NoSymbol, price |-> 0]
NoRequest == [symbol |-> NoSymbol, price |-> 0, at |-> Never]
NoOrder   == [listed |-> {}, todo |-> {}, mark |-> NoMark]

\* Where a thread is while it holds the lock.
Deciding == {"marking", "checking", "admitted", "reasoned", "aside", "traded"}
InLock   == Deciding \cup {"closing"}

Held == {s \in Symbols : positions[s] # None}

\* The bracket of a position opened at entry, by the distances of the program's
\* own plans.  (The levels a model names may be touched from the start:
\* PaperSimulator has them.)
Touched(entry, price) ==
    price <= entry - StopDistance \/ price >= entry + TargetDistance

Goto(t, place) == pc' = [pc EXCEPT ![t] = place]

Init ==
    /\ lock = Free
    /\ pc \in [Threads -> {"idle", "off"}]
    /\ \A t \in Threads : pc[t] = "off" => t \in Consumers
    /\ \A c, d \in Consumers : pc[c] = "idle" /\ pc[d] = "idle" => c = d
    /\ Consumers # {} => \E c \in Consumers : pc[c] = "idle"
    /\ req = [t \in Pipeline |-> NoRequest]
    /\ order = NoOrder
    /\ book = NoMark
    /\ positions = [s \in Symbols |-> None]
    /\ last_decision = [m \in Markets |-> Never]
    /\ last_observation = [s \in Symbols |-> Never]
    /\ killed = FALSE /\ auto_trade = TRUE /\ running = TRUE
    /\ now = 0
    /\ late = 0

-----------------------------------------------------------------------------
(* An observation arrives.                                                 *)

\* The close and flatten routes are coroutines that block in acquire(): while
\* one is in progress the event loop delivers nothing.
EventLoopFree == pc[Operator] = "idle"

\* Ingest records the freshness of every symbol it sees.
Observe(s, delay) ==
    /\ delay <= now
    /\ last_observation' = [last_observation EXCEPT ![s] = now - delay]

Cooled(s) ==
    \/ last_decision[market(s)] = Never
    \/ now - last_decision[market(s)] >= min_decision_interval

\* The loop looks at _running once the event has been handled.
AfterHandle == IF running THEN "idle" ELSE "off"

Receive(c, s, price, delay) ==
    /\ pc[c] = "idle" /\ EventLoopFree
    /\ Observe(s, delay)
    /\ Cooled(s)
    /\ req' = [req EXCEPT ![c] = [symbol |-> s, price |-> price, at |-> now]]
    /\ Goto(c, "stamping")
    /\ UNCHANGED <<lock, order, book, positions, last_decision, now, switches, late>>

\* An event within the cooldown, or one that carries no mark price.
Skip(c, s, delay) ==
    /\ pc[c] = "idle" /\ EventLoopFree
    /\ Observe(s, delay)
    /\ Goto(c, AfterHandle)
    /\ UNCHANGED <<lock, req, order, book, positions, last_decision, now, switches, late>>

Stamp(c) ==
    /\ pc[c] = "stamping"
    /\ last_decision' = [last_decision EXCEPT ![market(req[c].symbol)] = req[c].at]
    /\ Goto(c, "waiting")
    /\ UNCHANGED <<lock, req, order, book, positions, last_observation, now, switches, late>>

\* The drive route has no cooldown.
Drive(d, s, price, delay) ==
    /\ pc[d] = "idle"
    /\ Observe(s, delay)
    /\ req' = [req EXCEPT ![d] = [symbol |-> s, price |-> price, at |-> now]]
    /\ Goto(d, "waiting")
    /\ UNCHANGED <<lock, order, book, positions, last_decision, now, switches, late>>

-----------------------------------------------------------------------------
(* One decision, under the lock.                                           *)

\* A mutant of Enter: nobody waits for the lock.
Enter_NoLock(t) ==
    /\ pc[t] = "waiting"
    /\ lock' = t
    /\ Goto(t, IF t = Operator THEN "closing" ELSE "marking")
    /\ UNCHANGED <<req, order, book, positions, clocks, switches, late>>

Enter(t) ==
    /\ pc[t] = "waiting"
    /\ lock = Free
    /\ lock' = t
    /\ Goto(t, IF t = Operator THEN "closing" ELSE "marking")
    /\ UNCHANGED <<req, order, book, positions, clocks, switches, late>>

SetMark(t) ==
    /\ pc[t] = "marking"
    /\ book' = [symbol |-> req[t].symbol, price |-> req[t].price]
    /\ Goto(t, "checking")
    /\ UNCHANGED <<lock, req, order, positions, clocks, switches, late>>

\* SupervisorService.check: one stale symbol degrades the platform.
may_trade ==
    /\ ~killed
    /\ \A s \in Symbols :
          last_observation[s] # Never => now - last_observation[s] <= max_data_age

\* Supervisor, event veto and spread filter; a reasoner that raises ends the
\* same way.
StandAside(t) ==
    /\ pc[t] \in {"checking", "admitted"}
    /\ Goto(t, "aside")
    /\ UNCHANGED <<lock, req, order, book, positions, clocks, switches, late>>

\* A mutant of Admit: the supervisor is not asked.
Admit_Unchecked(t) ==
    /\ pc[t] = "checking"
    /\ Goto(t, "admitted")
    /\ UNCHANGED <<lock, req, order, book, positions, clocks, switches, late>>

Admit(t) ==
    /\ pc[t] = "checking"
    /\ may_trade
    /\ Goto(t, "admitted")
    /\ UNCHANGED <<lock, req, order, book, positions, clocks, switches, late>>

\* The mode is read here; in watch-only mode the proposal goes nowhere.
Reason(t) ==
    /\ pc[t] = "admitted"
    /\ Goto(t, IF auto_trade THEN "reasoned" ELSE "aside")
    /\ UNCHANGED <<lock, req, order, book, positions, clocks, switches, late>>

\* A mutant of Outcomes: a vetoed proposal leaves the bracket alone.
Outcomes_BracketAfterGate(s, price) ==
    IF positions[s] # None THEN {None, positions[s]} ELSE {None, book.price}

\* simulator.process: a touched bracket closes and nothing else happens;
\* otherwise the proposal may open, close or change nothing.  An entry fills
\* at the engine's book, whoever set it.
Outcomes(s, price) ==
    IF positions[s] # None
    THEN {None} \cup (IF Touched(positions[s], price) THEN {} ELSE {positions[s]})
    ELSE {None, book.price}

Trade(t) ==
    LET s == req[t].symbol
    IN  /\ pc[t] = "reasoned"
        /\ \E entry \in Outcomes(s, req[t].price) :
              /\ positions' = [positions EXCEPT ![s] = entry]
              /\ late' = IF killed /\ s \notin Held /\ entry # None THEN late + 1 ELSE late
        /\ Goto(t, "traded")
        /\ UNCHANGED <<lock, req, order, book, clocks, switches>>

\* A mutant of Leave: an early return does not release the lock.
Leave_KeepsLock(t) ==
    /\ pc[t] \in {"aside", "traded"}
    /\ lock' = IF pc[t] = "aside" THEN lock ELSE Free
    /\ Goto(t, IF t \in Consumers THEN AfterHandle ELSE "idle")
    /\ req' = [req EXCEPT ![t] = NoRequest]
    /\ UNCHANGED <<order, book, positions, clocks, switches, late>>

Leave(t) ==
    /\ pc[t] \in {"aside", "traded"}
    /\ lock' = Free
    /\ Goto(t, IF t \in Consumers THEN AfterHandle ELSE "idle")
    /\ req' = [req EXCEPT ![t] = NoRequest]
    /\ UNCHANGED <<order, book, positions, clocks, switches, late>>

-----------------------------------------------------------------------------
(* Manual close and flatten: what to close, and at which mark, is read     *)
(* before the lock is asked for.                                           *)

Ask(symbols) ==
    /\ EventLoopFree
    /\ symbols # {}
    /\ book # NoMark
    /\ order' = [listed |-> symbols, todo |-> symbols, mark |-> book]
    /\ Goto(Operator, "waiting")
    /\ UNCHANGED <<lock, req, book, positions, clocks, switches, late>>

AskClose(s) == s \in Held /\ Ask({s})

AskFlatten == Ask(Held)

\* A mutant of Timeout: acquire() without a timeout.
Timeout_Never ==
    FALSE

\* acquire(timeout=5.0) gives up: 503.
Timeout ==
    /\ pc[Operator] = "waiting"
    /\ lock # Free
    /\ order' = NoOrder
    /\ Goto(Operator, "idle")
    /\ UNCHANGED <<lock, req, book, positions, clocks, switches, late>>

\* The exit of a symbol still held is proposed for its upper-case name.  At
\* order.mark its bracket may fire; either way that position is gone.
CloseOne(s) ==
    /\ pc[Operator] = "closing"
    /\ s \in order.todo
    /\ order' = [order EXCEPT !.todo = @ \ {s}]
    /\ positions' = IF s \in Held THEN [positions EXCEPT ![upper(s)] = None] ELSE positions
    /\ UNCHANGED <<lock, pc, req, book, clocks, switches, late>>

\* A mutant of Answer: the loop returns after its first position.
Answer_AfterFirst ==
    /\ pc[Operator] = "closing"
    /\ order.todo # order.listed
    /\ lock' = Free
    /\ order' = NoOrder
    /\ Goto(Operator, "idle")
    /\ UNCHANGED <<req, book, positions, clocks, switches, late>>

Answer ==
    /\ pc[Operator] = "closing"
    /\ order.todo = {}
    /\ lock' = Free
    /\ order' = NoOrder
    /\ Goto(Operator, "idle")
    /\ UNCHANGED <<req, book, positions, clocks, switches, late>>

-----------------------------------------------------------------------------
(* Switches.                                                               *)

engage_kill_switch ==
    /\ ~killed
    /\ killed' = TRUE
    /\ UNCHANGED <<lock, pc, req, order, book, positions, clocks, auto_trade, running, late>>

release_kill_switch ==
    /\ killed
    /\ killed' = FALSE
    /\ late' = 0
    /\ UNCHANGED <<lock, pc, req, order, book, positions, clocks, auto_trade, running>>

engine_mode ==
    /\ EventLoopFree
    /\ auto_trade' = ~auto_trade
    /\ UNCHANGED <<lock, pc, req, order, book, positions, clocks, killed, running, late>>

\* A new consumer task, whether or not the old one has noticed the stop.
engine_start(c) ==
    /\ EventLoopFree
    /\ ~running
    /\ pc[c] = "off"
    /\ running' = TRUE
    /\ Goto(c, "idle")
    /\ UNCHANGED <<lock, req, order, book, positions, clocks, killed, auto_trade, late>>

engine_stop ==
    /\ EventLoopFree
    /\ running
    /\ running' = FALSE
    /\ UNCHANGED <<lock, pc, req, order, book, positions, clocks, killed, auto_trade, late>>

Tick ==
    /\ now < MaxNow
    /\ now' = now + 1
    /\ UNCHANGED <<lock, pc, req, order, book, positions, last_decision, last_observation,
                   switches, late>>

-----------------------------------------------------------------------------
\* What the holder of the lock, or the operator who asks for it, does next.
Decide(t) == SetMark(t) \/ StandAside(t) \/ Admit(t) \/ Reason(t) \/ Trade(t) \/ Leave(t)

Serve == Enter(Operator) \/ Timeout \/ (\E s \in Symbols : CloseOne(s)) \/ Answer

Next ==
    \/ \E c \in Consumers, s \in FeedSymbols, delay \in Delays :
          \/ \E price \in Prices : Receive(c, s, price, delay)
          \/ Skip(c, s, delay)
    \/ \E c \in Consumers : Stamp(c) \/ engine_start(c)
    \/ \E d \in Drives, s \in DriveSymbols, price \in Prices, delay \in Delays :
          Drive(d, s, price, delay)
    \/ \E t \in Pipeline : Enter(t) \/ Decide(t)
    \/ \E s \in FeedSymbols : AskClose(s)
    \/ AskFlatten
    \/ Serve
    \/ engage_kill_switch \/ release_kill_switch
    \/ engine_mode \/ engine_stop
    \/ Tick

\* The reasoners' calls are bounded by timeouts, so a decision goes on to its
\* end; acquire() of the operator ends by itself.  operator_lock is an unfair
\* lock: nothing says who gets it.
Fairness == WF_vars(Serve) /\ \A t \in Pipeline : WF_vars(Decide(t))

Spec == Init /\ [][Next]_vars /\ Fairness

-----------------------------------------------------------------------------
(* Properties.                                                             *)

Mark == [symbol : Symbols, price : Prices]

\* Types, and the places each kind of thread may be at.
TypeOK ==
    /\ lock \in Threads \cup {Free}
    /\ pc \in [Threads -> {"off", "idle", "stamping", "waiting"} \cup InLock]
    /\ \A t \in Pipeline : pc[t] # "closing"
    /\ pc[Operator] \in {"idle", "waiting", "closing"}
    /\ req \in [Pipeline -> {NoRequest} \cup [symbol : Symbols, price : Prices, at : Nat]]
    /\ \A t \in Pipeline : pc[t] \notin {"idle", "off"} => req[t] # NoRequest
    /\ order \in [listed : SUBSET Symbols, todo : SUBSET Symbols,
                  mark : {NoMark} \cup Mark]
    /\ book \in {NoMark} \cup Mark
    /\ positions \in [Symbols -> {None} \cup Prices]
    /\ last_decision \in [Markets -> {Never} \cup Nat]
    /\ last_observation \in [Symbols -> {Never} \cup Nat]
    /\ killed \in BOOLEAN /\ auto_trade \in BOOLEAN /\ running \in BOOLEAN
    /\ now \in Nat
    /\ late \in Nat

\* "Both mutate the paper simulator; the lock serialises them" (main.py:227-230):
\* positions and the engine's book move only in a step of the lock's holder,
\* and nobody else is at work in there.
MutationsUnderLock ==
    [][<<positions, book>>' # <<positions, book>> =>
          /\ lock # Free /\ lock' = lock
          /\ \A t \in Threads \ {lock} : pc[t] \notin InLock /\ pc'[t] = pc[t]]_vars

\* The engine has one book for all symbols.  From set_mark_price to the fill a
\* decision finds the book it set itself: no entry is filled at the price of
\* another symbol or of another thread's observation.
FillsAtOwnMark ==
    \A t \in Pipeline :
        pc[t] \in {"checking", "admitted", "reasoned"} =>
            book = [symbol |-> req[t].symbol, price |-> req[t].price]

\* However many threads were under way when the kill switch was pulled, at
\* most one opening follows: who waits for the lock asks the supervisor later.
KillLag == late <= 1

\* A decision that reached the simulator leaves no touched bracket behind, if
\* brackets are anchored to their entries.
AdmittedBracketsFire ==
    \A t \in Pipeline : pc[t] = "traded" =>
        LET entry == positions[req[t].symbol]
        IN  entry = None \/ ~Touched(entry, req[t].price)

\* What each thread of the pipeline has yet to decide on: an observation is dealt
\* with once the simulator has processed it, or its thread has stood aside.
Asked ==
    [t \in Pipeline |->
        IF pc[t] \in {"off", "idle", "traded"} THEN {}
        ELSE {[symbol |-> req[t].symbol, price |-> req[t].price]}]

Desk == INSTANCE TradingDesk WITH Threads <- Pipeline, asked <- Asked

\* Whatever the threads do in between, the positions move as if one decided at a
\* time, each observation once and at its own price; one late opening at most
\* follows the kill switch (main.py:227-230, market_loop_service.py:233-253,
\* routes_drive.py:104-108).
ActsAsOneDesk == Desk!Spec

Answered == pc[Operator] = "closing" /\ pc'[Operator] = "idle"

\* When close or flatten answers, the positions it found under the feed's names
\* are closed, although other threads traded between the list and the lock.
ListedFeedPositionsClosed ==
    [][Answered => order.listed \cap FeedSymbols \cap Held = {}]_vars

\* Every turn with the lock ends: no early return keeps it.
LockReleased == \A t \in Threads : lock = t ~> lock # t

\* The operator is answered or told to retry, however busy the lock is.
OperatorServed == pc[Operator] = "waiting" ~> pc[Operator] = "idle"

\* The lock is passed on: both of the above.
LockPassedOn == LockReleased /\ OperatorServed

-----------------------------------------------------------------------------
(* Statements of the repository's documents that the code does not keep.   *)

\* "Manually close one paper position at the current mark price"
\* (routes_operator.py, close_position): the mark is one of its own market.
ClosedAtOwnMark ==
    [][\A s \in Held :
          pc[Operator] = "closing" /\ positions'[s] = None =>
              market(order.mark.symbol) = market(s) /\ market(book.symbol) = market(s)]_vars

\* "Close ALL open paper positions at current marks" (routes_operator.py,
\* flatten_all): here, the positions it listed.
ListedPositionsClosed == [][Answered => order.listed \cap Held = {}]_vars
=============================================================================
