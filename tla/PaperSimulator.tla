--------------------------- MODULE PaperSimulator ---------------------------
(***************************************************************************)
(* The paper trading simulator                                             *)
(* (backend/application/simulation/paper_trading_simulator.py), the risk   *)
(* gate it asks and the ledger it writes, driven by the decision pipeline  *)
(* or by an operator's manual exit.                                        *)
(*                                                                         *)
(* One call of process() is several steps, because risk_snapshot() is also *)
(* called by routes that hold no lock and resets the loss windows, and     *)
(* because the process may stop between two writes of the ledger.  Calls   *)
(* themselves exclude each other: that is TradingPlatform's subject.       *)
(*                                                                         *)
(* Money, prices and quantities are integers.  A size fraction stands for  *)
(* the quantity it buys, time is a day number, and the gate's caps and     *)
(* vetoes other than the loss windows and the bracket rule are a free      *)
(* choice of the approved size.                                            *)
(***************************************************************************)
EXTENDS Integers, Sequences, FiniteSetsExt

CONSTANTS Symbols,
          Marks,              \* mark prices a driver supplies
          Proposals,          \* what the reasoners and the operator propose
          MaxQty,             \* largest size of an action
          DaysPerMonth,
          MaxDailyLoss, MaxMonthlyLoss,   \* circuit breakers, as losses
          gateway_fee_rate,   \* taker fee of the fill engine
          taker_fee_rate,     \* fee the simulator charges on a bracket exit
          StartingEquity,
          HalfSpread,         \* of the synthetic book around a mark
          Depth,              \* its size on each side
          MaxSequence,        \* bound: calls of process() between restarts
          MaxRestarts         \* bound: restarts of the process

Lesser(a, b)    == IF a < b THEN a ELSE b
Greater(a, b)   == IF a > b THEN a ELSE b

ActionTypes == {"enter_long", "enter_short", "exit", "scale_in", "scale_out",
                "stand_aside", "reduce_risk"}

ProposedAction == [type : ActionTypes, size : 1 .. MaxQty, order : Nat]

\* A level of a pre-trade plan is a price, a distance from the fill, or both;
\* each is positive when given, and 0 when not (trade_plan.py:32-42).
StopLevel   == [price : Nat, distance : Nat]
PreTradePlan == [stop : StopLevel, target : StopLevel]

Undefined == [price |-> 0, distance |-> 0]
NoPlan    == [stop |-> Undefined, target |-> Undefined]

has_bracket(plan) == plan.stop # Undefined /\ plan.target # Undefined

\* actions are listed by their order, as process() sorts them.  A model writes
\* any plan it likes (omni_route_reasoner.py:245-247).
DecisionProposal ==
    [symbol : Symbols, day : Nat, plan : PreTradePlan, actions : Seq(ProposedAction)]

ASSUME ParameterAssumption ==
    /\ Marks \subseteq Nat /\ HalfSpread \in Nat
    /\ \A mark \in Marks : mark > HalfSpread
    /\ MaxQty \in Nat \ {0}
    /\ DaysPerMonth \in Nat \ {0}
    /\ MaxDailyLoss \in Nat /\ MaxMonthlyLoss \in Nat
    /\ gateway_fee_rate \in Nat /\ taker_fee_rate \in Nat
    /\ StartingEquity \in Nat
    /\ Depth \in Nat \ {0}
    /\ MaxSequence \in Nat /\ MaxRestarts \in Nat

\* No producer of proposals leaves the actions empty or repeats an order.
ASSUME ProposalAssumption ==
    /\ Proposals \subseteq DecisionProposal
    /\ \A p \in Proposals :
          /\ p.actions # <<>>
          /\ \A i, j \in 1 .. Len(p.actions) :
                i < j => p.actions[i].order < p.actions[j].order

\* No entry comes after another action of its proposal: the program's reasoners
\* propose one action at a time.
EntryTypes == {"enter_long", "enter_short"}

EntriesFirst ==
    \A p \in Proposals : \A i \in 2 .. Len(p.actions) : p.actions[i].type \notin EntryTypes

VARIABLES
    positions,      \* symbol -> NoPosition or the open position
    open_records,   \* symbol -> NoRecord or its open trade record
    ledger,         \* trade id -> row: the durable trade_ledger table
    equity,
    pnl,            \* window -> realised PnL since the window was reset
    last_reset,     \* window -> period it was last reset in, or NoPeriod
    current_time,   \* latest event day processed, or NoPeriod
    sequence,       \* number of calls of process()
    call,           \* the call in progress
    restarts,       \* bound: restarts so far
    executed,       \* history: symbol -> signed quantity really traded
    booked,         \* history: event day -> PnL of that day
    planned         \* history: symbol -> plan its position was opened by

books == <<positions, open_records, ledger, planned>>
windows == <<pnl, last_reset>>
vars == <<positions, open_records, ledger, equity, pnl, last_reset,
          current_time, sequence, call, restarts, executed, booked, planned>>

NoPeriod   == -1
NoPosition == [side |-> "none", quantity |-> 0, entry |-> 0, stop |-> 0, target |-> 0]
NoRecord   == [trade_id |-> <<0, 0>>, symbol |-> "none", side |-> "none",
               quantity |-> 0, entry |-> 0, fee |-> 0, status |-> "none", net |-> 0]
NoTrades   == [t \in {} |-> NoRecord]

Windows == {"day", "month"}
Period(w, day) == IF w = "day" THEN day ELSE day \div DaysPerMonth

Unlimited == -1     \* approved_size_fraction is None
Rejected  == -2

Idle == [phase |-> "idle", tripped |-> FALSE, piped |-> FALSE, symbol |-> "none",
         day |-> 0, plan |-> NoPlan, mark |-> 0, approved |-> Rejected,
         todo |-> <<>>, slice |-> NoRecord]

Direction(side) == IF side = "buy" THEN 1 ELSE -1
Opposite(side)  == IF side = "buy" THEN "sell" ELSE "buy"

-----------------------------------------------------------------------------
(* Money, loss windows and the ledger.                                     *)

\* A mutant of Book: the month is forgotten.
Book_DayOnly(amount, day) ==
    /\ equity' = equity + amount
    /\ pnl' = [pnl EXCEPT !["day"] = @ + amount]
    /\ booked' = [booked EXCEPT ![day] = @ + amount]

\* Equity and both windows move by the same amount; day is the event's.
Book(amount, day) ==
    /\ equity' = equity + amount
    /\ pnl' = [w \in Windows |-> pnl[w] + amount]
    /\ booked' = [booked EXCEPT ![day] = @ + amount]

\* risk_snapshot: the windows roll over to the period of the latest event.
RolledPnl ==
    [w \in Windows |->
        IF /\ current_time # NoPeriod
           /\ last_reset[w] # NoPeriod
           /\ last_reset[w] # Period(w, current_time)
        THEN 0 ELSE pnl[w]]

RolledReset ==
    [w \in Windows |->
        IF current_time = NoPeriod THEN last_reset[w] ELSE Period(w, current_time)]

RollWindows == pnl' = RolledPnl /\ last_reset' = RolledReset

\* A mutant of save: a row that exists is left as it is.
save_InsertOnly(rows, record) ==
    [t \in DOMAIN rows \cup {record.trade_id} |->
        IF t \in DOMAIN rows THEN rows[t]
        ELSE [column |-> record.symbol, record |-> record]]

\* INSERT .. ON CONFLICT(trade_id) DO UPDATE: the row of an id that is already
\* there keeps its symbol column and takes the new payload.
save(rows, record) ==
    [t \in DOMAIN rows \cup {record.trade_id} |->
        IF t # record.trade_id THEN rows[t]
        ELSE IF t \in DOMAIN rows THEN [rows[t] EXCEPT !.record = record]
        ELSE [column |-> record.symbol, record |-> record]]

realized_pnl(side, entry, price, n) == Direction(side) * (price - entry) * n

\* The gateway: a market order against the book of set_mark_price.  It fills at
\* the touch, as far as the depth goes.
Filled(n) == Lesser(n, Depth)

FillPrice(side, mark) == mark + Direction(side) * HalfSpread

-----------------------------------------------------------------------------
Init ==
    /\ positions = [s \in Symbols |-> NoPosition]
    /\ open_records = [s \in Symbols |-> NoRecord]
    /\ ledger = NoTrades
    /\ equity = StartingEquity
    /\ pnl = [w \in Windows |-> 0]
    /\ last_reset = [w \in Windows |-> NoPeriod]
    /\ current_time = NoPeriod
    /\ sequence = 0
    /\ call = Idle
    /\ restarts = 0
    /\ executed = [s \in Symbols |-> 0]
    /\ booked = [d \in {p.day : p \in Proposals} |-> 0]
    /\ planned = [s \in Symbols |-> NoPlan]

\* A route reads the portfolio: no lock, at any point of a call.
Snapshot ==
    /\ windows # <<RolledPnl, RolledReset>>
    /\ RollWindows
    /\ UNCHANGED <<books, equity, current_time, sequence, call, restarts, executed, booked>>

Tripped ==
    \/ Greater(0, -RolledPnl["day"]) >= MaxDailyLoss
    \/ Greater(0, -RolledPnl["month"]) >= MaxMonthlyLoss

\* The decision pipeline takes its risk context and hands it to the reasoner.
Reason ==
    /\ call.phase = "idle"
    /\ sequence < MaxSequence
    /\ RollWindows
    /\ call' = [Idle EXCEPT !.phase = "reasoned", !.tripped = Tripped, !.piped = TRUE]
    /\ UNCHANGED <<books, equity, current_time, sequence, restarts, executed, booked>>

\* The step ends without process(): watch-only mode, or the reasoner fails.
StandAside ==
    /\ call.phase = "reasoned"
    /\ call' = Idle
    /\ UNCHANGED <<books, equity, windows, current_time, sequence, restarts, executed, booked>>

-----------------------------------------------------------------------------
(* process(): brackets first, then the gate.                               *)

\* The level at which the position's bracket is touched at a mark, stop
\* before target, or 0.  A level of 0 is none: no mark touches one at 0.
Trigger(position, mark) ==
    LET sign    == Direction(position.side)
        stopped == position.stop # 0 /\ sign * mark <= sign * position.stop
        reached == position.target # 0 /\ sign * mark >= sign * position.target
    IN  IF position = NoPosition THEN 0
        ELSE IF stopped THEN position.stop
        ELSE IF reached THEN position.target
        ELSE 0

Safe(p) == p.actions[1].type \in {"exit", "scale_out", "reduce_risk", "stand_aside"}

\* A mutant of Verdicts: the circuit breakers are not asked.
Verdicts_BreakersIgnored(p, tripped) ==
    IF Safe(p) THEN {Unlimited}
    ELSE IF ~has_bracket(p.plan) THEN {Rejected}
    ELSE {Rejected} \cup 0 .. p.actions[1].size

\* The gate looks at the primary action only.  Safety actions pass unsized;
\* anything else needs a bracket and untripped breakers, and gets a size up to
\* the one requested (0: REDUCED to nothing).
Verdicts(p, tripped) ==
    IF Safe(p) THEN {Unlimited}
    ELSE IF tripped \/ ~has_bracket(p.plan) THEN {Rejected}
    ELSE {Rejected} \cup 0 .. p.actions[1].size

\* After its last action a call of the pipeline goes on to its second
\* snapshot; a manual exit is over.
Finished(piped) == IF piped THEN [Idle EXCEPT !.phase = "settling", !.piped = TRUE]
                            ELSE Idle

ActionDone ==
    IF Tail(call.todo) = <<>> THEN Finished(call.piped)
    ELSE [call EXCEPT !.todo = Tail(@), !.slice = NoRecord]

\* process() runs for a proposal of the pipeline once it has been reasoned, or
\* for an operator's manual exit (routes_operator.py _exit_proposal).
MayProcess(p) ==
    \/ call.phase = "reasoned"
    \/ /\ call.phase = "idle"
       /\ sequence < MaxSequence
       /\ p.actions[1].type = "exit" /\ Len(p.actions) = 1

EnterProcess(p) ==
    /\ MayProcess(p)
    /\ sequence' = sequence + 1
    /\ current_time' = Greater(current_time, p.day)

\* _close_position: the whole position leaves at the bracket level.
BracketExit(p, mark) ==
    LET price  == Trigger(positions[p.symbol], mark)
        record == open_records[p.symbol]
        gross  == realized_pnl(record.side, record.entry, price, record.quantity)
        fee    == taker_fee_rate * price * record.quantity
    IN  /\ EnterProcess(p)
        /\ price # 0
        /\ Book(gross - fee, p.day)
        /\ ledger' = save(ledger, [record EXCEPT !.status = "closed", !.fee = @ + fee,
                                                 !.net = gross - record.fee - fee])
        /\ positions' = [positions EXCEPT ![p.symbol] = NoPosition]
        /\ open_records' = [open_records EXCEPT ![p.symbol] = NoRecord]
        /\ executed' = [executed EXCEPT ![p.symbol] =
                           @ - Direction(record.side) * record.quantity]
        /\ call' = Finished(call.piped)
        /\ UNCHANGED <<last_reset, restarts, planned>>

Gate(p, mark, approved) ==
    /\ EnterProcess(p)
    /\ Trigger(positions[p.symbol], mark) = 0
    /\ approved \in Verdicts(p, call.tripped)
    /\ call' = IF approved = Rejected THEN Finished(call.piped)
               ELSE [phase |-> "applying", tripped |-> call.tripped, piped |-> call.piped,
                     symbol |-> p.symbol, day |-> p.day, plan |-> p.plan,
                     mark |-> mark, approved |-> approved, todo |-> p.actions,
                     slice |-> NoRecord]
    /\ UNCHANGED <<books, equity, windows, restarts, executed, booked>>

-----------------------------------------------------------------------------
(* _apply_action, once per action of an approved proposal.                 *)

Applying == call.phase = "applying" /\ call.slice = NoRecord /\ call.todo # <<>>

Action == Head(call.todo)

Entering == Action.type \in EntryTypes
Closing  == Action.type \in {"exit", "scale_out"}

\* A mutant of TradeId: the identifier does not tell two calls apart.
TradeId_OrderOnly ==
    <<0, Action.order>>

TradeId == <<sequence, Action.order>>

\* One approved size stands for all the actions; zero vetoes all of them.
Size == IF call.approved = Unlimited THEN Action.size
                                     ELSE Lesser(Action.size, call.approved)

ApplyNothing ==
    /\ Applying
    /\ \/ ~Entering /\ ~Closing
       \/ call.approved = 0
       \/ Entering /\ positions[call.symbol] # NoPosition
       \/ Closing /\ open_records[call.symbol] = NoRecord
    /\ call' = ActionDone
    /\ UNCHANGED <<books, equity, windows, current_time, sequence, restarts, executed, booked>>

Level(level, price, sign) ==
    IF ~has_bracket(call.plan) THEN 0
    ELSE IF level.price # 0 THEN level.price
    ELSE price + sign * level.distance

\* A mutant of Bracket: a short gets the levels of a long.
Bracket_LongOnly(side, price) ==
    [stop |-> Level(call.plan.stop, price, -1), target |-> Level(call.plan.target, price, 1)]

\* _resolve_bracket: a price of the plan passes unchanged, on whichever side of
\* the fill it is; a distance is anchored to the fill, against the position for
\* the stop and with it for the target.
Bracket(side, price) ==
    [stop |-> Level(call.plan.stop, price, -Direction(side)),
     target |-> Level(call.plan.target, price, Direction(side))]

Open ==
    /\ Applying /\ Entering /\ call.approved # 0
    /\ positions[call.symbol] = NoPosition
    /\ LET side    == IF Action.type = "enter_long" THEN "buy" ELSE "sell"
           price   == FillPrice(side, call.mark)
           filled  == Filled(Size)
           fee     == gateway_fee_rate * price * filled
           bracket == Bracket(side, price)
           record  == [trade_id |-> TradeId, symbol |-> call.symbol, side |-> side,
                       quantity |-> filled, entry |-> price, fee |-> fee,
                       status |-> "open", net |-> 0]
       IN  /\ planned' = [planned EXCEPT ![call.symbol] = call.plan]
           /\ positions' = [positions EXCEPT ![call.symbol] =
                  [side |-> side, quantity |-> filled, entry |-> price,
                   stop |-> bracket.stop, target |-> bracket.target]]
           /\ Book(-fee, call.day)
           /\ open_records' = [open_records EXCEPT ![call.symbol] = record]
           /\ ledger' = save(ledger, record)
           /\ executed' = [executed EXCEPT ![call.symbol] = @ + Direction(side) * filled]
    /\ call' = ActionDone
    /\ UNCHANGED <<last_reset, current_time, sequence, restarts>>

\* What _close books for closing n units of a record: the whole of n, whatever
\* the gateway filled.
CloseQuantity(record) ==
    IF Action.type = "exit" THEN record.quantity ELSE Lesser(Action.size, record.quantity)

EntryFeeShare(record, n) == (record.fee * n) \div record.quantity

\* The closing order of a record, and the closed record for n of it.
ExitPrice(record) == FillPrice(Opposite(record.side), call.mark)

ExitFee(record, n) == gateway_fee_rate * ExitPrice(record) * Filled(n)

Gross(record, n) == realized_pnl(record.side, record.entry, ExitPrice(record), n)

\* A mutant of Closed: the net result leaves out the entry fee.
Closed_EntryFeeDropped(record, n) ==
    [record EXCEPT !.quantity = n, !.status = "closed",
                   !.fee = EntryFeeShare(record, n) + ExitFee(record, n),
                   !.net = Gross(record, n) - ExitFee(record, n)]

Closed(record, n) ==
    LET share == EntryFeeShare(record, n)
    IN  [record EXCEPT !.quantity = n, !.status = "closed",
                       !.fee = share + ExitFee(record, n),
                       !.net = Gross(record, n) - share - ExitFee(record, n)]

\* A mutant of BookClose: the closing order goes out on the side of the entry.
BookClose_SameSide(record, n) ==
    /\ Book(Gross(record, n) - ExitFee(record, n), call.day)
    /\ executed' = [executed EXCEPT ![call.symbol] = @ + Direction(record.side) * Filled(n)]

BookClose(record, n) ==
    /\ Book(Gross(record, n) - ExitFee(record, n), call.day)
    /\ executed' = [executed EXCEPT ![call.symbol] = @ - Direction(record.side) * Filled(n)]

CloseFull ==
    LET record == open_records[call.symbol]
        n      == CloseQuantity(record)
    IN  /\ Applying /\ Closing /\ call.approved # 0
        /\ record # NoRecord
        /\ n = record.quantity
        /\ BookClose(record, n)
        /\ ledger' = save(ledger, Closed(record, n))
        /\ positions' = [positions EXCEPT ![call.symbol] = NoPosition]
        /\ open_records' = [open_records EXCEPT ![call.symbol] = NoRecord]
        /\ call' = ActionDone
        /\ UNCHANGED <<last_reset, current_time, sequence, restarts, planned>>

\* A partial close shrinks the position and saves the remaining open record;
\* the closed slice is saved next, under an id of its own.
ClosePartial ==
    LET record == open_records[call.symbol]
        n      == CloseQuantity(record)
        rest   == [record EXCEPT !.quantity = @ - n, !.fee = @ - EntryFeeShare(record, n)]
    IN  /\ Applying /\ Closing /\ call.approved # 0
        /\ record # NoRecord
        /\ n < record.quantity
        /\ BookClose(record, n)
        /\ call' = [call EXCEPT !.slice = [Closed(record, n) EXCEPT !.trade_id = TradeId]]
        /\ positions' = [positions EXCEPT ![call.symbol].quantity = rest.quantity]
        /\ open_records' = [open_records EXCEPT ![call.symbol] = rest]
        /\ ledger' = save(ledger, rest)
        /\ UNCHANGED <<last_reset, current_time, sequence, restarts, planned>>

SaveSlice ==
    /\ call.slice # NoRecord
    /\ ledger' = save(ledger, call.slice)
    /\ call' = ActionDone
    /\ UNCHANGED <<positions, open_records, equity, windows, current_time, sequence,
                   restarts, executed, booked, planned>>

\* The pipeline's second snapshot, after the step has been processed.
Settle ==
    /\ call.phase = "settling"
    /\ RollWindows
    /\ call' = Idle
    /\ UNCHANGED <<books, equity, current_time, sequence, restarts, executed, booked>>

\* The process stops and starts again: the ledger is all that is left.
\* main.py builds a new simulator and reads nothing back.
Restart ==
    /\ restarts < MaxRestarts
    /\ restarts' = restarts + 1
    /\ positions' = [s \in Symbols |-> NoPosition]
    /\ open_records' = [s \in Symbols |-> NoRecord]
    /\ equity' = StartingEquity
    /\ pnl' = [w \in Windows |-> 0]
    /\ last_reset' = [w \in Windows |-> NoPeriod]
    /\ current_time' = NoPeriod
    /\ sequence' = 0
    /\ call' = Idle
    /\ planned' = [s \in Symbols |-> NoPlan]
    /\ UNCHANGED <<ledger, executed, booked>>

Next ==
    \/ Snapshot
    \/ Reason
    \/ StandAside
    \/ \E p \in Proposals, mark \in Marks : BracketExit(p, mark)
    \/ \E p \in Proposals, mark \in Marks : \E approved \in Verdicts(p, call.tripped) :
          Gate(p, mark, approved)
    \/ ApplyNothing
    \/ Open
    \/ CloseFull
    \/ ClosePartial
    \/ SaveSlice
    \/ Settle
    \/ Restart

Spec == Init /\ [][Next]_vars

-----------------------------------------------------------------------------
(* Properties.                                                             *)

Sides == {"buy", "sell"}

TradeIds == Nat \X Nat

OpenRecord ==
    [trade_id : TradeIds, symbol : Symbols, side : Sides, quantity : Nat \ {0},
     entry : Nat, fee : Nat, status : {"open"}, net : {0}]

ClosedRecord ==
    [trade_id : TradeIds, symbol : Symbols, side : Sides, quantity : Nat \ {0},
     entry : Nat, fee : Nat, status : {"closed"}, net : Int]

\* A distance beyond the price puts a long's stop or a short's target below 0.
Position ==
    [side : {"buy"}, quantity : Nat \ {0}, entry : Nat, stop : Int, target : Nat]
    \cup [side : {"sell"}, quantity : Nat \ {0}, entry : Nat, stop : Nat, target : Int]

Call ==
    [phase : {"idle", "reasoned", "applying", "settling"}, tripped : BOOLEAN,
     piped : BOOLEAN, symbol : Symbols \cup {"none"}, day : Nat, plan : PreTradePlan,
     mark : Nat, approved : Int, todo : Seq(ProposedAction),
     slice : {NoRecord} \cup ClosedRecord]

\* The state has the shapes the simulator's dataclasses give it; a stored
\* position or record has a positive quantity (position.py:44, trade_record.py:73).
TypeOK ==
    /\ positions \in [Symbols -> {NoPosition} \cup Position]
    /\ open_records \in [Symbols -> {NoRecord} \cup OpenRecord]
    /\ \A t \in DOMAIN ledger :
          /\ t \in TradeIds
          /\ ledger[t] \in [column : Symbols, record : OpenRecord \cup ClosedRecord]
    /\ equity \in Int
    /\ pnl \in [Windows -> Int]
    /\ last_reset \in [Windows -> {NoPeriod} \cup Nat]
    /\ current_time \in {NoPeriod} \cup Nat
    /\ sequence \in Nat
    /\ call \in Call
    /\ restarts \in Nat
    /\ executed \in [Symbols -> Int]
    /\ booked \in [{p.day : p \in Proposals} -> Int]
    /\ planned \in [Symbols -> PreTradePlan]

OpenRecords == {open_records[s] : s \in Symbols} \ {NoRecord}

OpenRows == {t \in DOMAIN ledger : ledger[t].record.status = "open"}

\* The trades the ledger calls open are the open positions: same trades, same
\* side, quantity and entry, one each, through partial closes and bracket exits.
LedgerAgrees ==
    /\ {ledger[t].record : t \in OpenRows} = OpenRecords
    /\ \A s \in Symbols :
          \/ positions[s] = NoPosition /\ open_records[s] = NoRecord
          \/ /\ open_records[s] # NoRecord
             /\ open_records[s].symbol = s
             /\ positions[s].side = open_records[s].side
             /\ positions[s].quantity = open_records[s].quantity
             /\ positions[s].entry = open_records[s].entry

\* The books and the orders sent out tell the same story: the position held is
\* the signed sum of what was executed.
PositionIsExecuted ==
    \A s \in Symbols :
        executed[s] = Direction(positions[s].side) * positions[s].quantity

\* Every unit of equity gained or lost is in the ledger: the net result of the
\* closed trades and the entry fees still open.  A slice not yet saved counts.
EquityReconciles ==
    equity = StartingEquity
             + MapThenSumSet(LAMBDA t : IF t \in OpenRows THEN -ledger[t].record.fee
                                                          ELSE ledger[t].record.net,
                             DOMAIN ledger)
             + call.slice.net

\* A closed row of the ledger is never written again.
ClosedRowsImmutable ==
    [][\A t \in DOMAIN ledger \ OpenRows :
          t \in DOMAIN ledger' /\ ledger'[t] = ledger[t]]_vars

\* A level is at the price its plan names or, if it names none, at its distance
\* from the entry, on the side of the sign.
AsPlanned(at, level, entry, sign) ==
    IF level.price # 0 THEN at = level.price ELSE sign * (at - entry) = level.distance

\* A position is never without the stop and the target of the plan the gate let
\* it be opened by, whatever part of it was closed and whatever plans came after
\* (_resolve_bracket, _close).  That a planned price is on the right side of the
\* entry nobody sees to.
EveryPositionProtected ==
    \A s \in Symbols :
        LET p    == positions[s]
            plan == planned[s]
            sign == Direction(p.side)
        IN  p # NoPosition =>
              /\ has_bracket(plan)
              /\ AsPlanned(p.stop, plan.stop, p.entry, -sign)
              /\ AsPlanned(p.target, plan.target, p.entry, sign)

Opens(s) == positions[s] = NoPosition /\ positions'[s] # NoPosition

\* Nothing is opened while a loss window stands at its limit, although the gate
\* judges by a context taken before the call.
NoOpenAtLimit ==
    [][(\E s \in Symbols : Opens(s)) =>
          /\ -pnl["day"] < MaxDailyLoss
          /\ -pnl["month"] < MaxMonthlyLoss]_vars

\* Between two resets a loss window moves exactly as equity does.
WindowFollowsEquity ==
    [][\A w \in Windows :
          last_reset'[w] = last_reset[w] /\ restarts' = restarts =>
             pnl'[w] - pnl[w] = equity' - equity]_vars

\* The loss windows keep both promises: they count every result, and stop what
\* would be opened beyond them.
LossWindowsHold == NoOpenAtLimit /\ WindowFollowsEquity

\* "Daily loss limit reached; trading halted until tomorrow"
\* (circuit_breaker_risk_gate.py:588): once the current day has lost the limit,
\* no entry of that day gets a size.
DailyHalt ==
    [][call.phase # "applying" /\ call'.phase = "applying" /\ call'.approved > 0
          /\ call'.day = current_time' =>
          -booked[call'.day] < MaxDailyLoss]_vars
=============================================================================
