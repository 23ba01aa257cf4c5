-------------------------- MODULE PaperFillEngine --------------------------
(***************************************************************************)
(* The paper fill engine                                                   *)
(* (backend/application/simulation/paper_fill_engine.py): a market or      *)
(* limit order sweeps the ladder of the current book, a passive limit      *)
(* rests in a FIFO queue per side and price, and advance() sweeps the      *)
(* resting orders against a new book.                                      *)
(*                                                                         *)
(* A ladder is a function from prices to sizes (0: no level); the code's   *)
(* best-first list of levels is that function read in price order.  Fees,  *)
(* latency, impact and the maker flag of a report are left out: nothing    *)
(* below depends on them.  A VWAP is kept as the notional it averages.     *)
(***************************************************************************)
EXTENDS Integers, Sequences, SequencesExt, FiniteSetsExt, Collections

CONSTANTS Ids,        \* order identifiers: numbers, for the code sorts by them
          MaxPrice,   \* prices are 1 .. MaxPrice (bound)
          MaxQty,     \* quantities are 1 .. MaxQty (bound)
          Books,      \* the books a driver may set
          Requests    \* the orders a caller may submit

VARIABLES book,       \* current book, NoBook until one is set
          queue,      \* <<side, price>> -> FIFO sequence of resting orders
          reports     \* what the last call returned

engineVars == <<book, queue, reports>>

Sides  == {"buy", "sell"}
Prices == 1 .. MaxPrice

OrderRequest ==
    [side : Sides, type : {"market", "limit"}, quantity : 1 .. MaxQty,
     limit : Prices, tif : {"gtc", "ioc", "fok", "gtx"}]

OrderBook == [bid : Prices, ask : Prices,
              bids : [Prices -> Nat], asks : [Prices -> Nat]]

NoBook == [bid |-> 0, ask |-> 0, bids |-> <<>>, asks |-> <<>>]

\* set_book: prices positive, best_bid below best_ask, ladders best-first
\* (a ladder that is a function of the price cannot be out of order).
BooksAssumption == \A b \in Books : b \in OrderBook /\ b.bid < b.ask

RequestsAssumption == Requests \subseteq OrderRequest

ASSUME EngineAssumption ==
    /\ Ids \subseteq Nat
    /\ MaxPrice \in Nat \ {0} /\ MaxQty \in Nat \ {0}
    /\ BooksAssumption
    /\ RequestsAssumption

_RestingOrder == [id : Ids, limit : Prices, remaining : 1 .. MaxQty]

Queued == UNION {ToSet(queue[k]) : k \in DOMAIN queue}

QueuedIds == {x.id : x \in Queued}

Report(id, side, quantity, notional, status, remaining) ==
    [id |-> id, side |-> side, quantity |-> quantity,
     notional |-> notional, status |-> status, remaining |-> remaining]

\* What the reports with the indices of S filled.
Filled(rs, S) == SumOver([i \in DOMAIN rs |-> rs[i].quantity], S)

-----------------------------------------------------------------------------
(* Sweeping a ladder.  A buy consumes asks from the lowest price up, a     *)
(* sell consumes bids from the highest price down; the bound is the cap    *)
(* (floor) of a limit, and a market order is bounded by nothing.           *)

_ladder(b, side) == IF side = "buy" THEN b.asks ELSE b.bids

Better(side, p, q) == IF side = "buy" THEN p < q ELSE p > q

NoBound(side) == IF side = "buy" THEN MaxPrice ELSE 1

Within(side, p, bound) == ~Better(side, bound, p)

Depth(ladder, levels) == SumOver(ladder, levels)

\* A mutant of Takes: the level at the limit itself is left out.
Takes_LimitExcluded(side, quantity, bound, ladder) ==
    [p \in Prices |->
        IF Better(side, p, bound)
        THEN LET ahead == Depth(ladder, {q \in Prices : Better(side, q, p)})
             IN  Min({ladder[p], Max({0, quantity - ahead})})
        ELSE 0]

\* Quantity taken at each price: what the better levels left wanted.
Takes(side, quantity, bound, ladder) ==
    [p \in Prices |->
        IF Within(side, p, bound)
        THEN LET ahead == Depth(ladder, {q \in Prices : Better(side, q, p)})
             IN  Min({ladder[p], Max({0, quantity - ahead})})
        ELSE 0]

_sweep(side, quantity, bound, ladder) ==
    LET takes == Takes(side, quantity, bound, ladder)
    IN  [filled   |-> Depth(takes, Prices),
         notional |-> SumOver([p \in Prices |-> p * takes[p]], Prices),
         ladder   |-> [p \in Prices |-> ladder[p] - takes[p]]]

-----------------------------------------------------------------------------
(* submit: the fill of one order at the current book.  Depth is not        *)
(* consumed: every submit sweeps a fresh copy of the book's ladder.        *)

Crosses(r) == IF r.side = "buy" THEN r.limit >= book.ask
                                ELSE r.limit <= book.bid

PostOnlyRejected(r) == r.tif = "gtx" /\ (r.type = "market" \/ Crosses(r))

SubmitSweep(r) ==
    IF r.type = "market"
    THEN _sweep(r.side, r.quantity, NoBound(r.side), _ladder(book, r.side))
    ELSE IF Crosses(r)
    THEN _sweep(r.side, r.quantity, r.limit, _ladder(book, r.side))
    ELSE [filled |-> 0, notional |-> 0]

SubmitStatus(r) ==
    LET filled == SubmitSweep(r).filled
    IN  IF PostOnlyRejected(r) THEN "rejected"
        ELSE IF r.type = "limit" /\ ~Crosses(r) THEN "new"
        ELSE IF filled >= r.quantity THEN "filled"
        ELSE IF r.type = "limit" /\ r.tif = "fok" THEN "rejected"
        ELSE "partially_filled"

\* Only a limit that may outlive the call is queued; the remainder of a
\* market order never is.
Rests(r) == /\ r.type = "limit"
            /\ r.tif \in {"gtc", "gtx"}
            /\ SubmitStatus(r) \in {"new", "partially_filled"}

SubmitReport(o, r) ==
    LET sweep  == SubmitSweep(r)
        status == SubmitStatus(r)
        filled == IF status \in {"filled", "partially_filled"}
                  THEN sweep.filled ELSE 0
    IN  Report(o, r.side, filled, IF filled = 0 THEN 0 ELSE sweep.notional, status,
               IF Rests(r) \/ (r.type = "market" /\ status = "partially_filled")
               THEN r.quantity - filled ELSE 0)

_enqueue(key, x) == [queue EXCEPT ![key] = Append(@, x)]

\* A mutant of SubmitQueue: the order rests with its whole quantity.
SubmitQueue_WholeQuantity(o, r) ==
    IF Rests(r)
    THEN _enqueue(<<r.side, r.limit>>, [id |-> o, limit |-> r.limit, remaining |-> r.quantity])
    ELSE queue

SubmitQueue(o, r) ==
    IF Rests(r)
    THEN _enqueue(<<r.side, r.limit>>,
                  [id |-> o, limit |-> r.limit,
                   remaining |-> r.quantity - SubmitReport(o, r).quantity])
    ELSE queue

-----------------------------------------------------------------------------
(* advance: the resting orders sweep the new book in price-time priority,  *)
(* all of one side consuming the same working ladder.                      *)

\* The price of a side's nth level: bids from the highest, asks from the lowest.
BestFirst(side, n) == IF side = "buy" THEN MaxPrice + 1 - n ELSE n

InPriority(side) == FlattenSeq([n \in Prices |-> queue[<<side, BestFirst(side, n)>>]])

\* A mutant of FillOne: the next order sees the depth this one took.
FillOne_DepthKept(side, acc, x) ==
    LET sweep == _sweep(side, x.remaining, x.limit, acc.ladder)
        left  == x.remaining - sweep.filled
    IN  [ladder  |-> acc.ladder,
         left    |-> Append(acc.left, [x EXCEPT !.remaining = left]),
         reports |-> IF sweep.filled = 0 THEN acc.reports
                     ELSE Append(acc.reports,
                                 Report(x.id, side, sweep.filled, sweep.notional,
                                        IF left = 0 THEN "filled" ELSE "partially_filled",
                                        left))]

FillOne(side, acc, x) ==
    LET sweep == _sweep(side, x.remaining, x.limit, acc.ladder)
        left  == x.remaining - sweep.filled
    IN  [ladder  |-> sweep.ladder,
         left    |-> Append(acc.left, [x EXCEPT !.remaining = left]),
         reports |-> IF sweep.filled = 0 THEN acc.reports
                     ELSE Append(acc.reports,
                                 Report(x.id, side, sweep.filled, sweep.notional,
                                        IF left = 0 THEN "filled" ELSE "partially_filled",
                                        left))]

\* A mutant of AdvanceSide: the queue is worked from its end.
AdvanceSide_LastFirst(side, b) ==
    FoldLeft(LAMBDA acc, x : FillOne(side, acc, x),
             [ladder |-> _ladder(b, side), left |-> <<>>, reports |-> <<>>],
             Reverse(InPriority(side)))

AdvanceSide(side, b) ==
    FoldLeft(LAMBDA acc, x : FillOne(side, acc, x),
             [ladder |-> _ladder(b, side), left |-> <<>>, reports |-> <<>>],
             InPriority(side))

\* A mutant of AdvanceQueue: what is left of a side goes to each of its levels.
AdvanceQueue_EveryLevel(b) ==
    [k \in Sides \X Prices |->
        LET left == AdvanceSide(k[1], b).left
        IN  Picked(left, {i \in DOMAIN left : left[i].remaining > 0})]

AdvanceQueue(b) ==
    [k \in Sides \X Prices |->
        LET left == AdvanceSide(k[1], b).left
        IN  Picked(left, {i \in DOMAIN left : left[i].limit = k[2] /\ left[i].remaining > 0})]

AdvanceReports(b) == AdvanceSide("buy", b).reports \o AdvanceSide("sell", b).reports

-----------------------------------------------------------------------------
(* cancel: the order leaves its price level, the others keep their order.  *)

_dequeue(ids) ==
    [k \in DOMAIN queue |-> Picked(queue[k], {i \in DOMAIN queue[k] : queue[k][i].id \notin ids})]

SideOf(o) == CHOOSE s \in Sides : \E p \in Prices : \E x \in ToSet(queue[<<s, p>>]) : x.id = o

CancelReport(o) ==
    Report(o, SideOf(o), 0, 0, "cancelled",
           (CHOOSE x \in Queued : x.id = o).remaining)

-----------------------------------------------------------------------------
EngineInit ==
    /\ book = NoBook
    /\ queue = [k \in Sides \X Prices |-> <<>>]
    /\ reports = <<>>

\* set_book and set_mark_price: a new book and no sweep.
set_book(b) ==
    /\ b # book
    /\ book' = b
    /\ reports' = <<>>
    /\ UNCHANGED queue

EngineTypeOK ==
    /\ book \in Books \cup {NoBook}
    /\ \A k \in Sides \X Prices : queue[k] \in Seq(_RestingOrder)
    /\ reports \in Seq([id : Ids, side : Sides, quantity : Nat, notional : Nat,
                        status : STRING, remaining : Nat])
=============================================================================
