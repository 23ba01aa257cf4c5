---------------------------- MODULE SandboxVenue ----------------------------
(***************************************************************************)
(* The sandbox venue (backend/application/simulation/sandbox_venue.py): it *)
(* wraps the fill engine and keeps the lifecycle record of every order.    *)
(*                                                                         *)
(* Every call is one step: the venue is used from one thread.  Two things  *)
(* may still part the two records of an order, the engine's queue entry    *)
(* and the venue's lifecycle state, and both are kept here: the engine is  *)
(* called first and the record is written afterwards, and a transition of  *)
(* the record that raises leaves the engine's change in place.             *)
(*                                                                         *)
(* One symbol is modelled (the engine has one book), so a position is a    *)
(* signed number.                                                          *)
(***************************************************************************)
EXTENDS PaperFillEngine

CONSTANTS MaxTime,      \* venue clock values are 0 .. MaxTime (bound)
          resting_ttl   \* time a resting order may live

ASSUME TtlAssumption == resting_ttl \in Nat \ {0} /\ MaxTime \in Nat

VARIABLES states,       \* Ids -> NoState or the venue's lifecycle record
          executed,     \* history: Ids -> quantity the engine filled
          unrecorded    \* history: orders the engine queued without a record

venueVars == <<states, executed, unrecorded>>
vars == <<book, queue, reports, states, executed, unrecorded>>

NoTime  == -1
NoState == [status |-> "none", side |-> "none", quantity |-> 0, filled |-> 0,
            created |-> NoTime, expires |-> NoTime]

TERMINAL_STATUSES == {"filled", "cancelled", "rejected", "expired"}

VenueOrderState ==
    [status : {"new", "partially_filled"} \cup TERMINAL_STATUSES,
     side : Sides, quantity : 1 .. MaxQty, filled : 0 .. MaxQty,
     created : 0 .. MaxTime, expires : {NoTime} \cup 0 .. MaxTime + resting_ttl]

Known == {o \in Ids : states[o] # NoState}

\* Identifiers the application has handed out to an order that left a trace.
Used == Known \cup QueuedIds \cup unrecorded

resting(s) == s.status \in {"new", "partially_filled"} /\ s.filled < s.quantity

\* with_fill raises on a terminal order, on an empty fill and on an overfill.
Fillable(s, n) ==
    s.status \notin TERMINAL_STATUSES /\ n > 0 /\ n <= s.quantity - s.filled

\* A mutant of with_fill: a fill replaces the quantity filled so far.
with_fill_LastFillOnly(s, n) ==
    [s EXCEPT !.filled = n,
              !.status = IF s.filled + n = s.quantity THEN "filled" ELSE "partially_filled"]

\* A mutant of with_fill: the deadline is not carried over.
with_fill_DeadlineLost(s, n) ==
    [s EXCEPT !.filled = @ + n, !.expires = NoTime,
              !.status = IF s.filled + n = s.quantity THEN "filled" ELSE "partially_filled"]

with_fill(s, n) ==
    [s EXCEPT !.filled = @ + n,
              !.status = IF s.filled + n = s.quantity THEN "filled" ELSE "partially_filled"]

as_rested(s) ==
    [s EXCEPT !.expires = IF @ = NoTime THEN s.created + resting_ttl ELSE @]

-----------------------------------------------------------------------------
Init ==
    /\ EngineInit
    /\ states = [o \in Ids |-> NoState]
    /\ executed = [o \in Ids |-> 0]
    /\ unrecorded = {}

SetBook(b) == set_book(b) /\ UNCHANGED venueVars

\* _record_submit: the record a report gives rise to; a filled report whose
\* quantity is zero has none, because with_fill raises.
Recorded(r, t, report) ==
    LET fresh == [NoState EXCEPT !.status = "new", !.side = r.side,
                                 !.quantity = r.quantity, !.created = t]
    IN  CASE report.status = "rejected" -> [fresh EXCEPT !.status = "rejected"]
          [] report.status = "new" -> as_rested(fresh)
          [] report.status = "filled" -> with_fill(fresh, report.quantity)
          [] report.status = "partially_filled" ->
                IF Fillable(fresh, report.quantity)
                THEN as_rested(with_fill(fresh, report.quantity))
                ELSE NoState

\* submit raises before it changes anything while no book is set.  The
\* application hands out unique identifiers; in increasing order here.
Submit(o, r, t) ==
    /\ book # NoBook
    /\ o \notin Used
    /\ \A i \in Ids : i < o => i \in Used
    /\ LET report == SubmitReport(o, r)
           state  == Recorded(r, t, report)
       IN  /\ queue' = SubmitQueue(o, r)
           /\ states' = [states EXCEPT ![o] = state]
           /\ executed' = [executed EXCEPT ![o] = @ + report.quantity]
           /\ reports' = IF state = NoState THEN <<>> ELSE <<report>>
           /\ unrecorded' = IF state = NoState /\ Rests(r) THEN unrecorded \cup {o}
                                                          ELSE unrecorded
    /\ UNCHANGED book

\* _apply_engine_report, once per report in turn: the first report it cannot
\* record raises, and the reports behind it are not looked at.
Recordable(report) ==
    /\ report.id \in Known
    /\ Fillable(states[report.id], report.quantity)

Applied(rs) ==
    LET bad == {i \in DOMAIN rs : ~Recordable(rs[i])}
    IN  IF bad = {} THEN rs ELSE SubSeq(rs, 1, Min(bad) - 1)

ApplyReport(ss, report) ==
    LET updated == with_fill(ss[report.id], report.quantity)
    IN  [ss EXCEPT ![report.id] =
            IF resting(updated) /\ report.remaining > 0 THEN as_rested(updated)
                                                        ELSE updated]

Advance(b) ==
    LET rs == AdvanceReports(b)
    IN  /\ book' = b
        /\ queue' = AdvanceQueue(b)
        /\ states' = FoldLeft(ApplyReport, states, Applied(rs))
        /\ executed' = [o \in Ids |->
               executed[o] + Filled(rs, {i \in DOMAIN rs : rs[i].id = o})]
        /\ reports' = IF Applied(rs) = rs THEN rs ELSE <<>>
        /\ UNCHANGED unrecorded

\* The venue asks the engine first; a cancel the engine refuses raises and
\* changes nothing.
Cancel(o) ==
    /\ o \in Known /\ resting(states[o])
    /\ o \in QueuedIds
    /\ reports' = <<CancelReport(o)>>
    /\ queue' = _dequeue({o})
    /\ states' = [states EXCEPT ![o].status = "cancelled"]
    /\ UNCHANGED <<book, executed, unrecorded>>

\* A mutant of Due: terminal orders are swept too.
Due_Terminal(t) ==
    {o \in Known : states[o].expires # NoTime /\ states[o].expires <= t}

Due(t) == {o \in Known : /\ resting(states[o])
                         /\ states[o].expires # NoTime
                         /\ states[o].expires <= t}

\* An order the engine does not hold expires all the same.
ExpireDue(t) ==
    /\ Due(t) # {}
    /\ queue' = _dequeue(Due(t))
    /\ states' = [o \in Ids |-> IF o \in Due(t)
                                THEN [states[o] EXCEPT !.status = "expired"]
                                ELSE states[o]]
    /\ LET due == SetToSortSeq(Due(t), <)
       IN  reports' = [i \in DOMAIN due |->
                         Report(due[i], states[due[i]].side, 0, 0, "expired",
                                states[due[i]].quantity - states[due[i]].filled)]
    /\ UNCHANGED <<book, executed, unrecorded>>

Next ==
    \/ \E b \in Books : SetBook(b)
    \/ \E o \in Ids, r \in Requests, t \in 0 .. MaxTime : Submit(o, r, t)
    \/ \E b \in Books : Advance(b)
    \/ \E o \in Ids : Cancel(o)
    \/ \E t \in 0 .. MaxTime + resting_ttl : ExpireDue(t)

Spec == Init /\ [][Next]_vars

\* fetch_open_positions: net of everything the venue has recorded.
signed_volume(side, n) == IF side = "buy" THEN n ELSE -n

NetPosition == SumOver([o \in Known |-> signed_volume(states[o].side, states[o].filled)], Known)

-----------------------------------------------------------------------------
(* Properties.                                                             *)

\* Types of the engine's and of the venue's state (one invariant for both).
TypeOK ==
    /\ EngineTypeOK
    /\ states \in [Ids -> {NoState} \cup VenueOrderState]
    /\ executed \in [Ids -> 0 .. MaxQty]
    /\ unrecorded \subseteq Ids

\* The two records of an order agree: a queued order is a live one of the
\* venue, with exactly the quantity outstanding that the queue still works
\* (sandbox_venue.py submit, advance, cancel and expire_due each update both).
QueueAgrees ==
    \A x \in Queued :
        /\ x.id \in Known
        /\ resting(states[x.id])
        /\ x.remaining = states[x.id].quantity - states[x.id].filled

\* No order is queued twice, so no fill of it can be counted twice.
QueuedOnce ==
    \A k, l \in DOMAIN queue : \A i \in DOMAIN queue[k], j \in DOMAIN queue[l] :
        queue[k][i].id = queue[l][j].id => k = l /\ i = j

\* fetch_open_positions misses no execution: what the venue recorded for an
\* order is what the engine filled of it, never more than was asked for.
EveryFillRecorded ==
    \A o \in Ids : states[o].filled = executed[o] /\ executed[o] <= states[o].quantity

\* Engine and venue agree, once and in every quantity, while the venue has a
\* record of every order the engine took.
Agreement == /\ QueuedOnce
             /\ unrecorded = {} => QueueAgrees /\ EveryFillRecorded

\* Both touches of the book show size.  set_book asks for prices and an order
\* of the ladder only; a touch without size is accepted.
TouchShown == book.bids[book.bid] > 0 /\ book.asks[book.ask] > 0

\* Engine and venue agree on every order, in what is queued, once, and in what
\* was filled, until a limit meets a book whose touch is empty.  That is the one
\* way to part the two records: such a limit is queued by the engine
\* (paper_fill_engine.py submit), and its record is refused, for with_fill takes
\* no empty fill.
RecordsAgree ==
    /\ Agreement
    /\ [][Agreement' /\ (unrecorded' # unrecorded => ~TouchShown)]_vars

\* Only advance fills orders the venue already knows.
AdvanceFills == executed' # executed /\ Known' = Known

\* Price-time priority of advance (paper_fill_engine.py advance docstring): an
\* order fills only when every order ahead of it on its side, at a better
\* price or earlier at its own, has been filled completely.
PriceTimePriority ==
    [][AdvanceFills => \A i \in DOMAIN reports', side \in Sides :
         LET line == InPriority(side)
         IN \A n \in DOMAIN line : \A m \in 1 .. n - 1 :
              reports'[i].id = line[n].id => line[m].id \notin QueuedIds']_vars

\* advance never fills more than the new book shows, whatever number of
\* resting orders compete for it ("no double-filling against the same
\* size"), and never at a price beyond an order's limit.
DepthConserved ==
    [][AdvanceFills => \A side \in Sides :
         LET fills == {i \in DOMAIN reports' : reports'[i].side = side}
         IN  /\ Filled(reports', fills) <= Depth(_ladder(book', side), Prices)
             /\ \A i \in fills, x \in ToSet(InPriority(side)) :
                  reports'[i].id = x.id =>
                      IF side = "buy"
                      THEN reports'[i].notional <= x.limit * reports'[i].quantity
                      ELSE reports'[i].notional >= x.limit * reports'[i].quantity]_vars

\* advance leaves no order waiting beside liquidity it may take: what the new
\* book offers within the limit of an order still queued has been used up.
AdvanceExhausts ==
    [][Advance(book') =>
         LET fills == AdvanceReports(book')
         IN \A k \in DOMAIN queue' : queue'[k] # <<>> =>
              Filled(fills, {i \in DOMAIN fills : fills[i].side = k[1]})
                >= Depth(_ladder(book', k[1]), {p \in Prices : Within(k[1], p, k[2])})]_vars

\* The deadline of an order is fixed when it first rests: no later partial
\* fill moves it (_apply_engine_report keeps expires_at).
DeadlineFixed ==
    [][\A o \in Ids : states[o].expires # NoTime => states'[o].expires = states[o].expires]_vars

\* The venue implements the order lifecycle of order_lifecycle.py for every
\* order at once: a terminal order never moves again, fills only add up.
Lifecycle == INSTANCE OrderLifecycle WITH
    orders <- [o \in Ids |-> [status |-> states[o].status,
                              quantity |-> states[o].quantity,
                              filled |-> states[o].filled]]

LifecycleSpec == Lifecycle!Spec

\* An order lives as the lifecycle allows, and until the time it was given.
OrderLife == LifecycleSpec /\ DeadlineFixed

-----------------------------------------------------------------------------
(* Statements of the repository's documents that the code does not keep.   *)

\* "True when the order is live in the book with quantity outstanding"
\* (order_lifecycle.py, resting): what the venue calls resting is queued.
RestingIsLive ==
    \A o \in Known : resting(states[o]) => o \in QueuedIds
=============================================================================
