--------------------------- MODULE OrderLifecycle ---------------------------
(***************************************************************************)
(* What a venue promises about one order, whatever the fill model behind   *)
(* it: the guarded transitions of VenueOrderState                          *)
(* (backend/domain/execution/order_lifecycle.py).  A venue may move many   *)
(* orders in one call, so a step moves every order at once, each by one    *)
(* transition of its own or not at all.                                    *)
(*                                                                         *)
(* The average price and the fill log are abstracted to the filled         *)
(* quantity; timestamps play no part in the transitions.                   *)
(***************************************************************************)
EXTENDS Integers

CONSTANTS Ids,       \* order identifiers
          MaxQty     \* largest requested quantity (bound)

ASSUME MaxQtyAssumption == MaxQty \in Nat \ {0}

VARIABLE orders      \* Ids -> NoOrder or the venue's record of the order

NoOrder == [status |-> "none", quantity |-> 0, filled |-> 0]

TERMINAL_STATUSES == {"filled", "cancelled", "rejected", "expired"}

LiveStatuses == {"new", "partially_filled"}

VenueOrder ==
    [status : LiveStatuses \cup TERMINAL_STATUSES,
     quantity : 1 .. MaxQty, filled : 0 .. MaxQty]

remaining_quantity(s) == s.quantity - s.filled

resting(s) == s.status \in LiveStatuses /\ remaining_quantity(s) > 0

terminal(s) == s.status \in TERMINAL_STATUSES

-----------------------------------------------------------------------------
(* The guarded transitions: each is a relation between a record and the    *)
(* record that replaces it.                                                *)

Accept(s, t) ==
    /\ s = NoOrder
    /\ t \in VenueOrder
    /\ t.status = "new" /\ t.filled = 0

\* A mutant of with_fill: complete only when one fill covers the whole quantity.
with_fill_CompletesInOneFill(s, t) ==
    /\ s \in VenueOrder
    /\ ~terminal(s)
    /\ \E n \in 1 .. remaining_quantity(s) :
         t = [s EXCEPT !.filled = @ + n,
                       !.status = IF n = s.quantity THEN "filled" ELSE "partially_filled"]

with_fill(s, t) ==
    /\ s \in VenueOrder
    /\ ~terminal(s)
    /\ \E n \in 1 .. remaining_quantity(s) :
         t = [s EXCEPT !.filled = @ + n,
                       !.status = IF n = remaining_quantity(s)
                                  THEN "filled" ELSE "partially_filled"]

\* as_rejected, as_cancelled and as_expired; only the last two ask for a
\* resting order.
replace_terminal(s, t) ==
    /\ s \in VenueOrder
    /\ ~terminal(s)
    /\ \E status \in {"rejected", "cancelled", "expired"} :
         /\ status # "rejected" => resting(s)
         /\ t = [s EXCEPT !.status = status]

\* A call may accept an order and fill or reject it before it returns.
Transition(s, t) ==
    \/ Accept(s, t)
    \/ with_fill(s, t)
    \/ replace_terminal(s, t)
    \/ \E q \in 1 .. MaxQty :
         LET fresh == [status |-> "new", quantity |-> q, filled |-> 0]
         IN  s = NoOrder /\ ( \/ with_fill(fresh, t)
                              \/ t = [fresh EXCEPT !.status = "rejected"] )

-----------------------------------------------------------------------------
Init == orders = [o \in Ids |-> NoOrder]

Next ==
    /\ orders' \in [Ids -> {NoOrder} \cup VenueOrder]
    /\ \A o \in Ids : orders'[o] = orders[o] \/ Transition(orders[o], orders'[o])

Spec == Init /\ [][Next]_orders

-----------------------------------------------------------------------------
(* What follows for every order of a venue.                                *)

\* The order is complete exactly when its status says so: no order is called
\* filled with quantity outstanding, none stays live with nothing left, and
\* none is filled beyond what was asked (order_lifecycle.py:122-128).
FillIsExact ==
    \A o \in Ids : orders[o] # NoOrder =>
        /\ orders[o] \in VenueOrder
        /\ orders[o].filled <= orders[o].quantity
        /\ orders[o].status = "filled" <=> orders[o].filled = orders[o].quantity

\* An order is never forgotten, asked quantity never changes, fills are never
\* taken back, and a terminal order never moves again.
HistoryGrows ==
    [][\A o \in Ids : orders[o] # NoOrder =>
          /\ orders'[o].quantity = orders[o].quantity
          /\ orders'[o].filled >= orders[o].filled
          /\ terminal(orders[o]) => orders'[o] = orders[o]]_orders
=============================================================================
