------------------------ MODULE OrderLifecycleProofs ------------------------
(***************************************************************************)
(* Proofs about OrderLifecycle, for any orders and any largest quantity.   *)
(***************************************************************************)
EXTENDS OrderLifecycle, TLAPS

TypeOK == orders \in [Ids -> {NoOrder} \cup VenueOrder]

\* A record is exact when its status and its filled quantity agree.
Exact(s) ==
    s # NoOrder =>
        /\ s \in VenueOrder
        /\ s.filled <= s.quantity
        /\ s.status = "filled" <=> s.filled = s.quantity

LEMMA OrderFacts ==
  ASSUME NEW s \in VenueOrder
  PROVE  /\ s.quantity \in Nat /\ s.quantity > 0 /\ s.filled \in Nat
         /\ s.status \in LiveStatuses \cup TERMINAL_STATUSES
         /\ s # NoOrder
  BY MaxQtyAssumption DEF VenueOrder, NoOrder, LiveStatuses, TERMINAL_STATUSES

\* A fill adds to a live order and completes it exactly when nothing is left.
LEMMA FillFacts ==
  ASSUME NEW s \in VenueOrder, NEW t \in VenueOrder, Exact(s), with_fill(s, t)
  PROVE  /\ Exact(t) /\ ~terminal(s)
         /\ t.quantity = s.quantity /\ t.filled > s.filled
<1>1. PICK n \in 1 .. remaining_quantity(s) :
        t = [s EXCEPT !.filled = @ + n,
                      !.status = IF n = remaining_quantity(s)
                                 THEN "filled" ELSE "partially_filled"]
  BY DEF with_fill
<1>2. /\ t.quantity = s.quantity /\ t.filled = s.filled + n
      /\ t.status = IF n = remaining_quantity(s) THEN "filled" ELSE "partially_filled"
  BY <1>1 DEF VenueOrder
<1>3. n \in Nat /\ n > 0 /\ n <= s.quantity - s.filled
  BY OrderFacts DEF remaining_quantity
<1> QED
  BY <1>2, <1>3, OrderFacts DEF Exact, with_fill, remaining_quantity

LEMMA FilledIsOrder ==
  ASSUME NEW s \in VenueOrder, NEW t, with_fill(s, t)
  PROVE  t # NoOrder
<1>1. PICK n \in 1 .. remaining_quantity(s) :
        t = [s EXCEPT !.filled = @ + n,
                      !.status = IF n = remaining_quantity(s)
                                 THEN "filled" ELSE "partially_filled"]
  BY DEF with_fill
<1>2. t.status \in {"filled", "partially_filled"}
  BY <1>1 DEF VenueOrder
<1> QED
  BY <1>2 DEF NoOrder

\* A terminal move leaves the quantities alone.
LEMMA TerminalFacts ==
  ASSUME NEW s \in VenueOrder, NEW t \in VenueOrder, Exact(s), replace_terminal(s, t)
  PROVE  /\ Exact(t) /\ ~terminal(s)
         /\ t.quantity = s.quantity /\ t.filled = s.filled
<1>1. PICK status \in {"rejected", "cancelled", "expired"} : t = [s EXCEPT !.status = status]
  BY DEF replace_terminal
<1>2. t.quantity = s.quantity /\ t.filled = s.filled /\ t.status = status
  BY <1>1 DEF VenueOrder
<1>3. s.status # "filled"
  BY DEF replace_terminal, terminal, TERMINAL_STATUSES
<1> QED
  BY <1>2, <1>3, OrderFacts DEF Exact, replace_terminal

\* One transition of one order.
LEMMA TransitionFacts ==
  ASSUME NEW s \in {NoOrder} \cup VenueOrder, NEW t \in {NoOrder} \cup VenueOrder,
         Exact(s), Transition(s, t)
  PROVE  /\ Exact(t)
         /\ s # NoOrder => /\ t.quantity = s.quantity /\ t.filled >= s.filled
                           /\ ~terminal(s)
<1>1. CASE Accept(s, t)
  BY <1>1, OrderFacts DEF Accept, Exact
<1>2. CASE with_fill(s, t)
  <2>1. s \in VenueOrder /\ t # NoOrder
    BY <1>2, FilledIsOrder DEF with_fill
  <2> QED
    BY <2>1, <1>2, FillFacts, OrderFacts
<1>3. CASE replace_terminal(s, t)
  <2>1. s \in VenueOrder /\ t # NoOrder
    BY <1>3, OrderFacts DEF replace_terminal, NoOrder, VenueOrder
  <2> QED
    BY <2>1, <1>3, TerminalFacts, OrderFacts
<1>4. ASSUME NEW q \in 1 .. MaxQty, s = NoOrder,
             \/ with_fill([status |-> "new", quantity |-> q, filled |-> 0], t)
             \/ t = [status |-> "rejected", quantity |-> q, filled |-> 0]
      PROVE  Exact(t)
  <2> DEFINE fresh == [status |-> "new", quantity |-> q, filled |-> 0]
  <2>1. fresh \in VenueOrder /\ Exact(fresh)
    BY MaxQtyAssumption DEF VenueOrder, Exact, LiveStatuses
  <2>2. CASE with_fill(fresh, t)
    <3>1. t # NoOrder
      BY <2>1, <2>2, FilledIsOrder
    <3> HIDE DEF fresh
    <3> QED
      BY <2>1, <2>2, <3>1, FillFacts
  <2>3. CASE t = [status |-> "rejected", quantity |-> q, filled |-> 0]
    BY <2>3, MaxQtyAssumption DEF Exact, VenueOrder, TERMINAL_STATUSES
  <2> QED
    BY <1>4, <2>2, <2>3
<1> QED
  BY <1>1, <1>2, <1>3, <1>4 DEF Transition

Inv == TypeOK /\ \A o \in Ids : Exact(orders[o])

LEMMA StepInv == Inv /\ [Next]_orders => Inv'
<1> SUFFICES ASSUME Inv, [Next]_orders PROVE Inv'
  OBVIOUS
<1>1. CASE UNCHANGED orders
  BY <1>1 DEF Inv, TypeOK, Exact
<1>2. CASE Next
  <2>1. TypeOK'
    BY <1>2 DEF Next, TypeOK
  <2>2. ASSUME NEW o \in Ids PROVE Exact(orders'[o])
    <3>1. orders[o] \in {NoOrder} \cup VenueOrder /\ orders'[o] \in {NoOrder} \cup VenueOrder
      BY <2>1 DEF Inv, TypeOK
    <3>2. orders'[o] = orders[o] \/ Transition(orders[o], orders'[o])
      BY <1>2 DEF Next
    <3> QED
      BY <3>1, <3>2, TransitionFacts DEF Inv
  <2> QED
    BY <2>1, <2>2 DEF Inv
<1> QED
  BY <1>1, <1>2

LEMMA SpecInv == Spec => []Inv
<1>1. Init => Inv
  BY DEF Init, Inv, TypeOK, Exact
<1> QED
  BY <1>1, StepInv, PTL DEF Spec

\* In every venue an order's status and filled quantity agree.
THEOREM FillsAreExact == Spec => []FillIsExact
<1>1. Inv => FillIsExact
  BY DEF Inv, FillIsExact, Exact
<1> QED
  BY <1>1, SpecInv, PTL

\* In every venue fills are never taken back and terminal orders are final.
THEOREM HistoryOnlyGrows == Spec => HistoryGrows
<1>1. ASSUME Inv, [Next]_orders
      PROVE  [\A o \in Ids : orders[o] # NoOrder =>
                /\ orders'[o].quantity = orders[o].quantity
                /\ orders'[o].filled >= orders[o].filled
                /\ terminal(orders[o]) => orders'[o] = orders[o]]_orders
  <2> SUFFICES ASSUME Next, NEW o \in Ids, orders[o] # NoOrder
               PROVE  /\ orders'[o].quantity = orders[o].quantity
                      /\ orders'[o].filled >= orders[o].filled
                      /\ terminal(orders[o]) => orders'[o] = orders[o]
    BY <1>1
  <2>1. orders[o] \in VenueOrder /\ orders'[o] \in {NoOrder} \cup VenueOrder
    BY <1>1 DEF Inv, TypeOK, Next
  <2>2. orders'[o] = orders[o] \/ Transition(orders[o], orders'[o])
    BY DEF Next
  <2> QED
    BY <1>1, <2>1, <2>2, TransitionFacts, OrderFacts DEF Inv
<1> QED
  BY <1>1, SpecInv, PTL DEF Spec, HistoryGrows
=============================================================================
