--------------------------- MODULE MCSandboxVenue ---------------------------
(***************************************************************************)
(* Small books and orders for TLC: three prices, two units.  A ladder on   *)
(* prices 1 .. 3 is written as a tuple of sizes.                           *)
(***************************************************************************)
EXTENDS SandboxVenue

Book(bid, ask, bids, asks) == [bid |-> bid, ask |-> ask, bids |-> bids, asks |-> asks]

\* Two books with a second level on one side.
TwoBooks ==
    {Book(1, 2, <<1, 0, 0>>, <<0, 1, 1>>), Book(2, 3, <<1, 1, 0>>, <<0, 0, 2>>)}

\* Books of one to three units a side; the ask of the last shows no size.
DeepBooks ==
    {Book(1, 2, <<1, 0, 0>>, <<0, 1, 1>>),
     Book(2, 3, <<2, 1, 0>>, <<0, 0, 2>>),
     Book(1, 3, <<2, 0, 0>>, <<0, 0, 1>>),
     Book(1, 2, <<1, 0, 0>>, <<0, 0, 1>>)}

Order(side, type, quantity, limit, tif) ==
    [side |-> side, type |-> type, quantity |-> quantity, limit |-> limit, tif |-> tif]

\* Resting and crossing limits of both sides, so that queues of two prices
\* build up and compete for depth.
LimitOrders ==
    {Order("buy", "limit", q, l, "gtc") : q \in 1 .. 2, l \in 2 .. 3} \cup
    {Order("sell", "limit", 2, l, "gtc") : l \in {1, 2}}

\* One order of every type and time in force.
EveryKind ==
    {Order("buy", "limit", 2, l, tif) : l \in 1 .. 2, tif \in {"gtc", "ioc", "fok", "gtx"}} \cup
    {Order("sell", "limit", 2, 2, tif) : tif \in {"gtc", "gtx"}} \cup
    {Order(s, "market", 2, 1, tif) : s \in Sides, tif \in {"gtc", "gtx"}}

ImmediateOrders == {Order("buy", "limit", 1, 1, "ioc"), Order("buy", "limit", 2, 2, "fok"),
                    Order("buy", "limit", 1, 1, "gtc")}
=============================================================================
