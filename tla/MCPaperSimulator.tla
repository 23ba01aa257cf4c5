-------------------------- MODULE MCPaperSimulator --------------------------
(***************************************************************************)
(* Small proposals for TLC.  Every reasoner of the program builds one      *)
(* action per proposal, of order 1.                                        *)
(***************************************************************************)
EXTENDS PaperSimulator

ASSUME EntriesAssumption == EntriesFirst

Proposal(symbol, day, plan, type, size) ==
    [symbol |-> symbol, day |-> day, plan |-> plan,
     actions |-> <<[type |-> type, size |-> size, order |-> 1]>>]

At(price)   == [price |-> price, distance |-> 0]
Off(amount) == [price |-> 0, distance |-> amount]

\* The plan of the program's own reasoners, and a model's: prices it names, of
\* which an entry may find one on either side, and a distance beyond the price.
Anchored == [stop |-> Off(2), target |-> Off(2)]
Named    == [stop |-> At(5), target |-> Off(9)]

\* Two symbols on one day: entries of both sides, partial and full exits.
TwoSymbols ==
    {Proposal(s, 0, Anchored, type, 3) : s \in Symbols, type \in {"enter_long", "exit"}} \cup
    {Proposal("eth", 0, Anchored, "enter_short", 2), Proposal("btc", 0, Anchored, "scale_out", 1),
     Proposal("btc", 0, Named, "enter_short", 2)}

\* One symbol over two days of one month and the first day of the next.
ThreeDays ==
    {Proposal("btc", d, Anchored, type, 1) : d \in 0 .. 2, type \in {"enter_long", "exit"}} \cup
    {Proposal("btc", 1, NoPlan, "enter_long", 1), Proposal("btc", 1, Anchored, "stand_aside", 1)}
=============================================================================
