----------------------- MODULE TradingPlatformProofs -----------------------
(***************************************************************************)
(* Proofs about TradingPlatform, for any number of consumers, drives,      *)
(* markets and prices.                                                     *)
(*                                                                         *)
(* Turn is the heart: a thread is inside exactly while it holds the lock.  *)
(* The other parts of the invariant say what the holder may rely on: the   *)
(* book is its own (FillsAtOwnMark), and once an opening has followed the  *)
(* kill switch nobody is past the supervisor's check (Lag).  With that,    *)
(* every step is a step of TradingDesk or invisible there (OneDesk).       *)
(***************************************************************************)
EXTENDS TradingPlatform, TLAPS

Turn == \A t \in Threads : pc[t] \in InLock <=> lock = t

Lag ==
    /\ late <= 1
    /\ ~killed => late = 0
    /\ late = 1 => \A t \in Pipeline : pc[t] \notin {"admitted", "reasoned"}

Inv == TypeOK /\ Turn /\ FillsAtOwnMark /\ Lag /\ AdmittedBracketsFire

Request == [symbol : Symbols, price : Prices, at : Nat]

\* The threads are distinct, and names are pairs.
LEMMA Constants ==
    /\ Operator \in Threads /\ Operator \notin Pipeline /\ Free \notin Threads
    /\ Pipeline \subseteq Threads /\ Consumers \subseteq Pipeline /\ Drives \subseteq Pipeline
    /\ Delays \subseteq Nat
    /\ FeedSymbols \subseteq Symbols /\ DriveSymbols \subseteq Symbols
    /\ \A s \in Symbols : market(s) \in Markets /\ upper(s) \in Symbols
    /\ Prices \subseteq Nat \ {0}
BY ThreadAssumption, ParameterAssumption
   DEF Threads, Pipeline, Symbols, FeedSymbols, DriveSymbols, market, upper

PlacesOK ==
    /\ pc \in [Threads -> {"off", "idle", "stamping", "waiting"} \cup InLock]
    /\ \A t \in Pipeline : pc[t] # "closing"
    /\ pc[Operator] \in {"idle", "waiting", "closing"}

RequestsOK ==
    /\ req \in [Pipeline -> {NoRequest} \cup Request]
    /\ \A t \in Pipeline : pc[t] \notin {"idle", "off"} => req[t] # NoRequest

DataOK ==
    /\ lock \in Threads \cup {Free}
    /\ order \in [listed : SUBSET Symbols, todo : SUBSET Symbols,
                  mark : {NoMark} \cup Mark]
    /\ book \in {NoMark} \cup Mark
    /\ positions \in [Symbols -> {None} \cup Prices]

ClocksOK ==
    /\ last_decision \in [Markets -> {Never} \cup Nat]
    /\ last_observation \in [Symbols -> {Never} \cup Nat]
    /\ killed \in BOOLEAN /\ auto_trade \in BOOLEAN /\ running \in BOOLEAN
    /\ now \in Nat
    /\ late \in Nat

\* The type invariant in parts.
LEMMA TypeParts ==
    /\ TypeOK <=> PlacesOK /\ RequestsOK /\ DataOK /\ ClocksOK
    /\ TypeOK' <=> PlacesOK' /\ RequestsOK' /\ DataOK' /\ ClocksOK'
BY DEF TypeOK, PlacesOK, RequestsOK, DataOK, ClocksOK, Request

\* A thread of the pipeline that is under way has a request.
LEMMA Requested ==
    ASSUME TypeOK, NEW t \in Pipeline, pc[t] \notin {"idle", "off"}
    PROVE  req[t] \in Request
BY DEF TypeOK, Request

LEMMA InitInv == Init => Inv
<1> SUFFICES ASSUME Init PROVE Inv
  OBVIOUS
<1>1. TypeOK
  BY Constants DEF Init, TypeOK, InLock, Deciding, NoRequest, NoOrder, Never, None, Pipeline,
                   Threads
<1>2. Turn
  BY Constants DEF Init, Turn, InLock, Deciding
<1>3. FillsAtOwnMark /\ Lag /\ AdmittedBracketsFire
  BY Constants DEF Init, FillsAtOwnMark, Lag, AdmittedBracketsFire
<1>4. QED BY <1>1, <1>2, <1>3 DEF Inv

-----------------------------------------------------------------------------

LEMMA ReceiveStep ==
    ASSUME Inv, NEW c \in Consumers, NEW s \in FeedSymbols,
           NEW delay \in Delays, NEW price \in Prices, Receive(c, s, price, delay)
    PROVE  Inv'
<1> USE Constants DEF Goto, switches, clocks
<1>1. TypeOK'
  <2> PlacesOK /\ RequestsOK /\ DataOK /\ ClocksOK
    BY TypeParts DEF Inv
  <2>1. PlacesOK'
    BY DEF Receive, Observe, PlacesOK, InLock, Deciding
  <2>2. RequestsOK'
    BY DEF Receive, Observe, RequestsOK, PlacesOK, ClocksOK, Request, NoRequest, Never, None
  <2>3. DataOK'
    BY DEF Receive, Observe, DataOK
  <2>4. ClocksOK'
    BY DEF Receive, Observe, ClocksOK
  <2>5. QED BY <2>1, <2>2, <2>3, <2>4, TypeParts
<1>2. Turn'
  BY DEF Inv, Receive, Observe, TypeOK, Turn, InLock, Deciding
<1>3. FillsAtOwnMark'
  BY DEF Inv, Receive, Observe, TypeOK, FillsAtOwnMark
<1>4. Lag'
  BY DEF Inv, Receive, Observe, TypeOK, Lag
<1>5. AdmittedBracketsFire'
  BY DEF Inv, Receive, Observe, TypeOK, AdmittedBracketsFire
<1>6. QED BY <1>1, <1>2, <1>3, <1>4, <1>5 DEF Inv

LEMMA SkipStep ==
    ASSUME Inv, NEW c \in Consumers, NEW s \in FeedSymbols,
           NEW delay \in Delays, Skip(c, s, delay)
    PROVE  Inv'
<1> USE Constants DEF Goto, switches, clocks
<1>1. TypeOK'
  <2> PlacesOK /\ RequestsOK /\ DataOK /\ ClocksOK
    BY TypeParts DEF Inv
  <2>1. PlacesOK'
    BY DEF Skip, Observe, AfterHandle, PlacesOK, InLock, Deciding
  <2>2. RequestsOK'
    BY DEF Skip, Observe, AfterHandle, RequestsOK, PlacesOK
  <2>3. DataOK'
    BY DEF Skip, Observe, AfterHandle, DataOK
  <2>4. ClocksOK'
    BY DEF Skip, Observe, AfterHandle, ClocksOK
  <2>5. QED BY <2>1, <2>2, <2>3, <2>4, TypeParts
<1>2. Turn'
  BY DEF Inv, Skip, Observe, AfterHandle, TypeOK, Turn, InLock, Deciding
<1>3. FillsAtOwnMark'
  BY DEF Inv, Skip, Observe, AfterHandle, TypeOK, FillsAtOwnMark
<1>4. Lag'
  BY DEF Inv, Skip, Observe, AfterHandle, TypeOK, Lag
<1>5. AdmittedBracketsFire'
  BY DEF Inv, Skip, Observe, AfterHandle, TypeOK, AdmittedBracketsFire
<1>6. QED BY <1>1, <1>2, <1>3, <1>4, <1>5 DEF Inv

LEMMA StampStep ==
    ASSUME Inv, NEW c \in Consumers, Stamp(c)
    PROVE  Inv'
<1> USE Constants DEF Goto, switches, clocks
<1>1. TypeOK'
  <2> PlacesOK /\ RequestsOK /\ DataOK /\ ClocksOK
    BY TypeParts DEF Inv
  <2>1. PlacesOK'
    BY DEF Stamp, PlacesOK, InLock, Deciding
  <2>2. RequestsOK'
    BY DEF Stamp, RequestsOK, PlacesOK
  <2>3. DataOK'
    BY DEF Stamp, DataOK
  <2>4. ClocksOK'
    <3>1. req[c] \in Request
      BY Requested DEF Inv, Stamp
    <3>2. QED BY <3>1 DEF Stamp, ClocksOK, Request
  <2>5. QED BY <2>1, <2>2, <2>3, <2>4, TypeParts
<1>2. Turn'
  BY DEF Inv, Stamp, TypeOK, Turn, InLock, Deciding
<1>3. FillsAtOwnMark'
  BY DEF Inv, Stamp, TypeOK, FillsAtOwnMark
<1>4. Lag'
  BY DEF Inv, Stamp, TypeOK, Lag
<1>5. AdmittedBracketsFire'
  BY DEF Inv, Stamp, TypeOK, AdmittedBracketsFire
<1>6. QED BY <1>1, <1>2, <1>3, <1>4, <1>5 DEF Inv

LEMMA DriveStep ==
    ASSUME Inv, NEW d \in Drives, NEW s \in DriveSymbols, NEW price \in Prices,
           NEW delay \in Delays, Drive(d, s, price, delay)
    PROVE  Inv'
<1> USE Constants DEF Goto, switches, clocks
<1>1. TypeOK'
  <2> PlacesOK /\ RequestsOK /\ DataOK /\ ClocksOK
    BY TypeParts DEF Inv
  <2>1. PlacesOK'
    BY DEF Drive, Observe, PlacesOK, InLock, Deciding
  <2>2. RequestsOK'
    BY DEF Drive, Observe, RequestsOK, PlacesOK, ClocksOK, Request, NoRequest, Never, None
  <2>3. DataOK'
    BY DEF Drive, Observe, DataOK
  <2>4. ClocksOK'
    BY DEF Drive, Observe, ClocksOK
  <2>5. QED BY <2>1, <2>2, <2>3, <2>4, TypeParts
<1>2. Turn'
  BY DEF Inv, Drive, Observe, TypeOK, Turn, InLock, Deciding
<1>3. FillsAtOwnMark'
  BY DEF Inv, Drive, Observe, TypeOK, FillsAtOwnMark
<1>4. Lag'
  BY DEF Inv, Drive, Observe, TypeOK, Lag
<1>5. AdmittedBracketsFire'
  BY DEF Inv, Drive, Observe, TypeOK, AdmittedBracketsFire
<1>6. QED BY <1>1, <1>2, <1>3, <1>4, <1>5 DEF Inv

LEMMA EnterStep ==
    ASSUME Inv, NEW t \in Threads, Enter(t)
    PROVE  Inv'
<1> USE Constants DEF Goto, switches, clocks
<1>1. TypeOK'
  <2> PlacesOK /\ RequestsOK /\ DataOK /\ ClocksOK
    BY TypeParts DEF Inv
  <2>1. PlacesOK'
    BY DEF Enter, PlacesOK, InLock, Deciding
  <2>2. RequestsOK'
    BY DEF Enter, RequestsOK, PlacesOK
  <2>3. DataOK'
    BY DEF Enter, DataOK
  <2>4. ClocksOK'
    BY DEF Enter, ClocksOK
  <2>5. QED BY <2>1, <2>2, <2>3, <2>4, TypeParts
<1>2. Turn'
  BY DEF Inv, Enter, TypeOK, Turn, InLock, Deciding
<1>3. FillsAtOwnMark'
  BY DEF Inv, Enter, TypeOK, Turn, InLock, Deciding, FillsAtOwnMark
<1>4. Lag'
  BY DEF Inv, Enter, TypeOK, Lag
<1>5. AdmittedBracketsFire'
  BY DEF Inv, Enter, TypeOK, Turn, InLock, Deciding, AdmittedBracketsFire
<1>6. QED BY <1>1, <1>2, <1>3, <1>4, <1>5 DEF Inv

LEMMA SetMarkStep ==
    ASSUME Inv, NEW t \in Pipeline, SetMark(t)
    PROVE  Inv'
<1> USE Constants DEF Goto, switches, clocks
<1>1. TypeOK'
  <2> PlacesOK /\ RequestsOK /\ DataOK /\ ClocksOK
    BY TypeParts DEF Inv
  <2>1. PlacesOK'
    BY DEF SetMark, PlacesOK, InLock, Deciding
  <2>2. RequestsOK'
    BY DEF SetMark, RequestsOK, PlacesOK
  <2>3. DataOK'
    BY DEF SetMark, DataOK, RequestsOK, PlacesOK, Request, Mark
  <2>4. ClocksOK'
    BY DEF SetMark, ClocksOK
  <2>5. QED BY <2>1, <2>2, <2>3, <2>4, TypeParts
<1>2. Turn'
  BY DEF Inv, SetMark, TypeOK, Turn, InLock, Deciding
<1>3. FillsAtOwnMark'
  BY DEF Inv, SetMark, TypeOK, Turn, InLock, Deciding, FillsAtOwnMark
<1>4. Lag'
  BY DEF Inv, SetMark, TypeOK, Lag
<1>5. AdmittedBracketsFire'
  BY DEF Inv, SetMark, TypeOK, Turn, InLock, Deciding, AdmittedBracketsFire
<1>6. QED BY <1>1, <1>2, <1>3, <1>4, <1>5 DEF Inv

LEMMA StandAsideStep ==
    ASSUME Inv, NEW t \in Pipeline, StandAside(t)
    PROVE  Inv'
<1> USE Constants DEF Goto, switches, clocks
<1>1. TypeOK'
  <2> PlacesOK /\ RequestsOK /\ DataOK /\ ClocksOK
    BY TypeParts DEF Inv
  <2>1. PlacesOK'
    BY DEF StandAside, PlacesOK, InLock, Deciding
  <2>2. RequestsOK'
    BY DEF StandAside, RequestsOK, PlacesOK
  <2>3. DataOK'
    BY DEF StandAside, DataOK
  <2>4. ClocksOK'
    BY DEF StandAside, ClocksOK
  <2>5. QED BY <2>1, <2>2, <2>3, <2>4, TypeParts
<1>2. Turn'
  BY DEF Inv, StandAside, TypeOK, Turn, InLock, Deciding
<1>3. FillsAtOwnMark'
  BY DEF Inv, StandAside, TypeOK, FillsAtOwnMark
<1>4. Lag'
  BY DEF Inv, StandAside, TypeOK, Lag
<1>5. AdmittedBracketsFire'
  BY DEF Inv, StandAside, TypeOK, AdmittedBracketsFire
<1>6. QED BY <1>1, <1>2, <1>3, <1>4, <1>5 DEF Inv

LEMMA AdmitStep ==
    ASSUME Inv, NEW t \in Pipeline, Admit(t)
    PROVE  Inv'
<1> USE Constants DEF Goto, switches, clocks
<1>1. TypeOK'
  <2> PlacesOK /\ RequestsOK /\ DataOK /\ ClocksOK
    BY TypeParts DEF Inv
  <2>1. PlacesOK'
    BY DEF Admit, may_trade, PlacesOK, InLock, Deciding
  <2>2. RequestsOK'
    BY DEF Admit, may_trade, RequestsOK, PlacesOK
  <2>3. DataOK'
    BY DEF Admit, may_trade, DataOK
  <2>4. ClocksOK'
    BY DEF Admit, may_trade, ClocksOK
  <2>5. QED BY <2>1, <2>2, <2>3, <2>4, TypeParts
<1>2. Turn'
  BY DEF Inv, Admit, may_trade, TypeOK, Turn, InLock, Deciding
<1>3. FillsAtOwnMark'
  BY DEF Inv, Admit, may_trade, TypeOK, FillsAtOwnMark
<1>4. Lag'
  BY DEF Inv, Admit, may_trade, TypeOK, Lag
<1>5. AdmittedBracketsFire'
  BY DEF Inv, Admit, may_trade, TypeOK, AdmittedBracketsFire
<1>6. QED BY <1>1, <1>2, <1>3, <1>4, <1>5 DEF Inv

LEMMA ReasonStep ==
    ASSUME Inv, NEW t \in Pipeline, Reason(t)
    PROVE  Inv'
<1> USE Constants DEF Goto, switches, clocks
<1>1. TypeOK'
  <2> PlacesOK /\ RequestsOK /\ DataOK /\ ClocksOK
    BY TypeParts DEF Inv
  <2>1. PlacesOK'
    BY DEF Reason, PlacesOK, InLock, Deciding
  <2>2. RequestsOK'
    BY DEF Reason, RequestsOK, PlacesOK
  <2>3. DataOK'
    BY DEF Reason, DataOK
  <2>4. ClocksOK'
    BY DEF Reason, ClocksOK
  <2>5. QED BY <2>1, <2>2, <2>3, <2>4, TypeParts
<1>2. Turn'
  BY DEF Inv, Reason, TypeOK, Turn, InLock, Deciding
<1>3. FillsAtOwnMark'
  BY DEF Inv, Reason, TypeOK, FillsAtOwnMark
<1>4. Lag'
  BY DEF Inv, Reason, TypeOK, Lag
<1>5. AdmittedBracketsFire'
  BY DEF Inv, Reason, TypeOK, AdmittedBracketsFire
<1>6. QED BY <1>1, <1>2, <1>3, <1>4, <1>5 DEF Inv

LEMMA TradeStep ==
    ASSUME Inv, NEW t \in Pipeline, Trade(t)
    PROVE  Inv'
<1> USE Constants DEF Goto, switches, clocks
<1> DEFINE s == req[t].symbol
           price == req[t].price
<1>r. req[t] \in Request /\ lock = t /\ book = [symbol |-> s, price |-> price]
  BY Requested DEF Inv, Trade, Turn, InLock, Deciding, FillsAtOwnMark
<1>e. PICK entry \in Outcomes(s, price) : positions' = [positions EXCEPT ![s] = entry]
  BY DEF Trade
<1>1. TypeOK'
  <2> PlacesOK /\ RequestsOK /\ DataOK /\ ClocksOK
    BY TypeParts DEF Inv
  <2>1. PlacesOK'
    BY DEF Trade, Outcomes, Held, PlacesOK, InLock, Deciding
  <2>2. RequestsOK'
    BY DEF Trade, Outcomes, Held, RequestsOK, PlacesOK
  <2>3. DataOK'
    <3>1. entry \in {None} \cup Prices
      BY <1>r, <1>e DEF Outcomes, DataOK, Request
    <3>2. QED BY <1>r, <1>e, <3>1 DEF Trade, DataOK, Request
  <2>4. ClocksOK'
    BY DEF Trade, Outcomes, Held, ClocksOK
  <2>5. QED BY <2>1, <2>2, <2>3, <2>4, TypeParts
<1>2. Turn'
  BY DEF Inv, Trade, Outcomes, Held, TypeOK, Turn, InLock, Deciding
<1>3. FillsAtOwnMark'
  BY DEF Inv, Trade, Outcomes, Held, TypeOK, Turn, InLock, Deciding, FillsAtOwnMark
<1>4. Lag'
  BY DEF Inv, Trade, Outcomes, Held, TypeOK, Turn, InLock, Deciding, Lag
<1>5. AdmittedBracketsFire'
  <2>1. positions'[s] = entry
    BY <1>r, <1>e DEF Inv, TypeOK, Request
  <2>2. entry = None \/ ~Touched(entry, price)
    <3>1. ~Touched(price, price)
      <4>1. price \in Nat
        BY <1>r DEF Request
      <4>2. \A p \in Nat : ~(p <= p - StopDistance) /\ ~(p >= p + TargetDistance)
        BY ParameterAssumption
      <4>3. QED BY <4>1, <4>2 DEF Touched
    <3>2. QED BY <1>r, <1>e, <3>1 DEF Outcomes
  <2>3. \A u \in Pipeline : pc'[u] = "traded" => u = t
    BY <1>r DEF Inv, TypeOK, Turn, Trade, InLock, Deciding
  <2>4. QED BY <2>1, <2>2, <2>3 DEF AdmittedBracketsFire, Trade
<1>6. QED BY <1>1, <1>2, <1>3, <1>4, <1>5 DEF Inv

LEMMA LeaveStep ==
    ASSUME Inv, NEW t \in Pipeline, Leave(t)
    PROVE  Inv'
<1> USE Constants DEF Goto, switches, clocks
<1>1. TypeOK'
  <2> PlacesOK /\ RequestsOK /\ DataOK /\ ClocksOK
    BY TypeParts DEF Inv
  <2>1. PlacesOK'
    BY DEF Leave, AfterHandle, PlacesOK, InLock, Deciding
  <2>2. RequestsOK'
    BY DEF Leave, AfterHandle, RequestsOK, PlacesOK, Request, NoRequest, None
  <2>3. DataOK'
    BY DEF Leave, AfterHandle, DataOK
  <2>4. ClocksOK'
    BY DEF Leave, AfterHandle, ClocksOK
  <2>5. QED BY <2>1, <2>2, <2>3, <2>4, TypeParts
<1>2. Turn'
  BY DEF Inv, Leave, AfterHandle, TypeOK, Turn, InLock, Deciding
<1>3. FillsAtOwnMark'
  BY DEF Inv, Leave, AfterHandle, TypeOK, Turn, InLock, Deciding, FillsAtOwnMark
<1>4. Lag'
  BY DEF Inv, Leave, AfterHandle, TypeOK, Lag
<1>5. AdmittedBracketsFire'
  BY DEF Inv, Leave, AfterHandle, TypeOK, Turn, InLock, Deciding, AdmittedBracketsFire
<1>6. QED BY <1>1, <1>2, <1>3, <1>4, <1>5 DEF Inv

LEMMA AskStep ==
    ASSUME Inv, NEW symbols \in SUBSET Symbols, Ask(symbols)
    PROVE  Inv'
<1> USE Constants DEF Goto, switches, clocks
<1>1. TypeOK'
  <2> PlacesOK /\ RequestsOK /\ DataOK /\ ClocksOK
    BY TypeParts DEF Inv
  <2>1. PlacesOK'
    BY DEF Ask, EventLoopFree, PlacesOK, InLock, Deciding
  <2>2. RequestsOK'
    BY DEF Ask, EventLoopFree, RequestsOK, PlacesOK
  <2>3. DataOK'
    BY DEF Ask, EventLoopFree, DataOK
  <2>4. ClocksOK'
    BY DEF Ask, EventLoopFree, ClocksOK
  <2>5. QED BY <2>1, <2>2, <2>3, <2>4, TypeParts
<1>2. Turn'
  BY DEF Inv, Ask, EventLoopFree, TypeOK, Turn, InLock, Deciding
<1>3. FillsAtOwnMark'
  BY DEF Inv, Ask, EventLoopFree, TypeOK, Turn, InLock, Deciding, FillsAtOwnMark
<1>4. Lag'
  BY DEF Inv, Ask, EventLoopFree, TypeOK, Lag
<1>5. AdmittedBracketsFire'
  BY DEF Inv, Ask, EventLoopFree, TypeOK, Turn, InLock, Deciding, AdmittedBracketsFire
<1>6. QED BY <1>1, <1>2, <1>3, <1>4, <1>5 DEF Inv

LEMMA TimeoutStep ==
    ASSUME Inv, Timeout
    PROVE  Inv'
<1> USE Constants DEF Goto, switches, clocks
<1>1. TypeOK'
  <2> PlacesOK /\ RequestsOK /\ DataOK /\ ClocksOK
    BY TypeParts DEF Inv
  <2>1. PlacesOK'
    BY DEF Timeout, PlacesOK, InLock, Deciding
  <2>2. RequestsOK'
    BY DEF Timeout, RequestsOK, PlacesOK
  <2>3. DataOK'
    BY DEF Timeout, DataOK, NoOrder
  <2>4. ClocksOK'
    BY DEF Timeout, ClocksOK
  <2>5. QED BY <2>1, <2>2, <2>3, <2>4, TypeParts
<1>2. Turn'
  BY DEF Inv, Timeout, TypeOK, Turn, InLock, Deciding
<1>3. FillsAtOwnMark'
  BY DEF Inv, Timeout, TypeOK, Turn, InLock, Deciding, FillsAtOwnMark
<1>4. Lag'
  BY DEF Inv, Timeout, TypeOK, Lag
<1>5. AdmittedBracketsFire'
  BY DEF Inv, Timeout, TypeOK, Turn, InLock, Deciding, AdmittedBracketsFire
<1>6. QED BY <1>1, <1>2, <1>3, <1>4, <1>5 DEF Inv

LEMMA CloseOneStep ==
    ASSUME Inv, NEW s \in Symbols, CloseOne(s)
    PROVE  Inv'
<1> USE Constants DEF Goto, switches, clocks
<1>1. TypeOK'
  <2> PlacesOK /\ RequestsOK /\ DataOK /\ ClocksOK
    BY TypeParts DEF Inv
  <2>1. PlacesOK'
    BY DEF CloseOne, Held, PlacesOK, InLock, Deciding
  <2>2. RequestsOK'
    BY DEF CloseOne, Held, RequestsOK, PlacesOK
  <2>3. DataOK'
    BY DEF CloseOne, Held, DataOK
  <2>4. ClocksOK'
    BY DEF CloseOne, Held, ClocksOK
  <2>5. QED BY <2>1, <2>2, <2>3, <2>4, TypeParts
<1>2. Turn'
  BY DEF Inv, CloseOne, Held, TypeOK, Turn, InLock, Deciding
<1>3. FillsAtOwnMark'
  BY DEF Inv, CloseOne, Held, TypeOK, Turn, InLock, Deciding, FillsAtOwnMark
<1>4. Lag'
  BY DEF Inv, CloseOne, Held, TypeOK, Lag
<1>5. AdmittedBracketsFire'
  BY DEF Inv, CloseOne, Held, TypeOK, Turn, InLock, Deciding, AdmittedBracketsFire
<1>6. QED BY <1>1, <1>2, <1>3, <1>4, <1>5 DEF Inv

LEMMA AnswerStep ==
    ASSUME Inv, Answer
    PROVE  Inv'
<1> USE Constants DEF Goto, switches, clocks
<1>1. TypeOK'
  <2> PlacesOK /\ RequestsOK /\ DataOK /\ ClocksOK
    BY TypeParts DEF Inv
  <2>1. PlacesOK'
    BY DEF Answer, PlacesOK, InLock, Deciding
  <2>2. RequestsOK'
    BY DEF Answer, RequestsOK, PlacesOK
  <2>3. DataOK'
    BY DEF Answer, DataOK, NoOrder
  <2>4. ClocksOK'
    BY DEF Answer, ClocksOK
  <2>5. QED BY <2>1, <2>2, <2>3, <2>4, TypeParts
<1>2. Turn'
  BY DEF Inv, Answer, TypeOK, Turn, InLock, Deciding
<1>3. FillsAtOwnMark'
  BY DEF Inv, Answer, TypeOK, Turn, InLock, Deciding, FillsAtOwnMark
<1>4. Lag'
  BY DEF Inv, Answer, TypeOK, Lag
<1>5. AdmittedBracketsFire'
  BY DEF Inv, Answer, TypeOK, Turn, InLock, Deciding, AdmittedBracketsFire
<1>6. QED BY <1>1, <1>2, <1>3, <1>4, <1>5 DEF Inv

LEMMA SwitchStep ==
    ASSUME Inv, engage_kill_switch \/ release_kill_switch \/ engine_mode \/ engine_stop \/ Tick
    PROVE  Inv'
<1> USE Constants DEF Goto, switches, clocks
<1>1. TypeOK'
  <2> PlacesOK /\ RequestsOK /\ DataOK /\ ClocksOK
    BY TypeParts DEF Inv
  <2>1. PlacesOK'
    BY DEF engage_kill_switch, release_kill_switch, engine_mode, engine_stop, Tick, PlacesOK,
           InLock, Deciding
  <2>2. RequestsOK'
    BY DEF engage_kill_switch, release_kill_switch, engine_mode, engine_stop, Tick, RequestsOK,
           PlacesOK
  <2>3. DataOK'
    BY DEF engage_kill_switch, release_kill_switch, engine_mode, engine_stop, Tick, DataOK
  <2>4. ClocksOK'
    <3>1. killed' \in BOOLEAN /\ auto_trade' \in BOOLEAN /\ running' \in BOOLEAN
      BY Zenon DEF engage_kill_switch, release_kill_switch, engine_mode, engine_stop, Tick,
                   ClocksOK
    <3>2. last_decision' = last_decision /\ last_observation' = last_observation
      BY DEF engage_kill_switch, release_kill_switch, engine_mode, engine_stop, Tick
    <3>3. now' \in Nat /\ late' \in Nat
      BY DEF engage_kill_switch, release_kill_switch, engine_mode, engine_stop, Tick, ClocksOK
    <3>4. QED BY <3>1, <3>2, <3>3 DEF ClocksOK
  <2>5. QED BY <2>1, <2>2, <2>3, <2>4, TypeParts
<1>2. Turn'
  BY DEF Inv, engage_kill_switch, release_kill_switch, engine_mode, engine_stop, Tick, TypeOK,
         Turn, InLock, Deciding
<1>3. FillsAtOwnMark'
  BY DEF Inv, engage_kill_switch, release_kill_switch, engine_mode, engine_stop, Tick, TypeOK,
         FillsAtOwnMark
<1>4. Lag'
  BY DEF Inv, engage_kill_switch, release_kill_switch, engine_mode, engine_stop, Tick, TypeOK, Lag
<1>5. AdmittedBracketsFire'
  BY DEF Inv, engage_kill_switch, release_kill_switch, engine_mode, engine_stop, Tick, TypeOK,
         AdmittedBracketsFire
<1>6. QED BY <1>1, <1>2, <1>3, <1>4, <1>5 DEF Inv

LEMMA StartStep ==
    ASSUME Inv, NEW c \in Consumers, engine_start(c)
    PROVE  Inv'
<1> USE Constants DEF Goto, switches, clocks
<1>1. TypeOK'
  <2> PlacesOK /\ RequestsOK /\ DataOK /\ ClocksOK
    BY TypeParts DEF Inv
  <2>1. PlacesOK'
    BY DEF engine_start, PlacesOK, InLock, Deciding
  <2>2. RequestsOK'
    BY DEF engine_start, RequestsOK, PlacesOK
  <2>3. DataOK'
    BY DEF engine_start, DataOK
  <2>4. ClocksOK'
    BY DEF engine_start, ClocksOK
  <2>5. QED BY <2>1, <2>2, <2>3, <2>4, TypeParts
<1>2. Turn'
  BY DEF Inv, engine_start, TypeOK, Turn, InLock, Deciding
<1>3. FillsAtOwnMark'
  BY DEF Inv, engine_start, TypeOK, FillsAtOwnMark
<1>4. Lag'
  BY DEF Inv, engine_start, TypeOK, Lag
<1>5. AdmittedBracketsFire'
  BY DEF Inv, engine_start, TypeOK, AdmittedBracketsFire
<1>6. QED BY <1>1, <1>2, <1>3, <1>4, <1>5 DEF Inv

LEMMA StutterStep ==
    ASSUME Inv, UNCHANGED vars
    PROVE  Inv'
<1> USE Constants DEF Goto, switches, clocks
<1>1. TypeOK'
  <2> PlacesOK /\ RequestsOK /\ DataOK /\ ClocksOK
    BY TypeParts DEF Inv
  <2>1. PlacesOK'
    BY DEF vars, PlacesOK, InLock, Deciding
  <2>2. RequestsOK'
    BY DEF vars, RequestsOK, PlacesOK
  <2>3. DataOK'
    BY DEF vars, DataOK
  <2>4. ClocksOK'
    BY DEF vars, ClocksOK
  <2>5. QED BY <2>1, <2>2, <2>3, <2>4, TypeParts
<1>2. Turn'
  BY DEF Inv, vars, TypeOK, Turn, InLock, Deciding
<1>3. FillsAtOwnMark'
  BY DEF Inv, vars, TypeOK, FillsAtOwnMark
<1>4. Lag'
  BY DEF Inv, vars, TypeOK, Lag
<1>5. AdmittedBracketsFire'
  BY DEF Inv, vars, TypeOK, AdmittedBracketsFire
<1>6. QED BY <1>1, <1>2, <1>3, <1>4, <1>5 DEF Inv

-----------------------------------------------------------------------------
LEMMA InvStep == Inv /\ [Next]_vars => Inv'
<1> SUFFICES ASSUME Inv, [Next]_vars PROVE Inv'
  OBVIOUS
<1> USE Constants
<1>1. ASSUME NEW c \in Consumers, NEW s \in FeedSymbols, NEW delay \in Delays,
             (\E price \in Prices : Receive(c, s, price, delay)) \/ Skip(c, s, delay)
      PROVE  Inv'
  BY <1>1, ReceiveStep, SkipStep
<1>2. ASSUME NEW c \in Consumers, Stamp(c) \/ engine_start(c) PROVE Inv'
  BY <1>2, StampStep, StartStep
<1>3. ASSUME NEW d \in Drives, NEW s \in DriveSymbols, NEW price \in Prices,
             NEW delay \in Delays, Drive(d, s, price, delay)
      PROVE  Inv'
  BY <1>3, DriveStep
<1>4. ASSUME NEW t \in Pipeline, Enter(t) \/ Decide(t) PROVE Inv'
  BY <1>4, EnterStep, SetMarkStep, StandAsideStep, AdmitStep, ReasonStep, TradeStep,
     LeaveStep DEF Decide
<1>5. ASSUME NEW s \in FeedSymbols, AskClose(s) PROVE Inv'
  BY <1>5, AskStep DEF AskClose
<1>6. ASSUME AskFlatten PROVE Inv'
  BY <1>6, AskStep DEF AskFlatten, Held
<1>7. ASSUME Serve PROVE Inv'
  BY <1>7, EnterStep, TimeoutStep, CloseOneStep, AnswerStep DEF Serve
<1>8. QED
  BY <1>1, <1>2, <1>3, <1>4, <1>5, <1>6, <1>7, SwitchStep, StutterStep DEF Next

LEMMA Invariance == Spec => []Inv
BY InitInv, InvStep, PTL DEF Spec

\* Every thread is always at a place it may be at, and every datum has its type.
THEOREM TypeCorrectness == Spec => []TypeOK
BY Invariance, PTL DEF Inv

\* At most one thread is ever between set_mark_price and the end of its step,
\* and that thread holds operator_lock (market_loop_service.py:233-237).
THEOREM OneDecides ==
    Spec => [](\A t, u \in Threads : pc[t] \in InLock /\ pc[u] \in InLock => t = u)
<1>1. Inv => \A t, u \in Threads : pc[t] \in InLock /\ pc[u] \in InLock => t = u
  BY DEF Inv, Turn
<1>2. QED BY <1>1, Invariance, PTL

\* No decision fills an entry on a book that another thread, or another
\* symbol, has set (market_loop_service.py:241-243, routes_drive.py:104-108).
THEOREM OwnMark == Spec => []FillsAtOwnMark
BY Invariance, PTL DEF Inv

\* At most one opening follows the kill switch, for any number of threads.
THEOREM KillBound == Spec => []KillLag
<1>1. Inv => KillLag
  BY DEF Inv, Lag, KillLag
<1>2. QED BY <1>1, Invariance, PTL

\* A decision that reached the simulator leaves no touched bracket behind.
THEOREM BracketsFire == Spec => []AdmittedBracketsFire
BY Invariance, PTL DEF Inv

\* Positions and book move only in a step of the one thread inside.
THEOREM LockedMutations == Spec => MutationsUnderLock
<1> DEFINE A == <<positions, book>>' # <<positions, book>> =>
                  /\ lock # Free /\ lock' = lock
                  /\ \A t \in Threads \ {lock} : pc[t] \notin InLock /\ pc'[t] = pc[t]
<1>1. Inv /\ [Next]_vars => A
  <2> SUFFICES ASSUME Inv, [Next]_vars, <<positions, book>>' # <<positions, book>>
               PROVE  A
    OBVIOUS
  <2>1. \/ \E t \in Pipeline : SetMark(t) \/ Trade(t)
        \/ \E s \in Symbols : CloseOne(s)
    BY DEF Next, Decide, Serve, Receive, Skip, Stamp, engine_start, Drive, Enter, StandAside,
           Admit, Reason, Leave, AskClose, AskFlatten, Ask, Timeout, Answer,
           engage_kill_switch, release_kill_switch, engine_mode, engine_stop, Tick, vars
  <2>2. CASE \E t \in Pipeline : SetMark(t) \/ Trade(t)
    BY <2>2, Constants DEF SetMark, Trade, Goto, Inv, TypeOK, Turn, InLock, Deciding
  <2>3. CASE \E s \in Symbols : CloseOne(s)
    BY <2>3, Constants DEF CloseOne, Inv, Turn, InLock
  <2>4. QED BY <2>1, <2>2, <2>3
<1>2. QED BY <1>1, Invariance, PTL DEF Spec, MutationsUnderLock

-----------------------------------------------------------------------------
(* The operator's sweep.                                                   *)

\* What the operator has gone through is closed, and stays closed: nobody
\* else opens a position before its turn with the lock ends.
Swept ==
    /\ pc[Operator] = "waiting" => order.todo = order.listed
    /\ pc[Operator] = "closing" =>
          (order.listed \ order.todo) \cap FeedSymbols \cap Held = {}

\* A feed's name is the one the exit of its position is proposed for.
LEMMA FeedNames == \A s \in FeedSymbols : upper(s) = s
BY DEF FeedSymbols, upper

\* A step keeps Swept, and the operator's answer finds nothing left to do.
LEMMA SweptStep ==
    ASSUME Inv, Swept, [Next]_vars
    PROVE  Swept' /\ (Answered => order.todo = {})
<1> USE Constants DEF Goto, switches, clocks
<1>0. /\ pc \in [Threads -> {"off", "idle", "stamping", "waiting"} \cup InLock]
      /\ positions \in [Symbols -> {None} \cup Prices]
      /\ order \in [listed : SUBSET Symbols, todo : SUBSET Symbols, mark : {NoMark} \cup Mark]
  BY DEF Inv, TypeOK
<1>1. ASSUME NEW t \in Pipeline, Trade(t) PROVE Swept' /\ pc'[Operator] = pc[Operator]
  <2>1. pc[t] = "reasoned" /\ pc' = [pc EXCEPT ![t] = "traded"] /\ order' = order
    BY <1>1 DEF Trade
  <2>2. pc[Operator] # "closing"
    BY <2>1 DEF Inv, Turn, InLock, Deciding
  <2>3. pc'[Operator] = pc[Operator]
    BY <2>1, <1>0
  <2>4. QED BY <2>1, <2>2, <2>3 DEF Swept
<1>2. ASSUME NEW s \in Symbols, CloseOne(s) PROVE Swept' /\ pc' = pc
  <2>1. /\ pc' = pc /\ pc[Operator] = "closing"
        /\ order'.listed = order.listed /\ order'.todo = order.todo \ {s}
    BY <1>2, <1>0 DEF CloseOne
  <2>2. positions' = IF s \in Held THEN [positions EXCEPT ![upper(s)] = None] ELSE positions
    BY <1>2 DEF CloseOne
  <2>3. ASSUME NEW r \in FeedSymbols, r \in order.listed, r \notin order.todo \ {s}
        PROVE  positions'[r] = None
    <3>1. CASE r = s
      BY <2>2, <3>1, <1>0, FeedNames DEF Held
    <3>2. CASE r # s
      <4>1. positions[r] = None
        BY <3>2, <2>1, <2>3 DEF Swept, Held
      <4>2. QED BY <4>1, <2>2, <1>0
    <3>3. QED BY <3>1, <3>2
  <2>4. QED BY <2>1, <2>3 DEF Swept, Held
<1>3. ASSUME NEW symbols, Ask(symbols) PROVE Swept' /\ pc[Operator] = "idle"
  <2>1. /\ pc[Operator] = "idle" /\ pc'[Operator] = "waiting"
        /\ order'.todo = order'.listed
    BY <1>3, <1>0 DEF Ask, EventLoopFree
  <2>2. QED BY <2>1 DEF Swept
<1>4. ASSUME Enter(Operator) PROVE Swept' /\ pc[Operator] = "waiting"
  BY <1>4, <1>0 DEF Enter, Swept, Held
<1>5. ASSUME Timeout \/ Answer
      PROVE  Swept' /\ (pc[Operator] = "closing" => order.todo = {})
  BY <1>5, <1>0 DEF Timeout, Answer, Swept
<1>6. ASSUME order' = order, positions' = positions, pc'[Operator] = pc[Operator]
      PROVE  Swept'
  BY <1>6 DEF Swept, Held
<1>7. ASSUME NEW c \in Consumers,
             \/ Stamp(c) \/ engine_start(c)
             \/ \E s \in FeedSymbols, delay \in Delays :
                   \/ \E price \in Prices : Receive(c, s, price, delay)
                   \/ Skip(c, s, delay)
      PROVE  order' = order /\ positions' = positions /\ pc'[Operator] = pc[Operator]
  BY <1>7, <1>0 DEF Stamp, engine_start, Receive, Skip
<1>8. ASSUME NEW d \in Drives, NEW s \in DriveSymbols, NEW price \in Prices,
             NEW delay \in Delays, Drive(d, s, price, delay)
      PROVE  order' = order /\ positions' = positions /\ pc'[Operator] = pc[Operator]
  BY <1>8, <1>0 DEF Drive
<1>9. ASSUME NEW t \in Pipeline,
             Enter(t) \/ SetMark(t) \/ StandAside(t) \/ Admit(t) \/ Reason(t) \/ Leave(t)
      PROVE  order' = order /\ positions' = positions /\ pc'[Operator] = pc[Operator]
  BY <1>9, <1>0 DEF Enter, SetMark, StandAside, Admit, Reason, Leave
<1>10. ASSUME \/ engage_kill_switch \/ release_kill_switch \/ engine_mode \/ engine_stop
              \/ Tick \/ UNCHANGED vars
       PROVE  order' = order /\ positions' = positions /\ pc'[Operator] = pc[Operator]
  BY <1>10 DEF engage_kill_switch, release_kill_switch, engine_mode, engine_stop, Tick, vars
<1>11. ASSUME order' = order, positions' = positions, pc'[Operator] = pc[Operator]
       PROVE  Swept' /\ (Answered => order.todo = {})
  BY <1>6, <1>11 DEF Answered
<1>12. QED
  BY <1>1, <1>2, <1>3, <1>4, <1>5, <1>7, <1>8, <1>9, <1>10, <1>11
     DEF Next, Decide, Serve, AskClose, AskFlatten, Answered

LEMMA Sweeping == Spec => []Swept
<1>1. Init => Swept
  BY Constants DEF Init, Swept
<1>2. Inv /\ Swept /\ [Next]_vars => Swept'
  BY SweptStep
<1>3. QED BY <1>1, <1>2, Invariance, PTL DEF Spec

\* When close or flatten answers, no position it listed under a feed's name is
\* left, for any number of threads that traded between the list and the lock.
THEOREM FeedPositionsClosed == Spec => ListedFeedPositionsClosed
<1>1. Inv /\ Swept /\ [Next]_vars => (Answered => order.listed \cap FeedSymbols \cap Held = {})
  BY SweptStep DEF Swept, Answered
<1>2. QED BY <1>1, Invariance, Sweeping, PTL DEF Spec, ListedFeedPositionsClosed

-----------------------------------------------------------------------------
(* One desk.  A step of the lock's holder is the whole decision (Trade) or *)
(* nothing at all: what the holder found when it entered is still there    *)
(* when it trades.                                                         *)

AtRest == {"off", "idle", "traded"}

AskedOf(t) == {[symbol |-> req[t].symbol, price |-> req[t].price]}

LEMMA AskedSame ==
    ASSUME \A t \in Pipeline : /\ pc'[t] \in AtRest <=> pc[t] \in AtRest
                               /\ pc[t] \notin AtRest => req'[t] = req[t]
    PROVE  Asked' = Asked
BY Zenon DEF Asked, AtRest

LEMMA AskedAt ==
    ASSUME NEW t \in Pipeline,
           \A u \in Pipeline \ {t} : pc'[u] = pc[u] /\ req'[u] = req[u]
    PROVE  /\ pc'[t] \in AtRest => Asked' = [Asked EXCEPT ![t] = {}]
           /\ pc'[t] \notin AtRest => Asked' = [Asked EXCEPT ![t] = AskedOf(t)']
BY DEF Asked, AskedOf, AtRest

\* A step that leaves every thread with what it had to decide on.
LEMMA Unseen ==
    ASSUME Inv, UNCHANGED <<positions, killed, late>>,
           \A t \in Pipeline : /\ pc'[t] \in AtRest <=> pc[t] \in AtRest
                               /\ pc[t] \notin AtRest => req'[t] = req[t]
    PROVE  UNCHANGED Desk!vars
BY AskedSame DEF Desk!vars

LEMMA ObserveAtDesk ==
    ASSUME Inv, NEW t \in Pipeline, NEW s \in Symbols, NEW price \in Prices, NEW place, NEW at,
           pc[t] = "idle", place \notin AtRest, pc' = [pc EXCEPT ![t] = place],
           req' = [req EXCEPT ![t] = [symbol |-> s, price |-> price, at |-> at]],
           UNCHANGED <<positions, killed, late>>
    PROVE  Desk!Next
<1> DEFINE o == [symbol |-> s, price |-> price]
<1>1. o \in Desk!Observation
  BY DEF Desk!Observation
<1>2. pc'[t] = place /\ req'[t].symbol = s /\ req'[t].price = price
  BY Constants DEF Inv, TypeOK
<1>3. \A u \in Pipeline \ {t} : pc'[u] = pc[u] /\ req'[u] = req[u]
  BY Constants DEF Inv, TypeOK
<1>4. Asked' = [Asked EXCEPT ![t] = {o}] /\ Asked[t] = {}
  <2>1. AskedOf(t)' = {o}
    BY <1>2 DEF AskedOf
  <2>2. Asked' = [Asked EXCEPT ![t] = AskedOf(t)']
    BY <1>2, <1>3, AskedAt
  <2>3. Asked[t] = {}
    BY DEF Asked
  <2> QED
    BY <2>1, <2>2, <2>3
<1>5. Desk!Observe(t, o)
  BY <1>4 DEF Desk!Observe
<1> QED
  BY <1>1, <1>5 DEF Desk!Next

LEMMA TradeAtDesk ==
    ASSUME Inv, NEW t \in Pipeline, Trade(t)
    PROVE  Desk!Next
<1> DEFINE s == req[t].symbol
           o == [symbol |-> s, price |-> req[t].price]
<1>1. /\ req[t] \in Request /\ book = o /\ pc[t] = "reasoned"
      /\ req' = req /\ pc' = [pc EXCEPT ![t] = "traded"] /\ UNCHANGED killed
  BY Requested DEF Inv, Trade, FillsAtOwnMark, Goto, switches
<1>2. PICK entry \in Outcomes(s, o.price) :
         /\ positions' = [positions EXCEPT ![s] = entry]
         /\ late' = IF killed /\ s \notin Held /\ entry # None THEN late + 1 ELSE late
  BY DEF Trade
<1>3. s \in Symbols /\ o.price \in Prices /\ o.price # None /\ o.symbol = s /\ book.price = o.price
  BY <1>1, Constants DEF Request, None
<1>4. positions \in [Symbols -> {None} \cup Prices] /\ (s \in Held <=> positions[s] # None)
  BY <1>3 DEF Inv, TypeOK, Held
<1>5. Asked' = [Asked EXCEPT ![t] = {}] /\ Asked[t] = {o}
  <2>1. pc'[t] = "traded" /\ \A u \in Pipeline \ {t} : pc'[u] = pc[u] /\ req'[u] = req[u]
    BY <1>1, Constants DEF Inv, TypeOK
  <2>2. Asked' = [Asked EXCEPT ![t] = {}]
    BY <2>1, AskedAt DEF AtRest
  <2>3. Asked[t] = {o}
    BY <1>1 DEF Asked
  <2> QED
    BY <2>2, <2>3
<1>6. CASE positions[s] # None /\ entry = None
  <2>1. Desk!Close(o)
    BY <1>2, <1>3, <1>4, <1>6 DEF Desk!Close, Desk!None, None
  <2> QED
    BY <1>1, <1>5, <2>1 DEF Desk!Decide, Desk!Next
<1>7. CASE positions[s] = None /\ entry # None
  <2>1. entry = o.price /\ late' = IF killed THEN late + 1 ELSE late
    BY <1>2, <1>3, <1>4, <1>7 DEF Outcomes
  <2>2. late \in Nat /\ late <= 1 /\ late # 1
    BY <1>1 DEF Inv, TypeOK, Lag
  <2>3. late = 0
    BY <2>2
  <2>4. Desk!Open(o)
    BY <1>2, <1>3, <1>7, <2>1, <2>3 DEF Desk!Open, Desk!None, None
  <2> QED
    BY <1>1, <1>5, <2>4 DEF Desk!Decide, Desk!Next
<1>8. CASE (positions[s] = None) <=> (entry = None)
  <2>1. entry = positions[s]
    BY <1>2, <1>8 DEF Outcomes
  <2>2. positions' = positions /\ late' = late
    BY <1>2, <1>3, <1>4, <2>1
  <2> QED
    BY <1>1, <1>5, <2>2 DEF Desk!StandAside, Desk!Next
<1> QED
  BY <1>6, <1>7, <1>8

LEMMA LeaveAtDesk ==
    ASSUME Inv, NEW t \in Pipeline, Leave(t)
    PROVE  Desk!Next
<1>1. /\ pc'[t] \in AtRest /\ UNCHANGED <<positions, killed, late>>
      /\ \A u \in Pipeline \ {t} : pc'[u] = pc[u] /\ req'[u] = req[u]
  BY Constants DEF Inv, TypeOK, Leave, Goto, AfterHandle, switches, AtRest
<1>2. Desk!StandAside(t)
  BY <1>1, AskedAt DEF Desk!StandAside
<1> QED
  BY <1>2 DEF Desk!Next

LEMMA CloseAtDesk ==
    ASSUME Inv, NEW s \in Symbols, CloseOne(s)
    PROVE  Desk!Next \/ UNCHANGED Desk!vars
<1>1. UNCHANGED <<pc, req, killed, late>>
  BY DEF CloseOne, switches
<1>2. Asked' = Asked
  BY <1>1, AskedSame
<1>3. CASE s \in Held
  <2>1. upper(s) \in Symbols /\ positions' = [positions EXCEPT ![upper(s)] = None]
    BY <1>3, Constants DEF CloseOne
  <2>2. Desk!CloseByHand(upper(s))
    BY <1>1, <1>2, <2>1 DEF Desk!CloseByHand, Desk!None, None
  <2> QED
    BY <2>1, <2>2 DEF Desk!Next
<1>4. CASE s \notin Held
  BY <1>1, <1>2, <1>4 DEF CloseOne, Desk!vars
<1> QED
  BY <1>3, <1>4

LEMMA SwitchAtDesk ==
    ASSUME Inv, engage_kill_switch \/ release_kill_switch
    PROVE  Desk!Next
<1>1. UNCHANGED <<pc, req, positions>>
  BY DEF engage_kill_switch, release_kill_switch
<1>2. Asked' = Asked
  BY <1>1, AskedSame
<1>3. CASE engage_kill_switch
  <2>1. Desk!Pull
    BY <1>1, <1>2, <1>3 DEF engage_kill_switch, Desk!Pull
  <2> QED
    BY <2>1 DEF Desk!Next
<1>4. CASE release_kill_switch
  <2>1. Desk!Release
    BY <1>1, <1>2, <1>4 DEF release_kill_switch, Desk!Release
  <2> QED
    BY <2>1 DEF Desk!Next
<1> QED
  BY <1>3, <1>4

LEMMA StepAtDesk == Inv /\ [Next]_vars => [Desk!Next]_(Desk!vars)
<1> SUFFICES ASSUME Inv, [Next]_vars PROVE Desk!Next \/ UNCHANGED Desk!vars
  OBVIOUS
<1> USE Constants
<1>0. pc \in [Threads -> {"off", "idle", "stamping", "waiting"} \cup InLock]
  BY DEF Inv, TypeOK
<1>1. ASSUME NEW c \in Consumers, NEW s \in FeedSymbols, NEW delay \in Delays,
             NEW price \in Prices, Receive(c, s, price, delay)
      PROVE  Desk!Next
  BY <1>1, ObserveAtDesk DEF Receive, Goto, switches, AtRest
<1>2. ASSUME NEW d \in Drives, NEW s \in DriveSymbols, NEW price \in Prices,
             NEW delay \in Delays, Drive(d, s, price, delay)
      PROVE  Desk!Next
  BY <1>2, ObserveAtDesk DEF Drive, Goto, switches, AtRest
<1>3. ASSUME NEW c \in Consumers,
             Stamp(c) \/ engine_start(c) \/ \E s \in FeedSymbols, delay \in Delays : Skip(c, s, delay)
      PROVE  UNCHANGED Desk!vars
  <2>1. c \in Pipeline /\ UNCHANGED <<positions, killed, late, req>>
    BY <1>3 DEF Stamp, engine_start, Skip, switches
  <2>2. \A t \in Pipeline : pc'[t] \in AtRest <=> pc[t] \in AtRest
    BY <1>0, <1>3, <2>1 DEF Stamp, engine_start, Skip, Goto, AfterHandle, AtRest
  <2> QED
    BY <2>1, <2>2, Unseen
<1>4. ASSUME NEW t \in Threads,
             \/ Enter(t)
             \/ t \in Pipeline /\ (SetMark(t) \/ StandAside(t) \/ Admit(t) \/ Reason(t))
      PROVE  UNCHANGED Desk!vars
  <2>1. UNCHANGED <<positions, killed, late, req>>
    BY <1>4 DEF Enter, SetMark, StandAside, Admit, Reason, switches
  <2>2. \A u \in Pipeline : pc'[u] \in AtRest <=> pc[u] \in AtRest
    BY <1>0, <1>4 DEF Enter, SetMark, StandAside, Admit, Reason, Goto, AtRest
  <2> QED
    BY <2>1, <2>2, Unseen
<1>5. ASSUME \/ Timeout \/ Answer \/ (\E symbols \in SUBSET Symbols : Ask(symbols))
             \/ engine_mode \/ engine_stop \/ Tick \/ UNCHANGED vars
      PROVE  UNCHANGED Desk!vars
  <2>1. UNCHANGED <<positions, killed, late, req>>
    BY <1>5 DEF Timeout, Answer, Ask, engine_mode, engine_stop, Tick, vars, switches
  <2>2. \A t \in Pipeline : pc'[t] = pc[t]
    BY <1>0, <1>5 DEF Timeout, Answer, Ask, Goto, engine_mode, engine_stop, Tick, vars
  <2> QED
    BY <2>1, <2>2, Unseen
<1>6. (AskFlatten \/ \E s \in FeedSymbols : AskClose(s)) => \E symbols \in SUBSET Symbols : Ask(symbols)
  BY DEF AskFlatten, AskClose, Held
<1> QED
  BY <1>1, <1>2, <1>3, <1>4, <1>5, <1>6, TradeAtDesk, LeaveAtDesk, CloseAtDesk, SwitchAtDesk
     DEF Next, Decide, Serve

\* The positions of the platform move as those of a desk where one decides at a
\* time, for any number of loop tasks and drives: the lock makes each decision
\* one step, at its own price and asking the supervisor afresh
\* (main.py:227-230, market_loop_service.py:233-253, routes_drive.py:104-108).
THEOREM OneDesk == Spec => ActsAsOneDesk
<1>1. Init => Desk!Init
  <2> SUFFICES ASSUME Init PROVE Desk!Init
    OBVIOUS
  <2>1. \A t \in Pipeline : pc[t] \in {"off", "idle", "traded"}
    BY Constants DEF Init
  <2>2. Asked = [t \in Pipeline |-> {}]
    BY <2>1 DEF Asked
  <2> QED
    BY <2>2 DEF Init, Desk!Init, Desk!None, None
<1> QED
  BY <1>1, StepAtDesk, Invariance, PTL DEF Spec, ActsAsOneDesk, Desk!Spec
=============================================================================
