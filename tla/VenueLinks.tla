----------------------------- MODULE VenueLinks -----------------------------
(***************************************************************************)
(* The three gateways that send orders to a real venue:                    *)
(*   "ccxt"  CcxtOrderGateway: coroutines on a loop thread of its own      *)
(*           (infrastructure/execution/ccxt_gateway.py);                   *)
(*   "mt5"   MT5OrderGateway over MT5Bridge: one thread talks to the       *)
(*           terminal, one call after the other (execution/mt5/bridge.py); *)
(*   "ea"    MT5EABridgeSync: an order file and a response file shared     *)
(*           with the Expert Advisor (infrastructure/mt5/ea).              *)
(* submit blocks its caller until the answer, an error or a timeout; what  *)
(* it started goes on without the caller.  The venue is external: it       *)
(* executes any part of an order, and any answer of it may be lost.        *)
(***************************************************************************)
EXTENDS Integers, FiniteSets

CONSTANTS
    MaxOrders,  \* bound on the orders
    Symbols,
    Gateways,   \* the kinds of gateway that may be configured
    MaxQty,     \* bound on the quantity of one order
    MaxStarts   \* bound on the starts of the link

ASSUME OrdersAssumption == MaxOrders \in Nat /\ MaxQty \in Nat \ {0} /\ MaxStarts \in Nat

\* Orders are numbered as they are decided; 0 is no order.
Orders == 1 .. MaxOrders
Nobody == 0
Nothing == 0

VARIABLES
    gateway,        \* the configured kind
    running,        \* _ready (ccxt), _running (mt5, ea)
    starts,
    request,        \* the OrderRequests handed to submit, by order
    caller,         \* the order whose submit has not returned
    work,           \* how far submit's own coroutine has come, by order
    report,         \* what submit returned, by order
    executed,       \* venue: quantity executed, by order
    resting,        \* venue: orders with a remainder that may still fill
    answer,         \* venue: the last answer given for an order
    orders_file,    \* ea: the order in the order file
    response_file,  \* ea: the order whose answer is in the response file
    ea,             \* ea: the order the Expert Advisor is executing
    pending,        \* ea: _pending_requests
    polling,        \* ea: a response was read, its file is not yet removed
    unremoved,      \* ea: the order whose file the last start failed to remove
    session         \* history: the start an order was submitted under

link == <<gateway, running, starts>>
venue == <<executed, resting, answer>>
files == <<orders_file, response_file, ea, pending, polling, unremoved>>
linkVars == <<link, request, caller, work, report, venue, files, session>>

Sides == {"buy", "sell"}
Request == [symbol : Symbols, side : Sides, quantity : 1 .. MaxQty]
NoRequest == [symbol |-> "none", side |-> "buy", quantity |-> 0]

\* What a venue says of an order: "ended" stands for CCXT's canceled, expired and
\* rejected, an MT5 retcode that is an error, and an answer without a fill;
\* "unrecognised" for a status the mapping does not know.
Raw == {"closed", "open", "ended", "unrecognised"}
Answer == [raw : Raw, filled : 0 .. MaxQty]
NoAnswer == [raw |-> "error", filled |-> 0]

\* Nobody tells NEW, CANCELLED, REJECTED, EXPIRED and UNKNOWN apart, nor an error
\* that submit raises: they are "unfilled".
Status == {"partially_filled", "filled", "unfilled"}
Report == [status : Status, quantity : 0 .. MaxQty]
NoReport == [status |-> "none", quantity |-> 0]
Unfilled == [status |-> "unfilled", quantity |-> 0]

is_filled(r) == r.status \in {"filled", "partially_filled"}

-----------------------------------------------------------------------------
(* The mapping of an answer to a report.                                   *)

\* CCXT's unified status, or MT5's retcode: DONE is "closed"; PLACED and
\* DONE_PARTIAL are "open" without and with a fill.
map_status(a) ==
    CASE a.raw = "closed"                  -> "filled"
      [] a.raw = "open" /\ a.filled > 0    -> "partially_filled"
      [] OTHER                             -> "unfilled"

\* Only a filled status carries its quantity: what a cancelled order had filled
\* is reported as zero.
ReportOf(a) ==
    [status |-> map_status(a), quantity |-> IF map_status(a) = "unfilled" THEN 0 ELSE a.filled]

-----------------------------------------------------------------------------
Init ==
    /\ gateway \in Gateways
    /\ running = FALSE
    /\ starts = 0
    /\ request = [o \in Orders |-> NoRequest]
    /\ caller = Nobody
    /\ work = [o \in Orders |-> "none"]
    /\ report = [o \in Orders |-> NoReport]
    /\ executed = [o \in Orders |-> 0]
    /\ resting = {}
    /\ answer = [o \in Orders |-> NoAnswer]
    /\ orders_file = Nothing
    /\ response_file = Nothing
    /\ ea = Nothing
    /\ pending = {}
    /\ polling = FALSE
    /\ unremoved = Nothing
    /\ session = [o \in Orders |-> 0]

\* A mutant of ClearFiles: a new start keeps the files it finds.
ClearFiles_Kept ==
    /\ UNCHANGED <<orders_file, response_file>>
    /\ unremoved' = Nothing

\* Files left by a previous run are removed before the first poll.  An OSError is
\* suppressed: when the order file cannot be removed, because the terminal has
\* it open, both stay, and the bridge starts.
ClearFiles ==
    IF gateway # "ea" THEN UNCHANGED <<orders_file, response_file, unremoved>>
    ELSE \/ /\ orders_file' = Nothing
            /\ response_file' \in {Nothing, response_file}
            /\ unremoved' = Nothing
         \/ /\ orders_file # Nothing
            /\ UNCHANGED <<orders_file, response_file>>
            /\ unremoved' = orders_file

Start ==
    /\ ~running /\ starts < MaxStarts
    /\ running' = TRUE
    /\ starts' = starts + 1
    /\ ClearFiles
    /\ UNCHANGED <<gateway, request, caller, work, report, venue, ea, pending, polling, session>>

\* The loop stops.  A ccxt coroutine that was waiting for the venue never goes
\* on; the mt5 thread finishes the calls it was given first.
Stop ==
    /\ running
    /\ gateway = "mt5" => \A o \in Orders : work[o] \in {"none", "over"}
    /\ running' = FALSE
    /\ work' = [o \in Orders |-> CASE work[o] = "sent" -> "orphan"
                                   [] work[o] = "none" -> "none"
                                   [] OTHER            -> "over"]
    /\ polling' = FALSE
    /\ UNCHANGED <<gateway, starts, request, caller, report, venue, orders_file,
                   response_file, ea, pending, unremoved, session>>

-----------------------------------------------------------------------------
(* submit.                                                                 *)

Accept(o, r) ==
    /\ caller = Nobody /\ request[o] = NoRequest
    /\ request' = [request EXCEPT ![o] = r]
    /\ session' = IF gateway = "ea" THEN [session EXCEPT ![o] = starts] ELSE session

\* submit on a link that does not run raises; a ccxt gateway tries to connect
\* first, which can fail.
SubmitRaises(o, r) ==
    /\ Accept(o, r)
    /\ ~running
    /\ report' = [report EXCEPT ![o] = Unfilled]
    /\ UNCHANGED <<link, caller, work, venue, files>>

\* The coroutine is handed to the loop; a ccxt gateway connects when needed.
SubmitToLoop(o, r) ==
    /\ gateway # "ea"
    /\ Accept(o, r)
    /\ \/ running /\ UNCHANGED link
       \/ /\ ~running /\ gateway = "ccxt" /\ starts < MaxStarts
          /\ running' = TRUE /\ starts' = starts + 1
          /\ UNCHANGED gateway
    /\ caller' = o
    /\ work' = [work EXCEPT ![o] = "queued"]
    /\ UNCHANGED <<report, venue, files>>

\* submit_async: the pending request is registered, then the order file is
\* replaced, whatever it still held.
SubmitToFile(o, r) ==
    /\ gateway = "ea" /\ running
    /\ Accept(o, r)
    /\ caller' = o
    /\ pending' = pending \cup {o}
    /\ orders_file' = o
    /\ UNCHANGED <<link, work, report, venue, response_file, ea, polling, unremoved>>

\* Five attempts to replace the file fail.
SubmitFileFails(o, r) ==
    /\ gateway = "ea" /\ running
    /\ Accept(o, r)
    /\ report' = [report EXCEPT ![o] = Unfilled]
    /\ UNCHANGED <<link, caller, work, venue, files>>

Submit(o, r) == SubmitRaises(o, r) \/ SubmitToLoop(o, r) \/ SubmitToFile(o, r)
                \/ SubmitFileFails(o, r)

-----------------------------------------------------------------------------
(* The coroutine of a ccxt or mt5 order.                                   *)

MayCall(o) ==
    gateway = "mt5" => \A p \in Orders : work[p] \notin {"sent", "answered"}

\* create_order, order_send: the request leaves.
Send(o) ==
    /\ work[o] = "queued" /\ MayCall(o)
    /\ work' = [work EXCEPT ![o] = "sent"]
    /\ UNCHANGED <<link, request, caller, report, venue, files, session>>

\* order_check refuses an mt5 order: it is not sent.
CheckFails(o) ==
    /\ gateway = "mt5" /\ work[o] = "queued" /\ MayCall(o)
    /\ work' = [work EXCEPT ![o] = "answered"]
    /\ UNCHANGED <<link, request, caller, report, venue, files, session>>

\* The answer that goes with n executed of an order.
Answers(o, n) ==
    {a \in Answer :
        /\ a.filled = n
        /\ a.raw = "closed" => n = request[o].quantity
        /\ a.raw = "open" => n < request[o].quantity
        /\ a.raw = "ended" => n < request[o].quantity /\ (gateway = "ccxt" \/ n = 0)
        /\ a.raw = "unrecognised" => gateway = "ccxt"}

\* External: the venue executes n of the order and answers.
VenueExecutes(o, n, a) ==
    /\ \/ work[o] \in {"sent", "orphan"}
       \/ ea = o /\ answer[o] = NoAnswer
    /\ n <= request[o].quantity
    /\ a \in Answers(o, n)
    /\ executed' = [executed EXCEPT ![o] = n]
    /\ resting' = IF a.raw \in {"open", "unrecognised"} /\ n < request[o].quantity
                  THEN resting \cup {o} ELSE resting
    /\ answer' = [answer EXCEPT ![o] = IF work[o] = "orphan" THEN NoAnswer ELSE a]
    /\ work' = CASE work[o] = "sent"   -> [work EXCEPT ![o] = "answered"]
                 [] work[o] = "orphan" -> [work EXCEPT ![o] = "over"]
                 [] OTHER              -> work
    /\ UNCHANGED <<link, request, caller, report, files, session>>

\* External: a remainder that rests at the venue fills later.
LateFill(o) ==
    /\ o \in resting
    /\ executed' = [executed EXCEPT ![o] = @ + 1]
    /\ resting' = IF executed'[o] = request[o].quantity THEN resting \ {o} ELSE resting
    /\ UNCHANGED <<link, request, caller, work, report, answer, files, session>>

\* cancel(): the venue takes the remainder off its book, or cancel raises.
Cancel(o) ==
    /\ gateway # "ea" /\ caller = Nobody /\ running
    /\ o \in resting
    /\ resting' = resting \ {o}
    /\ UNCHANGED <<link, request, caller, work, report, executed, answer, files, session>>

\* The request or the answer is lost: create_order raises, order_send gives
\* nothing.  Whatever the venue did, it did.
AnswerLost(o) ==
    /\ work[o] \in {"sent", "answered"}
    /\ work' = [work EXCEPT ![o] = "answered"]
    /\ answer' = [answer EXCEPT ![o] = NoAnswer]
    /\ UNCHANGED <<link, request, caller, report, executed, resting, files, session>>

\* A mutant of Returns: a coroutine that failed reports the order as filled.
Returns_LostIsFilled(o) ==
    /\ report' = [report EXCEPT ![o] = IF answer[o] = NoAnswer
                     THEN [status |-> "filled", quantity |-> request[o].quantity]
                     ELSE ReportOf(answer[o])]
    /\ caller' = Nobody

\* The caller gets the report; an error was made a REJECTED report.
Returns(o) ==
    /\ report' = [report EXCEPT ![o] = IF answer[o] = NoAnswer THEN Unfilled
                                                               ELSE ReportOf(answer[o])]
    /\ caller' = Nobody

\* The coroutine ends.  A caller that gave up does not hear of it.
Finish(o) ==
    /\ work[o] = "answered"
    /\ work' = [work EXCEPT ![o] = "over"]
    /\ answer' = [answer EXCEPT ![o] = NoAnswer]
    /\ IF caller = o THEN Returns(o) ELSE UNCHANGED <<caller, report>>
    /\ UNCHANGED <<link, request, executed, resting, files, session>>

\* A mutant of Timeout: the caller waits for ever.
Timeout_Never(o) ==
    /\ gateway = "ea" /\ caller = o /\ o \notin pending
    /\ report' = [report EXCEPT ![o] = Unfilled]
    /\ caller' = Nobody
    /\ UNCHANGED <<link, request, work, venue, files, session>>

\* future.result(timeout): the ccxt and mt5 gateways raise, the ea bridge
\* reports REJECTED.  Nothing is taken back: neither coroutine nor file.
Timeout(o) ==
    /\ caller = o
    /\ report' = [report EXCEPT ![o] = Unfilled]
    /\ pending' = pending \ {o}
    /\ caller' = Nobody
    /\ UNCHANGED <<link, request, work, venue, orders_file, response_file, ea, polling, unremoved,
                   session>>

-----------------------------------------------------------------------------
(* The Expert Advisor and the poll loop of its bridge.                     *)

\* CheckForOrders reads the order file and deletes it.
TakeOrder ==
    /\ orders_file # Nothing /\ ea = Nothing
    /\ ea' = orders_file
    /\ orders_file' = Nothing
    /\ UNCHANGED <<link, request, caller, work, report, venue, response_file, pending, polling,
                   unremoved, session>>

\* WriteResponse replaces what the response file held.
WriteResponse ==
    /\ ea # Nothing
    /\ answer[ea] # NoAnswer
    /\ response_file' = ea
    /\ ea' = Nothing
    /\ UNCHANGED <<link, request, caller, work, report, venue, orders_file, pending, polling,
                   unremoved, session>>

\* A mutant of Matched: any waiting request takes the response.
Matched_AnyPending(o) ==
    IF pending # {}
    THEN LET p == CHOOSE p \in pending : TRUE
         IN  /\ pending' = pending \ {p}
             /\ report' = [report EXCEPT ![p] = ReportOf(answer[o])]
             /\ caller' = Nobody
    ELSE UNCHANGED <<pending, report, caller>>

\* A response is matched to its request by order_id, or dropped.
Matched(o) ==
    IF o \in pending
    THEN /\ pending' = pending \ {o}
         /\ report' = [report EXCEPT ![o] = ReportOf(answer[o])]
         /\ caller' = Nobody
    ELSE UNCHANGED <<pending, report, caller>>

\* _check_responses reads the response file; it is removed in a later step.
ReadResponse ==
    /\ running /\ ~polling
    /\ response_file # Nothing
    /\ Matched(response_file)
    /\ polling' = TRUE
    /\ UNCHANGED <<link, request, work, venue, orders_file, response_file, ea, unremoved, session>>

\* Read twice in the middle of being written: dropped.
DropResponse ==
    /\ running /\ ~polling
    /\ response_file # Nothing
    /\ polling' = TRUE
    /\ UNCHANGED <<link, request, caller, work, report, venue, orders_file, response_file,
                   ea, pending, unremoved, session>>

\* Removes the response file, were it by now another one, or fails to, and the
\* next poll reads it again.
UnlinkResponse ==
    /\ polling
    /\ response_file' \in {Nothing, response_file}
    /\ polling' = FALSE
    /\ UNCHANGED <<link, request, caller, work, report, venue, orders_file, ea, pending, unremoved,
                   session>>

\* The steps of the link and the venue, without submit.
LinkStep ==
    \/ Start \/ Stop
    \/ \E o \in Orders : Send(o) \/ CheckFails(o) \/ LateFill(o) \/ Cancel(o)
                         \/ AnswerLost(o) \/ Finish(o) \/ Timeout(o)
    \/ \E o \in Orders, n \in 0 .. MaxQty : \E a \in Answers(o, n) : VenueExecutes(o, n, a)
    \/ TakeOrder \/ WriteResponse \/ ReadResponse \/ DropResponse \/ UnlinkResponse

-----------------------------------------------------------------------------
LinkTypeOK ==
    /\ gateway \in Gateways
    /\ running \in BOOLEAN
    /\ starts \in Nat
    /\ request \in [Orders -> Request \cup {NoRequest}]
    /\ caller \in Orders \cup {Nobody}
    /\ work \in [Orders -> {"none", "queued", "sent", "answered", "orphan", "over"}]
    /\ report \in [Orders -> Report \cup {NoReport}]
    /\ executed \in [Orders -> Nat]
    /\ resting \subseteq Orders
    /\ answer \in [Orders -> Answer \cup {NoAnswer}]
    /\ orders_file \in Orders \cup {Nothing}
    /\ response_file \in Orders \cup {Nothing}
    /\ ea \in Orders \cup {Nothing}
    /\ pending \subseteq Orders
    /\ polling \in BOOLEAN
    /\ unremoved \in Orders \cup {Nothing}
    /\ session \in [Orders -> Nat]

\* A fill that submit of a real venue reports was executed by the venue for that order, at
\* least that much of it: no answer of another order, of an earlier start or of
\* a failed call is taken for a fill.
ReportIsBacked ==
    gateway # "paper" =>
        \A o \in Orders : is_filled(report[o]) => report[o].quantity <= executed[o]

\* The order the Expert Advisor would take while the bridge runs was submitted
\* under this start, or it is one whose file this start failed to remove: but for
\* that failure, an order left over from an earlier start, whose caller was long
\* told it was rejected, is not executed (ea/bridge.py:149-153).
NoLeftoverOrder ==
    running /\ orders_file # Nothing =>
        session[orders_file] = starts \/ orders_file = unremoved

\* Every submit returns to its caller: an answer, an error or a timeout.
SubmitReturns == \A o \in Orders : caller = o ~> caller # o
=============================================================================
