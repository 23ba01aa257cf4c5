------------------------- MODULE LiveExecutionProofs -------------------------
(***************************************************************************)
(* Proofs about the live order path, for any number of orders, symbols,    *)
(* quantities and starts, any loss of answers and any file that cannot be  *)
(* removed, and about reconciliation, for any markets and clients:         *)
(*   a reported fill is backed by an execution of the same order;          *)
(*   the Expert Advisor is handed no order of an earlier start, but for    *)
(*   one whose file the start failed to remove;                            *)
(*   a vetoed symbol in upper case stays vetoed.                           *)
(*                                                                         *)
(* The first needs to know when an order may still be executed: an order   *)
(* that was reported filled has no coroutine left that could be answered   *)
(* again with less, and at the Expert Advisor it has an answer already.    *)
(***************************************************************************)
EXTENDS LiveExecution, Reconciliation, TLAPS

\* The venue's own quantities, as far as they matter here.
VenueTypeOK ==
    /\ request \in [Orders -> Request \cup {NoRequest}]
    /\ work \in [Orders -> {"none", "queued", "sent", "answered", "orphan", "over"}]
    /\ report \in [Orders -> Report \cup {NoReport}]
    /\ executed \in [Orders -> Nat]
    /\ answer \in [Orders -> Answer \cup {NoAnswer}]
    /\ orders_file \in Orders \cup {Nothing}
    /\ response_file \in Orders \cup {Nothing}
    /\ ea \in Orders \cup {Nothing}
    /\ resting \subseteq Orders
    /\ caller \in Orders \cup {Nobody}
    /\ decided = Undecided \/ decided \in [order : Orders, request : Request]

\* Only the ea bridge uses the files; only the others have coroutines.
Apart ==
    IF gateway = "ea" THEN \A o \in Orders : work[o] = "none"
    ELSE orders_file = Nothing /\ ea = Nothing /\ pending = {}

\* An order with a coroutine was submitted; a filled one has nothing under way
\* that could be answered again.
Settled(o) ==
    /\ work[o] # "none" => request[o] # NoRequest
    /\ is_filled(report[o]) => IF gateway = "ea" THEN answer[o] # NoAnswer ELSE work[o] = "over"

Backed(o) ==
    /\ answer[o] # NoAnswer => answer[o].filled <= executed[o]
    /\ is_filled(report[o]) => report[o].quantity <= executed[o]

BackedInv ==
    /\ VenueTypeOK
    /\ Apart
    /\ gateway # "paper" => \A o \in Orders : Settled(o) /\ Backed(o)

-----------------------------------------------------------------------------
LEMMA NoOrderIsZero == Nothing \notin Orders /\ Nobody \notin Orders
  BY OrdersAssumption DEF Orders, Nothing, Nobody

LEMMA RequestIsReal == NoRequest \notin Request
  BY DEF NoRequest, Request

\* What an answer is worth as a report.
LEMMA ReportOfTyped ==
  ASSUME NEW a \in Answer \cup {NoAnswer}
  PROVE  /\ ReportOf(a) \in Report
         /\ is_filled(ReportOf(a)) => a # NoAnswer /\ ReportOf(a).quantity = a.filled
  BY OrdersAssumption DEF Answer, NoAnswer, ReportOf, map_status, Report, Status, is_filled

LEMMA UnfilledTyped == Unfilled \in Report /\ ~is_filled(Unfilled) /\ ~is_filled(NoReport)
  BY OrdersAssumption DEF Unfilled, NoReport, Report, Status, is_filled

\* The gate's cap is one of the two quantities.
LEMMA ReducedTyped ==
  ASSUME NEW want \in 1 .. MaxQty, NEW cap \in 1 .. MaxQty
  PROVE  Reduced(want, cap) \in 1 .. MaxQty
<1>1. \E x \in {want, cap} : \A y \in {want, cap} : x <= y
  OBVIOUS
<1>2. Reduced(want, cap) \in {want, cap}
  BY <1>1 DEF Reduced, Min
<1> QED
  BY <1>2

LEMMA BackedInitially == LiveInit => BackedInv
<1> SUFFICES ASSUME LiveInit PROVE BackedInv
  OBVIOUS
<1>1. VenueTypeOK
  BY OrdersAssumption DEF LiveInit, Init, VenueTypeOK
<1>2. Apart
  BY DEF LiveInit, Init, Apart
<1>3. \A o \in Orders : Settled(o) /\ Backed(o)
  BY UnfilledTyped DEF LiveInit, Init, Settled, Backed
<1> QED
  BY <1>1, <1>2, <1>3 DEF BackedInv

-----------------------------------------------------------------------------
(* Submit.                                                                 *)

\* Accept gives an order its request and nothing else that is spoken of here.
LEMMA SubmitBacked ==
  ASSUME BackedInv, NEW o \in Orders, NEW r \in Request, Submit(o, r), decided' = Undecided,
         gateway # "paper"
  PROVE  BackedInv'
<1>1. VenueTypeOK /\ Apart /\ request[o] = NoRequest /\ r # NoRequest
  BY RequestIsReal DEF BackedInv, Submit, SubmitRaises, SubmitToLoop, SubmitToFile, SubmitFileFails, Accept
<1>2. request' = [request EXCEPT ![o] = r] /\ gateway' = gateway
  BY DEF Submit, SubmitRaises, SubmitToLoop, SubmitToFile, SubmitFileFails, Accept, link
<1>3. UNCHANGED venue
  BY DEF Submit, SubmitRaises, SubmitToLoop, SubmitToFile, SubmitFileFails
<1>4. \A p \in Orders : Settled(p) /\ Backed(p)
  BY DEF BackedInv
<1>5. work[o] = "none" /\ (gateway # "ea" => ~is_filled(report[o]))
  BY <1>1, <1>4 DEF Settled
<1>6. CASE SubmitRaises(o, r) \/ SubmitFileFails(o, r)
  <2>1. report' = [report EXCEPT ![o] = Unfilled] /\ UNCHANGED <<caller, work, files>>
    BY <1>6 DEF SubmitRaises, SubmitFileFails
  <2>2. VenueTypeOK'
    BY <1>1, <1>2, <1>3, <2>1, UnfilledTyped DEF VenueTypeOK, venue, files
  <2>3. Apart'
    BY <1>1, <1>2, <2>1 DEF Apart, files
  <2>4. ASSUME NEW p \in Orders PROVE Settled(p)' /\ Backed(p)'
    BY <1>1, <1>2, <1>3, <1>4, <2>1, <2>4, UnfilledTyped DEF VenueTypeOK, Settled, Backed, venue, is_filled
  <2> QED
    BY <2>2, <2>3, <2>4 DEF BackedInv
<1>7. CASE SubmitToLoop(o, r)
  <2>1. work' = [work EXCEPT ![o] = "queued"] /\ UNCHANGED <<report, files>> /\ gateway # "ea" /\ caller' = o
    BY <1>7 DEF SubmitToLoop
  <2>2. VenueTypeOK'
    BY <1>1, <1>2, <1>3, <2>1 DEF VenueTypeOK, venue, files
  <2>3. Apart'
    BY <1>1, <1>2, <2>1 DEF Apart, files
  <2>4. ASSUME NEW p \in Orders PROVE Settled(p)' /\ Backed(p)'
    BY <1>1, <1>2, <1>3, <1>4, <1>5, <2>1, <2>4 DEF VenueTypeOK, Settled, Backed, venue
  <2> QED
    BY <2>2, <2>3, <2>4 DEF BackedInv
<1>8. CASE SubmitToFile(o, r)
  <2>1. gateway = "ea" /\ orders_file' = o /\ caller' = o /\ UNCHANGED <<work, report, response_file, ea>>
    BY <1>8 DEF SubmitToFile
  <2>2. VenueTypeOK'
    BY <1>1, <1>2, <1>3, <2>1 DEF VenueTypeOK, venue
  <2>3. Apart'
    BY <1>1, <1>2, <2>1 DEF Apart
  <2>4. ASSUME NEW p \in Orders PROVE Settled(p)' /\ Backed(p)'
    BY <1>1, <1>2, <1>3, <1>4, <2>1, <2>4 DEF VenueTypeOK, Settled, Backed, venue
  <2> QED
    BY <2>2, <2>3, <2>4 DEF BackedInv
<1> QED
  BY <1>6, <1>7, <1>8 DEF Submit

-----------------------------------------------------------------------------
(* The coroutine and the venue.                                            *)

\* A step that moves one order's coroutine on and reports nothing.
LEMMA WorkMoves ==
  ASSUME BackedInv, NEW o \in Orders, NEW to \in {"sent", "answered"},
         work[o] \in {"queued", "sent", "answered"},
         work' = [work EXCEPT ![o] = to],
         UNCHANGED <<link, request, caller, report, executed, resting, files, decided>>,
         answer' = answer \/ answer' = [answer EXCEPT ![o] = NoAnswer]
  PROVE  BackedInv'
<1>1. VenueTypeOK /\ Apart
  BY DEF BackedInv
<1>2. gateway # "ea"
  BY <1>1 DEF Apart
<1>3. VenueTypeOK'
  BY <1>1 DEF VenueTypeOK, files
<1>4. Apart'
  BY <1>1, <1>2 DEF Apart, files, link
<1>5. ASSUME gateway # "paper", NEW p \in Orders PROVE Settled(p)' /\ Backed(p)'
  BY <1>1, <1>2, <1>5 DEF BackedInv, VenueTypeOK, Settled, Backed, link
<1> QED
  BY <1>3, <1>4, <1>5 DEF BackedInv, link

LEMMA FinishBacked ==
  ASSUME BackedInv, NEW o \in Orders, Finish(o), UNCHANGED decided
  PROVE  BackedInv'
<1>1. VenueTypeOK /\ Apart /\ work[o] = "answered"
  BY DEF BackedInv, Finish
<1>2. /\ work' = [work EXCEPT ![o] = "over"] /\ answer' = [answer EXCEPT ![o] = NoAnswer]
      /\ UNCHANGED <<link, request, executed, resting, files>>
  BY DEF Finish
<1>3. gateway # "ea"
  BY <1>1 DEF Apart
<1>4. answer[o] \in Answer \cup {NoAnswer}
  BY <1>1 DEF VenueTypeOK
<1>5. \/ report' = report /\ caller' = caller
      \/ report' = [report EXCEPT ![o] = Unfilled] /\ caller' = Nobody
      \/ report' = [report EXCEPT ![o] = ReportOf(answer[o])] /\ caller' = Nobody
  BY DEF Finish, Returns
<1>6. VenueTypeOK'
  BY <1>1, <1>2, <1>4, <1>5, UnfilledTyped, ReportOfTyped DEF VenueTypeOK, files
<1>7. Apart'
  BY <1>1, <1>2, <1>3 DEF Apart, files, link
<1>8. ASSUME gateway # "paper", NEW p \in Orders PROVE Settled(p)' /\ Backed(p)'
  <2>1. Settled(p) /\ Backed(p) /\ Settled(o) /\ Backed(o)
    BY <1>8 DEF BackedInv
  <2>2. CASE p # o
    <3>1. report'[p] = report[p] /\ work'[p] = work[p] /\ answer'[p] = answer[p]
      BY <1>1, <1>2, <1>5, <2>2 DEF VenueTypeOK
    <3> QED
      BY <1>2, <2>1, <3>1 DEF Settled, Backed, link
  <2>3. CASE p = o
    <3>1. work'[o] = "over" /\ answer'[o] = NoAnswer
      BY <1>1, <1>2 DEF VenueTypeOK
    <3>2. is_filled(report'[o]) =>
             \/ is_filled(report[o]) /\ report'[o] = report[o]
             \/ answer[o] # NoAnswer /\ report'[o].quantity = answer[o].filled
      BY <1>1, <1>4, <1>5, UnfilledTyped, ReportOfTyped DEF VenueTypeOK
    <3> QED
      BY <1>1, <1>2, <1>3, <2>1, <2>3, <3>1, <3>2 DEF Settled, Backed, link
  <2> QED
    BY <2>2, <2>3
<1> QED
  BY <1>6, <1>7, <1>8, <1>2 DEF BackedInv, link

\* The venue executes an order that nobody has yet been told is filled.
LEMMA ExecutesBacked ==
  ASSUME BackedInv, NEW o \in Orders, NEW n \in 0 .. MaxQty, NEW a \in Answers(o, n),
         VenueExecutes(o, n, a), UNCHANGED decided
  PROVE  BackedInv'
<1>1. VenueTypeOK /\ Apart /\ a \in Answer /\ a.filled = n /\ n \in Nat
  BY OrdersAssumption DEF BackedInv, Answers
<1>2. /\ executed' = [executed EXCEPT ![o] = n]
      /\ answer' = [answer EXCEPT ![o] = IF work[o] = "orphan" THEN NoAnswer ELSE a]
      /\ resting' \subseteq resting \cup {o}
      /\ UNCHANGED <<link, request, caller, report, files>>
  BY DEF VenueExecutes
<1>3. \/ work' = work
      \/ work[o] \in {"sent", "orphan"} /\ work' = [work EXCEPT ![o] = "answered"]
      \/ work[o] \in {"sent", "orphan"} /\ work' = [work EXCEPT ![o] = "over"]
  BY DEF VenueExecutes
<1>4. VenueTypeOK'
  BY <1>1, <1>2, <1>3 DEF VenueTypeOK, files
<1>5. Apart'
  BY <1>1, <1>2, <1>3 DEF Apart, files, link
<1>6. ASSUME gateway # "paper", NEW p \in Orders PROVE Settled(p)' /\ Backed(p)'
  <2>1. Settled(p) /\ Backed(p) /\ Settled(o)
    BY <1>6 DEF BackedInv
  <2>2. CASE p # o
    BY <1>1, <1>2, <1>3, <2>1, <2>2 DEF VenueTypeOK, Settled, Backed, link
  <2>3. CASE p = o
    <3>1. ~is_filled(report[o])
      BY <1>1, <2>1, NoOrderIsZero DEF VenueExecutes, Settled, Apart
    <3>2. answer'[o] # NoAnswer => answer'[o].filled = executed'[o]
      BY <1>1, <1>2 DEF VenueTypeOK
    <3>3. work'[o] # "none" => work[o] # "none"
      BY <1>3
    <3> QED
      BY <1>1, <1>2, <2>1, <2>3, <3>1, <3>2, <3>3 DEF VenueTypeOK, Settled, Backed, link
  <2> QED
    BY <2>2, <2>3
<1> QED
  BY <1>4, <1>5, <1>6, <1>2 DEF BackedInv, link

LEMMA LateFillBacked ==
  ASSUME BackedInv, NEW o \in Orders, LateFill(o), UNCHANGED decided
  PROVE  BackedInv'
<1>1. VenueTypeOK /\ Apart
  BY DEF BackedInv
<1>2. /\ executed' = [executed EXCEPT ![o] = @ + 1] /\ resting' \subseteq resting
      /\ UNCHANGED <<link, request, caller, work, report, answer, files>>
  BY DEF LateFill
<1>3. VenueTypeOK'
  BY <1>1, <1>2 DEF VenueTypeOK, files
<1>4. ASSUME NEW p \in Orders PROVE executed[p] <= executed'[p] /\ executed[p] \in Nat /\ executed'[p] \in Nat
  BY <1>1, <1>2, <1>3 DEF VenueTypeOK
<1>5. ASSUME gateway # "paper", NEW p \in Orders PROVE Settled(p)' /\ Backed(p)'
  <2>1. Settled(p) /\ Backed(p)
    BY <1>5 DEF BackedInv
  <2>2. answer[p] # NoAnswer => answer[p].filled \in Int
    BY <1>1, OrdersAssumption DEF VenueTypeOK, Answer
  <2>3. is_filled(report[p]) => report[p].quantity \in Int
    BY <1>1, OrdersAssumption, UnfilledTyped DEF VenueTypeOK, Report
  <2> QED
    BY <1>2, <1>4, <2>1, <2>2, <2>3 DEF Settled, Backed, link
<1> QED
  BY <1>1, <1>2, <1>3, <1>5 DEF BackedInv, Apart, link, files

\* A caller that gives up reports the order as unfilled.
LEMMA TimeoutBacked ==
  ASSUME BackedInv, NEW o \in Orders, Timeout(o), UNCHANGED decided
  PROVE  BackedInv'
<1>1. VenueTypeOK /\ Apart
  BY DEF BackedInv
<1>2. /\ report' = [report EXCEPT ![o] = Unfilled] /\ caller' = Nobody /\ pending' = pending \ {o}
      /\ UNCHANGED <<link, request, work, venue, orders_file, response_file, ea>>
  BY DEF Timeout
<1>3. VenueTypeOK'
  BY <1>1, <1>2, UnfilledTyped DEF VenueTypeOK, venue
<1>4. Apart'
  BY <1>1, <1>2 DEF Apart, link
<1>5. ASSUME gateway # "paper", NEW p \in Orders PROVE Settled(p)' /\ Backed(p)'
  BY <1>1, <1>2, <1>5, UnfilledTyped DEF BackedInv, VenueTypeOK, Settled, Backed, link, venue
<1> QED
  BY <1>2, <1>3, <1>4, <1>5 DEF BackedInv, link

\* Stopping ends coroutines; it reports nothing.
LEMMA StopBacked ==
  ASSUME BackedInv, Stop, UNCHANGED decided
  PROVE  BackedInv'
<1>1. VenueTypeOK /\ Apart
  BY DEF BackedInv
<1>2. /\ work' = [o \in Orders |-> CASE work[o] = "sent" -> "orphan"
                                     [] work[o] = "none" -> "none"
                                     [] OTHER            -> "over"]
      /\ UNCHANGED <<gateway, request, caller, report, venue, orders_file, response_file, ea, pending>>
  BY DEF Stop
<1>3. VenueTypeOK'
  BY <1>1, <1>2 DEF VenueTypeOK, venue
<1>4. Apart'
  BY <1>1, <1>2 DEF Apart
<1>5. ASSUME gateway # "paper", NEW p \in Orders PROVE Settled(p)' /\ Backed(p)'
  BY <1>1, <1>2, <1>5 DEF BackedInv, VenueTypeOK, Settled, Backed, venue
<1> QED
  BY <1>2, <1>3, <1>4, <1>5 DEF BackedInv

\* A response reaches the request of its own order_id, or none.
LEMMA ReadBacked ==
  ASSUME BackedInv, ReadResponse, UNCHANGED decided
  PROVE  BackedInv'
<1> DEFINE o == response_file
<1>1. VenueTypeOK /\ Apart /\ o \in Orders
  BY DEF BackedInv, ReadResponse, VenueTypeOK
<1>2. UNCHANGED <<link, request, work, venue, orders_file, response_file, ea>>
  BY DEF ReadResponse
<1>3. answer[o] \in Answer \cup {NoAnswer}
  BY <1>1 DEF VenueTypeOK
<1>4. \/ UNCHANGED <<pending, report, caller>>
      \/ /\ o \in pending /\ pending' = pending \ {o} /\ caller' = Nobody
         /\ report' = [report EXCEPT ![o] = ReportOf(answer[o])]
  BY DEF ReadResponse, Matched
<1>5. VenueTypeOK'
  BY <1>1, <1>2, <1>3, <1>4, ReportOfTyped DEF VenueTypeOK, venue
<1>6. Apart'
  BY <1>1, <1>2, <1>4 DEF Apart, link
<1>7. ASSUME gateway # "paper", NEW p \in Orders PROVE Settled(p)' /\ Backed(p)'
  <2>1. Settled(p) /\ Backed(p)
    BY <1>7 DEF BackedInv
  <2>2. CASE report'[p] = report[p]
    BY <1>2, <2>1, <2>2 DEF Settled, Backed, link, venue
  <2>3. CASE p = o /\ o \in pending /\ report'[o] = ReportOf(answer[o])
    <3>1. gateway = "ea"
      BY <1>1, <2>3 DEF Apart
    <3>2. is_filled(report'[o]) => answer[o] # NoAnswer /\ report'[o].quantity = answer[o].filled
      BY <1>3, <2>3, ReportOfTyped
    <3> QED
      BY <1>2, <2>1, <2>3, <3>1, <3>2 DEF Settled, Backed, link, venue
  <2> QED
    BY <1>1, <1>4, <2>2, <2>3 DEF VenueTypeOK
<1> QED
  BY <1>2, <1>5, <1>6, <1>7 DEF BackedInv, link

\* The steps of the files that neither answer nor report anything.
LEMMA FilesBacked ==
  ASSUME BackedInv, UNCHANGED decided,
         Start \/ TakeOrder \/ WriteResponse \/ DropResponse \/ UnlinkResponse
         \/ \E o \in Orders : Cancel(o)
  PROVE  BackedInv'
<1>1. VenueTypeOK /\ Apart
  BY DEF BackedInv
<1>2. UNCHANGED <<gateway, request, caller, work, report, executed, answer, pending>> /\ resting' \subseteq resting
  BY DEF Start, TakeOrder, WriteResponse, DropResponse, UnlinkResponse, Cancel, venue, link, files
<1>3. /\ orders_file' \in {orders_file, Nothing}
      /\ response_file' \in {response_file, ea, Nothing}
      /\ ea' \in {ea, orders_file, Nothing}
  BY DEF Start, ClearFiles, TakeOrder, WriteResponse, DropResponse, UnlinkResponse, Cancel, files, Nothing
<1>4. VenueTypeOK'
  BY <1>1, <1>2, <1>3 DEF VenueTypeOK
<1>5. Apart'
  BY <1>1, <1>2, <1>3 DEF Apart
<1>6. ASSUME gateway # "paper", NEW p \in Orders PROVE Settled(p)' /\ Backed(p)'
  BY <1>2, <1>6 DEF BackedInv, Settled, Backed
<1> QED
  BY <1>2, <1>4, <1>5, <1>6 DEF BackedInv

LEMMA LinkBacked ==
  ASSUME BackedInv, LinkStep, UNCHANGED decided
  PROVE  BackedInv'
<1>1. CASE Stop
  BY <1>1, StopBacked
<1>2. ASSUME NEW o \in Orders, Send(o) \/ CheckFails(o) \/ AnswerLost(o) PROVE BackedInv'
  BY <1>2, WorkMoves DEF Send, CheckFails, AnswerLost, venue
<1>3. ASSUME NEW o \in Orders, LateFill(o) PROVE BackedInv'
  BY <1>3, LateFillBacked
<1>4. ASSUME NEW o \in Orders, Finish(o) PROVE BackedInv'
  BY <1>4, FinishBacked
<1>5. ASSUME NEW o \in Orders, Timeout(o) PROVE BackedInv'
  BY <1>5, TimeoutBacked
<1>6. ASSUME NEW o \in Orders, NEW n \in 0 .. MaxQty, NEW a \in Answers(o, n), VenueExecutes(o, n, a)
      PROVE BackedInv'
  BY <1>6, ExecutesBacked
<1>7. CASE ReadResponse
  BY <1>7, ReadBacked
<1>8. CASE Start \/ TakeOrder \/ WriteResponse \/ DropResponse \/ UnlinkResponse
           \/ \E o \in Orders : Cancel(o)
  BY <1>8, FilesBacked
<1> QED
  BY <1>1, <1>2, <1>3, <1>4, <1>5, <1>6, <1>7, <1>8 DEF LinkStep

-----------------------------------------------------------------------------
(* The live path above the gateways.                                       *)

LEMMA DecideBacked ==
  ASSUME BackedInv, NEW o \in Orders, NEW action \in Actions, NEW s \in Symbols,
         NEW want \in 1 .. MaxQty, NEW cap \in 1 .. MaxQty, NEW known \in Sides \cup {"none"},
         Decide(o, action, s, want, cap, known)
  PROVE  BackedInv'
<1>1. SideOf(action, known) \in Sides
  BY DEF SideOf, Sides
<1>2. decided'.order = o /\ decided' \in [order : Orders, request : Request]
  BY <1>1, ReducedTyped DEF Decide, Request
<1> QED
  BY <1>2 DEF BackedInv, VenueTypeOK, Apart, Settled, Backed, Decide, linkVars, link, venue, files

\* In paper mode the property asks nothing, and the types hold.
LEMMA PaperBacked ==
  ASSUME BackedInv, NEW n \in 0 .. MaxQty, ExecutePaper(n)
  PROVE  BackedInv'
<1> DEFINE o == decided.order
           r == decided.request
<1>1. VenueTypeOK /\ Apart /\ gateway' = gateway /\ gateway = "paper" /\ o \in Orders /\ r \in Request
  BY OrdersAssumption DEF BackedInv, VenueTypeOK, ExecutePaper, link
<1>2. r.quantity \in 0 .. MaxQty
  BY <1>1, OrdersAssumption DEF Request
<1>3. /\ request' = [request EXCEPT ![o] = r] /\ decided' = Undecided
      /\ UNCHANGED <<caller, work, resting, answer, files>>
  BY DEF ExecutePaper, Accept
<1>4. executed' = executed \/ executed' = [executed EXCEPT ![o] = n]
  BY DEF ExecutePaper
<1>5. PICK x \in Report : report' = [report EXCEPT ![o] = x]
  <2>1. [status |-> IF n = r.quantity THEN "filled" ELSE IF n > 0 THEN "partially_filled" ELSE "unfilled",
         quantity |-> n] \in Report
    BY DEF Report, Status
  <2>2. [status |-> "filled", quantity |-> r.quantity] \in Report
    BY <1>2 DEF Report, Status
  <2> QED
    BY <2>1, <2>2 DEF ExecutePaper
<1>6. VenueTypeOK'
  BY <1>1, <1>3, <1>4, <1>5, OrdersAssumption DEF VenueTypeOK, files
<1>7. Apart'
  BY <1>1, <1>3 DEF Apart, files
<1> QED
  BY <1>1, <1>6, <1>7 DEF BackedInv

LEMMA BackedPreserved == BackedInv /\ [LiveStep]_liveVars => BackedInv'
<1> SUFFICES ASSUME BackedInv, [LiveStep]_liveVars PROVE BackedInv'
  OBVIOUS
<1>1. ASSUME NEW o \in Orders, NEW action \in Actions, NEW s \in Symbols,
             NEW want \in 1 .. MaxQty, NEW cap \in 1 .. MaxQty, NEW known \in Sides \cup {"none"},
             Decide(o, action, s, want, cap, known)
      PROVE BackedInv'
  BY <1>1, DecideBacked
<1>2. CASE PropRulesRefuse
  BY <1>2 DEF BackedInv, VenueTypeOK, Apart, Settled, Backed, PropRulesRefuse, linkVars, link, venue, files
<1>3. CASE ExecuteLive
  <2>1. decided.order \in Orders /\ decided.request \in Request /\ decided' = Undecided /\ gateway # "paper"
    BY <1>3 DEF ExecuteLive, BackedInv, VenueTypeOK
  <2> QED
    BY <1>3, <2>1, SubmitBacked DEF ExecuteLive
<1>4. ASSUME NEW n \in 0 .. MaxQty, ExecutePaper(n) PROVE BackedInv'
  BY <1>4, PaperBacked
<1>5. CASE LinkStep /\ UNCHANGED decided
  BY <1>5, LinkBacked
<1>6. CASE UNCHANGED liveVars
  BY <1>6 DEF liveVars, BackedInv, VenueTypeOK, Apart, Settled, Backed, linkVars, link, venue, files
<1> QED
  BY <1>1, <1>2, <1>3, <1>4, <1>5, <1>6 DEF LiveStep

\* A fill that a real venue's gateway reports was executed by the venue for that
\* order, at least that much of it, whatever answers are lost, late or matched
\* after the caller gave up (CcxtOrderGateway.submit, MT5OrderGateway.submit,
\* MT5EABridge._process_response).
THEOREM ReportsAreBacked == LiveSpec => []ReportIsBacked
<1>1. BackedInv => ReportIsBacked
  BY DEF BackedInv, Backed, ReportIsBacked
<1> QED
  BY BackedInitially, BackedPreserved, <1>1, PTL DEF LiveSpec

-----------------------------------------------------------------------------
(* The order file.                                                         *)

\* Only the ea bridge writes it, under the start the order was submitted in.
FileInv ==
    /\ orders_file \in Orders \cup {Nothing}
    /\ gateway # "ea" => orders_file = Nothing
    /\ NoLeftoverOrder
    /\ session \in [Orders -> Int]
    /\ starts \in Int
    /\ decided # Undecided => decided.order \in Orders

LEMMA SubmitKeepsFile ==
  ASSUME FileInv, NEW o \in Orders, NEW r, Submit(o, r), decided' = Undecided
  PROVE  FileInv'
<1>1. gateway' = gateway /\ session' \in {session, [session EXCEPT ![o] = starts]}
  BY DEF Submit, SubmitRaises, SubmitToLoop, SubmitToFile, SubmitFileFails, Accept, link
<1>2. session' \in [Orders -> Int]
  BY <1>1 DEF FileInv
<1>3. CASE SubmitRaises(o, r) \/ SubmitFileFails(o, r)
  BY <1>1, <1>2, <1>3 DEF FileInv, NoLeftoverOrder, SubmitRaises, SubmitFileFails, files, link
<1>4. CASE SubmitToLoop(o, r)
  BY <1>1, <1>2, <1>4 DEF FileInv, NoLeftoverOrder, SubmitToLoop, files, link
<1>5. CASE SubmitToFile(o, r)
  BY <1>1, <1>2, <1>5 DEF FileInv, NoLeftoverOrder, SubmitToFile, Accept, link
<1> QED
  BY <1>3, <1>4, <1>5 DEF Submit

LEMMA FilePreserved == FileInv /\ [LiveStep]_liveVars => FileInv'
<1> SUFFICES ASSUME FileInv, [LiveStep]_liveVars PROVE FileInv'
  OBVIOUS
<1>1. ASSUME NEW o \in Orders, NEW action \in Actions, NEW s \in Symbols,
             NEW want \in 1 .. MaxQty, NEW cap \in 1 .. MaxQty, NEW known \in Sides \cup {"none"},
             Decide(o, action, s, want, cap, known)
      PROVE FileInv'
  BY <1>1 DEF FileInv, NoLeftoverOrder, Decide, linkVars, link, files
<1>2. CASE PropRulesRefuse
  BY <1>2 DEF FileInv, NoLeftoverOrder, PropRulesRefuse, linkVars, link, files
<1>3. CASE ExecuteLive
  <2>1. decided.order \in Orders
    BY <1>3 DEF FileInv, ExecuteLive
  <2> QED
    BY <1>3, <2>1, SubmitKeepsFile DEF ExecuteLive
<1>4. ASSUME NEW n \in 0 .. MaxQty, ExecutePaper(n) PROVE FileInv'
  <2>1. gateway = "paper" /\ decided' = Undecided /\ UNCHANGED <<link, files, session>>
    BY <1>4 DEF ExecutePaper, Accept
  <2>2. orders_file = Nothing /\ orders_file' = Nothing
    BY <2>1 DEF FileInv, files
  <2> QED
    BY <2>1, <2>2 DEF FileInv, NoLeftoverOrder, link
<1>5. CASE LinkStep /\ UNCHANGED decided
  <2>1. CASE Start
    <3>1. gateway' = gateway /\ session' = session /\ starts' \in Int /\ decided' = decided
      BY <1>5, <2>1 DEF FileInv, Start
    <3>2. \/ gateway # "ea" /\ orders_file' = orders_file
          \/ orders_file' = Nothing
          \/ gateway = "ea" /\ orders_file' = orders_file /\ unremoved' = orders_file
      BY <2>1 DEF Start, ClearFiles
    <3> QED
      BY <3>1, <3>2 DEF FileInv, NoLeftoverOrder
  <2>2. CASE Stop
    BY <1>5, <2>2 DEF FileInv, NoLeftoverOrder, Stop
  <2>3. CASE TakeOrder \/ WriteResponse \/ ReadResponse \/ DropResponse \/ UnlinkResponse
    <3>1. orders_file' \in {orders_file, Nothing} /\ UNCHANGED <<link, unremoved, session>>
      BY <2>3 DEF TakeOrder, WriteResponse, ReadResponse, DropResponse, UnlinkResponse
    <3> QED
      BY <1>5, <3>1 DEF FileInv, NoLeftoverOrder, link
  <2>4. ASSUME NEW o \in Orders,
               \/ Send(o) \/ CheckFails(o) \/ LateFill(o) \/ Cancel(o)
               \/ AnswerLost(o) \/ Finish(o) \/ Timeout(o)
               \/ \E n \in 0 .. MaxQty : \E a \in Answers(o, n) : VenueExecutes(o, n, a)
        PROVE FileInv'
    <3>1. UNCHANGED <<link, orders_file, unremoved, session>>
      BY <2>4 DEF Send, CheckFails, LateFill, Cancel, AnswerLost, Finish, Timeout, VenueExecutes, files
    <3> QED
      BY <1>5, <3>1 DEF FileInv, NoLeftoverOrder, link
  <2> QED
    BY <1>5, <2>1, <2>2, <2>3, <2>4 DEF LinkStep
<1>6. CASE UNCHANGED liveVars
  BY <1>6 DEF liveVars, FileInv, NoLeftoverOrder, linkVars, link, files
<1> QED
  BY <1>1, <1>2, <1>3, <1>4, <1>5, <1>6 DEF LiveStep

\* The Expert Advisor is handed no order of an earlier start of the bridge, whose
\* caller was told long ago that it was rejected, unless this start failed to
\* remove that very order's file and went on (MT5EABridge.start, submit_async).
THEOREM FreshOrdersOnly == LiveSpec => []NoLeftoverOrder
<1>1. LiveInit => FileInv
  BY DEF LiveInit, Init, FileInv, NoLeftoverOrder
<1>2. FileInv => NoLeftoverOrder
  BY DEF FileInv
<1> QED
  BY <1>1, FilePreserved, <1>2, PTL DEF LiveSpec

-----------------------------------------------------------------------------
(* The veto.                                                               *)

\* No report of agreement on a symbol in upper case is under way: such a symbol is
\* posted in lower case, so it is reported only when the simulator holds it, and
\* then as missing from the account.
NoAgreement ==
    /\ account \in [Markets -> Volumes]
    /\ restarts \in Nat
    /\ simulated \in [Names -> Int]
    /\ judged \in Names \cup {NoName}
    /\ requests \in [Clients -> Requests]
    /\ \A c \in Clients : \A r \in requests[c].reports : r.symbol.upper => ~r.consistent

LEMMA ReportsOnUpper ==
  ASSUME NEW positions \in [Markets -> Volumes]
  PROVE  /\ ReportsOf(positions) \subseteq Reports
         /\ \A r \in ReportsOf(positions) : r.symbol.upper => ~r.consistent
<1> SUFFICES ASSUME NEW n \in Names, Listed(positions, n) # 0 \/ simulated[n] # 0,
                    NEW r, r = [symbol |-> n, consistent |-> Listed(positions, n) = simulated[n]]
             PROVE  r \in Reports /\ (r.symbol.upper => ~r.consistent)
  BY DEF ReportsOf
<1>1. r.symbol = n /\ r.consistent = (Listed(positions, n) = simulated[n])
  OBVIOUS
<1>2. n.upper => Listed(positions, n) = 0
  BY DEF Listed
<1>3. r \in Reports
  BY DEF Reports
<1> QED
  BY <1>1, <1>2, <1>3

\* What a request becomes, when no report of it is new or all are of one comparison.
LEMMA RequestMoves ==
  ASSUME NoAgreement, NEW c \in Clients, NEW q \in Requests, UNCHANGED <<account, simulated, judged, restarts>>,
         requests' = [requests EXCEPT ![c] = q],
         \A r \in q.reports : r.symbol.upper => ~r.consistent
  PROVE  NoAgreement'
<1>1. requests' \in [Clients -> Requests]
  BY DEF NoAgreement
<1>2. ASSUME NEW d \in Clients, NEW r \in requests'[d].reports PROVE r.symbol.upper => ~r.consistent
  BY <1>2 DEF NoAgreement
<1> QED
  BY <1>1, <1>2 DEF NoAgreement

LEMMA IdleTyped == Idle \in Requests /\ Idle.reports = {}
<1>1. [m \in Markets |-> 0] \in [Markets -> Volumes]
  BY ReconciliationAssumption DEF Volumes
<1>2. [stage |-> "idle", positions |-> [m \in Markets |-> 0], reports |-> {}] \in Requests
  BY <1>1 DEF Requests
<1> QED
  BY <1>2 DEF Idle

LEMMA AgreementPreserved ==
  ASSUME NoAgreement, [ReconciliationStep]_reconciliationVars
  PROVE  NoAgreement'
<1>1. ASSUME NEW m \in Markets, NEW q \in Volumes, AccountMoves(m, q) PROVE NoAgreement'
  BY <1>1 DEF NoAgreement, AccountMoves
<1>2. ASSUME NEW n \in Names, Judge(n) PROVE NoAgreement'
  BY <1>2 DEF NoAgreement, Judge
<1>3. ASSUME NEW q \in Volumes, Open(q) PROVE NoAgreement'
  <2>1. q \in Int
    BY <1>3, ReconciliationAssumption DEF Volumes
  <2>2. simulated' \in [Names -> Int]
    BY <1>3, <2>1 DEF NoAgreement, Open
  <2> QED
    BY <1>3, <2>2 DEF NoAgreement, Open
<1>4. ASSUME NEW n \in Names, NEW q \in Volumes, ExitFirst(n, q) PROVE NoAgreement'
  <2>1. q \in Int
    BY <1>4, ReconciliationAssumption DEF Volumes
  <2>2. simulated' \in [Names -> Int]
    BY <1>4, <2>1 DEF NoAgreement, ExitFirst
  <2> QED
    BY <1>4, <2>2 DEF NoAgreement, ExitFirst
<1>5. CASE Restart
  <2>1. requests' \in [Clients -> Requests] /\ \A c \in Clients : requests'[c].reports = {}
    BY <1>5, IdleTyped DEF Restart
  <2>2. simulated' \in [Names -> Int]
    BY <1>5 DEF Restart, Flat
  <2> QED
    BY <1>5, <2>1, <2>2 DEF NoAgreement, Restart
<1>6. ASSUME NEW c \in Clients, NEW known \in SUBSET Markets, Post(c, known) PROVE NoAgreement'
  <2> DEFINE read == [m \in Markets |-> IF m \in known THEN account[m] ELSE 0]
             q == [stage |-> "posted", positions |-> read, reports |-> {}]
  <2>1. read \in [Markets -> Volumes]
    BY ReconciliationAssumption DEF NoAgreement, Volumes
  <2>2. q \in Requests /\ q.reports = {}
    BY <2>1 DEF Requests
  <2> QED
    BY <1>6, <2>2, RequestMoves DEF Post
<1>7. ASSUME NEW c \in Clients, Compare(c) PROVE NoAgreement'
  <2> DEFINE made == ReportsOf(requests[c].positions)
             q == IF made = {} THEN Idle ELSE [Idle EXCEPT !.stage = "feeding", !.reports = made]
  <2>1. requests[c].positions \in [Markets -> Volumes]
    BY DEF NoAgreement, Requests
  <2>2. made \subseteq Reports /\ \A r \in made : r.symbol.upper => ~r.consistent
    BY <2>1, ReportsOnUpper
  <2>3. q \in Requests /\ q.reports \subseteq made
    BY <2>2, IdleTyped DEF Requests, Idle
  <2>4. requests' = [requests EXCEPT ![c] = q]
    BY <1>7 DEF Compare
  <2> QED
    BY <1>7, <2>2, <2>3, <2>4, RequestMoves DEF Compare
<1>8. ASSUME NEW c \in Clients, SaveFails(c) PROVE NoAgreement'
  BY <1>8, IdleTyped, RequestMoves DEF SaveFails
<1>9. ASSUME NEW c \in Clients, Feed(c) PROVE NoAgreement'
  <2>1. PICK r \in requests[c].reports : requests' = [requests EXCEPT ![c] = Told(requests[c], r)]
    BY <1>9 DEF Feed
  <2> DEFINE q == Told(requests[c], r)
  <2>2. q \in Requests /\ q.reports \subseteq requests[c].reports
    BY IdleTyped DEF NoAgreement, Requests, Told
  <2>3. requests' = [requests EXCEPT ![c] = q]
    BY <2>1
  <2>4. \A x \in q.reports : x.symbol.upper => ~x.consistent
    BY <2>2 DEF NoAgreement
  <2> HIDE DEF q
  <2> QED
    BY <1>9, <2>2, <2>3, <2>4, RequestMoves DEF Feed
<1>10. CASE UNCHANGED reconciliationVars
  BY <1>10 DEF NoAgreement, reconciliationVars
<1> QED
  BY <1>1, <1>2, <1>3, <1>4, <1>5, <1>6, <1>7, <1>8, <1>9, <1>10 DEF ReconciliationStep

\* A veto is lifted by a report of agreement, or by a restart.
LEMMA VetoLifted ==
  ASSUME NoAgreement, [ReconciliationStep]_reconciliationVars, NEW n \in blocked, n.upper
  PROVE  n \in blocked' \/ restarts' # restarts
<1>1. ASSUME NEW c \in Clients, Feed(c) PROVE n \in blocked'
  <2>1. PICK r \in requests[c].reports :
           blocked' = IF r.consistent THEN blocked \ {r.symbol} ELSE blocked \cup {r.symbol}
    BY <1>1 DEF Feed
  <2>2. r.symbol = n => ~r.consistent
    BY DEF NoAgreement
  <2> QED
    BY <2>1, <2>2
<1>2. CASE Restart
  <2>1. restarts' = restarts + 1 /\ restarts \in Int
    BY <1>2 DEF NoAgreement, Restart
  <2> QED
    BY <2>1
<1>3. CASE UNCHANGED blocked
  BY <1>3
<1> QED
  BY <1>1, <1>2, <1>3 DEF ReconciliationStep, reconciliationVars, AccountMoves, Judge, Open, ExitFirst,
                          Post, Compare, SaveFails

\* A symbol in upper case that was once reported apart stays vetoed until the
\* process is restarted, whatever clients post and in whatever order requests
\* feed the gate: the route lower-cases what they post, and not what it compares
\* it with (routes_reconciliation.py:64-68, 78, circuit_breaker_risk_gate.py:322).
THEOREM VetoOnUpperStays == ReconciliationSpec => UpperCaseStaysVetoed
<1>1. ReconciliationInit => NoAgreement
  <2> SUFFICES ASSUME ReconciliationInit PROVE NoAgreement
    OBVIOUS
  <2>1. requests \in [Clients -> Requests] /\ \A c \in Clients : requests[c].reports = {}
    BY IdleTyped DEF ReconciliationInit
  <2> QED
    BY <2>1 DEF ReconciliationInit, NoAgreement, Flat
<1>2. NoAgreement /\ [ReconciliationStep]_reconciliationVars => NoAgreement'
  BY AgreementPreserved
<1>3. NoAgreement /\ [ReconciliationStep]_reconciliationVars
      => [\A n \in blocked : n.upper => n \in blocked' \/ restarts' # restarts]_reconciliationVars
  BY VetoLifted
<1> QED
  BY <1>1, <1>2, <1>3, PTL DEF ReconciliationSpec, UpperCaseStaysVetoed
=============================================================================
