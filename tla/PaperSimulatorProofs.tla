------------------------ MODULE PaperSimulatorProofs ------------------------
(***************************************************************************)
(* Proofs about PaperSimulator.  Whatever the number of restarts: its      *)
(* types, the bracket of every position and the two promises of the loss   *)
(* windows.  Within one life of the process: its positions, its open       *)
(* records, the ledger, the equity and what was executed always agree.     *)
(***************************************************************************)
EXTENDS PaperSimulator, InductionLemmas, FiniteSetTheorems, TLAPS

Days == {p.day : p \in Proposals}

-----------------------------------------------------------------------------
(* Arithmetic the provers need as facts of their own.                      *)

LEMMA NatProduct == ASSUME NEW a \in Nat, NEW b \in Nat PROVE a * b \in Nat
  OBVIOUS

LEMMA IntProduct == ASSUME NEW a \in Int, NEW b \in Int PROVE a * b \in Int
  OBVIOUS

\* A pro rata share of a fee is a share of it: at least nothing, at most all.
LEMMA ShareBound ==
  ASSUME NEW f \in Nat, NEW n \in Nat, NEW q \in Nat, q > 0, n <= q
  PROVE  (f * n) \div q \in 0 .. f
<1>1. f * n \in Nat
  BY NatProduct
<1>2. f * n <= f * q
  OBVIOUS
<1>3. (f * n) \div q \in Nat /\ q * ((f * n) \div q) <= f * n
  BY <1>1
<1>4. (f * n) \div q <= f
  <2>1. SUFFICES ASSUME (f * n) \div q >= f + 1 PROVE FALSE
    BY <1>3
  <2>2. q * ((f * n) \div q) >= q * (f + 1)
    BY <2>1, <1>3
  <2> QED
    BY <2>2, <1>2, <1>3
<1> QED
  BY <1>3, <1>4

\* A whole share is the whole.
LEMMA WholeShare ==
  ASSUME NEW f \in Nat, NEW q \in Nat, q > 0
  PROVE  (f * q) \div q = f
  OBVIOUS

-----------------------------------------------------------------------------
(* The inductive invariant.                                                *)

Row == [column : Symbols, record : OpenRecord \cup ClosedRecord]

\* What a call carries while it applies the actions of a proposal.
Control ==
    /\ call.phase = "applying" =>
          /\ call.symbol \in Symbols /\ call.day \in Days /\ call.mark \in Marks
          /\ call.approved >= Unlimited
          /\ call.todo # <<>>
          /\ \A i, j \in 1 .. Len(call.todo) :
                i < j => call.todo[i].order < call.todo[j].order
    /\ call.slice # NoRecord => call.phase = "applying" /\ call.slice.trade_id = TradeId

\* The id the next action would give to a record is not in the ledger.
Ids ==
    \A t \in DOMAIN ledger :
        /\ ledger[t].record.trade_id = t
        /\ t[1] <= sequence
        /\ call.phase = "applying" /\ t[1] = sequence => t[2] < Action.order

Flat(s) == positions[s] = NoPosition /\ open_records[s] = NoRecord

Held(s) ==
    /\ open_records[s] # NoRecord
    /\ open_records[s].symbol = s
    /\ positions[s] # NoPosition
    /\ positions[s].side = open_records[s].side
    /\ positions[s].quantity = open_records[s].quantity
    /\ positions[s].entry = open_records[s].entry
    /\ positions[s].quantity <= Depth

\* Every trade the ledger calls open is one the running simulator manages.
OpenRowsManaged ==
    \A t \in OpenRows : ledger[t].record \in OpenRecords

Rows ==
    /\ \A s \in Symbols : open_records[s] # NoRecord =>
          /\ open_records[s].trade_id \in DOMAIN ledger
          /\ ledger[open_records[s].trade_id].record = open_records[s]
    /\ OpenRowsManaged

\* What a row adds to the equity: a closed trade its net result, an open one
\* the entry fee it has cost so far.
RecordWorth(r) == IF r.status = "open" THEN -r.fee ELSE r.net

Worth(rows) == [t \in DOMAIN rows |-> RecordWorth(rows[t].record)]

LedgerTotal(rows) == SumOver(Worth(rows), DOMAIN rows)

Reconciled ==
    /\ IsFiniteSet(DOMAIN ledger)
    /\ equity = StartingEquity + LedgerTotal(ledger) + call.slice.net

\* What holds through any number of restarts.
Base ==
    /\ TypeOK
    /\ Control
    /\ \A s \in Symbols : Flat(s) \/ Held(s)

\* What holds within one life of the process.
Life ==
    /\ Ids
    /\ PositionIsExecuted
    /\ Rows
    /\ Reconciled

-----------------------------------------------------------------------------
(* What save and the end of an action do.                                  *)

LEMMA SaveDomain ==
  ASSUME NEW rows, NEW r
  PROVE  /\ DOMAIN save(rows, r) = DOMAIN rows \cup {r.trade_id}
         /\ \A t \in DOMAIN rows : t # r.trade_id => save(rows, r)[t] = rows[t]
  BY DEF save

LEMMA SaveRow ==
  ASSUME NEW rows, \A t \in DOMAIN rows : rows[t] \in Row,
         NEW r \in OpenRecord \cup ClosedRecord
  PROVE  /\ save(rows, r)[r.trade_id] \in Row
         /\ save(rows, r)[r.trade_id].record = r
<1>1. r.symbol \in Symbols
  BY DEF OpenRecord, ClosedRecord
<1>2. CASE r.trade_id \in DOMAIN rows
  <2>1. save(rows, r)[r.trade_id] = [rows[r.trade_id] EXCEPT !.record = r]
    BY <1>2 DEF save
  <2> QED
    BY <2>1, <1>2 DEF Row
<1>3. CASE r.trade_id \notin DOMAIN rows
  <2>1. save(rows, r)[r.trade_id] = [column |-> r.symbol, record |-> r]
    BY <1>3 DEF save
  <2> QED
    BY <2>1, <1>1 DEF Row
<1> QED
  BY <1>2, <1>3

LEMMA NoPlanType == NoPlan \in PreTradePlan
  BY DEF NoPlan, Undefined, PreTradePlan, StopLevel

LEMMA IdleType == Idle \in Call /\ \A piped \in BOOLEAN : Finished(piped) \in Call
<1>1. Idle \in Call
  BY NoPlanType DEF Idle, Call, Rejected
<1> QED
  BY <1>1 DEF Idle, Call, Finished, Rejected

\* After an action the call is over or goes on with a later one.
LEMMA ActionDoneFacts ==
  ASSUME TypeOK, Control, call.phase = "applying"
  PROVE  /\ ActionDone \in Call
         /\ ActionDone.slice = NoRecord
         /\ ActionDone.phase = "applying" =>
              /\ ActionDone.symbol = call.symbol /\ ActionDone.day = call.day
              /\ ActionDone.mark = call.mark /\ ActionDone.approved = call.approved
              /\ ActionDone.todo # <<>>
              /\ \A i, j \in 1 .. Len(ActionDone.todo) :
                    i < j => ActionDone.todo[i].order < ActionDone.todo[j].order
              /\ Action.order < Head(ActionDone.todo).order
<1> USE DEF TypeOK
<1>1. call.todo \in Seq(ProposedAction) /\ call.todo # <<>>
  BY DEF Call, Control
<1>2. CASE Tail(call.todo) = <<>>
  <2>1. ActionDone = Finished(call.piped)
    BY <1>2 DEF ActionDone
  <2>2. call.piped \in BOOLEAN
    BY DEF Call
  <2>3. Finished(call.piped).slice = NoRecord /\ Finished(call.piped).phase # "applying"
    BY DEF Finished, Idle
  <2> QED
    BY <2>1, <2>2, <2>3, IdleType
<1>3. CASE Tail(call.todo) # <<>>
  <2>1. ActionDone = [call EXCEPT !.todo = Tail(call.todo), !.slice = NoRecord]
    BY <1>3 DEF ActionDone
  <2>2. Tail(call.todo) \in Seq(ProposedAction)
    BY <1>1
  <2>3. /\ Len(Tail(call.todo)) = Len(call.todo) - 1
        /\ \A i \in 1 .. Len(Tail(call.todo)) : Tail(call.todo)[i] = call.todo[i + 1]
    BY <1>1
  <2>4. Head(Tail(call.todo)) = call.todo[2] /\ Len(call.todo) >= 2
    BY <1>1, <1>3, <2>3
  <2>5. \A i, j \in 1 .. Len(call.todo) : i < j => call.todo[i].order < call.todo[j].order
    BY DEF Control
  <2>6. \A i, j \in 1 .. Len(Tail(call.todo)) :
           i < j => Tail(call.todo)[i].order < Tail(call.todo)[j].order
    <3> SUFFICES ASSUME NEW i \in 1 .. Len(Tail(call.todo)),
                        NEW j \in 1 .. Len(Tail(call.todo)), i < j
                 PROVE  Tail(call.todo)[i].order < Tail(call.todo)[j].order
      OBVIOUS
    <3>1. i + 1 \in 1 .. Len(call.todo) /\ j + 1 \in 1 .. Len(call.todo)
      BY <1>1, <2>3
    <3> QED
      BY <2>3, <2>5, <3>1
  <2>7. Action.order < Head(Tail(call.todo)).order
    <3>1. Head(call.todo) = call.todo[1] /\ 1 \in 1 .. Len(call.todo) /\ 2 \in 1 .. Len(call.todo)
      BY <1>1, <2>4
    <3> QED
      BY <2>4, <2>5, <3>1 DEF Action
  <2>8. ActionDone \in Call
    BY <2>1, <2>2 DEF Call
  <2>9. /\ ActionDone.todo = Tail(call.todo) /\ ActionDone.slice = NoRecord
        /\ ActionDone.symbol = call.symbol /\ ActionDone.day = call.day
        /\ ActionDone.mark = call.mark /\ ActionDone.approved = call.approved
    BY <2>1 DEF Call
  <2> QED
    BY <1>3, <2>6, <2>7, <2>8, <2>9
<1> QED
  BY <1>2, <1>3

-----------------------------------------------------------------------------
(* Steps, part by part: money and windows, then the books.                 *)

LEMMA BookType ==
  ASSUME TypeOK, NEW amount \in Int, NEW day \in Days, Book(amount, day)
  PROVE  equity' \in Int /\ pnl' \in [Windows -> Int] /\ booked' \in [Days -> Int]
  BY DEF TypeOK, Book, Days

LEMMA RollType ==
  ASSUME TypeOK, RollWindows
  PROVE  pnl' \in [Windows -> Int] /\ last_reset' \in [Windows -> {NoPeriod} \cup Nat]
<1>1. \A w \in Windows, day \in Nat : Period(w, day) \in Nat
  BY ParameterAssumption DEF Windows, Period
<1> QED
  BY <1>1 DEF TypeOK, RollWindows, RolledPnl, RolledReset, Windows, NoPeriod

LEMMA ProposalFacts ==
  ASSUME NEW p \in Proposals
  PROVE  /\ p.symbol \in Symbols /\ p.day \in Nat /\ p.day \in Days
         /\ p.plan \in PreTradePlan /\ p.actions \in Seq(ProposedAction) /\ p.actions # <<>>
         /\ \A i, j \in 1 .. Len(p.actions) :
               i < j => p.actions[i].order < p.actions[j].order
  BY ProposalAssumption DEF DecisionProposal, Days

\* A step that writes no book keeps the books in agreement.
LEMMA QuietBooks ==
  ASSUME Base, UNCHANGED books
  PROVE  (\A s \in Symbols : Flat(s) \/ Held(s))'
  BY DEF Base, books, Flat, Held

LEMMA QuietStep ==
  ASSUME Base, Life, UNCHANGED <<books, equity, executed>>, sequence' \in Nat,
         call.slice = NoRecord, call'.slice = NoRecord,
         \/ call'.phase # "applying" /\ sequence' >= sequence
         \/ sequence' > sequence
         \/ /\ sequence' = sequence /\ call.phase = "applying"
            /\ Action.order \in Nat /\ Action'.order \in Nat
            /\ Action.order <= Action'.order
  PROVE  Life'
<1>1. Ids'
  <2> SUFFICES ASSUME NEW t \in DOMAIN ledger
               PROVE  /\ ledger[t].record.trade_id = t
                      /\ t[1] <= sequence'
                      /\ call'.phase = "applying" /\ t[1] = sequence' => t[2] < Action'.order
    BY DEF Ids, books
  <2>1. t[1] \in Nat /\ t[2] \in Nat /\ sequence \in Nat
    BY DEF Base, TypeOK, TradeIds
  <2>2. /\ ledger[t].record.trade_id = t /\ t[1] <= sequence
        /\ call.phase = "applying" /\ t[1] = sequence => t[2] < Action.order
    BY DEF Life, Ids
  <2> QED
    BY <2>1, <2>2
<1>2. PositionIsExecuted'
  BY DEF Life, PositionIsExecuted, books
<1>3. Rows'
  BY DEF Life, Rows, books, OpenRowsManaged, OpenRows, OpenRecords
<1>4. Reconciled'
  BY DEF Life, Reconciled, books
<1> QED
  BY <1>1, <1>2, <1>3, <1>4 DEF Life

\* A step that writes a symbol's open record and its row together keeps rows
\* and open records paired: the row is a new one or the record's own.
LEMMA RowsStep ==
  ASSUME Base, Life, NEW s \in Symbols, NEW r \in OpenRecord \cup ClosedRecord,
         ledger' = save(ledger, r),
         open_records' = [open_records EXCEPT ![s] =
                            IF r.status = "open" THEN r ELSE NoRecord],
         \/ open_records[s] = NoRecord /\ r.trade_id \notin DOMAIN ledger
         \/ open_records[s] # NoRecord /\ r.trade_id = open_records[s].trade_id
  PROVE  Rows'
<1>1. /\ \A t \in DOMAIN ledger : ledger[t] \in Row
      /\ open_records \in [Symbols -> {NoRecord} \cup OpenRecord]
  BY DEF Base, TypeOK, Row
<1>2. /\ DOMAIN ledger' = DOMAIN ledger \cup {r.trade_id}
      /\ \A t \in DOMAIN ledger : t # r.trade_id => ledger'[t] = ledger[t]
      /\ ledger'[r.trade_id].record = r
  BY <1>1, SaveDomain, SaveRow
<1>3. /\ open_records'[s] = IF r.status = "open" THEN r ELSE NoRecord
      /\ \A u \in Symbols \ {s} : open_records'[u] = open_records[u]
  BY <1>1
<1>4. \A u \in Symbols \ {s} : open_records[u] # NoRecord =>
         /\ open_records[u].trade_id \in DOMAIN ledger
         /\ ledger[open_records[u].trade_id].record = open_records[u]
         /\ open_records[u].trade_id # r.trade_id
  <2> SUFFICES ASSUME NEW u \in Symbols \ {s}, open_records[u] # NoRecord
               PROVE  /\ open_records[u].trade_id \in DOMAIN ledger
                      /\ ledger[open_records[u].trade_id].record = open_records[u]
                      /\ open_records[u].trade_id # r.trade_id
    OBVIOUS
  <2>1. /\ open_records[u].trade_id \in DOMAIN ledger
        /\ ledger[open_records[u].trade_id].record = open_records[u]
        /\ open_records[s] # NoRecord =>
              ledger[open_records[s].trade_id].record = open_records[s]
    BY DEF Life, Rows
  <2>2. open_records[u].symbol = u
    BY DEF Base, Flat, Held
  <2>3. open_records[s] # NoRecord => open_records[s].symbol = s
    BY DEF Base, Flat, Held
  <2> QED
    BY <2>1, <2>2, <2>3
<1>5. ASSUME NEW u \in Symbols, open_records'[u] # NoRecord
      PROVE  /\ open_records'[u].trade_id \in DOMAIN ledger'
             /\ ledger'[open_records'[u].trade_id].record = open_records'[u]
  <2>1. CASE u = s
    BY <2>1, <1>2, <1>3, <1>5
  <2>2. CASE u # s
    BY <2>2, <1>2, <1>3, <1>4, <1>5
  <2> QED
    BY <2>1, <2>2
<1>6. ASSUME NEW t \in DOMAIN ledger', ledger'[t].record.status = "open"
      PROVE  ledger'[t].record \in OpenRecords'
  <2>1. r # NoRecord
    BY DEF OpenRecord, ClosedRecord, NoRecord
  <2>2. CASE t = r.trade_id
    BY <2>1, <2>2, <1>2, <1>3, <1>6 DEF OpenRecords
  <2>3. CASE t # r.trade_id
    <3>1. t \in OpenRows /\ ledger'[t] = ledger[t]
      BY <2>3, <1>2, <1>6 DEF OpenRows
    <3>2. PICK u \in Symbols : open_records[u] = ledger[t].record /\ open_records[u] # NoRecord
      BY <3>1 DEF Life, Rows, OpenRowsManaged, OpenRecords
    <3>3. ledger[t].record.trade_id = t
      BY <3>1 DEF Life, Ids, OpenRows
    <3>4. u # s
      BY <3>2, <3>3, <2>3
    <3> QED
      BY <3>1, <3>2, <3>4, <1>3 DEF OpenRecords
  <2> QED
    BY <2>2, <2>3
<1> QED
  BY <1>5, <1>6 DEF Rows, OpenRowsManaged, OpenRows

\* A step that adds a closed row under a new id leaves them paired as well.
LEMMA SliceStep ==
  ASSUME Base, Life, NEW r \in ClosedRecord, r.trade_id \notin DOMAIN ledger,
         ledger' = save(ledger, r), UNCHANGED open_records
  PROVE  Rows'
<1>1. /\ DOMAIN ledger' = DOMAIN ledger \cup {r.trade_id}
      /\ \A t \in DOMAIN ledger : ledger'[t] = ledger[t]
      /\ ledger'[r.trade_id].record.status = "closed"
  <2>1. \A t \in DOMAIN ledger : ledger[t] \in Row
    BY DEF Base, TypeOK, Row
  <2>2. ledger'[r.trade_id].record = r
    BY <2>1, SaveRow
  <2>3. r.status = "closed"
    BY DEF ClosedRecord
  <2>4. /\ DOMAIN ledger' = DOMAIN ledger \cup {r.trade_id}
        /\ \A t \in DOMAIN ledger : t # r.trade_id => ledger'[t] = ledger[t]
    BY SaveDomain
  <2> QED
    BY <2>2, <2>3, <2>4
<1> QED
  BY <1>1 DEF Life, Rows, OpenRowsManaged, OpenRows, OpenRecords

\* Writing a row of this call keeps every id behind the call.
LEMMA IdsStep ==
  ASSUME Base, Life, NEW r \in OpenRecord \cup ClosedRecord, ledger' = save(ledger, r),
         r.trade_id \in DOMAIN ledger \/ r.trade_id = TradeId,
         \/ sequence' = sequence + 1 /\ call'.phase # "applying"
                /\ r.trade_id \in DOMAIN ledger
         \/ /\ sequence' = sequence /\ call.phase = "applying"
            /\ \/ call'.phase # "applying"
               \/ /\ call'.phase = "applying" /\ Action.order < Action'.order
                  /\ Action.order \in Nat /\ Action'.order \in Nat
               \/ Action' = Action /\ r.trade_id \in DOMAIN ledger
  PROVE  Ids'
<1>1. /\ \A t \in DOMAIN ledger : ledger[t] \in Row
      /\ \A t \in DOMAIN ledger : t[1] \in Nat /\ t[2] \in Nat
      /\ sequence \in Nat
  BY DEF Base, TypeOK, Row, TradeIds
<1>2. /\ DOMAIN ledger' = DOMAIN ledger \cup {r.trade_id}
      /\ \A t \in DOMAIN ledger : t # r.trade_id => ledger'[t] = ledger[t]
      /\ ledger'[r.trade_id].record = r
  BY <1>1, SaveDomain, SaveRow
<1>3. \A t \in DOMAIN ledger' : ledger'[t].record.trade_id = t
  BY <1>2 DEF Life, Ids
<1>4. \A t \in DOMAIN ledger :
        /\ t[1] <= sequence
        /\ call.phase = "applying" /\ t[1] = sequence => t[2] < Action.order
  BY DEF Life, Ids
<1>5. ASSUME NEW t \in DOMAIN ledger
      PROVE  /\ t[1] <= sequence'
             /\ call'.phase = "applying" /\ t[1] = sequence' => t[2] < Action'.order
  BY <1>1, <1>4
<1>6. ASSUME r.trade_id \notin DOMAIN ledger
      PROVE  /\ r.trade_id[1] <= sequence'
             /\ call'.phase = "applying" /\ r.trade_id[1] = sequence' =>
                   r.trade_id[2] < Action'.order
  BY <1>1, <1>6 DEF TradeId
<1> QED
  BY <1>2, <1>3, <1>5, <1>6 DEF Ids

\* The ledger keeps its type, and a step about one symbol leaves the others.
LEMMA LedgerType ==
  ASSUME Base, NEW r \in OpenRecord \cup ClosedRecord, r.trade_id \in TradeIds,
         ledger' = save(ledger, r)
  PROVE  \A t \in DOMAIN ledger' : t \in TradeIds /\ ledger'[t] \in Row
<1>1. \A t \in DOMAIN ledger : t \in TradeIds /\ ledger[t] \in Row
  BY DEF Base, TypeOK, Row
<1>2. ledger'[r.trade_id] \in Row
  BY <1>1, SaveRow
<1>3. /\ DOMAIN ledger' = DOMAIN ledger \cup {r.trade_id}
      /\ \A t \in DOMAIN ledger : t # r.trade_id => ledger'[t] = ledger[t]
  BY SaveDomain
<1> QED
  BY <1>1, <1>2, <1>3

LEMMA HoldingsStep ==
  ASSUME Base, NEW s \in Symbols, NEW position, NEW record,
         positions' = [positions EXCEPT ![s] = position],
         open_records' = [open_records EXCEPT ![s] = record],
         Flat(s)' \/ Held(s)'
  PROVE  (\A u \in Symbols : Flat(u) \/ Held(u))'
<1>1. \A u \in Symbols \ {s} : /\ positions'[u] = positions[u]
                               /\ open_records'[u] = open_records[u]
  BY DEF Base, TypeOK
<1>2. \A u \in Symbols \ {s} : Flat(u)' \/ Held(u)'
  BY <1>1 DEF Base, Flat, Held
<1> QED
  BY <1>2

LEMMA ExecutedStep ==
  ASSUME Base, Life, NEW s \in Symbols, NEW position, NEW n \in Int,
         positions' = [positions EXCEPT ![s] = position],
         executed' = [executed EXCEPT ![s] = @ + n],
         Direction(position.side) * position.quantity
            = Direction(positions[s].side) * positions[s].quantity + n
  PROVE  PositionIsExecuted'
<1>1. \A u \in Symbols \ {s} : positions'[u] = positions[u] /\ executed'[u] = executed[u]
  BY DEF Base, TypeOK
<1>2. positions'[s] = position /\ executed'[s] = executed[s] + n
  BY DEF Base, TypeOK
<1> QED
  BY <1>1, <1>2 DEF Life, PositionIsExecuted

-----------------------------------------------------------------------------
(* What saving a record does to the total of the ledger.                   *)

LEMMA WorthType ==
  ASSUME NEW r \in OpenRecord \cup ClosedRecord PROVE RecordWorth(r) \in Int
  BY DEF RecordWorth, OpenRecord, ClosedRecord

LEMMA SaveTotal ==
  ASSUME NEW rows, IsFiniteSet(DOMAIN rows), \A t \in DOMAIN rows : rows[t] \in Row,
         NEW r \in OpenRecord \cup ClosedRecord
  PROVE  /\ IsFiniteSet(DOMAIN save(rows, r))
         /\ LedgerTotal(rows) \in Int
         /\ LedgerTotal(save(rows, r)) = LedgerTotal(rows) + RecordWorth(r)
               - (IF r.trade_id \in DOMAIN rows
                  THEN RecordWorth(rows[r.trade_id].record) ELSE 0)
<1> DEFINE x == r.trade_id
           D == DOMAIN rows
           E == D \cup {x}
           g == Worth(rows)
           h == Worth(save(rows, r))
<1>1. DOMAIN save(rows, r) = E /\ IsFiniteSet(E)
  BY SaveDomain, FS_AddElement
<1>2. /\ \A t \in D : g[t] = RecordWorth(rows[t].record) /\ g[t] \in Int
      /\ \A t \in D \ {x} : h[t] = g[t]
      /\ h[x] = RecordWorth(r)
  BY <1>1, SaveDomain, SaveRow, WorthType DEF Worth, Row
<1>3. \A t \in E : h[t] \in Int
  BY <1>2, WorthType
<1> HIDE DEF g, h
<1>4. SumOver(h, E) = h[x] + SumOver(h, E \ {x})
  BY <1>1, <1>3, SumWithout
<1>5. E \ {x} = D \ {x} /\ IsFiniteSet(D \ {x})
  BY FS_RemoveElement
<1>6. SumOver(h, D \ {x}) = SumOver(g, D \ {x})
  BY <1>2, <1>5, SumSame
<1>7. \A T \in SUBSET D : SumOver(g, T) \in Int
  BY <1>2, SumType
<1>8. x \in D => SumOver(g, D) = g[x] + SumOver(g, D \ {x})
  BY <1>2, SumWithout
<1>9. x \notin D => D \ {x} = D
  OBVIOUS
<1>10. SumOver(g, D) \in Int /\ SumOver(g, D \ {x}) \in Int /\ h[x] \in Int
       /\ (x \in D => g[x] \in Int)
  BY <1>2, <1>3, <1>7
<1>11. SumOver(h, E) = SumOver(g, D) + h[x] - (IF x \in D THEN g[x] ELSE 0)
  <2>1. SumOver(h, E) = h[x] + SumOver(g, D \ {x})
    BY <1>4, <1>5, <1>6
  <2>2. CASE x \in D
    BY <2>1, <2>2, <1>8, <1>10
  <2>3. CASE x \notin D
    BY <2>1, <2>3, <1>9, <1>10
  <2> QED
    BY <2>2, <2>3
<1> QED
  BY <1>1, <1>2, <1>10, <1>11 DEF LedgerTotal, g, h

\* A step that saves one record and books an amount keeps the account: what
\* the row gains is what equity gains, less what waits in the slice.
LEMMA ReconciledStep ==
  ASSUME Base, Life, NEW r \in OpenRecord \cup ClosedRecord, ledger' = save(ledger, r),
         NEW amount \in Int, equity' = equity + amount,
         NEW before \in Int, before = call.slice.net,
         NEW after \in Int, after = call'.slice.net,
         amount + before = after + RecordWorth(r)
            - (IF r.trade_id \in DOMAIN ledger
               THEN RecordWorth(ledger[r.trade_id].record) ELSE 0)
  PROVE  Reconciled'
<1>1. \A t \in DOMAIN ledger : ledger[t] \in Row
  BY DEF Base, TypeOK, Row
<1>2. IsFiniteSet(DOMAIN ledger) /\ equity = StartingEquity + LedgerTotal(ledger) + before
  BY DEF Life, Reconciled
<1>3. equity \in Int /\ StartingEquity \in Int
  BY ParameterAssumption DEF Base, TypeOK
<1> DEFINE old == IF r.trade_id \in DOMAIN ledger
                  THEN RecordWorth(ledger[r.trade_id].record) ELSE 0
<1>4. old \in Int /\ RecordWorth(r) \in Int
  BY <1>1, WorthType DEF Row
<1>5. /\ IsFiniteSet(DOMAIN ledger') /\ LedgerTotal(ledger) \in Int
      /\ LedgerTotal(ledger') = LedgerTotal(ledger) + RecordWorth(r) - old
  BY <1>1, <1>2, SaveTotal
<1>6. amount + before = after + RecordWorth(r) - old
  OBVIOUS
<1> HIDE DEF old
<1>7. equity' = StartingEquity + LedgerTotal(ledger') + after
  BY <1>2, <1>3, <1>4, <1>5, <1>6
<1> QED
  BY <1>5, <1>7 DEF Reconciled

-----------------------------------------------------------------------------
(* What the applying actions compute.                                      *)

LEMMA PriceType ==
  ASSUME NEW side \in Sides, NEW mark \in Marks
  PROVE  /\ FillPrice(side, mark) \in Nat
         /\ Opposite(side) \in Sides /\ Direction(side) \in {-1, 1}
  BY ParameterAssumption DEF Sides, FillPrice, Direction, Opposite

\* A level that a mark touches is a price, whatever distance its plan gave.
LEMMA TriggerType ==
  ASSUME NEW position \in Position, NEW mark \in Marks
  PROVE  Trigger(position, mark) \in Nat
<1>1. mark \in Nat /\ mark > 0
  BY ParameterAssumption
<1>2. CASE position.side = "buy"
  BY <1>1, <1>2 DEF Position, Trigger, Direction
<1>3. CASE position.side = "sell"
  BY <1>1, <1>3 DEF Position, Trigger, Direction
<1> QED
  BY <1>2, <1>3 DEF Position

\* What _resolve_bracket gives has the type of a position's levels.
LEMMA BracketType ==
  ASSUME call.plan \in PreTradePlan, NEW side \in Sides, NEW price \in Nat
  PROVE  /\ Bracket(side, price).stop \in Int /\ Bracket(side, price).target \in Int
         /\ side = "buy" => Bracket(side, price).target \in Nat
         /\ side = "sell" => Bracket(side, price).stop \in Nat
  BY DEF Bracket, Level, PreTradePlan, StopLevel, Sides, Direction

LEMMA PnlType ==
  ASSUME NEW side \in Sides, NEW entry \in Nat, NEW price \in Nat, NEW n \in Nat
  PROVE  realized_pnl(side, entry, price, n) \in Int
<1>1. Direction(side) * (price - entry) \in Int
  BY DEF Sides, Direction
<1> QED
  BY <1>1, IntProduct DEF realized_pnl

LEMMA FeeType ==
  ASSUME NEW rate \in Nat, NEW price \in Nat, NEW n \in Nat
  PROVE  rate * price * n \in Nat
<1>1. rate * price \in Nat
  BY NatProduct
<1> QED
  BY <1>1, NatProduct

LEMMA ClosedType ==
  ASSUME NEW record \in OpenRecord, record.quantity <= Depth,
         NEW n \in 1 .. record.quantity, call.mark \in Marks
  PROVE  /\ Closed(record, n) \in ClosedRecord
         /\ EntryFeeShare(record, n) \in 0 .. record.fee
         /\ Gross(record, n) \in Int /\ ExitFee(record, n) \in Nat
         /\ Gross(record, n) - ExitFee(record, n) \in Int
         /\ Filled(n) = n
<1>1. /\ record.side \in Sides /\ record.quantity \in Nat /\ record.quantity > 0
      /\ record.fee \in Nat /\ record.entry \in Nat /\ n \in Nat /\ n > 0
  BY DEF OpenRecord
<1>2. EntryFeeShare(record, n) \in 0 .. record.fee
  BY <1>1, ShareBound DEF EntryFeeShare
<1>3. ExitPrice(record) \in Nat
  BY <1>1, PriceType DEF ExitPrice
<1>4. Filled(n) = n
  BY <1>1, ParameterAssumption DEF Filled, Lesser
<1>5. ExitFee(record, n) \in Nat
  BY <1>1, <1>3, <1>4, FeeType, ParameterAssumption DEF ExitFee
<1>6. Gross(record, n) \in Int
  BY <1>1, <1>3, PnlType DEF Gross
<1>7. Closed(record, n) \in ClosedRecord
  <2> DEFINE fee == EntryFeeShare(record, n) + ExitFee(record, n)
             net == Gross(record, n) - EntryFeeShare(record, n) - ExitFee(record, n)
  <2>1. n \in Nat \ {0} /\ fee \in Nat /\ net \in Int
    BY <1>1, <1>2, <1>5, <1>6
  <2>2. Closed(record, n) = [record EXCEPT !.quantity = n, !.status = "closed",
                                           !.fee = fee, !.net = net]
    BY DEF Closed
  <2> HIDE DEF fee, net
  <2> QED
    BY <2>1, <2>2 DEF OpenRecord, ClosedRecord
<1> QED
  BY <1>2, <1>4, <1>5, <1>6, <1>7

\* An open record of a symbol is what its position and executions say.
LEMMA OpenFacts ==
  ASSUME Base, NEW s \in Symbols, open_records[s] # NoRecord
  PROVE  /\ open_records[s] \in OpenRecord /\ Held(s)
         /\ positions[s] \in Position
         /\ open_records[s].quantity <= Depth
  BY DEF Base, TypeOK, Flat, Held

\* Within one life its row is the record, and closing it takes away its worth.
LEMMA OpenRow ==
  ASSUME Base, Life, NEW s \in Symbols, NEW r \in OpenRecord, r = open_records[s],
         r # NoRecord
  PROVE  /\ r.trade_id \in DOMAIN ledger /\ ledger[r.trade_id].record = r
         /\ RecordWorth(r) = -r.fee
  BY DEF Life, Rows, OpenRecord, RecordWorth

-----------------------------------------------------------------------------
(* One lemma per action.                                                   *)

LEMMA InitBase == Init => Base
<1> SUFFICES ASSUME Init PROVE Base
  OBVIOUS
<1>1. DOMAIN ledger = {}
  BY DEF Init, NoTrades
<1>2. TypeOK
  <2>1. StartingEquity \in Int
    BY ParameterAssumption
  <2> QED
    BY <1>1, <2>1, IdleType, NoPlanType DEF Init, TypeOK, Windows, NoPeriod
<1>3. Control
  BY DEF Init, Control, Idle
<1>4. \A s \in Symbols : Flat(s) \/ Held(s)
  BY DEF Init, Flat
<1> QED
  BY <1>2, <1>3, <1>4 DEF Base

LEMMA InitLife == Init => Life
<1> SUFFICES ASSUME Init PROVE Life
  OBVIOUS
<1>1. DOMAIN ledger = {}
  BY DEF Init, NoTrades
<1>2. Ids /\ Rows
  BY <1>1 DEF Init, Ids, Rows, OpenRowsManaged, OpenRows
<1>3. PositionIsExecuted
  BY DEF Init, PositionIsExecuted, NoPosition, Direction
<1>4. Reconciled
  <2>1. LedgerTotal(ledger) = 0 /\ IsFiniteSet({})
    BY <1>1, FS_EmptySet, SumUnfolds DEF LedgerTotal
  <2>2. equity = StartingEquity /\ call.slice.net = 0 /\ StartingEquity \in Int
    BY ParameterAssumption DEF Init, Idle, NoRecord
  <2> QED
    BY <1>1, <2>1, <2>2 DEF Reconciled
<1> QED
  BY <1>2, <1>3, <1>4 DEF Life

LEMMA SnapshotBase == Base /\ Snapshot => Base'
<1> SUFFICES ASSUME Base, Snapshot PROVE Base'
  OBVIOUS
<1>1. TypeOK'
  BY RollType DEF Base, Snapshot, TypeOK, books
<1>2. Control'
  BY DEF Base, Control, Snapshot, TradeId, Action
<1>3. (\A s \in Symbols : Flat(s) \/ Held(s))'
  BY QuietBooks DEF Snapshot
<1> QED
  BY <1>1, <1>2, <1>3 DEF Base

LEMMA SnapshotLife == Life /\ Snapshot => Life'
<1> SUFFICES ASSUME Life, Snapshot PROVE Life'
  OBVIOUS
<1>1. UNCHANGED <<books, equity, sequence, call, executed>>
  BY DEF Snapshot
<1>2. Ids' /\ PositionIsExecuted'
  BY <1>1 DEF Life, books, Ids, Action, PositionIsExecuted
<1>3. Rows' /\ Reconciled'
  BY <1>1 DEF Life, books, Rows, OpenRowsManaged, OpenRows, OpenRecords, Reconciled
<1> QED
  BY <1>2, <1>3 DEF Life

\* The steps of a call that write no book.
LEMMA ReasonStep == ASSUME Base, Reason PROVE Base' /\ (Life => Life')
<1>1. TypeOK'
  <2>1. call' \in Call
    <3>1. Tripped \in BOOLEAN
      BY DEF Tripped
    <3>2. call' = [Idle EXCEPT !.phase = "reasoned", !.tripped = Tripped, !.piped = TRUE]
      BY DEF Reason
    <3> QED
      BY <3>1, <3>2, IdleType DEF Call
  <2> QED
    BY <2>1, RollType DEF Base, Reason, TypeOK, books
<1>2. Control' /\ call'.phase # "applying" /\ call.slice = NoRecord /\ call'.slice = NoRecord
  BY DEF Base, Control, Reason, Idle
<1>3. Base'
  BY <1>1, <1>2, QuietBooks DEF Base, Reason
<1>4. Life => Life'
  BY <1>2, QuietStep DEF Base, TypeOK, Reason
<1> QED
  BY <1>3, <1>4

LEMMA StandAsideStep == ASSUME Base, StandAside PROVE Base' /\ (Life => Life')
<1>1. TypeOK'
  BY IdleType DEF Base, StandAside, TypeOK, books, windows
<1>2. Control' /\ call'.phase # "applying" /\ call.slice = NoRecord /\ call'.slice = NoRecord
  BY DEF Base, Control, StandAside, Idle
<1>3. Base'
  BY <1>1, <1>2, QuietBooks DEF Base, StandAside
<1>4. Life => Life'
  BY <1>2, QuietStep DEF Base, TypeOK, StandAside
<1> QED
  BY <1>3, <1>4

LEMMA SettleStep == ASSUME Base, Settle PROVE Base' /\ (Life => Life')
<1>1. TypeOK'
  BY IdleType, RollType DEF Base, Settle, TypeOK, books
<1>2. Control' /\ call'.phase # "applying" /\ call.slice = NoRecord /\ call'.slice = NoRecord
  BY DEF Base, Control, Settle, Idle
<1>3. Base'
  BY <1>1, <1>2, QuietBooks DEF Base, Settle
<1>4. Life => Life'
  BY <1>2, QuietStep DEF Base, TypeOK, Settle
<1> QED
  BY <1>3, <1>4

\* A restart ends a life, and what does not depend on it starts afresh.
LEMMA RestartStep == ASSUME Base, Restart PROVE Base'
<1>1. TypeOK'
  <2>1. StartingEquity \in Int
    BY ParameterAssumption
  <2> QED
    BY <2>1, IdleType, NoPlanType DEF Restart, Base, TypeOK, Windows, NoPeriod
<1>2. Control'
  BY DEF Restart, Control, Idle
<1>3. (\A s \in Symbols : Flat(s) \/ Held(s))'
  BY DEF Restart, Flat
<1> QED
  BY <1>1, <1>2, <1>3 DEF Base

LEMMA GateStep ==
  ASSUME Base, NEW p \in Proposals, NEW mark \in Marks,
         NEW approved \in Verdicts(p, call.tripped), Gate(p, mark, approved)
  PROVE  Base' /\ (Life => Life')
<1>1. approved \in Int /\ (approved # Rejected => approved >= Unlimited)
  <2>1. p.actions[1] \in ProposedAction
    BY ProposalFacts
  <2>2. p.actions[1].size \in Int
    BY <2>1, ParameterAssumption DEF ProposedAction
  <2> QED
    BY <2>2 DEF Verdicts, Unlimited, Rejected
<1>2. /\ sequence \in Nat /\ sequence' = sequence + 1
      /\ current_time' \in {NoPeriod} \cup Nat
  BY ProposalFacts DEF Gate, EnterProcess, Base, TypeOK, Greater
<1>3. call' \in Call
  <2>1. CASE approved = Rejected
    BY <2>1, IdleType DEF Gate, Base, TypeOK, Call
  <2>2. CASE approved # Rejected
    <3>1. mark \in Nat
      BY ParameterAssumption
    <3> QED
      BY <2>2, <3>1, <1>1, ProposalFacts DEF Gate, Base, TypeOK, Call
  <2> QED
    BY <2>1, <2>2
<1>4. TypeOK'
  BY <1>2, <1>3 DEF Gate, Base, TypeOK, books, windows
<1>5. Control'
  <2>1. CASE approved = Rejected
    BY <2>1 DEF Gate, Control, Finished, Idle
  <2>2. CASE approved # Rejected
    BY <2>2, <1>1, ProposalFacts DEF Gate, Control
  <2> QED
    BY <2>1, <2>2
<1>6. Base'
  BY <1>4, <1>5, QuietBooks DEF Base, Gate
<1>7. call.slice = NoRecord /\ call'.slice = NoRecord
  BY DEF Base, Control, Gate, EnterProcess, MayProcess, Finished, Idle
<1>8. Life => Life'
  BY <1>2, <1>7, QuietStep DEF Gate
<1> QED
  BY <1>6, <1>8

\* After an action the type and control parts hold of the call.
LEMMA DoneControl ==
  ASSUME Base, call.phase = "applying", call' = ActionDone
  PROVE  /\ call' \in Call /\ Control' /\ call'.slice = NoRecord
         /\ Action \in ProposedAction
         /\ call'.phase = "applying" =>
               Action' \in ProposedAction /\ Action.order < Action'.order
<1>1. TypeOK /\ Control
  BY DEF Base
<1>2. call' \in Call /\ Control' /\ call'.slice = NoRecord
  BY <1>1, ActionDoneFacts DEF Control
<1>3. call.todo \in Seq(ProposedAction) /\ call.todo # <<>>
  BY <1>1 DEF TypeOK, Call, Control
<1>4. call'.phase = "applying" => call'.todo \in Seq(ProposedAction) /\ call'.todo # <<>>
  BY <1>2 DEF Call, Control
<1>5. call'.phase = "applying" => Action.order < Action'.order
  BY <1>1, ActionDoneFacts DEF Action
<1> QED
  BY <1>2, <1>3, <1>4, <1>5 DEF Action

LEMMA ApplyNothingStep == ASSUME Base, ApplyNothing PROVE Base' /\ (Life => Life')
<1>1. /\ call.phase = "applying" /\ call' = ActionDone /\ sequence' = sequence
      /\ call.slice = NoRecord
  BY DEF ApplyNothing, Applying
<1>2. TypeOK'
  BY <1>1, DoneControl DEF ApplyNothing, Base, TypeOK, books, windows
<1>3. Base'
  BY <1>1, <1>2, DoneControl, QuietBooks DEF Base, ApplyNothing
<1>4. Life => Life'
  <2>1. sequence \in Nat
    BY DEF Base, TypeOK
  <2>2. /\ Action.order \in Nat /\ call'.slice = NoRecord
        /\ call'.phase = "applying" => Action'.order \in Nat /\ Action.order <= Action'.order
    BY <1>1, DoneControl DEF ProposedAction
  <2> QED
    BY <1>1, <2>1, <2>2, QuietStep DEF ApplyNothing
<1> QED
  BY <1>3, <1>4

LEMMA BracketExitStep ==
  ASSUME Base, NEW p \in Proposals, NEW mark \in Marks, BracketExit(p, mark)
  PROVE  Base' /\ (Life => Life')
<1> DEFINE s == p.symbol
           price == Trigger(positions[s], mark)
           record == open_records[s]
           gross == realized_pnl(record.side, record.entry, price, record.quantity)
           fee == taker_fee_rate * price * record.quantity
           net == gross - record.fee - fee
           closed == [record EXCEPT !.status = "closed", !.fee = @ + fee, !.net = net]
<1>1. s \in Symbols /\ p.day \in Days /\ p.day \in Nat
  BY ProposalFacts, SMTT(30)
<1>2. positions[s] # NoPosition
  BY DEF BracketExit, Trigger
<1>3. record # NoRecord
  BY <1>1, <1>2 DEF Base, Flat, Held
<1>4. record \in OpenRecord /\ Held(s) /\ positions[s] \in Position
  BY <1>1, <1>3, OpenFacts
<1>5. price \in Nat
  BY <1>4, TriggerType
<1>6. record.side \in Sides /\ record.entry \in Nat /\ record.quantity \in Nat /\ record.fee \in Nat
  BY <1>4 DEF OpenRecord
<1>7. gross \in Int
  BY <1>5, <1>6, PnlType
<1>8. fee \in Nat
  BY <1>5, <1>6, FeeType, ParameterAssumption
<1>9. net \in Int /\ record.fee + fee \in Nat /\ gross - fee \in Int
  BY <1>6, <1>7, <1>8
<1>10. /\ EnterProcess(p)
       /\ Book(gross - fee, p.day)
       /\ ledger' = save(ledger, closed)
       /\ positions' = [positions EXCEPT ![s] = NoPosition]
       /\ open_records' = [open_records EXCEPT ![s] = NoRecord]
       /\ executed' = [executed EXCEPT ![s] = @ - Direction(record.side) * record.quantity]
       /\ call' = Finished(call.piped)
       /\ UNCHANGED <<last_reset, restarts, planned>>
  BY DEF BracketExit
<1>11. closed \in ClosedRecord /\ closed.status = "closed" /\ closed.trade_id = record.trade_id
  <2> HIDE DEF record, fee, net
  <2> QED
    BY <1>4, <1>9 DEF OpenRecord, ClosedRecord
<1>12. /\ sequence \in Nat /\ sequence' = sequence + 1
       /\ current_time' \in {NoPeriod} \cup Nat
  BY <1>1, <1>10 DEF EnterProcess, Base, TypeOK, Greater
<1>13. call' \in Call /\ call'.phase # "applying" /\ call'.slice = NoRecord
  <2>1. call.piped \in BOOLEAN
    BY DEF Base, TypeOK, Call
  <2> QED
    BY <2>1, <1>10, IdleType DEF Finished, Idle
<1> HIDE DEF s, price, record, gross, fee, net, closed
<1>14. TypeOK'
  <2>1. /\ equity' \in Int /\ pnl' \in [Windows -> Int]
        /\ booked' \in [{q.day : q \in Proposals} -> Int]
    BY <1>1, <1>9, <1>10, BookType DEF Base, Days
  <2>2. \A t \in DOMAIN ledger' : t \in TradeIds /\ ledger'[t] \in Row
    BY <1>10, <1>11, LedgerType DEF ClosedRecord
  <2>3. Direction(record.side) * record.quantity \in Int
    BY <1>6 DEF Sides, Direction
  <2>4. executed' \in [Symbols -> Int]
    BY <2>3, <1>1, <1>10 DEF Base, TypeOK
  <2>5. /\ positions' \in [Symbols -> {NoPosition} \cup Position]
        /\ open_records' \in [Symbols -> {NoRecord} \cup OpenRecord]
    BY <1>1, <1>10 DEF Base, TypeOK
  <2> QED
    BY <2>1, <2>2, <2>4, <2>5, <1>10, <1>12, <1>13 DEF Base, TypeOK, Row
<1>15. Control'
  BY <1>13 DEF Control
<1>16. (\A u \in Symbols : Flat(u) \/ Held(u))'
  <2>1. Flat(s)'
    BY <1>1, <1>10 DEF Base, TypeOK, Flat
  <2> QED
    BY <2>1, <1>1, <1>10, HoldingsStep
<1>17. Base'
  BY <1>14, <1>15, <1>16 DEF Base
<1>18. ASSUME Life PROVE Life'
  <2>1. /\ record.trade_id \in DOMAIN ledger /\ ledger[record.trade_id].record = record
        /\ RecordWorth(record) = -record.fee
    BY <1>1, <1>3, <1>4, <1>18, OpenRow DEF record
  <2>2. Ids'
    BY <2>1, <1>10, <1>11, <1>12, <1>13, <1>18, IdsStep
  <2>3. PositionIsExecuted'
    <3>1. PICK n \in Int : n = Direction(record.side) * record.quantity
      BY <1>6 DEF Sides, Direction
    <3>2. Direction(positions[s].side) * positions[s].quantity = n
      BY <3>1, <1>4 DEF Held, record
    <3>3. executed' = [executed EXCEPT ![s] = @ + (-n)] /\ -n \in Int
      <4>1. executed[s] - n = executed[s] + (-n)
        BY <1>1 DEF Base, TypeOK
      <4>2. executed' = [executed EXCEPT ![s] = executed[s] - n]
        BY <3>1, <1>10
      <4>3. executed' = [executed EXCEPT ![s] = executed[s] + (-n)]
        BY <4>1, <4>2
      <4> QED
        BY <4>3
    <3>4. Direction(NoPosition.side) * NoPosition.quantity = 0
      BY DEF NoPosition, Direction
    <3>5. 0 = n + (-n)
      OBVIOUS
    <3> QED
      BY <3>2, <3>3, <3>4, <3>5, <1>1, <1>10, <1>18, ExecutedStep
  <2>4. Rows'
    <3>1. open_records' = [open_records EXCEPT ![s] =
                             IF closed.status = "open" THEN closed ELSE NoRecord]
      BY <1>10, <1>11
    <3> QED
      BY <2>1, <3>1, <1>1, <1>3, <1>10, <1>11, <1>18, RowsStep DEF record
  <2>5. Reconciled'
    <3>1. equity' = equity + (gross - fee) /\ call.slice.net = 0 /\ call'.slice.net = 0
      BY <1>10, <1>13 DEF Book, EnterProcess, MayProcess, Base, Control, NoRecord
    <3>2. RecordWorth(closed) = net
      <4> HIDE DEF record, fee, net
      <4> QED
        BY <1>4, <1>9, <1>11 DEF closed, RecordWorth, OpenRecord
    <3>3. gross - fee + 0 = 0 + net - (-record.fee)
      BY <1>6, <1>7, <1>8 DEF net
    <3> QED
      BY <2>1, <3>1, <3>2, <3>3, <1>9, <1>10, <1>11, <1>18, ReconciledStep
  <2> QED
    BY <2>2, <2>3, <2>4, <2>5 DEF Life
<1> QED
  BY <1>17, <1>18

LEMMA OpenStep == ASSUME Base, Open PROVE Base' /\ (Life => Life')
<1>0. PICK s \in Symbols : s = call.symbol
  BY DEF Base, Control, Open, Applying
<1> DEFINE side == IF Action.type = "enter_long" THEN "buy" ELSE "sell"
           price == FillPrice(side, call.mark)
           filled == Filled(Size)
           fee == gateway_fee_rate * price * filled
           bracket == Bracket(side, price)
           record == [trade_id |-> TradeId, symbol |-> s, side |-> side,
                      quantity |-> filled, entry |-> price, fee |-> fee,
                      status |-> "open", net |-> 0]
           position == [side |-> side, quantity |-> filled, entry |-> price,
                        stop |-> bracket.stop, target |-> bracket.target]
<1>1. /\ call.phase = "applying" /\ call.approved # 0
      /\ positions[s] = NoPosition
      /\ positions' = [positions EXCEPT ![s] = position]
      /\ Book(-fee, call.day)
      /\ open_records' = [open_records EXCEPT ![s] = record]
      /\ ledger' = save(ledger, record)
      /\ executed' = [executed EXCEPT ![s] = @ + Direction(side) * filled]
      /\ call' = ActionDone
      /\ UNCHANGED <<last_reset, current_time, sequence, restarts>>
      /\ planned' = [planned EXCEPT ![s] = call.plan] /\ call.plan \in PreTradePlan
  BY <1>0 DEF Open, Applying, Base, TypeOK, Call
<1>2. call.day \in Days /\ call.mark \in Marks /\ call.approved >= Unlimited
  BY <1>1 DEF Base, Control
<1>3. /\ call' \in Call /\ Control' /\ Action \in ProposedAction
      /\ call'.slice = NoRecord /\ call.slice = NoRecord
      /\ call'.phase = "applying" =>
            Action' \in ProposedAction /\ Action.order < Action'.order
  BY <1>1, DoneControl DEF Open, Applying
<1>4. Action.size \in Nat /\ Action.size > 0 /\ Action.order \in Nat
      /\ (call'.phase = "applying" => Action'.order \in Nat)
  BY <1>3, ParameterAssumption DEF ProposedAction
<1>5. Size \in Nat /\ Size > 0
  <2>1. call.approved \in Int
    BY DEF Base, TypeOK, Call
  <2> QED
    BY <2>1, <1>1, <1>2, <1>4 DEF Size, Lesser, Unlimited
<1>6. filled \in Nat /\ filled > 0 /\ filled <= Depth
  BY <1>5, ParameterAssumption DEF Filled, Lesser
<1>7. side \in Sides
  BY DEF Sides
<1>8. price \in Nat /\ Direction(side) \in {-1, 1}
  BY <1>2, <1>7, PriceType
<1>9. fee \in Nat /\ -fee \in Int
  <2>1. fee \in Nat
    BY <1>6, <1>8, FeeType, ParameterAssumption
  <2> HIDE DEF fee
  <2> QED
    BY <2>1
<1>10. /\ bracket.stop \in Int /\ bracket.target \in Int
       /\ side = "buy" => bracket.target \in Nat
       /\ side = "sell" => bracket.stop \in Nat
  BY <1>1, <1>7, <1>8, BracketType
<1>11. sequence \in Nat /\ TradeId \in TradeIds
  BY <1>4 DEF Base, TypeOK, TradeId, TradeIds
<1> HIDE DEF side, price, filled, fee, bracket
<1>12. record \in OpenRecord /\ position \in Position /\ position # NoPosition
       /\ record # NoRecord
  <2>1. record \in OpenRecord /\ record # NoRecord
    BY <1>2, <1>6, <1>7, <1>8, <1>9, <1>11 DEF OpenRecord, NoRecord
  <2>2. position \in Position
    <3>1. CASE side = "buy"
      BY <3>1, <1>6, <1>8, <1>10 DEF Position
    <3>2. CASE side = "sell"
      BY <3>2, <1>6, <1>8, <1>10 DEF Position
    <3> QED
      BY <3>1, <3>2, <1>7 DEF Sides
  <2>3. position # NoPosition
    BY <1>7 DEF NoPosition, Sides
  <2> QED
    BY <2>1, <2>2, <2>3
<1>13. /\ record.trade_id = TradeId /\ record.status = "open" /\ record.symbol = s
       /\ record.side = position.side /\ record.quantity = position.quantity
       /\ record.entry = position.entry
       /\ position.side = side /\ position.quantity = filled
  OBVIOUS
<1>14. open_records[s] = NoRecord
  BY <1>1, <1>2 DEF Base, Flat, Held
<1> HIDE DEF record, position
<1>15. Direction(side) * filled \in Int
  BY <1>6, <1>8
<1>16. TypeOK'
  <2>1. /\ equity' \in Int /\ pnl' \in [Windows -> Int]
        /\ booked' \in [{q.day : q \in Proposals} -> Int]
    BY <1>1, <1>2, <1>9, BookType DEF Base, Days
  <2>2. \A t \in DOMAIN ledger' : t \in TradeIds /\ ledger'[t] \in Row
    BY <1>1, <1>11, <1>12, <1>13, LedgerType
  <2>3. executed' \in [Symbols -> Int]
    BY <1>1, <1>2, <1>15 DEF Base, TypeOK
  <2>4. /\ positions' \in [Symbols -> {NoPosition} \cup Position]
        /\ open_records' \in [Symbols -> {NoRecord} \cup OpenRecord]
    BY <1>1, <1>2, <1>12 DEF Base, TypeOK
  <2> QED
    BY <2>1, <2>2, <2>3, <2>4, <1>1, <1>3 DEF Base, TypeOK, Row
<1>17. (\A u \in Symbols : Flat(u) \/ Held(u))'
  <2>1. positions'[s] = position /\ open_records'[s] = record
    BY <1>1, <1>2 DEF Base, TypeOK
  <2>2. Held(s)'
    BY <2>1, <1>6, <1>12, <1>13 DEF Held
  <2> QED
    BY <2>2, <1>1, <1>2, HoldingsStep
<1>18. Base'
  BY <1>3, <1>16, <1>17 DEF Base
<1>19. ASSUME Life PROVE Life'
  <2>1. TradeId \notin DOMAIN ledger
    BY <1>1, <1>4, <1>19 DEF Life, Ids, TradeId
  <2>2. Ids'
    BY <1>1, <1>3, <1>4, <1>12, <1>13, <1>19, IdsStep
  <2>3. PositionIsExecuted'
    <3>1. Direction(positions[s].side) * positions[s].quantity = 0
      BY <1>1 DEF NoPosition, Direction
    <3>2. PICK n \in Int : n = Direction(side) * filled
      BY <1>15
    <3>3. n = 0 + n
      OBVIOUS
    <3> QED
      BY <3>1, <3>2, <3>3, <1>1, <1>13, <1>19, ExecutedStep
  <2>4. Rows'
    BY <2>1, <1>1, <1>2, <1>12, <1>13, <1>14, <1>19, RowsStep
  <2>5. Reconciled'
    <3>1. equity' = equity + (-fee) /\ call.slice.net = 0 /\ call'.slice.net = 0
      BY <1>1, <1>3 DEF Book, NoRecord
    <3>2. RecordWorth(record) = -fee
      BY DEF RecordWorth, record
    <3>3. -fee + 0 = 0 + (-fee) - 0
      BY <1>9
    <3> QED
      BY <2>1, <3>1, <3>2, <3>3, <1>1, <1>9, <1>12, <1>13, <1>19, ReconciledStep
  <2> QED
    BY <2>2, <2>3, <2>4, <2>5 DEF Life
<1> QED
  BY <1>18, <1>19

\* The quantity a closing action closes, and what comes with it.
LEMMA CloseQuantityFacts ==
  ASSUME Base, Applying, Closing, open_records[call.symbol] # NoRecord
  PROVE  /\ call.symbol \in Symbols /\ call.day \in Days /\ call.mark \in Marks
         /\ open_records[call.symbol] \in OpenRecord
         /\ CloseQuantity(open_records[call.symbol]) \in 1 .. open_records[call.symbol].quantity
         /\ Action \in ProposedAction
<1>1. call.symbol \in Symbols /\ call.day \in Days /\ call.mark \in Marks
  BY DEF Base, Control, Applying
<1>2. Action \in ProposedAction
  BY DEF Base, TypeOK, Call, Applying, Action
<1>3. open_records[call.symbol] \in OpenRecord
  BY <1>1, OpenFacts
<1>4. /\ open_records[call.symbol].quantity \in Nat \ {0}
      /\ Action.size \in Nat \ {0}
  BY <1>2, <1>3, ParameterAssumption DEF OpenRecord, ProposedAction
<1> QED
  BY <1>1, <1>2, <1>3, <1>4 DEF CloseQuantity, Lesser

LEMMA CloseFullStep == ASSUME Base, CloseFull PROVE Base' /\ (Life => Life')
<1>0. PICK s \in Symbols : s = call.symbol
  BY CloseQuantityFacts DEF CloseFull
<1>a. PICK record \in OpenRecord : record = open_records[s]
  BY <1>0, CloseQuantityFacts DEF CloseFull
<1>b. PICK n \in 1 .. record.quantity : n = CloseQuantity(open_records[s])
  BY <1>0, <1>a, CloseQuantityFacts DEF CloseFull
<1>1. /\ call.phase = "applying" /\ n = record.quantity
      /\ BookClose(record, n)
      /\ ledger' = save(ledger, Closed(record, n))
      /\ positions' = [positions EXCEPT ![s] = NoPosition]
      /\ open_records' = [open_records EXCEPT ![s] = NoRecord]
      /\ call' = ActionDone
      /\ UNCHANGED <<last_reset, current_time, sequence, restarts, planned>>
  BY <1>0, <1>a, <1>b DEF CloseFull, Applying
<1>2. record # NoRecord /\ Held(s) /\ record.quantity <= Depth
  BY <1>0, <1>a, OpenFacts DEF CloseFull
<1>3. /\ call.mark \in Marks /\ call.day \in Days
      /\ record.side \in Sides /\ record.quantity \in Nat /\ record.trade_id \in TradeIds
  BY <1>1 DEF Base, Control, OpenRecord
<1>4. PICK closed \in ClosedRecord : closed = Closed(record, n)
  BY <1>2, <1>3, ClosedType
<1>5. closed.trade_id = record.trade_id /\ closed.status = "closed"
  BY <1>4 DEF Closed, OpenRecord
<1>6. /\ Gross(record, n) - ExitFee(record, n) \in Int
      /\ executed' = [executed EXCEPT ![s] = @ - Direction(record.side) * n]
      /\ Book(Gross(record, n) - ExitFee(record, n), call.day)
  BY <1>0, <1>1, <1>2, <1>3, ClosedType DEF BookClose
<1>7. Direction(record.side) * n \in Int
  BY <1>3 DEF Sides, Direction
<1>8. /\ call' \in Call /\ Control' /\ Action \in ProposedAction
      /\ call'.slice = NoRecord /\ call.slice = NoRecord
      /\ call'.phase = "applying" =>
            Action' \in ProposedAction /\ Action.order < Action'.order
  BY <1>1, DoneControl DEF CloseFull, Applying
<1>9. TypeOK'
  <2>1. /\ equity' \in Int /\ pnl' \in [Windows -> Int]
        /\ booked' \in [{q.day : q \in Proposals} -> Int]
    BY <1>3, <1>6, BookType DEF Base, Days
  <2>2. \A t \in DOMAIN ledger' : t \in TradeIds /\ ledger'[t] \in Row
    BY <1>1, <1>3, <1>4, <1>5, LedgerType
  <2>3. executed' \in [Symbols -> Int]
    BY <1>6, <1>7 DEF Base, TypeOK
  <2>4. /\ positions' \in [Symbols -> {NoPosition} \cup Position]
        /\ open_records' \in [Symbols -> {NoRecord} \cup OpenRecord]
    BY <1>1 DEF Base, TypeOK
  <2> QED
    BY <2>1, <2>2, <2>3, <2>4, <1>1, <1>8 DEF Base, TypeOK, Row
<1>10. (\A u \in Symbols : Flat(u) \/ Held(u))'
  <2>1. Flat(s)'
    BY <1>1 DEF Base, TypeOK, Flat
  <2> QED
    BY <2>1, <1>1, HoldingsStep
<1>11. Base'
  BY <1>8, <1>9, <1>10 DEF Base
<1>12. ASSUME Life PROVE Life'
  <2>1. /\ record.trade_id \in DOMAIN ledger /\ ledger[record.trade_id].record = record
        /\ RecordWorth(record) = -record.fee
    BY <1>2, <1>a, <1>12, OpenRow
  <2>2. Ids'
    <3>1. Action.order \in Nat /\ (call'.phase = "applying" => Action'.order \in Nat)
      BY <1>8 DEF ProposedAction
    <3> QED
      BY <2>1, <3>1, <1>1, <1>4, <1>5, <1>8, <1>12, IdsStep
  <2>3. PositionIsExecuted'
    <3>1. PICK m \in Int : m = Direction(record.side) * n
      BY <1>7
    <3>2. Direction(positions[s].side) * positions[s].quantity = m
      BY <3>1, <1>1, <1>2, <1>a DEF Held
    <3>3. executed' = [executed EXCEPT ![s] = @ + (-m)] /\ -m \in Int
      <4>1. executed[s] - m = executed[s] + (-m)
        BY DEF Base, TypeOK
      <4>2. executed' = [executed EXCEPT ![s] = executed[s] - m]
        BY <3>1, <1>6
      <4>3. executed' = [executed EXCEPT ![s] = executed[s] + (-m)]
        BY <4>1, <4>2
      <4> QED
        BY <4>3
    <3>4. Direction(NoPosition.side) * NoPosition.quantity = 0 /\ 0 = m + (-m)
      BY DEF NoPosition, Direction
    <3> QED
      BY <3>2, <3>3, <3>4, <1>1, <1>12, ExecutedStep
  <2>4. Rows'
    <3>1. open_records' = [open_records EXCEPT ![s] =
                             IF closed.status = "open" THEN closed ELSE NoRecord]
      BY <1>1, <1>5
    <3> QED
      BY <2>1, <3>1, <1>1, <1>2, <1>4, <1>5, <1>a, <1>12, RowsStep
  <2>5. Reconciled'
    <3>1. /\ equity' = equity + (Gross(record, n) - ExitFee(record, n))
          /\ call.slice.net = 0 /\ call'.slice.net = 0
      BY <1>6, <1>8 DEF Book, NoRecord
    <3>2. EntryFeeShare(record, n) = record.fee
      BY <1>1, WholeShare DEF OpenRecord, EntryFeeShare
    <3>3. RecordWorth(closed) = Gross(record, n) - record.fee - ExitFee(record, n)
      BY <3>2, <1>4 DEF RecordWorth, Closed, OpenRecord
    <3>4. Gross(record, n) \in Int /\ ExitFee(record, n) \in Int /\ record.fee \in Int
      BY <1>2, <1>3, ClosedType DEF OpenRecord
    <3>5. Gross(record, n) - ExitFee(record, n) + 0 = 0 + RecordWorth(closed) - (-record.fee)
      BY <3>3, <3>4
    <3> QED
      BY <2>1, <3>1, <3>5, <1>1, <1>4, <1>5, <1>6, <1>12, ReconciledStep
  <2> QED
    BY <2>2, <2>3, <2>4, <2>5 DEF Life
<1> QED
  BY <1>11, <1>12

LEMMA SaveSliceStep == ASSUME Base, SaveSlice PROVE Base' /\ (Life => Life')
<1>1. /\ call.phase = "applying" /\ call' = ActionDone
      /\ ledger' = save(ledger, call.slice)
      /\ UNCHANGED <<positions, open_records, equity, windows, current_time, sequence,
                     restarts, executed, booked, planned>>
  BY DEF SaveSlice, Base, Control
<1>2. call.slice \in ClosedRecord /\ call.slice.trade_id = TradeId
  BY DEF SaveSlice, Base, Control, TypeOK, Call
<1>3. PICK slice \in ClosedRecord : slice = call.slice
  BY <1>2
<1>4. /\ call' \in Call /\ Control' /\ call'.slice = NoRecord /\ Action \in ProposedAction
      /\ call'.phase = "applying" =>
            Action' \in ProposedAction /\ Action.order < Action'.order
  BY <1>1, DoneControl
<1>5. Action.order \in Nat /\ (call'.phase = "applying" => Action'.order \in Nat)
  BY <1>4 DEF ProposedAction
<1>6. slice.trade_id = TradeId /\ TradeId \in TradeIds
  BY <1>2, <1>3, <1>5 DEF Base, TypeOK, TradeId, TradeIds
<1>7. TypeOK'
  <2>1. \A t \in DOMAIN ledger' : t \in TradeIds /\ ledger'[t] \in Row
    BY <1>1, <1>3, <1>6, LedgerType
  <2> QED
    BY <2>1, <1>1, <1>4 DEF Base, TypeOK, Row, windows
<1>8. (\A u \in Symbols : Flat(u) \/ Held(u))'
  BY <1>1 DEF Base, Flat, Held
<1>9. Base'
  BY <1>4, <1>7, <1>8 DEF Base
<1>10. ASSUME Life PROVE Life'
  <2>1. TradeId \notin DOMAIN ledger
    BY <1>1, <1>5, <1>10 DEF Life, Ids, TradeId
  <2>2. Ids'
    BY <1>1, <1>3, <1>4, <1>5, <1>6, <1>10, IdsStep
  <2>3. PositionIsExecuted'
    BY <1>1, <1>10 DEF Life, PositionIsExecuted
  <2>4. Rows'
    BY <2>1, <1>1, <1>3, <1>6, <1>10, SliceStep
  <2>5. Reconciled'
    <3>1. /\ RecordWorth(slice) = slice.net /\ slice.net \in Int
          /\ equity \in Int /\ call'.slice.net = 0
      BY <1>4 DEF RecordWorth, ClosedRecord, Base, TypeOK, NoRecord
    <3>2. equity' = equity + 0 /\ 0 + slice.net = 0 + RecordWorth(slice) - 0
      BY <3>1, <1>1
    <3> QED
      BY <2>1, <3>1, <3>2, <1>1, <1>3, <1>6, <1>10, ReconciledStep
  <2> QED
    BY <2>2, <2>3, <2>4, <2>5 DEF Life
<1> QED
  BY <1>9, <1>10

LEMMA ClosePartialStep == ASSUME Base, ClosePartial PROVE Base' /\ (Life => Life')
<1>0. PICK s \in Symbols : s = call.symbol
  BY CloseQuantityFacts DEF ClosePartial
<1>a. PICK record \in OpenRecord : record = open_records[s]
  BY <1>0, CloseQuantityFacts DEF ClosePartial
<1>b. PICK n \in 1 .. record.quantity : n = CloseQuantity(open_records[s])
  BY <1>0, <1>a, CloseQuantityFacts DEF ClosePartial
<1>c. PICK share : share = EntryFeeShare(record, n)
  OBVIOUS
<1> DEFINE rest == [record EXCEPT !.quantity = @ - n, !.fee = @ - share]
           slice == [Closed(record, n) EXCEPT !.trade_id = TradeId]
<1>1. /\ Applying /\ call.phase = "applying" /\ n < record.quantity
      /\ BookClose(record, n)
      /\ call' = [call EXCEPT !.slice = slice]
      /\ positions' = [positions EXCEPT ![s].quantity = record.quantity - n]
      /\ open_records' = [open_records EXCEPT ![s] = rest]
      /\ ledger' = save(ledger, rest)
      /\ UNCHANGED <<last_reset, current_time, sequence, restarts, planned>>
  BY <1>0, <1>a, <1>b, <1>c DEF ClosePartial, Applying, OpenRecord
<1>2. /\ record # NoRecord /\ Held(s) /\ record.quantity <= Depth
      /\ positions[s] \in Position
  BY <1>0, <1>a, OpenFacts DEF ClosePartial
<1>3. /\ call.mark \in Marks /\ call.day \in Days
      /\ record.side \in Sides /\ record.quantity \in Nat /\ record.fee \in Nat
      /\ record.trade_id \in TradeIds /\ record.symbol = s
  BY <1>1, <1>2, <1>a DEF Base, Control, OpenRecord, Held
<1>4. /\ Closed(record, n) \in ClosedRecord /\ share \in 0 .. record.fee
      /\ Gross(record, n) - ExitFee(record, n) \in Int /\ Filled(n) = n
  BY <1>2, <1>3, <1>c, ClosedType
<1>5. /\ rest \in OpenRecord /\ rest # NoRecord /\ rest.status = "open"
      /\ rest.trade_id = record.trade_id /\ rest.symbol = s /\ rest.side = record.side
      /\ rest.entry = record.entry /\ rest.quantity = record.quantity - n
  <2>1. record.quantity - n \in Nat \ {0} /\ record.fee - share \in Nat
    BY <1>1, <1>3, <1>4
  <2>2. rest \in OpenRecord
    BY <2>1 DEF OpenRecord
  <2>3. /\ rest.status = "open" /\ rest.trade_id = record.trade_id
        /\ rest.symbol = record.symbol /\ rest.side = record.side
        /\ rest.entry = record.entry /\ rest.quantity = record.quantity - n
    BY DEF OpenRecord
  <2> QED
    BY <2>2, <2>3, <1>3 DEF NoRecord
<1>6. Action \in ProposedAction /\ sequence \in Nat
  BY <1>1 DEF Base, TypeOK, Call, Applying, Action
<1>7. slice \in ClosedRecord /\ slice.trade_id = TradeId
  <2>1. TradeId \in TradeIds
    BY <1>6 DEF TradeId, TradeIds, ProposedAction
  <2> QED
    BY <2>1, <1>4 DEF ClosedRecord
<1> HIDE DEF rest, slice
<1>8. call' \in Call /\ call'.slice = slice /\ call'.phase = "applying"
      /\ Action' = Action /\ call'.todo = call.todo
      /\ call'.symbol = call.symbol /\ call'.day = call.day /\ call'.mark = call.mark
      /\ call'.approved = call.approved
  BY <1>1, <1>7 DEF Base, TypeOK, Call, Action
<1>9. Control'
  <2>1. TradeId' = TradeId
    BY <1>1, <1>8 DEF TradeId
  <2>2. call'.slice.trade_id = TradeId'
    BY <2>1, <1>7, <1>8
  <2> QED
    BY <2>2, <1>1, <1>8 DEF Base, Control
<1>10. /\ executed' = [executed EXCEPT ![s] = @ - Direction(record.side) * n]
       /\ Book(Gross(record, n) - ExitFee(record, n), call.day)
       /\ Direction(record.side) * n \in Int
  BY <1>0, <1>1, <1>3, <1>4 DEF BookClose, Sides, Direction
<1>11. positions' = [positions EXCEPT ![s] = [positions[s] EXCEPT !.quantity = record.quantity - n]]
       /\ [positions[s] EXCEPT !.quantity = record.quantity - n] \in Position
  BY <1>1, <1>2, <1>3 DEF Position
<1>12. TypeOK'
  <2>1. /\ equity' \in Int /\ pnl' \in [Windows -> Int]
        /\ booked' \in [{q.day : q \in Proposals} -> Int]
    BY <1>3, <1>4, <1>10, BookType DEF Base, Days
  <2>2. \A t \in DOMAIN ledger' : t \in TradeIds /\ ledger'[t] \in Row
    BY <1>1, <1>3, <1>5, LedgerType
  <2>3. executed' \in [Symbols -> Int]
    BY <1>10 DEF Base, TypeOK
  <2>4. /\ positions' \in [Symbols -> {NoPosition} \cup Position]
        /\ open_records' \in [Symbols -> {NoRecord} \cup OpenRecord]
    BY <1>1, <1>5, <1>11 DEF Base, TypeOK
  <2> QED
    BY <2>1, <2>2, <2>3, <2>4, <1>1, <1>8 DEF Base, TypeOK, Row
<1>13. (\A u \in Symbols : Flat(u) \/ Held(u))'
  <2>1. /\ open_records'[s] = rest
        /\ positions'[s].side = record.side /\ positions'[s].entry = record.entry
        /\ positions'[s].quantity = record.quantity - n
        /\ positions'[s] # NoPosition
    BY <1>1, <1>2, <1>3, <1>11, <1>a DEF Base, TypeOK, Held, Position, NoPosition, Sides
  <2>2. Held(s)'
    BY <2>1, <1>1, <1>2, <1>3, <1>5, ParameterAssumption DEF Held
  <2> QED
    BY <2>2, <1>1, <1>11, HoldingsStep
<1>14. Base'
  BY <1>9, <1>12, <1>13 DEF Base
<1>15. ASSUME Life PROVE Life'
  <2>1. /\ record.trade_id \in DOMAIN ledger /\ ledger[record.trade_id].record = record
        /\ RecordWorth(record) = -record.fee
    BY <1>2, <1>a, <1>15, OpenRow
  <2>2. Ids'
    BY <2>1, <1>1, <1>5, <1>8, <1>15, IdsStep
  <2>3. PositionIsExecuted'
    <3>1. PICK m \in Int : m = Direction(record.side) * n
      BY <1>10
    <3>2. Direction(positions[s].side) * positions[s].quantity
             = Direction(record.side) * record.quantity
      BY <1>2, <1>a DEF Held
    <3>3. PICK position \in Position :
             position = [positions[s] EXCEPT !.quantity = record.quantity - n]
      BY <1>11
    <3>4. Direction(position.side) * position.quantity
             = Direction(record.side) * (record.quantity - n)
      BY <3>3, <1>2, <1>a DEF Held, Position
    <3>5. Direction(record.side) * (record.quantity - n)
             = Direction(record.side) * record.quantity + (-m)
      BY <3>1, <1>3 DEF Sides, Direction
    <3>6. executed' = [executed EXCEPT ![s] = @ + (-m)] /\ -m \in Int
      <4>1. executed[s] - m = executed[s] + (-m)
        BY DEF Base, TypeOK
      <4>2. executed' = [executed EXCEPT ![s] = executed[s] - m]
        BY <3>1, <1>10
      <4>3. executed' = [executed EXCEPT ![s] = executed[s] + (-m)]
        BY <4>1, <4>2
      <4> QED
        BY <4>3
    <3> QED
      BY <3>2, <3>3, <3>4, <3>5, <3>6, <1>11, <1>15, ExecutedStep
  <2>4. Rows'
    BY <2>1, <1>1, <1>2, <1>5, <1>a, <1>15, RowsStep
  <2>5. Reconciled'
    <3> DEFINE amount == Gross(record, n) - ExitFee(record, n)
    <3>1. equity' = equity + amount /\ amount \in Int
      BY <1>4, <1>10 DEF Book
    <3>2. call.slice.net = 0 /\ call'.slice.net = slice.net
      BY <1>1, <1>8 DEF Applying, NoRecord
    <3>3. slice.net = Gross(record, n) - share - ExitFee(record, n) /\ slice.net \in Int
      BY <1>4, <1>7, <1>c DEF slice, Closed, OpenRecord, ClosedRecord
    <3>4. RecordWorth(rest) = -(record.fee - share)
      BY DEF RecordWorth, rest, OpenRecord
    <3>5. Gross(record, n) \in Int /\ ExitFee(record, n) \in Int /\ share \in Int
      BY <1>2, <1>3, <1>4, ClosedType
    <3>6. amount + 0 = slice.net + RecordWorth(rest) - (-record.fee)
      BY <3>3, <3>4, <3>5, <1>3
    <3> HIDE DEF amount
    <3> QED
      BY <2>1, <3>1, <3>2, <3>3, <3>6, <1>1, <1>5, <1>15, ReconciledStep
  <2> QED
    BY <2>2, <2>3, <2>4, <2>5 DEF Life
<1> QED
  BY <1>14, <1>15

\* Every step keeps Base, and every step but a restart keeps Life.
LEMMA NextStep == ASSUME Base, [Next]_vars PROVE Base' /\ (MaxRestarts = 0 /\ Life => Life')
<1>1. CASE UNCHANGED vars
  <2>1. Base'
    BY <1>1 DEF Base, vars, TypeOK, Control, TradeId, Action, Flat, Held
  <2>2. Life => Life'
    BY <1>1 DEF Life, vars, TradeId, Action, Ids, PositionIsExecuted, Rows,
                OpenRowsManaged, OpenRows, OpenRecords, Reconciled
  <2> QED
    BY <2>1, <2>2
<1>2. CASE Snapshot
  BY <1>2, SnapshotBase, SnapshotLife
<1>3. CASE Reason
  BY <1>3, ReasonStep
<1>4. CASE StandAside
  BY <1>4, StandAsideStep
<1>5. CASE \E p \in Proposals, mark \in Marks : BracketExit(p, mark)
  BY <1>5, BracketExitStep
<1>6. CASE \E p \in Proposals, mark \in Marks :
             \E approved \in Verdicts(p, call.tripped) : Gate(p, mark, approved)
  BY <1>6, GateStep
<1>7. CASE ApplyNothing
  BY <1>7, ApplyNothingStep
<1>8. CASE Open
  BY <1>8, OpenStep
<1>9. CASE CloseFull
  BY <1>9, CloseFullStep
<1>10. CASE ClosePartial
  BY <1>10, ClosePartialStep
<1>11. CASE SaveSlice
  BY <1>11, SaveSliceStep
<1>12. CASE Settle
  BY <1>12, SettleStep
<1>13. CASE Restart
  <2>1. MaxRestarts # 0
    BY <1>13 DEF Restart, Base, TypeOK
  <2> QED
    BY <2>1, <1>13, RestartStep
<1> QED
  BY <1>1, <1>2, <1>3, <1>4, <1>5, <1>6, <1>7, <1>8, <1>9, <1>10, <1>11, <1>12, <1>13 DEF Next

LEMMA SpecBase == Spec => []Base
<1>1. Base /\ [Next]_vars => Base'
  BY NextStep
<1> QED
  BY <1>1, InitBase, PTL DEF Spec

LEMMA SpecLife == MaxRestarts = 0 /\ Spec => []Life
<1>1. MaxRestarts = 0 /\ Base /\ Life /\ [Next]_vars => Life'
  BY NextStep
<1>2. MaxRestarts = 0 => [](MaxRestarts = 0)
  OBVIOUS
<1> QED
  BY <1>1, <1>2, InitLife, SpecBase, PTL DEF Spec

-----------------------------------------------------------------------------
(* The theorems on types and books; those on the books are about one life  *)
(* of the process (MaxRestarts = 0).                                       *)

\* The simulator's state keeps its types, through any number of restarts.
THEOREM TypeCorrectness == Spec => []TypeOK
<1>1. Base => TypeOK
  BY DEF Base
<1> QED
  BY <1>1, SpecBase, PTL

\* Positions, open records and the ledger's open rows are the same trades.
THEOREM LedgerAgreement == MaxRestarts = 0 /\ Spec => []LedgerAgrees
<1>1. Base /\ Life => LedgerAgrees
  <2> SUFFICES ASSUME Base, Life PROVE LedgerAgrees
    OBVIOUS
  <2>1. \A t \in OpenRows : ledger[t].record \in OpenRecords
    BY DEF Life, Rows, OpenRowsManaged
  <2>2. ASSUME NEW r \in OpenRecords
        PROVE  \E t \in OpenRows : ledger[t].record = r
    <3>1. PICK s \in Symbols : r = open_records[s] /\ open_records[s] # NoRecord
      BY DEF OpenRecords
    <3>2. /\ r.trade_id \in DOMAIN ledger /\ ledger[r.trade_id].record = r
          /\ r.status = "open"
      BY <3>1 DEF Base, Life, Rows, TypeOK, OpenRecord
    <3> QED
      BY <3>2 DEF OpenRows
  <2>3. {ledger[t].record : t \in OpenRows} = OpenRecords
    BY <2>1, <2>2
  <2> QED
    BY <2>3 DEF LedgerAgrees, Base, Flat, Held
<1> QED
  BY <1>1, SpecBase, SpecLife, PTL

\* The position held is the signed sum of what was executed.
THEOREM ExecutionAgreement == MaxRestarts = 0 /\ Spec => []PositionIsExecuted
<1>1. Life => PositionIsExecuted
  BY DEF Life
<1> QED
  BY <1>1, SpecLife, PTL

\* Every unit of equity is accounted for: the sum over the whole ledger, rows
\* closed and open, is what equity has moved by.
THEOREM EquityAccounted == MaxRestarts = 0 /\ Spec => []EquityReconciles
<1>1. LedgerTotal(ledger)
        = MapThenSumSet(LAMBDA t : IF t \in OpenRows THEN -ledger[t].record.fee
                                                     ELSE ledger[t].record.net,
                        DOMAIN ledger)
  BY ZenonT(60) DEF LedgerTotal, SumOver, Worth, RecordWorth, OpenRows, MapThenSumSet, MapThenFoldSet
<1>2. Life => EquityReconciles
  BY <1>1 DEF Life, Reconciled, EquityReconciles
<1> QED
  BY <1>2, SpecLife, PTL

LEMMA ActionType ==
  ASSUME Base, call.phase = "applying"
  PROVE  Action \in ProposedAction /\ Action.order \in Nat
<1>1. call.todo \in Seq(ProposedAction) /\ call.todo # <<>>
  BY DEF Base, TypeOK, Call, Control
<1>2. Action \in ProposedAction
  BY <1>1 DEF Action
<1> QED
  BY <1>2 DEF ProposedAction

\* A saved record replaces no closed row: its id is new, or an open row's.
LEMMA SaveKeepsClosed ==
  ASSUME NEW r, ledger' = save(ledger, r),
         r.trade_id \notin DOMAIN ledger \/ r.trade_id \in OpenRows
  PROVE  \A t \in DOMAIN ledger \ OpenRows : t \in DOMAIN ledger' /\ ledger'[t] = ledger[t]
<1>1. /\ DOMAIN ledger' = DOMAIN ledger \cup {r.trade_id}
      /\ \A t \in DOMAIN ledger : t # r.trade_id => ledger'[t] = ledger[t]
  BY SaveDomain
<1> QED
  BY <1>1

\* The ledger never writes a closed row again.
THEOREM ClosedRowsFinal == MaxRestarts = 0 /\ Spec => ClosedRowsImmutable
<1> DEFINE Kept == \A t \in DOMAIN ledger \ OpenRows :
                     t \in DOMAIN ledger' /\ ledger'[t] = ledger[t]
<1>1. ASSUME MaxRestarts = 0, Base, Life, [Next]_vars PROVE [Kept]_vars
  <2>1. CASE UNCHANGED ledger
    BY <2>1
  <2>2. \A s \in Symbols : open_records[s] # NoRecord =>
           open_records[s] \in OpenRecord /\ open_records[s].trade_id \in OpenRows
    BY <1>1, OpenFacts DEF Life, Rows, OpenRows, OpenRecord
  <2>3. ASSUME NEW p \in Proposals, NEW mark \in Marks, BracketExit(p, mark) PROVE Kept
    <3> DEFINE record == open_records[p.symbol]
               price == Trigger(positions[p.symbol], mark)
               gross == realized_pnl(record.side, record.entry, price, record.quantity)
               fee == taker_fee_rate * price * record.quantity
               net == gross - record.fee - fee
               closed == [record EXCEPT !.status = "closed", !.fee = @ + fee, !.net = net]
    <3>1. record # NoRecord
      BY <1>1, <2>3, ProposalFacts DEF BracketExit, Trigger, Base, Flat, Held
    <3>2. ledger' = save(ledger, closed)
      BY <2>3 DEF BracketExit
    <3>3. record \in OpenRecord /\ record.trade_id \in OpenRows
      BY <2>2, <3>1, ProposalFacts
    <3> HIDE DEF record, fee, net
    <3>4. closed.trade_id = record.trade_id
      BY <3>3 DEF OpenRecord
    <3> HIDE DEF closed
    <3> QED
      BY <3>2, <3>3, <3>4, SaveKeepsClosed, SMTT(30)
  <2>4. ASSUME Applying PROVE TradeId \notin DOMAIN ledger
    <3>1. Action.order \in Nat
      BY <1>1, <2>4, ActionType DEF Applying
    <3> QED
      BY <1>1, <2>4, <3>1 DEF Life, Ids, Applying, TradeId
  <2>5. CASE Open
    <3>1. Applying
      BY <2>5 DEF Open
    <3>2. PICK r : ledger' = save(ledger, r) /\ r.trade_id = TradeId
      BY <2>5 DEF Open
    <3> QED
      BY <3>1, <3>2, <2>4, SaveKeepsClosed
  <2>6. CASE CloseFull
    <3> DEFINE record == open_records[call.symbol]
               closed == Closed(record, CloseQuantity(record))
    <3>1. record \in OpenRecord /\ record.trade_id \in OpenRows
      BY <1>1, <2>2, <2>6, CloseQuantityFacts DEF CloseFull
    <3>2. ledger' = save(ledger, closed)
      BY <2>6 DEF CloseFull
    <3>3. closed.trade_id = record.trade_id
      BY <3>1 DEF Closed, OpenRecord
    <3> HIDE DEF closed
    <3> QED
      BY <3>1, <3>2, <3>3, SaveKeepsClosed
  <2>7. CASE ClosePartial
    <3> DEFINE record == open_records[call.symbol]
               n == CloseQuantity(record)
               rest == [record EXCEPT !.quantity = @ - n, !.fee = @ - EntryFeeShare(record, n)]
    <3>1. record \in OpenRecord /\ record.trade_id \in OpenRows
      BY <1>1, <2>2, <2>7, CloseQuantityFacts DEF ClosePartial
    <3>2. ledger' = save(ledger, rest)
      BY <2>7 DEF ClosePartial
    <3>3. rest.trade_id = record.trade_id
      BY <3>1 DEF OpenRecord
    <3> HIDE DEF rest
    <3> QED
      BY <3>1, <3>2, <3>3, SaveKeepsClosed
  <2>8. CASE SaveSlice
    <3>1. /\ call.phase = "applying" /\ call.slice.trade_id = TradeId
          /\ ledger' = save(ledger, call.slice)
      BY <1>1, <2>8 DEF SaveSlice, Base, Control
    <3>2. Action.order \in Nat
      BY <1>1, <3>1, ActionType
    <3>3. TradeId \notin DOMAIN ledger
      BY <1>1, <3>1, <3>2 DEF Life, Ids, TradeId
    <3> QED
      BY <3>1, <3>3, SaveKeepsClosed
  <2> QED
    BY <1>1, <2>1, <2>3, <2>5, <2>6, <2>7, <2>8
    DEF Next, vars, books, Snapshot, Reason, StandAside, Gate, ApplyNothing, Settle, Restart
<1>2. MaxRestarts = 0 => [](MaxRestarts = 0)
  OBVIOUS
<1> QED
  BY <1>1, <1>2, SpecBase, SpecLife, PTL DEF Spec, ClosedRowsImmutable

-----------------------------------------------------------------------------
(* Brackets and loss windows, through any number of restarts.  The gate    *)
(* judges a proposal by its first action alone, so both need that no entry *)
(* comes after another action: the program's reasoners propose one action  *)
(* at a time.                                                              *)

Limit(w) == IF w = "day" THEN MaxDailyLoss ELSE MaxMonthlyLoss

Untripped == \A w \in Windows : Greater(0, -pnl[w]) < Limit(w)

\* What the gate has seen to be so is still so when the entry is made.
Fenced ==
    /\ call.phase = "reasoned" /\ ~call.tripped => Untripped
    /\ call.phase = "idle" => ~call.tripped
    /\ call.phase = "applying" =>
          \A i \in 2 .. Len(call.todo) : call.todo[i].type \notin EntryTypes
    /\ call.phase = "applying" /\ call.slice = NoRecord /\ Entering =>
          has_bracket(call.plan) /\ Untripped
    /\ EveryPositionProtected

\* A roll leaves a window as it is or empties it.
LEMMA RollUntripped ==
  ASSUME Base, RollWindows
  PROVE  /\ Untripped => Untripped'
         /\ ~Tripped => Untripped'
<1>1. \A w \in Windows : RolledPnl[w] = pnl[w] \/ RolledPnl[w] = 0
  BY DEF RolledPnl
<1>2. /\ pnl' = RolledPnl /\ \A w \in Windows : pnl[w] \in Int
      /\ \A w \in Windows : Limit(w) \in Nat
  BY ParameterAssumption DEF RollWindows, Base, TypeOK, Limit
<1>3. Untripped => Untripped'
  BY <1>1, <1>2 DEF Untripped, Greater
<1>4. ~Tripped => Untripped'
  BY <1>1, <1>2 DEF Untripped, Tripped, Limit, Windows, Greater
<1> QED
  BY <1>3, <1>4

\* The action after the one that is done is no entry.
LEMMA NextIsNoEntry ==
  ASSUME Base, Fenced, call.phase = "applying", call' = ActionDone
  PROVE  /\ call'.phase # "reasoned" /\ (call'.phase = "idle" => ~call'.tripped)
         /\ call'.phase = "applying" =>
              /\ \A i \in 2 .. Len(call'.todo) : call'.todo[i].type \notin EntryTypes
              /\ ~Entering'
<1>1. call.todo \in Seq(ProposedAction) /\ call.todo # <<>>
  BY DEF Base, TypeOK, Call, Control
<1>2. CASE Tail(call.todo) = <<>>
  BY <1>2 DEF ActionDone, Finished, Idle
<1>3. CASE Tail(call.todo) # <<>>
  <2>1. call' = [call EXCEPT !.todo = Tail(call.todo), !.slice = NoRecord]
    BY <1>3 DEF ActionDone
  <2>2. call'.todo = Tail(call.todo) /\ call'.phase = "applying"
    BY <2>1 DEF Base, TypeOK, Call
  <2>3. /\ Len(call'.todo) = Len(call.todo) - 1 /\ Len(call'.todo) >= 1
        /\ \A i \in 1 .. Len(call'.todo) : call'.todo[i] = call.todo[i + 1]
    BY <1>1, <1>3, <2>2
  <2>4. \A i \in 1 .. Len(call'.todo) : call'.todo[i].type \notin EntryTypes
    <3> SUFFICES ASSUME NEW i \in 1 .. Len(call'.todo)
                 PROVE  call'.todo[i].type \notin EntryTypes
      OBVIOUS
    <3>1. i + 1 \in 2 .. Len(call.todo)
      BY <1>1, <2>3
    <3> QED
      BY <3>1, <2>3 DEF Fenced
  <2>5. Head(call'.todo) = call'.todo[1] /\ 1 \in 1 .. Len(call'.todo)
    BY <1>1, <2>2, <2>3
  <2>6. ~Entering'
    BY <2>4, <2>5 DEF Entering, Action, EntryTypes
  <2>7. \A i \in 2 .. Len(call'.todo) : i \in 1 .. Len(call'.todo)
    BY <1>1, <2>2
  <2> QED
    BY <2>2, <2>4, <2>6, <2>7
<1> QED
  BY <1>2, <1>3

\* A step that opens nothing and keeps the levels of what is left keeps the
\* positions protected.
LEMMA ProtectionStep ==
  ASSUME EveryPositionProtected,
         \A s \in Symbols :
            \/ positions'[s] = NoPosition
            \/ /\ positions[s] # NoPosition
               /\ positions'[s].side = positions[s].side
               /\ positions'[s].entry = positions[s].entry
               /\ positions'[s].stop = positions[s].stop
               /\ positions'[s].target = positions[s].target
               /\ planned'[s] = planned[s]
  PROVE  EveryPositionProtected'
  BY DEF EveryPositionProtected

LEMMA InitFenced == Init => Fenced
  BY DEF Init, Fenced, Idle, EveryPositionProtected

LEMMA GateFenced ==
  ASSUME EntriesFirst, Base, Fenced, NEW p \in Proposals, NEW mark \in Marks,
         NEW approved \in Verdicts(p, call.tripped), Gate(p, mark, approved)
  PROVE  Fenced'
<1>1. EveryPositionProtected'
  BY DEF Gate, books, Fenced, EveryPositionProtected
<1>2. CASE approved = Rejected
  BY <1>1, <1>2 DEF Gate, Finished, Idle, Fenced
<1>3. CASE approved # Rejected
  <2>1. /\ call'.phase = "applying" /\ call'.todo = p.actions
        /\ call'.plan = p.plan /\ UNCHANGED pnl
    BY <1>3 DEF Gate, windows
  <2>2. \A i \in 2 .. Len(call'.todo) : call'.todo[i].type \notin EntryTypes
    BY <2>1 DEF EntriesFirst
  <2>3. Head(p.actions) = p.actions[1]
    BY ProposalFacts
  <2>4. ASSUME Entering' PROVE has_bracket(call'.plan) /\ Untripped'
    <3>1. ~Safe(p)
      BY <2>1, <2>3, <2>4 DEF Entering, Action, Safe, EntryTypes
    <3>2. ~call.tripped /\ has_bracket(p.plan)
      BY <3>1, <1>3 DEF Verdicts
    <3>3. call.phase = "reasoned"
      BY <3>1 DEF Gate, EnterProcess, MayProcess, Safe
    <3> QED
      BY <2>1, <3>2, <3>3 DEF Fenced, Untripped
  <2> QED
    BY <1>1, <2>1, <2>2, <2>4 DEF Fenced
<1> QED
  BY <1>2, <1>3

LEMMA OpenFenced == ASSUME Base, Fenced, Open PROVE Fenced'
<1>0. PICK s \in Symbols : s = call.symbol
  BY DEF Base, Control, Open, Applying
<1>1. /\ call.phase = "applying" /\ call.slice = NoRecord /\ Entering
      /\ call' = ActionDone /\ has_bracket(call.plan) /\ call.mark \in Marks
      /\ call.plan \in PreTradePlan
  BY DEF Open, Applying, Fenced, Base, Control, TypeOK, Call
<1> DEFINE side == IF Action.type = "enter_long" THEN "buy" ELSE "sell"
           price == FillPrice(side, call.mark)
<1>2. price \in Nat /\ side \in Sides
  BY <1>1, PriceType DEF Sides
<1> DEFINE position == [side |-> side, quantity |-> Filled(Size), entry |-> price,
                        stop |-> Bracket(side, price).stop,
                        target |-> Bracket(side, price).target]
<1>3. /\ positions' = [positions EXCEPT ![s] = position]
      /\ planned' = [planned EXCEPT ![s] = call.plan]
      /\ position.side = side /\ position.entry = price
      /\ position.stop = Bracket(side, price).stop
      /\ position.target = Bracket(side, price).target
  BY <1>0 DEF Open
<1> HIDE DEF side, price, position
<1>4. /\ AsPlanned(position.stop, call.plan.stop, price, -Direction(side))
      /\ AsPlanned(position.target, call.plan.target, price, Direction(side))
  BY <1>1, <1>2, <1>3 DEF Bracket, Level, AsPlanned, PreTradePlan, StopLevel, Direction, Sides
<1>5. EveryPositionProtected'
  <2> SUFFICES ASSUME NEW u \in Symbols, positions'[u] # NoPosition
               PROVE  LET p    == positions'[u]
                          plan == planned'[u]
                          sign == Direction(p.side)
                      IN  /\ has_bracket(plan)
                          /\ AsPlanned(p.stop, plan.stop, p.entry, -sign)
                          /\ AsPlanned(p.target, plan.target, p.entry, sign)
    BY DEF EveryPositionProtected
  <2>1. CASE u = s
    BY <2>1, <1>1, <1>3, <1>4 DEF Base, TypeOK
  <2>2. CASE u # s
    <3>1. positions'[u] = positions[u] /\ planned'[u] = planned[u]
      BY <2>2, <1>3 DEF Base, TypeOK
    <3> QED
      BY <3>1 DEF Fenced, EveryPositionProtected
  <2> QED
    BY <2>1, <2>2
<1> QED
  BY <1>1, <1>5, NextIsNoEntry DEF Fenced

LEMMA ClosePartialFenced == ASSUME Base, Fenced, ClosePartial PROVE Fenced'
<1> DEFINE slice == [Closed(open_records[call.symbol],
                            CloseQuantity(open_records[call.symbol])) EXCEPT !.trade_id = TradeId]
<1>1. call.phase = "applying" /\ ~Entering /\ call.symbol \in Symbols
  BY DEF ClosePartial, Applying, Closing, Entering, EntryTypes, Base, Control
<1>2. call' = [call EXCEPT !.slice = slice]
  BY DEF ClosePartial
<1> HIDE DEF slice
<1>3. call'.phase = "applying" /\ call'.todo = call.todo
  BY <1>1, <1>2 DEF Base, TypeOK, Call
<1>4. ~Entering'
  BY <1>1, <1>3 DEF Entering, Action
<1>5. open_records[call.symbol] # NoRecord
  BY DEF ClosePartial
<1>6. positions[call.symbol] \in Position /\ positions[call.symbol] # NoPosition
  BY <1>1, <1>5, OpenFacts DEF Held
<1>7. PICK q : positions' = [positions EXCEPT ![call.symbol] =
                                [positions[call.symbol] EXCEPT !.quantity = q]]
  BY DEF ClosePartial
<1>8. \A s \in Symbols :
         \/ positions'[s] = NoPosition
         \/ /\ positions[s] # NoPosition
            /\ positions'[s].side = positions[s].side
            /\ positions'[s].entry = positions[s].entry
            /\ positions'[s].stop = positions[s].stop
            /\ positions'[s].target = positions[s].target
            /\ planned'[s] = planned[s]
  BY <1>6, <1>7 DEF ClosePartial, Base, TypeOK, Position
<1> QED
  BY <1>1, <1>3, <1>4, <1>8, ProtectionStep DEF Fenced

LEMMA NextFenced == EntriesFirst /\ Base /\ Fenced /\ [Next]_vars => Fenced'
<1> SUFFICES ASSUME EntriesFirst, Base, Fenced, [Next]_vars PROVE Fenced'
  OBVIOUS
<1> DEFINE Kept == \A s \in Symbols :
                      \/ positions'[s] = positions[s] /\ planned'[s] = planned[s]
                      \/ positions'[s] = NoPosition
<1>0. ASSUME Kept PROVE EveryPositionProtected'
  BY <1>0 DEF Fenced, EveryPositionProtected
<1>1. CASE UNCHANGED vars
  BY <1>1 DEF Fenced, vars, Untripped, Entering, Action, EveryPositionProtected
<1>2. CASE Snapshot
  <2>1. (Untripped => Untripped') /\ UNCHANGED <<positions, planned, call>>
    BY <1>2, RollUntripped DEF Snapshot, books
  <2> QED
    BY <2>1 DEF Fenced, Entering, Action, EveryPositionProtected
<1>3. CASE Reason
  <2>1. /\ ~Tripped => Untripped'
        /\ call'.phase = "reasoned" /\ call'.tripped = Tripped
        /\ UNCHANGED <<positions, planned>>
    BY <1>3, RollUntripped DEF Reason, Idle, books
  <2> QED
    BY <2>1 DEF Fenced, EveryPositionProtected
<1>4. CASE StandAside
  BY <1>4, <1>0 DEF StandAside, books, Idle, Fenced
<1>5. ASSUME NEW p \in Proposals, NEW mark \in Marks, BracketExit(p, mark) PROVE Fenced'
  <2>1. call'.phase \in {"idle", "settling"} /\ ~call'.tripped
    BY <1>5 DEF BracketExit, Finished, Idle
  <2>2. Kept
    BY <1>5 DEF BracketExit, Base, TypeOK
  <2> QED
    BY <2>1, <2>2, <1>0 DEF Fenced
<1>6. CASE \E p \in Proposals, mark \in Marks :
             \E approved \in Verdicts(p, call.tripped) : Gate(p, mark, approved)
  BY <1>6, GateFenced
<1>7. CASE ApplyNothing
  <2>1. call.phase = "applying" /\ call' = ActionDone /\ Kept
    BY <1>7 DEF ApplyNothing, Applying, books
  <2> QED
    BY <2>1, <1>0, NextIsNoEntry DEF Fenced
<1>8. CASE Open
  BY <1>8, OpenFenced
<1>9. CASE CloseFull
  <2>1. call.phase = "applying" /\ call' = ActionDone /\ Kept
    BY <1>9 DEF CloseFull, Applying, Base, TypeOK
  <2> QED
    BY <2>1, <1>0, NextIsNoEntry DEF Fenced
<1>10. CASE ClosePartial
  BY <1>10, ClosePartialFenced
<1>11. CASE SaveSlice
  <2>1. call.phase = "applying" /\ call' = ActionDone /\ Kept
    BY <1>11 DEF SaveSlice, Base, Control
  <2> QED
    BY <2>1, <1>0, NextIsNoEntry DEF Fenced
<1>12. CASE Settle
  BY <1>12, <1>0 DEF Settle, books, Idle, Fenced
<1>13. CASE Restart
  BY <1>13, <1>0 DEF Restart, Idle, Fenced
<1> QED
  BY <1>1, <1>2, <1>3, <1>4, <1>5, <1>6, <1>7, <1>8, <1>9, <1>10, <1>11, <1>12, <1>13 DEF Next

LEMMA SpecFenced == EntriesFirst /\ Spec => []Fenced
<1>1. EntriesFirst => []EntriesFirst
  OBVIOUS
<1> QED
  BY <1>1, InitFenced, NextFenced, SpecBase, PTL DEF Spec

\* No position is ever without the stop and the target of the plan it was opened
\* by, at the plan's prices or distances, whatever that plan is, whatever part of
\* the position was closed and however often the process restarts.
THEOREM PositionsProtected == EntriesFirst /\ Spec => []EveryPositionProtected
<1>1. Fenced => EveryPositionProtected
  BY DEF Fenced
<1> QED
  BY <1>1, SpecFenced, PTL

\* Equity and windows move together: every step books the same amount in each.
LEMMA WindowStep ==
  ASSUME Base, [Next]_vars, NEW w \in Windows,
         last_reset'[w] = last_reset[w], restarts' = restarts
  PROVE  pnl'[w] - pnl[w] = equity' - equity
<1>1. pnl[w] \in Int /\ equity \in Int
  BY DEF Base, TypeOK
<1>2. ASSUME UNCHANGED <<pnl, equity>> PROVE pnl'[w] - pnl[w] = equity' - equity
  BY <1>1, <1>2
<1>3. ASSUME RollWindows, UNCHANGED equity PROVE pnl'[w] - pnl[w] = equity' - equity
  <2>1. pnl'[w] = pnl[w]
    BY <1>3 DEF RollWindows, RolledPnl, RolledReset
  <2> QED
    BY <2>1, <1>1, <1>3
<1>4. ASSUME NEW amount \in Int, NEW day, Book(amount, day)
      PROVE  pnl'[w] - pnl[w] = equity' - equity
  <2>1. pnl'[w] = pnl[w] + amount /\ equity' = equity + amount
    BY <1>4 DEF Book
  <2> QED
    BY <2>1, <1>1
<1>5. ASSUME NEW p \in Proposals, NEW mark \in Marks, BracketExit(p, mark)
      PROVE  pnl'[w] - pnl[w] = equity' - equity
  <2> DEFINE record == open_records[p.symbol]
             price == Trigger(positions[p.symbol], mark)
             amount == realized_pnl(record.side, record.entry, price, record.quantity)
                       - taker_fee_rate * price * record.quantity
  <2>1. p.symbol \in Symbols /\ positions[p.symbol] # NoPosition
    BY <1>5, ProposalFacts DEF BracketExit, Trigger
  <2>2. record # NoRecord
    BY <2>1 DEF Base, Flat, Held
  <2>3. record \in OpenRecord /\ positions[p.symbol] \in Position
    BY <2>1, <2>2, OpenFacts
  <2>4. price \in Nat
    BY <2>3, TriggerType
  <2>5. /\ realized_pnl(record.side, record.entry, price, record.quantity) \in Int
        /\ taker_fee_rate * price * record.quantity \in Nat
    BY <2>3, <2>4, PnlType, FeeType, ParameterAssumption DEF OpenRecord
  <2>6. amount \in Int /\ Book(amount, p.day)
    BY <1>5, <2>5 DEF BracketExit
  <2> HIDE DEF amount
  <2> QED
    BY <2>6, <1>4, SMTT(30)
<1>6. CASE Open
  <2> DEFINE side == IF Action.type = "enter_long" THEN "buy" ELSE "sell"
             fee == gateway_fee_rate * FillPrice(side, call.mark) * Filled(Size)
  <2>1. Applying /\ call.mark \in Marks /\ side \in Sides /\ call.approved # 0
    BY <1>6 DEF Open, Applying, Base, Control, Sides
  <2>2. Action.size \in Nat /\ call.approved \in Int /\ call.approved >= Unlimited
    <3>1. Action.size \in Nat
      BY <2>1, ActionType, ParameterAssumption DEF Applying, ProposedAction
    <3>2. call.approved \in Int /\ call.approved >= Unlimited
      BY <2>1 DEF Applying, Base, TypeOK, Call, Control
    <3> QED
      BY <3>1, <3>2
  <2>3. Filled(Size) \in Nat
    BY <2>1, <2>2, ParameterAssumption DEF Filled, Size, Lesser, Unlimited
  <2>4. fee \in Nat
    BY <2>1, <2>3, PriceType, FeeType, ParameterAssumption
  <2>5. Book(-fee, call.day)
    BY <1>6 DEF Open
  <2> HIDE DEF fee
  <2>6. -fee \in Int
    BY <2>4
  <2> QED
    BY <2>5, <2>6, <1>4
<1>7. CASE CloseFull \/ ClosePartial
  <2> DEFINE record == open_records[call.symbol]
             n == CloseQuantity(record)
             amount == Gross(record, n) - ExitFee(record, n)
  <2>1. /\ call.symbol \in Symbols /\ call.mark \in Marks /\ record \in OpenRecord
        /\ n \in 1 .. record.quantity /\ record # NoRecord
    BY <1>7, CloseQuantityFacts DEF CloseFull, ClosePartial
  <2>2. amount \in Int
    BY <2>1, OpenFacts, ClosedType
  <2>3. Book(amount, call.day)
    BY <1>7 DEF CloseFull, ClosePartial, BookClose
  <2> HIDE DEF amount
  <2> QED
    BY <2>2, <2>3, <1>4
<1>8. CASE Restart
  BY <1>8, SMTT(30) DEF Restart, Base, TypeOK
<1> QED
  BY <1>2, <1>3, <1>5, <1>6, <1>7, <1>8
  DEF Next, vars, windows, Snapshot, Reason, StandAside, Gate, ApplyNothing, SaveSlice, Settle

\* Only an entry the gate has sized opens a position.
LEMMA OnlyOpenOpens ==
  ASSUME Base, [Next]_vars, NEW s \in Symbols, Opens(s)
  PROVE  Open
<1>1. positions[s] = NoPosition /\ positions'[s] # NoPosition
  BY DEF Opens
<1>2. ~ClosePartial
  <2> SUFFICES ASSUME ClosePartial PROVE FALSE
    OBVIOUS
  <2>1. call.symbol \in Symbols /\ open_records[call.symbol] # NoRecord
    BY DEF ClosePartial, Applying, Base, Control
  <2>2. positions[call.symbol] # NoPosition
    BY <2>1, OpenFacts DEF Held
  <2>3. positions'[s] = positions[s]
    BY <1>1, <2>2 DEF ClosePartial, Base, TypeOK
  <2> QED
    BY <1>1, <2>3
<1> QED
  BY <1>1, <1>2
  DEF Next, vars, books, Snapshot, Reason, StandAside, BracketExit, Gate, ApplyNothing,
      CloseFull, SaveSlice, Settle, Restart, Base, TypeOK

\* The loss windows count every result between two resets, and nothing is
\* opened while one of them stands at its limit, although the gate judges by
\* a context taken before the call and snapshots may roll the windows since.
THEOREM LossWindows == EntriesFirst /\ Spec => LossWindowsHold
<1>1. ASSUME Base, Fenced, [Next]_vars
      PROVE  (\E s \in Symbols : Opens(s)) =>
                -pnl["day"] < MaxDailyLoss /\ -pnl["month"] < MaxMonthlyLoss
  <2> SUFFICES ASSUME NEW s \in Symbols, Opens(s)
               PROVE  -pnl["day"] < MaxDailyLoss /\ -pnl["month"] < MaxMonthlyLoss
    OBVIOUS
  <2>1. Open
    BY <1>1, OnlyOpenOpens
  <2>2. Untripped
    BY <1>1, <2>1 DEF Open, Applying, Fenced
  <2>3. \A w \in Windows : pnl[w] \in Int
    BY <1>1 DEF Base, TypeOK
  <2> QED
    BY <2>2, <2>3, ParameterAssumption DEF Untripped, Limit, Windows, Greater
<1>2. EntriesFirst /\ Spec => NoOpenAtLimit
  BY <1>1, SpecBase, SpecFenced, PTL DEF Spec, NoOpenAtLimit
<1>3. ASSUME Base, [Next]_vars
      PROVE  \A w \in Windows :
                last_reset'[w] = last_reset[w] /\ restarts' = restarts =>
                   pnl'[w] - pnl[w] = equity' - equity
  BY <1>3, WindowStep
<1>4. Spec => WindowFollowsEquity
  BY <1>3, SpecBase, PTL DEF Spec, WindowFollowsEquity
<1> QED
  BY <1>2, <1>4 DEF LossWindowsHold
=============================================================================
