------------------------------ MODULE Learning ------------------------------
(***************************************************************************)
(* What the system learns from closed trades: reflection writes them to    *)
(* episodic memory, and the edge estimated from memory goes to the risk    *)
(* gate.  Only a full close by the pipeline is followed by a reflection;   *)
(* the slices of a scale-out and the operator's closes are not.  A         *)
(* reflection may fail; it is logged and the trading goes on, and a later  *)
(* one goes over the recent trades again.  After a restart the simulator   *)
(* has forgotten its open trades and numbers its trades from the first     *)
(* again, so that a row of the ledger may be written over.                 *)
(***************************************************************************)
EXTENDS Integers, FiniteSets, Sequences

CONSTANTS
    Symbols,
    MaxTrades, MaxId, MaxRestarts,  \* bounds on the trades opened, their ids, and restarts
    ReflectLimit, RecallLimit, MinOutcomes,
    Outcomes                \* realised results of a trade: signs suffice

ASSUME LearningAssumption ==
    /\ ReflectLimit \in Nat \ {0} /\ RecallLimit \in Nat \ {0} /\ MinOutcomes \in Nat \ {0}
    /\ MaxTrades \in Nat /\ MaxId \in Nat /\ Outcomes \subseteq Int /\ 0 \in Outcomes

TradeIds == 1 .. MaxId

\* The payload of a row.  Openings are counted, which stands for opened_at.
TradeRow == [symbol : Symbols, opened : 1 .. MaxTrades, status : {"open", "closed"}, pnl : Outcomes]
NoRow == [status |-> "none"]

\* memory_episodes: the id it has from its trade, when that was opened, its result.
MemoryEpisode == [id : TradeIds, symbol : Symbols, opened : 1 .. MaxTrades, pnl : Outcomes]

VARIABLES
    trade_ledger,   \* the row of each trade id
    listed,         \* the ids under each symbol column, in the order of insertion
    open_records,   \* of the simulator: the id of its row, or 0
    sequence,       \* the number its last id was made from
    openings, restarts,
    memory,         \* rows of memory_episodes
    edge,           \* the gate's estimates, in memory: << >> or <<[wins, losses]>>
    results,        \* history: every result that was booked
    current         \* no row under the symbol closed since its last whole reflection

learningVars ==
    <<trade_ledger, listed, open_records, sequence, openings, restarts, memory, edge, results, current>>

LearningInit ==
    /\ trade_ledger = [id \in TradeIds |-> NoRow] /\ listed = [s \in Symbols |-> << >>]
    /\ open_records = [s \in Symbols |-> 0] /\ sequence = 0 /\ openings = 0 /\ restarts = 0
    /\ memory = << >> /\ edge = [s \in Symbols |-> << >>]
    /\ results = {} /\ current = [s \in Symbols |-> TRUE]

\* ON CONFLICT(trade_id) DO UPDATE: the payload is new, the symbol and the
\* opened_at columns are those of the first insertion.
SaveTrade(id, t) ==
    /\ trade_ledger' = [trade_ledger EXCEPT ![id] = t]
    /\ listed' = IF trade_ledger[id] = NoRow THEN [listed EXCEPT ![t.symbol] = Append(@, id)] ELSE listed

OpenTrade(s, id) ==
    /\ open_records[s] = 0 /\ id > sequence /\ openings < MaxTrades
    /\ SaveTrade(id, [symbol |-> s, opened |-> openings + 1, status |-> "open", pnl |-> 0])
    /\ open_records' = [open_records EXCEPT ![s] = id] /\ sequence' = id /\ openings' = openings + 1
    /\ UNCHANGED <<restarts, memory, edge, results, current>>

\* A closed row is saved: all of the trade under its own id, or a slice.
Booked(s, id, pnl) ==
    LET opened == trade_ledger[open_records[s]].opened
    IN  /\ SaveTrade(id, [symbol |-> s, opened |-> opened, status |-> "closed", pnl |-> pnl])
        /\ results' = results \cup {[id |-> id, symbol |-> s, opened |-> opened, pnl |-> pnl]}

\* Those under whose column the row is not.
Untouched(id) == [s \in Symbols |-> current[s] /\ \A k \in DOMAIN listed'[s] : listed'[s][k] # id]

\* A scale-out: the rest stays open in its row, and no reflection follows.
CloseSlice(s, id, pnl) ==
    /\ open_records[s] # 0 /\ id > sequence
    /\ Booked(s, id, pnl)
    /\ sequence' = id /\ current' = Untouched(id)
    /\ UNCHANGED <<open_records, openings, restarts, memory, edge>>

\* The operator closes, or the proposal that closes also opens: no reflection.
CloseUnseen(s, pnl) ==
    /\ open_records[s] # 0
    /\ Booked(s, open_records[s], pnl)
    /\ open_records' = [open_records EXCEPT ![s] = 0] /\ current' = Untouched(open_records[s])
    /\ UNCHANGED <<sequence, openings, restarts, memory, edge>>

\* find_recent: the last places of a column.
Latest(n, limit) == {k \in 1 .. n : k > n - limit}

\* A mutant of Record: no row is refused.
Record_Twice(rows, id) ==
    LET t == trade_ledger'[id]
    IN  Append(rows, [id |-> id, symbol |-> t.symbol, opened |-> t.opened, pnl |-> t.pnl])

\* ON CONFLICT(episode_id) DO NOTHING
Record(rows, id) ==
    LET t == trade_ledger'[id]
    IN  IF \E i \in DOMAIN rows : rows[i].id = id THEN rows
        ELSE Append(rows, [id |-> id, symbol |-> t.symbol, opened |-> t.opened, pnl |-> t.pnl])

\* ReflectionService.reflect over the closed trades among the last of the column;
\* when the store fails, those before the place "until" are recorded.
Reflected(s, until) ==
    LET n == Len(listed'[s])
        Due == {k \in Latest(n, ReflectLimit) : trade_ledger'[listed'[s][k]].status = "closed" /\ k < until}
        upto[k \in 0 .. n] ==
            IF k = 0 THEN memory
            ELSE IF k \in Due THEN Record(upto[k - 1], listed'[s][k]) ELSE upto[k - 1]
    IN  upto[n]

\* Row j comes before row i in a recall: opened later, or inserted later.
Sooner(rows, j, i) ==
    rows[j].opened > rows[i].opened \/ (rows[j].opened = rows[i].opened /\ j > i)

\* recall: the latest episodes of a symbol.
Recalled(rows, s) ==
    LET Of == {i \in DOMAIN rows : rows[i].symbol = s}
    IN  {i \in Of : Cardinality({j \in Of : Sooner(rows, j, i)}) < RecallLimit}

\* A mutant of estimate_edge: flat trades count as losses.
estimate_edge_Flat(rows, s) ==
    LET wins == Cardinality({i \in Recalled(rows, s) : rows[i].pnl > 0})
        losses == Cardinality({i \in Recalled(rows, s) : rows[i].pnl <= 0})
    IN  IF wins + losses < MinOutcomes THEN << >> ELSE <<[wins |-> wins, losses |-> losses]>>

\* No estimate below the least number of outcomes.
estimate_edge(rows, s) ==
    LET wins == Cardinality({i \in Recalled(rows, s) : rows[i].pnl > 0})
        losses == Cardinality({i \in Recalled(rows, s) : rows[i].pnl < 0})
    IN  IF wins + losses < MinOutcomes THEN << >> ELSE <<[wins |-> wins, losses |-> losses]>>

\* The trade closes; the pipeline reflects, whole or not, and then feeds the gate.
CloseTrade(s, pnl) ==
    /\ open_records[s] # 0
    /\ Booked(s, open_records[s], pnl)
    /\ open_records' = [open_records EXCEPT ![s] = 0]
    /\ \E until \in 1 .. Len(listed'[s]) + 1 :
          /\ memory' = Reflected(s, until)
          /\ current' = [Untouched(open_records[s]) EXCEPT ![s] = (until = Len(listed'[s]) + 1)]
    /\ edge' = IF estimate_edge(memory', s) = << >> THEN edge
               ELSE [edge EXCEPT ![s] = estimate_edge(memory', s)]
    /\ UNCHANGED <<sequence, openings, restarts>>

\* Simulator and gate are built anew; the rows stay, those of trades that were
\* open too.
Restart ==
    /\ restarts < MaxRestarts /\ restarts' = restarts + 1
    /\ open_records' = [s \in Symbols |-> 0] /\ sequence' = 0 /\ edge' = [s \in Symbols |-> << >>]
    /\ UNCHANGED <<trade_ledger, listed, openings, memory, results, current>>

LearningStep ==
    \/ \E s \in Symbols, id \in TradeIds : OpenTrade(s, id)
    \/ \E s \in Symbols, id \in TradeIds, pnl \in Outcomes : CloseSlice(s, id, pnl)
    \/ \E s \in Symbols, pnl \in Outcomes : CloseUnseen(s, pnl) \/ CloseTrade(s, pnl)
    \/ Restart

-----------------------------------------------------------------------------
Wins(s) == Cardinality({r \in results : r.symbol = s /\ r.pnl > 0})
Losses(s) == Cardinality({r \in results : r.symbol = s /\ r.pnl < 0})

\* Memory holds outcomes: every episode is a result that was booked under its id,
\* no id has two, and an id that was used once has the result of its row; after a
\* whole reflection no recent closed row of the symbol is without an episode until
\* another one closes; and the gate's estimate never counts more wins or losses
\* than were booked (reflection_service.py:70, decision_pipeline_service.py:300).
LearningIsEvidence ==
    /\ \A i, j \in DOMAIN memory :
          /\ memory[i] \in results
          /\ i # j => memory[i].id # memory[j].id
    /\ \A i \in DOMAIN memory : LET row == trade_ledger[memory[i].id]
          IN  (\A r \in results : r.id = memory[i].id => r = memory[i]) =>
                  \/ row.status = "open" /\ row.opened # memory[i].opened
                  \/ row.status = "closed" /\ row.pnl = memory[i].pnl
    /\ \A s \in Symbols :
          /\ current[s] => \A k \in Latest(Len(listed[s]), ReflectLimit) :
                trade_ledger[listed[s][k]].status = "closed" =>
                    \E i \in DOMAIN memory : memory[i].id = listed[s][k]
          /\ edge[s] # << >> =>
                /\ edge[s][1].wins <= Wins(s) /\ edge[s][1].losses <= Losses(s)
                /\ edge[s][1].wins + edge[s][1].losses \in MinOutcomes .. RecallLimit
=============================================================================
