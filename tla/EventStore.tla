----------------------------- MODULE EventStore -----------------------------
(***************************************************************************)
(* What EnhancedEventBus keeps, and what is published again from it:       *)
(*   the queue of the batch writer and the table normalized_events         *)
(*     (infrastructure/data_fabric/event_bus.py),                          *)
(*   the sessions of ReplayManager over one ReplayEngine (replay.py).      *)
(* Publishing is one step here; what waits for a full queue is in          *)
(* DataFabric.                                                             *)
(***************************************************************************)
EXTENDS Integers, FiniteSets, SequencesExt

CONSTANTS
    Feeds,          \* sources of the published events
    OldRows,        \* rows an earlier process left, as numbers by feed
    Sessions,       \* replay sessions
    MaxNumber,      \* bound on the events of one source
    MaxBatch        \* rows per flush of the writer: 100

ASSUME StoreAssumption ==
    /\ MaxNumber \in Nat /\ MaxBatch \in Nat \ {0}
    /\ OldRows \subseteq Feeds /\ IsFiniteSet(OldRows)

\* The event_id of a replayed row is "replay_" and the id of its original; an
\* enriched news event keeps the id of the event it was made from.
Edition == {"original", "enriched"}
Row == [feed : Feeds, n : Nat, replay : BOOLEAN, version : Edition]
Original(f, n) == [feed |-> f, n |-> n, replay |-> FALSE, version |-> "original"]

VARIABLES
    number,         \* number of the next event of a feed
    persist_queue,
    batch,          \* rows the writer has taken and not yet flushed
    stored,         \* normalized_events
    snapshots,         \* feeds with a HealthSnapshot
    session,        \* replay sessions
    replaying,        \* ReplayEngine._running
    disturbed       \* history: sessions that were cancelled or ran beside another

events == <<number, persist_queue, snapshots>>
replays == <<session, replaying, disturbed>>
storeVars == <<events, batch, stored, replays>>

NoSession == [status |-> "pending", rows |-> << >>, delayed |-> << >>, replayed |-> 0, total |-> 0]

StoreInit ==
    /\ number = [f \in Feeds |-> 1]
    /\ persist_queue = << >>
    /\ batch = << >>
    /\ stored = {Original(f, 0) : f \in OldRows}
    /\ snapshots = {}
    /\ session = [i \in Sessions |-> NoSession]
    /\ replaying = FALSE
    /\ disturbed = {}

-----------------------------------------------------------------------------
(* Publishing and the writer.                                              *)

\* publish: statistics, then the writer's queue, which is unbounded.
Published(rows) ==
    /\ snapshots' = snapshots \cup {r.feed : r \in Range(rows)}
    /\ persist_queue' = persist_queue \o rows

\* A live event; the enriched copy of a news event follows it, or overtakes it
\* when the publisher of the original waited longer for a subscriber.
PublishLive(f, rows) ==
    /\ number[f] <= MaxNumber
    /\ LET e == Original(f, number[f])
           better == [e EXCEPT !.version = "enriched"]
       IN  rows \in {<<e>>, <<e, better>>, <<better, e>>}
    /\ number' = [number EXCEPT ![f] = @ + 1]
    /\ Published(rows)
    /\ UNCHANGED <<batch, stored, replays>>

\* Every 50 ms: at most MaxBatch rows.
TakeBatch ==
    /\ batch = << >> /\ persist_queue # << >>
    /\ LET k == Min({MaxBatch, Len(persist_queue)})
       IN  /\ batch' = SubSeq(persist_queue, 1, k)
           /\ persist_queue' = SubSeq(persist_queue, k + 1, Len(persist_queue))
    /\ UNCHANGED <<number, snapshots, stored, replays>>

SameId(r, t) == r.feed = t.feed /\ r.n = t.n /\ r.replay = t.replay

\* A mutant of Replaced: rows are only inserted.
Replaced_InsertOnly(rows, b) == rows \cup Range(b)

\* INSERT OR REPLACE of a batch: the last row of an id stays.
Replaced(rows, b) ==
    {r \in rows : ~\E i \in DOMAIN b : SameId(r, b[i])}
    \cup {b[i] : i \in {j \in DOMAIN b : ~\E k \in j + 1 .. Len(b) : SameId(b[j], b[k])}}

\* _flush_batch: a database error loses the batch silently, and so does one
\* replayed row in it, whose data_plane and asset_class are strings.
Flush(ok) ==
    /\ batch # << >>
    /\ batch' = << >>
    /\ stored' = IF ok /\ \A r \in Range(batch) : ~r.replay THEN Replaced(stored, batch) ELSE stored
    /\ UNCHANGED <<events, replays>>

-----------------------------------------------------------------------------
(* Replay.                                                                 *)

\* ORDER BY event_time: rows of different feeds may fall at any time.
InTimeOrder(rows) ==
    {q \in SetToSeqs(rows) : \A i, j \in DOMAIN q : i < j /\ q[i].feed = q[j].feed => q[i].n < q[j].n}

Running(i) == session[i].status \in {"running", "cancelled"}

SessionBegins(i, rows) ==
    /\ session[i].status = "pending"
    /\ session' = [session EXCEPT ![i].status = "running", ![i].rows = rows, ![i].total = Len(rows)]
    /\ disturbed' = IF \E j \in Sessions : Running(j)
                    THEN disturbed \cup {i} \cup {j \in Sessions : Running(j)} ELSE disturbed
    /\ UNCHANGED <<events, batch, stored>>

\* A mutant of RunSession: the engine keeps the flag the last session left.
RunSession_FlagKept(i, rows) == SessionBegins(i, rows) /\ UNCHANGED replaying

\* run_session: the rows are read once.  One flag serves all sessions.
RunSession(i, rows) == SessionBegins(i, rows) /\ replaying' = TRUE

Looping(i) == Running(i) /\ session[i].delayed = << >>

\* The next row, after a delay that restores the pace of the original.
NextRow(i) ==
    /\ Looping(i) /\ replaying /\ session[i].rows # << >>
    /\ session' = [session EXCEPT ![i].rows = Tail(@), ![i].delayed = <<Head(session[i].rows)>>]
    /\ UNCHANGED <<events, batch, stored, replaying, disturbed>>

\* It is published under a new id, whatever became of the flag meanwhile.
\* Without a HealthSnapshot of its source publish raises.
ReplayRow(i) ==
    /\ session[i].delayed # << >>
    /\ LET row == session[i].delayed[1]
       IN  IF row.feed \in snapshots
           THEN /\ Published(<<[row EXCEPT !.replay = TRUE]>>)
                /\ session' = [session EXCEPT ![i].delayed = << >>, ![i].replayed = @ + 1]
                /\ UNCHANGED replaying
           ELSE /\ session' = [session EXCEPT ![i].delayed = << >>, ![i].status = "failed"]
                /\ replaying' = FALSE
                /\ UNCHANGED <<snapshots, persist_queue>>
    /\ UNCHANGED <<number, batch, stored, disturbed>>

\* No row is left, or another session has ended: "completed" either way, also
\* when the session had been cancelled.
ReplayEnds(i) ==
    /\ Looping(i)
    /\ ~replaying \/ session[i].rows = << >>
    /\ session' = [session EXCEPT ![i].status = "completed"]
    /\ replaying' = FALSE
    /\ UNCHANGED <<events, batch, stored, disturbed>>

CancelSession(i) ==
    /\ session[i].status = "running"
    /\ session' = [session EXCEPT ![i].status = "cancelled"]
    /\ replaying' = FALSE
    /\ disturbed' = disturbed \cup {i}
    /\ UNCHANGED <<events, batch, stored>>

\* The task that drives a session is cancelled while it waits: the engine
\* swallows that, and the session is reported completed with rows left.
TaskCancelled(i) ==
    /\ Running(i)
    /\ session' = [session EXCEPT ![i].delayed = << >>, ![i].status = "completed"]
    /\ replaying' = FALSE
    /\ disturbed' = disturbed \cup {i}
    /\ UNCHANGED <<events, batch, stored>>

StoreStep ==
    \/ \E f \in Feeds :
          LET e == Original(f, number[f])
              better == [e EXCEPT !.version = "enriched"]
          IN  \E rows \in {<<e>>, <<e, better>>, <<better, e>>} : PublishLive(f, rows)
    \/ TakeBatch \/ \E ok \in BOOLEAN : Flush(ok)
    \/ \E i \in Sessions :
          \/ session[i].status = "pending" /\ \E rows \in InTimeOrder(stored) : RunSession(i, rows)
          \/ NextRow(i) \/ ReplayRow(i) \/ ReplayEnds(i) \/ CancelSession(i) \/ TaskCancelled(i)

-----------------------------------------------------------------------------
StoreTypeOK ==
    /\ number \in [Feeds -> Nat]
    /\ persist_queue \in Seq(Row)
    /\ batch \in Seq(Row)
    /\ stored \subseteq Row
    /\ snapshots \subseteq Feeds
    /\ replaying \in BOOLEAN

\* The table holds one version of an event, and a replay, whose rows go through
\* the same writer, neither adds a row to it nor changes one.
OneRowPerEvent ==
    \A r, t \in stored : ~r.replay /\ (r.feed = t.feed /\ r.n = t.n => r = t)

\* A session that no other session and no cancel disturbed, of it or of its
\* task, has published every row it found by the time it is reported completed
\* (replay.py:193-217).
UndisturbedSessionComplete ==
    \A i \in Sessions :
        session[i].status = "completed" /\ i \notin disturbed
        => session[i].rows = << >> /\ session[i].replayed = session[i].total

\* Writer and replays together keep what was published: both of the above.
StoreIsFaithful == OneRowPerEvent /\ UndisturbedSessionComplete
=============================================================================
