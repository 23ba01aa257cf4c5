----------------------------- MODULE DataFabric -----------------------------
(***************************************************************************)
(* The data fabric of paper mode, from the readers to the market loop:     *)
(*   EnhancedEventBus     fan-out to bounded queues                        *)
(*   NewsPipelineService  subscriber that publishes what it enriches       *)
(*   FabricObservationBridge -> ObservationBus -> MarketLoopService        *)
(* and their start and shutdown in main.py.  All of it runs on one event   *)
(* loop: a step ends where the code awaits something that is not ready.    *)
(* What the bus writes to its database, and replay, are in EventStore.     *)
(***************************************************************************)
EXTENDS Integers, FiniteSets, SequencesExt

CONSTANTS
    MarketSources,  \* sources of trades, quotes, books and candles
    NewsSources,
    MaxEvents,      \* bound on the events of one source
    MaxQueue,       \* EnhancedEventBus(maxsize)
    MaxObserved     \* ObservationBus(maxsize)

ASSUME SizesAssumption ==
    /\ MaxEvents \in Nat /\ MaxQueue \in Nat \ {0} /\ MaxObserved \in Nat \ {0}
ASSUME SourcesAssumption ==
    /\ MarketSources \cap NewsSources = {}
    /\ {"news", "bridge"} \cap (MarketSources \cup NewsSources) = {}

Sources == MarketSources \cup NewsSources
Subscribers == {"news", "bridge"}
Publishers == Sources \cup {"news"}

\* "news_processed" is a flag of the payload.
Event == [source : Sources, n : Nat, news_processed : BOOLEAN]

VARIABLES
    next,           \* number of the next event of a source
    alive,          \* sources whose reader task runs
    registered,     \* subscribers in the order of their subscription
    queue,          \* queue of each subscriber, kept by publishers that hold it
    publishing,     \* publish calls that wait: the event and the queues left
    holding,        \* bridge: the event its observation_bus.publish waits with
    observed,       \* queue of the ObservationBus
    phase,          \* of main: "starting", "running", "stopping", "stopped"
    ingested,       \* history: numbers that reached the market loop, by source
    first,          \* history: first number the bridge's subscription covers
    copies          \* history: enriched copies published, by source and number

readers == <<next, alive>>
bus == <<registered, queue, publishing>>
path == <<holding, observed, ingested, first>>
fabricVars == <<readers, bus, path, phase, copies>>

Idle == << >>
Waiting(p) == publishing[p] # Idle

Full(q, s) == Len(q[s]) >= MaxQueue

FabricInit ==
    /\ next = [s \in Sources |-> 1]
    /\ alive = Sources
    /\ registered = <<"news">>
    /\ queue = [s \in Subscribers |-> << >>]
    /\ publishing = [p \in Publishers |-> Idle]
    /\ holding = << >>
    /\ observed = << >>
    /\ phase = "starting"
    /\ ingested = [s \in Sources |-> << >>]
    /\ first = [s \in Sources |-> 0]
    /\ copies = [s \in Sources |-> [n \in 1 .. MaxEvents |-> 0]]

-----------------------------------------------------------------------------
(* EnhancedEventBus.publish.                                               *)

\* A mutant of Put: an event is dropped for a subscriber whose queue is full.
Put_DropsWhenFull(p, e, targets, q) ==
    /\ queue' = [s \in Subscribers |-> IF s \in Range(targets) /\ ~Full(q, s)
                                       THEN Append(q[s], e) ELSE q[s]]
    /\ publishing' = [publishing EXCEPT ![p] = Idle]

\* Puts the event into the queues of targets up to the first full one, where it
\* waits.  A queue with room does not make it wait.
Put(p, e, targets, q) ==
    LET full == {i \in DOMAIN targets : Full(q, targets[i])}
        reach == IF full = {} THEN Len(targets) ELSE Min(full) - 1
    IN  /\ queue' = [s \in Subscribers |-> IF s \in Range(SubSeq(targets, 1, reach))
                                           THEN Append(q[s], e) ELSE q[s]]
        /\ publishing' = [publishing EXCEPT ![p] =
               IF full = {} THEN Idle ELSE <<e, SubSeq(targets, reach + 1, Len(targets))>>]

\* A put that waited finds room.
Resume(p) ==
    /\ Waiting(p)
    /\ ~Full(queue, publishing[p][2][1])
    /\ Put(p, publishing[p][1], publishing[p][2], queue)
    /\ UNCHANGED <<readers, registered, path, phase, copies>>

\* _publish_normalized of a reader.  The list of subscribers is copied when the
\* publish begins.
Read(s) ==
    /\ s \in alive /\ ~Waiting(s)
    /\ next[s] <= MaxEvents
    /\ next' = [next EXCEPT ![s] = @ + 1]
    /\ Put(s, [source |-> s, n |-> next[s], news_processed |-> FALSE], registered, queue)
    /\ UNCHANGED <<alive, registered, path, phase, copies>>

-----------------------------------------------------------------------------
(* The news pipeline.                                                      *)

\* A mutant of ToEnrich: its own output is enriched again.
ToEnrich_Again(e) == e.source \in NewsSources

\* A news event is enriched once: its own output comes back to it and is skipped.
ToEnrich(e) == e.source \in NewsSources /\ ~e.news_processed

\* One event of its queue.
NewsTake ==
    /\ phase # "stopped" /\ ~Waiting("news")
    /\ queue["news"] # << >>
    /\ LET e == Head(queue["news"])
           q == [queue EXCEPT !["news"] = Tail(@)]
       IN  IF ToEnrich(e)
           THEN /\ Put("news", [e EXCEPT !.news_processed = TRUE], registered, q)
                /\ copies' = [copies EXCEPT ![e.source][e.n] = @ + 1]
           ELSE queue' = q /\ UNCHANGED <<publishing, copies>>
    /\ UNCHANGED <<readers, registered, path, phase>>

-----------------------------------------------------------------------------
(* Bridge, observation bus and market loop.                                *)

\* A mutant of BridgeStart: the bridge comes before the news pipeline.
BridgeStart_First ==
    /\ phase = "starting"
    /\ phase' = "running"
    /\ registered' = <<"bridge">> \o registered
    /\ first' = next
    /\ UNCHANGED <<readers, queue, publishing, holding, observed, ingested, copies>>

\* The bridge's task starts after fabric.start() has returned: what was
\* published before is not seen.
BridgeStart ==
    /\ phase = "starting"
    /\ phase' = "running"
    /\ registered' = Append(registered, "bridge")
    /\ first' = next
    /\ UNCHANGED <<readers, queue, publishing, holding, observed, ingested, copies>>

Observe(e) ==
    IF Len(observed) < MaxObserved
    THEN observed' = Append(observed, e) /\ holding' = << >>
    ELSE holding' = <<e>> /\ UNCHANGED observed

\* Only trades, quotes, books and candles are forwarded.
BridgeTake ==
    /\ phase = "running" /\ holding = << >>
    /\ queue["bridge"] # << >>
    /\ queue' = [queue EXCEPT !["bridge"] = Tail(@)]
    /\ LET e == Head(queue["bridge"])
       IN  IF e.source \in MarketSources THEN Observe(e) ELSE UNCHANGED <<holding, observed>>
    /\ UNCHANGED <<readers, registered, publishing, ingested, first, phase, copies>>

BridgeResume ==
    /\ phase = "running" /\ holding # << >>
    /\ Len(observed) < MaxObserved
    /\ Observe(holding[1])
    /\ UNCHANGED <<readers, bus, ingested, first, phase, copies>>

\* The market loop hands an event to the ingest pipeline; what fails there ends
\* with that event.
Ingest ==
    /\ phase = "running" /\ observed # << >>
    /\ observed' = Tail(observed)
    /\ LET e == Head(observed)
       IN  ingested' = [ingested EXCEPT ![e.source] = Append(@, e.n)]
    /\ UNCHANGED <<readers, bus, holding, first, phase, copies>>

-----------------------------------------------------------------------------
(* Shutdown.                                                               *)

\* bridge.stop, market_loop.stop and the cancellation of their tasks: a
\* publisher that waits for the bridge's queue goes on waiting.
Interrupt ==
    /\ phase = "running"
    /\ phase' = "stopping"
    /\ registered' = <<"news">>
    /\ holding' = << >>
    /\ UNCHANGED <<readers, queue, publishing, observed, ingested, first, copies>>

\* connector.stop: the reader is cancelled where it waits; the
\* event it was publishing reaches no further subscriber.
StopReader(s) ==
    /\ phase = "stopping" /\ s \in alive
    /\ alive' = alive \ {s}
    /\ publishing' = [publishing EXCEPT ![s] = Idle]
    /\ UNCHANGED <<next, registered, queue, path, phase, copies>>

\* The news pipeline is stopped after the connectors.
StopNews ==
    /\ phase = "stopping" /\ alive = {}
    /\ phase' = "stopped"
    /\ registered' = << >>
    /\ publishing' = [publishing EXCEPT !["news"] = Idle]
    /\ UNCHANGED <<readers, queue, path, copies>>

FabricStep ==
    \/ \E p \in Publishers : Resume(p)
    \/ \E s \in Sources : Read(s) \/ StopReader(s)
    \/ NewsTake
    \/ BridgeStart \/ BridgeTake \/ BridgeResume \/ Ingest
    \/ Interrupt \/ StopNews

\* Tasks that are ready are run; the shutdown, once begun, goes on.  Nothing is
\* assumed of the readers.
FabricFairness ==
    /\ \A p \in Publishers : WF_fabricVars(Resume(p))
    /\ WF_fabricVars(NewsTake) /\ WF_fabricVars(BridgeTake) /\ WF_fabricVars(BridgeResume) /\ WF_fabricVars(Ingest)
    /\ \A s \in Sources : WF_fabricVars(StopReader(s))
    /\ WF_fabricVars(StopNews)

FabricSpec == FabricInit /\ [][FabricStep]_fabricVars /\ FabricFairness

-----------------------------------------------------------------------------
FabricTypeOK ==
    /\ next \in [Sources -> Nat]
    /\ alive \subseteq Sources
    /\ registered \in Seq(Subscribers)
    /\ queue \in [Subscribers -> Seq(Event)]
    /\ \A s \in Subscribers : Len(queue[s]) <= MaxQueue
    /\ \A p \in Publishers : Waiting(p) =>
           publishing[p][1] \in Event /\ publishing[p][2] \in Seq(Subscribers) \ {<< >>}
    /\ holding \in Seq(Event) /\ Len(holding) <= 1
    /\ observed \in Seq(Event) /\ Len(observed) <= MaxObserved
    /\ phase \in {"starting", "running", "stopping", "stopped"}
    /\ ingested \in [Sources -> Seq(Nat)]

\* The numbers of the events of source s in a sequence of events.
NumbersOf(q, s) ==
    LET upto[i \in 0 .. Len(q)] ==
            IF i = 0 THEN << >>
            ELSE IF q[i].source = s THEN Append(upto[i - 1], q[i].n) ELSE upto[i - 1]
    IN  upto[Len(q)]

\* The part of a waiting publish that is still due to the bridge.
DueToBridge(s) ==
    IF Waiting(s) /\ "bridge" \in Range(publishing[s][2]) THEN <<publishing[s][1].n>> ELSE << >>

\* The pipeline that reads and writes one bus does not feed itself: a news event
\* is enriched at most once (pipeline.py:259-263).
EnrichedOnce == \A s \in Sources, n \in 1 .. MaxEvents : copies[s][n] <= 1

\* While the platform runs, no market event that was published after the bridge
\* subscribed is lost, repeated or overtaken by one of its source on the way to
\* the market loop, whichever queues were full (fabric_bridge.py:14-16);
\* and no news event is enriched twice.
MarketPathComplete ==
    /\ phase = "running" => \A s \in MarketSources :
           ingested[s] \o NumbersOf(observed, s) \o NumbersOf(holding, s)
               \o NumbersOf(queue["bridge"], s) \o DueToBridge(s)
           = [i \in 1 .. next[s] - first[s] |-> first[s] + i - 1]
    /\ EnrichedOnce

\* Backpressure never lasts: whoever waits in publish is served or cancelled,
\* although the news pipeline waits for room in queues that only it empties, and
\* although the bridge may go while others wait for its queue
\* (event_bus.py:255-282, pipeline.py:254-266, main.py:808-821).
PublishEnds == \A p \in Publishers : Waiting(p) ~> ~Waiting(p)
=============================================================================
