--------------------------- MODULE ServerLifespan ---------------------------
(***************************************************************************)
(* The composition root: what a process starts for its settings, the       *)
(* engine routes that stop and start its loops, and how it shuts down.     *)
(* Tasks share one event loop; the market loop hands each event to a       *)
(* thread, which a cancelled task leaves behind.                           *)
(***************************************************************************)
EXTENDS Integers, FiniteSets

CONSTANTS
    BusSize,            \* maxsize of the ObservationBus
    MaxPublished,       \* bound on the observations published
    MaxRestarts         \* bound on the engine/start calls that start a task

ASSUME ServerAssumption == BusSize \in Nat \ {0} /\ MaxPublished \in Nat /\ MaxRestarts \in Nat

\* The settings that decide what is started.
Settings ==
    [process : {"api", "paper", "live"}, trading_mode : {"crypto", "forex", "both"},
     ff_enabled : BOOLEAN, ccxt : {"off", "fails", "on"}, mt5 : BOOLEAN, omega : {"off", "fails", "on"}]

\* What is not read in a process has its default.
Meaningful(c) ==
    /\ c.process # "api" => c.trading_mode = "forex" /\ ~c.ff_enabled /\ c.ccxt = "off" /\ ~c.mt5
    /\ c.process = "live" => c.omega = "off"

VARIABLES
    config,
    process,        \* "launching", "serving", "cancelling", "closed" or "exited"
    task,           \* state of each task that was started
    enabled,        \* MarketLoopService._running
    handling,       \* loop tasks whose thread is at work on an event
    buffered,       \* events in the ObservationBus
    published,      \* history: number published so far
    reasoner,
    database,
    fabric,         \* DataFabricService of the paper process
    broken          \* history: events whose thread found the database closed

serverVars == <<config, process, task, enabled, handling, buffered, published, reasoner, database, fabric, broken>>

\* A task by its kind; 0 is the one started with the process.
TaskId == {"poller", "macro", "adapter", "loop", "mt5", "bridge", "monitor"} \X (0 .. MaxRestarts)
First(kinds) == kinds \X {0}
Producers == {t \in TaskId : t[1] \in {"adapter", "macro", "mt5", "bridge"}}
Loops == {t \in TaskId : t[1] = "loop"}

Crypto(c) == c.trading_mode \in {"crypto", "both"}
Forex(c) == c.trading_mode \in {"forex", "both"}

\* Omega that cannot be built gives way to the solver.
Reasoner(c) == IF c.omega = "on" THEN "omega" ELSE "solver"

\* The market loop, and the adapter that feeds it, are built together or not.
Wired(c) == c.ccxt = "on" /\ Crypto(c)

Pollers(c) ==
    (IF Crypto(c) THEN {"poller"} ELSE {}) \cup (IF c.ff_enabled THEN {"macro"} ELSE {})

Terminal(c) == IF c.mt5 /\ Forex(c) THEN {"mt5"} ELSE {}

\* What the lifespan, or run_paper_mode, starts.
Started(c) ==
    IF c.process = "paper" THEN {"bridge", "loop", "monitor"}
    ELSE Pollers(c) \cup (IF Wired(c) THEN {"adapter", "loop"} ELSE {}) \cup Terminal(c)

\* market_tasks: the wiring of the loop begins a new list.
market_tasks(c) ==
    First(IF c.process = "paper" \/ ~Wired(c) THEN Started(c) ELSE Started(c) \ Pollers(c))

Live(t) == task[t] \in {"running", "held"}

ServerInit ==
    /\ config \in {c \in Settings : Meaningful(c)}
    /\ process = "launching"
    /\ task = [t \in TaskId |-> "none"]
    /\ enabled = TRUE
    /\ handling = {}
    /\ buffered = 0 /\ published = 0 /\ broken = 0
    /\ reasoner = "none" /\ database = "none" /\ fabric = "none"

\* lifespan up to its yield, or run_paper_mode up to its gather.
Launch ==
    /\ process = "launching" /\ config.process # "live"
    /\ process' = "serving"
    /\ task' = [t \in TaskId |-> IF t \in First(Started(config)) THEN "running" ELSE "none"]
    /\ reasoner' = Reasoner(config) /\ database' = "open"
    /\ fabric' = IF config.process = "paper" THEN "running" ELSE "none"
    /\ UNCHANGED <<config, enabled, handling, buffered, published, broken>>

\* run_live_mode: authorized or not, it ends.
RefuseLive ==
    /\ process = "launching" /\ config.process = "live"
    /\ process' = "exited"
    /\ UNCHANGED <<config, task, enabled, handling, buffered, published, reasoner, database, fabric, broken>>

\* ObservationBus.publish: the put waits while the queue is full.
Publish(t) ==
    /\ task[t] = "running" /\ published < MaxPublished
    /\ published' = published + 1
    /\ IF buffered < BusSize THEN buffered' = buffered + 1 /\ UNCHANGED task
       ELSE task' = [task EXCEPT ![t] = "held"] /\ UNCHANGED buffered
    /\ UNCHANGED <<config, process, enabled, handling, reasoner, database, fabric, broken>>

PutGoesOn(t) ==
    /\ task[t] = "held" /\ buffered < BusSize
    /\ buffered' = buffered + 1
    /\ task' = [task EXCEPT ![t] = "running"]
    /\ UNCHANGED <<config, process, enabled, handling, published, reasoner, database, fabric, broken>>

\* MarketLoopService.start: one event to a thread, the next when it is done.
Take(l) ==
    /\ task[l] = "running" /\ l \notin handling /\ buffered > 0
    /\ buffered' = buffered - 1
    /\ handling' = handling \cup {l}
    /\ UNCHANGED <<config, process, task, enabled, published, reasoner, database, fabric, broken>>

\* handle never raises; the loop ends here if it was stopped.
HandleEnds(l) ==
    /\ l \in handling
    /\ handling' = handling \ {l}
    /\ task' = IF task[l] = "running" /\ ~enabled THEN [task EXCEPT ![l] = "ended"] ELSE task
    /\ broken' = IF database = "open" THEN broken ELSE broken + 1
    /\ UNCHANGED <<config, process, enabled, buffered, published, reasoner, database, fabric>>

Over(t) == task[t] \in {"none", "ended"}
MT5(n) == <<"mt5", n>>
Loop(n) == <<"loop", n>>

\* The MT5 adapter knows its last task only.
CurrentMT5 == {MT5(n) : n \in {m \in 0 .. MaxRestarts : task[MT5(m)] # "none"
                                    /\ \A k \in m + 1 .. MaxRestarts : task[MT5(k)] = "none"}}

engine_stop ==
    /\ process = "serving" /\ config.process = "api"
    /\ enabled' = (enabled /\ ~Wired(config))
    /\ task' = [t \in TaskId |-> IF t \in CurrentMT5 THEN "ended" ELSE task[t]]
    /\ UNCHANGED <<config, process, handling, buffered, published, reasoner, database, fabric, broken>>

\* The tasks go to a list of app.state that the lifespan does not read.
engine_start(n) ==
    /\ process = "serving" /\ config.process = "api"
    /\ \A k \in n .. MaxRestarts : task[MT5(k)] = "none" /\ task[Loop(k)] = "none"
    /\ LET again == (IF Wired(config) /\ ~enabled THEN {Loop(n)} ELSE {})
                        \cup (IF Terminal(config) # {} /\ \A t \in CurrentMT5 : Over(t)
                              THEN {MT5(n)} ELSE {})
       IN  /\ again # {}
           /\ task' = [t \in TaskId |-> IF t \in again THEN "running" ELSE task[t]]
    /\ enabled' = TRUE
    /\ UNCHANGED <<config, process, handling, buffered, published, reasoner, database, fabric, broken>>

\* The server stops, or the user interrupts: the tasks of the list are cancelled.
Shutdown ==
    /\ process = "serving"
    /\ process' = "cancelling"
    /\ enabled' = (enabled /\ config.process = "api")
    /\ task' = [t \in TaskId |-> IF t \in market_tasks(config) /\ Live(t) THEN "cancelled" ELSE task[t]]
    /\ UNCHANGED <<config, handling, buffered, published, reasoner, database, fabric, broken>>

\* A mutant of Cancelled: a task that waits for room goes on waiting.
Cancelled_WhenRoom(t) ==
    task[t] = "cancelled" /\ (t \in Producers => buffered < BusSize)

\* The cancellation arrives wherever the task waits, also for room in the bus:
\* the handlers catch Exception, which CancelledError is not.
Cancelled(t) == task[t] = "cancelled"

TaskEnds(t) ==
    /\ Cancelled(t)
    /\ task' = [task EXCEPT ![t] = "ended"]
    /\ UNCHANGED <<config, process, enabled, handling, buffered, published, reasoner, database, fabric, broken>>

\* A mutant of Close's wait: the tasks are cancelled and not awaited.
AllAwaited_Not == TRUE

AllAwaited == \A t \in market_tasks(config) : Over(t)

Close ==
    /\ process = "cancelling" /\ AllAwaited
    /\ process' = "closed"
    /\ reasoner' = "closed" /\ database' = "closed"
    /\ fabric' = IF fabric = "running" THEN "stopped" ELSE fabric
    /\ UNCHANGED <<config, task, enabled, handling, buffered, published, broken>>

\* asyncio.run cancels what is left and waits for the threads.
Exit ==
    /\ process = "closed" /\ handling = {}
    /\ process' = "exited"
    /\ task' = [t \in TaskId |-> IF task[t] = "none" THEN "none" ELSE "ended"]
    /\ UNCHANGED <<config, enabled, handling, buffered, published, reasoner, database, fabric, broken>>

ServerStep ==
    \/ Launch \/ RefuseLive \/ engine_stop \/ Shutdown \/ Close \/ Exit
    \/ \E n \in 1 .. MaxRestarts : engine_start(n)
    \/ \E t \in Producers : Publish(t) \/ PutGoesOn(t)
    \/ \E l \in Loops : Take(l) \/ HandleEnds(l)
    \/ \E t \in TaskId : TaskEnds(t)

\* The event loop runs every task that can go on, and a thread's work ends.
ServerFairness ==
    /\ \A t \in Producers : WF_serverVars(PutGoesOn(t))
    /\ \A l \in Loops : WF_serverVars(Take(l)) /\ WF_serverVars(HandleEnds(l))
    /\ \A t \in TaskId : WF_serverVars(TaskEnds(t))
    /\ WF_serverVars(Close) /\ WF_serverVars(Exit)

-----------------------------------------------------------------------------
\* Tasks the shutdown does not know of: those the engine routes started, and the
\* pollers of a process that wired the market loop after them.
Forgotten ==
    {t \in TaskId : t[2] > 0} \cup (IF Wired(config) THEN First({"poller", "macro"}) ELSE {})

\* Once the database is closed nothing that the shutdown knows of runs on: a
\* thread may still be at work only for a loop that was cancelled under it, which
\* loses that one event, or for a loop that the shutdown does not know
\* (main.py:360-377).
ClosedIsQuiet ==
    database = "closed" =>
        /\ \A t \in TaskId \ Forgotten : ~Live(t) /\ task[t] # "cancelled"
        /\ Cardinality(handling \ Forgotten) + broken <= 1 + Cardinality({l \in Loops : l[2] > 0}) * MaxPublished
        /\ (\A l \in Loops : l[2] > 0 => task[l] = "none") => Cardinality(handling) + broken <= 1

\* A shutdown gets to its end, whatever the tasks were waiting for, a full bus or
\* an event in a thread, and leaves nothing it knows of behind
\* (main.py:360-377, 808-829).
ShutdownIsClean ==
    [](ClosedIsQuiet /\ (process = "cancelling" => <>(process = "exited")))

\* A server that was not told to stop takes what is published to its bus: the
\* "decision pipeline, risk gate and paper simulator consume it identically"
\* (main.py:322-324).
EventsConsumed ==
    Terminal(config) # {} /\ buffered = BusSize ~> (buffered < BusSize \/ process # "serving" \/ ~enabled)
=============================================================================
