---------------------------- MODULE OmegaFallback ----------------------------
(***************************************************************************)
(* SmartFallbackReasoner: one decision after the other is put to a chain   *)
(* of model providers, in one of three ways (sequential, parallel, hedged).*)
(* A provider has a pool of keys and a circuit that opens after a streak   *)
(* of failures.  The operator lock keeps decisions apart; within one, the  *)
(* providers answer from threads of a pool that the call waits for.        *)
(***************************************************************************)
EXTENDS Integers, FiniteSets, Sequences, SequencesExt, Collections

CONSTANTS
    priority,               \* OmegaConfig.priority: the providers, best first
    EnvKeys, FileKeys,      \* the pools of keys of each provider, in two places
    Keyless,                \* _KEYLESS_PROVIDERS
    RaceModes,              \* values of race_mode
    circuit_threshold, circuit_cooldown,
    MaxDecisions, MaxTime   \* bounds on the decisions and on the clock

\* The pools are sequences; "none" stands for None, which names no provider.
ASSUME FallbackAssumption ==
    /\ priority \in Seq(Range(priority)) /\ "none" \notin Range(priority)
    /\ \A p \in Range(priority) :
          EnvKeys[p] \in Seq(Range(EnvKeys[p])) /\ FileKeys[p] \in Seq(Range(FileKeys[p]))
    /\ circuit_threshold \in Nat /\ circuit_cooldown \in Nat

Closed == -1

\* Where an element of s stands for the first time.
Firsts(s) == {i \in DOMAIN s : \A j \in 1 .. i - 1 : s[j] # s[i]}

\* load_provider_keys: a key that is in both pools, or twice in one, counts once.
Pool(p) ==
    LET all == EnvKeys[p] \o FileKeys[p]
    IN  Picked(all, Firsts(all))

\* The chain built at start: a provider without keys has to be a keyless one;
\* without any, this one stands alone.
Chain ==
    LET able == {i \in Firsts(priority) : Pool(priority[i]) # << >> \/ priority[i] \in Keyless}
    IN  IF able = {} THEN <<"ovh">> ELSE Picked(priority, able)

Specs == Range(Chain)

Keys == [p \in Specs |-> IF p \in Range(priority) THEN Len(Pool(p)) ELSE 0]

Attempts(p) == IF Keys[p] = 0 THEN 1 ELSE Keys[p]

VARIABLES
    clock,          \* time.monotonic()
    health,         \* of each provider: consecutive failures, open_until, next key
    decision,       \* the decision under way
    asked,          \* number of decisions so far
    streak          \* history: failures of each provider since its last success

fallbackVars == <<clock, health, decision, asked, streak>>

NoDecision == [pc |-> "idle"]

FallbackInit ==
    /\ clock = 0
    /\ health = [p \in Specs |-> [failures |-> 0, open_until |-> Closed, key |-> 0]]
    /\ decision = NoDecision
    /\ asked = 0
    /\ streak = [p \in Specs |-> 0]

\* _circuit_open
Open(p) == health[p].open_until # Closed /\ clock < health[p].open_until

\* What _circuit_open leaves of a circuit whose cooldown is over.
Refreshed ==
    [p \in Specs |-> IF health[p].open_until # Closed /\ ~Open(p)
                     THEN [health[p] EXCEPT !.open_until = Closed, !.failures = 0] ELSE health[p]]

\* _ranked_providers: closed circuits first, each group in the priority order,
\* in which no two are equal, so that the latencies decide nothing.
Ready == Picked(Chain, {i \in DOMAIN Chain : ~Open(Chain[i])})
Ranked == Ready \o Picked(Chain, {i \in DOMAIN Chain : Open(Chain[i])})

\* A worker per provider: not started, calling with its attempt-th key, or done.
Worker == [state |-> "none", attempt |-> 0, used |-> {}]
Calling == {p \in Specs : decision.workers[p].state = "calling"}
Succeeded == {p \in Specs : decision.workers[p].state = "ok"}

\* A mutant of NextKey: the index stays.
NextKey_Same(h, p) == h

\* _next_key
NextKey(h, p) == [h EXCEPT ![p].key = IF Keys[p] = 0 THEN 0 ELSE (@ + 1) % Keys[p]]

KeyAt(h, p) == IF Keys[p] = 0 THEN "anonymous" ELSE Pool(p)[h[p].key + 1]

\* The workers with p's next request sent, with the key of health's index.
Sent(workers, h, p) ==
    [workers EXCEPT ![p] = [state |-> "calling", attempt |-> @.attempt + 1,
                            used |-> @.used \cup {KeyAt(h, p)}]]

\* reason: what is ranked is the queue; the two races leave out open circuits.
Ask(mode) ==
    LET h == Refreshed
        queue == IF mode = "sequential" THEN Ranked ELSE Ready
    IN  /\ decision = NoDecision /\ asked < MaxDecisions
        /\ asked' = asked + 1
        /\ health' = h
        /\ decision' = [pc |-> "asking", mode |-> mode, queue |-> queue, winner |-> "none",
                        workers |-> [p \in Specs |-> Worker], skipped |-> IF mode = "sequential" THEN {} ELSE {p \in Specs : Open(p)}]
        /\ UNCHANGED <<clock, streak>>

\* Who may start now: in sequence when no one works, in parallel at once, hedged
\* after the first when all have ended or the delay is over.
MayStart ==
    /\ decision.pc = "asking" /\ decision.queue # << >> /\ decision.winner = "none"
    /\ decision.mode # "parallel" => Succeeded = {}
    /\ decision.mode = "sequential" => Calling = {}

\* The head of the queue starts; the sequential loop asks its circuit once more.
StartNext ==
    LET p == Head(decision.queue)
        h == IF decision.mode = "sequential" THEN [health EXCEPT ![p] = Refreshed[p]] ELSE health
    IN  /\ MayStart
        /\ IF decision.mode = "sequential" /\ Open(p)
           THEN /\ decision' = [decision EXCEPT !.queue = Tail(@), !.skipped = @ \cup {p}]
                /\ UNCHANGED health
           ELSE /\ decision' = [decision EXCEPT !.queue = Tail(@),
                                                !.workers = Sent(@, h, p)]
                /\ health' = NextKey(h, p)
        /\ UNCHANGED <<clock, asked, streak>>

\* A mutant of Succeed: the streak goes on.
Succeed_Streak(h, p) == [h EXCEPT ![p].open_until = Closed]

\* _record_success
Succeed(h, p) == [h EXCEPT ![p].failures = 0, ![p].open_until = Closed]

\* _record_failure
Fail(h, p) ==
    [h EXCEPT ![p].failures = @ + 1,
              ![p].open_until = IF h[p].failures + 1 >= circuit_threshold
                                THEN clock + circuit_cooldown ELSE @]

\* The reply is a proposal.
ReplyOk(p) ==
    /\ decision.pc = "asking" /\ p \in Calling
    /\ health' = Succeed(health, p)
    /\ streak' = [streak EXCEPT ![p] = 0]
    /\ decision' = [decision EXCEPT !.workers[p].state = "ok"]
    /\ UNCHANGED <<clock, asked>>

\* 429, 401 and 403 are answered with the next key, while there is one.
Rotates(p, refused) == refused /\ decision.workers[p].attempt < Attempts(p)

\* The request is refused, or fails in any other way (no answer, an error, a
\* reply that is no proposal): the next key, or the provider is out.
ReplyFails(p, refused) ==
    /\ decision.pc = "asking" /\ p \in Calling
    /\ IF Rotates(p, refused)
       THEN /\ decision' = [decision EXCEPT !.workers = Sent(@, health, p)]
            /\ health' = NextKey(health, p)
            /\ UNCHANGED streak
       ELSE /\ decision' = [decision EXCEPT !.workers[p].state = IF refused THEN "refused" ELSE "failed"]
            /\ health' = Fail(health, p)
            /\ streak' = [streak EXCEPT ![p] = @ + 1]
    /\ UNCHANGED <<clock, asked>>

\* One that has succeeded wins (in parallel, once all have started); the requests still out cannot be called back.
Choose(p) ==
    /\ decision.pc = "asking" /\ decision.winner = "none" /\ p \in Succeeded
    /\ decision.mode = "parallel" => decision.queue = << >>
    /\ decision' = [decision EXCEPT !.winner = p, !.queue = << >>]
    /\ UNCHANGED <<clock, health, asked, streak>>

\* The pool is left when all its threads have ended.  Without a winner the answer is to stand aside.
Return ==
    /\ decision.pc = "asking" /\ decision.queue = << >> /\ Calling = {}
    /\ Succeeded # {} => decision.winner # "none"
    /\ decision' = [decision EXCEPT !.pc = "returned"]
    /\ UNCHANGED <<clock, health, asked, streak>>

Done ==
    /\ decision.pc = "returned"
    /\ decision' = NoDecision
    /\ UNCHANGED <<clock, health, asked, streak>>

Tick ==
    /\ clock < MaxTime
    /\ clock' = clock + 1
    /\ UNCHANGED <<health, decision, asked, streak>>

FallbackStep ==
    \/ \E mode \in RaceModes : Ask(mode)
    \/ StartNext \/ Return \/ Done \/ Tick
    \/ \E p \in Specs :
          ReplyOk(p) \/ Choose(p) \/ \E refused \in BOOLEAN : ReplyFails(p, refused)

-----------------------------------------------------------------------------
\* Standing aside means that every provider was out: behind an open circuit, or
\* it failed in this decision; one that refused its keys refused all of them.
AsideIsExhausted ==
    decision.pc = "returned" /\ decision.winner = "none" =>
        \A p \in Specs \ decision.skipped :
            /\ decision.workers[p].state \in {"failed", "refused"}
            /\ decision.workers[p].state = "refused" =>
                  Cardinality(decision.workers[p].used) = Attempts(p)

\* A circuit is open only after a whole streak of failures without a success
\* between, and a provider that is skipped is behind such a circuit.
OpenAfterStreak ==
    \A p \in Specs :
        /\ Open(p) => streak[p] >= circuit_threshold
        /\ decision.pc # "idle" /\ p \in decision.skipped => streak[p] >= circuit_threshold
        /\ health[p].failures <= streak[p]

\* The fallback chain gives up for no lesser reason than that all providers are
\* out, and never counts one out without its streak of failures, whatever the
\* race mode and the order of the answers (smart_fallback_reasoner.py:5-9).
FallbackIsSound == AsideIsExhausted /\ OpenAfterStreak
=============================================================================
