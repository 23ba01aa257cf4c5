---------------------------- MODULE DataSources ----------------------------
(***************************************************************************)
(* One connector of the data fabric                                        *)
(* (infrastructure/data_fabric/connectors, broker/deriv): its life as      *)
(* BaseConnector runs it, the topics it asks its venue for, and what each  *)
(* venue's normaliser makes of a message.  The configuration is the one    *)
(* build_data_fabric_from_env makes when no variable is set: every crypto  *)
(* venue is given the same four channel names.                             *)
(*                                                                         *)
(* The network is the environment: a connect or a subscribe may fail, a    *)
(* stream may close with an error or quietly, a message holds any items.   *)
(***************************************************************************)
EXTENDS Integers, FiniteSets, SequencesExt

CONSTANTS
    Venues,         \* the venues this instance may start with
    Guids,          \* identities of the entries of the news feeds
    SeenMax,        \* RSSNewsConnector._seen_guids_max: 10000
    MaxAttempts,    \* SourceConfig.max_reconnect_attempts: 10
    Items           \* the kinds of items that occur in messages

ASSUME SourceAssumption == SeenMax \in Nat \ {0} /\ MaxAttempts \in Nat \ {0}

Channels == {"trade", "ticker", "book", "candle"}
Sockets == {"binance", "bybit", "coinbase", "gateio", "kraken", "mexc", "deriv"}
Streams == {"oanda", "fxcm"}
Polled == {"central_bank", "forex_factory", "gdelt", "crypto_rss"}

\* What an item can be, as far as a normaliser tells items apart: a zero sent as
\* a number is false in Python and a zero sent as text is not.  A one-sided quote
\* has no bid or no ask, a one-sided book no level.
ItemKinds == {"whole", "one_sided", "zero", "zero_text", "nameless", "forming", "bad"}

\* An item the normaliser keeps is published as one event; a bad one raises and
\* is logged.
Each(items, dropped) == Len(SelectSeq(items, LAMBDA x : x \notin dropped \cup {"bad"}))

-----------------------------------------------------------------------------
(* The topics each venue is asked for, and the number of events published  *)
(* for a message.  Only gateio, mexc and fxcm check that a price is        *)
(* positive; only binance waits for a candle to close.                     *)

\* Streams are named in the URL; an unknown channel means trades.
BinanceAsks(c) == CASE c = "book" -> "depth" [] c = "candle" -> "kline"
                    [] c = "ticker" -> "ticker" [] OTHER -> "trade"

BinanceReads(topic, items) ==
    CASE topic \in {"trade", "depth"} -> Each(items, {})
      [] topic = "ticker" -> Each(items, {"one_sided", "zero"})
      [] topic = "kline" -> Each(items, {"forming"})
      [] OTHER -> 0

\* The channel names are sent as they are configured.
BybitAsks(c) == c

BybitReads(topic, items) ==
    CASE topic \in {"publicTrade", "orderbook.1"} -> Each(items, {})
      [] topic = "tickers" -> Each(items, {"one_sided", "zero"})
      [] OTHER -> 0

CoinbaseAsks(c) == c

CoinbaseReads(topic, items) ==
    CASE topic \in {"trades", "level2"} -> Each(items, {"nameless"})
      [] topic \in {"ticker", "ticker_batch"} -> Each(items, {"nameless", "one_sided", "zero"})
      [] OTHER -> 0

KrakenAsks(c) == c

KrakenReads(topic, items) ==
    CASE topic = "trade" -> Each(items, {"nameless"})
      [] topic = "ticker" -> Each(items, {"nameless", "one_sided", "zero"})
      [] topic = "book" -> Each(items, {"nameless", "one_sided"})
      [] OTHER -> 0

\* A channel of another name is not subscribed.
GateioAsks(c) == CASE c = "trade" -> "spot.trades" [] c = "ticker" -> "spot.book_ticker"
                   [] c = "book" -> "spot.book" [] c = "candle" -> "spot.candlesticks"

GateioReads(topic, items) ==
    CASE topic \in {"spot.trades", "spot.candlesticks"} -> Each(items, {"zero", "zero_text"})
      [] topic = "spot.book_ticker" -> Each(items, {"one_sided", "zero", "zero_text"})
      [] topic = "spot.book" -> Each(items, {"one_sided"})
      [] OTHER -> 0

MexcAsks(c) == CASE c = "ticker" -> "bookTicker" [] c = "book" -> "limit.depth"
                 [] c = "candle" -> "kline" [] OTHER -> "deals"

\* A message whose symbol is neither in its body nor in its topic is dropped.
MexcReads(topic, items) ==
    IF "nameless" \in Range(items) THEN 0
    ELSE CASE topic = "deals" -> Each(items, {"zero", "zero_text"})
           [] topic = "bookTicker" -> Each(items, {"one_sided", "zero", "zero_text"})
           [] topic = "limit.depth" -> Each(items, {"one_sided"})
           [] topic = "kline" -> Each(items, {"zero"})
           [] OTHER -> 0

DerivAsks(c) == IF c = "candle" THEN "candles" ELSE "tick"

\* One handler surrounds all candles of a message: the first bad one ends it.
DerivReads(topic, items) ==
    CASE topic = "tick" -> Each(items, {})
      [] topic = "candles" ->
             LET bad == {i \in DOMAIN items : items[i] = "bad"}
             IN  IF bad = {} THEN Len(items) ELSE Min(bad) - 1
      [] OTHER -> 0

\* Heartbeats are not events.  A price without an instrument cannot be split.
OandaReads(topic, items) ==
    IF topic = "PRICE" THEN Each(items, {"one_sided", "nameless"}) ELSE 0

FxcmReads(topic, items) ==
    IF topic = "quote" THEN Each(items, {"one_sided", "zero", "zero_text", "nameless"}) ELSE 0

\* The topics of the default configuration: CRYPTO_CHANNELS and DERIV_CHANNELS.
Topics(v) ==
    CASE v = "binance" -> {BinanceAsks(c) : c \in Channels}
      [] v = "bybit" -> {BybitAsks(c) : c \in Channels}
      [] v = "coinbase" -> {CoinbaseAsks(c) : c \in Channels}
      [] v = "kraken" -> {KrakenAsks(c) : c \in Channels}
      [] v = "gateio" -> {GateioAsks(c) : c \in Channels}
      [] v = "mexc" -> {MexcAsks(c) : c \in Channels}
      [] v = "deriv" -> {DerivAsks(c) : c \in {"tick", "candle"}}
      [] v = "oanda" -> {"PRICE", "HEARTBEAT"}
      [] v = "fxcm" -> {"quote"}

Reads(v, topic, items) ==
    CASE v = "binance" -> BinanceReads(topic, items)
      [] v = "bybit" -> BybitReads(topic, items)
      [] v = "coinbase" -> CoinbaseReads(topic, items)
      [] v = "kraken" -> KrakenReads(topic, items)
      [] v = "gateio" -> GateioReads(topic, items)
      [] v = "mexc" -> MexcReads(topic, items)
      [] v = "deriv" -> DerivReads(topic, items)
      [] v = "oanda" -> OandaReads(topic, items)
      [] v = "fxcm" -> FxcmReads(topic, items)

-----------------------------------------------------------------------------
VARIABLES
    venue,          \* which connector this is
    running,        \* BaseConnector._running
    stopping,       \* "no", or the task that stop waits for
    freshness,      \* ConnectorState.freshness_state
    reported,       \* connection state on the bus
    reader,         \* the _run task: "none", "reading" or "over"
    monitor,        \* TRUE while the health monitor runs
    attempt,        \* failed attempts of the reconnect task, or NoRetry
    heard,          \* age of last_message_at
    stamp,          \* GDELTConnector._last_timestamp is known
    seen,           \* RSSNewsConnector._seen_guids, oldest first
    listed          \* history: guids seen since an entry was last handled; Guids before

link == <<running, stopping, freshness, reported, reader, monitor, attempt>>
feed == <<seen, listed>>
sourceVars == <<venue, link, heard, stamp, feed>>

NoRetry == -1

SourceInit ==
    /\ venue \in Venues
    /\ running = FALSE /\ stopping = "no"
    /\ freshness = "UNKNOWN" /\ reported = "DISCONNECTED"
    /\ reader = "none" /\ monitor = FALSE
    /\ attempt = NoRetry
    /\ heard = "never"
    /\ stamp = FALSE
    /\ seen = << >>
    /\ listed = [g \in Guids |-> Guids]

-----------------------------------------------------------------------------
(* The life of a connector.                                                *)

\* Opening a session for polling cannot fail; the calendar is fetched while
\* subscribing and a failed fetch raises.
MayFail == venue \notin {"central_bank", "gdelt", "crypto_rss"}

\* Subscribing to a polled source fetches it once.
Fetched(ok) == IF ok /\ venue \in Polled THEN {heard, "fresh"} ELSE {heard}

\* start: a connector that cannot connect has neither monitor nor reader, and
\* keeps them missing when a later attempt succeeds.
Start(ok) ==
    /\ ~running /\ stopping = "no" /\ reader = "none"
    /\ ok \/ MayFail
    /\ running' = TRUE
    /\ IF ok THEN /\ freshness' = "LIVE" /\ reported' = "LIVE"
                  /\ monitor' = TRUE /\ reader' = "reading"
                  /\ UNCHANGED attempt
             ELSE /\ reported' = "ERROR" /\ attempt' = 0
                  /\ UNCHANGED <<freshness, monitor, reader>>
    /\ heard' \in Fetched(ok) /\ stamp' \in (IF ok /\ venue = "gdelt" THEN BOOLEAN ELSE {stamp})
    /\ UNCHANGED <<venue, stopping, feed>>

\* A mutant of ReaderFails: the handler does not ask whether stop was called.
ReaderFails_Always ==
    /\ reader = "reading" /\ venue \notin Polled
    /\ reader' = "over" /\ attempt' = 0
    /\ UNCHANGED <<venue, running, stopping, freshness, reported, monitor, heard, stamp, feed>>

\* An error of the stream ends the reader and begins the reconnect task.
ReaderFails ==
    /\ reader = "reading" /\ venue \notin Polled
    /\ reader' = "over"
    /\ attempt' = IF running THEN 0 ELSE attempt
    /\ UNCHANGED <<venue, running, stopping, freshness, reported, monitor, heard, stamp, feed>>

\* The venue closes the stream normally: the loop of the reader is just over.
ReaderEnds ==
    /\ reader = "reading" /\ venue \notin Polled
    /\ reader' = "over"
    /\ UNCHANGED <<venue, running, stopping, freshness, reported, monitor, attempt, heard, stamp, feed>>

\* A mutant of Reconnect: the freshness of the lost connection is kept.
Reconnect_KeepsFreshness(ok) ==
    /\ attempt \in 0 .. MaxAttempts - 1 /\ ok
    /\ attempt' = NoRetry /\ reported' = "LIVE"
    /\ UNCHANGED <<venue, running, stopping, freshness, reader, monitor, heard, stamp, feed>>

\* One turn of the reconnect task after its delay, which stop does not interrupt
\* at once.  Success connects and subscribes again but starts no reader.
Reconnect(ok) ==
    /\ attempt \in 0 .. MaxAttempts - 1
    /\ ok \/ MayFail
    /\ IF ok THEN attempt' = NoRetry /\ freshness' = "LIVE" /\ reported' = "LIVE"
             ELSE attempt' = attempt + 1 /\ reported' = "RECONNECTING" /\ UNCHANGED freshness
    /\ heard' \in Fetched(ok)
    /\ UNCHANGED <<venue, running, stopping, reader, monitor, stamp, feed>>

\* No attempt is left, or stop was called while it waited.
GiveUp ==
    /\ attempt # NoRetry /\ (~running \/ attempt = MaxAttempts)
    /\ attempt' = NoRetry /\ reported' = "ERROR"
    /\ UNCHANGED <<venue, running, stopping, freshness, reader, monitor, heard, stamp, feed>>

\* Every ten seconds: the age of the last published event against
\* stale_after_seconds and half of it.  Nothing published yet has no age.
Monitor ==
    /\ monitor /\ heard # "never"
    /\ \/ heard = "old" /\ freshness # "STALE" /\ freshness' = "STALE"
       \/ heard = "half" /\ freshness = "LIVE" /\ freshness' = "DEGRADED"
       \/ heard = "fresh" /\ freshness # "LIVE" /\ freshness' = "LIVE"
    /\ reported' = freshness'
    /\ UNCHANGED <<venue, running, stopping, reader, monitor, attempt, heard, stamp, feed>>

TimePasses ==
    /\ heard \in {"fresh", "half"}
    /\ heard' = IF heard = "fresh" THEN "half" ELSE "old"
    /\ UNCHANGED <<venue, link, stamp, feed>>

\* stop cancels the monitor, the reconnect task and the reader, one after the
\* other, and waits for each.
StopBegins ==
    /\ running /\ stopping = "no"
    /\ running' = FALSE /\ stopping' = "monitor"
    /\ UNCHANGED <<venue, freshness, reported, reader, monitor, attempt, heard, stamp, feed>>

StopGoesOn ==
    /\ \/ stopping = "monitor" /\ monitor' = FALSE /\ stopping' = "retry" /\ UNCHANGED <<attempt, reader, reported>>
       \/ stopping = "retry" /\ attempt' = NoRetry /\ stopping' = "reader" /\ UNCHANGED <<monitor, reader, reported>>
       \/ /\ stopping = "reader" /\ reader' = "over" /\ stopping' = "done"
          /\ reported' = "DISCONNECTED"
          /\ UNCHANGED <<monitor, attempt>>
    /\ UNCHANGED <<venue, running, freshness, heard, stamp, feed>>

-----------------------------------------------------------------------------
(* Messages and polls.                                                     *)

\* The topics whose messages are lists.
Listing(v, topic) ==
    \/ v = "kraken"
    \/ <<v, topic>> \in {<<"bybit", "publicTrade">>, <<"bybit", "tickers">>, <<"coinbase", "trades">>,
                        <<"gateio", "spot.trades">>, <<"gateio", "spot.candlesticks">>,
                        <<"mexc", "deals">>, <<"deriv", "candles">>}

Messages(v, topic) ==
    {<<a>> : a \in Items} \cup (IF Listing(v, topic) THEN {<<a, b>> : a, b \in Items} ELSE {})

\* A message of a topic that was asked for.  Only a published event refreshes
\* last_message_at.
Message(topic, items) ==
    /\ reader = "reading" /\ running /\ venue \notin Polled
    /\ heard' = IF Reads(venue, topic, items) > 0 THEN "fresh" ELSE heard
    /\ UNCHANGED <<venue, link, stamp, feed>>

\* The banks' feeds and the GDELT files are not compared with earlier ones;
\* entries without financial words are dropped.
PollBank(relevant) ==
    /\ reader = "reading" /\ running /\ venue = "central_bank"
    /\ heard' = IF relevant THEN "fresh" ELSE heard
    /\ UNCHANGED <<venue, link, stamp, feed>>

\* The file of the last timestamp is read again until it is refused; only then
\* is a newer timestamp asked for.  Without a timestamp nothing is ever read.
PollGdelt(relevant) ==
    /\ reader = "reading" /\ running /\ venue = "gdelt"
    /\ heard' = IF relevant /\ stamp THEN "fresh" ELSE heard
    /\ UNCHANGED <<venue, link, stamp, feed>>

\* The cache is replaced before the entries are compared with it, so that only
\* a scheduled entry that the same poll also holds as released is dropped.
PollCalendar(entries) ==
    /\ reader = "reading" /\ running /\ venue = "forex_factory"
    /\ heard' = IF entries # {} THEN "fresh" ELSE heard
    /\ UNCHANGED <<venue, link, stamp, feed>>

\* A mutant of Remember: the newest entry makes room.
Remember_DropsNewest(g) ==
    IF Len(seen) < SeenMax THEN Append(seen, g) ELSE Append(Front(seen), g)

\* _seen_guids is a dictionary in insertion order with a bound.
Remember(g) == IF Len(seen) < SeenMax THEN Append(seen, g) ELSE Append(Tail(seen), g)

\* An entry is remembered before it is judged: an irrelevant one too.
PollNews(g, relevant) ==
    /\ reader = "reading" /\ running /\ venue = "crypto_rss"
    /\ g \notin Range(seen)
    /\ seen' = Remember(g)
    /\ listed' = [h \in Guids |-> IF h = g THEN {} ELSE listed[h] \cup {g}]
    /\ heard' = IF relevant THEN "fresh" ELSE heard
    /\ UNCHANGED <<venue, link, stamp>>

SourceStep ==
    \/ \E ok \in BOOLEAN : Start(ok) \/ Reconnect(ok)
    \/ ReaderFails \/ ReaderEnds \/ GiveUp \/ Monitor \/ TimePasses
    \/ StopBegins \/ StopGoesOn
    \/ /\ venue \notin Polled
       /\ \E topic \in Topics(venue) : \E items \in Messages(venue, topic) : Message(topic, items)
    \/ \E relevant \in BOOLEAN :
          PollBank(relevant) \/ PollGdelt(relevant) \/ \E g \in Guids : PollNews(g, relevant)
    \/ \E entries \in SUBSET {"scheduled", "released"} : PollCalendar(entries)

-----------------------------------------------------------------------------
(* A source that had published and then falls silent, whatever its reader  *)
(* and the reconnect task do, is not shown as LIVE for ever.               *)
SilenceIsNoticed ==
    running /\ monitor /\ heard = "old" ~> reported # "LIVE" \/ heard # "old" \/ ~running

\* A connector that was stopped stays stopped: no error of its stream that falls
\* between the steps of stop leaves a task that reports a state afterwards.
StopIsFinal == stopping = "done" => reported = "DISCONNECTED" /\ attempt = NoRetry

\* An entry that a feed keeps listing is handled again, and published twice, only
\* after as many other entries as the memory holds were seen (rss_news.py:143-149).
NoEarlyRepeat ==
    [][\A g \in Guids \ Range(seen) :
          g \in Range(seen') /\ listed[g] # Guids => Cardinality(listed[g]) >= SeenMax]_feed

\* A source is neither silent unnoticed nor heard twice: both of the above.
SourcesAreHeard == SilenceIsNoticed /\ NoEarlyRepeat
=============================================================================
