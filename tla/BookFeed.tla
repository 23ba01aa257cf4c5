------------------------------ MODULE BookFeed ------------------------------
(***************************************************************************)
(* From a venue to the state its order-book features read: the CCXT        *)
(* adapter, by polling or by stream, publishes for each book a snapshot    *)
(* and then its difference to the book before.  Enrichment feeds snapshots *)
(* to the micro-price, and both to the tracker of order flow.              *)
(***************************************************************************)
EXTENDS Integers, FiniteSets, Sequences

CONSTANTS
    FeedPrices,         \* price levels
    FeedSizes,          \* sizes a level may have, not 0
    MaxPolls,           \* bound on the books that are fetched
    max_levels          \* OFITracker._max_levels

ASSUME BookAssumption ==
    FeedPrices \subseteq Int /\ IsFiniteSet(FeedPrices) /\ FeedSizes \subseteq Nat \ {0}

BookSides == {"bids", "asks"}
Adapters == {"poll", "stream"}

\* A side of a book: the levels that are there.
Levels == UNION {[S -> FeedSizes] : S \in SUBSET FeedPrices}
NoBook == [side \in BookSides |-> << >>]
Present(book) == \E side \in BookSides : DOMAIN book[side] # {}
TwoSided(book) == \A side \in BookSides : DOMAIN book[side] # {}

SizeAt(levels, price) == IF price \in DOMAIN levels THEN levels[price] ELSE 0

VARIABLES
    adapter,        \* which receive loop this is
    connection,     \* _connected, and how far _publish_raw_with_delta is
    fetched_book,   \* the message in work
    prev,           \* _prev_bids and _prev_asks
    messages,       \* observations published and not yet handled
    tracked,        \* OFITracker._book
    flow,           \* sum of the recorded contributions, all inside the window
    micro,          \* the snapshot that the micro-price state is from
    latest,         \* history: the last snapshot handled
    seed,           \* history: the first snapshot handled
    polls

bookVars == <<adapter, connection, fetched_book, prev, messages, tracked, flow, micro, latest, seed, polls>>

BookInit ==
    /\ adapter \in Adapters
    /\ connection = "down"
    /\ fetched_book = NoBook /\ prev = NoBook /\ tracked = NoBook
    /\ messages = << >> /\ flow = 0 /\ polls = 0
    /\ micro = << >> /\ latest = << >> /\ seed = << >>

\* connect: again until it succeeds; the book before is kept.
ConnectVenue ==
    /\ connection = "down"
    /\ connection' = "up"
    /\ UNCHANGED <<adapter, fetched_book, prev, messages, tracked, flow, micro, latest, seed, polls>>

\* A fetch fails: polling connects anew; a stream's error is passed over.
FetchFails ==
    /\ connection = "up" /\ adapter = "poll"
    /\ connection' = "down"
    /\ UNCHANGED <<adapter, fetched_book, prev, messages, tracked, flow, micro, latest, seed, polls>>

\* A message without a timestamp is skipped; another one is published as it is.
ReceiveBook(book, stamped) ==
    /\ connection = "up" /\ polls < MaxPolls
    /\ polls' = polls + 1
    /\ IF stamped
       THEN /\ fetched_book' = book /\ connection' = "published"
            /\ messages' = Append(messages, [delta |-> FALSE, book |-> book])
       ELSE UNCHANGED <<fetched_book, connection, messages>>
    /\ UNCHANGED <<adapter, prev, tracked, flow, micro, latest, seed>>

\* A mutant of Change: the two sizes change places.
Change_Swapped(before, after, price) ==
    [price |-> price, old_size |-> SizeAt(after, price), new_size |-> SizeAt(before, price)]

Change(before, after, price) ==
    [price |-> price, old_size |-> SizeAt(before, price), new_size |-> SizeAt(after, price)]

\* compute_order_book_delta
Changes(before, after) ==
    {Change(before, after, p) : p \in {q \in FeedPrices : SizeAt(before, q) # SizeAt(after, q)}}

\* The difference, if there is a book before and they differ; then the next one.
PublishDelta ==
    LET d == [side \in BookSides |-> Changes(prev[side], fetched_book[side])]
    IN  /\ connection = "published"
        /\ messages' = IF Present(prev) /\ \E side \in BookSides : d[side] # {}
                       THEN Append(messages, [delta |-> TRUE, changes |-> d]) ELSE messages
        /\ prev' = fetched_book
        /\ connection' = "up"
        /\ UNCHANGED <<adapter, fetched_book, tracked, flow, micro, latest, seed, polls>>

-----------------------------------------------------------------------------
\* The order in which the adapter lists changes: what the new book has, by
\* price from its best, and then what is gone.
Better(side, p, q) == IF side = "bids" THEN p > q ELSE p < q

Ordered(side, changes) ==
    CHOOSE s \in [1 .. Cardinality(changes) -> changes] :
        \A i, j \in DOMAIN s : i < j =>
            \/ s[i].new_size > 0 /\ s[j].new_size = 0
            \/ (s[i].new_size > 0) = (s[j].new_size > 0) /\ Better(side, s[i].price, s[j].price)

Rank(side, levels, price) ==
    IF price \in DOMAIN levels THEN Cardinality({q \in DOMAIN levels : Better(side, q, price)}) ELSE max_levels

\* The levels with one changed, or gone.
With(levels, price, size) ==
    [q \in (DOMAIN levels \ {price}) \cup (IF size > 0 THEN {price} ELSE {}) |->
        IF q = price THEN size ELSE levels[q]]

Signed(side, change) == IF side = "bids" THEN change ELSE -change

\* add_delta_event: a level that is new is ranked with it, one that was there as
\* the tracked book has it now; levels that are too deep do not count.
AddDelta(side, levels, changes) ==
    LET s == Ordered(side, changes)
        after[i \in 0 .. Len(s)] ==
            IF i = 0 THEN [levels |-> levels, flow |-> 0]
            ELSE LET c == s[i]
                     before == after[i - 1].levels
                     now == With(before, c.price, c.new_size)
                     level == Rank(side, IF c.old_size > 0 THEN before ELSE now, c.price)
                 IN  [levels |-> now,
                      flow |-> after[i - 1].flow
                               + (IF level < max_levels THEN Signed(side, c.new_size - c.old_size) ELSE 0)]
    IN  after[Len(s)]

\* A mutant of MicroOf: the difference is read as a book.
MicroOf_Any(m) == IF m.delta THEN <<NoBook>> ELSE IF TwoSided(m.book) THEN <<m.book>> ELSE micro

\* update_from_event: from snapshots with two sides.
MicroOf(m) == IF ~m.delta /\ TwoSided(m.book) THEN <<m.book>> ELSE micro

\* ObservationEnrichment.enrich on the next message.
Enrich ==
    LET m == Head(messages)
    IN  /\ messages # << >>
        /\ messages' = Tail(messages)
        /\ micro' = MicroOf(m)
        /\ IF m.delta
           THEN LET r == [side \in BookSides |-> AddDelta(side, tracked[side], m.changes[side])]
                IN  /\ tracked' = [side \in BookSides |-> r[side].levels]
                    /\ flow' = flow + r["bids"].flow + r["asks"].flow
                    /\ UNCHANGED <<latest, seed>>
           ELSE /\ tracked' = m.book /\ latest' = <<m.book>>
                /\ seed' = IF seed = << >> THEN <<m.book>> ELSE seed
                /\ UNCHANGED flow
        /\ UNCHANGED <<adapter, connection, fetched_book, prev, polls>>

BookStep ==
    \/ ConnectVenue \/ FetchFails \/ PublishDelta \/ Enrich
    \/ \E book \in [BookSides -> Levels], stamped \in BOOLEAN : ReceiveBook(book, stamped)

-----------------------------------------------------------------------------
Total(levels) ==
    LET sum[S \in SUBSET FeedPrices] ==
            IF S = {} THEN 0 ELSE LET p == CHOOSE q \in S : TRUE IN SizeAt(levels, p) + sum[S \ {p}]
    IN  sum[FeedPrices]

Pressure(book) == Total(book["bids"]) - Total(book["asks"])

\* The features read one market: the tracked book is the newest snapshot however
\* many differences were laid on it, across reconnects and messages that were
\* skipped, and the micro-price is from a snapshot, the newest if it has two sides
\* (ccxt_adapter.py:438, order_flow.py:103, micro_price.py:24).
FeaturesFollowVenue ==
    latest # << >> =>
        /\ tracked = latest[1]
        /\ TwoSided(latest[1]) => micro = latest
        /\ micro # << >> => TwoSided(micro[1])

\* "OFI contribution of a delta is +-(new_size - old_size): positive for bid
\* increases / ask decreases (buy pressure), negative for the converse"
\* (order_flow.py:53): together they are the change since the first book.
OfiIsNetChange ==
    messages = << >> /\ connection = "up" /\ latest # << >> /\ TwoSided(seed[1]) =>
        flow = Pressure(latest[1]) - Pressure(seed[1])
=============================================================================
