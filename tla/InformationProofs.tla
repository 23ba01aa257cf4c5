-------------------------- MODULE InformationProofs --------------------------
(***************************************************************************)
(* Proofs about the information on its way into the platform: the          *)
(* connectors of the data fabric (DataSources), the macro calendar         *)
(* (MacroCalendar), the stored events that are replayed (EventStore), the  *)
(* venue's order book and its features (BookFeed), the market data         *)
(* between the readers and the market loop (DataFabric), and the process   *)
(* that starts and ends these tasks (ServerLifespan). Each part is proved  *)
(* by itself; they share no state.                                         *)
(***************************************************************************)
EXTENDS DataSources, MacroCalendar, EventStore, BookFeed, DataFabric,
        ServerLifespan, InductionLemmas, FiniteSetTheorems, SequenceTheorems

-----------------------------------------------------------------------------
(***************************************************************************)
(* DataSources: a connector that was stopped stays stopped, and no message *)
(* is heard twice within the memory of its venue.                          *)
(*                                                                         *)
(* stop takes the three tasks away one after the other, and an error of the*)
(* stream may fall between its steps. What each step leaves behind must    *)
(* therefore hold against the tasks that are still there: no monitor after *)
(* the first, no reconnect task after the second.                          *)
(***************************************************************************)

\* The steps that stop has behind it, by the task it waits for next.
StopInv ==
    /\ stopping \in {"no", "monitor", "retry", "reader", "done"}
    /\ stopping # "no" => ~running
    /\ stopping \in {"retry", "reader", "done"} => ~monitor
    /\ stopping \in {"reader", "done"} => attempt = NoRetry
    /\ stopping = "done" => reported = "DISCONNECTED"

LEMMA StopInitially == SourceInit => StopInv
  BY DEF SourceInit, StopInv

LEMMA StopPreserved == StopInv /\ [SourceStep]_sourceVars => StopInv'
<1> SUFFICES ASSUME StopInv, [SourceStep]_sourceVars PROVE StopInv'
  OBVIOUS
<1>1. ASSUME NEW ok \in BOOLEAN, Start(ok) PROVE StopInv'
  BY <1>1 DEF StopInv, Start
<1>2. ASSUME NEW ok \in BOOLEAN, Reconnect(ok) PROVE StopInv'
  \* There is an attempt left to make, so stop has not reached the reader.
  <2>1. stopping \notin {"reader", "done"}
    BY <1>2 DEF StopInv, Reconnect, NoRetry
  <2> QED
    BY <1>2, <2>1 DEF StopInv, Reconnect
<1>3. CASE ReaderFails
  BY <1>3 DEF StopInv, ReaderFails
<1>4. CASE ReaderEnds
  BY <1>4 DEF StopInv, ReaderEnds
<1>5. CASE GiveUp
  BY <1>5 DEF StopInv, GiveUp
<1>6. CASE Monitor
  BY <1>6 DEF StopInv, Monitor
<1>7. CASE TimePasses
  BY <1>7 DEF StopInv, TimePasses, link
<1>8. CASE StopBegins
  BY <1>8 DEF StopInv, StopBegins
<1>9. CASE StopGoesOn
  BY <1>9 DEF StopInv, StopGoesOn
<1>10. ASSUME NEW topic, NEW items, Message(topic, items) PROVE StopInv'
  BY <1>10 DEF StopInv, Message, link
<1>11. ASSUME NEW relevant \in BOOLEAN, PollBank(relevant) \/ PollGdelt(relevant) PROVE StopInv'
  BY <1>11 DEF StopInv, PollBank, PollGdelt, link
<1>12. ASSUME NEW g \in Guids, NEW relevant \in BOOLEAN, PollNews(g, relevant) PROVE StopInv'
  BY <1>12 DEF StopInv, PollNews, link
<1>13. ASSUME NEW entries, PollCalendar(entries) PROVE StopInv'
  BY <1>13 DEF StopInv, PollCalendar, link
<1>14. CASE UNCHANGED sourceVars
  BY <1>14 DEF StopInv, sourceVars, link
<1> QED
  BY <1>1, <1>2, <1>3, <1>4, <1>5, <1>6, <1>7, <1>8, <1>9, <1>10, <1>11, <1>12, <1>13, <1>14
     DEF SourceStep

\* Once stop has returned, the connector is reported DISCONNECTED and no
\* reconnect task is left, whatever failed while stop was under way
\* (BaseConnector.stop, _handle_disconnect, _reconnect_loop).
THEOREM StoppedForGood == SourceInit /\ [][SourceStep]_sourceVars => []StopIsFinal
<1>1. StopInv => StopIsFinal
  BY DEF StopInv, StopIsFinal
<1> QED
  BY StopInitially, StopPreserved, <1>1, PTL

-----------------------------------------------------------------------------
(* The memory of the news feeds.                                           *)

\* Every entry that is remembered was handled before those behind it, and one
\* that was forgotten has seen as many others as the memory holds.
SeenInv ==
    /\ seen \in Seq(Guids) /\ Len(seen) <= SeenMax
    /\ \A i, j \in 1 .. Len(seen) : i # j => seen[i] # seen[j]
    /\ listed \in [Guids -> SUBSET Guids]
    /\ \A g \in Guids : listed[g] # Guids => IsFiniteSet(listed[g])
    /\ \A i, j \in 1 .. Len(seen) : i < j => seen[j] \in listed[seen[i]]
    /\ \A g \in Guids : g \notin Range(seen) /\ listed[g] # Guids =>
          Cardinality(listed[g]) >= SeenMax

LEMMA SeenInitially == SourceInit => SeenInv
<1> SUFFICES ASSUME SourceInit PROVE SeenInv
  OBVIOUS
<1>1. seen = << >> /\ listed = [g \in Guids |-> Guids]
  BY DEF SourceInit
<1>2. Len(<< >>) = 0 /\ 0 <= SeenMax /\ << >> \in Seq(Guids)
  BY SourceAssumption
<1> QED
  BY <1>1, <1>2 DEF SeenInv

\* An entry is remembered, at the cost of the oldest when there is no room.
LEMMA RememberInv ==
  ASSUME SeenInv, NEW g \in Guids, NEW relevant \in BOOLEAN, PollNews(g, relevant)
  PROVE  SeenInv'
<1>1. /\ seen \in Seq(Guids) /\ Len(seen) \in Nat /\ Len(seen) <= SeenMax /\ SeenMax \in Nat /\ SeenMax > 0
      /\ \A i \in 1 .. Len(seen) : seen[i] \in Guids /\ seen[i] # g /\ seen[i] \in Range(seen)
  BY SourceAssumption DEF SeenInv, PollNews, Range
<1>2. seen' = Remember(g) /\ listed' = [h \in Guids |-> IF h = g THEN {} ELSE listed[h] \cup {g}]
  BY DEF PollNews
\* What is left of the old memory: k entries are forgotten, none or one.
<1>3. PICK k \in {0, 1} :
         /\ seen' \in Seq(Guids) /\ Len(seen') = Len(seen) - k + 1 /\ Len(seen') <= SeenMax
         /\ k = 1 => Len(seen) = SeenMax
         /\ \A i \in 1 .. Len(seen) - k : seen'[i] = seen[i + k]
         /\ seen'[Len(seen')] = g
  <2>1. CASE Len(seen) < SeenMax
    <3>1. seen' = Append(seen, g)
      BY <1>2, <2>1 DEF Remember
    <3> QED
      BY <1>1, <2>1, <3>1
  <2>2. CASE ~(Len(seen) < SeenMax)
    <3>1. seen' = Append(Tail(seen), g) /\ Len(seen) = SeenMax /\ seen # << >>
      BY <1>1, <1>2, <2>2 DEF Remember
    <3>2. /\ Tail(seen) \in Seq(Guids) /\ Len(Tail(seen)) = Len(seen) - 1
          /\ \A i \in 1 .. Len(seen) - 1 : Tail(seen)[i] = seen[i + 1]
      BY <1>1, <3>1
    <3> QED
      BY <1>1, <3>1, <3>2
  <2> QED
    BY <2>1, <2>2
<1>4. \A i \in 1 .. Len(seen') : i = Len(seen') \/ (i \in 1 .. Len(seen) - k /\ i + k \in 1 .. Len(seen))
  BY <1>1, <1>3
<1>5. \A i, j \in 1 .. Len(seen') : i # j => seen'[i] # seen'[j]
  <2> SUFFICES ASSUME NEW i \in 1 .. Len(seen'), NEW j \in 1 .. Len(seen'), i # j
               PROVE  seen'[i] # seen'[j]
    OBVIOUS
  <2>1. CASE i = Len(seen') \/ j = Len(seen')
    BY <1>1, <1>3, <1>4, <2>1
  <2>2. CASE i # Len(seen') /\ j # Len(seen')
    <3>1. seen'[i] = seen[i + k] /\ seen'[j] = seen[j + k] /\ i + k # j + k
          /\ i + k \in 1 .. Len(seen) /\ j + k \in 1 .. Len(seen)
      BY <1>3, <1>4, <2>2
    <3> QED
      BY <3>1 DEF SeenInv
  <2> QED
    BY <2>1, <2>2
<1>6. listed' \in [Guids -> SUBSET Guids]
  BY <1>2 DEF SeenInv
<1>7. ASSUME NEW h \in Guids, listed'[h] # Guids PROVE IsFiniteSet(listed'[h])
  <2>1. CASE h = g
    BY <1>2, <2>1, FS_EmptySet
  <2>2. CASE h # g
    <3>1. listed'[h] = listed[h] \cup {g} /\ listed[h] \subseteq Guids
      BY <1>2, <2>2 DEF SeenInv
    <3>2. listed[h] # Guids
      BY <1>7, <3>1
    <3> QED
      BY <3>1, <3>2, FS_AddElement DEF SeenInv
  <2> QED
    BY <2>1, <2>2
<1>8. ASSUME NEW i \in 1 .. Len(seen'), NEW j \in 1 .. Len(seen'), i < j
      PROVE  seen'[j] \in listed'[seen'[i]]
  <2>1. i \in 1 .. Len(seen) - k /\ i + k \in 1 .. Len(seen) /\ seen'[i] = seen[i + k]
    BY <1>3, <1>4, <1>8
  <2>2. seen'[i] \in Guids /\ seen'[i] # g
    BY <1>1, <2>1
  <2>3. listed'[seen'[i]] = listed[seen'[i]] \cup {g}
    BY <1>2, <2>2
  <2>4. CASE j = Len(seen')
    BY <1>3, <2>3, <2>4
  <2>5. CASE j # Len(seen')
    <3>1. seen'[j] = seen[j + k] /\ j + k \in 1 .. Len(seen) /\ i + k < j + k
      BY <1>3, <1>4, <1>8, <2>5
    <3>2. seen[j + k] \in listed[seen[i + k]]
      BY <2>1, <3>1 DEF SeenInv
    <3>3. PICK x, y : x = seen'[i] /\ y = seen'[j]
      OBVIOUS
    <3>4. x = seen[i + k] /\ y = seen[j + k] /\ listed'[x] = listed[x] \cup {g}
      BY <2>1, <2>3, <3>1, <3>3
    <3>5. y \in listed'[x]
      BY <3>2, <3>4
    <3> QED
      BY <3>3, <3>5
  <2> QED
    BY <2>4, <2>5
<1>9. ASSUME NEW h \in Guids, h \notin Range(seen'), listed'[h] # Guids
      PROVE  Cardinality(listed'[h]) >= SeenMax
  <2>1. h # g /\ \A i \in 1 .. Len(seen') : h # seen'[i]
    <3>1. DOMAIN seen' = 1 .. Len(seen') /\ Len(seen') \in 1 .. Len(seen')
      BY <1>1, <1>3
    <3> QED
      BY <1>3, <1>9, <3>1 DEF Range
  <2>2. listed'[h] = listed[h] \cup {g} /\ listed[h] \subseteq Guids /\ listed[h] # Guids
    BY <1>2, <1>9, <2>1 DEF SeenInv
  <2>3. IsFiniteSet(listed[h]) /\ IsFiniteSet(listed'[h])
    BY <1>7, <1>9, <2>2 DEF SeenInv
  <2>4. CASE h \notin Range(seen)
    <3>1. Cardinality(listed[h]) >= SeenMax
      BY <2>2, <2>4 DEF SeenInv
    <3>2. listed[h] \subseteq listed'[h]
      BY <2>2
    <3>3. Cardinality(listed[h]) <= Cardinality(listed'[h])
      BY <2>3, <3>2, FS_Subset
    <3>4. PICK m \in Nat, n \in Nat : m = Cardinality(listed[h]) /\ n = Cardinality(listed'[h])
      BY <2>3, FS_CardinalityType
    <3> QED
      BY <1>1, <3>1, <3>3, <3>4
  <2>5. CASE h \in Range(seen)
    \* h was the oldest entry: all that are left are in its list.
    <3>1. PICK x \in 1 .. Len(seen) : h = seen[x]
      BY <1>1, <2>5 DEF Range
    <3>2. k = 1 /\ x = 1 /\ Len(seen') = SeenMax
      <4>1. ASSUME x - k \in 1 .. Len(seen) - k PROVE FALSE
        <5>1. seen'[x - k] = seen[x] /\ x - k \in 1 .. Len(seen')
          BY <1>1, <1>3, <4>1
        <5> QED
          BY <2>1, <3>1, <5>1
      <4> QED
        BY <1>1, <1>3, <3>1, <4>1
    <3>3. \A i \in 1 .. SeenMax : seen'[i] \in listed'[h]
      <4> SUFFICES ASSUME NEW i \in 1 .. SeenMax PROVE seen'[i] \in listed'[h]
        OBVIOUS
      <4>1. CASE i = SeenMax
        BY <1>3, <2>2, <3>2, <4>1
      <4>2. CASE i # SeenMax
        <5>1. i + 1 \in 1 .. Len(seen) /\ seen'[i] = seen[i + 1] /\ 1 < i + 1 /\ 1 \in 1 .. Len(seen)
          BY <1>1, <1>3, <3>2, <4>2
        <5>2. seen[i + 1] \in listed[seen[1]]
          BY <5>1 DEF SeenInv
        <5> QED
          BY <2>2, <3>1, <3>2, <5>1, <5>2
      <4> QED
        BY <4>1, <4>2
    <3> DEFINE left == [i \in 1 .. SeenMax |-> seen'[i]]
    <3>4. left \in Injection(1 .. SeenMax, listed'[h])
      BY <1>5, <3>2, <3>3 DEF Injection, IsInjective
    <3> HIDE DEF left
    <3>5. Cardinality(1 .. SeenMax) <= Cardinality(listed'[h])
      BY <2>3, <3>4, FS_Injection
    <3>6. Cardinality(1 .. SeenMax) = SeenMax
      <4>1. Cardinality(1 .. SeenMax) = IF 1 > SeenMax THEN 0 ELSE SeenMax - 1 + 1
        BY <1>1, FS_Interval
      <4> QED
        BY <1>1, <4>1
    <3>7. PICK n \in Nat : n = Cardinality(listed'[h])
      BY <2>3, FS_CardinalityType
    <3> QED
      BY <1>1, <3>5, <3>6, <3>7
  <2> QED
    BY <2>4, <2>5
<1> QED
  BY <1>3, <1>5, <1>6, <1>7, <1>8, <1>9 DEF SeenInv

LEMMA SeenPreserved == SeenInv /\ [SourceStep]_sourceVars => SeenInv'
<1> SUFFICES ASSUME SeenInv, [SourceStep]_sourceVars PROVE SeenInv'
  OBVIOUS
<1>1. ASSUME UNCHANGED feed PROVE SeenInv'
  BY <1>1 DEF SeenInv, feed
<1>2. ASSUME NEW g \in Guids, NEW relevant \in BOOLEAN, PollNews(g, relevant) PROVE SeenInv'
  BY <1>2, RememberInv
<1>3. ASSUME NEW ok \in BOOLEAN, Start(ok) \/ Reconnect(ok) PROVE UNCHANGED feed
  BY <1>3 DEF Start, Reconnect
<1>4. ASSUME ReaderFails \/ ReaderEnds \/ GiveUp \/ Monitor \/ TimePasses \/ StopBegins \/ StopGoesOn
      PROVE  UNCHANGED feed
  BY <1>4 DEF ReaderFails, ReaderEnds, GiveUp, Monitor, TimePasses, StopBegins, StopGoesOn
<1>5. ASSUME NEW topic, NEW items, Message(topic, items) PROVE UNCHANGED feed
  BY <1>5 DEF Message
<1>6. ASSUME NEW relevant \in BOOLEAN, PollBank(relevant) \/ PollGdelt(relevant) PROVE UNCHANGED feed
  BY <1>6 DEF PollBank, PollGdelt
<1>7. ASSUME NEW entries, PollCalendar(entries) PROVE UNCHANGED feed
  BY <1>7 DEF PollCalendar
<1>8. ASSUME UNCHANGED sourceVars PROVE UNCHANGED feed
  BY <1>8 DEF sourceVars
<1> QED
  BY <1>1, <1>2, <1>3, <1>4, <1>5, <1>6, <1>7, <1>8 DEF SourceStep

\* An entry that a feed keeps listing is handled again only after as many other
\* entries as the memory holds, for any feeds and any size of the memory
\* (rss_news.py:143-149).
THEOREM HeardOnce == SourceInit /\ [][SourceStep]_sourceVars => NoEarlyRepeat
<1>1. SeenInv => [\A g \in Guids \ Range(seen) :
          g \in Range(seen') /\ listed[g] # Guids => Cardinality(listed[g]) >= SeenMax]_feed
  BY DEF SeenInv
<1> QED
  BY SeenInitially, SeenPreserved, <1>1, PTL DEF NoEarlyRepeat

-----------------------------------------------------------------------------
(***************************************************************************)
(* MacroCalendar: a release is published once, for any feed and any number *)
(* of polls, failures, withdrawals and stops.                              *)
(*                                                                         *)
(* What the platform knows of an event lags behind the feed: rows, then    *)
(* what the poll under way was told, then the feed itself. Ahead counts the*)
(* releases that this chain still holds in store; published, lost and held *)
(* ones together never exceed one for the event and one for each           *)
(* withdrawal.                                                             *)
(***************************************************************************)

EventState == {"absent", "scheduled", "released"}
Sweep == [pc : {"storing", "publishing"}, said : [MacroEventData -> EventState], item : MacroEventData]

CalendarTypeOK ==
    /\ hour \in Int
    /\ listing \in [MacroEventData -> EventState]
    /\ rows \in [MacroEventData -> EventState]
    /\ sweep \in {NoPoll} \cup Sweep
    /\ releases \in [MacroEventData -> Nat]
    /\ risen \in [MacroEventData -> Nat]
    /\ cut \in [MacroEventData -> Nat]
    /\ withdrawn \in Nat /\ crashes \in Nat

\* The poll under way has yet to store what it was told of e.
Due(e) == sweep \in Sweep /\ (sweep.item < e \/ (sweep.item = e /\ sweep.pc = "storing"))

Rise(before, after) == IF before = "scheduled" /\ after = "released" THEN 1 ELSE 0
Yet(e) == IF listing[e] = "released" THEN 0 ELSE 1

Ahead(e) ==
    IF Due(e) THEN Rise(rows[e], sweep.said[e]) + Rise(sweep.said[e], listing[e]) + Yet(e)
    ELSE Rise(rows[e], listing[e]) + Yet(e)

\* Nothing is known of an event before the feed has listed it, nor stored before
\* the poll was told.
Known(e) ==
    /\ listing[e] = "absent" => rows[e] = "absent"
    /\ sweep \in Sweep /\ listing[e] = "absent" => sweep.said[e] = "absent"
    /\ Due(e) /\ sweep.said[e] = "absent" => rows[e] = "absent"

Pending(e) == IF sweep # NoPoll /\ sweep.pc = "publishing" /\ sweep.item = e THEN 1 ELSE 0

Account(e) ==
    /\ Known(e)
    /\ releases[e] + cut[e] + Pending(e) = risen[e]
    /\ risen[e] + Ahead(e) <= 1 + withdrawn

CalendarInv == CalendarTypeOK /\ \A e \in MacroEventData : Account(e)

-----------------------------------------------------------------------------
LEMMA FeedDomain == MacroEventData = 1 .. Len(weekly) /\ Len(weekly) \in Nat
  BY CalendarAssumption DEF MacroEventData

\* A sweep is never the record of no poll.
LEMMA NoPollAsleep == NoPoll \notin Sweep /\ NoPoll.pc = "asleep"
  BY DEF NoPoll, Sweep

\* The next item of a sweep is an event, or the poll is over.
LEMMA NextItemTyped ==
  ASSUME NEW s \in Sweep
  PROVE  /\ NextItem(s) \in {NoPoll} \cup Sweep
         /\ s.item = Len(weekly) => NextItem(s) = NoPoll
         /\ s.item # Len(weekly) =>
               /\ NextItem(s) \in Sweep
               /\ NextItem(s).pc = "storing" /\ NextItem(s).item = s.item + 1
               /\ NextItem(s).said = s.said
<1>1. CASE s.item = Len(weekly)
  BY <1>1 DEF NextItem
<1>2. CASE s.item # Len(weekly)
  <2>1. s.item + 1 \in MacroEventData
    BY <1>2, FeedDomain DEF Sweep
  <2>2. NextItem(s) = [pc |-> "storing", said |-> s.said, item |-> s.item + 1]
    BY <1>2 DEF NextItem, Sweep
  <2> QED
    BY <1>2, <2>1, <2>2 DEF Sweep
<1> QED
  BY <1>1, <1>2

LEMMA CalendarInitially == CalendarInit => CalendarInv
<1> SUFFICES ASSUME CalendarInit PROVE CalendarInv
  OBVIOUS
<1>1. CalendarTypeOK
  BY NoPollAsleep DEF CalendarInit, CalendarTypeOK, EventState
<1>2. ASSUME NEW e \in MacroEventData PROVE Account(e)
  BY <1>2, NoPollAsleep DEF CalendarInit, Account, Known, Due, Pending, Ahead, Rise, Yet
<1> QED
  BY <1>1, <1>2 DEF CalendarInv

-----------------------------------------------------------------------------
(* The feed and the clock.                                                 *)

LEMMA HourInv == CalendarInv /\ HourPasses => CalendarInv'
  BY DEF CalendarInv, CalendarTypeOK, Account, Known, Due, Pending, Ahead, Rise, Yet, HourPasses

LEMMA FeedInv ==
  ASSUME CalendarInv, NEW x \in MacroEventData, FeedChanges(x)
  PROVE  CalendarInv'
<1>1. CalendarTypeOK'
  BY DEF CalendarInv, CalendarTypeOK, EventState, FeedChanges
<1>2. ASSUME NEW e \in MacroEventData PROVE Account(e)'
  <2>1. Account(e) /\ CalendarTypeOK
    BY <1>2 DEF CalendarInv
  <2>2. Due(e)' <=> Due(e)
    BY DEF FeedChanges, Due
  <2>3. Pending(e)' = Pending(e)
    BY DEF FeedChanges, Pending
  <2>4. CASE x # e
    <3>1. listing'[e] = listing[e]
      BY <2>4, <2>1 DEF FeedChanges, CalendarTypeOK
    <3>2. Ahead(e)' = Ahead(e) /\ Known(e)'
      BY <2>1, <2>2, <3>1 DEF FeedChanges, Ahead, Rise, Yet, Account, Known
    <3> QED
      BY <2>1, <2>3, <3>2 DEF FeedChanges, Account, CalendarTypeOK, Ahead, Rise, Yet
  <2>5. CASE x = e
    <3>1. Known(e)'
      BY <2>1, <2>2, <2>5 DEF FeedChanges, CalendarTypeOK, Account, Known
    <3>2. Ahead(e)' + withdrawn <= Ahead(e) + withdrawn'
      BY <2>1, <2>2, <2>5 DEF FeedChanges, CalendarTypeOK, Ahead, Rise, Yet
    <3>3. risen'[e] = risen[e] /\ releases' = releases /\ cut' = cut
      BY DEF FeedChanges
    <3>4. Ahead(e) \in Int /\ Ahead(e)' \in Int /\ withdrawn \in Int /\ withdrawn' \in Int
      BY <2>1, <1>1 DEF CalendarTypeOK, Ahead, Rise, Yet
    <3>5. risen[e] \in Int
      BY <2>1 DEF CalendarTypeOK
    <3>6. risen'[e] + Ahead(e)' <= 1 + withdrawn'
      BY <2>1, <3>2, <3>3, <3>4, <3>5 DEF Account
    <3> QED
      BY <2>1, <2>3, <3>1, <3>3, <3>6 DEF Account
  <2> QED
    BY <2>4, <2>5
<1> QED
  BY <1>1, <1>2 DEF CalendarInv

-----------------------------------------------------------------------------
(* The poll.                                                               *)

LEMMA PollInv ==
  ASSUME CalendarInv, Poll
  PROVE  CalendarInv'
<1>1. 1 \in MacroEventData
  BY FeedDomain, CalendarAssumption DEF Poll
<1>2. sweep' \in Sweep /\ sweep'.said = listing /\ sweep'.item = 1 /\ sweep'.pc = "storing"
  BY <1>1 DEF CalendarInv, CalendarTypeOK, Poll, Sweep
<1>3. CalendarTypeOK'
  BY <1>2 DEF CalendarInv, CalendarTypeOK, Poll
<1>4. ASSUME NEW e \in MacroEventData PROVE Account(e)'
  <2>1. Account(e) /\ CalendarTypeOK /\ ~Due(e) /\ Pending(e) = 0
    BY <1>4, NoPollAsleep DEF CalendarInv, Poll, Due, Pending
  <2>2. Due(e)' /\ Pending(e)' = 0
    BY <1>2, <1>4, FeedDomain DEF Due, Pending
  <2>3. Known(e)'
    BY <2>1, <2>2, <1>2 DEF Account, Known, Poll
  <2>4. Ahead(e)' = Ahead(e)
    BY <2>1, <2>2, <1>2 DEF Poll, Ahead, Rise, Yet
  <2> QED
    BY <2>1, <2>2, <2>3, <2>4 DEF Account, Poll, CalendarTypeOK, Ahead, Rise, Yet
<1> QED
  BY <1>3, <1>4 DEF CalendarInv

\* Where a sweep goes on, the same events are due as after the item it leaves.
LEMMA Leaves ==
  ASSUME CalendarTypeOK, sweep \in Sweep, NEW e \in MacroEventData,
         sweep' = NextItem(sweep)
  PROVE  /\ Due(e)' <=> sweep.item < e
         /\ Due(e)' => sweep' \in Sweep /\ sweep'.said = sweep.said
         /\ sweep' \in Sweep => sweep'.said = sweep.said
         /\ Pending(e)' = 0
<1>1. e \in Int /\ sweep.item \in Int /\ e <= Len(weekly)
  BY FeedDomain DEF Sweep
<1>2. CASE sweep.item = Len(weekly)
  <2>1. sweep' = NoPoll
    BY <1>2, NextItemTyped
  <2> QED
    BY <2>1, <1>1, <1>2, NoPollAsleep DEF Due, Pending
<1>3. CASE sweep.item # Len(weekly)
  <2>1. sweep' \in Sweep /\ sweep'.item = sweep.item + 1 /\ sweep'.pc = "storing" /\ sweep'.said = sweep.said
    BY <1>3, NextItemTyped
  <2> QED
    BY <2>1, <1>1 DEF Due, Pending
<1> QED
  BY <1>2, <1>3

LEMMA UpsertInv ==
  ASSUME CalendarInv, Upsert
  PROVE  CalendarInv'
<1> DEFINE i == sweep.item
           after == sweep.said[i]
<1>1. sweep \in Sweep /\ i \in MacroEventData /\ after \in EventState /\ CalendarTypeOK
  BY NoPollAsleep DEF CalendarInv, CalendarTypeOK, Upsert, Sweep
<1>2. CASE after = "absent"
  <2>1. sweep' = NextItem(sweep) /\ UNCHANGED <<rows, risen, releases, cut, listing, withdrawn, hour, crashes>>
    BY <1>2 DEF Upsert
  <2>2. CalendarTypeOK'
    BY <1>1, <2>1, NextItemTyped DEF CalendarTypeOK
  <2>3. ASSUME NEW e \in MacroEventData PROVE Account(e)'
    <3>1. Account(e) /\ (Due(e) <=> i <= e) /\ Pending(e) = 0
      BY <2>3, <1>1, FeedDomain DEF CalendarInv, Due, Pending, Upsert
    <3>2. Due(e)' <=> i < e
      BY <1>1, <2>1, Leaves
    <3>3. Due(e)' => sweep'.said = sweep.said
      BY <1>1, <2>1, Leaves
    <3>4. sweep' \in Sweep => sweep'.said = sweep.said
      BY <1>1, <2>1, Leaves
    <3>5. Pending(e)' = 0
      BY <1>1, <2>1, Leaves
    <3>6. CASE e = i
      <4>1. Due(e) /\ ~Due(e)' /\ rows[e] = "absent"
        BY <3>6, <3>1, <3>2, <1>1, <1>2, FeedDomain DEF Account, Known
      <4>2. Ahead(e)' = Ahead(e)
        BY <4>1, <3>6, <1>2, <2>1 DEF Ahead, Rise, Yet
      <4>3. Known(e)'
        BY <4>1, <3>1, <3>4, <2>1, <1>1 DEF Account, Known
      <4> QED
        BY <4>2, <4>3, <3>1, <3>5, <2>1 DEF Account
    <3>7. CASE e # i
      <4>1. Due(e)' <=> Due(e)
        BY <3>7, <3>1, <3>2, <1>1, FeedDomain
      <4>2. Ahead(e)' = Ahead(e)
        BY <4>1, <3>3, <2>1 DEF Ahead, Rise, Yet
      <4>3. Known(e)'
        BY <4>1, <3>1, <3>3, <3>4, <2>1, <1>1 DEF Account, Known
      <4> QED
        BY <4>2, <4>3, <3>1, <3>5, <2>1 DEF Account
    <3> QED
      BY <3>6, <3>7
  <2> QED
    BY <2>2, <2>3 DEF CalendarInv
<1>3. CASE after # "absent"
  <2>1. /\ rows' = [rows EXCEPT ![i] = after]
        /\ risen' = [risen EXCEPT ![i] = @ + Rise(rows[i], after)]
        /\ UNCHANGED <<releases, cut, listing, withdrawn, hour, crashes>>
    BY <1>3 DEF Upsert, Rise
  <2>2. \/ Rise(rows[i], after) = 1 /\ sweep' = [sweep EXCEPT !.pc = "publishing"]
        \/ Rise(rows[i], after) = 0 /\ sweep' = NextItem(sweep)
    BY <1>3 DEF Upsert, Rise, IsRelease
  <2>3. /\ sweep' \in {NoPoll} \cup Sweep
        /\ sweep' \in Sweep => sweep'.said = sweep.said
        /\ \A e \in MacroEventData : /\ Due(e)' <=> i < e
                                     /\ Pending(e)' = IF e = i THEN Rise(rows[i], after) ELSE 0
    <3>1. CASE sweep' = NextItem(sweep) /\ Rise(rows[i], after) = 0
      BY <3>1, <1>1, NextItemTyped, Leaves
    <3>2. CASE Rise(rows[i], after) = 1 /\ sweep' = [sweep EXCEPT !.pc = "publishing"]
      <4>1. sweep' \in Sweep /\ sweep'.said = sweep.said /\ sweep'.item = i /\ sweep'.pc = "publishing"
        BY <3>2, <1>1 DEF Sweep
      <4> QED
        BY <4>1, <3>2, <1>1, FeedDomain, NoPollAsleep DEF Due, Pending
    <3> QED
      BY <2>2, <3>1, <3>2
  <2>4. Rise(rows[i], after) \in Nat
    BY DEF Rise
  <2>5. CalendarTypeOK'
    BY <1>1, <2>1, <2>3, <2>4 DEF CalendarTypeOK
  <2>6. ASSUME NEW e \in MacroEventData PROVE Account(e)'
    <3>1. Account(e) /\ (Due(e) <=> i <= e) /\ Pending(e) = 0
      BY <2>6, <1>1, FeedDomain DEF CalendarInv, Due, Pending, Upsert
    <3>2. Due(e)' <=> i < e
      BY <2>3
    <3>3. Due(e)' => sweep'.said = sweep.said
      BY <2>3 DEF Due
    <3>4. CASE e = i
      <4>1. Due(e) /\ ~Due(e)' /\ rows'[e] = after /\ risen'[e] = risen[e] + Rise(rows[e], after)
        BY <3>4, <3>1, <3>2, <2>1, <1>1, FeedDomain DEF CalendarTypeOK
      <4>2. Ahead(e) = Rise(rows[e], after) + Ahead(e)'
        BY <4>1, <3>4, <2>1 DEF Ahead, Rise, Yet
      <4>3. Known(e)'
        BY <4>1, <3>1, <3>4, <2>1, <2>3, <1>1, <1>3 DEF Account, Known
      <4>4. Ahead(e)' \in Int /\ risen[e] \in Int
        BY <1>1 DEF CalendarTypeOK, Ahead, Rise, Yet
      <4>5. Pending(e)' = Rise(rows[e], after)
        BY <2>3, <3>4
      <4>6. releases[e] \in Int /\ cut[e] \in Int /\ withdrawn \in Int
        BY <1>1 DEF CalendarTypeOK
      <4>7. risen'[e] + Ahead(e)' <= 1 + withdrawn'
        BY <4>1, <4>2, <4>4, <2>4, <3>1, <3>4, <2>1, <4>6 DEF Account
      <4>8. releases'[e] + cut'[e] + Pending(e)' = risen'[e]
        BY <4>1, <4>4, <4>5, <4>6, <2>4, <3>1, <3>4, <2>1 DEF Account
      <4> QED
        BY <4>3, <4>7, <4>8 DEF Account
    <3>5. CASE e # i
      <4>1. (Due(e)' <=> Due(e)) /\ rows'[e] = rows[e] /\ risen'[e] = risen[e] /\ Pending(e)' = 0
        BY <3>5, <3>1, <3>2, <2>1, <2>3, <1>1, FeedDomain DEF CalendarTypeOK
      <4>2. Ahead(e)' = Ahead(e)
        BY <4>1, <3>3, <2>1 DEF Ahead, Rise, Yet
      <4>3. Known(e)'
        BY <4>1, <3>1, <3>3, <2>1, <2>3, <1>1 DEF Account, Known
      <4> QED
        BY <4>1, <4>2, <4>3, <3>1, <2>1 DEF Account
    <3> QED
      BY <3>4, <3>5
  <2> QED
    BY <2>5, <2>6 DEF CalendarInv
<1> QED
  BY <1>2, <1>3
-----------------------------------------------------------------------------
(* The ends of a poll.                                                     *)

\* A poll that is dropped forgets what it was told: nothing more can rise from it
\* than from the feed itself.
LEMMA Dropped ==
  ASSUME CalendarInv, sweep' = NoPoll, UNCHANGED <<listing, rows, risen, withdrawn>>,
         NEW e \in MacroEventData
  PROVE  Known(e)' /\ Pending(e)' = 0 /\ risen'[e] + Ahead(e)' <= 1 + withdrawn'
<1>1. CalendarTypeOK /\ Account(e)
  BY DEF CalendarInv
<1>2. ~Due(e)' /\ Pending(e)' = 0 /\ sweep' \notin Sweep
  BY NoPollAsleep DEF Due, Pending
<1>3. Known(e)'
  BY <1>1, <1>2 DEF Account, Known
<1>4. Ahead(e)' <= Ahead(e)
  <2>1. Ahead(e)' = Rise(rows[e], listing[e]) + Yet(e)
    BY <1>2 DEF Ahead, Yet
  <2>2. CASE ~Due(e)
    BY <2>1, <2>2, <1>1 DEF Ahead, Yet, Rise
  <2>3. CASE Due(e)
    <3>1. sweep.said[e] \in EventState
      BY <2>3 DEF Due, Sweep
    <3>2. Rise(rows[e], listing[e]) <= Rise(rows[e], sweep.said[e]) + Rise(sweep.said[e], listing[e])
      BY <3>1, <2>3, <1>1 DEF EventState, Rise, Account, Known
    <3>3. Ahead(e) = Rise(rows[e], sweep.said[e]) + Rise(sweep.said[e], listing[e]) + Yet(e)
      BY <2>3 DEF Ahead
    <3> QED
      BY <2>1, <3>2, <3>3 DEF Yet, Rise
  <2> QED
    BY <2>2, <2>3
<1>5. Ahead(e) \in Int /\ Ahead(e)' \in Int /\ risen[e] \in Int /\ withdrawn \in Int
  BY <1>1 DEF CalendarTypeOK, Ahead, Rise, Yet
<1> QED
  BY <1>1, <1>2, <1>3, <1>4, <1>5 DEF Account

LEMMA UpsertFailsInv ==
  ASSUME CalendarInv, UpsertFails
  PROVE  CalendarInv'
<1>1. CalendarTypeOK'
  BY DEF CalendarInv, CalendarTypeOK, UpsertFails
<1>2. ASSUME NEW e \in MacroEventData PROVE Account(e)'
  <2>1. Account(e) /\ Pending(e) = 0
    BY <1>2 DEF CalendarInv, Pending, UpsertFails
  <2>2. Known(e)' /\ Pending(e)' = 0 /\ risen'[e] + Ahead(e)' <= 1 + withdrawn'
    BY <1>2, Dropped DEF UpsertFails
  <2> QED
    BY <2>1, <2>2 DEF Account, UpsertFails
<1> QED
  BY <1>1, <1>2 DEF CalendarInv

LEMMA StoppedInv ==
  ASSUME CalendarInv, Stopped
  PROVE  CalendarInv'
<1>1. sweep \in Sweep /\ CalendarTypeOK /\ sweep.item \in MacroEventData
  BY DEF CalendarInv, CalendarTypeOK, Stopped, Sweep
<1>2. CalendarTypeOK'
  BY <1>1 DEF CalendarTypeOK, Stopped
<1>3. ASSUME NEW e \in MacroEventData PROVE Account(e)'
  <2>1. Account(e)
    BY <1>3 DEF CalendarInv
  <2>2. Known(e)' /\ Pending(e)' = 0 /\ risen'[e] + Ahead(e)' <= 1 + withdrawn'
    BY <1>3, Dropped DEF Stopped
  <2>3. cut'[e] = cut[e] + Pending(e)
    BY <1>1, <1>3 DEF CalendarTypeOK, Stopped, Pending
  <2>4. releases' = releases /\ risen' = risen /\ releases[e] \in Int /\ cut[e] \in Int /\ Pending(e) \in Int
    BY <1>1 DEF CalendarTypeOK, Stopped, Pending
  <2>5. releases'[e] + cut'[e] + Pending(e)' = risen'[e]
    BY <2>1, <2>2, <2>3, <2>4 DEF Account
  <2> QED
    BY <2>2, <2>5 DEF Account
<1> QED
  BY <1>2, <1>3 DEF CalendarInv

LEMMA PublishInv ==
  ASSUME CalendarInv, PublishRelease
  PROVE  CalendarInv'
<1>1. sweep \in Sweep /\ CalendarTypeOK /\ sweep.item \in MacroEventData /\ sweep' = NextItem(sweep)
  BY NoPollAsleep DEF CalendarInv, CalendarTypeOK, PublishRelease, Sweep
<1>2. CalendarTypeOK'
  BY <1>1, NextItemTyped DEF CalendarTypeOK, PublishRelease
<1>3. ASSUME NEW e \in MacroEventData PROVE Account(e)'
  <2>1. Account(e) /\ (Due(e) <=> sweep.item < e)
    BY <1>1, <1>3, FeedDomain DEF CalendarInv, Due, PublishRelease
  <2>2. (Due(e)' <=> Due(e)) /\ (Due(e)' => sweep'.said = sweep.said) /\ Pending(e)' = 0
    BY <2>1, <1>1, <1>3, Leaves
  <2>3. sweep' \in Sweep => sweep'.said = sweep.said
    BY <1>1, <1>3, Leaves
  <2>4. releases'[e] = releases[e] + Pending(e)
    BY <1>1, <1>3, NoPollAsleep DEF CalendarTypeOK, PublishRelease, Pending
  <2>5. UNCHANGED <<listing, rows, risen, cut, withdrawn>>
    BY DEF PublishRelease
  <2>6. Known(e)'
    BY <2>1, <2>2, <2>3, <2>5, <1>1 DEF Account, Known
  <2>7. Ahead(e)' = Ahead(e)
    BY <2>2, <2>5 DEF Ahead, Rise, Yet
  <2>8. releases[e] \in Int /\ cut[e] \in Int /\ Pending(e) \in Int
    BY <1>1 DEF CalendarTypeOK, Pending
  <2> QED
    BY <2>1, <2>2, <2>4, <2>5, <2>6, <2>7, <2>8 DEF Account
<1> QED
  BY <1>2, <1>3 DEF CalendarInv

-----------------------------------------------------------------------------
LEMMA CalendarPreserved == CalendarInv /\ [CalendarStep]_calendarVars => CalendarInv'
<1> SUFFICES ASSUME CalendarInv, [CalendarStep]_calendarVars PROVE CalendarInv'
  OBVIOUS
<1>1. CASE HourPasses
  BY <1>1, HourInv
<1>2. CASE Poll
  BY <1>2, PollInv
<1>3. CASE Upsert
  BY <1>3, UpsertInv
<1>4. CASE UpsertFails
  BY <1>4, UpsertFailsInv
<1>5. CASE PublishRelease
  BY <1>5, PublishInv
<1>6. CASE Stopped
  BY <1>6, StoppedInv
<1>7. CASE \E e \in MacroEventData : FeedChanges(e)
  BY <1>7, FeedInv
<1>8. CASE UNCHANGED calendarVars
  BY <1>8 DEF calendarVars, CalendarInv, CalendarTypeOK, Account, Known, Due, Pending, Ahead, Rise, Yet
<1> QED
  BY <1>1, <1>2, <1>3, <1>4, <1>5, <1>6, <1>7, <1>8 DEF CalendarStep

\* What is accounted for leaves no room for a second publication.
LEMMA AccountedOnce == CalendarInv => ReleasePublishedOnce
<1> SUFFICES ASSUME CalendarInv, NEW e \in MacroEventData
             PROVE  /\ releases[e] + cut[e] + Pending(e) = risen[e]
                    /\ risen[e] <= 1 + withdrawn
  BY DEF ReleasePublishedOnce, Pending
<1>1. CalendarTypeOK /\ Account(e)
  BY DEF CalendarInv
<1>2. Ahead(e) \in Nat /\ risen[e] \in Nat /\ withdrawn \in Nat
  BY <1>1 DEF CalendarTypeOK, Ahead, Rise, Yet
<1> QED
  BY <1>1, <1>2 DEF Account

\* A release is published once for each time that the feed gave it, in any feed,
\* with any number of polls, failed stores, withdrawals and stops; what a stop
\* between the store and the bus loses is the only one missing
\* (MacroCalendarService.poll_once, MacroRepository.upsert).
THEOREM ReleaseOnce == CalendarInit /\ [][CalendarStep]_calendarVars => []ReleasePublishedOnce
<1>1. CalendarInit => CalendarInv
  BY CalendarInitially
<1>2. CalendarInv /\ [CalendarStep]_calendarVars => CalendarInv'
  BY CalendarPreserved
<1>3. CalendarInv => ReleasePublishedOnce
  BY AccountedOnce
<1> QED
  BY <1>1, <1>2, <1>3, PTL

-----------------------------------------------------------------------------
(***************************************************************************)
(* EventStore: what is stored is what was published, and a replay that     *)
(* nothing disturbed publishes what it found.                              *)
(*                                                                         *)
(* A session reads its rows in pieces while live events are stored beside  *)
(* them and another session may reset the engine. What it has published,   *)
(* what it holds back and what it has yet to read therefore add up for a   *)
(* session only while it is undisturbed, and that is what is invariant.    *)
(***************************************************************************)

Replays ==
    [status : {"pending", "running", "cancelled", "completed", "failed"},
     rows : Seq(Row), delayed : Seq(Row), replayed : Nat, total : Nat]

\* What a session that nothing disturbed has published, holds back, and has yet
\* to read is what it found; and while it runs, the flag of the engine is its own.
Undisturbed(i) ==
    /\ Running(i) => replaying /\ \A j \in Sessions : Running(j) => j = i
    /\ session[i].status \in {"running", "completed"} =>
          session[i].replayed + Len(session[i].delayed) + Len(session[i].rows) = session[i].total
    /\ session[i].status = "completed" => session[i].rows = << >> /\ session[i].delayed = << >>

SessionInv(i) ==
    /\ session[i].status = "pending" => session[i] = NoSession
    /\ session[i].delayed # << >> => Running(i) /\ Len(session[i].delayed) = 1
    /\ session[i].status = "cancelled" => i \in disturbed
    /\ i \notin disturbed => Undisturbed(i)

StoreInv ==
    /\ StoreTypeOK
    /\ session \in [Sessions -> Replays]
    /\ IsFiniteSet(stored) /\ OneRowPerEvent
    /\ \A i \in Sessions : SessionInv(i)

LEMMA OriginalIsRow ==
  ASSUME NEW f \in Feeds, NEW n \in Nat
  PROVE  Original(f, n) \in Row /\ ~Original(f, n).replay
         /\ Original(f, n).feed = f /\ Original(f, n).n = n
<1>1. "original" \in Edition /\ FALSE \in BOOLEAN
  BY DEF Edition
<1> QED
  BY <1>1 DEF Original, Row

LEMMA NoSessionTyped == NoSession \in Replays /\ NoSession.status = "pending"
                        /\ NoSession.delayed = << >> /\ NoSession.rows = << >>
                        /\ NoSession.replayed = 0 /\ NoSession.total = 0
  BY DEF NoSession, Replays

LEMMA StoreInitially == StoreInit => StoreInv
<1> SUFFICES ASSUME StoreInit PROVE StoreInv
  OBVIOUS
<1>1. stored = {Original(f, 0) : f \in OldRows} /\ OldRows \subseteq Feeds /\ IsFiniteSet(OldRows)
  BY StoreAssumption DEF StoreInit
<1>2. stored \subseteq Row
  BY <1>1, OriginalIsRow
<1>3. OneRowPerEvent
  <2> SUFFICES ASSUME NEW r \in stored, NEW t \in stored
               PROVE  ~r.replay /\ (r.feed = t.feed /\ r.n = t.n => r = t)
    BY DEF OneRowPerEvent
  <2>1. PICK f \in OldRows : r = Original(f, 0)
    BY <1>1
  <2>2. PICK g \in OldRows : t = Original(g, 0)
    BY <1>1
  <2> QED
    BY <1>1, <2>1, <2>2, OriginalIsRow
<1>4. IsFiniteSet(stored)
  <2> DEFINE original == [f \in OldRows |-> Original(f, 0)]
  <2>1. original \in Surjection(OldRows, stored)
    BY <1>1 DEF Surjection
  <2> QED
    BY <1>1, <2>1, FS_Surjection
<1>5. StoreTypeOK
  <2>1. number \in [Feeds -> Nat]
    BY DEF StoreInit
  <2>2. persist_queue \in Seq(Row) /\ batch \in Seq(Row)
    BY DEF StoreInit
  <2>3. snapshots \subseteq Feeds /\ replaying \in BOOLEAN
    BY DEF StoreInit
  <2> QED
    BY <1>2, <2>1, <2>2, <2>3 DEF StoreTypeOK
<1>6. session \in [Sessions -> Replays]
  BY NoSessionTyped DEF StoreInit
<1>7. ASSUME NEW i \in Sessions PROVE SessionInv(i)
  <2>1. session[i] = NoSession
    BY DEF StoreInit
  <2> QED
    BY <2>1, NoSessionTyped DEF SessionInv, Undisturbed, Running
<1> QED
  BY <1>3, <1>4, <1>5, <1>6, <1>7 DEF StoreInv

-----------------------------------------------------------------------------
(* The writer.                                                             *)

\* A publication queues rows of known feeds and leaves the rest alone.
LEMMA PublishedTyped ==
  ASSUME StoreTypeOK, NEW found \in Seq(Row), Published(found)
  PROVE  persist_queue' \in Seq(Row) /\ snapshots' \subseteq Feeds
<1>1. \A r \in Row : r.feed \in Feeds
  BY DEF Row
<1>2. \A r \in Range(found) : r \in Row
  BY DEF Range
<1> QED
  BY <1>1, <1>2 DEF Published, StoreTypeOK

\* What a step leaves alone when it is not about the table or the sessions.
LEMMA SessionsKept ==
  ASSUME StoreInv, StoreTypeOK', UNCHANGED <<stored, replays>>
  PROVE  StoreInv'
  BY DEF StoreInv, OneRowPerEvent, SessionInv, Undisturbed, Running, replays

LEMMA PublishLiveInv ==
  ASSUME StoreInv, NEW f \in Feeds, NEW found, PublishLive(f, found)
  PROVE  StoreInv'
<1> DEFINE e == Original(f, number[f])
           better == [e EXCEPT !.version = "enriched"]
<1>1. number[f] \in Nat /\ e \in Row
  BY OriginalIsRow DEF StoreInv, StoreTypeOK
<1>2. better \in Row
  BY <1>1 DEF Row, Edition
<1>3. found \in {<<e>>, <<e, better>>, <<better, e>>}
  BY DEF PublishLive
<1> HIDE DEF e, better
<1>4. found \in Seq(Row)
  <2>1. CASE found = <<e>>
    BY <1>1, <2>1
  <2>2. CASE found = <<e, better>>
    BY <1>1, <1>2, <2>2
  <2>3. CASE found = <<better, e>>
    BY <1>1, <1>2, <2>3
  <2> QED
    BY <1>3, <2>1, <2>2, <2>3
<1>5. persist_queue' \in Seq(Row) /\ snapshots' \subseteq Feeds
  BY <1>4, PublishedTyped DEF PublishLive, StoreInv
<1>6. StoreTypeOK'
  BY <1>1, <1>5 DEF PublishLive, StoreInv, StoreTypeOK, replays
<1> QED
  BY <1>6, SessionsKept DEF PublishLive

LEMMA TakeBatchInv == StoreInv /\ TakeBatch => StoreInv'
<1> SUFFICES ASSUME StoreInv, TakeBatch PROVE StoreInv'
  OBVIOUS
<1> DEFINE k == Min({MaxBatch, Len(persist_queue)})
<1>1. persist_queue \in Seq(Row) /\ Len(persist_queue) \in Nat /\ MaxBatch \in Nat
  BY StoreAssumption DEF StoreInv, StoreTypeOK
<1>2. k \in Nat /\ k <= Len(persist_queue)
  <2>1. PICK m \in {MaxBatch, Len(persist_queue)} : \A y \in {MaxBatch, Len(persist_queue)} : m <= y
    BY <1>1
  <2>2. k \in {MaxBatch, Len(persist_queue)} /\ \A y \in {MaxBatch, Len(persist_queue)} : k <= y
    BY <2>1 DEF Min
  <2> QED
    BY <1>1, <2>2
<1>3. batch' = SubSeq(persist_queue, 1, k)
      /\ persist_queue' = SubSeq(persist_queue, k + 1, Len(persist_queue))
  BY DEF TakeBatch
<1> HIDE DEF k
<1>4. batch' \in Seq(Row)
  BY <1>1, <1>2, <1>3, SubSeqProperties
<1>5. persist_queue' \in Seq(Row)
  BY <1>1, <1>2, <1>3, SubSeqProperties
<1>6. StoreTypeOK'
  BY <1>4, <1>5 DEF TakeBatch, StoreInv, StoreTypeOK, replays
<1> QED
  BY <1>6, SessionsKept DEF TakeBatch

\* A batch of originals replaces the rows of their ids, each id by its last row.
LEMMA ReplacedFaithful ==
  ASSUME NEW found \in SUBSET Row, IsFiniteSet(found), NEW b \in Seq(Row),
         \A r, t \in found : ~r.replay /\ (r.feed = t.feed /\ r.n = t.n => r = t),
         \A r \in Range(b) : ~r.replay
  PROVE  /\ Replaced(found, b) \subseteq Row /\ IsFiniteSet(Replaced(found, b))
         /\ \A r, t \in Replaced(found, b) : ~r.replay /\ (r.feed = t.feed /\ r.n = t.n => r = t)
<1> DEFINE kept == {r \in found : ~\E i \in DOMAIN b : SameId(r, b[i])}
           last == {j \in DOMAIN b : ~\E k \in j + 1 .. Len(b) : SameId(b[j], b[k])}
           new == {b[i] : i \in last}
<1>1. DOMAIN b = 1 .. Len(b) /\ Len(b) \in Nat /\ \A i \in DOMAIN b : b[i] \in Row /\ ~b[i].replay
  BY DEF Range
<1>2. Replaced(found, b) = kept \cup new
  BY DEF Replaced
<1>3. kept \subseteq Row /\ new \subseteq Row
  BY <1>1
<1>4. IsFiniteSet(kept)
  BY FS_Subset
<1>5. IsFiniteSet(new)
  <2> DEFINE row == [i \in last |-> b[i]]
  <2>1. IsFiniteSet(DOMAIN b)
    BY <1>1, FS_Interval
  <2>2. IsFiniteSet(last)
    BY <2>1, FS_Subset
  <2>3. row \in Surjection(last, new)
    BY DEF Surjection
  <2> HIDE DEF row, last, new
  <2> QED
    BY <2>2, <2>3, FS_Surjection
<1>6. ASSUME NEW r \in kept \cup new, NEW t \in kept \cup new
      PROVE  ~r.replay /\ (r.feed = t.feed /\ r.n = t.n => r = t)
  <2>1. ~r.replay /\ ~t.replay
    BY <1>1
  <2>2. ASSUME r.feed = t.feed, r.n = t.n PROVE r = t
    <3>1. CASE r \in kept /\ t \in kept
      BY <2>2, <3>1
    <3>2. SameId(r, t) /\ SameId(t, r)
      <4>1. r.replay \in BOOLEAN /\ t.replay \in BOOLEAN
        BY <1>3 DEF Row
      <4>2. r.replay = t.replay
        BY <2>1, <4>1, Zenon
      <4> QED
        BY <2>2, <4>2 DEF SameId
    <3>3. CASE r \in kept /\ t \in new
      BY <3>2, <3>3
    <3>4. CASE r \in new /\ t \in kept
      BY <3>2, <3>4
    <3>5. CASE r \in new /\ t \in new
      <4>1. PICK i \in last : r = b[i]
        BY <3>5
      <4>2. PICK j \in last : t = b[j]
        BY <3>5
      <4>3. i \in 1 .. Len(b) /\ j \in 1 .. Len(b)
        BY <1>1
      <4>4. ~(i < j)
        BY <4>1, <4>2, <4>3, <3>2
      <4>5. ~(j < i)
        BY <4>1, <4>2, <4>3, <3>2
      <4> QED
        BY <4>1, <4>2, <4>3, <4>4, <4>5
    <3> QED
      BY <3>1, <3>3, <3>4, <3>5
  <2> QED
    BY <2>1, <2>2
<1>7. IsFiniteSet(kept \cup new)
  BY <1>4, <1>5, FS_Union
<1> QED
  BY <1>2, <1>3, <1>6, <1>7

LEMMA FlushInv ==
  ASSUME StoreInv, NEW ok \in BOOLEAN, Flush(ok)
  PROVE  StoreInv'
<1>1. CASE stored' = stored
  BY <1>1, SessionsKept DEF Flush, events, StoreInv, StoreTypeOK, replays
<1>2. CASE stored' # stored
  <2>1. stored' = Replaced(stored, batch) /\ \A r \in Range(batch) : ~r.replay
    BY <1>2 DEF Flush
  <2>2. /\ stored' \subseteq Row /\ IsFiniteSet(stored')
        /\ \A r, t \in stored' : ~r.replay /\ (r.feed = t.feed /\ r.n = t.n => r = t)
    BY <2>1, ReplacedFaithful DEF StoreInv, StoreTypeOK, OneRowPerEvent
  <2>3. UNCHANGED <<events, replays>> /\ batch' = << >>
    BY DEF Flush
  <2>4. StoreTypeOK'
    BY <2>2, <2>3 DEF StoreInv, StoreTypeOK, events, replays
  <2> QED
    BY <2>2, <2>3, <2>4
       DEF StoreInv, OneRowPerEvent, SessionInv, Undisturbed, Running, replays
<1> QED
  BY <1>1, <1>2
-----------------------------------------------------------------------------
(* The sessions.  A step of session i writes only its own record and, but  *)
(* for the next row, ends or takes the flag of the engine.                 *)

\* A row read from the table is a row.
LEMMA ReadRows ==
  ASSUME StoreInv, NEW found \in InTimeOrder(stored)
  PROVE  found \in Seq(Row)
<1>1. Cardinality(stored) \in Nat
  BY FS_CardinalityType DEF StoreInv
<1>2. found \in [1 .. Cardinality(stored) -> stored]
  BY DEF InTimeOrder, SetToSeqs
<1>3. stored \subseteq Row
  BY DEF StoreInv, StoreTypeOK
<1> QED
  BY <1>1, <1>2, <1>3

\* When i changes and the table does not, the invariant is that i's new record is
\* good and that the others still are.
LEMMA OneSession ==
  ASSUME StoreInv, StoreTypeOK', UNCHANGED stored, NEW i \in Sessions, NEW s \in Replays,
         session' = [session EXCEPT ![i] = s],
         SessionInv(i)',
         \A j \in Sessions \ {i} : SessionInv(j)'
  PROVE  StoreInv'
  BY DEF StoreInv, OneRowPerEvent

LEMMA RunSessionInv ==
  ASSUME StoreInv, NEW i \in Sessions, NEW found \in InTimeOrder(stored), RunSession(i, found)
  PROVE  StoreInv'
<1> DEFINE s == [session[i] EXCEPT !.status = "running", !.rows = found, !.total = Len(found)]
<1>1. found \in Seq(Row) /\ Len(found) \in Nat
  BY ReadRows
<1>2. session[i] = NoSession
  BY DEF StoreInv, SessionInv, RunSession, SessionBegins
<1>3. s = [status |-> "running", rows |-> found, delayed |-> << >>, replayed |-> 0, total |-> Len(found)]
  <2>1. PICK a : a = [session[i] EXCEPT !.status = "running"]
    OBVIOUS
  <2>2. a = [status |-> "running", rows |-> << >>, delayed |-> << >>, replayed |-> 0, total |-> 0]
    BY <1>2, <2>1 DEF NoSession
  <2>3. PICK b : b = [a EXCEPT !.rows = found]
    OBVIOUS
  <2>4. b = [status |-> "running", rows |-> found, delayed |-> << >>, replayed |-> 0, total |-> 0]
    BY <2>2, <2>3
  <2>5. s = [b EXCEPT !.total = Len(found)]
    BY <2>1, <2>3
  <2> HIDE DEF s
  <2> QED
    BY <2>4, <2>5
<1>4. s \in Replays
  <2>1. << >> \in Seq(Row)
    OBVIOUS
  <2> HIDE DEF s
  <2> QED
    BY <1>1, <1>3, <2>1 DEF Replays
<1>5. session' = [session EXCEPT ![i] = s]
  BY DEF RunSession, SessionBegins
<1> HIDE DEF s
<1>6. session'[i] = s /\ \A j \in Sessions \ {i} : session'[j] = session[j]
  BY <1>5 DEF StoreInv
<1>7. StoreTypeOK'
  BY DEF StoreInv, StoreTypeOK, RunSession, SessionBegins, events
<1>8. /\ (\E j \in Sessions : Running(j)) =>
             i \in disturbed' /\ \A j \in Sessions : Running(j) => j \in disturbed'
      /\ disturbed \subseteq disturbed'
  BY DEF RunSession, SessionBegins
<1>9. SessionInv(i)'
  <2>1. Undisturbed(i)' \/ i \in disturbed'
    <3>1. CASE \E j \in Sessions : Running(j)
      BY <1>8, <3>1
    <3>2. CASE ~\E j \in Sessions : Running(j)
      <4>1. \A j \in Sessions : Running(j)' => j = i
        BY <1>6, <3>2 DEF Running
      <4>2. replaying'
        BY DEF RunSession
      <4>3. Len(<< >>) = 0 /\ 0 + 0 + Len(found) = Len(found)
        BY <1>1
      <4>4. /\ session'[i].replayed + Len(session'[i].delayed) + Len(session'[i].rows) = session'[i].total
            /\ session'[i].status = "running"
        BY <1>3, <1>6, <4>3
      <4> QED
        BY <4>1, <4>2, <4>4 DEF Undisturbed
    <3> QED
      BY <3>1, <3>2
  <2> QED
    BY <1>3, <1>6, <2>1 DEF SessionInv
<1>10. ASSUME NEW j \in Sessions \ {i} PROVE SessionInv(j)'
  <2>1. SessionInv(j) /\ session'[j] = session[j] /\ (Running(j)' <=> Running(j))
    BY <1>6 DEF StoreInv, Running
  <2>2. Running(j) => j \in disturbed'
    BY <1>8
  <2> QED
    BY <1>8, <2>1, <2>2 DEF SessionInv, Undisturbed
<1>11. UNCHANGED stored
  BY DEF RunSession, SessionBegins
<1> QED
  BY <1>4, <1>5, <1>7, <1>9, <1>10, <1>11, OneSession

\* A session whose engine is stopped, while another runs, was disturbed; so the
\* others lose nothing when i ends, moves on or is cancelled.
LEMMA OthersKept ==
  ASSUME StoreInv, NEW i \in Sessions, Running(i), NEW s,
         session' = [session EXCEPT ![i] = s],
         disturbed \subseteq disturbed'
  PROVE  \A j \in Sessions \ {i} : SessionInv(j)'
<1> SUFFICES ASSUME NEW j \in Sessions \ {i} PROVE SessionInv(j)'
  OBVIOUS
<1>1. session'[j] = session[j] /\ (Running(j)' <=> Running(j))
  BY DEF StoreInv, Running
<1>2. SessionInv(j)
  BY DEF StoreInv
<1>3. Running(j) => j \in disturbed'
  BY <1>2 DEF SessionInv, Undisturbed
<1> QED
  BY <1>1, <1>2, <1>3 DEF SessionInv, Undisturbed

LEMMA NextRowInv ==
  ASSUME StoreInv, NEW i \in Sessions, NextRow(i)
  PROVE  StoreInv'
<1> DEFINE s == [session[i] EXCEPT !.rows = Tail(@), !.delayed = <<Head(session[i].rows)>>]
<1>1. /\ session[i] \in Replays /\ Running(i) /\ session[i].delayed = << >>
      /\ session[i].rows # << >> /\ replaying /\ SessionInv(i)
  BY DEF NextRow, Looping, StoreInv
<1>2. /\ session[i].rows \in Seq(Row) /\ session[i].status # "pending" /\ session[i].status # "completed"
      /\ session[i].replayed \in Nat
  BY <1>1 DEF Replays, Running
<1>3. /\ Tail(session[i].rows) \in Seq(Row) /\ Head(session[i].rows) \in Row
      /\ Len(session[i].rows) = Len(Tail(session[i].rows)) + 1
      /\ Len(Tail(session[i].rows)) \in Nat
  BY <1>1, <1>2
<1>4. s = [status |-> session[i].status, rows |-> Tail(session[i].rows),
           delayed |-> <<Head(session[i].rows)>>, replayed |-> session[i].replayed,
           total |-> session[i].total]
  <2>1. PICK a : a = [session[i] EXCEPT !.rows = Tail(@)]
    OBVIOUS
  <2>2. a = [status |-> session[i].status, rows |-> Tail(session[i].rows),
             delayed |-> session[i].delayed, replayed |-> session[i].replayed,
             total |-> session[i].total]
    BY <1>1, <2>1 DEF Replays
  <2>3. s = [a EXCEPT !.delayed = <<Head(session[i].rows)>>]
    BY <2>1
  <2> HIDE DEF s
  <2> QED
    BY <2>2, <2>3
<1>5. s \in Replays
  <2>1. <<Head(session[i].rows)>> \in Seq(Row)
    BY <1>3
  <2> HIDE DEF s
  <2> QED
    BY <1>1, <1>3, <1>4, <2>1 DEF Replays
<1>6. session' = [session EXCEPT ![i] = s]
  BY DEF NextRow
<1> HIDE DEF s
<1>7. session'[i] = s
  BY <1>6 DEF StoreInv
<1>8. UNCHANGED <<stored, replaying, disturbed>> /\ StoreTypeOK'
  BY DEF NextRow, StoreInv, StoreTypeOK, events
<1>9. SessionInv(i)'
  <2>1. Len(<<Head(session[i].rows)>>) = 1 /\ <<Head(session[i].rows)>> # << >>
    OBVIOUS
  <2>2. Running(i)' /\ s.status = session[i].status
    BY <1>1, <1>4, <1>7 DEF Running
  <2>3. Len(s.delayed) = 1
    BY <1>4, <2>1
  <2>4. i \notin disturbed => Undisturbed(i)'
    <3> SUFFICES ASSUME i \notin disturbed PROVE Undisturbed(i)'
      OBVIOUS
    <3>1. Undisturbed(i)
      BY <1>1 DEF SessionInv
    <3>2. \A j \in Sessions : Running(j)' => j = i
      BY <1>1, <1>6, <3>1 DEF Undisturbed, Running, StoreInv
    <3>3. session[i].status = "running" =>
            s.replayed + Len(s.delayed) + Len(s.rows) = s.total
      <4>1. Len(session[i].delayed) = 0
        BY <1>1
      <4>2. s.replayed = session[i].replayed /\ s.total = session[i].total
            /\ Len(s.rows) = Len(Tail(session[i].rows))
        BY <1>4
      <4> QED
        BY <1>2, <1>3, <2>3, <3>1, <4>1, <4>2, SMTT(30) DEF Undisturbed
    <3> QED
      BY <1>1, <1>2, <1>7, <1>8, <2>2, <3>2, <3>3 DEF Undisturbed
  <2> QED
    BY <1>1, <1>2, <1>7, <1>8, <2>2, <2>3, <2>4 DEF SessionInv
<1>10. \A j \in Sessions \ {i} : SessionInv(j)'
  BY <1>1, <1>6, <1>8, OthersKept
<1> QED
  BY <1>5, <1>6, <1>8, <1>9, <1>10, OneSession
\* A running session that loses its flag, or its last delayed row, or its turn:
\* what is to be shown of its new record.
LEMMA SessionEnds ==
  ASSUME StoreInv, StoreTypeOK', UNCHANGED stored, disturbed \subseteq disturbed',
         NEW i \in Sessions, Running(i), NEW s \in Replays,
         session' = [session EXCEPT ![i] = s],
         s.delayed = << >>,
         s.status \in {"cancelled", "failed"} => s.status = "failed" \/ i \in disturbed',
         s.status \in {"cancelled", "failed", "completed"},
         s.status = "completed" /\ i \notin disturbed' =>
             s.rows = << >> /\ s.replayed = s.total
  PROVE  StoreInv'
<1>1. session'[i] = s
  BY DEF StoreInv
<1>2. SessionInv(i)'
  <2>1. i \in disturbed' \/ Undisturbed(i)'
    <3> SUFFICES ASSUME i \notin disturbed' PROVE Undisturbed(i)'
      OBVIOUS
    <3>1. s.status # "cancelled" /\ s.status # "running"
      OBVIOUS
    <3>2. ~Running(i)'
      BY <1>1, <3>1 DEF Running
    <3>3. s.status = "completed" => s.replayed + Len(s.delayed) + Len(s.rows) = s.total
      <4>1. s.replayed \in Nat
        BY DEF Replays
      <4>2. Len(<< >>) = 0
        OBVIOUS
      <4> QED
        BY <4>1, <4>2
    <3> QED
      BY <1>1, <3>1, <3>2, <3>3 DEF Undisturbed
  <2> QED
    BY <1>1, <2>1 DEF SessionInv
<1>3. \A j \in Sessions \ {i} : SessionInv(j)'
  BY OthersKept
<1> QED
  BY <1>2, <1>3, OneSession

LEMMA ReplayEndsInv ==
  ASSUME StoreInv, NEW i \in Sessions, ReplayEnds(i)
  PROVE  StoreInv'
<1>1. PICK s : s = [session[i] EXCEPT !.status = "completed"]
  OBVIOUS
<1>2. /\ session[i] \in Replays /\ Running(i) /\ session[i].delayed = << >> /\ SessionInv(i)
      /\ ~replaying \/ session[i].rows = << >>
  BY DEF ReplayEnds, Looping, StoreInv
<1>3. s = [status |-> "completed", rows |-> session[i].rows, delayed |-> session[i].delayed,
           replayed |-> session[i].replayed, total |-> session[i].total]
  BY <1>1, <1>2 DEF Replays
<1>4. s \in Replays
  BY <1>2, <1>3 DEF Replays
<1>5. session' = [session EXCEPT ![i] = s] /\ UNCHANGED <<stored, disturbed>>
  BY <1>1 DEF ReplayEnds
<1>6. StoreTypeOK'
  BY DEF ReplayEnds, StoreInv, StoreTypeOK, events
<1>7. ASSUME i \notin disturbed PROVE s.rows = << >> /\ s.replayed = s.total
  <2>1. Undisturbed(i) /\ session[i].status = "running"
    BY <1>2, <1>7 DEF SessionInv, Running
  <2>2. session[i].rows = << >>
    BY <1>2, <2>1 DEF Undisturbed
  <2>3. Len(session[i].delayed) = 0 /\ Len(session[i].rows) = 0 /\ session[i].replayed \in Nat
        /\ session[i].total \in Nat
    BY <1>2, <2>2 DEF Replays
  <2> QED
    BY <1>3, <2>1, <2>2, <2>3 DEF Undisturbed
<1> QED
  BY <1>2, <1>3, <1>4, <1>5, <1>6, <1>7, SessionEnds

LEMMA CancelInv ==
  ASSUME StoreInv, NEW i \in Sessions, CancelSession(i)
  PROVE  StoreInv'
<1>1. PICK s : s = [session[i] EXCEPT !.status = "cancelled"]
  OBVIOUS
<1>2. session[i] \in Replays /\ Running(i) /\ SessionInv(i)
  BY DEF CancelSession, StoreInv, Running
<1>3. s = [status |-> "cancelled", rows |-> session[i].rows, delayed |-> session[i].delayed,
           replayed |-> session[i].replayed, total |-> session[i].total]
  BY <1>1, <1>2 DEF Replays
<1>4. s \in Replays
  BY <1>2, <1>3 DEF Replays
<1>5. session' = [session EXCEPT ![i] = s] /\ UNCHANGED stored /\ disturbed' = disturbed \cup {i}
  BY <1>1 DEF CancelSession
<1>6. StoreTypeOK'
  BY DEF CancelSession, StoreInv, StoreTypeOK, events
<1>7. session'[i] = s
  BY <1>5 DEF StoreInv
<1>8. SessionInv(i)'
  BY <1>2, <1>3, <1>5, <1>7 DEF SessionInv, Running
<1>9. \A j \in Sessions \ {i} : SessionInv(j)'
  BY <1>2, <1>5, OthersKept
<1> QED
  BY <1>4, <1>5, <1>6, <1>8, <1>9, OneSession

LEMMA TaskCancelledInv ==
  ASSUME StoreInv, NEW i \in Sessions, TaskCancelled(i)
  PROVE  StoreInv'
<1>1. PICK s : s = [session[i] EXCEPT !.delayed = << >>, !.status = "completed"]
  OBVIOUS
<1>2. session[i] \in Replays /\ Running(i)
  BY DEF TaskCancelled, StoreInv
<1>3. s = [status |-> "completed", rows |-> session[i].rows, delayed |-> << >>,
           replayed |-> session[i].replayed, total |-> session[i].total]
  BY <1>1, <1>2 DEF Replays
<1>4. s \in Replays
  BY <1>2, <1>3 DEF Replays
<1>5. session' = [session EXCEPT ![i] = s] /\ UNCHANGED stored /\ disturbed' = disturbed \cup {i}
  BY <1>1 DEF TaskCancelled
<1>6. StoreTypeOK'
  BY DEF TaskCancelled, StoreInv, StoreTypeOK, events
<1> QED
  BY <1>2, <1>3, <1>4, <1>5, <1>6, SessionEnds

\* The delayed row is published, or its source is unknown and the session fails.
LEMMA ReplayRowInv ==
  ASSUME StoreInv, NEW i \in Sessions, ReplayRow(i)
  PROVE  StoreInv'
<1> DEFINE row == session[i].delayed[1]
<1>1. /\ session[i] \in Replays /\ SessionInv(i) /\ session[i].delayed # << >>
      /\ UNCHANGED <<number, batch, stored, disturbed>>
  BY DEF ReplayRow, StoreInv
<1>2. Running(i) /\ Len(session[i].delayed) = 1 /\ session[i].delayed \in Seq(Row)
      /\ session[i].rows \in Seq(Row) /\ session[i].replayed \in Nat /\ session[i].total \in Nat
  BY <1>1 DEF SessionInv, Replays
<1>3. row \in Row
  BY <1>2
<1> HIDE DEF row
<1>4. CASE row.feed \in snapshots
  <2> DEFINE again == [row EXCEPT !.replay = TRUE]
  <2>1. Published(<<again>>) /\ UNCHANGED replaying
    BY <1>4 DEF ReplayRow, row
  <2>2. again \in Row
    BY <1>3 DEF Row
  <2> HIDE DEF again
  <2>3. <<again>> \in Seq(Row)
    BY <2>2
  <2>4. StoreTypeOK'
    BY <1>1, <2>1, <2>3, PublishedTyped DEF StoreInv, StoreTypeOK
  <2>5. PICK a : a = [session[i] EXCEPT !.delayed = << >>]
    OBVIOUS
  <2>6. a = [status |-> session[i].status, rows |-> session[i].rows, delayed |-> << >>,
             replayed |-> session[i].replayed, total |-> session[i].total]
    BY <1>1, <2>5 DEF Replays
  <2>7. PICK s : s = [a EXCEPT !.replayed = @ + 1]
    OBVIOUS
  <2>8. s = [status |-> session[i].status, rows |-> session[i].rows, delayed |-> << >>,
             replayed |-> session[i].replayed + 1, total |-> session[i].total]
    BY <2>6, <2>7
  <2>9. s \in Replays
    <3>1. << >> \in Seq(Row)
      OBVIOUS
    <3> QED
      BY <1>1, <1>2, <2>8, <3>1 DEF Replays
  <2>10. session' = [session EXCEPT ![i] = s]
    <3>1. session' = [session EXCEPT ![i].delayed = << >>, ![i].replayed = session[i].replayed + 1]
      BY <1>4 DEF ReplayRow, row
    <3>2. s = [a EXCEPT !.replayed = session[i].replayed + 1]
      BY <2>6, <2>7
    <3> QED
      BY <2>5, <3>1, <3>2
  <2>11. session'[i] = s
    BY <2>10 DEF StoreInv
  <2>12. SessionInv(i)'
    <3>1. i \notin disturbed => Undisturbed(i)'
      <4> SUFFICES ASSUME i \notin disturbed PROVE Undisturbed(i)'
        OBVIOUS
      <4>1. Undisturbed(i) /\ session[i].status = "running"
        BY <1>1, <1>2 DEF SessionInv, Running
      <4>2. \A j \in Sessions : Running(j)' => j = i
        BY <1>2, <2>10, <4>1 DEF Undisturbed, Running, StoreInv
      <4>3. replaying'
        BY <1>2, <2>1, <4>1 DEF Undisturbed
      <4>4. s.replayed + Len(s.delayed) + Len(s.rows) = s.total
        <5>1. Len(s.delayed) = 0 /\ s.replayed = session[i].replayed + 1
              /\ Len(s.rows) = Len(session[i].rows) /\ s.total = session[i].total
          BY <2>8
        <5>2. Len(session[i].rows) \in Nat
          BY <1>2
        <5> QED
          BY <1>2, <4>1, <5>1, <5>2 DEF Undisturbed
      <4>5. session'[i].status = "running"
        BY <2>8, <2>11, <4>1
      <4> QED
        BY <2>11, <4>2, <4>3, <4>4, <4>5 DEF Undisturbed
    <3> QED
      BY <1>1, <1>2, <2>8, <2>11, <3>1 DEF SessionInv, Running
  <2>13. \A j \in Sessions \ {i} : SessionInv(j)'
    BY <1>1, <1>2, <2>10, OthersKept
  <2> QED
    BY <1>1, <2>4, <2>9, <2>10, <2>12, <2>13, OneSession
<1>5. CASE row.feed \notin snapshots
  <2>1. replaying' = FALSE /\ UNCHANGED <<snapshots, persist_queue>>
    BY <1>5 DEF ReplayRow, row
  <2>2. StoreTypeOK'
    BY <1>1, <2>1 DEF StoreInv, StoreTypeOK
  <2>3. PICK a : a = [session[i] EXCEPT !.delayed = << >>]
    OBVIOUS
  <2>4. a = [status |-> session[i].status, rows |-> session[i].rows, delayed |-> << >>,
             replayed |-> session[i].replayed, total |-> session[i].total]
    BY <1>1, <2>3 DEF Replays
  <2>5. PICK s : s = [a EXCEPT !.status = "failed"]
    OBVIOUS
  <2>6. s = [status |-> "failed", rows |-> session[i].rows, delayed |-> << >>,
             replayed |-> session[i].replayed, total |-> session[i].total]
    BY <2>4, <2>5
  <2>7. s \in Replays
    <3>1. << >> \in Seq(Row)
      OBVIOUS
    <3> QED
      BY <1>1, <1>2, <2>6, <3>1 DEF Replays
  <2>8. session' = [session EXCEPT ![i] = s]
    <3>1. session' = [session EXCEPT ![i].delayed = << >>, ![i].status = "failed"]
      BY <1>5 DEF ReplayRow, row
    <3>2. s = [session[i] EXCEPT !.delayed = << >>, !.status = "failed"]
      BY <2>3, <2>5
    <3> QED
      BY <3>1, <3>2
  <2> QED
    BY <1>1, <1>2, <2>2, <2>6, <2>7, <2>8, SessionEnds
<1> QED
  BY <1>4, <1>5

-----------------------------------------------------------------------------
LEMMA StorePreserved == StoreInv /\ [StoreStep]_storeVars => StoreInv'
<1> SUFFICES ASSUME StoreInv, [StoreStep]_storeVars PROVE StoreInv'
  OBVIOUS
<1>1. ASSUME NEW f \in Feeds, NEW found, PublishLive(f, found) PROVE StoreInv'
  BY <1>1, PublishLiveInv
<1>2. CASE TakeBatch
  BY <1>2, TakeBatchInv
<1>3. ASSUME NEW ok \in BOOLEAN, Flush(ok) PROVE StoreInv'
  BY <1>3, FlushInv
<1>4. ASSUME NEW i \in Sessions, NEW found \in InTimeOrder(stored), RunSession(i, found) PROVE StoreInv'
  BY <1>4, RunSessionInv
<1>5. ASSUME NEW i \in Sessions, NextRow(i) PROVE StoreInv'
  BY <1>5, NextRowInv
<1>6. ASSUME NEW i \in Sessions, ReplayRow(i) PROVE StoreInv'
  BY <1>6, ReplayRowInv
<1>7. ASSUME NEW i \in Sessions, ReplayEnds(i) PROVE StoreInv'
  BY <1>7, ReplayEndsInv
<1>8. ASSUME NEW i \in Sessions, CancelSession(i) PROVE StoreInv'
  BY <1>8, CancelInv
<1>9. ASSUME NEW i \in Sessions, TaskCancelled(i) PROVE StoreInv'
  BY <1>9, TaskCancelledInv
<1>10. CASE UNCHANGED storeVars
  BY <1>10, SessionsKept DEF storeVars, events, replays, StoreInv, StoreTypeOK
<1> QED
  BY <1>1, <1>2, <1>3, <1>4, <1>5, <1>6, <1>7, <1>8, <1>9, <1>10 DEF StoreStep

\* The table of observations holds one version of every event and no replayed
\* row, and a replay that nothing disturbed has published every row it found,
\* for any feeds, batches, sessions and failures of the database
\* (event_bus.py, replay.py:193-217).
THEOREM StoreKeepsFaith == StoreInit /\ [][StoreStep]_storeVars => []StoreIsFaithful
<1>1. StoreInv => StoreIsFaithful
  <2> SUFFICES ASSUME StoreInv PROVE UndisturbedSessionComplete
    BY DEF StoreInv, StoreIsFaithful
  <2> SUFFICES ASSUME NEW i \in Sessions, session[i].status = "completed", i \notin disturbed
               PROVE  session[i].rows = << >> /\ session[i].replayed = session[i].total
    BY DEF UndisturbedSessionComplete
  <2>1. Undisturbed(i) /\ session[i].replayed \in Nat
    BY DEF StoreInv, SessionInv, Replays
  <2>2. session[i].rows = << >> /\ session[i].delayed = << >> /\ Len(<< >>) = 0
    BY <2>1 DEF Undisturbed
  <2> QED
    BY <2>1, <2>2 DEF Undisturbed
<1> QED
  BY StoreInitially, StorePreserved, <1>1, PTL

-----------------------------------------------------------------------------
(***************************************************************************)
(* BookFeed: the features follow the venue's book.                         *)
(*                                                                         *)
(* A snapshot replaces the book and a difference is laid on the one that   *)
(* the message before it left. The invariant chains the messages still     *)
(* unread: each leads from the book its predecessor leads to, and the last *)
(* to the book of the venue.                                               *)
(***************************************************************************)

Books == [BookSides -> Levels]

-----------------------------------------------------------------------------
(* A difference laid on the book that it leads to.                         *)

\* The changes are about prices, one each, and say what the levels hold.
Describes(levels, changes) ==
    /\ IsFiniteSet(changes)
    /\ \A c \in changes : c.price \in FeedPrices /\ c.new_size = SizeAt(levels, c.price)
    /\ \A c, d \in changes : c.price = d.price => c = d

LEMMA LevelsTyped ==
  ASSUME NEW levels \in Levels
  PROVE  /\ levels = [q \in DOMAIN levels |-> levels[q]]
         /\ DOMAIN levels \subseteq FeedPrices
         /\ \A q \in DOMAIN levels : levels[q] \in Nat /\ levels[q] > 0
         /\ \A q : SizeAt(levels, q) \in Nat
<1>1. PICK S \in SUBSET FeedPrices : levels \in [S -> FeedSizes]
  BY DEF Levels
<1>2. ASSUME NEW q \in DOMAIN levels PROVE levels[q] \in Nat /\ levels[q] > 0
  <2>1. levels[q] \in FeedSizes
    BY <1>1
  <2>2. \A x \in FeedSizes : x \in Nat /\ x # 0
    BY BookAssumption
  <2>3. \A x \in Nat : x # 0 => x > 0
    OBVIOUS
  <2> QED
    BY <2>1, <2>2, <2>3
<1> QED
  BY <1>1, <1>2 DEF SizeAt

LEMMA ChangesDescribe ==
  ASSUME NEW before \in Levels, NEW after \in Levels
  PROVE  Describes(after, Changes(before, after))
<1> DEFINE moved == {q \in FeedPrices : SizeAt(before, q) # SizeAt(after, q)}
           line == [q \in moved |-> Change(before, after, q)]
<1>1. Changes(before, after) = {Change(before, after, q) : q \in moved}
  BY DEF Changes
<1>2. \A q \in moved : Change(before, after, q).price = q
                       /\ Change(before, after, q).new_size = SizeAt(after, q)
  BY DEF Change
<1>3. IsFiniteSet(Changes(before, after))
  <2>1. IsFiniteSet(moved)
    BY BookAssumption, FS_Subset
  <2>2. line \in Surjection(moved, Changes(before, after))
    BY <1>1 DEF Surjection
  <2> HIDE DEF line, moved
  <2> QED
    BY <2>1, <2>2, FS_Surjection
<1> QED
  BY <1>1, <1>2, <1>3 DEF Describes

\* The changes of a difference can be put in the order of the adapter.
LEMMA OrderedSequenceOf ==
  ASSUME NEW side \in BookSides, NEW levels \in Levels, NEW changes, Describes(levels, changes)
  PROVE  Ordered(side, changes) \in [1 .. Cardinality(changes) -> changes]
<1> DEFINE R == {e \in changes \X changes :
                    \/ e[1].new_size > 0 /\ e[2].new_size = 0
                    \/ (e[1].new_size > 0) = (e[2].new_size > 0) /\ Better(side, e[1].price, e[2].price)}
<1>1. \A c \in changes : c.new_size \in Nat /\ c.price \in Int
  BY LevelsTyped, BookAssumption DEF Describes
<1>2. \A c, d \in changes : <<c, d>> \in R <=>
          \/ c.new_size > 0 /\ d.new_size = 0
          \/ (c.new_size > 0) = (d.new_size > 0) /\ Better(side, c.price, d.price)
  OBVIOUS
<1> HIDE DEF R
<1>3. \A c \in changes : ~ (<<c, c>> \in R)
  BY <1>1, <1>2 DEF Better
<1>4. ASSUME NEW c \in changes, NEW d \in changes, c # d
      PROVE  <<c, d>> \in R \/ <<d, c>> \in R
  <2>1. c.price # d.price
    BY <1>4 DEF Describes
  <2>2. Better(side, c.price, d.price) \/ Better(side, d.price, c.price)
    BY <1>1, <2>1 DEF Better
  <2> QED
    BY <1>1, <1>2, <2>2
<1>5. ASSUME NEW c \in changes, NEW d \in changes, NEW e \in changes, <<c, d>> \in R, <<d, e>> \in R
      PROVE  <<c, e>> \in R
  <2>1. Better(side, c.price, d.price) /\ Better(side, d.price, e.price) => Better(side, c.price, e.price)
    BY <1>1 DEF Better
  <2> QED
    BY <1>1, <1>2, <1>5, <2>1
<1>6. Orders(R, changes)
  BY <1>3, <1>4, <1>5 DEF Orders
<1>7. PICK s \in [1 .. Cardinality(changes) -> changes] :
          \A i, j \in 1 .. Cardinality(changes) : i < j => <<s[i], s[j]>> \in R
  BY <1>6, OrderedSequence DEF Describes
<1>8. \A i, j \in DOMAIN s : i < j =>
            \/ s[i].new_size > 0 /\ s[j].new_size = 0
            \/ (s[i].new_size > 0) = (s[j].new_size > 0) /\ Better(side, s[i].price, s[j].price)
  BY <1>2, <1>7
<1> QED
  BY <1>8 DEF Ordered

\* One change of the recursion of AddDelta.
Lay(side, x, c) ==
    LET before == x.levels
        now == With(before, c.price, c.new_size)
        level == Rank(side, IF c.old_size > 0 THEN before ELSE now, c.price)
    IN  [levels |-> now,
         flow |-> x.flow + (IF level < max_levels THEN Signed(side, c.new_size - c.old_size) ELSE 0)]

Laid(f, side, levels, s, n) ==
    f = [i \in 0 .. n |-> IF i = 0 THEN [levels |-> levels, flow |-> 0]
                          ELSE Lay(side, f[i - 1], s[i])]

LEMMA AddDeltaLaid ==
  ASSUME NEW side, NEW levels, NEW changes
  PROVE  LET s == Ordered(side, changes)
         IN  AddDelta(side, levels, changes) = (CHOOSE f : Laid(f, side, levels, s, Len(s)))[Len(s)]
  BY DEF AddDelta, Laid, Lay

LEMMA LaidExists ==
  ASSUME NEW side, NEW levels, NEW s, NEW n \in Nat
  PROVE  \E f : Laid(f, side, levels, s, n)
<1> DEFINE Good == {m \in Nat : \E f : Laid(f, side, levels, s, m)}
           Step(f, i) == IF i = 0 THEN [levels |-> levels, flow |-> 0] ELSE Lay(side, f[i - 1], s[i])
<1>1. 0 \in Good
  <2> DEFINE f == [i \in 0 .. 0 |-> [levels |-> levels, flow |-> 0]]
  <2>1. \A i \in 0 .. 0 : i = 0
    OBVIOUS
  <2>2. f = [i \in 0 .. 0 |-> Step(f, i)]
    BY <2>1
  <2>3. Laid(f, side, levels, s, 0)
    BY <2>2 DEF Laid
  <2> QED
    BY <2>3
<1>2. ASSUME NEW m \in Nat, m \in Good PROVE m + 1 \in Good
  <2>1. PICK f : Laid(f, side, levels, s, m)
    BY <1>2
  <2>2. f = [i \in 0 .. m |-> Step(f, i)]
    BY <2>1 DEF Laid
  <2> DEFINE h == [i \in 0 .. m + 1 |-> Step(f, i)]
  <2>3. \A i \in 0 .. m : h[i] = f[i]
    <3> HIDE DEF Step
    <3> QED
      BY <2>2
  <2>4. \A i \in 0 .. m + 1 : Step(f, i) = Step(h, i)
    <3> HIDE DEF h
    <3> QED
      BY <2>3
  <2>5. h = [i \in 0 .. m + 1 |-> Step(h, i)]
    <3> HIDE DEF Step
    <3> QED
      BY <2>4
  <2>6. Laid(h, side, levels, s, m + 1)
    <3> HIDE DEF h
    <3> QED
      BY <2>5 DEF Laid
  <2> HIDE DEF h
  <2> QED
    BY <2>6
<1>3. \A m \in Nat : m \in Good
  <2> HIDE DEF Good
  <2> QED
    BY <1>1, <1>2, NumberInduction
<1> QED
  BY <1>3

\* Laid on the book it leads to, a change changes nothing.
LEMMA WithSame ==
  ASSUME NEW levels \in Levels, NEW price \in FeedPrices
  PROVE  With(levels, price, SizeAt(levels, price)) = levels
<1>1. CASE price \in DOMAIN levels
  <2>1. SizeAt(levels, price) = levels[price] /\ levels[price] > 0
    BY <1>1, LevelsTyped DEF SizeAt
  <2>2. (DOMAIN levels \ {price}) \cup {price} = DOMAIN levels
    BY <1>1
  <2>3. With(levels, price, SizeAt(levels, price)) = [q \in DOMAIN levels |-> levels[q]]
    BY <2>1, <2>2 DEF With
  <2> QED
    BY <2>3, LevelsTyped
<1>2. CASE price \notin DOMAIN levels
  <2>1. SizeAt(levels, price) = 0
    BY <1>2 DEF SizeAt
  <2>2. (DOMAIN levels \ {price}) \cup {} = DOMAIN levels /\ \A q \in DOMAIN levels : q # price
    BY <1>2
  <2>3. With(levels, price, SizeAt(levels, price)) = [q \in DOMAIN levels |-> levels[q]]
    BY <2>1, <2>2 DEF With
  <2> QED
    BY <2>3, LevelsTyped
<1> QED
  BY <1>1, <1>2

LEMMA DeltaIsIdempotent ==
  ASSUME NEW side \in BookSides, NEW levels \in Levels, NEW changes, Describes(levels, changes)
  PROVE  AddDelta(side, levels, changes).levels = levels
<1> DEFINE s == Ordered(side, changes)
<1>1. s \in [1 .. Cardinality(changes) -> changes] /\ Cardinality(changes) \in Nat
  BY OrderedSequenceOf, FS_CardinalityType DEF Describes
<1>2. Len(s) = Cardinality(changes) /\ Len(s) \in Nat
  BY <1>1
<1>3. PICK f : Laid(f, side, levels, s, Len(s)) /\ AddDelta(side, levels, changes) = f[Len(s)]
  BY <1>2, LaidExists, AddDeltaLaid
<1> HIDE DEF s
<1>4. \A i \in 0 .. Len(s) : f[i] = IF i = 0 THEN [levels |-> levels, flow |-> 0] ELSE Lay(side, f[i - 1], s[i])
  BY <1>3 DEF Laid
<1> DEFINE Good == {n \in Nat : n <= Len(s) => f[n].levels = levels}
<1>5. 0 \in Good
  BY <1>2, <1>4
<1>6. ASSUME NEW n \in Nat, n \in Good PROVE n + 1 \in Good
  <2> SUFFICES ASSUME n + 1 <= Len(s) PROVE f[n + 1].levels = levels
    OBVIOUS
  <2>1. f[n].levels = levels /\ s[n + 1] \in changes
    BY <1>1, <1>2, <1>6
  <2>2. f[n + 1] = Lay(side, f[n], s[n + 1])
    BY <1>2, <1>4
  <2>3. s[n + 1].new_size = SizeAt(levels, s[n + 1].price) /\ s[n + 1].price \in FeedPrices
    BY <2>1 DEF Describes
  <2>4. Lay(side, f[n], s[n + 1]).levels = With(levels, s[n + 1].price, s[n + 1].new_size)
    BY <2>1 DEF Lay
  <2> QED
    BY <2>2, <2>3, <2>4, WithSame
<1>7. \A n \in Nat : n \in Good
  <2> HIDE DEF Good
  <2> QED
    BY <1>5, <1>6, NumberInduction
<1> QED
  BY <1>2, <1>3, <1>7
-----------------------------------------------------------------------------
(* The queue between the adapter and the enrichment.                       *)

Snapshots == {[delta |-> FALSE, book |-> b] : b \in Books}
Deltas == {[delta |-> TRUE, changes |-> d] : d \in [BookSides -> SUBSET [price : FeedPrices, old_size : Nat, new_size : Nat]]}

\* m is what leads to book.
LeadsTo(book, m) == \A side \in BookSides : Describes(book[side], m.changes[side])

\* A difference stands right behind the snapshot it leads to: in the queue, or,
\* at its head, in the state.
InOrder ==
    \A i \in 1 .. Len(messages) : messages[i].delta =>
        IF i = 1 THEN latest # << >> /\ LeadsTo(latest[1], messages[1])
        ELSE ~messages[i - 1].delta /\ LeadsTo(messages[i - 1].book, messages[i])

\* Between snapshot and difference, the snapshot is the newest.
Unread ==
    connection = "published" =>
        IF messages = << >> THEN latest = <<fetched_book>>
        ELSE ~messages[Len(messages)].delta /\ messages[Len(messages)].book = fetched_book

Tracks ==
    /\ latest # << >> => /\ latest[1] \in Books /\ tracked = latest[1]
                         /\ TwoSided(latest[1]) => micro = latest
    /\ micro # << >> => TwoSided(micro[1])
    /\ latest # << >> => latest = <<latest[1]>>

BookInv ==
    /\ messages \in Seq(Snapshots \cup Deltas)
    /\ fetched_book \in Books /\ prev \in Books
    /\ InOrder /\ Unread /\ Tracks
    /\ latest = << >> => micro = << >>

LEMMA NoBookTyped == NoBook \in Books
<1>1. << >> \in [{} -> FeedSizes]
  OBVIOUS
<1>2. << >> \in Levels
  BY <1>1 DEF Levels
<1> QED
  BY <1>2 DEF NoBook, Books

LEMMA BookInitially == BookInit => BookInv
<1> SUFFICES ASSUME BookInit PROVE BookInv
  OBVIOUS
<1>1. messages = << >> /\ latest = << >> /\ micro = << >> /\ connection = "down"
  BY DEF BookInit
<1>2. InOrder /\ Unread /\ Tracks
  BY <1>1 DEF InOrder, Unread, Tracks
<1>3. messages \in Seq(Snapshots \cup Deltas)
  BY <1>1
<1> QED
  BY <1>1, <1>2, <1>3, NoBookTyped DEF BookInv, BookInit

\* A snapshot or a difference, by its flag.
LEMMA MessageKinds ==
  /\ \A m \in Snapshots : ~m.delta /\ m.book \in Books
  /\ \A m \in Deltas : m.delta
  /\ \A b \in Books : [delta |-> FALSE, book |-> b] \in Snapshots
                      /\ ~[delta |-> FALSE, book |-> b].delta
                      /\ [delta |-> FALSE, book |-> b].book = b
<1>1. ASSUME NEW m \in Snapshots PROVE ~m.delta /\ m.book \in Books
  <2>1. PICK b \in Books : m = [delta |-> FALSE, book |-> b]
    BY DEF Snapshots
  <2>2. m.delta = FALSE /\ m.book = b
    BY <2>1
  <2> QED
    BY <2>2, Zenon
<1>2. ASSUME NEW m \in Deltas PROVE m.delta
  <2>1. PICK d : m = [delta |-> TRUE, changes |-> d]
    BY DEF Deltas
  <2>2. m.delta = TRUE
    BY <2>1
  <2> QED
    BY <2>2, Zenon
<1>3. ASSUME NEW b \in Books
      PROVE  /\ [delta |-> FALSE, book |-> b] \in Snapshots
             /\ ~[delta |-> FALSE, book |-> b].delta
             /\ [delta |-> FALSE, book |-> b].book = b
  BY Zenon DEF Snapshots
<1> QED
  BY <1>1, <1>2, <1>3

LEMMA ConnectionInv ==
  BookInv /\ (ConnectVenue \/ FetchFails) => BookInv'
  BY DEF BookInv, InOrder, Unread, Tracks, TwoSided, LeadsTo, ConnectVenue, FetchFails

LEMMA ReceiveInv ==
  ASSUME BookInv, NEW book \in Books, NEW stamped \in BOOLEAN, ReceiveBook(book, stamped)
  PROVE  BookInv'
<1>1. CASE ~stamped
  BY <1>1 DEF BookInv, InOrder, Unread, Tracks, TwoSided, LeadsTo, ReceiveBook
<1>2. CASE stamped
  <2>1. PICK m \in Snapshots : m = [delta |-> FALSE, book |-> book]
    BY MessageKinds
  <2>2. ~m.delta /\ m.book = book
    BY <2>1, MessageKinds
  <2>3. messages' = Append(messages, m) /\ fetched_book' = book /\ connection' = "published"
        /\ UNCHANGED <<prev, tracked, micro, latest>>
    BY <1>2, <2>1 DEF ReceiveBook
  <2>4. /\ messages' \in Seq(Snapshots \cup Deltas) /\ Len(messages') = Len(messages) + 1
        /\ Len(messages) \in Nat
        /\ \A i \in 1 .. Len(messages) : messages'[i] = messages[i]
        /\ messages'[Len(messages')] = m
    BY <2>3 DEF BookInv
  <2>5. InOrder'
    <3> SUFFICES ASSUME NEW i \in 1 .. Len(messages'), messages'[i].delta
                 PROVE  IF i = 1 THEN latest # << >> /\ LeadsTo(latest[1], messages'[1])
                        ELSE ~messages'[i - 1].delta /\ LeadsTo(messages'[i - 1].book, messages'[i])
      BY <2>3 DEF InOrder, LeadsTo
    <3>1. i \in 1 .. Len(messages)
      BY <2>2, <2>4
    <3>2. messages'[i] = messages[i] /\ (i # 1 => messages'[i - 1] = messages[i - 1])
          /\ messages'[1] = messages[1]
      BY <2>4, <3>1
    <3> QED
      BY <3>1, <3>2 DEF BookInv, InOrder
  <2>6. Unread'
    <3>1. messages' # << >>
      BY <2>4
    <3> QED
      BY <2>2, <2>3, <2>4, <3>1 DEF Unread
  <2> QED
    BY <2>3, <2>4, <2>5, <2>6 DEF BookInv, Tracks, TwoSided
<1> QED
  BY <1>1, <1>2

LEMMA PublishDeltaInv == BookInv /\ PublishDelta => BookInv'
<1> SUFFICES ASSUME BookInv, PublishDelta PROVE BookInv'
  OBVIOUS
<1> DEFINE d == [side \in BookSides |-> Changes(prev[side], fetched_book[side])]
<1>1. /\ connection = "published" /\ connection' = "up" /\ prev' = fetched_book
      /\ UNCHANGED <<fetched_book, tracked, micro, latest>>
  BY DEF PublishDelta
<1>2. CASE messages' = messages
  BY <1>1, <1>2 DEF BookInv, InOrder, Unread, Tracks, TwoSided, LeadsTo
<1>3. CASE messages' # messages
  <2>1. messages' = Append(messages, [delta |-> TRUE, changes |-> d])
    BY <1>3 DEF PublishDelta
  <2>2. ASSUME NEW side \in BookSides
        PROVE  /\ prev[side] \in Levels /\ fetched_book[side] \in Levels
               /\ d[side] = Changes(prev[side], fetched_book[side])
    BY DEF BookInv, Books
  <2>3. \A side \in BookSides : Describes(fetched_book[side], d[side])
    BY <2>2, ChangesDescribe
  <2>4. d \in [BookSides -> SUBSET [price : FeedPrices, old_size : Nat, new_size : Nat]]
    <3> SUFFICES ASSUME NEW side \in BookSides, NEW q \in FeedPrices
                 PROVE  Change(prev[side], fetched_book[side], q)
                            \in [price : FeedPrices, old_size : Nat, new_size : Nat]
      BY DEF Changes
    <3> QED
      BY <2>2, LevelsTyped DEF Change
  <2> HIDE DEF d
  <2>5. PICK m : m = [delta |-> TRUE, changes |-> d]
    OBVIOUS
  <2>6. m \in Deltas
    BY <2>4, <2>5 DEF Deltas
  <2>7. m.changes = d
    BY <2>5
  <2>8. /\ messages' \in Seq(Snapshots \cup Deltas) /\ Len(messages') = Len(messages) + 1
        /\ Len(messages) \in Nat
        /\ \A i \in 1 .. Len(messages) : messages'[i] = messages[i]
        /\ messages'[Len(messages')] = m
    BY <2>1, <2>5, <2>6 DEF BookInv
  <2>9. InOrder'
    <3> SUFFICES ASSUME NEW i \in 1 .. Len(messages'), messages'[i].delta
                 PROVE  IF i = 1 THEN latest # << >> /\ LeadsTo(latest[1], messages'[1])
                        ELSE ~messages'[i - 1].delta /\ LeadsTo(messages'[i - 1].book, messages'[i])
      BY <1>1 DEF InOrder, LeadsTo
    <3>1. CASE i \in 1 .. Len(messages)
      <4>1. messages'[i] = messages[i] /\ (i # 1 => messages'[i - 1] = messages[i - 1])
            /\ messages'[1] = messages[1]
        BY <2>8, <3>1
      <4> QED
        BY <3>1, <4>1 DEF BookInv, InOrder
    <3>2. CASE i = Len(messages) + 1
      <4>1. LeadsTo(fetched_book, messages'[i])
        BY <2>3, <2>7, <2>8, <3>2 DEF LeadsTo
      <4>2. CASE messages = << >>
        <5>1. i = 1 /\ latest = <<fetched_book>>
          BY <1>1, <3>2, <4>2 DEF BookInv, Unread
        <5> QED
          BY <4>1, <5>1
      <4>3. CASE messages # << >>
        <5>1. i # 1 /\ i - 1 = Len(messages) /\ messages'[i - 1] = messages[Len(messages)]
          BY <2>8, <3>2, <4>3 DEF BookInv
        <5>2. ~messages'[i - 1].delta /\ messages'[i - 1].book = fetched_book
          BY <1>1, <4>3, <5>1 DEF BookInv, Unread
        <5> QED
          BY <4>1, <5>1, <5>2
      <4> QED
        BY <4>2, <4>3
    <3> QED
      BY <2>8, <3>1, <3>2
  <2> QED
    BY <1>1, <2>8, <2>9 DEF BookInv, Unread, Tracks, TwoSided
<1> QED
  BY <1>2, <1>3

LEMMA EnrichInv == BookInv /\ Enrich => BookInv'
<1> SUFFICES ASSUME BookInv, Enrich PROVE BookInv'
  OBVIOUS
<1> DEFINE m == Head(messages)
<1>1. /\ messages # << >> /\ messages' = Tail(messages) /\ micro' = MicroOf(m)
      /\ UNCHANGED <<connection, fetched_book, prev>>
  BY DEF Enrich
<1>2. /\ m = messages[1] /\ m \in Snapshots \cup Deltas /\ Len(messages) \in Nat /\ Len(messages) > 0
      /\ messages' \in Seq(Snapshots \cup Deltas) /\ Len(messages') = Len(messages) - 1
      /\ \A i \in 1 .. Len(messages') : messages'[i] = messages[i + 1]
  BY <1>1 DEF BookInv
<1>3. CASE m.delta
  <2>1. latest # << >> /\ LeadsTo(latest[1], m) /\ tracked = latest[1] /\ latest[1] \in Books
        /\ latest = <<latest[1]>>
    BY <1>2, <1>3 DEF BookInv, InOrder, Tracks
  <2>2. UNCHANGED latest /\ micro' = micro
    BY <1>1, <1>3 DEF Enrich, MicroOf
  <2>3. ASSUME NEW side \in BookSides
        PROVE  AddDelta(side, tracked[side], m.changes[side]).levels = tracked[side]
    BY <2>1, DeltaIsIdempotent DEF LeadsTo, Books
  <2>4. tracked' = [side \in BookSides |-> AddDelta(side, tracked[side], m.changes[side]).levels]
    BY <1>3 DEF Enrich
  <2>5. tracked' = tracked
    BY <2>1, <2>3, <2>4 DEF Books
  <2>6. Len(messages') >= 1 => ~messages'[1].delta
    BY <1>2, <1>3 DEF BookInv, InOrder
  <2>7. InOrder'
    <3> SUFFICES ASSUME NEW i \in 1 .. Len(messages'), messages'[i].delta
                 PROVE  IF i = 1 THEN latest # << >> /\ LeadsTo(latest[1], messages'[1])
                        ELSE ~messages'[i - 1].delta /\ LeadsTo(messages'[i - 1].book, messages'[i])
      BY <2>2 DEF InOrder, LeadsTo
    <3>1. i # 1 /\ i + 1 \in 1 .. Len(messages) /\ messages'[i] = messages[i + 1]
          /\ messages'[i - 1] = messages[(i + 1) - 1] /\ i + 1 # 1
      BY <1>2, <2>6
    <3> QED
      BY <3>1 DEF BookInv, InOrder
  <2>8. Unread'
    <3> SUFFICES ASSUME connection = "published"
                 PROVE  IF messages' = << >> THEN latest = <<fetched_book>>
                        ELSE ~messages'[Len(messages')].delta /\ messages'[Len(messages')].book = fetched_book
      BY <1>1, <2>2 DEF Unread
    <3>1. ~messages[Len(messages)].delta /\ messages[Len(messages)].book = fetched_book
      BY <1>1 DEF BookInv, Unread
    <3>2. Len(messages) # 1 /\ messages' # << >>
      BY <1>2, <1>3, <3>1
    <3>3. Len(messages') \in 1 .. Len(messages') /\ Len(messages') + 1 = Len(messages)
      BY <1>2, <3>2
    <3> QED
      BY <1>2, <3>1, <3>2, <3>3
  <2> QED
    BY <1>1, <1>2, <2>1, <2>2, <2>5, <2>7, <2>8 DEF BookInv, Tracks, TwoSided
<1>4. CASE ~m.delta
  <2>1. m \in Snapshots /\ m.book \in Books
    BY <1>2, <1>4, MessageKinds
  <2>2. tracked' = m.book /\ latest' = <<m.book>> /\ latest'[1] = m.book
    BY <1>4 DEF Enrich
  <2>3. InOrder'
    <3> SUFFICES ASSUME NEW i \in 1 .. Len(messages'), messages'[i].delta
                 PROVE  IF i = 1 THEN LeadsTo(m.book, messages'[1])
                        ELSE ~messages'[i - 1].delta /\ LeadsTo(messages'[i - 1].book, messages'[i])
      BY <2>2 DEF InOrder, LeadsTo
    <3>1. i + 1 \in 1 .. Len(messages) /\ messages'[i] = messages[i + 1] /\ i + 1 # 1
          /\ (i # 1 => messages'[i - 1] = messages[(i + 1) - 1])
          /\ (i = 1 => messages[(i + 1) - 1] = m)
      BY <1>2
    <3>2. ~messages[(i + 1) - 1].delta /\ LeadsTo(messages[(i + 1) - 1].book, messages[i + 1])
      BY <3>1 DEF BookInv, InOrder
    <3> QED
      BY <3>1, <3>2
  <2>4. Unread'
    <3> SUFFICES ASSUME connection = "published"
                 PROVE  IF messages' = << >> THEN m.book = fetched_book
                        ELSE ~messages'[Len(messages')].delta /\ messages'[Len(messages')].book = fetched_book
      BY <1>1, <2>2 DEF Unread
    <3>1. ~messages[Len(messages)].delta /\ messages[Len(messages)].book = fetched_book
      BY <1>1 DEF BookInv, Unread
    <3>2. CASE messages' = << >>
      <4>1. Len(messages) = 1
        BY <1>2, <3>2
      <4> QED
        BY <1>2, <3>1, <3>2, <4>1
    <3>3. CASE messages' # << >>
      <4>1. Len(messages') \in 1 .. Len(messages') /\ Len(messages') + 1 = Len(messages)
        BY <1>2, <3>3
      <4> QED
        BY <1>2, <3>1, <3>3, <4>1
    <3> QED
      BY <3>2, <3>3
  <2>5. Tracks'
    <3>1. TwoSided(m.book) => micro' = <<m.book>> /\ micro'[1] = m.book
      BY <1>1, <1>4 DEF MicroOf
    <3>2. ~TwoSided(m.book) => micro' = micro
      BY <1>1, <1>4 DEF MicroOf
    <3> QED
      BY <2>1, <2>2, <3>1, <3>2 DEF BookInv, Tracks, TwoSided
  <2>6. latest' # << >>
    BY <2>2
  <2> QED
    BY <1>1, <1>2, <2>3, <2>4, <2>5, <2>6 DEF BookInv
<1> QED
  BY <1>3, <1>4

\* The order-book features read one market, whatever the venue sends, however
\* often the adapter connects anew and whichever messages it skips
\* (ccxt_adapter.py:438, order_flow.py:103, micro_price.py:24).
THEOREM FeaturesRead == BookInit /\ [][BookStep]_bookVars => []FeaturesFollowVenue
<1>1. BookInv /\ [BookStep]_bookVars => BookInv'
  <2> SUFFICES ASSUME BookInv, [BookStep]_bookVars PROVE BookInv'
    OBVIOUS
  <2>1. ASSUME NEW book \in [BookSides -> Levels], NEW stamped \in BOOLEAN, ReceiveBook(book, stamped)
        PROVE  BookInv'
    BY <2>1, ReceiveInv DEF Books
  <2>2. CASE UNCHANGED bookVars
    BY <2>2 DEF BookInv, InOrder, Unread, Tracks, TwoSided, LeadsTo, bookVars
  <2> QED
    BY <2>1, <2>2, ConnectionInv, PublishDeltaInv, EnrichInv DEF BookStep
<1>2. BookInv => FeaturesFollowVenue
  BY DEF BookInv, Tracks, FeaturesFollowVenue
<1> QED
  BY BookInitially, <1>1, <1>2, PTL

-----------------------------------------------------------------------------
(***************************************************************************)
(* DataFabric: while the platform runs, the path of the market events keeps*)
(* all of them, once and in order; and news is enriched once.              *)
(*                                                                         *)
(* The path of a source is cut where an event passes the bridge. Ahead of  *)
(* it are the market loop, the observation bus and the event the bridge    *)
(* waits with; behind it the bridge's queue and the publish that waits for *)
(* room. A step moves an event over the cut, or along one side of it.      *)
(***************************************************************************)

-----------------------------------------------------------------------------
(* The numbers of one source in a sequence of events.                      *)

\* The recursion of NumbersOf over a sequence, or over its first n elements.
Numbers(f, q, s, n) ==
    f = [i \in 0 .. n |-> IF i = 0 THEN << >>
                          ELSE IF q[i].source = s THEN Append(f[i - 1], q[i].n) ELSE f[i - 1]]

LEMMA NumbersOfIs ==
  ASSUME NEW q, NEW s
  PROVE  NumbersOf(q, s) = (CHOOSE f : Numbers(f, q, s, Len(q)))[Len(q)]
  BY DEF NumbersOf, Numbers

LEMMA NumbersExist ==
  ASSUME NEW q, NEW s, NEW n \in Nat
  PROVE  \E f : Numbers(f, q, s, n)
<1> DEFINE Good == {m \in Nat : \E f : Numbers(f, q, s, m)}
           Step(f, i) == IF i = 0 THEN << >>
                         ELSE IF q[i].source = s THEN Append(f[i - 1], q[i].n) ELSE f[i - 1]
<1>1. 0 \in Good
  <2> DEFINE f == [i \in 0 .. 0 |-> << >>]
  <2>1. \A i \in 0 .. 0 : i = 0
    OBVIOUS
  <2>2. f = [i \in 0 .. 0 |-> Step(f, i)]
    BY <2>1
  <2>3. Numbers(f, q, s, 0)
    BY <2>2 DEF Numbers
  <2> QED
    BY <2>3
<1>2. ASSUME NEW m \in Nat, m \in Good PROVE m + 1 \in Good
  <2>1. PICK f : Numbers(f, q, s, m)
    BY <1>2
  <2>2. f = [i \in 0 .. m |-> Step(f, i)]
    BY <2>1 DEF Numbers
  <2> DEFINE h == [i \in 0 .. m + 1 |-> Step(f, i)]
  <2>3. \A i \in 0 .. m : h[i] = f[i]
    <3> HIDE DEF Step
    <3> QED
      BY <2>2
  <2>4. \A i \in 0 .. m + 1 : Step(f, i) = Step(h, i)
    <3> HIDE DEF h
    <3> QED
      BY <2>3
  <2>5. h = [i \in 0 .. m + 1 |-> Step(h, i)]
    <3> HIDE DEF Step
    <3> QED
      BY <2>4
  <2>6. Numbers(h, q, s, m + 1)
    <3> HIDE DEF h
    <3> QED
      BY <2>5 DEF Numbers
  <2> HIDE DEF h
  <2> QED
    BY <2>6
<1>3. \A m \in Nat : m \in Good
  <2> HIDE DEF Good
  <2> QED
    BY <1>1, <1>2, NumberInduction
<1> QED
  BY <1>3

\* Two recursions over sequences that agree so far have come to the same.
LEMMA NumbersAgree ==
  ASSUME NEW p, NEW q, NEW s, NEW m \in Nat, NEW n \in Nat, NEW f, NEW g,
         Numbers(f, p, s, m), Numbers(g, q, s, n),
         NEW k \in Nat, k <= m, k <= n, \A i \in 1 .. k : p[i] = q[i]
  PROVE  f[k] = g[k]
<1> DEFINE Good == {i \in Nat : i <= k => f[i] = g[i]}
<1>1. \A i \in 0 .. m : f[i] = IF i = 0 THEN << >>
                          ELSE IF p[i].source = s THEN Append(f[i - 1], p[i].n) ELSE f[i - 1]
  BY DEF Numbers
<1>2. \A i \in 0 .. n : g[i] = IF i = 0 THEN << >>
                          ELSE IF q[i].source = s THEN Append(g[i - 1], q[i].n) ELSE g[i - 1]
  BY DEF Numbers
<1>3. 0 \in Good
  BY <1>1, <1>2
<1>4. ASSUME NEW i \in Nat, i \in Good PROVE i + 1 \in Good
  <2> SUFFICES ASSUME i + 1 <= k PROVE f[i + 1] = g[i + 1]
    OBVIOUS
  <2>1. f[i] = g[i] /\ p[i + 1] = q[i + 1] /\ (i + 1) - 1 = i /\ i + 1 # 0
    BY <1>4
  <2>2. i + 1 \in 0 .. m /\ i + 1 \in 0 .. n
    OBVIOUS
  <2> QED
    BY <1>1, <1>2, <2>1, <2>2
<1>5. \A i \in Nat : i \in Good
  <2> HIDE DEF Good
  <2> QED
    BY <1>3, <1>4, NumberInduction
<1> QED
  BY <1>5

LEMMA NumbersOfNone == ASSUME NEW s PROVE NumbersOf(<< >>, s) = << >>
<1>1. Len(<< >>) = 0
  OBVIOUS
<1>2. PICK f : Numbers(f, << >>, s, 0) /\ NumbersOf(<< >>, s) = f[0]
  BY <1>1, NumbersExist, NumbersOfIs
<1> QED
  BY <1>2 DEF Numbers

\* An event at the end counts at the end.
LEMMA NumbersOfAppend ==
  ASSUME NEW q \in Seq(Event), NEW e \in Event, NEW s
  PROVE  NumbersOf(Append(q, e), s) = IF e.source = s THEN Append(NumbersOf(q, s), e.n)
                                      ELSE NumbersOf(q, s)
<1>1. PICK r : r = Append(q, e)
  OBVIOUS
<1>2. /\ Len(q) \in Nat /\ Len(r) = Len(q) + 1 /\ r[Len(q) + 1] = e
      /\ \A i \in 1 .. Len(q) : q[i] = r[i]
  BY <1>1
<1>3. PICK f : Numbers(f, q, s, Len(q)) /\ NumbersOf(q, s) = f[Len(q)]
  BY <1>2, NumbersExist, NumbersOfIs
<1>4. PICK g : Numbers(g, r, s, Len(r)) /\ NumbersOf(r, s) = g[Len(r)]
  <2>1. Len(r) \in Nat
    BY <1>2
  <2> QED
    BY <2>1, NumbersExist, NumbersOfIs
<1>5. f[Len(q)] = g[Len(q)]
  <2>1. Len(r) \in Nat /\ Len(q) <= Len(q) /\ Len(q) <= Len(r)
    BY <1>2
  <2> QED
    BY <1>2, <1>3, <1>4, <2>1, NumbersAgree
<1>6. Len(r) \in 0 .. Len(r) /\ Len(r) # 0 /\ Len(r) - 1 = Len(q)
  BY <1>2
<1>7. g[Len(r)] = IF r[Len(r)].source = s THEN Append(g[Len(q)], r[Len(r)].n) ELSE g[Len(q)]
  BY <1>4, <1>6 DEF Numbers
<1> QED
  BY <1>1, <1>2, <1>3, <1>4, <1>5, <1>7

LEMMA AppendEvent ==
  ASSUME NEW S, NEW q \in Seq(S), NEW x \in S
  PROVE  Append(q, x) = q \o <<x>>
<1>1. Append(q, x) \in Seq(S) /\ q \o <<x>> \in Seq(S) /\ <<x>> \in Seq(S)
  OBVIOUS
<1>2. Len(Append(q, x)) = Len(q) + 1 /\ Len(q \o <<x>>) = Len(q) + 1 /\ Len(q) \in Nat
  OBVIOUS
<1>3. ASSUME NEW i \in 1 .. Len(q) + 1 PROVE Append(q, x)[i] = (q \o <<x>>)[i]
  BY <1>2
<1> QED
  BY <1>1, <1>2, <1>3, SeqEqual

LEMMA NumbersConcat ==
  ASSUME NEW a \in Seq(Nat), NEW b \in Seq(Nat), NEW c \in Seq(Nat)
  PROVE  (a \o b) \o c = a \o (b \o c)
  BY ConcatAssociative

\* The numbers of one event.
One(e, s) == IF e.source = s THEN <<e.n>> ELSE << >>

LEMMA OneTyped == ASSUME NEW e \in Event, NEW s PROVE One(e, s) \in Seq(Nat) /\ e.n \in Nat
<1>1. e.n \in Nat
  BY DEF Event
<1> QED
  BY <1>1 DEF One

LEMMA NumbersOfLast ==
  ASSUME NEW q \in Seq(Event), NEW e \in Event, NEW s, NumbersOf(q, s) \in Seq(Nat)
  PROVE  NumbersOf(Append(q, e), s) = NumbersOf(q, s) \o One(e, s)
<1>1. CASE e.source = s
  <2>1. NumbersOf(Append(q, e), s) = Append(NumbersOf(q, s), e.n) /\ One(e, s) = <<e.n>>
    BY <1>1, NumbersOfAppend DEF One
  <2> QED
    BY <2>1, OneTyped, AppendEvent
<1>2. CASE e.source # s
  <2>1. NumbersOf(Append(q, e), s) = NumbersOf(q, s) /\ One(e, s) = << >>
    BY <1>2, NumbersOfAppend DEF One
  <2> QED
    BY <2>1, ConcatEmptySeq
<1> QED
  BY <1>1, <1>2

LEMMA PrefixTyped ==
  ASSUME NEW q \in Seq(Event), NEW s, NEW f, Numbers(f, q, s, Len(q))
  PROVE  \A k \in 0 .. Len(q) : f[k] \in Seq(Nat)
<1> DEFINE Good == {k \in Nat : k <= Len(q) => f[k] \in Seq(Nat)}
<1>0. Len(q) \in Nat /\ << >> \in Seq(Nat)
  OBVIOUS
<1>1. \A i \in 0 .. Len(q) : f[i] = IF i = 0 THEN << >>
                          ELSE IF q[i].source = s THEN Append(f[i - 1], q[i].n) ELSE f[i - 1]
  BY DEF Numbers
<1>2. 0 \in Good
  <2>1. f[0] = << >>
    BY <1>0, <1>1
  <2> QED
    BY <1>0, <2>1
<1>3. ASSUME NEW k \in Nat, k \in Good PROVE k + 1 \in Good
  <2> SUFFICES ASSUME k + 1 <= Len(q) PROVE f[k + 1] \in Seq(Nat)
    OBVIOUS
  <2>1. k + 1 \in 0 .. Len(q) /\ k + 1 # 0 /\ (k + 1) - 1 = k /\ q[k + 1] \in Event /\ f[k] \in Seq(Nat)
    BY <1>0, <1>3
  <2>2. f[k + 1] = IF q[k + 1].source = s THEN Append(f[k], q[k + 1].n) ELSE f[k]
    BY <1>1, <2>1
  <2>3. q[k + 1].n \in Nat
    BY <2>1 DEF Event
  <2> QED
    BY <2>1, <2>2, <2>3
<1>4. \A k \in Nat : k \in Good
  <2> HIDE DEF Good
  <2> QED
    BY <1>2, <1>3, NumberInduction
<1> QED
  BY <1>0, <1>4

LEMMA NumbersTyped ==
  ASSUME NEW q \in Seq(Event), NEW s PROVE NumbersOf(q, s) \in Seq(Nat)
<1>1. Len(q) \in Nat
  OBVIOUS
<1>2. PICK f : Numbers(f, q, s, Len(q)) /\ NumbersOf(q, s) = f[Len(q)]
  BY <1>1, NumbersExist, NumbersOfIs
<1> QED
  BY <1>1, <1>2, PrefixTyped

\* An event at the head counts at the head.
LEMMA NumbersOfTail ==
  ASSUME NEW q \in Seq(Event), q # << >>, NEW s
  PROVE  NumbersOf(q, s) = One(Head(q), s) \o NumbersOf(Tail(q), s)
<1>0. PICK t : t = Tail(q)
  OBVIOUS
<1>1. t \in Seq(Event) /\ t = Tail(q)
  BY <1>0, HeadTailProperties
<1>2. /\ Len(q) \in Nat /\ Len(t) \in Nat /\ Len(q) = Len(t) + 1 /\ q[1] = Head(q) /\ Head(q) \in Event
      /\ \A i \in 1 .. Len(t) : t[i] = q[i + 1]
  BY <1>1
<1>3. PICK f : Numbers(f, q, s, Len(q)) /\ NumbersOf(q, s) = f[Len(q)]
  BY <1>2, NumbersExist, NumbersOfIs
<1>4. PICK g : Numbers(g, t, s, Len(t)) /\ NumbersOf(t, s) = g[Len(t)]
  BY <1>2, NumbersExist, NumbersOfIs
<1>5. \A i \in 0 .. Len(q) : f[i] = IF i = 0 THEN << >>
                          ELSE IF q[i].source = s THEN Append(f[i - 1], q[i].n) ELSE f[i - 1]
  BY <1>3 DEF Numbers
<1>6. \A i \in 0 .. Len(t) : g[i] = IF i = 0 THEN << >>
                          ELSE IF t[i].source = s THEN Append(g[i - 1], t[i].n) ELSE g[i - 1]
  BY <1>4 DEF Numbers
<1>7. One(Head(q), s) \in Seq(Nat) /\ \A k \in 0 .. Len(t) : g[k] \in Seq(Nat)
  <2>1. \A k \in 0 .. Len(t) : g[k] \in Seq(Nat)
    BY <1>1, <1>4, PrefixTyped
  <2>2. One(Head(q), s) \in Seq(Nat)
    BY <1>2, OneTyped
  <2> QED
    BY <2>1, <2>2
<1> DEFINE claim(k) == f[k + 1] = One(Head(q), s) \o g[k]
           Good == {k \in Nat : k <= Len(t) => claim(k)}
<1>8. 0 \in Good
  <2>1. 0 \in 0 .. Len(q) /\ 1 \in 0 .. Len(q) /\ 0 \in 0 .. Len(t) /\ 1 # 0 /\ 1 - 1 = 0
    BY <1>2
  <2>2. f[0] = << >> /\ g[0] = << >>
    BY <1>5, <1>6, <2>1
  <2>3. f[1] = IF Head(q).source = s THEN Append(f[0], Head(q).n) ELSE f[0]
    BY <1>2, <1>5, <2>1
  <2>4. Append(<< >>, Head(q).n) = <<Head(q).n>>
    OBVIOUS
  <2>5. f[1] = One(Head(q), s)
    BY <2>2, <2>3, <2>4 DEF One
  <2>6. One(Head(q), s) \o << >> = One(Head(q), s)
    BY <1>7, ConcatEmptySeq
  <2>7. claim(0)
    BY <2>2, <2>5, <2>6
  <2> HIDE DEF claim
  <2> QED
    BY <2>7
<1>9. ASSUME NEW k \in Nat, k \in Good PROVE k + 1 \in Good
  <2> SUFFICES ASSUME k + 1 <= Len(t) PROVE claim(k + 1)
    <3> HIDE DEF claim
    <3> QED
      OBVIOUS
  <2>0. claim(k)
    <3> HIDE DEF claim
    <3> QED
      BY <1>2, <1>9
  <2>1. f[k + 1] = One(Head(q), s) \o g[k]
    BY <2>0
  <2>2. /\ k + 2 \in 0 .. Len(q) /\ k + 2 # 0 /\ (k + 2) - 1 = k + 1 /\ (k + 1) + 1 = k + 2
        /\ k + 1 \in 0 .. Len(t) /\ k + 1 # 0 /\ (k + 1) - 1 = k /\ k \in 0 .. Len(t)
        /\ q[k + 2] = t[k + 1] /\ t[k + 1] \in Event
    BY <1>2
  <2>3. f[k + 2] = IF t[k + 1].source = s THEN Append(f[k + 1], t[k + 1].n) ELSE f[k + 1]
    BY <1>5, <2>2
  <2>4. g[k + 1] = IF t[k + 1].source = s THEN Append(g[k], t[k + 1].n) ELSE g[k]
    BY <1>6, <2>2
  <2>5. t[k + 1].n \in Nat /\ g[k] \in Seq(Nat)
    BY <1>7, <2>2, OneTyped
  <2>6. Append(One(Head(q), s) \o g[k], t[k + 1].n) = One(Head(q), s) \o Append(g[k], t[k + 1].n)
    <3>1. PICK a \in Seq(Nat), b \in Seq(Nat), x \in Nat :
              a = One(Head(q), s) /\ b = g[k] /\ x = t[k + 1].n
      BY <1>7, <2>5
    <3>2. a \o b \in Seq(Nat) /\ <<x>> \in Seq(Nat)
      BY ConcatProperties
    <3>3. Append(a \o b, x) = (a \o b) \o <<x>> /\ Append(b, x) = b \o <<x>>
      BY <3>2, AppendEvent
    <3>4. (a \o b) \o <<x>> = a \o (b \o <<x>>)
      BY <3>2, ConcatAssociative, SMTT(30)
    <3> QED
      BY <3>1, <3>3, <3>4
  <2> QED
    BY <2>1, <2>2, <2>3, <2>4, <2>6
<1>10. \A k \in Nat : k \in Good
  <2> HIDE DEF Good
  <2> QED
    BY <1>8, <1>9, NumberInduction
<1>11. claim(Len(t))
  <2> HIDE DEF claim
  <2> QED
    BY <1>2, <1>10
<1> QED
  BY <1>1, <1>2, <1>3, <1>4, <1>11

LEMMA NumbersOfOne ==
  ASSUME NEW e \in Event, NEW s PROVE NumbersOf(<<e>>, s) = One(e, s)
<1>1. <<e>> = Append(<< >>, e) /\ << >> \in Seq(Event) /\ << >> \in Seq(Nat)
  OBVIOUS
<1>2. NumbersOf(<<e>>, s) = << >> \o One(e, s)
  BY <1>1, NumbersOfNone, NumbersOfLast
<1> QED
  BY <1>2, OneTyped, ConcatEmptySeq
-----------------------------------------------------------------------------
(* What a publish does, whichever queues are full.                         *)

\* Lists of subscribers without repetition.
Lists == {t \in Seq(Subscribers) : \A i, j \in 1 .. Len(t) : i # j => t[i] # t[j]}

\* The event is in the queues of served, and waits with the list rest.
Outcome(p, e, targets, q, served, rest) ==
    /\ served \subseteq Subscribers /\ rest \in Lists
    /\ served \cup Range(rest) = Range(targets) /\ served \cap Range(rest) = {}
    /\ queue' = [s \in Subscribers |-> IF s \in served THEN Append(q[s], e) ELSE q[s]]
    /\ publishing' = [publishing EXCEPT ![p] = IF rest = << >> THEN Idle ELSE <<e, rest>>]

LEMMA PutOutcome ==
  ASSUME NEW p, NEW e, NEW targets \in Lists, NEW q, Put(p, e, targets, q)
  PROVE  \E served, rest : Outcome(p, e, targets, q, served, rest)
<1> DEFINE full == {i \in DOMAIN targets : Full(q, targets[i])}
           reach == IF full = {} THEN Len(targets) ELSE Min(full) - 1
<1>1. targets \in Seq(Subscribers) /\ Len(targets) \in Nat /\ DOMAIN targets = 1 .. Len(targets)
      /\ \A i \in 1 .. Len(targets) : targets[i] \in Subscribers
  BY DEF Lists
<1>2. full # {} => Min(full) \in full
  <2> SUFFICES ASSUME full # {} PROVE Min(full) \in full
    OBVIOUS
  <2>1. full \in SUBSET Nat
    BY <1>1
  <2>2. PICK n \in full : \A m \in full : n <= m
    BY <2>1, LeastNumber
  <2> HIDE DEF full
  <2> QED
    BY <2>2 DEF Min
<1>3. reach \in 0 .. Len(targets) /\ (full = {} <=> reach = Len(targets))
  <2>1. CASE full = {}
    BY <1>1, <2>1
  <2>2. CASE full # {}
    <3>1. PICK m \in 1 .. Len(targets) : m = Min(full)
      BY <1>1, <1>2, <2>2
    <3>2. reach = m - 1
      BY <2>2, <3>1
    <3> HIDE DEF reach, full
    <3> QED
      BY <1>1, <2>2, <3>1, <3>2
  <2> QED
    BY <2>1, <2>2
<1>n. PICK n \in Nat : n = Len(targets)
  BY <1>1
<1>a. PICK r \in 0 .. n : n = Len(targets) /\ r = reach /\ (full = {} <=> r = n)
  <2> HIDE DEF full, reach
  <2> QED
    BY <1>3, <1>n
<1> DEFINE head == SubSeq(targets, 1, r)
           rest == SubSeq(targets, r + 1, n)
<1>r. n \in Int /\ r \in Int /\ 0 <= r /\ r <= n
  BY SMTT(30)
<1>b. /\ DOMAIN targets = 1 .. n /\ \A i \in 1 .. n : targets[i] \in Subscribers
      /\ \A i, j \in 1 .. n : i # j => targets[i] # targets[j]
  BY <1>1, <1>a DEF Lists
<1>4. /\ queue' = [s \in Subscribers |-> IF s \in Range(head) THEN Append(q[s], e) ELSE q[s]]
      /\ publishing' = [publishing EXCEPT ![p] = IF full = {} THEN Idle ELSE <<e, rest>>]
  BY <1>a DEF Put
<1> HIDE DEF full, reach
<1>5. /\ head \in Seq(Subscribers) /\ Len(head) = r
      /\ \A i \in 1 .. r : head[i] = targets[i]
  <2>1. \A i \in 1 .. r : targets[i] \in Subscribers
    BY <1>b, <1>r
  <2>2. /\ head \in Seq(Subscribers) /\ Len(head) = IF 1 <= r THEN r - 1 + 1 ELSE 0
        /\ \A i \in 1 .. r - 1 + 1 : head[i] = targets[1 + i - 1]
    BY <1>r, <2>1, SubSeqProperties
  <2> HIDE DEF head
  <2> QED
    BY <1>r, <2>2
<1>6. /\ rest \in Seq(Subscribers) /\ Len(rest) = n - r
      /\ \A i \in 1 .. n - r : rest[i] = targets[r + i]
  <2>1. \A i \in r + 1 .. n : targets[i] \in Subscribers
    BY <1>b, <1>r
  <2>2. /\ rest \in Seq(Subscribers)
        /\ Len(rest) = IF r + 1 <= n THEN n - (r + 1) + 1 ELSE 0
        /\ \A i \in 1 .. n - (r + 1) + 1 : rest[i] = targets[r + 1 + i - 1]
    BY <1>b, <1>r, <2>1, SubSeqProperties
  <2> HIDE DEF rest
  <2> QED
    BY <1>b, <1>r, <2>2
<1> HIDE DEF head, rest
<1>7. Range(targets) = {targets[i] : i \in 1 .. n} /\ Range(head) = {head[i] : i \in 1 .. r}
      /\ Range(rest) = {rest[i] : i \in 1 .. n - r}
  BY <1>b, <1>5, <1>6, SMTT(30) DEF Range
<1>8. Range(head) \cup Range(rest) = Range(targets)
  <2>1. ASSUME NEW i \in 1 .. n PROVE targets[i] \in Range(head) \cup Range(rest)
    <3>1. CASE i <= r
      BY <1>r, <1>5, <1>7, <3>1
    <3>2. CASE i > r
      <4>1. i - r \in 1 .. n - r /\ r + (i - r) = i
        BY <1>b, <1>r, <3>2
      <4> QED
        BY <1>6, <1>7, <4>1
    <3> QED
      BY <1>r, <3>1, <3>2
  <2>2. ASSUME NEW i \in 1 .. r PROVE head[i] \in Range(targets)
    BY <1>b, <1>r, <1>5, <1>7
  <2>3. ASSUME NEW i \in 1 .. n - r PROVE rest[i] \in Range(targets)
    <3>1. r + i \in 1 .. n
      BY <1>b, <1>r
    <3> QED
      BY <1>6, <1>7, <3>1
  <2> QED
    BY <1>7, <2>1, <2>2, <2>3
<1>9. Range(head) \cap Range(rest) = {}
  <2> SUFFICES ASSUME NEW i \in 1 .. r, NEW j \in 1 .. n - r PROVE head[i] # rest[j]
    BY <1>7
  <2>1. i \in 1 .. n /\ r + j \in 1 .. n /\ i # r + j
    BY <1>b, <1>r
  <2> QED
    BY <1>b, <1>5, <1>6, <2>1
<1>10. rest \in Lists
  <2> SUFFICES ASSUME NEW i \in 1 .. Len(rest), NEW j \in 1 .. Len(rest), i # j PROVE rest[i] # rest[j]
    BY <1>6 DEF Lists
  <2>1. r + i \in 1 .. n /\ r + j \in 1 .. n /\ r + i # r + j
    BY <1>b, <1>r, <1>6
  <2> QED
    BY <1>b, <1>6, <2>1
<1>11. full = {} <=> rest = << >>
  BY <1>a, <1>r, <1>6
<1>12. Range(head) \subseteq Subscribers
  BY <1>5, <1>7
<1>13. Outcome(p, e, targets, q, Range(head), rest)
  BY <1>4, <1>8, <1>9, <1>10, <1>11, <1>12 DEF Outcome
<1> QED
  BY <1>13
-----------------------------------------------------------------------------
(* The invariant.                                                          *)

FabricTypes ==
    /\ next \in [Sources -> Nat \ {0}] /\ first \in [Sources -> Nat]
    /\ queue \in [Subscribers -> Seq(Event)]
    /\ publishing \in [Publishers -> {Idle} \cup (Event \X (Lists \ {<< >>}))]
    /\ observed \in Seq(Event)
    /\ holding \in Seq(Event) /\ (holding = << >> \/ holding = <<holding[1]>>)
    /\ ingested \in [Sources -> Seq(Nat)]
    /\ copies \in [Sources -> [1 .. MaxEvents -> Nat]]

\* Who is subscribed in each phase; before the bridge is, nothing is on its way.
Phases ==
    /\ phase \in {"starting", "running", "stopping", "stopped"}
    /\ phase \in {"starting", "stopping"} => registered = <<"news">>
    /\ phase = "running" => registered = <<"news", "bridge">>
    /\ phase = "stopped" => registered = << >> /\ alive = {}
    /\ phase = "starting" =>
          /\ queue["bridge"] = << >> /\ observed = << >> /\ holding = << >>
          /\ \A s \in Sources : ingested[s] = << >>
          /\ \A p \in Publishers : Waiting(p) => "bridge" \notin Range(publishing[p][2])

\* A reader waits with an event of its own, the news pipeline with a copy.
Owners ==
    \A p \in Publishers : Waiting(p) =>
        IF p = "news" THEN publishing[p][1].source \in NewsSources /\ publishing[p][1].news_processed
        ELSE publishing[p][1].source = p /\ ~publishing[p][1].news_processed

\* The path of the market events: what has passed the bridge, and what has not.
Passed(s) == (ingested[s] \o NumbersOf(observed, s)) \o NumbersOf(holding, s)
Behind(s) == NumbersOf(queue["bridge"], s) \o DueToBridge(s)
Covered(s) == [i \in 1 .. next[s] - first[s] |-> first[s] + i - 1]

PathInv ==
    phase = "running" => \A s \in MarketSources : first[s] <= next[s] /\ Passed(s) \o Behind(s) = Covered(s)

\* An event that is still to be enriched has not been, and is there once.
Fresh(e, nx, cp) == e.n \in 1 .. MaxEvents /\ e.n < nx[e.source] /\ cp[e.source][e.n] = 0
Absent(q, e) ==
    \A i \in 1 .. Len(q) : ~q[i].news_processed => ~ (q[i].source = e.source /\ q[i].n = e.n)
QueueFresh(q, nx, cp) ==
    /\ \A i \in 1 .. Len(q) : ~q[i].news_processed => Fresh(q[i], nx, cp)
    /\ \A i, j \in 1 .. Len(q) : i # j /\ ~q[i].news_processed /\ ~q[j].news_processed =>
          ~ (q[i].source = q[j].source /\ q[i].n = q[j].n)
DueFresh(p, q, nx, cp) ==
    Waiting(p) /\ "news" \in Range(publishing[p][2]) =>
        Fresh(publishing[p][1], nx, cp) /\ Absent(q, publishing[p][1])

NewsInv ==
    /\ \A s \in Sources, n \in 1 .. MaxEvents :
          copies[s][n] <= 1 /\ (n >= next[s] => copies[s][n] = 0)
    /\ QueueFresh(queue["news"], next, copies)
    /\ \A p \in Sources : DueFresh(p, queue["news"], next, copies)

FabricInv == FabricTypes /\ Phases /\ Owners /\ PathInv /\ NewsInv

-----------------------------------------------------------------------------
(* What a publish does to the path and to the queue of the news pipeline.  *)

LEMMA Names ==
  /\ "news" # "bridge" /\ "news" \in Subscribers /\ "bridge" \in Subscribers
  /\ "news" \in Publishers /\ "news" \notin Sources
  /\ \A s \in MarketSources : s \in Sources /\ s \notin NewsSources /\ s \in Publishers
  /\ \A s \in Sources : s \in Publishers
  BY SourcesAssumption DEF Subscribers, Publishers, Sources

LEMMA ListNames ==
  /\ <<"news">> \in Lists /\ <<"news", "bridge">> \in Lists
  /\ Range(<<"news">>) = {"news"} /\ Range(<<"news", "bridge">>) = {"news", "bridge"}
<1>1. <<"news">> \in Seq(Subscribers) /\ <<"news", "bridge">> \in Seq(Subscribers)
  BY Names
<1>2. Len(<<"news">>) = 1 /\ Len(<<"news", "bridge">>) = 2
  OBVIOUS
<1>3. DOMAIN <<"news">> = {1} /\ DOMAIN <<"news", "bridge">> = {1, 2}
  OBVIOUS
<1> QED
  BY <1>1, <1>2, <1>3 DEF Lists, Range

\* A call waits with a non-empty list, or it has returned.
LEMMA WaitingPair ==
  ASSUME FabricTypes, NEW p \in Publishers, Waiting(p)
  PROVE  /\ publishing[p][1] \in Event /\ publishing[p][2] \in Lists /\ publishing[p][2] # << >>
  BY DEF FabricTypes, Waiting

LEMMA OutcomeTyped ==
  ASSUME FabricTypes, NEW p \in Publishers, NEW e \in Event, NEW targets \in Lists,
         NEW q \in [Subscribers -> Seq(Event)], NEW served, NEW rest,
         Outcome(p, e, targets, q, served, rest)
  PROVE  /\ queue' \in [Subscribers -> Seq(Event)]
         /\ publishing' \in [Publishers -> {Idle} \cup (Event \X (Lists \ {<< >>}))]
         /\ \A x \in Publishers \ {p} : publishing'[x] = publishing[x] /\ (Waiting(x)' <=> Waiting(x))
         /\ Waiting(p)' <=> rest # << >>
         /\ Waiting(p)' => publishing'[p][1] = e /\ publishing'[p][2] = rest
<1>1. queue' \in [Subscribers -> Seq(Event)]
  BY DEF Outcome
<1>2. publishing' = [publishing EXCEPT ![p] = IF rest = << >> THEN Idle ELSE <<e, rest>>] /\ rest \in Lists
  BY DEF Outcome
<1>3. publishing'[p] = IF rest = << >> THEN Idle ELSE <<e, rest>>
  BY <1>2 DEF FabricTypes
<1>4. <<e, rest>> # Idle /\ <<e, rest>>[1] = e /\ <<e, rest>>[2] = rest
  BY DEF Idle
<1>5. publishing' \in [Publishers -> {Idle} \cup (Event \X (Lists \ {<< >>}))]
  BY <1>2 DEF FabricTypes
<1>6. \A x \in Publishers \ {p} : publishing'[x] = publishing[x]
  BY <1>2 DEF FabricTypes
<1> QED
  BY <1>1, <1>3, <1>4, <1>5, <1>6 DEF Waiting

LEMMA DueTyped ==
  ASSUME FabricTypes, NEW s \in Publishers
  PROVE  DueToBridge(s) \in Seq(Nat)
<1>1. CASE Waiting(s) /\ "bridge" \in Range(publishing[s][2])
  <2>1. publishing[s][1].n \in Nat
    BY <1>1, WaitingPair DEF Event
  <2> QED
    BY <1>1, <2>1 DEF DueToBridge
<1>2. CASE ~ (Waiting(s) /\ "bridge" \in Range(publishing[s][2]))
  BY <1>2 DEF DueToBridge
<1> QED
  BY <1>1, <1>2

LEMMA PathPut ==
  ASSUME FabricTypes, NEW p \in Publishers, NEW e \in Event, NEW targets \in Lists,
         NEW q \in [Subscribers -> Seq(Event)], NEW served, NEW rest,
         Outcome(p, e, targets, q, served, rest),
         NEW s \in MarketSources, e.source = s <=> p = s
  PROVE  /\ p # s => Behind(s)' = NumbersOf(q["bridge"], s) \o DueToBridge(s)
         /\ p = s /\ "bridge" \in Range(targets) => Behind(s)' = NumbersOf(q["bridge"], s) \o <<e.n>>
         /\ p = s /\ "bridge" \notin Range(targets) => Behind(s)' = NumbersOf(q["bridge"], s) \o << >>
<1>1. /\ queue'["bridge"] = IF "bridge" \in served THEN Append(q["bridge"], e) ELSE q["bridge"]
      /\ served \cup Range(rest) = Range(targets) /\ served \cap Range(rest) = {}
      /\ q["bridge"] \in Seq(Event) /\ NumbersOf(q["bridge"], s) \in Seq(Nat) /\ e.n \in Nat
  BY Names, NumbersTyped, OneTyped DEF Outcome
<1>2. Behind(s)' = NumbersOf(queue'["bridge"], s) \o DueToBridge(s)'
  BY DEF Behind
<1>3. CASE p # s
  <2>1. DueToBridge(s)' = DueToBridge(s)
    BY <1>3, OutcomeTyped, Names DEF DueToBridge
  <2>2. NumbersOf(queue'["bridge"], s) = NumbersOf(q["bridge"], s)
    BY <1>1, <1>3, NumbersOfAppend
  <2> QED
    BY <1>2, <1>3, <2>1, <2>2
<1>4. CASE p = s
  <2>1. Waiting(s)' <=> rest # << >>
    BY <1>4, OutcomeTyped
  <2>2. Waiting(s)' => publishing'[s][1] = e /\ publishing'[s][2] = rest
    BY <1>4, OutcomeTyped
  <2>3. "bridge" \in Range(rest) => rest # << >>
    <3>1. Range(<< >>) = {}
      BY DEF Range
    <3> QED
      BY <3>1
  <2>4. DueToBridge(s)' = IF "bridge" \in Range(rest) THEN <<e.n>> ELSE << >>
    BY <2>1, <2>2, <2>3 DEF DueToBridge
  <2>5. CASE "bridge" \in served
    <3>1. NumbersOf(queue'["bridge"], s) = NumbersOf(q["bridge"], s) \o <<e.n>>
      BY <1>1, <1>4, <2>5, NumbersOfLast DEF One
    <3>2. DueToBridge(s)' = << >> /\ "bridge" \in Range(targets)
      BY <1>1, <2>4, <2>5
    <3>3. NumbersOf(q["bridge"], s) \o <<e.n>> \in Seq(Nat)
      BY <1>1
    <3> QED
      BY <1>2, <1>4, <3>1, <3>2, <3>3, ConcatEmptySeq
  <2>6. CASE "bridge" \notin served
    <3>1. "bridge" \in Range(rest) <=> "bridge" \in Range(targets)
      BY <1>1, <2>6
    <3> QED
      BY <1>1, <1>2, <1>4, <2>4, <2>6, <3>1
  <2> QED
    BY <2>5, <2>6
<1> QED
  BY <1>3, <1>4

\* One more event at the end of a queue of fresh events.
LEMMA AppendFresh ==
  ASSUME NEW q \in Seq(Event), NEW e \in Event, NEW nx, NEW cp, QueueFresh(q, nx, cp),
         ~e.news_processed => Fresh(e, nx, cp) /\ Absent(q, e)
  PROVE  QueueFresh(Append(q, e), nx, cp)
<1>1. PICK r : r = Append(q, e)
  OBVIOUS
<1>2. /\ Len(q) \in Nat /\ Len(r) = Len(q) + 1 /\ r[Len(q) + 1] = e
      /\ \A i \in 1 .. Len(q) : r[i] = q[i]
  BY <1>1
<1>3. \A i \in 1 .. Len(r) : i = Len(q) + 1 \/ i \in 1 .. Len(q)
  BY <1>2
<1>4. QueueFresh(r, nx, cp)
  BY <1>2, <1>3 DEF QueueFresh, Absent
<1> QED
  BY <1>1, <1>4

LEMMA AppendAbsent ==
  ASSUME NEW q \in Seq(Event), NEW e \in Event, NEW x, Absent(q, x),
         e.news_processed \/ e.source # x.source
  PROVE  Absent(Append(q, e), x)
<1>1. PICK r : r = Append(q, e)
  OBVIOUS
<1>2. /\ Len(q) \in Nat /\ Len(r) = Len(q) + 1 /\ r[Len(q) + 1] = e
      /\ \A i \in 1 .. Len(q) : r[i] = q[i]
  BY <1>1
<1>3. \A i \in 1 .. Len(r) : i = Len(q) + 1 \/ i \in 1 .. Len(q)
  BY <1>2
<1>4. Absent(r, x)
  BY <1>2, <1>3 DEF Absent
<1> QED
  BY <1>1, <1>4

LEMMA NewsPut ==
  ASSUME FabricTypes, Owners, NEW p \in Publishers, NEW e \in Event, NEW targets \in Lists,
         NEW q \in [Subscribers -> Seq(Event)], NEW served, NEW rest,
         Outcome(p, e, targets, q, served, rest), NEW nx, NEW cp,
         QueueFresh(q["news"], nx, cp),
         \A x \in Sources \ {p} : DueFresh(x, q["news"], nx, cp),
         IF p = "news" THEN e.news_processed ELSE e.source = p /\ ~e.news_processed,
         p # "news" /\ "news" \in Range(targets) => Fresh(e, nx, cp) /\ Absent(q["news"], e)
  PROVE  /\ QueueFresh(queue'["news"], nx, cp)
         /\ \A x \in Sources :
               Waiting(x)' /\ "news" \in Range(publishing'[x][2]) =>
                   Fresh(publishing'[x][1], nx, cp) /\ Absent(queue'["news"], publishing'[x][1])
<1>1. /\ queue'["news"] = IF "news" \in served THEN Append(q["news"], e) ELSE q["news"]
      /\ served \cup Range(rest) = Range(targets) /\ served \cap Range(rest) = {}
      /\ q["news"] \in Seq(Event)
  BY Names DEF Outcome
<1>2. QueueFresh(queue'["news"], nx, cp)
  BY <1>1, AppendFresh
<1>3. ASSUME NEW x \in Sources, Waiting(x)', "news" \in Range(publishing'[x][2])
      PROVE  Fresh(publishing'[x][1], nx, cp) /\ Absent(queue'["news"], publishing'[x][1])
  <2>1. CASE x = p
    <3>1. publishing'[x][1] = e /\ publishing'[x][2] = rest /\ p # "news"
      BY <1>3, <2>1, OutcomeTyped, Names
    <3>2. "news" \in Range(targets) /\ queue'["news"] = q["news"]
      BY <1>1, <1>3, <3>1
    <3> QED
      BY <3>1, <3>2
  <2>2. CASE x # p
    <3>1. publishing'[x] = publishing[x] /\ Waiting(x)
      BY <1>3, <2>2, OutcomeTyped, Names
    <3>2. /\ Fresh(publishing[x][1], nx, cp) /\ Absent(q["news"], publishing[x][1])
          /\ publishing[x][1].source = x
      BY <1>3, <2>2, <3>1, Names DEF DueFresh, Owners
    <3>3. e.news_processed \/ e.source # publishing[x][1].source
      BY <2>2, <3>2
    <3> QED
      BY <1>1, <3>1, <3>2, <3>3, AppendAbsent
  <2> QED
    BY <2>1, <2>2
<1> QED
  BY <1>2, <1>3

\* What is left when the head is taken; a raw head was the only one of its number.
LEMMA TailFresh ==
  ASSUME NEW q \in Seq(Event), q # << >>, NEW nx, NEW cp, QueueFresh(q, nx, cp)
  PROVE  /\ Tail(q) \in Seq(Event) /\ Head(q) \in Event
         /\ QueueFresh(Tail(q), nx, cp)
         /\ \A x : Absent(q, x) => Absent(Tail(q), x)
         /\ ~Head(q).news_processed => Fresh(Head(q), nx, cp) /\ Absent(Tail(q), Head(q))
<1>1. PICK t : t = Tail(q)
  OBVIOUS
<1>2. /\ t \in Seq(Event) /\ Len(q) \in Nat /\ Len(t) \in Nat /\ Len(q) = Len(t) + 1
      /\ q[1] = Head(q) /\ Head(q) \in Event /\ \A i \in 1 .. Len(t) : t[i] = q[i + 1]
  BY <1>1
<1>3. \A i \in 1 .. Len(t) : i + 1 \in 1 .. Len(q) /\ i + 1 # 1 /\ i \in Int
  BY <1>2
<1>4. 1 \in 1 .. Len(q)
  BY <1>2
<1>5. QueueFresh(t, nx, cp)
  <2>1. ASSUME NEW i \in 1 .. Len(t), ~t[i].news_processed PROVE Fresh(t[i], nx, cp)
    BY <1>2, <1>3, <2>1 DEF QueueFresh
  <2>2. ASSUME NEW i \in 1 .. Len(t), NEW j \in 1 .. Len(t), i # j,
               ~t[i].news_processed, ~t[j].news_processed
        PROVE  ~ (t[i].source = t[j].source /\ t[i].n = t[j].n)
    <3>1. i + 1 # j + 1
      BY <1>3, <2>2
    <3> QED
      BY <1>2, <1>3, <2>2, <3>1 DEF QueueFresh
  <2> QED
    BY <2>1, <2>2 DEF QueueFresh
<1>6. \A x : Absent(q, x) => Absent(t, x)
  BY <1>2, <1>3 DEF Absent
<1>7. ASSUME ~Head(q).news_processed PROVE Fresh(Head(q), nx, cp) /\ Absent(t, Head(q))
  BY <1>2, <1>3, <1>4, <1>7 DEF QueueFresh, Absent
<1> QED
  BY <1>1, <1>2, <1>5, <1>6, <1>7

\* The number of a source grows: what was fresh remains so.
LEMMA NextGrows ==
  ASSUME NEW nx \in [Sources -> Nat], NEW ny \in [Sources -> Nat], NEW cp,
         \A s \in Sources : nx[s] <= ny[s]
  PROVE  /\ \A x \in Event : Fresh(x, nx, cp) => Fresh(x, ny, cp)
         /\ \A q \in Seq(Event) : QueueFresh(q, nx, cp) => QueueFresh(q, ny, cp)
<1>1. ASSUME NEW x \in Event, Fresh(x, nx, cp) PROVE Fresh(x, ny, cp)
  <2>1. x.source \in Sources /\ x.n \in Nat
    BY DEF Event
  <2>2. nx[x.source] \in Nat /\ ny[x.source] \in Nat /\ nx[x.source] <= ny[x.source]
    BY <2>1
  <2> QED
    BY <1>1, <2>1, <2>2 DEF Fresh
<1>2. ASSUME NEW q \in Seq(Event), QueueFresh(q, nx, cp) PROVE QueueFresh(q, ny, cp)
  <2>1. \A i \in 1 .. Len(q) : q[i] \in Event
    OBVIOUS
  <2> QED
    BY <1>1, <1>2, <2>1 DEF QueueFresh
<1> QED
  BY <1>1, <1>2

\* One more copy is made: the events of other numbers remain fresh.
LEMMA CopyMade ==
  ASSUME NEW nx, NEW cp \in [Sources -> [1 .. MaxEvents -> Nat]],
         NEW e \in Event, NEW cq, cq = [cp EXCEPT ![e.source][e.n] = @ + 1]
  PROVE  /\ \A x \in Event : Fresh(x, nx, cp) /\ ~ (x.source = e.source /\ x.n = e.n) => Fresh(x, nx, cq)
         /\ \A q \in Seq(Event) : QueueFresh(q, nx, cp) /\ Absent(q, e) => QueueFresh(q, nx, cq)
<1>1. ASSUME NEW x \in Event, Fresh(x, nx, cp), ~ (x.source = e.source /\ x.n = e.n)
      PROVE  Fresh(x, nx, cq)
  <2>1. x.source \in Sources /\ e.source \in Sources
    BY DEF Event
  <2>2. cq[x.source][x.n] = cp[x.source][x.n]
    BY <1>1, <2>1
  <2> QED
    BY <1>1, <2>2 DEF Fresh
<1>2. ASSUME NEW q \in Seq(Event), QueueFresh(q, nx, cp), Absent(q, e) PROVE QueueFresh(q, nx, cq)
  <2>1. \A i \in 1 .. Len(q) : q[i] \in Event
    OBVIOUS
  <2> QED
    BY <1>1, <1>2, <2>1 DEF QueueFresh, Absent
<1> QED
  BY <1>1, <1>2

\* A publish leaves the order of subscription alone, and waits for nobody new.
LEMMA PutPhases ==
  ASSUME FabricTypes, Phases, Owners, NEW p \in Publishers, NEW e \in Event, NEW targets \in Lists,
         NEW q \in [Subscribers -> Seq(Event)], NEW served, NEW rest,
         Outcome(p, e, targets, q, served, rest),
         q["bridge"] = queue["bridge"], phase = "starting" => "bridge" \notin Range(targets),
         IF p = "news" THEN e.source \in NewsSources /\ e.news_processed
         ELSE e.source = p /\ ~e.news_processed,
         UNCHANGED <<alive, registered, path, phase>>
  PROVE  Phases' /\ Owners'
<1>1. /\ queue'["bridge"] = IF "bridge" \in served THEN Append(q["bridge"], e) ELSE q["bridge"]
      /\ served \cup Range(rest) = Range(targets)
  BY Names DEF Outcome
<1>2. /\ \A x \in Publishers \ {p} : publishing'[x] = publishing[x] /\ (Waiting(x)' <=> Waiting(x))
      /\ Waiting(p)' => publishing'[p][1] = e /\ publishing'[p][2] = rest
  BY OutcomeTyped
<1>3. UNCHANGED <<alive, registered, observed, holding, ingested, phase>>
  BY DEF path
<1>4. Phases'
  <2>1. ASSUME phase = "starting", NEW x \in Publishers, Waiting(x)'
        PROVE  "bridge" \notin Range(publishing'[x][2])
    <3>1. CASE x = p
      BY <1>1, <1>2, <2>1, <3>1
    <3>2. CASE x # p
      BY <1>2, <2>1, <3>2 DEF Phases
    <3> QED
      BY <3>1, <3>2
  <2>2. phase = "starting" => queue'["bridge"] = << >>
    BY <1>1 DEF Phases
  <2> QED
    BY <1>3, <2>1, <2>2 DEF Phases
<1>5. Owners'
  <2> SUFFICES ASSUME NEW x \in Publishers, Waiting(x)'
               PROVE  IF x = "news"
                      THEN publishing'[x][1].source \in NewsSources /\ publishing'[x][1].news_processed
                      ELSE publishing'[x][1].source = x /\ ~publishing'[x][1].news_processed
    BY DEF Owners
  <2>1. CASE x = p
    BY <1>2, <2>1
  <2>2. CASE x # p
    BY <1>2, <2>2 DEF Owners
  <2> QED
    BY <2>1, <2>2
<1> QED
  BY <1>4, <1>5

-----------------------------------------------------------------------------
(* The steps.                                                              *)

LEMMA FabricStarts == FabricInit => FabricInv
<1> SUFFICES ASSUME FabricInit PROVE FabricInv
  OBVIOUS
<1> USE DEF FabricInit
<1>0. \A p \in Publishers : ~Waiting(p)
  BY DEF Waiting
<1>1. FabricTypes
  <2>1. << >> \in Seq(Event) /\ << >> \in Seq(Nat) /\ 0 \in Nat /\ 1 \in Nat \ {0}
    OBVIOUS
  <2>2. /\ next \in [Sources -> Nat \ {0}] /\ first \in [Sources -> Nat]
        /\ queue \in [Subscribers -> Seq(Event)]
        /\ ingested \in [Sources -> Seq(Nat)]
    BY <2>1
  <2>3. copies \in [Sources -> [1 .. MaxEvents -> Nat]]
    BY <2>1
  <2>4. publishing \in [Publishers -> {Idle} \cup (Event \X (Lists \ {<< >>}))]
    OBVIOUS
  <2> QED
    BY <2>1, <2>2, <2>3, <2>4 DEF FabricTypes
<1>2. Phases
  BY <1>0, Names DEF Phases
<1>3. Owners
  BY <1>0 DEF Owners
<1>4. PathInv
  BY DEF PathInv
<1>5. NewsInv
  <2>1. queue["news"] = << >> /\ Len(<< >>) = 0
    BY Names
  <2>2. QueueFresh(queue["news"], next, copies)
    BY <2>1 DEF QueueFresh
  <2>3. \A p \in Sources : DueFresh(p, queue["news"], next, copies)
    BY <1>0, Names DEF DueFresh
  <2>4. \A s \in Sources, n \in 1 .. MaxEvents : copies[s][n] = 0
    OBVIOUS
  <2>5. \A s \in Sources, n \in 1 .. MaxEvents : copies[s][n] <= 1 /\ (n >= next[s] => copies[s][n] = 0)
    BY <2>4
  <2> HIDE DEF FabricInit
  <2> QED
    BY <2>2, <2>3, <2>5 DEF NewsInv
<1> QED
  BY <1>1, <1>2, <1>3, <1>4, <1>5 DEF FabricInv

LEMMA AheadTyped ==
  ASSUME FabricTypes, NEW s \in Sources
  PROVE  /\ ingested[s] \in Seq(Nat) /\ NumbersOf(observed, s) \in Seq(Nat)
         /\ NumbersOf(holding, s) \in Seq(Nat) /\ ingested[s] \o NumbersOf(observed, s) \in Seq(Nat)
         /\ Passed(s) \in Seq(Nat)
<1>1. ingested[s] \in Seq(Nat) /\ NumbersOf(observed, s) \in Seq(Nat) /\ NumbersOf(holding, s) \in Seq(Nat)
  BY NumbersTyped DEF FabricTypes
<1>2. ingested[s] \o NumbersOf(observed, s) \in Seq(Nat)
  BY <1>1, ConcatProperties
<1>3. (ingested[s] \o NumbersOf(observed, s)) \o NumbersOf(holding, s) \in Seq(Nat)
  BY <1>1, <1>2, ConcatProperties
<1> QED
  BY <1>1, <1>2, <1>3 DEF Passed

\* The numbers from f on, before and after the next one.
LEMMA CoveredGrows ==
  ASSUME NEW f \in Nat, NEW n \in Nat, f <= n
  PROVE  [i \in 1 .. (n + 1) - f |-> f + i - 1] = [i \in 1 .. n - f |-> f + i - 1] \o <<n>>
<1> DEFINE short == [i \in 1 .. n - f |-> f + i - 1]
           long == [i \in 1 .. (n + 1) - f |-> f + i - 1]
<1>1. n - f \in Nat /\ (n + 1) - f \in Nat /\ (n + 1) - f = (n - f) + 1
  OBVIOUS
<1>2. short \in Seq(Nat) /\ Len(short) = n - f /\ long \in Seq(Nat) /\ Len(long) = (n + 1) - f
  <2>1. \A i \in 1 .. n - f : f + i - 1 \in Nat
    OBVIOUS
  <2>2. \A i \in 1 .. (n + 1) - f : f + i - 1 \in Nat
    OBVIOUS
  <2>3. short \in [1 .. n - f -> Nat] /\ long \in [1 .. (n + 1) - f -> Nat]
    BY <2>1, <2>2
  <2> HIDE DEF short, long
  <2> QED
    BY <1>1, <2>3, SeqDef, LenProperties, SMTT(30)
<1>3. /\ \A i \in 1 .. n - f : short[i] = f + i - 1
      /\ \A i \in 1 .. (n + 1) - f : long[i] = f + i - 1
  OBVIOUS
<1> HIDE DEF short, long
<1>4. short \o <<n>> \in Seq(Nat) /\ <<n>> \in Seq(Nat) /\ Len(<<n>>) = 1 /\ <<n>>[1] = n
  BY <1>2
<1>5. Len(short \o <<n>>) = (n - f) + 1
      /\ \A i \in 1 .. (n - f) + 1 : (short \o <<n>>)[i] = IF i <= n - f THEN short[i] ELSE <<n>>[i - (n - f)]
  BY <1>2, <1>4, ConcatProperties
<1>6. ASSUME NEW i \in 1 .. (n - f) + 1 PROVE long[i] = (short \o <<n>>)[i]
  <2>1. CASE i <= n - f
    BY <1>1, <1>3, <1>5, <2>1
  <2>2. CASE ~ (i <= n - f)
    <3>1. i = (n - f) + 1 /\ i - (n - f) = 1 /\ f + i - 1 = n
      BY <2>2
    <3> QED
      BY <1>1, <1>3, <1>4, <1>5, <2>2, <3>1
  <2> QED
    BY <2>1, <2>2
<1>7. long = short \o <<n>>
  BY <1>1, <1>2, <1>4, <1>5, <1>6, SeqEqual
<1> QED
  BY <1>7 DEF short, long

\* What a step does not touch of the path.
LEMMA SamePath ==
  ASSUME PathInv, UNCHANGED <<next, ingested, observed, holding, first, phase>>,
         phase = "running" => \A s \in MarketSources : Behind(s)' = Behind(s)
  PROVE  PathInv'
<1>1. \A s \in MarketSources : Passed(s)' = Passed(s) /\ Covered(s)' = Covered(s)
  BY DEF Passed, Covered
<1> QED
  BY <1>1 DEF PathInv

LEMMA ResumeKeeps == ASSUME FabricInv, NEW p \in Publishers, Resume(p) PROVE FabricInv'
<1> USE DEF FabricInv
<1>1. PICK e \in Event, targets \in Lists : e = publishing[p][1] /\ targets = publishing[p][2]
  BY WaitingPair DEF Resume
<1>2. PICK served, rest : Outcome(p, e, targets, queue, served, rest)
  BY <1>1, PutOutcome DEF Resume
<1>3. UNCHANGED <<next, alive, registered, holding, observed, ingested, first, phase, copies>>
  BY DEF Resume, readers, path
<1>4. queue \in [Subscribers -> Seq(Event)]
  BY DEF FabricTypes
<1>5. IF p = "news" THEN e.source \in NewsSources /\ e.news_processed
      ELSE e.source = p /\ ~e.news_processed
  BY <1>1 DEF Resume, Owners
<1>6. FabricTypes'
  BY <1>2, <1>3, <1>4, OutcomeTyped DEF FabricTypes
<1>7. Phases' /\ Owners'
  <2>1. phase = "starting" => "bridge" \notin Range(targets)
    BY <1>1 DEF Phases, Resume
  <2> QED
    BY <1>2, <1>3, <1>4, <1>5, <2>1, PutPhases DEF path
<1>8. PathInv'
  <2>1. ASSUME NEW s \in MarketSources PROVE Behind(s)' = Behind(s)
    <3>1. e.source = s <=> p = s
      BY <1>5, Names
    <3>2. /\ p # s => Behind(s)' = NumbersOf(queue["bridge"], s) \o DueToBridge(s)
          /\ p = s /\ "bridge" \in Range(targets) => Behind(s)' = NumbersOf(queue["bridge"], s) \o <<e.n>>
          /\ p = s /\ "bridge" \notin Range(targets) => Behind(s)' = NumbersOf(queue["bridge"], s) \o << >>
      BY <1>2, <1>4, <3>1, PathPut
    <3>3. p = s => DueToBridge(s) = IF "bridge" \in Range(targets) THEN <<e.n>> ELSE << >>
      BY <1>1 DEF DueToBridge, Resume
    <3>4. Behind(s) = NumbersOf(queue["bridge"], s) \o DueToBridge(s)
      BY DEF Behind
    <3> QED
      BY <3>2, <3>3, <3>4
  <2> QED
    BY <1>3, <2>1, SamePath
<1>9. NewsInv'
  <2>1. /\ QueueFresh(queue["news"], next, copies)
        /\ \A x \in Sources : DueFresh(x, queue["news"], next, copies)
    BY DEF NewsInv
  <2>2. p # "news" /\ "news" \in Range(targets) => Fresh(e, next, copies) /\ Absent(queue["news"], e)
    BY <1>1, <2>1 DEF DueFresh, Resume, Publishers
  <2>3. /\ QueueFresh(queue'["news"], next, copies)
        /\ \A x \in Sources :
              Waiting(x)' /\ "news" \in Range(publishing'[x][2]) =>
                  Fresh(publishing'[x][1], next, copies) /\ Absent(queue'["news"], publishing'[x][1])
    BY <1>2, <1>4, <1>5, <2>1, <2>2, NewsPut
  <2> QED
    BY <1>3, <2>3 DEF NewsInv, DueFresh
<1> QED
  BY <1>6, <1>7, <1>8, <1>9

LEMMA ReadKeeps == ASSUME FabricInv, NEW s \in Sources, Read(s) PROVE FabricInv'
<1> USE DEF FabricInv
<1> DEFINE e == [source |-> s, n |-> next[s], news_processed |-> FALSE]
<1>0. /\ s \in Publishers /\ s # "news" /\ ~Waiting(s) /\ next[s] \in Nat \ {0} /\ next[s] <= MaxEvents
      /\ MaxEvents \in Nat
  BY Names, SizesAssumption DEF Read, FabricTypes
<1>1. e \in Event /\ e.source = s /\ e.n = next[s] /\ ~e.news_processed
  BY <1>0 DEF Event
<1>2. registered \in Lists /\ phase \in {"starting", "running", "stopping"}
  <2>1. phase # "stopped"
    BY DEF Phases, Read
  <2> QED
    BY <2>1, ListNames DEF Phases
<1>3. Put(s, e, registered, queue)
  BY DEF Read
<1> HIDE DEF e
<1>4. PICK served, rest : Outcome(s, e, registered, queue, served, rest)
  BY <1>1, <1>2, <1>3, PutOutcome
<1>5. /\ UNCHANGED <<alive, registered, holding, observed, ingested, first, phase, copies>>
      /\ next' = [next EXCEPT ![s] = @ + 1]
  BY DEF Read, path
<1>6. queue \in [Subscribers -> Seq(Event)] /\ next \in [Sources -> Nat]
  BY DEF FabricTypes
<1>7. next' \in [Sources -> Nat \ {0}] /\ next'[s] = next[s] + 1
      /\ \A x \in Sources \ {s} : next'[x] = next[x]
  BY <1>0, <1>5 DEF FabricTypes
<1>8. FabricTypes'
  BY <1>0, <1>1, <1>2, <1>4, <1>5, <1>6, <1>7, OutcomeTyped DEF FabricTypes
<1>9. Phases' /\ Owners'
  <2>1. phase = "starting" => "bridge" \notin Range(registered)
    BY ListNames, Names DEF Phases
  <2> QED
    BY <1>0, <1>1, <1>2, <1>4, <1>5, <1>6, <2>1, PutPhases DEF path
<1>10. PathInv'
  <2> SUFFICES ASSUME phase = "running", NEW x \in MarketSources
               PROVE  first'[x] <= next'[x] /\ Passed(x)' \o Behind(x)' = Covered(x)'
    BY <1>5 DEF PathInv
  <2>0. x \in Sources /\ first[x] <= next[x] /\ Passed(x) \o Behind(x) = Covered(x) /\ Passed(x)' = Passed(x)
        /\ first[x] \in Nat /\ next[x] \in Nat
    BY <1>5, Names DEF PathInv, Passed, FabricTypes
  <2>1. /\ s # x => Behind(x)' = NumbersOf(queue["bridge"], x) \o DueToBridge(x)
        /\ s = x /\ "bridge" \in Range(registered) => Behind(x)' = NumbersOf(queue["bridge"], x) \o <<e.n>>
    <3>1. e.source = x <=> s = x
      BY <1>1
    <3> QED
      BY <1>0, <1>1, <1>2, <1>4, <1>6, <3>1, PathPut, ZenonT(60)
  <2>2. CASE x # s
    <3>1. next'[x] = next[x] /\ Behind(x)' = Behind(x)
      BY <1>7, <2>0, <2>1, <2>2 DEF Behind
    <3>2. Covered(x)' = Covered(x)
      BY <1>5, <3>1 DEF Covered
    <3> QED
      BY <1>5, <2>0, <3>1, <3>2
  <2>3. CASE x = s
    <3>1. Behind(x)' = NumbersOf(queue["bridge"], x) \o <<next[x]>>
      BY <1>1, <2>1, <2>3, ListNames DEF Phases
    <3>2. Behind(x) = NumbersOf(queue["bridge"], x)
      <4>1. DueToBridge(x) = << >> /\ NumbersOf(queue["bridge"], x) \in Seq(Nat)
        BY <1>0, <1>6, <2>3, Names, NumbersTyped DEF DueToBridge
      <4> QED
        BY <4>1, ConcatEmptySeq DEF Behind
    <3>3. Passed(x) \in Seq(Nat) /\ Behind(x) \in Seq(Nat) /\ <<next[x]>> \in Seq(Nat)
      BY <1>6, <2>0, <3>2, AheadTyped, Names, NumbersTyped
    <3>4. Passed(x)' \o Behind(x)' = Covered(x) \o <<next[x]>>
      BY <2>0, <3>1, <3>2, <3>3, ConcatAssociative
    <3>5. Covered(x)' = Covered(x) \o <<next[x]>>
      <4>1. first'[x] = first[x] /\ next'[x] = next[x] + 1
        BY <1>5, <1>7, <2>3
      <4>2. Covered(x)' = [i \in 1 .. (next[x] + 1) - first[x] |-> first[x] + i - 1]
        BY <4>1 DEF Covered
      <4>3. [i \in 1 .. (next[x] + 1) - first[x] |-> first[x] + i - 1]
            = [i \in 1 .. next[x] - first[x] |-> first[x] + i - 1] \o <<next[x]>>
        BY <2>0, CoveredGrows
      <4> QED
        BY <4>2, <4>3 DEF Covered
    <3>6. first'[x] <= next'[x]
      <4>1. first'[x] = first[x] /\ next'[x] = next[x] + 1 /\ first[x] \in Int /\ next[x] \in Int
        BY <1>5, <1>7, <2>0, <2>3
      <4> QED
        BY <2>0, <4>1
    <3> QED
      BY <3>4, <3>5, <3>6
  <2> QED
    BY <2>2, <2>3
<1>11. NewsInv'
  <2>1. /\ QueueFresh(queue["news"], next, copies)
        /\ \A x \in Sources : DueFresh(x, queue["news"], next, copies)
        /\ \A x \in Sources, n \in 1 .. MaxEvents :
              copies[x][n] <= 1 /\ (n >= next[x] => copies[x][n] = 0)
    BY DEF NewsInv
  <2>2. queue["news"] \in Seq(Event)
    BY <1>6, Names
  <2>g. /\ \A x \in Event : Fresh(x, next, copies) => Fresh(x, next', copies)
        /\ \A q \in Seq(Event) : QueueFresh(q, next, copies) => QueueFresh(q, next', copies)
    <3>1. \A x \in Sources : next[x] <= next'[x]
      BY <1>6, <1>7
    <3>2. next' \in [Sources -> Nat]
      BY <1>7
    <3> QED
      BY <1>6, <3>1, <3>2, NextGrows
  <2>3. QueueFresh(queue["news"], next', copies)
    BY <2>1, <2>2, <2>g
  <2>4. \A x \in Sources \ {s} : DueFresh(x, queue["news"], next', copies)
    <3> SUFFICES ASSUME NEW x \in Sources \ {s}, Waiting(x), "news" \in Range(publishing[x][2])
                 PROVE  Fresh(publishing[x][1], next', copies) /\ Absent(queue["news"], publishing[x][1])
      BY DEF DueFresh
    <3>1. publishing[x][1] \in Event
      BY Names, WaitingPair
    <3> QED
      BY <2>1, <2>g, <3>1 DEF DueFresh
  <2>5. Fresh(e, next', copies)
    <3>1. next[s] \in 1 .. MaxEvents /\ next[s] >= next[s]
      BY <1>0
    <3>2. copies[s][next[s]] = 0
      BY <2>1, <3>1
    <3> QED
      BY <1>0, <1>1, <1>7, <3>1, <3>2 DEF Fresh
  <2>6. Absent(queue["news"], e)
    <3> SUFFICES ASSUME NEW i \in 1 .. Len(queue["news"]), ~queue["news"][i].news_processed,
                        queue["news"][i].source = s, queue["news"][i].n = next[s]
                 PROVE  FALSE
      BY <1>1 DEF Absent
    <3> QED
      BY <1>0, <2>1 DEF QueueFresh, Fresh
  <2>7. /\ QueueFresh(queue'["news"], next', copies)
        /\ \A x \in Sources :
              Waiting(x)' /\ "news" \in Range(publishing'[x][2]) =>
                  Fresh(publishing'[x][1], next', copies) /\ Absent(queue'["news"], publishing'[x][1])
    BY <1>0, <1>1, <1>2, <1>4, <1>6, <2>3, <2>4, <2>5, <2>6, NewsPut
  <2>8. \A x \in Sources, n \in 1 .. MaxEvents : n >= next'[x] => n >= next[x]
    BY <1>6, <1>7
  <2> QED
    BY <1>5, <2>1, <2>7, <2>8 DEF NewsInv, DueFresh
<1> QED
  BY <1>8, <1>9, <1>10, <1>11

\* A queue loses its head: what it had of one source.
LEMMA PathTake ==
  ASSUME NEW q \in Seq(Event), q # << >>, NEW s, NEW b \in Seq(Nat)
  PROVE  NumbersOf(q, s) \o b = One(Head(q), s) \o (NumbersOf(Tail(q), s) \o b)
<1>1. Head(q) \in Event /\ Tail(q) \in Seq(Event)
  BY HeadTailProperties
<1>2. One(Head(q), s) \in Seq(Nat) /\ NumbersOf(Tail(q), s) \in Seq(Nat)
  BY <1>1, OneTyped, NumbersTyped
<1>3. NumbersOf(q, s) = One(Head(q), s) \o NumbersOf(Tail(q), s)
  BY NumbersOfTail
<1>4. PICK x \in Seq(Nat), y \in Seq(Nat) : x = One(Head(q), s) /\ y = NumbersOf(Tail(q), s)
  BY <1>2
<1>5. (x \o y) \o b = x \o (y \o b)
  BY NumbersConcat
<1> QED
  BY <1>3, <1>4, <1>5

LEMMA NewsTakeKeeps == ASSUME FabricInv, NewsTake PROVE FabricInv'
<1> USE DEF FabricInv
<1> DEFINE h == Head(queue["news"])
           q == [queue EXCEPT !["news"] = Tail(@)]
<1>0. /\ queue \in [Subscribers -> Seq(Event)] /\ queue["news"] \in Seq(Event)
      /\ queue["news"] # << >> /\ phase \in {"starting", "running", "stopping"}
      /\ copies \in [Sources -> [1 .. MaxEvents -> Nat]]
  BY Names DEF FabricTypes, NewsTake, Phases
<1>1. UNCHANGED <<next, alive, registered, holding, observed, ingested, first, phase>>
  BY DEF NewsTake, readers, path
<1>2. /\ QueueFresh(queue["news"], next, copies)
      /\ \A x \in Sources : DueFresh(x, queue["news"], next, copies)
      /\ \A s \in Sources, n \in 1 .. MaxEvents :
            copies[s][n] <= 1 /\ (n >= next[s] => copies[s][n] = 0)
  BY DEF NewsInv
<1>3. /\ Tail(queue["news"]) \in Seq(Event) /\ h \in Event
      /\ QueueFresh(Tail(queue["news"]), next, copies)
      /\ \A x : Absent(queue["news"], x) => Absent(Tail(queue["news"]), x)
      /\ ~h.news_processed => Fresh(h, next, copies) /\ Absent(Tail(queue["news"]), h)
  BY <1>0, <1>2, TailFresh
<1>4. q \in [Subscribers -> Seq(Event)] /\ q["news"] = Tail(queue["news"]) /\ q["bridge"] = queue["bridge"]
  BY <1>0, <1>3, Names
<1>5. CASE ~ToEnrich(h)
  <2>1. queue' = q /\ UNCHANGED <<publishing, copies>>
    BY <1>5 DEF NewsTake
  <2>2. \A x \in Publishers : Waiting(x)' <=> Waiting(x)
    BY <2>1 DEF Waiting
  <2> HIDE DEF h, q
  <2>3. FabricTypes'
    BY <1>1, <1>4, <2>1 DEF FabricTypes
  <2>4. Phases' /\ Owners'
    BY <1>1, <1>4, <2>1, <2>2 DEF Phases, Owners
  <2>5. PathInv'
    <3>1. \A s \in MarketSources : Behind(s)' = Behind(s)
      BY <1>4, <2>1, <2>2, Names DEF Behind, DueToBridge
    <3> QED
      BY <1>1, <3>1, SamePath
  <2>6. NewsInv'
    <3>1. \A x \in Sources : DueFresh(x, queue["news"], next, copies)'
      BY <1>1, <1>2, <1>3, <1>4, <2>1, <2>2, Names DEF DueFresh
    <3> QED
      BY <1>1, <1>2, <1>3, <1>4, <2>1, <3>1 DEF NewsInv
  <2> QED
    BY <2>3, <2>4, <2>5, <2>6
<1>6. CASE ToEnrich(h)
  <2> DEFINE e == [h EXCEPT !.news_processed = TRUE]
  <2>1. h.source \in NewsSources /\ ~h.news_processed /\ h.source \in Sources /\ h.n \in 1 .. MaxEvents
        /\ Fresh(h, next, copies) /\ Absent(Tail(queue["news"]), h)
    BY <1>3, <1>6 DEF ToEnrich, Fresh, Sources
  <2>2. e \in Event /\ e.source \in NewsSources /\ e.news_processed /\ ~(e.news_processed = FALSE)
    BY <1>3, <2>1 DEF Event
  <2>3. Put("news", e, registered, q) /\ copies' = [copies EXCEPT ![h.source][h.n] = @ + 1]
    BY <1>6 DEF NewsTake
  <2>4. registered \in Lists /\ "news" \in Publishers
    BY <1>0, ListNames, Names DEF Phases
  <2> HIDE DEF e, h, q
  <2>5. PICK served, rest : Outcome("news", e, registered, q, served, rest)
    BY <2>3, <2>4, PutOutcome
  <2>6. copies' \in [Sources -> [1 .. MaxEvents -> Nat]]
    <3>1. PICK row \in [1 .. MaxEvents -> Nat] : row = copies[h.source]
      BY <1>0, <2>1
    <3>2. [row EXCEPT ![h.n] = @ + 1] \in [1 .. MaxEvents -> Nat]
      BY <2>1
    <3>3. copies' = [copies EXCEPT ![h.source] = [row EXCEPT ![h.n] = @ + 1]]
      BY <2>3, <3>1
    <3> QED
      BY <1>0, <3>2, <3>3
  <2>7. FabricTypes'
    BY <1>1, <1>4, <2>2, <2>4, <2>5, <2>6, OutcomeTyped DEF FabricTypes
  <2>8. Phases' /\ Owners'
    <3>1. phase = "starting" => "bridge" \notin Range(registered)
      BY ListNames, Names DEF Phases
    <3> QED
      BY <1>1, <1>4, <2>2, <2>4, <2>5, <3>1, PutPhases DEF path
  <2>9. PathInv'
    <3>1. ASSUME NEW s \in MarketSources PROVE Behind(s)' = Behind(s)
      <4>1. (e.source = s <=> "news" = s) /\ "news" # s
        BY <2>2, Names
      <4>2. Behind(s)' = NumbersOf(q["bridge"], s) \o DueToBridge(s)
        BY <1>4, <2>2, <2>4, <2>5, <4>1, PathPut
      <4> QED
        BY <1>4, <4>2 DEF Behind
    <3> QED
      BY <1>1, <3>1, SamePath
  <2>10. NewsInv'
    <3>1. /\ \A x \in Event : Fresh(x, next, copies) /\ ~ (x.source = h.source /\ x.n = h.n) =>
                 Fresh(x, next, copies')
          /\ \A r \in Seq(Event) : QueueFresh(r, next, copies) /\ Absent(r, h) => QueueFresh(r, next, copies')
      BY <1>0, <1>3, <2>1, <2>3, CopyMade
    <3>2. QueueFresh(q["news"], next, copies')
      BY <1>3, <1>4, <2>1, <3>1
    <3>3. \A x \in Sources \ {"news"} : DueFresh(x, q["news"], next, copies')
      <4> SUFFICES ASSUME NEW x \in Sources, Waiting(x), "news" \in Range(publishing[x][2])
                   PROVE  Fresh(publishing[x][1], next, copies') /\ Absent(q["news"], publishing[x][1])
        BY DEF DueFresh
      <4>1. /\ publishing[x][1] \in Event /\ Fresh(publishing[x][1], next, copies)
            /\ Absent(queue["news"], publishing[x][1])
        BY <1>2, Names, WaitingPair DEF DueFresh
      <4>2. ~ (publishing[x][1].source = h.source /\ publishing[x][1].n = h.n)
        <5>1. Len(queue["news"]) \in Nat /\ 1 \in 1 .. Len(queue["news"]) /\ queue["news"][1] = h
          BY <1>0 DEF h
        <5> QED
          BY <2>1, <4>1, <5>1 DEF Absent
      <4> QED
        BY <1>3, <1>4, <3>1, <4>1, <4>2
    <3>4. /\ QueueFresh(queue'["news"], next, copies')
          /\ \A x \in Sources :
                Waiting(x)' /\ "news" \in Range(publishing'[x][2]) =>
                    Fresh(publishing'[x][1], next, copies') /\ Absent(queue'["news"], publishing'[x][1])
      BY <1>4, <2>2, <2>4, <2>5, <3>2, <3>3, NewsPut
    <3>5. ASSUME NEW s \in Sources, NEW n \in 1 .. MaxEvents
          PROVE  copies'[s][n] <= 1 /\ (n >= next[s] => copies'[s][n] = 0)
      <4>1. CASE s = h.source /\ n = h.n
        <5>1. copies[s][n] = 0 /\ n < next[s] /\ copies'[s][n] = copies[s][n] + 1
          BY <1>0, <2>1, <2>3, <4>1 DEF Fresh
        <5>2. next[s] \in Nat /\ n \in Nat
          BY DEF FabricTypes
        <5> QED
          BY <5>1, <5>2
      <4>2. CASE ~ (s = h.source /\ n = h.n)
        <5>1. copies'[s][n] = copies[s][n]
          BY <1>0, <2>1, <2>3, <4>2
        <5> QED
          BY <1>2, <5>1
      <4> QED
        BY <4>1, <4>2
    <3> QED
      BY <1>1, <3>4, <3>5 DEF NewsInv, DueFresh
  <2> QED
    BY <2>7, <2>8, <2>9, <2>10
<1> QED
  BY <1>5, <1>6

\* The queues, the calls that wait and the copies are as they were.
LEMMA SameNews ==
  ASSUME NewsInv, UNCHANGED <<next, copies>>, queue'["news"] = queue["news"],
         \A p \in Sources : publishing'[p] = publishing[p] \/ publishing'[p] = Idle
  PROVE  NewsInv'
<1>1. \A p \in Sources : DueFresh(p, queue["news"], next, copies)'
  BY DEF NewsInv, DueFresh, Waiting
<1> QED
  BY <1>1 DEF NewsInv

LEMMA BridgeStartKeeps == ASSUME FabricInv, BridgeStart PROVE FabricInv'
<1> USE DEF FabricInv
<1>1. /\ phase = "starting" /\ phase' = "running" /\ registered = <<"news">> /\ first' = next
      /\ registered' = Append(registered, "bridge") /\ Append(<<"news">>, "bridge") = <<"news", "bridge">>
      /\ UNCHANGED <<next, alive, queue, publishing, holding, observed, ingested, copies>>
  <2>1. Append(<<"news">>, "bridge") = <<"news", "bridge">>
    <3>1. PICK r : r = Append(<<"news">>, "bridge")
      OBVIOUS
    <3>2. <<"news">> \in Seq(Subscribers) /\ <<"news", "bridge">> \in Seq(Subscribers) /\ "bridge" \in Subscribers
      BY Names
    <3>3. r \in Seq(Subscribers) /\ Len(r) = 2 /\ r[1] = "news" /\ r[2] = "bridge"
      BY <3>1, <3>2
    <3>4. ASSUME NEW i \in 1 .. 2 PROVE r[i] = <<"news", "bridge">>[i]
      BY <3>3
    <3> QED
      BY <3>1, <3>2, <3>3, <3>4, SeqEqual
  <2>2. phase = "starting" /\ registered = <<"news">>
    BY DEF BridgeStart, Phases
  <2> QED
    BY <2>1, <2>2 DEF BridgeStart, readers
<1>2. \A p \in Publishers : Waiting(p)' <=> Waiting(p)
  BY <1>1 DEF Waiting
<1>3. FabricTypes'
  BY <1>1 DEF FabricTypes
<1>4. Phases' /\ Owners'
  BY <1>1, <1>2 DEF Phases, Owners
<1>5. PathInv'
  <2> SUFFICES ASSUME NEW s \in MarketSources
               PROVE  first'[s] <= next'[s] /\ Passed(s)' \o Behind(s)' = Covered(s)'
    BY DEF PathInv
  <2>1. s \in Sources /\ s \in Publishers /\ next[s] \in Nat
    BY Names DEF FabricTypes
  <2>2. /\ ingested'[s] = << >> /\ observed' = << >> /\ holding' = << >> /\ queue'["bridge"] = << >>
        /\ DueToBridge(s)' = << >>
    BY <1>1, <1>2, <2>1 DEF Phases, DueToBridge
  <2>3. << >> \o << >> = << >>
    BY EmptySeq, ConcatEmptySeq
  <2>4. Passed(s)' = << >> /\ Behind(s)' = << >>
    BY <2>2, <2>3, NumbersOfNone DEF Passed, Behind
  <2>5. Covered(s)' = << >>
    <3>1. 1 .. next[s] - next[s] = {}
      BY <2>1
    <3>2. Covered(s)' = [i \in 1 .. next[s] - next[s] |-> next[s] + i - 1]
      BY <1>1 DEF Covered
    <3>3. [i \in {} |-> next[s] + i - 1] = << >>
      OBVIOUS
    <3> QED
      BY <3>1, <3>2, <3>3
  <2> QED
    BY <1>1, <2>1, <2>3, <2>4, <2>5
<1>6. NewsInv'
  BY <1>1, SameNews
<1> QED
  BY <1>3, <1>4, <1>5, <1>6

\* The bridge hands an event on, or waits with it.
LEMMA ObserveAhead ==
  ASSUME FabricTypes, holding = << >>, NEW e \in Event, Observe(e), UNCHANGED ingested, NEW s \in Sources
  PROVE  Passed(s)' = Passed(s) \o One(e, s)
<1>1. PICK i \in Seq(Nat), o \in Seq(Nat), x \in Seq(Nat) :
          i = ingested[s] /\ o = NumbersOf(observed, s) /\ x = One(e, s)
  BY AheadTyped, OneTyped
<1>2. i \o o \in Seq(Nat) /\ (i \o o) \o << >> = i \o o
  <2>1. i \o o \in Seq(Nat)
    BY ConcatProperties
  <2> QED
    BY <2>1, ConcatEmptySeq
<1>3. Passed(s) = i \o o
  BY <1>1, <1>2, NumbersOfNone DEF Passed
<1>4. CASE Len(observed) < MaxObserved
  <2>1. observed' = Append(observed, e) /\ holding' = << >> /\ observed \in Seq(Event)
    BY <1>4 DEF Observe, FabricTypes
  <2>2. NumbersOf(observed', s) = o \o x
    BY <1>1, <2>1, NumbersOfLast
  <2>3. i \o (o \o x) = (i \o o) \o x
    BY NumbersConcat
  <2>4. (i \o o) \o x \in Seq(Nat)
    BY <1>2, ConcatProperties
  <2>5. Passed(s)' = (i \o (o \o x)) \o << >>
    BY <1>1, <2>1, <2>2, NumbersOfNone DEF Passed
  <2> QED
    BY <1>1, <1>3, <2>3, <2>4, <2>5, ConcatEmptySeq
<1>5. CASE ~ (Len(observed) < MaxObserved)
  <2>1. observed' = observed /\ holding' = <<e>>
    BY <1>5 DEF Observe
  <2>2. Passed(s)' = (i \o o) \o x
    BY <1>1, <2>1, NumbersOfOne DEF Passed
  <2> QED
    BY <1>1, <1>3, <2>2
<1> QED
  BY <1>4, <1>5

LEMMA BridgeTakeKeeps == ASSUME FabricInv, BridgeTake PROVE FabricInv'
<1> USE DEF FabricInv
<1> DEFINE e == Head(queue["bridge"])
<1>0. /\ phase = "running" /\ holding = << >> /\ queue["bridge"] # << >>
      /\ queue \in [Subscribers -> Seq(Event)] /\ queue["bridge"] \in Seq(Event)
      /\ queue' = [queue EXCEPT !["bridge"] = Tail(@)]
      /\ UNCHANGED <<next, alive, registered, publishing, ingested, first, phase, copies>>
  BY Names DEF BridgeTake, readers, FabricTypes
<1>1. e \in Event /\ Tail(queue["bridge"]) \in Seq(Event)
  BY <1>0, HeadTailProperties
<1>2. queue' \in [Subscribers -> Seq(Event)] /\ queue'["bridge"] = Tail(queue["bridge"])
      /\ queue'["news"] = queue["news"]
  BY <1>0, <1>1, Names
<1>3. IF e.source \in MarketSources THEN Observe(e) ELSE UNCHANGED <<holding, observed>>
  BY DEF BridgeTake
<1>4. \A p \in Publishers : Waiting(p)' <=> Waiting(p)
  BY <1>0 DEF Waiting
<1> HIDE DEF e
<1>5. observed' \in Seq(Event) /\ holding' \in Seq(Event) /\ (holding' = << >> \/ holding' = <<holding'[1]>>)
  <2>1. observed \in Seq(Event)
    BY DEF FabricTypes
  <2>2. observed' \in {observed, Append(observed, e)} /\ holding' \in {<< >>, <<e>>}
    BY <1>0, <1>3 DEF Observe
  <2>3. <<e>> \in Seq(Event) /\ << >> \in Seq(Event) /\ Append(observed, e) \in Seq(Event) /\ <<e>>[1] = e
    BY <1>1, <2>1
  <2> QED
    BY <2>1, <2>2, <2>3
<1>6. FabricTypes'
  BY <1>0, <1>2, <1>5 DEF FabricTypes
<1>7. Phases' /\ Owners'
  BY <1>0, <1>4 DEF Phases, Owners
<1>8. PathInv'
  <2> SUFFICES ASSUME NEW s \in MarketSources
               PROVE  first'[s] <= next'[s] /\ Passed(s)' \o Behind(s)' = Covered(s)'
    BY DEF PathInv
  <2>1. /\ first[s] <= next[s] /\ Passed(s) \o Behind(s) = Covered(s) /\ Covered(s)' = Covered(s)
        /\ s \in Sources /\ s \in Publishers
    BY <1>0, Names DEF PathInv, Covered
  <2>2. DueToBridge(s)' = DueToBridge(s) /\ DueToBridge(s) \in Seq(Nat)
    BY <1>0, <1>4, <2>1, DueTyped DEF DueToBridge
  <2>3. Behind(s) = One(e, s) \o Behind(s)' /\ Behind(s)' \in Seq(Nat)
    <3>1. NumbersOf(queue["bridge"], s) \o DueToBridge(s)
          = One(e, s) \o (NumbersOf(Tail(queue["bridge"]), s) \o DueToBridge(s))
      BY <1>0, <2>2, PathTake DEF e
    <3>2. Behind(s)' = NumbersOf(Tail(queue["bridge"]), s) \o DueToBridge(s)
      BY <1>2, <2>2 DEF Behind
    <3>3. NumbersOf(Tail(queue["bridge"]), s) \in Seq(Nat)
      BY <1>1, NumbersTyped
    <3> QED
      BY <2>2, <3>1, <3>2, <3>3, ConcatProperties DEF Behind
  <2>4. Passed(s)' = Passed(s) \o One(e, s)
    <3>1. CASE e.source \in MarketSources
      BY <1>0, <1>1, <1>3, <2>1, <3>1, ObserveAhead
    <3>2. CASE e.source \notin MarketSources
      <4>1. Passed(s)' = Passed(s) /\ One(e, s) = << >>
        BY <1>0, <1>3, <3>2 DEF Passed, One
      <4> QED
        BY <2>1, <4>1, AheadTyped, ConcatEmptySeq
    <3> QED
      BY <3>1, <3>2
  <2>5. Passed(s)' \o Behind(s)' = Passed(s) \o Behind(s)
    <3>1. PICK a \in Seq(Nat), o \in Seq(Nat) : a = Passed(s) /\ o = One(e, s)
      BY <1>1, <2>1, AheadTyped, OneTyped
    <3>2. PICK b \in Seq(Nat) : b = Behind(s)'
      BY <2>3
    <3>3. (a \o o) \o b = a \o (o \o b)
      BY NumbersConcat
    <3> QED
      BY <2>3, <2>4, <3>1, <3>2, <3>3
  <2> QED
    BY <1>0, <2>1, <2>5
<1>9. NewsInv'
  BY <1>0, <1>2, SameNews
<1> QED
  BY <1>6, <1>7, <1>8, <1>9

LEMMA BridgeResumeKeeps == ASSUME FabricInv, BridgeResume PROVE FabricInv'
<1> USE DEF FabricInv
<1>0. /\ phase = "running" /\ holding # << >> /\ holding = <<holding[1]>> /\ holding \in Seq(Event)
      /\ observed' = Append(observed, holding[1]) /\ holding' = << >> /\ observed \in Seq(Event)
      /\ UNCHANGED <<next, alive, registered, queue, publishing, ingested, first, phase, copies>>
  BY DEF BridgeResume, Observe, readers, bus, FabricTypes
<1>1. PICK e \in Event : holding = <<e>> /\ holding[1] = e
  <2>1. holding[1] \in Event
    BY <1>0
  <2> QED
    BY <1>0, <2>1
<1>2. FabricTypes'
  BY <1>0, <1>1 DEF FabricTypes
<1>3. \A p \in Publishers : Waiting(p)' <=> Waiting(p)
  BY <1>0 DEF Waiting
<1>4. Phases' /\ Owners'
  BY <1>0, <1>3 DEF Phases, Owners
<1>5. PathInv'
  <2> SUFFICES ASSUME NEW s \in MarketSources
               PROVE  first'[s] <= next'[s] /\ Passed(s)' \o Behind(s)' = Covered(s)'
    BY DEF PathInv
  <2>1. /\ first[s] <= next[s] /\ Passed(s) \o Behind(s) = Covered(s) /\ Covered(s)' = Covered(s)
        /\ s \in Sources /\ s \in Publishers
    BY <1>0, Names DEF PathInv, Covered
  <2>2. Behind(s)' = Behind(s)
    BY <1>0, <1>3, <2>1 DEF Behind, DueToBridge
  <2>3. PICK i \in Seq(Nat), o \in Seq(Nat), x \in Seq(Nat) :
            i = ingested[s] /\ o = NumbersOf(observed, s) /\ x = One(e, s)
    BY <1>1, <2>1, AheadTyped, OneTyped
  <2>4. Passed(s) = (i \o o) \o x
    BY <1>1, <2>3, NumbersOfOne DEF Passed
  <2>5. NumbersOf(observed', s) = o \o x
    BY <1>0, <1>1, <2>3, NumbersOfLast
  <2>6. Passed(s)' = (i \o (o \o x)) \o << >>
    BY <1>0, <2>3, <2>5, NumbersOfNone DEF Passed
  <2>7. i \o (o \o x) = (i \o o) \o x
    BY NumbersConcat
  <2>8. o \o x \in Seq(Nat) /\ i \o (o \o x) \in Seq(Nat)
    BY ConcatProperties
  <2>9. Passed(s)' = Passed(s)
    BY <2>4, <2>6, <2>7, <2>8, ConcatEmptySeq
  <2> QED
    BY <1>0, <2>1, <2>2, <2>9
<1>6. NewsInv'
  BY <1>0, SameNews
<1> QED
  BY <1>2, <1>4, <1>5, <1>6

LEMMA IngestKeeps == ASSUME FabricInv, Ingest PROVE FabricInv'
<1> USE DEF FabricInv
<1> DEFINE e == Head(observed)
<1>0. /\ phase = "running" /\ observed # << >> /\ observed \in Seq(Event) /\ observed' = Tail(observed)
      /\ ingested' = [ingested EXCEPT ![e.source] = Append(@, e.n)]
      /\ ingested \in [Sources -> Seq(Nat)]
      /\ UNCHANGED <<next, alive, registered, queue, publishing, holding, first, phase, copies>>
  BY DEF Ingest, readers, bus, FabricTypes
<1>1. e \in Event /\ Tail(observed) \in Seq(Event)
  BY <1>0, HeadTailProperties
<1> HIDE DEF e
<1>2. e.source \in Sources /\ e.n \in Nat
  BY <1>1 DEF Event
<1>3. ingested' \in [Sources -> Seq(Nat)]
  <2>1. Append(ingested[e.source], e.n) \in Seq(Nat)
    BY <1>0, <1>2
  <2> QED
    BY <1>0, <2>1
<1>4. FabricTypes'
  BY <1>0, <1>1, <1>3 DEF FabricTypes
<1>5. \A p \in Publishers : Waiting(p)' <=> Waiting(p)
  BY <1>0 DEF Waiting
<1>6. Phases' /\ Owners'
  BY <1>0, <1>5 DEF Phases, Owners
<1>7. PathInv'
  <2> SUFFICES ASSUME NEW s \in MarketSources
               PROVE  first'[s] <= next'[s] /\ Passed(s)' \o Behind(s)' = Covered(s)'
    BY DEF PathInv
  <2>1. /\ first[s] <= next[s] /\ Passed(s) \o Behind(s) = Covered(s) /\ Covered(s)' = Covered(s)
        /\ s \in Sources /\ s \in Publishers
    BY <1>0, Names DEF PathInv, Covered
  <2>2. Behind(s)' = Behind(s)
    BY <1>0, <1>5, <2>1 DEF Behind, DueToBridge
  <2>3. PICK i \in Seq(Nat), o \in Seq(Nat), x \in Seq(Nat) :
            i = ingested[s] /\ o = NumbersOf(Tail(observed), s) /\ x = One(e, s)
    BY <1>1, <2>1, AheadTyped, OneTyped, NumbersTyped
  <2>4. NumbersOf(observed, s) = x \o o
    BY <1>0, <2>3, NumbersOfTail DEF e
  <2>5. ingested'[s] = i \o x
    <3>1. CASE e.source = s
      <4>1. ingested'[s] = Append(i, e.n) /\ x = <<e.n>>
        BY <1>0, <2>1, <2>3, <3>1 DEF One
      <4> QED
        BY <1>2, <4>1, AppendEvent
    <3>2. CASE e.source # s
      <4>1. ingested'[s] = i /\ x = << >>
        BY <1>0, <2>1, <2>3, <3>2 DEF One
      <4> QED
        BY <4>1, ConcatEmptySeq
    <3> QED
      BY <3>1, <3>2
  <2>6. Passed(s) = (i \o (x \o o)) \o NumbersOf(holding, s)
    BY <2>3, <2>4 DEF Passed
  <2>7. Passed(s)' = ((i \o x) \o o) \o NumbersOf(holding, s)
    BY <1>0, <2>3, <2>5 DEF Passed
  <2>8. i \o (x \o o) = (i \o x) \o o
    BY NumbersConcat
  <2>9. Passed(s)' = Passed(s)
    BY <2>6, <2>7, <2>8
  <2> QED
    BY <1>0, <2>1, <2>2, <2>9
<1>8. NewsInv'
  BY <1>0, SameNews
<1> QED
  BY <1>4, <1>6, <1>7, <1>8

\* Calls of readers or of the news pipeline are ended; nothing else changes in the queues.
LEMMA EndKeeps ==
  ASSUME FabricInv, phase' \in {"stopping", "stopped"}, phase # "starting",
         UNCHANGED <<next, queue, observed, ingested, first, copies>>,
         holding' \in {holding, << >>}, NEW P \in SUBSET Publishers,
         publishing' = [p \in Publishers |-> IF p \in P THEN Idle ELSE publishing[p]],
         phase' = "stopping" => registered' = <<"news">>,
         phase' = "stopped" => registered' = << >> /\ alive' = {}
  PROVE  FabricInv'
<1> USE DEF FabricInv
<1>1. \A p \in Publishers : Waiting(p)' => publishing'[p] = publishing[p] /\ Waiting(p)
  BY DEF Waiting
<1>2. FabricTypes'
  <2>1. publishing' \in [Publishers -> {Idle} \cup (Event \X (Lists \ {<< >>}))]
    BY DEF FabricTypes
  <2>2. holding' \in Seq(Event) /\ (holding' = << >> \/ holding' = <<holding'[1]>>)
    <3>1. << >> \in Seq(Event)
      OBVIOUS
    <3> QED
      BY <3>1 DEF FabricTypes
  <2> QED
    BY <2>1, <2>2 DEF FabricTypes
<1>3. Phases' /\ Owners'
  BY <1>1 DEF Phases, Owners
<1>4. PathInv'
  BY DEF PathInv
<1>5. NewsInv'
  <2>1. \A p \in Sources : publishing'[p] = publishing[p] \/ publishing'[p] = Idle
    BY Names
  <2> QED
    BY <2>1, SameNews
<1> QED
  BY <1>2, <1>3, <1>4, <1>5

LEMMA InterruptKeeps == ASSUME FabricInv, Interrupt PROVE FabricInv'
<1>1. publishing' = [p \in Publishers |-> IF p \in {} THEN Idle ELSE publishing[p]]
  BY DEF Interrupt, FabricInv, FabricTypes
<1> QED
  BY <1>1, EndKeeps DEF Interrupt, readers

LEMMA StopReaderKeeps == ASSUME FabricInv, NEW s \in Sources, StopReader(s) PROVE FabricInv'
<1>1. publishing' = [p \in Publishers |-> IF p \in {s} THEN Idle ELSE publishing[p]] /\ s \in Publishers
  BY Names DEF StopReader, FabricInv, FabricTypes
<1> QED
  BY <1>1, EndKeeps DEF StopReader, path, FabricInv, Phases

LEMMA StopNewsKeeps == ASSUME FabricInv, StopNews PROVE FabricInv'
<1>1. publishing' = [p \in Publishers |-> IF p \in {"news"} THEN Idle ELSE publishing[p]]
  BY Names DEF StopNews, FabricInv, FabricTypes
<1> QED
  BY <1>1, EndKeeps, Names DEF StopNews, path, readers

LEMMA FabricKept == FabricInv /\ [FabricStep]_fabricVars => FabricInv'
<1> SUFFICES ASSUME FabricInv, [FabricStep]_fabricVars PROVE FabricInv'
  OBVIOUS
<1>1. CASE \E p \in Publishers : Resume(p)
  BY <1>1, ResumeKeeps
<1>2. CASE \E s \in Sources : Read(s) \/ StopReader(s)
  BY <1>2, ReadKeeps, StopReaderKeeps
<1>3. CASE NewsTake
  BY <1>3, NewsTakeKeeps
<1>4. CASE BridgeStart \/ BridgeTake \/ BridgeResume \/ Ingest
  BY <1>4, BridgeStartKeeps, BridgeTakeKeeps, BridgeResumeKeeps, IngestKeeps
<1>5. CASE Interrupt \/ StopNews
  BY <1>5, InterruptKeeps, StopNewsKeeps
<1>6. CASE UNCHANGED fabricVars
  <2>1. /\ UNCHANGED <<next, alive, registered, queue, publishing>>
        /\ UNCHANGED <<holding, observed, ingested, first, phase, copies>>
    BY <1>6 DEF fabricVars, readers, bus, path
  <2>2. \A p \in Publishers : Waiting(p)' <=> Waiting(p)
    BY <2>1 DEF Waiting
  <2>3. FabricTypes' /\ Phases' /\ Owners'
    BY <2>1, <2>2 DEF FabricInv, FabricTypes, Phases, Owners
  <2>4. PathInv'
    <3>1. \A s \in MarketSources : Behind(s)' = Behind(s)
      BY <2>1, <2>2, Names DEF Behind, DueToBridge
    <3> QED
      BY <2>1, <3>1, SamePath DEF FabricInv
  <2>5. NewsInv'
    BY <2>1, SameNews DEF FabricInv
  <2> QED
    BY <2>3, <2>4, <2>5 DEF FabricInv
<1> QED
  BY <1>1, <1>2, <1>3, <1>4, <1>5, <1>6 DEF FabricStep

LEMMA PathHolds == FabricInv => MarketPathComplete
<1> SUFFICES ASSUME FabricInv PROVE MarketPathComplete
  OBVIOUS
<1> USE DEF FabricInv
<1>1. ASSUME phase = "running", NEW s \in MarketSources
      PROVE  ingested[s] \o NumbersOf(observed, s) \o NumbersOf(holding, s)
                 \o NumbersOf(queue["bridge"], s) \o DueToBridge(s)
             = [i \in 1 .. next[s] - first[s] |-> first[s] + i - 1]
  <2>1. s \in Sources /\ s \in Publishers /\ queue["bridge"] \in Seq(Event)
    BY Names DEF FabricTypes
  <2>2. PICK a \in Seq(Nat), b \in Seq(Nat), d \in Seq(Nat) :
            a = Passed(s) /\ b = NumbersOf(queue["bridge"], s) /\ d = DueToBridge(s)
    BY <2>1, AheadTyped, NumbersTyped, DueTyped
  <2>3. (a \o b) \o d = a \o (b \o d)
    BY NumbersConcat
  <2>4. Passed(s) \o Behind(s) = Covered(s)
    BY <1>1 DEF PathInv
  <2>5. a \o (b \o d) = Covered(s)
    BY <2>2, <2>4 DEF Behind
  <2> QED
    BY <2>2, <2>3, <2>5 DEF Passed, Covered
<1>2. EnrichedOnce
  BY DEF EnrichedOnce, NewsInv
<1> QED
  BY <1>1, <1>2 DEF MarketPathComplete

\* While the platform runs, every market event published after the bridge
\* subscribed is on its way or in the market loop, once and in the order of its
\* source, whatever queues are full; and no news event is enriched twice
\* (event_bus.py:255-282, pipeline.py:254-266, fabric_bridge.py:14-16).
THEOREM MarketPathKept == FabricInit /\ [][FabricStep]_fabricVars => []MarketPathComplete
<1>1. FabricInit => FabricInv
  BY FabricStarts
<1>2. FabricInv /\ [FabricStep]_fabricVars => FabricInv'
  BY FabricKept
<1>3. FabricInv => MarketPathComplete
  BY PathHolds
<1> QED
  BY <1>1, <1>2, <1>3, PTL

-----------------------------------------------------------------------------
(***************************************************************************)
(* ServerLifespan: nothing that the shutdown knows of outlives it.         *)
(*                                                                         *)
(* lifespan builds the list of tasks it will cancel from the configuration *)
(* it started with, and the routes start and stop loops later. So the      *)
(* invariant says of every task that is alive whether the list has it      *)
(* (Listed), and counts every event once: in the bus, with a task that     *)
(* waits for room, in a worker thread, or lost (Counted). A worker thread  *)
(* is not cancelled with its loop, which is why one event can be lost.     *)
(***************************************************************************)

-----------------------------------------------------------------------------
(* Tasks.                                                                  *)

TaskState == {"none", "running", "held", "cancelled", "ended"}

Held == {t \in Producers : task[t] = "held"}

NoLaterLoop == \A l \in Loops : l[2] > 0 => task[l] = "none"

LEMMA TasksAreFinite == IsFiniteSet(TaskId) /\ \A t \in TaskId : t[2] \in Nat
<1>1. PICK kinds : kinds = {"poller", "macro", "adapter", "loop", "mt5", "bridge", "monitor"}
  OBVIOUS
<1>2. PICK feeds, workers : /\ feeds = {"poller", "macro", "adapter"}
                            /\ workers = {"loop", "mt5", "bridge", "monitor"}
  OBVIOUS
<1>3. IsFiniteSet(feeds)
  <2>1. feeds = (({} \cup {"poller"}) \cup {"macro"}) \cup {"adapter"}
    BY <1>2
  <2>2. IsFiniteSet({} \cup {"poller"})
    BY FS_EmptySet, FS_AddElement
  <2>3. IsFiniteSet(({} \cup {"poller"}) \cup {"macro"})
    BY <2>2, FS_AddElement
  <2> QED
    BY <2>1, <2>3, FS_AddElement
<1>4. IsFiniteSet(workers)
  <2>1. workers = ((({} \cup {"loop"}) \cup {"mt5"}) \cup {"bridge"}) \cup {"monitor"}
    BY <1>2
  <2>2. IsFiniteSet({} \cup {"loop"})
    BY FS_EmptySet, FS_AddElement
  <2>3. IsFiniteSet(({} \cup {"loop"}) \cup {"mt5"})
    BY <2>2, FS_AddElement
  <2>4. IsFiniteSet((({} \cup {"loop"}) \cup {"mt5"}) \cup {"bridge"})
    BY <2>3, FS_AddElement
  <2> QED
    BY <2>1, <2>4, FS_AddElement
<1>5. IsFiniteSet(kinds)
  <2>1. kinds = feeds \cup workers
    BY <1>1, <1>2
  <2> QED
    BY <1>3, <1>4, <2>1, FS_Union
<1>6. IsFiniteSet(0 .. MaxRestarts)
  BY ServerAssumption, FS_Interval
<1>7. TaskId = kinds \X (0 .. MaxRestarts)
  BY <1>1 DEF TaskId
<1>8. IsFiniteSet(TaskId)
  BY <1>5, <1>6, <1>7, FS_Product
<1>9. \A t \in TaskId : t[2] \in Nat
  BY <1>7, ServerAssumption
<1> QED
  BY <1>8, <1>9

LEMMA LoopsAre ==
  /\ Loops = {Loop(n) : n \in 0 .. MaxRestarts} /\ IsFiniteSet(Loops)
  /\ \A l \in Loops \ {Loop(0)} : l[2] > 0
<1>1. Loops = {Loop(n) : n \in 0 .. MaxRestarts}
  BY DEF Loops, TaskId, Loop
<1>2. IsFiniteSet(Loops)
  BY TasksAreFinite, FS_Subset DEF Loops
<1>3. ASSUME NEW n \in 0 .. MaxRestarts, n # 0 PROVE Loop(n)[2] > 0
  BY <1>3, ServerAssumption DEF Loop
<1> QED
  BY <1>1, <1>2, <1>3

\* What is known to the shutdown is on its list.
LEMMA KnownIsListed ==
  ASSUME NEW t \in First(Started(config)), t \notin Forgotten
  PROVE  t \in market_tasks(config)
<1>1. t \in Started(config) \X {0}
  BY DEF First
<1>2. CASE config.process = "paper" \/ ~Wired(config)
  BY <1>2 DEF market_tasks
<1>3. CASE ~(config.process = "paper" \/ ~Wired(config))
  <2>1. t \notin First({"poller", "macro"})
    BY <1>3, Zenon DEF Forgotten
  <2> QED
    BY <1>1, <1>3, <2>1 DEF market_tasks, First, Pollers
<1> QED
  BY <1>2, <1>3

-----------------------------------------------------------------------------
(* The invariant.                                                          *)

Shapes ==
    /\ task \in [TaskId -> TaskState]
    /\ handling \in SUBSET Loops
    /\ database \in {"none", "open", "closed"}
    /\ buffered \in Nat /\ published \in Nat /\ broken \in Nat

\* What is on the list of the shutdown, and what is left of it.
Listed ==
    /\ \A t \in TaskId \ Forgotten : task[t] # "none" => t \in market_tasks(config)
    /\ \A l \in handling : task[l] # "none"
    /\ database = "none" => handling = {} /\ \A t \in TaskId : task[t] = "none"
    /\ process = "launching" => database = "none"
    /\ process \in {"serving", "cancelling"} => database = "open"
    /\ process = "cancelling" => \A t \in market_tasks(config) : ~Live(t)
    /\ database = "closed" => process \in {"closed", "exited"} /\ \A t \in market_tasks(config) : Over(t)

\* Every event that was published is in the bus, in a thread, waits for room or
\* was lost, at most once.
Counted ==
    /\ published <= MaxPublished
    /\ buffered + Cardinality(Held) + Cardinality(handling) + broken <= published
    /\ database # "closed" => broken = 0
    /\ database = "closed" /\ NoLaterLoop => Cardinality(handling) + broken <= 1

ServerInv == Shapes /\ Listed /\ Counted

LEMMA CountsTyped ==
  ASSUME Shapes
  PROVE  /\ IsFiniteSet(Held) /\ Cardinality(Held) \in Nat
         /\ IsFiniteSet(handling) /\ Cardinality(handling) \in Nat
<1>1. Held \in SUBSET TaskId /\ handling \in SUBSET TaskId
  BY DEF Held, Producers, Shapes, Loops
<1>2. IsFiniteSet(Held) /\ IsFiniteSet(handling)
  BY <1>1, TasksAreFinite, FS_Subset
<1> QED
  BY <1>2, FS_CardinalityType

LEMMA InvIsQuiet == ServerInv => ClosedIsQuiet
<1> SUFFICES ASSUME ServerInv, database = "closed" PROVE
        /\ \A t \in TaskId \ Forgotten : ~Live(t) /\ task[t] # "cancelled"
        /\ Cardinality(handling \ Forgotten) + broken <= 1 + Cardinality({l \in Loops : l[2] > 0}) * MaxPublished
        /\ (\A l \in Loops : l[2] > 0 => task[l] = "none") => Cardinality(handling) + broken <= 1
  BY DEF ClosedIsQuiet
<1> USE DEF ServerInv
<1>1. \A t \in TaskId \ Forgotten : ~Live(t) /\ task[t] # "cancelled"
  BY DEF Listed, Over, Live
<1>2. NoLaterLoop => Cardinality(handling) + broken <= 1
  BY DEF Counted
<1>3. PICK h, w, b, p : h = Cardinality(handling) /\ w = Cardinality(Held) /\ b = broken /\ p = published
  OBVIOUS
<1>4. h \in Nat /\ w \in Nat /\ b \in Nat /\ p \in Nat /\ buffered \in Nat
  BY <1>3, CountsTyped DEF Shapes
<1>5. b <= MaxPublished
  BY <1>3, <1>4, ServerAssumption DEF Counted
<1>6. Cardinality(handling \ Forgotten) \in Nat /\ Cardinality(handling \ Forgotten) <= 1
  <2>1. handling \ Forgotten \in SUBSET {Loop(0)}
    <3>1. \A l \in Loops \ {Loop(0)} : l \in Forgotten
      BY LoopsAre DEF Forgotten, Loops
    <3> QED
      BY <3>1 DEF Shapes
  <2>2. IsFiniteSet({Loop(0)}) /\ Cardinality({Loop(0)}) = 1
    BY FS_Singleton
  <2>3. IsFiniteSet(handling \ Forgotten) /\ Cardinality(handling \ Forgotten) <= Cardinality({Loop(0)})
    BY <2>1, <2>2, FS_Subset
  <2> QED
    BY <2>2, <2>3, FS_CardinalityType
<1>7. Cardinality(handling \ Forgotten) <= h
  <2>1. IsFiniteSet(handling) /\ handling \ Forgotten \in SUBSET handling
    BY CountsTyped
  <2> QED
    BY <1>3, <2>1, FS_Subset
<1>8. PICK c : c = Cardinality({l \in Loops : l[2] > 0})
  OBVIOUS
<1>9. c \in Nat /\ (c = 0 => \A l \in Loops : ~(l[2] > 0))
  <2>1. IsFiniteSet({l \in Loops : l[2] > 0})
    BY LoopsAre, FS_Subset
  <2>2. c \in Nat /\ (c = 0 => {l \in Loops : l[2] > 0} = {})
    BY <1>8, <2>1, FS_EmptySet, FS_CardinalityType
  <2> QED
    BY <2>2
<1>10. PICK k : k = Cardinality(handling \ Forgotten)
  OBVIOUS
<1>11. k + b <= 1 + c * MaxPublished
  <2>1. CASE c = 0
    <3>1. NoLaterLoop
      BY <1>9, <2>1 DEF NoLaterLoop
    <3>2. h + b <= 1
      BY <1>2, <1>3, <3>1
    <3>3. k <= h /\ k \in Nat
      BY <1>3, <1>6, <1>7, <1>10
    <3>4. c * MaxPublished = 0
      BY <2>1, ServerAssumption
    <3> QED
      BY <1>4, <3>2, <3>3, <3>4
  <2>2. CASE c # 0
    <3>1. PICK rest \in Nat : c = 1 + rest
      <4>1. c - 1 \in Nat /\ c = 1 + (c - 1)
        BY <1>9, <2>2
      <4> QED
        BY <4>1
    <3>2. PICK more \in Nat : more = rest * MaxPublished
      BY ServerAssumption
    <3>3. c * MaxPublished = MaxPublished + more
      BY <3>1, <3>2, ServerAssumption
    <3>4. k <= 1 /\ k \in Nat
      BY <1>6, <1>10
    <3> QED
      BY <1>4, <1>5, <3>2, <3>3, <3>4, ServerAssumption
  <2> QED
    BY <2>1, <2>2
<1>12. Cardinality(handling \ Forgotten) + broken <= 1 + Cardinality({l \in Loops : l[2] > 0}) * MaxPublished
  BY <1>3, <1>8, <1>10, <1>11
<1>13. (\A l \in Loops : l[2] > 0 => task[l] = "none") => Cardinality(handling) + broken <= 1
  BY <1>2 DEF NoLaterLoop
<1> QED
  BY <1>1, <1>12, <1>13, Zenon

-----------------------------------------------------------------------------
(* Steps.                                                                  *)

LEMMA ServerStarts == ServerInit => ServerInv
<1> SUFFICES ASSUME ServerInit PROVE ServerInv
  OBVIOUS
<1>1. Shapes
  BY DEF ServerInit, Shapes, TaskState
<1>2. Held = {}
  BY DEF ServerInit, Held, Producers
<1>3. Listed
  BY DEF ServerInit, Listed
<1>4. Counted
  BY <1>2, FS_EmptySet, ServerAssumption DEF ServerInit, Counted
<1> QED
  BY <1>1, <1>3, <1>4 DEF ServerInv

\* A step that adds no event, no thread and no waiting put.
LEMMA CountedKept ==
  ASSUME ServerInv, Shapes', Held' \subseteq Held, UNCHANGED <<buffered, published, handling, broken>>,
         database' = database \/ database # "closed",
         database' = "closed" /\ NoLaterLoop' => Cardinality(handling) + broken <= 1
  PROVE  Counted'
<1>1. PICK w, v, h : w = Cardinality(Held) /\ v = Cardinality(Held') /\ h = Cardinality(handling)
  OBVIOUS
<1>2. w \in Nat /\ v \in Nat /\ v <= w /\ h \in Nat
  <2>1. IsFiniteSet(Held) /\ Held' \in SUBSET Held
    BY CountsTyped DEF ServerInv
  <2>2. v <= w /\ IsFiniteSet(Held')
    BY <1>1, <2>1, FS_Subset
  <2> QED
    BY <1>1, <2>1, <2>2, FS_CardinalityType, CountsTyped DEF ServerInv
<1>3. buffered + w + h + broken <= published /\ published <= MaxPublished /\ (database # "closed" => broken = 0)
  BY <1>1 DEF ServerInv, Counted
<1>4. buffered + v + h + broken <= published
  BY <1>2, <1>3 DEF ServerInv, Shapes
<1>5. (database # "closed" => broken = 0)' 
  BY <1>3
<1> QED
  BY <1>1, <1>3, <1>4, <1>5 DEF Counted

LEMMA LaunchKept == ServerInv /\ Launch => ServerInv'
<1> SUFFICES ASSUME ServerInv, Launch PROVE ServerInv'
  OBVIOUS
<1>1. /\ task' = [t \in TaskId |-> IF t \in First(Started(config)) THEN "running" ELSE "none"]
      /\ config' = config /\ process = "launching" /\ process' = "serving" /\ database' = "open"
      /\ UNCHANGED <<handling, buffered, published, broken>>
  BY DEF Launch
<1>2. database = "none" /\ handling = {}
  BY <1>1 DEF ServerInv, Listed
<1>3. Shapes'
  BY <1>1 DEF ServerInv, Shapes, TaskState
<1>4. Listed'
  <2>1. Forgotten' = Forgotten /\ market_tasks(config)' = market_tasks(config)
    BY <1>1 DEF Forgotten, market_tasks
  <2>2. \A t \in TaskId \ Forgotten : task'[t] # "none" => t \in market_tasks(config)
    BY <1>1, KnownIsListed
  <2> QED
    BY <1>1, <1>2, <2>1, <2>2 DEF Listed
<1>5. Held' = {}
  BY <1>1 DEF Held, Producers
<1>6. Counted'
  BY <1>1, <1>2, <1>3, <1>5, CountedKept
<1> QED
  BY <1>3, <1>4, <1>6 DEF ServerInv

\* A step that moves tasks, none of them to wait for room and none to life that
\* is on the list of a shutdown.
LEMMA TasksMove ==
  ASSUME ServerInv, Shapes', UNCHANGED <<config, process, database, handling, buffered, published, broken>>,
         \A t \in TaskId : task'[t] # task[t] =>
            /\ task'[t] \in {"running", "cancelled", "ended"}
            /\ task[t] # "none" \/ (t \in Forgotten /\ process = "serving")
            /\ process = "cancelling" => task'[t] = "ended"
            /\ database = "closed" => task'[t] = "ended"
  PROVE  ServerInv'
<1> USE DEF ServerInv
<1>1. Forgotten' = Forgotten /\ market_tasks(config)' = market_tasks(config)
  BY DEF Forgotten, market_tasks
<1>2. market_tasks(config) \in SUBSET TaskId
  BY ServerAssumption DEF market_tasks, First, Started, Pollers, Terminal, TaskId
<1>3. Listed'
  <2>1. \A t \in TaskId \ Forgotten : task'[t] # "none" => t \in market_tasks(config)
    BY DEF Listed
  <2>2. \A l \in handling : task'[l] # "none"
    BY DEF Listed, Shapes, Loops
  <2>3. database = "none" => handling = {} /\ \A t \in TaskId : task'[t] = "none"
    BY DEF Listed
  <2>4. process = "cancelling" => \A t \in market_tasks(config) : ~(task'[t] \in {"running", "held"})
    BY <1>2 DEF Listed, Live
  <2>5. database = "closed" => \A t \in market_tasks(config) : task'[t] \in {"none", "ended"}
    BY <1>2 DEF Listed, Over
  <2> QED
    BY <1>1, <2>1, <2>2, <2>3, <2>4, <2>5 DEF Listed, Live, Over
<1>4. Held' \subseteq Held
  BY DEF Held, Producers
<1>5. NoLaterLoop' => NoLaterLoop
  BY DEF NoLaterLoop, Loops
<1>6. Counted'
  BY <1>4, <1>5, CountedKept DEF Counted
<1> QED
  BY <1>3, <1>6

LEMMA MoveKept ==
  ASSUME ServerInv,
         \/ engine_stop
         \/ \E n \in 1 .. MaxRestarts : engine_start(n)
         \/ \E t \in TaskId : TaskEnds(t)
  PROVE  ServerInv'
<1> USE DEF ServerInv, Shapes, TaskState
<1>1. CASE engine_stop
  <2>1. \A t \in CurrentMT5 : task[t] # "none"
    BY DEF CurrentMT5
  <2>2. Shapes'
    BY <1>1 DEF engine_stop
  <2> QED
    BY <1>1, <2>1, <2>2, TasksMove DEF engine_stop, Listed
<1>2. ASSUME NEW n \in 1 .. MaxRestarts, engine_start(n) PROVE ServerInv'
  <2>1. PICK again \in SUBSET {Loop(n), MT5(n)} : task' = [t \in TaskId |-> IF t \in again THEN "running" ELSE task[t]]
    BY <1>2 DEF engine_start
  <2>2. {Loop(n), MT5(n)} \in SUBSET Forgotten
    BY ServerAssumption DEF Forgotten, Loop, MT5, TaskId
  <2>3. Shapes'
    BY <1>2, <2>1 DEF engine_start
  <2> QED
    BY <1>2, <2>1, <2>2, <2>3, TasksMove DEF engine_start, Listed
<1>3. ASSUME NEW t \in TaskId, TaskEnds(t) PROVE ServerInv'
  <2>1. Shapes'
    BY <1>3 DEF TaskEnds
  <2> QED
    BY <1>3, <2>1, TasksMove DEF TaskEnds, Cancelled
<1> QED
  BY <1>1, <1>2, <1>3

LEMMA ShutdownKept == ServerInv /\ Shutdown => ServerInv'
<1> SUFFICES ASSUME ServerInv, Shutdown PROVE ServerInv'
  OBVIOUS
<1> USE DEF ServerInv
<1>1. /\ task' = [t \in TaskId |-> IF t \in market_tasks(config) /\ Live(t) THEN "cancelled" ELSE task[t]]
      /\ config' = config /\ process = "serving" /\ process' = "cancelling" /\ database' = database
      /\ UNCHANGED <<handling, buffered, published, broken>>
  BY DEF Shutdown
<1>2. Shapes'
  BY <1>1 DEF Shapes, TaskState
<1>3. Forgotten' = Forgotten /\ market_tasks(config)' = market_tasks(config)
  BY <1>1 DEF Forgotten, market_tasks
<1>4. Listed'
  <2>1. \A t \in TaskId : task'[t] # "none" <=> task[t] # "none"
    BY <1>1 DEF Live
  <2>2. \A t \in market_tasks(config) : ~(task'[t] \in {"running", "held"})
    <3>1. market_tasks(config) \in SUBSET TaskId
      BY ServerAssumption DEF market_tasks, First, Started, Pollers, Terminal, TaskId
    <3> QED
      BY <1>1, <3>1 DEF Live
  <2>3. database = "open"
    BY <1>1 DEF Listed
  <2> QED
    BY <1>1, <1>3, <2>1, <2>2, <2>3 DEF Listed, Live, Shapes, Loops
<1>5. Held' \subseteq Held
  BY <1>1 DEF Held, Producers
<1>6. Counted'
  BY <1>1, <1>2, <1>5, CountedKept DEF Counted, Listed
<1> QED
  BY <1>2, <1>4, <1>6

LEMMA CloseKept == ServerInv /\ Close => ServerInv'
<1> SUFFICES ASSUME ServerInv, Close PROVE ServerInv'
  OBVIOUS
<1> USE DEF ServerInv
<1>1. /\ process = "cancelling" /\ process' = "closed" /\ database' = "closed"
      /\ \A t \in market_tasks(config) : Over(t)
      /\ UNCHANGED <<config, task, handling, buffered, published, broken>>
  BY DEF Close, AllAwaited
<1>2. Shapes'
  BY <1>1 DEF Shapes
<1>3. Listed'
  BY <1>1 DEF Listed, Forgotten, market_tasks, Over
<1>4. ASSUME NoLaterLoop PROVE Cardinality(handling) + broken <= 1
  <2>1. handling \in SUBSET {Loop(0)}
    BY <1>4, LoopsAre DEF NoLaterLoop, Listed, Shapes
  <2>2. IsFiniteSet({Loop(0)}) /\ Cardinality({Loop(0)}) = 1
    BY FS_Singleton
  <2>3. Cardinality(handling) <= Cardinality({Loop(0)})
    BY <2>1, <2>2, FS_Subset
  <2>4. broken = 0
    BY <1>1 DEF Listed, Counted
  <2> QED
    BY <2>2, <2>3, <2>4, CountsTyped
<1>5. Held' = Held /\ (NoLaterLoop' <=> NoLaterLoop)
  BY <1>1 DEF Held, NoLaterLoop
<1>6. database # "closed"
  BY <1>1 DEF Listed
<1>7. Counted'
  BY <1>1, <1>2, <1>4, <1>5, <1>6, CountedKept
<1> QED
  BY <1>2, <1>3, <1>7

LEMMA EndKept == ServerInv /\ (RefuseLive \/ Exit) => ServerInv'
<1> SUFFICES ASSUME ServerInv, RefuseLive \/ Exit PROVE ServerInv'
  OBVIOUS
<1> USE DEF ServerInv
<1>1. /\ process' = "exited" /\ process \in {"launching", "closed"}
      /\ UNCHANGED <<config, database, handling, buffered, published, broken>>
      /\ \A t \in TaskId : /\ task'[t] \in {task[t], "ended"}
                           /\ task'[t] = "none" <=> task[t] = "none"
  BY DEF RefuseLive, Exit
<1>2. Shapes'
  BY DEF RefuseLive, Exit, Shapes, TaskState
<1>3. Listed'
  <2>1. Forgotten' = Forgotten /\ market_tasks(config)' = market_tasks(config)
    BY <1>1 DEF Forgotten, market_tasks
  <2>2. market_tasks(config) \in SUBSET TaskId
    BY ServerAssumption DEF market_tasks, First, Started, Pollers, Terminal, TaskId
  <2> QED
    BY <1>1, <2>1, <2>2 DEF Listed, Over, Shapes, Loops
<1>4. Held' \subseteq Held /\ (NoLaterLoop' => NoLaterLoop)
  BY <1>1 DEF Held, Producers, NoLaterLoop, Loops
<1>5. Counted'
  BY <1>1, <1>2, <1>4, CountedKept DEF Counted
<1> QED
  BY <1>2, <1>3, <1>5

\* What is listed stays listed when no task on the list comes to life.
LEMMA ListedKept ==
  ASSUME ServerInv, UNCHANGED <<config, process, database>>,
         \A t \in TaskId : task'[t] = task[t] \/ (task[t] = "running" /\ task'[t] \in {"held", "ended"})
                                              \/ (task[t] = "held" /\ task'[t] = "running"),
         \A l \in handling' : l \in handling \/ task[l] # "none", handling' \in SUBSET Loops
  PROVE  Listed' /\ (NoLaterLoop' => NoLaterLoop)
<1> USE DEF ServerInv
<1>1. Forgotten' = Forgotten /\ market_tasks(config)' = market_tasks(config)
  BY DEF Forgotten, market_tasks
<1>2. market_tasks(config) \in SUBSET TaskId
  BY ServerAssumption DEF market_tasks, First, Started, Pollers, Terminal, TaskId
<1>3. \A t \in TaskId : task'[t] # "none" <=> task[t] # "none"
  OBVIOUS
<1>4. process = "cancelling" => \A t \in market_tasks(config) : ~(task'[t] \in {"running", "held"})
  BY <1>2 DEF Listed, Live
<1>5. database = "closed" => \A t \in market_tasks(config) : task'[t] \in {"none", "ended"}
  BY <1>2 DEF Listed, Over
<1>6. \A l \in handling' : task'[l] # "none"
  BY <1>3 DEF Listed, Loops
<1>7. database = "none" => handling' = {} /\ \A t \in TaskId : task'[t] = "none"
  BY <1>3 DEF Listed, Loops
<1>8. Listed'
  BY <1>1, <1>3, <1>4, <1>5, <1>6, <1>7 DEF Listed, Live, Over
<1>9. NoLaterLoop' => NoLaterLoop
  BY <1>3 DEF NoLaterLoop, Loops
<1> QED
  BY <1>8, <1>9

LEMMA PublishKept ==
  ASSUME ServerInv, NEW t \in Producers, Publish(t) \/ PutGoesOn(t)
  PROVE  ServerInv'
<1> USE DEF ServerInv
<1>1. t \in TaskId /\ UNCHANGED <<config, process, database, handling, broken>>
  BY DEF Publish, PutGoesOn, Producers
<1>2. Shapes'
  BY <1>1 DEF Publish, PutGoesOn, Shapes, TaskState
<1>3. Listed' /\ (NoLaterLoop' => NoLaterLoop)
  BY <1>1, ListedKept DEF Publish, PutGoesOn, Shapes
<1>4. PICK w, h : w = Cardinality(Held) /\ h = Cardinality(handling)
  OBVIOUS
<1>5. w \in Nat /\ h \in Nat /\ IsFiniteSet(Held)
  BY <1>4, CountsTyped
<1>6. buffered + w + h + broken <= published /\ published <= MaxPublished
  BY <1>4 DEF Counted
<1>7. PICK v : v = Cardinality(Held')
  OBVIOUS
<1>8. v \in Nat /\ buffered' + v <= buffered + w + (published' - published) /\ published' <= MaxPublished
      /\ published' \in Nat
  <2>1. CASE Publish(t) /\ buffered < BusSize
    <3>1. Held' = Held /\ buffered' = buffered + 1 /\ published' = published + 1 /\ published < MaxPublished
      BY <2>1 DEF Publish, Held
    <3> QED
      BY <1>4, <1>5, <1>7, <3>1, ServerAssumption DEF Shapes
  <2>2. CASE Publish(t) /\ ~(buffered < BusSize)
    <3>1. /\ task' = [task EXCEPT ![t] = "held"] /\ task[t] = "running"
          /\ buffered' = buffered /\ published' = published + 1 /\ published < MaxPublished
      BY <2>2 DEF Publish
    <3>2. Held' = Held \cup {t} /\ t \notin Held
      BY <1>1, <3>1 DEF Held, Producers, Shapes
    <3>3. v = w + 1
      BY <1>4, <1>5, <1>7, <3>2, FS_AddElement
    <3> QED
      BY <1>5, <3>1, <3>3, ServerAssumption DEF Shapes
  <2>3. CASE PutGoesOn(t)
    <3>1. /\ task' = [task EXCEPT ![t] = "running"] /\ task[t] = "held"
          /\ buffered' = buffered + 1 /\ published' = published
      BY <2>3 DEF PutGoesOn
    <3>2. Held' = Held \ {t} /\ t \in Held
      BY <1>1, <3>1 DEF Held, Producers, Shapes
    <3>3. v = w - 1 /\ w # 0
      <4>1. w # 0
        BY <1>4, <1>5, <3>2, FS_EmptySet
      <4>2. v = w - 1
        BY <1>4, <1>5, <1>7, <3>2, FS_RemoveElement
      <4> QED
        BY <4>1, <4>2
    <3> QED
      BY <1>5, <1>6, <3>1, <3>3 DEF Shapes
  <2> QED
    BY <2>1, <2>2, <2>3
<1>9. buffered' + v + h + broken' <= published'
  <2>1. PICK b, b2, p, p2, r : b = buffered /\ b2 = buffered' /\ p = published /\ p2 = published' /\ r = broken
    OBVIOUS
  <2>2. b \in Nat /\ b2 \in Nat /\ p \in Nat /\ p2 \in Nat /\ r \in Nat /\ v \in Nat
    BY <1>2, <1>8, <2>1 DEF Shapes
  <2>3. b + w + h + r <= p /\ b2 + v <= b + w + (p2 - p)
    BY <1>6, <1>8, <2>1
  <2>4. b2 + v + h + r <= p2
    <3> HIDE DEF ServerInv
    <3> QED
      BY <1>5, <2>2, <2>3
  <2> QED
    BY <1>1, <2>1, <2>4
<1>10. Counted'
  BY <1>1, <1>3, <1>4, <1>7, <1>8, <1>9 DEF Counted
<1> QED
  BY <1>2, <1>3, <1>10

LEMMA TakeKept ==
  ASSUME ServerInv, NEW l \in Loops, Take(l)
  PROVE  ServerInv'
<1> USE DEF ServerInv
<1>1. /\ l \in TaskId /\ UNCHANGED <<config, process, database, task, published, broken>>
      /\ task[l] = "running" /\ l \notin handling /\ buffered > 0 /\ buffered' = buffered - 1
      /\ handling' = handling \cup {l}
  BY DEF Take, Loops
<1>2. Shapes'
  BY <1>1 DEF Shapes
<1>3. Listed' /\ (NoLaterLoop' => NoLaterLoop)
  BY <1>1, <1>2, ListedKept DEF Shapes
<1>4. Held' = Held /\ Cardinality(handling') = Cardinality(handling) + 1
  <2>1. Held' = Held
    BY <1>1 DEF Held
  <2>2. IsFiniteSet(handling)
    BY CountsTyped
  <2> QED
    BY <1>1, <2>1, <2>2, FS_AddElement
<1>5. ~(database = "closed" /\ NoLaterLoop)
  <2>1. ASSUME database = "closed", NoLaterLoop PROVE FALSE
    <3>1. l = Loop(0)
      BY <1>1, <2>1, LoopsAre DEF NoLaterLoop
    <3>2. l \notin Forgotten
      BY <3>1 DEF Forgotten, Loop, First
    <3>3. l \in market_tasks(config)
      BY <1>1, <3>2 DEF Listed
    <3> QED
      BY <1>1, <2>1, <3>3 DEF Listed, Over
  <2> QED
    BY <2>1
<1>6. PICK w, h : w = Cardinality(Held) /\ h = Cardinality(handling)
  OBVIOUS
<1>7. w \in Nat /\ h \in Nat /\ buffered + w + h + broken <= published
  BY <1>6, CountsTyped DEF Counted
<1>8. buffered' + w + (h + 1) + broken <= published
  BY <1>1, <1>7 DEF Shapes
<1>9. Counted'
  BY <1>1, <1>3, <1>4, <1>5, <1>6, <1>8 DEF Counted
<1> QED
  BY <1>2, <1>3, <1>9

LEMMA HandleKept ==
  ASSUME ServerInv, NEW l \in Loops, HandleEnds(l)
  PROVE  ServerInv'
<1> USE DEF ServerInv
<1>1. /\ l \in TaskId /\ UNCHANGED <<config, process, database, published, buffered>>
      /\ l \in handling /\ handling' = handling \ {l}
      /\ broken' = IF database = "open" THEN broken ELSE broken + 1
      /\ task' \in {task, [task EXCEPT ![l] = "ended"]} /\ (task' # task => task[l] = "running")
  BY DEF HandleEnds, Loops
<1>2. Shapes'
  BY <1>1 DEF Shapes, TaskState
<1>3. Listed' /\ (NoLaterLoop' => NoLaterLoop)
  BY <1>1, <1>2, ListedKept DEF Shapes
<1>4. PICK w, v, h, g : /\ w = Cardinality(Held) /\ v = Cardinality(Held')
                        /\ h = Cardinality(handling) /\ g = Cardinality(handling')
  OBVIOUS
<1>5. w \in Nat /\ v \in Nat /\ h \in Nat /\ v <= w
  <2>1. Held' \in SUBSET Held
    BY <1>1 DEF Held, Producers, Shapes
  <2>2. IsFiniteSet(Held) /\ IsFiniteSet(Held')
    BY <2>1, CountsTyped, FS_Subset
  <2>3. v <= w
    BY <1>4, <2>1, <2>2, FS_Subset
  <2> QED
    BY <1>4, <2>2, <2>3, CountsTyped, FS_CardinalityType
<1>6. g = h - 1 /\ g \in Nat
  <2>1. IsFiniteSet(handling) /\ IsFiniteSet(handling')
    BY <1>2, CountsTyped, <1>1, FS_RemoveElement
  <2>2. g = h - 1
    BY <1>1, <1>4, <2>1, FS_RemoveElement
  <2> QED
    BY <1>4, <2>1, <2>2, FS_CardinalityType
<1>7. database \in {"open", "closed"}
  BY <1>1 DEF Listed, Shapes
<1>8. PICK b, p, r, r2 : b = buffered /\ p = published /\ r = broken /\ r2 = broken'
  OBVIOUS
<1>9. b \in Nat /\ p \in Nat /\ r \in Nat /\ r2 \in Nat /\ r2 \in {r, r + 1} /\ (database # "closed" => r2 = r)
  BY <1>1, <1>2, <1>7, <1>8 DEF Shapes
<1>10. buffered + v + g + broken' <= published
  <2>1. b + w + h + r <= p
    BY <1>4, <1>8 DEF Counted
  <2>2. b + v + g + r2 <= p
    <3> HIDE DEF ServerInv
    <3> QED
      BY <1>5, <1>6, <1>9, <2>1
  <2> QED
    BY <1>8, <2>2
<1>11. ASSUME database = "closed", NoLaterLoop' PROVE g + broken' <= 1
  <2>1. h + r <= 1
    BY <1>3, <1>4, <1>8, <1>11 DEF Counted
  <2>2. g + r2 <= 1
    <3> HIDE DEF ServerInv
    <3> QED
      BY <1>5, <1>6, <1>9, <2>1
  <2> QED
    BY <1>8, <2>2
<1>12. Counted'
  BY <1>1, <1>4, <1>8, <1>9, <1>10, <1>11 DEF Counted
<1> QED
  BY <1>2, <1>3, <1>12

LEMMA ServerKept == ServerInv /\ [ServerStep]_serverVars => ServerInv'
<1> SUFFICES ASSUME ServerInv, [ServerStep]_serverVars PROVE ServerInv'
  OBVIOUS
<1>1. CASE Launch \/ Shutdown \/ Close \/ RefuseLive \/ Exit
  BY <1>1, LaunchKept, ShutdownKept, CloseKept, EndKept
<1>2. CASE engine_stop \/ \E n \in 1 .. MaxRestarts : engine_start(n)
  BY <1>2, MoveKept
<1>3. CASE \E t \in TaskId : TaskEnds(t)
  BY <1>3, MoveKept
<1>4. CASE \E t \in Producers : Publish(t) \/ PutGoesOn(t)
  BY <1>4, PublishKept
<1>5. CASE \E l \in Loops : Take(l) \/ HandleEnds(l)
  BY <1>5, TakeKept, HandleKept
<1>6. CASE UNCHANGED serverVars
  BY <1>6 DEF serverVars, ServerInv, Shapes, Listed, Counted, Held, NoLaterLoop, Forgotten, market_tasks,
              Live, Over
<1> QED
  BY <1>1, <1>2, <1>3, <1>4, <1>5, <1>6 DEF ServerStep

\* Once the database is closed nothing that the shutdown knows of runs on, and at
\* most the one event is lost that was in a thread when its loop was cancelled,
\* as long as no route started another loop (main.py:360-377, 808-829): the
\* safety half of ShutdownIsClean.
THEOREM QuietWhenClosed == ServerInit /\ [][ServerStep]_serverVars => []ClosedIsQuiet
  BY ServerStarts, ServerKept, InvIsQuiet, PTL
=============================================================================
