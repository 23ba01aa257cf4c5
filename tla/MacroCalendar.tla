---------------------------- MODULE MacroCalendar ----------------------------
(***************************************************************************)
(* The economic calendar: a poller reads the weekly feed, upserts its      *)
(* events one by one and publishes each release to the ObservationBus; the *)
(* decision pipeline asks the stored calendar before it opens risk.  Times *)
(* are hours in UTC; a stored time is the text the feed wrote, in the      *)
(* feed's own offset, and the queries compare texts.                       *)
(***************************************************************************)
EXTENDS Integers, FiniteSets, Sequences

CONSTANTS
    weekly,             \* the feed: a sequence of records of MacroEventData
    Offset,             \* hours the feed's times are ahead of UTC
    pre, post,          \* event_veto_pre_minutes, event_veto_post_minutes
    LastHour,           \* bound on the clock
    MaxWithdrawals, MaxCrashes

ASSUME CalendarAssumption ==
    weekly \in Seq([currency : STRING, high : BOOLEAN, at : Int]) /\ pre \in Nat /\ post \in Nat

MacroEventData == DOMAIN weekly

VARIABLES
    hour,           \* the clock
    listing,        \* what the feed shows of each event
    rows,           \* macro_events: what was last stored of each event
    sweep,          \* the poll under way: what the feed said, the next item, or the one to publish
    releases,       \* history: observations published, by event
    risen,          \* history: scheduled-to-released changes stored, by event
    cut,            \* history: releases stored and then lost with the process
    withdrawn, crashes

calendarVars == <<hour, listing, rows, sweep, releases, risen, cut, withdrawn, crashes>>

NoPoll == [pc |-> "asleep"]

CalendarInit ==
    /\ hour = 0
    /\ listing = [e \in MacroEventData |-> "absent"]
    /\ rows = listing
    /\ sweep = NoPoll
    /\ releases = [e \in MacroEventData |-> 0] /\ risen = releases /\ cut = releases
    /\ withdrawn = 0 /\ crashes = 0

HourPasses ==
    /\ hour < LastHour /\ hour' = hour + 1
    /\ UNCHANGED <<listing, rows, sweep, releases, risen, cut, withdrawn, crashes>>

\* The feed lists an event, releases it once its time has come, or takes the
\* figure back.
FeedChanges(e) ==
    /\ \/ /\ listing[e] = "absent" /\ listing' = [listing EXCEPT ![e] = "scheduled"] /\ UNCHANGED withdrawn
       \/ /\ listing[e] = "scheduled" /\ hour >= weekly[e].at
          /\ listing' = [listing EXCEPT ![e] = "released"] /\ UNCHANGED withdrawn
       \/ /\ listing[e] = "released" /\ withdrawn < MaxWithdrawals
          /\ listing' = [listing EXCEPT ![e] = "scheduled"] /\ withdrawn' = withdrawn + 1
    /\ UNCHANGED <<hour, rows, sweep, releases, risen, cut, crashes>>

\* poll_once: what the feed says now is worked through in its order.
Poll ==
    /\ sweep = NoPoll /\ weekly # << >>
    /\ sweep' = [pc |-> "storing", said |-> listing, item |-> 1]
    /\ UNCHANGED <<hour, listing, rows, releases, risen, cut, withdrawn, crashes>>

\* A mutant of IsRelease: what is stored is not asked.
IsRelease_Said(before, after) == after = "released"

\* upsert: the transition of a stored event; one that is new releases nothing.
IsRelease(before, after) == before = "scheduled" /\ after = "released"

NextItem(s) == IF s.item = Len(weekly) THEN NoPoll ELSE [s EXCEPT !.pc = "storing", !.item = @ + 1]

Upsert ==
    LET e == sweep.item
        after == sweep.said[e]
    IN  /\ sweep.pc = "storing"
        /\ IF after = "absent" THEN sweep' = NextItem(sweep) /\ UNCHANGED <<rows, risen>>
           ELSE /\ rows' = [rows EXCEPT ![e] = after]
                /\ risen' = [risen EXCEPT ![e] = @ + (IF rows[e] = "scheduled" /\ after = "released" THEN 1 ELSE 0)]
                /\ sweep' = IF IsRelease(rows[e], after) THEN [sweep EXCEPT !.pc = "publishing"]
                            ELSE NextItem(sweep)
        /\ UNCHANGED <<hour, listing, releases, cut, withdrawn, crashes>>

\* The store refuses: the poll is over, the loop sleeps and polls again.
UpsertFails ==
    /\ sweep.pc = "storing"
    /\ sweep' = NoPoll
    /\ UNCHANGED <<hour, listing, rows, releases, risen, cut, withdrawn, crashes>>

\* _publish_release, once the bus has room.
PublishRelease ==
    /\ sweep.pc = "publishing"
    /\ releases' = [releases EXCEPT ![sweep.item] = @ + 1]
    /\ sweep' = NextItem(sweep)
    /\ UNCHANGED <<hour, listing, rows, risen, cut, withdrawn, crashes>>

\* The process ends, or the task is cancelled while it waits for the bus.
Stopped ==
    /\ sweep # NoPoll /\ crashes < MaxCrashes
    /\ crashes' = crashes + 1
    /\ cut' = IF sweep.pc = "publishing" THEN [cut EXCEPT ![sweep.item] = @ + 1] ELSE cut
    /\ sweep' = NoPoll
    /\ UNCHANGED <<hour, listing, rows, releases, risen, withdrawn>>

-----------------------------------------------------------------------------
\* ISO texts compare like the local times that they begin with.
Written(e) == weekly[e].at + Offset

\* next_high_impact_for_currencies
Upcoming(currencies, now) ==
    {e \in MacroEventData : /\ weekly[e].high /\ rows[e] = "scheduled"
                            /\ weekly[e].currency \in currencies
                            /\ now <= Written(e) /\ Written(e) <= now + pre}

\* list_between, and released
JustReleased(currencies, now) ==
    {e \in MacroEventData : /\ weekly[e].high /\ rows[e] = "released"
                            /\ weekly[e].currency \in currencies
                            /\ now - post <= Written(e) /\ Written(e) <= now}

\* currencies_for_symbol: both legs of a pair, the dollar of a book that it
\* quotes, nothing for a shape it does not know.
currencies_for_symbol(symbol) ==
    CASE symbol = "EURUSD" -> {"EUR", "USD"} [] symbol = "BTCUSDT" -> {"USD"} [] OTHER -> {}

\* high_impact_within: the pipeline, on UTC, makes no proposal.
MacroVetoed(symbol) ==
    LET currencies == currencies_for_symbol(symbol)
    IN  Upcoming(currencies, hour) \cup JustReleased(currencies, hour) # {}

CalendarStep ==
    \/ HourPasses \/ Poll \/ Upsert \/ UpsertFails \/ PublishRelease \/ Stopped
    \/ \E e \in MacroEventData : FeedChanges(e)

-----------------------------------------------------------------------------
\* Every release that was stored is published exactly once, or is the one being
\* published, or was lost with a stop between the two; polls that failed midway,
\* polls of a feed that has not changed, and figures taken back and given again
\* add none (macro_calendar_service.py:6-8).
ReleasePublishedOnce ==
    \A e \in MacroEventData :
        LET pending == IF sweep # NoPoll /\ sweep.pc = "publishing" /\ sweep.item = e THEN 1 ELSE 0
        IN  /\ releases[e] + cut[e] + pending = risen[e]
            /\ risen[e] <= 1 + withdrawn

\* "an upcoming event within pre_minutes" stops new risk in its currencies
\* (interfaces/macro_calendar.py:30).
UpcomingIsVetoed ==
    \A e \in MacroEventData :
        weekly[e].high /\ rows[e] = "scheduled" /\ hour <= weekly[e].at /\ weekly[e].at <= hour + pre
            => \A symbol \in {"EURUSD", "BTCUSDT"} :
                  weekly[e].currency \in currencies_for_symbol(symbol) => MacroVetoed(symbol)
=============================================================================
