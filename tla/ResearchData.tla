---------------------------- MODULE ResearchData ----------------------------
(***************************************************************************)
(* The ledger of one research dataset: immutable versions, append-only     *)
(* claims of test periods, and the firewall that refuses a training load   *)
(* that would read a claimed record.  Series are ingested live or          *)
(* backfilled, labelled, audited and evaluated by evidence runs.           *)
(*                                                                         *)
(* The tables keep a time as the text it is written with, in the offset    *)
(* from UTC that it came with, and compare the texts; what is read back is *)
(* in UTC.                                                                 *)
(***************************************************************************)
EXTENDS Integers, FiniteSets, FiniteSetsExt, Sequences, SequencesExt, Collections

CONSTANTS
    Series,             \* sets of the source times of a series that is ingested
    Zones,              \* offsets from UTC that times are written in, 0 for UTC
    LastMoment,         \* bound on source times, and on the clock
    MaxFreezes,         \* bound on the freezes that are tried
    MaxClaims,          \* bound on the claims that are made by hand
    test_size,          \* EvidenceRunConfig, train_size is 1
    LabelHorizon        \* LabelDefinition.horizon, of fixed_horizon

ASSUME ResearchAssumption ==
    /\ LastMoment \in Nat \ {0} /\ Series \subseteq SUBSET (1 .. LastMoment) /\ Zones \subseteq Int
    /\ test_size \in Nat \ {0} /\ LabelHorizon \in Nat \ {0}

Moments == 1 .. LastMoment

\* An aware datetime, and the same moment in UTC (_parse).
Times == [at : Moments, zone : Zones]
Utc(moment) == [at |-> moment, zone |-> 0]

\* Texts of _iso in their order: by the clock's reading, then by the offset, +
\* before -, and the smaller offset first.
Reading(t) == t.at + t.zone
NotAfter(t, u) ==
    \/ Reading(t) < Reading(u)
    \/ Reading(t) = Reading(u) /\ IF u.zone < 0 THEN u.zone <= t.zone ELSE 0 <= t.zone /\ t.zone <= u.zone

\* A record by when it happened and became known, which is written in UTC; a
\* label's record also by the last moment that the label is made of.
DatasetRecord == [source : [at : Moments, zone : Zones \cup {0}], available : Moments, reach : Moments]

TestPeriodLock == {lock \in [start : Times, end : Times] : lock.start.at <= lock.end.at}

VARIABLES
    today,
    versions,       \* dataset_versions and dataset_records, in the order of insertion
    test_period_locks,
    answer,         \* what the last operation did: appended, returned, served, tested on
    freezes, claims

researchVars == <<today, versions, test_period_locks, answer, freezes, claims>>

Numbers == {versions[k].version : k \in DOMAIN versions}
Version(n) == versions[CHOOSE k \in DOMAIN versions : versions[k].version = n]
Sources(records) == {r.source : r \in records}
MomentsOf(records) == {r.source.at : r \in records}

\* BETWEEN, of the texts; and of the moments they stand for.
Inside(lock, t) == NotAfter(lock.start, t) /\ NotAfter(t, lock.end)
Covers(lock, t) == lock.start.at <= t.at /\ t.at <= lock.end.at

\* latest_version: the newest by created_at, then by number.
Newer(v, w) == v.created > w.created \/ (v.created = w.created /\ v.version >= w.version)
latest_version == (CHOOSE v \in Range(versions) : \A w \in Range(versions) : Newer(v, w)).version

\* list_test_locks
ReadBack(lock) == [start |-> Utc(lock.start.at), end |-> Utc(lock.end.at)]

\* frozen and returned are version numbers; served are the source times that a
\* training load found, and run the bars of an evidence run and its window.
Silent == [frozen |-> 0, returned |-> 0, served |-> {}, run |-> << >>]

ResearchInit ==
    /\ today = 1
    /\ versions = << >> /\ test_period_locks = {}
    /\ answer = Silent
    /\ freezes = 0 /\ claims = 0

DayPasses ==
    /\ today < LastMoment /\ today' = today + 1
    /\ answer' = Silent
    /\ UNCHANGED <<versions, test_period_locks, freezes, claims>>

\* append_version: the primary key refuses a number that is taken, and the
\* transaction leaves nothing of it.
Appended(v) == IF v.version \in Numbers THEN versions ELSE Append(versions, v)

\* _freeze: the next number, and the latest version once it is there.
Freeze(kind, records, created, loaded) ==
    LET number == IF versions = << >> THEN 1 ELSE latest_version + 1
    IN  /\ freezes < MaxFreezes /\ freezes' = freezes + 1
        /\ versions' = Appended([version |-> number, kind |-> kind, created |-> created, records |-> records])
        /\ answer' = IF number \in Numbers THEN [Silent EXCEPT !.served = loaded]
                     ELSE [Silent EXCEPT !.frozen = number, !.returned = latest_version', !.served = loaded]

\* freeze_raw_dataset: a backfill gives the time of its download.  A series is
\* written in one zone, which a CSV's times are kept in (_parse_bar_time).
BuildRaw(times, zone, available_at) ==
    /\ \A t \in times : t <= today
    /\ available_at <= today
    /\ Freeze("raw", {[source |-> [at |-> t, zone |-> zone], available |-> available_at, reach |-> t] : t \in times},
              available_at, {})
    /\ UNCHANGED <<today, test_period_locks, claims>>

-----------------------------------------------------------------------------
\* The scope of a load that may serve something, of all times or of a window
\* that is asked for in UTC.  A version is of one kind: a load of another finds
\* nothing.
Scopes ==
    [available_by : Moments,
     windows : {{}} \cup {{ReadBack(lock)} : lock \in TestPeriodLock}]
Everything == [available_by |-> LastMoment, windows |-> {}]

Scoped(v, scope) ==
    {r \in v.records : /\ \A window \in scope.windows : Inside(window, r.source)
                       /\ r.available <= scope.available_by}

\* Two mutants of the firewall: a claim must hold all of the load, or its bounds
\* are not claimed.
Conflicts_Whole(v, scope) ==
    \E lock \in test_period_locks :
        Scoped(v, scope) # {} /\ \A r \in Scoped(v, scope) : Inside(lock, r.source)
Conflicts_Strict(v, scope) ==
    \E lock \in test_period_locks, r \in Scoped(v, scope) :
        Inside(lock, r.source) /\ r.source \notin {lock.start, lock.end}

\* _assert_training_window_free
Conflicts(v, scope) ==
    \E lock \in test_period_locks, r \in Scoped(v, scope) : Inside(lock, r.source)

\* load_records, to train with; records_available_by, with a cutoff.
Train(n, scope) ==
    /\ ~Conflicts(Version(n), scope)
    /\ answer' = [Silent EXCEPT !.served = Sources(Scoped(Version(n), scope))]
    /\ UNCHANGED <<today, versions, test_period_locks, freezes, claims>>

\* LabelEngine.generate and to_dataset_record: the label of a moment is of the
\* records that follow, and said to be available at once.  Its time is one that
\* was read back.
SamplesOf(records) ==
    LET s == Ascending(MomentsOf(records))
    IN  {[source |-> Utc(s[i]), available |-> s[i], reach |-> s[i + LabelHorizon]] : i \in 1 .. Len(s) - LabelHorizon}

BuildLabelled(n) ==
    LET v == Version(n)
    IN  /\ v.kind = "raw" /\ ~Conflicts(v, Everything)
        /\ SamplesOf(v.records) # {}
        /\ Freeze("normalized", SamplesOf(v.records), today, Sources(v.records))
        /\ UNCHANGED <<today, test_period_locks, claims>>

Claim(lock) ==
    /\ claims < MaxClaims /\ claims' = claims + 1
    /\ test_period_locks' = test_period_locks \cup {lock}
    /\ answer' = Silent
    /\ UNCHANGED <<today, versions, freezes>>

-----------------------------------------------------------------------------
\* A mutant of the window: the one before it.
OutOfSample_Before(times) ==
    LET s == Ascending(times)
    IN  [start |-> Utc(s[Len(s) - test_size]), end |-> Utc(s[Len(s) - 1])]

\* _lock_out_of_sample_window: the last test_size bars, whose times were read
\* back.
OutOfSample(times) ==
    LET s == Ascending(times)
    IN  [start |-> Utc(s[Len(s) - test_size + 1]), end |-> Utc(s[Len(s)])]

\* EvidenceRunService.run, of a series that passes the quality gate and is long
\* enough: a load to test with is always served; a window that is claimed is not
\* claimed again.
EvidenceRun(n) ==
    LET records == Version(n).records
        window == OutOfSample(MomentsOf(records))
    IN  /\ Version(n).kind = "raw"
        /\ Cardinality(MomentsOf(records)) >= 1 + test_size
        /\ test_period_locks' =
              IF \E lock \in test_period_locks : ReadBack(lock) = window THEN test_period_locks
              ELSE test_period_locks \cup {window}
        /\ answer' = [Silent EXCEPT !.run = <<Sources(records), window>>]
        /\ UNCHANGED <<today, versions, freezes, claims>>

\* The audit: a version leaks if it has a claimed record and the firewall serves
\* all of it; a claim is dead if no version has a record of it.  It asks for the
\* records of a claim that was read back.
Window(v) == [start |-> Min(MomentsOf(v.records)), end |-> Max(MomentsOf(v.records))]
Overlaps(window, lock) == window.start <= lock.end.at /\ lock.start.at <= window.end
ProtectedBy(v, lock) ==
    IF Overlaps(Window(v), lock) THEN {r \in v.records : Inside(ReadBack(lock), r.source)} ELSE {}
Leaks(v) == (\E lock \in test_period_locks : ProtectedBy(v, lock) # {}) /\ ~Conflicts(v, Everything)
Dead(lock) == \A v \in Range(versions) : ProtectedBy(v, lock) = {}

ResearchStep ==
    \/ DayPasses
    \/ \E times \in Series, zone \in Zones, available_at \in Moments : BuildRaw(times, zone, available_at)
    \/ \E n \in Numbers : BuildLabelled(n) \/ EvidenceRun(n) \/ \E scope \in Scopes : Train(n, scope)
    \/ \E lock \in TestPeriodLock : Claim(lock)

-----------------------------------------------------------------------------
\* The audit calls a version a leak only over a claim that was not made in UTC.
LeaksExplained ==
    \A v \in Range(versions) :
        Leaks(v) => \E lock \in test_period_locks : ReadBack(lock) # lock /\ ProtectedBy(v, lock) # {}

\* What an evidence run reports: a claimed window at the end of its series, which
\* protects records if the series was written in UTC.
RunIsOutOfSample ==
    answer.run # << >> =>
        LET bars == {t.at : t \in answer.run[1]}
            window == answer.run[2]
        IN  /\ \E lock \in test_period_locks : ReadBack(lock) = window
            /\ Max(bars) = window.end.at
            /\ Cardinality({t \in bars : Covers(window, Utc(t))}) = test_size
            /\ (\A t \in answer.run[1] : t.zone = 0) => ~Dead(window)

\* A period that is claimed is not served to train with from then on, by no
\* version, whether frozen before the claim or after it, and by no scope, of rows
\* that are written in the zone of the claim; claims and versions stay as they
\* are, whatever is backfilled; the audit calls no version a leak over a claim in
\* UTC; and an evidence run reports a window that is claimed, with the last bars
\* of its series in it (dataset_store.py:7-28).  A row in another zone than the
\* claim's is compared with it by the reading of its clock, and may be served.
FirewallHolds ==
    /\ [][/\ test_period_locks \subseteq test_period_locks' /\ IsPrefix(versions, versions')
          /\ \A t \in answer'.served, lock \in test_period_locks :
                lock.start.zone = t.zone /\ lock.end.zone = t.zone => ~Covers(lock, t)]_researchVars
    /\ [](LeaksExplained /\ RunIsOutOfSample)

\* "Freeze the bar series as the next RAW dataset version. ... Returns the frozen
\* version record." (historical_data_ingestor.py:103-107)
FrozenIsReturned == answer.returned = answer.frozen

\* "Return records that were knowable at or before cutoff ... so a label or
\* feature computed from the result can never leak future data"
\* (dataset_service.py:136-140).
KnowableByCutoff ==
    \A v \in Range(versions), cutoff \in Moments :
        \A r \in Scoped(v, [Everything EXCEPT !.available_by = cutoff]) : r.reach <= cutoff
=============================================================================
