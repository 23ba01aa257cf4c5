\* What is read and recorded, decisions, learning, the ladder of strategies,
\* and research.
SPECIFICATION Spec
CONSTANTS
    Rates <- SomeRates
    Deviations = {0, 3, 400}
    Sizes <- SomeSizes
    Confidences = {0, 90, 6000}
    momentum_entry = 5
    volatility_cap = 50
    base_size = 100
    max_size = 250
    stop_multiple = 2
    min_stop = 10
    default_stop = 20
    max_stop = 500
    risk_reward = 2
    priority <- Priority
    EnvKeys <- InEnv
    FileKeys <- InFile
    Keyless = {"ovh"}
    RaceModes = {"sequential", "parallel", "hedged"}
    circuit_threshold = 2
    circuit_cooldown = 2
    MaxDecisions = 3
    MaxTime = 3
    Symbols = {"btc", "eth"}
    MaxTrades = 2
    MaxId = 3
    MaxRestarts = 1
    ReflectLimit = 2
    RecallLimit = 2
    MinOutcomes = 2
    Outcomes <- SomeOutcomes
    Ids = {1, 2}
    Reports <- SomeReports
    Worked = {1}
    RivalReports <- OneRival
    MaxEvents = 3
    MaxObservations = 2
    MaxTorn = 0
    min_observations = 1
    cooldown_observations = 1
    min_ladder_candidates = 1
    min_score = 0
    Runners = {"r1", "r2"}
    target_days = 2
    MaxAttempts = 2
    EvidenceDays = {0, 3}
    paper_period_days_min = 3
    canary_period_days_min = 1
    campaign_days = 2
    floor_fraction = 1
    step_fraction = 2
    max_fraction = 4
    hold_periods = 2
    max_periods = 6
    Series = {{1, 2}}
    Zones = {0, 1}
    LastMoment = 3
    MaxFreezes = 3
    MaxClaims = 1
    test_size = 1
    LabelHorizon = 1
    PriceLevels = {1, 2}
    Clocks <- SomeClocks
    MaxHorizon = 2
    MaxSplits = 3
    Experiments = {"e1", "e2", "e3"}
    Plans <- SomePlans
    Families <- Catalog
    Alike <- SharedPrefix
    experiments_per_hypothesis = 2
    MaxCandidates = 2
    Feeds = {"news"}
    OldRows = {"news"}
    Sessions = {"s1", "s2"}
    MaxNumber = 2
    MaxBatch = 2
    weekly <- ThisWeek
    Offset = 0
    pre = 1
    post = 1
    LastHour = 4
    MaxWithdrawals = 1
    MaxCrashes = 1
    FeedPrices = {1, 2}
    FeedSizes = {1, 2}
    MaxPolls = 2
    max_levels = 10
CHECK_DEADLOCK FALSE
INVARIANT ReasonersAgree
INVARIANT FallbackIsSound
INVARIANT LearningIsEvidence
INVARIANT LedgerExplains
INVARIANT CapitalFollowsEvidence
INVARIANT VerdictOfOneRun
INVARIANT NothingUnearned
INVARIANT LeakFree
INVARIANT ResearchIsTraceable
INVARIANT StoreIsFaithful
INVARIANT ReleasePublishedOnce
INVARIANT FeaturesFollowVenue
PROPERTY DeathIsFinal
PROPERTY FirewallHolds
