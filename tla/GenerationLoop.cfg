SPECIFICATION FairSpec
CONSTANTS
    Metrics <- MCMetrics
    Baseline <- MCBaseline
    None = None
    MaxPerTick = 2
    LastGen = 3
    MaxCrashes = 2
    MaxErrors = 1
    MaxRewrites = 1
INVARIANTS PointerAccounted LedgerIsALineage StateFollowsLedger
PROPERTIES ChampionRatchet RollsOver
CHECK_DEADLOCK FALSE
