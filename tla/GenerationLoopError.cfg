SPECIFICATION FairSpec
CONSTANTS
    Metrics <- MCMetricsSmall
    Baseline <- MCBaseline
    None = None
    MaxPerTick = 1
    LastGen = 2
    MaxCrashes = 0
    MaxErrors = 1
    MaxRewrites = 0
PROPERTY FailedIsRetryable
CHECK_DEADLOCK FALSE
