SPECIFICATION TickSpec
CONSTANTS
    whole1 = whole1
    whole2 = whole2
    flawed = flawed
    Bytes = {whole1, whole2}
    HeaderOK = {whole1, whole2}
    PayloadOK = {whole1, whole2}
    Outcomes <- MCOutcomes
    None = None
    Threads = 2
    BatchSize = 2
    MaxTimeouts = 0
    MaxRetries = 0
    MaxCrashes = 1
PROPERTIES ExecutorStarts LeaderboardDespiteTick
