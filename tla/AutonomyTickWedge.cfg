SPECIFICATION TickSpec
CONSTANTS
    whole1 = whole1
    whole2 = whole2
    flawed = flawed
    Bytes = {whole1, flawed}
    HeaderOK = {whole1, flawed}
    PayloadOK = {whole1, flawed}
    Outcomes <- MCOutcomes
    None = None
    Threads = 2
    BatchSize = 2
    MaxTimeouts = 0
    MaxRetries = 0
    MaxCrashes = 0
PROPERTIES WorkDespiteFailures
