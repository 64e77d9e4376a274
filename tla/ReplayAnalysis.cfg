SPECIFICATION FairSpec
CONSTANTS
    whole1 = whole1
    whole2 = whole2
    flawed = flawed
    Bytes = {whole1, whole2, flawed}
    HeaderOK = {whole1, whole2, flawed}
    PayloadOK = {whole1, whole2, flawed}
    Outcomes <- MCOutcomes
    None = None
    Threads = 2
    BatchSize = 2
    MaxTimeouts = 1
    MaxRetries = 1
    MaxCrashes = 1
INVARIANTS OkRowHasOutput ManifestIsAccepted CompletionIsCovered
PROPERTIES EventuallyFinalized
