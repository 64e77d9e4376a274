SPECIFICATION FairSpec
CONSTANTS
    p1 = p1
    p2 = p2
    good = good
    badPayload = badPayload
    badHeader = badHeader
    Paths = {p1, p2}
    Contents = {good, badHeader}
    Torn = Torn
    NoFile = NoFile
    HeaderOK <- MCHeaderOK
    PayloadOK <- MCPayloadOK
    BatchSize = 1
    MaxUploads = 2
    MaxCrashes = 1
    MaxFaults = 0
INVARIANT OneArchivedSource
PROPERTIES LedgerPromise EventuallyArchived EventuallyProbed
