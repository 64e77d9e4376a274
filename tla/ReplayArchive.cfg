SPECIFICATION Spec
CONSTANTS
    p1 = p1
    p2 = p2
    good = good
    badPayload = badPayload
    badHeader = badHeader
    Paths = {p1}
    Contents = {good, badPayload}
    Torn = Torn
    NoFile = NoFile
    HeaderOK <- MCHeaderOK
    PayloadOK <- MCPayloadOK
    BatchSize = 1
    MaxUploads = 3
    MaxCrashes = 1
    MaxFaults = 1
INVARIANTS ArchiveContentAddressed SkipSound ProbeSound
PROPERTIES NoClobber
