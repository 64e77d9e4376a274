SPECIFICATION FairSpec
CONSTANTS
    MaxPolls = 1
    MaxFailures = 2
    MaxDeaths = 1
    MaxKills = 1
    MaxChanges = 1
INVARIANTS MutatedWhileStopped CaptureIsClosed Restored
PROPERTIES UpdateEnds OutageEnds
