SPECIFICATION ChainSpec
CONSTANTS
    before = before
    after = after
    alice = alice
    bob = bob
    Replays = {1, 2, 3}
    HoldoutSet = {3}
    Rankings = {before, after}
    Selections = {alice, bob}
    NoOne = NoOne
    None = None
    Picks <- MCPicks
    Samples <- MCSamples
    Cadences = {6, 12}
    TickCadence = 6
    Limit <- MCLimit
    Workers = 2
    MaxPublications = 2
    MaxMishaps = 1
    MaxManual = 1
INVARIANTS IndexAccounts IndexLoadable MetricsDescribeModel ChainOfOneMoment SourcesOfOneMoment CleanShardsAreTheManifests
