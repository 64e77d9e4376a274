SPECIFICATION Spec
CONSTANTS
    Every = 2
    Window = 2
    MaxChanges = 3
    MaxLaunches = 2
INVARIANTS WindowOfOneEpoch AnswerOnTheWay OneMorePerReset
PROPERTIES OwnSideApplied PendingClears
CHECK_DEADLOCK FALSE
