SPECIFICATION Spec
CONSTANTS
    r1 = r1
    r2 = r2
    json = json
    top = top
    sub = sub
    Replays = {r1, r2}
    Exports = {json}
    Order <- MCOrder
    Walk <- MCWalk
    DirOf <- MCDirOf
    Evidences <- MCEvidences
    Posted <- MCPosted
    Originals <- MCOriginals
    Newest = 6
    None = None
    MaxChanges = 2
    MaxRuns = 1
INVARIANTS ReceiptOfOneMoment BracketedImport VerdictExplained MatchesAreStable
PROPERTIES CleanOfKeptReceipt
CHECK_DEADLOCK FALSE
