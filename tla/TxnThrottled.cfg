SPECIFICATION FairSpec
CONSTANTS
    Windows = {w1, w2}
    Fenced = {w2}
    Sizes = {s1, s2}
    MaxTxns = 2
    MaxConfigures = 3
    MaxQueue = 2
    OtherChanges = FALSE
INVARIANTS TypeOK  OneTransactionInFlight
PROPERTIES CommitIsApplied ClosingStarts
\* Once every window is closed, nothing more need happen.
CHECK_DEADLOCK FALSE
