SPECIFICATION Spec
CONSTANTS
    Windows = {w1, w2}
    Fenced = {w2}
    Sizes = {s1, s2}
    MaxTxns = 2
    MaxConfigures = 3
    MaxQueue = 2
    OtherChanges = TRUE
SYMMETRY WindowSymmetry
INVARIANTS OneTransactionInFlight
\* Once every window is closed, nothing more need happen.
CHECK_DEADLOCK FALSE
