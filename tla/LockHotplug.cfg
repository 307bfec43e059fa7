SPECIFICATION LockSpec
CONSTANTS
    Outputs = {o1, o2}
    Lockers = {l1}
    NoLocker = NoLocker
    Hotplug = TRUE
    PowerCommands = TRUE
    EarlyVBlanks = FALSE
    MaxStrayVBlanks = 0
    MaxStaleTimers = 1
SYMMETRY LockSymmetry
INVARIANTS LockTypeOK  DeadlineGuardsWait TimerNeverUnexpected RequestNotLost
