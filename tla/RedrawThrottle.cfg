SPECIFICATION FairSpec
CONSTANTS
    Outputs = {o1, o2}
    Hotplug = FALSE
    PowerCommands = TRUE
    EarlyVBlanks = TRUE
    MaxStrayVBlanks = 0
    MaxStaleTimers = 1
INVARIANTS TimerNeverUnexpected OneFrameInFlight RequestNotLost
PROPERTIES RequestServed
