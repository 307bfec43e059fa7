SPECIFICATION Spec
CONSTANTS
    Outputs = {o1, o2}
    Hotplug = FALSE
    PowerCommands = TRUE
    EarlyVBlanks = FALSE
    MaxStrayVBlanks = 1
    MaxStaleTimers = 1
SYMMETRY OutputSymmetry
INVARIANTS TimerNeverUnexpected
