SPECIFICATION Spec
CONSTANTS
    Outputs = {o1, o2}
    Hotplug = TRUE
    PowerCommands = TRUE
    EarlyVBlanks = TRUE
    MaxStrayVBlanks = 1
    MaxStaleTimers = 1
SYMMETRY OutputSymmetry
INVARIANTS TypeOK AwaitedEventComes
\* A stray VBlank can end in an abort of the process.
CHECK_DEADLOCK FALSE
