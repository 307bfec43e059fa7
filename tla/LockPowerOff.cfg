SPECIFICATION FairLockSpec
CONSTANTS
    Outputs = {o1}
    Lockers = {l1, l2}
    NoLocker = NoLocker
    Hotplug = FALSE
    PowerCommands = TRUE
    EarlyVBlanks = FALSE
    MaxStrayVBlanks = 0
    MaxStaleTimers = 1
PROPERTIES LockCompletes
