SPECIFICATION FairLockSpec
CONSTANTS
    Outputs = {o1}
    Lockers = {l1, l2}
    NoLocker = NoLocker
    Hotplug = TRUE
    PowerCommands = FALSE
    EarlyVBlanks = FALSE
    MaxStrayVBlanks = 0
    MaxStaleTimers = 1
INVARIANTS AnswersAgree
PROPERTIES LockCompletes OnlyHolderUnlocks
