SPECIFICATION FairSpec
CONSTANTS
    c1 = c1
    c2 = c2
    Clients = {c1, c2}
    QueueCap = 2
    InitialSize = 1
    MaxSize = 3
    MaxVersion = 3
    MaxRequests <- Requests
    Subscriptions <- Wanted
INVARIANTS TypeOK RegisteredExactly NeverBlocks NothingMissed EventsInOrder BufferBounded
PROPERTIES ChangeIsShown OverflowDisconnects RequestAnswered
