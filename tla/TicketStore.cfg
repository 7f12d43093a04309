SPECIFICATION Spec
CONSTANTS
    t1 = t1
    t2 = t2
    bid = bid
    ask = ask
    stop = stop
    Ids <- TwoIds
    LimitKeys <- TwoLimits
    StopKeys <- OneStop
    Quantities <- TwoQuantities
    IntMax = 3
    BlockSize = 2
    MaxTickets = 3
SYMMETRY StoreSymmetry
INVARIANTS
    TypeOK
    CellsAreAccounted
    FoundTicketsAreLive
    ListsAreLinked
    VolumeUpToWidth
PROPERTY ImplementsTicketQueues
