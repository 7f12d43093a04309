SPECIFICATION Spec
CONSTANTS
    t1 = t1
    t2 = t2
    t3 = t3
    t4 = t4
    Ids <- ThreeIds
    MaxPrice = 2
    Quantities <- TwoQuantities
SYMMETRY IdSymmetry
INVARIANTS
    TypeOK
    EveryTicketQueuedOnce
    VolumeIsSum
    TakerAccounted
PROPERTIES
    LimitIsRespected
    OnlyEmptyBookForgets
    OnlyModifyCrosses
    WorkRunsOut
