SPECIFICATION CancelSpec
CONSTANTS
    t1 = t1
    t2 = t2
    Ids <- TwoIds
    MaxPrice = 2
    Quantities <- OneQuantity
INVARIANT CancelLeavesNoEmptyLevel
