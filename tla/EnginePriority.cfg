SPECIFICATION HistorySpec
CONSTANTS
    t1 = t1
    t2 = t2
    t3 = t3
    Ids <- ThreeIds
    MaxPrice = 2
    Quantities <- TwoQuantities
SYMMETRY IdSymmetry
PROPERTY PriceTimePriority
