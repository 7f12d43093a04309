SPECIFICATION GeneratorSpec
CONSTANTS
    Ids <- IdsOfRun
    MaxPrice = 3
    Quantities <- TwoQuantities
    NumberOfOrders = 2
    NumberOfStops = 1
    NumberOfDraws = 3
    FirstTicketId = 4
    CentreOfBook = 2
    LimitDistances <- OneDistance
INVARIANTS
    GeneratedLimitsRest
    GeneratedStopsWait
    NextIdIsFree
    BookNeverCrosses
PROPERTY BenchmarkEnds
CHECK_DEADLOCK FALSE
