SPECIFICATION WholeSpec
CONSTANT MaxPrice = 9
INVARIANTS
    TypeOK
    WellLinked
    NoDanglingPointer
