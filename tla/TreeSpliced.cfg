SPECIFICATION SplicedSpec
CONSTANT MaxPrice = 12
INVARIANT Balanced
PROPERTY ImplementsSortedLevels
