SPECIFICATION WholeSpec
CONSTANT MaxPrice = 7
PROPERTY ImplementsSortedLevels
