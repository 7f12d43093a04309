SPECIFICATION Spec
CONSTANT MaxPrice = 3
INVARIANT NoDanglingPointer
