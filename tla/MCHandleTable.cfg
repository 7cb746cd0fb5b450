CONSTANTS
    Objects = {o1, o2}
    Null = Null
    MaxCount = 3
    MaxGen = 5
    SlotWidth = 4
SPECIFICATION Spec
INVARIANTS
    TypeOK
    FreeListExact
    NoEarlyReuse
PROPERTY ImplementsMap
