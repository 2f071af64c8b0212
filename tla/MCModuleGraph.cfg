SPECIFICATION Spec
CONSTANTS
    a = a
    b = b
    c = c
    d = d
    x = x
    y = y
    Files <- MCFiles
    Names <- MCNames
    Programs <- MCPrograms
    Orders <- MCOrders
    MaxRounds = 20
CHECK_DEADLOCK FALSE
INVARIANTS
    ExportsResolved
    UsesReachTheDeclaration
PROPERTIES
    Terminates
