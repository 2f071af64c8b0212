SPECIFICATION Spec
CONSTANTS
    Exprs <- MCExprs
    Height <- MCHeight
    Library <- MCLibrary
    Modules <- MCModules
CHECK_DEADLOCK FALSE
INVARIANTS
    EffectsInOrder
    OneEntry
    NamesResolve
    AwaitsStand
