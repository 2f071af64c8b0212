SPECIFICATION Spec
CHECK_DEADLOCK FALSE
CONSTANTS
    Functions <- MCFunctions
    Numbers = {0, 7}
INVARIANTS
    HintsExact
    NarrowingAgrees
    AssignedIsMut
    CompiledCodeAgrees
