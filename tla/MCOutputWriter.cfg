SPECIFICATION Spec
CONSTANTS
    Types <- MCTypes
    Segments <- MCSegments
    Projects <- MCProjects
    SharedStems <- MCSharedStems
CHECK_DEADLOCK FALSE
INVARIANTS
    NamesInScope
    DeclaredModulesExist
    CrateComplete
PROPERTIES
    WrittenStays
