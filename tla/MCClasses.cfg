SPECIFICATION Spec
CONSTANTS
    Pools <- MCPools
    Arguments <- MCArguments
CHECK_DEADLOCK FALSE
INVARIANTS
    ClassesCompile
    ClassesBehave
