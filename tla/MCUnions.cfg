SPECIFICATION Spec
CHECK_DEADLOCK FALSE
CONSTANT Functions <- MCFunctions
INVARIANTS
    BeliefsSound
    UnionsBehave
    UnionsCompile
