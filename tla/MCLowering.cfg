SPECIFICATION Spec
CONSTANTS
    Names <- MCNames
    MaxDepth = 27
    Jumps <- MCJumps
    Wraps <- Constructs
    MaxSteps = 4
    MaxAnswers = 4
CHECK_DEADLOCK FALSE
INVARIANTS
    LoweringPreserves
    JumpsAreAccepted
