SPECIFICATION Spec
CONSTANTS
    Pool <- MCPool
    MaxItems = 3
CHECK_DEADLOCK FALSE
INVARIANTS
    RecordedAsDeclared
    EmittedAsRecorded
