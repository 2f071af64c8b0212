SPECIFICATION Spec
CONSTANTS
    Declarations <- MCDeclarations
    Statements <- MCStatements
    Values <- MCValues
    MaxStatements = 2
CHECK_DEADLOCK FALSE
INVARIANTS
    MembersPreserved
