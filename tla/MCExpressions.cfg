SPECIFICATION Spec
CONSTANT MaxWraps = 2
INVARIANTS
    OperandsStayTogether
    ExpressionsPreserve
    ExpressionsCompile
CHECK_DEADLOCK FALSE
