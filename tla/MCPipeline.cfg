SPECIFICATION Spec
CONSTANTS
    Parts <- MCParts
    Texts <- MCTexts
    VariantOf <- MCVariantOf
    UnionText <- MCUnionText
    Programs <- MCPrograms
    BaseTypes <- MCBaseTypes
    BaseSyn <- MCBaseSyn
    RefsOf <- MCRefsOf
    MaxIterations <- MCMaxIterations
CHECK_DEADLOCK FALSE
INVARIANTS
    EveryNameDefined
    
    UnionNamesDenote
    ResolverAnswersStand
    OnlyCountedOutput
    BuiltinMethodsStand
    ExternalsAreClosure
PROPERTIES
    DeclaredTypesStand
