SPECIFICATION Spec
CONSTANTS
    Parts <- MCParts
    Texts <- MCTexts
    VariantOf <- MCVariantOf
    UnionText <- MCUnionText
    UnionRequests <- MCUnionRequests
    StructRequests <- MCStructRequests
    EnumRequests <- MCEnumRequests
    StringRequests <- MCStringRequests
    AnyRequests <- MCAnyRequests
    UtilityRequests <- MCUtilityRequests
    StubTexts <- MCStubTexts
    ScopeRequests <- MCScopeRequests
    MaxDepth = 2
INVARIANTS
    IInv
    NamesDenote
    ScopesNest
PROPERTIES
    KeepsDictionary
