------------------------ MODULE MCSyntheticRegistry ------------------------
(* Constants for checking SyntheticRegistry: members A1 and A2 share the   *)
(* variant name A, two string enums share a hint, an any-enum has the text *)
(* of a hint, and a nested union is a member of another.                   *)
EXTENDS SyntheticRegistry

MCParts == {"A1", "A2", "B", "x", "y", "m1", "m2", "up", "down"}

MCTexts == {"TypeLit", "Intersection", "A", "B", "AOrB", "Dir", "Other", "Stub"}

MCVariantOf == [p \in MCParts |-> IF p \in {"A1", "A2"} THEN "A"
                                  ELSE IF p = "B" THEN "B" ELSE "Other"]

MCUnionText == [S \in SUBSET MCTexts |-> IF S = {"A", "B"} THEN "AOrB"
                                         ELSE IF S = {"A"} THEN "A" ELSE "Other"]

MCUnionRequests == {<<"A1", "A2">>, <<"A2", "A1", "B">>, <<"B", "A1">>}

MCStructRequests == {[fields |-> {"x"}, methods |-> {}],
                     [fields |-> {"x", "y"}, methods |-> {}],
                     [fields |-> {"x"}, methods |-> {"m1"}]}

MCEnumRequests == {{"x"}, {"y"}}

MCStringRequests == {[hint |-> "Dir", values |-> {"up"}], [hint |-> "Dir", values |-> {"down"}]}

MCAnyRequests == {[text |-> "Dir", variants |-> {"x"}]}

MCUtilityRequests == {[text |-> "B", fields |-> {"y"}]}

MCStubTexts == {"Stub"}

MCScopeRequests == {{"A"}, {"A", "B"}}
=============================================================================
