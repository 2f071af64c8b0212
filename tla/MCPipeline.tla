----------------------------- MODULE MCPipeline -----------------------------
(* Constants for checking Pipeline: two files of one or two items, with    *)
(* functions that ask for the struct of each other and of the builtins, a  *)
(* class, an interface, a generic function, any parameters, files that     *)
(* declare a builtin type again, and a chain of four external types, one   *)
(* more than the fixpoint's iterations allow for.                          *)
EXTENDS Pipeline

MCParts == {"A1", "A2", "B", "x", "y", "req", "res", "hdr", "blob"}

MCTexts == {"TypeLit", "Intersection", "A", "B", "AOrB", "Other", "FP", "GP", "Local",
            "Request", "Response", "Headers", "Fetch", "Blob", "Cache"}

MCVariantOf == [p \in MCParts |-> IF p \in {"A1", "A2"} THEN "A"
                                  ELSE IF p = "B" THEN "B" ELSE "Other"]

MCUnionText == [S \in SUBSET MCTexts |-> IF S = {"A", "B"} THEN "AOrB"
                                         ELSE IF S = {"A"} THEN "A" ELSE "Other"]

MCRefsOf == [p \in MCParts |-> CASE p = "req" -> {"Request"}
                                 [] p = "res" -> {"Response"}
                                 [] p = "hdr" -> {"Headers", "Fetch"}
                                 [] p = "blob" -> {"Blob"}
                                 [] OTHER -> {}]

TypeDef(k, b, m) == [kind |-> k, body |-> b, methods |-> m]

(* Request has a Response, a Response has itself and Headers, those have a *)
(* Blob; Fetch is a function.  Cache is a builtin type too, and the name   *)
(* of the string literal enum of a builtin property `cache`.               *)
MCBaseTypes ==
    [n \in {PlainName(t) : t \in {"Request", "Response", "Headers", "Fetch", "Blob", "Cache"}} |->
        CASE n.text = "Request"  -> TypeDef("Struct", {"res"}, {"x"})
          [] n.text = "Response" -> TypeDef("Struct", {"res", "hdr"}, {})
          [] n.text = "Headers"  -> TypeDef("Struct", {"x", "blob"}, {"y"})
          [] n.text = "Blob"     -> TypeDef("Struct", {"x"}, {})
          [] n.text = "Fetch"    -> TypeDef("Function", {}, {})
          [] n.text = "Cache"    -> TypeDef("Struct", {"y"}, {})]

MCBaseSyn ==
    RegisterStringEnum(RegisterUnion(RegisterStruct(NewRegistry, {"x"}), <<"A1", "B">>),
                       "Cache", {"x", "y"})

Ask(k, ps) == [kind |-> k, parts |-> ps]

MakeItem(fn, sig, exprs) ==
    [fn |-> fn, visited |-> TRUE, defines |-> {}, typeParams |-> {}, refs |-> {}, anys |-> <<>>,
     sig |-> sig, exprs |-> exprs]

FnX == [MakeItem(TRUE, <<Ask("struct", <<"x">>)>>, <<Ask("union", <<"A2", "B">>), Ask("union", <<"A1", "A2">>)>>)
          EXCEPT !.refs = {"Request", "Cache"}]
FnY == [MakeItem(TRUE, <<Ask("struct", <<"y">>), Ask("union", <<"B", "A1">>)>>, <<>>)
          EXCEPT !.anys = <<[text |-> "FP", variants |-> {"x"}]>>]
Generic == [MakeItem(TRUE, <<Ask("struct", <<"hdr">>)>>, <<Ask("intersection", <<"y">>)>>)
          EXCEPT !.typeParams = {"Headers"},
                 !.anys = <<[text |-> "GP", variants |-> {"y"}]>>]
Class == [MakeItem(FALSE, <<Ask("struct", <<"y">>), Ask("intersection", <<"x">>)>>,
                   <<Ask("struct", <<"req">>)>>)
          EXCEPT !.defines = {"Local"}, !.refs = {"Local"},
                 !.anys = <<[text |-> "GP", variants |-> {"x"}]>>]
Interface == [MakeItem(FALSE, <<Ask("union", <<"A1", "x">>), Ask("struct", <<"res">>)>>, <<>>)
          EXCEPT !.visited = FALSE]
Shadow == [MakeItem(FALSE, <<>>, <<>>) EXCEPT !.defines = {"Response"}, !.refs = {"Fetch"}]

NoDecls == [n \in {} |-> n]
Again == [n \in {PlainName("Request")} |-> TypeDef("Struct", {"hdr"}, {})]
Own == [n \in {PlainName("Local"), PlainName("AOrB")} |->
          TypeDef(IF n.text = "Local" THEN "Struct" ELSE "Enum", {"x"}, {})]

File(d, i, its) == [decls |-> d, imports |-> i, items |-> its]

MCPrograms ==
    {<<f, g>> : f \in {File(NoDecls, {}, <<FnX, FnY>>),
                       File(Again, {}, <<Class, FnY>>),
                       File(Own, {"Fetch"}, <<Generic, FnX>>)},
                g \in {File(NoDecls, {}, <<Interface, FnY>>),
                       File(Again, {}, <<Shadow, FnX>>),
                       File(Own, {}, <<Class, Generic>>)}}

MCMaxIterations == 3
=============================================================================
