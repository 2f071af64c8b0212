---------------------------- MODULE MCNarrowing ----------------------------
(* Small functions over the argument null, 0 or 7.  Each ends by logging x. *)
EXTENDS Narrowing

Simple == {Set(Null), Set(3), Or(5), Inc, Log, Plus, Logical("&&", 4), Logical("||", 4)}

\* What a nested block holds.
Inner ==
    {<<s>> : s \in Simple \cup {Return}}
    \cup {<<Or(5), Inc>>, <<Or(5), Set(Null)>>, <<Set(3), Return>>, <<Let(Null), Or(5), Log>>,
          <<Let(3), Set(Null)>>, <<If("null", <<Return>>, NoElse), Inc, Plus>>}

Compound ==
    {If(test, then, else) : test \in Tests, then \in Inner, else \in {NoElse, <<Log>>, <<Set(3)>>}}
    \cup {Loop(body) : body \in Inner \cup {<<If("null", <<Continue>>, NoElse), Inc>>}}
    \cup {Block(body) : body \in Inner}

Statements == Simple \cup Compound

MCFunctions ==
    {<<first, second, Log>> : first \in Statements, second \in Statements}
    \cup {<<Or(5), first, second, Log>> : first \in Simple, second \in Simple}
    \cup {<<Fn(body), s, Call, Log>> : body \in Inner, s \in Statements}
    \cup {<<Or(5), Fn(body), Call, s>> : body \in Inner, s \in Simple}
    \cup {<<s, Fn(body), Call, Plus, Log>> : body \in Inner, s \in Compound}
=============================================================================
