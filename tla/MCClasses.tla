----------------------------- MODULE MCClasses -----------------------------
(* Files of up to three classes, each extending the one before it or the *)
(* first, and of up to three interfaces. *)
EXTENDS Classes

Number(n) == [is |-> "number", number |-> n]
Param(p) == [is |-> "param", name |-> p]
NextOf(p) == [is |-> "next", name |-> p]
Read(f) == [is |-> "field", name |-> f]
Text(t) == [is |-> "text", name |-> t]

Say(e) == [do |-> "say", of |-> e]
Set(f, e) == [do |-> "set", field |-> f, of |-> e, plus |-> FALSE]
Add(f, e) == [do |-> "set", field |-> f, of |-> e, plus |-> TRUE]
Call(m) == [do |-> "call", method |-> m]
Super(es) == [do |-> "super", args |-> es]
Above(m) == [do |-> "above", method |-> m]

FieldOf(n) == [A |-> "f", B |-> "g", C |-> "h"][n]

Field(f) == [name |-> f, init |-> <<>>]
FieldIs(f, v) == [name |-> f, init |-> <<v>>]

P(n) == [name |-> n, prop |-> FALSE]
Prop(n) == [name |-> n, prop |-> TRUE]

Ctor(ps, body) == <<[params |-> ps, body |-> body]>>

MethodIs(n, body) == [name |-> n, static |-> FALSE, body |-> <<body>>]
Abstract(n) == [name |-> n, static |-> FALSE, body |-> <<>>]
Static(n, body) == [name |-> n, static |-> TRUE, body |-> <<body>>]

MCClass(n, parent, fields, ctor, methods) ==
    [name |-> n, parent |-> parent, abstract |-> FALSE, implements |-> <<>>,
     fields |-> fields, ctor |-> ctor, methods |-> methods, blocks |-> <<>>]

\* Fields and constructors, with one method.
MCRootCtors == {
    <<>>, Ctor(<<>>, <<>>), Ctor(<<P("p")>>, <<Set("f", Param("p"))>>),
    Ctor(<<P("p")>>, <<Set("f", NextOf("p"))>>),
    Ctor(<<P("p")>>, <<Set("f", Param("p")), Say(Param("p"))>>),
    Ctor(<<P("p")>>, <<Set("f", Param("p")), Say(Read("f"))>>),
    Ctor(<<P("p")>>, <<Set("f", Param("p")), Set("f", NextOf("p"))>>),
    Ctor(<<P("p")>>, <<Add("f", Param("p"))>>),
    Ctor(<<Prop("e")>>, <<>>),
    Ctor(<<P("p"), P("q")>>, <<Set("f", Param("p")), Set("e", Param("q"))>>),
    Ctor(<<P("p"), P("q")>>, <<Set("e", Param("p")), Set("f", Param("q"))>>)}

MCChildCtors(n) == {
    <<>>, Ctor(<<P("p")>>, <<Super(<<Param("p")>>)>>), Ctor(<<>>, <<Super(<<>>)>>),
    Ctor(<<P("p")>>, <<Super(<<>>), Set(FieldOf(n), Param("p"))>>),
    Ctor(<<P("p"), P("q")>>, <<Super(<<Param("q")>>), Set(FieldOf(n), Param("p"))>>),
    Ctor(<<P("p"), P("q")>>, <<Super(<<Param("p"), Param("q")>>)>>),
    Ctor(<<P("p")>>, <<Super(<<Param("p")>>), Set("f", NextOf("p"))>>),
    Ctor(<<P("p")>>, <<Super(<<Param("p")>>), Say(Param("p"))>>),
    Ctor(<<Prop("d")>>, <<Super(<<Param("d")>>)>>)}

MCRootFields == {<<>>, <<Field("f")>>, <<FieldIs("f", 7)>>, <<Field("f"), Field("e")>>}
MCChildFields(n) == {<<>>, <<Field(FieldOf(n))>>, <<FieldIs(FieldOf(n), 5)>>, <<FieldIs("f", 5)>>}

Speak(n) == MethodIs("m", <<Say(Text(n))>>)

MCConstructed ==
    {MCClass("A", None, fs, k, <<Speak("A")>>) : fs \in MCRootFields, k \in MCRootCtors}
    \cup UNION {{MCClass(n[1], n[2], fs, k, <<>>) : fs \in MCChildFields(n[1]), k \in MCChildCtors(n[1])}
                : n \in {<<"B", "A">>, <<"C", "B">>, <<"C", "A">>}}

\* Methods, with plain constructors.
MCm(n) == {<<>>, <<Speak(n)>>, <<MethodIs("m", <<Set("f", Number(9)), Say(Text(n))>>)>>,
           <<MethodIs("m", <<Say(Read("f"))>>)>>, <<MethodIs("m", <<Call("n")>>)>>,
           <<MethodIs("m", <<Set("f", Number(8)), Call("n")>>)>>, <<MethodIs("m", <<Above("m")>>)>>}
MCn(n) == {<<>>, <<MethodIs("n", <<Say(Text(n))>>)>>, <<MethodIs("n", <<Set("f", Number(6)), Say(Text(n))>>)>>}

MCOne == Ctor(<<P("p")>>, <<Set("f", Param("p"))>>)
MCUp == Ctor(<<P("p")>>, <<Super(<<Param("p")>>)>>)

MCBehaving ==
    {MCClass("A", None, <<Field("f")>>, MCOne, m \o k) : m \in MCm("A"), k \in MCn("A")}
    \cup UNION {{MCClass(n[1], n[2], <<>>, MCUp, m \o k) : m \in MCm(n[1]), k \in MCn(n[1])}
                : n \in {<<"B", "A">>, <<"C", "B">>}}

\* Abstract classes, static members, and interfaces.
MCAbstract ==
    {[MCClass("A", None, fs, <<>>, m \o k) EXCEPT !.abstract = TRUE] :
        fs \in {<<>>, <<FieldIs("f", 7)>>}, m \in MCm("A") \cup {<<Abstract("m")>>},
        k \in MCn("A") \cup {<<Abstract("n")>>, <<Static("s", <<Say(Text("A"))>>)>>}}

MCStatic ==
    {[MCClass("A", None, <<Field("f")>>, MCOne, <<Static("s", <<Say(Text("A"))>>)>>) EXCEPT !.blocks = b] :
        b \in {<<>>, << <<Say(Text("A"))>> >>}}
    \cup {MCClass("B", "A", <<>>, MCUp, s) : s \in {<<>>, <<Static("s", <<Say(Text("B"))>>)>>}}

MCImplementing ==
    {[c EXCEPT !.implements = i] :
        c \in {x \in MCBehaving : x.name # "C"}, i \in {<<"I">>, <<"J">>, <<"I", "J">>, <<"K">>, <<"I", "K">>}}

\* Children without a constructor.
MCBare == {MCClass("B", "A", <<>>, <<>>, m \o k) : m \in MCm("B"), k \in MCn("B")}

\* Classes that implement nothing themselves.
MCPlain == {MCClass("A", None, <<Field("f")>>, MCOne, <<Speak("A")>>),
            MCClass("B", "A", <<>>, MCUp, <<>>), MCClass("B", "A", <<>>, MCUp, <<Speak("B")>>)}

MCInterfaces == {
    [name |-> "I", extends |-> <<>>, methods |-> {"m"}, data |-> {}],
    [name |-> "J", extends |-> <<>>, methods |-> {"m", "n"}, data |-> {}],
    [name |-> "K", extends |-> <<"I">>, methods |-> {"n"}, data |-> {}],
    [name |-> "K", extends |-> <<>>, methods |-> {"m"}, data |-> {"f"}]}

MCPools == {
    [interfaces |-> {}, classes |-> MCConstructed],
    [interfaces |-> {}, classes |-> MCBehaving],
    [interfaces |-> {}, classes |-> MCAbstract \cup {c \in MCBehaving : c.name = "B"} \cup MCBare],
    [interfaces |-> {}, classes |-> MCStatic],
    [interfaces |-> MCInterfaces, classes |-> MCImplementing \cup MCPlain]}

MCArguments == <<1, 2>>
=============================================================================
