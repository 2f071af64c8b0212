------------------------------ MODULE MCUnions ------------------------------
(* Functions of one to three statements over each kind of parameter, as far *)
(* as TypeScript accepts them.                                              *)
EXTENDS Unions

Params == {Union({"string", "number"}), Union({"string", "Widget"}),
           Union({"string", "number", "Widget"}), Unknown}

Simple == {TypeOf("string"), TypeOfNot("string"), TypeOf("number"), TypeOf("object"), IsWidget}
Compound == {And(TypeOf("string"), Flag), And(Flag, TypeOfNot("string")), Or(TypeOf("string"), Flag),
             Not(TypeOf("string")), And(TypeOfNot("string"), TypeOf("number")), Not(IsWidget)}
Tests == Simple \cup Compound

Uses == {Use("string"), Use("number"), Use("Widget")}
Bodies == {<<>>, <<Effect(1)>>, <<Leave>>} \cup {<<u>> : u \in Uses}
Exits == {<<Leave>>, <<Effect(1), Leave>>}

Ifs(tests) ==
    {If(t, b) : t \in tests, b \in Bodies \cup Exits}
    \cup {IfElse(t, a, b) : t \in tests, a \in Bodies \cup Exits, b \in Bodies}

Inner == {If(t, <<Leave>>) : t \in Simple} \cup {IfElse(t, <<Effect(2)>>, <<u>>) : t \in Simple, u \in Uses}

Lasts == {<<Effect(9)>>} \cup {<<u>> : u \in Uses}

Procedures ==
    {<<s>> \o l : s \in Ifs(Tests), l \in Lasts}
    \cup {<<s, r>> \o l : s \in {If(t, <<Leave>>) : t \in Tests \cup {Flag}}, r \in Inner, l \in Lasts}
    \cup {<<If(t, <<s>>)>> \o l : t \in Tests \cup {Flag}, s \in Inner, l \in Lasts}
    \cup {<<IfElseIf(t, b, s)>> \o l : t \in Tests \cup {Flag}, b \in Bodies, s \in Inner, l \in Lasts}
    \cup {<<Block(<<If(t, <<Leave>>)>> \o l), m>> : t \in Simple, l \in Lasts, m \in Uses \cup {Effect(3)}}

\* Functions that return a value.
Values == {Lit("string"), Lit("number"), X}
Answers == Values
    \cup {Cond(t, a, b) : t \in Simple \cup {And(TypeOf("string"), Flag), Not(TypeOf("string"))},
                         a \in Values, b \in Values}

Answering ==
    {<<Return(e)>> : e \in Answers}
    \cup {<<If(t, <<Return(a)>>), Return(b)>> : t \in Tests, a \in Values, b \in Values}
    \cup {<<IfElse(t, <<Return(a)>>, <<Return(b)>>)>> : t \in Tests, a \in Values, b \in Values}
    \cup {<<If(t, <<Return(a)>>), If(u, <<Return(b)>>), Return(c)>> :
             t \in {TypeOf("string"), IsWidget}, u \in {TypeOf("number"), TypeOfNot("number")},
             a \in Values, b \in Values, c \in Values}

Cases ==
    {<<Case("string", a), Case("number", b)>> \o d :
       a \in {<<>>, <<Effect(1), Break>>, <<Use("string"), Break>>, <<Leave>>},
       b \in {<<Effect(2), Break>>, <<Use("number"), Break>>, <<If(Flag, <<Break>>), Effect(3), Break>>},
       d \in {<<>>, <<Case("default", <<Effect(4)>>)>>, <<Case("default", <<Use("Widget")>>)>>,
              <<Case("default", <<If(IsWidget, <<Break>>), Effect(5)>>)>>}}
    \cup {<<Case("default", a), Case("number", b)>> :
       a \in {<<>>, <<Effect(1), Break>>, <<Use("string"), Break>>}, b \in {<<Effect(2)>>, <<Use("number")>>}}
    \cup {<<Case("string", <<Effect(1), Break>>), Case("object", <<Effect(2)>>)>>}

Switches == {<<Switch(c)>> \o l : c \in Cases, l \in Lasts}
    \cup {<<If(t, <<Leave>>), Switch(c), Effect(9)>> : t \in Simple, c \in Cases}

SwitchAnswers ==
    {<<Switch(<<Case("string", <<Return(a)>>), Case("number", <<Return(b)>>)>> \o d), Return(c)>> :
       a \in Values, b \in Values, c \in Values, d \in {<<>>, <<Case("default", <<Return(X)>>)>>}}

Rets == {String, Union({"string", "number"})}

MCFunctions ==
    {Fn(p, Void, body) : p \in Params, body \in Procedures \cup Switches}
    \cup {Fn(p, r, body) : p \in Params, r \in Rets, body \in Answering \cup SwitchAnswers}
=============================================================================
