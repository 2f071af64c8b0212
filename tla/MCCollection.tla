---------------------------- MODULE MCCollection ----------------------------
(* Constants for checking Collection and Converter.                              *)
EXTENDS Converter

Num == Prim("f64")
Str == Prim("String")
A == Ref("A", <<>>)
B == Ref("B", <<>>)
C == Ref("C", <<>>)
K == Ref("K", <<>>)

F(n, t) == Field(n, t, FALSE)
Param(n, bound) == [name |-> n, bound |-> bound]
Interface(n, fs) == [Decl("interface", n) EXCEPT !.fields = fs]
Class(n, fs) == [Decl("class", n) EXCEPT !.fields = fs]
Alias(n, t) == [Decl("alias", n) EXCEPT !.type = t]
Const(n, t) == [Decl("const", n) EXCEPT !.type = t]

(* Types that mention B, by name or by what it contains.                   *)
MentionsB == {B, Ref("Array", <<B>>), Union(<<B, Nothing>>), Union(<<Num, B>>), Literal(<<F("p", B)>>),
              Ref("B", <<Num>>), KeyOf(B), TypeOf("B"), At(B, Text("x")), At(At(B, Text("x")), Text("y")),
              At(B, KeyOf(B)), At(B, Union(<<Text("x"), Text("y")>>)),
              At(TypeOf("B"), Num), Mapped(KeyOf(B), At(B, K)), Mapped(KeyOf(B), Num),
              Ref("Partial", <<B>>), Ref("Partial", <<Ref("Partial", <<B>>)>>),
              Ref("Required", <<B>>), Ref("Pick", <<B, Text("x")>>), Ref("Omit", <<B, Text("x")>>),
              Ref("Readonly", <<B>>), Ref("Record", <<Str, B>>),
              Ref("Pick", <<Ref("Partial", <<B>>), Text("x")>>),
              Both(<<B, Literal(<<F("z", Num)>>)>>), Both(<<B, Literal(<<F("y", Str)>>)>>),
              Tuple(<<B, Num>>), LiteralOf(<<>>, <<>>, <<>>, B),
              MappedAs(KeyOf(B), At(B, K), FALSE, "symbols"), MappedAs(KeyOf(B), At(B, K), TRUE, "none")}

(* Bodies of an alias that only the emission tells apart.                  *)
T == Ref("T", <<>>)
Tagged(one, other) == Union(<<Literal(<<F("k", Text("x"))>>), Literal(<<F("k", Text(one)), F("v", other)>>)>>)
Bodies == {Text("x"), Union(<<Text("x"), Nothing>>), Union(<<Digit("1"), Text("x")>>),
           Union(<<B, Literal(<<F("p", B)>>), Function(<<F("p", B)>>, B), Tuple(<<B>>)>>), Union(<<B, KeyOf(B), Never>>),
           Union(<<Both(<<B, Literal(<<F("z", Num)>>)>>), Num>>),
           Tagged("y", B), Tagged("x", B),
           LiteralOf(<<>>, <<Sig(<<F("p", B)>>, B)>>, <<>>, Untyped),
           LiteralOf(<<F("f", B)>>, <<Sig(<<F("p", B)>>, B)>>, <<>>, Untyped),
           LiteralOf(<<>>, <<>>, <<Sig(<<>>, B), Sig(<<F("p", B)>>, Num)>>, Untyped),
           LiteralOf(<<>>, <<>>, <<Sig(<<F("p", B)>>, Num)>>, Untyped),
           LiteralOf(<<>>, <<>>, <<Sig(<<Field("p", B, TRUE)>>, Num)>>, Untyped),
           LiteralOf(<<F("f", B)>>, <<>>, <<Sig(<<>>, B)>>, Untyped),
           LiteralOf(<<F("f", B)>>, <<>>, <<>>, B),
           KeyOf(TypeOf("B")),
           Conditional(B, Num, Truth(TRUE), Truth(FALSE)), Conditional(B, Ref("C", <<Infer("U")>>), Ref("U", <<>>), Never),
           Conditional(B, Num, B, Num),
           Both(<<Literal(<<>>)>>), Both(<<Literal(<<>>), Mapped(KeyOf(B), At(B, K))>>),
           Both(<<Mapped(KeyOf(B), At(B, K)), Literal(<<F("z", Num)>>)>>),
           Both(<<Ref("Partial", <<B>>), Literal(<<F("z", Num)>>)>>),
           Both(<<Literal(<<F("z", Num)>>), Ref("Partial", <<B>>)>>), Both(<<B, C>>), Both(<<B, Tagged("y", Num)>>),
           Both(<<Union(<<B, Literal(<<F("z", Num)>>)>>), Literal(<<F("t", Str)>>)>>),
           Both(<<Ref("B", <<Num>>), Literal(<<F("z", Num)>>)>>)}
WithT == {Literal(<<F("f", T)>>), Function(<<F("p", T)>>, B), Tuple(<<T>>), Ref("B", <<T>>), Tagged("y", T),
          Both(<<B, Literal(<<F("z", T)>>)>>), Ref("Array", <<T>>),
          LiteralOf(<<>>, <<>>, <<Sig(<<F("p", T)>>, B)>>, Untyped)}

MCPool ==
    {Interface("A", <<Field("f", t, o)>>) : t \in MentionsB, o \in {FALSE, TRUE}}
    \cup {Alias("A", t) : t \in MentionsB \cup {Literal(<<F("q", B)>>), Function(<<F("p", B)>>, B)}}
    \cup {Const("A", Literal(<<Field("f", t, o)>>)) : t \in MentionsB, o \in {FALSE, TRUE}}
    \cup {Alias("A", t) : t \in Bodies}
    \cup {[Alias("A", t) EXCEPT !.params = <<Param("T", bound)>>] : t \in WithT, bound \in {NoBound, Num, B}}
    \cup {[Interface("A", fs) EXCEPT !.methods = <<Sig(<<Field("p", B, TRUE)>>, T)>>, !.params = <<Param("T", NoBound)>>] :
            fs \in {<<>>, <<F("f", T)>>}}
    \cup {[Decl("interface", "A") EXCEPT !.calls = <<Sig(<<F("p", B)>>, Ref("Promise", <<B>>)), Sig(<<>>, Num)>>],
          Interface("A", <<F("f", Untyped)>>)}
    \cup {[heir EXCEPT !.extends = <<"B", "C">>] : heir \in
            {Interface("A", <<F("f", Num)>>), Interface("A", <<F("y", Num)>>),
             [Decl("interface", "A") EXCEPT !.methods = <<Sig(<<F("p", C)>>, Num)>>],
             [Interface("A", <<F("f", Num)>>) EXCEPT !.methods = <<Sig(<<>>, B)>>],
             [Decl("interface", "A") EXCEPT !.calls = <<Sig(<<>>, Num)>>]}}
    \cup {Const("A", B),
          [Decl("arrow", "A") EXCEPT !.type = B, !.fields = <<F("p", Num)>>],
          [Decl("function", "A") EXCEPT !.fields = <<Field("p", B, TRUE)>>, !.gives = B],
          [Interface("A", <<F("f", Ref("T", <<>>))>>) EXCEPT !.params = <<Param("T", B)>>],
          [Class("A", <<F("f", Ref("U", <<>>))>>) EXCEPT
                !.params = <<Param("T", B), Param("U", Ref("T", <<>>))>>,
                !.methods = <<Sig(<<F("p", B)>>, Ref("T", <<>>))>>]}
    \cup {Interface("B", <<F("x", C), F("y", Str)>>),
          Interface("B", <<Field("x", Num, TRUE), F("y", Num)>>),
          [Interface("B", <<F("x", Ref("T", <<>>))>>) EXCEPT !.params = <<Param("T", NoBound)>>],
          [Decl("interface", "B") EXCEPT !.methods = <<Sig(<<F("p", C)>>, Num)>>],
          [Decl("interface", "B") EXCEPT !.calls = <<Sig(<<F("p", Num)>>, Num)>>],
          [Class("B", <<F("x", Num), F("y", C)>>) EXCEPT !.ctor = <<Sig(<<F("p", C)>>, Nothing)>>],
          [Class("B", <<F("x", Num)>>) EXCEPT !.properties = <<F("y", Num)>>],
          Class("B", <<F("x", Num), F("y", Untyped)>>),
          Alias("B", Literal(<<F("x", C), F("y", Num)>>)), Alias("B", C),
          Alias("B", Ref("Partial", <<C>>)), Alias("B", Union(<<Text("x"), Text("y")>>)), Alias("B", Num),
          Alias("B", Union(<<Literal(<<F("k", Text("x"))>>), Literal(<<F("k", Text("y")), F("v", C)>>)>>)),
          [Decl("const", "B") EXCEPT !.elements = <<[type |-> Str, value |-> "x"], [type |-> Str, value |-> "y"]>>],
          [Decl("const", "B") EXCEPT !.fields = <<F("x", Num), F("y", Str)>>],
          [Decl("enum", "B") EXCEPT !.variants = <<Variant("x", <<>>)>>],
          [Decl("function", "B") EXCEPT !.fields = <<F("p", C)>>, !.gives = Num]}
    \cup {[Decl("interface", "C") EXCEPT !.methods = <<Sig(<<>>, Num)>>],
          Interface("C", <<F("y", Num)>>), Interface("C", <<F("w", Ref("Partial", <<B>>)), F("y", Num)>>),
          Alias("C", Literal(<<F("y", Str), F("x", Num)>>))}
=============================================================================
