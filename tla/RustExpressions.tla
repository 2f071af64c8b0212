-------------------------- MODULE RustExpressions --------------------------
(* Rust expressions as the transformer builds them (src/ir/expr.rs), the   *)
(* text the generator prints for them (src/generator/expressions/mod.rs),  *)
(* and, external to the repository, what rustc makes of that text: the     *)
(* tree it parses, the type it gives a tree and the value it computes.     *)
(* A text is a sequence of tokens; what stands between brackets is one     *)
(* token with its own text inside, so that only the grouping the printer   *)
(* leaves to operator precedence is in question.                           *)
EXTENDS Integers, Sequences, FiniteSets, TLC

-----------------------------------------------------------------------------
(* Expr.                                                                    *)
NumberLit(n) == [ir |-> "num", n |-> n]
IntLit(n) == [ir |-> "int", n |-> n]
BoolLit(b) == [ir |-> "bool", b |-> b]
StringLit(s) == [ir |-> "str", s |-> s]
Ident(x) == [ir |-> "ident", x |-> x]
NoneValue == [ir |-> "none"]
SomeOf(e) == [ir |-> "some", e |-> e]
UnaryOp(op, e) == [ir |-> "unary", op |-> op, e |-> e]
BinaryOp(op, l, r) == [ir |-> "binary", op |-> op, l |-> l, r |-> r]
MethodCall(m, o, args) == [ir |-> "call", m |-> m, o |-> o, args |-> args]
IfExpr(c, t, f) == [ir |-> "if", c |-> c, t |-> t, f |-> f]
IfLetSome(x, o, t, f) == [ir |-> "iflet", x |-> x, o |-> o, t |-> t, f |-> f]
Cast(e, ty) == [ir |-> "cast", e |-> e, ty |-> ty]
RefTo(e) == [ir |-> "ref", e |-> e]
FormatMacro(args) == [ir |-> "format", args |-> args]
Closure(x, e) == [ir |-> "closure", x |-> x, e |-> e]
Block(x, init, tail) == [ir |-> "block", x |-> x, init |-> init, tail |-> tail]

BlockLike == {"if", "iflet", "block"}
Bitwise == {"&", ">>>"}

(* BinOp::precedence.                                                       *)
PrecedenceOf == [op \in {"||", "&&", "==", "!=", "<", "&", ">>>", "+", "-", "*"} |->
    CASE op = "||" -> 3 [] op = "&&" -> 4 [] op \in {"==", "!="} -> 5 [] op \in {"<", "&"} -> 6
      [] op = ">>>" -> 7 [] op \in {"+", "-"} -> 8 [] op = "*" -> 9]

IsCopyLiteral(e) == e.ir \in {"num", "int", "bool", "none"}

-----------------------------------------------------------------------------
(* generate_expr.                                                           *)
Atom(e) == [tk |-> "atom", e |-> e]
Group(s) == [tk |-> "group", s |-> s]
Prefix(op) == [tk |-> "prefix", op |-> op]
Infix(op) == [tk |-> "infix", op |-> op]
As(ty) == [tk |-> "as", ty |-> ty]
Dot(m, args) == [tk |-> "dot", m |-> m, args |-> args]
Bars(x) == [tk |-> "bars", x |-> x]

NeedsParensWhenTighter(e, op) == e.ir = "binary" /\ PrecedenceOf[e.op] > PrecedenceOf[op]
NeedsParensInBinop(e, op) == e.ir = "binary" /\ PrecedenceOf[e.op] < PrecedenceOf[op]
NeedsParensBeforePostfix(e) == e.ir \in {"binary", "unary", "cast", "if", "iflet", "ref"}
NeedsParensAfterUnary(e) == e.ir \in {"binary", "unary"}

Parenthesised(text, needs) == IF needs THEN <<Group(text)>> ELSE text

(* e, a binary operation whose operands have the texts l and r: a bit      *)
(* operation goes through integers.                                        *)
GenerateBinary(e, l, r) ==
    CASE e.op = ">>>" -> <<Group(<<Group(l \o <<As("i32"), As("u32")>>), Infix(">>"), Group(r \o <<As("u32")>>)>>), As("f64")>>
      [] e.op = "&" -> <<Group(<<Group(l \o <<As("i64")>>), Infix(e.op), Group(r \o <<As("i64")>>)>>), As("f64")>>
      [] OTHER -> Parenthesised(l, NeedsParensInBinop(e.l, e.op)) \o <<Infix(e.op)>>
                  \o Parenthesised(r, NeedsParensInBinop(e.r, e.op))
(* head: the text of the condition, or of what is matched.                 *)
GenerateConditional(e, head, t, f) ==
    IF e.ir = "if" THEN <<[tk |-> "if", c |-> head, t |-> t, f |-> f]>>
    ELSE <<[tk |-> "iflet", x |-> e.x, o |-> head, t |-> t, f |-> f]>>

RECURSIVE GenerateExpr(_)
GenerateExpr(e) ==
    LET All(args) == [i \in DOMAIN args |-> GenerateExpr(args[i])]
    IN CASE e.ir = "unary" -> <<Prefix(e.op)>> \o Parenthesised(GenerateExpr(e.e), NeedsParensAfterUnary(e.e))
         [] e.ir = "ref" -> <<Prefix("&ref")>> \o GenerateExpr(e.e)
         [] e.ir = "cast" -> GenerateExpr(e.e) \o <<As(e.ty)>>
         [] e.ir = "closure" -> <<Bars(e.x)>> \o GenerateExpr(e.e)
         [] e.ir = "call" ->
                Parenthesised(GenerateExpr(e.o), NeedsParensBeforePostfix(e.o)) \o <<Dot(e.m, All(e.args))>>
         [] e.ir = "binary" -> GenerateBinary(e, GenerateExpr(e.l), GenerateExpr(e.r))
         [] e.ir \in {"if", "iflet"} ->
                GenerateConditional(e, GenerateExpr(IF e.ir = "if" THEN e.c ELSE e.o), GenerateExpr(e.t), GenerateExpr(e.f))
         [] e.ir = "block" -> <<[tk |-> "block", x |-> e.x, init |-> GenerateExpr(e.init),
                                 tail |-> GenerateExpr(e.tail)]>>
         [] e.ir = "some" -> <<[tk |-> "some", s |-> GenerateExpr(e.e)]>>
         [] e.ir = "format" -> <<[tk |-> "format", args |-> All(e.args)]>>
         [] OTHER -> <<Atom(e)>>

-----------------------------------------------------------------------------
(* The grammar of Rust: `-` `!` `&`, then `as`, then the binary operators,  *)
(* all of them left associative but the comparisons, which do not chain; a  *)
(* `<` behind `as T` opens type arguments; a statement or the value of a    *)
(* block that begins with if, if let or a block ends with it; the body of a *)
(* closure reaches to the end.                                              *)
SyntaxError == [ir |-> "error"]
Comparisons == {"==", "!=", "<"}
RustLevel == [op \in {"||", "&&", "==", "!=", "<", "&", ">>", "+", "-", "*"} |->
    CASE op = "||" -> 1 [] op = "&&" -> 2 [] op \in Comparisons -> 3 [] op = "&" -> 4
      [] op = ">>" -> 5 [] op \in {"+", "-"} -> 6 [] op = "*" -> 7]

RECURSIVE Parse(_, _)
(* The tree rustc reads in the text s; `statement` says whether it stands   *)
(* where a statement may.                                                   *)
Parse(s, statement) ==
    LET Value(t) == Parse(t, FALSE)
        Tail1(t) == Parse(t, TRUE)
        bars == {i \in DOMAIN s : s[i].tk = "bars"}
        infixes == {i \in DOMAIN s : s[i].tk = "infix" /\ \A b \in bars : i < b}
        lowest == {i \in infixes : \A j \in infixes : RustLevel[s[i].op] <= RustLevel[s[j].op]}
        at == CHOOSE i \in lowest : \A j \in lowest : j <= i
        n == Len(s)
        first == s[1]
        last == s[n]
    IN CASE n = 0 -> SyntaxError
         [] n > 0 /\ first.tk = "bars" -> Closure(first.x, Value(Tail(s)))
         [] n > 1 /\ statement /\ first.tk \in BlockLike /\ s[2].tk # "dot" -> SyntaxError
         [] infixes # {} /\ first.tk # "bars" ->
                IF \/ s[at].op \in Comparisons /\ Cardinality(lowest) > 1
                   \/ s[at].op = "<" /\ at > 1 /\ s[at - 1].tk = "as"
                THEN SyntaxError
                ELSE BinaryOp(s[at].op, Parse(SubSeq(s, 1, at - 1), statement), Value(SubSeq(s, at + 1, n)))
         [] infixes = {} /\ n > 1 /\ last.tk = "as" -> Cast(Value(SubSeq(s, 1, n - 1)), last.ty)
         [] infixes = {} /\ n > 1 /\ first.tk = "prefix" /\ last.tk # "as" ->
                IF first.op = "&ref" THEN RefTo(Value(Tail(s))) ELSE UnaryOp(first.op, Value(Tail(s)))
         [] infixes = {} /\ n > 1 /\ first.tk # "prefix" /\ last.tk = "dot" ->
                MethodCall(last.m, Value(SubSeq(s, 1, n - 1)), [i \in DOMAIN last.args |-> Value(last.args[i])])
         [] n = 1 /\ first.tk = "atom" -> first.e
         [] n = 1 /\ first.tk = "group" -> Value(first.s)
         [] n = 1 /\ first.tk = "some" -> SomeOf(Value(first.s))
         [] n = 1 /\ first.tk = "format" -> FormatMacro([i \in DOMAIN first.args |-> Value(first.args[i])])
         [] n = 1 /\ first.tk = "if" -> IfExpr(Value(first.c), Tail1(first.t), Tail1(first.f))
         [] n = 1 /\ first.tk = "iflet" -> IfLetSome(first.x, Value(first.o), Tail1(first.t), Tail1(first.f))
         [] n = 1 /\ first.tk = "block" -> Block(first.x, Value(first.init), Tail1(first.tail))
         [] OTHER -> SyntaxError

RECURSIVE Meant(_)
(* The tree the text of e should give back: the casts of a bit operation in *)
(* full, and conjunctions and disjunctions grouped to the left, which       *)
(* changes nothing.                                                         *)
Meant(e) ==
    LET All(args) == [i \in DOMAIN args |-> Meant(args[i])]
        RECURSIVE Chain(_, _, _)
        Chain(op, l, r) == IF r.ir = "binary" /\ r.op = op THEN BinaryOp(op, Chain(op, l, r.l), r.r)
                           ELSE BinaryOp(op, l, r)
    IN CASE e.ir = "binary" /\ e.op = ">>>" ->
                Cast(BinaryOp(">>", Cast(Cast(Meant(e.l), "i32"), "u32"), Cast(Meant(e.r), "u32")), "f64")
         [] e.ir = "binary" /\ e.op = "&" ->
                Cast(BinaryOp("&", Cast(Meant(e.l), "i64"), Cast(Meant(e.r), "i64")), "f64")
         [] e.ir = "binary" /\ e.op \in {"&&", "||"} -> Chain(e.op, Meant(e.l), Meant(e.r))
         [] e.ir = "binary" /\ e.op \notin Bitwise \cup {"&&", "||"} -> BinaryOp(e.op, Meant(e.l), Meant(e.r))
         [] e.ir \in {"unary", "ref", "cast", "some", "closure"} -> [e EXCEPT !.e = Meant(@)]
         [] e.ir = "call" -> [e EXCEPT !.o = Meant(@), !.args = All(@)]
         [] e.ir = "format" -> [e EXCEPT !.args = All(@)]
         [] e.ir = "if" -> IfExpr(Meant(e.c), Meant(e.t), Meant(e.f))
         [] e.ir = "iflet" -> [e EXCEPT !.o = Meant(@), !.t = Meant(@), !.f = Meant(@)]
         [] e.ir = "block" -> [e EXCEPT !.init = Meant(@), !.tail = Meant(@)]
         [] OTHER -> e

(* The text, as the value of a variable or as the value of a function body, *)
(* reads back as the tree.                                                  *)
ReadsBack(e, statement) == Parse(GenerateExpr(e), statement) = Meant(e)

(* Where the printer leaves out parentheses that the grammar needs.        *)
Regrouped(e) == e.ir = "binary" /\ e.op \in {"+", "-", "*"} /\ e.r.ir = "binary" /\ PrecedenceOf[e.r.op] = PrecedenceOf[e.op]
Chained(e) == e.ir = "binary" /\ e.op \in {"==", "!="} /\ \E d \in {e.l, e.r} : d.ir = "binary" /\ d.op \in Comparisons
RECURSIVE EndsInCast(_)
EndsInCast(e) == \/ e.ir = "cast"
                 \/ e.ir = "binary" /\ (e.op \in Bitwise \/ (EndsInCast(e.r) /\ ~NeedsParensInBinop(e.r, e.op)))
CastThenLess(e) == e.ir = "binary" /\ e.op = "<" /\ EndsInCast(e.l) /\ ~NeedsParensInBinop(e.l, e.op)
Casts(e) == \/ e.ir = "cast" /\ e.e.ir = "binary" /\ e.e.op \notin Bitwise
            \/ e.ir = "binary" /\ e.op \in Bitwise /\ \E d \in {e.l, e.r} : d.ir = "binary" /\ d.op \notin Bitwise
NegatesCast(e) == e.ir = "unary" /\ e.e.ir = "cast"
RefersToOperation(e) == e.ir = "ref" /\ e.e.ir \in {"binary", "cast"}
RECURSIVE BeginsWithBlock(_)
BeginsWithBlock(e) == CASE e.ir = "binary" /\ e.op \notin Bitwise ->
                               ~NeedsParensInBinop(e.l, e.op) /\ (e.l.ir \in BlockLike \/ BeginsWithBlock(e.l))
                        [] e.ir = "cast" -> e.e.ir \in BlockLike \/ BeginsWithBlock(e.e)
                        [] OTHER -> FALSE

Parts(e) ==
    CASE e.ir \in {"unary", "ref", "cast", "some", "closure"} -> {e.e}
      [] e.ir = "binary" -> {e.l, e.r}
      [] e.ir = "call" -> {e.o} \cup {e.args[i] : i \in DOMAIN e.args}
      [] e.ir = "format" -> {e.args[i] : i \in DOMAIN e.args}
      [] e.ir = "if" -> {e.c, e.t, e.f}
      [] e.ir = "iflet" -> {e.o, e.t, e.f}
      [] e.ir = "block" -> {e.init, e.tail}
      [] OTHER -> {}
RECURSIVE Ungrouped(_, _)
Ungrouped(e, statement) ==
    \/ Regrouped(e) \/ Chained(e) \/ CastThenLess(e) \/ Casts(e) \/ NegatesCast(e) \/ RefersToOperation(e)
    \/ statement /\ BeginsWithBlock(e)
    \/ \E d \in Parts(e) : Ungrouped(d, (e.ir \in {"if", "iflet"} /\ d \in {e.t, e.f}) \/ (e.ir = "block" /\ d = e.tail))

-----------------------------------------------------------------------------
(* Types, as rustc gives them: "error" where it rejects the tree.          *)
Option(t) == "Option<" \o t \o ">"
Plain == {"f64", "bool", "String", "&str", "&String", "&f64", "_"}
IsOption(t) == \E p \in Plain : t = Option(p)
Inner(t) == CHOOSE p \in Plain : t = Option(p)
Text == {"String", "&str", "&String"}
Displayed == Text \cup {"f64", "bool"}

Fits(t, wanted) == t = wanted \/ (t = Option("_") /\ IsOption(wanted))
Join(t, u) == IF Fits(t, u) THEN u ELSE IF Fits(u, t) THEN t ELSE "error"
Require(holds, t) == IF holds THEN t ELSE "error"

(* The type of o.m(args), where `result` is the type of the one argument,  *)
(* of the closure's body when it is a closure.                             *)
MethodType(m, o, result) ==
    LET known == IsOption(o) /\ Inner(o) # "_"
    IN CASE m = "to_string" -> Require(o \in Displayed, "String")
         [] m \in {"is_none", "is_some"} -> Require(known, "bool")
         [] m = "is_nan" -> Require(o = "f64", "bool")
         [] m = "is_empty" -> Require(o \in Text, "bool")
         [] m = "len" -> Require(o \in Text \cup {"Vec<f64>"}, "usize")
         [] m = "parse::<f64>" -> Require(o \in Text, "Result<f64>")
         [] m = "unwrap" /\ o = "Result<f64>" -> "f64"
         [] m = "unwrap" /\ o # "Result<f64>" -> Require(known, Inner(o))
         [] m = "get" -> Require(o = "Vec<f64>" /\ result = "usize", Option("&f64"))
         [] m = "cloned" -> Require(o = Option("&f64"), Option("f64"))
         [] m = "as_ref" -> Require(o = Option("String"), Option("&String"))
         [] m = "is_some_and" -> Require(known /\ result = "bool", "bool")
         [] m \in {"unwrap_or", "unwrap_or_else"} -> Require(known /\ Fits(result, Inner(o)), Inner(o))
         [] m \in {"or", "or_else"} -> Require(IsOption(o) /\ IsOption(result), Join(o, result))

RECURSIVE TypeOf(_, _)
(* The type of e where the variables have the types `of`.                  *)
TypeOf(e, of) ==
    LET T(d) == TypeOf(d, of)
        Argument(d, o) ==
            IF d.ir # "closure" THEN T(d)
            ELSE TypeOf(d.e, IF IsOption(o) THEN (d.x :> Inner(o)) @@ of ELSE of)
        Numbers(l, r) == l = "f64" /\ r = "f64"
        Same(l, r) == Join(l, r) # "error" \/ {l, r} = {"String", "&str"}
    IN CASE e.ir = "num" -> "f64"
         [] e.ir = "int" -> "usize"
         [] e.ir = "bool" -> "bool"
         [] e.ir = "str" -> "&str"
         [] e.ir = "ident" -> of[e.x]
         [] e.ir = "none" -> Option("_")
         [] e.ir = "some" -> Require(T(e.e) # "error", Option(T(e.e)))
         [] e.ir = "unary" -> Require(T(e.e) = (IF e.op = "!" THEN "bool" ELSE "f64"), T(e.e))
         [] e.ir = "ref" -> Require(T(e.e) # "error", "&" \o T(e.e))
         [] e.ir = "cast" -> Require(IF e.ty = "bool" THEN T(e.e) = "bool" ELSE T(e.e) \in {"f64", "usize"}, e.ty)
         [] e.ir = "format" -> Require(\A i \in DOMAIN e.args : T(e.args[i]) \in Displayed, "String")
         [] e.ir = "if" -> Require(T(e.c) = "bool", Join(T(e.t), T(e.f)))
         [] e.ir = "iflet" ->
                LET o == T(e.o)
                IN IF IsOption(o) /\ Inner(o) # "_"
                   THEN Join(TypeOf(e.t, (e.x :> Inner(o)) @@ of), T(e.f)) ELSE "error"
         [] e.ir = "block" -> Require(T(e.init) # "error", TypeOf(e.tail, (e.x :> T(e.init)) @@ of))
         [] e.ir = "call" ->
                LET o == T(e.o)
                    result == IF e.args = <<>> THEN "()" ELSE Argument(e.args[1], o)
                IN Require({o, result} \cap {"error"} = {}, MethodType(e.m, o, result))
         [] e.ir = "binary" ->
                LET l == T(e.l)
                    r == T(e.r)
                IN CASE e.op = "+" -> IF l = "String" THEN Require(r \in {"&str", "&String", "&&str"}, "String")
                                      ELSE Require(Numbers(l, r), "f64")
                     [] e.op \in {"-", "*"} -> Require(Numbers(l, r), "f64")
                     [] e.op = "&" -> Require({l, r} \subseteq {"f64", "bool"}, "f64")
                     [] e.op = ">>>" -> Require({l, r} \subseteq {"f64"}, "f64")
                     [] e.op \in {"&&", "||"} -> Require(l = "bool" /\ r = "bool", "bool")
                     [] e.op \in {"==", "!="} -> Require({l, r} \cap {"error"} = {} /\ Same(l, r), "bool")
                     [] e.op = "<" -> Require(l # "error" /\ Join(l, r) # "error", "bool")

-----------------------------------------------------------------------------
(* Values.  Numbers are small integers: their widths, fractions, NaN and   *)
(* the two zeros are outside.                                              *)
Num(n) == <<"num", n>>
Bool(b) == <<"bool", b>>
Str(s) == <<"str", s>>
Some(v) == <<"some", v>>
None == <<"none">>
Panic == <<"panic">>

Displayed1(v) ==
    CASE v[1] = "num" -> ToString(v[2]) [] v[1] = "str" -> v[2] [] v[1] = "bool" -> IF v[2] THEN "true" ELSE "false"

RECURSIVE And(_, _, _), ShiftRight(_, _)
(* The bits of two's complement, the lowest w of them.                     *)
And(n, m, w) ==
    IF w = 0 THEN IF n < 0 /\ m < 0 THEN -1 ELSE 0
    ELSE 2 * And(n \div 2, m \div 2, w - 1) + (n % 2) * (m % 2)
ShiftRight(n, m) == IF m <= 0 THEN n ELSE ShiftRight(n \div 2, m - 1)

RECURSIVE Value(_, _)
(* The value of a well typed e where the variables have the values `of`.   *)
Value(e, of) ==
    LET V(d) == Value(d, of)
        With(x, v, d) == Value(d, (x :> v) @@ of)
        Lazy(d) == IF d.ir = "closure" THEN V(d.e) ELSE V(d)
    IN CASE e.ir \in {"num", "int"} -> Num(e.n)
         [] e.ir = "bool" -> Bool(e.b)
         [] e.ir = "str" -> Str(e.s)
         [] e.ir = "ident" -> of[e.x]
         [] e.ir = "none" -> None
         [] e.ir \in {"ref", "cast"} -> V(e.e)
         [] e.ir = "closure" -> Panic
         [] e.ir = "some" -> LET v == V(e.e) IN IF v = Panic THEN Panic ELSE Some(v)
         [] e.ir = "unary" ->
                LET v == V(e.e)
                IN IF v = Panic THEN Panic ELSE IF e.op = "-" THEN Num(-v[2]) ELSE Bool(~v[2])
         [] e.ir = "format" ->
                LET shown == [i \in DOMAIN e.args |-> V(e.args[i])]
                IN IF \E i \in DOMAIN shown : shown[i] = Panic THEN Panic
                   ELSE Str(IF Len(shown) = 1 THEN Displayed1(shown[1]) ELSE Displayed1(shown[1]) \o Displayed1(shown[2]))
         [] e.ir = "if" -> LET c == V(e.c) IN IF c = Panic THEN Panic ELSE IF c[2] THEN V(e.t) ELSE V(e.f)
         [] e.ir = "iflet" ->
                LET o == V(e.o)
                IN IF o = Panic THEN Panic ELSE IF o = None THEN V(e.f) ELSE With(e.x, o[2], e.t)
         [] e.ir = "block" -> LET v == V(e.init) IN IF v = Panic THEN Panic ELSE With(e.x, v, e.tail)
         [] e.ir = "call" ->
                LET o == V(e.o)
                IN (CASE o = Panic -> Panic
                     [] o # Panic /\ e.m \in {"cloned", "as_ref"} -> o
                     [] o # Panic /\ e.m = "parse::<f64>" ->
                            (IF \E n \in 0 .. 9 : ToString(n) = o[2]
                             THEN Some(Num(CHOOSE n \in 0 .. 9 : ToString(n) = o[2])) ELSE None)
                     [] o # Panic /\ e.m = "to_string" -> Str(Displayed1(o))
                     [] o # Panic /\ e.m = "is_none" -> Bool(o = None)
                     [] o # Panic /\ e.m = "is_some" -> Bool(o # None)
                     [] o # Panic /\ e.m = "is_nan" -> Bool(FALSE)
                     [] o # Panic /\ e.m \in {"len", "is_empty"} ->
                            (IF e.m = "len" THEN Num(Len(o[2])) ELSE Bool(o[2] = ""))
                     [] o # Panic /\ e.m = "unwrap" -> IF o = None THEN Panic ELSE o[2]
                     [] o # Panic /\ e.m = "get" ->
                            LET i == V(e.args[1])
                            IN (IF i = Panic THEN Panic
                                ELSE LET at == (IF i[2] < 0 THEN 0 ELSE i[2]) + 1
                                     IN IF at \in DOMAIN o[2] THEN Some(Num(o[2][at])) ELSE None)
                     [] o # Panic /\ e.m = "is_some_and" ->
                            (IF o = None THEN Bool(FALSE) ELSE With(e.args[1].x, o[2], e.args[1].e))
                     [] o # Panic /\ e.m \in {"unwrap_or", "unwrap_or_else"} ->
                            (IF o = None THEN Lazy(e.args[1]) ELSE o[2])
                     [] o # Panic /\ e.m \in {"or", "or_else"} -> IF o = None THEN Lazy(e.args[1]) ELSE o)
         [] e.ir = "binary" ->
                LET l == V(e.l)
                    r == V(e.r)
                    short == \/ e.op = "&&" /\ l = Bool(FALSE)
                             \/ e.op = "||" /\ l = Bool(TRUE)
                IN CASE l = Panic \/ short -> l
                     [] ~(l = Panic \/ short) /\ (r = Panic \/ e.op \in {"&&", "||"}) -> r
                     [] OTHER -> CASE e.op = "+" -> IF l[1] = "str" THEN Str(l[2] \o r[2]) ELSE Num(l[2] + r[2])
                                   [] e.op = "-" -> Num(l[2] - r[2])
                                   [] e.op = "*" -> Num(l[2] * r[2])
                                   [] e.op = "&" -> Num(And(l[2], r[2], 4))
                                   [] e.op = ">>>" -> Num(ShiftRight(l[2], r[2]))
                                   [] e.op = "==" -> Bool(l = r)
                                   [] e.op = "!=" -> Bool(l # r)
                                   [] e.op = "<" -> Bool(l[2] < r[2])
=============================================================================
