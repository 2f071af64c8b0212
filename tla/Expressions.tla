---------------------------- MODULE Expressions ----------------------------
(* Expressions over numbers, booleans, strings, an array and optional      *)
(* numbers, from TypeScript to Rust: the types the resolver records for    *)
(* them and the ones it expects where they stand, the conversion those     *)
(* types steer, and the text printed for the result.  An expression is     *)
(* built from a variable outwards, so that every operator meets every kind *)
(* of operand; no variable stands in it twice but the one a condition      *)
(* tests and its branch reads.                                             *)
EXTENDS RustExpressions, SequencesExt

CONSTANTS MaxWraps  \* bound on the operators around the first variable
ASSUME MaxWrapsAssumption == MaxWraps \in Nat

-----------------------------------------------------------------------------
(* TypeScript's expressions.                                               *)
Var(x) == [k |-> "var", x |-> x]
NumLit(n) == [k |-> "num", n |-> n]
BoolLit0(b) == [k |-> "bool", b |-> b]
StrLit(s) == [k |-> "str", s |-> s]
Undefined == [k |-> "undefined"]
Paren(e) == [k |-> "paren", e |-> e]
Bin(op, l, r) == [k |-> "bin", op |-> op, l |-> l, r |-> r]
Unary(op, e) == [k |-> "unary", op |-> op, e |-> e]
Cond(c, t, f) == [k |-> "cond", c |-> c, t |-> t, f |-> f]
Template(e) == [k |-> "template", e |-> e]
Index(i) == [k |-> "index", i |-> i]              \* of the array
Length(e) == [k |-> "length", e |-> e]
ToStringCall(e) == [k |-> "toString", e |-> e]
AsNumber(e) == [k |-> "as", e |-> e]
NonNull(e) == [k |-> "nonNull", e |-> e]

Literals == {"num", "bool", "str"}
Logical == {"&&", "||"}

(* The variables: their types in Rust and their values in TypeScript.      *)
Numbers == {"a", "b0", "b1", "b2", "b3"}
Booleans == {"p", "q0", "q1", "q2", "q3"}
Strings == {"s", "t0", "t1", "t2", "t3"}
Optionals == {"o", "o0", "o1", "o2", "o3"}
Variables == Numbers \cup Booleans \cup Strings \cup Optionals \cup {"v"}

RustTypeOf == [x \in Variables |->
    CASE x \in Numbers -> "f64" [] x \in Booleans -> "bool" [] x \in Strings -> "String"
      [] x \in Optionals -> Option("f64") [] x = "v" -> "Vec<f64>"]

Undef == <<"undefined">>
ValuesOf == [x \in Variables |->
    CASE x \in Numbers -> {Num(0), Num(2)} [] x \in Booleans -> {Bool(TRUE), Bool(FALSE)}
      [] x \in Strings -> {Str(""), Str("x")} [] x \in Optionals -> {Undef, Num(0), Num(1)}
      [] x = "v" -> {<<"vec", <<5, 0>>>>}]

-----------------------------------------------------------------------------
(* What TypeScript computes; Beyond stands for what is outside the model:  *)
(* NaN, the bits of a negative number, and an element the array does not   *)
(* have.                                                                   *)
Beyond == <<"beyond">>

Truthy(v) == v \notin {Undef, Num(0), Str(""), Bool(FALSE)}
TypeofValue(v) == CASE v[1] = "num" -> "number" [] v[1] = "str" -> "string" [] v[1] = "bool" -> "boolean"
                    [] v[1] = "undefined" -> "undefined"
Digits == 0 .. 9

RECURSIVE Means(_, _)
Means(e, of) ==
    LET M(d) == Means(d, of)
        Strict(v, result) == IF v = Beyond THEN Beyond ELSE result
        Strict2(l, r, result) == IF Beyond \in {l, r} THEN Beyond ELSE result
        Adds(op) == op \in {"+", "-", "*", "&", ">>>", "<"}
        Operate(op, l, r) ==
            CASE op = "+" -> IF "str" \in {l[1], r[1]} THEN Str(Displayed1(l) \o Displayed1(r)) ELSE Num(l[2] + r[2])
              [] op = "-" -> Num(l[2] - r[2])
              [] op = "*" -> Num(l[2] * r[2])
              [] op = "&" -> Num(And(l[2], r[2], 4))
              [] op = ">>>" -> IF l[2] < 0 \/ r[2] < 0 THEN Beyond ELSE Num(ShiftRight(l[2], r[2]))
              [] op = "<" -> Bool(l[2] < r[2])
              [] op = "===" -> Bool(l = r)
              [] op = "!==" -> Bool(l # r)
        (* A branch, chosen by the value of what is tested.                *)
        Chosen(v, taken, t, f) == IF v = Beyond THEN Beyond ELSE IF taken THEN M(t) ELSE M(f)
    IN CASE e.k = "var" -> of[e.x]
         [] e.k = "num" -> Num(e.n)
         [] e.k = "bool" -> Bool(e.b)
         [] e.k = "str" -> Str(e.s)
         [] e.k = "undefined" -> Undef
         [] e.k \in {"paren", "as", "nonNull"} -> M(e.e)
         [] e.k = "cond" -> LET c == M(e.c) IN Chosen(c, Truthy(c), e.t, e.f)
         [] e.k \in {"template", "toString"} -> LET v == M(e.e) IN Strict(v, Str(Displayed1(v)))
         [] e.k = "length" -> LET v == M(e.e) IN Strict(v, Num(Len(v[2])))
         [] e.k = "index" -> LET i == M(e.i)
                             IN IF i # Beyond /\ i[2] + 1 \in DOMAIN of["v"][2] THEN Num(of["v"][2][i[2] + 1]) ELSE Beyond
         [] e.k = "unary" ->
                LET v == M(e.e)
                IN Strict(v, CASE e.op = "!" -> Bool(~Truthy(v))
                               [] e.op = "-" -> Num(-v[2])
                               [] e.op = "typeof" -> Str(TypeofValue(v))
                               [] e.op = "+" ->
                                    IF v[1] = "num" THEN v
                                    ELSE IF \E n \in Digits : ToString(n) = v[2]
                                         THEN Num(CHOOSE n \in Digits : ToString(n) = v[2]) ELSE Beyond)
         [] e.k = "bin" ->
                LET l == M(e.l)
                    r == M(e.r)
                IN CASE e.op = "&&" -> IF l = Beyond \/ ~Truthy(l) THEN l ELSE r
                     [] e.op = "||" -> IF l = Beyond \/ Truthy(l) THEN l ELSE r
                     [] e.op = "??" -> IF l = Undef THEN r ELSE l
                     [] e.op \notin Logical \cup {"??"} ->
                            IF Adds(e.op) /\ Undef \in {l, r} THEN Beyond ELSE Strict2(l, r, Operate(e.op, l, r))

-----------------------------------------------------------------------------
(* The resolver: the type recorded for an expression, "" when there is     *)
(* none (resolve_expr), and the ones expected of its parts.                *)
Unknown == ""
IsNullish(e) == LET RECURSIVE Peel(_)
                    Peel(d) == IF d.k \in {"paren", "as", "nonNull"} THEN Peel(d.e) ELSE d
                IN Peel(e) = Undefined
WrapOptional(t) == IF IsOption(t) THEN t ELSE Option(t)
Stripped(t) == IF IsOption(t) THEN Inner(t) ELSE t
OrElse(t, u) == IF t # Unknown THEN t ELSE u

ResolveCond(cons, alt, consNull, altNull) ==
    LET value == IF consNull THEN alt ELSE cons
    IN CASE consNull \/ altNull \/ IsOption(cons) \/ IsOption(alt) ->
                IF value = Unknown THEN Option("_") ELSE WrapOptional(value)
         [] OTHER -> OrElse(cons, alt)

RECURSIVE ResolveExpr(_)
ResolveExpr(e) ==
    CASE e.k = "var" -> RustTypeOf[e.x]
      [] e.k = "num" -> "f64"
      [] e.k = "bool" -> "bool"
      [] e.k \in {"str", "template"} -> "String"
      [] e.k = "undefined" -> Unknown
      [] e.k = "toString" -> Unknown
      [] e.k = "paren" -> ResolveExpr(e.e)
      [] e.k = "nonNull" -> Stripped(ResolveExpr(e.e))
      [] e.k \in {"as", "index"} -> "f64"
      [] e.k = "length" -> IF ResolveExpr(e.e) = "String" THEN "f64" ELSE Unknown
      [] e.k = "cond" -> ResolveCond(ResolveExpr(e.t), ResolveExpr(e.f), IsNullish(e.t), IsNullish(e.f))
      [] e.k = "unary" -> (CASE e.op = "typeof" -> "String" [] e.op = "!" -> "bool" [] e.op \in {"-", "+"} -> "f64")
      [] e.k = "bin" ->
            CASE e.op \in {"<", "===", "!=="} -> "bool"
              [] e.op = "+" -> IF "String" \in {ResolveExpr(e.l), ResolveExpr(e.r)} THEN "String" ELSE "f64"
              [] e.op \in {"-", "*", "&", ">>>"} -> "f64"
              [] e.op \in Logical \cup {"??"} -> OrElse(ResolveExpr(e.r), ResolveExpr(e.l))

(* What a `??` that stands where `expected` is recorded expects of its     *)
(* sides.                                                                  *)
ExpectedLeft(e, expected) ==
    LET t == ResolveExpr(e.l)
    IN IF t # Unknown THEN Option(Stripped(t)) ELSE IF IsOption(expected) THEN expected ELSE Unknown
ExpectedRight(e, expected) ==
    LET t == ResolveExpr(e.l)
    IN IF IsOption(expected) THEN expected ELSE IF t # Unknown THEN Stripped(t) ELSE Unknown

-----------------------------------------------------------------------------
(* The conversion.                                                         *)
Call0(m, o) == MethodCall(m, o, <<>>)
Call1(m, o, d) == MethodCall(m, o, <<d>>)

IsPureOperand(e) == e.ir \in {"num", "int", "bool", "str", "ident", "none"}

TruthyPrimitive(e, t) ==
    CASE t = "f64" -> BinaryOp("&&", BinaryOp("!=", e, NumberLit(0)), UnaryOp("!", Call0("is_nan", e)))
      [] t = "String" -> UnaryOp("!", Call0("is_empty", e))
      [] t = "bool" -> e
FalsyPrimitive(e, t) ==
    CASE t = "f64" -> BinaryOp("||", BinaryOp("==", e, NumberLit(0)), Call0("is_nan", e))
      [] t = "String" -> Call0("is_empty", e)
      [] t = "bool" -> UnaryOp("!", e)

(* An operand that is read twice or by reference is bound first, unless it *)
(* is a name or a literal.                                                 *)
TmpOrSame(e) == IF IsPureOperand(e) THEN e ELSE Ident("__ts_tmp_op_0")
Bound(e, predicate) == IF IsPureOperand(e) THEN predicate ELSE Block("__ts_tmp_op_0", e, predicate)

PredicateOptionPrimitive(e, inner, truthy) ==
    LET d == TmpOrSame(e)
        test == Call1("is_some_and", IF inner = "String" THEN Call0("as_ref", d) ELSE d,
                      Closure("v", TruthyPrimitive(Ident("v"), inner)))
    IN Bound(e, IF truthy THEN test ELSE UnaryOp("!", test))

PredicatePrimitive(e, t, truthy) == IF truthy THEN TruthyPrimitive(e, t) ELSE FalsyPrimitive(e, t)

(* truthy_predicate_for_expr and falsy_predicate_for_expr.                 *)
DispatchPredicate(e, t, truthy) ==
    IF IsOption(t) THEN PredicateOptionPrimitive(e, Inner(t), truthy)
    ELSE IF t = "f64" THEN Bound(e, PredicatePrimitive(TmpOrSame(e), t, truthy))
    ELSE PredicatePrimitive(e, t, truthy)

HasPredicate(t) == t # Unknown /\ t # Option("_")

RECURSIVE ProducesOptionResult(_)
ProducesOptionResult(r) ==
    \/ r.ir \in {"some", "none"}
    \/ r.ir = "call" /\ CASE r.m = "cloned" -> r.o.ir = "call" /\ r.o.m = "get"
                          [] r.m \in {"or", "or_else"} -> ProducesOptionResult(r.o)
                          [] OTHER -> FALSE

RECURSIVE IsStringLike(_)
IsStringLike(r) ==
    \/ r.ir \in {"str", "format"}
    \/ r.ir = "call" /\ r.m = "to_string"
    \/ r.ir = "binary" /\ r.op = "+" /\ IsStringLike(r.l)
IsStringType(t) == t \in {"String", Option("String")}

BuildOptionOrOption(l, r) == IF IsCopyLiteral(r) THEN Call1("or", l, r) ELSE Call1("or_else", l, Closure("", r))
BuildUnwrapWithDefault(l, r) ==
    IF IsCopyLiteral(r) THEN Call1("unwrap_or", l, r) ELSE Call1("unwrap_or_else", l, Closure("", r))

(* l and r are the operands as converted.                                  *)
ConvertNullish(e, l, r) ==
    LET lt == ResolveExpr(e.l)
        rt == ResolveExpr(e.r)
    IN CASE lt # Unknown /\ ~IsOption(lt) /\ ~ProducesOptionResult(l) -> l
         [] IsOption(rt) \/ ProducesOptionResult(r) -> BuildOptionOrOption(l, r)
         [] OTHER -> BuildUnwrapWithDefault(l, r)

RustOperator(op) == CASE op = "===" -> "==" [] op = "!==" -> "!=" [] OTHER -> op

(* An addition where the left operand, or what is expected, is a string.   *)
ConvertConcat(e, l, r) ==
    LET lt == ResolveExpr(e.l)
        rt == ResolveExpr(e.r)
        leftString == IsStringType(lt) \/ IsStringLike(l)
        leftOther == lt # Unknown /\ ~leftString
        rightOther == rt # Unknown /\ ~IsStringType(rt) /\ ~IsStringLike(r)
    IN IF leftOther \/ (rightOther /\ leftString) THEN FormatMacro(<<l, r>>)
       ELSE BinaryOp("+", IF l.ir = "str" THEN Call0("to_string", l) ELSE l, IF r.ir = "str" THEN r ELSE RefTo(r))

ConvertBinary(e, expected, l, r) ==
    LET lt == ResolveExpr(e.l)
    IN IF e.op = "+" /\ (IsStringType(lt) \/ expected = "String" \/ IsStringLike(l)) THEN ConvertConcat(e, l, r)
       ELSE BinaryOp(RustOperator(e.op), l, r)

TypeofToString(t) == CASE t = "String" -> "string" [] t = "f64" -> "number" [] t = "bool" -> "boolean"
                       [] IsOption(t) -> "undefined" [] OTHER -> "object"

ConvertTypeof(t, r) == IF IsOption(t) THEN IfExpr(Call0("is_some", r), StringLit(TypeofToString(Inner(t))), StringLit("undefined"))
                       ELSE StringLit(TypeofToString(t))

(* typeof d === "..." decided by the type recorded for d.                  *)
IsTypeof(e) == e.k = "unary" /\ e.op = "typeof"
IsTypeofComparison(e) ==
    e.k = "bin" /\ e.op \in {"===", "!=="} /\ ((IsTypeof(e.l) /\ e.r.k = "str") \/ (IsTypeof(e.r) /\ e.l.k = "str"))
Compared(e) == IF IsTypeof(e.l) THEN e.l.e ELSE e.r.e
ComparedTo(e) == IF IsTypeof(e.l) THEN e.r.s ELSE e.l.s
ConvertTypeofComparison(e, t, r) ==
    CASE ComparedTo(e) = "undefined" /\ IsOption(t) -> Call0(IF e.op = "===" THEN "is_none" ELSE "is_some", r)
      [] ComparedTo(e) = TypeofToString(t) /\ ~IsOption(t) /\ t # Unknown -> BoolLit(e.op = "===")
      [] OTHER -> BoolLit(e.op = "!==")

IsUndefinedComparison(e) == e.k = "bin" /\ e.op \in {"===", "!=="} /\ Undefined \in {e.l, e.r}
OtherSide(e) == IF e.r = Undefined THEN e.l ELSE e.r

IndexAsIs(i) == i
ConvertIndexToUsize(i) == IF i.ir = "num" THEN IntLit(i.n) ELSE Cast(i, "usize")
ConvertIndex(i, expected) ==
    LET safe == Call0("cloned", Call1("get", Ident("v"), ConvertIndexToUsize(i)))
    IN IF IsOption(expected) THEN safe ELSE Call0("unwrap", safe)

(* Guards of a condition: a test of a variable that if let can make.       *)
RECURSIVE Conjuncts(_)
Conjuncts(e) == IF e.k = "bin" /\ e.op = "&&" THEN Conjuncts(e.l) \o Conjuncts(e.r) ELSE <<e>>
IsNonNullGuard(e) == IsUndefinedComparison(e) /\ OtherSide(e).k = "var"
GuardVar(e) == IF e.k = "var" THEN e ELSE OtherSide(e)
CanGenerateIfLet(e) == (e.k = "var" \/ IsNonNullGuard(e)) /\ IsOption(ResolveExpr(GuardVar(e)))
IsSwap(e) == e.k # "var" /\ e.op = "==="

RECURSIVE BuildNestedIfLet(_, _, _)
BuildNestedIfLet(guards, inner, otherwise) ==
    IF guards = <<>> THEN inner
    ELSE LET x == GuardVar(Head(guards)).x
             rest == BuildNestedIfLet(Tail(guards), inner, otherwise)
         IN IF IsSwap(Head(guards)) THEN IfLetSome(x, Ident(x), otherwise, rest)
            ELSE IfLetSome(x, Ident(x), rest, otherwise)

RECURSIVE CombineAll(_)
CombineAll(rs) == IF Len(rs) = 1 THEN rs[1] ELSE BinaryOp("&&", CombineAll(SubSeq(rs, 1, Len(rs) - 1)), rs[Len(rs)])

(* guards and others are the conjuncts of the condition; the others as     *)
(* converted.                                                              *)
ConvertCond(guards, others, test, then, otherwise) ==
    IF guards = <<>> THEN IfExpr(test, then, otherwise)
    ELSE BuildNestedIfLet(guards, IF others = <<>> THEN then ELSE IfExpr(CombineAll(others), then, otherwise),
                          otherwise)

PeekThrough(e) == LET RECURSIVE Peek(_)
                      Peek(d) == IF d.k \in {"paren", "as", "nonNull"} THEN Peek(d.e) ELSE d
                  IN Peek(e)

(* !d for what is known without looking further.                           *)
Folds(d) == d.k \in Literals \cup {"undefined"}
FoldBang(d) == BoolLit(CASE d.k = "undefined" -> TRUE [] d.k = "bool" -> ~d.b [] d.k = "num" -> d.n = 0
                         [] d.k = "str" -> d.s = "")
Negate(r) == IF r.ir = "bool" THEN BoolLit(~r.b) ELSE UnaryOp("!", r)

RECURSIVE ConvertExpr(_, _, _), ConvertBang(_)

(* e where `expected` is recorded and `override`, if any, asked for        *)
(* instead; ConvertExpr(d, "", "") where nothing is expected.              *)
ConvertExpr(e, expected, override) ==
    LET x == IF override # Unknown THEN override ELSE expected
        t == ResolveExpr(e)
        C(d) == ConvertExpr(d, Unknown, Unknown)
        Same(d) == ConvertExpr(d, expected, Unknown)
        At(other) == ConvertExpr(e, expected, other)
        Asked(r) == IF ProducesOptionResult(r) THEN r ELSE SomeOf(r)
        conjuncts == Conjuncts(e.c)
        guards == SelectSeq(conjuncts, CanGenerateIfLet)
        others == SelectSeq(conjuncts, LAMBDA d : ~CanGenerateIfLet(d))
    IN CASE IsOption(x) /\ e.k = "undefined" -> NoneValue
         [] IsOption(x) /\ e.k \in Literals -> SomeOf(At(Inner(x)))
         [] IsOption(x) /\ e.k \notin Literals \cup {"undefined"} /\ ~IsOption(t) -> Asked(At(Inner(x)))
         [] OTHER ->
            CASE e.k = "var" -> Ident(e.x)
              [] e.k = "undefined" -> NoneValue
              [] e.k = "num" -> NumberLit(e.n)
              [] e.k = "bool" -> BoolLit(e.b)
              [] e.k = "str" -> IF x = "String" THEN Call0("to_string", StringLit(e.s)) ELSE StringLit(e.s)
              [] e.k = "paren" -> Same(e.e)
              [] e.k = "as" -> Cast(ConvertExpr(e.e, "f64", Unknown), "f64")
              [] e.k = "nonNull" -> C(e.e)
              [] e.k = "template" -> FormatMacro(<<C(e.e)>>)
              [] e.k = "toString" -> Call0("to_string", C(e.e))
              [] e.k = "length" -> Cast(Call0("len", C(e.e)), "f64")
              [] e.k = "index" -> ConvertIndex(C(e.i), expected)
              [] e.k = "unary" -> (CASE e.op = "!" -> ConvertBang(e.e)
                                    [] e.op = "-" -> UnaryOp("-", C(e.e))
                                    [] e.op = "typeof" -> ConvertTypeof(ResolveExpr(e.e), C(e.e))
                                    [] e.op = "+" -> IF ResolveExpr(e.e) = "String"
                                                     THEN Call0("unwrap", Call0("parse::<f64>", C(e.e))) ELSE C(e.e))
              [] e.k = "cond" -> ConvertCond(guards, [i \in DOMAIN others |-> C(others[i])], C(e.c), Same(e.t), Same(e.f))
              [] e.k = "bin" ->
                    CASE IsTypeofComparison(e) -> ConvertTypeofComparison(e, ResolveExpr(Compared(e)), C(Compared(e)))
                      [] IsUndefinedComparison(e) -> Call0(IF e.op = "===" THEN "is_none" ELSE "is_some", C(OtherSide(e)))
                      [] e.op = "??" -> ConvertNullish(e, ConvertExpr(e.l, ExpectedLeft(e, expected), Unknown),
                                                       ConvertExpr(e.r, ExpectedRight(e, expected), Unknown))
                      [] OTHER -> ConvertBinary(e, x, C(e.l), C(e.r))

(* !e.                                                                     *)
ConvertBang(e) ==
    LET d == PeekThrough(e)
        again == PeekThrough(d.e)
        double == d.k = "unary" /\ d.op = "!"
        C(c) == ConvertExpr(c, Unknown, Unknown)
    IN CASE Folds(d) -> FoldBang(d)
         [] double /\ Folds(again) -> Negate(FoldBang(again))
         [] double /\ ~Folds(again) /\ again.k = "bin" /\ again.op \in Logical -> Negate(ConvertBang(d.e))
         [] double /\ ~Folds(again) /\ ~(again.k = "bin" /\ again.op \in Logical) ->
                IF HasPredicate(ResolveExpr(again)) THEN DispatchPredicate(C(again), ResolveExpr(again), TRUE)
                ELSE UnaryOp("!", UnaryOp("!", C(again)))
         [] d.k = "bin" /\ d.op \in Logical -> BinaryOp(IF d.op = "&&" THEN "||" ELSE "&&", ConvertBang(d.l), ConvertBang(d.r))
         [] OTHER -> IF HasPredicate(ResolveExpr(d)) THEN DispatchPredicate(C(d), ResolveExpr(d), FALSE)
                     ELSE UnaryOp("!", C(d))

-----------------------------------------------------------------------------
(* An expression grows around its first variable: one operator, method or  *)
(* condition per step, with fresh variables for the other operands, and    *)
(* parentheses where TypeScript's grammar wants them.                      *)
VARIABLES source,  \* the expression
          type,    \* its type: "num", "bool", "str" or "opt", a number or undefined
          open,    \* it reads o as a number: a condition on o is still to come
          wraps    \* operators so far
vars == <<source, type, open, wraps>>

LevelOf == [op \in {"*", "+", "-", ">>>", "<", "===", "!==", "&", "&&", "||", "??"} |->
    CASE op = "*" -> 13 [] op \in {"+", "-"} -> 12 [] op = ">>>" -> 11 [] op = "<" -> 10 [] op \in {"===", "!=="} -> 9
      [] op = "&" -> 8 [] op = "&&" -> 5 [] op = "||" -> 4 [] op = "??" -> 3]
Level(e) == CASE e.k = "bin" -> LevelOf[e.op] [] e.k = "unary" -> 17 [] e.k \in {"cond", "as"} -> 2 [] OTHER -> 20
Operand(e, level) == IF Level(e) < level THEN Paren(e) ELSE e
LeftOf(op, e) == Operand(e, IF op = "??" /\ ~(e.k = "bin" /\ e.op = "??") THEN 6 ELSE LevelOf[op])
RightOf(op, e) == Operand(e, IF op = "??" THEN 6 ELSE LevelOf[op] + 1)
Before(e) == IF e.k = "num" THEN Paren(e) ELSE Operand(e, 20)

Fresh(kind) == Var(kind \o ToString(wraps))
Becomes(e, t) ==
    /\ wraps < MaxWraps
    /\ wraps' = wraps + 1
    /\ source' = e
    /\ type' = t
OnEitherSide(ops, other, t) ==
    /\ UNCHANGED open
    /\ \E op \in ops : \/ Becomes(Bin(op, LeftOf(op, source), other), t)
                       \/ Becomes(Bin(op, other, RightOf(op, source)), t)

Init ==
    /\ wraps = 0
    /\ \/ open = FALSE /\ \/ type = "num" /\ source \in {Var("a"), NumLit(1)}
                          \/ type = "bool" /\ source = Var("p")
                          \/ type = "str" /\ source \in {Var("s"), StrLit("x")}
                          \/ type = "opt" /\ source = Var("o")
       \/ open = TRUE /\ type = "num" /\ source = Var("o")

Arithmetic ==
    /\ type = "num"
    /\ OnEitherSide({"+", "-", "*", "&", ">>>"}, Fresh("b"), "num")
Comparison ==
    \/ type = "num" /\ OnEitherSide({"<", "==="}, Fresh("b"), "bool")
    \/ type = "opt" /\ OnEitherSide({"==="}, Fresh("b"), "bool")
    \/ type = "bool" /\ OnEitherSide({"==="}, Fresh("q"), "bool")
    \/ type = "str" /\ OnEitherSide({"==="}, Fresh("t"), "bool")
    \/ type = "str" /\ \E name \in IF IsTypeof(source) THEN {"number", "undefined"} ELSE {"x"} :
                            OnEitherSide({"===", "!=="}, StrLit(name), "bool")
Logic ==
    \/ type = "bool" /\ OnEitherSide(Logical, Fresh("q"), "bool")
    \/ type = "num" /\ OnEitherSide({"||"}, Fresh("b"), "num")
Concatenation ==
    \/ type = "str" /\ \E other \in {Fresh("t"), Fresh("b"), StrLit("x")} : OnEitherSide({"+"}, other, "str")
    \/ type = "num" /\ OnEitherSide({"+"}, Fresh("t"), "str")
(* op e, for one operand.                                                  *)
Prefixed ==
    /\ UNCHANGED open
    /\ \E op \in {"-", "+", "!", "typeof"} :
           /\ op = "-" => type = "num"
           /\ op = "+" => type \in {"num", "str"}
           /\ op = "typeof" => type # "bool"
           /\ Becomes(Unary(op, Operand(source, 17)),
                      CASE op = "!" -> "bool" [] op = "typeof" -> "str" [] OTHER -> "num")
Accessed ==
    /\ UNCHANGED open
    /\ \/ type = "num" /\ Becomes(Index(source), "num")
       \/ type = "num" /\ Becomes(ToStringCall(Before(source)), "str")
       \/ type = "str" /\ Becomes(Length(Before(source)), "num")
       \/ type # "opt" /\ Becomes(Template(source), "str")
       \/ type = "num" /\ Becomes(AsNumber(Operand(source, 10)), "num")
       \/ type = "opt" /\ Becomes(Bin("*", NonNull(Before(source)), Fresh("b")), "num")
Defaulted ==
    \/ type = "opt" /\ open' = open /\ Becomes(Bin("??", LeftOf("??", source), Fresh("b")), "num")
    \/ type = "num" /\ open' = open /\ Becomes(Bin("??", Fresh("o"), RightOf("??", source)), "num")
    \/ type = "opt" /\ OnEitherSide({"??"}, Fresh("o"), "opt")
Chosen ==
    /\ UNCHANGED open
    /\ LET other == Fresh(CASE type = "num" -> "b" [] type = "bool" -> "q" [] type = "str" -> "t" [] type = "opt" -> "o")
       IN \/ Becomes(Cond(Fresh("q"), Operand(source, 2), other), type)
          \/ Becomes(Cond(Fresh("q"), other, Operand(source, 2)), type)
          \/ type \in {"num", "opt"} /\ Becomes(Cond(Fresh("q"), Operand(source, 2), Undefined), "opt")
Tested ==
    /\ UNCHANGED open
    /\ \/ Becomes(Cond(Operand(source, 3), Fresh("b"), NumLit(1)), "num")
       \/ type = "opt" /\ \E op \in {"===", "!=="} : Becomes(Bin(op, LeftOf(op, source), Undefined), "bool")
(* The condition on o whose branch the expression is.                      *)
Narrowed ==
    /\ open
    /\ open' = FALSE
    /\ LET o == Var("o")
           other == Fresh(CASE type = "num" -> "b" [] type = "bool" -> "q" [] type = "str" -> "t" [] type = "opt" -> "o")
           inner == Operand(source, 2)
       IN \/ Becomes(Cond(o, inner, other), type)
          \/ Becomes(Cond(Bin("!==", o, Undefined), inner, other), type)
          \/ Becomes(Cond(Bin("===", o, Undefined), other, inner), type)
          \/ Becomes(Cond(Bin("&&", Fresh("q"), o), inner, other), type)

Next == \/ Arithmetic \/ Comparison \/ Logic \/ Concatenation \/ Prefixed \/ Accessed \/ Defaulted \/ Chosen
        \/ Tested \/ Narrowed

Spec == Init /\ [][Next]_vars

-----------------------------------------------------------------------------
(* Where an expression stands: the type declared for the variable or for   *)
(* the function it is the value of, or no type at all.                     *)
Declared(t) == CASE t = "num" -> "f64" [] t = "bool" -> "bool" [] t = "str" -> "String" [] t = "opt" -> Option("f64")
Expectations == {Declared(type), Unknown} \cup (IF type = "num" THEN {Option("f64")} ELSE {})
(* What the expression is converted to.                                    *)
Trees == {[tree |-> ConvertExpr(source, x, Unknown), expected |-> x] : x \in Expectations}

(* What the printer leaves unparenthesised, rustc groups as the tree does, *)
(* for a value and for the end of a body alike, but in the six named       *)
(* places, and there it never does (generate_expr).                        *)
OperandsStayTogether ==
    ~open => \A t \in Trees : \A statement \in BOOLEAN :
        ReadsBack(t.tree, statement) = ~Ungrouped(t.tree, statement)

RustValue(x, v) == IF x \notin Optionals THEN v ELSE IF v = Undef THEN None ELSE Some(v)
Represents(w, v) == w = v \/ w = Some(v) \/ (w = None /\ v = Undef)

RECURSIVE Within(_)
(* The expressions in e, itself among them.                                *)
Within(e) ==
    {e} \cup UNION {Within(d) : d \in CASE e.k \in Literals \cup {"undefined", "var"} -> {}
                                        [] e.k = "index" -> {e.i}
                                        [] e.k = "bin" -> IF IsTypeofComparison(e) THEN {Compared(e)} ELSE {e.l, e.r}
                                        [] e.k = "cond" -> {e.c, e.t, e.f}
                                        [] OTHER -> {e.e}}
Reads(e) == {d.x : d \in {c \in Within(e) : c.k = "var"}} \cup (IF \E d \in Within(e) : d.k = "index" THEN {"v"} ELSE {})

(* Where the value is known to be lost: `o ? x : y` takes 0 for a number   *)
(* like any other, the test being if let; the type of d.toString() is not  *)
(* known, so a unary plus does not parse it and typeof calls it an object; *)
(* `typeof o === "number"` is never true of an Option.                     *)
ZeroTaken(of) ==
    \E d \in Within(source) : /\ d.k = "cond"
                              /\ \E c \in ToSet(Conjuncts(d.c)) : c.k = "var" /\ CanGenerateIfLet(c) /\ of[c.x] = Num(0)
Untyped(e) == \E d \in Within(e) : d.k # "undefined" /\ ResolveExpr(d) = Unknown
TypeUnknown == \E d \in Within(source) :
    \/ d.k = "unary" /\ d.op \in {"typeof", "+"} /\ Untyped(d.e)
    \/ IsTypeofComparison(d) /\ (Untyped(Compared(d)) \/ (IsOption(ResolveExpr(Compared(d))) /\ ComparedTo(d) # "undefined"))

Valuations == {of \in [Reads(source) -> UNION {ValuesOf[x] : x \in Reads(source)}] : \A x \in Reads(source) : of[x] \in ValuesOf[x]}

Compiles(t) ==
    LET ty == TypeOf(t.tree, RustTypeOf)
    IN ty # "error" /\ (t.expected # Unknown => Fits(ty, t.expected))

(* An expression that compiles where it stands has TypeScript's value      *)
(* there, for all values of its variables: an Option is what undefined     *)
(* stands for, a default is taken exactly for it, !x is false exactly for  *)
(* what is truthy, and nothing panics (convert_expr_with_expected).        *)
ExpressionsPreserve ==
    ~open => \A t \in Trees :
        Compiles(t) /\ ~TypeUnknown =>
            \A of \in Valuations :
                LET v == Means(source, of)
                IN v # Beyond /\ ~ZeroTaken(of) => Represents(Value(t.tree, [x \in DOMAIN of |-> RustValue(x, of[x])]), v)

(* Where rustc is known to reject the result.  Values under && and ||, and *)
(* as the test of a condition; o! keeps the Option; === of an Option and a *)
(* number; typeof gives &str; a number plus a string that is not expected  *)
(* to be one; Some(if .. { Some(x) } ..) for a condition that stands where *)
(* an Option is expected; branches "x" and undefined where nothing is      *)
(* expected; a tested o the conversion still takes for an Option.          *)
Truly(e) == ResolveExpr(e) = "bool"
IfLetVars(d) == {GuardVar(c) : c \in {c \in ToSet(Conjuncts(d.c)) : CanGenerateIfLet(c)}}
RECURSIVE Twice(_)
Twice(e) == CASE e.k = "paren" -> Twice(e.e)
              [] e.k = "cond" -> IF IsOption(ResolveExpr(e)) THEN Twice(e.t) \/ Twice(e.f) ELSE TRUE
              [] OTHER -> e.k = "bin" /\ e.op = "??" /\ ~IsOption(ResolveExpr(e))
Typed(e) == CASE e.k = "cond" -> {e.c, e.t, e.f} [] e.k = "unary" /\ e.op = "!" -> {PeekThrough(e.e)}
              [] e.k = "bin" /\ e.op = "??" -> {e.l, e.r} [] IsTypeofComparison(e) -> {Compared(e)} [] OTHER -> {}
RejectedPart(d) ==
    \/ d.k = "bin" /\ d.op \in Logical /\ ~(Truly(d.l) /\ Truly(d.r))
    \/ d.k = "bin" /\ d.op \in {"===", "!=="} /\ Undefined \notin {d.l, d.r}
       /\ IsOption(ResolveExpr(d.l)) # IsOption(ResolveExpr(d.r))
    \/ d.k = "bin" /\ d.op = "+" /\ ResolveExpr(d.l) # "String" /\ (ResolveExpr(d.r) = "String" \/ Untyped(d.r))
    \/ d.k = "bin" /\ d.op = "+" /\ d.r.k = "length" /\ Untyped(d.r)
    \/ d.k = "cond" /\ \E c \in ToSet(Conjuncts(d.c)) : ~Truly(c) /\ ~CanGenerateIfLet(c)
    \/ d.k = "cond" /\ \E x \in IfLetVars(d) : x \in UNION {Typed(c) : c \in Within(d.t) \cup Within(d.f)} \cup {d.t, d.f}
    \/ d.k = "unary" /\ (d.op = "typeof" \/ Untyped(d.e))
    \/ d.k = "nonNull"
Undeclared(d) == d.k = "cond" /\ (d.f = Undefined \/ "str" \in {d.t.k, d.f.k})
Rejected(expected) ==
    \/ \E d \in Within(source) : RejectedPart(d) \/ (Undeclared(d) /\ (expected = Unknown \/ d # source))
    \/ IsOption(expected) /\ Twice(source)

(* Everything else type-checks where it stands (convert_expr_with_expected *)
(* against the types the resolver recorded).                               *)
ExpressionsCompile == ~open => \A t \in Trees : Rejected(t.expected) \/ Compiles(t)

=============================================================================
