------------------------------- MODULE Unions -------------------------------
(* What happens to a parameter `x` of a union type or of type unknown,     *)
(* and to what the function returns.  The any-enum analysis      *)
(* (pipeline/any_enum_analyzer.rs, any_narrowing.rs) makes an enum of the  *)
(* checks on an unknown; the resolver (pipeline/narrowing_analyzer/        *)
(* guards.rs) decides what x is where it is used; the transformer          *)
(* (statements/control_flow.rs, expressions/patterns.rs) takes x out of    *)
(* its enum and, when all of the body is converted, puts what is returned  *)
(* into the enum of the return type (return_wrap/).  Each looks at the     *)
(* tests of the source on its own.                                         *)
(*                                                                         *)
(* A function is a list of the statements below.  It is resolved and       *)
(* converted, the Rust code is type-checked, and both are executed for     *)
(* every argument.  A value is the type it has at run time.                *)
EXTENDS Naturals, Sequences, FiniteSets

CONSTANT Functions   \* the functions considered

VARIABLES fn, phase, emitted
vars == <<fn, phase, emitted>>

(***************************** The source *********************************)

\* The types are string, number, boolean and Widget, which is a class.

Union(types) == [k |-> "union", of |-> types]
Unknown == [k |-> "unknown", of |-> {"string", "number", "Widget"}]
Void == [k |-> "void", of |-> {}]
String == [k |-> "string", of |-> {"string"}]

\* Tests.  The flag is a boolean that does not depend on x.
TypeOf(t) == [k |-> "typeof", t |-> t, eq |-> TRUE]       \* typeof x === "t"
TypeOfNot(t) == [k |-> "typeof", t |-> t, eq |-> FALSE]   \* typeof x !== "t"
IsWidget == [k |-> "instanceof", t |-> "Widget", eq |-> TRUE]
And(a, b) == [k |-> "and", a |-> a, b |-> b]
Or(a, b) == [k |-> "or", a |-> a, b |-> b]
Not(a) == [k |-> "not", a |-> a]
Flag == [k |-> "flag"]

\* What is returned.
Lit(t) == [k |-> "lit", t |-> t]
X == [k |-> "x"]
Cond(test, a, b) == [k |-> "cond", test |-> test, a |-> a, b |-> b]

\* Statements.  `belief` is what the resolver takes x for there.
Unresolved == [k |-> "none", of |-> {}]
Statement(k) == [k |-> k, belief |-> Unresolved]
Effect(n) == [k |-> "effect", n |-> n, belief |-> Unresolved]
Use(t) == [k |-> "use", t |-> t, belief |-> Unresolved]   \* makes sense for a t only
Return(e) == [k |-> "return", e |-> e, belief |-> Unresolved]
Leave == Statement("leave")                               \* return;
Break == Statement("break")
Block(body) == [k |-> "block", body |-> body, belief |-> Unresolved]
Switch(cases) == [k |-> "switch", cases |-> cases, belief |-> Unresolved]  \* on typeof x
Case(label, body) == [label |-> label, body |-> body]

Branch(test, then, alt, else) ==
    [k |-> "if", test |-> test, then |-> then, alt |-> alt, else |-> else, belief |-> Unresolved]
If(test, then) == Branch(test, then, "none", <<>>)
IfElse(test, then, else) == Branch(test, then, "block", else)
IfElseIf(test, then, next) == Branch(test, then, "if", <<next>>)

Fn(param, ret, body) == [param |-> param, ret |-> ret, body |-> body]

TypeName(v) == IF v = "Widget" THEN "object" ELSE v

RECURSIVE Holds(_, _, _)
Holds(test, v, flag) ==
    CASE test.k = "typeof" -> (TypeName(v) = test.t) = test.eq
      [] test.k = "instanceof" -> v = test.t
      [] test.k = "and" -> Holds(test.a, v, flag) /\ Holds(test.b, v, flag)
      [] test.k = "or" -> Holds(test.a, v, flag) \/ Holds(test.b, v, flag)
      [] test.k = "not" -> ~Holds(test.a, v, flag)
      [] test.k = "flag" -> flag

RECURSIVE ValueOf(_, _, _)
ValueOf(e, v, flag) ==
    CASE e.k = "lit" -> <<"lit", e.t>>
      [] e.k = "x" -> <<"arg", v>>
      [] e.k = "cond" -> ValueOf(IF Holds(e.test, v, flag) THEN e.a ELSE e.b, v, flag)

\* What a list does: its effects, how it ends, and whether x was at every
\* statement reached what the resolver takes it for.
Nothing == <<"nothing">>
Falls == [out |-> <<>>, end |-> "falls", value |-> Nothing, believed |-> TRUE]
Does(what) == [Falls EXCEPT !.out = <<what>>]
Ends(how, value) == [Falls EXCEPT !.end = how, !.value = value]
Then(first, rest) ==
    [rest EXCEPT !.out = first.out \o @, !.believed = first.believed /\ @]

\* The statements a switch runs: from the label that fits, or default, on.
From(cases, name) ==
    LET Fits(label) == {i \in DOMAIN cases : cases[i].label = label}
        starts == IF Fits(name) # {} THEN Fits(name) ELSE Fits("default")
        bodies[i \in 1..Len(cases) + 1] ==
            IF i > Len(cases) THEN <<>> ELSE cases[i].body \o bodies[i + 1]
    IN IF starts = {} THEN <<>> ELSE bodies[CHOOSE i \in starts : \A j \in starts : i <= j]

Unbroken(run) == IF run.end = "break" THEN [run EXCEPT !.end = "falls"] ELSE run

RECURSIVE Run(_, _, _), RunStatement(_, _, _)
RunStatement(s, v, flag) ==
    CASE s.k = "effect" -> Does(<<"effect", s.n>>)
      [] s.k = "use" -> Does(<<"use", s.t>>)
      [] s.k = "return" -> Ends("returns", ValueOf(s.e, v, flag))
      [] s.k = "leave" -> Ends("returns", Nothing)
      [] s.k = "break" -> Ends("break", Nothing)
      [] s.k = "block" -> Run(s.body, v, flag)
      [] s.k = "if" -> Run(IF Holds(s.test, v, flag) THEN s.then ELSE s.else, v, flag)
      [] s.k = "switch" -> Unbroken(Run(From(s.cases, TypeName(v)), v, flag))

Run(list, v, flag) ==
    IF list = <<>> THEN Falls
    ELSE LET s == Head(list)
             did == RunStatement(s, v, flag)
             first == [did EXCEPT !.believed = @ /\ v \in s.belief.of]
         IN IF first.end = "falls" THEN Then(first, Run(Tail(list), v, flag)) ELSE first

Outcome(run) == <<run.out, run.value>>

\* TypeScript accepts a function that uses and returns what it may.
WellTyped(f) ==
    \A v \in f.param.of, flag \in {TRUE, FALSE} :
        LET run == Run(f.body, v, flag)
        IN /\ \A i \in DOMAIN run.out : run.out[i][1] = "use" => run.out[i][2] = v
           /\ IF f.ret.k = "void" THEN run.value = Nothing
              ELSE run.value # Nothing /\ run.value[2] \in f.ret.of

(*********** The enum of an unknown: any_narrowing.rs, any_enum_analyzer.rs *)

\* The checks an expression makes of x, as far as they are looked for: a
\* negated test is not.
RECURSIVE ChecksOf(_)
ChecksOf(test) ==
    CASE test.k \in {"typeof", "instanceof"} -> {test.t}
      [] test.k \in {"and", "or"} -> ChecksOf(test.a) \cup ChecksOf(test.b)
      [] test.k = "cond" -> ChecksOf(test.test) \cup ChecksOf(test.a) \cup ChecksOf(test.b)
      [] OTHER -> {}

RECURSIVE Checks(_)
Checks(list) ==
    UNION {LET s == list[i]
           IN CASE s.k = "if" -> ChecksOf(s.test) \cup Checks(s.then) \cup Checks(s.else)
                [] s.k = "block" -> Checks(s.body)
                [] s.k = "return" -> ChecksOf(s.e)
                [] s.k = "switch" ->
                     UNION {({s.cases[c].label} \ {"default"}) \cup Checks(s.cases[c].body)
                              : c \in DOMAIN s.cases}
                [] OTHER -> {}
           : i \in DOMAIN list}

Other == "Other"
Checkable == {"string", "number", "boolean", "object", "function", "Widget"}

\* One variant for each check that has one, and Other for the rest.
AnyVariants(checks) == (checks \cap Checkable) \cup {Other}

\* The variants of the enum x has in the shared registry: those of a union in
\* a signature, or those made for an unknown that is checked at all.
Variants(f) ==
    CASE f.param.k = "union" -> f.param.of
      [] f.param.k = "unknown" /\ Checks(f.body) # {} -> AnyVariants(Checks(f.body))
      [] OTHER -> {}

(*********** The type resolver: guards.rs, visitors.rs **********************)

\* The resolver takes x for what it is declared, for one type, or for the
\* union of what is left.
Declared(param) == [k |-> "declared", of |-> param.of]
OneOf(types) ==
    IF Cardinality(types) = 1 THEN [k |-> "one", of |-> types] ELSE [k |-> "sub", of |-> types]

Latest(belief, new) == IF new = Unresolved THEN belief ELSE new

\* What a test says of x.  The types string, number and boolean are taken from
\* the test alone, an object is looked up among the members of the union.
Positive(test, param) ==
    CASE test.k = "typeof" /\ test.t \in {"string", "number", "boolean"} -> OneOf({test.t})
      [] test.k = "instanceof" -> OneOf({test.t})
      [] test.k = "typeof" /\ test.t = "object" /\ param.k = "union" /\ "Widget" \in param.of ->
           OneOf({"Widget"})
      [] OTHER -> Unresolved

\* What is left of the declared union.  The resolver does not know the enums
\* made for unknowns.
Complement(test, param) ==
    LET types == Positive(test, param).of
        left == param.of \ types
    IN IF param.k # "union" \/ types = {} \/ ~(types \subseteq param.of) \/ left = {}
       THEN Unresolved ELSE OneOf(left)

RECURSIVE WhenTrue(_, _)
WhenTrue(test, param) ==
    CASE test.k \in {"typeof", "instanceof"} ->
           IF test.eq THEN Positive(test, param) ELSE Complement(test, param)
      [] test.k = "and" -> Latest(WhenTrue(test.a, param), WhenTrue(test.b, param))
      [] OTHER -> Unresolved

\* The same for the branch that does not hold and for what follows a branch
\* that does not come back.
WhenFalse(test, param) ==
    IF test.k \notin {"typeof", "instanceof"} THEN Unresolved
    ELSE IF test.eq THEN Complement(test, param) ELSE Positive(test, param)

RECURSIVE AlwaysExits(_)
AlwaysExits(list) ==
    /\ list # <<>>
    /\ LET s == list[Len(list)]
       IN \/ s.k \in {"return", "leave", "break"}
          \/ s.k = "block" /\ AlwaysExits(s.body)
          \/ s.k = "if" /\ AlwaysExits(s.then) /\ AlwaysExits(s.else)

\* Mutation: an exit of either branch counts.
EitherExits(s) == AlwaysExits(s.then) \/ AlwaysExits(s.else)

ExitsWhenTrue(s) == AlwaysExits(s.then) /\ ~AlwaysExits(s.else)

\* What the rest of the block that holds s takes x for, because of s.  The
\* `if` after an else and the statements of a case have no block of their own:
\* what they leave is for the rest of the block around.
RECURSIVE Leaves(_, _)
Leaves(s, param) ==
    LET own == IF s.k = "if" /\ ExitsWhenTrue(s) THEN WhenFalse(s.test, param) ELSE Unresolved
        within ==
            CASE s.k = "if" /\ s.alt = "if" -> s.else
              [] s.k = "switch" -> From([c \in DOMAIN s.cases |-> Case("all", s.cases[c].body)], "all")
              [] OTHER -> <<>>
        last[i \in 0..Len(within)] ==
            IF i = 0 THEN own ELSE Latest(last[i - 1], Leaves(within[i], param))
    IN last[Len(within)]

RECURSIVE Resolved(_, _, _), CasesResolved(_, _, _)
Resolved(list, belief, param) ==
    IF list = <<>> THEN <<>>
    ELSE LET s == Head(list)
             resolved ==
                CASE s.k = "block" -> [s EXCEPT !.body = Resolved(@, belief, param)]
                  [] s.k = "if" ->
                       [s EXCEPT !.then = Resolved(@, Latest(belief, WhenTrue(s.test, param)), param),
                                 !.else = Resolved(@, Latest(belief, WhenFalse(s.test, param)), param)]
                  [] s.k = "switch" -> [s EXCEPT !.cases = CasesResolved(@, belief, param)]
                  [] OTHER -> s
         IN <<[resolved EXCEPT !.belief = belief]>>
              \o Resolved(Tail(list), Latest(belief, Leaves(s, param)), param)

CasesResolved(cases, belief, param) ==
    IF cases = <<>> THEN <<>>
    ELSE LET c == Head(cases)
         IN <<[c EXCEPT !.body = Resolved(@, belief, param)]>>
              \o CasesResolved(Tail(cases), Latest(belief, Leaves(Switch(<<c>>), param)), param)


(*********** The transformer: control_flow.rs, patterns.rs, switch.rs *******)

\* The enum variant a test of x is about, while x is of its enum.
NoVariant == "none"
Variant(test, belief, variants) ==
    IF test.k \in {"typeof", "instanceof"} /\ belief.k = "declared" /\ test.t \in variants
    THEN test.t ELSE NoVariant

\* Any other test of x is decided by what x is taken for.  An enum or a class
\* is an object; an unknown without an enum is nothing.
Constant(test, belief, variants) ==
    CASE test.k = "instanceof" -> belief = OneOf({test.t})
      [] belief.k = "one" -> (\A t \in belief.of : TypeName(t) = test.t) = test.eq
      [] OTHER -> (test.t = "object" /\ (belief.k = "sub" \/ variants # {})) = test.eq

Const(v) == [k |-> "const", v |-> v]
Is(variant, eq) == [k |-> "is", v |-> variant, eq |-> eq]

\* A test as a Rust condition.
RECURSIVE Condition(_, _, _)
Condition(test, belief, variants) ==
    CASE test.k = "flag" -> test
      [] test.k \in {"and", "or"} ->
           [test EXCEPT !.a = Condition(@, belief, variants), !.b = Condition(@, belief, variants)]
      [] test.k = "not" ->
           LET inner == Condition(test.a, belief, variants)
           IN IF inner.k = "const" THEN Const(~inner.v) ELSE Not(inner)
      [] Variant(test, belief, variants) # NoVariant -> Is(test.t, test.eq)
      [] OTHER -> Const(Constant(test, belief, variants))

RECURSIVE Conjuncts(_)
Conjuncts(test) ==
    IF test.k = "and" THEN Conjuncts(test.a) \o Conjuncts(test.b) ELSE <<test>>

Bindings(test, belief, variants) ==
    LET Binds(t) == Variant(t, belief, variants) # NoVariant
    IN SelectSeq(Conjuncts(test), Binds)

\* The conjuncts that are left to test, as one condition; <<>> for none.
Remaining(test, belief, variants) ==
    LET Left(t) == Variant(t, belief, variants) = NoVariant
        left == SelectSeq(Conjuncts(test), Left)
        joined[i \in 1..Len(left)] ==
            LET c == Condition(left[i], belief, variants)
            IN IF i = 1 THEN c ELSE And(joined[i - 1], c)
    IN IF left = <<>> THEN <<>> ELSE <<joined[Len(left)]>>

\* The only other variant, besides the one for the rest.
OtherVariants(variant, variants) == variants \ {variant, Other}

IfLet(variant, then, else) == [k |-> "iflet", v |-> variant, then |-> then, else |-> else]
Test(cond, then, else) == [k |-> "test", cond |-> cond, then |-> then, else |-> else]
Arm(variant, body) == [v |-> variant, body |-> body]
Match(arms) == [k |-> "match", arms |-> arms, label |-> FALSE]
\* let x = match x { variant(x) => { body }, rest(x) => x };
LetMatch(variant, body, rest) == [k |-> "letmatch", v |-> variant, body |-> body, rest |-> rest]

\* Mutation: any body is taken to leave.
AnyBody(code) == code # <<>>

RECURSIVE CodeExits(_)
CodeExits(code) ==
    /\ code # <<>>
    /\ LET s == code[Len(code)]
       IN \/ s.k \in {"return", "leave", "break"}
          \/ s.k \in {"test", "iflet"} /\ CodeExits(s.then) /\ CodeExits(s.else)
          \/ s.k = "match" /\ ~s.label /\ \A i \in DOMAIN s.arms : CodeExits(s.arms[i].body)

Swaps(test) == test.k = "typeof" /\ ~test.eq

\* Mutation: the bodies are not exchanged.
GuardedIfUnswapped(test, then, else) == IfLet(test.t, then, else)

GuardedIf(test, then, else) ==
    IF Swaps(test) THEN IfLet(test.t, else, then) ELSE IfLet(test.t, then, else)

\* An `if` on one test that takes x out of its enum.
NarrowingIf(s, then, else, variants) ==
    LET test == s.test
        others == OtherVariants(test.t, variants)
        rest == CHOOSE v \in others : TRUE
        first == IF Swaps(test) THEN else ELSE then
        second == IF Swaps(test) THEN then ELSE else
    IN IF Cardinality(others) = 1 /\ s.alt = "none" /\ CodeExits(then)
       THEN LetMatch(test.t, first, rest)
       ELSE IF Cardinality(others) = 1 /\ s.alt # "none"
       THEN Match(<<Arm(test.t, first), Arm(rest, second)>>)
       ELSE GuardedIf(test, then, else)

ConvertIf(s, then, else, variants) ==
    LET tests == Bindings(s.test, s.belief, variants)
        remaining == Remaining(s.test, s.belief, variants)
        inner == IF remaining = <<>> THEN then ELSE <<Test(remaining[1], then, else)>>
        nested[i \in 1..Len(tests) + 1] ==
            IF i > Len(tests) THEN inner ELSE <<GuardedIf(tests[i], nested[i + 1], else)>>
        cond == Condition(s.test, s.belief, variants)
    IN CASE Len(tests) = 1 /\ remaining = <<>> -> <<NarrowingIf(s, then, else, variants)>>
         [] tests # <<>> -> nested[1]
         [] cond.k = "const" -> IF cond.v THEN then ELSE else
         [] OTHER -> <<Test(cond, then, else)>>

\* What is returned.  A literal is put into the variant of the union that is
\* returned, x is left as it is.
Ctor(variant, arg) == [k |-> "ctor", v |-> variant, arg |-> arg]

RECURSIVE ConvertExpr(_, _, _, _)
ConvertExpr(e, belief, variants, ret) ==
    CASE e.k = "lit" -> IF ret.k = "union" THEN Ctor(e.t, e) ELSE e
      [] e.k = "x" -> e
      [] e.k = "cond" ->
           LET a == ConvertExpr(e.a, belief, variants, ret)
               b == ConvertExpr(e.b, belief, variants, ret)
               tests == Bindings(e.test, belief, variants)
               remaining == Remaining(e.test, belief, variants)
               nested[i \in 1..Len(tests) + 1] ==
                   CASE i <= Len(tests) -> GuardedIf(tests[i], nested[i + 1], b)
                     [] remaining = <<>> -> a
                     [] OTHER -> Test(remaining[1], a, b)
           IN nested[1]

\* The cases of a switch on typeof x become arms.  Labels without a body
\* share the next one's; the arm for the default goes last.
Labels(cases) == {cases[i].label : i \in DOMAIN cases} \ {"default"}

SwitchBinds(s, variants) == s.belief.k = "declared" /\ variants # {} /\ Labels(s.cases) \subseteq variants

\* The case whose body a label gets: its own, or that of the first case after
\* it with a body, or the default.  0 for none.
SharedCase(cases, i, defaults) ==
    LET with == {j \in i..Len(cases) : cases[j].body # <<>> \/ (defaults /\ cases[j].label = "default")}
    IN IF with = {} THEN 0 ELSE CHOOSE j \in with : \A l \in with : j <= l

\* The default goes last.
InOrder(arms) ==
    LET Named(arm) == arm.v \notin {"default", "dropped"}
        IsDefault(arm) == arm.v = "default"
    IN SelectSeq(arms, Named) \o SelectSeq(arms, IsDefault)

SwitchArms(cases, bodies) ==
    InOrder([i \in DOMAIN cases |->
        LET j == SharedCase(cases, i, TRUE) IN Arm(cases[i].label, IF j = 0 THEN <<>> ELSE bodies[j])])

\* A switch on what typeof x is taken to be: a constant, except for an unknown
\* without an enum.  A label without a body gets the next body there is, and a
\* default without one is dropped.
TypeofAs(belief, variants) ==
    CASE belief.k = "one" -> TypeName(CHOOSE t \in belief.of : TRUE)
      [] belief.k = "sub" \/ variants # {} -> "object"
      [] OTHER -> "any"

ValueArms(cases, bodies) ==
    InOrder([i \in DOMAIN cases |->
        LET j == SharedCase(cases, i, FALSE)
        IN IF j = 0 \/ (cases[i].label = "default" /\ i # j) THEN Arm("dropped", <<>>)
           ELSE Arm(cases[i].label, bodies[j])])

Unended(body) == LET Kept(s) == s.k # "break" IN SelectSeq(body, Kept)

RECURSIVE Convert(_, _, _), ConvertCases(_, _, _)
Convert(list, variants, ret) ==
    IF list = <<>> THEN <<>>
    ELSE
    LET s == Head(list)
        code ==
            CASE s.k = "return" ->
                   <<[k |-> "return", e |-> ConvertExpr(s.e, s.belief, variants, ret)]>>
              [] s.k = "block" -> Convert(s.body, variants, ret)
              [] s.k = "if" ->
                   ConvertIf(s, Convert(s.then, variants, ret), Convert(s.else, variants, ret), variants)
              [] s.k = "switch" ->
                   LET bodies == ConvertCases(s.cases, variants, ret)
                   IN IF SwitchBinds(s, variants)
                      THEN <<[k |-> "match", label |-> TRUE, arms |-> SwitchArms(s.cases, bodies)]>>
                      ELSE <<[k |-> "valuematch", on |-> TypeofAs(s.belief, variants),
                              arms |-> ValueArms(s.cases, bodies)]>>
              [] OTHER -> <<s>>
    IN code \o Convert(Tail(list), variants, ret)

ConvertCases(cases, variants, ret) ==
    IF cases = <<>> THEN <<>>
    ELSE <<Convert(Unended(cases[1].body), variants, ret)>>
           \o ConvertCases(Tail(cases), variants, ret)

(*********** What is returned, into its enum: return_wrap/, arrow_fns.rs ****)

\* What the resolver takes each returned leaf for, in the order of the source.
RECURSIVE LeavesOf(_, _), ReturnLeaves(_)
LeavesOf(e, belief) ==
    CASE e.k = "lit" -> <<OneOf({e.t})>>
      [] e.k = "x" -> <<belief>>
      [] e.k = "cond" -> LeavesOf(e.a, belief) \o LeavesOf(e.b, belief)

ReturnLeaves(list) ==
    IF list = <<>> THEN <<>>
    ELSE LET s == Head(list)
             own == CASE s.k = "return" -> LeavesOf(s.e, s.belief)
                      [] s.k = "if" -> ReturnLeaves(s.then) \o ReturnLeaves(s.else)
                      [] s.k = "block" -> ReturnLeaves(s.body)
                      [] s.k = "switch" -> ReturnLeaves(From([c \in DOMAIN s.cases |->
                                                Case("all", s.cases[c].body)], "all"))
                      [] OTHER -> <<>>
         IN own \o ReturnLeaves(Tail(list))

\* The leaves of the Rust code take them one after the other.  What a walk
\* returns: the code, the leaves that are left, and whether it gave up.
Wrapped(code, leaves, refused) == [code |-> code, leaves |-> leaves, refused |-> refused]

WrapLeaf(e, leaf, types) ==
    CASE e.k = "ctor" -> Wrapped(e, <<>>, FALSE)
      [] leaf.k = "one" /\ leaf.of \subseteq types -> Wrapped(Ctor(CHOOSE t \in leaf.of : TRUE, e), <<>>, FALSE)
      [] OTHER -> Wrapped(e, <<>>, TRUE)

RECURSIVE WrapExpr(_, _, _)
WrapExpr(e, leaves, types) ==
    IF e.k \in {"iflet", "test"}
    THEN LET a == WrapExpr(e.then, leaves, types)
             b == WrapExpr(e.else, a.leaves, types)
         IN Wrapped([e EXCEPT !.then = a.code, !.else = b.code], b.leaves, a.refused \/ b.refused)
    ELSE IF leaves = <<>> THEN Wrapped(e, <<>>, TRUE)
    ELSE [WrapLeaf(e, Head(leaves), types) EXCEPT !.leaves = Tail(leaves)]

RECURSIVE Wrap(_, _, _), WrapArms(_, _, _)
Wrap(code, leaves, types) ==
    IF code = <<>> THEN Wrapped(<<>>, leaves, FALSE)
    ELSE
    LET s == Head(code)
        then == Wrap(s.then, leaves, types)
        else == Wrap(s.else, then.leaves, types)
        arms == WrapArms(s.arms, leaves, types)
        e == WrapExpr(s.e, leaves, types)
        own == CASE s.k = "return" -> Wrapped([s EXCEPT !.e = e.code], e.leaves, e.refused)
                 [] s.k \in {"test", "iflet"} ->
                      Wrapped([s EXCEPT !.then = then.code, !.else = else.code], else.leaves,
                              then.refused \/ else.refused)
                 [] s.k \in {"match", "valuematch"} ->
                      Wrapped([s EXCEPT !.arms = arms.code], arms.leaves, arms.refused)
                 [] OTHER -> Wrapped(s, leaves, FALSE)
        rest == Wrap(Tail(code), own.leaves, types)
    IN Wrapped(<<own.code>> \o rest.code, rest.leaves, own.refused \/ rest.refused)

WrapArms(arms, leaves, types) ==
    IF arms = <<>> THEN Wrapped(<<>>, leaves, FALSE)
    ELSE LET own == Wrap(arms[1].body, leaves, types)
             rest == WrapArms(Tail(arms), own.leaves, types)
         IN Wrapped(<<Arm(arms[1].v, own.code)>> \o rest.code, rest.leaves, own.refused \/ rest.refused)

\* The resolved function as Rust code, or refused.
Converted(f, variants) ==
    LET code == Convert(f.body, variants, f.ret)
    IN IF f.ret.k = "union" THEN Wrap(code, ReturnLeaves(f.body), f.ret.of)
       ELSE Wrapped(code, <<>>, FALSE)

(***************************** Rust ****************************************)

\* A string and a Widget are moved when they are bound or returned.
Copied == {"number", "boolean"}

\* The type of an expression, and whether a condition is one, when x has the
\* type `ty`: "enum", a variant for its payload, or "moved".
RECURSIVE WellFormed(_, _), TypeOfExpr(_, _)
WellFormed(cond, ty) ==
    CASE cond.k = "is" -> ty = "enum"
      [] cond.k \in {"and", "or"} -> WellFormed(cond.a, ty) /\ WellFormed(cond.b, ty)
      [] cond.k = "not" -> WellFormed(cond.a, ty)
      [] OTHER -> TRUE

TypeOfExpr(e, ty) ==
    CASE e.k = "lit" -> e.t
      [] e.k = "x" -> ty
      [] e.k = "ctor" -> IF TypeOfExpr(e.arg, ty) = e.v THEN "union" ELSE "error"
      [] e.k \in {"iflet", "test"} ->
           LET a == TypeOfExpr(e.then, IF e.k = "iflet" THEN e.v ELSE ty)
               b == TypeOfExpr(e.else, ty)
               fits == IF e.k = "iflet" THEN ty = "enum" ELSE WellFormed(e.cond, ty)
           IN IF fits /\ a = b THEN a ELSE "error"

\* A list, once checked: whether it compiles, whether it comes to its end, and
\* whether the x it starts with is moved then.
Checked(ok, falls, moved) == [ok |-> ok, falls |-> falls, moved |-> moved]

\* Whether a break in an arm leaves the match.
RECURSIVE Breaks(_)
Breaks(code) ==
    \E i \in DOMAIN code :
        LET s == code[i]
        IN \/ s.k = "break"
           \/ s.k \in {"test", "iflet"} /\ (Breaks(s.then) \/ Breaks(s.else))
           \/ s.k = "match" /\ ~s.label /\ \E a \in DOMAIN s.arms : Breaks(s.arms[a].body)

RECURSIVE Check(_, _, _, _, _), CheckStatement(_, _, _, _, _)
Check(code, ty, variants, ret, inSwitch) ==
    IF code = <<>> THEN Checked(TRUE, TRUE, FALSE)
    ELSE
    LET s == Head(code)
        first == CheckStatement(s, ty, variants, ret, inSwitch)
        shadowed == s.k = "letmatch"
        now == IF shadowed THEN s.rest ELSE IF first.moved THEN "moved" ELSE ty
        rest == Check(Tail(code), now, variants, ret, inSwitch)
    IN Checked(first.ok /\ rest.ok, first.falls /\ rest.falls,
               IF shadowed THEN first.moved ELSE first.moved \/ rest.moved)

CheckStatement(s, ty, variants, ret, inSwitch) ==
    CASE s.k = "effect" -> Checked(TRUE, TRUE, FALSE)
      [] s.k = "use" -> Checked(ty = s.t, TRUE, FALSE)
      [] s.k = "leave" -> Checked(ret = "void", FALSE, FALSE)
      [] s.k = "return" -> Checked(TypeOfExpr(s.e, ty) = ret, FALSE, FALSE)
      [] s.k = "break" -> Checked(inSwitch, FALSE, FALSE)
      [] s.k = "test" ->
           LET a == Check(s.then, ty, variants, ret, inSwitch)
               b == Check(s.else, ty, variants, ret, inSwitch)
           IN Checked(a.ok /\ b.ok /\ WellFormed(s.cond, ty), a.falls \/ b.falls,
                      (a.falls /\ a.moved) \/ (b.falls /\ b.moved))
      [] s.k = "iflet" ->
           LET a == Check(s.then, s.v, variants, ret, inSwitch)
               b == Check(s.else, ty, variants, ret, inSwitch)
           IN Checked(a.ok /\ b.ok /\ ty = "enum", a.falls \/ b.falls,
                      (a.falls /\ s.v \notin Copied) \/ (b.falls /\ b.moved))
      [] s.k = "letmatch" ->
           LET a == Check(s.body, s.v, variants, ret, FALSE)
           IN Checked(a.ok /\ ~a.falls /\ ty = "enum" /\ variants \subseteq {s.v, s.rest}, TRUE,
                      s.rest \notin Copied)
      [] s.k = "match" ->
           LET arm == [i \in DOMAIN s.arms |->
                         Check(s.arms[i].body, IF s.arms[i].v = "default" THEN ty ELSE s.arms[i].v,
                               variants, ret, inSwitch \/ s.label)]
               named == {s.arms[i].v : i \in DOMAIN s.arms}
               Goes(i) == arm[i].falls \/ (s.label /\ Breaks(s.arms[i].body))
           IN Checked(ty = "enum" /\ ("default" \in named \/ variants \subseteq named)
                        /\ \A i \in DOMAIN arm : arm[i].ok,
                      \E i \in DOMAIN arm : Goes(i),
                      \E i \in DOMAIN arm :
                         Goes(i) /\ IF s.arms[i].v = "default" THEN arm[i].moved ELSE s.arms[i].v \notin Copied)
      [] s.k = "valuematch" ->
           LET arm == [i \in DOMAIN s.arms |-> Check(s.arms[i].body, ty, variants, ret, TRUE)]
               Goes(i) == arm[i].falls \/ Breaks(s.arms[i].body)
           IN Checked((\E i \in DOMAIN arm : s.arms[i].v = "default") /\ \A i \in DOMAIN arm : arm[i].ok,
                      \E i \in DOMAIN arm : Goes(i), \E i \in DOMAIN arm : Goes(i) /\ arm[i].moved)

Compiles(f, code, variants) ==
    LET ret == CASE f.ret.k = "union" -> "union" [] f.ret.k = "void" -> "void" [] OTHER -> "string"
        checked == Check(code, IF variants = {} THEN "Any" ELSE "enum", variants, ret, FALSE)
    IN checked.ok /\ (ret = "void" \/ ~checked.falls)

\* The variant the caller puts a value into.
VariantOf(v, variants) ==
    CASE v \in variants -> v
      [] v \notin variants /\ TypeName(v) \in variants -> TypeName(v)
      [] OTHER -> Other

RECURSIVE RustHolds(_, _, _)
RustHolds(cond, variant, flag) ==
    CASE cond.k = "const" -> cond.v
      [] cond.k = "is" -> (variant = cond.v) = cond.eq
      [] cond.k = "and" -> RustHolds(cond.a, variant, flag) /\ RustHolds(cond.b, variant, flag)
      [] cond.k = "or" -> RustHolds(cond.a, variant, flag) \/ RustHolds(cond.b, variant, flag)
      [] cond.k = "not" -> ~RustHolds(cond.a, variant, flag)
      [] cond.k = "flag" -> flag

RECURSIVE RustValue(_, _, _, _)
RustValue(e, v, variant, flag) ==
    CASE e.k = "lit" -> <<"lit", e.t>>
      [] e.k = "x" -> <<"arg", v>>
      [] e.k = "ctor" -> RustValue(e.arg, v, variant, flag)
      [] e.k = "iflet" -> RustValue(IF variant = e.v THEN e.then ELSE e.else, v, variant, flag)
      [] e.k = "test" -> RustValue(IF RustHolds(e.cond, variant, flag) THEN e.then ELSE e.else, v, variant, flag)

\* The body of the arm that fits, the default's for any other; without one
\* the code does not compile.
Fitting(arms, name) ==
    LET Fit(label) == {i \in DOMAIN arms : arms[i].v = label}
        fit == IF Fit(name) # {} THEN Fit(name) ELSE Fit("default")
    IN arms[CHOOSE i \in fit : \A j \in fit : i <= j].body

RECURSIVE Execute(_, _, _, _)
Execute(code, v, variant, flag) ==
    IF code = <<>> THEN Falls
    ELSE
    LET s == Head(code)
        first ==
            CASE s.k = "effect" -> Does(<<"effect", s.n>>)
              [] s.k = "use" -> Does(<<"use", s.t>>)
              [] s.k = "return" -> Ends("returns", RustValue(s.e, v, variant, flag))
              [] s.k = "leave" -> Ends("returns", Nothing)
              [] s.k = "break" -> Ends("break", Nothing)
              [] s.k = "test" ->
                   Execute(IF RustHolds(s.cond, variant, flag) THEN s.then ELSE s.else, v, variant, flag)
              [] s.k = "iflet" -> Execute(IF variant = s.v THEN s.then ELSE s.else, v, variant, flag)
              [] s.k = "letmatch" -> Execute(IF variant = s.v THEN s.body ELSE <<>>, v, variant, flag)
              [] s.k = "match" ->
                   LET did == Execute(Fitting(s.arms, variant), v, variant, flag)
                   IN IF s.label THEN Unbroken(did) ELSE did
              [] s.k = "valuematch" ->
                   Unbroken(Execute(Fitting(s.arms, IF s.on = "any" THEN TypeName(v) ELSE s.on),
                                    v, variant, flag))
    IN IF first.end = "falls" THEN Then(first, Execute(Tail(code), v, variant, flag)) ELSE first

(***************************** Steps **************************************)

NotYet == Wrapped(<<>>, <<>>, FALSE)

Init ==
    /\ fn \in Functions
    /\ WellTyped(fn)
    /\ phase = "read"
    /\ emitted = NotYet

\* The resolver walks the body.
Resolve ==
    /\ phase = "read"
    /\ fn' = [fn EXCEPT !.body = Resolved(@, Declared(fn.param), fn.param)]
    /\ phase' = "resolved"
    /\ UNCHANGED emitted

\* The transformer converts what it left.
Emit ==
    /\ phase = "resolved"
    /\ emitted' = Converted(fn, Variants(fn))
    /\ phase' = "emitted"
    /\ UNCHANGED fn

Next == Resolve \/ Emit
Spec == Init /\ [][Next]_vars

(***************************** Properties *********************************)

Flags == {TRUE, FALSE}
Arguments == fn.param.of

\* What an `if` in a case or after an else leaves for the block around is not
\* what every way there leaves.
RECURSIVE Leaks(_, _)
Leaks(list, param) ==
    \E i \in DOMAIN list :
        LET s == list[i]
        IN CASE s.k = "if" ->
                  \/ s.alt = "if" /\ ~AlwaysExits(s.then) /\ Leaves(s.else[1], param) # Unresolved
                  \/ Leaks(s.then, param) \/ Leaks(s.else, param)
             [] s.k = "block" -> Leaks(s.body, param)
             [] s.k = "switch" ->
                  \E c \in DOMAIN s.cases :
                      \/ \E j \in DOMAIN s.cases[c].body : Leaves(s.cases[c].body[j], param) # Unresolved
                      \/ Leaks(s.cases[c].body, param)
             [] OTHER -> FALSE

\* What the resolver takes x for is what x is, wherever x is used, however the
\* tests, the exits and the blocks around it are arranged
\* (detect_narrowing_guard, detect_early_return_narrowing, visit_if_stmt).
BeliefsSound ==
    phase = "resolved" /\ ~Leaks(fn.body, fn.param) =>
        \A v \in Arguments, flag \in Flags : Run(fn.body, v, flag).believed

\* A test the transformer decides, though x may be either.
RECURSIVE GuessedIn(_, _, _)
GuessedIn(test, belief, variants) ==
    CASE test.k = "flag" -> FALSE
      [] test.k = "not" -> GuessedIn(test.a, belief, variants)
      [] test.k \in {"and", "or"} ->
           GuessedIn(test.a, belief, variants) \/ GuessedIn(test.b, belief, variants)
      [] OTHER ->
           /\ Variant(test, belief, variants) = NoVariant
           /\ \E v \in belief.of : Holds(test, v, FALSE) # Constant(test, belief, variants)

RECURSIVE GuessedInExpr(_, _, _), Guesses(_, _)
GuessedInExpr(e, belief, variants) ==
    /\ e.k = "cond"
    /\ \/ GuessedIn(e.test, belief, variants)
       \/ GuessedInExpr(e.a, belief, variants)
       \/ GuessedInExpr(e.b, belief, variants)

Guesses(list, variants) ==
    \E i \in DOMAIN list :
        LET s == list[i]
        IN CASE s.k = "if" ->
                  \/ GuessedIn(s.test, s.belief, variants)
                  \/ Guesses(s.then, variants) \/ Guesses(s.else, variants)
             [] s.k = "block" -> Guesses(s.body, variants)
             [] s.k = "return" -> GuessedInExpr(s.e, s.belief, variants)
             [] s.k = "switch" ->
                  \/ /\ ~SwitchBinds(s, variants)
                     /\ \E v \in s.belief.of : TypeofAs(s.belief, variants) \notin {TypeName(v), "any"}
                  \/ \E c \in DOMAIN s.cases :
                        \/ Guesses(s.cases[c].body, variants)
                        \/ s.cases[c].label = "default" /\ s.cases[c].body = <<>> /\ c < Len(s.cases)
             [] OTHER -> FALSE

\* An unknown that is tested for an object and for a class: a value fits two
\* variants.
Overlapping(variants) == {"object", "Widget"} \subseteq variants

\* The Rust code that compiles does what the source does for every argument:
\* the variant a test picks, the body it is given, the order of the arms and
\* the variant a result goes into agree with what TypeScript does
\* (convert_if_stmt, try_convert_typeof_switch, wrap_body_returns).
UnionsBehave ==
    /\ phase = "emitted" /\ ~emitted.refused
    /\ Compiles(fn, emitted.code, Variants(fn))
    /\ ~Leaks(fn.body, fn.param) /\ ~Guesses(fn.body, Variants(fn))
    /\ ~Overlapping(Variants(fn))
    =>
        \A v \in Arguments, flag \in Flags :
            Outcome(Execute(emitted.code, v, VariantOf(v, Variants(fn)), flag)) = Outcome(Run(fn.body, v, flag))

\* One test, which holds for one of the two types x may have.  What comes
\* after it does not need x again, or comes after an exit.
Straight(list) == \A i \in DOMAIN list : list[i].k \in {"effect", "use", "leave"}

Plain(f) ==
    /\ f.param.k = "union" /\ Cardinality(f.param.of) = 2
    /\ f.ret = Void
    /\ Len(f.body) = 2
    /\ LET s == f.body[1]
       IN /\ s.k = "if" /\ s.alt # "if"
          /\ s.test.k \in {"typeof", "instanceof"} /\ s.test.t \in f.param.of
          /\ s.test.eq \/ s.alt = "block"
          /\ Straight(s.then) /\ Straight(s.else)
          /\ f.body[2].k = "use" => s.alt = "none"

\* One test on a union of two is converted into code that compiles, whatever
\* the bodies do and whichever of them leaves (try_generate_narrowing_match,
\* resolve_complement_pattern).
UnionsCompile ==
    phase = "emitted" /\ Plain(fn) => Compiles(fn, emitted.code, Variants(fn))
=============================================================================
