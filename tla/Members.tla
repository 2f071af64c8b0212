------------------------------ MODULE Members ------------------------------
(***************************************************************************)
(* Reads and writes of a member: x.m, x.m = e, x.m += e, x.m++, x.m ??= e  *)
(* and so on, where m is a field or has accessors.  TypeScript evaluates   *)
(* the receiver once, then reads, then the right-hand side, then writes.   *)
(* The transformer makes method calls, blocks and conditionals of it.      *)
(* A step converts one statement and runs it in both languages.            *)
(***************************************************************************)
EXTENDS Integers, Sequences

CONSTANTS
    Declarations,  \* what the class may declare for m
    Statements,    \* what a body may consist of
    Values,        \* what m may hold in the beginning
    MaxStatements  \* bound on the length of a body

Null == -1

(* The objects: the variable x, what x.inner, x.peer() and make() return,  *)
(* an element of an array and the class itself.                            *)
Objects == {"x", "inner", "peer", "made", "element", "class"}

VARIABLES
    decl,    \* [kind, type, loud, clamp]: the declaration of m
    source,  \* [mem, log]: objects and effects of the last statement in TypeScript
    target,  \* the same in Rust
    gap,     \* what it is known to lose
    length   \* statements so far

vars == <<decl, source, target, gap, length>>

-----------------------------------------------------------------------------
(* Syntax of the source: receiver, operator, right-hand side and whether   *)
(* the value is used.                                                      *)
Lit(v) == [k |-> "lit", v |-> v]
CallRhs == [k |-> "call"]
Nested(a) == [k |-> "nested", a |-> a]
Access(recv, op, rhs, used) == [recv |-> recv, op |-> op, rhs |-> rhs, used |-> used]

Logical == {"??=", "&&=", "||="}
Updates == {"pre++", "post++"}

(* What the accessors of the class do: a setter may adjust the value. *)
Stored(v) == IF decl.clamp /\ v > 3 THEN 3 ELSE v
Heard(e) == IF decl.loud THEN <<e>> ELSE <<>>

HasAccessors == decl.kind \notin {"field", "slot"}
Truthy(v) == v # Null /\ (decl.type = "object" \/ v # 0)

(* A value, what was logged on the way, and the objects afterwards. *)
Result(v, log, mem) == [v |-> v, log |-> log, mem |-> mem]

ReceiverEffect(r) == IF r \in {"peer", "made", "fresh", "element"} THEN <<r>> ELSE <<>>

GetSource(r, mem) == IF r = "fresh" THEN 0 ELSE mem[r]
PutSource(r, v, mem) == IF r = "fresh" THEN mem ELSE [mem EXCEPT ![r] = v]

RECURSIVE RunSource(_, _)

RhsSource(rhs, mem) ==
    CASE rhs.k = "lit"    -> Result(rhs.v, <<>>, mem)
      [] rhs.k = "call"   -> Result(5, <<"rhs">>, mem)
      [] rhs.k = "nested" -> RunSource(rhs.a, mem)

(* What TypeScript does. *)
RunSource(a, mem) ==
    LET start  == ReceiverEffect(a.recv)
        getLog == IF HasAccessors THEN Heard("get") ELSE <<>>
        setLog == IF HasAccessors THEN Heard("set") ELSE <<>>
        put(v, m) == PutSource(a.recv, IF HasAccessors THEN Stored(v) ELSE v, m)
        old    == GetSource(a.recv, mem)
        rhs    == RhsSource(a.rhs, mem)
        assigned(before, v) == Result(v, start \o before \o rhs.log \o setLog, put(v, rhs.mem))
    IN  CASE a.op = "read" -> Result(old, start \o getLog, mem)
          [] a.op = "="    -> assigned(<<>>, rhs.v)
          [] a.op = "+="   -> assigned(getLog, old + rhs.v)
          [] a.op \in Updates ->
                Result(IF a.op = "post++" THEN old ELSE old + 1,
                       start \o getLog \o setLog, put(old + 1, mem))
          [] a.op \in Logical ->
                IF CASE a.op = "??=" -> old = Null
                     [] a.op = "&&=" -> Truthy(old)
                     [] a.op = "||=" -> ~Truthy(old)
                THEN assigned(getLog, rhs.v)
                ELSE Result(old, start \o getLog, mem)

-----------------------------------------------------------------------------
(* The emitted expressions.  A block is a sequence of expressions, the     *)
(* last one its value.                                                     *)
Unit == -2
Ident(n) == [k |-> "ident", n |-> n]                       \* a variable or a class
FieldAccess(e) == [k |-> "field", e |-> e]                 \* e.m, or arr[i]
Inner == [k |-> "inner"]                                   \* x.inner
Effect(r) == [k |-> "effect", r |-> r]                     \* x.peer(), make(), C::new(), arr.get(i()).cloned().unwrap()
Getter(e) == [k |-> "get", e |-> e]                        \* e.m(), C::m()
Setter(e, arg) == [k |-> "set", e |-> e, arg |-> arg]      \* e.set_m(arg)
Assign(place, e) == [k |-> "assign", place |-> place, e |-> e]
Plus(l, r) == [k |-> "plus", l |-> l, r |-> r]
Value(v) == [k |-> "value", v |-> v]
Rhs == [k |-> "rhs"]                                       \* a call
Let(n, e) == [k |-> "let", n |-> n, e |-> e]
Block(es) == [k |-> "block", es |-> es]
If(c, e) == [k |-> "if", c |-> c, e |-> e]
IsNone(e) == [k |-> "is_none", e |-> e]
IsSomeAnd(e) == [k |-> "is_some_and", e |-> e]             \* with a test against zero
NonZero(e) == [k |-> "nonzero", e |-> e]                   \* e != 0.0 && !e.is_nan()
Not(e) == [k |-> "not", e |-> e]
GetOrInsert(place, e) == [k |-> "insert", place |-> place, e |-> e]

(* Evaluation of Rust.  env is the stack of let bindings; a binding holds  *)
(* a value, and for an object that is the value of its member.             *)
State(mem, env, log) == [mem |-> mem, env |-> env, log |-> log]
Log(st, es) == [st EXCEPT !.log = @ \o es]
With(v, st) == [v |-> v, st |-> st]

Bound(n, env) == {i \in DOMAIN env : env[i].n = n}
Binding(n, env) == CHOOSE i \in Bound(n, env) : \A j \in Bound(n, env) : j <= i

(* Where an object is: in a variable, in a binding, or in a temporary.     *)
Place(e, st) ==
    CASE e.k = "inner"  -> [at |-> "mem", i |-> "inner", st |-> st]
      [] e.k = "effect" -> [at |-> "temporary", st |-> Log(st, <<e.r>>),
                            v |-> IF e.r = "fresh" THEN 0 ELSE st.mem[e.r]]
      [] e.k = "ident"  -> IF Bound(e.n, st.env) # {}
                           THEN [at |-> "env", i |-> Binding(e.n, st.env), st |-> st]
                           ELSE [at |-> "mem", i |-> e.n, st |-> st]
      \* arr[i()] in a place: the element itself
      [] e.k = "slot"   -> [at |-> "mem", i |-> "element", st |-> Log(st, <<"element">>)]

Held(p) ==
    CASE p.at = "mem" -> p.st.mem[p.i]
      [] p.at = "env" -> p.st.env[p.i].v
      [] p.at = "temporary" -> p.v

Hold(p, v, st) ==
    CASE p.at = "mem" -> [st EXCEPT !.mem[p.i] = v]
      [] p.at = "env" -> [st EXCEPT !.env[p.i].v = v]
      [] p.at = "temporary" -> st

RECURSIVE Eval(_, _), EvalAll(_, _)

Eval(e, st) ==
    CASE e.k = "value" -> With(e.v, st)
      [] e.k = "rhs"   -> With(5, Log(st, <<"rhs">>))
      [] e.k = "ident" -> With(st.env[Binding(e.n, st.env)].v, st)
      [] e.k \in {"inner", "effect"} -> LET p == Place(e, st) IN With(Held(p), p.st)
      [] e.k = "field" -> LET p == Place(e.e, st) IN With(Held(p), p.st)
      [] e.k = "get"   -> LET p == Place(e.e, st) IN With(Held(p), Log(p.st, Heard("get")))
      [] e.k = "set"   -> LET p   == Place(e.e, st)
                              arg == Eval(e.arg, p.st)
                          IN  With(Unit, Log(Hold(p, Stored(arg.v), arg.st), Heard("set")))
      \* the right operand of an assignment comes first, then the place
      [] e.k = "assign" -> LET r == Eval(e.e, st)
                               p == Place(e.place.e, r.st)
                           IN  With(Unit, Hold(p, r.v, p.st))
      [] e.k = "plus"  -> LET l == Eval(e.l, st)
                              r == Eval(e.r, l.st)
                          IN  With(l.v + r.v, r.st)
      [] e.k = "let"   -> LET r == Eval(e.e, st)
                          IN  With(Unit, [r.st EXCEPT !.env = Append(@, [n |-> e.n, v |-> r.v])])
      [] e.k = "block" -> LET r == EvalAll(e.es, st)
                          IN  With(r.v, [r.st EXCEPT !.env = SubSeq(@, 1, Len(st.env))])
      [] e.k = "if"    -> LET c == Eval(e.c, st)
                          IN  With(Unit, IF c.v = 1 THEN Eval(e.e, c.st).st ELSE c.st)
      [] e.k = "is_none" -> LET r == Eval(e.e, st) IN With(IF r.v = Null THEN 1 ELSE 0, r.st)
      [] e.k = "is_some_and" -> LET r == Eval(e.e, st)
                                IN  With(IF r.v \in {Null, 0} THEN 0 ELSE 1, r.st)
      \* the operand is written twice
      [] e.k = "nonzero" -> LET r == Eval(e.e, st)
                            IN  With(IF r.v = 0 THEN 0 ELSE 1, IF r.v = 0 THEN r.st ELSE Eval(e.e, r.st).st)
      [] e.k = "not"   -> LET r == Eval(e.e, st) IN With(1 - r.v, r.st)
      [] e.k = "insert" -> LET p == Place(e.place.e, st)
                               r == Eval(e.e, p.st)
                           IN  IF Held(p) # Null THEN With(Held(p), p.st) ELSE With(r.v, Hold(p, r.v, r.st))

EvalAll(es, st) ==
    IF es = <<>> THEN With(Unit, st)
    ELSE LET r == Eval(Head(es), st)
         IN  IF Len(es) = 1 THEN r ELSE EvalAll(Tail(es), r.st)

-----------------------------------------------------------------------------
(* The receiver as converted for a read: an element is copied out of its   *)
(* array, a getter returns a clone, a call a value.                        *)
ConvertReceiver(r) ==
    CASE r \in {"x", "class"} -> Ident(r)
      [] r = "inner" -> Inner
      [] r \in {"peer", "made", "fresh", "element"} -> Effect(r)

(* Mutation: receivers are always repeated. *)
SideEffectFreeAlways(e) == TRUE

SideEffectFree(e) == e.k \in {"ident", "inner"}

(* What the class has under the name: a field is not a member signature.   *)
(* "slot" is no member but arr[i()] itself.                                *)
Classify(r) ==
    IF decl.kind \in {"field", "slot"} THEN "fallback"
    ELSE IF r = "class" THEN "static" ELSE "instance"

WriteTarget(r) == FieldAccess(IF decl.kind = "slot" THEN [k |-> "slot"] ELSE ConvertReceiver(r))

(* Where an accessor is missing or inherited, conversion of the function   *)
(* fails; each dispatcher asks for what it calls.                          *)
Readable == decl.kind \in {"field", "slot", "accessors", "getter"}
Writable == decl.kind \in {"field", "slot", "accessors", "setter"}
Combinable == Readable /\ Writable
Countable == Readable /\ Writable /\ decl.type = "number" /\ decl.kind # "slot"
Decidable == Readable /\ Writable

Supported(op) ==
    CASE op = "read" -> Readable
      [] op = "="    -> Writable
      [] op = "+="   -> Combinable
      [] op \in Updates -> Countable
      [] op \in Logical -> Decidable

RecvBinding == Ident("__ts_recv")

Receiver(r) == LET e == ConvertReceiver(r) IN IF SideEffectFree(e) THEN e ELSE RecvBinding

(* Statements over the receiver, which is bound first if it has effects.   *)
Wrapped(r, es) ==
    LET e == ConvertReceiver(r)
    IN  Block(IF SideEffectFree(e) THEN es ELSE <<Let("__ts_recv", e)>> \o es)

(* let old = e.m(); e.set_m(old + rhs); old   or                           *)
(* let new = e.m() + rhs; e.set_m(new); new                                *)
SetterDesugar(r, rhs, yieldOld) ==
    LET e == Receiver(r)
    IN  Wrapped(r, IF yieldOld
                   THEN <<Let("__ts_old", Getter(e)), Setter(e, Plus(Ident("__ts_old"), rhs)), Ident("__ts_old")>>
                   ELSE <<Let("__ts_new", Plus(Getter(e), rhs)), Setter(e, Ident("__ts_new")), Ident("__ts_new")>>)

(* The truth test of an operand, which a test of a number would repeat.    *)
PureOperand(e) == e.k = "field" /\ e.e.k \in {"ident", "inner"}

TruthTest(e) ==
    IF decl.type = "option" THEN IsSomeAnd(e)
    ELSE IF PureOperand(e) THEN NonZero(e)
    ELSE Block(<<Let("__ts_tmp_op_0", e), NonZero(Ident("__ts_tmp_op_0"))>>)

Predicate(op, e) == IF op = "&&=" THEN TruthTest(e) ELSE Not(TruthTest(e))

Strategy == IF decl.type = "option" THEN "ShadowLet" ELSE "Identity"

(* ??=, &&= and ||= on accessors.  In an expression the getter is called   *)
(* once more for the value.                                                *)
ReadBack(r, used) == IF used THEN <<Getter(Receiver(r))>> ELSE <<>>

IdentityAccess(r, used) ==
    IF used THEN Wrapped(r, ReadBack(r, used))
    ELSE Block(IF SideEffectFree(ConvertReceiver(r)) THEN <<>> ELSE <<ConvertReceiver(r)>>)

NullishAccess(r, rhs, used) ==
    Wrapped(r, <<If(IsNone(Getter(Receiver(r))), Setter(Receiver(r), rhs))>> \o ReadBack(r, used))

AlwaysTruthyAccess(r, op, rhs, used) ==
    IF op = "&&=" THEN Wrapped(r, <<Setter(Receiver(r), rhs)>> \o ReadBack(r, used))
    ELSE IdentityAccess(r, used)

PredicateAccess(r, op, rhs, used) ==
    Wrapped(r, <<If(Predicate(op, Getter(Receiver(r))), Setter(Receiver(r), rhs))>> \o ReadBack(r, used))

LogicalAccessors(r, op, rhs, used) ==
    IF op = "??="
    THEN IF Strategy = "Identity" THEN IdentityAccess(r, used) ELSE NullishAccess(r, rhs, used)
    ELSE IF decl.type = "object" THEN AlwaysTruthyAccess(r, op, rhs, used)
    ELSE PredicateAccess(r, op, rhs, used)

(* ... on a field or an element: ??= in an expression and in a statement,  *)
NullishValue(place, rhs) ==
    IF decl.kind = "slot" \/ Strategy = "ShadowLet" THEN GetOrInsert(place, rhs) ELSE Block(<<place>>)

NullishStatement(place, rhs) ==
    CASE Strategy = "Identity" -> Block(<<>>)
      [] decl.kind = "slot" -> GetOrInsert(place, rhs)
      [] OTHER -> Block(<<If(IsNone(place), Assign(place, rhs))>>)

(* ... the other two.                                                      *)
AlwaysTruthyField(place, op, rhs) == IF op = "&&=" THEN <<Assign(place, rhs)>> ELSE <<>>

AndOrField(place, op, rhs) ==
    IF decl.type = "object" THEN AlwaysTruthyField(place, op, rhs)
    ELSE <<If(Predicate(op, place), Assign(place, rhs))>>

LogicalField(place, op, rhs, used) ==
    IF op = "??=" THEN IF used THEN NullishValue(place, rhs) ELSE NullishStatement(place, rhs)
    ELSE Block(AndOrField(place, op, rhs) \o (IF used THEN <<place>> ELSE <<>>))

AssignField(place, op, rhs) == Assign(place, IF op = "+=" THEN Plus(place, rhs) ELSE rhs)

UpdateField(place, postfix) ==
    IF postfix
    THEN Block(<<Let("__ts_old", place), Assign(place, Plus(Ident("__ts_old"), Value(1))), Ident("__ts_old")>>)
    ELSE Block(<<Assign(place, Plus(place, Value(1))), place>>)

RECURSIVE Convert(_)

ConvertRhs(rhs) ==
    CASE rhs.k = "lit" -> Value(rhs.v)
      [] rhs.k = "call" -> Rhs
      [] rhs.k = "nested" -> Convert(rhs.a)

(* On a field or an element. *)
ConvertFallback(a, rhs) ==
    LET place == WriteTarget(a.recv)
    IN  CASE a.op = "read" -> IF decl.kind = "slot" THEN Effect("element") ELSE place
          [] a.op \in {"=", "+="} -> AssignField(place, a.op, rhs)
          [] a.op \in Updates -> UpdateField(place, a.op = "post++")
          [] a.op \in Logical -> LogicalField(place, a.op, rhs, a.used)

(* On accessors. *)
Dispatch(a, rhs) ==
    LET e == ConvertReceiver(a.recv)
    IN  CASE a.op = "read" -> Getter(e)
          [] a.op = "="    -> Setter(e, rhs)
          [] a.op = "+="   -> SetterDesugar(a.recv, rhs, FALSE)
          [] a.op \in Updates -> SetterDesugar(a.recv, Value(1), a.op = "post++")
          [] a.op \in Logical -> LogicalAccessors(a.recv, a.op, rhs, a.used)

Convert(a) ==
    LET rhs == ConvertRhs(a.rhs)
    IN  IF Classify(a.recv) = "fallback" THEN ConvertFallback(a, rhs) ELSE Dispatch(a, rhs)

-----------------------------------------------------------------------------
(* What is known not to be carried over, by name.                          *)
Impure(a) == a.recv \in {"peer", "made", "fresh", "element"}
IsIdentity(a) == (a.op = "??=" /\ Strategy = "Identity") \/ (a.op = "||=" /\ decl.type = "object")
Unconditional(a) == a.op = "&&=" /\ decl.type = "object"

OwnGaps(a) ==
    LET fallback == ~HasAccessors
        logical  == a.op \in Logical
    IN  \* a receiver that is a copy keeps the write to itself
        (IF a.op # "read" /\ decl.kind # "slot" /\ a.recv \in {"peer", "made", "element"} THEN {"copy"} ELSE {})
        \* the receiver of a field is written once for the read and once for the write
        \cup (IF /\ fallback /\ Impure(a) /\ a.op \notin {"read", "="} /\ ~IsIdentity(a)
                 /\ ~(a.op = "??=" /\ (a.used \/ decl.kind = "slot"))
                 /\ ~(Unconditional(a) /\ ~a.used)
              THEN {"repeated"} ELSE {})
        \* Rust evaluates the assigned value before the place
        \cup (IF fallback /\ Impure(a) /\ (a.op = "=" \/ Unconditional(a)) /\ a.rhs.k # "lit"
              THEN {"order"} ELSE {})
        \* an assignment has no value
        \cup (IF a.used /\ (a.op = "=" \/ (fallback /\ a.op = "+=")) THEN {"unit"} ELSE {})
        \* the value of a logical assignment is asked from the getter again
        \cup (IF ~fallback /\ logical /\ a.used /\ ~IsIdentity(a) /\ (decl.loud \/ decl.clamp)
              THEN {"reread"} ELSE {})
        \* where the outcome is known from the type the getter is not called
        \cup (IF ~fallback /\ decl.loud /\ (IsIdentity(a) \/ Unconditional(a)) /\ ~a.used
              THEN {"skipped"} ELSE {})
        \* ... and the receiver of a field not evaluated
        \cup (IF fallback /\ Impure(a) /\ IsIdentity(a) /\ ~a.used THEN {"dropped"} ELSE {})

Gaps(a) == OwnGaps(a) \cup (IF a.rhs.k = "nested" THEN OwnGaps(a.rhs.a) ELSE {})

-----------------------------------------------------------------------------
(* TypeScript's own rules for the statements. *)
WellTyped(a) ==
    /\ a.op \in Updates \cup {"+="} => decl.type = "number"
    /\ a.rhs.k = "nested" => decl.type = "number"
    /\ a.rhs = Lit(Null) => decl.type = "option" /\ a.op = "="
    /\ a.recv = "class" => HasAccessors
    /\ decl.kind = "slot" => a.recv = "element"

Admitted(a) == WellTyped(a) /\ Supported(a.op)

Init ==
    /\ decl \in Declarations
    /\ \E v \in Values :
          /\ v = Null => decl.type = "option"
          /\ decl.type = "object" => v > 0
          /\ source = [mem |-> [o \in Objects |-> v], log |-> <<>>, v |-> Unit]
    /\ target = source
    /\ gap = {}
    /\ length = 0

(* Converts a statement and runs it on both sides. *)
Run(a) ==
    LET s == RunSource(a, source.mem)
        t == Eval(Convert(a), State(target.mem, <<>>, <<>>))
    IN  /\ gap = {} /\ length < MaxStatements
        /\ Admitted(a) /\ (a.rhs.k = "nested" => Admitted(a.rhs.a))
        /\ source' = [mem |-> s.mem, log |-> s.log, v |-> IF a.used THEN s.v ELSE Unit]
        /\ target' = [mem |-> t.st.mem, log |-> t.st.log, v |-> IF a.used THEN t.v ELSE Unit]
        /\ gap' = Gaps(a)
        /\ length' = length + 1
        /\ UNCHANGED decl

Read == \E a \in Statements : a.op = "read" /\ Run(a)
Write == \E a \in Statements : a.op = "=" /\ Run(a)
Compound == \E a \in Statements : a.op = "+=" /\ Run(a)
Update == \E a \in Statements : a.op \in Updates /\ Run(a)
LogicalAssign == \E a \in Statements : a.op \in Logical /\ Run(a)

Next == Read \/ Write \/ Compound \/ Update \/ LogicalAssign

Spec == Init /\ [][Next]_vars

-----------------------------------------------------------------------------
(* Receivers, getters, right-hand sides and setters are evaluated as often *)
(* and in the order as in the source, the value of the expression is the   *)
(* same, and afterwards every object holds the same.                       *)
MembersPreserved ==
    /\ gap \subseteq {"copy"} => source.log = target.log /\ source.v = target.v
    /\ gap = {} => source.mem = target.mem

=============================================================================
