----------------------------- MODULE Narrowing -----------------------------
(* What happens to one variable `x: number | null` of a function: the     *)
(* narrowing analyzer (src/pipeline/narrowing_analyzer/) decides how each  *)
(* `x ??= d` is emitted and which regions see `x` as a number; the         *)
(* transformer (src/transformer/statements/) shadows `x` with unwrapped    *)
(* bindings.  Each decision is taken in a component of its own, and the    *)
(* Rust code compiles and keeps the value only if they agree.              *)
(*                                                                         *)
(* A function is a sequence of the statements below.  It is resolved       *)
(* (hints and narrowings), converted, and then both the source and the     *)
(* emitted code are executed for every input.  Numbers are small           *)
(* integers; Null stands for null and for None.                            *)
EXTENDS Integers, Sequences, FiniteSets

CONSTANTS
    Functions,   \* the function bodies considered
    Numbers      \* the numbers the argument ranges over

Null == -1

ASSUME NumbersAssumption == Numbers \subseteq Nat

(***************************** The source *********************************)

Set(v) == [k |-> "set", v |-> v]                    \* x = v;
Or(v) == [k |-> "or", v |-> v]                      \* x ??= v;
Inc == [k |-> "inc"]                                \* x += 1;
Logical(op, v) == [k |-> "logical", op |-> op, v |-> v]  \* x &&= v;  x ||= v;
Log == [k |-> "log"]                                \* console.log(x);
Plus == [k |-> "plus"]                              \* console.log(x + 1);
Return == [k |-> "return"]
Continue == [k |-> "continue"]
If(test, then, else) == [k |-> "if", test |-> test, then |-> then, else |-> else]
Loop(body) == [k |-> "loop", body |-> body]         \* for (const i of [0, 1]) { body }
Block(body) == [k |-> "block", body |-> body]       \* { body }
Let(v) == [k |-> "let", v |-> v]                    \* let x: number | null = v;
Fn(body) == [k |-> "fn", body |-> body]             \* const f = () => { body };
Call == [k |-> "call"]                              \* f();

NoElse == <<>>

\* The tests of an `if`; an `if` with a flag compares `x` and a boolean
\* that does not depend on it.
Tests == {"flag", "nonnull", "null", "truthy", "falsy", "nonnull and flag", "null and flag"}

Truthy(v) == v \notin {Null, 0}

Holds(test, v, flag) ==
    CASE test = "flag" -> flag
      [] test = "nonnull" -> v # Null
      [] test = "null" -> v = Null
      [] test = "truthy" -> Truthy(v)
      [] test = "falsy" -> ~Truthy(v)
      [] test = "nonnull and flag" -> v # Null /\ flag
      [] test = "null and flag" -> v = Null /\ flag

(***************** Which resets end a narrowing: classifier.rs *************)

Nothing == "none"

Invalidates(cause) ==
    cause \in {"DirectAssign", "NullAssign", "CompoundLogical", "ClosureReassign", "LoopBoundary"}

MergeSequential(a, b) ==
    IF Invalidates(a) \/ (~Invalidates(b) /\ a # Nothing) THEN a ELSE b

\* Mutation: the branch that comes first decides.
MergeBranchesFirst(a, b) == IF a # Nothing THEN a ELSE b

\* The worse of two alternatives, the first of them when both are alike.
MergeBranches(a, b) == MergeSequential(a, b)

Escalated(cause) == IF cause = Nothing THEN Nothing ELSE "ClosureReassign"

RECURSIVE AlwaysExits(_)
AlwaysExits(s) ==
    CASE s.k \in {"return", "continue"} -> TRUE
      [] s.k = "block" -> s.body # <<>> /\ AlwaysExits(s.body[Len(s.body)])
      [] s.k = "if" -> AlwaysExits(Block(s.then)) /\ AlwaysExits(Block(s.else))
      [] OTHER -> FALSE

RECURSIVE ListCause(_), StmtCause(_)
StmtCause(s) ==
    CASE s.k = "set" -> IF s.v = Null THEN "NullAssign" ELSE "DirectAssign"
      [] s.k = "or" -> "NullishAssignOnNarrow"
      [] s.k = "inc" -> "CompoundArith"
      [] s.k = "logical" -> "CompoundLogical"
      [] s.k = "if" -> MergeBranches(ListCause(s.then), ListCause(s.else))
      [] s.k \in {"loop", "block"} -> ListCause(s.body)
      [] s.k = "fn" -> Escalated(ListCause(s.body))
      [] OTHER -> Nothing

\* The statements of one block, up to a declaration that shadows x or to a
\* statement that leaves the block.
ListCause(stmts) ==
    IF stmts = <<>> \/ Head(stmts).k = "let" THEN Nothing
    ELSE LET s == Head(stmts)
             later == IF AlwaysExits(s) THEN Nothing ELSE ListCause(Tail(stmts))
         IN MergeSequential(StmtCause(s), later)

\* The hint of the `??=` that `rest` follows in its block.
HintBefore(rest) == IF Invalidates(ListCause(rest)) THEN "GetOrInsertWith" ELSE "ShadowLet"

(******************** Closures that reassign x: closure_captures.rs ********)

\* x is a candidate in every block: only the declarations of the closure's
\* own body take it away, those of the blocks around the closure do not.
RECURSIVE ClosureReassigned(_)
ClosureReassigned(stmts) ==
    \E i \in 1..Len(stmts) :
        LET s == stmts[i] IN
        CASE s.k = "if" -> ClosureReassigned(s.then) \/ ClosureReassigned(s.else)
          [] s.k \in {"loop", "block"} -> ClosureReassigned(s.body)
          [] s.k = "fn" -> Escalated(ListCause(s.body)) = "ClosureReassign"
          [] OTHER -> FALSE

(******************** The type resolver: guards.rs, visitors.rs ************)

\* What the resolver takes x for at a place: its declared type, or a number
\* because of the test around it ("primary") or of a test before it that
\* leaves the block when it fails ("complement").
Beliefs == {"declared", "primary", "complement"}

NarrowsThen(test) == test \in {"nonnull", "truthy", "nonnull and flag"}
NarrowsElse(test) == test = "null"
NarrowsAfter(test) == test \in {"null", "falsy"}

\* Whether the rest of the block sees the complement of the test.
LeavesComplement(s) ==
    /\ NarrowsAfter(s.test)
    /\ AlwaysExits(Block(s.then))
    /\ ~AlwaysExits(Block(s.else))

\* The statements with the hint of every `??=` and what x is taken for where
\* it is read or written.  The event pushed last wins: the one for the rest
\* of the block also covers the else branch.
RECURSIVE Resolved(_, _)
Resolved(stmts, belief) ==
    IF stmts = <<>> THEN <<>>
    ELSE
    LET s == Head(stmts)
        rest == Tail(stmts)
        after == IF s.k = "if" /\ LeavesComplement(s) THEN "complement" ELSE belief
        inThen == IF NarrowsThen(s.test) THEN "primary" ELSE belief
        inElse == IF LeavesComplement(s) THEN "complement"
                  ELSE IF NarrowsElse(s.test) THEN "primary" ELSE belief
        resolved ==
            CASE s.k = "or" ->
                     [k |-> "or", v |-> s.v, belief |-> belief, hint |-> HintBefore(rest)]
              [] s.k \in {"log", "plus"} -> [k |-> s.k, belief |-> belief]
              [] s.k = "let" -> [k |-> "let", v |-> s.v, belief |-> belief]
              [] s.k = "logical" -> [k |-> s.k, op |-> s.op, v |-> s.v, belief |-> belief]
              [] s.k = "if" -> [k |-> "if", test |-> s.test, belief |-> belief,
                                then |-> Resolved(s.then, inThen), else |-> Resolved(s.else, inElse)]
              [] s.k \in {"loop", "block", "fn"} -> [s EXCEPT !.body = Resolved(s.body, belief)]
              [] OTHER -> s
    IN <<resolved>> \o Resolved(rest, after)

\* Mutation: a narrowing counts whatever the closures do.
IsNumberAlways(belief, captured) == belief # "declared"

\* narrowed_type: a complement does not count when a closure reassigns x.
IsNumber(belief, captured) == belief = "primary" \/ (belief = "complement" /\ ~captured)

(******************** The transformer: control_flow.rs *********************)

\* The emitted statements.  "write" assigns Some(v) or None, "insert" is
\* x.get_or_insert_with(|| v), "unwrap" is let x = x.unwrap_or(v), "init" is
\* let x = <literal>.unwrap_or(v), "keep" is let x = match x { .. } whose
\* matching arm ends in x and whose other arm leaves; "cond" and "assign"
\* name the type of x they are written for.
CondIf(test, type, then, else) ==
    [k |-> "cond", test |-> test, type |-> type, then |-> then, else |-> else]
SomeArm(pattern, then, else) ==
    [k |-> "arms", pattern |-> pattern, mut |-> FALSE, then |-> then, else |-> else]
Keep(pattern, keep, exit) ==
    [k |-> "keep", pattern |-> pattern, mut |-> FALSE, armMut |-> FALSE, then |-> keep, else |-> exit]

RECURSIVE IrExits(_)
IrExits(list) ==
    /\ list # <<>>
    /\ LET s == list[Len(list)] IN
       CASE s.k \in {"return", "continue"} -> TRUE
         [] s.k \in {"cond", "arms"} -> IrExits(s.then) /\ IrExits(s.else)
         [] OTHER -> FALSE

\* An `if` over one test that can be a pattern (try_generate_narrowing_match,
\* generate_if_let).
PatternIf(s, then, else, captured) ==
    LET swap == s.test = "null"
        early == swap /\ s.else = NoElse /\ IrExits(then)
        earlyElse == swap /\ s.else # NoElse /\ IrExits(then) /\ ~IrExits(else)
    IN CASE early /\ captured -> <<CondIf("null", "opt", then, NoElse)>>
         [] earlyElse /\ captured -> <<CondIf("null", "opt", then, NoElse)>> \o else
         [] ~captured /\ (early \/ earlyElse) -> <<Keep("some", else, then)>>
         [] OTHER -> IF swap THEN <<SomeArm("some", else, then)>>
                     ELSE <<SomeArm("some", then, else)>>

\* Mutation: the else branch is emitted for the failing pattern only.
CompoundIfOnce(s, then, else) ==
    LET inner == <<CondIf("flag", "any", then, NoElse)>>
    IN IF s.test = "null and flag" THEN <<SomeArm("some", else, inner)>>
       ELSE <<SomeArm("some", inner, else)>>

\* A pattern and a flag: the flag is tested inside the matching arm, and the
\* else branch is emitted for both.
CompoundIf(s, then, else) ==
    LET inner == <<CondIf("flag", "any", then, else)>>
    IN IF s.test = "null and flag" THEN <<SomeArm("some", else, inner)>>
       ELSE <<SomeArm("some", inner, else)>>

\* if (!x) over an Option (try_generate_option_truthy_complement_match).
FalsyIf(s, then, else) ==
    CASE IrExits(then) /\ (s.else = NoElse \/ ~IrExits(else)) -> <<Keep("truthy", else, then)>>
      [] s.else # NoElse -> <<SomeArm("truthy", else, then)>>
      [] OTHER -> <<CondIf("falsy", "opt", then, else)>>

ConvertIf(s, then, else, captured) ==
    LET number == IsNumber(s.belief, captured) IN
    CASE s.test = "flag" -> <<CondIf("flag", "any", then, else)>>
      [] s.test \in {"nonnull", "null", "truthy"} /\ ~number -> PatternIf(s, then, else, captured)
      [] s.test \in {"nonnull and flag", "null and flag"} /\ ~number -> CompoundIf(s, then, else)
      [] s.test = "falsy" /\ ~number /\ ~captured -> FalsyIf(s, then, else)
      [] s.test \in {"truthy", "falsy"} /\ number -> <<CondIf(s.test, "num", then, else)>>
      [] OTHER -> <<CondIf(s.test, "opt", then, else)>>

\* nullish_assign.rs: nothing is emitted for a variable taken for a number.
ConvertOr(s, captured) ==
    CASE IsNumber(s.belief, captured) -> <<>>
      [] s.hint = "GetOrInsertWith" -> <<[k |-> "insert", v |-> s.v]>>
      [] OTHER -> <<[k |-> "unwrap", v |-> s.v, mut |-> FALSE]>>

\* compound_logical_assign.rs
ConvertLogical(s, captured) ==
    LET type == IF IsNumber(s.belief, captured) THEN "num" ELSE "opt"
        assign == [k |-> "assign", v |-> s.v, type |-> type]
    IN <<CondIf(IF s.op = "&&" THEN "truthy" ELSE "falsy", type, <<assign>>, NoElse)>>

\* binary.rs: x + 1 is x.unwrap_or(0.0) + 1.0 when a closure reassigns x and
\* it is taken for an Option.
ConvertPlus(s, captured) ==
    <<[k |-> "plus", coerced |-> captured /\ ~IsNumber(s.belief, captured)]>>

\* calls.rs: console.log(x) is written for the type x is taken for.
ConvertLog(s, captured) ==
    <<[k |-> "log", type |-> IF IsNumber(s.belief, captured) THEN "num" ELSE "opt"]>>

(******************** The passes over a list of statements *****************)

\* fuse_nullish_assign_shadow_lets: a let and the unwrap that follows it.
RECURSIVE Fused(_)
Fused(list) ==
    IF Len(list) < 2 THEN list
    ELSE IF list[1].k = "let" /\ list[2].k = "unwrap" /\ ~list[1].mut /\ ~list[2].mut
         THEN <<[k |-> "init", from |-> list[1].v, v |-> list[2].v, mut |-> FALSE]>>
              \o Fused(Tail(Tail(list)))
         ELSE <<Head(list)>> \o Fused(Tail(list))

\* Mutation: the bodies of closures are not searched.
RECURSIVE MutatesOutside(_)
MutatesOutside(list) ==
    \E i \in 1..Len(list) :
        LET s == list[i] IN
        CASE s.k \in {"write", "assign", "insert", "inc"} -> TRUE
          [] s.k \in {"cond", "arms", "keep"} -> MutatesOutside(s.then) \/ MutatesOutside(s.else)
          [] s.k = "loop" -> MutatesOutside(s.body)
          [] OTHER -> FALSE

\* collect_mutated_vars for x.
RECURSIVE Mutates(_)
Mutates(list) ==
    \E i \in 1..Len(list) :
        LET s == list[i] IN
        CASE s.k \in {"write", "assign", "insert", "inc"} -> TRUE
          [] s.k \in {"cond", "arms", "keep"} -> Mutates(s.then) \/ Mutates(s.else)
          [] s.k \in {"loop", "fn"} -> Mutates(s.body)
          [] OTHER -> FALSE

\* mark_mutated_narrow_bindings: the bindings of patterns, at every depth.
RECURSIVE PatternsMarked(_)
PatternsMarked(list) ==
    [i \in 1..Len(list) |->
        LET s == list[i] IN
        CASE s.k = "arms" -> [s EXCEPT !.mut = @ \/ Mutates(s.then),
                                       !.then = PatternsMarked(@), !.else = PatternsMarked(@)]
          [] s.k = "keep" -> [s EXCEPT !.armMut = @ \/ Mutates(s.then),
                                       !.then = PatternsMarked(@), !.else = PatternsMarked(@)]
          [] s.k = "cond" -> [s EXCEPT !.then = PatternsMarked(@), !.else = PatternsMarked(@)]
          [] s.k \in {"loop", "fn"} -> [s EXCEPT !.body = PatternsMarked(@)]
          [] OTHER -> s]

\* mark_mutated_vars: every let of this list whose name the list mutates, and
\* a closure that mutates anything.
LetsMarked(list) ==
    [i \in 1..Len(list) |->
        LET s == list[i] IN
        CASE s.k \in {"let", "unwrap", "init", "keep"} -> [s EXCEPT !.mut = @ \/ Mutates(list)]
          [] s.k = "fn" -> [s EXCEPT !.mut = @ \/ Mutates(s.body)]
          [] OTHER -> s]

RECURSIVE ConvertList(_, _), Convert(_, _)
Convert(s, captured) ==
    CASE s.k = "set" -> <<[k |-> "write", v |-> s.v]>>
      [] s.k = "or" -> ConvertOr(s, captured)
      [] s.k = "logical" -> ConvertLogical(s, captured)
      [] s.k = "plus" -> ConvertPlus(s, captured)
      [] s.k = "log" -> ConvertLog(s, captured)
      [] s.k = "if" -> ConvertIf(s, ConvertList(s.then, captured), ConvertList(s.else, captured), captured)
      [] s.k = "loop" -> <<[k |-> "loop", body |-> ConvertList(s.body, captured)]>>
      [] s.k = "block" -> ConvertList(s.body, captured)
      [] s.k = "let" -> <<[k |-> "let", v |-> s.v, mut |-> FALSE]>>
      [] s.k = "fn" -> <<[k |-> "fn", body |-> ConvertList(s.body, captured), mut |-> FALSE]>>
      [] OTHER -> <<s>>

RECURSIVE Concat(_)
Concat(lists) == IF lists = <<>> THEN <<>> ELSE Head(lists) \o Concat(Tail(lists))

ConvertList(stmts, captured) ==
    PatternsMarked(LetsMarked(Fused(Concat([i \in 1..Len(stmts) |-> Convert(stmts[i], captured)]))))

(******************** What TypeScript accepts ******************************)

Declared == {"null", "number"}
Rejected == {"rejected"}
TypeOfValue(v) == IF v = Null THEN {"null"} ELSE {"number"}

RECURSIVE AssignedTypes(_)
AssignedTypes(stmts) ==
    UNION {LET s == stmts[i] IN
           CASE s.k = "set" -> TypeOfValue(s.v)
             [] s.k \in {"or", "inc", "logical"} -> {"number"}
             [] s.k = "if" -> AssignedTypes(s.then) \cup AssignedTypes(s.else)
             [] s.k \in {"loop", "block"} -> AssignedTypes(s.body)
             [] OTHER -> {} : i \in DOMAIN stmts}

TypesThen(test, t) == IF test \in {"nonnull", "truthy", "nonnull and flag"} THEN t \ {"null"}
                      ELSE IF test \in {"null", "null and flag"} THEN t \ {"number"} ELSE t
TypesElse(test, t) == IF test = "null" THEN t \ {"null"}
                      ELSE IF test = "nonnull" THEN t \ {"number"}
                      ELSE IF test = "falsy" THEN t \ {"null"} ELSE t

\* The types x can have after the statements, Rejected when one of them is an
\* error or is out of reach.
RECURSIVE Flow(_, _)
Flow(stmts, t) ==
    IF stmts = <<>> THEN t
    ELSE
    LET s == Head(stmts)
        Inner(body, from) ==
            IF body = <<>> \/ Head(body).k # "let" THEN Flow(body, from)
            ELSE LET inner == Flow(Tail(body), TypeOfValue(Head(body).v)) IN
                 IF inner \in {Rejected, {}} THEN inner ELSE from
        head == t \cup AssignedTypes(s.body)
        next ==
            CASE s.k = "set" -> TypeOfValue(s.v)
              [] s.k = "or" \/ (s.k = "logical" /\ s.op = "||") -> {"number"}
              [] s.k \in {"inc", "plus"} -> IF "null" \in t THEN Rejected ELSE t
              [] s.k \in {"return", "continue"} -> {}
              [] s.k = "if" -> Inner(s.then, TypesThen(s.test, t))
                               \cup Inner(s.else, TypesElse(s.test, t))
              [] s.k = "loop" -> IF Inner(s.body, head) = Rejected THEN Rejected ELSE head
              [] s.k = "block" -> Inner(s.body, t)
              [] s.k = "fn" -> IF Inner(s.body, Declared) = Rejected THEN Rejected ELSE t
              [] OTHER -> t
    IN IF t = {} \/ next \cap Rejected # {} THEN Rejected ELSE Flow(Tail(stmts), next)

Accepted(function) == Flow(function, Declared) # Rejected

(******************** What rustc accepts ***********************************)

\* A binding of x: its type, whether it is mut, what introduced it.
Binding(type, mut, by) == [type |-> type, mut |-> mut, by |-> by]

RECURSIVE BindingAfter(_, _)
BindingAfter(list, b) ==
    IF list = <<>> THEN b
    ELSE LET s == Head(list)
             next == CASE s.k = "let" -> Binding("opt", s.mut, "let")
                       [] s.k \in {"unwrap", "init"} -> Binding("num", s.mut, "unwrap")
                       [] s.k = "keep" ->
                            LET tail == BindingAfter(s.then, Binding("num", s.armMut, s.pattern))
                            IN Binding(tail.type, s.mut, "keep")
                       [] OTHER -> b
         IN BindingAfter(Tail(list), next)

\* The statements rustc rejects, each with the type of x it is written for
\* ("mut": it assigns to an immutable binding) and the binding it meets.
RECURSIVE Errors(_, _)
Errors(list, b) ==
    IF list = <<>> THEN {}
    ELSE
    LET s == Head(list)
        Error(needs) == [statement |-> s.k, needs |-> needs, by |-> b.by]
        Needs(type) == IF b.type = type THEN {} ELSE {Error(type)}
        assigns == IF b.mut THEN {} ELSE {Error("mut")}
        here == CASE s.k \in {"write", "insert"} -> Needs("opt") \cup assigns
                  [] s.k = "inc" -> Needs("num") \cup assigns
                  [] s.k = "assign" -> Needs(s.type) \cup assigns
                  [] s.k = "log" -> Needs(s.type)
                  [] s.k = "unwrap" -> Needs("opt")
                  [] s.k = "plus" -> Needs(IF s.coerced THEN "opt" ELSE "num")
                  [] s.k = "cond" -> (IF s.type = "any" THEN {} ELSE Needs(s.type))
                                     \cup Errors(s.then, b) \cup Errors(s.else, b)
                  [] s.k = "arms" -> Needs("opt") \cup Errors(s.else, b)
                                     \cup Errors(s.then, Binding("num", s.mut, s.pattern))
                  [] s.k = "keep" -> Needs("opt") \cup Errors(s.else, b)
                                     \cup Errors(s.then, Binding("num", s.armMut, s.pattern))
                  [] s.k \in {"loop", "fn"} -> Errors(s.body, b)
                  [] OTHER -> {}
    IN here \cup Errors(Tail(list), BindingAfter(<<s>>, b))

\* The parameter is declared mut when the body mutates x.
RustErrors(list) == Errors(list, Binding("opt", Mutates(list), "parameter"))

(******************** What the statements do *******************************)

\* A state of an execution: the variables named x so far, the one in scope,
\* the closure f, what was logged, whether the statements are being left.
Initially(v) == [cells |-> <<v>>, at |-> 1, f |-> [at |-> 1, body |-> <<>>], trace |-> <<>>, exit |-> ""]

Shadowed(st, v) == [st EXCEPT !.cells = Append(@, v), !.at = Len(st.cells) + 1]
Number(v) == IF v = Null THEN 0 ELSE v

\* The statements of both languages are run by one definition: an `inc` or a
\* `plus` of the source takes null for 0.
RECURSIVE Run(_, _, _), Do(_, _, _)
Scoped(list, st, flag) == [Run(list, st, flag) EXCEPT !.at = st.at]
Run(list, st, flag) ==
    IF list = <<>> \/ st.exit # "" THEN st
    ELSE Run(Tail(list), Do(Head(list), st, flag), flag)

Do(s, st, flag) ==
    LET x == st.cells[st.at]
        Assigned(v) == [st EXCEPT !.cells[st.at] = v]
        matches == IF s.pattern = "some" THEN x # Null ELSE Truthy(x)
        Once(from) == IF from.exit = "return" THEN from
                      ELSE Scoped(s.body, [from EXCEPT !.exit = ""], flag)
        arm == Run(s.then, Shadowed(st, x), flag)
    IN CASE s.k \in {"set", "write", "assign"} -> Assigned(s.v)
         [] s.k \in {"or", "insert"} -> IF x = Null THEN Assigned(s.v) ELSE st
         [] s.k = "logical" -> IF Truthy(x) = (s.op = "&&") THEN Assigned(s.v) ELSE st
         [] s.k = "inc" -> Assigned(Number(x) + 1)
         [] s.k = "log" -> [st EXCEPT !.trace = Append(@, x)]
         [] s.k = "plus" -> [st EXCEPT !.trace = Append(@, Number(x) + 1)]
         [] s.k = "let" -> Shadowed(st, s.v)
         [] s.k = "unwrap" -> Shadowed(st, IF x = Null THEN s.v ELSE x)
         [] s.k = "init" -> Shadowed(st, IF s.from = Null THEN s.v ELSE s.from)
         [] s.k \in {"return", "continue"} -> [st EXCEPT !.exit = s.k]
         [] s.k \in {"if", "cond"} ->
              Scoped(IF Holds(s.test, x, flag) THEN s.then ELSE s.else, st, flag)
         [] s.k = "arms" -> IF matches THEN [arm EXCEPT !.at = st.at]
                            ELSE Scoped(s.else, st, flag)
         [] s.k = "keep" -> IF ~matches THEN Scoped(s.else, st, flag)
                            ELSE Shadowed(arm, arm.cells[arm.at])
         [] s.k = "block" -> Scoped(s.body, st, flag)
         [] s.k = "loop" ->
              LET end == Once(Once(st)) IN
              IF end.exit = "continue" THEN [end EXCEPT !.exit = ""] ELSE end
         [] s.k = "fn" -> [st EXCEPT !.f = [at |-> st.at, body |-> s.body]]
         [] s.k = "call" -> [Run(st.f.body, [st EXCEPT !.at = st.f.at], flag)
                                EXCEPT !.at = st.at, !.exit = ""]

Trace(list, v, flag) == Run(list, Initially(v), flag).trace

(******************** One function through the pipeline ********************)

VARIABLES
    function,   \* the source of the function
    resolved,   \* the function with the resolver's and the analyzer's events
    captured,   \* whether a closure reassigns x
    emitted,    \* the Rust statements
    phase

vars == <<function, resolved, captured, emitted, phase>>

Init ==
    /\ function \in {f \in Functions : Accepted(f)}
    /\ resolved = <<>>
    /\ captured = FALSE
    /\ emitted = <<>>
    /\ phase = "source"

Resolve ==
    /\ phase = "source"
    /\ resolved' = Resolved(function, "declared")
    /\ captured' = ClosureReassigned(function)
    /\ phase' = "resolved"
    /\ UNCHANGED <<function, emitted>>

Transform ==
    /\ phase = "resolved"
    /\ emitted' = ConvertList(resolved, captured)
    /\ phase' = "emitted"
    /\ UNCHANGED <<function, resolved, captured>>

Next == Resolve \/ Transform

Spec == Init /\ [][Next]_vars

-----------------------------------------------------------------------------
(* Where the emitted code is known to differ; the README describes each.  A   *)
(* property that needs one of them absent says so.                            *)

\* The lists of statements of a function, itself first.
RECURSIVE Bodies(_)
Bodies(stmts) ==
    {stmts} \cup
    UNION {LET s == stmts[i] IN
           CASE s.k \in {"if", "cond", "arms", "keep"} -> Bodies(s.then) \cup Bodies(s.else)
             [] s.k \in {"loop", "block", "fn"} -> Bodies(s.body)
             [] OTHER -> {} : i \in DOMAIN stmts}

\* A bare block is flattened: its bindings cover the statements after it.
FlattenedBinding ==
    \E b \in Bodies(resolved) : \E i \in 1..Len(b) - 1 :
        /\ b[i].k = "block"
        /\ \E j \in 1..Len(b[i].body) :
              LET s == b[i].body[j] IN
              s.k \in {"let", "or"} \/ (s.k = "if" /\ LeavesComplement(s))

\* A default given in a nested block is bound there and lost after it.
NestedDefault ==
    \E b \in Bodies(resolved) \ {resolved} : \E i \in DOMAIN b :
        /\ b[i].k = "or" /\ b[i].hint = "ShadowLet"
        /\ Head(b).k # "let"

\* An assignment to a binding that ends before x does: the binding of an arm,
\* or the one an early exit leaves in a nested block.
MutatedBinding ==
    \E b \in Bodies(emitted) : \E i \in DOMAIN b :
        \/ b[i].k = "arms" /\ b[i].mut
        \/ b[i].k = "keep" /\ b[i].mut /\ b # emitted

\* A narrowing is looked up by name: it also covers another x declared inside
\* its region.
NarrowedDeclaration ==
    \E b \in Bodies(resolved) : \E i \in DOMAIN b :
        b[i].k = "let" /\ IsNumber(b[i].belief, captured)

\* if (x) over an Option takes 0 for a value that is there.
ZeroTaken ==
    \E b \in Bodies(resolved) : \E i \in DOMAIN b :
        b[i].k = "if" /\ b[i].test = "truthy" /\ ~IsNumber(b[i].belief, captured)

\* A closure keeps the x it was made with when a default binds another one.
OlderClosure ==
    \E i, j \in DOMAIN emitted : i < j /\ emitted[i].k = "fn" /\ emitted[j].k \in {"unwrap", "keep"}

-----------------------------------------------------------------------------
(* Properties                                                                 *)

SameBehaviour ==
    \A v \in Numbers \cup {Null}, flag \in BOOLEAN :
        Trace(function, v, flag) = Trace(emitted, v, flag)

\* The classifier sees every assignment that makes x an Option again: none
\* reaches the number that let x = x.unwrap_or(..) bound, whatever branch,
\* loop or closure it is in.
HintsSuffice ==
    phase = "emitted" /\ ~FlattenedBinding =>
        ~\E e \in RustErrors(emitted) :
            e.statement \in {"write", "insert"} /\ e.needs = "opt" /\ e.by = "unwrap"

\* It is no more cautious than it must be: where it asks for
\* get_or_insert_with, binding a number would not compile.
HintsNeeded ==
    \A b \in Bodies(emitted) : \A i \in DOMAIN b :
        b[i].k = "insert" =>
            \E e \in Errors(SubSeq(b, i + 1, Len(b)), Binding("num", TRUE, "unwrap")) :
                e.by = "unwrap" /\ e.statement # "log"

\* The hint of the classifier is right in both directions.
HintsExact == HintsSuffice /\ HintsNeeded

\* Resolver and transformer agree: what is written for a number because the
\* resolver narrowed x meets a binding that the transformer unwrapped, even
\* where a closure reassigns x and the transformer leaves x an Option.
NarrowingAgrees ==
    ~NarrowedDeclaration =>
        ~\E e \in RustErrors(emitted) : e.statement \in {"log", "assign", "cond"} /\ e.needs = "num"

\* Every binding that is assigned is declared mut, whichever of the passes
\* over nested lists introduced it.
AssignedIsMut == \A e \in RustErrors(emitted) : e.needs # "mut"

\* The emitted code behaves as the source for every argument, when the writes
\* compile (a read may be written for the other type: its value is the same).
CompiledCodeAgrees ==
    /\ phase = "emitted"
    /\ \A e \in RustErrors(emitted) : e.statement = "log"
    /\ ~(FlattenedBinding \/ NestedDefault \/ MutatedBinding \/ ZeroTaken \/ OlderClosure
            \/ NarrowedDeclaration)
    => SameBehaviour

=============================================================================
