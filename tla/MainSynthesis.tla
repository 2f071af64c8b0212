--------------------------- MODULE MainSynthesis ---------------------------
(***************************************************************************)
(* From a TypeScript module, which runs from top to bottom, to a Rust      *)
(* file, which runs from fn main: src/src/transformer/main_synthesis and   *)
(* the loop of Transformer::transform_module_collecting that it is part    *)
(* of.  Statements and the initialisers that do something move into a      *)
(* fn main in their order; literals, functions and types stay items; a     *)
(* function called main becomes __ts_main where a fn main is made.         *)
(*                                                                         *)
(* Abstraction.  Expressions are those the passes tell apart.  A log is    *)
(* any effect; text stands for the literals that are not numbers, booleans *)
(* or null, and for negative numbers.  Functions have no parameters.       *)
(* Export does not change where an item goes and is left out.              *)
(***************************************************************************)
EXTENDS Integers, Sequences, SequencesExt, FiniteSets

CONSTANTS
    Exprs,     \* the expressions, of the source and converted
    Height,    \* how deep each of them is nested
    Library,   \* functions every module has: name |-> a function item
    Modules    \* the modules, sequences of items

VARIABLES
    module,    \* the module being transformed
    pos,       \* the next item
    items,     \* the items emitted
    mains,     \* main_stmts: [let, e] in order, let "" for a statement
    kept,      \* history: the items, or parts of them, that were converted
    phase      \* "convert", then "done"

vars == <<module, pos, items, mains, kept, phase>>

-----------------------------------------------------------------------------
(* Source.                                                                 *)
Ex(op, name, args) == [op |-> op, name |-> name, args |-> args]
Num == Ex("num", "", <<>>)
Text == Ex("text", "", <<>>)
NoInit == Ex("none", "", <<>>)
Data(args) == Ex("data", "", args)
Arrow(name, body) == Ex(name, "", body)      \* "arrow" or "async arrow"
ClassExpr == Ex("class", "", <<>>)
Log(m, args) == Ex("log", m, args)
Call(f, args) == Ex("call", f, args)
Await(e) == Ex("await", "", <<e>>)
Read(x) == Ex("read", x, <<>>)
Set(x, e) == Ex("set", x, <<e>>)

Arrows == {"arrow", "async arrow"}
Uses == {"read", "set"}

(* decls: [name, init] of a var, name "" for a pattern.  body: of a fn; of *)
(* a class its heritage, if it has one; of a statement its expression.     *)
Item(kind, name, decls, body) == [kind |-> kind, name |-> name, decls |-> decls, body |-> body]
Do(e) == Item("expr", "", <<>>, <<e>>)
Var(decls) == Item("var", "", decls, <<>>)
Const(x, e) == Var(<<[name |-> x, init |-> e]>>)
Fn(f, body) == Item("fn", f, <<>>, body)
AsyncFn(f, body) == Item("async fn", f, <<>>, body)
Fns == {"fn", "async fn"}
Types == {"class", "type"}          \* the second: interface, alias, enum, namespace
Kinds == Fns \cup Types \cup {"expr", "var", "default", "empty", "control", "debugger"}

HasInit(d) == d.init.op # "none"

(* What an item declares: a type does not stand in the way of a value. *)
Named(x) == ({x.name} \cup {x.decls[k].name : k \in DOMAIN x.decls}) \ {""}
Declares(x) == IF x.kind = "type" THEN {} ELSE Named(x)

ASSUME ExprAssumption ==
    /\ \A e \in Exprs : e = Ex(e.op, e.name, e.args) /\ e.name \in STRING /\ e.args \in Seq(Exprs)
    /\ \A e \in Exprs : e.op \in Arrows \cup Uses \cup {"num", "text", "none", "data", "class", "log", "call", "await"}
    /\ \A e \in Exprs : e.op = "await" => Len(e.args) = 1
    /\ \A e \in Exprs : e.op \in {"num", "text", "none"} => e.args = <<>>
    /\ Height \in [Exprs -> Nat]
    /\ \A e \in Exprs : \A i \in DOMAIN e.args : Height[e.args[i]] < Height[e]

-----------------------------------------------------------------------------
(* expr_contains_await_recursive: function bodies are not looked into. *)
ContainsAwait[e \in Exprs] ==
    \/ e.op = "await"
    \/ e.op \notin Arrows /\ \E i \in DOMAIN e.args : ContainsAwait[e.args[i]]

AnyAwait(es) == \E i \in DOMAIN es : ContainsAwait[es[i]]

(* expr_init_kind and the await check around it. *)
InitKind(e) ==
    IF ContainsAwait[e] THEN "AwaitInit"
    ELSE IF e.op \in {"num", "text"} THEN "Lit"
    ELSE IF e.op \in Arrows \cup {"class"} THEN "NonTriggerDef"
    ELSE IF e.op = "data" THEN "NonTriggerData"
    ELSE "SideEffect"

(* has_side_effect_init: no, if the first declarator has no initialiser. *)
HasSideEffectInit(decls) ==
    /\ HasInit(decls[1])
    /\ \E i \in DOMAIN decls : HasInit(decls[i]) /\ InitKind(decls[i].init) \in {"SideEffect", "AwaitInit"}

IsExecutable(m) ==
    \E i \in DOMAIN m :
        \/ m[i].kind = "expr"
        \/ m[i].kind = "var" /\ HasSideEffectInit(m[i].decls)
        \/ m[i].kind = "class" /\ AnyAwait(m[i].body)

HasTopLevelAwait(m) ==
    \E i \in DOMAIN m :
        \/ m[i].kind \in {"expr", "class"} /\ AnyAwait(m[i].body)
        \/ m[i].kind = "var" /\ \E k \in DOMAIN m[i].decls : ContainsAwait[m[i].decls[k].init]

(* detect_user_main: __ts_main anywhere, or else the first main.  A var    *)
(* speaks for its first declarator of either name.                         *)
MainNames == {"main", "__ts_main"}

Shape(name, fn) ==
    IF name = "__ts_main" THEN "Collision"
    ELSE CASE fn \in {"fn", "arrow"} -> "FnSync"
           [] fn \in {"async fn", "async arrow"} -> "FnAsync"
           [] OTHER -> "NonFn"

Candidates(x) ==
    IF x.kind = "var"
    THEN {Shape(x.decls[k].name, x.decls[k].init.op) :
             k \in {n \in DOMAIN x.decls : /\ x.decls[n].name \in MainNames
                                           /\ \A l \in 1 .. n - 1 : x.decls[l].name \notin MainNames}}
    ELSE IF x.name \in MainNames THEN {Shape(x.name, IF x.kind = "default" THEN "fn" ELSE x.kind)} ELSE {}

UserMain(m) ==
    LET first == {i \in DOMAIN m : Candidates(m[i]) # {} /\ \A j \in 1 .. i - 1 : Candidates(m[j]) = {}} IN
    IF \E i \in DOMAIN m : "Collision" \in Candidates(m[i]) THEN "Collision"
    ELSE IF first = {} THEN "None"
    ELSE CHOOSE c \in UNION {Candidates(m[i]) : i \in first} : TRUE

(* Mutation: the mode does not matter. *)
SubstitutionAnyMode(m) == IF UserMain(m) \in {"FnSync", "FnAsync"} THEN UserMain(m) ELSE "None"

(* UserMainSubstitution::from_dispatch, once and for the whole module. *)
Substitutions == {"None", "FnSync", "FnAsync"}

Substitution(m) ==
    IF IsExecutable(m) /\ UserMain(m) \in {"FnSync", "FnAsync"} THEN UserMain(m) ELSE "None"

-----------------------------------------------------------------------------
(* Mutation: the call is awaited whatever is around it. *)
AwaitsCallAlways(sub, quiet) == sub = "FnAsync"

(* should_wrap_await in convert_call_expr. *)
AwaitsCall(sub, quiet) == sub = "FnAsync" /\ ~quiet

(* convert_expr, as far as main is concerned, once the arguments are       *)
(* converted.  quiet is suppress_main_await_wrap: set for the whole of an  *)
(* awaited expression.                                                     *)
CallsMain(e) == e.op = "call" /\ e.name = "main"

Converted(e, args, sub, quiet) ==
    IF CallsMain(e) /\ sub # "None"
    THEN IF AwaitsCall(sub, quiet) THEN Await(Call("__ts_main", args)) ELSE Call("__ts_main", args)
    ELSE Ex(e.op, e.name, args)

Conv[e \in Exprs] == [sub \in Substitutions |-> [quiet \in BOOLEAN |->
    Converted(e, [i \in DOMAIN e.args |-> Conv[e.args[i]][sub][quiet \/ e.op = "await"]], sub, quiet)]]

ConvAll(es, sub) == [i \in DOMAIN es |-> Conv[es[i]][sub][FALSE]]

Renamed(name, sub) == IF name = "main" /\ sub # "None" THEN "__ts_main" ELSE name

(* Mutation: objects and arrays are not captured. *)
CapturedNoData(d, exec) == exec /\ HasInit(d) /\ InitKind(d.init) \in {"SideEffect", "AwaitInit"}

(* classify_per_decl_path *)
Captured(d, exec) ==
    /\ exec /\ HasInit(d)
    /\ InitKind(d.init) \in {"SideEffect", "AwaitInit", "NonTriggerData"}

(* The declarators the loop of capture_var_decl_into_main_stmts takes. *)
Declarators == [name : STRING, init : Exprs]

Taken[ds \in Seq(Declarators)] ==
    IF ds = <<>> THEN <<>>
    ELSE IF Captured(Last(ds), TRUE) THEN Append(Taken[Front(ds)], Last(ds)) ELSE Taken[Front(ds)]

CapturedOf(decls, exec) == IF exec THEN Taken[decls] ELSE <<>>

(* try_capture_module_item_into_main_stmts: what an item gives to fn main, *)
(* an await statement included: ExprAwait and LetAwait hold the awaited    *)
(* expression and main_stmts_to_ir_stmts puts the await back.              *)
Lets(ds, sub) == [i \in DOMAIN ds |-> [let |-> ds[i].name, e |-> Conv[ds[i].init][sub][FALSE]]]

Captures(x, exec, sub) ==
    CASE x.kind = "expr" -> <<[let |-> "", e |-> Conv[x.body[1]][sub][FALSE]]>>
      [] x.kind = "var"  -> Lets(CapturedOf(x.decls, exec), sub)
      [] OTHER           -> <<>>

(* Mutation: one captured declarator is enough. *)
AnyCaptured(x, exec) ==
    x.kind = "expr" \/ (x.kind = "var" /\ \E i \in DOMAIN x.decls : Captured(x.decls[i], exec))

(* A statement is captured whatever the mode, so it is never transformed.  *)
AllCaptured(x, exec) ==
    x.kind = "expr" \/ (x.kind = "var" /\ \A i \in DOMAIN x.decls : Captured(x.decls[i], exec))

(* An emitted item.  async and the tokio attribute of functions. *)
Emit(kind, name, async, tokio, body) ==
    [kind |-> kind, name |-> name, async |-> async, tokio |-> tokio, body |-> body]

(* convert_fn_decl, and convert_var_decl_module_level with                 *)
(* convert_arrow_var_decl and convert_lit_var_decl: whatever is neither an *)
(* arrow nor a number, boolean or null is passed over.                     *)
EmitFn(x, sub) ==
    LET name == Renamed(x.name, sub)
        async == x.kind = "async fn"
    IN  {Emit("fn", name, async, async /\ name = "main", ConvAll(x.body, sub))}

EmitDecl(d, sub) ==
    CASE d.init.op \in Arrows ->
            {Emit("fn", Renamed(d.name, sub), d.init.op = "async arrow", FALSE, ConvAll(d.init.args, sub))}
      [] d.init.op = "num" -> {Emit("const", d.name, FALSE, FALSE, <<>>)}
      [] OTHER -> {}

(* transform_module_item and transform_decl, of what can be converted. *)
Transformed(x, sub) ==
    CASE x.kind \in Fns   -> EmitFn(x, sub)
      [] x.kind = "var"   -> UNION {EmitDecl(x.decls[i], sub) : i \in DOMAIN x.decls}
      [] x.kind \in Types -> {Emit("type", x.name, FALSE, FALSE, <<>>)}
      [] OTHER            -> {}

(* Control flow, debugger and export default are refused; so is a pattern  *)
(* that would be captured.                                                 *)
Refused(x, exec) ==
    \/ x.kind \in {"control", "debugger", "default"}
    \/ x.kind = "var" /\ \E i \in DOMAIN x.decls : x.decls[i].name = "" /\ Captured(x.decls[i], exec)

-----------------------------------------------------------------------------
(* Expressions with what is inside them. *)
Within[e \in Exprs] == {e} \cup UNION {Within[e.args[i]] : i \in DOMAIN e.args}
WithinAll(es) == UNION {Within[es[i]] : i \in DOMAIN es}
ExprsOf(x) == WithinAll(x.body) \cup UNION {Within[x.decls[k].init] : k \in DOMAIN x.decls}

(* What TypeScript asks of an item: only async functions await.            *)
Items == [kind : Kinds, name : STRING, decls : Seq(Declarators), body : Seq(Exprs)]

WellFormed(x) ==
    /\ x \in Items
    /\ x.kind = "var" <=> x.decls # <<>>
    /\ x.name # "" => x.kind \in Fns \cup Types \cup {"default"}
    /\ \A k, l \in DOMAIN x.decls : (x.decls[k].name = x.decls[l].name /\ x.decls[k].name # "") => k = l
    /\ x.kind = "expr" => Len(x.body) = 1
    /\ x.kind = "fn" => ~AnyAwait(x.body)
    /\ \A e \in ExprsOf(x) : e.op = "arrow" => ~AnyAwait(e.args)

ASSUME ModuleAssumption ==
    /\ \A m \in Modules :
          /\ m \in Seq(Items)
          /\ \A i \in DOMAIN m : WellFormed(m[i]) /\ Declares(m[i]) \cap DOMAIN Library = {}
          /\ \A i, j \in DOMAIN m : i # j => Declares(m[i]) \cap Declares(m[j]) = {}
    /\ \A f \in DOMAIN Library :
          /\ WellFormed(Library[f]) /\ Library[f].kind \in Fns /\ Library[f].name = f
          /\ f \notin MainNames \cup {""}
          /\ \A e \in WithinAll(Library[f].body) : ~CallsMain(e)
    /\ \A sub \in Substitutions, quiet \in BOOLEAN, e \in Exprs : Conv[e][sub][quiet] \in Exprs

-----------------------------------------------------------------------------
Init ==
    /\ module \in Modules
    /\ pos = 1 /\ items = UNION {EmitFn(Library[f], Substitution(module)) : f \in DOMAIN Library}
    /\ mains = <<>> /\ kept = <<>> /\ phase = "convert"

At(kind) == phase = "convert" /\ pos <= Len(module) /\ module[pos].kind = kind

Advance(x) == pos' = pos + 1 /\ kept' = kept \o x /\ UNCHANGED <<module, phase>>

SkipEmpty == At("empty") /\ Advance(<<>>) /\ UNCHANGED <<items, mains>>

(* An item is captured, transformed, or, a var of both sorts, first the    *)
(* one and then the other.                                                 *)
Convert ==
    /\ phase = "convert" /\ pos <= Len(module) /\ module[pos].kind # "empty"
    /\ LET x == module[pos]
           exec == IsExecutable(module)
           sub == Substitution(module)
       IN  /\ ~Refused(x, exec)
           /\ mains' = mains \o Captures(x, exec, sub)
           /\ items' = items \cup (IF AllCaptured(x, exec) THEN {} ELSE Transformed(x, sub))
           /\ Advance(<<x>>)

(* An expression or a function that cannot be converted, or is refused:    *)
(* the item goes to the list of unsupported ones.  Of a var, what was      *)
(* captured before the failing declarator stays, and nothing of it is      *)
(* emitted as an item.                                                     *)
Part(x, n, exec) == IF n = 0 THEN <<>> ELSE <<Var(SubSeq(CapturedOf(x.decls, exec), 1, n))>>

ConvertFails(n) ==
    /\ phase = "convert" /\ pos <= Len(module) /\ module[pos].kind # "empty"
    /\ LET x == module[pos]
           exec == IsExecutable(module)
           all == Captures(x, exec, Substitution(module))
       IN  /\ n <= Len(all)
           /\ n > 0 => x.kind = "var" /\ (n = Len(all) => ~AllCaptured(x, exec))
           /\ \A i \in 1 .. n : all[i].let # ""
           /\ mains' = mains \o SubSeq(all, 1, n)
           /\ Advance(Part(x, n, exec))
    /\ UNCHANGED items

(* synthesize_fn_main: the mode is worked out again from what was          *)
(* captured.                                                               *)
ExecutableNow == mains # <<>> \/ HasTopLevelAwait(module)

AsyncMain(m) == HasTopLevelAwait(m) \/ UserMain(m) = "FnAsync"

Synthesizes(m) == ExecutableNow /\ UserMain(m) # "Collision"

Synthesize ==
    /\ phase = "convert" /\ pos > Len(module)
    /\ items' = items \cup
         IF Synthesizes(module)
         THEN {Emit("fn main", "main", AsyncMain(module), AsyncMain(module), mains)}
         ELSE {}
    /\ phase' = "done"
    /\ UNCHANGED <<module, pos, mains, kept>>

Next == SkipEmpty \/ Convert \/ (\E n \in 0 .. 2 : ConvertFails(n)) \/ Synthesize

Spec == Init /\ [][Next]_vars

-----------------------------------------------------------------------------
(* What the source names, and where. *)
TopExprs(m) ==
    (UNION {WithinAll(m[i].body) : i \in {j \in DOMAIN m : m[j].kind = "expr"}})
      \cup (UNION {UNION {Within[m[i].decls[k].init] : k \in DOMAIN m[i].decls} : i \in DOMAIN m})

DeclsOf(m) == UNION {ToSet(m[i].decls) : i \in DOMAIN m}
ArrowsOf(m) == {d \in DeclsOf(m) : d.init.op \in Arrows}

FnExprs(m) ==
    (UNION {WithinAll(m[i].body) : i \in {j \in DOMAIN m : m[j].kind \in Fns}})
      \cup (UNION {WithinAll(d.init.args) : d \in ArrowsOf(m)})
      \cup (UNION {WithinAll(Library[f].body) : f \in DOMAIN Library})
AllExprs(m) == TopExprs(m) \cup FnExprs(m)

FnNames(m) ==
    DOMAIN Library \cup {m[i].name : i \in {j \in DOMAIN m : m[j].kind \in Fns}}
      \cup {d.name : d \in ArrowsOf(m)}

Literals(m) == {d.name : d \in {c \in DeclsOf(m) : c.init.op = "num"}}

IsAsync(m, f) ==
    \/ f \in DOMAIN Library /\ Library[f].kind = "async fn"
    \/ \E i \in DOMAIN m : m[i].kind = "async fn" /\ m[i].name = f
    \/ \E d \in ArrowsOf(m) : d.init.op = "async arrow" /\ d.name = f

(* What was converted calls nothing that is missing. *)
CallsDeclared(m) == \A e \in AllExprs(m) : e.op = "call" => e.name \in FnNames(m)

(* What the mechanism does not carry over, each named in README.md.        *)

(* The name is taken, which is reported; but a var that declares main      *)
(* before it is taken for the user's main.                                 *)
Reserved(m) == \E i \in DOMAIN m : "__ts_main" \in Named(m[i])

(* An interface or namespace called main, before the function.             *)
TypeHidesMain(m) ==
    \E i, j \in DOMAIN m : i < j /\ m[i].kind = "type" /\ m[i].name = "main" /\ "main" \in Declares(m[j])

(* A literal called main stays an item, next to fn main. *)
ConstMain(m) == \E d \in DeclsOf(m) : d.name = "main" /\ d.init.op = "num"

(* main() in a function that is not async is awaited all the same. *)
SyncCallerOfMain(m) ==
    LET bodies == {m[i].body : i \in {j \in DOMAIN m : m[j].kind = "fn"}}
                    \cup {e.args : e \in {a \in TopExprs(m) : a.op = "arrow"}}
    IN  \E b \in bodies : \E e \in WithinAll(b) : CallsMain(e)

(* A value that is no future is awaited all the same, which TypeScript     *)
(* allows and Rust does not.                                               *)
AwaitsPlain(m) ==
    \E a \in AllExprs(m) : a.op = "await" /\ ~(a.args[1].op = "call" /\ IsAsync(m, a.args[1].name))

(* A variable without a value, a text or a class has neither item nor let. *)
Used(e) == {u.name : u \in {v \in Within[e] : v.op \in Uses}}

ReadsUnemitted(m) ==
    \E d \in DeclsOf(m) : /\ d.init.op \in {"none", "text", "class"}
                         /\ \E e \in AllExprs(m) : e.op \in Uses /\ e.name = d.name

(* Functions do not see the lets of fn main. *)
FnReadsLet(m) ==
    \E e \in FnExprs(m) : e.op \in Uses /\ e.name \notin Literals(m) \cup FnNames(m)

(* main as a value is not renamed, and is then fn main. *)
ReadsMain(m) == \E e \in AllExprs(m) : e.op \in Uses /\ e.name = "main"

(* A closure may look ahead in TypeScript, where a let of Rust may not be. *)
Before(m, i, k) ==
    {d.name : d \in (UNION {ToSet(m[j].decls) : j \in 1 .. i - 1}) \cup {m[i].decls[l] : l \in 1 .. k - 1}}

ReadsAhead(m) ==
    \E i \in DOMAIN m :
       \/ m[i].kind = "expr" /\ ~(Used(m[i].body[1]) \subseteq Before(m, i, 1) \cup FnNames(m))
       \/ \E k \in DOMAIN m[i].decls :
             /\ m[i].decls[k].init.op \notin Arrows
             /\ ~(Used(m[i].decls[k].init) \subseteq Before(m, i, k) \cup FnNames(m))

(* The two computations of the mode differ: a first declarator without     *)
(* initialiser, or everything captured failed.                             *)
ModesAgree == ExecutableNow = IsExecutable(module)

-----------------------------------------------------------------------------
Done == phase = "done"

HasFn(name) == \E f \in items : f.kind = "fn" /\ f.name = name

(* An executable file has one entry: the user's main is renamed exactly    *)
(* when a fn main is synthesized, so there are never two and, where there  *)
(* is something to run, never none.                                        *)
Entries == {f \in items : f.name = "main" /\ f.kind # "type"}

OneEntry ==
    (Done /\ ModesAgree /\ ~Reserved(module) /\ ~ConstMain(module) /\ ~TypeHidesMain(module)) =>
       /\ \A f, g \in Entries : f = g
       /\ IsExecutable(module) => \E f \in Entries : f.kind = "fn main"
       /\ HasFn("__ts_main") => IsExecutable(module)

(* Every function called and variable used in what was emitted is there:   *)
(* calls of main follow its renaming, lets stand before their uses.        *)
Resolves(es, lets) ==
    \A e \in WithinAll(es) :
        /\ e.op = "call" => HasFn(e.name)
        /\ e.op \in Uses => \/ e.name \in lets \/ HasFn(e.name)
                            \/ \E c \in items : c.kind = "const" /\ c.name = e.name

NamesResolve ==
    (/\ CallsDeclared(kept) /\ ~ReadsUnemitted(kept)
     /\ ~FnReadsLet(kept) /\ ~ReadsMain(kept) /\ ~ReadsAhead(kept)) =>
       /\ \A f \in items : f.kind = "fn" => Resolves(f.body, {})
       /\ \A i \in DOMAIN mains : Resolves(<<mains[i].e>>, {mains[j].let : j \in 1 .. i - 1})

(* An await stands in an async function and awaits a future: fn main is    *)
(* async when anything in it is awaited, and nothing is awaited twice.     *)
AwaitsFutures(es) ==
    \A e \in WithinAll(es) :
        e.op = "await" => /\ e.args[1].op = "call"
                          /\ \E f \in items : f.kind = "fn" /\ f.name = e.args[1].name /\ f.async

AwaitsStand ==
    (/\ CallsDeclared(kept) /\ ~AwaitsPlain(kept)
     /\ ~(UserMain(module) = "FnAsync" /\ SyncCallerOfMain(kept))) =>
       \A f \in items :
          LET es == IF f.kind = "fn" THEN f.body
                    ELSE IF f.kind = "fn main" THEN [i \in DOMAIN f.body |-> f.body[i].e] ELSE <<>>
          IN  AwaitsFutures(es) /\ (AnyAwait(es) => f.async)
=============================================================================
