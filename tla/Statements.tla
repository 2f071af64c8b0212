----------------------------- MODULE Statements -----------------------------
(***************************************************************************)
(* The statements the transpiler translates between: the control flow of a *)
(* TypeScript function body and of the Rust one generated for it, and what *)
(* the two compilers ask of a jump.                                        *)
(*                                                                         *)
(* Abstraction.  Expressions are gone but for their outcome: a condition   *)
(* is answered "p" (true) or "q", a switched-on value is one of the same   *)
(* two: of a variable, or of a call (kind "call", compared as a number is) *)
(* that is answered anew, and has its effects, each time it is evaluated.  *)
(* A mark stands for any statement with an effect.  Variables are those    *)
(* the translation itself declares.                                        *)
(*                                                                         *)
(* Neither language is part of the repository: the first is TypeScript's,  *)
(* the second is the Stmt of src/src/ir as generator/statements prints it, *)
(* by Rust's rules.                                                        *)
(***************************************************************************)
EXTENDS Integers, Sequences, SequencesExt

CONSTANTS
    Names,      \* the labels and the marks of the source
    MaxDepth    \* how deep statements are nested, in what a body becomes

Answers == {"p", "q"}

(* label: of a loop or block, of a jump's target, of a mark; kind of a     *)
(* switch, parts of a try, variable of a let or assignment.  tests: of the *)
(* cases of a switch or the arms of a match, the values each is for.       *)
(* subs: the statement lists inside.                                       *)
Stmt(op, label, tests, subs) == [op |-> op, label |-> label, tests |-> tests, subs |-> subs]

Leaf(op, label) == Stmt(op, label, <<>>, <<>>)
Mark(n) == Leaf("mark", n)
Break(l) == Leaf("break", l)
Continue(l) == Leaf("continue", l)
Return == Leaf("return", "")
Throw == Leaf("throw", "")          \* in Rust: return Err(...)
If(a, b) == Stmt("if", "", <<>>, <<a, b>>)
Loop(op, l, b) == Stmt(op, l, <<>>, <<b>>)
Braces(b) == Stmt("braces", "", <<>>, <<b>>)
(* catch and finally are empty if there is none: parts says which.         *)
Try(parts, b, catch, finally) == Stmt("try", parts, <<>>, <<b, catch, finally>>)
Handled(x) == x.op = "try" /\ x.label \in {"catch", "both"}
Finalized(x) == x.op = "try" /\ x.label \in {"finally", "both"}
Switch(kind, tests, bodies) == Stmt("switch", kind, tests, bodies)
IsDefault(test) == "default" \in test

(* Rust only. *)
Let(v) == Leaf("let", v)                                \* a false flag, or Ok(())
Set(v) == Leaf("set", v)                                \* = true, or = Err(...)
IfSet(v, b) == Stmt("ifSet", v, <<>>, <<b>>)
Unless(b) == Stmt("unless", "", <<>>, <<b>>)            \* if !condition
Block(l, b) == Stmt("block", l, <<>>, <<b>>)
Match(kind, tests, bodies) == Stmt("match", kind, tests, bodies)
IfCase(kind, t, b) == Stmt("ifCase", kind, <<t>>, <<b>>)    \* if x == t || _fall
Defer(b) == Stmt("defer", "", <<>>, <<b>>)              \* scopeguard::guard
Value == Leaf("value", "")              \* the x of the ifCases, unless it is a call
Unreachable == Leaf("unreachable", "")

JumpOps == {"return", "throw", "break", "continue"}
Loops == {"while", "for", "doWhile", "loop"}

-----------------------------------------------------------------------------
(* Lists of statements up to a depth.                                      *)
Ops == JumpOps \cup Loops
         \cup {"mark", "if", "braces", "try", "switch", "let", "set", "ifSet", "unless", "block",
               "match", "ifCase", "defer", "value", "unreachable"}

(* What the translation adds to the labels and variables, and the kinds. *)
TryBlock == "__ts_try_block"
SwitchBlock == "__ts_switch"
DoWhileBlock == "__ts_do_while"
DoWhileLoop == "__ts_do_while_loop"
Variables == {"_try_result", "_try_break", "_try_continue", "_fall"}

Labels == Names \cup Variables
            \cup {"", TryBlock, SwitchBlock, DoWhileBlock, DoWhileLoop, "update",
                  "number", "call", "string", "enum", "typeof", "catch", "finally", "both"}

Tests == SUBSET (Answers \cup {"default", "_"})

Nodes(lists) == [op : Ops, label : Labels, tests : Seq(Tests), subs : Seq(lists)]

Lists[n \in Nat] == IF n = 0 THEN {<<>>} ELSE Seq(Nodes(Lists[n - 1]))

Bodies == Lists[MaxDepth]

(* A list with all the lists inside it, and the statements in them. *)
ListsIn[ss \in Bodies] ==
    {ss} \cup UNION {UNION {ListsIn[ss[i].subs[j]] : j \in DOMAIN ss[i].subs} : i \in DOMAIN ss}

StmtsIn(ss) == UNION {ToSet(l) : l \in ListsIn[ss]}

-----------------------------------------------------------------------------
(* What the two compilers insist on, told from the jumps that leave a      *)
(* list.  Some cannot leave: a jump without a label stands directly in a   *)
(* loop, not in a labeled block inside it (E0695); none goes out of a      *)
(* guard's closure (E0267), which returns nothing; and a match has an arm  *)
(* for everything (E0004).                                                 *)
Jump(op, label) == <<op, label>>
Bare == {Jump("break", ""), Jump("continue", "")}
Wrong == Jump("error", "")

Exhaustive(x) ==
    \/ \E i \in DOMAIN x.tests : "_" \in x.tests[i]
    \/ x.label \in {"enum", "typeof"} /\ Answers \subseteq UNION {x.tests[i] : i \in DOMAIN x.tests}

WrongIf(p) == IF p THEN {Wrong} ELSE {}

(* Those that leave a statement, from those that leave the lists in it. *)
Leaving(x, inside) ==
    CASE x.op \in JumpOps  -> inside \cup {Jump(x.op, x.label)}
      [] x.op \in Loops    -> inside \ (Bare \cup {Jump(op, x.label) : op \in {"break", "continue"}})
      [] x.op = "switch"   -> inside \ {Jump("break", "")}
      [] x.op = "block"    -> (inside \ (Bare \cup {Jump("break", x.label)}))
                                \cup WrongIf(inside \cap Bare # {})
      [] x.op = "defer"    -> WrongIf(inside # {})
      [] x.op = "match"    -> inside \cup WrongIf(~Exhaustive(x))
      [] OTHER             -> inside

Exits[ss \in Bodies] ==
    UNION {Leaving(ss[i], UNION {Exits[ss[i].subs[j]] : j \in DOMAIN ss[i].subs}) : i \in DOMAIN ss}

(* Only returning and throwing leave a function: a label is in scope where *)
(* it is used (E0426).                                                     *)
FunctionExits == {Jump("return", ""), Jump("throw", "")}

(* TypeScript: and no loop is in one of its label. *)
LegalBody(ss) ==
    /\ Exits[ss] \subseteq FunctionExits
    /\ \A x \in StmtsIn(ss) :
          (x.op \in Loops /\ x.label # "") =>
             \A y \in StmtsIn(x.subs[1]) : ~(y.op \in Loops /\ y.label = x.label)

AcceptedBody(ss) == Exits[ss] \subseteq FunctionExits
=============================================================================
