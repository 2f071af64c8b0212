------------------------------ MODULE Lowering ------------------------------
(***************************************************************************)
(* The lowering of control flow, src/src/transformer/statements: try to a  *)
(* labeled block and flags (error_handling.rs), do-while and the general   *)
(* for to a loop (loops.rs), switch to a match or to a chain of ifs        *)
(* (switch.rs); and the machine that builds every small function body,     *)
(* whose translation is looked at.  What runs it is LoweringRuns.          *)
(***************************************************************************)
EXTENDS Statements

CONSTANTS
    Jumps,      \* the leaves bodies are built from
    Wraps,      \* the constructs put around a body
    MaxSteps    \* how often a body is extended

VARIABLES body, steps

vars == <<body, steps>>

-----------------------------------------------------------------------------
(* The three walks over lowered statements: TryBodyRewrite::rewrite,       *)
(* rewrite_do_while_body (with has_continue_targeting_do_while) and        *)
(* rewrite_nested_bare_break_in_stmts.  A rule says which one, how deep in *)
(* loops it is, the loop's label in the source and in the output.          *)
Rules == [by : {"try", "switch", "doWhile"}, depth : Nat, label : Labels, loop : Labels]
Rule(by, label, loop) == [by |-> by, depth |-> 0, label |-> label, loop |-> loop]
TryRule == Rule("try", "", "")
SwitchRule == Rule("switch", "", "")

(* Mutation: a bare break in a do-while body is left as it is. *)
HitContinueOnly(x, r) ==
    LET bare == r.depth = 0 /\ x.label = "" IN
    CASE r.by = "try"     -> x.op = "throw" \/ (x.op \in {"break", "continue"} /\ bare)
      [] r.by = "switch"  -> x = Break("")
      [] r.by = "doWhile" -> x.op = "continue" /\ (bare \/ (x.label # "" /\ x.label = r.label))

Hit(x, r) ==
    LET bare == r.depth = 0 /\ x.label = "" IN
    CASE r.by = "try"     -> x.op = "throw" \/ (x.op \in {"break", "continue"} /\ bare)
      [] r.by = "switch"  -> x = Break("")
      [] r.by = "doWhile" -> \/ x.op \in {"break", "continue"} /\ bare
                             \/ x.op = "continue" /\ x.label # "" /\ x.label = r.label

FlagOf(x) == CASE x.op = "throw"    -> "_try_result"
               [] x.op = "break"    -> "_try_break"
               [] x.op = "continue" -> "_try_continue"

Replace(x, r) ==
    CASE r.by = "try"     -> <<Set(FlagOf(x)), Break(TryBlock)>>
      [] r.by = "switch"  -> <<Break(SwitchBlock)>>
      [] r.by = "doWhile" -> <<Break(IF x.op = "continue" THEN DoWhileBlock ELSE r.loop)>>

(* Closures are never entered; a try leaves the block of an inner try      *)
(* alone, a switch every block and loop.                                   *)
Skips(x, r) ==
    \/ x.op = "defer"
    \/ r.by = "try" /\ x.op = "block" /\ x.label = TryBlock
    \/ r.by = "switch" /\ x.op \in Loops \cup {"block"}

Inside(x, r) == [r EXCEPT !.depth = IF x.op \in Loops THEN @ + 1 ELSE @]

(* What a list becomes, one list for each of its statements.               *)
RewriteStmt(x, r, subs) ==
    IF Hit(x, r) THEN Replace(x, r) ELSE IF Skips(x, r) THEN <<x>> ELSE <<[x EXCEPT !.subs = subs]>>

Walks == Bodies \X Rules

Rewritten[w \in Walks] ==
    LET ss == w[1]
        r  == w[2]
    IN  FlattenSeq([i \in DOMAIN ss |->
            RewriteStmt(ss[i], r,
                [j \in DOMAIN ss[i].subs |-> Rewritten[<<ss[i].subs[j], Inside(ss[i], r)>>]])])

Rewrite(ss, r) == Rewritten[<<ss, r>>]

(* The jumps it replaces. *)
HitsOf(x, r, inside) == IF Hit(x, r) THEN {x.op} ELSE IF Skips(x, r) THEN {} ELSE inside

HitsIn[w \in Walks] ==
    LET ss == w[1]
        r  == w[2]
    IN  UNION {HitsOf(ss[i], r,
                  UNION {HitsIn[<<ss[i].subs[j], Inside(ss[i], r)>>] : j \in DOMAIN ss[i].subs}) :
               i \in DOMAIN ss}

Hits(ss, r) == HitsIn[<<ss, r>>]

-----------------------------------------------------------------------------
(* convert_do_while_stmt *)
LowerDoWhile(x, b) ==
    LET loop == IF x.label = "" THEN DoWhileLoop ELSE x.label
        r    == Rule("doWhile", x.label, loop)
    IN  IF "continue" \in Hits(b, r)
        THEN <<Loop("loop", loop, <<Block(DoWhileBlock, Rewrite(b, r)), Unless(<<Break(loop)>>)>>)>>
        ELSE <<Loop("loop", x.label, Append(b, Unless(<<Break("")>>)))>>

(* convert_for_stmt_as_loop *)
LowerFor(b) == <<Loop("loop", "", <<Unless(<<Break("")>>)>> \o b \o <<Mark("update")>>)>>

(* convert_try_stmt, with the bodies lowered *)
EndsWithReturn[ss \in Bodies] ==
    /\ ss # <<>>
    /\ \/ Last(ss).op \in {"return", "throw"}
       \/ /\ Last(ss).op \in {"if", "match"}
          /\ \A j \in DOMAIN Last(ss).subs : EndsWithReturn[Last(ss).subs[j]]

LowerTry(x, b, catch, finally) ==
    LET guard  == IF Finalized(x) THEN <<Defer(finally)>> ELSE <<>>
        hits   == Hits(b, TryRule)
        expand == Rewrite(b, TryRule)
        flag(op, stmt) == IF op \in hits THEN <<stmt>> ELSE <<>>
    IN  IF ~Handled(x) THEN guard \o b
        ELSE IF EndsWithReturn[expand] /\ hits = {} THEN guard \o expand
        ELSE guard \o <<Let("_try_result")>>
             \o flag("break", Let("_try_break")) \o flag("continue", Let("_try_continue"))
             \o <<Block(TryBlock, expand)>>
             \o flag("break", IfSet("_try_break", <<Break("")>>))
             \o flag("continue", IfSet("_try_continue", <<Continue("")>>))
             \o <<IfSet("_try_result", catch)>>
             \o IF EndsWithReturn[expand] /\ EndsWithReturn[catch] THEN <<Unreachable>> ELSE <<>>

-----------------------------------------------------------------------------
(* is_case_terminated *)
IsTerminated[b \in Bodies] ==
    /\ b # <<>>
    /\ \/ Last(b).op \in {"break", "return", "throw", "continue"}
       \/ Last(b).op = "braces" /\ IsTerminated[Last(b).subs[1]]

HasCodeFallthrough(x) ==
    \E i \in 1 .. Len(x.subs) - 1 : x.subs[i] # <<>> /\ ~IsTerminated[x.subs[i]]

(* convert_switch_case_body: a case's statements, lowered, but for those   *)
(* it drops.                                                               *)
Dropped(s, dropContinue) == s.op = "break" \/ (dropContinue /\ s.op = "continue")

CaseBody(b, lowered, dropContinue) ==
    FlattenSeq([k \in DOMAIN b |-> IF Dropped(b[k], dropContinue) THEN <<>> ELSE lowered[k]])

(* The case a nonempty one is an arm for: itself and the empty ones right  *)
(* before it.  An empty default gives no pattern.                          *)
Pending(x, i) ==
    {j \in 1 .. i : /\ \A k \in j .. i - 1 : x.subs[k] = <<>>
                    /\ j < i => ~IsDefault(x.tests[j])}

Pattern(t) == IF IsDefault(t) THEN {"_"} ELSE t

(* Literal patterns that are numbers become the guard of a wildcard, which *)
(* then stands for them alone.                                             *)
Patterns(x, i) ==
    LET ps == UNION {Pattern(x.tests[j]) : j \in Pending(x, i)}
    IN  IF x.label \in {"number", "call"} /\ ps # {"_"} THEN ps \ {"_"} ELSE ps

(* An arm: its patterns, and the case whose body it has. *)
ArmOf(tests, case) == [tests |-> tests, case |-> case]

(* typeof binds the variable at its type, so every pattern is an arm of    *)
(* its own, a default after them, and a trailing empty case an empty arm.  *)
TypeofArms(x) ==
    LET n == Len(x.subs)
        empty(k) == x.subs[k] = <<>> /\ ~IsDefault(x.tests[k])
        arms(i) ==
            IF empty(i) THEN <<>>
            ELSE SetToSeq({ArmOf(x.tests[j], i) :
                     j \in {k \in 1 .. i : /\ ~IsDefault(x.tests[k])
                                           /\ \A m \in k .. i - 1 : empty(m)}})
                 \o (IF IsDefault(x.tests[i]) THEN <<ArmOf({"_"}, i)>> ELSE <<>>)
        trailing == {k \in 1 .. n : \A m \in k .. n : empty(m)}
    IN  FlattenSeq([i \in 1 .. n |-> arms(i)])
          \o SetToSeq({ArmOf(x.tests[k], k) : k \in trailing})

PlainArms(x) ==
    FlattenSeq([i \in 1 .. Len(x.subs) |->
        IF x.subs[i] = <<>> THEN <<>> ELSE <<ArmOf(Patterns(x, i), i)>>])

(* Mutation: the default stays where it is. *)
WildcardInPlace(arms) == arms

(* move_wildcard_arm_to_end *)
WildcardLast(arms) ==
    SelectSeq(arms, LAMBDA a : "_" \notin a.tests) \o SelectSeq(arms, LAMBDA a : "_" \in a.tests)

(* wrap_match_with_switch_label_if_needed *)
WrapIfNeeded(m) ==
    IF Hits(<<m>>, SwitchRule) = {} THEN <<m>> ELSE <<Block(SwitchBlock, Rewrite(<<m>>, SwitchRule))>>

(* The match of convert_switch_clean_match, of a string enum or a          *)
(* discriminated union, and of a typeof.                                   *)
LowerMatch(x, lowered) ==
    LET arms == WildcardLast(IF x.label = "typeof" THEN TypeofArms(x) ELSE PlainArms(x))
        run(i) == CaseBody(x.subs[arms[i].case], lowered[arms[i].case], TRUE)
    IN  WrapIfNeeded(Match(x.label, [i \in DOMAIN arms |-> arms[i].tests],
                           [i \in DOMAIN arms |-> run(i)]))

(* convert_switch_fallthrough: what is switched on is copied into the      *)
(* condition of every case.                                                *)
LowerChain(x, lowered) ==
    LET link(i) ==
            LET b == Rewrite(CaseBody(x.subs[i], lowered[i], FALSE), SwitchRule)
            IN  IF IsDefault(x.tests[i]) THEN b
                ELSE <<IfCase(x.label, x.tests[i],
                          Append(b, IF x.subs[i] # <<>> /\ Last(x.subs[i]).op = "break"
                                    THEN Break(SwitchBlock) ELSE Set("_fall")))>>
        value == IF x.label = "call" THEN <<>> ELSE <<Value>>
    IN  <<Block(SwitchBlock,
            value \o <<Let("_fall")>> \o FlattenSeq([i \in DOMAIN x.subs |-> link(i)]))>>

(* convert_switch_stmt: the enum paths come first and do not look for      *)
(* fall-through, the typeof path steps back when there is some.            *)
IsChain(x) == x.label # "enum" /\ HasCodeFallthrough(x)

LowerSwitch(x, lowered) == IF IsChain(x) THEN LowerChain(x, lowered) ELSE LowerMatch(x, lowered)

(* convert_stmt: what each statement of a list becomes, given what those   *)
(* in its own lists become.                                                *)
LowerStmt(x, lowered) ==
    LET sub(j) == FlattenSeq(lowered[j])
    IN  CASE x.op = "braces"  -> sub(1)
          [] x.op = "doWhile" -> LowerDoWhile(x, sub(1))
          [] x.op = "for"     -> LowerFor(sub(1))
          [] x.op = "try"     -> LowerTry(x, sub(1), sub(2), sub(3))
          [] x.op = "switch"  -> LowerSwitch(x, lowered)
          [] OTHER            -> <<[x EXCEPT !.subs = [j \in DOMAIN @ |-> sub(j)]]>>

Lowered[ss \in Bodies] ==
    [i \in DOMAIN ss |-> LowerStmt(ss[i], [j \in DOMAIN ss[i].subs |-> Lowered[ss[i].subs[j]]])]

Lower(ss) == FlattenSeq(Lowered[ss])

-----------------------------------------------------------------------------
(* Every body that is built from a mark by putting a jump under a          *)
(* condition before it, a jump after it, or a construct around it; the     *)
(* last step is a construct.                                               *)
Constructs ==
    {"if", "while", "for", "do", "doL", "try", "catch", "closing", "finally", "all",
     "case", "default", "braces", "enum", "tail", "typeof", "call", "calls"}

(* A body is at most twice as deep as it took steps; lowering takes a      *)
(* statement to three inside each other.                                   *)
ASSUME BoundsAssumption ==
    MaxSteps \in Nat /\ MaxDepth \in Nat /\ MaxDepth >= 3 * (2 * MaxSteps + 1)

ASSUME SourceAssumption ==
    /\ {"start", "caught", "try", "finally", "default", "p", "q", "after", "L"} \subseteq Names
    /\ \A j \in Jumps : j.op \in JumpOps /\ j.label \in Names \cup {""} /\ j = Leaf(j.op, j.label)
    /\ Wraps \subseteq Constructs

Construct(w, b) ==
    CASE w = "if"      -> If(b, <<Return>>)
      [] w = "while"   -> Loop("while", "L", b)
      [] w = "for"     -> Loop("for", "", b)
      [] w = "do"      -> Loop("doWhile", "", b)
      [] w = "doL"     -> Loop("doWhile", "L", b)
      [] w = "try"     -> Try("catch", b, <<Mark("caught")>>, <<>>)
      [] w = "catch"   -> Try("catch", <<Throw>>, b, <<>>)
      [] w = "closing" -> Try("finally", <<Mark("try")>>, <<>>, b)
      [] w = "finally" -> Try("finally", b, <<>>, <<Mark("finally")>>)
      [] w = "all"     -> Try("both", b, <<Mark("caught")>>, <<Mark("finally")>>)
      [] w = "case"    -> Switch("number", <<{"p"}, {"q"}, {"default"}>>, <<<<>>, b, <<Mark("default")>>>>)
      [] w = "default" -> Switch("number", <<{"p"}, {"default"}, {"q"}>>,
                                 <<<<Mark("p"), Break("")>>, b, <<Mark("q")>>>>)
      [] w = "braces"  -> Switch("string", <<{"p"}, {"default"}>>,
                                 <<<<Braces(Append(b, Break("")))>>, <<Return>>>>)
      [] w = "enum"    -> Switch("enum", <<{"p"}, {"q"}>>, <<b, <<Mark("q")>>>>)
      [] w = "tail"    -> Switch("enum", <<{"default"}, {"q"}>>, <<b, <<>>>>)
      [] w = "typeof"  -> Switch("typeof", <<{"p"}, {"default"}, {"q"}>>, <<<<>>, b, <<>>>>)
      [] w = "call"    -> Switch("call", <<{"p"}, {"default"}>>, <<b, <<Mark("default")>>>>)
      [] w = "calls"   -> Switch("call", <<{"q"}, {"p"}, {"default"}>>, <<b, <<>>, <<Return>>>>)

Init == body = <<Mark("start")>> /\ steps = 0

Extend(b) ==
    /\ steps < MaxSteps
    /\ steps' = steps + 1
    /\ body' = b

BeforeIf(j) == steps < MaxSteps - 1 /\ Extend(<<If(<<j>>, <<>>)>> \o body)

After(j) == steps < MaxSteps - 1 /\ Last(body).op \notin JumpOps /\ Extend(Append(body, j))

Wrap(w) == Extend(<<Construct(w, body), Mark("after")>>)

(* With nothing after it, which is where a finally is not late. *)
Enclose(w) == Finalized(Construct(w, body)) /\ Extend(<<Construct(w, body)>>)

Next ==
    \/ \E j \in Jumps : BeforeIf(j) \/ After(j)
    \/ \E w \in Wraps : Wrap(w) \/ Enclose(w)

Spec == Init /\ [][Next]_vars

-----------------------------------------------------------------------------
(* The function whose body this is returns at its end. *)
Function == Append(body, Return)

(* Without a switch, and without a jump out of a finally, what try,        *)
(* do-while and for become is always accepted: the flags and labels are    *)
(* there where they are used, and no bare jump is left in a labeled block. *)
JumpsAreAccepted ==
    (/\ LegalBody(Function)
     /\ \A x \in StmtsIn(Function) :
           /\ x.op # "switch"
           /\ Finalized(x) => \A y \in StmtsIn(x.subs[3]) : y.op = "mark") =>
       AcceptedBody(Lower(Function))
=============================================================================
