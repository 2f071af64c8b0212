--------------------------- MODULE StatementRuns ----------------------------
(***************************************************************************)
(* What running the statements of either language does.  The answers come  *)
(* from outside, so that a body is run against every sequence of them;     *)
(* what a run leaves behind is the log of its marks and questions and how  *)
(* it ended.                                                               *)
(***************************************************************************)
EXTENDS Statements

Going == <<"on", "">>
Cut == <<"cut", "">>                \* no answer left
Panic == <<"panic", "">>
MaxTurns == 12                      \* of loops, should one ask nothing

Start(answers) ==
    [log |-> <<>>, answers |-> answers, lets |-> <<>>, defers |-> <<>>, turns |-> 0, out |-> Going]

Out(s, how) == [s EXCEPT !.out = how]
On(s) == Out(s, Going)
Log(s, n) == [s EXCEPT !.log = Append(@, n)]
Asked(s) == [Log(s, "?") EXCEPT !.answers = Tail(@)]
Answer(s) == Head(s.answers)
Decide(s, yes, no) == IF s.answers = <<>> THEN Out(s, Cut) ELSE IF Answer(s) = "p" THEN yes ELSE no

(* The innermost declaration of a variable, 0 if there is none. *)
Innermost(s, v) == SelectLastInSeq(s.lets, LAMBDA l : l.var = v)
Declare(s, v, x) == [s EXCEPT !.lets = Append(@, [var |-> v, val |-> x])]
Holds(s, v, x) == Innermost(s, v) # 0 /\ s.lets[Innermost(s, v)].val = x

(* The statements run by a switch on a: those of the case, or else of the  *)
(* default, and of what follows it.                                        *)
Selected(x, a) ==
    LET hit == SelectInSeq(x.tests, LAMBDA t : a \in t)
        i   == IF hit # 0 THEN hit ELSE SelectInSeq(x.tests, IsDefault)
    IN  IF i = 0 THEN <<>> ELSE FlattenSeq(SubSeq(x.subs, i, Len(x.subs)))

Arm(x, a) == SelectInSeq(x.tests, LAMBDA ts : a \in ts \/ "_" \in ts)

(* What the guards of a match on a call compare it with, in turn: it is    *)
(* called once for the match and once for each of them, wildcards apart.   *)
Tries(x) ==
    FlattenSeq([i \in DOMAIN x.tests |->
        LET ts == SetToSeq(x.tests[i]) IN [k \in DOMAIN ts |-> [arm |-> i, test |-> ts[k]]]])

LeavesLoop(x, t) == t.out \in {<<"break", "">>, <<"break", x.label>>}
StaysInLoop(x, t) == t.out \in {Going, <<"continue", "">>, <<"continue", x.label>>}

RECURSIVE Step(_, _), Run(_, _), Scoped(_, _), RunDefers(_), Iterate(_, _), TryArms(_, _, _)

Run(ss, s) == IF ss = <<>> \/ s.out # Going THEN s ELSE Run(Tail(ss), Step(Head(ss), s))

(* A list in a scope of its own: its declarations end with it, and what it *)
(* deferred is run, last first.                                            *)
Scoped(ss, s) ==
    LET t == RunDefers(Run(ss, [s EXCEPT !.defers = <<>>]))
    IN  [t EXCEPT !.lets = SubSeq(@, 1, Len(s.lets)), !.defers = s.defers]

RunDefers(s) ==
    IF s.defers = <<>> \/ s.out = Cut THEN s
    ELSE LET t == Scoped(Last(s.defers), On([s EXCEPT !.defers = Front(@)]))
         IN  RunDefers(IF t.out = Cut THEN t ELSE Out(t, s.out))

TryArms(x, tries, s) ==
    CASE tries = <<>> -> Out(s, Panic)
      [] tries # <<>> /\ Head(tries).test = "_" -> Scoped(x.subs[Head(tries).arm], s)
      [] OTHER -> IF s.answers = <<>> THEN Out(s, Cut)
                  ELSE IF Answer(s) = Head(tries).test THEN Scoped(x.subs[Head(tries).arm], Asked(s))
                  ELSE TryArms(x, Tail(tries), Asked(s))

Iterate(x, s) ==
    LET t == Scoped(x.subs[1], s) IN
    IF LeavesLoop(x, t) THEN On(t)
    ELSE IF ~StaysInLoop(x, t) THEN t
    ELSE CASE x.op = "while"   -> Step(x, On(t))
           [] x.op = "for"     -> Step(x, Log(On(t), "update"))
           [] x.op = "doWhile" -> Decide(t, Step(x, On(Asked(t))), On(Asked(t)))
           [] x.op = "loop"    -> IF t.turns = MaxTurns THEN Out(t, Panic)
                                  ELSE Step(x, [On(t) EXCEPT !.turns = @ + 1])

Step(x, s) ==
    CASE x.op = "mark"  -> Log(s, x.label)
      [] x.op \in JumpOps ->  Out(s, <<x.op, x.label>>)
      [] x.op = "if"    -> Decide(s, Scoped(x.subs[1], Asked(s)), Scoped(x.subs[2], Asked(s)))
      [] x.op = "braces" -> Scoped(x.subs[1], s)
      [] x.op \in {"while", "for"} -> Decide(s, Iterate(x, Asked(s)), Asked(s))
      [] x.op \in {"doWhile", "loop"} -> Iterate(x, s)
      [] x.op = "switch" ->
            IF s.answers = <<>> THEN Out(s, Cut)
            ELSE LET t == Scoped(Selected(x, Answer(s)), Asked(s))
                 IN  IF t.out = <<"break", "">> THEN On(t) ELSE t
      [] x.op = "try" ->
            LET t == Scoped(x.subs[1], s)
                u == IF Handled(x) /\ t.out = <<"throw", "">> THEN Scoped(x.subs[2], On(t)) ELSE t
                v == Scoped(x.subs[3], On(u))
            IN  IF u.out = Cut THEN u ELSE IF v.out = Going THEN Out(v, u.out) ELSE v
      [] x.op = "let"   -> Declare(s, x.label, "no")
      [] x.op = "set"   -> IF Innermost(s, x.label) = 0 THEN Out(s, Panic)
                           ELSE [s EXCEPT !.lets[Innermost(s, x.label)].val = "yes"]
      [] x.op = "ifSet" -> IF Holds(s, x.label, "yes") THEN Scoped(x.subs[1], s) ELSE s
      [] x.op = "unless" -> Decide(s, Asked(s), Scoped(x.subs[1], Asked(s)))
      [] x.op = "block" -> LET t == Scoped(x.subs[1], s)
                           IN  IF t.out = <<"break", x.label>> THEN On(t) ELSE t
      [] x.op = "value" -> IF s.answers = <<>> THEN Out(s, Cut)
                           ELSE Declare(Asked(s), "value", Answer(s))
      [] x.op = "ifCase" /\ x.label = "call" ->
            IF s.answers = <<>> THEN Out(s, Cut)
            ELSE IF Answer(s) \in x.tests[1] \/ Holds(s, "_fall", "yes") THEN Scoped(x.subs[1], Asked(s))
            ELSE Asked(s)
      [] x.op = "ifCase" /\ x.label # "call" ->
            IF Holds(s, "_fall", "yes") \/ \E a \in x.tests[1] : Holds(s, "value", a)
            THEN Scoped(x.subs[1], s) ELSE s
      [] x.op = "match" ->
            IF s.answers = <<>> THEN Out(s, Cut)
            ELSE IF x.label = "call" THEN TryArms(x, Tries(x), Asked(s))
            ELSE IF Arm(x, Answer(s)) = 0 THEN Out(s, Panic)
            ELSE Scoped(x.subs[Arm(x, Answer(s))], Asked(s))
      [] x.op = "defer" -> [s EXCEPT !.defers = Append(@, x.subs[1])]
      [] x.op = "unreachable" -> Out(s, Panic)

Behaviour(ss, answers) == LET t == Scoped(ss, Start(answers)) IN <<t.log, t.out>>
=============================================================================
