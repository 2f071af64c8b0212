---------------------------- MODULE LoweringRuns ----------------------------
(***************************************************************************)
(* Running a function and its translation, and comparing what they do.     *)
(***************************************************************************)
EXTENDS Lowering, StatementRuns

CONSTANT MaxAnswers     \* answers in a run

-----------------------------------------------------------------------------
(* The constructs whose lowering loses something, each on its own line in  *)
(* README.md.  What is left is lowered right.                              *)
DefaultAt(x) == SelectInSeq(x.tests, IsDefault)

(* `continue` in a general for goes past its update. *)
ForSkipsUpdate(x) == x.op = "for" /\ "continue" \in Hits(x.subs[1], Rule("doWhile", "", ""))

(* A jump that is a statement of the case itself is dropped: continue, a   *)
(* labeled break, a break with something after it.                         *)
CaseLosesJump(x) ==
    x.op = "switch" /\ \E i \in DOMAIN x.subs : \E k \in DOMAIN x.subs[i] :
        \/ x.subs[i][k].op = "continue" /\ ~IsChain(x)
        \/ x.subs[i][k].op = "break" /\ (k < Len(x.subs[i]) \/ x.subs[i][k].label # "")

(* In a chain the default runs whenever it is reached. *)
DefaultRunsEarly(x) ==
    x.op = "switch" /\ IsChain(x) /\ DefaultAt(x) \notin {0, Len(x.subs)}

(* A switch on a string enum or a discriminated union does not fall        *)
(* through.                                                                *)
EnumStopsFalling(x) == x.op = "switch" /\ x.label = "enum" /\ HasCodeFallthrough(x)

(* Empty cases at the end have no arm, so the default takes them; a typeof *)
(* switch gives an empty default an arm of its own.                        *)
DefaultTakesOthers(x) ==
    x.op = "switch" /\ ~IsChain(x) /\ DefaultAt(x) # 0
      /\ IF x.label = "typeof" THEN DefaultAt(x) < Len(x.subs) /\ x.subs[DefaultAt(x)] = <<>>
         ELSE x.subs[Len(x.subs)] = <<>>

(* A call that is switched on is made again by every case of a chain but   *)
(* the first that is reached, and by every guard of a match.               *)
AsksAgain(x) ==
    /\ x.op = "switch" /\ x.label = "call"
    /\ IF IsChain(x)
       THEN \E i, j \in DOMAIN x.tests : i < j /\ ~IsDefault(x.tests[i]) /\ ~IsDefault(x.tests[j])
       ELSE \E i \in DOMAIN PlainArms(x) : PlainArms(x)[i].tests # {"_"}

(* A finally runs at the end of the list its try stands in. *)
FinallyRunsLate(x) ==
    x.op \in {"for", "doWhile"} /\ \E k \in DOMAIN x.subs[1] : Finalized(x.subs[1][k])
FinallyWaits(l) ==
    \E k \in 1 .. Len(l) - 1 :
        Finalized(l[k]) /\ l[k + 1].op \notin JumpOps

(* What leaves an outer try from the list an inner one was spread into,    *)
(* after it or in its catch, sets the flag the inner one declared.         *)
FlagCaptured(x) ==
    Handled(x) /\ \E l \in ListsIn[Lower(x.subs[1])] : \E k \in DOMAIN l :
        l[k] = Let("_try_result") /\ Hits(SubSeq(l, k, Len(l)), TryRule) # {}

(* `continue L` from an inner do-while with a block of its own leaves that *)
(* block.                                                                  *)
ContinueCaptured(x) ==
    /\ x.op = "doWhile" /\ x.label # ""
    /\ \E y \in StmtsIn(x.subs[1]) :
          /\ y.op = "doWhile" /\ Continue(x.label) \in StmtsIn(y.subs[1])
          /\ "continue" \in Hits(Lower(y.subs[1]), Rule("doWhile", "", ""))

RECURSIVE LosesNothing(_)
LosesNothing(ss) ==
    /\ ~FinallyWaits(ss)
    /\ \A i \in DOMAIN ss :
          LET x == ss[i] IN
          /\ ~ForSkipsUpdate(x) /\ ~CaseLosesJump(x) /\ ~DefaultRunsEarly(x)
          /\ ~EnumStopsFalling(x) /\ ~DefaultTakesOthers(x) /\ ~FinallyRunsLate(x) /\ ~AsksAgain(x)
          /\ ~FlagCaptured(x) /\ ~ContinueCaptured(x)
          /\ \A k \in DOMAIN x.subs : LosesNothing(x.subs[k])

-----------------------------------------------------------------------------
Same(ss, out) ==
    \A answers \in [1 .. MaxAnswers -> Answers] : Behaviour(ss, answers) = Behaviour(out, answers)

(* A translation rustc accepts does what the function did, mark by mark    *)
(* and question by question, and ends as it did - returning, throwing to   *)
(* its caller, still running - unless it has a construct named above.      *)
LoweringPreserves ==
    LegalBody(Function) =>
       LET out == Lower(Function)
       IN  (AcceptedBody(out) /\ LosesNothing(Function)) => Same(Function, out)
=============================================================================
