------------------------------ MODULE MainRuns ------------------------------
(***************************************************************************)
(* Running a TypeScript module and the Rust file MainSynthesis makes of it *)
(* and comparing the effects.                                              *)
(***************************************************************************)
EXTENDS MainSynthesis

-----------------------------------------------------------------------------
(* What the module does.  A call of an async function runs to its first    *)
(* await; the rest waits in a queue until the module awaits something or   *)
(* has ended.                                                              *)
SourceFns(m) ==
    LET decls == {<<i, k>> \in (1 .. Len(m)) \X (1 .. 2) :
                     m[i].kind = "var" /\ k \in DOMAIN m[i].decls /\ m[i].decls[k].init.op \in Arrows}
        fns   == {i \in DOMAIN m : m[i].kind \in Fns}
    IN  [f \in DOMAIN Library \cup {m[i].name : i \in fns} \cup {m[p[1]].decls[p[2]].name : p \in decls} |->
            IF \E i \in fns : m[i].name = f THEN m[CHOOSE i \in fns : m[i].name = f].body
            ELSE IF \E p \in decls : m[p[1]].decls[p[2]].name = f
                 THEN LET p == CHOOSE q \in decls : m[q[1]].decls[q[2]].name = f
                      IN  m[p[1]].decls[p[2]].init.args
            ELSE Library[f].body]

Broken(s) == [s EXCEPT !.ok = FALSE]

RECURSIVE Eval(_, _), EvalAll(_, _), RunBody(_, _), Drain(_), RunItems(_, _)

EvalAll(es, s) == IF es = <<>> THEN s ELSE EvalAll(Tail(es), Eval(Head(es), s))

Eval(e, s) ==
    CASE e.op = "log"   -> LET t == EvalAll(e.args, s) IN [t EXCEPT !.log = Append(@, e.name)]
      [] e.op = "data"  -> EvalAll(e.args, s)
      [] e.op = "read"  -> IF e.name \in s.vars THEN s ELSE Broken(s)
      [] e.op = "set"   -> LET t == EvalAll(e.args, s) IN IF e.name \in s.vars THEN t ELSE Broken(t)
      [] e.op = "call"  -> LET t == EvalAll(e.args, s)
                           IN  IF e.name \in DOMAIN s.fns THEN RunBody(s.fns[e.name], t) ELSE Broken(t)
      [] e.op = "await" -> Drain(Eval(e.args[1], s))
      [] OTHER          -> s

RunBody(b, s) ==
    IF b = <<>> THEN s
    ELSE IF Head(b).op = "await"
         THEN LET t == Eval(Head(b).args[1], s) IN [t EXCEPT !.queue = Append(@, Tail(b))]
         ELSE RunBody(Tail(b), Eval(Head(b), s))

Drain(s) == IF s.queue = <<>> THEN s ELSE Drain(RunBody(Head(s.queue), [s EXCEPT !.queue = Tail(@)]))

RunItems(m, s) ==
    IF m = <<>> THEN Drain(s)
    ELSE LET x == Head(m)
             declare(t, d) == IF d.init = NoInit THEN t
                              ELSE LET u == Eval(d.init, t) IN [u EXCEPT !.vars = @ \cup {d.name}]
         IN  RunItems(Tail(m),
                 CASE x.kind = "expr"  -> Eval(x.body[1], s)
                   [] x.kind = "class" -> EvalAll(x.body, s)
                   [] x.kind = "var"   -> FoldLeft(declare, s, x.decls)
                   [] OTHER            -> s)

SourceRun(m) == RunItems(m, [log |-> <<>>, queue |-> <<>>, vars |-> {}, fns |-> SourceFns(m), ok |-> TRUE])

(* What the Rust file does, from fn main.  A future runs when it is        *)
(* awaited.                                                                *)
FnNamed(name) == CHOOSE f \in items : f.kind = "fn" /\ f.name = name

RECURSIVE Effects(_), EffectsOfAll(_)
EffectsOfAll(es) == FlattenSeq([i \in DOMAIN es |-> Effects(es[i])])
Effects(e) ==
    CASE e.op = "log"   -> Append(EffectsOfAll(e.args), e.name)
      [] e.op \in {"data", "set"} -> EffectsOfAll(e.args)
      [] e.op = "call"  -> EffectsOfAll(e.args)
                             \o (IF FnNamed(e.name).async THEN <<>> ELSE EffectsOfAll(FnNamed(e.name).body))
      [] e.op = "await" -> LET c == e.args[1] IN EffectsOfAll(c.args) \o EffectsOfAll(FnNamed(c.name).body)
      [] OTHER          -> <<>>

TargetRun ==
    LET main == {f \in items : f.kind = "fn main"} IN
    IF main = {} THEN <<>>
    ELSE FlattenSeq([i \in DOMAIN mains |-> Effects(mains[i].e)])

-----------------------------------------------------------------------------
(* The calls that are not awaited where they stand. *)
RECURSIVE Loose(_)
Loose(e) ==
    LET inside(x) == UNION {Loose(x.args[i]) : i \in DOMAIN x.args} IN
    IF e.op = "await" /\ e.args[1].op = "call" THEN inside(e.args[1])
    ELSE inside(e) \cup (IF e.op = "call" THEN {e.name} ELSE {})
LooseIn(es) == UNION {Loose(es[i]) : i \in DOMAIN es}
LooseCalls(m) ==
    UNION ({LooseIn(m[i].body) : i \in {j \in DOMAIN m : m[j].kind \notin Types}}
      \cup {UNION {Loose(m[i].decls[k].init) : k \in DOMAIN m[i].decls} : i \in DOMAIN m}
      \cup {LooseIn(Library[f].body) : f \in DOMAIN Library})

(* A future that is not awaited: only main's is seen to. *)
DropsFuture(m) ==
    \E f \in LooseCalls(m) \ {"main"} : IsAsync(m, f)

(* A main() that is not awaited finishes before the module goes on, no     *)
(* different if it is the last statement; or, in an argument of something  *)
(* awaited, it never runs.                                                 *)
MainFinishesFirst(m) ==
    /\ UserMain(m) = "FnAsync"
    /\ "main" \in LooseCalls(IF m # <<>> /\ Last(m) = Do(Call("main", <<>>)) THEN Front(m) ELSE m)

(* An object or array is taken to have no effect. *)
DataHasEffect(m) ==
    ~IsExecutable(module) /\ \E e \in TopExprs(m) : e.op = "data" /\ e.args # <<>>

(* A class's heritage is not evaluated. *)
HeritageHasEffect(m) == \E i \in DOMAIN m : m[i].kind = "class" /\ m[i].body # <<>>

KeptRun == SourceRun(kept)

(* What was converted is a program: it runs, and all it calls is there. *)
Program ==
    KeptRun.ok /\ \A e \in AllExprs(kept) : e.op = "call" => e.name \in DOMAIN SourceFns(kept)

-----------------------------------------------------------------------------
(* Running fn main does what running the module did, effect by effect and  *)
(* in its order, whatever is const, let, function or statement and         *)
(* wherever main is called; and when some items could not be converted, it *)
(* does what the module without them does.                                 *)
EffectsInOrder ==
    (/\ Done /\ ModesAgree /\ ~Reserved(module) /\ ~TypeHidesMain(module) /\ Program
     /\ ~DataHasEffect(kept) /\ ~DropsFuture(kept) /\ ~MainFinishesFirst(kept) /\ ~HeritageHasEffect(kept))
       => TargetRun = KeptRun.log

=============================================================================
