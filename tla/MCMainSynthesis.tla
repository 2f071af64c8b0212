--------------------------- MODULE MCMainSynthesis ---------------------------
(* Constants for checking MainSynthesis: every module of at most three     *)
(* items of the menu that declares no name twice.                          *)
EXTENDS MainRuns

m == Call("main", <<>>)
f == Call("f", <<>>)
g == Call("g", <<>>)
Say(w) == Log(w, <<>>)

MCLibrary ==
    [n \in {"f", "g", "h"} |->
        CASE n = "f" -> Fn("f", <<Say("f")>>)
          [] n = "g" -> AsyncFn("g", <<Say("g1"), Await(Call("h", <<>>)), Say("g2")>>)
          [] n = "h" -> AsyncFn("h", <<Say("h")>>)]

Mains ==
    {Fn("main", <<Say("m"), f>>), Fn("main", <<Log("m", <<Read("x")>>)>>),
     AsyncFn("main", <<Say("m1"), Await(g), Say("m2")>>),
     Const("main", Arrow("arrow", <<Say("m")>>)), Const("main", Arrow("async arrow", <<Say("m"), Await(g)>>)),
     Const("main", Num), Const("main", f), Item("type", "main", <<>>, <<>>),
     Var(<<[name |-> "main", init |-> Arrow("arrow", <<Say("m")>>)], [name |-> "__ts_main", init |-> Num]>>),
     Fn("__ts_main", <<Say("t")>>), Item("default", "main", <<>>, <<>>)}

Runs ==
    {Do(Say("s")), Do(m), Do(Await(m)), Do(Log("l", <<m>>)), Do(Await(Call("g", <<m>>))),
     Do(Await(g)), Do(g), Do(Log("r", <<Read("x")>>)), Do(Log("r", <<Read("main")>>)),
     Do(Log("r", <<Read("y"), Await(g)>>)),
     Do(Call("k", <<>>)), Do(Set("x", f)), Do(Log("z", <<Data(<<Await(m)>>)>>))}

Vars ==
    {Const("x", Num), Const("x", Log("x", <<f>>)), Const("y", Await(g)), Const("y", Data(<<Say("d")>>)),
     Const("y", Text), Const("x", ClassExpr), Const("y", m),
     Var(<<[name |-> "x", init |-> NoInit], [name |-> "y", init |-> Await(g)]>>),
     Var(<<[name |-> "k", init |-> Arrow("arrow", <<Say("k"), m>>)], [name |-> "x", init |-> f]>>),
     Var(<<[name |-> "x", init |-> Say("x")], [name |-> "y", init |-> Data(<<Read("x"), Say("y")>>)]>>),
     Const("", f)}

Others ==
    {Fn("k", <<m, Say("k")>>), AsyncFn("k", <<Await(m), Say("k")>>),
     Item("class", "C", <<>>, <<Await(g)>>), Item("type", "T", <<>>, <<>>),
     Item("empty", "", <<>>, <<>>), Item("control", "", <<>>, <<>>)}

Menu == Mains \cup Runs \cup Vars \cup Others

(* The expressions: what the menu and the library hold, what becomes of it *)
(* and all their parts.                                                    *)
RECURSIVE Parts(_), Variants(_), Nested(_)
Parts(e) == {e} \cup UNION {Parts(e.args[i]) : i \in DOMAIN e.args}

Variants(e) ==
    LET inside == [i \in DOMAIN e.args |-> Variants(e.args[i])]
        args   == {a \in [DOMAIN e.args -> UNION Range(inside)] : \A i \in DOMAIN a : a[i] \in inside[i]}
        calls  == {Call("__ts_main", a) : a \in args}
    IN  {Ex(e.op, e.name, a) : a \in args}
          \cup IF CallsMain(e) THEN calls \cup {Await(c) : c \in calls} ELSE {}

Nested(e) == IF e.args = <<>> THEN 0 ELSE 1 + Max({Nested(e.args[i]) : i \in DOMAIN e.args})

Written ==
    UNION {Range(x.body) \cup {x.decls[k].init : k \in DOMAIN x.decls} : x \in Menu \cup Range(MCLibrary)}
MCExprs == UNION {Parts(v) : v \in UNION {Variants(e) : e \in Written}}
MCHeight == [e \in MCExprs |-> Nested(e)]

MCModules ==
    {s \in UNION {[1 .. n -> Menu] : n \in 1 .. 3} :
        \A i, j \in DOMAIN s : i < j => Declares(s[i]) \cap Declares(s[j]) = {}}
=============================================================================
