-------------------------- MODULE MainSynthesisProofs --------------------------
(***************************************************************************)
(* Proofs about MainSynthesis for any set of modules: first what its       *)
(* recursive functions are and what the conversion does to the parts of an *)
(* expression, then the invariant, which ties the items and main_stmts to  *)
(* what was converted, and from it one entry, names and awaits.            *)
(***************************************************************************)
EXTENDS MainSynthesis, SequenceTheorems, NaturalsInduction, WellFoundedInduction, TLAPS

(* One step of each of the recursive functions. *)
AwaitStep(e, g) == e.op = "await" \/ (e.op \notin Arrows /\ \E i \in DOMAIN e.args : g[e.args[i]])

WithinStep(e, g) == {e} \cup UNION {g[e.args[i]] : i \in DOMAIN e.args}

ConvArgs(e, g, sub, quiet) == [i \in DOMAIN e.args |-> g[e.args[i]][sub][quiet \/ e.op = "await"]]

ConvStep(e, g) ==
    [sub \in Substitutions |-> [quiet \in BOOLEAN |-> Converted(e, ConvArgs(e, g, sub, quiet), sub, quiet)]]

TakenStep(ds, g) ==
    IF ds = <<>> THEN <<>>
    ELSE IF Captured(Last(ds), TRUE) THEN Append(g[Front(ds)], Last(ds)) ELSE g[Front(ds)]

Length == [ds \in Seq(Declarators) |-> Len(ds)]

OfAwait  == INSTANCE Recursion WITH S <- Exprs, H <- Height, Step <- AwaitStep
OfWithin == INSTANCE Recursion WITH S <- Exprs, H <- Height, Step <- WithinStep
OfConv   == INSTANCE Recursion WITH S <- Exprs, H <- Height, Step <- ConvStep
OfTaken  == INSTANCE Recursion WITH S <- Seq(Declarators), H <- Length, Step <- TakenStep

(* The arguments of an expression are expressions, and lower. *)
LEMMA ArgsLower ==
    ASSUME NEW e \in Exprs, NEW i \in DOMAIN e.args
    PROVE  e.args[i] \in Exprs /\ Height[e.args[i]] < Height[e]
BY ExprAssumption

(* Expressions are nested finitely deep: Recursion applies to them. *)
LEMMA Heights == Height \in [Exprs -> Nat]
BY ExprAssumption

(* expr_contains_await_recursive, unfolded once. *)
LEMMA ContainsAwaitIs ==
    \A e \in Exprs : ContainsAwait[e] = AwaitStep(e, ContainsAwait)
<1>1. ASSUME NEW e \in Exprs, NEW g, NEW h, \A y \in Exprs : Height[y] < Height[e] => g[y] = h[y]
      PROVE  AwaitStep(e, g) = AwaitStep(e, h)
  BY <1>1, ArgsLower DEF AwaitStep
<1>2. OfAwait!LooksDown
  BY <1>1 DEF OfAwait!LooksDown
<1>3. \E f : f = [e \in Exprs |-> AwaitStep(e, f)]
  BY <1>2, Heights, OfAwait!Exists
<1>4. ContainsAwait = [e \in Exprs |-> AwaitStep(e, ContainsAwait)]
  BY <1>3 DEF ContainsAwait, AwaitStep
<1> HIDE DEF ContainsAwait
<1> QED
  BY <1>4

(* The parts of an expression, unfolded once. *)
LEMMA WithinIs ==
    \A e \in Exprs : Within[e] = WithinStep(e, Within)
<1>1. ASSUME NEW e \in Exprs, NEW g, NEW h, \A y \in Exprs : Height[y] < Height[e] => g[y] = h[y]
      PROVE  WithinStep(e, g) = WithinStep(e, h)
  <2>1. \A i \in DOMAIN e.args : g[e.args[i]] = h[e.args[i]]
    BY <1>1, ArgsLower
  <2>2. {g[e.args[i]] : i \in DOMAIN e.args} = {h[e.args[i]] : i \in DOMAIN e.args}
    BY <2>1
  <2> QED
    BY <2>2 DEF WithinStep
<1>2. OfWithin!LooksDown
  BY <1>1 DEF OfWithin!LooksDown
<1>3. \E f : f = [e \in Exprs |-> WithinStep(e, f)]
  BY <1>2, Heights, OfWithin!Exists
<1>4. Within = [e \in Exprs |-> WithinStep(e, Within)]
  BY <1>3 DEF Within, WithinStep
<1> HIDE DEF Within
<1> QED
  BY <1>4

(* convert_expr, unfolded once. *)
LEMMA ConvIs ==
    ASSUME NEW e \in Exprs, NEW sub \in Substitutions, NEW quiet \in BOOLEAN
    PROVE  Conv[e][sub][quiet] = Converted(e, ConvArgs(e, Conv, sub, quiet), sub, quiet)
<1>1. ASSUME NEW x \in Exprs, NEW g, NEW h, \A y \in Exprs : Height[y] < Height[x] => g[y] = h[y]
      PROVE  ConvStep(x, g) = ConvStep(x, h)
  <2>1. \A i \in DOMAIN x.args : g[x.args[i]] = h[x.args[i]]
    BY <1>1, ArgsLower
  <2>2. ASSUME NEW s, NEW q PROVE ConvArgs(x, g, s, q) = ConvArgs(x, h, s, q)
    BY <2>1 DEF ConvArgs
  <2> QED
    BY <2>2, Zenon DEF ConvStep
<1>2. OfConv!LooksDown
  BY <1>1 DEF OfConv!LooksDown
<1>3. \E f : f = [x \in Exprs |-> ConvStep(x, f)]
  BY <1>2, Heights, OfConv!Exists
<1>4. Conv = [x \in Exprs |-> ConvStep(x, Conv)]
  BY <1>3, Zenon DEF Conv, ConvStep, ConvArgs
<1> HIDE DEF Conv
<1>5. Conv[e] = ConvStep(e, Conv)
  BY <1>4
<1> QED
  BY <1>5 DEF ConvStep

(* The beginning of a sequence. *)
LEMMA Beginning ==
    ASSUME NEW D, NEW s \in Seq(D), NEW n \in 0 .. Len(s)
    PROVE  /\ SubSeq(s, 1, n) \in Seq(D) /\ Len(SubSeq(s, 1, n)) = n
           /\ \A k \in 1 .. n : SubSeq(s, 1, n)[k] = s[k]
<1>1. \A i \in 1 .. n : s[i] \in D
  OBVIOUS
<1> QED
  BY <1>1, SubSeqProperties

(* The loop over declarators, unfolded once. *)
LEMMA TakenIs ==
    \A ds \in Seq(Declarators) : Taken[ds] = TakenStep(ds, Taken)
<1>1. ASSUME NEW ds \in Seq(Declarators), ds # <<>>
      PROVE  Front(ds) \in Seq(Declarators) /\ Length[Front(ds)] < Length[ds]
  BY <1>1 DEF Front, Length
<1>2. ASSUME NEW ds \in Seq(Declarators), NEW g, NEW h,
             \A y \in Seq(Declarators) : Length[y] < Length[ds] => g[y] = h[y]
      PROVE  TakenStep(ds, g) = TakenStep(ds, h)
  BY <1>1, <1>2 DEF TakenStep
<1>3. OfTaken!LooksDown
  BY <1>2 DEF OfTaken!LooksDown
<1>4. Length \in [Seq(Declarators) -> Nat]
  BY DEF Length
<1>5. \E f : f = [ds \in Seq(Declarators) |-> TakenStep(ds, f)]
  BY <1>3, <1>4, OfTaken!Exists
<1>6. Taken = [ds \in Seq(Declarators) |-> TakenStep(ds, Taken)]
  BY <1>5, Zenon DEF Taken, TakenStep
<1> HIDE DEF Taken
<1> QED
  BY <1>6

(* What the loop over declarators leaves: those it captures, in order,     *)
(* each after the captured ones that stand before it.                      *)
InOrder(ds, t, exec) ==
    /\ t \in Seq(Declarators)
    /\ \A p \in DOMAIN t : \E k \in DOMAIN ds :
          /\ t[p] = ds[k] /\ Captured(ds[k], exec)
          /\ \A l \in 1 .. k - 1 : Captured(ds[l], exec) => \E q \in 1 .. p - 1 : t[q] = ds[l]
    /\ \A k \in DOMAIN ds : Captured(ds[k], exec) => \E q \in DOMAIN t : t[q] = ds[k]

(* capture_var_decl_into_main_stmts takes all that is captured, in order. *)
LEMMA TakenInOrder ==
    \A ds \in Seq(Declarators) : InOrder(ds, Taken[ds], TRUE)
<1> DEFINE P == {ds \in Seq(Declarators) : InOrder(ds, Taken[ds], TRUE)}
<1>1. ASSUME NEW ds \in Seq(Declarators), \A y \in Seq(Declarators) : Length[y] < Length[ds] => y \in P
      PROVE  ds \in P
  <2>1. Taken[ds] = TakenStep(ds, Taken)
    BY TakenIs
  <2>2. CASE ds = <<>>
    <3>1. Taken[ds] = <<>>
      BY <2>1, <2>2 DEF TakenStep
    <3>2. InOrder(<<>>, <<>>, TRUE)
      BY DEF InOrder
    <3> QED
      BY <2>2, <3>1, <3>2
  <2>3. CASE ds # <<>>
    <3> DEFINE fr == Front(ds)
               n == Len(ds)
               t == Taken[fr]
    <3>0. n \in Nat \ {0} /\ fr = SubSeq(ds, 1, n - 1)
      BY <2>3 DEF Front
    <3>1. fr \in Seq(Declarators) /\ Len(fr) = n - 1 /\ n \in Nat \ {0} /\ \A k \in 1 .. n - 1 : fr[k] = ds[k]
      <4> DEFINE j == n - 1
      <4>1. j \in 0 .. Len(ds) /\ 1 .. j = 1 .. n - 1
        BY <3>0
      <4> HIDE DEF j
      <4>2. SubSeq(ds, 1, j) \in Seq(Declarators) /\ Len(SubSeq(ds, 1, j)) = j
              /\ \A k \in 1 .. j : SubSeq(ds, 1, j)[k] = ds[k]
        BY <4>1, Beginning
      <4> QED
        BY <3>0, <4>2 DEF j
    <3>2. Last(ds) = ds[n] /\ ds[n] \in Declarators /\ DOMAIN ds = 1 .. n /\ DOMAIN fr = 1 .. n - 1
      BY <2>3, <3>1 DEF Last
    <3>3. InOrder(fr, t, TRUE)
      <4>1. Length[fr] = n - 1 /\ Length[ds] = n
        BY <3>1 DEF Length
      <4> HIDE DEF P, fr, n
      <4>3. n \in Nat \ {0} /\ fr \in Seq(Declarators)
        BY <3>1
      <4>4. Length[fr] < Length[ds]
        BY <4>1, <4>3
      <4>2. fr \in P
        BY <1>1, <4>3, <4>4
      <4> QED
        BY <4>2 DEF P
    <3> HIDE DEF fr, n, t
    <3>4. CASE Captured(ds[n], TRUE)
      <4>1. Taken[ds] = Append(t, ds[n])
        BY <2>1, <2>3, <3>2, <3>4 DEF TakenStep, t, fr
      <4>2. t \in Seq(Declarators) /\ DOMAIN t = 1 .. Len(t) /\ Len(t) \in Nat
        BY <3>3 DEF InOrder
      <4> DEFINE u == Append(t, ds[n])
      <4>3. u \in Seq(Declarators) /\ Len(u) = Len(t) + 1 /\ DOMAIN u = 1 .. Len(t) + 1
              /\ u[Len(t) + 1] = ds[n] /\ \A q \in 1 .. Len(t) : u[q] = t[q]
        BY <3>2, <4>2
      <4> HIDE DEF u
      <4>4. ASSUME NEW p \in DOMAIN u
            PROVE  \E k \in DOMAIN ds :
                     /\ u[p] = ds[k] /\ Captured(ds[k], TRUE)
                     /\ \A l \in 1 .. k - 1 : Captured(ds[l], TRUE) => \E q \in 1 .. p - 1 : u[q] = ds[l]
        <5>1. CASE p = Len(t) + 1
          <6>1. ASSUME NEW l \in 1 .. n - 1, Captured(ds[l], TRUE) PROVE \E q \in 1 .. p - 1 : u[q] = ds[l]
            <7>1. fr[l] = ds[l] /\ l \in DOMAIN fr
              BY <3>1, <3>2
            <7>2. PICK q \in DOMAIN t : t[q] = fr[l]
              BY <3>3, <6>1, <7>1 DEF InOrder
            <7> QED
              BY <4>2, <4>3, <5>1, <7>1, <7>2
          <6>2. n \in DOMAIN ds /\ u[p] = ds[n]
            BY <3>1, <3>2, <4>3, <5>1
          <6> QED
            BY <3>4, <6>1, <6>2
        <5>2. CASE p # Len(t) + 1
          <6>1. p \in DOMAIN t /\ u[p] = t[p]
            BY <4>2, <4>3, <5>2
          <6>2. PICK k \in DOMAIN fr :
                  /\ t[p] = fr[k] /\ Captured(fr[k], TRUE)
                  /\ \A l \in 1 .. k - 1 : Captured(fr[l], TRUE) => \E q \in 1 .. p - 1 : t[q] = fr[l]
            BY <3>3, <6>1 DEF InOrder
          <6>3. fr[k] = ds[k] /\ k \in DOMAIN ds /\ \A l \in 1 .. k - 1 : fr[l] = ds[l]
            BY <3>1, <3>2
          <6>4. \A q \in 1 .. p - 1 : u[q] = t[q]
            BY <4>2, <4>3, <6>1
          <6> QED
            BY <6>1, <6>2, <6>3, <6>4
        <5> QED
          BY <5>1, <5>2
      <4>5. ASSUME NEW k \in DOMAIN ds, Captured(ds[k], TRUE) PROVE \E q \in DOMAIN u : u[q] = ds[k]
        <5>1. CASE k = n
          BY <4>2, <4>3, <5>1
        <5>2. CASE k # n
          <6>1. k \in DOMAIN fr /\ fr[k] = ds[k]
            BY <3>1, <3>2, <5>2
          <6>2. PICK q \in DOMAIN t : t[q] = fr[k]
            BY <3>3, <4>5, <6>1 DEF InOrder
          <6> QED
            BY <4>2, <4>3, <6>1, <6>2
        <5> QED
          BY <5>1, <5>2
      <4>6. InOrder(ds, u, TRUE)
        BY <4>3, <4>4, <4>5 DEF InOrder
      <4> QED
        BY <4>1, <4>6 DEF u
    <3>5. CASE ~ Captured(ds[n], TRUE)
      <4>1. Taken[ds] = t
        BY <2>1, <2>3, <3>2, <3>5 DEF TakenStep, t, fr
      <4>2. ASSUME NEW p \in DOMAIN t
            PROVE  \E k \in DOMAIN ds :
                     /\ t[p] = ds[k] /\ Captured(ds[k], TRUE)
                     /\ \A l \in 1 .. k - 1 : Captured(ds[l], TRUE) => \E q \in 1 .. p - 1 : t[q] = ds[l]
        <5>1. PICK k \in DOMAIN fr :
                  /\ t[p] = fr[k] /\ Captured(fr[k], TRUE)
                  /\ \A l \in 1 .. k - 1 : Captured(fr[l], TRUE) => \E q \in 1 .. p - 1 : t[q] = fr[l]
          BY <3>3 DEF InOrder
        <5>2. fr[k] = ds[k] /\ k \in DOMAIN ds /\ \A l \in 1 .. k - 1 : fr[l] = ds[l]
          BY <3>1, <3>2
        <5> QED
          BY <5>1, <5>2
      <4>3. ASSUME NEW k \in DOMAIN ds, Captured(ds[k], TRUE) PROVE \E q \in DOMAIN t : t[q] = ds[k]
        <5>0. k # n
          BY <3>5, <4>3
        <5>1. k \in DOMAIN fr /\ fr[k] = ds[k]
          BY <3>1, <3>2, <5>0
        <5> QED
          BY <3>3, <4>3, <5>1 DEF InOrder
      <4>4. InOrder(ds, t, TRUE)
        BY <3>3, <4>2, <4>3 DEF InOrder
      <4> QED
        BY <4>1, <4>4
    <3> QED
      BY <3>4, <3>5
  <2> QED
    BY <2>2, <2>3
<1>2. Length \in [Seq(Declarators) -> Nat]
  BY DEF Length
<1>3. Seq(Declarators) \subseteq P
  <2> HIDE DEF P
  <2> QED
    BY <1>1, <1>2, OfTaken!Induct
<1> QED
  BY <1>3

-----------------------------------------------------------------------------
(* An expression is among its own parts, its parts are expressions, and    *)
(* the parts of an argument are parts of it.                               *)
LEMMA PartsAre ==
    ASSUME NEW e \in Exprs
    PROVE  /\ e \in Within[e]
           /\ \A i \in DOMAIN e.args : Within[e.args[i]] \subseteq Within[e]
           /\ \A c \in Within[e] : c = e \/ \E i \in DOMAIN e.args : c \in Within[e.args[i]]
BY WithinIs DEF WithinStep

(* The parts of an expression are expressions. *)
LEMMA PartsAreExprs ==
    \A e \in Exprs : Within[e] \subseteq Exprs
<1> DEFINE P == {e \in Exprs : Within[e] \subseteq Exprs}
<1>1. ASSUME NEW e \in Exprs, \A y \in Exprs : Height[y] < Height[e] => y \in P PROVE e \in P
  BY <1>1, ArgsLower, PartsAre
<1>2. Exprs \subseteq P
  <2> HIDE DEF P
  <2> QED
    BY <1>1, Heights, OfAwait!Induct
<1> QED
  BY <1>2

(* What a part of a converted expression comes from: the same operation in *)
(* the source, or a call under its new name, or the await put around a     *)
(* call of an async main.                                                  *)
SameOp(c, d, sub) ==
    /\ c.op = d.op /\ c.op # "call" /\ c.name = d.name
    /\ c.op = "await" => c.args[1] = Conv[d.args[1]][sub][TRUE]

SameCall(c, d, sub) == c.op = "call" /\ d.op = "call" /\ c.name = Renamed(d.name, sub)

AddedAwait(c, d, sub) ==
    /\ c.op = "await" /\ CallsMain(d) /\ sub = "FnAsync"
    /\ c.args[1].op = "call" /\ c.args[1].name = "__ts_main"

ComesFrom(c, e, sub) == \E d \in Within[e] : SameOp(c, d, sub) \/ SameCall(c, d, sub) \/ AddedAwait(c, d, sub)

(* The result of converting one expression, given its arguments. *)
LEMMA ConvShape ==
    ASSUME NEW e \in Exprs, NEW sub \in Substitutions, NEW quiet \in BOOLEAN
    PROVE  LET args == ConvArgs(e, Conv, sub, quiet)
               c    == Conv[e][sub][quiet]
           IN  /\ DOMAIN args = DOMAIN e.args
               /\ \A i \in DOMAIN e.args : args[i] = Conv[e.args[i]][sub][quiet \/ e.op = "await"]
               /\ \/ c = Ex(e.op, e.name, args) /\ ~ (CallsMain(e) /\ sub # "None")
                  \/ c = Call("__ts_main", args) /\ CallsMain(e) /\ sub # "None"
                  \/ c = Await(Call("__ts_main", args)) /\ CallsMain(e) /\ sub = "FnAsync"
<1>1. Conv[e][sub][quiet] = Converted(e, ConvArgs(e, Conv, sub, quiet), sub, quiet)
  BY ConvIs
<1> HIDE DEF Conv
<1> QED
  BY <1>1 DEF Converted, ConvArgs, AwaitsCall

(* What an expression is converted to is one. *)
LEMMA ConvIsExpr ==
    ASSUME NEW e \in Exprs, NEW sub \in Substitutions, NEW quiet \in BOOLEAN
    PROVE  Conv[e][sub][quiet] \in Exprs
BY ModuleAssumption

(* Every part of a converted expression is a part of the source, a call    *)
(* under its new name or an await put over a call of main.                 *)
LEMMA ConvComesFrom ==
    ASSUME NEW sub \in Substitutions
    PROVE  \A e \in Exprs, quiet \in BOOLEAN : \A c \in Within[Conv[e][sub][quiet]] : ComesFrom(c, e, sub)
<1> DEFINE P == {e \in Exprs : \A quiet \in BOOLEAN : \A c \in Within[Conv[e][sub][quiet]] : ComesFrom(c, e, sub)}
<1>1. ASSUME NEW e \in Exprs, \A y \in Exprs : Height[y] < Height[e] => y \in P PROVE e \in P
  <2>1. SUFFICES ASSUME NEW quiet \in BOOLEAN, NEW c \in Within[Conv[e][sub][quiet]] PROVE ComesFrom(c, e, sub)
    OBVIOUS
  <2> DEFINE args == ConvArgs(e, Conv, sub, quiet)
             x == Conv[e][sub][quiet]
  <2>2. /\ DOMAIN args = DOMAIN e.args
        /\ \A i \in DOMAIN e.args : args[i] = Conv[e.args[i]][sub][quiet \/ e.op = "await"]
        /\ \/ x = Ex(e.op, e.name, args) /\ ~ (CallsMain(e) /\ sub # "None")
           \/ x = Call("__ts_main", args) /\ CallsMain(e) /\ sub # "None"
           \/ x = Await(Call("__ts_main", args)) /\ CallsMain(e) /\ sub = "FnAsync"
    BY ConvShape
  <2>3. x \in Exprs
    BY ConvIsExpr
  <2>4. ASSUME NEW i \in DOMAIN e.args, NEW d \in Within[args[i]] PROVE ComesFrom(d, e, sub)
    <3>1. e.args[i] \in P /\ e.args[i] \in Exprs
      BY <1>1, ArgsLower
    <3>2. (quiet \/ e.op = "await") \in BOOLEAN
      OBVIOUS
    <3>3. ComesFrom(d, e.args[i], sub)
      BY <2>2, <2>4, <3>1, <3>2
    <3> QED
      BY <3>3, PartsAre DEF ComesFrom
  <2>5. e \in Within[e]
    BY PartsAre
  <2> HIDE DEF args, x, P
  <2>6. CASE x = Ex(e.op, e.name, args) /\ ~ (CallsMain(e) /\ sub # "None")
    <3>1. x.args = args /\ x.op = e.op /\ x.name = e.name
      BY <2>6 DEF Ex
    <3>2. c = x \/ \E i \in DOMAIN e.args : c \in Within[args[i]]
      BY <2>1, <2>2, <2>3, <3>1, PartsAre DEF x
    <3>3. CASE c = x
      <4>1. CASE e.op = "call"
        BY <2>5, <2>6, <3>1, <3>3, <4>1 DEF ComesFrom, SameCall, Renamed, CallsMain
      <4>2. CASE e.op = "await"
        <5>1. 1 \in DOMAIN e.args
          BY <4>2, ExprAssumption
        <5>2. c.args[1] = Conv[e.args[1]][sub][TRUE]
          BY <2>2, <3>1, <3>3, <4>2, <5>1
        <5> QED
          BY <2>5, <3>1, <3>3, <4>2, <5>2 DEF ComesFrom, SameOp
      <4>3. CASE e.op \notin {"call", "await"}
        BY <2>5, <3>1, <3>3, <4>3 DEF ComesFrom, SameOp
      <4> QED
        BY <4>1, <4>2, <4>3
    <3> QED
      BY <2>4, <3>2, <3>3
  <2>7. ASSUME NEW y \in Exprs, y = Call("__ts_main", args), CallsMain(e), sub # "None", NEW d \in Within[y]
        PROVE  ComesFrom(d, e, sub)
    <3>1. y.args = args /\ y.op = "call" /\ y.name = "__ts_main"
      BY <2>7 DEF Call, Ex
    <3>2. d = y \/ \E i \in DOMAIN e.args : d \in Within[args[i]]
      BY <2>2, <2>7, <3>1, PartsAre
    <3>3. SameCall(y, e, sub)
      BY <2>7, <3>1 DEF SameCall, Renamed, CallsMain
    <3> QED
      BY <2>4, <2>5, <3>2, <3>3 DEF ComesFrom
  <2>8. CASE x = Await(Call("__ts_main", args)) /\ CallsMain(e) /\ sub = "FnAsync"
    <3> DEFINE y == Call("__ts_main", args)
    <3>1. x.op = "await" /\ x.args = <<y>> /\ y.op = "call" /\ y.name = "__ts_main"
      BY <2>8 DEF Await, Call, Ex
    <3>2. 1 \in DOMAIN x.args /\ x.args[1] = y /\ \A i \in DOMAIN x.args : x.args[i] = y
      BY <3>1
    <3> HIDE DEF y
    <3>3. y \in Exprs
      BY <2>3, <3>2, ArgsLower
    <3>4. c = x \/ c \in Within[y]
      BY <2>1, <2>3, <3>2, PartsAre DEF x
    <3>5. AddedAwait(x, e, sub)
      BY <2>8, <3>1, <3>2 DEF AddedAwait
    <3>6. c \in Within[y] => ComesFrom(c, e, sub)
      BY <2>7, <2>8, <3>3 DEF y
    <3> QED
      BY <2>5, <3>4, <3>5, <3>6 DEF ComesFrom
  <2> QED
    BY <2>1, <2>2, <2>3, <2>6, <2>7, <2>8 DEF x
<1>2. Exprs \subseteq P
  <2> HIDE DEF P
  <2> QED
    BY <1>1, Heights, OfAwait!Induct
<1> QED
  BY <1>2

(* A converted expression awaits if the source did, or an async main is    *)
(* called in it.                                                           *)
LEMMA ConvAwaits ==
    ASSUME NEW sub \in Substitutions
    PROVE  \A e \in Exprs, quiet \in BOOLEAN :
              ContainsAwait[Conv[e][sub][quiet]]
                => ContainsAwait[e] \/ (sub = "FnAsync" /\ \E d \in Within[e] : CallsMain(d))
<1> DEFINE Calls(e) == sub = "FnAsync" /\ \E d \in Within[e] : CallsMain(d)
           P == {e \in Exprs : \A quiet \in BOOLEAN :
                                  ContainsAwait[Conv[e][sub][quiet]] => ContainsAwait[e] \/ Calls(e)}
<1>1. ASSUME NEW e \in Exprs, \A y \in Exprs : Height[y] < Height[e] => y \in P PROVE e \in P
  <2>1. SUFFICES ASSUME NEW quiet \in BOOLEAN, ContainsAwait[Conv[e][sub][quiet]] PROVE ContainsAwait[e] \/ Calls(e)
    OBVIOUS
  <2> DEFINE args == ConvArgs(e, Conv, sub, quiet)
             x == Conv[e][sub][quiet]
  <2>2. /\ DOMAIN args = DOMAIN e.args
        /\ \A i \in DOMAIN e.args : args[i] = Conv[e.args[i]][sub][quiet \/ e.op = "await"]
        /\ \/ x = Ex(e.op, e.name, args) /\ ~ (CallsMain(e) /\ sub # "None")
           \/ x = Call("__ts_main", args) /\ CallsMain(e) /\ sub # "None"
           \/ x = Await(Call("__ts_main", args)) /\ CallsMain(e) /\ sub = "FnAsync"
    BY ConvShape
  <2>3. x \in Exprs /\ e \in Within[e]
    BY ConvIsExpr, PartsAre
  <2>4. ASSUME NEW i \in DOMAIN e.args, ContainsAwait[args[i]], e.op \notin Arrows PROVE ContainsAwait[e] \/ Calls(e)
    <3>1. e.args[i] \in P /\ e.args[i] \in Exprs
      BY <1>1, ArgsLower
    <3>2. (quiet \/ e.op = "await") \in BOOLEAN
      OBVIOUS
    <3>3. ContainsAwait[e.args[i]] \/ Calls(e.args[i])
      BY <2>2, <2>4, <3>1, <3>2
    <3>4. ContainsAwait[e.args[i]] => ContainsAwait[e]
      BY <2>4, ContainsAwaitIs DEF AwaitStep
    <3>5. Calls(e.args[i]) => Calls(e)
      BY PartsAre
    <3> QED
      BY <3>3, <3>4, <3>5
  <2>5. x.op = "await" \/ (x.op \notin Arrows /\ \E i \in DOMAIN x.args : ContainsAwait[x.args[i]])
    BY <2>1, <2>3, ContainsAwaitIs DEF AwaitStep
  <2> HIDE DEF args, x, P
  <2>6. CASE x = Ex(e.op, e.name, args)
    <3>1. x.args = args /\ x.op = e.op
      BY <2>6 DEF Ex
    <3>2. CASE e.op = "await"
      BY <3>2, ContainsAwaitIs DEF AwaitStep
    <3> QED
      BY <2>2, <2>4, <2>5, <3>1, <3>2
  <2>7. CASE x = Call("__ts_main", args) /\ CallsMain(e)
    <3>1. x.args = args /\ x.op = "call" /\ e.op = "call"
      BY <2>7 DEF Call, Ex, CallsMain
    <3>2. "call" # "await" /\ "call" \notin Arrows
      BY DEF Arrows
    <3> QED
      BY <2>2, <2>4, <2>5, <3>1, <3>2
  <2>8. CASE CallsMain(e) /\ sub = "FnAsync"
    BY <2>3, <2>8
  <2> QED
    BY <2>2, <2>6, <2>7, <2>8
<1>2. Exprs \subseteq P
  <2> HIDE DEF P
  <2> QED
    BY <1>1, Heights, OfAwait!Induct
<1> QED
  BY <1>2

-----------------------------------------------------------------------------
(* What main_stmts hold of the items that were converted: every one of     *)
(* them is a statement or a captured declarator, every captured declarator *)
(* is there, and each stands after those captured before it.               *)
MainStmts == [let : STRING \cup {""}, e : Exprs]
Statement(x, sub) == [let |-> "", e |-> Conv[x.body[1]][sub][FALSE]]
LetOf(d, sub) == [let |-> d.name, e |-> Conv[d.init][sub][FALSE]]

Earlier(j, l, i, k) == j < i \/ (j = i /\ l < k)

(* An item, whole or a part of one. *)
KeptItems == [kind : Kinds, name : STRING \cup {""}, decls : Seq(Declarators), body : Seq(Exprs)]

LetBefore(d, ms, exec, p) == Captured(d, exec) => \E q \in 1 .. p - 1 : ms[q].let = d.name

StandBefore(ks, ms, exec, i, k, p) ==
    \A j \in DOMAIN ks : \A l \in DOMAIN ks[j].decls :
        Earlier(j, l, i, k) => LetBefore(ks[j].decls[l], ms, exec, p)

MainFrom(ks, ms, exec, sub, p, i) ==
    \/ ks[i].kind = "expr" /\ ms[p] = Statement(ks[i], sub) /\ StandBefore(ks, ms, exec, i, 1, p)
    \/ \E k \in DOMAIN ks[i].decls :
          /\ Captured(ks[i].decls[k], exec) /\ ms[p] = LetOf(ks[i].decls[k], sub)
          /\ StandBefore(ks, ms, exec, i, k, p)

AllThere(x, ms, exec) ==
    \A l \in DOMAIN x.decls : Captured(x.decls[l], exec) => \E q \in DOMAIN ms : ms[q].let = x.decls[l].name

MainsMatch(ks, ms, exec, sub) ==
    /\ \A p \in DOMAIN ms : \E i \in DOMAIN ks : MainFrom(ks, ms, exec, sub, p, i)
    /\ \A j \in DOMAIN ks : AllThere(ks[j], ms, exec)

(* What one item gives. *)
GivenBy(x, t, exec, sub, p) ==
    \/ x.kind = "expr" /\ x.decls = <<>> /\ t[p] = Statement(x, sub)
    \/ \E k \in DOMAIN x.decls :
          /\ Captured(x.decls[k], exec) /\ t[p] = LetOf(x.decls[k], sub)
          /\ \A l \in 1 .. k - 1 : Captured(x.decls[l], exec) => \E q \in 1 .. p - 1 : t[q].let = x.decls[l].name

Gives(x, t, exec, sub) ==
    /\ \A p \in DOMAIN t : GivenBy(x, t, exec, sub, p)
    /\ AllThere(x, t, exec)

(* A let at a place before n stands before n. *)
LEMMA LetThere ==
    ASSUME NEW d, NEW ms, NEW exec, NEW n, NEW q \in 1 .. n - 1, ms[q].let = d.name
    PROVE  LetBefore(d, ms, exec, n)
BY DEF LetBefore

(* One more item: what it gives goes to the end of main_stmts. *)
LEMMA MainsGrow ==
    ASSUME NEW ks \in Seq(KeptItems), NEW ms \in Seq(MainStmts), NEW exec, NEW sub, MainsMatch(ks, ms, exec, sub),
           NEW x \in KeptItems, NEW t \in Seq(MainStmts), Gives(x, t, exec, sub)
    PROVE  MainsMatch(Append(ks, x), ms \o t, exec, sub)
<1> DEFINE n == Len(ks)
           m == Len(ms)
           ks1 == Append(ks, x)
           ms1 == ms \o t
<1>1. /\ n \in Nat /\ DOMAIN ks = 1 .. n /\ DOMAIN ks1 = 1 .. n + 1
      /\ ks1[n + 1] = x /\ \A i \in 1 .. n : ks1[i] = ks[i]
  OBVIOUS
<1>2. /\ m \in Nat /\ DOMAIN ms = 1 .. m /\ Len(t) \in Nat /\ DOMAIN t = 1 .. Len(t) /\ DOMAIN ms1 = 1 .. m + Len(t)
      /\ \A p \in 1 .. m : ms1[p] = ms[p]
      /\ \A p \in 1 .. Len(t) : ms1[m + p] = t[p]
  OBVIOUS
<1>3. \A j \in 1 .. n + 1 : ks1[j].decls \in Seq(Declarators) /\ DOMAIN ks1[j].decls \subseteq Nat
  <2>1. \A j \in 1 .. n + 1 : ks1[j] \in KeptItems
    BY <1>1
  <2> HIDE DEF ks1, n
  <2>2. \A y \in KeptItems : y.decls \in Seq(Declarators)
    BY DEF KeptItems
  <2>3. \A s \in Seq(Declarators) : DOMAIN s \subseteq Nat
    OBVIOUS
  <2> QED
    BY <2>1, <2>2, <2>3
<1> HIDE DEF n, m, ks1, ms1
<1>4. ASSUME NEW i \in 1 .. n, NEW k \in Nat, NEW p \in 1 .. m, StandBefore(ks, ms, exec, i, k, p)
      PROVE  StandBefore(ks1, ms1, exec, i, k, p)
  <2>1. SUFFICES ASSUME NEW j \in 1 .. n + 1, NEW l \in DOMAIN ks1[j].decls, Earlier(j, l, i, k)
                 PROVE  LetBefore(ks1[j].decls[l], ms1, exec, p)
    BY <1>1 DEF StandBefore
  <2>2. j \in 1 .. n /\ ks1[j] = ks[j]
    BY <1>1, <2>1 DEF Earlier
  <2>3. LetBefore(ks[j].decls[l], ms, exec, p)
    BY <1>1, <1>4, <2>1, <2>2 DEF StandBefore
  <2>4. \A q \in 1 .. p - 1 : ms1[q] = ms[q]
    BY <1>2
  <2> QED
    BY <2>2, <2>3, <2>4 DEF LetBefore
<1>5. ASSUME NEW p \in 1 .. m PROVE \E i \in DOMAIN ks1 : MainFrom(ks1, ms1, exec, sub, p, i)
  <2>1. PICK i \in 1 .. n : MainFrom(ks, ms, exec, sub, p, i)
    BY <1>1, <1>2 DEF MainsMatch
  <2>2. ks1[i] = ks[i] /\ i \in 1 .. n + 1 /\ ms1[p] = ms[p]
    BY <1>1, <1>2
  <2>3. CASE ks[i].kind = "expr" /\ ms[p] = Statement(ks[i], sub) /\ StandBefore(ks, ms, exec, i, 1, p)
    <3>1. StandBefore(ks1, ms1, exec, i, 1, p)
      BY <1>4, <2>3
    <3> QED
      BY <1>1, <2>2, <2>3, <3>1 DEF MainFrom
  <2>4. ASSUME NEW k \in DOMAIN ks[i].decls, Captured(ks[i].decls[k], exec), ms[p] = LetOf(ks[i].decls[k], sub),
               StandBefore(ks, ms, exec, i, k, p)
        PROVE  MainFrom(ks1, ms1, exec, sub, p, i)
    <3>1. k \in Nat
      BY <1>3, <2>2
    <3>2. StandBefore(ks1, ms1, exec, i, k, p)
      BY <1>4, <2>4, <3>1
    <3> QED
      BY <2>2, <2>4, <3>2 DEF MainFrom
  <2> QED
    BY <1>1, <2>1, <2>2, <2>3, <2>4 DEF MainFrom
<1>6. ASSUME NEW k \in Nat, NEW p \in 1 .. Len(t), k \in DOMAIN x.decls \/ (k = 1 /\ x.decls = <<>>),
             \A l \in 1 .. k - 1 : l \in DOMAIN x.decls /\ Captured(x.decls[l], exec)
                                      => \E q \in 1 .. p - 1 : t[q].let = x.decls[l].name
      PROVE  StandBefore(ks1, ms1, exec, n + 1, k, m + p)
  <2>0. SUFFICES ASSUME NEW j \in 1 .. n + 1, NEW l \in DOMAIN ks1[j].decls, Earlier(j, l, n + 1, k)
                 PROVE  LetBefore(ks1[j].decls[l], ms1, exec, m + p)
    BY <1>1 DEF StandBefore
  <2>1. ASSUME NEW d, NEW q \in 1 .. (m + p) - 1, ms1[q].let = d.name PROVE LetBefore(d, ms1, exec, m + p)
    BY <2>1, LetThere
  <2>2. CASE j \in 1 .. n
    <3>1. ks1[j] = ks[j] /\ AllThere(ks[j], ms, exec)
      BY <1>1, <2>2 DEF MainsMatch
    <3>2. ASSUME NEW d, d = ks[j].decls[l] PROVE LetBefore(d, ms1, exec, m + p)
      <4>1. CASE Captured(d, exec)
        <5>1. PICK q \in 1 .. m : ms[q].let = d.name
          BY <1>2, <2>0, <3>1, <3>2, <4>1 DEF AllThere
        <5>2. q \in 1 .. (m + p) - 1 /\ ms1[q] = ms[q]
          BY <1>2, <5>1
        <5> QED
          BY <2>1, <5>1, <5>2
      <4>2. CASE ~ Captured(d, exec)
        BY <4>2 DEF LetBefore
      <4> QED
        BY <4>1, <4>2
    <3> QED
      BY <3>1, <3>2
  <2>3. CASE j = n + 1
    <3>1. l < k /\ ks1[j] = x
      BY <1>1, <2>0, <2>3 DEF Earlier
    <3>2. l \in 1 .. k - 1 /\ l \in DOMAIN x.decls
      <4>1. l \in DOMAIN x.decls /\ x.decls \in Seq(Declarators)
        BY <1>3, <2>0, <2>3, <3>1
      <4> QED
        BY <3>1, <4>1
    <3>3. ASSUME NEW d, d = x.decls[l] PROVE LetBefore(d, ms1, exec, m + p)
      <4>1. CASE Captured(d, exec)
        <5>1. PICK q \in 1 .. p - 1 : t[q].let = d.name
          BY <1>6, <3>2, <3>3, <4>1
        <5>2. m + q \in 1 .. (m + p) - 1 /\ ms1[m + q] = t[q]
          BY <1>2, <5>1
        <5> QED
          BY <2>1, <5>1, <5>2
      <4>2. CASE ~ Captured(d, exec)
        BY <4>2 DEF LetBefore
      <4> QED
        BY <4>1, <4>2
    <3> QED
      BY <3>1, <3>3
  <2>4. j \in 1 .. n \/ j = n + 1
    BY <1>1, <2>0
  <2> QED
    BY <2>2, <2>3, <2>4
<1>7. ASSUME NEW p \in 1 .. Len(t) PROVE \E i \in DOMAIN ks1 : MainFrom(ks1, ms1, exec, sub, m + p, i)
  <2>1. n + 1 \in DOMAIN ks1 /\ ks1[n + 1] = x /\ ms1[m + p] = t[p]
    <3>1. n + 1 \in 1 .. n + 1
      BY <1>1
    <3> QED
      BY <1>1, <1>2, <3>1
  <2>2. GivenBy(x, t, exec, sub, p)
    BY <1>2 DEF Gives
  <2>3. CASE x.kind = "expr" /\ x.decls = <<>> /\ t[p] = Statement(x, sub)
    <3>1. StandBefore(ks1, ms1, exec, n + 1, 1, m + p)
      BY <1>6, <2>3
    <3> QED
      BY <2>1, <2>3, <3>1 DEF MainFrom
  <2>4. ASSUME NEW k \in DOMAIN x.decls, Captured(x.decls[k], exec), t[p] = LetOf(x.decls[k], sub),
               \A l \in 1 .. k - 1 : Captured(x.decls[l], exec) => \E q \in 1 .. p - 1 : t[q].let = x.decls[l].name
        PROVE  MainFrom(ks1, ms1, exec, sub, m + p, n + 1)
    <3>1. k \in Nat
      BY <1>1, <1>3
    <3>2. StandBefore(ks1, ms1, exec, n + 1, k, m + p)
      BY <1>6, <2>4, <3>1
    <3> QED
      BY <2>1, <2>4, <3>2 DEF MainFrom
  <2> QED
    BY <2>1, <2>2, <2>3, <2>4 DEF GivenBy
<1>8. \A p \in 1 .. m + Len(t) : p \in 1 .. m \/ \E q \in 1 .. Len(t) : p = m + q
  <2>1. ASSUME NEW p \in 1 .. m + Len(t), p \notin 1 .. m PROVE p - m \in 1 .. Len(t) /\ p = m + (p - m)
    BY <1>2, <2>1
  <2> QED
    BY <2>1
<1>9. \A p \in DOMAIN ms1 : \E i \in DOMAIN ks1 : MainFrom(ks1, ms1, exec, sub, p, i)
  BY <1>2, <1>5, <1>7, <1>8
<1>10. ASSUME NEW j \in DOMAIN ks1 PROVE AllThere(ks1[j], ms1, exec)
  <2>1. CASE j \in 1 .. n
    <3>1. ks1[j] = ks[j] /\ AllThere(ks[j], ms, exec)
      BY <1>1, <2>1 DEF MainsMatch
    <3>2. \A q \in DOMAIN ms : q \in DOMAIN ms1 /\ ms1[q] = ms[q]
      BY <1>2
    <3> QED
      BY <3>1, <3>2 DEF AllThere
  <2>2. CASE j = n + 1
    <3>1. ks1[j] = x /\ AllThere(x, t, exec)
      BY <1>1, <2>2 DEF Gives
    <3>2. SUFFICES ASSUME NEW l \in DOMAIN x.decls, Captured(x.decls[l], exec)
                   PROVE  \E q \in DOMAIN ms1 : ms1[q].let = x.decls[l].name
      BY <3>1 DEF AllThere
    <3>3. PICK q \in 1 .. Len(t) : t[q].let = x.decls[l].name
      BY <1>2, <3>1, <3>2 DEF AllThere
    <3>4. m + q \in DOMAIN ms1 /\ ms1[m + q] = t[q]
      BY <1>2, <3>3
    <3> QED
      BY <3>3, <3>4
  <2> QED
    BY <1>1, <2>1, <2>2
<1> QED
  BY <1>9, <1>10 DEF MainsMatch, ks1, ms1

(* try_capture_module_item_into_main_stmts gives what it should: the       *)
(* statement, or the captured declarators in their order.                  *)
LEMMA CapturedInOrder ==
    ASSUME NEW ds \in Seq(Declarators), NEW exec \in BOOLEAN
    PROVE  InOrder(ds, CapturedOf(ds, exec), exec)
<1> HIDE DEF Taken
<1>1. CASE exec = TRUE
  BY <1>1, TakenInOrder DEF CapturedOf
<1>2. CASE exec = FALSE
  <2>1. CapturedOf(ds, exec) = <<>> /\ \A d : ~ Captured(d, exec)
    BY <1>2 DEF CapturedOf, Captured
  <2> QED
    BY <2>1 DEF InOrder
<1> QED
  BY <1>1, <1>2

(* The lets of the declarators taken, one for each. *)
LEMMA LetsAre ==
    ASSUME NEW t \in Seq(Declarators), NEW sub \in Substitutions
    PROVE  /\ Lets(t, sub) \in Seq(MainStmts) /\ DOMAIN Lets(t, sub) = DOMAIN t /\ Len(Lets(t, sub)) = Len(t)
           /\ \A p \in DOMAIN t : Lets(t, sub)[p] = LetOf(t[p], sub) /\ Lets(t, sub)[p].let = t[p].name
<1>1. DOMAIN t = 1 .. Len(t) /\ Len(t) \in Nat /\ \A p \in DOMAIN t : t[p] \in Declarators
  OBVIOUS
<1>2. \A p \in DOMAIN t : LetOf(t[p], sub) \in MainStmts
  BY <1>1, ConvIsExpr DEF LetOf, MainStmts, Declarators
<1> HIDE DEF Conv
<1>3. Lets(t, sub) = [p \in 1 .. Len(t) |-> LetOf(t[p], sub)]
  BY <1>1 DEF Lets, LetOf
<1> HIDE DEF Lets
<1>4. Lets(t, sub) \in Seq(MainStmts) /\ Len(Lets(t, sub)) = Len(t)
  BY <1>1, <1>2, <1>3
<1>5. DOMAIN Lets(t, sub) = 1 .. Len(t) /\ \A p \in 1 .. Len(t) : Lets(t, sub)[p] = LetOf(t[p], sub)
  BY <1>3
<1>6. \A d : LetOf(d, sub).let = d.name
  BY DEF LetOf
<1> HIDE DEF LetOf
<1> QED
  BY <1>1, <1>4, <1>5, <1>6

(* What try_capture_module_item_into_main_stmts takes of an item is in     *)
(* order and complete.                                                     *)
LEMMA CapturesGive ==
    ASSUME NEW x, WellFormed(x), NEW exec \in BOOLEAN, NEW sub \in Substitutions
    PROVE  Captures(x, exec, sub) \in Seq(MainStmts) /\ Gives(x, Captures(x, exec, sub), exec, sub)
<1> DEFINE t == CapturedOf(x.decls, exec)
<1>1. x \in Items /\ x.decls \in Seq(Declarators) /\ (x.kind # "var" => x.decls = <<>>)
  BY DEF WellFormed, Items
<1>2. /\ t \in Seq(Declarators)
      /\ \A p \in DOMAIN t : \E k \in DOMAIN x.decls :
            /\ t[p] = x.decls[k] /\ Captured(x.decls[k], exec)
            /\ \A l \in 1 .. k - 1 : Captured(x.decls[l], exec) => \E q \in 1 .. p - 1 : t[q] = x.decls[l]
      /\ \A k \in DOMAIN x.decls : Captured(x.decls[k], exec) => \E q \in DOMAIN t : t[q] = x.decls[k]
  BY <1>1, CapturedInOrder DEF InOrder
<1>3. CASE x.kind = "var"
  <2>1. Captures(x, exec, sub) = Lets(t, sub)
    BY <1>3 DEF Captures
  <2> HIDE DEF t
  <2>2. ASSUME NEW p \in DOMAIN t PROVE GivenBy(x, Lets(t, sub), exec, sub, p)
    <3>1. PICK k \in DOMAIN x.decls :
            /\ t[p] = x.decls[k] /\ Captured(x.decls[k], exec)
            /\ \A l \in 1 .. k - 1 : Captured(x.decls[l], exec) => \E q \in 1 .. p - 1 : t[q] = x.decls[l]
      BY <1>2
    <3>2. \A q \in 1 .. p - 1 : q \in DOMAIN t
      BY <1>2
    <3>3. \A q \in DOMAIN t : Lets(t, sub)[q] = LetOf(t[q], sub) /\ Lets(t, sub)[q].let = t[q].name
      BY <1>2, LetsAre
    <3>4. Lets(t, sub)[p] = LetOf(x.decls[k], sub)
      BY <3>1, <3>3
    <3>5. ASSUME NEW l \in 1 .. k - 1, Captured(x.decls[l], exec)
          PROVE  \E q \in 1 .. p - 1 : Lets(t, sub)[q].let = x.decls[l].name
      <4>1. PICK q \in 1 .. p - 1 : t[q] = x.decls[l]
        BY <3>1, <3>5
      <4> QED
        BY <3>2, <3>3, <4>1
    <3> QED
      BY <3>1, <3>4, <3>5 DEF GivenBy
  <2>3. AllThere(x, Lets(t, sub), exec)
    <3>1. DOMAIN Lets(t, sub) = DOMAIN t /\ \A q \in DOMAIN t : Lets(t, sub)[q].let = t[q].name
      BY <1>2, LetsAre
    <3> QED
      BY <1>2, <3>1 DEF AllThere
  <2> QED
    BY <1>2, <2>1, <2>2, <2>3, LetsAre DEF Gives
<1>4. CASE x.kind = "expr"
  <2>1. Captures(x, exec, sub) = <<Statement(x, sub)>> /\ x.decls = <<>>
    BY <1>1, <1>4 DEF Captures, Statement
  <2>2. Len(x.body) = 1 /\ x.body \in Seq(Exprs)
    BY <1>4 DEF WellFormed, Items
  <2>3. x.body[1] \in Exprs
    BY <2>2
  <2>4. Statement(x, sub) \in MainStmts
    <3>1. Conv[x.body[1]][sub][FALSE] \in Exprs
      BY <2>3, ConvIsExpr
    <3>2. ASSUME NEW e \in Exprs PROVE [let |-> "", e |-> e] \in MainStmts
      BY <3>2 DEF MainStmts
    <3> QED
      BY <3>1, <3>2 DEF Statement
  <2> HIDE DEF Conv
  <2>5. \A p \in DOMAIN <<Statement(x, sub)>> : GivenBy(x, <<Statement(x, sub)>>, exec, sub, p)
    BY <1>4, <2>1 DEF GivenBy
  <2>6. AllThere(x, <<Statement(x, sub)>>, exec)
    BY <2>1 DEF AllThere
  <2> QED
    BY <2>1, <2>4, <2>5, <2>6 DEF Gives
<1>5. CASE x.kind \notin {"var", "expr"}
  <2>1. Captures(x, exec, sub) = <<>> /\ x.decls = <<>>
    BY <1>1, <1>5 DEF Captures
  <2> QED
    BY <2>1 DEF Gives, AllThere
<1> QED
  BY <1>3, <1>4, <1>5

(* A var that fails on its way gives the declarators before the failure.   *)
LEMMA PartGives ==
    ASSUME NEW ds \in Seq(Declarators), NEW exec \in BOOLEAN, NEW sub \in Substitutions,
           NEW n \in 1 .. Len(CapturedOf(ds, exec))
    PROVE  LET t == SubSeq(CapturedOf(ds, exec), 1, n)
               u == SubSeq(Lets(CapturedOf(ds, exec), sub), 1, n)
           IN  /\ t \in Seq(Declarators) /\ u \in Seq(MainStmts) /\ Len(t) = n /\ Gives(Var(t), u, exec, sub)
               /\ \A k \in DOMAIN t : Captured(t[k], exec) /\ \E l \in DOMAIN ds : t[k] = ds[l]
<1> DEFINE c == CapturedOf(ds, exec)
           t == SubSeq(c, 1, n)
           u == SubSeq(Lets(c, sub), 1, n)
<1>1. c \in Seq(Declarators) /\ \A p \in DOMAIN c : \E k \in DOMAIN ds : c[p] = ds[k] /\ Captured(ds[k], exec)
  BY CapturedInOrder DEF InOrder
<1> HIDE DEF c
<1>2. n \in 0 .. Len(c) /\ n \in 0 .. Len(Lets(c, sub)) /\ Lets(c, sub) \in Seq(MainStmts)
  BY <1>1, LetsAre DEF c
<1>3. t \in Seq(Declarators) /\ Len(t) = n /\ DOMAIN t = 1 .. n /\ \A k \in 1 .. n : t[k] = c[k]
  BY <1>1, <1>2, Beginning
<1>4. u \in Seq(MainStmts) /\ DOMAIN u = 1 .. n /\ \A k \in 1 .. n : u[k] = Lets(c, sub)[k]
  BY <1>2, Beginning
<1> HIDE DEF t, u
<1>5. 1 .. n \subseteq DOMAIN c
  BY <1>1, <1>2
<1>6. \A k \in 1 .. n : u[k] = LetOf(t[k], sub) /\ u[k].let = t[k].name
  BY <1>1, <1>3, <1>4, <1>5, LetsAre
<1>7. \A k \in DOMAIN t : Captured(t[k], exec) /\ \E l \in DOMAIN ds : t[k] = ds[l]
  BY <1>1, <1>3, <1>5
<1>8. Var(t).decls = t
  BY DEF Var, Item
<1>9. ASSUME NEW p \in DOMAIN u PROVE GivenBy(Var(t), u, exec, sub, p)
  <2>1. p \in DOMAIN t /\ Captured(t[p], exec) /\ u[p] = LetOf(t[p], sub)
    BY <1>3, <1>4, <1>6, <1>7
  <2>2. \A l \in 1 .. p - 1 : l \in 1 .. n
    BY <1>4
  <2> QED
    BY <1>6, <1>8, <2>1, <2>2 DEF GivenBy
<1>10. AllThere(Var(t), u, exec)
  BY <1>3, <1>4, <1>6, <1>8 DEF AllThere
<1> QED
  BY <1>3, <1>4, <1>7, <1>9, <1>10 DEF Gives, t, u, c

-----------------------------------------------------------------------------
(* The invariant. *)
Exec == IsExecutable(module)
Sub == Substitution(module)

TypeInv ==
    /\ module \in Modules /\ pos \in Nat \ {0} /\ phase \in {"convert", "done"}
    /\ kept \in Seq(KeptItems) /\ mains \in Seq(MainStmts)

(* What was converted is of the module: an item, or a part of a var that   *)
(* is captured.                                                            *)
PartOf(x, y, exec) ==
    /\ y.kind = "var" /\ x.kind = "var" /\ x.body = <<>> /\ x.name = ""
    /\ \A k \in DOMAIN x.decls : Captured(x.decls[k], exec) /\ \E l \in DOMAIN y.decls : x.decls[k] = y.decls[l]

KeptFrom(x, m, exec) == \E j \in DOMAIN m : x = m[j] \/ PartOf(x, m[j], exec)

KeptInv == \A i \in DOMAIN kept : KeptFrom(kept[i], module, Exec)

MainsInv == MainsMatch(kept, mains, Exec, Sub)

(* The items are the library's, what was converted into items, and fn main *)
(* at the end.                                                             *)
LibraryItems(sub) == UNION {EmitFn(Library[f], sub) : f \in DOMAIN Library}

EmittedBy(x, exec, sub) == IF AllCaptured(x, exec) THEN {} ELSE Transformed(x, sub)

MainItem == Emit("fn main", "main", AsyncMain(module), AsyncMain(module), mains)

ItemsInv ==
    items = LibraryItems(Sub) \cup (UNION {EmittedBy(kept[i], Exec, Sub) : i \in DOMAIN kept})
              \cup (IF phase = "done" /\ Synthesizes(module) THEN {MainItem} ELSE {})

Inv == TypeInv /\ KeptInv /\ MainsInv /\ ItemsInv

(* The substitution is one of the three. *)
LEMMA SubIs == \A m : Substitution(m) \in Substitutions
BY DEF Substitution, Substitutions

(* A module runs or does not. *)
LEMMA ExecIs == \A m : IsExecutable(m) \in BOOLEAN
BY DEF IsExecutable

(* The items of a module. *)
LEMMA ModuleItems ==
    ASSUME NEW m \in Modules
    PROVE  /\ m \in Seq(Items)
           /\ \A i \in DOMAIN m : m[i] \in Items /\ WellFormed(m[i]) /\ Declares(m[i]) \cap DOMAIN Library = {}
           /\ \A i, j \in DOMAIN m : i # j => Declares(m[i]) \cap Declares(m[j]) = {}
<1>1. m \in Seq(Items)
  BY ModuleAssumption
<1>2. \A i \in DOMAIN m : m[i] \in Items
  BY <1>1
<1> QED
  BY <1>1, <1>2, ModuleAssumption

(* The invariant holds before the first item. *)
LEMMA InitInv == Init => Inv
<1> SUFFICES ASSUME Init PROVE Inv
  OBVIOUS
<1>1. TypeInv
  BY DEF Init, TypeInv
<1>2. KeptInv /\ MainsInv
  BY DEF Init, KeptInv, MainsInv, MainsMatch
<1>3. ItemsInv
  BY DEF Init, ItemsInv, LibraryItems, Sub
<1> QED
  BY <1>1, <1>2, <1>3 DEF Inv

(* A union of one set more. *)
LEMMA UnionMore ==
    ASSUME NEW A, NEW B
    PROVE  UNION (A \cup {B}) = (UNION A) \cup B
OBVIOUS

(* Unions may be grouped either way. *)
LEMMA Grouped ==
    ASSUME NEW A, NEW B, NEW C
    PROVE  (A \cup B) \cup C = A \cup (B \cup C)
OBVIOUS

(* A step that changes none of what the invariant is about. *)
LEMMA SameInv ==
    ASSUME Inv, UNCHANGED <<module, items, mains, kept, phase>>, pos' \in Nat \ {0}
    PROVE  Inv'
<1>1. Exec' = Exec /\ Sub' = Sub /\ Synthesizes(module)' = Synthesizes(module) /\ MainItem' = MainItem
  BY DEF Exec, Sub, Synthesizes, ExecutableNow, MainItem
<1>2. TypeInv' /\ KeptInv' /\ MainsInv'
  BY <1>1 DEF Inv, TypeInv, KeptInv, MainsInv
<1>3. ItemsInv'
  BY <1>1, Zenon DEF Inv, ItemsInv
<1> QED
  BY <1>2, <1>3 DEF Inv

(* One more item among those converted: what has to be shown of it. *)
LEMMA OneMore ==
    ASSUME Inv, phase = "convert", UNCHANGED <<module, phase>>, pos' = pos + 1,
           NEW x \in KeptItems, kept' = kept \o <<x>>, KeptFrom(x, module, Exec),
           NEW t \in Seq(MainStmts), mains' = mains \o t, Gives(x, t, Exec, Sub),
           items' = items \cup EmittedBy(x, Exec, Sub)
    PROVE  Inv'
<1>1. TypeInv
  BY DEF Inv
<1>2. Exec' = Exec /\ Sub' = Sub /\ kept' = Append(kept, x)
  BY <1>1 DEF TypeInv, Exec, Sub
<1>3. /\ DOMAIN kept' = DOMAIN kept \cup {Len(kept) + 1} /\ kept'[Len(kept) + 1] = x
      /\ \A i \in DOMAIN kept : kept'[i] = kept[i]
  BY <1>1, <1>2 DEF TypeInv
<1>4. TypeInv'
  BY <1>1, <1>2 DEF TypeInv
<1>5. KeptInv'
  <2>1. \A i \in DOMAIN kept : KeptFrom(kept[i], module, Exec)
    BY DEF Inv, KeptInv
  <2> QED
    BY <1>2, <1>3, <2>1 DEF KeptInv
<1>6. MainsInv'
  BY <1>1, <1>2, MainsGrow DEF Inv, MainsInv, TypeInv
<1>7. ItemsInv'
  <2> DEFINE by(i) == EmittedBy(kept[i], Exec, Sub)
  <2>1. items = LibraryItems(Sub) \cup (UNION {by(i) : i \in DOMAIN kept})
    BY DEF Inv, ItemsInv
  <2>2. /\ \A i \in DOMAIN kept : EmittedBy(kept'[i], Exec, Sub) = by(i)
        /\ EmittedBy(kept'[Len(kept) + 1], Exec, Sub) = EmittedBy(x, Exec, Sub)
    BY <1>3
  <2> DEFINE by1(i) == EmittedBy(kept'[i], Exec, Sub)
             all == {by(i) : i \in DOMAIN kept}
             all1 == {by1(i) : i \in DOMAIN kept'}
  <2>5. all1 = all \cup {EmittedBy(x, Exec, Sub)}
    <3> HIDE DEF by, by1
    <3>1. /\ \A i \in DOMAIN kept : by1(i) = by(i)
          /\ by1(Len(kept) + 1) = EmittedBy(x, Exec, Sub)
      BY <2>2 DEF by1, by
    <3> QED
      BY <1>3, <3>1
  <2>6. items' = items \cup EmittedBy(x, Exec, Sub)
    OBVIOUS
  <2>3. items' = LibraryItems(Sub) \cup (UNION all1)
    <3> HIDE DEF all, all1
    <3>1. (UNION all1) = (UNION all) \cup EmittedBy(x, Exec, Sub)
      <4>1. UNION (all \cup {EmittedBy(x, Exec, Sub)}) = (UNION all) \cup EmittedBy(x, Exec, Sub)
        BY UnionMore
      <4> QED
        BY <2>5, <4>1
    <3>2. items = LibraryItems(Sub) \cup (UNION all)
      BY <2>1 DEF all
    <3>3. (LibraryItems(Sub) \cup (UNION all)) \cup EmittedBy(x, Exec, Sub)
            = LibraryItems(Sub) \cup ((UNION all) \cup EmittedBy(x, Exec, Sub))
      BY Grouped
    <3> QED
      BY <2>6, <3>1, <3>2, <3>3
  <2>4. phase' # "done"
    OBVIOUS
  <2>7. items' = LibraryItems(Sub') \cup (UNION {EmittedBy(kept'[i], Exec', Sub') : i \in DOMAIN kept'})
    BY <1>2, <2>3
  <2> QED
    BY <2>4, <2>7 DEF ItemsInv
<1> QED
  BY <1>4, <1>5, <1>6, <1>7 DEF Inv

(* The var that ConvertFails leaves in the history. *)
LEMMA VarIs ==
    ASSUME NEW d \in Seq(Declarators)
    PROVE  [kind |-> "var", name |-> "", decls |-> d, body |-> <<>>] \in KeptItems
<1>1. "var" \in Kinds
  BY DEF Kinds
<1>2. <<>> \in Seq(Exprs) /\ "" \in STRING \cup {""}
  OBVIOUS
<1> DEFINE strings == STRING \cup {""}
<1> HIDE DEF strings
<1>3. "" \in strings
  BY <1>2 DEF strings
<1> QED
  BY <1>1, <1>2, <1>3 DEF KeptItems, strings

(* Every step keeps the invariant: an item skipped, converted, converted   *)
(* in part or refused, and the synthesis of fn main.                       *)
LEMMA StepInv == Inv /\ [Next]_vars => Inv'
<1> SUFFICES ASSUME Inv, [Next]_vars PROVE Inv'
  OBVIOUS
<1>1. TypeInv /\ Exec \in BOOLEAN /\ Sub \in Substitutions
  BY SubIs, ExecIs DEF Inv, Exec, Sub
<1> DEFINE x == module[pos]
           t == Captures(x, Exec, Sub)
           c == CapturedOf(x.decls, Exec)
<1>2. ASSUME phase = "convert", pos <= Len(module)
      PROVE  /\ pos \in DOMAIN module /\ x \in Items /\ x \in KeptItems /\ WellFormed(x) /\ KeptFrom(x, module, Exec)
             /\ t \in Seq(MainStmts) /\ Gives(x, t, Exec, Sub)
  <2>1. module \in Seq(Items)
    BY <1>1, ModuleItems DEF TypeInv
  <2>2. pos \in DOMAIN module
    BY <1>1, <1>2, <2>1 DEF TypeInv
  <2>3. x \in Items /\ WellFormed(x)
    BY <1>1, <2>2, ModuleItems DEF TypeInv
  <2>4. x \in KeptItems
    <3> HIDE DEF x
    <3> QED
      BY <2>3 DEF Items, KeptItems
  <2> QED
    BY <1>1, <2>2, <2>3, <2>4, CapturesGive DEF KeptFrom
<1>3. CASE SkipEmpty
  <2>1. kept' = kept /\ UNCHANGED <<module, phase, items, mains>> /\ pos' \in Nat \ {0}
    BY <1>1, <1>3 DEF SkipEmpty, Advance, TypeInv
  <2> QED
    BY <2>1, SameInv
<1>4. CASE Convert
  <2>1. /\ phase = "convert" /\ pos <= Len(module) /\ UNCHANGED <<module, phase>> /\ pos' = pos + 1
        /\ kept' = kept \o <<x>> /\ mains' = mains \o t /\ items' = items \cup EmittedBy(x, Exec, Sub)
    BY <1>4 DEF Convert, Advance, EmittedBy, Exec, Sub
  <2> HIDE DEF x, t
  <2> QED
    BY <1>2, <2>1, OneMore
<1>5. ASSUME NEW n \in 0 .. 2, ConvertFails(n) PROVE Inv'
  <2>1. /\ phase = "convert" /\ pos <= Len(module) /\ UNCHANGED <<module, phase, items>> /\ pos' = pos + 1
        /\ n <= Len(t) /\ (n > 0 => x.kind = "var")
        /\ mains' = mains \o SubSeq(t, 1, n) /\ kept' = kept \o Part(x, n, Exec)
    BY <1>5 DEF ConvertFails, Advance, Exec, Sub
  <2>2. CASE n = 0
    <3>1. kept' = kept /\ mains' = mains
      BY <1>1, <2>1, <2>2, SubSeqEmpty DEF TypeInv, Part
    <3>2. pos' \in Nat \ {0}
      BY <1>1, <2>1 DEF TypeInv
    <3> QED
      BY <2>1, <3>1, <3>2, SameInv
  <2>3. CASE n # 0
    <3> DEFINE y == Var(SubSeq(c, 1, n))
               u == SubSeq(t, 1, n)
    <3>0. x.kind = "var" /\ x.decls \in Seq(Declarators)
      BY <1>2, <2>1, <2>3 DEF Items
    <3>1. x.kind = "var" /\ t = Lets(c, Sub) /\ x.decls \in Seq(Declarators)
      BY <3>0 DEF Captures
    <3>2. c \in Seq(Declarators)
      BY <1>1, <3>1, CapturedInOrder DEF InOrder
    <3>3. n \in 1 .. Len(c)
      <4> HIDE DEF x, t, c
      <4> QED
        BY <1>1, <2>1, <2>3, <3>1, <3>2, LetsAre
    <3>4. /\ SubSeq(c, 1, n) \in Seq(Declarators) /\ u \in Seq(MainStmts) /\ Len(SubSeq(c, 1, n)) = n
          /\ Gives(y, u, Exec, Sub)
          /\ \A k \in DOMAIN SubSeq(c, 1, n) : /\ Captured(SubSeq(c, 1, n)[k], Exec)
                                               /\ \E l \in DOMAIN x.decls : SubSeq(c, 1, n)[k] = x.decls[l]
      BY <1>1, <3>1, <3>3, PartGives
    <3>5. /\ y.kind = "var" /\ y.decls = SubSeq(c, 1, n) /\ y.body = <<>> /\ y.name = ""
          /\ kept' = kept \o <<y>>
      BY <2>1, <2>3 DEF Var, Item, Part
    <3>6. y \in KeptItems
      <4> DEFINE d == SubSeq(c, 1, n)
      <4> HIDE DEF d
      <4>1. d \in Seq(Declarators) /\ y = [kind |-> "var", name |-> "", decls |-> d, body |-> <<>>]
        BY <3>4 DEF Var, Item, d
      <4> QED
        BY <4>1, VarIs
    <3>7. KeptFrom(y, module, Exec)
      <4> HIDE DEF y, c
      <4>1. PartOf(y, x, Exec)
        BY <3>1, <3>4, <3>5 DEF PartOf
      <4> QED
        BY <1>2, <2>1, <4>1 DEF KeptFrom
    <3>8. AllCaptured(y, Exec)
      BY <3>4, <3>5 DEF AllCaptured
    <3>9. items' = items \cup EmittedBy(y, Exec, Sub)
      BY <2>1, <3>8 DEF EmittedBy
    <3> HIDE DEF x, y, u, t, c
    <3> QED
      BY <2>1, <3>4, <3>5, <3>6, <3>7, <3>9, OneMore DEF u
  <2> QED
    BY <2>2, <2>3
<1>6. CASE Synthesize
  <2>1. /\ phase = "convert" /\ phase' = "done" /\ UNCHANGED <<module, pos, mains, kept>>
        /\ items' = items \cup IF Synthesizes(module) THEN {MainItem} ELSE {}
    BY <1>6 DEF Synthesize, MainItem
  <2>2. Synthesizes(module)' = Synthesizes(module) /\ MainItem' = MainItem /\ Exec' = Exec /\ Sub' = Sub
    BY <2>1 DEF Synthesizes, ExecutableNow, MainItem, Exec, Sub
  <2>3. items = LibraryItems(Sub) \cup (UNION {EmittedBy(kept[i], Exec, Sub) : i \in DOMAIN kept})
    BY <2>1 DEF Inv, ItemsInv
  <2>4. ItemsInv'
    <3>1. items' = LibraryItems(Sub') \cup (UNION {EmittedBy(kept'[i], Exec', Sub') : i \in DOMAIN kept'})
                     \cup IF Synthesizes(module) THEN {MainItem} ELSE {}
      BY <2>1, <2>2, <2>3, Zenon
    <3>2. items' = LibraryItems(Sub') \cup (UNION {EmittedBy(kept'[i], Exec', Sub') : i \in DOMAIN kept'})
                     \cup IF phase' = "done" /\ Synthesizes(module)' THEN {MainItem'} ELSE {}
      BY <2>1, <2>2, <3>1
    <3> QED
      BY <3>2, Zenon DEF ItemsInv
  <2> QED
    BY <1>1, <2>1, <2>2, <2>4 DEF Inv, TypeInv, KeptInv, MainsInv
<1>7. CASE UNCHANGED vars
  BY <1>1, <1>7, SameInv DEF vars, TypeInv
<1> QED
  BY <1>3, <1>4, <1>5, <1>6, <1>7 DEF Next

(* The invariant holds at every moment. *)
THEOREM InvHolds == Spec => []Inv
<1> QED
  BY InitInv, StepInv, PTL DEF Spec
-----------------------------------------------------------------------------
(* Where the first main of a module stands. *)
LEMMA FirstNumber ==
    ASSUME NEW I \in SUBSET Nat, I # {}
    PROVE  \E i \in I : \A j \in 1 .. i - 1 : j \notin I
<1> DEFINE R == OpToRel(<, Nat)
<1>1. \A n, m \in Nat : n < m => <<n, m>> \in R
  BY DEF OpToRel
<1>2. IsWellFoundedOn(R, Nat)
  BY NatLessThanWellFounded, Zenon
<1> HIDE DEF R
<1>3. PICK i \in I : \A j \in I : ~ (<<j, i>> \in R)
  BY <1>2, WFMin
<1>4. \A j \in I : ~ (j < i)
  BY <1>1, <1>3
<1> QED
  BY <1>4

(* The places of a sequence. *)
LEMMA Positions ==
    ASSUME NEW D, NEW s \in Seq(D)
    PROVE  DOMAIN s = 1 .. Len(s) /\ Len(s) \in Nat /\ DOMAIN s \subseteq Nat
OBVIOUS

(* What detect_user_main says of one item: something if and only if it     *)
(* declares one of the names, and then from a declaration of that name.    *)
LEMMA CandidatesAre ==
    ASSUME NEW x, WellFormed(x)
    PROVE  /\ x.kind = "var" => \A c \in Candidates(x) : \E k \in DOMAIN x.decls :
                                   x.decls[k].name \in MainNames /\ c = Shape(x.decls[k].name, x.decls[k].init.op)
           /\ x.kind # "var" => \A c \in Candidates(x) :
                                   /\ x.name \in MainNames
                                   /\ c = Shape(x.name, IF x.kind = "default" THEN "fn" ELSE x.kind)
           /\ Named(x) \cap MainNames # {} => Candidates(x) # {}
<1>1. x.decls \in Seq(Declarators) /\ (x.kind # "var" => x.decls = <<>>) /\ (x.kind = "var" => x.name = "")
      /\ DOMAIN x.decls = 1 .. Len(x.decls) /\ Len(x.decls) \in Nat
  <2>1. x \in Items /\ (x.kind = "var" <=> x.decls # <<>>)
          /\ (x.name # "" => x.kind \in Fns \cup Types \cup {"default"})
    BY DEF WellFormed
  <2>2. x.decls \in Seq(Declarators)
    BY <2>1 DEF Items
  <2>3. x.kind = "var" => x.name = ""
    BY <2>1 DEF Fns, Types
  <2>4. DOMAIN x.decls = 1 .. Len(x.decls) /\ Len(x.decls) \in Nat
    BY <2>2, Positions
  <2> QED
    BY <2>1, <2>2, <2>3, <2>4
<1>2. ASSUME x.kind = "var", NEW k \in DOMAIN x.decls, x.decls[k].name \in MainNames PROVE Candidates(x) # {}
  <2> DEFINE I == {n \in DOMAIN x.decls : x.decls[n].name \in MainNames}
  <2>0. k \in I
    BY <1>2
  <2>1. I \in SUBSET Nat /\ I # {}
    <3>1. DOMAIN x.decls \subseteq Nat
      BY <1>1, Positions
    <3> QED
      BY <1>1, <2>0, <3>1
  <2>2. PICK i \in I : \A j \in 1 .. i - 1 : j \notin I
    BY <2>1, FirstNumber
  <2>3. \A j \in 1 .. i - 1 : j \in DOMAIN x.decls
    <3>1. i \in 1 .. Len(x.decls) /\ Len(x.decls) \in Nat
      BY <1>1, <2>2
    <3>2. \A j \in 1 .. i - 1 : j \in 1 .. Len(x.decls)
      BY <3>1
    <3> QED
      BY <1>1, <3>2
  <2>4. Shape(x.decls[i].name, x.decls[i].init.op) \in Candidates(x)
    BY <1>2, <2>2, <2>3 DEF Candidates
  <2> QED
    BY <2>4
<1>3. ASSUME x.kind # "var", x.name \in MainNames PROVE Candidates(x) # {}
  BY <1>3 DEF Candidates
<1>4. ASSUME NEW n \in Named(x) \cap MainNames PROVE Candidates(x) # {}
  <2>1. n # "" /\ n \in MainNames /\ (n = x.name \/ \E k \in DOMAIN x.decls : n = x.decls[k].name)
    BY DEF Named
  <2>2. MainNames # {} /\ "" \notin MainNames
    BY DEF MainNames
  <2> QED
    <3>1. CASE n = x.name
      BY <1>1, <1>3, <2>1, <2>2, <3>1
    <3>2. ASSUME NEW k \in DOMAIN x.decls, n = x.decls[k].name PROVE Candidates(x) # {}
      <4>1. x.kind = "var"
        <5>1. x.decls # <<>>
          BY <3>2
        <5> QED
          BY <1>1, <5>1
      <4> QED
        BY <1>2, <2>1, <3>2, <4>1
    <3> QED
      BY <2>1, <3>1, <3>2
<1>5. x.kind = "var" => \A c \in Candidates(x) : \E k \in DOMAIN x.decls :
          x.decls[k].name \in MainNames /\ c = Shape(x.decls[k].name, x.decls[k].init.op)
  BY DEF Candidates
<1>6. x.kind # "var" => \A c \in Candidates(x) :
          x.name \in MainNames /\ c = Shape(x.name, IF x.kind = "default" THEN "fn" ELSE x.kind)
  BY DEF Candidates
<1> QED
  BY <1>4, <1>5, <1>6

(* Where nothing is called __ts_main there is no collision, and what       *)
(* detect_user_main says is said by the first item called main.            *)
LEMMA UserMainIs ==
    ASSUME NEW m \in Modules, ~ Reserved(m)
    PROVE  /\ UserMain(m) # "Collision"
           /\ \A j \in DOMAIN m : Named(m[j]) \cap MainNames # {} =>
                 \E i \in 1 .. j : i \in DOMAIN m /\ UserMain(m) \in Candidates(m[i]) /\ "main" \in Named(m[i])
<1>1. /\ \A i \in DOMAIN m : WellFormed(m[i])
      /\ m \in Seq(Items) /\ DOMAIN m = 1 .. Len(m) /\ Len(m) \in Nat
  BY ModuleItems
<1>2. ASSUME NEW i \in DOMAIN m, NEW c \in Candidates(m[i]) PROVE c # "Collision" /\ "main" \in Named(m[i])
  <2>1. \E n \in MainNames : n \in Named(m[i]) /\ \E fn : c = Shape(n, fn)
    <3>1. \A n \in MainNames : n # ""
      BY DEF MainNames
    <3>2. CASE m[i].kind = "var"
      <4>1. PICK k \in DOMAIN m[i].decls :
              m[i].decls[k].name \in MainNames /\ c = Shape(m[i].decls[k].name, m[i].decls[k].init.op)
        BY <1>1, <3>2, CandidatesAre
      <4> QED
        BY <3>1, <4>1 DEF Named
    <3>3. CASE m[i].kind # "var"
      <4>1. m[i].name \in MainNames /\ c = Shape(m[i].name, IF m[i].kind = "default" THEN "fn" ELSE m[i].kind)
        BY <1>1, <3>3, CandidatesAre
      <4> QED
        BY <3>1, <4>1 DEF Named
    <3> QED
      BY <3>2, <3>3
  <2>2. PICK n \in MainNames : n \in Named(m[i]) /\ \E fn : c = Shape(n, fn)
    BY <2>1
  <2>3. n = "main"
    BY <2>2 DEF Reserved, MainNames
  <2>4. PICK fn : c = Shape(n, fn)
    BY <2>2
  <2> QED
    BY <2>2, <2>3, <2>4 DEF Shape
<1>3. ~ \E i \in DOMAIN m : "Collision" \in Candidates(m[i])
  BY <1>2
<1> DEFINE first == {i \in DOMAIN m : Candidates(m[i]) # {} /\ \A j \in 1 .. i - 1 : Candidates(m[j]) = {}}
           all == UNION {Candidates(m[i]) : i \in first}
<1>4. UserMain(m) = IF first = {} THEN "None" ELSE CHOOSE c \in all : TRUE
  BY <1>3, Zenon DEF UserMain
<1>5. ASSUME NEW j \in DOMAIN m, Candidates(m[j]) # {}
      PROVE  \E i \in 1 .. j : i \in first /\ UserMain(m) \in Candidates(m[i])
  <2> DEFINE I == {i \in DOMAIN m : Candidates(m[i]) # {}}
  <2>0. 1 .. Len(m) \subseteq Nat
    BY <1>1
  <2>1. I \in SUBSET Nat /\ I # {} /\ DOMAIN m = 1 .. Len(m) /\ Len(m) \in Nat
    BY <1>1, <1>5, <2>0
  <2> HIDE DEF I
  <2>2. PICK i \in I : \A l \in 1 .. i - 1 : l \notin I
    BY <2>1, FirstNumber
  <2>3. i \in DOMAIN m /\ Candidates(m[i]) # {} /\ \A l \in 1 .. i - 1 : Candidates(m[l]) = {}
    <3>1. i \in DOMAIN m /\ Candidates(m[i]) # {}
      BY <2>2 DEF I
    <3>2. \A l \in 1 .. i - 1 : l \in DOMAIN m
      BY <2>1, <3>1
    <3> QED
      BY <2>2, <3>1, <3>2 DEF I
  <2>4. \A h \in first : h = i
    <3>1. SUFFICES ASSUME NEW h \in first PROVE h = i
      OBVIOUS
    <3>2. h \in 1 .. Len(m) /\ i \in 1 .. Len(m)
      BY <2>1, <2>3
    <3>4. i \in 1 .. h - 1 => Candidates(m[i]) = {}
      BY <3>1
    <3>5. h \in 1 .. i - 1 => Candidates(m[h]) = {}
      BY <2>3
    <3>6. Candidates(m[h]) # {} /\ Candidates(m[i]) # {}
      BY <2>3, <3>1
    <3>3. ~ (h < i) /\ ~ (i < h)
      <4> HIDE DEF first
      <4> QED
        BY <2>1, <3>2, <3>4, <3>5, <3>6
    <3> QED
      BY <2>1, <3>2, <3>3
  <2>5. i \in first
    BY <2>3
  <2>6. i <= j
    <3>0. j \in 1 .. i - 1 => Candidates(m[j]) = {}
      BY <2>3
    <3>1. ~ (j < i)
      BY <1>5, <2>1, <2>3, <3>0
    <3> QED
      BY <2>1, <2>3, <3>1
  <2>7. all = Candidates(m[i])
    <3> HIDE DEF first
    <3>1. first = {i}
      BY <2>4, <2>5
    <3> QED
      BY <3>1
  <2>8. UserMain(m) \in Candidates(m[i])
    <3> HIDE DEF first, all
    <3> QED
      BY <1>4, <2>3, <2>5, <2>7
  <2>9. i \in 1 .. j
    BY <2>1, <2>3, <2>6
  <2> HIDE DEF first
  <2> QED
    BY <2>5, <2>8, <2>9
<1>6. UserMain(m) # "Collision"
  <2>1. CASE first = {}
    BY <1>4, <2>1
  <2>2. CASE first # {}
    <3>1. PICK j \in first : TRUE
      BY <2>2
    <3>2. PICK i \in DOMAIN m : UserMain(m) \in Candidates(m[i])
      BY <1>5, <3>1
    <3> QED
      BY <1>3, <3>2
  <2> QED
    BY <2>1, <2>2
<1>7. ASSUME NEW j \in DOMAIN m, Named(m[j]) \cap MainNames # {}
      PROVE  \E i \in 1 .. j : i \in DOMAIN m /\ UserMain(m) \in Candidates(m[i]) /\ "main" \in Named(m[i])
  <2>1. Candidates(m[j]) # {}
    BY <1>1, <1>7, CandidatesAre
  <2> QED
    BY <1>2, <1>5, <2>1
<1> QED
  BY <1>6, <1>7

-----------------------------------------------------------------------------
(* Where an item comes from: the library, a converted item of the module,  *)
(* or it is the synthesized fn main.                                       *)
OfLibrary(f) == \E g \in DOMAIN Library : f \in EmitFn(Library[g], Sub)
OfModule(f, j) == j \in DOMAIN module /\ f \in Transformed(module[j], Sub)

(* Every emitted item has one of three origins. *)
LEMMA ItemOrigin ==
    ASSUME Inv, NEW f \in items
    PROVE  \/ OfLibrary(f)
           \/ \E j : OfModule(f, j) /\ \E i \in DOMAIN kept : kept[i] = module[j]
           \/ phase = "done" /\ Synthesizes(module) /\ f = MainItem
<1>1. \/ f \in LibraryItems(Sub)
      \/ \E i \in DOMAIN kept : f \in EmittedBy(kept[i], Exec, Sub)
      \/ phase = "done" /\ Synthesizes(module) /\ f = MainItem
  BY DEF Inv, ItemsInv
<1>2. f \in LibraryItems(Sub) => OfLibrary(f)
  BY DEF LibraryItems, OfLibrary
<1>3. ASSUME NEW i \in DOMAIN kept, f \in EmittedBy(kept[i], Exec, Sub)
      PROVE  \E j : OfModule(f, j) /\ kept[i] = module[j]
  <2>1. ~ AllCaptured(kept[i], Exec) /\ f \in Transformed(kept[i], Sub)
    BY <1>3 DEF EmittedBy
  <2>2. PICK j \in DOMAIN module : kept[i] = module[j] \/ PartOf(kept[i], module[j], Exec)
    BY DEF Inv, KeptInv, KeptFrom
  <2>3. ~ PartOf(kept[i], module[j], Exec)
    BY <2>1 DEF PartOf, AllCaptured
  <2> QED
    BY <2>1, <2>2, <2>3 DEF OfModule
<1> QED
  BY <1>1, <1>2, <1>3

(* What an item of the module is turned into, by the sort of the item. *)
FnItem(x, sub) ==
    Emit("fn", Renamed(x.name, sub), x.kind = "async fn",
         x.kind = "async fn" /\ Renamed(x.name, sub) = "main", ConvAll(x.body, sub))
ArrowItem(d, sub) ==
    Emit("fn", Renamed(d.name, sub), d.init.op = "async arrow", FALSE, ConvAll(d.init.args, sub))
ConstItem(d) == Emit("const", d.name, FALSE, FALSE, <<>>)

(* What convert_fn_decl emits. *)
LEMMA EmitFnIs == \A x, sub : EmitFn(x, sub) = {FnItem(x, sub)}
BY DEF EmitFn, FnItem

(* What convert_var_decl_module_level emits for one declarator. *)
LEMMA EmitDeclIs ==
    ASSUME NEW d, NEW sub
    PROVE  EmitDecl(d, sub) = IF d.init.op \in Arrows THEN {ArrowItem(d, sub)}
                              ELSE IF d.init.op = "num" THEN {ConstItem(d)} ELSE {}
<1>1. "num" \notin Arrows
  BY DEF Arrows
<1> QED
  BY <1>1 DEF EmitDecl, ArrowItem, ConstItem

(* What transform_decl emits, by the sort of the item. *)
LEMMA TransformedIs ==
    ASSUME NEW x, x.kind \in Kinds, NEW sub, NEW f
    PROVE  f \in Transformed(x, sub) <=>
              \/ x.kind \in Fns /\ f = FnItem(x, sub)
              \/ x.kind = "var" /\ \E k \in DOMAIN x.decls :
                    \/ x.decls[k].init.op \in Arrows /\ f = ArrowItem(x.decls[k], sub)
                    \/ x.decls[k].init.op = "num" /\ f = ConstItem(x.decls[k])
              \/ x.kind \in Types /\ f = Emit("type", x.name, FALSE, FALSE, <<>>)
<1>1. "var" \notin Fns \cup Types /\ Fns \cap Types = {} /\ "num" \notin Arrows
  BY DEF Fns, Types, Arrows
<1>2. CASE x.kind \in Fns
  BY <1>1, <1>2, EmitFnIs DEF Transformed
<1>3. CASE x.kind = "var"
  <2>1. Transformed(x, sub) = UNION {EmitDecl(x.decls[i], sub) : i \in DOMAIN x.decls}
    BY <1>1, <1>3 DEF Transformed
  <2>2. f \in Transformed(x, sub) <=> \E k \in DOMAIN x.decls : f \in EmitDecl(x.decls[k], sub)
    BY <2>1
  <2> QED
    BY <1>1, <1>3, <2>2, EmitDeclIs
<1>4. CASE x.kind \in Types
  BY <1>1, <1>4 DEF Transformed
<1>5. CASE x.kind \notin Fns \cup Types \cup {"var"}
  BY <1>1, <1>5 DEF Transformed
<1> QED
  BY <1>2, <1>3, <1>4, <1>5

(* The functions of the library are not called main. *)
LEMMA LibraryIs ==
    ASSUME NEW g \in DOMAIN Library
    PROVE  /\ WellFormed(Library[g]) /\ Library[g].kind \in Fns /\ Library[g].name = g
           /\ g \notin MainNames /\ g # "" /\ \A sub : Renamed(g, sub) = g
<1>1. g \notin MainNames \cup {""}
  BY ModuleAssumption
<1>2. g # "main"
  BY <1>1 DEF MainNames
<1> QED
  BY <1>1, <1>2, ModuleAssumption DEF Renamed

(* An emitted item is called main only if its source is, and nothing is    *)
(* renamed.                                                                *)
DeclaresMain(x, f, sub) ==
    \/ x.kind \in Fns /\ x.name = "main" /\ f = FnItem(x, sub)
    \/ /\ x.kind = "var"
       /\ \E k \in DOMAIN x.decls : /\ x.decls[k].name = "main" /\ x.decls[k].init.op \in Arrows
                                    /\ f = ArrowItem(x.decls[k], sub)

(* An item called main that the module itself gives has that name in the  *)
(* source, and nothing is renamed.                                         *)
LEMMA OwnMain ==
    ASSUME Inv, ~ Reserved(module), ~ ConstMain(module),
           NEW f, NEW j, OfModule(f, j), f.name = "main", f.kind # "type"
    PROVE  /\ Sub = "None" /\ DeclaresMain(module[j], f, Sub)
           /\ "main" \in Declares(module[j]) /\ WellFormed(module[j])
<1>1. j \in DOMAIN module /\ f \in Transformed(module[j], Sub) /\ module[j] \in Items /\ WellFormed(module[j])
  BY ModuleItems DEF OfModule, Inv, TypeInv
<1> DEFINE x == module[j]
<1>2. x.kind \in Kinds
  BY <1>1 DEF Items
<1>3. \A n : Renamed(n, Sub) = "main" => n = "main" /\ Sub = "None"
  BY DEF Renamed
<1> HIDE DEF x
<1>4. CASE x.kind \in Fns /\ f = FnItem(x, Sub)
  <2>1. Renamed(x.name, Sub) = "main"
    BY <1>4 DEF FnItem, Emit
  <2>2. x.kind # "type"
    BY <1>4 DEF Fns
  <2> QED
    BY <1>1, <1>3, <1>4, <2>1, <2>2 DEF DeclaresMain, Declares, Named, x
<1>5. ASSUME x.kind = "var", NEW k \in DOMAIN x.decls, x.decls[k].init.op \in Arrows, f = ArrowItem(x.decls[k], Sub)
      PROVE  Sub = "None" /\ DeclaresMain(x, f, Sub) /\ "main" \in Declares(x)
  <2>1. Renamed(x.decls[k].name, Sub) = "main"
    BY <1>5 DEF ArrowItem, Emit
  <2>2. x.decls[k].name = "main"
    BY <1>3, <2>1
  <2> QED
    BY <1>3, <1>5, <2>1, <2>2 DEF DeclaresMain, Declares, Named
<1>6. ASSUME x.kind = "var", NEW k \in DOMAIN x.decls, x.decls[k].init.op = "num", f = ConstItem(x.decls[k])
      PROVE  FALSE
  <2>1. x.decls[k].name = "main"
    BY <1>6 DEF ConstItem, Emit
  <2>2. x.decls[k] \in ToSet(x.decls)
    BY <1>6 DEF ToSet
  <2>3. x.decls[k] \in DeclsOf(module)
    BY <1>1, <2>2 DEF DeclsOf, x
  <2> QED
    BY <1>6, <2>1, <2>3 DEF ConstMain
<1>7. CASE x.kind \in Types /\ f = Emit("type", x.name, FALSE, FALSE, <<>>)
  BY <1>7 DEF Emit
<1> QED
  BY <1>1, <1>2, <1>4, <1>5, <1>6, <1>7, TransformedIs DEF x

(* Two of them are one: a module declares a name once. *)
LEMMA OwnMainOnce ==
    ASSUME Inv, ~ Reserved(module), ~ ConstMain(module),
           NEW f, NEW j, OfModule(f, j), f.name = "main", f.kind # "type",
           NEW g, NEW i, OfModule(g, i), g.name = "main", g.kind # "type"
    PROVE  f = g
<1>1. DeclaresMain(module[j], f, Sub) /\ "main" \in Declares(module[j]) /\ WellFormed(module[j])
  BY OwnMain
<1>2. DeclaresMain(module[i], g, Sub) /\ "main" \in Declares(module[i])
  BY OwnMain
<1>3. i = j
  <2>1. i \in DOMAIN module /\ j \in DOMAIN module /\ module \in Modules
    BY DEF OfModule, Inv, TypeInv
  <2>2. i # j => Declares(module[i]) \cap Declares(module[j]) = {}
    BY <2>1, ModuleItems
  <2> QED
    BY <1>1, <1>2, <2>2
<1>4. "var" \notin Fns
  BY DEF Fns
<1>5. \A k, l \in DOMAIN module[j].decls :
         module[j].decls[k].name = "main" /\ module[j].decls[l].name = "main" => k = l
  BY <1>1 DEF WellFormed
<1> DEFINE x == module[j]
<1>6. DeclaresMain(x, f, Sub) /\ DeclaresMain(x, g, Sub)
  BY <1>1, <1>2, <1>3
<1> HIDE DEF x
<1>7. CASE x.kind \in Fns
  BY <1>4, <1>6, <1>7 DEF DeclaresMain
<1>8. CASE x.kind \notin Fns
  <2>1. PICK k \in DOMAIN x.decls : x.decls[k].name = "main" /\ f = ArrowItem(x.decls[k], Sub)
    BY <1>6, <1>8 DEF DeclaresMain
  <2>2. PICK l \in DOMAIN x.decls : x.decls[l].name = "main" /\ g = ArrowItem(x.decls[l], Sub)
    BY <1>6, <1>8 DEF DeclaresMain
  <2>3. k = l
    BY <1>5, <2>1, <2>2 DEF x
  <2> QED
    BY <2>1, <2>2, <2>3
<1> QED
  BY <1>7, <1>8

(* Where a module runs, its own main is renamed: what is still called main *)
(* is no function.                                                         *)
LEMMA ExecutableHasNoOwn ==
    ASSUME Inv, IsExecutable(module), ~ Reserved(module), ~ ConstMain(module), ~ TypeHidesMain(module),
           NEW f, NEW j, OfModule(f, j), f.name = "main", f.kind # "type"
    PROVE  FALSE
<1>1. /\ Sub = "None" /\ DeclaresMain(module[j], f, Sub)
      /\ "main" \in Declares(module[j]) /\ WellFormed(module[j])
  BY OwnMain
<1>2. module \in Modules /\ j \in DOMAIN module
  BY DEF OfModule, Inv, TypeInv
<1>3. "main" \in MainNames /\ "main" \in Named(module[j])
  BY <1>1 DEF Declares, MainNames
<1>4. PICK i \in 1 .. j : i \in DOMAIN module /\ UserMain(module) \in Candidates(module[i]) /\ "main" \in Named(module[i])
  BY <1>2, <1>3, UserMainIs
<1>5. UserMain(module) \notin {"FnSync", "FnAsync"}
  BY <1>1 DEF Sub, Substitution
<1>6. DOMAIN module = 1 .. Len(module) /\ Len(module) \in Nat /\ WellFormed(module[i])
  BY <1>2, <1>4, ModuleItems
<1>7. CASE i = j
  <2> DEFINE x == module[j]
  <2>1. CASE x.kind \in Fns /\ x.name = "main"
    <3>1. UserMain(module) = Shape("main", x.kind) /\ x.kind # "var" /\ x.kind # "default"
      BY <1>1, <1>4, <1>7, <2>1, CandidatesAre DEF Fns
    <3> QED
      BY <1>5, <2>1, <3>1 DEF Shape, Fns
  <2>2. ASSUME x.kind = "var", NEW k \in DOMAIN x.decls, x.decls[k].name = "main", x.decls[k].init.op \in Arrows
        PROVE  FALSE
    <3>1. PICK l \in DOMAIN x.decls :
            x.decls[l].name \in MainNames /\ UserMain(module) = Shape(x.decls[l].name, x.decls[l].init.op)
      BY <1>1, <1>4, <1>7, <2>2, CandidatesAre
    <3>2. x.decls[l].name = "main"
      BY <1>2, <3>1 DEF Reserved, Named, MainNames
    <3>3. k = l
      BY <1>1, <2>2, <3>1, <3>2 DEF WellFormed
    <3> QED
      BY <1>5, <2>2, <3>1, <3>2, <3>3 DEF Shape, Arrows
  <2> QED
    BY <1>1, <2>1, <2>2 DEF DeclaresMain
<1>8. CASE i # j
  <2>1. Declares(module[i]) \cap Declares(module[j]) = {}
    BY <1>2, <1>4, <1>8, ModuleItems
  <2>2. module[i].kind = "type"
    BY <1>1, <1>4, <2>1 DEF Declares
  <2>3. module[i].decls = <<>>
    BY <1>6, <2>2 DEF WellFormed
  <2>4. module[i].name = "main"
    BY <1>4, <2>3 DEF Named
  <2>5. i < j
    BY <1>2, <1>4, <1>6, <1>8
  <2> QED
    BY <1>1, <1>2, <1>4, <2>2, <2>4, <2>5 DEF TypeHidesMain
<1> QED
  BY <1>7, <1>8

(* Of the functions emitted one is called __ts_main only where something   *)
(* runs.                                                                   *)
LEMMA RenamedRuns ==
    ASSUME Inv, ~ Reserved(module), NEW f \in items, f.kind = "fn", f.name = "__ts_main"
    PROVE  IsExecutable(module)
<1>1. \A n : Renamed(n, Sub) = "__ts_main" => n = "__ts_main" \/ Sub # "None"
  BY DEF Renamed
<1>2. Sub # "None" => IsExecutable(module)
  BY DEF Sub, Substitution
<1>3. CASE OfLibrary(f)
  <2>1. PICK g \in DOMAIN Library : f = FnItem(Library[g], Sub)
    BY <1>3, EmitFnIs DEF OfLibrary
  <2>2. f.name = g
    BY <2>1, LibraryIs DEF FnItem, Emit
  <2> QED
    BY <2>2, LibraryIs DEF MainNames
<1>4. ASSUME NEW j, OfModule(f, j) PROVE IsExecutable(module)
  <2>1. j \in DOMAIN module /\ f \in Transformed(module[j], Sub) /\ module[j] \in Items
    BY <1>4, ModuleItems DEF OfModule, Inv, TypeInv
  <2> DEFINE x == module[j]
  <2>2. x.kind \in Kinds
    BY <2>1 DEF Items
  <2>3. "__ts_main" \notin Named(x)
    BY <2>1 DEF Reserved
  <2> HIDE DEF x
  <2>4. CASE f = FnItem(x, Sub)
    <3>1. Renamed(x.name, Sub) = "__ts_main"
      BY <2>4 DEF FnItem, Emit
    <3>2. x.name # "__ts_main"
      BY <2>3 DEF Named
    <3> QED
      BY <1>1, <1>2, <3>1, <3>2
  <2>5. ASSUME NEW k \in DOMAIN x.decls, f = ArrowItem(x.decls[k], Sub) PROVE IsExecutable(module)
    <3>1. Renamed(x.decls[k].name, Sub) = "__ts_main"
      BY <2>5 DEF ArrowItem, Emit
    <3>2. x.decls[k].name # "__ts_main"
      BY <2>3 DEF Named
    <3> QED
      BY <1>1, <1>2, <3>1, <3>2
  <2>6. ASSUME NEW k \in DOMAIN x.decls, f = ConstItem(x.decls[k]) PROVE FALSE
    BY <2>6 DEF ConstItem, Emit
  <2>7. f # Emit("type", x.name, FALSE, FALSE, <<>>)
    BY DEF Emit
  <2> QED
    BY <2>1, <2>2, <2>4, <2>5, <2>6, <2>7, TransformedIs DEF x
<1>5. CASE f = MainItem
  BY <1>5 DEF MainItem, Emit
<1> QED
  BY <1>3, <1>4, <1>5, ItemOrigin

(* One entry follows from the invariant: either fn main is synthesized and  *)
(* the module's own main renamed, or neither.                              *)
LEMMA OneEntryInv == Inv => OneEntry
<1> SUFFICES ASSUME Inv, Done, ModesAgree, ~ Reserved(module), ~ ConstMain(module), ~ TypeHidesMain(module)
             PROVE  /\ \A f, g \in Entries : f = g
                    /\ IsExecutable(module) => \E f \in Entries : f.kind = "fn main"
                    /\ HasFn("__ts_main") => IsExecutable(module)
  BY DEF OneEntry
<1>1. ASSUME NEW f \in Entries
      PROVE  (\E j : OfModule(f, j)) \/ (Synthesizes(module) /\ f = MainItem)
  <2>1. f \in items /\ f.name = "main"
    BY DEF Entries
  <2>2. ~ OfLibrary(f)
    <3>1. SUFFICES ASSUME NEW g \in DOMAIN Library, f = FnItem(Library[g], Sub) PROVE FALSE
      BY EmitFnIs DEF OfLibrary
    <3>2. f.name = g
      BY <3>1, LibraryIs DEF FnItem, Emit
    <3> QED
      BY <2>1, <3>2, LibraryIs DEF MainNames
  <2> QED
    BY <2>1, <2>2, ItemOrigin
<1>2. \A f \in Entries : f.name = "main" /\ f.kind # "type"
  BY DEF Entries
<1>3. CASE IsExecutable(module)
  <2>1. \A f \in Entries : f = MainItem
    BY <1>1, <1>2, <1>3, ExecutableHasNoOwn
  <2>2. module \in Modules
    BY DEF Inv, TypeInv
  <2>3. Synthesizes(module)
    BY <1>3, <2>2, UserMainIs DEF Synthesizes, ModesAgree
  <2>4. MainItem \in items
    BY <2>3 DEF Inv, ItemsInv, Done
  <2>5. MainItem.name = "main" /\ MainItem.kind = "fn main"
    BY DEF MainItem, Emit
  <2>6. MainItem \in Entries
    BY <2>4, <2>5 DEF Entries
  <2> QED
    BY <1>3, <2>1, <2>5, <2>6
<1>4. CASE ~ IsExecutable(module)
  <2>1. ~ Synthesizes(module)
    BY <1>4 DEF Synthesizes, ModesAgree
  <2>2. \A f, g \in Entries : f = g
    BY <1>1, <1>2, <2>1, OwnMainOnce
  <2>3. ~ HasFn("__ts_main")
    BY <1>4, RenamedRuns DEF HasFn
  <2> QED
    BY <1>4, <2>2, <2>3
<1> QED
  BY <1>3, <1>4

(* An executable file has one entry, for every module. *)
THEOREM OneEntryHolds == Spec => []OneEntry
<1> QED
  BY InvHolds, OneEntryInv, PTL

-----------------------------------------------------------------------------
(* What was converted is well formed. *)
LEMMA KeptIs ==
    ASSUME Inv, NEW i \in DOMAIN kept
    PROVE  /\ i \in Nat /\ kept[i] \in KeptItems
           /\ kept[i].decls \in Seq(Declarators) /\ kept[i].body \in Seq(Exprs) /\ kept[i].kind \in Kinds
           /\ kept[i].decls # <<>> => kept[i].kind = "var"
           /\ kept[i].kind = "expr" => Len(kept[i].body) = 1 /\ kept[i].decls = <<>>
           /\ \E j \in DOMAIN module : /\ WellFormed(module[j]) /\ module[j] \in Items
                                       /\ kept[i] = module[j] \/ PartOf(kept[i], module[j], Exec)
<1>1. kept \in Seq(KeptItems) /\ module \in Modules
  BY DEF Inv, TypeInv
<1>2. i \in Nat /\ kept[i] \in KeptItems
  BY <1>1
<1>3. kept[i].decls \in Seq(Declarators) /\ kept[i].body \in Seq(Exprs) /\ kept[i].kind \in Kinds
  BY <1>2 DEF KeptItems
<1>4. PICK j \in DOMAIN module : kept[i] = module[j] \/ PartOf(kept[i], module[j], Exec)
  BY DEF Inv, KeptInv, KeptFrom
<1>5. WellFormed(module[j]) /\ module[j] \in Items
  BY <1>1, ModuleItems
<1>6. CASE kept[i] = module[j]
  <2>1. kept[i].decls # <<>> => kept[i].kind = "var"
    BY <1>5, <1>6 DEF WellFormed
  <2>2. kept[i].kind = "expr" => Len(kept[i].body) = 1 /\ kept[i].decls = <<>>
    BY <1>5, <1>6 DEF WellFormed
  <2> QED
    BY <1>2, <1>3, <1>4, <1>5, <2>1, <2>2
<1>7. CASE PartOf(kept[i], module[j], Exec)
  <2>1. kept[i].kind = "var"
    BY <1>7 DEF PartOf
  <2> QED
    BY <1>2, <1>3, <1>4, <1>5, <2>1
<1> QED
  BY <1>4, <1>6, <1>7

(* Which declarators go to main_stmts: no literal and no function, and of  *)
(* a module that runs all that has a value to compute.                     *)
LEMMA CapturedIs ==
    ASSUME NEW d \in Declarators, NEW exec
    PROVE  /\ d.init.op \in Arrows \cup {"num", "text", "none"} => ~ Captured(d, exec)
           /\ d.init.op \notin Arrows \cup {"num", "text", "none", "class"} /\ exec => Captured(d, exec)
<1>1. d.init \in Exprs
  BY DEF Declarators
<1>2. ASSUME NEW e \in Exprs PROVE e.op \in Arrows \cup {"num", "text", "none"} => ~ ContainsAwait[e]
  <2>1. e.op \in {"num", "text", "none"} => e.args = <<>>
    BY ExprAssumption
  <2>2. e.op \in {"num", "text", "none"} => ~ \E i \in DOMAIN e.args : ContainsAwait[e.args[i]]
    BY <2>1
  <2>3. e.op \in Arrows \cup {"num", "text", "none"} => e.op # "await"
    BY DEF Arrows
  <2>4. ContainsAwait[e] <=> e.op = "await" \/ (e.op \notin Arrows /\ \E i \in DOMAIN e.args : ContainsAwait[e.args[i]])
    BY ContainsAwaitIs DEF AwaitStep
  <2> QED
    BY <2>2, <2>3, <2>4
<1>3. ASSUME NEW op
      PROVE  op \in Arrows \cup {"num", "text", "none"} => op = "none" \/ (op # "data" /\ op \in {"num", "text"} \cup Arrows)
  BY DEF Arrows
<1>4. d.init.op \in Arrows \cup {"num", "text", "none"} => ~ Captured(d, exec)
  BY <1>1, <1>2, <1>3 DEF Captured, InitKind, HasInit
<1>5. d.init.op \notin Arrows \cup {"num", "text", "none", "class"} =>
        InitKind(d.init) \in {"SideEffect", "AwaitInit", "NonTriggerData"} /\ HasInit(d)
  BY DEF InitKind, HasInit
<1> QED
  BY <1>4, <1>5 DEF Captured

(* The declarators of what was converted. *)
LEMMA DeclsAre ==
    ASSUME NEW m
    PROVE  \A d : d \in DeclsOf(m) <=> \E i \in DOMAIN m : \E k \in DOMAIN m[i].decls : d = m[i].decls[k]
BY DEF DeclsOf, ToSet

(* Functions and literals are never captured, so their items are there.    *)
LEMMA Emitted ==
    ASSUME Inv
    PROVE  /\ \A g \in DOMAIN Library : FnItem(Library[g], Sub) \in items
           /\ \A i \in DOMAIN kept :
                 /\ kept[i].kind \in Fns => FnItem(kept[i], Sub) \in items
                 /\ \A k \in DOMAIN kept[i].decls :
                       /\ kept[i].decls[k].init.op \in Arrows => ArrowItem(kept[i].decls[k], Sub) \in items
                       /\ kept[i].decls[k].init.op = "num" => ConstItem(kept[i].decls[k]) \in items
<1>1. ASSUME NEW g \in DOMAIN Library PROVE FnItem(Library[g], Sub) \in items
  <2>1. FnItem(Library[g], Sub) \in EmitFn(Library[g], Sub)
    BY EmitFnIs
  <2>2. FnItem(Library[g], Sub) \in LibraryItems(Sub)
    BY <2>1 DEF LibraryItems
  <2> QED
    BY <2>2 DEF Inv, ItemsInv
<1>2. ASSUME NEW i \in DOMAIN kept, NEW f, f \in Transformed(kept[i], Sub), ~ AllCaptured(kept[i], Exec)
      PROVE  f \in items
  <2>1. f \in EmittedBy(kept[i], Exec, Sub)
    BY <1>2 DEF EmittedBy
  <2> QED
    BY <2>1 DEF Inv, ItemsInv
<1>3. ASSUME NEW i \in DOMAIN kept, kept[i].kind \in Fns PROVE FnItem(kept[i], Sub) \in items
  <2>1. ~ AllCaptured(kept[i], Exec)
    BY <1>3 DEF AllCaptured, Fns
  <2>2. kept[i].kind \in Kinds
    BY KeptIs
  <2>3. FnItem(kept[i], Sub) \in Transformed(kept[i], Sub)
    BY <1>3, <2>2, TransformedIs
  <2> QED
    BY <1>2, <2>1, <2>3
<1>4. ASSUME NEW i \in DOMAIN kept, NEW k \in DOMAIN kept[i].decls, NEW f,
             \/ kept[i].decls[k].init.op \in Arrows /\ f = ArrowItem(kept[i].decls[k], Sub)
             \/ kept[i].decls[k].init.op = "num" /\ f = ConstItem(kept[i].decls[k])
      PROVE  f \in items
  <2>1. kept[i].kind \in Kinds /\ kept[i].kind = "var" /\ kept[i].decls[k] \in Declarators
    BY KeptIs
  <2>2. ~ Captured(kept[i].decls[k], Exec)
    BY <1>4, <2>1, CapturedIs
  <2>3. ~ AllCaptured(kept[i], Exec)
    BY <2>1, <2>2 DEF AllCaptured
  <2>4. f \in Transformed(kept[i], Sub)
    BY <1>4, <2>1, TransformedIs
  <2> QED
    BY <1>2, <2>3, <2>4
<1> QED
  BY <1>1, <1>3, <1>4

(* Every function of what was converted is there under its new name, async *)
(* if it was, and every literal under its own.                             *)
FnThere(n) == \E f \in items : f.kind = "fn" /\ f.name = n
AsyncThere(n) == \E f \in items : f.kind = "fn" /\ f.name = n /\ f.async
ConstThere(n) == \E c \in items : c.kind = "const" /\ c.name = n

(* So every name of the history has its item. *)
LEMMA NamesThere ==
    ASSUME Inv
    PROVE  /\ \A n \in FnNames(kept) : FnThere(Renamed(n, Sub))
           /\ \A n : IsAsync(kept, n) => AsyncThere(Renamed(n, Sub))
           /\ \A n \in Literals(kept) : ConstThere(n)
<1>1. ASSUME NEW x, FnItem(x, Sub) \in items
      PROVE  FnThere(Renamed(x.name, Sub)) /\ (x.kind = "async fn" => AsyncThere(Renamed(x.name, Sub)))
  <2>1. /\ FnItem(x, Sub).kind = "fn" /\ FnItem(x, Sub).name = Renamed(x.name, Sub)
        /\ FnItem(x, Sub).async = (x.kind = "async fn")
    BY DEF FnItem, Emit
  <2> QED
    BY <1>1, <2>1 DEF FnThere, AsyncThere
<1>2. ASSUME NEW d, ArrowItem(d, Sub) \in items
      PROVE  FnThere(Renamed(d.name, Sub)) /\ (d.init.op = "async arrow" => AsyncThere(Renamed(d.name, Sub)))
  <2>1. /\ ArrowItem(d, Sub).kind = "fn" /\ ArrowItem(d, Sub).name = Renamed(d.name, Sub)
        /\ ArrowItem(d, Sub).async = (d.init.op = "async arrow")
    BY DEF ArrowItem, Emit
  <2> QED
    BY <1>2, <2>1 DEF FnThere, AsyncThere
<1>3. ASSUME NEW g \in DOMAIN Library
      PROVE  FnThere(Renamed(g, Sub)) /\ (Library[g].kind = "async fn" => AsyncThere(Renamed(g, Sub)))
  BY <1>1, Emitted, LibraryIs
<1>4. ASSUME NEW d \in ArrowsOf(kept)
      PROVE  FnThere(Renamed(d.name, Sub)) /\ (d.init.op = "async arrow" => AsyncThere(Renamed(d.name, Sub)))
  <2>1. d.init.op \in Arrows /\ \E i \in DOMAIN kept : \E k \in DOMAIN kept[i].decls : d = kept[i].decls[k]
    BY DeclsAre DEF ArrowsOf
  <2>2. ArrowItem(d, Sub) \in items
    BY <2>1, Emitted
  <2> QED
    BY <1>2, <2>2
<1>5. ASSUME NEW i \in DOMAIN kept, kept[i].kind \in Fns
      PROVE  FnThere(Renamed(kept[i].name, Sub)) /\ (kept[i].kind = "async fn" => AsyncThere(Renamed(kept[i].name, Sub)))
  BY <1>1, <1>5, Emitted
<1>6. \A n \in FnNames(kept) : FnThere(Renamed(n, Sub))
  BY <1>3, <1>4, <1>5, Zenon DEF FnNames
<1>7. ASSUME NEW n, IsAsync(kept, n) PROVE AsyncThere(Renamed(n, Sub))
  <2>1. "async fn" \in Fns
    BY DEF Fns
  <2> QED
    BY <1>3, <1>4, <1>5, <1>7, <2>1 DEF IsAsync
<1>8. ASSUME NEW n \in Literals(kept) PROVE ConstThere(n)
  <2>1. PICK d \in DeclsOf(kept) : d.init.op = "num" /\ d.name = n
    BY DEF Literals
  <2>2. \E i \in DOMAIN kept : \E k \in DOMAIN kept[i].decls : d = kept[i].decls[k]
    BY DeclsAre
  <2>3. ConstItem(d) \in items
    BY <2>1, <2>2, Emitted
  <2>4. ConstItem(d).kind = "const" /\ ConstItem(d).name = d.name
    BY DEF ConstItem, Emit
  <2> QED
    BY <2>1, <2>3, <2>4 DEF ConstThere
<1> QED
  BY <1>6, <1>7, <1>8

-----------------------------------------------------------------------------
(* What stands at the top of what was converted, and in its functions. *)
LEMMA TopParts ==
    ASSUME Inv, NEW i \in DOMAIN kept
    PROVE  /\ \A k \in DOMAIN kept[i].decls : Within[kept[i].decls[k].init] \subseteq TopExprs(kept)
           /\ kept[i].kind = "expr" =>
                 kept[i].body[1] \in Exprs /\ Within[kept[i].body[1]] \subseteq TopExprs(kept)
<1>1. ASSUME NEW k \in DOMAIN kept[i].decls PROVE Within[kept[i].decls[k].init] \subseteq TopExprs(kept)
  <2>1. Within[kept[i].decls[k].init] \subseteq UNION {Within[kept[i].decls[n].init] : n \in DOMAIN kept[i].decls}
    OBVIOUS
  <2> QED
    BY <2>1 DEF TopExprs
<1>2. ASSUME kept[i].kind = "expr"
      PROVE  kept[i].body[1] \in Exprs /\ Within[kept[i].body[1]] \subseteq TopExprs(kept)
  <2>1. kept[i].body \in Seq(Exprs) /\ Len(kept[i].body) = 1
    BY <1>2, KeptIs
  <2>2. 1 \in DOMAIN kept[i].body /\ kept[i].body[1] \in Exprs
    BY <2>1
  <2>3. Within[kept[i].body[1]] \subseteq WithinAll(kept[i].body)
    BY <2>2 DEF WithinAll
  <2> QED
    BY <1>2, <2>2, <2>3 DEF TopExprs
<1> QED
  BY <1>1, <1>2

(* Where the body of an emitted function comes from, and that it neither   *)
(* awaits nor calls main where it is not async.                            *)
FnBody(f, es) ==
    /\ es \in Seq(Exprs) /\ f.body = ConvAll(es, Sub) /\ WithinAll(es) \subseteq FnExprs(kept)
    /\ f.async \/ (~ AnyAwait(es) /\ ((\E e \in WithinAll(es) : CallsMain(e)) => SyncCallerOfMain(kept)))

(* Every emitted function has such a body. *)
LEMMA FnSource ==
    ASSUME Inv, NEW f \in items, f.kind = "fn"
    PROVE  \E es : FnBody(f, es)
<1>1. ASSUME NEW g \in DOMAIN Library, f = FnItem(Library[g], Sub)
      PROVE  FnBody(f, Library[g].body)
  <2>1. f.body = ConvAll(Library[g].body, Sub) /\ f.async = (Library[g].kind = "async fn")
    BY <1>1 DEF FnItem, Emit
  <2>2. WellFormed(Library[g]) /\ Library[g].kind \in {"fn", "async fn"}
    BY LibraryIs DEF Fns
  <2>3. Library[g].body \in Seq(Exprs) /\ (Library[g].kind = "fn" => ~ AnyAwait(Library[g].body))
    BY <2>2 DEF WellFormed, Items
  <2>4. \A e \in WithinAll(Library[g].body) : ~ CallsMain(e)
    BY ModuleAssumption
  <2>5. WithinAll(Library[g].body) \subseteq FnExprs(kept)
    BY DEF FnExprs
  <2> QED
    BY <2>1, <2>2, <2>3, <2>4, <2>5 DEF FnBody
<1>2. ASSUME NEW i \in DOMAIN kept, NEW j \in DOMAIN module, kept[i] = module[j],
             kept[i].kind \in Fns, f = FnItem(kept[i], Sub)
      PROVE  FnBody(f, kept[i].body)
  <2>1. f.body = ConvAll(kept[i].body, Sub) /\ f.async = (kept[i].kind = "async fn")
    BY <1>2 DEF FnItem, Emit
  <2>2. WellFormed(kept[i]) /\ kept[i].body \in Seq(Exprs) /\ kept[i].kind \in {"fn", "async fn"}
    BY <1>2, KeptIs, ModuleItems DEF Inv, TypeInv, Fns
  <2>3. kept[i].kind = "fn" => ~ AnyAwait(kept[i].body)
    BY <2>2 DEF WellFormed
  <2>4. WithinAll(kept[i].body) \subseteq FnExprs(kept)
    BY <1>2 DEF FnExprs
  <2>5. kept[i].kind = "fn" /\ (\E e \in WithinAll(kept[i].body) : CallsMain(e)) => SyncCallerOfMain(kept)
    BY DEF SyncCallerOfMain
  <2> QED
    BY <2>1, <2>2, <2>3, <2>4, <2>5 DEF FnBody
<1>3. ASSUME NEW i \in DOMAIN kept, NEW j \in DOMAIN module, kept[i] = module[j],
             NEW k \in DOMAIN kept[i].decls, kept[i].decls[k].init.op \in Arrows,
             f = ArrowItem(kept[i].decls[k], Sub)
      PROVE  FnBody(f, kept[i].decls[k].init.args)
  <2> DEFINE d == kept[i].decls[k]
  <2>1. f.body = ConvAll(d.init.args, Sub) /\ f.async = (d.init.op = "async arrow")
    BY <1>3 DEF ArrowItem, Emit
  <2>2. WellFormed(kept[i]) /\ d \in Declarators /\ d \in DeclsOf(kept)
    BY <1>3, KeptIs, ModuleItems, DeclsAre DEF Inv, TypeInv
  <2>3. d.init \in Exprs /\ d.init.args \in Seq(Exprs) /\ d.init.op \in {"arrow", "async arrow"}
    BY <1>3, <2>2, ExprAssumption DEF Declarators, Arrows
  <2>4. d.init \in Within[d.init] /\ Within[d.init] \subseteq ExprsOf(kept[i]) /\ Within[d.init] \subseteq TopExprs(kept)
    <3>1. d.init \in Within[d.init]
      BY <2>3, PartsAre
    <3>2. Within[d.init] \subseteq UNION {Within[kept[i].decls[n].init] : n \in DOMAIN kept[i].decls}
      OBVIOUS
    <3>3. Within[d.init] \subseteq TopExprs(kept)
      BY TopParts
    <3> QED
      BY <3>1, <3>2, <3>3 DEF ExprsOf
  <2>5. d.init.op = "arrow" => ~ AnyAwait(d.init.args)
    BY <2>2, <2>4 DEF WellFormed
  <2>6. WithinAll(d.init.args) \subseteq FnExprs(kept)
    BY <1>3, <2>2 DEF FnExprs, ArrowsOf
  <2>7. d.init.op = "arrow" /\ (\E e \in WithinAll(d.init.args) : CallsMain(e)) => SyncCallerOfMain(kept)
    BY <2>4, Zenon DEF SyncCallerOfMain
  <2> QED
    BY <2>1, <2>3, <2>5, <2>6, <2>7 DEF FnBody
<1>4. CASE OfLibrary(f)
  BY <1>1, <1>4, EmitFnIs DEF OfLibrary
<1>5. ASSUME NEW j, OfModule(f, j), NEW i \in DOMAIN kept, kept[i] = module[j] PROVE \E es : FnBody(f, es)
  <2>1. j \in DOMAIN module /\ f \in Transformed(kept[i], Sub) /\ kept[i].kind \in Kinds
    BY <1>5, KeptIs DEF OfModule
  <2>2. \A d : f # ConstItem(d)
    <3>1. \A d : ConstItem(d).kind = "const"
      BY DEF ConstItem, Emit
    <3> QED
      BY <3>1
  <2>3. \A n : f # Emit("type", n, FALSE, FALSE, <<>>)
    <3>1. \A n : Emit("type", n, FALSE, FALSE, <<>>).kind = "type"
      BY DEF Emit
    <3> QED
      BY <3>1
  <2>4. \/ kept[i].kind \in Fns /\ f = FnItem(kept[i], Sub)
        \/ \E k \in DOMAIN kept[i].decls :
              kept[i].decls[k].init.op \in Arrows /\ f = ArrowItem(kept[i].decls[k], Sub)
    <3> DEFINE x == kept[i]
    <3>1. x.kind \in Kinds /\ f \in Transformed(x, Sub)
      BY <2>1
    <3> HIDE DEF x
    <3>2. \/ x.kind \in Fns /\ f = FnItem(x, Sub)
          \/ x.kind = "var" /\ \E k \in DOMAIN x.decls :
                \/ x.decls[k].init.op \in Arrows /\ f = ArrowItem(x.decls[k], Sub)
                \/ x.decls[k].init.op = "num" /\ f = ConstItem(x.decls[k])
          \/ x.kind \in Types /\ f = Emit("type", x.name, FALSE, FALSE, <<>>)
      BY <3>1, TransformedIs
    <3>3. f # Emit("type", x.name, FALSE, FALSE, <<>>) /\ \A k \in DOMAIN x.decls : f # ConstItem(x.decls[k])
      BY <2>2, <2>3
    <3>4. \/ x.kind \in Fns /\ f = FnItem(x, Sub)
          \/ \E k \in DOMAIN x.decls : x.decls[k].init.op \in Arrows /\ f = ArrowItem(x.decls[k], Sub)
      BY <3>2, <3>3
    <3> QED
      BY <3>4 DEF x
  <2> QED
    BY <1>2, <1>3, <1>5, <2>1, <2>4
<1>6. f # MainItem
  <2>1. MainItem.kind = "fn main"
    BY DEF MainItem, Emit
  <2> QED
    BY <2>1
<1> QED
  BY <1>4, <1>5, <1>6, ItemOrigin

(* What a statement of fn main comes from. *)
Top(s, i, k) ==
    /\ s \in Exprs /\ Within[s] \subseteq TopExprs(kept)
    /\ \/ kept[i].kind = "expr" /\ k = 1 /\ s = kept[i].body[1]
       \/ k \in DOMAIN kept[i].decls /\ s = kept[i].decls[k].init /\ s.op \notin Arrows

(* Every statement of fn main comes from the top of what was converted,    *)
(* after the lets declared before it; and then the module runs.            *)
LEMMA MainSource ==
    ASSUME Inv, NEW p \in DOMAIN mains
    PROVE  /\ Exec
           /\ \E i \in DOMAIN kept : \E k \in Nat : \E s :
                 Top(s, i, k) /\ mains[p].e = Conv[s][Sub][FALSE] /\ StandBefore(kept, mains, Exec, i, k, p)
<1>1. PICK i \in DOMAIN kept : MainFrom(kept, mains, Exec, Sub, p, i)
  BY DEF Inv, MainsInv, MainsMatch
<1>2. CASE kept[i].kind = "expr" /\ mains[p] = Statement(kept[i], Sub) /\ StandBefore(kept, mains, Exec, i, 1, p)
  <2>1. mains[p].e = Conv[kept[i].body[1]][Sub][FALSE]
    <3>1. Statement(kept[i], Sub).e = Conv[kept[i].body[1]][Sub][FALSE]
      BY DEF Statement
    <3> QED
      BY <1>2, <3>1
  <2>2. Top(kept[i].body[1], i, 1)
    BY <1>2, TopParts DEF Top
  <2>3. PICK j \in DOMAIN module : kept[i] = module[j] \/ PartOf(kept[i], module[j], Exec)
    BY DEF Inv, KeptInv, KeptFrom
  <2>4. module[j].kind = "expr"
    BY <1>2, <2>3 DEF PartOf
  <2>5. Exec
    BY <2>4 DEF Exec, IsExecutable
  <2> QED
    BY <1>2, <2>1, <2>2, <2>5
<1>3. ASSUME NEW k \in DOMAIN kept[i].decls, Captured(kept[i].decls[k], Exec),
             mains[p] = LetOf(kept[i].decls[k], Sub), StandBefore(kept, mains, Exec, i, k, p)
      PROVE  Exec /\ k \in Nat /\ Top(kept[i].decls[k].init, i, k) /\ mains[p].e = Conv[kept[i].decls[k].init][Sub][FALSE]
  <2>1. kept[i].decls \in Seq(Declarators) /\ kept[i].decls[k] \in Declarators
    BY KeptIs
  <2>2. k \in Nat
    BY <2>1, Positions
  <2>3. kept[i].decls[k].init \in Exprs /\ kept[i].decls[k].init.op \notin Arrows
    BY <1>3, <2>1, CapturedIs DEF Declarators
  <2>4. Exec
    BY <1>3 DEF Captured
  <2>5. mains[p].e = Conv[kept[i].decls[k].init][Sub][FALSE]
    BY <1>3 DEF LetOf
  <2> QED
    BY <2>2, <2>3, <2>4, <2>5, TopParts DEF Top
<1> QED
  BY <1>1, <1>2, <1>3 DEF MainFrom

-----------------------------------------------------------------------------
(* A call in a converted expression reaches a function, and a variable it  *)
(* uses is used in the source.                                             *)
LEMMA CallsReach ==
    ASSUME Inv, CallsDeclared(kept), NEW s \in Exprs, Within[s] \subseteq AllExprs(kept),
           NEW c \in Within[Conv[s][Sub][FALSE]]
    PROVE  /\ c.op = "call" => FnThere(c.name)
           /\ c.op \in Uses => \E d \in Within[s] : d.op \in Uses /\ d.name = c.name
<1>1. PICK d \in Within[s] : SameOp(c, d, Sub) \/ SameCall(c, d, Sub) \/ AddedAwait(c, d, Sub)
  BY SubIs, ConvComesFrom DEF ComesFrom, Sub
<1>2. d \in AllExprs(kept)
  BY <1>1
<1>3. "call" \notin Uses /\ "await" \notin Uses
  BY DEF Uses
<1>4. CASE SameOp(c, d, Sub)
  <2>1. c.op = d.op /\ c.op # "call" /\ c.name = d.name
    BY <1>4 DEF SameOp
  <2> QED
    BY <2>1
<1>5. CASE SameCall(c, d, Sub)
  <2>1. c.op = "call" /\ d.op = "call" /\ c.name = Renamed(d.name, Sub)
    BY <1>5 DEF SameCall
  <2>2. d.name \in FnNames(kept)
    BY <1>2, <2>1 DEF CallsDeclared
  <2>3. FnThere(c.name)
    BY <2>1, <2>2, NamesThere
  <2> QED
    BY <1>3, <2>1, <2>3
<1>6. CASE AddedAwait(c, d, Sub)
  <2>1. c.op = "await"
    BY <1>6 DEF AddedAwait
  <2> QED
    BY <1>3, <2>1
<1> QED
  BY <1>1, <1>4, <1>5, <1>6

(* A name of a function or a literal, that is not main, is there as it is. *)
LEMMA NameStays ==
    ASSUME Inv, NEW n, n # "main"
    PROVE  /\ n \in FnNames(kept) => FnThere(n)
           /\ n \in Literals(kept) => ConstThere(n)
<1>1. Renamed(n, Sub) = n
  BY DEF Renamed
<1> QED
  BY <1>1, NamesThere

(* A variable declared before, and not unemitted, is an item or a let that *)
(* stands before.                                                          *)
LEMMA DeclaredBefore ==
    ASSUME Inv, Exec, ~ ReadsUnemitted(kept), ~ ReadsMain(kept),
           NEW i \in DOMAIN kept, NEW k \in Nat, NEW p, StandBefore(kept, mains, Exec, i, k, p),
           k = 1 \/ k \in DOMAIN kept[i].decls,
           NEW e \in AllExprs(kept), e.op \in Uses, e.name \in Before(kept, i, k)
    PROVE  FnThere(e.name) \/ ConstThere(e.name) \/ \E q \in 1 .. p - 1 : mains[q].let = e.name
<1>1. kept \in Seq(KeptItems) /\ e.name # "main"
  BY DEF Inv, TypeInv, ReadsMain
<1>2. \E j \in DOMAIN kept : \E l \in DOMAIN kept[j].decls :
        Earlier(j, l, i, k) /\ kept[j].decls[l].name = e.name
  <2>1. PICK d \in (UNION {ToSet(kept[j].decls) : j \in 1 .. i - 1}) \cup {kept[i].decls[l] : l \in 1 .. k - 1} :
          d.name = e.name
    BY DEF Before
  <2>2. CASE d \in UNION {ToSet(kept[j].decls) : j \in 1 .. i - 1}
    <3>1. PICK j \in 1 .. i - 1 : d \in ToSet(kept[j].decls)
      BY <2>2
    <3>2. PICK l \in DOMAIN kept[j].decls : d = kept[j].decls[l]
      BY <3>1 DEF ToSet
    <3>3. i \in 1 .. Len(kept) /\ DOMAIN kept = 1 .. Len(kept) /\ Len(kept) \in Nat
      BY <1>1
    <3>4. j \in DOMAIN kept /\ j < i
      BY <3>1, <3>3
    <3> QED
      BY <2>1, <3>2, <3>4 DEF Earlier
  <2>3. CASE d \in {kept[i].decls[l] : l \in 1 .. k - 1}
    <3>1. PICK l \in 1 .. k - 1 : d = kept[i].decls[l]
      BY <2>3
    <3>2. DOMAIN kept[i].decls = 1 .. Len(kept[i].decls) /\ Len(kept[i].decls) \in Nat
      BY KeptIs, Positions
    <3>3. k # 1
      BY <3>1
    <3>4. l \in DOMAIN kept[i].decls /\ l < k
      BY <3>1, <3>2, <3>3
    <3> QED
      BY <2>1, <3>1, <3>4 DEF Earlier
  <2> QED
    BY <2>1, <2>2, <2>3
<1>3. PICK j \in DOMAIN kept :
         \E l \in DOMAIN kept[j].decls : Earlier(j, l, i, k) /\ kept[j].decls[l].name = e.name
  BY <1>2
<1>4. PICK l \in DOMAIN kept[j].decls : Earlier(j, l, i, k) /\ kept[j].decls[l].name = e.name
  BY <1>3
<1> DEFINE d == kept[j].decls[l]
<1>5. d \in Declarators /\ d \in DeclsOf(kept)
  <2>1. kept[j].decls \in Seq(Declarators)
    BY KeptIs
  <2>2. d \in DeclsOf(kept)
    BY DeclsAre
  <2> QED
    BY <2>1, <2>2
<1>6. d.name = e.name
  BY <1>4
<1>7. LetBefore(d, mains, Exec, p)
  BY <1>4 DEF StandBefore
<1> HIDE DEF d
<1>8. d.init.op \notin {"none", "text", "class"}
  BY <1>5, <1>6 DEF ReadsUnemitted
<1>9. CASE d.init.op \in Arrows
  <2>1. e.name \in FnNames(kept)
    BY <1>5, <1>6, <1>9 DEF FnNames, ArrowsOf
  <2> QED
    BY <1>1, <2>1, NameStays
<1>10. CASE d.init.op = "num"
  <2>1. e.name \in Literals(kept)
    BY <1>5, <1>6, <1>10 DEF Literals
  <2> QED
    BY <1>1, <2>1, NameStays
<1>11. CASE d.init.op \notin Arrows \cup {"num"}
  <2>1. Captured(d, Exec)
    BY <1>5, <1>8, <1>11, CapturedIs
  <2> QED
    BY <1>6, <1>7, <2>1 DEF LetBefore
<1> QED
  BY <1>9, <1>10, <1>11

(* Names resolve because of the invariant: CallsReach for the calls,       *)
(* DeclaredBefore for the variables.                                       *)
LEMMA NamesResolveInv == Inv => NamesResolve
<1> SUFFICES ASSUME Inv, CallsDeclared(kept), ~ ReadsUnemitted(kept),
                    ~ FnReadsLet(kept), ~ ReadsMain(kept), ~ ReadsAhead(kept)
             PROVE  /\ \A f \in items : f.kind = "fn" => Resolves(f.body, {})
                    /\ \A i \in DOMAIN mains : Resolves(<<mains[i].e>>, {mains[j].let : j \in 1 .. i - 1})
  BY DEF NamesResolve
<1>1. ASSUME NEW f \in items, f.kind = "fn" PROVE Resolves(f.body, {})
  <2>1. PICK es : FnBody(f, es)
    BY <1>1, FnSource
  <2>2. es \in Seq(Exprs) /\ f.body = ConvAll(es, Sub) /\ WithinAll(es) \subseteq FnExprs(kept)
    BY <2>1 DEF FnBody
  <2>3. SUFFICES ASSUME NEW c \in WithinAll(f.body)
                 PROVE  /\ c.op = "call" => FnThere(c.name)
                        /\ c.op \in Uses => FnThere(c.name) \/ ConstThere(c.name)
    BY DEF Resolves, HasFn, FnThere, ConstThere
  <2>4. PICK n \in DOMAIN es : c \in Within[Conv[es[n]][Sub][FALSE]]
    <3>1. DOMAIN f.body = DOMAIN es /\ \A n \in DOMAIN es : f.body[n] = Conv[es[n]][Sub][FALSE]
      BY <2>2 DEF ConvAll
    <3> QED
      BY <2>3, <3>1 DEF WithinAll
  <2>5. es[n] \in Exprs /\ Within[es[n]] \subseteq WithinAll(es)
    BY <2>2 DEF WithinAll
  <2>6. Within[es[n]] \subseteq FnExprs(kept) /\ Within[es[n]] \subseteq AllExprs(kept)
    BY <2>2, <2>5 DEF AllExprs
  <2>7. c.op = "call" => FnThere(c.name)
    BY <2>4, <2>5, <2>6, CallsReach
  <2>8. ASSUME c.op \in Uses PROVE FnThere(c.name) \/ ConstThere(c.name)
    <3>1. PICK d \in Within[es[n]] : d.op \in Uses /\ d.name = c.name
      BY <2>4, <2>5, <2>6, <2>8, CallsReach
    <3>2. d.name \in Literals(kept) \cup FnNames(kept)
      BY <2>6, <3>1 DEF FnReadsLet
    <3>3. d.name # "main"
      BY <2>6, <3>1 DEF ReadsMain
    <3> QED
      BY <3>1, <3>2, <3>3, NameStays
  <2> QED
    BY <2>7, <2>8
<1>2. ASSUME NEW p \in DOMAIN mains PROVE Resolves(<<mains[p].e>>, {mains[j].let : j \in 1 .. p - 1})
  <2>1. PICK i \in DOMAIN kept, k \in Nat :
          \E s : Top(s, i, k) /\ mains[p].e = Conv[s][Sub][FALSE] /\ StandBefore(kept, mains, Exec, i, k, p)
    BY MainSource
  <2>2. PICK s : Top(s, i, k) /\ mains[p].e = Conv[s][Sub][FALSE] /\ StandBefore(kept, mains, Exec, i, k, p)
    BY <2>1
  <2>3. WithinAll(<<mains[p].e>>) = Within[mains[p].e]
    BY DEF WithinAll
  <2>4. SUFFICES ASSUME NEW c \in Within[Conv[s][Sub][FALSE]]
                 PROVE  /\ c.op = "call" => FnThere(c.name)
                        /\ c.op \in Uses =>
                             FnThere(c.name) \/ ConstThere(c.name) \/ \E q \in 1 .. p - 1 : mains[q].let = c.name
    BY <2>2, <2>3 DEF Resolves, HasFn, FnThere, ConstThere
  <2>5. s \in Exprs /\ Within[s] \subseteq TopExprs(kept) /\ Within[s] \subseteq AllExprs(kept)
    BY <2>2 DEF Top, AllExprs
  <2>6. c.op = "call" => FnThere(c.name)
    BY <2>5, CallsReach
  <2>7. ASSUME c.op \in Uses
        PROVE  FnThere(c.name) \/ ConstThere(c.name) \/ \E q \in 1 .. p - 1 : mains[q].let = c.name
    <3>1. PICK d \in Within[s] : d.op \in Uses /\ d.name = c.name
      BY <2>5, <2>7, CallsReach
    <3>2. d \in AllExprs(kept) /\ d.name # "main"
      BY <2>5, <3>1 DEF ReadsMain
    <3>3. d.name \in Used(s)
      BY <3>1 DEF Used
    <3>4. d.name \in Before(kept, i, k) \cup FnNames(kept)
      BY <2>2, <3>3 DEF ReadsAhead, Top
    <3>5. CASE d.name \in FnNames(kept)
      BY <3>1, <3>2, <3>5, NameStays
    <3>6. CASE d.name \in Before(kept, i, k)
      <4>1. Exec /\ (k = 1 \/ k \in DOMAIN kept[i].decls)
        BY <2>2, MainSource DEF Top
      <4> QED
        BY <2>2, <3>1, <3>2, <3>6, <4>1, DeclaredBefore
    <3> QED
      BY <3>4, <3>5, <3>6
  <2> QED
    BY <2>6, <2>7
<1> QED
  BY <1>1, <1>2

(* Every function called and variable used in what was emitted is there,   *)
(* for every module.                                                       *)
THEOREM NamesResolveHolds == Spec => []NamesResolve
<1> QED
  BY InvHolds, NamesResolveInv, PTL

-----------------------------------------------------------------------------
(* Where the user's main is taken for an async function, it is one.        *)
DeclaresAsyncMain(x) ==
    \/ x.kind = "async fn" /\ x.name = "main"
    \/ x.kind = "var" /\ \E k \in DOMAIN x.decls : x.decls[k].name = "main" /\ x.decls[k].init.op = "async arrow"

(* FnAsync is said of an async function called main. *)
LEMMA AsyncMainIs ==
    ASSUME NEW m \in Modules, UserMain(m) = "FnAsync"
    PROVE  \E i \in DOMAIN m : DeclaresAsyncMain(m[i])
<1> DEFINE first == {i \in DOMAIN m : Candidates(m[i]) # {} /\ \A j \in 1 .. i - 1 : Candidates(m[j]) = {}}
           all == UNION {Candidates(m[i]) : i \in first}
<1>1. first # {} /\ UserMain(m) = CHOOSE c \in all : TRUE
  <2>1. UserMain(m) = IF \E i \in DOMAIN m : "Collision" \in Candidates(m[i]) THEN "Collision"
                      ELSE IF first = {} THEN "None" ELSE CHOOSE c \in all : TRUE
    BY Zenon DEF UserMain
  <2> HIDE DEF first, all
  <2> QED
    BY <2>1
<1>2. PICK h \in first : TRUE
  BY <1>1
<1>3. all # {}
  BY <1>2
<1>4. "FnAsync" \in all
  <2> HIDE DEF all
  <2>1. (CHOOSE c \in all : TRUE) \in all
    BY <1>3
  <2> QED
    BY <1>1, <2>1
<1>5. PICK i \in DOMAIN m : "FnAsync" \in Candidates(m[i])
  BY <1>4
<1>6. WellFormed(m[i]) /\ m[i].kind \in Kinds /\ m[i].decls \in Seq(Declarators)
  BY ModuleItems DEF Items
<1>7. ASSUME NEW n \in MainNames, NEW fn, "FnAsync" = Shape(n, fn)
      PROVE  n = "main" /\ fn \in {"async fn", "async arrow"}
  BY <1>7 DEF Shape, MainNames
<1>8. CASE m[i].kind = "var"
  <2>1. PICK k \in DOMAIN m[i].decls :
          m[i].decls[k].name \in MainNames /\ "FnAsync" = Shape(m[i].decls[k].name, m[i].decls[k].init.op)
    BY <1>5, <1>6, <1>8, CandidatesAre
  <2>2. m[i].decls[k].name = "main" /\ m[i].decls[k].init.op \in {"async fn", "async arrow"}
    BY <1>7, <2>1
  <2>3. m[i].decls[k].init \in Exprs
    <3>1. m[i].decls[k] \in Declarators
      BY <1>6
    <3> QED
      BY <3>1 DEF Declarators
  <2>4. m[i].decls[k].init.op # "async fn"
    BY <2>3, ExprAssumption DEF Arrows, Uses
  <2> QED
    BY <1>8, <2>2, <2>4 DEF DeclaresAsyncMain
<1>9. CASE m[i].kind # "var"
  <2>1. m[i].name \in MainNames /\ "FnAsync" = Shape(m[i].name, IF m[i].kind = "default" THEN "fn" ELSE m[i].kind)
    BY <1>5, <1>6, <1>9, CandidatesAre
  <2>2. m[i].name = "main" /\ (IF m[i].kind = "default" THEN "fn" ELSE m[i].kind) \in {"async fn", "async arrow"}
    BY <1>7, <2>1
  <2>3. m[i].kind # "async arrow"
    BY <1>6 DEF Kinds, Fns, Types
  <2> QED
    BY <2>2, <2>3 DEF DeclaresAsyncMain
<1> QED
  BY <1>8, <1>9

(* And if it is among what was converted, it is async there.               *)
LEMMA KeptMainAsync ==
    ASSUME Inv, Sub = "FnAsync", "main" \in FnNames(kept)
    PROVE  IsAsync(kept, "main")
<1>1. module \in Modules /\ UserMain(module) = "FnAsync"
  BY DEF Inv, TypeInv, Sub, Substitution
<1>2. PICK i \in DOMAIN module : DeclaresAsyncMain(module[i])
  BY <1>1, AsyncMainIs
<1>3. WellFormed(module[i]) /\ "main" \in Declares(module[i])
  BY <1>1, <1>2, ModuleItems DEF DeclaresAsyncMain, Declares, Named
<1>4. \A j \in DOMAIN module : "main" \in Declares(module[j]) => j = i
  BY <1>1, <1>3, ModuleItems
<1>5. "main" \notin DOMAIN Library
  BY LibraryIs DEF MainNames
<1>6. ASSUME NEW k \in DOMAIN kept, kept[k].kind \in Fns, kept[k].name = "main" PROVE IsAsync(kept, "main")
  <2>1. PICK j \in DOMAIN module : kept[k] = module[j] \/ PartOf(kept[k], module[j], Exec)
    BY DEF Inv, KeptInv, KeptFrom
  <2>2. "var" \notin Fns /\ "type" \notin Fns
    BY DEF Fns
  <2>3. kept[k] = module[j]
    BY <1>6, <2>1, <2>2 DEF PartOf
  <2>4. j = i
    BY <1>4, <1>6, <2>2, <2>3 DEF Declares, Named
  <2>5. kept[k].kind = "async fn"
    BY <1>2, <1>6, <2>2, <2>3, <2>4 DEF DeclaresAsyncMain
  <2> QED
    BY <1>6, <2>5 DEF IsAsync
<1>7. ASSUME NEW d \in ArrowsOf(kept), d.name = "main" PROVE IsAsync(kept, "main")
  <2>1. d \in DeclsOf(kept)
    BY DEF ArrowsOf
  <2>2. PICK k \in DOMAIN kept : \E l \in DOMAIN kept[k].decls : d = kept[k].decls[l]
    BY <2>1, DeclsAre
  <2>3. PICK j \in DOMAIN module : kept[k] = module[j] \/ PartOf(kept[k], module[j], Exec)
    BY DEF Inv, KeptInv, KeptFrom
  <2>4. PICK l \in DOMAIN module[j].decls : d = module[j].decls[l]
    BY <2>2, <2>3 DEF PartOf
  <2>5. WellFormed(module[j])
    BY <1>1, ModuleItems
  <2>6. module[j].kind = "var"
    <3>1. module[j].decls # <<>>
      BY <2>4
    <3> QED
      BY <2>5, <3>1 DEF WellFormed
  <2>7. j = i
    BY <1>4, <1>7, <2>4, <2>6 DEF Declares, Named
  <2>8. PICK n \in DOMAIN module[j].decls :
          module[j].decls[n].name = "main" /\ module[j].decls[n].init.op = "async arrow"
    BY <1>2, <2>6, <2>7 DEF DeclaresAsyncMain
  <2>9. n = l
    BY <1>7, <2>4, <2>5, <2>8 DEF WellFormed
  <2> QED
    BY <1>7, <2>4, <2>8, <2>9 DEF IsAsync
<1> QED
  BY <1>5, <1>6, <1>7 DEF FnNames

(* Whatever a converted expression awaits is a call of an async function:  *)
(* the source's awaits stay over the one call they had, and the added ones *)
(* are over calls of main.                                                 *)
LEMMA AwaitsReach ==
    ASSUME Inv, CallsDeclared(kept), ~ AwaitsPlain(kept), NEW s \in Exprs, Within[s] \subseteq AllExprs(kept),
           NEW c \in Within[Conv[s][Sub][FALSE]], c.op = "await"
    PROVE  c.args[1].op = "call" /\ AsyncThere(c.args[1].name)
<1>1. PICK d \in Within[s] : SameOp(c, d, Sub) \/ SameCall(c, d, Sub) \/ AddedAwait(c, d, Sub)
  BY SubIs, ConvComesFrom DEF ComesFrom, Sub
<1>2. d \in AllExprs(kept) /\ d \in Exprs
  BY <1>1, PartsAreExprs
<1>3. CASE SameOp(c, d, Sub)
  <2>1. d.op = "await" /\ c.args[1] = Conv[d.args[1]][Sub][TRUE]
    BY <1>3 DEF SameOp
  <2> DEFINE a == d.args[1]
  <2>2. a \in Exprs
    <3>1. Len(d.args) = 1 /\ d.args \in Seq(Exprs)
      BY <1>2, <2>1, ExprAssumption
    <3> QED
      BY <3>1
  <2>3. a.op = "call" /\ IsAsync(kept, a.name)
    BY <1>2, <2>1 DEF AwaitsPlain
  <2> HIDE DEF a
  <2> DEFINE args == ConvArgs(a, Conv, Sub, TRUE)
             b    == Conv[a][Sub][TRUE]
  <2>4. b = Converted(a, args, Sub, TRUE)
    BY <2>2, SubIs, ConvIs DEF Sub
  <2> HIDE DEF args, b
  <2>5. b.op = "call" /\ b.name = Renamed(a.name, Sub)
    <3>1. CASE a.name = "main" /\ Sub # "None"
      <4>1. b = Call("__ts_main", args) /\ Renamed(a.name, Sub) = "__ts_main"
        BY <2>3, <2>4, <3>1 DEF Converted, CallsMain, AwaitsCall, Renamed
      <4>2. Call("__ts_main", args).op = "call" /\ Call("__ts_main", args).name = "__ts_main"
        BY DEF Call, Ex
      <4> QED
        BY <4>1, <4>2
    <3>2. CASE ~ (a.name = "main" /\ Sub # "None")
      <4>1. b = Ex(a.op, a.name, args) /\ Renamed(a.name, Sub) = a.name
        BY <2>3, <2>4, <3>2 DEF Converted, CallsMain, Renamed
      <4>2. Ex(a.op, a.name, args).op = a.op /\ Ex(a.op, a.name, args).name = a.name
        BY DEF Ex
      <4> QED
        BY <2>3, <4>1, <4>2
    <3> QED
      BY <3>1, <3>2
  <2>6. c.args[1] = b
    BY <2>1 DEF a, b
  <2> QED
    BY <2>3, <2>5, <2>6, NamesThere
<1>4. CASE SameCall(c, d, Sub)
  BY <1>4 DEF SameCall
<1>5. CASE AddedAwait(c, d, Sub)
  <2>1. CallsMain(d) /\ Sub = "FnAsync" /\ c.args[1].op = "call" /\ c.args[1].name = "__ts_main"
    BY <1>5 DEF AddedAwait
  <2>2. "main" \in FnNames(kept)
    BY <1>2, <2>1 DEF CallsMain, CallsDeclared
  <2>3. AsyncThere(Renamed("main", Sub))
    BY <2>1, <2>2, KeptMainAsync, NamesThere
  <2> QED
    BY <2>1, <2>3 DEF Renamed
<1> QED
  BY <1>1, <1>3, <1>4, <1>5

(* An await in a statement of fn main was at the top of the module, or it  *)
(* was added to a call of main.                                            *)
LEMMA TopAwaits ==
    ASSUME Inv, NEW i \in DOMAIN kept, NEW k, NEW s, Top(s, i, k), ContainsAwait[s]
    PROVE  HasTopLevelAwait(module)
<1>1. PICK j \in DOMAIN module : kept[i] = module[j] \/ PartOf(kept[i], module[j], Exec)
  BY DEF Inv, KeptInv, KeptFrom
<1>2. WellFormed(module[j])
  BY ModuleItems DEF Inv, TypeInv
<1>3. CASE kept[i].kind = "expr" /\ s = kept[i].body[1]
  <2>1. kept[i] = module[j]
    BY <1>1, <1>3 DEF PartOf
  <2>2. 1 \in DOMAIN kept[i].body
    BY <1>3, KeptIs
  <2>3. AnyAwait(module[j].body)
    BY <1>3, <2>1, <2>2 DEF AnyAwait
  <2> QED
    BY <1>3, <2>1, <2>3 DEF HasTopLevelAwait
<1>4. CASE k \in DOMAIN kept[i].decls /\ s = kept[i].decls[k].init
  <2>1. PICK l \in DOMAIN module[j].decls : kept[i].decls[k] = module[j].decls[l]
    BY <1>1, <1>4 DEF PartOf
  <2>2. module[j].decls # <<>>
    BY <2>1
  <2>3. module[j].kind = "var"
    BY <1>2, <2>2 DEF WellFormed
  <2> QED
    BY <1>4, <2>1, <2>3 DEF HasTopLevelAwait
<1> QED
  BY <1>3, <1>4 DEF Top

(* The one item that is a fn main is the synthesized one. *)
LEMMA MainItemIs ==
    ASSUME Inv, NEW f \in items, f.kind = "fn main"
    PROVE  f = MainItem
<1>1. /\ \A x : FnItem(x, Sub).kind = "fn" /\ \A d : ArrowItem(d, Sub).kind = "fn" /\ ConstItem(d).kind = "const"
      /\ \A n : Emit("type", n, FALSE, FALSE, <<>>).kind = "type"
  BY DEF FnItem, ArrowItem, ConstItem, Emit
<1>2. ~ OfLibrary(f)
  BY <1>1, EmitFnIs DEF OfLibrary
<1>3. ASSUME NEW j, OfModule(f, j) PROVE FALSE
  <2> DEFINE x == module[j]
  <2>1. x.kind \in Kinds /\ f \in Transformed(x, Sub)
    BY <1>3, ModuleItems DEF OfModule, Inv, TypeInv, Items
  <2> HIDE DEF x
  <2>2. \/ f = FnItem(x, Sub)
        \/ \E k \in DOMAIN x.decls : f = ArrowItem(x.decls[k], Sub) \/ f = ConstItem(x.decls[k])
        \/ f = Emit("type", x.name, FALSE, FALSE, <<>>)
    BY <2>1, TransformedIs
  <2> QED
    BY <1>1, <2>2
<1> QED
  BY <1>2, <1>3, ItemOrigin

(* Awaits stand because of the invariant: AwaitsReach for what is awaited, *)
(* ConvAwaits and TopAwaits for who awaits.                                *)
LEMMA AwaitsStandInv == Inv => AwaitsStand
<1> DEFINE Body(f) == IF f.kind = "fn" THEN f.body
                      ELSE IF f.kind = "fn main" THEN [i \in DOMAIN f.body |-> f.body[i].e] ELSE <<>>
<1> SUFFICES ASSUME Inv, CallsDeclared(kept), ~ AwaitsPlain(kept),
                    ~ (UserMain(module) = "FnAsync" /\ SyncCallerOfMain(kept)), NEW f \in items
             PROVE  AwaitsFutures(Body(f)) /\ (AnyAwait(Body(f)) => f.async)
  BY DEF AwaitsStand
<1>1. Sub = "FnAsync" => UserMain(module) = "FnAsync"
  BY DEF Sub, Substitution
<1>2. Sub \in Substitutions
  BY SubIs DEF Sub
<1>3. CASE f.kind = "fn"
  <2>1. PICK es : FnBody(f, es)
    BY <1>3, FnSource
  <2>2. /\ es \in Seq(Exprs) /\ f.body = ConvAll(es, Sub) /\ WithinAll(es) \subseteq FnExprs(kept)
        /\ f.async \/ (~ AnyAwait(es) /\ ((\E e \in WithinAll(es) : CallsMain(e)) => SyncCallerOfMain(kept)))
    BY <2>1 DEF FnBody
  <2>3. DOMAIN f.body = DOMAIN es /\ \A n \in DOMAIN es : f.body[n] = Conv[es[n]][Sub][FALSE]
    BY <2>2 DEF ConvAll
  <2>4. ASSUME NEW n \in DOMAIN es
        PROVE  /\ es[n] \in Exprs /\ Within[es[n]] \subseteq WithinAll(es)
               /\ Within[es[n]] \subseteq AllExprs(kept)
    <3>1. es[n] \in Exprs /\ Within[es[n]] \subseteq WithinAll(es)
      BY <2>2 DEF WithinAll
    <3> QED
      BY <2>2, <3>1 DEF AllExprs
  <2>5. AwaitsFutures(f.body)
    <3>1. SUFFICES ASSUME NEW c \in WithinAll(f.body), c.op = "await"
                   PROVE  c.args[1].op = "call" /\ AsyncThere(c.args[1].name)
      BY DEF AwaitsFutures, AsyncThere
    <3>2. PICK n \in DOMAIN es : c \in Within[Conv[es[n]][Sub][FALSE]]
      BY <2>3 DEF WithinAll
    <3> QED
      BY <2>4, <3>1, <3>2, AwaitsReach
  <2>6. ASSUME AnyAwait(f.body), ~ f.async PROVE FALSE
    <3>1. PICK n \in DOMAIN es : ContainsAwait[Conv[es[n]][Sub][FALSE]]
      BY <2>3, <2>6 DEF AnyAwait
    <3>2. ContainsAwait[es[n]] \/ (Sub = "FnAsync" /\ \E d \in Within[es[n]] : CallsMain(d))
      BY <1>2, <2>4, <3>1, ConvAwaits
    <3>3. ~ ContainsAwait[es[n]]
      BY <2>2, <2>6 DEF AnyAwait
    <3>4. SyncCallerOfMain(kept)
      BY <2>2, <2>4, <2>6, <3>2, <3>3
    <3> QED
      BY <1>1, <3>2, <3>3, <3>4
  <2> QED
    BY <1>3, <2>5, <2>6
<1>4. CASE f.kind = "fn main"
  <2> DEFINE es == [i \in DOMAIN mains |-> mains[i].e]
  <2>1. f = MainItem
    BY <1>4, MainItemIs
  <2>2. f.body = mains /\ f.async = AsyncMain(module)
    BY <2>1 DEF MainItem, Emit
  <2>3. Body(f) = es
    BY <1>4, <2>2
  <2>4. DOMAIN es = DOMAIN mains /\ \A p \in DOMAIN mains : es[p] = mains[p].e
    OBVIOUS
  <2> HIDE DEF es
  <2>5. ASSUME NEW p \in DOMAIN mains
        PROVE  \E i \in DOMAIN kept : \E k \in Nat : \E s : Top(s, i, k) /\ es[p] = Conv[s][Sub][FALSE]
    BY <2>4, MainSource
  <2>6. AwaitsFutures(es)
    <3>1. SUFFICES ASSUME NEW c \in WithinAll(es), c.op = "await"
                   PROVE  c.args[1].op = "call" /\ AsyncThere(c.args[1].name)
      BY DEF AwaitsFutures, AsyncThere
    <3>2. PICK p \in DOMAIN mains : c \in Within[es[p]]
      BY <2>4 DEF WithinAll
    <3>3. PICK s : (\E i \in DOMAIN kept : \E k \in Nat : Top(s, i, k)) /\ es[p] = Conv[s][Sub][FALSE]
      BY <2>5
    <3>4. s \in Exprs /\ Within[s] \subseteq AllExprs(kept)
      BY <3>3 DEF Top, AllExprs
    <3> QED
      BY <3>1, <3>2, <3>3, <3>4, AwaitsReach
  <2>7. ASSUME AnyAwait(es) PROVE AsyncMain(module)
    <3>1. PICK p \in DOMAIN mains : ContainsAwait[es[p]]
      BY <2>4, <2>7 DEF AnyAwait
    <3>2. PICK i \in DOMAIN kept : \E k \in Nat : \E s : Top(s, i, k) /\ es[p] = Conv[s][Sub][FALSE]
      BY <2>5
    <3>3. PICK k \in Nat : \E s : Top(s, i, k) /\ es[p] = Conv[s][Sub][FALSE]
      BY <3>2
    <3>4. PICK s : Top(s, i, k) /\ es[p] = Conv[s][Sub][FALSE]
      BY <3>3
    <3>5. s \in Exprs
      BY <3>4 DEF Top
    <3>6. ContainsAwait[s] \/ Sub = "FnAsync"
      BY <1>2, <3>1, <3>4, <3>5, ConvAwaits
    <3> QED
      BY <1>1, <3>4, <3>6, TopAwaits DEF AsyncMain
  <2> QED
    BY <2>2, <2>3, <2>6, <2>7
<1>5. CASE f.kind \notin {"fn", "fn main"}
  <2>1. Body(f) = <<>>
    BY <1>5
  <2>2. WithinAll(<<>>) = {} /\ ~ AnyAwait(<<>>)
    <3>1. DOMAIN <<>> = {}
      OBVIOUS
    <3> QED
      BY <3>1 DEF WithinAll, AnyAwait
  <2> QED
    BY <2>1, <2>2 DEF AwaitsFutures
<1> QED
  BY <1>3, <1>4, <1>5

(* An await stands in an async function and awaits a future, for every     *)
(* module.                                                                 *)
THEOREM AwaitsStandHolds == Spec => []AwaitsStand
<1> QED
  BY InvHolds, AwaitsStandInv, PTL

=============================================================================
