--------------------------- MODULE LoweringProofs ---------------------------
(***************************************************************************)
(* Proofs about Lowering for bodies of any length and depth: what leaves   *)
(* the translation of a list of statements leaves the list, so what was a  *)
(* legal function is one rustc's rules about jumps accept.                 *)
(***************************************************************************)
EXTENDS Lowering, SequenceTheorems, NaturalsInduction, WellFoundedInduction, TLAPS

(* One step of each of the recursive functions. *)
ListsStep(n, g) == IF n = 0 THEN {<<>>} ELSE Seq(Nodes(g[n - 1]))

InsideOf(x, g) == UNION {g[x.subs[j]] : j \in DOMAIN x.subs}

ListsInStep(ss, g) == {ss} \cup UNION {InsideOf(ss[i], g) : i \in DOMAIN ss}

ExitsStep(ss, g) == UNION {Leaving(ss[i], InsideOf(ss[i], g)) : i \in DOMAIN ss}

LoweredStep(ss, g) ==
    [i \in DOMAIN ss |-> LowerStmt(ss[i], [j \in DOMAIN ss[i].subs |-> g[ss[i].subs[j]]])]

RewrittenSubs(x, r, g) == [j \in DOMAIN x.subs |-> g[<<x.subs[j], Inside(x, r)>>]]

RewrittenStep(w, g) ==
    FlattenSeq([i \in DOMAIN w[1] |-> RewriteStmt(w[1][i], w[2], RewrittenSubs(w[1][i], w[2], g))])

HitsInside(x, r, g) == UNION {g[<<x.subs[j], Inside(x, r)>>] : j \in DOMAIN x.subs}

HitsStep(w, g) == UNION {HitsOf(w[1][i], w[2], HitsInside(w[1][i], w[2], g)) : i \in DOMAIN w[1]}

(* How deep a list is. *)
Height == [ss \in Bodies |-> CHOOSE n \in Nat : ss \in Lists[n] /\ \A m \in Nat : ss \in Lists[m] => n <= m]
WalkHeight == [w \in Walks |-> Height[w[1]]]
Number == [n \in Nat |-> n]

OfLists     == INSTANCE Recursion WITH S <- Nat, H <- Number, Step <- ListsStep
OfListsIn   == INSTANCE Recursion WITH S <- Bodies, H <- Height, Step <- ListsInStep
OfExits     == INSTANCE Recursion WITH S <- Bodies, H <- Height, Step <- ExitsStep
OfLowered   == INSTANCE Recursion WITH S <- Bodies, H <- Height, Step <- LoweredStep
OfRewritten == INSTANCE Recursion WITH S <- Walks, H <- WalkHeight, Step <- RewrittenStep
OfHits      == INSTANCE Recursion WITH S <- Walks, H <- WalkHeight, Step <- HitsStep

(* What holds of a number if it holds of all smaller ones holds of all.    *)
LEMMA Numbers ==
    ASSUME NEW P, \A n \in Nat : (\A m \in Nat : m < n => m \in P) => n \in P
    PROVE  Nat \subseteq P
<1>1. Number \in [Nat -> Nat] /\ \A n \in Nat : Number[n] = n
  BY DEF Number
<1>2. \A n \in Nat : (\A m \in Nat : Number[m] < Number[n] => m \in P) => n \in P
  BY <1>1
<1> QED
  BY <1>1, <1>2, OfLists!Induct

(* The lists of each depth. *)
LEMMA ListsAre ==
    Lists[0] = {<<>>} /\ \A n \in Nat : n # 0 => Lists[n] = Seq(Nodes(Lists[n - 1]))
<1>0. Number \in [Nat -> Nat] /\ \A n \in Nat : Number[n] = n
  BY DEF Number
<1>1. ASSUME NEW n \in Nat, NEW g, NEW h, \A y \in Nat : Number[y] < Number[n] => g[y] = h[y]
      PROVE  ListsStep(n, g) = ListsStep(n, h)
  <2>1. n # 0 => n - 1 \in Nat /\ n - 1 < n
    OBVIOUS
  <2>2. n # 0 => g[n - 1] = h[n - 1]
    BY <1>0, <1>1, <2>1
  <2> QED
    BY <2>2 DEF ListsStep
<1>2. OfLists!LooksDown
  BY <1>1 DEF OfLists!LooksDown
<1>3. \E f : f = [n \in Nat |-> ListsStep(n, f)]
  BY <1>2, <1>0, OfLists!Exists
<1>4. Lists = [n \in Nat |-> ListsStep(n, Lists)]
  BY <1>3, Zenon DEF Lists, ListsStep
<1> HIDE DEF Lists
<1>5. \A n \in Nat : Lists[n] = ListsStep(n, Lists)
  BY <1>4
<1> QED
  BY <1>5 DEF ListsStep

(* With deeper lists there are more nodes. *)
LEMMA NodesGrow ==
    ASSUME NEW A, NEW B, A \subseteq B
    PROVE  Nodes(A) \subseteq Nodes(B) /\ Seq(Nodes(A)) \subseteq Seq(Nodes(B))
<1>1. ASSUME NEW x \in Nodes(A) PROVE x \in Nodes(B)
  <2>1. x.subs \in Seq(B)
    BY SeqMonotonic DEF Nodes
  <2> QED
    BY <2>1 DEF Nodes
<1>2. ASSUME NEW s \in Seq(Nodes(A)) PROVE s \in Seq(Nodes(B))
  BY <1>1, SeqMonotonic
<1> QED
  BY <1>1, <1>2

(* A list of some depth is one of any greater depth. *)
LEMMA ListsGrow ==
    ASSUME NEW m \in Nat, NEW n \in Nat, m <= n
    PROVE  Lists[m] \subseteq Lists[n]
<1> DEFINE P == {k \in Nat : \A l \in Nat : l <= k => Lists[l] \subseteq Lists[k]}
<1>1. ASSUME NEW k \in Nat, \A l \in Nat : l < k => l \in P PROVE k \in P
  <2> SUFFICES ASSUME NEW l \in Nat, l < k PROVE Lists[l] \subseteq Lists[k]
    OBVIOUS
  <2>0. k # 0 /\ k - 1 \in Nat /\ k - 1 < k
    OBVIOUS
  <2>1. Lists[k] = Seq(Nodes(Lists[k - 1]))
    BY ListsAre, <2>0
  <2>2. CASE l = 0
    BY <2>1, <2>2, ListsAre
  <2>3. CASE l # 0
    <3>1. l - 1 \in Nat /\ l - 1 <= k - 1 /\ k - 1 \in P
      BY <1>1, <2>0, <2>3
    <3>2. Lists[l - 1] \subseteq Lists[k - 1]
      BY <3>1
    <3>3. Lists[l] = Seq(Nodes(Lists[l - 1]))
      BY ListsAre, <2>3
    <3> HIDE DEF P
    <3> QED
      BY <2>1, <3>2, <3>3, NodesGrow
  <2> QED
    BY <2>2, <2>3
<1>2. Nat \subseteq P
  <2> HIDE DEF P
  <2> QED
    BY <1>1, Numbers
<1> QED
  BY <1>2

(* Every body has a depth, and the lists in it a smaller one. *)
LEMMA Heights ==
    /\ Height \in [Bodies -> Nat]
    /\ \A ss \in Bodies : ss \in Lists[Height[ss]] /\ \A m \in Nat : ss \in Lists[m] => Height[ss] <= m
<1>1. ASSUME NEW ss \in Bodies
      PROVE  \E n \in Nat : ss \in Lists[n] /\ \A m \in Nat : ss \in Lists[m] => n <= m
  <2> DEFINE N == {n \in Nat : ss \in Lists[n]}
  <2>1. SUFFICES ASSUME \A n \in N : \E m \in N : m < n PROVE FALSE
    OBVIOUS
  <2> DEFINE P == {n \in Nat : n \notin N}
  <2>2. ASSUME NEW n \in Nat, \A m \in Nat : m < n => m \in P PROVE n \in P
    BY <2>1, <2>2
  <2>3. Nat \subseteq P
    <3> HIDE DEF P
    <3> QED
      BY <2>2, Numbers
  <2> QED
    BY <2>3, BoundsAssumption DEF Bodies
<1> QED
  BY <1>1 DEF Height

(* Of a body of some depth. *)
LEMMA InBodies ==
    ASSUME NEW n \in Nat, n <= MaxDepth
    PROVE  Lists[n] \subseteq Bodies
BY ListsGrow, BoundsAssumption DEF Bodies

(* What is in a statement of a body. *)
LEMMA SubsLower ==
    ASSUME NEW ss \in Bodies, NEW i \in DOMAIN ss, NEW j \in DOMAIN ss[i].subs
    PROVE  ss[i].subs[j] \in Bodies /\ Height[ss[i].subs[j]] < Height[ss]
<1> DEFINE n == Height[ss]
<1>1. n \in Nat /\ ss \in Lists[n] /\ n <= MaxDepth
  BY Heights, BoundsAssumption DEF Bodies
<1> HIDE DEF n
<1>2. n # 0
  BY <1>1, ListsAre
<1>3. ss \in Seq(Nodes(Lists[n - 1]))
  BY <1>1, <1>2, ListsAre
<1>4. ss[i] \in Nodes(Lists[n - 1])
  BY <1>3
<1>5. ss[i].subs \in Seq(Lists[n - 1])
  BY <1>4 DEF Nodes
<1>6. ss[i].subs[j] \in Lists[n - 1]
  BY <1>5
<1>7. n - 1 \in Nat /\ n - 1 <= MaxDepth /\ MaxDepth \in Nat
  BY <1>1, <1>2, BoundsAssumption
<1>8. ss[i].subs[j] \in Bodies
  BY <1>6, <1>7, InBodies
<1>9. Height[ss[i].subs[j]] <= n - 1 /\ Height[ss[i].subs[j]] \in Nat
  BY <1>6, <1>7, <1>8, Heights
<1> QED
  BY <1>1, <1>8, <1>9 DEF n

-----------------------------------------------------------------------------
(* The jumps that leave a list, unfolded once. *)
LEMMA ExitsIs ==
    \A ss \in Bodies : Exits[ss] = ExitsStep(ss, Exits)
<1>1. ASSUME NEW ss \in Bodies, NEW g, NEW h, \A y \in Bodies : Height[y] < Height[ss] => g[y] = h[y]
      PROVE  ExitsStep(ss, g) = ExitsStep(ss, h)
  <2>1. ASSUME NEW i \in DOMAIN ss PROVE InsideOf(ss[i], g) = InsideOf(ss[i], h)
    <3>1. \A j \in DOMAIN ss[i].subs : g[ss[i].subs[j]] = h[ss[i].subs[j]]
      BY <1>1, SubsLower
    <3> QED
      BY <3>1 DEF InsideOf
  <2>2. {Leaving(ss[i], InsideOf(ss[i], g)) : i \in DOMAIN ss}
          = {Leaving(ss[i], InsideOf(ss[i], h)) : i \in DOMAIN ss}
    BY <2>1
  <2> QED
    BY <2>2 DEF ExitsStep
<1>2. OfExits!LooksDown
  BY <1>1 DEF OfExits!LooksDown
<1>3. \E f : f = [ss \in Bodies |-> ExitsStep(ss, f)]
  BY <1>2, Heights, OfExits!Exists
<1>4. Exits = [ss \in Bodies |-> ExitsStep(ss, Exits)]
  BY <1>3, Zenon DEF Exits, ExitsStep, InsideOf
<1> HIDE DEF Exits
<1> QED
  BY <1>4

(* The lists in a list, unfolded once. *)
LEMMA ListsInIs ==
    \A ss \in Bodies : ListsIn[ss] = ListsInStep(ss, ListsIn)
<1>1. ASSUME NEW ss \in Bodies, NEW g, NEW h, \A y \in Bodies : Height[y] < Height[ss] => g[y] = h[y]
      PROVE  ListsInStep(ss, g) = ListsInStep(ss, h)
  <2>1. ASSUME NEW i \in DOMAIN ss PROVE InsideOf(ss[i], g) = InsideOf(ss[i], h)
    <3>1. \A j \in DOMAIN ss[i].subs : g[ss[i].subs[j]] = h[ss[i].subs[j]]
      BY <1>1, SubsLower
    <3> QED
      BY <3>1 DEF InsideOf
  <2>2. {InsideOf(ss[i], g) : i \in DOMAIN ss} = {InsideOf(ss[i], h) : i \in DOMAIN ss}
    BY <2>1
  <2> QED
    BY <2>2 DEF ListsInStep
<1>2. OfListsIn!LooksDown
  BY <1>1 DEF OfListsIn!LooksDown
<1>3. \E f : f = [ss \in Bodies |-> ListsInStep(ss, f)]
  BY <1>2, Heights, OfListsIn!Exists
<1>4. ListsIn = [ss \in Bodies |-> ListsInStep(ss, ListsIn)]
  BY <1>3, Zenon DEF ListsIn, ListsInStep, InsideOf
<1> HIDE DEF ListsIn
<1> QED
  BY <1>4

(* convert_stmt, over a list, unfolded once. *)
LEMMA LoweredIs ==
    \A ss \in Bodies : Lowered[ss] = LoweredStep(ss, Lowered)
<1>1. ASSUME NEW ss \in Bodies, NEW g, NEW h, \A y \in Bodies : Height[y] < Height[ss] => g[y] = h[y]
      PROVE  LoweredStep(ss, g) = LoweredStep(ss, h)
  <2>1. ASSUME NEW i \in DOMAIN ss
        PROVE  [j \in DOMAIN ss[i].subs |-> g[ss[i].subs[j]]] = [j \in DOMAIN ss[i].subs |-> h[ss[i].subs[j]]]
    <3>1. \A j \in DOMAIN ss[i].subs : g[ss[i].subs[j]] = h[ss[i].subs[j]]
      BY <1>1, SubsLower
    <3> QED
      BY <3>1
  <2> QED
    BY <2>1, Zenon DEF LoweredStep
<1>2. OfLowered!LooksDown
  BY <1>1 DEF OfLowered!LooksDown
<1>3. \E f : f = [ss \in Bodies |-> LoweredStep(ss, f)]
  BY <1>2, Heights, OfLowered!Exists
<1>4. Lowered = [ss \in Bodies |-> LoweredStep(ss, Lowered)]
  BY <1>3, Zenon DEF Lowered, LoweredStep
<1> HIDE DEF Lowered
<1> QED
  BY <1>4

(* A rule goes with a statement into it, and so does its walk. *)
LEMMA InsideRules ==
    ASSUME NEW r \in Rules, NEW x
    PROVE  /\ Inside(x, r) \in Rules /\ Inside(x, r).by = r.by /\ Inside(x, r).loop = r.loop
           /\ Inside(x, r).depth = IF x.op \in Loops THEN r.depth + 1 ELSE r.depth
BY DEF Rules, Inside

LEMMA WalksLower ==
    /\ WalkHeight \in [Walks -> Nat]
    /\ \A w \in Walks : \A i \in DOMAIN w[1] : \A j \in DOMAIN w[1][i].subs :
          LET v == <<w[1][i].subs[j], Inside(w[1][i], w[2])>>
          IN  v \in Walks /\ WalkHeight[v] < WalkHeight[w]
<1>1. \A w \in Walks : w[1] \in Bodies /\ w[2] \in Rules
  BY DEF Walks
<1>2. WalkHeight \in [Walks -> Nat]
  BY <1>1, Heights DEF WalkHeight
<1>3. ASSUME NEW w \in Walks, NEW i \in DOMAIN w[1], NEW j \in DOMAIN w[1][i].subs
      PROVE  LET v == <<w[1][i].subs[j], Inside(w[1][i], w[2])>>
             IN  v \in Walks /\ WalkHeight[v] < WalkHeight[w]
  <2>1. w[1] \in Bodies /\ w[2] \in Rules
    BY <1>1
  <2>2. w[1][i].subs[j] \in Bodies /\ Height[w[1][i].subs[j]] < Height[w[1]]
    BY <2>1, SubsLower
  <2>3. Inside(w[1][i], w[2]) \in Rules
    BY <2>1, InsideRules
  <2>4. <<w[1][i].subs[j], Inside(w[1][i], w[2])>> \in Walks
    BY <2>2, <2>3 DEF Walks
  <2> QED
    BY <2>2, <2>4 DEF WalkHeight
<1> QED
  BY <1>2, <1>3

(* A walk that replaces, unfolded once. *)
LEMMA RewrittenIs ==
    \A w \in Walks : Rewritten[w] = RewrittenStep(w, Rewritten)
<1>1. ASSUME NEW w \in Walks, NEW g, NEW h, \A y \in Walks : WalkHeight[y] < WalkHeight[w] => g[y] = h[y]
      PROVE  RewrittenStep(w, g) = RewrittenStep(w, h)
  <2>1. ASSUME NEW i \in DOMAIN w[1]
        PROVE  RewrittenSubs(w[1][i], w[2], g) = RewrittenSubs(w[1][i], w[2], h)
    <3>1. \A j \in DOMAIN w[1][i].subs :
             g[<<w[1][i].subs[j], Inside(w[1][i], w[2])>>] = h[<<w[1][i].subs[j], Inside(w[1][i], w[2])>>]
      BY <1>1, WalksLower
    <3> QED
      BY <3>1 DEF RewrittenSubs
  <2> QED
    BY <2>1, Zenon DEF RewrittenStep
<1>2. OfRewritten!LooksDown
  BY <1>1 DEF OfRewritten!LooksDown
<1>3. \E f : f = [w \in Walks |-> RewrittenStep(w, f)]
  BY <1>2, WalksLower, OfRewritten!Exists
<1>4. Rewritten = [w \in Walks |-> RewrittenStep(w, Rewritten)]
  BY <1>3, Zenon DEF Rewritten, RewrittenStep, RewrittenSubs
<1> HIDE DEF Rewritten
<1> QED
  BY <1>4

(* A walk that looks for what it replaces, unfolded once. *)
LEMMA HitsIs ==
    \A w \in Walks : HitsIn[w] = HitsStep(w, HitsIn)
<1>1. ASSUME NEW w \in Walks, NEW g, NEW h, \A y \in Walks : WalkHeight[y] < WalkHeight[w] => g[y] = h[y]
      PROVE  HitsStep(w, g) = HitsStep(w, h)
  <2>1. ASSUME NEW i \in DOMAIN w[1]
        PROVE  HitsInside(w[1][i], w[2], g) = HitsInside(w[1][i], w[2], h)
    <3>1. \A j \in DOMAIN w[1][i].subs :
             g[<<w[1][i].subs[j], Inside(w[1][i], w[2])>>] = h[<<w[1][i].subs[j], Inside(w[1][i], w[2])>>]
      BY <1>1, WalksLower
    <3> QED
      BY <3>1 DEF HitsInside
  <2>2. {HitsOf(w[1][i], w[2], HitsInside(w[1][i], w[2], g)) : i \in DOMAIN w[1]}
          = {HitsOf(w[1][i], w[2], HitsInside(w[1][i], w[2], h)) : i \in DOMAIN w[1]}
    BY <2>1
  <2> QED
    BY <2>2 DEF HitsStep
<1>2. OfHits!LooksDown
  BY <1>1 DEF OfHits!LooksDown
<1>3. \E f : f = [w \in Walks |-> HitsStep(w, f)]
  BY <1>2, WalksLower, OfHits!Exists
<1>4. HitsIn = [w \in Walks |-> HitsStep(w, HitsIn)]
  BY <1>3, Zenon DEF HitsIn, HitsStep, HitsInside
<1> HIDE DEF HitsIn
<1> QED
  BY <1>4

-----------------------------------------------------------------------------
(* The statements of lists put one after the other are the statements of   *)
(* those lists.                                                            *)
FromLists(t, s, m) == \A k \in DOMAIN t : \E i \in 1 .. m : \E l \in DOMAIN s[i] : t[k] = s[i][l]

LEMMA Flattened ==
    ASSUME NEW D, NEW n \in Nat, NEW s \in [1 .. n -> Seq(D)]
    PROVE  /\ FlattenSeq(s) \in Seq(D)
           /\ FromLists(FlattenSeq(s), s, n)
<1> DEFINE At(f, i) == IF i = 1 THEN s[i] ELSE f[i - 1] \o s[i]
           UpTo(f, m) == f = [i \in 1 .. m |-> At(f, i)]
           From(t, m) == t \in Seq(D) /\ \A k \in DOMAIN t : \E i \in 1 .. m : \E l \in DOMAIN s[i] : t[k] = s[i][l]
           P == {m \in Nat : m <= n => \E f : UpTo(f, m) /\ \A i \in 1 .. m : From(f[i], i)}
<1>0. s \in Seq(Seq(D)) /\ Len(s) = n
  OBVIOUS
<1>1. ASSUME NEW m \in Nat, \A k \in Nat : k < m => k \in P PROVE m \in P
  <2>1. CASE m = 0
    <3> DEFINE e == [i \in 1 .. 0 |-> <<>>]
    <3>1. e = [i \in 1 .. 0 |-> At(e, i)] /\ 1 .. 0 = {}
      OBVIOUS
    <3> HIDE DEF At, From
    <3>2. UpTo(e, m) /\ \A i \in 1 .. m : From(e[i], i)
      BY <2>1, <3>1
    <3> HIDE DEF e, UpTo
    <3>3. \E f : UpTo(f, m) /\ \A i \in 1 .. m : From(f[i], i)
      BY <3>2
    <3> QED
      BY <3>3
  <2>2. CASE m # 0 /\ m <= n
    <3> DEFINE p == m - 1
    <3>1. p \in Nat /\ p < m /\ p <= n /\ m = p + 1 /\ p = m - 1
      BY <2>2
    <3> HIDE DEF p
    <3>2. PICK f : UpTo(f, p) /\ \A i \in 1 .. p : From(f[i], i)
      <4>1. p \in P
        BY <1>1, <3>1
      <4> QED
        BY <3>1, <4>1
    <3> DEFINE g == [i \in 1 .. m |-> IF i = m THEN At(f, m) ELSE f[i]]
    <3>3. ASSUME NEW i \in 1 .. p PROVE g[i] = f[i]
      BY <3>1, <3>3
    <3>4. ASSUME NEW i \in 1 .. m PROVE g[i] = At(g, i)
      <4>1. CASE i = m
        <5>1. g[i] = At(f, m)
          BY <4>1
        <5>2. i # 1 => i - 1 \in 1 .. p
          BY <3>1, <4>1
        <5> HIDE DEF g
        <5>3. i # 1 => g[i - 1] = f[i - 1]
          BY <3>3, <5>2
        <5> QED
          BY <4>1, <5>1, <5>3
      <4>2. CASE i # m
        <5>1. i \in 1 .. p /\ (i # 1 => i - 1 \in 1 .. p)
          BY <3>1, <4>2
        <5>2. f[i] = At(f, i)
          BY <3>2, <5>1
        <5> HIDE DEF g
        <5>3. g[i] = f[i] /\ (i # 1 => g[i - 1] = f[i - 1])
          BY <3>3, <5>1
        <5> QED
          BY <5>2, <5>3
      <4> QED
        BY <4>1, <4>2
    <3>5. UpTo(g, m)
      <4>1. g = [i \in 1 .. m |-> g[i]]
        OBVIOUS
      <4> HIDE DEF g
      <4> QED
        BY <3>4, <4>1
    <3>6. ASSUME NEW i \in 1 .. m PROVE From(g[i], i)
      <4>1. CASE i = m
        <5>0. s[m] \in Seq(D) /\ m \in 1 .. n
          BY <2>2
        <5>1. CASE m = 1
          <6>1. g[i] = s[1]
            BY <4>1, <5>1
          <6> HIDE DEF g
          <6> QED
            BY <4>1, <5>0, <5>1, <6>1
        <5>2. CASE m # 1
          <6>1. g[i] = f[p] \o s[m]
            BY <3>1, <4>1, <5>2
          <6>2. From(f[p], p) /\ p \in 1 .. m
            <7> HIDE DEF From, UpTo
            <7>1. p \in 1 .. p /\ p \in 1 .. m
              BY <3>1, <5>2
            <7> QED
              BY <3>2, <7>1
          <6> HIDE DEF g
          <6>3. g[i] \in Seq(D)
            <7>1. f[p] \in Seq(D)
              BY <6>2
            <7> QED
              BY <5>0, <6>1, <7>1
          <6> DEFINE t == f[p]
                     u == s[m]
          <6>4. t \in Seq(D) /\ u \in Seq(D) /\ g[i] = t \o u
            BY <5>0, <6>1, <6>2
          <6>5. ASSUME NEW k \in DOMAIN g[i] PROVE \E j \in 1 .. m : \E l \in DOMAIN s[j] : g[i][k] = s[j][l]
            <7> HIDE DEF t, u
            <7>1. CASE k \in DOMAIN t
              <8>1. g[i][k] = t[k]
                BY <6>4, <7>1
              <8>2. PICK j \in 1 .. p : \E l \in DOMAIN s[j] : t[k] = s[j][l]
                BY <6>2, <7>1 DEF t
              <8> QED
                BY <3>1, <8>1, <8>2
            <7>2. CASE k \notin DOMAIN t
              <8>1. k - Len(t) \in DOMAIN u /\ g[i][k] = u[k - Len(t)]
                BY <6>4, <7>2
              <8> QED
                BY <3>1, <8>1 DEF u
            <7> QED
              BY <7>1, <7>2
          <6> QED
            BY <4>1, <6>3, <6>5
        <5> QED
          BY <5>1, <5>2
      <4>2. CASE i # m
        <5>1. i \in 1 .. p
          BY <3>1, <4>2
        <5> HIDE DEF g, From
        <5> QED
          BY <3>2, <3>3, <5>1
      <4> QED
        BY <4>1, <4>2
    <3> HIDE DEF g, UpTo, From
    <3> QED
      BY <3>5, <3>6
  <2>3. CASE m # 0 /\ ~ (m <= n)
    BY <2>3
  <2> QED
    BY <2>1, <2>2, <2>3
<1>2. n \in P
  <2> HIDE DEF P
  <2> QED
    BY <1>1, Numbers
<1>3. CASE n = 0
  <2>1. FlattenSeq(s) = s /\ s = <<>>
    BY <1>0, <1>3 DEF FlattenSeq
  <2> QED
    BY <2>1 DEF FromLists
<1>4. CASE n # 0
  <2> DEFINE flat == CHOOSE f : f = [i \in 1 .. n |-> IF i = 1 THEN s[i] ELSE f[i - 1] \o s[i]]
  <2>1. FlattenSeq(s) = flat[n]
    BY <1>0, <1>4 DEF FlattenSeq
  <2>2. PICK f : UpTo(f, n) /\ \A i \in 1 .. n : From(f[i], i)
    <3> HIDE DEF UpTo, From
    <3> QED
      BY <1>2
  <2>3. \E h : h = [i \in 1 .. n |-> IF i = 1 THEN s[i] ELSE h[i - 1] \o s[i]]
    BY <2>2
  <2>4. flat = [i \in 1 .. n |-> IF i = 1 THEN s[i] ELSE flat[i - 1] \o s[i]]
    BY <2>3, Zenon
  <2> HIDE DEF flat
  <2> DEFINE Q == {i \in Nat : i \in 1 .. n => flat[i] = f[i]}
  <2>5. ASSUME NEW i \in Nat, \A k \in Nat : k < i => k \in Q PROVE i \in Q
    <3> SUFFICES ASSUME i \in 1 .. n PROVE flat[i] = f[i]
      OBVIOUS
    <3>1. flat[i] = IF i = 1 THEN s[i] ELSE flat[i - 1] \o s[i]
      BY <2>4
    <3>2. f[i] = IF i = 1 THEN s[i] ELSE f[i - 1] \o s[i]
      BY <2>2
    <3>3. i # 1 => flat[i - 1] = f[i - 1]
      BY <2>5
    <3> QED
      BY <3>1, <3>2, <3>3
  <2>6. n \in Q
    <3> HIDE DEF Q
    <3> QED
      BY <2>5, Numbers
  <2>7. FlattenSeq(s) = f[n] /\ From(f[n], n)
    <3> HIDE DEF From, UpTo
    <3>1. n \in 1 .. n
      BY <1>4
    <3> QED
      BY <2>1, <2>2, <2>6, <3>1
  <2> QED
    BY <2>7 DEF FromLists
<1> QED
  BY <1>3, <1>4

(* What leaves a statement. *)
Leaves(x) == Leaving(x, InsideOf(x, Exits))

(* What leaves a list leaves one of its statements. *)
LEMMA ExitsOfList ==
    ASSUME NEW ss \in Bodies
    PROVE  /\ \A i \in DOMAIN ss : Leaves(ss[i]) \subseteq Exits[ss]
           /\ \A e \in Exits[ss] : \E i \in DOMAIN ss : e \in Leaves(ss[i])
BY ExitsIs DEF ExitsStep, Leaves

(* What leaves a statement, one jump at a time. *)
LEMMA LeavingIs ==
    ASSUME NEW x, NEW I, NEW e
    PROVE  /\ x.op \in JumpOps => (e \in Leaving(x, I) <=> e \in I \/ e = Jump(x.op, x.label))
           /\ x.op \in Loops =>
                (e \in Leaving(x, I) <=>
                   e \in I /\ e \notin Bare /\ e # Jump("break", x.label) /\ e # Jump("continue", x.label))
           /\ x.op = "switch" => (e \in Leaving(x, I) <=> e \in I /\ e # Jump("break", ""))
           /\ x.op = "block" =>
                (e \in Leaving(x, I) <=>
                   \/ e \in I /\ e \notin Bare /\ e # Jump("break", x.label)
                   \/ e = Wrong /\ I \cap Bare # {})
           /\ x.op = "defer" => (e \in Leaving(x, I) <=> e = Wrong /\ I # {})
           /\ x.op = "match" => (e \in Leaving(x, I) <=> e \in I \/ (e = Wrong /\ ~ Exhaustive(x)))
           /\ x.op \notin JumpOps \cup Loops \cup {"switch", "block", "defer", "match"} =>
                (e \in Leaving(x, I) <=> e \in I)
<1>1. CASE x.op \in JumpOps
  BY <1>1 DEF Leaving, JumpOps, Loops
<1>2. CASE x.op \in Loops
  <2>1. Leaving(x, I) = I \ (Bare \cup {Jump(op, x.label) : op \in {"break", "continue"}})
    BY <1>2 DEF Leaving, JumpOps, Loops
  <2>2. x.op \notin JumpOps \cup {"switch", "block", "defer", "match"}
    BY <1>2 DEF JumpOps, Loops
  <2> QED
    BY <1>2, <2>1, <2>2
<1>3. CASE x.op \in {"switch", "block", "defer", "match"}
  BY <1>3 DEF Leaving, JumpOps, Loops, WrongIf
<1>4. CASE x.op \notin JumpOps \cup Loops \cup {"switch", "block", "defer", "match"}
  <2>1. Leaving(x, I) = I
    BY <1>4 DEF Leaving
  <2> QED
    BY <1>4, <2>1
<1> QED
  BY <1>1, <1>2, <1>3, <1>4

(* Most statements let everything out. *)
LEMMA LeavingOther ==
    ASSUME NEW x, NEW I, x.op \notin JumpOps \cup Loops \cup {"switch", "block", "defer", "match"}
    PROVE  Leaving(x, I) = I
<1>1. \A e : e \in Leaving(x, I) <=> e \in I
  BY LeavingIs
<1> QED
  BY <1>1

-----------------------------------------------------------------------------
(* The lists of the source: its statements, with the lists they have; and  *)
(* lists without a switch, which is what is generated.                     *)
Source(x) ==
    /\ x.op \in JumpOps \cup {"mark", "if", "while", "for", "doWhile", "braces", "try", "switch"}
    /\ x.op \in {"while", "for", "doWhile", "braces"} => Len(x.subs) = 1
    /\ x.op = "try" => Len(x.subs) = 3
    /\ x.op = "for" => x.label = ""
    /\ x.op \in JumpOps \cup {"mark"} => x.subs = <<>>

Fits(kind, x) == IF kind = "source" THEN Source(x) ELSE x.op # "switch"

NodesOf(kind, lists) == {x \in Nodes(lists) : Fits(kind, x)}

ListsOf[n \in Nat] ==
    [kind \in {"source", "rust"} |-> IF n = 0 THEN {<<>>} ELSE Seq(NodesOf(kind, ListsOf[n - 1][kind]))]

ListsOfStep(n, g) ==
    [kind \in {"source", "rust"} |-> IF n = 0 THEN {<<>>} ELSE Seq(NodesOf(kind, g[n - 1][kind]))]

OfListsOf == INSTANCE Recursion WITH S <- Nat, H <- Number, Step <- ListsOfStep

(* They are, at each depth. *)
LEMMA ListsOfAre ==
    \A kind \in {"source", "rust"} :
       /\ ListsOf[0][kind] = {<<>>}
       /\ \A n \in Nat : n # 0 => ListsOf[n][kind] = Seq(NodesOf(kind, ListsOf[n - 1][kind]))
<1>0. Number \in [Nat -> Nat] /\ \A n \in Nat : Number[n] = n
  BY DEF Number
<1>1. ASSUME NEW n \in Nat, NEW g, NEW h, \A y \in Nat : Number[y] < Number[n] => g[y] = h[y]
      PROVE  ListsOfStep(n, g) = ListsOfStep(n, h)
  <2>1. n # 0 => n - 1 \in Nat /\ n - 1 < n
    OBVIOUS
  <2>2. n # 0 => g[n - 1] = h[n - 1]
    BY <1>0, <1>1, <2>1
  <2> QED
    BY <2>2, Zenon DEF ListsOfStep
<1>2. OfListsOf!LooksDown
  BY <1>1 DEF OfListsOf!LooksDown
<1>3. \E f : f = [n \in Nat |-> ListsOfStep(n, f)]
  BY <1>2, <1>0, OfListsOf!Exists
<1>4. ListsOf = [n \in Nat |-> ListsOfStep(n, ListsOf)]
  BY <1>3, Zenon DEF ListsOf, ListsOfStep
<1> HIDE DEF ListsOf
<1>5. \A n \in Nat : ListsOf[n] = ListsOfStep(n, ListsOf)
  BY <1>4
<1> QED
  BY <1>5 DEF ListsOfStep

(* With deeper lists there are more statements of each kind. *)
LEMMA NodesOfGrow ==
    ASSUME NEW kind, NEW A, NEW B, A \subseteq B
    PROVE  /\ NodesOf(kind, A) \subseteq NodesOf(kind, B) /\ NodesOf(kind, A) \subseteq Nodes(B)
           /\ Seq(NodesOf(kind, A)) \subseteq Seq(NodesOf(kind, B))
           /\ Seq(NodesOf(kind, A)) \subseteq Seq(Nodes(B))
<1>1. NodesOf(kind, A) \subseteq NodesOf(kind, B) /\ NodesOf(kind, A) \subseteq Nodes(B)
  BY NodesGrow DEF NodesOf
<1>2. ASSUME NEW s \in Seq(NodesOf(kind, A)) PROVE s \in Seq(NodesOf(kind, B)) /\ s \in Seq(Nodes(B))
  BY <1>1, SeqMonotonic
<1> QED
  BY <1>1, <1>2

(* A list of some depth is one of any greater depth, and a list.           *)
LEMMA ListsOfGrow ==
    ASSUME NEW kind \in {"source", "rust"}, NEW m \in Nat, NEW n \in Nat, m <= n
    PROVE  ListsOf[m][kind] \subseteq ListsOf[n][kind] /\ ListsOf[n][kind] \subseteq Lists[n]
<1> DEFINE P == {k \in Nat : /\ \A l \in Nat : l <= k => ListsOf[l][kind] \subseteq ListsOf[k][kind]
                             /\ ListsOf[k][kind] \subseteq Lists[k]}
<1>1. ASSUME NEW k \in Nat, \A l \in Nat : l < k => l \in P PROVE k \in P
  <2>1. ASSUME NEW l \in Nat, l < k PROVE ListsOf[l][kind] \subseteq ListsOf[k][kind]
    <3>0. k # 0 /\ k - 1 \in Nat /\ k - 1 < k
      BY <2>1
    <3>1. ListsOf[k][kind] = Seq(NodesOf(kind, ListsOf[k - 1][kind]))
      BY ListsOfAre, <3>0
    <3>2. CASE l = 0
      <4>1. ListsOf[l][kind] = {<<>>}
        BY <3>2, ListsOfAre
      <4> QED
        BY <3>1, <4>1
    <3>3. CASE l # 0
      <4>1. l - 1 \in Nat /\ l - 1 <= k - 1 /\ k - 1 \in P
        BY <1>1, <2>1, <3>0, <3>3
      <4>2. ListsOf[l - 1][kind] \subseteq ListsOf[k - 1][kind]
        BY <4>1
      <4>3. ListsOf[l][kind] = Seq(NodesOf(kind, ListsOf[l - 1][kind]))
        BY ListsOfAre, <3>3
      <4> HIDE DEF P
      <4> QED
        BY <3>1, <4>2, <4>3, NodesOfGrow
    <3> QED
      BY <3>2, <3>3
  <2>2. ListsOf[k][kind] \subseteq Lists[k]
    <3>1. CASE k = 0
      BY <3>1, ListsAre, ListsOfAre
    <3>2. CASE k # 0
      <4>1. k - 1 \in P
        BY <1>1, <3>2
      <4>2. ListsOf[k - 1][kind] \subseteq Lists[k - 1]
        BY <4>1
      <4>3. ListsOf[k][kind] = Seq(NodesOf(kind, ListsOf[k - 1][kind]))
        BY ListsOfAre, <3>2
      <4>4. Lists[k] = Seq(Nodes(Lists[k - 1]))
        BY ListsAre, <3>2
      <4>5. Seq(NodesOf(kind, ListsOf[k - 1][kind])) \subseteq Seq(Nodes(Lists[k - 1]))
        <5> DEFINE A == ListsOf[k - 1][kind]
                   B == Lists[k - 1]
        <5>1. A \subseteq B
          BY <4>2
        <5> HIDE DEF A, B
        <5>2. Seq(NodesOf(kind, A)) \subseteq Seq(Nodes(B))
          BY <5>1, NodesOfGrow
        <5> QED
          BY <5>2 DEF A, B
      <4> QED
        BY <4>3, <4>4, <4>5, Zenon
    <3> QED
      BY <3>1, <3>2
  <2> QED
    BY <2>1, <2>2
<1>2. Nat \subseteq P
  <2> HIDE DEF P
  <2> QED
    BY <1>1, Numbers
<1> QED
  BY <1>2

(* A list in a statement of a list is one of its kind, a level down.       *)
LEMMA ListsOfDown ==
    ASSUME NEW kind \in {"source", "rust"}, NEW n \in Nat, NEW ss \in ListsOf[n][kind], NEW i \in DOMAIN ss
    PROVE  /\ n # 0 /\ n - 1 \in Nat
           /\ ss[i] \in NodesOf(kind, ListsOf[n - 1][kind])
           /\ ss[i].subs \in Seq(ListsOf[n - 1][kind])
           /\ \A j \in DOMAIN ss[i].subs : ss[i].subs[j] \in ListsOf[n - 1][kind]
<1>1. n # 0
  BY ListsOfAre
<1>2. ss \in Seq(NodesOf(kind, ListsOf[n - 1][kind]))
  BY <1>1, ListsOfAre
<1>3. ss[i] \in NodesOf(kind, ListsOf[n - 1][kind])
  BY <1>2
<1>4. ss[i].subs \in Seq(ListsOf[n - 1][kind])
  BY <1>3 DEF NodesOf, Nodes
<1> QED
  BY <1>1, <1>3, <1>4

(* The ones that are not too deep are bodies. *)
LEMMA BodiesOf ==
    ASSUME NEW kind \in {"source", "rust"}, NEW n \in Nat, n <= MaxDepth
    PROVE  ListsOf[n][kind] \subseteq Bodies
BY ListsOfGrow, InBodies

(* What is generated: leaves, and statements around one list.              *)
Rust(n) == ListsOf[n]["rust"]
RustNodes(n) == NodesOf("rust", Rust(n))

LEMMA RustIs ==
    ASSUME NEW n \in Nat
    PROVE  Rust(n + 1) = Seq(RustNodes(n))
<1>1. n + 1 \in Nat /\ n + 1 # 0 /\ (n + 1) - 1 = n
  OBVIOUS
<1> QED
  BY <1>1, ListsOfAre DEF Rust, RustNodes

LEMMA LeafNodes ==
    ASSUME NEW lists, NEW op \in Ops, NEW l \in Labels
    PROVE  Leaf(op, l) \in Nodes(lists)
BY DEF Leaf, Stmt, Nodes

LEMMA OneNodes ==
    ASSUME NEW lists, NEW op \in Ops, NEW l \in Labels, NEW b \in lists
    PROVE  Stmt(op, l, <<>>, <<b>>) \in Nodes(lists)
BY DEF Stmt, Nodes

LEMMA RustLeaf ==
    ASSUME NEW n \in Nat, NEW op \in Ops, op # "switch", NEW l \in Labels
    PROVE  Leaf(op, l) \in RustNodes(n)
<1>1. Leaf(op, l).op = op
  BY DEF Leaf, Stmt
<1> QED
  BY <1>1, LeafNodes DEF RustNodes, NodesOf, Fits

LEMMA RustOne ==
    ASSUME NEW n \in Nat, NEW op \in Ops, op # "switch", NEW l \in Labels, NEW b \in Rust(n)
    PROVE  Stmt(op, l, <<>>, <<b>>) \in RustNodes(n)
<1>1. Stmt(op, l, <<>>, <<b>>).op = op
  BY DEF Stmt
<1> QED
  BY <1>1, OneNodes DEF RustNodes, NodesOf, Fits


-----------------------------------------------------------------------------
(* What a walk that replaces leaves: what left before, but for the bare    *)
(* jumps it met outside a loop, and the jumps it puts in their place.      *)
Walking(r) == r \in Rules /\ r.by \in {"try", "doWhile"} /\ (r.by = "doWhile" => r.loop # "")

Gone(r) == IF r.depth = 0 THEN Bare ELSE {}

Added(r) ==
    IF r.by = "try" THEN {Jump("break", TryBlock)}
    ELSE {Jump("break", DoWhileBlock), Jump("break", r.loop)}

Remains(e, before, r, hits) == (e \in before /\ e \notin Gone(r)) \/ (hits # {} /\ e \in Added(r))

LEMMA AddedIsNotBare ==
    ASSUME NEW r, Walking(r)
    PROVE  /\ Added(r) \cap Bare = {} /\ Wrong \notin Bare
           /\ \A x : Walking(Inside(x, r)) /\ Added(Inside(x, r)) = Added(r)
<1>1. Added(r) \cap Bare = {} /\ Wrong \notin Bare
  <2>1. \A op, l : l # "" => Jump(op, l) \notin Bare
    BY DEF Bare, Jump
  <2>2. \A e \in Added(r) : \E l : l # "" /\ e = Jump("break", l)
    <3>1. CASE r.by = "try"
      BY <3>1 DEF Added, TryBlock
    <3>2. CASE r.by # "try"
      BY <3>2 DEF Added, Walking, DoWhileBlock
    <3> QED
      BY <3>1, <3>2
  <2>3. Wrong \notin Bare
    BY DEF Bare, Jump, Wrong
  <2> QED
    BY <2>1, <2>2, <2>3
<1>2. ASSUME NEW x PROVE Walking(Inside(x, r)) /\ Added(Inside(x, r)) = Added(r)
  BY InsideRules DEF Walking, Added
<1> QED
  BY <1>1, <1>2

(* A leaf leaves itself, if it is a jump. *)
LEMMA LeafExits ==
    ASSUME NEW op, NEW l
    PROVE  /\ Leaf(op, l).op = op /\ Leaf(op, l).label = l /\ Leaf(op, l).subs = <<>>
           /\ op \in JumpOps => Leaves(Leaf(op, l)) = {Jump(op, l)}
           /\ op \notin JumpOps \cup {"defer", "match", "block"} => Leaves(Leaf(op, l)) = {}
<1>1. Leaf(op, l).op = op /\ Leaf(op, l).label = l /\ Leaf(op, l).subs = <<>>
  BY DEF Leaf, Stmt
<1>2. InsideOf(Leaf(op, l), Exits) = {}
  BY <1>1 DEF InsideOf
<1> DEFINE x == Leaf(op, l)
<1>3. x.op = op /\ x.label = l /\ Leaves(x) = Leaving(x, {})
  BY <1>1, <1>2 DEF Leaves
<1> HIDE DEF x
<1>4. ASSUME op \in JumpOps PROVE Leaves(x) = {Jump(op, l)}
  <2>1. \A e : e \in Leaving(x, {}) <=> e = Jump(op, l)
    BY <1>3, <1>4, LeavingIs
  <2> QED
    BY <1>3, <2>1
<1>5. ASSUME op \notin JumpOps \cup {"defer", "match", "block"} PROVE Leaves(x) = {}
  <2>1. ASSUME NEW e \in Leaving(x, {}) PROVE FALSE
    <3>1. CASE op \in Loops
      BY <1>3, <2>1, <3>1, LeavingIs
    <3>2. CASE op = "switch"
      BY <1>3, <2>1, <3>2, LeavingIs
    <3>3. CASE op \notin Loops \cup {"switch"}
      BY <1>3, <1>5, <2>1, <3>3, LeavingIs
    <3> QED
      BY <3>1, <3>2, <3>3
  <2> QED
    BY <1>3, <2>1
<1> QED
  BY <1>1, <1>4, <1>5 DEF x


(* What stands in the place of a jump that was met. *)
LEMMA ReplaceExits ==
    ASSUME NEW n \in Nat, NEW x \in RustNodes(n), NEW r, Walking(r), Hit(x, r)
    PROVE  /\ Replace(x, r) \in Seq(RustNodes(n))
           /\ \A k \in DOMAIN Replace(x, r) : Leaves(Replace(x, r)[k]) \subseteq Added(r)
<1>1. CASE r.by = "try"
  <2>1. FlagOf(x) \in Labels
    BY <1>1 DEF Hit, FlagOf, Labels, Variables
  <2>2. Set(FlagOf(x)) \in RustNodes(n) /\ Leaves(Set(FlagOf(x))) = {}
    BY <2>1, RustLeaf, LeafExits DEF Set, Ops, JumpOps
  <2>3. Break(TryBlock) \in RustNodes(n) /\ Leaves(Break(TryBlock)) = {Jump("break", TryBlock)}
    BY RustLeaf, LeafExits DEF Break, Ops, JumpOps, Labels
  <2>4. Replace(x, r) = <<Set(FlagOf(x)), Break(TryBlock)>>
    BY <1>1 DEF Replace
  <2>5. Added(r) = {Jump("break", TryBlock)}
    BY <1>1 DEF Added
  <2> QED
    BY <2>2, <2>3, <2>4, <2>5
<1>2. CASE r.by = "doWhile"
  <2> DEFINE l == IF x.op = "continue" THEN DoWhileBlock ELSE r.loop
  <2>1. l \in Labels
    BY DEF Walking, Rules, Labels
  <2>2. Added(r) = {Jump("break", DoWhileBlock), Jump("break", r.loop)}
    BY <1>2 DEF Added
  <2>3. Replace(x, r) = <<Break(l)>>
    BY <1>2 DEF Replace
  <2>4. l = DoWhileBlock \/ l = r.loop
    OBVIOUS
  <2> HIDE DEF l
  <2>5. Break(l) \in RustNodes(n) /\ Leaves(Break(l)) = {Jump("break", l)}
    BY <2>1, RustLeaf, LeafExits DEF Break, Ops, JumpOps
  <2> QED
    BY <2>2, <2>3, <2>4, <2>5
<1> QED
  BY <1>1, <1>2 DEF Walking

(* What leaves a statement that stays, when what leaves its lists changes. *)
LEMMA LeavingRemains ==
    ASSUME NEW x, NEW y, NEW r, Walking(r), ~ Hit(x, r), y.op = x.op, y.label = x.label, y.tests = x.tests,
           x.op # "switch", x.op # "defer", NEW A, NEW B, NEW hits,
           \A e \in B : Remains(e, A, Inside(x, r), hits)
    PROVE  \A e \in Leaving(y, B) : Remains(e, Leaving(x, A), r, hits)
<1> SUFFICES ASSUME NEW e \in Leaving(y, B) PROVE Remains(e, Leaving(x, A), r, hits)
  OBVIOUS
<1>1. Walking(Inside(x, r)) /\ Added(Inside(x, r)) = Added(r) /\ Added(r) \cap Bare = {} /\ Wrong \notin Bare
  BY AddedIsNotBare
<1>2. Gone(Inside(x, r)) = IF x.op \in Loops THEN {} ELSE Gone(r)
  <2>1. r \in Rules /\ r.depth \in Nat
    BY DEF Walking, Rules
  <2>2. Inside(x, r).depth = IF x.op \in Loops THEN r.depth + 1 ELSE r.depth
    BY <2>1, InsideRules
  <2>3. r.depth + 1 # 0
    BY <2>1
  <2> QED
    BY <2>2, <2>3 DEF Gone
<1>3. Gone(r) \subseteq Bare
  BY DEF Gone
<1>4. \A f \in B : (f \in A /\ f \notin Gone(Inside(x, r))) \/ (hits # {} /\ f \in Added(r))
  BY <1>1 DEF Remains
<1>5. CASE x.op \in JumpOps
  <2>1. Jump(x.op, x.label) \notin Gone(r)
    BY <1>5 DEF Hit, Gone, Walking, Bare, Jump, Rules, JumpOps
  <2>2. x.op \notin Loops
    BY <1>5 DEF JumpOps, Loops
  <2> QED
    BY <1>2, <1>4, <1>5, <2>1, <2>2, LeavingIs DEF Remains
<1>6. CASE x.op \in Loops
  <2>1. e \in B /\ e \notin Bare /\ e # Jump("break", x.label) /\ e # Jump("continue", x.label)
    BY <1>6, LeavingIs
  <2>2. e \in A => e \in Leaving(x, A)
    BY <1>6, <2>1, LeavingIs
  <2> QED
    BY <1>3, <1>4, <2>1, <2>2 DEF Remains
<1>7. CASE x.op = "block"
  <2>1. x.op \notin Loops
    BY <1>7 DEF Loops
  <2>2. CASE e \in B /\ e \notin Bare /\ e # Jump("break", x.label)
    BY <1>2, <1>3, <1>4, <1>7, <2>1, <2>2, LeavingIs DEF Remains
  <2>3. CASE e = Wrong /\ B \cap Bare # {}
    <3>1. A \cap Bare # {}
      BY <1>1, <1>4, <2>3
    <3> QED
      BY <1>1, <1>3, <1>7, <2>3, <3>1, LeavingIs DEF Remains
  <2>4. y.op = "block" /\ y.label = x.label
    BY <1>7
  <2>5. \/ e \in B /\ e \notin Bare /\ e # Jump("break", x.label)
        \/ e = Wrong /\ B \cap Bare # {}
    BY <2>4, LeavingIs
  <2> QED
    BY <2>2, <2>3, <2>5
<1>8. CASE x.op = "match"
  <2>1. x.op \notin Loops
    BY <1>8 DEF Loops
  <2>2. Exhaustive(y) <=> Exhaustive(x)
    BY DEF Exhaustive
  <2>3. e \in B \/ (e = Wrong /\ ~ Exhaustive(x))
    BY <1>8, <2>2, LeavingIs
  <2>4. CASE e \in B
    <3>1. e \in A => e \in Leaving(x, A)
      BY <1>8, LeavingIs
    <3> QED
      BY <1>2, <1>4, <2>1, <2>4, <3>1 DEF Remains
  <2>5. CASE e = Wrong /\ ~ Exhaustive(x)
    <3>1. e \in Leaving(x, A)
      BY <1>8, <2>5, LeavingIs
    <3> QED
      BY <1>1, <1>3, <2>5, <3>1 DEF Remains
  <2> QED
    BY <2>3, <2>4, <2>5
<1>9. CASE x.op \notin JumpOps \cup Loops \cup {"block", "match"}
  BY <1>2, <1>4, <1>9, LeavingIs DEF Remains
<1> QED
  BY <1>5, <1>6, <1>7, <1>8, <1>9


(* What leaves lists put one after the other leaves one of them. *)
LeavesOneOf(e, s, m) == \E i \in 1 .. m : \E l \in DOMAIN s[i] : e \in Leaves(s[i][l])

LEMMA FlattenedExits ==
    ASSUME NEW n \in Nat, n + 1 <= MaxDepth, NEW m \in Nat, NEW s \in [1 .. m -> Seq(RustNodes(n))]
    PROVE  /\ FlattenSeq(s) \in Rust(n + 1) /\ FlattenSeq(s) \in Bodies
           /\ \A e \in Exits[FlattenSeq(s)] : LeavesOneOf(e, s, m)
<1> DEFINE t == FlattenSeq(s)
<1>1. t \in Seq(RustNodes(n)) /\ FromLists(t, s, m)
  BY Flattened
<1> HIDE DEF t
<1>2. t \in Rust(n + 1)
  BY <1>1, RustIs
<1>3. t \in Bodies
  BY <1>2, BodiesOf DEF Rust
<1>4. ASSUME NEW e \in Exits[t] PROVE LeavesOneOf(e, s, m)
  <2>1. PICK k \in DOMAIN t : e \in Leaves(t[k])
    BY <1>3, ExitsOfList
  <2> QED
    BY <1>1, <2>1 DEF FromLists, LeavesOneOf
<1> QED
  BY <1>2, <1>3, <1>4 DEF t

(* What a list becomes is a list, and this leaves it. *)
RewritesWell(b, n, r) ==
    /\ Rewrite(b, r) \in Rust(n)
    /\ \A e \in Exits[Rewrite(b, r)] : Remains(e, Exits[b], r, Hits(b, r))

(* One statement of it. *)
LEMMA RewriteStmtExits ==
    ASSUME NEW n \in Nat, n + 1 <= MaxDepth, NEW x \in RustNodes(n), NEW r, Walking(r),
           \A j \in DOMAIN x.subs : RewritesWell(x.subs[j], n, Inside(x, r)),
           NEW t, t = RewriteStmt(x, r, RewrittenSubs(x, r, Rewritten)),
           NEW h, h = HitsOf(x, r, HitsInside(x, r, HitsIn))
    PROVE  /\ t \in Seq(RustNodes(n))
           /\ \A k \in DOMAIN t : \A e \in Leaves(t[k]) : Remains(e, Leaves(x), r, h)
<1>1. CASE Hit(x, r)
  <2>1. t = Replace(x, r) /\ h # {}
    BY <1>1 DEF RewriteStmt, HitsOf
  <2> QED
    BY <1>1, <2>1, ReplaceExits DEF Remains
<1>2. CASE ~ Hit(x, r) /\ Skips(x, r)
  <2>1. t = <<x>>
    BY <1>2 DEF RewriteStmt
  <2>2. Leaves(x) \cap Bare = {}
    <3>1. x.op = "defer" \/ x.op = "block"
      BY <1>2 DEF Skips, Walking
    <3>2. ASSUME NEW e \in Leaves(x) PROVE e \notin Bare
      <4> DEFINE I == InsideOf(x, Exits)
      <4>0. e \in Leaving(x, I)
        BY DEF Leaves
      <4> HIDE DEF I
      <4>1. Wrong \notin Bare
        BY AddedIsNotBare
      <4>2. CASE x.op = "defer"
        BY <4>0, <4>1, <4>2, LeavingIs
      <4>3. CASE x.op = "block"
        BY <4>0, <4>1, <4>3, LeavingIs
      <4> QED
        BY <3>1, <4>2, <4>3
    <3> QED
      BY <3>2
  <2>3. Gone(r) \subseteq Bare
    BY DEF Gone
  <2> QED
    BY <2>1, <2>2, <2>3 DEF Remains
<1>3. CASE ~ Hit(x, r) /\ ~ Skips(x, r)
  <2> DEFINE y == [x EXCEPT !.subs = RewrittenSubs(x, r, Rewritten)]
  <2>1. t = <<y>> /\ h = HitsInside(x, r, HitsIn)
    BY <1>3 DEF RewriteStmt, HitsOf
  <2>2. x \in Nodes(Rust(n)) /\ x.op # "switch"
    BY DEF RustNodes, NodesOf, Fits
  <2>3. x.subs \in Seq(Rust(n))
    BY <2>2 DEF Nodes
  <2>4. y.op = x.op /\ y.label = x.label /\ y.tests = x.tests /\ y.subs = RewrittenSubs(x, r, Rewritten)
    BY <2>2 DEF Nodes
  <2>5. RewrittenSubs(x, r, Rewritten) \in Seq(Rust(n))
    <3>1. \A j \in DOMAIN x.subs : Rewritten[<<x.subs[j], Inside(x, r)>>] \in Rust(n)
      BY DEF RewritesWell, Rewrite
    <3>2. PICK m \in Nat : DOMAIN x.subs = 1 .. m
      BY <2>3
    <3>3. RewrittenSubs(x, r, Rewritten) \in [1 .. m -> Rust(n)]
      BY <3>1, <3>2, Zenon DEF RewrittenSubs
    <3> QED
      BY <3>3
  <2>6. y \in RustNodes(n)
    <3>1. y \in Nodes(Rust(n))
      BY <2>2, <2>5 DEF Nodes
    <3> QED
      BY <2>2, <2>4, <3>1 DEF RustNodes, NodesOf, Fits
  <2> HIDE DEF y
  <2>7. x.op # "defer"
    BY <1>3 DEF Skips
  <2>8. ASSUME NEW e \in InsideOf(y, Exits) PROVE Remains(e, InsideOf(x, Exits), Inside(x, r), h)
    <3>1. DOMAIN y.subs = DOMAIN x.subs
             /\ \A j \in DOMAIN x.subs : y.subs[j] = Rewrite(x.subs[j], Inside(x, r))
      BY <2>4, Zenon DEF RewrittenSubs, Rewrite
    <3>2. PICK j \in DOMAIN x.subs : e \in Exits[y.subs[j]]
      BY <3>1 DEF InsideOf
    <3>3. Remains(e, Exits[x.subs[j]], Inside(x, r), Hits(x.subs[j], Inside(x, r)))
      BY <3>1, <3>2 DEF RewritesWell
    <3>4. Exits[x.subs[j]] \subseteq InsideOf(x, Exits)
      BY DEF InsideOf
    <3>5. Hits(x.subs[j], Inside(x, r)) \subseteq h
      BY <2>1 DEF HitsInside, Hits
    <3> QED
      BY <3>3, <3>4, <3>5 DEF Remains
  <2>9. \A e \in Leaves(y) : Remains(e, Leaves(x), r, h)
    BY <1>3, <2>2, <2>4, <2>7, <2>8, LeavingRemains DEF Leaves
  <2> QED
    BY <2>1, <2>6, <2>9
<1> QED
  BY <1>1, <1>2, <1>3

(* TryBodyRewrite and rewrite_do_while_body, over a whole list.            *)
LEMMA RewriteExits ==
    ASSUME NEW n \in Nat, n <= MaxDepth, NEW b \in Rust(n), NEW r, Walking(r)
    PROVE  RewritesWell(b, n, r)
<1> DEFINE P == {k \in Nat : k <= MaxDepth => \A c \in Rust(k) : \A q : Walking(q) => RewritesWell(c, k, q)}
<1>1. ASSUME NEW k \in Nat, \A l \in Nat : l < k => l \in P PROVE k \in P
  <2> SUFFICES ASSUME k <= MaxDepth, NEW c \in Rust(k), NEW q, Walking(q) PROVE RewritesWell(c, k, q)
    OBVIOUS
  <2>1. c \in Bodies /\ <<c, q>> \in Walks
    BY BodiesOf DEF Rust, Walks, Walking
  <2> DEFINE T(i) == RewriteStmt(c[i], q, RewrittenSubs(c[i], q, Rewritten))
             H(i) == HitsOf(c[i], q, HitsInside(c[i], q, HitsIn))
             s == [i \in DOMAIN c |-> T(i)]
  <2>2. Rewrite(c, q) = FlattenSeq(s)
    <3>1. Rewrite(c, q) = RewrittenStep(<<c, q>>, Rewritten)
      BY <2>1, RewrittenIs DEF Rewrite
    <3>2. <<c, q>>[1] = c /\ <<c, q>>[2] = q
      OBVIOUS
    <3> QED
      BY <3>1, <3>2, Zenon DEF RewrittenStep
  <2>3. Hits(c, q) = UNION {H(i) : i \in DOMAIN c}
    <3>1. Hits(c, q) = HitsStep(<<c, q>>, HitsIn)
      BY <2>1, HitsIs DEF Hits
    <3>2. <<c, q>>[1] = c /\ <<c, q>>[2] = q
      OBVIOUS
    <3> QED
      BY <3>1, <3>2, Zenon DEF HitsStep
  <2>4. CASE k = 0
    <3>1. c = <<>>
      BY <2>4, ListsOfAre DEF Rust
    <3>2. s \in [1 .. 0 -> Seq({})]
      BY <3>1
    <3>3. FlattenSeq(s) \in Seq({})
      BY <3>2, Flattened
    <3>4. Rewrite(c, q) = <<>>
      BY <2>2, <3>3
    <3>5. Exits[<<>>] = {}
      BY <2>1, <3>1, ExitsOfList
    <3> QED
      BY <2>4, <3>1, <3>4, <3>5 DEF RewritesWell
  <2>5. CASE k # 0
    <3>0. PICK p \in Nat : k = p + 1 /\ p < k /\ p <= MaxDepth /\ p + 1 <= MaxDepth
      <4>1. k - 1 \in Nat /\ k = (k - 1) + 1 /\ k - 1 < k /\ k - 1 <= MaxDepth
        BY <2>5, BoundsAssumption
      <4> QED
        BY <4>1
    <3>1. c \in Seq(RustNodes(p))
      BY <3>0, RustIs
    <3>2. ASSUME NEW i \in DOMAIN c
          PROVE  /\ T(i) \in Seq(RustNodes(p))
                 /\ \A l \in DOMAIN T(i) : \A e \in Leaves(T(i)[l]) : Remains(e, Leaves(c[i]), q, H(i))
      <4>1. c[i] \in RustNodes(p)
        BY <3>1
      <4>2. \A j \in DOMAIN c[i].subs : c[i].subs[j] \in Rust(p)
        <5>1. c[i].subs \in Seq(Rust(p))
          BY <4>1 DEF RustNodes, NodesOf, Nodes
        <5> QED
          BY <5>1
      <4>3. \A j \in DOMAIN c[i].subs : RewritesWell(c[i].subs[j], p, Inside(c[i], q))
        BY <1>1, <3>0, <4>2, AddedIsNotBare
      <4> HIDE DEF P
      <4> QED
        BY <3>0, <4>1, <4>3, RewriteStmtExits
    <3> DEFINE m == Len(c)
    <3>3. m \in Nat /\ DOMAIN c = 1 .. m
      BY <3>1
    <3> HIDE DEF T, H, m, P
    <3>4. s \in [1 .. m -> Seq(RustNodes(p))] /\ \A i \in 1 .. m : s[i] = T(i)
      BY <3>2, <3>3
    <3> HIDE DEF s
    <3>5. FlattenSeq(s) \in Rust(k)
      BY <3>0, <3>3, <3>4, FlattenedExits
    <3>6. ASSUME NEW e \in Exits[FlattenSeq(s)] PROVE Remains(e, Exits[c], q, Hits(c, q))
      <4>0. LeavesOneOf(e, s, m)
        BY <3>0, <3>3, <3>4, FlattenedExits
      <4>1. PICK i \in 1 .. m : \E l \in DOMAIN s[i] : e \in Leaves(s[i][l])
        BY <4>0 DEF LeavesOneOf
      <4>2. Remains(e, Leaves(c[i]), q, H(i))
        BY <3>2, <3>3, <3>4, <4>1
      <4>3. Leaves(c[i]) \subseteq Exits[c]
        BY <2>1, <3>3, ExitsOfList
      <4>4. H(i) \subseteq Hits(c, q)
        BY <2>3, <3>3
      <4> QED
        BY <4>2, <4>3, <4>4 DEF Remains
    <3> QED
      BY <2>2, <3>5, <3>6 DEF RewritesWell
  <2> QED
    BY <2>4, <2>5
<1>2. Nat \subseteq P
  <2> HIDE DEF P
  <2> QED
    BY <1>1, Numbers
<1> QED
  BY <1>2


(* A break or continue that a try is rewritten for left its block before,  *)
(* or something there is already wrong.                                    *)
MetBare(op, r, before) == r.depth = 0 /\ (Jump(op, "") \in before \/ Wrong \in before)

(* From the lists in a statement, to the statement. *)
LEMMA MetBareOutside ==
    ASSUME NEW x, NEW r \in Rules, NEW op \in {"break", "continue"}, NEW inside,
           MetBare(op, Inside(x, r), inside), x.op \notin {"switch", "defer"}
    PROVE  MetBare(op, r, Leaving(x, inside))
<1>1. x.op \notin Loops /\ r.depth = 0
  <2>1. r.depth \in Nat /\ r.depth + 1 # 0
    BY DEF Rules
  <2>2. Inside(x, r).depth = IF x.op \in Loops THEN r.depth + 1 ELSE r.depth
    BY InsideRules
  <2> QED
    BY <2>1, <2>2 DEF MetBare
<1>2. PICK e : e \in inside /\ (e = Jump(op, "") \/ e = Wrong)
  BY DEF MetBare
<1>3. Wrong \notin Bare /\ (\A l : Wrong # Jump("break", l)) /\ Jump(op, "") \in Bare
  BY DEF Wrong, Jump, Bare
<1>4. CASE x.op \in JumpOps
  BY <1>1, <1>2, <1>4, LeavingIs DEF MetBare
<1>5. CASE x.op = "match"
  BY <1>1, <1>2, <1>5, LeavingIs DEF MetBare
<1>6. CASE x.op = "block"
  <2>1. Wrong \in Leaving(x, inside)
    <3>1. CASE e = Wrong
      BY <1>2, <1>3, <1>6, <3>1, LeavingIs
    <3>2. CASE e = Jump(op, "")
      <4>1. inside \cap Bare # {}
        BY <1>2, <1>3, <3>2
      <4> QED
        BY <1>6, <4>1, LeavingIs
    <3> QED
      BY <1>2, <3>1, <3>2
  <2> QED
    BY <1>1, <2>1 DEF MetBare
<1>7. CASE x.op \notin JumpOps \cup {"match", "block"}
  <2>1. e \in Leaving(x, inside)
    BY <1>1, <1>2, <1>7, LeavingIs
  <2> QED
    BY <1>1, <1>2, <2>1 DEF MetBare
<1> QED
  BY <1>4, <1>5, <1>6, <1>7

LEMMA HitsBare ==
    ASSUME NEW n \in Nat, n <= MaxDepth, NEW b \in Rust(n), NEW r \in Rules, r.by = "try",
           NEW op \in {"break", "continue"}, op \in Hits(b, r)
    PROVE  MetBare(op, r, Exits[b])
<1> DEFINE P == {k \in Nat : k <= MaxDepth =>
                    \A c \in Rust(k) : \A q \in Rules :
                       q.by = "try" /\ op \in Hits(c, q) => MetBare(op, q, Exits[c])}
<1>1. ASSUME NEW k \in Nat, \A l \in Nat : l < k => l \in P PROVE k \in P
  <2> SUFFICES ASSUME k <= MaxDepth, NEW c \in Rust(k), NEW q \in Rules, q.by = "try", op \in Hits(c, q)
               PROVE  MetBare(op, q, Exits[c])
    OBVIOUS
  <2>1. c \in Bodies /\ <<c, q>> \in Walks
    BY BodiesOf DEF Rust, Walks
  <2>2. PICK i \in DOMAIN c : op \in HitsOf(c[i], q, HitsInside(c[i], q, HitsIn))
    <3>1. Hits(c, q) = HitsStep(<<c, q>>, HitsIn)
      BY <2>1, HitsIs DEF Hits
    <3>2. <<c, q>>[1] = c /\ <<c, q>>[2] = q
      OBVIOUS
    <3>3. Hits(c, q) = UNION {HitsOf(c[i], q, HitsInside(c[i], q, HitsIn)) : i \in DOMAIN c}
      BY <3>1, <3>2, Zenon DEF HitsStep
    <3> QED
      BY <3>3
  <2>3. PICK p \in Nat : k = p + 1 /\ p < k /\ p <= MaxDepth
    <3>1. k # 0
      BY ListsOfDown DEF Rust
    <3>2. k - 1 \in Nat /\ k = (k - 1) + 1 /\ k - 1 < k /\ k - 1 <= MaxDepth
      BY <3>1, BoundsAssumption
    <3> QED
      BY <3>2
  <2> DEFINE x == c[i]
  <2>4. x \in RustNodes(p)
    BY <2>3, RustIs
  <2>5. x.op # "switch" /\ \A j \in DOMAIN x.subs : x.subs[j] \in Rust(p)
    <3>1. x.op # "switch" /\ x.subs \in Seq(Rust(p))
      BY <2>4 DEF RustNodes, NodesOf, Nodes, Fits
    <3> QED
      BY <3>1
  <2>6. MetBare(op, q, Leaves(x))
    <3> HIDE DEF x
    <3>1. CASE Hit(x, q)
      <4>1. x.op = op
        BY <2>2, <3>1 DEF HitsOf, x
      <4>2. q.depth = 0 /\ x.label = ""
        BY <3>1, <4>1 DEF Hit
      <4>3. op \in JumpOps
        BY DEF JumpOps
      <4>4. Jump(op, "") \in Leaves(x)
        BY <4>1, <4>2, <4>3, LeavingIs DEF Leaves
      <4> QED
        BY <4>2, <4>4 DEF MetBare
    <3>2. CASE ~ Hit(x, q)
      <4>1. ~ Skips(x, q) /\ op \in HitsInside(x, q, HitsIn)
        BY <2>2, <3>2 DEF HitsOf, x
      <4>2. PICK j \in DOMAIN x.subs : op \in Hits(x.subs[j], Inside(x, q))
        BY <4>1 DEF HitsInside, Hits
      <4>3. Inside(x, q) \in Rules /\ Inside(x, q).by = "try"
        BY InsideRules
      <4>4. MetBare(op, Inside(x, q), Exits[x.subs[j]])
        BY <1>1, <2>3, <2>5, <4>2, <4>3
      <4>5. Exits[x.subs[j]] \subseteq InsideOf(x, Exits)
        BY DEF InsideOf
      <4>6. MetBare(op, Inside(x, q), InsideOf(x, Exits))
        BY <4>4, <4>5 DEF MetBare
      <4>7. x.op # "defer"
        BY <4>1 DEF Skips
      <4> HIDE DEF P
      <4> QED
        BY <2>5, <4>6, <4>7, MetBareOutside DEF Leaves
    <3> QED
      BY <3>1, <3>2
  <2>7. Leaves(x) \subseteq Exits[c]
    BY <2>1, ExitsOfList
  <2> QED
    BY <2>6, <2>7 DEF MetBare
<1>2. Nat \subseteq P
  <2> HIDE DEF P
  <2> QED
    BY <1>1, Numbers
<1> QED
  BY <1>2


-----------------------------------------------------------------------------
(* What is generated for a statement: a list with no jump out of it that   *)
(* is not among those given.                                               *)
Within(t, n, jumps) == t \in Seq(RustNodes(n)) /\ \A k \in DOMAIN t : Leaves(t[k]) \subseteq jumps

LEMMA RustGrow ==
    ASSUME NEW m \in Nat, NEW n \in Nat, m <= n
    PROVE  Rust(m) \subseteq Rust(n) /\ RustNodes(m) \subseteq RustNodes(n)
<1>1. Rust(m) \subseteq Rust(n)
  BY ListsOfGrow DEF Rust
<1> QED
  BY <1>1, NodesOfGrow DEF RustNodes

LEMMA WithinNone ==
    ASSUME NEW n, NEW jumps
    PROVE  Within(<<>>, n, jumps)
BY DEF Within

LEMMA WithinOne ==
    ASSUME NEW n, NEW jumps, NEW x \in RustNodes(n), Leaves(x) \subseteq jumps
    PROVE  Within(<<x>>, n, jumps)
BY DEF Within

LEMMA WithinTwo ==
    ASSUME NEW n, NEW jumps, NEW a, NEW b, Within(a, n, jumps), Within(b, n, jumps)
    PROVE  Within(a \o b, n, jumps)
<1>1. a \in Seq(RustNodes(n)) /\ b \in Seq(RustNodes(n)) /\ a \o b \in Seq(RustNodes(n))
  BY DEF Within
<1> DEFINE D == RustNodes(n)
<1> HIDE DEF D
<1>2. a \in Seq(D) /\ b \in Seq(D)
  BY <1>1 DEF D
<1>3. ASSUME NEW k \in DOMAIN (a \o b) PROVE Leaves((a \o b)[k]) \subseteq jumps
  <2>1. CASE k \in DOMAIN a
    <3>1. (a \o b)[k] = a[k]
      BY <1>2, <2>1
    <3> QED
      BY <2>1, <3>1 DEF Within
  <2>2. CASE k \notin DOMAIN a
    <3>1. k - Len(a) \in DOMAIN b /\ (a \o b)[k] = b[k - Len(a)]
      BY <1>2, <2>2
    <3> QED
      BY <3>1 DEF Within
  <2> QED
    BY <2>1, <2>2
<1> QED
  BY <1>1, <1>3 DEF Within

LEMMA WithinExits ==
    ASSUME NEW n \in Nat, n + 1 <= MaxDepth, NEW jumps, NEW t, Within(t, n, jumps)
    PROVE  t \in Rust(n + 1) /\ t \in Bodies /\ Exits[t] \subseteq jumps
<1>1. t \in Rust(n + 1)
  BY RustIs DEF Within
<1>2. t \in Bodies
  BY <1>1, BodiesOf DEF Rust
<1> QED
  BY <1>1, <1>2, ExitsOfList DEF Within

LEMMA WithinList ==
    ASSUME NEW m \in Nat, NEW n \in Nat, m <= n + 1, n + 1 <= MaxDepth,
           NEW b \in Rust(m), NEW jumps, Exits[b] \subseteq jumps
    PROVE  Within(b, n, jumps)
<1>1. b \in Rust(n + 1)
  BY RustGrow
<1>2. b \in Seq(RustNodes(n)) /\ b \in Bodies
  BY <1>1, RustIs, BodiesOf DEF Rust
<1> QED
  BY <1>2, ExitsOfList DEF Within

LEMMA WithinMore ==
    ASSUME NEW n, NEW A, NEW B, A \subseteq B, NEW t, Within(t, n, A)
    PROVE  Within(t, n, B)
BY DEF Within

(* A statement around one list. *)
LEMMA OneExits ==
    ASSUME NEW m \in Nat, NEW n \in Nat, m <= n, NEW b \in Rust(m),
           NEW op \in Ops, op # "switch", NEW l \in Labels,
           NEW x, x = Stmt(op, l, <<>>, <<b>>)
    PROVE  x \in RustNodes(n) /\ x.op = op /\ x.label = l /\ Leaves(x) = Leaving(x, Exits[b])
<1>1. x \in RustNodes(m)
  BY RustOne
<1>2. x.op = op /\ x.label = l /\ x.subs = <<b>>
  BY DEF Stmt
<1>3. InsideOf(x, Exits) = Exits[b]
  BY <1>2 DEF InsideOf
<1> QED
  BY <1>1, <1>2, <1>3, RustGrow DEF Leaves

(* A leaf, as a list. *)
LEMMA WithinLeaf ==
    ASSUME NEW n \in Nat, NEW op \in Ops, op \notin {"switch", "defer", "match", "block"}, NEW l \in Labels
    PROVE  Within(<<Leaf(op, l)>>, n, IF op \in JumpOps THEN {Jump(op, l)} ELSE {})
<1> DEFINE x == Leaf(op, l)
<1>1. x \in RustNodes(n)
  BY RustLeaf
<1>2. Leaves(x) \subseteq (IF op \in JumpOps THEN {Jump(op, l)} ELSE {})
  BY LeafExits
<1> HIDE DEF x
<1>3. Within(<<x>>, n, IF op \in JumpOps THEN {Jump(op, l)} ELSE {})
  BY <1>1, <1>2, WithinOne
<1> QED
  BY <1>3 DEF x


(* A jump under a condition or a flag. *)
LEMMA GuardedJump ==
    ASSUME NEW n \in Nat, n >= 1, n + 1 <= MaxDepth, NEW op \in {"unless", "ifSet"}, NEW v \in Labels,
           NEW jump \in {"break", "continue"}, NEW l \in Labels
    PROVE  Within(<<Stmt(op, v, <<>>, <<<<Leaf(jump, l)>>>>)>>, n, {Jump(jump, l)})
<1> DEFINE b == <<Leaf(jump, l)>>
           x == Stmt(op, v, <<>>, <<b>>)
<1>1. Within(b, 0, {Jump(jump, l)})
  <2>1. jump \in Ops /\ jump \in JumpOps /\ jump \notin {"switch", "defer", "match", "block"}
    BY DEF Ops, JumpOps
  <2>2. Within(b, 0, IF jump \in JumpOps THEN {Jump(jump, l)} ELSE {})
    BY <2>1, WithinLeaf
  <2> QED
    BY <2>1, <2>2
<1> HIDE DEF b
<1>2. 0 + 1 <= MaxDepth /\ 0 \in Nat /\ 1 \in Nat /\ 0 + 1 = 1
  BY BoundsAssumption
<1>3. b \in Rust(1) /\ Exits[b] \subseteq {Jump(jump, l)}
  BY <1>1, <1>2, WithinExits
<1>4. op \in Ops /\ op # "switch"
  BY DEF Ops
<1>5. x \in RustNodes(n) /\ x.op = op /\ Leaves(x) = Leaving(x, Exits[b])
  BY <1>2, <1>3, <1>4, OneExits
<1> HIDE DEF x
<1>6. op \notin JumpOps \cup Loops \cup {"switch", "block", "defer", "match"}
  BY DEF JumpOps, Loops
<1>7. Leaves(x) \subseteq {Jump(jump, l)}
  <2>1. \A e \in Leaving(x, Exits[b]) : e \in Exits[b]
    BY <1>5, <1>6, LeavingIs
  <2> QED
    BY <1>3, <1>5, <2>1
<1>8. Within(<<x>>, n, {Jump(jump, l)})
  BY <1>5, <1>7, WithinOne
<1> QED
  BY <1>8 DEF x, b

(* A loop the translation makes: what leaves its body, but for the jumps   *)
(* that are its own.                                                       *)
LEMMA LoopExits ==
    ASSUME NEW m \in Nat, m + 1 <= MaxDepth, NEW l \in Labels, NEW jumps,
           NEW b, Within(b, m, jumps), m + 2 <= MaxDepth
    PROVE  Within(<<Loop("loop", l, b)>>, m + 1,
                  {e \in jumps : e \notin Bare /\ e # Jump("break", l) /\ e # Jump("continue", l)})
<1> DEFINE x == Loop("loop", l, b)
<1>1. b \in Rust(m + 1) /\ Exits[b] \subseteq jumps
  BY WithinExits
<1>2. "loop" \in Ops /\ "loop" # "switch" /\ "loop" \in Loops
  BY DEF Ops, Loops
<1>3. x \in RustNodes(m + 1) /\ x.op = "loop" /\ x.label = l /\ Leaves(x) = Leaving(x, Exits[b])
  BY <1>1, <1>2, OneExits DEF Loop
<1> HIDE DEF x
<1>4. ASSUME NEW e \in Leaves(x)
      PROVE  e \in jumps /\ e \notin Bare /\ e # Jump("break", l) /\ e # Jump("continue", l)
  <2>1. e \in Leaving(x, Exits[b])
    BY <1>3
  <2> QED
    BY <1>1, <1>2, <1>3, <2>1, LeavingIs
<1>5. Within(<<x>>, m + 1, {e \in jumps : e \notin Bare /\ e # Jump("break", l) /\ e # Jump("continue", l)})
  <2>1. Leaves(x) \subseteq {e \in jumps : e \notin Bare /\ e # Jump("break", l) /\ e # Jump("continue", l)}
    BY <1>4
  <2> QED
    BY <1>3, <2>1, WithinOne
<1> QED
  BY <1>5 DEF x

(* A labeled block of its own, with no bare jump left in it. *)
LEMMA BlockExits ==
    ASSUME NEW m \in Nat, NEW n \in Nat, m <= n, NEW l \in Labels, NEW b \in Rust(m), NEW jumps,
           \A e \in Exits[b] : e = Jump("break", l) \/ (e \in jumps /\ e \notin Bare),
           Jump("break", l) \notin Bare
    PROVE  Within(<<Block(l, b)>>, n, {e \in jumps : e \notin Bare})
<1> DEFINE x == Block(l, b)
<1>1. "block" \in Ops /\ "block" # "switch"
  BY DEF Ops
<1>2. x \in RustNodes(n) /\ x.op = "block" /\ x.label = l /\ Leaves(x) = Leaving(x, Exits[b])
  BY <1>1, OneExits DEF Block
<1> HIDE DEF x
<1>3. Exits[b] \cap Bare = {}
  OBVIOUS
<1>4. ASSUME NEW e \in Leaves(x) PROVE e \in {f \in jumps : f \notin Bare}
  <2>1. e \in Leaving(x, Exits[b])
    BY <1>2
  <2>2. e \in Exits[b] /\ e # Jump("break", l)
    BY <1>2, <1>3, <2>1, LeavingIs
  <2> QED
    BY <2>2
<1>5. Within(<<x>>, n, {e \in jumps : e \notin Bare})
  BY <1>2, <1>4, WithinOne
<1> QED
  BY <1>5 DEF x

(* convert_for_stmt_as_loop *)
LEMMA LowerForExits ==
    ASSUME NEW m \in Nat, m + 3 <= MaxDepth, NEW b \in Rust(m), NEW inside, Exits[b] \subseteq inside
    PROVE  Within(LowerFor(b), m + 2, {e \in inside : e \notin Bare})
<1> DEFINE own == inside \cup {Jump("break", "")}
           first == <<Unless(<<Break("")>>)>>
           last == <<Mark("update")>>
           t == first \o b \o last
           rest == {e \in own : e \notin Bare /\ e # Jump("break", "") /\ e # Jump("continue", "")}
<1>0. m + 1 \in Nat /\ m + 1 >= 1 /\ (m + 1) + 1 <= MaxDepth /\ (m + 1) + 2 <= MaxDepth /\ (m + 1) + 1 = m + 2
        /\ m <= (m + 1) + 1
  <2>1. MaxDepth \in Nat
    BY BoundsAssumption
  <2>2. m + 1 \in Nat /\ m + 1 >= 1 /\ (m + 1) + 1 = m + 2 /\ m <= (m + 1) + 1 /\ (m + 1) + 2 = m + 3
    OBVIOUS
  <2>3. m + 2 \in Nat /\ m + 3 \in Nat /\ m + 2 <= m + 3
    OBVIOUS
  <2>4. m + 2 <= MaxDepth
    BY <2>1, <2>3
  <2> QED
    BY <2>2, <2>4
<1>1. Within(first, m + 1, own)
  <2>1. "unless" \in {"unless", "ifSet"} /\ "break" \in {"break", "continue"} /\ "" \in Labels
    BY DEF Labels
  <2>2. Within(first, m + 1, {Jump("break", "")})
    BY <1>0, <2>1, GuardedJump DEF Unless, Break
  <2> QED
    BY <2>2, WithinMore
<1>2. Within(b, m + 1, own)
  <2>1. Exits[b] \subseteq own
    OBVIOUS
  <2> HIDE DEF own
  <2> QED
    BY <1>0, <2>1, WithinList
<1>3. Within(last, m + 1, own)
  <2>1. "mark" \in Ops /\ "mark" \notin {"switch", "defer", "match", "block"} /\ "mark" \notin JumpOps
          /\ "update" \in Labels
    BY DEF Ops, JumpOps, Labels
  <2>2. Within(last, m + 1, {})
    BY <1>0, <2>1, WithinLeaf DEF Mark
  <2>3. {} \subseteq own
    OBVIOUS
  <2> HIDE DEF own, last
  <2> QED
    BY <2>2, <2>3, WithinMore
<1> HIDE DEF own, first, last
<1>4. Within(t, m + 1, own)
  BY <1>1, <1>2, <1>3, WithinTwo
<1> HIDE DEF t
<1>5. Within(<<Loop("loop", "", t)>>, (m + 1) + 1, rest)
  <2>1. "" \in Labels
    BY DEF Labels
  <2> QED
    BY <1>0, <1>4, <2>1, LoopExits
<1>6. rest \subseteq {e \in inside : e \notin Bare}
  BY DEF own
<1> HIDE DEF rest
<1>7. Within(<<Loop("loop", "", t)>>, m + 2, {e \in inside : e \notin Bare})
  BY <1>0, <1>5, <1>6, WithinMore
<1> QED
  BY <1>7 DEF LowerFor, t, first, last


LEMMA Pair ==
    ASSUME NEW a, NEW b
    PROVE  <<a>> \o <<b>> = <<a, b>>
<1>1. <<a>> \in Seq({a, b}) /\ b \in {a, b}
  OBVIOUS
<1>2. Append(<<a>>, b) = <<a>> \o <<b>>
  BY <1>1, AppendIsConcat
<1>3. Append(<<a>>, b) = <<a, b>>
  <2> DEFINE s == Append(<<a>>, b)
             t == <<a, b>>
  <2>1. s \in Seq({a, b}) /\ Len(s) = 2 /\ s[1] = a /\ s[2] = b
    BY <1>1, AppendProperties
  <2>2. t \in Seq({a, b}) /\ Len(t) = 2 /\ t[1] = a /\ t[2] = b
    OBVIOUS
  <2> HIDE DEF s, t
  <2>3. \A i \in 1 .. Len(s) : s[i] = t[i]
    BY <2>1, <2>2
  <2>4. s = t
    BY <2>1, <2>2, <2>3, SeqEqual
  <2> QED
    BY <2>4 DEF s, t
<1> QED
  BY <1>2, <1>3

(* convert_do_while_stmt *)
LEMMA LowerDoWhileExits ==
    ASSUME NEW m \in Nat, m + 3 <= MaxDepth, NEW b \in Rust(m), NEW inside, Exits[b] \subseteq inside,
           NEW x, NEW l \in Labels, l = x.label
    PROVE  Within(LowerDoWhile(x, b), m + 2,
                  {e \in inside : e \notin Bare /\ e # Jump("break", l) /\ e # Jump("continue", l)})
<1> DEFINE loop == IF l = "" THEN DoWhileLoop ELSE l
           r == Rule("doWhile", l, loop)
           until(k) == <<Unless(<<Break(k)>>)>>
           Escapes(E, k) == {e \in E : e \notin Bare /\ e # Jump("break", k) /\ e # Jump("continue", k)}
<1>0. m + 1 \in Nat /\ m + 1 >= 1 /\ (m + 1) + 1 <= MaxDepth /\ (m + 1) + 2 <= MaxDepth /\ (m + 1) + 1 = m + 2
        /\ m <= (m + 1) + 1 /\ m <= m + 1 /\ m <= MaxDepth
  <2>1. MaxDepth \in Nat
    BY BoundsAssumption
  <2> QED
    BY <2>1
<1>1. loop \in Labels /\ loop # "" /\ "" \in Labels
  BY DEF Labels, DoWhileLoop
<1>2. ASSUME NEW k \in Labels PROVE Within(until(k), m + 1, {Jump("break", k)})
  <2>1. "unless" \in {"unless", "ifSet"} /\ "break" \in {"break", "continue"}
    OBVIOUS
  <2> QED
    BY <1>0, <1>1, <2>1, GuardedJump DEF Unless, Break
<1>3. Walking(r) /\ r.by = "doWhile" /\ r.depth = 0 /\ r.loop = loop
  <2> HIDE DEF loop
  <2> QED
    BY <1>1 DEF Walking, Rules, Rule
<1> HIDE DEF until
<1>4. CASE "continue" \in Hits(b, r)
  <2> DEFINE c == Rewrite(b, r)
             own == {e \in inside : e \notin Bare} \cup {Jump("break", loop)}
             t == <<Block(DoWhileBlock, c)>> \o until(loop)
  <2>1. c \in Rust(m) /\ \A e \in Exits[c] : Remains(e, Exits[b], r, Hits(b, r))
    BY <1>0, <1>3, RewriteExits DEF RewritesWell
  <2>2. Gone(r) = Bare /\ Added(r) = {Jump("break", DoWhileBlock), Jump("break", loop)}
    BY <1>3 DEF Gone, Added
  <2>3. Added(r) \cap Bare = {}
    BY <1>3, AddedIsNotBare
  <2>4. \A e \in Exits[c] : e = Jump("break", DoWhileBlock) \/ (e \in own /\ e \notin Bare)
    BY <2>1, <2>2, <2>3 DEF Remains
  <2>5. DoWhileBlock \in Labels /\ Jump("break", DoWhileBlock) \notin Bare
    BY <2>2, <2>3 DEF Labels
  <2>6. \A e \in {f \in own : f \notin Bare} : e \in own
    OBVIOUS
  <2> HIDE DEF r, loop, c, own
  <2>7. Within(<<Block(DoWhileBlock, c)>>, m + 1, own)
    <3>1. Within(<<Block(DoWhileBlock, c)>>, m + 1, {e \in own : e \notin Bare})
      BY <1>0, <2>1, <2>4, <2>5, BlockExits
    <3> QED
      BY <2>6, <3>1, WithinMore
  <2>8. Within(until(loop), m + 1, own)
    <3>1. {Jump("break", loop)} \subseteq own
      BY DEF own
    <3> QED
      BY <1>1, <1>2, <3>1, WithinMore
  <2>9. Within(t, m + 1, own)
    BY <2>7, <2>8, WithinTwo
  <2> HIDE DEF t
  <2>10. Within(<<Loop("loop", loop, t)>>, (m + 1) + 1, Escapes(own, loop))
    BY <1>0, <1>1, <2>9, LoopExits
  <2>11. Escapes(own, loop) \subseteq Escapes(inside, l)
    <3>1. l # "" => l = loop
      BY DEF loop
    <3>2. l = "" => Jump("break", l) \in Bare /\ Jump("continue", l) \in Bare
      BY DEF Bare
    <3> QED
      BY <3>1, <3>2 DEF own
  <2>12. LowerDoWhile(x, b) = <<Loop("loop", loop, t)>>
    <3>1. t = <<Block(DoWhileBlock, c), Unless(<<Break(loop)>>)>>
      <4> DEFINE u == Unless(<<Break(loop)>>)
                 v == Block(DoWhileBlock, c)
      <4>1. t = <<v>> \o <<u>>
        BY DEF t, until
      <4> HIDE DEF u, v
      <4>2. <<v>> \o <<u>> = <<v, u>>
        BY Pair
      <4> QED
        BY <4>1, <4>2 DEF u, v
    <3> QED
      BY <1>4, <3>1 DEF LowerDoWhile, r, loop, c
  <2> HIDE DEF Escapes
  <2>13. Within(<<Loop("loop", loop, t)>>, m + 2, Escapes(inside, l))
    BY <1>0, <2>10, <2>11, WithinMore
  <2> QED
    BY <2>12, <2>13 DEF Escapes
<1>5. CASE ~ ("continue" \in Hits(b, r))
  <2> DEFINE own == inside \cup {Jump("break", "")}
             t == b \o until("")
  <2>1. Exits[b] \subseteq own /\ {Jump("break", "")} \subseteq own
    OBVIOUS
  <2>2. Escapes(own, l) \subseteq Escapes(inside, l)
    BY DEF Bare
  <2> HIDE DEF own, r, loop
  <2>3. Within(b, m + 1, own)
    BY <1>0, <2>1, WithinList
  <2>4. Within(until(""), m + 1, own)
    BY <1>1, <1>2, <2>1, WithinMore
  <2>5. Within(t, m + 1, own)
    BY <2>3, <2>4, WithinTwo
  <2>6. LowerDoWhile(x, b) = <<Loop("loop", l, t)>>
    <3>1. b \in Seq(RustNodes(m + 1))
      BY <2>3 DEF Within
    <3>2. t = Append(b, Unless(<<Break("")>>))
      <4> DEFINE u == Unless(<<Break("")>>)
                 D == RustNodes(m + 1)
      <4>1. t = b \o <<u>> /\ b \in Seq(D)
        BY <3>1 DEF until
      <4> HIDE DEF u, D, t
      <4>2. t = Append(b, u)
        BY <4>1
      <4> QED
        BY <4>2 DEF u
    <3> QED
      BY <1>5, <3>2 DEF LowerDoWhile, r, loop
  <2> HIDE DEF t
  <2>7. Within(<<Loop("loop", l, t)>>, (m + 1) + 1, Escapes(own, l))
    BY <1>0, <2>5, LoopExits
  <2> HIDE DEF Escapes
  <2>8. Within(<<Loop("loop", l, t)>>, m + 2, Escapes(inside, l))
    BY <1>0, <2>2, <2>7, WithinMore
  <2> QED
    BY <2>6, <2>8 DEF Escapes
<1> QED
  BY <1>4, <1>5


(* convert_try_stmt: the flags re-issue, after the block, what its          *)
(* rewriting took out of it.                                               *)
LEMMA LowerTryExits ==
    ASSUME NEW m \in Nat, m + 3 <= MaxDepth, NEW b \in Rust(m), NEW catch \in Rust(m), NEW finally \in Rust(m),
           NEW inside, Exits[b] \subseteq inside, Exits[catch] \subseteq inside, Wrong \notin inside,
           NEW x, Finalized(x) => Exits[finally] = {}
    PROVE  Within(LowerTry(x, b, catch, finally), m + 2, inside)
<1> DEFINE guard  == IF Finalized(x) THEN <<Defer(finally)>> ELSE <<>>
           hits   == Hits(b, TryRule)
           expand == Rewrite(b, TryRule)
           flag(op, stmt) == IF op \in hits THEN <<stmt>> ELSE <<>>
           W(t) == Within(t, m + 2, inside)
<1>0. m + 2 \in Nat /\ m + 2 >= 1 /\ m <= m + 2 /\ m <= (m + 2) + 1 /\ (m + 2) + 1 <= MaxDepth /\ m <= MaxDepth
  <2>1. MaxDepth \in Nat
    BY BoundsAssumption
  <2> QED
    BY <2>1
<1>1. TryRule \in Rules /\ TryRule.by = "try" /\ TryRule.depth = 0 /\ Walking(TryRule)
        /\ Gone(TryRule) = Bare /\ Added(TryRule) = {Jump("break", TryBlock)}
  BY DEF TryRule, Rule, Rules, Labels, Walking, Gone, Added
<1>2. "" \in Labels /\ TryBlock \in Labels /\ Variables \subseteq Labels
  BY DEF Labels
<1>3. W(guard)
  <2>1. CASE Finalized(x)
    <3> DEFINE y == Defer(finally)
    <3>1. "defer" \in Ops /\ "defer" # "switch"
      BY DEF Ops
    <3>0. y = Stmt("defer", "", <<>>, <<finally>>)
      BY DEF Defer
    <3> HIDE DEF y
    <3>2. y \in RustNodes(m + 2) /\ y.op = "defer" /\ Leaves(y) = Leaving(y, Exits[finally])
      <4> DEFINE n == m + 2
                 op == "defer"
                 l == ""
      <4>1. n \in Nat /\ m <= n /\ op \in Ops /\ op # "switch" /\ l \in Labels /\ y = Stmt(op, l, <<>>, <<finally>>)
        BY <1>0, <1>2, <3>0, <3>1
      <4> HIDE DEF n, op, l
      <4>2. y \in RustNodes(n) /\ y.op = op /\ Leaves(y) = Leaving(y, Exits[finally])
        BY <4>1, OneExits
      <4> QED
        BY <4>2 DEF n, op
    <3>3. Leaves(y) \subseteq inside
      <4>1. ASSUME NEW e \in Leaves(y) PROVE FALSE
        <5>1. e \in Leaving(y, Exits[finally])
          BY <3>2
        <5> QED
          BY <2>1, <3>2, <5>1, LeavingIs
      <4> QED
        BY <4>1
    <3>4. W(<<y>>)
      BY <3>2, <3>3, WithinOne
    <3>5. guard = <<y>>
      BY <2>1 DEF y
    <3> HIDE DEF guard
    <3> QED
      BY <3>4, <3>5
  <2>2. CASE ~ Finalized(x)
    BY <2>2, WithinNone
  <2> QED
    BY <2>1, <2>2
<1>4. expand \in Rust(m) /\ \A e \in Exits[expand] : Remains(e, Exits[b], TryRule, hits)
  BY <1>0, <1>1, RewriteExits DEF RewritesWell
<1>5. ASSUME NEW op \in {"break", "continue"}, op \in hits PROVE Jump(op, "") \in inside
  <2>1. MetBare(op, TryRule, Exits[b])
    BY <1>0, <1>1, <1>5, HitsBare
  <2> QED
    BY <2>1 DEF MetBare
<1> HIDE DEF guard, W
<1>6. CASE ~ Handled(x)
  <2>1. W(b)
    BY <1>0, WithinList DEF W
  <2>2. W(guard \o b)
    BY <1>3, <2>1, WithinTwo DEF W
  <2>3. LowerTry(x, b, catch, finally) = guard \o b
    BY <1>6 DEF LowerTry, guard
  <2> QED
    BY <2>2, <2>3 DEF W
<1>7. CASE Handled(x) /\ EndsWithReturn[expand] /\ hits = {}
  <2>1. Exits[expand] \subseteq inside
    BY <1>4, <1>7 DEF Remains
  <2> HIDE DEF expand
  <2>2. W(expand)
    BY <1>0, <1>4, <2>1, WithinList DEF W
  <2>3. W(guard \o expand)
    BY <1>3, <2>2, WithinTwo DEF W
  <2>4. LowerTry(x, b, catch, finally) = guard \o expand
    BY <1>7 DEF LowerTry, guard, expand
  <2> QED
    BY <2>3, <2>4 DEF W
<1>8. CASE Handled(x) /\ ~ (EndsWithReturn[expand] /\ hits = {})
  <2>1. ASSUME NEW v \in Variables PROVE W(<<Let(v)>>)
    <3>1. "let" \in Ops /\ "let" \notin {"switch", "defer", "match", "block"} /\ "let" \notin JumpOps
            /\ v \in Labels
      BY <1>2 DEF Ops, JumpOps
    <3>2. Within(<<Leaf("let", v)>>, m + 2, {})
      BY <1>0, <3>1, WithinLeaf
    <3> QED
      BY <3>2, WithinMore DEF W, Let
  <2>2. ASSUME NEW op \in {"break", "continue"}, NEW v \in Variables
        PROVE  W(flag(op, Let(v))) /\ W(flag(op, IfSet(v, <<Leaf(op, "")>>)))
    <3>1. CASE op \in hits
      <4>1. Within(<<Stmt("ifSet", v, <<>>, <<<<Leaf(op, "")>>>>)>>, m + 2, {Jump(op, "")})
        BY <1>0, <1>2, GuardedJump
      <4>2. {Jump(op, "")} \subseteq inside
        BY <1>5, <3>1
      <4>3. W(<<IfSet(v, <<Leaf(op, "")>>)>>)
        BY <4>1, <4>2, WithinMore DEF W, IfSet
      <4> QED
        BY <2>1, <3>1, <4>3
    <3>2. CASE op \notin hits
      BY <3>2, WithinNone DEF W
    <3> QED
      BY <3>1, <3>2
  <2>3. W(<<Block(TryBlock, expand)>>)
    <3>1. Jump("break", TryBlock) \notin Bare
      BY <1>1, AddedIsNotBare
    <3>2. \A e \in Exits[expand] : e = Jump("break", TryBlock) \/ (e \in inside /\ e \notin Bare)
      BY <1>1, <1>4 DEF Remains
    <3> HIDE DEF expand
    <3>3. Within(<<Block(TryBlock, expand)>>, m + 2, {e \in inside : e \notin Bare})
      BY <1>0, <1>2, <1>4, <3>1, <3>2, BlockExits
    <3>4. {e \in inside : e \notin Bare} \subseteq inside
      OBVIOUS
    <3> QED
      BY <3>3, <3>4, WithinMore DEF W
  <2>4. W(<<IfSet("_try_result", catch)>>)
    <3> DEFINE y == IfSet("_try_result", catch)
    <3>1. "ifSet" \in Ops /\ "ifSet" # "switch" /\ "_try_result" \in Labels
            /\ "ifSet" \notin JumpOps \cup Loops \cup {"switch", "block", "defer", "match"}
      BY <1>2 DEF Ops, Variables, JumpOps, Loops
    <3>2. y \in RustNodes(m + 2) /\ y.op = "ifSet" /\ Leaves(y) = Leaving(y, Exits[catch])
      BY <1>0, <3>1, OneExits DEF IfSet
    <3> HIDE DEF y
    <3>3. Leaves(y) \subseteq inside
      <4>1. ASSUME NEW e \in Leaves(y) PROVE e \in inside
        <5>1. e \in Leaving(y, Exits[catch])
          BY <3>2
        <5>2. e \in Exits[catch]
          <6>1. y.op \notin JumpOps \cup Loops \cup {"switch", "block", "defer", "match"}
            BY <3>1, <3>2
          <6> QED
            BY <5>1, <6>1, LeavingIs
        <5> QED
          BY <5>2
      <4> QED
        BY <4>1
    <3>4. W(<<y>>)
      BY <3>2, <3>3, WithinOne DEF W
    <3> QED
      BY <3>4 DEF y
  <2> DEFINE end == IF EndsWithReturn[expand] /\ EndsWithReturn[catch] THEN <<Unreachable>> ELSE <<>>
  <2>5. W(end)
    <3>1. "unreachable" \in Ops /\ "unreachable" \notin {"switch", "defer", "match", "block"}
            /\ "unreachable" \notin JumpOps
      BY DEF Ops, JumpOps
    <3>2. Within(<<Leaf("unreachable", "")>>, m + 2, {})
      BY <1>0, <1>2, <3>1, WithinLeaf
    <3>3. W(<<Unreachable>>)
      BY <3>2, WithinMore DEF W, Unreachable
    <3> QED
      BY <3>3, WithinNone DEF W
  <2> DEFINE s1 == <<Let("_try_result")>>
             s2 == flag("break", Let("_try_break"))
             s3 == flag("continue", Let("_try_continue"))
             s4 == <<Block(TryBlock, expand)>>
             s5 == flag("break", IfSet("_try_break", <<Break("")>>))
             s6 == flag("continue", IfSet("_try_continue", <<Continue("")>>))
             s7 == <<IfSet("_try_result", catch)>>
  <2>6. {"_try_result", "_try_break", "_try_continue"} \subseteq Variables
    BY DEF Variables
  <2>7. W(s1) /\ W(s2) /\ W(s3) /\ W(s4) /\ W(s5) /\ W(s6) /\ W(s7)
    BY <2>1, <2>2, <2>3, <2>4, <2>6 DEF Break, Continue
  <2>8. LowerTry(x, b, catch, finally)
          = guard \o s1 \o s2 \o s3 \o s4 \o s5 \o s6 \o s7 \o end
    BY <1>8 DEF LowerTry, guard
  <2> HIDE DEF s1, s2, s3, s4, s5, s6, s7, end
  <2>9. ASSUME NEW s, NEW t, W(s), W(t) PROVE W(s \o t)
    BY <2>9, WithinTwo DEF W
  <2>10. W(guard \o s1 \o s2 \o s3)
    BY <1>3, <2>7, <2>9
  <2>11. W(guard \o s1 \o s2 \o s3 \o s4 \o s5)
    BY <2>7, <2>9, <2>10
  <2>12. W(guard \o s1 \o s2 \o s3 \o s4 \o s5 \o s6 \o s7 \o end)
    BY <2>5, <2>7, <2>9, <2>11
  <2> QED
    BY <2>8, <2>12 DEF W
<1> QED
  BY <1>6, <1>7, <1>8


-----------------------------------------------------------------------------
(* The statements in a list. *)
LEMMA StmtsInIs ==
    ASSUME NEW ss \in Bodies, NEW i \in DOMAIN ss
    PROVE  ss[i] \in StmtsIn(ss) /\ \A j \in DOMAIN ss[i].subs : StmtsIn(ss[i].subs[j]) \subseteq StmtsIn(ss)
<1>1. ListsIn[ss] = {ss} \cup UNION {InsideOf(ss[k], ListsIn) : k \in DOMAIN ss}
  BY ListsInIs DEF ListsInStep
<1>2. ss[i] \in StmtsIn(ss)
  <2>1. ss \in ListsIn[ss] /\ ss[i] \in ToSet(ss)
    BY <1>1 DEF ToSet
  <2> QED
    BY <2>1 DEF StmtsIn
<1>3. ASSUME NEW j \in DOMAIN ss[i].subs PROVE StmtsIn(ss[i].subs[j]) \subseteq StmtsIn(ss)
  <2>1. ListsIn[ss[i].subs[j]] \subseteq InsideOf(ss[i], ListsIn)
    BY DEF InsideOf
  <2>2. ListsIn[ss[i].subs[j]] \subseteq ListsIn[ss]
    BY <1>1, <2>1
  <2> QED
    BY <2>2 DEF StmtsIn
<1> QED
  BY <1>2, <1>3

(* No switch, and nothing but marks in a finally. *)
IsPlain(x) == x.op # "switch" /\ (Finalized(x) => \A y \in StmtsIn(x.subs[3]) : y.op = "mark")
Plain(ss) == \A x \in StmtsIn(ss) : IsPlain(x)

(* Nothing leaves a list of marks. *)
LEMMA MarksExits ==
    ASSUME NEW n \in Nat, n <= MaxDepth, NEW c \in ListsOf[n]["source"], \A y \in StmtsIn(c) : y.op = "mark"
    PROVE  Exits[c] = {}
<1>1. c \in Bodies
  BY BodiesOf
<1>2. ASSUME NEW k \in DOMAIN c PROVE Leaves(c[k]) = {}
  <2> DEFINE x == c[k]
  <2>1. x.op = "mark"
    BY <1>1, StmtsInIs
  <2>2. x.subs = <<>>
    <3>1. x \in NodesOf("source", ListsOf[n - 1]["source"])
      BY ListsOfDown
    <3> QED
      BY <2>1, <3>1 DEF NodesOf, Fits, Source
  <2> HIDE DEF x
  <2>3. InsideOf(x, Exits) = {}
    BY <2>2 DEF InsideOf
  <2>4. x.op \notin JumpOps \cup Loops \cup {"switch", "block", "defer", "match"}
    BY <2>1 DEF JumpOps, Loops
  <2>5. ASSUME NEW e \in Leaves(x) PROVE FALSE
    <3>1. e \in Leaving(x, {})
      BY <2>3, <2>5 DEF Leaves
    <3> QED
      BY <2>4, <3>1, LeavingOther
  <2>6. Leaves(x) = {}
    BY <2>5
  <2> QED
    BY <2>6 DEF x
<1> QED
  BY <1>1, <1>2, ExitsOfList

(* The same statement, around less. *)
LEMMA LeavingSame ==
    ASSUME NEW x, NEW y, y.op = x.op, y.label = x.label, x.op \notin {"switch", "block", "defer", "match"},
           NEW I, NEW J, I \subseteq J
    PROVE  Leaving(y, I) \subseteq Leaving(x, J)
<1> SUFFICES ASSUME NEW e \in Leaving(y, I) PROVE e \in Leaving(x, J)
  OBVIOUS
<1>1. CASE x.op \in JumpOps
  <2>1. e \in I \/ e = Jump(y.op, y.label)
    BY <1>1, LeavingIs
  <2> QED
    BY <1>1, <2>1, LeavingIs
<1>2. CASE x.op \in Loops
  <2>1. e \in I /\ e \notin Bare /\ e # Jump("break", y.label) /\ e # Jump("continue", y.label)
    BY <1>2, LeavingIs
  <2> QED
    BY <1>2, <2>1, LeavingIs
<1>3. CASE x.op \notin JumpOps \cup Loops
  <2>1. x.op \notin JumpOps \cup Loops \cup {"switch", "block", "defer", "match"}
    BY <1>3
  <2>2. Leaving(x, J) = J /\ Leaving(y, I) = I
    BY <2>1, LeavingOther
  <2> QED
    BY <2>2
<1> QED
  BY <1>1, <1>2, <1>3

(* A statement that stays one, around what its lists become. *)
LEMMA KeptExits ==
    ASSUME NEW m \in Nat, NEW n \in Nat, m <= n, NEW lists, NEW x \in Nodes(lists),
           x.op \notin {"switch", "block", "defer", "match"},
           NEW g, DOMAIN g = DOMAIN x.subs,
           \A j \in DOMAIN x.subs : g[j] \in Rust(m) /\ Exits[g[j]] \subseteq Exits[x.subs[j]],
           NEW y, y = [x EXCEPT !.subs = [j \in DOMAIN x.subs |-> g[j]]]
    PROVE  Within(<<y>>, n, Leaves(x))
<1>1. y.op = x.op /\ y.label = x.label /\ y.tests = x.tests /\ y.subs = [j \in DOMAIN x.subs |-> g[j]]
  BY DEF Nodes
<1>2. [j \in DOMAIN x.subs |-> g[j]] \in Seq(Rust(m))
  <2>1. PICK k \in Nat : DOMAIN x.subs = 1 .. k
    BY DEF Nodes
  <2>2. [j \in DOMAIN x.subs |-> g[j]] \in [1 .. k -> Rust(m)]
    BY <2>1
  <2> QED
    BY <2>2
<1>3. y \in RustNodes(n)
  <2>1. y \in Nodes(Rust(m))
    BY <1>2 DEF Nodes
  <2>2. y \in RustNodes(m)
    BY <1>1, <2>1 DEF RustNodes, NodesOf, Fits
  <2> QED
    BY <2>2, RustGrow
<1>4. InsideOf(y, Exits) \subseteq InsideOf(x, Exits)
  <2>1. ASSUME NEW e \in InsideOf(y, Exits) PROVE e \in InsideOf(x, Exits)
    <3>1. PICK j \in DOMAIN y.subs : e \in Exits[y.subs[j]]
      BY DEF InsideOf
    <3>2. j \in DOMAIN x.subs /\ y.subs[j] = g[j]
      BY <1>1, <3>1, Zenon
    <3>3. e \in Exits[x.subs[j]]
      BY <3>1, <3>2
    <3> QED
      BY <3>2, <3>3 DEF InsideOf
  <2> QED
    BY <2>1
<1>5. ASSUME NEW e \in Leaves(y) PROVE e \in Leaves(x)
  <2> DEFINE I == InsideOf(y, Exits)
             J == InsideOf(x, Exits)
  <2>1. e \in Leaving(y, I) /\ I \subseteq J
    BY <1>4, <1>5 DEF Leaves
  <2>2. SUFFICES e \in Leaving(x, J)
    BY DEF Leaves
  <2> HIDE DEF I, J
  <2> QED
    BY <1>1, <2>1, LeavingSame
<1> QED
  BY <1>3, <1>5, WithinOne


(* convert_stmt, of a plain statement. *)
LEMMA LowerStmtExits ==
    ASSUME NEW m \in Nat, m + 3 <= MaxDepth, NEW n \in Nat, n <= MaxDepth,
           NEW x \in NodesOf("source", ListsOf[n]["source"]), IsPlain(x), Wrong \notin Leaves(x),
           NEW lowered,
           \A j \in DOMAIN x.subs :
              FlattenSeq(lowered[j]) \in Rust(m) /\ Exits[FlattenSeq(lowered[j])] \subseteq Exits[x.subs[j]]
    PROVE  Within(LowerStmt(x, lowered), m + 2, Leaves(x))
<1> DEFINE sub(j) == FlattenSeq(lowered[j])
           I == InsideOf(x, Exits)
<1>0. m + 2 \in Nat /\ m <= m + 2 /\ m <= (m + 2) + 1 /\ (m + 2) + 1 <= MaxDepth
  <2>1. MaxDepth \in Nat
    BY BoundsAssumption
  <2> QED
    BY <2>1
<1>1. x \in Nodes(ListsOf[n]["source"]) /\ Source(x) /\ x.op # "switch" /\ x.label \in Labels
        /\ x.subs \in Seq(ListsOf[n]["source"]) /\ Leaves(x) = Leaving(x, I)
  BY DEF NodesOf, Fits, Nodes, IsPlain, Leaves
<1>2. ASSUME NEW j \in DOMAIN x.subs PROVE sub(j) \in Rust(m) /\ Exits[sub(j)] \subseteq I
  BY DEF InsideOf
<1> HIDE DEF sub, I
<1>3. CASE x.op = "braces"
  <2>1. 1 \in DOMAIN x.subs
    BY <1>1, <1>3 DEF Source
  <2>2. x.op \notin JumpOps \cup Loops \cup {"switch", "block", "defer", "match"}
    BY <1>3 DEF JumpOps, Loops
  <2>3. Leaves(x) = I
    BY <1>1, <2>2, LeavingOther
  <2>4. LowerStmt(x, lowered) = sub(1)
    BY <1>3 DEF LowerStmt, sub
  <2>5. sub(1) \in Rust(m) /\ Exits[sub(1)] \subseteq I
    BY <1>2, <2>1
  <2>6. Within(sub(1), m + 2, I)
    BY <1>0, <2>5, WithinList
  <2> QED
    BY <2>3, <2>4, <2>6
<1>4. CASE x.op = "doWhile"
  <2>1. 1 \in DOMAIN x.subs
    BY <1>1, <1>4 DEF Source
  <2>2. sub(1) \in Rust(m) /\ Exits[sub(1)] \subseteq I
    BY <1>2, <2>1
  <2> DEFINE out == {e \in I : e \notin Bare /\ e # Jump("break", x.label) /\ e # Jump("continue", x.label)}
  <2>3. Within(LowerDoWhile(x, sub(1)), m + 2, out)
    <3> DEFINE l == x.label
    <3>1. l \in Labels /\ l = x.label
      BY <1>1
    <3>2. out = {e \in I : e \notin Bare /\ e # Jump("break", l) /\ e # Jump("continue", l)}
      OBVIOUS
    <3> HIDE DEF l, out
    <3> QED
      BY <2>2, <3>1, <3>2, LowerDoWhileExits
  <2>4. out \subseteq Leaves(x)
    <3>1. ASSUME NEW e \in out PROVE e \in Leaving(x, I)
      <4>1. x.op \in Loops
        BY <1>4 DEF Loops
      <4> QED
        BY <4>1, LeavingIs
    <3> QED
      BY <1>1, <3>1
  <2>5. LowerStmt(x, lowered) = LowerDoWhile(x, sub(1))
    BY <1>4 DEF LowerStmt, sub
  <2> HIDE DEF out
  <2> QED
    BY <2>3, <2>4, <2>5, WithinMore
<1>5. CASE x.op = "for"
  <2>0. x.op \in {"while", "for", "doWhile", "braces"}
    BY <1>5
  <2>1. 1 \in DOMAIN x.subs /\ x.label = ""
    <3>1. Len(x.subs) = 1
      BY <1>1, <2>0 DEF Source
    <3>2. x.label = ""
      BY <1>1, <1>5, Zenon DEF Source
    <3>3. 1 \in DOMAIN x.subs
      BY <1>1, <3>1
    <3> QED
      BY <3>2, <3>3, Zenon
  <2>2. sub(1) \in Rust(m) /\ Exits[sub(1)] \subseteq I
    BY <1>2, <2>1
  <2> DEFINE out == {e \in I : e \notin Bare}
  <2>3. Within(LowerFor(sub(1)), m + 2, out)
    BY <2>2, LowerForExits
  <2>4. out \subseteq Leaves(x)
    <3>1. ASSUME NEW e \in out PROVE e \in Leaving(x, I)
      <4>1. x.op \in Loops /\ Jump("break", x.label) \in Bare /\ Jump("continue", x.label) \in Bare
        BY <1>5, <2>1 DEF Loops, Bare
      <4> QED
        BY <4>1, LeavingIs
    <3> QED
      BY <1>1, <3>1
  <2>5. LowerStmt(x, lowered) = LowerFor(sub(1))
    BY <1>5 DEF LowerStmt, sub
  <2> HIDE DEF out
  <2> QED
    BY <2>3, <2>4, <2>5, WithinMore
<1>6. CASE x.op = "try"
  <2>1. 1 \in DOMAIN x.subs /\ 2 \in DOMAIN x.subs /\ 3 \in DOMAIN x.subs
    BY <1>1, <1>6 DEF Source
  <2>2. /\ sub(1) \in Rust(m) /\ Exits[sub(1)] \subseteq I
        /\ sub(2) \in Rust(m) /\ Exits[sub(2)] \subseteq I
        /\ sub(3) \in Rust(m) /\ Exits[sub(3)] \subseteq Exits[x.subs[3]]
    BY <1>2, <2>1 DEF sub
  <2>3. x.op \notin JumpOps \cup Loops \cup {"switch", "block", "defer", "match"}
    BY <1>6 DEF JumpOps, Loops
  <2>4. Leaves(x) = I
    BY <1>1, <2>3, LeavingOther
  <2>5. Finalized(x) => Exits[sub(3)] = {}
    <3>1. x.subs[3] \in ListsOf[n]["source"]
      BY <1>1, <2>1
    <3>2. Finalized(x) => Exits[x.subs[3]] = {}
      BY <3>1, MarksExits DEF IsPlain
    <3> QED
      BY <2>2, <3>2
  <2>6. Within(LowerTry(x, sub(1), sub(2), sub(3)), m + 2, I)
    BY <2>2, <2>4, <2>5, LowerTryExits
  <2>7. LowerStmt(x, lowered) = LowerTry(x, sub(1), sub(2), sub(3))
    BY <1>6 DEF LowerStmt, sub
  <2> QED
    BY <2>4, <2>6, <2>7
<1>7. CASE x.op \notin {"braces", "doWhile", "for", "try"}
  <2> DEFINE g == [j \in DOMAIN x.subs |-> sub(j)]
             y == [x EXCEPT !.subs = g]
  <2>1. LowerStmt(x, lowered) = <<y>>
    BY <1>1, <1>7, Zenon DEF LowerStmt, sub
  <2>2. x.op \notin {"switch", "block", "defer", "match"}
    BY <1>1 DEF Source, JumpOps
  <2>3. DOMAIN g = DOMAIN x.subs /\ \A j \in DOMAIN x.subs : g[j] = sub(j)
    OBVIOUS
  <2>4. g = [j \in DOMAIN x.subs |-> g[j]]
    OBVIOUS
  <2> HIDE DEF g
  <2>5. \A j \in DOMAIN x.subs : g[j] \in Rust(m) /\ Exits[g[j]] \subseteq Exits[x.subs[j]]
    BY <2>3 DEF sub
  <2>6. y = [x EXCEPT !.subs = [j \in DOMAIN x.subs |-> g[j]]]
    BY <2>4
  <2> HIDE DEF y
  <2>7. Within(<<y>>, m + 2, Leaves(x))
    BY <1>0, <1>1, <2>2, <2>3, <2>5, <2>6, KeptExits
  <2> QED
    BY <2>1, <2>7
<1> QED
  BY <1>3, <1>4, <1>5, <1>6, <1>7

(* What leaves what a list becomes leaves the list: no flag, label or      *)
(* block the translation of try, do-while and for adds is jumped to from   *)
(* outside it, and no jump it takes out of a block is lost for another.    *)
LoweredWell(ss, n) == Lower(ss) \in Rust(3 * n) /\ Exits[Lower(ss)] \subseteq Exits[ss]

THEOREM LowerExits ==
    ASSUME NEW n \in Nat, 3 * n <= MaxDepth, NEW ss \in ListsOf[n]["source"], Plain(ss), Wrong \notin Exits[ss]
    PROVE  LoweredWell(ss, n)
<1> DEFINE P == {k \in Nat : 3 * k <= MaxDepth =>
                    \A c \in ListsOf[k]["source"] : Plain(c) /\ Wrong \notin Exits[c] => LoweredWell(c, k)}
<1>1. ASSUME NEW k \in Nat, \A l \in Nat : l < k => l \in P PROVE k \in P
  <2> SUFFICES ASSUME 3 * k <= MaxDepth, NEW c \in ListsOf[k]["source"], Plain(c), Wrong \notin Exits[c]
               PROVE  LoweredWell(c, k)
    OBVIOUS
  <2>0. k <= MaxDepth /\ MaxDepth \in Nat
    BY BoundsAssumption
  <2>1. c \in Bodies
    BY <2>0, BodiesOf
  <2> DEFINE G(i) == [j \in DOMAIN c[i].subs |-> Lowered[c[i].subs[j]]]
             s == [i \in DOMAIN c |-> LowerStmt(c[i], G(i))]
  <2>2. Lower(c) = FlattenSeq(s)
    <3>1. Lowered[c] = LoweredStep(c, Lowered)
      BY <2>1, LoweredIs
    <3> QED
      BY <3>1, Zenon DEF Lower, LoweredStep
  <2>3. CASE k = 0
    <3>1. c = <<>>
      BY <2>3, ListsOfAre
    <3>2. s \in [1 .. 0 -> Seq({})]
      BY <3>1
    <3>3. FlattenSeq(s) \in Seq({})
      BY <3>2, Flattened
    <3>4. Lower(c) = <<>>
      BY <2>2, <3>3
    <3>5. <<>> \in Rust(3 * k)
      BY <2>3, ListsOfAre DEF Rust
    <3> QED
      BY <3>1, <3>4, <3>5 DEF LoweredWell
  <2>4. CASE k # 0
    <3>0. PICK p \in Nat : k = p + 1 /\ p < k /\ p <= MaxDepth /\ 3 * p + 3 <= MaxDepth /\ 3 * p <= MaxDepth
                             /\ 3 * p \in Nat /\ 3 * p + 2 \in Nat /\ (3 * p + 2) + 1 = 3 * k
                             /\ (3 * p + 2) + 1 <= MaxDepth /\ p = k - 1
      <4>1. k - 1 \in Nat /\ k = (k - 1) + 1 /\ k - 1 < k /\ k - 1 <= MaxDepth /\ 3 * (k - 1) + 3 <= MaxDepth
              /\ 3 * (k - 1) <= MaxDepth /\ 3 * (k - 1) \in Nat /\ 3 * (k - 1) + 2 \in Nat
              /\ (3 * (k - 1) + 2) + 1 = 3 * k /\ (3 * (k - 1) + 2) + 1 <= MaxDepth
        BY <2>0, <2>4
      <4> QED
        BY <4>1
    <3>1. ASSUME NEW i \in DOMAIN c PROVE Within(LowerStmt(c[i], G(i)), 3 * p + 2, Leaves(c[i]))
      <4> DEFINE x == c[i]
                 g == G(i)
                 m == 3 * p
      <4>1. x \in NodesOf("source", ListsOf[p]["source"])
              /\ \A j \in DOMAIN x.subs : x.subs[j] \in ListsOf[p]["source"]
        BY <3>0, ListsOfDown
      <4>2. IsPlain(x) /\ \A j \in DOMAIN x.subs : Plain(x.subs[j])
        BY <2>1, StmtsInIs DEF Plain
      <4>3. Wrong \notin Leaves(x)
        BY <2>1, ExitsOfList
      <4>4. \A j \in DOMAIN x.subs : g[j] = Lowered[x.subs[j]]
        OBVIOUS
      <4> HIDE DEF x, g
      <4>5. ASSUME NEW j \in DOMAIN x.subs PROVE Wrong \notin Exits[x.subs[j]]
        <5> SUFFICES ASSUME Wrong \in Exits[x.subs[j]] PROVE FALSE
          OBVIOUS
        <5> DEFINE I == InsideOf(x, Exits)
        <5>1. Wrong \in I /\ Wrong \notin Leaving(x, I)
          BY <4>3 DEF InsideOf, Leaves
        <5> HIDE DEF I
        <5>2. Source(x) /\ x.op # "switch"
          BY <4>1, <4>2 DEF NodesOf, Fits, IsPlain
        <5>3. x.op \notin {"switch", "block", "defer", "match"}
          BY <5>2 DEF Source, JumpOps
        <5>4. Wrong \notin Bare /\ \A l : Wrong # Jump("break", l) /\ Wrong # Jump("continue", l)
          BY DEF Wrong, Jump, Bare
        <5>5. CASE x.op \in JumpOps
          BY <5>1, <5>5, LeavingIs
        <5>6. CASE x.op \in Loops
          BY <5>1, <5>4, <5>6, LeavingIs
        <5>7. CASE x.op \notin JumpOps \cup Loops
          BY <5>1, <5>3, <5>7, LeavingIs
        <5> QED
          BY <5>5, <5>6, <5>7
      <4>6. ASSUME NEW j \in DOMAIN x.subs
            PROVE  FlattenSeq(g[j]) \in Rust(m) /\ Exits[FlattenSeq(g[j])] \subseteq Exits[x.subs[j]]
        <5>1. p \in P
          BY <1>1, <3>0
        <5>2. LoweredWell(x.subs[j], p)
          BY <3>0, <4>1, <4>2, <4>5, <5>1
        <5>3. FlattenSeq(g[j]) = Lower(x.subs[j])
          BY <4>4 DEF Lower
        <5> QED
          BY <5>2, <5>3 DEF LoweredWell
      <4>7. m \in Nat /\ m + 3 <= MaxDepth
        BY <3>0
      <4> HIDE DEF m, P, G
      <4>8. Within(LowerStmt(x, g), m + 2, Leaves(x))
        BY <3>0, <4>1, <4>2, <4>3, <4>6, <4>7, LowerStmtExits
      <4> QED
        BY <4>8 DEF x, g, m
    <3> DEFINE d == Len(c)
    <3>2. d \in Nat /\ DOMAIN c = 1 .. d
      BY <2>4, ListsOfAre
    <3> HIDE DEF G, d, P
    <3>3. s \in [1 .. d -> Seq(RustNodes(3 * p + 2))] /\ \A i \in 1 .. d : s[i] = LowerStmt(c[i], G(i))
      BY <3>1, <3>2 DEF Within
    <3> HIDE DEF s
    <3>4. FlattenSeq(s) \in Rust(3 * k)
      <4>1. FlattenSeq(s) \in Rust((3 * p + 2) + 1)
        BY <3>0, <3>2, <3>3, FlattenedExits
      <4> QED
        BY <3>0, <4>1
    <3>5. ASSUME NEW e \in Exits[FlattenSeq(s)] PROVE e \in Exits[c]
      <4>1. LeavesOneOf(e, s, d)
        BY <3>0, <3>2, <3>3, FlattenedExits
      <4>2. PICK i \in 1 .. d : \E l \in DOMAIN s[i] : e \in Leaves(s[i][l])
        BY <4>1 DEF LeavesOneOf
      <4>3. e \in Leaves(c[i])
        BY <3>1, <3>2, <3>3, <4>2 DEF Within
      <4> QED
        BY <2>1, <3>2, <4>3, ExitsOfList
    <3> QED
      BY <2>2, <3>4, <3>5 DEF LoweredWell
  <2> QED
    BY <2>3, <2>4
<1>2. Nat \subseteq P
  <2> HIDE DEF P
  <2> QED
    BY <1>1, Numbers
<1> QED
  BY <1>2


-----------------------------------------------------------------------------
(* The bodies that are built are lists of the source, as deep as they took *)
(* steps.                                                                  *)
Src(n) == ListsOf[n]["source"]
SrcNodes(n) == NodesOf("source", Src(n))

LEMMA SrcIs ==
    ASSUME NEW n \in Nat
    PROVE  Src(n + 1) = Seq(SrcNodes(n))
<1>1. n + 1 \in Nat /\ n + 1 # 0 /\ (n + 1) - 1 = n
  OBVIOUS
<1> QED
  BY <1>1, ListsOfAre DEF Src, SrcNodes

LEMMA SrcGrow ==
    ASSUME NEW m \in Nat, NEW n \in Nat, m <= n
    PROVE  Src(m) \subseteq Src(n) /\ SrcNodes(m) \subseteq SrcNodes(n)
<1>1. Src(m) \subseteq Src(n)
  BY ListsOfGrow DEF Src
<1> QED
  BY <1>1, NodesOfGrow DEF SrcNodes

LEMMA SrcNode ==
    ASSUME NEW n, NEW op \in Ops, NEW l \in Labels, NEW tests \in Seq(Tests), NEW subs \in Seq(Src(n)),
           NEW x, x = Stmt(op, l, tests, subs), Source(x)
    PROVE  x \in SrcNodes(n)
<1>1. x \in Nodes(Src(n))
  BY DEF Stmt, Nodes
<1> QED
  BY <1>1 DEF SrcNodes, NodesOf, Fits

LEMMA SrcLeaf ==
    ASSUME NEW n, NEW op \in JumpOps \cup {"mark"}, NEW l \in Labels
    PROVE  Leaf(op, l) \in SrcNodes(n)
<1> DEFINE x == Leaf(op, l)
<1>1. x = Stmt(op, l, <<>>, <<>>) /\ x.op = op /\ x.label = l /\ x.subs = <<>>
  BY DEF Leaf, Stmt
<1>2. op \in Ops
  BY DEF Ops
<1> HIDE DEF x
<1>3. x.op \notin {"while", "for", "doWhile", "braces", "try"}
  BY <1>1 DEF JumpOps
<1>4. Source(x)
  BY <1>1, <1>3 DEF Source
<1>5. <<>> \in Seq(Tests) /\ <<>> \in Seq(Src(n))
  OBVIOUS
<1>6. x \in SrcNodes(n)
  BY <1>1, <1>2, <1>4, <1>5, SrcNode
<1> QED
  BY <1>6 DEF x

LEMMA Singles ==
    ASSUME NEW S
    PROVE  <<>> \in Seq(S) /\ \A b \in S : <<b>> \in Seq(S)
OBVIOUS

(* A statement around one list, an if, a try, a switch. *)
LEMMA SrcOne ==
    ASSUME NEW n, NEW op \in {"while", "for", "doWhile", "braces"}, NEW l \in Labels, op = "for" => l = "",
           NEW b \in Src(n)
    PROVE  Stmt(op, l, <<>>, <<b>>) \in SrcNodes(n)
<1> DEFINE x == Stmt(op, l, <<>>, <<b>>)
<1>1. x = Stmt(op, l, <<>>, <<b>>) /\ x.op = op /\ x.label = l /\ x.subs = <<b>>
  BY DEF Stmt
<1>2. op \in Ops /\ op \notin JumpOps \cup {"mark", "try"}
  BY DEF Ops, JumpOps, Loops
<1> HIDE DEF x
<1>3. Source(x)
  <2>1. Len(x.subs) = 1
    BY <1>1
  <2>2. x.op = "for" => x.label = ""
    BY <1>1, Zenon
  <2> QED
    BY <1>1, <1>2, <2>1, <2>2 DEF Source
<1>4. <<>> \in Seq(Tests) /\ <<b>> \in Seq(Src(n))
  BY Singles, Zenon
<1>5. x \in SrcNodes(n)
  BY <1>1, <1>2, <1>3, <1>4, SrcNode
<1> QED
  BY <1>5 DEF x

LEMMA SrcIf ==
    ASSUME NEW n, NEW a \in Src(n), NEW b \in Src(n)
    PROVE  If(a, b) \in SrcNodes(n)
<1> DEFINE x == If(a, b)
<1>1. x = Stmt("if", "", <<>>, <<a, b>>) /\ x.op = "if"
  BY DEF If, Stmt
<1>2. "if" \in Ops /\ "" \in Labels /\ "if" \notin JumpOps
  BY DEF Ops, Labels, JumpOps
<1> HIDE DEF x
<1>3. Source(x)
  BY <1>1, <1>2 DEF Source
<1>4. <<>> \in Seq(Tests) /\ <<a, b>> \in Seq(Src(n))
  OBVIOUS
<1>5. x \in SrcNodes(n)
  BY <1>1, <1>2, <1>3, <1>4, SrcNode
<1> QED
  BY <1>5 DEF x

LEMMA SrcTry ==
    ASSUME NEW n, NEW parts \in {"catch", "finally", "both"}, NEW b \in Src(n), NEW c \in Src(n), NEW f \in Src(n)
    PROVE  Try(parts, b, c, f) \in SrcNodes(n)
<1> DEFINE x == Try(parts, b, c, f)
<1>1. x = Stmt("try", parts, <<>>, <<b, c, f>>) /\ x.op = "try" /\ x.subs = <<b, c, f>>
  BY DEF Try, Stmt
<1>2. "try" \in Ops /\ parts \in Labels /\ "try" \notin JumpOps
  BY DEF Ops, Labels, JumpOps
<1> HIDE DEF x
<1>3. Source(x)
  <2>1. Len(x.subs) = 3
    BY <1>1
  <2> QED
    BY <1>1, <1>2, <2>1 DEF Source
<1>4. <<>> \in Seq(Tests) /\ <<b, c, f>> \in Seq(Src(n))
  OBVIOUS
<1>5. x \in SrcNodes(n)
  BY <1>1, <1>2, <1>3, <1>4, SrcNode
<1> QED
  BY <1>5 DEF x

LEMMA SrcSwitch ==
    ASSUME NEW n, NEW kind \in {"number", "call", "string", "enum", "typeof"}, NEW tests \in Seq(Tests),
           NEW subs \in Seq(Src(n))
    PROVE  Switch(kind, tests, subs) \in SrcNodes(n)
<1> DEFINE x == Switch(kind, tests, subs)
<1>1. x = Stmt("switch", kind, tests, subs) /\ x.op = "switch"
  BY DEF Switch, Stmt
<1>2. "switch" \in Ops /\ kind \in Labels /\ "switch" \notin JumpOps
  BY DEF Ops, Labels, JumpOps
<1> HIDE DEF x
<1>3. Source(x)
  BY <1>1, <1>2 DEF Source
<1>4. x \in SrcNodes(n)
  BY <1>1, <1>2, <1>3, SrcNode
<1> QED
  BY <1>4 DEF x

(* The leaves there are, as lists. *)
LEMMA SrcLeaves ==
    ASSUME NEW n \in Nat, n >= 1
    PROVE  /\ <<>> \in Src(n)
           /\ \A l \in Names : Mark(l) \in SrcNodes(n - 1) /\ <<Mark(l)>> \in Src(n)
           /\ \A j \in Jumps \cup {Return, Throw, Break("")} : j \in SrcNodes(n - 1) /\ <<j>> \in Src(n)
<1>1. n - 1 \in Nat /\ (n - 1) + 1 = n
  OBVIOUS
<1>2. Src(n) = Seq(SrcNodes(n - 1))
  BY <1>1, SrcIs
<1>3. ASSUME NEW l \in Names PROVE Mark(l) \in SrcNodes(n - 1)
  <2>1. l \in Labels
    BY DEF Labels
  <2> QED
    BY <2>1, SrcLeaf DEF Mark
<1>4. ASSUME NEW j \in Jumps PROVE j \in SrcNodes(n - 1)
  <2> DEFINE op == j.op
             l == j.label
  <2>1. op \in JumpOps \cup {"mark"} /\ l \in Labels /\ j = Leaf(op, l)
    BY SourceAssumption DEF Labels
  <2> HIDE DEF op, l
  <2> QED
    BY <2>1, SrcLeaf
<1>5. ASSUME NEW op \in {"return", "throw", "break"} PROVE Leaf(op, "") \in SrcNodes(n - 1)
  <2>1. op \in JumpOps \cup {"mark"} /\ "" \in Labels
    BY DEF JumpOps, Labels
  <2> QED
    BY <2>1, SrcLeaf
<1>6. {Return, Throw, Break("")} \subseteq SrcNodes(n - 1)
  BY <1>5 DEF Return, Throw, Break
<1> DEFINE D == SrcNodes(n - 1)
<1> HIDE DEF D
<1>7. <<>> \in Seq(D) /\ \A x \in D : <<x>> \in Seq(D)
  OBVIOUS
<1> QED
  BY <1>2, <1>3, <1>4, <1>6, <1>7 DEF D


(* Each construct, around a body. *)
LEMMA ConstructsNest ==
    ASSUME NEW n \in Nat, n >= 1, NEW b \in Src(n), NEW w \in Constructs
    PROVE  Construct(w, b) \in SrcNodes(n + 1)
<1> DEFINE D == Src(n)
           C == Construct(w, b)
<1>0. n \in Nat /\ n - 1 \in Nat /\ n + 1 \in Nat /\ n <= n + 1 /\ (n - 1) + 1 = n
  OBVIOUS
<1>1. {"start", "caught", "try", "finally", "default", "p", "q", "after", "L"} \subseteq Names
  BY SourceAssumption
<1>2. <<>> \in D /\ (\A l \in Names : <<Mark(l)>> \in D) /\ <<Throw>> \in D /\ <<Return>> \in D /\ b \in D
        /\ (\A l \in Names : Mark(l) \in SrcNodes(n - 1)) /\ Break("") \in SrcNodes(n - 1)
  BY SrcLeaves
<1>3. D = Seq(SrcNodes(n - 1)) /\ SrcNodes(n) \subseteq SrcNodes(n + 1) /\ D \subseteq Src(n + 1)
  BY <1>0, SrcIs, SrcGrow
<1>4. <<Mark("p"), Break("")>> \in D
  <2>1. Mark("p") \in SrcNodes(n - 1)
    BY <1>1, <1>2
  <2> DEFINE E == SrcNodes(n - 1)
             u == Mark("p")
             v == Break("")
  <2>2. u \in E /\ v \in E /\ D = Seq(E)
    BY <1>2, <1>3, <2>1
  <2> HIDE DEF D, E, u, v
  <2>3. <<u, v>> \in D
    BY <2>2
  <2> QED
    BY <2>3 DEF u, v
<1>5. "" \in Labels /\ "L" \in Labels
  BY <1>1 DEF Labels
<1>6. /\ {"p"} \in Tests /\ {"q"} \in Tests /\ {"default"} \in Tests
      /\ \A t, u, v \in Tests : <<t, u>> \in Seq(Tests) /\ <<t, u, v>> \in Seq(Tests)
  <2>1. {"p"} \in Tests /\ {"q"} \in Tests /\ {"default"} \in Tests
    BY DEF Tests, Answers
  <2>2. \A t, u, v \in Tests : <<t, u>> \in Seq(Tests) /\ <<t, u, v>> \in Seq(Tests)
    OBVIOUS
  <2> QED
    BY <2>1, <2>2
<1>7. \A t, u, v \in D : <<t, u>> \in Seq(D) /\ <<t, u, v>> \in Seq(D)
  OBVIOUS
<1> DEFINE p == <<Mark("p"), Break("")>>
<1>8. <<Mark("caught")>> \in D /\ <<Mark("try")>> \in D /\ <<Mark("finally")>> \in D
        /\ <<Mark("default")>> \in D /\ <<Mark("q")>> \in D
  BY <1>1, <1>2
<1> HIDE DEF D, C
<1>10. CASE w = "if"
  <2>1. C = If(b, <<Return>>)
    BY <1>10 DEF C, Construct
  <2>2. If(b, <<Return>>) \in SrcNodes(n)
    BY <1>2, SrcIf DEF D
  <2> QED
    BY <1>3, <2>1, <2>2 DEF C
<1>11. CASE w = "while"
  <2>1. C = Loop("while", "L", b)
    BY <1>11 DEF C, Construct
  <2>2. Stmt("while", "L", <<>>, <<b>>) \in SrcNodes(n)
    BY <1>5, SrcOne
  <2> QED
    BY <1>3, <2>1, <2>2 DEF C, Loop
<1>12. CASE w = "for"
  <2>1. C = Loop("for", "", b)
    BY <1>12 DEF C, Construct
  <2>2. Stmt("for", "", <<>>, <<b>>) \in SrcNodes(n)
    BY <1>5, SrcOne
  <2> QED
    BY <1>3, <2>1, <2>2 DEF C, Loop
<1>13. CASE w = "do"
  <2>1. C = Loop("doWhile", "", b)
    BY <1>13 DEF C, Construct
  <2>2. Stmt("doWhile", "", <<>>, <<b>>) \in SrcNodes(n)
    BY <1>5, SrcOne
  <2> QED
    BY <1>3, <2>1, <2>2 DEF C, Loop
<1>14. CASE w = "doL"
  <2>1. C = Loop("doWhile", "L", b)
    BY <1>14 DEF C, Construct
  <2>2. Stmt("doWhile", "L", <<>>, <<b>>) \in SrcNodes(n)
    BY <1>5, SrcOne
  <2> QED
    BY <1>3, <2>1, <2>2 DEF C, Loop
<1>15. CASE w = "try"
  <2>1. C = Try("catch", b, <<Mark("caught")>>, <<>>)
    BY <1>15 DEF C, Construct
  <2>2. Try("catch", b, <<Mark("caught")>>, <<>>) \in SrcNodes(n)
    BY <1>2, <1>8, SrcTry DEF D
  <2> QED
    BY <1>3, <2>1, <2>2 DEF C
<1>16. CASE w = "catch"
  <2>1. C = Try("catch", <<Throw>>, b, <<>>)
    BY <1>16 DEF C, Construct
  <2>2. Try("catch", <<Throw>>, b, <<>>) \in SrcNodes(n)
    BY <1>2, <1>8, SrcTry DEF D
  <2> QED
    BY <1>3, <2>1, <2>2 DEF C
<1>17. CASE w = "closing"
  <2>1. C = Try("finally", <<Mark("try")>>, <<>>, b)
    BY <1>17 DEF C, Construct
  <2>2. Try("finally", <<Mark("try")>>, <<>>, b) \in SrcNodes(n)
    BY <1>2, <1>8, SrcTry DEF D
  <2> QED
    BY <1>3, <2>1, <2>2 DEF C
<1>18. CASE w = "finally"
  <2>1. C = Try("finally", b, <<>>, <<Mark("finally")>>)
    BY <1>18 DEF C, Construct
  <2>2. Try("finally", b, <<>>, <<Mark("finally")>>) \in SrcNodes(n)
    BY <1>2, <1>8, SrcTry DEF D
  <2> QED
    BY <1>3, <2>1, <2>2 DEF C
<1>19. CASE w = "all"
  <2>1. C = Try("both", b, <<Mark("caught")>>, <<Mark("finally")>>)
    BY <1>19 DEF C, Construct
  <2>2. Try("both", b, <<Mark("caught")>>, <<Mark("finally")>>) \in SrcNodes(n)
    BY <1>2, <1>8, SrcTry DEF D
  <2> QED
    BY <1>3, <2>1, <2>2 DEF C
<1>20. CASE w = "case"
  <2> DEFINE tests == <<{"p"}, {"q"}, {"default"}>>
             subs == <<<<>>, b, <<Mark("default")>>>>
  <2>1. C = Switch("number", tests, subs)
    BY <1>20 DEF C, Construct
  <2>2. tests \in Seq(Tests)
    BY <1>6
  <2>3. subs \in Seq(D)
    BY <1>2, <1>4, <1>7, <1>8
  <2> HIDE DEF tests, subs
  <2>4. Switch("number", tests, subs) \in SrcNodes(n)
    BY <2>2, <2>3, SrcSwitch DEF D
  <2> QED
    BY <1>3, <2>1, <2>4 DEF C
<1>21. CASE w = "default"
  <2> DEFINE tests == <<{"p"}, {"default"}, {"q"}>>
             subs == <<<<Mark("p"), Break("")>>, b, <<Mark("q")>>>>
  <2>1. C = Switch("number", tests, subs)
    BY <1>21 DEF C, Construct
  <2>2. tests \in Seq(Tests)
    BY <1>6
  <2>3. subs \in Seq(D)
    BY <1>2, <1>4, <1>7, <1>8
  <2> HIDE DEF tests, subs
  <2>4. Switch("number", tests, subs) \in SrcNodes(n)
    BY <2>2, <2>3, SrcSwitch DEF D
  <2> QED
    BY <1>3, <2>1, <2>4 DEF C
<1>22. CASE w = "enum"
  <2> DEFINE tests == <<{"p"}, {"q"}>>
             subs == <<b, <<Mark("q")>>>>
  <2>1. C = Switch("enum", tests, subs)
    BY <1>22 DEF C, Construct
  <2>2. tests \in Seq(Tests)
    BY <1>6
  <2>3. subs \in Seq(D)
    BY <1>2, <1>4, <1>7, <1>8
  <2> HIDE DEF tests, subs
  <2>4. Switch("enum", tests, subs) \in SrcNodes(n)
    BY <2>2, <2>3, SrcSwitch DEF D
  <2> QED
    BY <1>3, <2>1, <2>4 DEF C
<1>23. CASE w = "tail"
  <2> DEFINE tests == <<{"default"}, {"q"}>>
             subs == <<b, <<>>>>
  <2>1. C = Switch("enum", tests, subs)
    BY <1>23 DEF C, Construct
  <2>2. tests \in Seq(Tests)
    BY <1>6
  <2>3. subs \in Seq(D)
    BY <1>2, <1>4, <1>7, <1>8
  <2> HIDE DEF tests, subs
  <2>4. Switch("enum", tests, subs) \in SrcNodes(n)
    BY <2>2, <2>3, SrcSwitch DEF D
  <2> QED
    BY <1>3, <2>1, <2>4 DEF C
<1>24. CASE w = "typeof"
  <2> DEFINE tests == <<{"p"}, {"default"}, {"q"}>>
             subs == <<<<>>, b, <<>>>>
  <2>1. C = Switch("typeof", tests, subs)
    BY <1>24 DEF C, Construct
  <2>2. tests \in Seq(Tests)
    BY <1>6
  <2>3. subs \in Seq(D)
    BY <1>2, <1>4, <1>7, <1>8
  <2> HIDE DEF tests, subs
  <2>4. Switch("typeof", tests, subs) \in SrcNodes(n)
    BY <2>2, <2>3, SrcSwitch DEF D
  <2> QED
    BY <1>3, <2>1, <2>4 DEF C
<1>25. CASE w = "braces"
  <2> DEFINE c == Append(b, Break(""))
             inner == <<Braces(c)>>
             tests == <<{"p"}, {"default"}>>
             subs == <<inner, <<Return>>>>
  <2>1. C = Switch("string", tests, subs)
    BY <1>25 DEF C, Construct
  <2>2. tests \in Seq(Tests)
    BY <1>6
  <2>3. c \in D
    BY <1>2, <1>3, AppendProperties
  <2>4. inner \in Src(n + 1)
    <3>1. Braces(c) \in SrcNodes(n)
      <4> HIDE DEF c
      <4> QED
        BY <1>5, <2>3, SrcOne DEF D, Braces
    <3> QED
      BY <1>0, <3>1, SrcIs, Singles
  <2> HIDE DEF inner
  <2>5. subs \in Seq(Src(n + 1))
    <3>1. <<Return>> \in Src(n + 1)
      BY <1>2, <1>3
    <3> QED
      BY <2>4, <3>1
  <2> HIDE DEF tests, subs
  <2>6. Switch("string", tests, subs) \in SrcNodes(n + 1)
    BY <2>2, <2>5, SrcSwitch
  <2> QED
    BY <2>1, <2>6 DEF C
<1>26. CASE w = "call"
  <2> DEFINE tests == <<{"p"}, {"default"}>>
             subs == <<b, <<Mark("default")>>>>
  <2>1. C = Switch("call", tests, subs)
    BY <1>26 DEF C, Construct
  <2>2. tests \in Seq(Tests)
    BY <1>6
  <2>3. subs \in Seq(D)
    BY <1>2, <1>4, <1>7, <1>8
  <2> HIDE DEF tests, subs
  <2>4. Switch("call", tests, subs) \in SrcNodes(n)
    BY <2>2, <2>3, SrcSwitch DEF D
  <2> QED
    BY <1>3, <2>1, <2>4 DEF C
<1>27. CASE w = "calls"
  <2> DEFINE tests == <<{"q"}, {"p"}, {"default"}>>
             subs == <<b, <<>>, <<Return>>>>
  <2>1. C = Switch("call", tests, subs)
    BY <1>27 DEF C, Construct
  <2>2. tests \in Seq(Tests)
    BY <1>6
  <2>3. subs \in Seq(D)
    BY <1>2, <1>4, <1>7, <1>8
  <2> HIDE DEF tests, subs
  <2>4. Switch("call", tests, subs) \in SrcNodes(n)
    BY <2>2, <2>3, SrcSwitch DEF D
  <2> QED
    BY <1>3, <2>1, <2>4 DEF C
<1> QED
  BY <1>10, <1>11, <1>12, <1>13, <1>14, <1>15, <1>16, <1>17, <1>18, <1>19, <1>20, <1>21, <1>22, <1>23,
     <1>24, <1>25, <1>26, <1>27 DEF Constructs


(* A body is a list of the source, at most two deeper for every step. *)
Shape == steps \in 0 .. MaxSteps /\ body \in Src(2 * steps + 1)

LEMMA InitShape == Init => Shape
<1> SUFFICES ASSUME Init PROVE Shape
  OBVIOUS
<1>1. steps = 0 /\ body = <<Mark("start")>> /\ MaxSteps \in Nat
  BY BoundsAssumption DEF Init
<1>2. <<Mark("start")>> \in Src(1)
  <2>1. "start" \in Names
    BY SourceAssumption
  <2>2. \A n \in Nat : n >= 1 => \A l \in Names : <<Mark(l)>> \in Src(n)
    BY SrcLeaves
  <2> QED
    BY <2>1, <2>2
<1>3. 2 * steps + 1 = 1 /\ steps \in 0 .. MaxSteps
  BY <1>1
<1> QED
  BY <1>1, <1>2, <1>3 DEF Shape

LEMMA NextShape == Shape /\ [Next]_vars => Shape'
<1> SUFFICES ASSUME Shape, [Next]_vars PROVE Shape'
  OBVIOUS
<1> DEFINE n == 2 * steps + 1
<1>0. n \in Nat /\ n >= 1 /\ n + 1 \in Nat /\ n + 1 >= 1 /\ n + 2 \in Nat /\ n + 2 >= 1 /\ n <= n + 2 /\ n <= n + 1
        /\ n + 1 <= n + 2 /\ (n - 1) + 1 = n /\ n - 1 \in Nat /\ n - 1 <= n + 1 /\ (n + 1) + 1 = n + 2
        /\ (n + 2) - 1 = n + 1 /\ MaxSteps \in Nat /\ steps \in Nat
  <2>1. steps \in Nat /\ MaxSteps \in Nat
    BY BoundsAssumption DEF Shape
  <2> QED
    BY <2>1
<1>1. body \in Src(n) /\ Src(n) = Seq(SrcNodes(n - 1)) /\ Src(n + 2) = Seq(SrcNodes(n + 1))
        /\ SrcNodes(n - 1) \subseteq SrcNodes(n + 1) /\ SrcNodes(n) \subseteq SrcNodes(n + 1)
  BY <1>0, SrcIs, SrcGrow DEF Shape
<1>2. 2 * (steps + 1) + 1 = n + 2
  BY <1>0
<1> HIDE DEF n
<1>3. ASSUME NEW b \in Src(n + 2), Extend(b) PROVE Shape'
  <2>1. steps' = steps + 1 /\ body' = b /\ steps < MaxSteps
    BY <1>3 DEF Extend
  <2>2. steps' \in 0 .. MaxSteps
    BY <1>0, <2>1
  <2>3. 2 * steps' + 1 = n + 2
    BY <1>2, <2>1
  <2> QED
    BY <1>3, <2>1, <2>2, <2>3 DEF Shape
<1>4. ASSUME NEW j \in Jumps, BeforeIf(j) PROVE Shape'
  <2> DEFINE x == If(<<j>>, <<>>)
             D == SrcNodes(n + 1)
  <2>1. x \in D
    <3>1. <<j>> \in Src(n) /\ <<>> \in Src(n)
      BY <1>0, SrcLeaves
    <3>2. If(<<j>>, <<>>) \in SrcNodes(n)
      BY <3>1, SrcIf
    <3> QED
      BY <1>1, <3>2
  <2>2. body \in Seq(D)
    BY <1>1, SeqMonotonic
  <2>3. Extend(<<x>> \o body)
    BY <1>4 DEF BeforeIf
  <2> HIDE DEF x, D
  <2>4. <<x>> \o body \in Seq(D)
    BY <2>1, <2>2
  <2>5. <<x>> \o body \in Src(n + 2)
    BY <1>1, <2>4 DEF D
  <2> QED
    BY <1>3, <2>3, <2>5
<1>5. ASSUME NEW j \in Jumps, After(j) PROVE Shape'
  <2> DEFINE D == SrcNodes(n + 1)
  <2>1. j \in D
    <3>1. j \in SrcNodes(n - 1)
      BY <1>0, SrcLeaves
    <3> QED
      BY <1>1, <3>1
  <2>2. body \in Seq(D)
    BY <1>1, SeqMonotonic
  <2> HIDE DEF D
  <2>3. Append(body, j) \in Seq(D)
    BY <2>1, <2>2
  <2>4. Append(body, j) \in Src(n + 2)
    BY <1>1, <2>3 DEF D
  <2>5. Extend(Append(body, j))
    BY <1>5 DEF After
  <2> QED
    BY <1>3, <2>4, <2>5
<1>6. ASSUME NEW w \in Wraps PROVE Construct(w, body) \in SrcNodes(n + 1)
  <2>1. w \in Constructs
    BY SourceAssumption
  <2> QED
    BY <1>0, <1>1, <2>1, ConstructsNest
<1>7. ASSUME NEW w \in Wraps, Wrap(w) PROVE Shape'
  <2> DEFINE x == Construct(w, body)
             y == Mark("after")
             D == SrcNodes(n + 1)
  <2>1. x \in D
    BY <1>6
  <2>2. y \in D
    <3>1. "after" \in Names
      BY SourceAssumption
    <3>2. y \in SrcNodes((n + 2) - 1)
      BY <1>0, <3>1, SrcLeaves
    <3> QED
      BY <1>0, <3>2
  <2>3. Extend(<<x, y>>)
    BY <1>7 DEF Wrap
  <2> HIDE DEF x, y, D
  <2>4. <<x, y>> \in Seq(D)
    BY <2>1, <2>2
  <2>5. <<x, y>> \in Src(n + 2)
    BY <1>1, <2>4 DEF D
  <2> QED
    BY <1>3, <2>3, <2>5
<1>8. ASSUME NEW w \in Wraps, Enclose(w) PROVE Shape'
  <2> DEFINE x == Construct(w, body)
  <2>1. x \in SrcNodes(n + 1)
    BY <1>6
  <2>2. Extend(<<x>>)
    BY <1>8 DEF Enclose
  <2> HIDE DEF x
  <2>3. <<x>> \in Src(n + 2)
    BY <1>1, <2>1, Singles
  <2> QED
    BY <1>3, <2>2, <2>3
<1>9. CASE UNCHANGED vars
  BY <1>9 DEF vars, Shape
<1>10. CASE Next
  BY <1>4, <1>5, <1>7, <1>8, <1>10 DEF Next
<1> QED
  BY <1>9, <1>10

(* Every body that is built has the shape, whatever the jumps, the         *)
(* constructs and the bound on steps.                                      *)
THEOREM ShapeHolds == Spec => []Shape
<1>1. Init => Shape
  BY InitShape
<1>2. Shape /\ [Next]_vars => Shape'
  BY NextShape
<1> QED
  BY <1>1, <1>2, PTL DEF Spec

(* The function made of such a body is accepted. *)
LEMMA ShapeIsAccepted == Shape => JumpsAreAccepted
<1> SUFFICES ASSUME Shape, LegalBody(Function), Plain(Function) PROVE AcceptedBody(Lower(Function))
  BY DEF JumpsAreAccepted, Plain, IsPlain
<1> DEFINE n == 2 * steps + 1
<1>1. n \in Nat /\ n >= 1 /\ n - 1 \in Nat /\ (n - 1) + 1 = n /\ 3 * n <= MaxDepth
  <2>1. steps \in 0 .. MaxSteps /\ MaxSteps \in Nat /\ MaxDepth \in Nat /\ MaxDepth >= 3 * (2 * MaxSteps + 1)
    BY BoundsAssumption DEF Shape
  <2> QED
    BY <2>1
<1>2. body \in Src(n)
  BY DEF Shape
<1> HIDE DEF n
<1>3. Function \in Src(n)
  <2> DEFINE D == SrcNodes(n - 1)
             r == Return
  <2>1. r \in D /\ body \in Seq(D) /\ Src(n) = Seq(D)
    BY <1>1, <1>2, SrcIs, SrcLeaves
  <2> HIDE DEF D, r
  <2>2. Append(body, r) \in Seq(D)
    BY <2>1
  <2> QED
    BY <2>1, <2>2 DEF Function, r
<1>4. Exits[Function] \subseteq FunctionExits /\ Wrong \notin FunctionExits
  BY DEF LegalBody, FunctionExits, Wrong, Jump
<1>5. Exits[Lower(Function)] \subseteq Exits[Function]
  <2>1. LoweredWell(Function, n)
    BY <1>1, <1>3, <1>4, LowerExits DEF Src
  <2> QED
    BY <2>1 DEF LoweredWell
<1> QED
  BY <1>4, <1>5 DEF AcceptedBody

(* JumpsAreAccepted: what try, do-while and for become, in a function of   *)
(* any size, breaks none of the rules rustc has about jumps.               *)
THEOREM JumpsAreAcceptedHolds == Spec => []JumpsAreAccepted
<1>1. Shape => JumpsAreAccepted
  BY ShapeIsAccepted
<1> QED
  BY <1>1, ShapeHolds, PTL

=============================================================================
