--------------------------- MODULE ModuleGraphProofs ---------------------------
(***************************************************************************)
(* Proofs about ModuleGraph for any number of files, any program and any   *)
(* order of iteration: first what following links comes to, then what one  *)
(* pass over the exports of a file does to the table, then the invariant.  *)
(***************************************************************************)
EXTENDS ModuleGraph, FiniteSetTheorems, FunctionTheorems, SequenceTheorems, NaturalsInduction, WellFoundedInduction, TLAPS

-----------------------------------------------------------------------------
(* A set of numbers has a first one. *)
LEMMA FirstNumber ==
    ASSUME NEW I \in SUBSET Nat, I # {}
    PROVE  \E i \in I : \A j \in I : i <= j
<1> DEFINE R == OpToRel(<, Nat)
<1>1. \A n, m \in Nat : n < m => <<n, m>> \in R
  BY DEF OpToRel
<1>2. IsWellFoundedOn(R, Nat)
  BY NatLessThanWellFounded, Zenon
<1> HIDE DEF R
<1>3. PICK i \in I : \A j \in I : ~ (<<j, i>> \in R)
  BY <1>2, WFMin
<1>4. \A j \in I : ~ (j < i)
  BY <1>1, <1>3
<1> QED
  BY <1>4

(* A set that has 0 and with a number the next one has all up to a bound.  *)
LEMMA UpTo ==
    ASSUME NEW N \in Nat, NEW P \in SUBSET Nat, 0 \in P,
           \A n \in 0 .. N - 1 : n \in P => n + 1 \in P
    PROVE  0 .. N \subseteq P
<1>1. SUFFICES ASSUME NEW k \in 0 .. N, k \notin P PROVE FALSE
  OBVIOUS
<1> DEFINE I == {i \in 0 .. N : i \notin P}
<1>2. I \in SUBSET Nat /\ I # {}
  BY <1>1
<1>3. PICK i \in I : \A j \in I : i <= j
  BY <1>2, FirstNumber
<1>4. i # 0 /\ i - 1 \in 0 .. N - 1
  BY <1>3
<1>5. i - 1 \in P
  BY <1>3, <1>4
<1> QED
  BY <1>3, <1>4, <1>5

(* The same for all numbers. *)
LEMMA UpToAll ==
    ASSUME NEW P \in SUBSET Nat, 0 \in P, \A n \in Nat : n \in P => n + 1 \in P
    PROVE  \A n \in Nat : n \in P
<1>1. \A n \in Nat : 0 .. n \subseteq P
  BY UpTo
<1> QED
  BY <1>1

(* There is a function with a given first value and each value from the    *)
(* one before.                                                             *)
HasRecursion(D, S, s, G) ==
    \E f \in [D -> S] : \A i \in D : f[i] = IF i = 0 THEN s ELSE G[i][f[i - 1]]

(* A function over the numbers up to N, or over all of them, can be given  *)
(* by its first value and each value from the one before.                  *)
LEMMA Recursion ==
    ASSUME NEW D \in SUBSET Nat, \A n \in D : 0 .. n \subseteq D,
           NEW S, NEW s \in S, NEW G \in [D -> [S -> S]]
    PROVE  HasRecursion(D, S, s, G)
<1> DEFINE Good(n, g) == /\ g \in [0 .. n -> S] /\ g[0] = s
                         /\ \A i \in 1 .. n : g[i] = G[i][g[i - 1]]
<1>1. ASSUME NEW n \in D PROVE \E g : Good(n, g)
  <2> DEFINE P == {m \in Nat : m <= n => \E g : Good(m, g)}
  <2>1. 0 \in P
    <3>1. Good(0, [i \in 0 .. 0 |-> s])
      OBVIOUS
    <3> QED
      BY <3>1
  <2>2. ASSUME NEW m \in 0 .. n - 1, m \in P PROVE m + 1 \in P
    <3>1. PICK g : Good(m, g)
      BY <2>2
    <3> DEFINE h == [i \in 0 .. m + 1 |-> IF i = m + 1 THEN G[m + 1][g[m]] ELSE g[i]]
    <3>2. m + 1 \in D
      BY <1>1, <2>2
    <3>3. h \in [0 .. m + 1 -> S]
      BY <3>1, <3>2
    <3>4. ASSUME NEW i \in 1 .. m + 1 PROVE h[i] = G[i][h[i - 1]]
      <4>1. i - 1 \in 0 .. m /\ i - 1 # m + 1 /\ h[i - 1] = g[i - 1]
        OBVIOUS
      <4>2. CASE i = m + 1
        BY <4>1, <4>2
      <4>3. CASE i # m + 1
        <5>1. i \in 1 .. m /\ h[i] = g[i]
          BY <4>3
        <5> QED
          BY <3>1, <4>1, <5>1
      <4> QED
        BY <4>2, <4>3
    <3>5. Good(m + 1, h)
      BY <3>1, <3>3, <3>4
    <3> HIDE DEF Good, h
    <3> QED
      BY <3>5
  <2> HIDE DEF P
  <2>3. P \in SUBSET Nat /\ n \in Nat
    BY <1>1 DEF P
  <2>4. 0 .. n \subseteq P
    BY <2>1, <2>2, <2>3, UpTo
  <2> QED
    BY <2>4, <2>3 DEF P
<1>2. ASSUME NEW n \in Nat, NEW m \in Nat, NEW g, NEW h, Good(n, g), Good(m, h)
      PROVE  \A i \in 0 .. n : i <= m => g[i] = h[i]
  <2> DEFINE P == {i \in Nat : i <= n /\ i <= m => g[i] = h[i]}
  <2>1. 0 \in P
    BY <1>2
  <2>2. ASSUME NEW i \in Nat, i \in P PROVE i + 1 \in P
    <3>1. CASE i + 1 <= n /\ i + 1 <= m
      <4>1. g[i] = h[i]
        BY <2>2, <3>1
      <4>2. i + 1 \in 1 .. n /\ i + 1 \in 1 .. m /\ (i + 1) - 1 = i
        BY <3>1
      <4>3. g[i + 1] = G[i + 1][g[i]] /\ h[i + 1] = G[i + 1][h[i]]
        BY <1>2, <4>2
      <4> QED
        BY <4>1, <4>3
    <3>2. CASE ~ (i + 1 <= n /\ i + 1 <= m)
      BY <3>2
    <3> QED
      BY <3>1, <3>2
  <2> HIDE DEF P
  <2>3. P \in SUBSET Nat
    BY DEF P
  <2>4. \A i \in Nat : i \in P
    BY <2>1, <2>2, <2>3, UpToAll
  <2> QED
    BY <2>4 DEF P
<1> DEFINE H(n) == CHOOSE g : Good(n, g)
           f == [i \in D |-> H(i)[i]]
<1>3. \A n \in D : Good(n, H(n))
  <2> HIDE DEF Good
  <2> QED
    BY <1>1
<1> HIDE DEF H
<1>4. f \in [D -> S]
  BY <1>3
<1>5. \A i \in D : i = 0 => f[i] = s
  BY <1>3
<1>6. ASSUME NEW i \in D, i # 0 PROVE f[i] = G[i][f[i - 1]]
  <2>1. i - 1 \in D /\ i - 1 \in Nat /\ i \in Nat
    BY <1>6
  <2>2. Good(i, H(i)) /\ Good(i - 1, H(i - 1))
    BY <1>3, <2>1
  <2>3. H(i)[i] = G[i][H(i)[i - 1]]
    BY <2>1, <2>2, <1>6
  <2>4. H(i)[i - 1] = H(i - 1)[i - 1]
    <3> HIDE DEF Good
    <3> QED
      BY <2>1, <2>2, <1>2
  <2> QED
    BY <2>1, <2>3, <2>4
<1>7. \A i \in D : f[i] = IF i = 0 THEN s ELSE G[i][f[i - 1]]
  BY <1>5, <1>6
<1> HIDE DEF f
<1> QED
  BY <1>4, <1>7 DEF HasRecursion

-----------------------------------------------------------------------------
(* There are finitely many nodes. *)
LEMMA NodesFinite ==
    IsFiniteSet(Nodes) /\ Cardinality(Nodes) \in Nat
<1> DEFINE S == Files \X Names
           g == [p \in S |-> [file |-> p[1], name |-> p[2]]]
<1>1. IsFiniteSet(S)
  BY FS_Product, ProgramAssumption
<1>2. g \in Surjection(S, Nodes)
  <2>1. g \in [S -> Nodes]
    BY DEF Nodes
  <2>2. ASSUME NEW x \in Nodes PROVE \E p \in S : g[p] = x
    <3>1. <<x.file, x.name>> \in S /\ g[<<x.file, x.name>>] = x
      BY DEF Nodes
    <3> QED
      BY <3>1
  <2> HIDE DEF g, S
  <2> QED
    BY <2>1, <2>2 DEF Surjection
<1> HIDE DEF g, S
<1>3. IsFiniteSet(Nodes)
  BY <1>1, <1>2, FS_Surjection
<1> QED
  BY <1>3, FS_CardinalityType

(* What links makes of a set of nodes. *)
Onward(links, r) == r \cup UNION {links[x] : x \in r}

(* What is within no link of a node, and within one more. *)
LEMMA WithinSteps ==
    ASSUME NEW links \in [Nodes -> SUBSET Nodes], NEW x \in Nodes
    PROVE  /\ Within(links, x, 0) = {x}
           /\ \A n \in Nat : Within(links, x, n + 1) = Onward(links, Within(links, x, n))
           /\ \A n \in Nat : Within(links, x, n) \in SUBSET Nodes
<1> DEFINE E(f) == [i \in Nat |->
                       IF i = 0 THEN {x}
                       ELSE LET r == f[i - 1] IN r \cup UNION {links[y] : y \in r}]
           step == [r \in SUBSET Nodes |-> Onward(links, r)]
           G == [i \in Nat |-> step]
           reach == CHOOSE f : f = E(f)
<1>1. \A n \in Nat : Within(links, x, n) = reach[n]
  BY DEF Within
<1>2. step \in [SUBSET Nodes -> SUBSET Nodes]
  BY DEF Onward
<1>3. {x} \in SUBSET Nodes
  OBVIOUS
<1>5. PICK f \in [Nat -> SUBSET Nodes] :
         \A i \in Nat : f[i] = IF i = 0 THEN {x} ELSE G[i][f[i - 1]]
  <2>1. Nat \in SUBSET Nat /\ \A n \in Nat : 0 .. n \subseteq Nat
    OBVIOUS
  <2>2. G \in [Nat -> [SUBSET Nodes -> SUBSET Nodes]]
    BY <1>2
  <2> HIDE DEF G
  <2>3. HasRecursion(Nat, SUBSET Nodes, {x}, G)
    BY <1>3, <2>1, <2>2, Recursion
  <2> QED
    BY <2>3 DEF HasRecursion
<1>6. f = E(f)
  <2>1. ASSUME NEW i \in Nat PROVE f[i] = IF i = 0 THEN {x} ELSE Onward(links, f[i - 1])
    <3>1. f[i] = IF i = 0 THEN {x} ELSE G[i][f[i - 1]]
      BY <1>5
    <3>2. CASE i = 0
      BY <3>1, <3>2
    <3>3. CASE i # 0
      <4>1. i - 1 \in Nat /\ f[i - 1] \in SUBSET Nodes
        BY <3>3
      <4>2. f[i] = step[f[i - 1]]
        BY <3>1, <3>3
      <4> QED
        BY <3>3, <4>1, <4>2
    <3> QED
      BY <3>2, <3>3
  <2>2. \A i \in Nat : f[i] = E(f)[i]
    BY <2>1 DEF Onward
  <2>3. DOMAIN f = Nat /\ f = [i \in Nat |-> f[i]]
    BY <1>5
  <2> QED
    BY <2>2, <2>3
<1>7. reach = E(reach)
  <2> HIDE DEF E
  <2> QED
    BY <1>6
<1> HIDE DEF reach
<1>8. /\ reach[0] = {x}
      /\ \A n \in Nat : reach[n + 1] = Onward(links, reach[n])
  <2>1. \A i \in Nat : reach[i] = E(reach)[i]
    <3> HIDE DEF E
    <3> QED
      BY <1>7
  <2>2. \A n \in Nat : n + 1 \in Nat /\ n + 1 # 0 /\ (n + 1) - 1 = n
    OBVIOUS
  <2> QED
    BY <2>1, <2>2 DEF Onward
<1> DEFINE P == {n \in Nat : reach[n] \in SUBSET Nodes}
<1>9. \A n \in Nat : n \in P
  <2>1. 0 \in P
    BY <1>8
  <2>2. ASSUME NEW n \in Nat, n \in P PROVE n + 1 \in P
    BY <1>8, <2>2 DEF Onward
  <2>3. P \in SUBSET Nat
    OBVIOUS
  <2> HIDE DEF P
  <2> QED
    BY <2>1, <2>2, <2>3, UpToAll
<1> QED
  BY <1>1, <1>8, <1>9

(* The set of nodes reached does not shrink. *)
LEMMA WithinGrows ==
    ASSUME NEW links \in [Nodes -> SUBSET Nodes], NEW x \in Nodes, NEW n \in Nat, NEW m \in Nat, n <= m
    PROVE  Within(links, x, n) \subseteq Within(links, x, m)
<1> DEFINE P == {k \in Nat : Within(links, x, n) \subseteq Within(links, x, n + k)}
<1>1. 0 \in P
  BY Z3
<1>2. ASSUME NEW k \in Nat, k \in P PROVE k + 1 \in P
  <2>1. Within(links, x, (n + k) + 1) = Onward(links, Within(links, x, n + k))
    BY WithinSteps
  <2>2. n + (k + 1) = (n + k) + 1
    OBVIOUS
  <2>3. Within(links, x, n) \subseteq Within(links, x, (n + k) + 1)
    BY <1>2, <2>1 DEF Onward
  <2> QED
    BY <2>2, <2>3
<1>3. P \in SUBSET Nat
  OBVIOUS
<1> HIDE DEF P
<1>4. \A k \in Nat : k \in P
  BY <1>1, <1>2, <1>3, UpToAll
<1>5. m - n \in Nat /\ n + (m - n) = m
  OBVIOUS
<1>6. m - n \in P
  BY <1>4, <1>5
<1> QED
  BY <1>5, <1>6 DEF P

(* A set closed under links that a node is in has all that is within some  *)
(* links of it.                                                            *)
LEMMA WithinClosed ==
    ASSUME NEW links \in [Nodes -> SUBSET Nodes], NEW x \in Nodes,
           NEW C, x \in C, \A y \in C \cap Nodes : links[y] \subseteq C
    PROVE  \A n \in Nat : Within(links, x, n) \subseteq C
<1> DEFINE P == {n \in Nat : Within(links, x, n) \subseteq C}
<1>1. 0 \in P
  BY WithinSteps
<1>2. ASSUME NEW n \in Nat, n \in P PROVE n + 1 \in P
  <2>1. /\ Within(links, x, n + 1) = Onward(links, Within(links, x, n))
        /\ Within(links, x, n) \subseteq C \cap Nodes
    BY <1>2, WithinSteps
  <2>2. Within(links, x, n + 1) \subseteq C
    BY <2>1 DEF Onward
  <2> QED
    BY <2>2
<1>3. P \in SUBSET Nat
  OBVIOUS
<1> HIDE DEF P
<1>4. \A n \in Nat : n \in P
  BY <1>1, <1>2, <1>3, UpToAll
<1> QED
  BY <1>4 DEF P

(* What is within one link more of a node is within that of one of those   *)
(* it links to, or the node itself.                                        *)
LEMMA WithinFront ==
    ASSUME NEW links \in [Nodes -> SUBSET Nodes], NEW x \in Nodes
    PROVE  \A n \in Nat :
              Within(links, x, n + 1) = {x} \cup UNION {Within(links, y, n) : y \in links[x]}
<1> DEFINE front(n) == {x} \cup UNION {Within(links, y, n) : y \in links[x]}
           P == {n \in Nat : Within(links, x, n + 1) = front(n)}
<1>1. 0 \in P
  <2>1. Within(links, x, 0 + 1) = {x} \cup links[x]
    BY WithinSteps DEF Onward
  <2>2. \A y \in links[x] : Within(links, y, 0) = {y}
    BY WithinSteps
  <2>3. front(0) = {x} \cup links[x]
    BY <2>2
  <2> QED
    BY <2>1, <2>3
<1>2. ASSUME NEW n \in Nat, n \in P PROVE n + 1 \in P
  <2>1. Within(links, x, (n + 1) + 1) = Onward(links, Within(links, x, n + 1))
    BY WithinSteps
  <2>2. \A y \in links[x] : Within(links, y, n + 1) = Onward(links, Within(links, y, n))
    BY WithinSteps
  <2>3. Within(links, x, n + 1) = front(n)
    BY <1>2
  <2>4. ASSUME NEW z \in Within(links, x, (n + 1) + 1) PROVE z \in front(n + 1)
    <3>1. z \in front(n) \/ \E w \in front(n) : z \in links[w]
      BY <2>1, <2>3, <2>4 DEF Onward
    <3>2. \A w \in front(n) : w = x \/ \E y \in links[x] : w \in Within(links, y, n)
      OBVIOUS
    <3>3. CASE z = x
      BY <3>3
    <3>4. ASSUME NEW y \in links[x], z \in Within(links, y, n) PROVE z \in front(n + 1)
      BY <2>2, <3>4 DEF Onward
    <3>5. ASSUME z \in links[x] PROVE z \in front(n + 1)
      <4>1. z \in Nodes /\ z \in Within(links, z, 0)
        BY <3>5, WithinSteps
      <4>2. z \in Within(links, z, n + 1)
        BY <4>1, WithinGrows
      <4> QED
        BY <3>5, <4>2
    <3>6. ASSUME NEW y \in links[x], NEW w \in Within(links, y, n), z \in links[w]
          PROVE  z \in front(n + 1)
      <4>1. z \in Within(links, y, n + 1)
        BY <2>2, <3>6 DEF Onward
      <4> QED
        BY <4>1
    <3> HIDE DEF front
    <3> QED
      BY <3>1, <3>2, <3>3, <3>4, <3>5, <3>6
  <2>5. ASSUME NEW z \in front(n + 1) PROVE z \in Within(links, x, (n + 1) + 1)
    <3>1. CASE z = x
      <4>1. x \in Within(links, x, 0)
        BY WithinSteps
      <4>2. x \in Within(links, x, (n + 1) + 1)
        BY <4>1, WithinGrows
      <4> QED
        BY <3>1, <4>2
    <3>2. ASSUME NEW y \in links[x], z \in Within(links, y, n + 1)
          PROVE  z \in Within(links, x, (n + 1) + 1)
      <4>1. z \in Within(links, y, n) \/ \E w \in Within(links, y, n) : z \in links[w]
        BY <2>2, <3>2 DEF Onward
      <4>2. Within(links, y, n) \subseteq Within(links, x, n + 1)
        BY <2>3
      <4> QED
        BY <2>1, <4>1, <4>2 DEF Onward
    <3> QED
      BY <3>1, <3>2
  <2>6. Within(links, x, (n + 1) + 1) = front(n + 1)
    <3> HIDE DEF front
    <3> QED
      BY <2>4, <2>5
  <2> QED
    BY <2>6
<1>3. P \in SUBSET Nat
  OBVIOUS
<1> HIDE DEF P
<1>4. \A n \in Nat : n \in P
  BY <1>1, <1>2, <1>3, UpToAll
<1> QED
  BY <1>4 DEF P

(* As many links as there are nodes reach whatever links reach: as long as *)
(* a further one reaches more, there are more nodes than links so far.     *)
LEMMA ClosureIsAll ==
    ASSUME NEW links \in [Nodes -> SUBSET Nodes], NEW x \in Nodes
    PROVE  /\ \A n \in Nat : Within(links, x, n) \subseteq Closure(links, x)
           /\ \A y \in Closure(links, x) : links[y] \subseteq Closure(links, x)
<1> DEFINE W(n) == Within(links, x, n)
           N == Cardinality(Nodes)
           Still(k) == W(k + 1) = W(k)
           P == {n \in Nat : Cardinality(W(n)) >= n + 1 \/ \E k \in 0 .. n - 1 : Still(k)}
<1>1. \A n \in Nat : IsFiniteSet(W(n)) /\ Cardinality(W(n)) \in Nat /\ Cardinality(W(n)) <= N
  <2>1. \A n \in Nat : W(n) \in SUBSET Nodes
    BY WithinSteps
  <2> QED
    BY <2>1, NodesFinite, FS_Subset, FS_CardinalityType
<1>2. 0 \in P
  <2>1. W(0) = {x}
    BY WithinSteps
  <2>2. Cardinality(W(0)) = 1
    BY <2>1, FS_Singleton
  <2> QED
    BY <2>2
<1>3. ASSUME NEW n \in Nat, n \in P PROVE n + 1 \in P
  <2>1. CASE \E k \in 0 .. n - 1 : Still(k)
    <3>1. \E k \in 0 .. (n + 1) - 1 : Still(k)
      <4> HIDE DEF Still
      <4> QED
        BY <2>1
    <3> QED
      BY <3>1
  <2>2. CASE Still(n)
    <3>1. n \in 0 .. (n + 1) - 1
      OBVIOUS
    <3> HIDE DEF Still
    <3> QED
      BY <2>2, <3>1
  <2>3. CASE Cardinality(W(n)) >= n + 1 /\ ~ Still(n)
    <3>1. W(n) \subseteq W(n + 1)
      BY WithinSteps DEF Onward
    <3>2. Cardinality(W(n)) <= Cardinality(W(n + 1)) /\ Cardinality(W(n)) # Cardinality(W(n + 1))
      <4>1. n + 1 \in Nat
        OBVIOUS
      <4>2. IsFiniteSet(W(n + 1)) /\ W(n) \in SUBSET W(n + 1) /\ W(n) # W(n + 1)
        BY <1>1, <2>3, <3>1, <4>1
      <4> HIDE DEF W
      <4> QED
        BY <4>2, FS_Subset
    <3>3. Cardinality(W(n)) \in Nat /\ Cardinality(W(n + 1)) \in Nat
      BY <1>1
    <3>4. Cardinality(W(n + 1)) >= (n + 1) + 1
      <4> HIDE DEF W
      <4> QED
        BY <2>3, <3>2, <3>3
    <3> QED
      BY <3>4
  <2> QED
    BY <1>3, <2>1, <2>2, <2>3
<1>4. P \in SUBSET Nat /\ N \in Nat
  BY NodesFinite
<1>5. N \in P
  <2> HIDE DEF P, N
  <2> QED
    BY <1>2, <1>3, <1>4, UpToAll
<1>6. PICK k \in 0 .. N - 1 : Still(k)
  <2> HIDE DEF W, N, Still
  <2>1. ~ (Cardinality(W(N)) >= N + 1)
    BY <1>1, <1>4
  <2> QED
    BY <1>5, <2>1
<1>7. k \in Nat /\ k <= N
  BY <1>4, <1>6
<1> DEFINE Q == {i \in Nat : W(k + i) = W(k)}
<1>8. \A i \in Nat : i \in Q
  <2>1. 0 \in Q
    BY <1>7, Z3
  <2>2. ASSUME NEW i \in Nat, i \in Q PROVE i + 1 \in Q
    <3>1. W((k + i) + 1) = Onward(links, W(k + i))
      BY <1>7, WithinSteps
    <3>2. W(k + 1) = Onward(links, W(k))
      BY <1>7, WithinSteps
    <3>3. k + (i + 1) = (k + i) + 1
      BY <1>7
    <3>4. W(k + 1) = W(k) /\ W(k + i) = W(k)
      BY <1>6, <2>2
    <3> HIDE DEF W
    <3>5. W(k + (i + 1)) = W(k)
      BY <3>1, <3>2, <3>3, <3>4
    <3> QED
      BY <3>5
  <2>3. Q \in SUBSET Nat
    OBVIOUS
  <2> HIDE DEF Q
  <2> QED
    BY <2>1, <2>2, <2>3, UpToAll
<1>9. \A m \in Nat : m >= k => W(m) = W(k)
  <2> SUFFICES ASSUME NEW m \in Nat, m >= k PROVE W(m) = W(k)
    OBVIOUS
  <2>1. m - k \in Nat /\ k + (m - k) = m
    BY <1>7
  <2>2. m - k \in Q
    BY <1>8, <2>1
  <2>3. W(k + (m - k)) = W(k)
    <3> HIDE DEF W
    <3> QED
      BY <2>2
  <2> HIDE DEF W
  <2> QED
    BY <2>1, <2>3
<1>10. Closure(links, x) = W(N) /\ W(N) = W(k) /\ W(N + 1) = W(N)
  <2>1. Closure(links, x) = W(N)
    BY DEF Closure
  <2>2. N + 1 \in Nat /\ N + 1 >= k /\ N >= k
    BY <1>4, <1>7
  <2> HIDE DEF W, N
  <2> QED
    BY <2>1, <2>2, <1>4, <1>9
<1>11. ASSUME NEW n \in Nat PROVE W(n) \subseteq W(N)
  <2>1. CASE n <= N
    <3> HIDE DEF N
    <3> QED
      BY <1>4, <2>1, WithinGrows
  <2>2. CASE n >= k
    <3> HIDE DEF W, N
    <3> QED
      BY <1>9, <1>10, <2>2
  <2> HIDE DEF W, N
  <2> QED
    BY <1>4, <1>7, <2>1, <2>2
<1>12. W(N + 1) = Onward(links, W(N))
  <2> HIDE DEF N
  <2> QED
    BY <1>4, WithinSteps
<1>13. \A y \in W(N) : links[y] \subseteq W(N)
  <2> HIDE DEF W, N
  <2> QED
    BY <1>10, <1>12 DEF Onward
<1> HIDE DEF N
<1> QED
  BY <1>10, <1>11, <1>13

(* So the closure of a node is the least set with it that links do not     *)
(* leave, and made of the closures of those it links to.                   *)
LEMMA ClosureProperties ==
    ASSUME NEW links \in [Nodes -> SUBSET Nodes], NEW x \in Nodes
    PROVE  /\ Closure(links, x) \subseteq Nodes /\ x \in Closure(links, x)
           /\ \A C : (x \in C /\ \A y \in C \cap Nodes : links[y] \subseteq C) => Closure(links, x) \subseteq C
           /\ \A y \in Closure(links, x) : Closure(links, y) \subseteq Closure(links, x)
           /\ Closure(links, x) = {x} \cup UNION {Closure(links, y) : y \in links[x]}
<1> DEFINE K(y) == Closure(links, y)
<1>1. \A y \in Nodes :
         /\ K(y) \subseteq Nodes /\ y \in K(y)
         /\ \A C : (y \in C /\ \A z \in C \cap Nodes : links[z] \subseteq C) => K(y) \subseteq C
  <2> SUFFICES ASSUME NEW y \in Nodes
               PROVE  /\ K(y) \subseteq Nodes /\ y \in K(y)
                      /\ \A C : (y \in C /\ \A z \in C \cap Nodes : links[z] \subseteq C) => K(y) \subseteq C
    OBVIOUS
  <2>1. Within(links, y, 0) = {y} /\ Within(links, y, Cardinality(Nodes)) \in SUBSET Nodes
    BY WithinSteps, NodesFinite
  <2>2. K(y) \subseteq Nodes
    BY <2>1 DEF Closure
  <2>3. y \in K(y)
    BY <2>1, ClosureIsAll
  <2>4. ASSUME NEW C, y \in C, \A z \in C \cap Nodes : links[z] \subseteq C PROVE K(y) \subseteq C
    BY <2>4, WithinClosed, NodesFinite DEF Closure
  <2> HIDE DEF K
  <2> QED
    BY <2>2, <2>3, <2>4
<1>2. \A y \in Nodes : \A z \in K(y) : links[z] \subseteq K(y)
  BY ClosureIsAll
<1> HIDE DEF K
<1>3. \A y \in Nodes : \A z \in K(y) : K(z) \subseteq K(y)
  BY <1>1, <1>2
<1> DEFINE F == {x} \cup UNION {K(y) : y \in links[x]}
<1>4. F \subseteq K(x)
  BY <1>1, <1>2, <1>3
<1>5. K(x) \subseteq F
  <2>1. x \in F
    OBVIOUS
  <2>2. links[x] \subseteq F
    BY <1>1
  <2>3. \A y \in links[x] : \A z \in K(y) : links[z] \subseteq K(y)
    BY <1>2
  <2>4. \A z \in F \cap Nodes : links[z] \subseteq F
    BY <2>2, <2>3
  <2> HIDE DEF F
  <2> QED
    BY <1>1, <2>1, <2>4
<1> QED
  BY <1>1, <1>3, <1>4, <1>5 DEF K

-----------------------------------------------------------------------------
(* What a file's exports, and a table of them, are in the model.           *)
Records == UNION {[T -> Nodes] : T \in SUBSET Names}
Tables == [Files -> Records]

(* A file's exports are names of the program, each with a module. *)
LEMMA RecordProperties ==
    /\ \A m \in Records : DOMAIN m \subseteq Names /\ \A n \in DOMAIN m : m[n] \in Nodes
    /\ \A T \in SUBSET Names : \A m \in [T -> Nodes] : m \in Records
  BY DEF Records

(* A name in a file has that file and that name. *)
LEMMA NodeProperties ==
    /\ \A f \in Files, n \in Names : Node(f, n) \in Nodes /\ Node(f, n).file = f /\ Node(f, n).name = n
    /\ \A x \in Nodes : x.file \in Files /\ x.name \in Names /\ Node(x.file, x.name) = x
  BY DEF Node, Nodes

(* What the exports of a file look like. *)
LEMMA ExportProperties ==
    ASSUME prog \in Programs, NEW f \in Files
    PROVE  /\ prog[f].exports \in Seq(Exports) /\ prog[f].imports \subseteq Binding
           /\ ExportsOf(f) \subseteq Exports
           /\ ExportsOf(f) = {prog[f].exports[i] : i \in 1 .. Len(prog[f].exports)}
           /\ \A e \in ExportsOf(f) :
                 /\ e.kind \in {"decl", "list", "from", "star"}
                 /\ e.name \in Names /\ e.as \in Names /\ e.from \in Files
                 /\ e.kind = "decl" => e.as = e.name
           /\ \A b \in prog[f].imports : b.name \in Names /\ b.from \in Files
<1>1. /\ prog[f].exports \in Seq(Exports) /\ prog[f].imports \subseteq Binding
      /\ \A e \in ExportsOf(f) : e.kind = "decl" => e.as = e.name
  BY ProgramAssumption DEF ExportsOf
<1>2. ExportsOf(f) = {prog[f].exports[i] : i \in 1 .. Len(prog[f].exports)}
  BY <1>1 DEF ExportsOf, ToSet
<1>3. ExportsOf(f) \subseteq Exports
  BY <1>1, <1>2
<1> QED
  BY <1>1, <1>2, <1>3 DEF Exports, Binding

(* Links lead to nodes. *)
LEMMA LinkProperties ==
    ASSUME prog \in Programs
    PROVE  /\ AllLinks \in [Nodes -> SUBSET Nodes]
           /\ \A x \in Nodes : AllLinks[x] = Links(x) /\ Links(x) \subseteq Nodes
           /\ \A x \in Nodes : Defines(x) \subseteq Nodes
<1>1. ASSUME NEW x \in Nodes PROVE Links(x) \subseteq Nodes /\ Defines(x) \subseteq Nodes
  <2>1. x.file \in Files /\ x.name \in Names
    BY NodeProperties
  <2>2. \A d \in ExportsOf(x.file) : d.name \in Names /\ d.from \in Files
    BY <2>1, ExportProperties
  <2>3. \A b \in prog[x.file].imports : b.name \in Names /\ b.from \in Files
    BY <2>1, ExportProperties
  <2>4. \A n : Explicit(x.file, n) \subseteq ExportsOf(x.file) /\ ImportsAs(x.file, n) \subseteq prog[x.file].imports
    BY DEF Explicit, ImportsAs
  <2>5. Defines(x) \subseteq Nodes
    BY <2>1, <2>2, <2>4, NodeProperties DEF Defines
  <2>6. \A e \in ExportsOf(x.file) : Node(e.from, x.name) \in Nodes /\ Node(e.from, e.name) \in Nodes
    BY <2>1, <2>2, NodeProperties
  <2>7. \A b \in prog[x.file].imports : Node(b.from, b.name) \in Nodes
    BY <2>3, NodeProperties
  <2>8. ASSUME NEW z \in Links(x) PROVE z \in Nodes
    <3>1. CASE Explicit(x.file, x.name) = {}
      BY <2>6, <2>8, <3>1 DEF Links
    <3>2. CASE Explicit(x.file, x.name) # {}
      <4>1. \/ \E d \in Explicit(x.file, x.name) : z = Node(d.from, d.name)
            \/ \E n : \E b \in ImportsAs(x.file, n) : z = Node(b.from, b.name)
        BY <2>8, <3>2 DEF Links
      <4> QED
        BY <2>4, <2>6, <2>7, <4>1
    <3> QED
      BY <3>1, <3>2
  <2> QED
    BY <2>5, <2>8
<1> QED
  BY <1>1 DEF AllLinks

(* Chains, in terms of links. *)
LEMMA ChainProperties ==
    ASSUME prog \in Programs, NEW x \in Nodes
    PROVE  /\ Chain(x) \subseteq Nodes /\ x \in Chain(x)
           /\ \A C : (x \in C /\ \A y \in C \cap Nodes : Links(y) \subseteq C) => Chain(x) \subseteq C
           /\ \A y \in Chain(x) : Chain(y) \subseteq Chain(x)
           /\ Chain(x) = {x} \cup UNION {Chain(y) : y \in Links(x)}
           /\ \A y \in Links(x) : y \in Chain(x)
           /\ \A n \in Nat : Within(AllLinks, x, n) \subseteq Chain(x)
<1>1. AllLinks \in [Nodes -> SUBSET Nodes] /\ \A y \in Nodes : AllLinks[y] = Links(y)
  BY LinkProperties
<1>2. /\ Chain(x) \subseteq Nodes /\ x \in Chain(x)
      /\ \A C : (x \in C /\ \A y \in C \cap Nodes : AllLinks[y] \subseteq C) => Chain(x) \subseteq C
      /\ \A y \in Chain(x) : Chain(y) \subseteq Chain(x)
      /\ Chain(x) = {x} \cup UNION {Chain(y) : y \in AllLinks[x]}
  BY <1>1, ClosureProperties DEF Chain
<1>3. \A n \in Nat : Within(AllLinks, x, n) \subseteq Chain(x)
  BY <1>1, ClosureIsAll DEF Chain
<1>4. Chain(x) = {x} \cup UNION {Chain(y) : y \in Links(x)}
  BY <1>1, <1>2
<1>5. \A y \in Links(x) : y \in Chain(x)
  <2>1. \A y \in AllLinks[x] : y \in Chain(x)
    BY <1>1, <1>2, ClosureIsAll DEF Chain
  <2> QED
    BY <1>1, <2>1
<1>6. ASSUME NEW C, x \in C, \A y \in C \cap Nodes : Links(y) \subseteq C PROVE Chain(x) \subseteq C
  <2>1. \A y \in C \cap Nodes : AllLinks[y] \subseteq C
    BY <1>1, <1>6
  <2> QED
    BY <1>2, <1>6, <2>1
<1> QED
  BY <1>2, <1>3, <1>4, <1>5, <1>6

(* The declarations behind a name are its own and those behind the names   *)
(* it links to.                                                            *)
LEMMA OriginProperties ==
    ASSUME prog \in Programs, NEW x \in Nodes
    PROVE  /\ Origins(x) \subseteq Nodes
           /\ Origins(x) = Defines(x) \cup UNION {Origins(y) : y \in Links(x)}
           /\ \A y \in Chain(x) : Origins(y) \subseteq Origins(x)
<1>1. /\ Chain(x) \subseteq Nodes /\ \A y \in Chain(x) : Chain(y) \subseteq Chain(x)
      /\ Chain(x) = {x} \cup UNION {Chain(y) : y \in Links(x)}
  BY ChainProperties
<1>2. Origins(x) \subseteq Nodes
  BY <1>1, LinkProperties DEF Origins
<1>3. \A y \in Chain(x) : Origins(y) \subseteq Origins(x)
  BY <1>1 DEF Origins
<1>4. Origins(x) = Defines(x) \cup UNION {Origins(y) : y \in Links(x)}
  BY <1>1 DEF Origins
<1> QED
  BY <1>2, <1>3, <1>4

(* What can be imported has one origin, and so has what is on its way and  *)
(* has any.                                                                *)
LEMMA ImportableBelow ==
    ASSUME prog \in Programs, NEW x \in Nodes, Importable(x),
           NEW y \in Chain(x), Origins(y) # {}
    PROVE  Importable(y) /\ Origins(y) = Origins(x) /\ y \in Nodes
<1>1. y \in Nodes /\ Chain(y) \subseteq Chain(x)
  BY ChainProperties
<1>2. IsFiniteSet(Origins(x)) /\ Cardinality(Origins(x)) = 1
  BY OriginProperties, NodesFinite, FS_Subset DEF Importable
<1>3. PICK z : Origins(x) = {z}
  BY <1>2, FS_Singleton
<1>4. Origins(y) = {z}
  BY <1>3, OriginProperties
<1> QED
  BY <1>1, <1>2, <1>3, <1>4 DEF Importable

(* A name that can be imported and is exported under that name. *)
LEMMA ImportableExplicit ==
    ASSUME prog \in Programs, NEW x \in Nodes, Importable(x),
           NEW e \in Explicit(x.file, x.name)
    PROVE  /\ Explicit(x.file, x.name) = {e} /\ e \in ExportsOf(x.file) /\ e.as = x.name
           /\ e.kind = "decl" => Origins(x) = {x} /\ Chain(x) = {x} /\ Defines(x) = {x}
           /\ e.kind = "from" =>
                 LET y == Node(e.from, e.name)
                 IN  /\ y \in Nodes /\ y \in Chain(x) /\ Links(x) = {y} /\ Defines(x) = {}
                     /\ Importable(y) /\ Origins(y) = Origins(x)
<1>1. x \in Chain(x)
  BY ChainProperties
<1>2. Explicit(x.file, x.name) = {e}
  BY <1>1 DEF Importable
<1>3. e \in ExportsOf(x.file) /\ e.as = x.name /\ e.kind # "star"
  BY DEF Explicit
<1>4. x.file \in Files /\ x.name \in Names /\ Node(x.file, x.name) = x
  BY NodeProperties
<1>5. e.name \in Names /\ e.from \in Files /\ (e.kind = "decl" => e.as = e.name)
  BY <1>3, <1>4, ExportProperties
<1>6. ASSUME e.kind = "decl" PROVE Origins(x) = {x} /\ Chain(x) = {x} /\ Defines(x) = {x}
  <2>1. Links(x) = {}
    BY <1>2, <1>6 DEF Links
  <2>2. Defines(x) = {x}
    <3>1. Declares(x.file, e)
      BY <1>6 DEF Declares
    <3>2. Node(x.file, e.name) = x
      BY <1>3, <1>4, <1>5, <1>6
    <3> QED
      BY <1>2, <3>1, <3>2 DEF Defines
  <2>3. Chain(x) = {x}
    BY <2>1, ChainProperties
  <2>4. Origins(x) = {x}
    BY <2>1, <2>2, OriginProperties
  <2> QED
    BY <2>2, <2>3, <2>4
<1>7. ASSUME e.kind = "from"
      PROVE  LET y == Node(e.from, e.name)
             IN  /\ y \in Nodes /\ y \in Chain(x) /\ Links(x) = {y} /\ Defines(x) = {}
                 /\ Importable(y) /\ Origins(y) = Origins(x)
  <2> DEFINE y == Node(e.from, e.name)
  <2>1. y \in Nodes
    BY <1>5, NodeProperties
  <2>2. Links(x) = {y}
    <3>1. {d \in Explicit(x.file, x.name) : d.kind = "from"} = {e}
      BY <1>2, <1>7
    <3>2. {d \in Explicit(x.file, x.name) : d.kind = "list"} = {}
      BY <1>2, <1>7
    <3> QED
      BY <1>2, <3>1, <3>2 DEF Links
  <2>3. Defines(x) = {}
    <3>1. ~ Declares(x.file, e)
      BY <1>7 DEF Declares
    <3> QED
      BY <1>2, <3>1 DEF Defines
  <2>4. y \in Chain(x)
    BY <2>2, ChainProperties
  <2>5. Origins(x) = Origins(y) /\ Origins(x) # {}
    <3>1. Origins(x) # {}
      BY <1>1, <1>2 DEF Importable
    <3> HIDE DEF y
    <3>2. Origins(x) = Defines(x) \cup UNION {Origins(z) : z \in Links(x)}
      BY OriginProperties
    <3>3. UNION {Origins(z) : z \in {y}} = Origins(y)
      OBVIOUS
    <3> QED
      BY <2>2, <2>3, <3>1, <3>2, <3>3
  <2>6. Importable(y)
    <3> HIDE DEF y
    <3> QED
      BY <2>4, <2>5, ImportableBelow
  <2> QED
    BY <2>1, <2>2, <2>3, <2>4, <2>5, <2>6
<1> QED
  BY <1>2, <1>3, <1>6, <1>7

(* A name that is exported by stars only. *)
LEMMA ByStars ==
    ASSUME prog \in Programs, NEW x \in Nodes, Explicit(x.file, x.name) = {}
    PROVE  /\ Links(x) = {Node(e.from, x.name) : e \in {d \in ExportsOf(x.file) : d.kind = "star"}}
           /\ Defines(x) = {}
  BY DEF Links, Defines

-----------------------------------------------------------------------------
(* What the exports E of file f make of table r. *)
Pass(r, f, E, q) ==
    /\ q \in Tables
    /\ \A g \in Files \ {f} : q[g] = r[g]
    /\ DOMAIN r[f] \subseteq DOMAIN q[f]
    /\ \A e \in E : e.kind = "from" => e.as \in DOMAIN q[f]
    /\ \A e \in E : e.kind = "star" => DOMAIN r[e.from] \subseteq DOMAIN q[f]
    /\ \A n \in DOMAIN q[f] :
          \/ \E e \in E : e.kind = "from" /\ e.as = n /\ q[f][n] = OriginOf(r, e)
          \/ /\ \A e \in E : ~ (e.kind = "from" /\ e.as = n)
             /\ n \in DOMAIN r[f] /\ q[f][n] = r[f][n]
          \/ /\ \A e \in E : ~ (e.kind = "from" /\ e.as = n)
             /\ n \notin DOMAIN r[f]
             /\ \E e \in E : e.kind = "star" /\ n \in DOMAIN r[e.from] /\ q[f][n] = r[e.from][n]

(* One more export, of another file than f if it names one. *)
LEMMA PassStep ==
    ASSUME NEW r \in Tables, NEW f \in Files, NEW E \in SUBSET Exports, NEW q, Pass(r, f, E, q),
           NEW e \in Exports, ~ (e.kind = "from" /\ e.from = f)
    PROVE  Pass(r, f, E \cup {e}, Apply(q, f, e))
<1>1. /\ q \in Tables /\ e.from \in Files /\ e.name \in Names /\ e.as \in Names
      /\ e.kind \in {"decl", "list", "from", "star"} /\ DOMAIN q = Files
  BY DEF Pass, Exports, Tables
<1>2. /\ q[f] \in Records /\ q[e.from] \in Records /\ r[f] \in Records /\ r[e.from] \in Records
  BY <1>1 DEF Tables
<1> DEFINE p == Apply(q, f, e)
<1>3. ASSUME NEW m \in Records, p = [q EXCEPT ![f] = m]
      PROVE  p \in Tables /\ p[f] = m /\ \A g \in Files \ {f} : p[g] = r[g]
  BY <1>1, <1>3 DEF Pass, Tables
<1>4. CASE e.kind = "from"
  <2>1. q[e.from] = r[e.from]
    BY <1>1, <1>4 DEF Pass
  <2>2. OriginOf(q, e) = OriginOf(r, e)
    BY <2>1 DEF OriginOf
  <2>3. OriginOf(r, e) \in Nodes
    BY <1>1, <1>2, RecordProperties, NodeProperties DEF OriginOf
  <2> DEFINE m == Set(q[f], e.as, OriginOf(r, e))
  <2>4. p = [q EXCEPT ![f] = m]
    BY <1>4, <2>2 DEF Apply
  <2>5. /\ DOMAIN m = DOMAIN q[f] \cup {e.as}
        /\ m[e.as] = OriginOf(r, e)
        /\ \A n \in DOMAIN q[f] : n # e.as => m[n] = q[f][n]
    BY DEF Set
  <2>6. m \in Records
    <3>1. DOMAIN q[f] \subseteq Names /\ \A n \in DOMAIN q[f] : q[f][n] \in Nodes
      BY <1>2, RecordProperties
    <3>2. m \in [DOMAIN q[f] \cup {e.as} -> Nodes]
      BY <2>3, <3>1 DEF Set
    <3> HIDE DEF m
    <3> QED
      BY <1>1, <3>1, <3>2, RecordProperties
  <2> HIDE DEF m
  <2>7. p \in Tables /\ p[f] = m /\ \A g \in Files \ {f} : p[g] = r[g]
    BY <1>3, <2>4, <2>6
  <2> HIDE DEF p
  <2>8. \A d \in E \cup {e} : d.kind = "from" => d.as \in DOMAIN p[f]
    BY <2>5, <2>7 DEF Pass
  <2>9. \A d \in E \cup {e} : d.kind = "star" => DOMAIN r[d.from] \subseteq DOMAIN p[f]
    BY <1>4, <2>5, <2>7 DEF Pass
  <2>10. ASSUME NEW n \in DOMAIN p[f]
         PROVE  \/ \E d \in E \cup {e} : d.kind = "from" /\ d.as = n /\ p[f][n] = OriginOf(r, d)
                \/ /\ \A d \in E \cup {e} : ~ (d.kind = "from" /\ d.as = n)
                   /\ n \in DOMAIN r[f] /\ p[f][n] = r[f][n]
                \/ /\ \A d \in E \cup {e} : ~ (d.kind = "from" /\ d.as = n)
                   /\ n \notin DOMAIN r[f]
                   /\ \E d \in E \cup {e} : d.kind = "star" /\ n \in DOMAIN r[d.from] /\ p[f][n] = r[d.from][n]
    <3>1. CASE n = e.as
      BY <1>4, <2>5, <2>7, <3>1
    <3>2. CASE n # e.as
      <4>1. n \in DOMAIN q[f] /\ p[f][n] = q[f][n]
        BY <2>5, <2>7, <3>2
      <4> QED
        BY <3>2, <4>1 DEF Pass
    <3> QED
      BY <3>1, <3>2
  <2>11. DOMAIN r[f] \subseteq DOMAIN p[f]
    BY <2>5, <2>7 DEF Pass
  <2>12. Pass(r, f, E \cup {e}, p)
    BY <2>7, <2>8, <2>9, <2>10, <2>11 DEF Pass
  <2> QED
    BY <2>12 DEF p
<1>5. CASE e.kind = "star"
  <2> DEFINE m == WithAllOf(q[f], q[e.from])
  <2>1. p = [q EXCEPT ![f] = m]
    BY <1>5 DEF Apply
  <2>2. /\ DOMAIN m = DOMAIN q[f] \cup DOMAIN q[e.from]
        /\ \A n \in DOMAIN q[f] : m[n] = q[f][n]
        /\ \A n \in DOMAIN q[e.from] : n \notin DOMAIN q[f] => m[n] = q[e.from][n]
    BY DEF WithAllOf
  <2>3. m \in Records
    <3>1. /\ DOMAIN q[f] \subseteq Names /\ \A n \in DOMAIN q[f] : q[f][n] \in Nodes
          /\ DOMAIN q[e.from] \subseteq Names /\ \A n \in DOMAIN q[e.from] : q[e.from][n] \in Nodes
      BY <1>2, RecordProperties
    <3>2. m \in [DOMAIN q[f] \cup DOMAIN q[e.from] -> Nodes]
      BY <3>1 DEF WithAllOf
    <3> HIDE DEF m
    <3> QED
      BY <3>1, <3>2, RecordProperties
  <2> HIDE DEF m
  <2>4. p \in Tables /\ p[f] = m /\ \A g \in Files \ {f} : p[g] = r[g]
    BY <1>3, <2>1, <2>3
  <2> HIDE DEF p
  <2>5. \A n \in DOMAIN p[f] : n \notin DOMAIN q[f] => e.from # f /\ n \in DOMAIN r[e.from] /\ p[f][n] = r[e.from][n]
    BY <1>1, <2>2, <2>4 DEF Pass
  <2>6. DOMAIN r[e.from] \subseteq DOMAIN p[f]
    <3>1. CASE e.from = f
      BY <2>2, <2>4, <3>1 DEF Pass
    <3>2. CASE e.from # f
      <4>1. q[e.from] = r[e.from]
        BY <1>1, <3>2 DEF Pass
      <4> QED
        BY <2>2, <2>4, <4>1
    <3> QED
      BY <3>1, <3>2
  <2>7. \A d \in E \cup {e} : d.kind = "from" => d.as \in DOMAIN p[f]
    BY <1>5, <2>2, <2>4 DEF Pass
  <2>8. \A d \in E \cup {e} : d.kind = "star" => DOMAIN r[d.from] \subseteq DOMAIN p[f]
    BY <2>2, <2>4, <2>6 DEF Pass
  <2>9. ASSUME NEW n \in DOMAIN p[f]
         PROVE  \/ \E d \in E \cup {e} : d.kind = "from" /\ d.as = n /\ p[f][n] = OriginOf(r, d)
                \/ /\ \A d \in E \cup {e} : ~ (d.kind = "from" /\ d.as = n)
                   /\ n \in DOMAIN r[f] /\ p[f][n] = r[f][n]
                \/ /\ \A d \in E \cup {e} : ~ (d.kind = "from" /\ d.as = n)
                   /\ n \notin DOMAIN r[f]
                   /\ \E d \in E \cup {e} : d.kind = "star" /\ n \in DOMAIN r[d.from] /\ p[f][n] = r[d.from][n]
    <3>1. CASE n \in DOMAIN q[f]
      <4>1. p[f][n] = q[f][n]
        BY <2>2, <2>4, <3>1
      <4> QED
        BY <1>5, <3>1, <4>1 DEF Pass
    <3>2. CASE n \notin DOMAIN q[f]
      <4>1. n \in DOMAIN r[e.from] /\ p[f][n] = r[e.from][n]
        BY <2>5, <3>2
      <4>2. n \notin DOMAIN r[f] /\ \A d \in E : ~ (d.kind = "from" /\ d.as = n)
        BY <3>2 DEF Pass
      <4> QED
        BY <1>5, <4>1, <4>2
    <3> QED
      BY <3>1, <3>2
  <2>10. DOMAIN r[f] \subseteq DOMAIN p[f]
    BY <2>2, <2>4 DEF Pass
  <2>11. Pass(r, f, E \cup {e}, p)
    BY <2>4, <2>7, <2>8, <2>9, <2>10 DEF Pass
  <2> QED
    BY <2>11 DEF p
<1>6. CASE e.kind \in {"decl", "list"}
  <2>1. p = q
    BY <1>6 DEF Apply
  <2> QED
    BY <1>6, <2>1 DEF Pass
<1> QED
  BY <1>1, <1>4, <1>5, <1>6

(* Following an export gives a table again. *)
LEMMA ApplyTables ==
    ASSUME NEW q \in Tables, NEW f \in Files, NEW e \in Exports
    PROVE  Apply(q, f, e) \in Tables
<1>1. /\ e.from \in Files /\ e.name \in Names /\ e.as \in Names
      /\ q[f] \in Records /\ q[e.from] \in Records
  BY DEF Exports, Tables
<1>2. /\ DOMAIN q[f] \subseteq Names /\ \A n \in DOMAIN q[f] : q[f][n] \in Nodes
      /\ DOMAIN q[e.from] \subseteq Names /\ \A n \in DOMAIN q[e.from] : q[e.from][n] \in Nodes
  BY <1>1, RecordProperties
<1>3. OriginOf(q, e) \in Nodes
  BY <1>1, <1>2, NodeProperties DEF OriginOf
<1>4. Set(q[f], e.as, OriginOf(q, e)) \in Records
  <2>1. Set(q[f], e.as, OriginOf(q, e)) \in [DOMAIN q[f] \cup {e.as} -> Nodes]
    BY <1>2, <1>3 DEF Set
  <2> QED
    BY <1>1, <1>2, <2>1, RecordProperties
<1>5. WithAllOf(q[f], q[e.from]) \in Records
  <2>1. WithAllOf(q[f], q[e.from]) \in [DOMAIN q[f] \cup DOMAIN q[e.from] -> Nodes]
    BY <1>2 DEF WithAllOf
  <2> QED
    BY <1>1, <1>2, <2>1, RecordProperties
<1>6. \A m \in Records : [q EXCEPT ![f] = m] \in Tables
  BY DEF Tables
<1>7. \/ Apply(q, f, e) = [q EXCEPT ![f] = Set(q[f], e.as, OriginOf(q, e))]
      \/ Apply(q, f, e) = [q EXCEPT ![f] = WithAllOf(q[f], q[e.from])]
      \/ Apply(q, f, e) = q
  BY DEF Apply
<1> QED
  BY <1>4, <1>5, <1>6, <1>7

(* What the fold over the exports of a file returns. *)
LEMMA FollowedPasses ==
    ASSUME prog \in Programs, resolved \in Tables, changed \in BOOLEAN, NEW f \in Files
    PROVE  /\ Followed(f).resolved \in Tables /\ Followed(f).changed \in BOOLEAN
           /\ ~ FromItself => Pass(resolved, f, ExportsOf(f), Followed(f).resolved)
           /\ ~ Followed(f).changed => (~ changed /\ Followed(f).resolved = resolved)
<1> DEFINE es == prog[f].exports
           D == 0 .. Len(es)
           Accs == [resolved : Tables, changed : BOOLEAN]
           start == [resolved |-> resolved, changed |-> changed]
           G == [i \in D |-> [a \in Accs |-> IF i = 0 THEN a ELSE Follow(a, f, es[i])]]
           E(h) == [i \in D |-> IF i = 0 THEN start ELSE Follow(h[i - 1], f, es[i])]
           after == CHOOSE h : h = E(h)
<1>1. Followed(f) = after[Len(es)]
  BY DEF Followed
<1>2. /\ es \in Seq(Exports) /\ Len(es) \in Nat
      /\ \A i \in 1 .. Len(es) : es[i] \in Exports /\ es[i] \in ExportsOf(f)
      /\ ExportsOf(f) = {es[i] : i \in 1 .. Len(es)}
  BY ExportProperties
<1>3. start \in Accs
  OBVIOUS
<1>4. \A a \in Accs : \A i \in 1 .. Len(es) : Follow(a, f, es[i]) \in Accs
  BY <1>2, ApplyTables DEF Follow
<1> HIDE DEF Accs, es
<1>5. PICK h \in [D -> Accs] : \A i \in D : h[i] = IF i = 0 THEN start ELSE G[i][h[i - 1]]
  <2>1. D \in SUBSET Nat /\ \A n \in D : 0 .. n \subseteq D
    BY <1>2
  <2>2. G \in [D -> [Accs -> Accs]]
    BY <1>2, <1>4
  <2> HIDE DEF D, G, start
  <2>3. HasRecursion(D, Accs, start, G)
    BY <1>3, <2>1, <2>2, Recursion
  <2> QED
    BY <2>3 DEF HasRecursion
<1>6. h = E(h)
  <2>1. ASSUME NEW i \in D PROVE h[i] = E(h)[i]
    <3>1. h[i] = IF i = 0 THEN start ELSE G[i][h[i - 1]]
      BY <1>5
    <3>2. CASE i = 0
      BY <3>1, <3>2
    <3>3. CASE i # 0
      <4>1. i - 1 \in D /\ h[i - 1] \in Accs
        <5>1. i - 1 \in D
          BY <1>2, <3>3
        <5> HIDE DEF D
        <5> QED
          BY <1>5, <5>1
      <4>2. h[i] = Follow(h[i - 1], f, es[i])
        BY <3>1, <3>3, <4>1
      <4> HIDE DEF start
      <4> QED
        BY <3>3, <4>2
    <3> QED
      BY <3>2, <3>3
  <2>2. DOMAIN h = D /\ h = [i \in D |-> h[i]]
    BY <1>5
  <2> QED
    BY <2>1, <2>2
<1>7. after = E(after)
  <2> HIDE DEF E
  <2> QED
    BY <1>6
<1> HIDE DEF after
<1>8. /\ after[0] = start
      /\ \A i \in 0 .. Len(es) - 1 : after[i + 1] = Follow(after[i], f, es[i + 1])
  <2>1. \A i \in D : after[i] = E(after)[i]
    <3> HIDE DEF E
    <3> QED
      BY <1>7
  <2>2. \A i \in 0 .. Len(es) - 1 : i + 1 \in D /\ i + 1 # 0 /\ (i + 1) - 1 = i
    BY <1>2
  <2> HIDE DEF start
  <2> QED
    BY <1>2, <2>1, <2>2
<1> DEFINE Es(i) == {es[j] : j \in 1 .. i}
           Good(i) == /\ after[i].resolved \in Tables /\ after[i].changed \in BOOLEAN
                      /\ ~ FromItself => Pass(resolved, f, Es(i), after[i].resolved)
                      /\ ~ after[i].changed => (~ changed /\ after[i].resolved = resolved)
           P == {i \in Nat : Good(i)}
<1>9. 0 \in P
  <2>1. Es(0) = {} /\ after[0].resolved = resolved /\ after[0].changed = changed
    BY <1>8
  <2>2. Pass(resolved, f, {}, resolved)
    BY DEF Pass
  <2> HIDE DEF Es
  <2> QED
    BY <2>1, <2>2
<1>10. ASSUME NEW i \in 0 .. Len(es) - 1, i \in P PROVE i + 1 \in P
  <2> DEFINE e == es[i + 1]
             a == after[i]
  <2>1. e \in Exports /\ e \in ExportsOf(f) /\ (~ FromItself => ~ (e.kind = "from" /\ e.from = f))
    BY <1>2 DEF FromItself
  <2>2. Es(i + 1) = Es(i) \cup {e}
    OBVIOUS
  <2>3. Es(i) \in SUBSET Exports
    BY <1>2
  <2>4. after[i + 1] = [resolved |-> Apply(a.resolved, f, e),
                        changed |-> a.changed \/ Apply(a.resolved, f, e) # a.resolved]
    BY <1>8 DEF Follow
  <2>5. Good(i)
    BY <1>10
  <2> HIDE DEF Es, e, a
  <2>6. a.resolved \in Tables /\ (~ FromItself => Pass(resolved, f, Es(i), a.resolved))
    BY <2>5 DEF a
  <2>7. /\ Apply(a.resolved, f, e) \in Tables
        /\ ~ FromItself => Pass(resolved, f, Es(i) \cup {e}, Apply(a.resolved, f, e))
    BY <2>1, <2>3, <2>6, PassStep, ApplyTables
  <2>8. after[i + 1].changed \in BOOLEAN
    BY <2>4, <2>5 DEF a
  <2> DEFINE p == Apply(a.resolved, f, e)
             b == after[i + 1]
  <2>9. b.resolved = p /\ b.changed = (a.changed \/ p # a.resolved)
    <3> HIDE DEF p
    <3> QED
      BY <2>4 DEF p
  <2>10. a.changed \in BOOLEAN /\ (~ a.changed => (~ changed /\ a.resolved = resolved))
    BY <2>5 DEF a
  <2> HIDE DEF p, b
  <2>11. ASSUME ~ b.changed PROVE ~ changed /\ b.resolved = resolved
    <3>1. ~ a.changed /\ p = a.resolved
      BY <2>9, <2>11
    <3> QED
      BY <2>9, <2>10, <3>1
  <2>12. b.resolved \in Tables /\ (~ FromItself => Pass(resolved, f, Es(i + 1), b.resolved))
    BY <2>2, <2>7, <2>9 DEF p
  <2>13. Good(i + 1)
    BY <2>8, <2>11, <2>12 DEF b
  <2> HIDE DEF Good
  <2> QED
    BY <2>10
<1>11. Len(es) \in P
  <2>1. P \in SUBSET Nat
    OBVIOUS
  <2> HIDE DEF P
  <2>2. 0 .. Len(es) \subseteq P
    BY <1>2, <1>9, <1>10, <2>1, UpTo
  <2> QED
    BY <1>2, <2>2
<1>12. Es(Len(es)) = ExportsOf(f)
  BY <1>2
<1> HIDE DEF Es
<1> QED
  BY <1>1, <1>11, <1>12

-----------------------------------------------------------------------------
(* The invariant, as a property of a table: whatever is on record is there *)
(* because some file on the chain exports it by name, declarations are on  *)
(* record, and a record stands for what its name stands for, exactly if    *)
(* nothing provisional is on the chain; it never leaves the chain.         *)
On(r, x) == x.name \in DOMAIN r[x.file]
At(r, x) == r[x.file][x.name]

Named(x) == Explicit(x.file, x.name) # {}

Settled(x) == \A y \in Chain(x) : ~ Provisional(y)

Rooted(r) == \A x \in Nodes : On(r, x) => \E y \in Chain(x) : Named(y)
LocalsOn(r) == \A x \in Nodes : x.name \in LocalsOf(x.file) => On(r, x)
Same(r) == \A x \in Nodes : (On(r, x) /\ Importable(x)) => Origins(At(r, x)) = Origins(x)
Exact(r) ==
    ~ Lists => \A x \in Nodes : (On(r, x) /\ Importable(x) /\ Settled(x)) => Origins(x) = {At(r, x)}

OnChain(r) ==
    \A x \in Nodes : On(r, x) =>
        /\ At(r, x) \in Chain(x)
        /\ ~ Aliases => At(r, x).name = x.name

Right(r) == r \in Tables /\ Rooted(r) /\ LocalsOn(r) /\ Same(r) /\ Exact(r) /\ OnChain(r)

(* How far the table has got with the names of a file: those whose         *)
(* declaration is not more than k links away are on record, and exact      *)
(* unless a provisional origin was taken over.                             *)
Near(x, k) == \E y \in Within(AllLinks, x, k) : Defines(y) # {}

Found(r, x) == On(r, x) /\ ((~ Lists /\ ~ TakenOver(x)) => Origins(x) = {At(r, x)})

FoundUpTo(r, f, k) == \A x \in Nodes : (x.file = f /\ Importable(x) /\ Near(x, k)) => Found(r, x)

(* A name is local, re-exported by name, or exported by stars only.        *)
LEMMA NamedOrNot ==
    ASSUME prog \in Programs, ~ ListAliases, NEW x \in Nodes
    PROVE  /\ x.name \in LocalsOf(x.file) <=> \E e \in Explicit(x.file, x.name) : IsLocal(e)
           /\ (~ Lists /\ x.name \in LocalsOf(x.file)) =>
                 \E e \in Explicit(x.file, x.name) : e.kind = "decl"
           /\ (x.name \notin LocalsOf(x.file)
               /\ \A e \in ExportsOf(x.file) : ~ (e.kind = "from" /\ e.as = x.name)) => ~ Named(x)
<1>1. x.file \in Files
  BY NodeProperties
<1>2. \A e \in ExportsOf(x.file) :
         /\ e.kind \in {"decl", "list", "from", "star"}
         /\ IsLocal(e) => e.as = e.name
  BY <1>1, ExportProperties DEF ListAliases, IsLocal
<1>3. ~ Lists => \A e \in ExportsOf(x.file) : e.kind # "list"
  BY <1>1 DEF Lists
<1>4. x.name \in LocalsOf(x.file) <=> \E e \in ExportsOf(x.file) : IsLocal(e) /\ e.name = x.name
  BY DEF LocalsOf
<1>5. \A e : e \in Explicit(x.file, x.name) <=> (e \in ExportsOf(x.file) /\ e.kind # "star" /\ e.as = x.name)
  BY DEF Explicit
<1> QED
  BY <1>2, <1>3, <1>4, <1>5 DEF IsLocal, Named

(* The entries a pass over the exports of a file leaves for it.            *)
LEMMA PassEntry ==
    ASSUME prog \in Programs, ~ ListAliases, NEW r, Right(r), NEW q,
           NEW x \in Nodes, Pass(r, x.file, ExportsOf(x.file), q), On(q, x)
    PROVE  \/ \E e \in Explicit(x.file, x.name) : e.kind = "from" /\ At(q, x) = OriginOf(r, e)
           \/ On(r, x) /\ At(q, x) = At(r, x)
           \/ ~ Named(x) /\ \E y \in Links(x) : On(r, y) /\ At(q, x) = At(r, y)
<1> DEFINE f == x.file
           n == x.name
<1>1. f \in Files /\ n \in Names
  BY NodeProperties
<1>2. CASE \E e \in ExportsOf(f) : e.kind = "from" /\ e.as = n /\ q[f][n] = OriginOf(r, e)
  BY <1>2 DEF Explicit, At
<1>3. CASE n \in DOMAIN r[f] /\ q[f][n] = r[f][n]
  BY <1>3 DEF On, At
<1>4. CASE /\ \A e \in ExportsOf(f) : ~ (e.kind = "from" /\ e.as = n)
           /\ n \notin DOMAIN r[f]
           /\ \E e \in ExportsOf(f) : e.kind = "star" /\ n \in DOMAIN r[e.from] /\ q[f][n] = r[e.from][n]
  <2>1. x.name \notin LocalsOf(f)
    BY <1>4 DEF Right, LocalsOn, On
  <2>2. ~ Named(x)
    BY <1>4, <2>1, NamedOrNot
  <2>3. PICK e \in ExportsOf(f) : e.kind = "star" /\ n \in DOMAIN r[e.from] /\ q[f][n] = r[e.from][n]
    BY <1>4
  <2>4. Node(e.from, n) \in Links(x)
    BY <2>2, <2>3, ByStars DEF Named
  <2>5. On(r, Node(e.from, n)) /\ At(q, x) = At(r, Node(e.from, n))
    BY <2>3 DEF On, At, Node
  <2> QED
    BY <2>2, <2>4, <2>5
<1> QED
  BY <1>2, <1>3, <1>4 DEF Pass, On

(* What a star leads to and is on record can be imported. *)
LEMMA StarImportable ==
    ASSUME prog \in Programs, NEW r, Rooted(r), NEW x \in Nodes, Importable(x),
           NEW y \in Links(x), On(r, y)
    PROVE  Importable(y) /\ Origins(y) = Origins(x) /\ y \in Nodes /\ y \in Chain(x) /\ Chain(y) \subseteq Chain(x)
<1>1. y \in Chain(x) /\ y \in Nodes /\ Chain(y) \subseteq Chain(x)
  BY ChainProperties
<1>2. PICK z \in Chain(y) : Named(z)
  BY <1>1 DEF Rooted
<1>3. Origins(z) # {}
  BY <1>1, <1>2 DEF Importable, Named
<1>4. Origins(y) # {}
  BY <1>1, <1>2, <1>3, OriginProperties
<1> QED
  BY <1>1, <1>4, ImportableBelow

(* A pass over the exports of a file keeps the table right. *)
LEMMA PassRight ==
    ASSUME prog \in Programs, ~ ListAliases, NEW r, Right(r), NEW f \in Files, NEW q,
           Pass(r, f, ExportsOf(f), q)
    PROVE  Right(q)
<1>1. q \in Tables /\ r \in Tables
  BY DEF Pass, Right
<1>2. ASSUME NEW x \in Nodes, x.file # f PROVE (On(q, x) <=> On(r, x)) /\ At(q, x) = At(r, x)
  <2>1. x.file \in Files \ {f}
    BY <1>2, NodeProperties
  <2> QED
    BY <2>1 DEF Pass, On, At
<1>3. ASSUME NEW x \in Nodes, x.file = f, On(q, x)
      PROVE  \/ \E e \in Explicit(x.file, x.name) : e.kind = "from" /\ At(q, x) = OriginOf(r, e)
             \/ On(r, x) /\ At(q, x) = At(r, x)
             \/ ~ Named(x) /\ \E y \in Links(x) : On(r, y) /\ At(q, x) = At(r, y)
  BY <1>3, PassEntry
<1>4. Rooted(q)
  <2> SUFFICES ASSUME NEW x \in Nodes, On(q, x) PROVE \E y \in Chain(x) : Named(y)
    BY DEF Rooted
  <2>1. x \in Chain(x)
    BY ChainProperties
  <2>2. CASE On(r, x)
    BY <2>2 DEF Right, Rooted
  <2>3. CASE Named(x)
    BY <2>1, <2>3
  <2>4. ASSUME NEW y \in Links(x), On(r, y) PROVE \E z \in Chain(x) : Named(z)
    <3>1. y \in Nodes /\ Chain(y) \subseteq Chain(x)
      BY ChainProperties
    <3> QED
      BY <2>4, <3>1 DEF Right, Rooted
  <2> QED
    BY <1>2, <1>3, <2>2, <2>3, <2>4 DEF Named
<1>5. LocalsOn(q)
  <2> SUFFICES ASSUME NEW x \in Nodes, On(r, x) PROVE On(q, x)
    BY DEF LocalsOn, Right
  <2> QED
    BY <1>2 DEF Pass, On
<1>6. Same(q)
  <2> SUFFICES ASSUME NEW x \in Nodes, On(q, x), Importable(x) PROVE Origins(At(q, x)) = Origins(x)
    BY DEF Same
  <2>1. CASE On(r, x) /\ At(q, x) = At(r, x)
    BY <2>1 DEF Right, Same
  <2>2. ASSUME NEW e \in Explicit(x.file, x.name), e.kind = "from", At(q, x) = OriginOf(r, e)
        PROVE  Origins(At(q, x)) = Origins(x)
    <3> DEFINE y == Node(e.from, e.name)
    <3>1. y \in Nodes /\ Importable(y) /\ Origins(y) = Origins(x)
      BY <2>2, ImportableExplicit
    <3>2. At(q, x) = y \/ (On(r, y) /\ At(q, x) = At(r, y))
      BY <2>2 DEF OriginOf, On, At, Node
    <3> HIDE DEF y
    <3> QED
      BY <3>1, <3>2 DEF Right, Same
  <2>3. ASSUME NEW y \in Links(x), On(r, y), At(q, x) = At(r, y)
        PROVE  Origins(At(q, x)) = Origins(x)
    <3>1. Importable(y) /\ Origins(y) = Origins(x) /\ y \in Nodes
      BY <2>3, StarImportable DEF Right
    <3> QED
      BY <2>3, <3>1 DEF Right, Same
  <2> QED
    BY <1>2, <1>3, <2>1, <2>2, <2>3
<1>7. Exact(q)
  <2> SUFFICES ASSUME ~ Lists, NEW x \in Nodes, On(q, x), Importable(x), Settled(x)
               PROVE  Origins(x) = {At(q, x)}
    BY DEF Exact
  <2>1. CASE On(r, x) /\ At(q, x) = At(r, x)
    BY <2>1 DEF Right, Exact
  <2>2. ASSUME NEW e \in Explicit(x.file, x.name), e.kind = "from", At(q, x) = OriginOf(r, e)
        PROVE  Origins(x) = {At(q, x)}
    <3> DEFINE y == Node(e.from, e.name)
    <3>1. y \in Nodes /\ Importable(y) /\ Origins(y) = Origins(x) /\ y \in Chain(x)
      BY <2>2, ImportableExplicit
    <3>2. Settled(y)
      BY <3>1, ChainProperties DEF Settled
    <3>3. e.name \in LocalsOf(e.from)
      <4>1. x \in Chain(x)
        BY ChainProperties
      <4> QED
        BY <2>2, <4>1 DEF Settled, Provisional
    <3>4. On(r, y) /\ At(q, x) = At(r, y)
      <4>1. y.file = e.from /\ y.name = e.name
        BY DEF Node
      <4>2. On(r, y)
        <5> HIDE DEF y
        <5> QED
          BY <3>1, <3>3, <4>1 DEF Right, LocalsOn
      <4> QED
        BY <2>2, <4>1, <4>2 DEF OriginOf, On, At
    <3> HIDE DEF y
    <3> QED
      BY <3>1, <3>2, <3>4 DEF Right, Exact
  <2>3. ASSUME NEW y \in Links(x), On(r, y), At(q, x) = At(r, y)
        PROVE  Origins(x) = {At(q, x)}
    <3>1. Importable(y) /\ Origins(y) = Origins(x) /\ y \in Nodes /\ Settled(y)
      BY <2>3, StarImportable DEF Right, Settled
    <3> QED
      BY <2>3, <3>1 DEF Right, Exact
  <2> QED
    BY <1>2, <1>3, <2>1, <2>2, <2>3
<1>8. OnChain(q)
  <2> SUFFICES ASSUME NEW x \in Nodes, On(q, x)
               PROVE  At(q, x) \in Chain(x) /\ (~ Aliases => At(q, x).name = x.name)
    BY DEF OnChain
  <2>1. OnChain(r)
    BY DEF Right
  <2>2. \A y \in Nodes : On(r, y) => At(r, y) \in Chain(y)
    BY <2>1 DEF OnChain
  <2>3. \A y \in Nodes : (On(r, y) /\ ~ Aliases) => At(r, y).name = y.name
    BY <2>1 DEF OnChain
  <2>4. CASE On(r, x) /\ At(q, x) = At(r, x)
    BY <2>4, <2>2, <2>3
  <2>5. ASSUME NEW e \in Explicit(x.file, x.name), e.kind = "from", At(q, x) = OriginOf(r, e)
        PROVE  At(q, x) \in Chain(x) /\ (~ Aliases => At(q, x).name = x.name)
    <3> DEFINE y == Node(e.from, e.name)
    <3>1. y \in Links(x) /\ y.name = e.name
      BY <2>5 DEF Links, Node
    <3>2. ~ Aliases => e.name = x.name
      <4>1. x.file \in Files /\ e \in ExportsOf(x.file) /\ e.as = x.name
        BY NodeProperties DEF Explicit
      <4> QED
        BY <2>5, <4>1 DEF Aliases
    <3>3. At(q, x) = y \/ (On(r, y) /\ At(q, x) = At(r, y))
      BY <2>5 DEF OriginOf, On, At, Node
    <3> HIDE DEF y
    <3>4. y \in Nodes /\ y \in Chain(x) /\ Chain(y) \subseteq Chain(x)
      BY <3>1, ChainProperties
    <3> QED
      BY <2>2, <2>3, <3>1, <3>2, <3>3, <3>4
  <2>6. ASSUME ~ Named(x), NEW y \in Links(x), On(r, y), At(q, x) = At(r, y)
        PROVE  At(q, x) \in Chain(x) /\ (~ Aliases => At(q, x).name = x.name)
    <3>1. y \in Nodes /\ y \in Chain(x) /\ Chain(y) \subseteq Chain(x)
      BY ChainProperties
    <3>2. y.name = x.name
      BY <2>6, ByStars DEF Named, Node
    <3> QED
      BY <2>6, <2>2, <2>3, <3>1, <3>2
  <2> QED
    BY <1>2, <1>3, <2>4, <2>5, <2>6
<1> QED
  BY <1>1, <1>4, <1>5, <1>6, <1>7, <1>8 DEF Right

(* Declarations are found at once. *)
LEMMA FoundAtOnce ==
    ASSUME prog \in Programs, ~ ListAliases, NEW r, Right(r), NEW f \in Files
    PROVE  FoundUpTo(r, f, 0)
<1> SUFFICES ASSUME NEW x \in Nodes, Importable(x), Near(x, 0) PROVE Found(r, x)
  BY DEF FoundUpTo
<1>1. Within(AllLinks, x, 0) = {x}
  BY LinkProperties, WithinSteps
<1>2. PICK e \in Explicit(x.file, x.name) : Declares(x.file, e)
  BY <1>1 DEF Near, Defines
<1>3. x.name \in LocalsOf(x.file)
  BY <1>2, NamedOrNot DEF Declares, IsLocal
<1>4. On(r, x)
  BY <1>3 DEF Right, LocalsOn
<1>5. ASSUME ~ Lists PROVE Origins(x) = {At(r, x)}
  <2>1. e.kind = "decl"
    <3>1. x.file \in Files /\ e \in ExportsOf(x.file)
      BY NodeProperties, ImportableExplicit
    <3> QED
      BY <1>2, <1>5, <3>1 DEF Declares, Lists
  <2>2. Chain(x) = {x} /\ Explicit(x.file, x.name) = {e}
    BY <2>1, ImportableExplicit
  <2>3. Settled(x)
    BY <2>1, <2>2 DEF Settled, Provisional
  <2> QED
    BY <1>4, <1>5, <2>3 DEF Right, Exact
<1> QED
  BY <1>4, <1>5 DEF Found

(* What is near is near in more links too. *)
LEMMA FoundLess ==
    ASSUME prog \in Programs, NEW r, NEW f \in Files, NEW k \in Nat, NEW l \in Nat, k <= l,
           FoundUpTo(r, f, l)
    PROVE  FoundUpTo(r, f, k)
<1>1. \A x \in Nodes : Near(x, k) => Near(x, l)
  <2>1. \A x \in Nodes : Within(AllLinks, x, k) \subseteq Within(AllLinks, x, l)
    BY LinkProperties, WithinGrows
  <2> QED
    BY <2>1 DEF Near
<1> QED
  BY <1>1 DEF FoundUpTo

(* A name whose declaration is a link further away than another one's that *)
(* it links to.                                                            *)
LEMMA NearThrough ==
    ASSUME prog \in Programs, NEW x \in Nodes, NEW k \in Nat, Near(x, k + 1), Defines(x) = {}
    PROVE  \E y \in Links(x) : y \in Nodes /\ Near(y, k) /\ Origins(y) # {}
<1>1. PICK z \in Within(AllLinks, x, k + 1) : Defines(z) # {}
  BY DEF Near
<1>2. Within(AllLinks, x, k + 1) = {x} \cup UNION {Within(AllLinks, y, k) : y \in Links(x)}
  BY LinkProperties, WithinFront
<1>3. PICK y \in Links(x) : z \in Within(AllLinks, y, k)
  BY <1>1, <1>2
<1>4. y \in Nodes
  BY LinkProperties
<1>5. z \in Chain(y)
  BY <1>3, <1>4, ChainProperties
<1>6. Origins(y) # {}
  BY <1>1, <1>5 DEF Origins
<1> QED
  BY <1>1, <1>3, <1>4, <1>6 DEF Near

(* If names up to k links from their declaration are found everywhere, a   *)
(* pass finds those of its file up to k + 1.                               *)
LEMMA PassFinds ==
    ASSUME prog \in Programs, ~ ListAliases, NEW r, Right(r), NEW f \in Files, NEW q, Right(q),
           Pass(r, f, ExportsOf(f), q),
           NEW k \in Nat, \A g \in Files : FoundUpTo(r, g, k)
    PROVE  FoundUpTo(q, f, k + 1)
<1> SUFFICES ASSUME NEW x \in Nodes, x.file = f, Importable(x), Near(x, k + 1) PROVE Found(q, x)
  BY DEF FoundUpTo
<1>1. \A y \in Nodes : (Importable(y) /\ Near(y, k)) => Found(r, y)
  BY NodeProperties DEF FoundUpTo
<1>2. (On(q, x) /\ ~ Lists /\ Settled(x)) => Origins(x) = {At(q, x)}
  BY DEF Right, Exact
<1>3. CASE ~ Named(x)
  <2>1. Defines(x) = {} /\ Links(x) = {Node(e.from, x.name) : e \in {d \in ExportsOf(f) : d.kind = "star"}}
    BY <1>3, ByStars DEF Named
  <2>2. PICK y \in Links(x) : y \in Nodes /\ Near(y, k) /\ Origins(y) # {}
    BY <2>1, NearThrough
  <2>3. Importable(y)
    BY <2>2, ChainProperties, ImportableBelow
  <2>4. On(r, y)
    BY <1>1, <2>2, <2>3 DEF Found
  <2>5. PICK e \in ExportsOf(f) : e.kind = "star" /\ y = Node(e.from, x.name)
    BY <2>1
  <2>6. On(q, x)
    <3>1. x.name \in DOMAIN r[e.from]
      BY <2>4, <2>5 DEF On, Node
    <3> QED
      BY <2>5, <3>1 DEF Pass, On
  <2>7. ~ TakenOver(x) => Settled(x)
    <3>1. x \in Chain(x)
      BY ChainProperties
    <3> QED
      BY <1>3, <3>1 DEF TakenOver, Settled, Named
  <2> QED
    BY <1>2, <2>6, <2>7 DEF Found
<1>4. ASSUME NEW e \in Explicit(x.file, x.name) PROVE Found(q, x)
  <2>1. Explicit(x.file, x.name) = {e} /\ e \in ExportsOf(f) /\ e.as = x.name
    BY <1>4, ImportableExplicit
  <2>2. CASE e.kind = "decl"
    <3>1. x.name \in LocalsOf(x.file)
      BY <2>2, NamedOrNot DEF IsLocal
    <3>2. On(q, x)
      BY <3>1 DEF Right, LocalsOn
    <3>3. Settled(x)
      BY <2>1, <2>2, ImportableExplicit DEF Settled, Provisional
    <3> QED
      BY <1>2, <3>2, <3>3 DEF Found
  <2>3. CASE e.kind = "list"
    <3>1. x.name \in LocalsOf(x.file)
      BY <2>3, NamedOrNot DEF IsLocal
    <3>2. On(q, x)
      BY <3>1 DEF Right, LocalsOn
    <3>3. Lists
      BY <2>1, <2>3 DEF Lists
    <3> QED
      BY <3>2, <3>3 DEF Found
  <2>4. CASE e.kind = "from"
    <3> DEFINE y == Node(e.from, e.name)
    <3>1. /\ y \in Nodes /\ y \in Chain(x) /\ Links(x) = {y} /\ Defines(x) = {}
          /\ Importable(y) /\ Origins(y) = Origins(x)
      BY <2>4, ImportableExplicit
    <3>2. Near(y, k)
      <4> HIDE DEF y
      <4> QED
        BY <3>1, NearThrough
    <3>3. Found(r, y)
      <4> HIDE DEF y
      <4> QED
        BY <1>1, <3>1, <3>2
    <3>4. ~ TakenOver(x) => ~ TakenOver(y)
      <4> HIDE DEF y
      <4> QED
        BY <3>1, ChainProperties DEF TakenOver
    <3>5. On(q, x) /\ At(q, x) = At(r, y)
      <4>1. x.name \in DOMAIN q[f]
        BY <2>1, <2>4 DEF Pass
      <4>2. \A d \in ExportsOf(f) : (d.kind = "from" /\ d.as = x.name) => d = e
        <5>1. \A d \in ExportsOf(f) : (d.kind = "from" /\ d.as = x.name) => d \in Explicit(x.file, x.name)
          BY DEF Explicit
        <5> QED
          BY <2>1, <5>1
      <4>3. q[f][x.name] = OriginOf(r, e)
        BY <2>1, <2>4, <4>1, <4>2 DEF Pass
      <4>4. OriginOf(r, e) = At(r, y)
        BY <3>3 DEF OriginOf, Found, On, At, Node
      <4> QED
        BY <4>1, <4>3, <4>4 DEF On, At
    <3> HIDE DEF y
    <3> QED
      BY <3>1, <3>3, <3>4, <3>5 DEF Found
  <2> QED
    <3>1. f \in Files /\ e.kind \in {"decl", "list", "from", "star"} /\ e.kind # "star"
      BY <2>1, ExportProperties DEF Explicit
    <3> QED
      BY <2>2, <2>3, <2>4, <3>1
<1> QED
  BY <1>3, <1>4 DEF Named

-----------------------------------------------------------------------------
(* What is said of the program is not changed by a step. *)
LEMMA SameProgram ==
    ASSUME prog' = prog
    PROVE  /\ \A f : ExportsOf(f)' = ExportsOf(f) /\ LocalsOf(f)' = LocalsOf(f)
           /\ \A f, n : Explicit(f, n)' = Explicit(f, n)
           /\ \A x : Named(x)' <=> Named(x)
           /\ \A x : Defines(x)' = Defines(x)
           /\ \A x : Chain(x)' = Chain(x)
           /\ \A x, k : Near(x, k)' <=> Near(x, k)
           /\ \A x : Origins(x)' = Origins(x)
           /\ \A x : Importable(x)' <=> Importable(x)
           /\ \A x : Settled(x)' <=> Settled(x)
           /\ \A x : TakenOver(x)' <=> TakenOver(x)
           /\ Lists' <=> Lists
           /\ Aliases' <=> Aliases
           /\ ListAliases' <=> ListAliases
           /\ FromItself' <=> FromItself
<1>1. \A f : ExportsOf(f)' = ExportsOf(f)
  BY DEF ExportsOf
<1>2. \A f : LocalsOf(f)' = LocalsOf(f)
  BY <1>1 DEF LocalsOf
<1>3. \A f, n : Explicit(f, n)' = Explicit(f, n)
  BY <1>1 DEF Explicit
<1>4. \A f, n : ImportsAs(f, n)' = ImportsAs(f, n)
  BY DEF ImportsAs
<1>5. \A f, e : Declares(f, e)' <=> Declares(f, e)
  BY <1>4 DEF Declares
<1>6. \A x : Defines(x)' = Defines(x)
  BY <1>3, <1>5 DEF Defines
<1>7. \A x : Links(x)' = Links(x)
  BY <1>1, <1>3, <1>4 DEF Links
<1>8. AllLinks' = AllLinks
  BY <1>7 DEF AllLinks
<1>9. \A x : Chain(x)' = Chain(x)
  BY <1>8 DEF Chain, Closure, Within
<1>10. \A x, k : Near(x, k)' <=> Near(x, k)
  <2>1. \A x, k : Within(AllLinks, x, k)' = Within(AllLinks, x, k)
    BY <1>8 DEF Within
  <2>2. ASSUME NEW x, NEW k PROVE Near(x, k)' <=> Near(x, k)
    BY <1>6, <2>1 DEF Near
  <2> QED
    BY <2>2
<1>11. \A x : Origins(x)' = Origins(x)
  BY <1>6, <1>9 DEF Origins
<1>12. \A x : Importable(x)' <=> Importable(x)
  BY <1>3, <1>9, <1>11 DEF Importable
<1>13. \A x : Provisional(x)' <=> Provisional(x)
  BY <1>2, <1>3 DEF Provisional
<1>14. \A x : Settled(x)' <=> Settled(x)
  BY <1>9, <1>13 DEF Settled
<1>15. \A x : TakenOver(x)' <=> TakenOver(x)
  BY <1>3, <1>9, <1>13 DEF TakenOver
<1>16. \A x : Named(x)' <=> Named(x)
  BY <1>3 DEF Named
<1>17. /\ Lists' <=> Lists
       /\ Aliases' <=> Aliases
       /\ ListAliases' <=> ListAliases
       /\ FromItself' <=> FromItself
  BY <1>1 DEF Lists, Aliases, ListAliases, FromItself
<1> QED
  BY <1>1, <1>2, <1>3, <1>6, <1>9, <1>10, <1>11, <1>12, <1>14, <1>15, <1>16, <1>17

(* So a table that is right stays so in the next state, and what is found  *)
(* in it.                                                                  *)
LEMMA RightNext ==
    ASSUME prog' = prog, NEW r, r = resolved', Right(r)
    PROVE  Right(resolved)'
  BY SameProgram DEF Right, Rooted, LocalsOn, Same, Exact, OnChain, On, At

(* And what an entry has been found for is found in the next state. *)
LEMMA FoundNext ==
    ASSUME prog' = prog, NEW r, r = resolved'
    PROVE  \A f, k : FoundUpTo(r, f, k) => FoundUpTo(resolved, f, k)'
  BY SameProgram DEF FoundUpTo, Found, On, At

-----------------------------------------------------------------------------
(* How far the run is. *)
Control ==
    /\ prog \in Programs /\ order \in Orders
    /\ phase \in {"locals", "chains", "done"}
    /\ next \in 1 .. Len(order) + 1
    /\ round \in 1 .. MaxRounds
    /\ changed \in BOOLEAN
    /\ resolved \in Tables
    /\ phase = "locals" => (next = 1 /\ round = 1 /\ \A f \in Files : DOMAIN resolved[f] = {})

(* Where the program neither renames in a list nor re-exports from the     *)
(* file itself: after so many iterations, names whose declaration is so    *)
(* many links away are found; and while an iteration has changed nothing,  *)
(* the files it went through have nothing to change.                       *)
Plain == ~ ListAliases /\ ~ FromItself

Unchanging(f) == Pass(resolved, f, ExportsOf(f), resolved)

GraphInv ==
    /\ Control
    /\ (Plain /\ phase # "locals") => Right(resolved)
    /\ (Plain /\ phase = "chains") =>
          /\ \A f \in Files : FoundUpTo(resolved, f, round - 1)
          /\ \A j \in 1 .. next - 1 : FoundUpTo(resolved, order[j], round)
          /\ ~ changed => \A j \in 1 .. next - 1 : Unchanging(order[j])
    /\ (Plain /\ phase = "done") => \A f \in Files : FoundUpTo(resolved, f, MaxRounds)

(* An order has every file. *)
LEMMA OrderProperties ==
    ASSUME NEW o \in Orders
    PROVE  /\ Len(o) \in Nat
           /\ \A i \in 1 .. Len(o) : o[i] \in Files
           /\ \A f \in Files : \E i \in 1 .. Len(o) : o[i] = f
<1>1. o \in [1 .. Cardinality(Files) -> Files] /\ ToSet(o) = Files /\ Cardinality(Files) \in Nat
  BY ProgramAssumption, FS_CardinalityType
<1>2. Len(o) = Cardinality(Files)
  BY <1>1
<1>3. DOMAIN o = 1 .. Len(o)
  BY <1>1, <1>2
<1>4. {o[i] : i \in 1 .. Len(o)} = Files
  BY <1>1, <1>3 DEF ToSet
<1> QED
  BY <1>1, <1>2, <1>4

(* Before build_module_graph runs, no file exports anything. *)
LEMMA GraphInit ==
    Init => GraphInv
<1> SUFFICES ASSUME Init PROVE GraphInv
  OBVIOUS
<1>1. Len(order) \in Nat /\ 1 \in 1 .. Len(order) + 1 /\ 1 \in 1 .. MaxRounds
  BY OrderProperties, ProgramAssumption DEF Init
<1>2. [n \in {} |-> n] \in Records /\ DOMAIN [n \in {} |-> n] = {}
  <2>1. [n \in {} |-> n] \in [{} -> Nodes]
    OBVIOUS
  <2> QED
    BY <2>1, RecordProperties
<1>3. resolved \in Tables /\ \A f \in Files : DOMAIN resolved[f] = {}
  BY <1>2 DEF Init, Tables
<1>4. Control
  BY <1>1, <1>3 DEF Init, Control
<1> QED
  BY <1>4 DEF Init, GraphInv

(* The first pass over the files. *)
LEMMA LocalsTables ==
    ASSUME prog \in Programs
    PROVE  [f \in Files |-> [n \in LocalsOf(f) |-> Node(f, n)]] \in Tables
<1>1. \A f \in Files : LocalsOf(f) \subseteq Names
  BY ExportProperties DEF LocalsOf
<1>2. ASSUME NEW f \in Files PROVE [n \in LocalsOf(f) |-> Node(f, n)] \in Records
  <2>1. [n \in LocalsOf(f) |-> Node(f, n)] \in [LocalsOf(f) -> Nodes]
    BY <1>1, NodeProperties
  <2> QED
    BY <1>1, <2>1, RecordProperties
<1> QED
  BY <1>2 DEF Tables

(* It leaves a table that is right. *)
LEMMA LocalsRight ==
    ASSUME prog \in Programs, ~ ListAliases, NEW r, r = [f \in Files |-> [n \in LocalsOf(f) |-> Node(f, n)]]
    PROVE  Right(r)
<1>2. r \in Tables
  BY LocalsTables
<1>3. ASSUME NEW x \in Nodes PROVE On(r, x) <=> x.name \in LocalsOf(x.file)
  BY NodeProperties DEF On
<1>4. ASSUME NEW x \in Nodes, On(r, x) PROVE At(r, x) = x
  <2>1. x.file \in Files /\ x.name \in LocalsOf(x.file) /\ Node(x.file, x.name) = x
    BY <1>3, <1>4, NodeProperties
  <2> QED
    BY <2>1 DEF At
<1>5. Rooted(r)
  <2> SUFFICES ASSUME NEW x \in Nodes, On(r, x) PROVE \E y \in Chain(x) : Named(y)
    BY DEF Rooted
  <2>1. Named(x)
    BY <1>3, NamedOrNot DEF Named
  <2> QED
    BY <2>1, ChainProperties
<1>6. LocalsOn(r)
  BY <1>3 DEF LocalsOn
<1>7. Same(r)
  BY <1>4 DEF Same
<1>8. Exact(r)
  <2> SUFFICES ASSUME ~ Lists, NEW x \in Nodes, On(r, x), Importable(x) PROVE Origins(x) = {At(r, x)}
    BY DEF Exact
  <2>1. PICK e \in Explicit(x.file, x.name) : e.kind = "decl"
    BY <1>3, NamedOrNot
  <2>2. Origins(x) = {x}
    BY <2>1, ImportableExplicit
  <2> QED
    BY <1>4, <2>2
<1>9. OnChain(r)
  BY <1>4, ChainProperties DEF OnChain
<1> QED
  BY <1>2, <1>5, <1>6, <1>7, <1>8, <1>9 DEF Right

(* The local exports alone are right, and find what a file declares.       *)
LEMMA GraphLocals ==
    GraphInv /\ EnterLocals => GraphInv'
<1> SUFFICES ASSUME GraphInv, EnterLocals PROVE GraphInv'
  OBVIOUS
<1>1. /\ prog' = prog /\ order' = order /\ phase' = "chains" /\ next' = 1 /\ round' = 1
      /\ changed' = changed
      /\ prog \in Programs /\ order \in Orders
  BY DEF EnterLocals, GraphInv, Control
<1> DEFINE r == [f \in Files |-> [n \in LocalsOf(f) |-> Node(f, n)]]
<1>2. resolved' = r
  BY DEF EnterLocals
<1> HIDE DEF r
<1>3. r \in Tables
  BY <1>1, LocalsTables DEF r
<1>4. Control'
  <2>1. Len(order) \in Nat /\ 1 \in 1 .. Len(order) + 1 /\ 1 \in 1 .. MaxRounds
    BY <1>1, OrderProperties, ProgramAssumption
  <2>2. next' \in 1 .. Len(order') + 1 /\ round' \in 1 .. MaxRounds /\ changed' \in BOOLEAN
    BY <1>1, <2>1 DEF GraphInv, Control
  <2> QED
    BY <1>1, <1>2, <1>3, <2>2 DEF Control
<1>5. ASSUME Plain' PROVE Right(resolved)' /\ \A f \in Files : FoundUpTo(resolved, f, 0)'
  <2>1. ~ ListAliases
    BY <1>1, <1>5, SameProgram DEF Plain
  <2>2. Right(r)
    BY <1>1, <2>1, LocalsRight DEF r
  <2>3. \A f \in Files : FoundUpTo(r, f, 0)
    BY <1>1, <2>1, <2>2, FoundAtOnce
  <2>4. Right(resolved)'
    BY <1>1, <1>2, <2>2, RightNext
  <2>5. \A f \in Files : FoundUpTo(resolved, f, 0)'
    BY <1>1, <1>2, <2>3, FoundNext
  <2> QED
    BY <2>4, <2>5
<1>6. round' - 1 = 0 /\ 1 .. next' - 1 = {}
  BY <1>1
<1>7. \A k : k = 0 => (Plain' => \A f \in Files : FoundUpTo(resolved, f, k)')
  BY <1>5
<1>8. Plain' => \A f \in Files : FoundUpTo(resolved, f, round - 1)'
  BY <1>6, <1>7
<1> QED
  BY <1>1, <1>4, <1>5, <1>6, <1>8 DEF GraphInv

(* One file's re-exports: the table stays right, what is found one link away*)
(* is found in the file that re-exports it.                                *)
LEMMA GraphFollow ==
    GraphInv /\ FollowExports => GraphInv'
<1> SUFFICES ASSUME GraphInv, FollowExports PROVE GraphInv'
  OBVIOUS
<1> DEFINE f == order[next]
           q == Followed(f).resolved
           c == Followed(f).changed
<1>1. /\ phase = "chains" /\ phase' = "chains" /\ prog' = prog /\ order' = order /\ round' = round
      /\ next \in 1 .. Len(order) /\ next' = next + 1 /\ resolved' = q /\ changed' = c
      /\ prog \in Programs /\ order \in Orders /\ round \in 1 .. MaxRounds
      /\ resolved \in Tables /\ changed \in BOOLEAN
  BY OrderProperties DEF FollowExports, GraphInv, Control
<1>2. Len(order) \in Nat /\ f \in Files /\ \A i \in 1 .. Len(order) : order[i] \in Files
  BY <1>1, OrderProperties
<1> HIDE DEF f
<1>3. ASSUME ~ FromItself
      PROVE  Pass(resolved, f, ExportsOf(f), q) /\ (~ c => (~ changed /\ q = resolved))
  BY <1>1, <1>2, <1>3, FollowedPasses
<1>4. q \in Tables /\ c \in BOOLEAN
  BY <1>1, <1>2, FollowedPasses
<1> HIDE DEF q, c
<1>5. Control'
  <2>1. next' \in 1 .. Len(order') + 1
    BY <1>1, <1>2
  <2> QED
    BY <1>1, <1>4, <2>1 DEF Control
<1>6. ASSUME Plain
      PROVE  /\ Right(q)
             /\ \A g \in Files : FoundUpTo(q, g, round - 1)
             /\ \A j \in 1 .. next : FoundUpTo(q, order[j], round)
             /\ ~ c => (q = resolved /\ \A j \in 1 .. next : Pass(resolved, order[j], ExportsOf(order[j]), resolved))
  <2>1. ~ ListAliases /\ ~ FromItself
    BY <1>6 DEF Plain
  <2>2. /\ Right(resolved)
        /\ \A g \in Files : FoundUpTo(resolved, g, round - 1)
        /\ \A j \in 1 .. next - 1 : FoundUpTo(resolved, order[j], round)
        /\ ~ changed => \A j \in 1 .. next - 1 : Unchanging(order[j])
    BY <1>1, <1>6 DEF GraphInv
  <2>3. Pass(resolved, f, ExportsOf(f), q)
    BY <1>3, <2>1
  <2>4. Right(q)
    BY <1>1, <1>2, <2>1, <2>2, <2>3, PassRight
  <2>5. round - 1 \in Nat /\ round \in Nat /\ (round - 1) + 1 = round
    BY <1>1, ProgramAssumption
  <2>6. FoundUpTo(q, f, round)
    <3>1. FoundUpTo(q, f, (round - 1) + 1)
      BY <1>1, <1>2, <2>1, <2>2, <2>3, <2>4, <2>5, PassFinds
    <3> QED
      BY <2>5, <3>1
  <2>7. ASSUME NEW g \in Files, g # f, NEW k, FoundUpTo(resolved, g, k) PROVE FoundUpTo(q, g, k)
    <3>1. q[g] = resolved[g]
      BY <2>3, <2>7 DEF Pass
    <3> QED
      BY <2>7, <3>1 DEF FoundUpTo, Found, On, At
  <2>8. FoundUpTo(q, f, round - 1)
    BY <1>1, <1>2, <2>5, <2>6, FoundLess
  <2>9. \A g \in Files : FoundUpTo(q, g, round - 1)
    BY <2>2, <2>7, <2>8
  <2>10. ASSUME NEW j \in 1 .. next PROVE FoundUpTo(q, order[j], round)
    <3>1. CASE order[j] = f
      BY <2>6, <3>1
    <3>2. CASE order[j] # f
      <4>1. j # next /\ j \in 1 .. next - 1 /\ order[j] \in Files
        BY <1>1, <1>2, <3>2 DEF f
      <4> QED
        BY <2>2, <2>7, <3>2, <4>1
    <3> QED
      BY <3>1, <3>2
  <2>11. ASSUME ~ c PROVE q = resolved /\ \A j \in 1 .. next : Pass(resolved, order[j], ExportsOf(order[j]), resolved)
    <3>1. ~ changed /\ q = resolved
      BY <1>3, <2>1, <2>11
    <3>2. ASSUME NEW j \in 1 .. next PROVE Pass(resolved, order[j], ExportsOf(order[j]), resolved)
      <4>1. CASE j = next
        BY <2>3, <3>1, <4>1 DEF f
      <4>2. CASE j # next
        <5>1. j \in 1 .. next - 1
          BY <1>1, <4>2
        <5> QED
          BY <2>2, <3>1, <5>1 DEF Unchanging
      <4> QED
        BY <4>1, <4>2
    <3> QED
      BY <3>1, <3>2
  <2> QED
    BY <2>4, <2>9, <2>10, <2>11
<1>7. Plain' <=> Plain
  BY <1>1, SameProgram DEF Plain
<1>8. ASSUME Plain' PROVE Right(resolved)'
  BY <1>1, <1>6, <1>7, <1>8, RightNext
<1>9. ASSUME Plain' PROVE \A g \in Files : FoundUpTo(resolved, g, round - 1)'
  <2>1. \A g, k : FoundUpTo(q, g, k) => FoundUpTo(resolved, g, k)'
    BY <1>1, FoundNext
  <2>2. \A g \in Files : \A k : k = round - 1 => FoundUpTo(resolved, g, k)'
    BY <1>6, <1>7, <1>9, <2>1
  <2>3. round' - 1 = round - 1
    BY <1>1
  <2> QED
    BY <2>2, <2>3
<1>10. ASSUME Plain' PROVE \A j \in 1 .. next' - 1 : FoundUpTo(resolved, order[j], round)'
  <2>1. \A g, k : FoundUpTo(q, g, k) => FoundUpTo(resolved, g, k)'
    BY <1>1, FoundNext
  <2>2. \A j \in 1 .. next : \A g, k : (g = order[j] /\ k = round) => FoundUpTo(resolved, g, k)'
    BY <1>6, <1>7, <1>10, <2>1
  <2>3. round' = round /\ order' = order /\ next' - 1 = next
    BY <1>1, <1>2
  <2> QED
    BY <2>2, <2>3
<1>11. ASSUME Plain', ~ changed' PROVE \A j \in 1 .. next' - 1 : Unchanging(order[j])'
  <2>1. q = resolved /\ \A j \in 1 .. next : Pass(resolved, order[j], ExportsOf(order[j]), resolved)
    BY <1>1, <1>6, <1>7, <1>11
  <2>2. \A g : ExportsOf(g)' = ExportsOf(g)
    BY <1>1, SameProgram
  <2>3. \A j \in 1 .. next : \A g : g = order[j] => Pass(resolved', g, ExportsOf(g)', resolved')
    BY <1>1, <2>1, <2>2
  <2>4. \A j \in 1 .. next : \A g : g = order[j] => Unchanging(g)'
    <3> SUFFICES ASSUME NEW j \in 1 .. next, NEW g, g = order[j] PROVE Unchanging(g)'
      OBVIOUS
    <3>1. Pass(resolved', g, ExportsOf(g)', resolved')
      BY <2>3
    <3> QED
      BY <3>1 DEF Unchanging, Pass, OriginOf
  <2>5. order' = order /\ next' - 1 = next
    BY <1>1, <1>2
  <2> QED
    BY <2>4, <2>5
<1> QED
  BY <1>1, <1>5, <1>8, <1>9, <1>10, <1>11 DEF GraphInv

(* The end of an iteration: one that changed nothing has found everything, *)
(* otherwise what the next one starts from is one link further.            *)
LEMMA GraphEnd ==
    GraphInv /\ EndRound => GraphInv'
<1> SUFFICES ASSUME GraphInv, EndRound PROVE GraphInv'
  OBVIOUS
<1>1. /\ phase = "chains" /\ next > Len(order) /\ next \in 1 .. Len(order) + 1
      /\ prog' = prog /\ order' = order /\ resolved' = resolved
      /\ prog \in Programs /\ order \in Orders /\ round \in 1 .. MaxRounds
      /\ resolved \in Tables /\ changed \in BOOLEAN
  BY DEF EndRound, GraphInv, Control
<1>2. /\ Len(order) \in Nat /\ next - 1 = Len(order) /\ MaxRounds \in Nat
      /\ \A g \in Files : \E j \in 1 .. next - 1 : order[j] = g
  <2>1. Len(order) \in Nat /\ \A g \in Files : \E j \in 1 .. Len(order) : order[j] = g
    BY <1>1, OrderProperties
  <2>2. next - 1 = Len(order)
    BY <1>1, <2>1
  <2> QED
    BY <2>1, <2>2, ProgramAssumption
<1>3. Plain' <=> Plain
  BY <1>1, SameProgram DEF Plain
<1>4. ASSUME Plain
      PROVE  /\ ~ ListAliases /\ Right(resolved)
             /\ \A g \in Files : FoundUpTo(resolved, g, round)
             /\ ~ changed => \A g \in Files : Pass(resolved, g, ExportsOf(g), resolved)
  <2>1. \A g \in Files : FoundUpTo(resolved, g, round)
    BY <1>1, <1>2, <1>4 DEF GraphInv
  <2>2. ~ changed => \A g \in Files : Unchanging(g)
    BY <1>1, <1>2, <1>4 DEF GraphInv
  <2> QED
    BY <1>1, <1>4, <2>1, <2>2 DEF GraphInv, Plain, Unchanging
<1>5. Plain' => Right(resolved)'
  BY <1>1, <1>3, <1>4, RightNext
<1>6. \A g, k : FoundUpTo(resolved, g, k) => FoundUpTo(resolved, g, k)'
  BY <1>1, FoundNext
<1>7. CASE changed /\ round < MaxRounds
  <2>1. round' = round + 1 /\ next' = 1 /\ changed' = FALSE /\ phase' = "chains"
    BY <1>1, <1>7 DEF EndRound
  <2>2. Control'
    <3>1. next' \in 1 .. Len(order') + 1 /\ round' \in 1 .. MaxRounds
      BY <1>1, <1>2, <1>7, <2>1
    <3> QED
      BY <1>1, <2>1, <3>1 DEF Control
  <2>3. ASSUME Plain' PROVE \A g \in Files : FoundUpTo(resolved, g, round - 1)'
    <3>1. \A g \in Files : \A k : k = round => FoundUpTo(resolved, g, k)'
      BY <1>3, <1>4, <1>6, <2>3
    <3>2. round' - 1 = round
      BY <1>1, <1>2, <2>1
    <3> QED
      BY <3>1, <3>2
  <2>4. 1 .. next' - 1 = {}
    BY <2>1
  <2> QED
    BY <1>5, <2>1, <2>2, <2>3, <2>4 DEF GraphInv
<1>8. CASE ~ (changed /\ round < MaxRounds)
  <2>1. phase' = "done" /\ next' = next /\ round' = round /\ changed' = changed
    BY <1>1, <1>8 DEF EndRound
  <2>2. Control'
    BY <1>1, <2>1 DEF GraphInv, Control
  <2>3. ASSUME Plain PROVE \A g \in Files : FoundUpTo(resolved, g, MaxRounds)
    <3>1. CASE changed
      <4>1. round = MaxRounds
        BY <1>1, <1>2, <1>8, <3>1
      <4> QED
        BY <1>4, <2>3, <4>1
    <3>2. CASE ~ changed
      <4> DEFINE P == {k \in Nat : \A g \in Files : FoundUpTo(resolved, g, k)}
      <4>1. 0 \in P
        BY <1>1, <1>4, <2>3, FoundAtOnce
      <4>2. ASSUME NEW k \in Nat, k \in P PROVE k + 1 \in P
        <5>1. ASSUME NEW g \in Files PROVE FoundUpTo(resolved, g, k + 1)
          <6>1. Pass(resolved, g, ExportsOf(g), resolved)
            BY <1>4, <2>3, <3>2
          <6>2. \A h \in Files : FoundUpTo(resolved, h, k)
            BY <4>2
          <6> QED
            BY <1>1, <1>4, <2>3, <6>1, <6>2, PassFinds
        <5> QED
          BY <5>1
      <4>3. P \in SUBSET Nat
        OBVIOUS
      <4> HIDE DEF P
      <4>4. MaxRounds \in P
        BY <1>2, <4>1, <4>2, <4>3, UpToAll
      <4> QED
        BY <4>4 DEF P
    <3> QED
      BY <3>1, <3>2
  <2>4. Plain' => \A g \in Files : FoundUpTo(resolved, g, MaxRounds)'
    BY <1>3, <1>6, <2>3
  <2> QED
    BY <1>5, <2>1, <2>2, <2>4 DEF GraphInv
<1> QED
  BY <1>7, <1>8

-----------------------------------------------------------------------------
(* The invariant holds in every state. *)
THEOREM GraphHolds ==
    Spec => []GraphInv
<1>1. GraphInv /\ UNCHANGED vars => GraphInv'
  <2> SUFFICES ASSUME GraphInv, UNCHANGED vars PROVE GraphInv'
    OBVIOUS
  <2>1. /\ prog' = prog /\ order' = order /\ phase' = phase /\ next' = next /\ round' = round
        /\ changed' = changed /\ resolved' = resolved
    BY DEF vars
  <2>2. Plain' <=> Plain
    BY <2>1, SameProgram DEF Plain
  <2>3. Control'
    BY <2>1 DEF GraphInv, Control
  <2>4. Right(resolved) => Right(resolved)'
    BY <2>1, RightNext
  <2>5. \A g, k : FoundUpTo(resolved, g, k) => FoundUpTo(resolved, g, k)'
    BY <2>1, FoundNext
  <2>6. \A g : Unchanging(g) => Unchanging(g)'
    <3>1. \A g : ExportsOf(g)' = ExportsOf(g)
      BY <2>1, SameProgram
    <3> QED
      BY <2>1, <3>1 DEF Unchanging, Pass, OriginOf
  <2>7. ASSUME Plain, phase = "chains"
        PROVE  /\ \A g \in Files : FoundUpTo(resolved, g, round - 1)'
               /\ \A j \in 1 .. next - 1 : FoundUpTo(resolved, order[j], round)'
               /\ ~ changed => \A j \in 1 .. next - 1 : Unchanging(order[j])'
    <3>1. \A g \in Files : \A k : k = round - 1 => FoundUpTo(resolved, g, k)'
      BY <2>5, <2>7 DEF GraphInv
    <3>2. \A j \in 1 .. next - 1 : \A g, k : (g = order[j] /\ k = round) => FoundUpTo(resolved, g, k)'
      BY <2>5, <2>7 DEF GraphInv
    <3>3. ~ changed => \A j \in 1 .. next - 1 : \A g : g = order[j] => Unchanging(g)'
      BY <2>6, <2>7 DEF GraphInv
    <3> QED
      BY <2>1, <3>1, <3>2, <3>3
  <2>8. Plain /\ phase = "done" => \A g \in Files : FoundUpTo(resolved, g, MaxRounds)'
    BY <2>5 DEF GraphInv
  <2>9. Plain /\ phase # "locals" => Right(resolved)'
    BY <2>4 DEF GraphInv
  <2> QED
    BY <2>1, <2>2, <2>3, <2>7, <2>8, <2>9 DEF GraphInv
<1>2. GraphInv /\ [Next]_vars => GraphInv'
  BY <1>1, GraphLocals, GraphFollow, GraphEnd DEF Next
<1> QED
  BY GraphInit, <1>2, PTL DEF Spec

(* Whatever the program, the number of files and the order they are gone   *)
(* through in: an origin on record stands for what its name stands for, at *)
(* every moment; and in the end, names no further from their declaration   *)
(* than there are iterations are on record, with the declaring module      *)
(* unless a provisional origin was taken over.                             *)
THEOREM ExportsHold ==
    Spec => []ExportsResolved
<1>1. GraphInv => ExportsResolved
  <2> SUFFICES ASSUME GraphInv PROVE ExportsResolved
    OBVIOUS
  <2>1. prog \in Programs /\ resolved \in Tables
    BY DEF GraphInv, Control
  <2>2. OriginsMeanTheSame
    <3> SUFFICES ASSUME Plain, NEW f \in Files, NEW n \in DOMAIN resolved[f], Importable(Node(f, n))
                 PROVE  Origins(resolved[f][n]) = Origins(Node(f, n))
      BY DEF OriginsMeanTheSame, Plain
    <3>1. phase # "locals"
      BY DEF GraphInv, Control
    <3>2. n \in Names
      BY <2>1, RecordProperties DEF Tables
    <3>3. Node(f, n) \in Nodes /\ On(resolved, Node(f, n)) /\ At(resolved, Node(f, n)) = resolved[f][n]
      BY <3>2, NodeProperties DEF On, At
    <3> QED
      BY <3>1, <3>3 DEF GraphInv, Right, Same
  <2>3. NothingMissing
    <3> SUFFICES ASSUME phase = "done", Plain, NEW x \in Nodes, Importable(x), InReach(x)
                 PROVE  /\ x.name \in DOMAIN resolved[x.file]
                        /\ (~ Lists /\ ~ TakenOver(x)) => Origins(x) = {resolved[x.file][x.name]}
      BY DEF NothingMissing, Plain
    <3>1. x.file \in Files /\ Near(x, MaxRounds)
      BY NodeProperties DEF InReach, Near
    <3> QED
      BY <3>1 DEF GraphInv, FoundUpTo, Found, On, At
  <2> QED
    BY <2>2, <2>3 DEF ExportsResolved
<1> QED
  BY <1>1, GraphHolds, PTL

-----------------------------------------------------------------------------
(* What rustc makes of the `use` lines, for a program without lists and    *)
(* aliases.                                                                *)
RustMap == [z \in Nodes |-> RustLinks(z)]

(* An importable name has exactly one origin: the cardinality of           *)
(* Importable, in the form the proofs below use.                           *)
LEMMA ImportableOrigin ==
    ASSUME prog \in Programs, NEW x \in Nodes, Importable(x)
    PROVE  \E d : Origins(x) = {d}
<1>1. IsFiniteSet(Origins(x)) /\ Cardinality(Origins(x)) = 1
  BY OriginProperties, NodesFinite, FS_Subset DEF Importable
<1> QED
  BY <1>1, FS_Singleton

(* Every `use` line stays on the chain of its name, and goes where the     *)
(* table of exports says.                                                  *)
LEMMA UseStays ==
    ASSUME prog \in Programs, ~ Aliases, Right(resolved), NEW y \in Nodes
    PROVE  /\ UseOf(y.file, y.name) \in Chain(y) /\ UseOf(y.file, y.name) \in Nodes
           /\ On(resolved, y) => UseOf(y.file, y.name) = At(resolved, y)
           /\ Importable(y) => Origins(UseOf(y.file, y.name)) = Origins(y)
<1>1. y \in Chain(y) /\ Chain(y) \subseteq Nodes /\ Node(y.file, y.name) = y
  BY ChainProperties, NodeProperties
<1>2. On(resolved, y) => At(resolved, y) \in Chain(y) /\ At(resolved, y).name = y.name
  BY DEF Right, OnChain
<1>3. CASE On(resolved, y)
  <2>1. UseOf(y.file, y.name) = Node(At(resolved, y).file, y.name)
    BY <1>3 DEF UseOf, ResolveImport, On, At
  <2>2. At(resolved, y) \in Nodes
    BY <1>1, <1>2, <1>3
  <2>3. UseOf(y.file, y.name) = At(resolved, y)
    BY <1>2, <1>3, <2>1, <2>2, NodeProperties
  <2>4. Importable(y) => Origins(At(resolved, y)) = Origins(y)
    BY <1>3 DEF Right, Same
  <2> QED
    BY <1>2, <1>3, <2>2, <2>3, <2>4
<1>4. CASE ~ On(resolved, y)
  <2>1. UseOf(y.file, y.name) = y
    BY <1>1, <1>4 DEF UseOf, ResolveImport, On, Node
  <2> QED
    BY <1>1, <1>4, <2>1
<1> QED
  BY <1>3, <1>4

(* The two ways on from a name: its public `use`, or the globs of its file *)
(* if it has none.                                                         *)
LEMMA RustForms ==
    ASSUME prog \in Programs, ~ Lists, ~ Aliases, NEW w \in Nodes, NEW u \in RustLinks(w)
    PROVE  \E y \in Links(w) : y \in Nodes /\ (u = y \/ u = UseOf(y.file, y.name))
<1>1. w.file \in Files /\ w.name \in Names
  BY NodeProperties
<1>2. \A e \in ExportsOf(w.file) :
         /\ e.kind \in {"decl", "list", "from", "star"} /\ e.kind # "list"
         /\ (e.kind = "from" \/ e.kind = "decl") => e.as = e.name
         /\ e.from \in Files /\ e.name \in Names
  BY <1>1, ExportProperties DEF Lists, Aliases
<1> DEFINE named == {v \in PublicUses(w.file) : v.name = w.name}
<1>3. CASE named # {} /\ u \in named
  <2>1. PICK e \in ExportsOf(w.file) : e.kind = "from" /\ u = UseOf(e.from, e.name)
    BY <1>3 DEF PublicUses
  <2>2. e.name = w.name
    BY <1>3, <2>1 DEF UseOf, Node
  <2>3. e \in Explicit(w.file, w.name)
    BY <1>2, <2>1, <2>2 DEF Explicit
  <2> DEFINE y == Node(e.from, e.name)
  <2>4. y \in Links(w)
    BY <2>1, <2>3 DEF Links
  <2>5. y \in Nodes /\ y.file = e.from /\ y.name = e.name
    BY <1>2, NodeProperties
  <2> HIDE DEF y
  <2> QED
    BY <2>1, <2>4, <2>5
<1>4. CASE named = {} /\ u \in {Node(g, w.name) : g \in Globs(w.file)} /\ w.name \notin PublicItems(w.file)
  <2>1. ~ Named(w)
    <3> SUFFICES ASSUME NEW e \in Explicit(w.file, w.name) PROVE FALSE
      BY DEF Named
    <3>1. e \in ExportsOf(w.file) /\ e.as = w.name /\ e.kind # "star"
      BY DEF Explicit
    <3>2. e.name = w.name /\ (e.kind = "from" \/ e.kind = "decl")
      BY <1>2, <3>1
    <3>3. e.kind # "decl"
      BY <1>4, <3>1, <3>2 DEF PublicItems
    <3>4. UseOf(e.from, e.name) \in PublicUses(w.file) /\ UseOf(e.from, e.name).name = w.name
      BY <3>1, <3>2, <3>3 DEF PublicUses, UseOf, Node
    <3> QED
      BY <1>4, <3>4
  <2>2. PICK e \in ExportsOf(w.file) : e.kind = "star" /\ u = Node(e.from, w.name)
    BY <1>4 DEF Globs
  <2>3. u \in Links(w)
    BY <2>1, <2>2, ByStars DEF Named
  <2>4. u \in Nodes
    BY <2>3, LinkProperties
  <2> QED
    BY <2>3, <2>4
<1> QED
  BY <1>3, <1>4 DEF RustLinks

(* Nothing else than the declaration is found. *)
LEMMA RustSound ==
    ASSUME prog \in Programs, ~ Lists, ~ Aliases, Right(resolved),
           NEW x \in Nodes, NEW z \in Chain(x)
    PROVE  /\ RustMap \in [Nodes -> SUBSET Nodes]
           /\ RustOrigins(z) \subseteq Origins(x)
<1>1. ASSUME NEW w \in Nodes, NEW u \in RustLinks(w) PROVE u \in Chain(w)
  <2>1. PICK y \in Links(w) : y \in Nodes /\ (u = y \/ u = UseOf(y.file, y.name))
    BY RustForms
  <2>2. y \in Chain(w) /\ Chain(y) \subseteq Chain(w)
    BY ChainProperties
  <2>3. UseOf(y.file, y.name) \in Chain(y)
    BY <2>1, UseStays
  <2> QED
    BY <2>1, <2>2, <2>3
<1>2. RustMap \in [Nodes -> SUBSET Nodes] /\ \A w \in Nodes : RustMap[w] = RustLinks(w)
  <2>1. \A w \in Nodes : RustLinks(w) \subseteq Nodes
    BY <1>1, ChainProperties
  <2> QED
    BY <2>1 DEF RustMap
<1>3. z \in Nodes /\ Chain(x) \subseteq Nodes
  BY ChainProperties
<1>4. Closure(RustMap, z) \subseteq Chain(x)
  <2>1. \A w \in Chain(x) \cap Nodes : RustMap[w] \subseteq Chain(x)
    BY <1>1, <1>2, ChainProperties
  <2> QED
    BY <1>2, <1>3, <2>1, ClosureProperties
<1>5. ASSUME NEW y \in RustOrigins(z) PROVE y \in Origins(x)
  <2>1. y \in Chain(x) /\ y.name \in PublicItems(y.file) /\ y \in Nodes
    BY <1>3, <1>4 DEF RustOrigins, RustMap
  <2>2. PICK e \in ExportsOf(y.file) : e.kind = "decl" /\ e.name = y.name
    BY <2>1 DEF PublicItems
  <2>3. e.as = e.name /\ Node(y.file, e.name) = y
    BY <2>1, <2>2, ExportProperties, NodeProperties
  <2>4. e \in Explicit(y.file, y.name) /\ Declares(y.file, e)
    BY <2>2, <2>3 DEF Explicit, Declares
  <2>5. y \in Defines(y)
    BY <2>3, <2>4 DEF Defines
  <2> QED
    BY <2>1, <2>5 DEF Origins
<1> QED
  BY <1>2, <1>5

(* And it is found, if no chain comes back and nothing hides it: of the    *)
(* names where it is not, one with the shortest chain would lead to        *)
(* another.                                                                *)
LEMMA RustReaches ==
    ASSUME prog \in Programs, ~ Lists, ~ Aliases, Right(resolved),
           NEW x \in Nodes, Importable(x), ~ Hides(x), ~ Circular(x),
           NEW o \in Chain(x), Importable(o)
    PROVE  RustOrigins(o) # {}
<1> DEFINE B == {z \in Chain(x) : Importable(z) /\ RustOrigins(z) = {}}
           Size(z) == Cardinality(Chain(z))
           I == {Size(z) : z \in B}
<1>1. SUFFICES ASSUME B # {} PROVE FALSE
  OBVIOUS
<1>2. Chain(x) \subseteq Nodes
  BY ChainProperties
<1>3. \A z \in Nodes : IsFiniteSet(Chain(z)) /\ Size(z) \in Nat
  <2>1. \A z \in Nodes : Chain(z) \in SUBSET Nodes
    BY ChainProperties
  <2> QED
    BY <2>1, NodesFinite, FS_Subset, FS_CardinalityType
<1>4. I \in SUBSET Nat /\ I # {}
  BY <1>1, <1>2, <1>3
<1>5. PICK i \in I : \A j \in I : i <= j
  BY <1>4, FirstNumber
<1>6. PICK z \in B : Size(z) = i
  OBVIOUS
<1>7. \A w \in B : Size(z) <= Size(w)
  BY <1>5, <1>6
<1>8. z \in Nodes /\ z \in Chain(x) /\ Chain(z) \subseteq Chain(x) /\ Importable(z) /\ RustOrigins(z) = {}
  BY <1>2, ChainProperties
<1> HIDE DEF B, I
(* A link further, the chain is shorter. *)
<1>9. ASSUME NEW y \in Links(z), NEW u \in Chain(y), Importable(u) PROVE RustOrigins(u) # {}
  <2>1. y \in Nodes /\ y \in Chain(z) /\ Chain(y) \subseteq Chain(z)
    BY <1>8, ChainProperties
  <2>2. u \in Nodes /\ u \in Chain(x) /\ Chain(u) \subseteq Chain(y)
    BY <1>8, <2>1, ChainProperties
  <2>3. z \notin Chain(y)
    BY <1>8 DEF Circular
  <2>4. Chain(u) \subseteq Chain(z) /\ Chain(u) # Chain(z)
    <3>1. z \in Chain(z)
      BY <1>8, ChainProperties
    <3> QED
      BY <2>1, <2>2, <2>3, <3>1
  <2>5. Size(u) < Size(z)
    <3>1. Size(u) <= Size(z) /\ Size(u) # Size(z)
      BY <1>3, <1>8, <2>4, FS_Subset
    <3> QED
      BY <1>3, <1>8, <2>2, <3>1
  <2>6. u \notin B
    <3> HIDE DEF Size
    <3> QED
      BY <1>3, <1>7, <1>8, <2>2, <2>5
  <2> QED
    BY <1>9, <2>2, <2>6 DEF B
<1>10. /\ RustMap \in [Nodes -> SUBSET Nodes]
       /\ \A w \in Nodes : RustMap[w] = RustLinks(w)
  BY RustSound, <1>8 DEF RustMap
<1>11. ASSUME NEW u \in RustLinks(z) PROVE RustOrigins(u) = {}
  <2>1. Closure(RustMap, u) \subseteq Closure(RustMap, z)
    BY <1>8, <1>10, ClosureProperties
  <2> QED
    BY <1>8, <2>1 DEF RustOrigins, RustMap
<1>12. z.name \notin PublicItems(z.file)
  <2>1. z \in Closure(RustMap, z)
    BY <1>8, <1>10, ClosureProperties
  <2> QED
    BY <1>8, <2>1 DEF RustOrigins, RustMap
<1>13. ~ Hidden(z)
  BY <1>8 DEF Hides
<1> DEFINE named == {v \in PublicUses(z.file) : v.name = z.name}
<1>14. RustLinks(z) = IF named # {} THEN named ELSE {Node(g, z.name) : g \in Globs(z.file)}
  BY <1>12, <1>13 DEF RustLinks
<1>15. CASE ~ Named(z)
  <2>1. /\ Links(z) = {Node(e.from, z.name) : e \in {d \in ExportsOf(z.file) : d.kind = "star"}}
        /\ Defines(z) = {}
    BY <1>8, <1>15, ByStars DEF Named
  <2>2. PICK y \in Links(z) : Origins(y) # {}
    <3>1. Origins(z) = Defines(z) \cup UNION {Origins(y) : y \in Links(z)}
      BY <1>8, OriginProperties
    <3>2. Origins(z) # {}
      BY <1>8, ImportableOrigin
    <3> QED
      BY <2>1, <3>1, <3>2
  <2>3. Importable(y) /\ y \in Chain(y)
    BY <1>8, <2>2, ChainProperties, ImportableBelow
  <2>4. RustOrigins(y) # {}
    BY <1>9, <2>3
  <2>5. named = {}
    <3> SUFFICES ASSUME NEW e \in ExportsOf(z.file), e.kind = "from", UseOf(e.from, e.name).name = z.name
                 PROVE  FALSE
      BY DEF PublicUses
    <3>1. e.name = z.name
      BY DEF UseOf, Node
    <3>2. e.as = e.name
      BY <1>8, NodeProperties DEF Aliases
    <3> QED
      BY <1>15, <3>1, <3>2 DEF Named, Explicit
  <2>6. y \in RustLinks(z)
    BY <1>14, <2>1, <2>5 DEF Globs
  <2> QED
    BY <1>11, <2>4, <2>6
<1>16. ASSUME NEW e \in Explicit(z.file, z.name) PROVE FALSE
  <2>1. e \in ExportsOf(z.file) /\ e.as = z.name /\ Explicit(z.file, z.name) = {e}
    BY <1>8, ImportableExplicit
  <2>2. e.kind = "from" /\ e.name = z.name
    <3>1. /\ e.kind \in {"decl", "list", "from", "star"} /\ e.kind # "list" /\ e.kind # "star"
          /\ (e.kind = "from" \/ e.kind = "decl") => e.as = e.name
      BY <1>8, <2>1, NodeProperties, ExportProperties DEF Explicit, Lists, Aliases
    <3>2. e.kind # "decl"
      BY <1>12, <2>1, <3>1 DEF PublicItems
    <3> QED
      BY <2>1, <3>1, <3>2
  <2> DEFINE y == Node(e.from, e.name)
             u == UseOf(e.from, e.name)
  <2>3. y \in Nodes /\ Links(z) = {y} /\ Importable(y) /\ y.file = e.from /\ y.name = e.name
    BY <1>8, <2>2, ImportableExplicit DEF Node
  <2>4. u \in RustLinks(z)
    <3>1. u \in named
      BY <2>1, <2>2 DEF PublicUses, UseOf, Node
    <3> HIDE DEF named, u
    <3> QED
      BY <1>14, <3>1
  <2>5. u = UseOf(y.file, y.name)
    BY <2>3
  <2> HIDE DEF y, u
  <2>6. u \in Chain(y) /\ u \in Nodes /\ Origins(u) = Origins(y)
    BY <2>3, <2>5, UseStays
  <2>7. Importable(u)
    <3>1. Origins(y) # {}
      BY <2>3, ImportableOrigin
    <3> QED
      BY <2>3, <2>6, <3>1, ImportableBelow
  <2>8. RustOrigins(u) # {}
    BY <1>9, <2>3, <2>6, <2>7
  <2> QED
    BY <1>11, <2>4, <2>8
<1> QED
  BY <1>15, <1>16 DEF Named

(* Whoever imports a name, and every line of a mod.rs, uses a module where *)
(* rustc finds the declaration TypeScript means.                           *)
THEOREM UsesHold ==
    Spec => []UsesReachTheDeclaration
<1>1. GraphInv => UsesReachTheDeclaration
  <2> SUFFICES ASSUME GraphInv, phase = "done", ~ Lists, ~ Aliases, ~ FromItself,
                      NEW x \in Nodes, Importable(x), InReach(x), ~ Hides(x),
                      ~ (Circular(x) /\ TakenOver(x))
               PROVE  /\ RustOrigins(UseOf(x.file, x.name)) = Origins(x)
                      /\ \A u \in ReexportsOf(x.file) : u.name = x.name => RustOrigins(u) = Origins(x)
    BY DEF UsesReachTheDeclaration
  <2>1. prog \in Programs /\ Plain
    BY DEF GraphInv, Control, Plain, Lists, ListAliases
  <2>2. Right(resolved)
    BY <2>1 DEF GraphInv
  <2>3. Found(resolved, x)
    <3>1. x.file \in Files /\ Near(x, MaxRounds)
      BY NodeProperties DEF InReach, Near
    <3> QED
      BY <2>1, <3>1 DEF GraphInv, FoundUpTo
  <2> DEFINE o == UseOf(x.file, x.name)
  <2>4. o = At(resolved, x) /\ o \in Chain(x) /\ o \in Nodes /\ Origins(o) = Origins(x)
    BY <2>1, <2>2, <2>3, UseStays DEF Found
  <2>5. PICK d : Origins(x) = {d}
    BY <2>1, ImportableOrigin
  <2> HIDE DEF o
  <2>6. Importable(o)
    BY <2>1, <2>4, <2>5, ImportableBelow
  <2>7. RustMap \in [Nodes -> SUBSET Nodes] /\ RustOrigins(o) \subseteq Origins(x)
    BY <2>1, <2>2, <2>4, RustSound
  <2>8. RustOrigins(o) # {}
    <3>1. CASE ~ Circular(x)
      BY <2>1, <2>2, <2>4, <2>6, <3>1, RustReaches
    <3>2. CASE ~ TakenOver(x)
      <4>1. Origins(x) = {o}
        BY <2>3, <2>4, <3>2 DEF Found
      <4>2. PICK y \in Chain(x) : o \in Defines(y)
        BY <4>1 DEF Origins
      <4>3. PICK e \in Explicit(y.file, y.name) : Declares(y.file, e) /\ o = Node(y.file, e.name)
        BY <4>2 DEF Defines
      <4>4. e \in ExportsOf(y.file) /\ e.kind = "decl"
        <5>1. y.file \in Files
          BY <2>1, ChainProperties, NodeProperties
        <5> QED
          BY <4>3, <5>1 DEF Explicit, Declares, Lists
      <4>5. o.name \in PublicItems(o.file)
        BY <4>3, <4>4 DEF PublicItems, Node
      <4>6. o \in Closure(RustMap, o)
        BY <2>4, <2>7, ClosureProperties
      <4> QED
        BY <4>5, <4>6 DEF RustOrigins, RustMap
    <3> QED
      BY <3>1, <3>2
  <2>9. RustOrigins(o) = Origins(x)
    BY <2>5, <2>7, <2>8
  <2>10. ASSUME NEW u \in ReexportsOf(x.file), u.name = x.name PROVE u = o
    BY <2>3, <2>10 DEF ReexportsOf, o, UseOf, ResolveImport, Found, On, Node
  <2> QED
    BY <2>9, <2>10 DEF o
<1> QED
  BY <1>1, GraphHolds, PTL

================================================================================
