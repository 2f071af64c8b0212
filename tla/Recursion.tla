------------------------------- MODULE Recursion -------------------------------
(***************************************************************************)
(* Functions defined by recursion over a set whose elements have a height: *)
(* trees, sequences.  Where the value at an element depends on the values  *)
(* at lower ones only, the function exists, and so equals what defines it. *)
(* A module instantiates this one with its set, heights and step.          *)
(***************************************************************************)
EXTENDS FiniteSets, Integers, NaturalsInduction, WellFoundedInduction, TLAPS

CONSTANTS
    S,            \* the set
    H,            \* element |-> its height
    Step(_, _)    \* the value at an element, from the function so far

(* Step looks at lower elements only. *)
LooksDown ==
    \A x \in S : \A g, h : (\A y \in S : H[y] < H[x] => g[y] = h[y]) => Step(x, g) = Step(x, h)

Below(n) == {x \in S : H[x] < n}

(* The function up to a height. *)
UpToHeight(f, n) == f = [x \in Below(n) |-> Step(x, f)]

(* A nonempty set of elements has a lowest one.  Any recursion over        *)
(* expressions in the code ends for this reason.                           *)
LEMMA Lowest ==
    ASSUME H \in [S -> Nat], NEW T \in SUBSET S, T # {}
    PROVE  \E x \in T : \A y \in T : H[x] <= H[y]
<1> DEFINE R == OpToRel(<, Nat)
           I == {H[x] : x \in T}
<1>1. \A n, m \in Nat : n < m => <<n, m>> \in R
  BY DEF OpToRel
<1>2. IsWellFoundedOn(R, Nat)
  BY NatLessThanWellFounded, Zenon
<1>3. I \in SUBSET Nat /\ I # {}
  OBVIOUS
<1> HIDE DEF R, I
<1>4. PICK i \in I : \A j \in I : ~ (<<j, i>> \in R)
  BY <1>2, <1>3, WFMin
<1>5. \A j \in I : ~ (j < i)
  BY <1>1, <1>3, <1>4
<1>6. \A j \in I : i <= j
  BY <1>3, <1>5
<1> QED
  BY <1>4, <1>6 DEF I

(* What holds of an element if it holds of all lower ones holds of all.    *)
THEOREM Induct ==
    ASSUME H \in [S -> Nat], NEW P,
           \A x \in S : (\A y \in S : H[y] < H[x] => y \in P) => x \in P
    PROVE  S \subseteq P
<1>1. SUFFICES ASSUME {x \in S : x \notin P} # {} PROVE FALSE
  OBVIOUS
<1>2. PICK x \in {z \in S : z \notin P} : \A y \in {z \in S : z \notin P} : H[x] <= H[y]
  BY <1>1, Lowest
<1>3. \A y \in S : H[y] < H[x] => y \in P
  BY <1>2
<1> QED
  BY <1>2, <1>3

(* Two of them agree where both are defined. *)
LEMMA Agree ==
    ASSUME H \in [S -> Nat], LooksDown, NEW m \in Nat, NEW n \in Nat, m <= n,
           NEW f, UpToHeight(f, m), NEW g, UpToHeight(g, n)
    PROVE  \A x \in Below(m) : f[x] = g[x]
<1> DEFINE P == {x \in S : H[x] < m => f[x] = g[x]}
<1>1. ASSUME NEW x \in S, \A y \in S : H[y] < H[x] => y \in P PROVE x \in P
  <2>1. SUFFICES ASSUME H[x] < m PROVE f[x] = g[x]
    OBVIOUS
  <2>2. \A y \in S : H[y] < H[x] => f[y] = g[y]
    BY <1>1, <2>1
  <2>3. Step(x, f) = Step(x, g)
    BY <2>2 DEF LooksDown
  <2>4. f[x] = Step(x, f) /\ g[x] = Step(x, g)
    BY <2>1 DEF UpToHeight, Below
  <2> QED
    BY <2>3, <2>4
<1>2. S \subseteq P
  <2> HIDE DEF P
  <2> QED
    BY <1>1, Induct
<1> QED
  BY <1>2 DEF Below

(* There is one up to every height. *)
LEMMA EveryHeight ==
    ASSUME H \in [S -> Nat], LooksDown
    PROVE  \A n \in Nat : \E f : UpToHeight(f, n)
<1> DEFINE Q(n) == \E f : UpToHeight(f, n)
<1>1. Q(0)
  <2> DEFINE z == [x \in Below(0) |-> 0]
  <2>1. Below(0) = {}
    BY DEF Below
  <2>2. z = [x \in Below(0) |-> Step(x, z)]
    BY <2>1
  <2> QED
    BY <2>2 DEF UpToHeight
<1>2. ASSUME NEW n \in Nat, Q(n) PROVE Q(n + 1)
  <2>1. PICK f : UpToHeight(f, n)
    BY <1>2
  <2> DEFINE g == [x \in Below(n + 1) |-> Step(x, f)]
  <2>2. ASSUME NEW x \in Below(n + 1) PROVE Step(x, f) = Step(x, g)
    <3>1. \A y \in S : H[y] < H[x] => y \in Below(n) /\ y \in Below(n + 1)
      BY <2>2 DEF Below
    <3>2. \A y \in S : H[y] < H[x] => f[y] = Step(y, f) /\ g[y] = Step(y, f)
      BY <2>1, <3>1 DEF UpToHeight
    <3> QED
      BY <2>2, <3>2 DEF LooksDown, Below
  <2>3. g = [x \in Below(n + 1) |-> Step(x, g)]
    BY <2>2
  <2> QED
    BY <2>3 DEF UpToHeight
<1> HIDE DEF Q
<1>3. \A n \in Nat : Q(n)
  <2> DEFINE N == {n \in Nat : ~ Q(n)}
  <2>1. SUFFICES ASSUME N # {} PROVE FALSE
    OBVIOUS
  <2>2. PICK n \in N : \A k \in Nat : k < n => k \notin N
    <3> DEFINE R == OpToRel(<, Nat)
    <3>1. \A i, j \in Nat : i < j => <<i, j>> \in R
      BY DEF OpToRel
    <3>2. IsWellFoundedOn(R, Nat)
      BY NatLessThanWellFounded, Zenon
    <3>3. N \subseteq Nat
      OBVIOUS
    <3> HIDE DEF R, N
    <3>4. PICK n \in N : \A j \in N : ~ (<<j, n>> \in R)
      BY <2>1, <3>2, <3>3, WFMin
    <3> QED
      BY <3>1, <3>3, <3>4
  <2>3. n # 0 /\ n - 1 \in Nat /\ n - 1 \notin N
    BY <1>1, <2>2
  <2> QED
    BY <1>2, <2>2, <2>3
<1> QED
  BY <1>3 DEF Q

(* The function exists. *)
THEOREM Exists ==
    ASSUME H \in [S -> Nat], LooksDown
    PROVE  \E f : f = [x \in S |-> Step(x, f)]
<1> DEFINE A(n) == CHOOSE f : UpToHeight(f, n)
           F == [x \in S |-> Step(x, A(H[x]))]
<1>1. \A n \in Nat : UpToHeight(A(n), n)
  BY EveryHeight
<1> HIDE DEF A
<1>2. ASSUME NEW x \in S PROVE Step(x, A(H[x])) = Step(x, F)
  <2>1. ASSUME NEW y \in S, H[y] < H[x] PROVE A(H[x])[y] = F[y]
    <3>1. H[x] \in Nat /\ H[y] \in Nat /\ H[y] <= H[x]
      BY <2>1
    <3>2. \A z \in Below(H[y]) : A(H[y])[z] = A(H[x])[z]
      BY <1>1, <3>1, Agree
    <3>3. \A z \in S : H[z] < H[y] => A(H[y])[z] = A(H[x])[z]
      BY <3>2 DEF Below
    <3>4. Step(y, A(H[y])) = Step(y, A(H[x]))
      BY <3>3 DEF LooksDown
    <3>5. y \in Below(H[x])
      BY <2>1 DEF Below
    <3>6. A(H[x])[y] = Step(y, A(H[x]))
      BY <1>1, <3>1, <3>5 DEF UpToHeight
    <3> QED
      BY <3>4, <3>6
  <2> HIDE DEF F
  <2> QED
    BY <2>1 DEF LooksDown
<1>3. F = [x \in S |-> Step(x, F)]
  BY <1>2
<1> QED
  BY <1>3
=============================================================================
