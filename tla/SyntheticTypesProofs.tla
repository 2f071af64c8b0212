----------------------- MODULE SyntheticTypesProofs -----------------------
(***************************************************************************)
(* What the operations on a registry of synthetic types preserve, for any  *)
(* registry: the facts the proofs about one registry                       *)
(* (SyntheticRegistryProofs) and about the pipeline (PipelineProofs) cite. *)
(***************************************************************************)
EXTENDS SyntheticTypes, SequenceTheorems, WellFoundedInduction, TLAPS

-----------------------------------------------------------------------------
(* Put keeps a map a map. *)
LEMMA PutMap ==
    ASSUME NEW f, NEW S, NEW T, NEW k \in S, NEW v \in T, IsMap(f, S, T)
    PROVE  IsMap(Put(f, k, v), S, T)
BY DEF Put, IsMap

(* Names and definitions built by the operations are names and             *)
(* definitions.                                                            *)
LEMMA NameTypes ==
    /\ \A t \in Texts : PlainName(t) \in Names
    /\ \A t \in Texts, n \in Nat : Numbered(t, n) \in Names
    /\ \A n \in Names : ImplName(n) \in Names
BY DEF PlainName, Numbered, ImplName, Names, Plain

-----------------------------------------------------------------------------
(* Writing an item under a name that is plain, or an impl block's, touches *)
(* nothing that is numbered.                                               *)
LEMMA PushSound ==
    ASSUME NEW r, NEW n \in Names, NEW k \in Kinds, NEW b \in Bodies,
           Sound(r), n.id = Plain \/ n.impl = TRUE
    PROVE  Sound(PushItem(r, n, k, b)) /\ Keeps(r, PushItem(r, n, k, b))
<1> DEFINE q == PushItem(r, n, k, b)
<1>1. /\ q = [types |-> q.types, unionDedup |-> q.unionDedup, structDedup |-> q.structDedup,
              enumDedup |-> q.enumDedup, structCtr |-> q.structCtr, synCtr |-> q.synCtr,
              scope |-> q.scope]
      /\ q.types = Put(r.types, n, Def(k, b))
      /\ q.unionDedup = r.unionDedup
      /\ q.structDedup = r.structDedup
      /\ q.enumDedup = r.enumDedup
      /\ q.structCtr = r.structCtr
      /\ q.synCtr = r.synCtr
      /\ q.scope = r.scope
  BY DEF PushItem, Sound, IsRegistry
<1> HIDE DEF q
<1>2. Def(k, b) \in Defs
  BY DEF Def, Defs
<1>3. IsRegistry(q)
  <2>1. IsMap(q.types, Names, Defs)
    BY <1>1, <1>2, PutMap DEF Sound, IsRegistry
  <2> QED
    BY <1>1, <2>1 DEF Sound, IsRegistry
<1>4. \A x \in DOMAIN r.types : x # n => x \in DOMAIN q.types /\ q.types[x] = r.types[x]
  BY <1>1 DEF Put
<1>5. DOMAIN q.types = DOMAIN r.types \cup {n}
  BY <1>1 DEF Put
<1>6. Recorded(q, q.structDedup, "TypeLit", q.structCtr)
  BY <1>1, <1>4 DEF Sound, Recorded, Plain
<1>7. Recorded(q, q.enumDedup, "Intersection", q.synCtr)
  BY <1>1, <1>4 DEF Sound, Recorded, Plain
<1>8. NumbersBelow(q)
  BY <1>1, <1>5 DEF Sound, NumbersBelow, Plain, IsRegistry
<1>9. Keeps(r, q)
  BY <1>1, <1>4 DEF Keeps
<1> QED
  BY <1>3, <1>6, <1>7, <1>8, <1>9 DEF Sound, q

(* A registry that only differs in its union signatures or its scope is as *)
(* sound.                                                                  *)
LEMMA RestoreSound ==
    ASSUME NEW r, NEW ts \in SUBSET Texts, Sound(r)
    PROVE  Sound(RestoreScope(r, ts)) /\ Keeps(r, RestoreScope(r, ts))
BY DEF RestoreScope, Sound, IsRegistry, Recorded, NumbersBelow, Keeps

(* Entering a scope is restoring a larger one.                             *)
LEMMA PushScopeSound ==
    ASSUME NEW r, NEW ts \in SUBSET Texts, Sound(r)
    PROVE  Sound(PushScope(r, ts)) /\ Keeps(r, PushScope(r, ts))
<1>1. PushScope(r, ts) = RestoreScope(r, r.scope \cup ts)
  BY DEF PushScope, RestoreScope
<1>2. r.scope \cup ts \in SUBSET Texts
  BY DEF Sound, IsRegistry
<1> QED
  BY <1>1, <1>2, RestoreSound

(* Recording the name of a union or string enum under its signature        *)
(* touches no item.                                                        *)
LEMMA UnionKeySound ==
    ASSUME NEW r, NEW key \in UnionKeys, NEW n \in Names, Sound(r)
    PROVE  /\ Sound([r EXCEPT !.unionDedup = Put(@, key, n)])
           /\ Keeps(r, [r EXCEPT !.unionDedup = Put(@, key, n)])
<1>1. IsMap(Put(r.unionDedup, key, n), UnionKeys, Names)
  BY PutMap DEF Sound, IsRegistry
<1> QED
  BY <1>1 DEF Sound, IsRegistry, Recorded, NumbersBelow, Keeps

(* What survives one change and then another survives both.                *)
LEMMA KeepsTransitive ==
    ASSUME NEW r, NEW q, NEW s, Keeps(r, q), Keeps(q, s)
    PROVE  Keeps(r, s)
BY DEF Keeps

(* Changing nothing keeps everything.                                      *)
LEMMA KeepsItself ==
    ASSUME NEW r
    PROVE  Keeps(r, r)
BY DEF Keeps

-----------------------------------------------------------------------------
(* The members a union keeps, and the name made of their variants. *)
LEMMA UnionTypes ==
    ASSUME NEW ms \in Seq(Parts)
    PROVE  /\ DedupMembers(ms) \in Bodies
           /\ FreshUnionName(ms) \in Names
           /\ FreshUnionName(ms).id = Plain
           /\ UnionKey(ms) \in UnionKeys
<1>1. \A i \in DOMAIN ms : ms[i] \in Parts
  OBVIOUS
<1>2. DedupMembers(ms) \in Bodies
  BY <1>1 DEF DedupMembers, Bodies
<1>3. UnionText[VariantsOf(DedupMembers(ms))] \in Texts
  BY <1>2, NamingAssumption DEF Bodies, VariantsOf
<1>4. UnionKey(ms) \in UnionKeys
  BY <1>1 DEF UnionKey, UnionKeys, Bodies
<1> QED
  BY <1>2, <1>3, <1>4, NameTypes DEF FreshUnionName, PlainName, Numbered

(* A set of indexes has a first one. *)
LEMMA FirstIndex ==
    ASSUME NEW I \in SUBSET Nat, I # {}
    PROVE  \E i \in I : \A j \in I : i <= j
<1> DEFINE R == OpToRel(<, Nat)
<1>1. \A x, y \in Nat : x < y => <<x, y>> \in R
  BY DEF OpToRel
<1>2. IsWellFoundedOn(R, Nat)
  BY NatLessThanWellFounded, Zenon
<1> HIDE DEF R
<1>3. PICK i \in I : \A j \in I : ~ (<<j, i>> \in R)
  BY <1>2, WFMin
<1>4. \A j \in I : ~ (j < i)
  BY <1>1, <1>3
<1> QED
  BY <1>4

(* Dropping the members whose variant name an earlier one has loses no     *)
(* variant name.                                                           *)
LEMMA DedupKeepsVariants ==
    ASSUME NEW ms \in Seq(Parts)
    PROVE  VariantsOf(DedupMembers(ms)) = VariantsOf(UnionKey(ms).parts)
<1>1. UnionKey(ms).parts = {ms[i] : i \in DOMAIN ms}
  BY DEF UnionKey
<1>2. DedupMembers(ms) \subseteq UnionKey(ms).parts
  BY <1>1 DEF DedupMembers
<1>3. ASSUME NEW i \in DOMAIN ms
      PROVE  \E m \in DedupMembers(ms) : VariantOf[m] = VariantOf[ms[i]]
  <2> DEFINE I == {j \in DOMAIN ms : VariantOf[ms[j]] = VariantOf[ms[i]]}
  <2>1. DOMAIN ms \subseteq Nat /\ \A j \in DOMAIN ms : 1 .. (j - 1) \subseteq DOMAIN ms
    OBVIOUS
  <2>2. PICK j \in I : \A k \in I : j <= k
    BY <2>1, FirstIndex
  <2>3. \A k \in 1 .. (j - 1) : VariantOf[ms[k]] # VariantOf[ms[j]]
    BY <2>1, <2>2
  <2> QED
    BY <2>2, <2>3 DEF DedupMembers
<1> QED
  BY <1>1, <1>2, <1>3 DEF VariantsOf

(* Requests with one signature get one name, in whatever order they list   *)
(* the members.                                                            *)
LEMMA KeyDeterminesName ==
    ASSUME NEW ms \in Seq(Parts), NEW ns \in Seq(Parts), UnionKey(ms) = UnionKey(ns)
    PROVE  /\ VariantsOf(DedupMembers(ms)) = VariantsOf(DedupMembers(ns))
           /\ FreshUnionName(ms) = FreshUnionName(ns)
BY DedupKeepsVariants DEF FreshUnionName

(* register_union leaves every numbered item alone. *)
LEMMA UnionSound ==
    ASSUME NEW r, NEW ms \in Seq(Parts), Sound(r)
    PROVE  Sound(RegisterUnion(r, ms)) /\ Keeps(r, RegisterUnion(r, ms))
<1>1. CASE UnionKey(ms) \in DOMAIN r.unionDedup
  BY <1>1, KeepsItself DEF RegisterUnion
<1>2. CASE UnionKey(ms) \notin DOMAIN r.unionDedup
  <2> DEFINE q == PushItem(r, FreshUnionName(ms), "UnionEnum", DedupMembers(ms))
  <2>1. Sound(q) /\ Keeps(r, q)
    BY UnionTypes, PushSound DEF Kinds
  <2>2. RegisterUnion(r, ms) = [q EXCEPT !.unionDedup = Put(@, UnionKey(ms), FreshUnionName(ms))]
    BY <1>2 DEF RegisterUnion, PushItem, Sound, IsRegistry
  <2> QED
    BY <2>1, <2>2, UnionTypes, UnionKeySound, KeepsTransitive
<1> QED
  BY <1>1, <1>2

(* register_any_enum and the utility types. *)
LEMMA PushIfAbsentSound ==
    ASSUME NEW r, NEW t \in Texts, NEW k \in Kinds, NEW b \in Bodies, Sound(r)
    PROVE  /\ Sound(PushIfAbsent(r, PlainName(t), k, b))
           /\ Keeps(r, PushIfAbsent(r, PlainName(t), k, b))
<1>1. PlainName(t) \in Names /\ PlainName(t).id = Plain
  BY NameTypes DEF PlainName, Numbered
<1> QED
  BY <1>1, PushSound, KeepsItself DEF PushIfAbsent

-----------------------------------------------------------------------------
(* register_struct_dedup: a new signature takes the next number, which no  *)
(* item has yet.                                                           *)
LEMMA StructSound ==
    ASSUME NEW r, NEW fs \in Bodies, Sound(r)
    PROVE  /\ Sound(RegisterStruct(r, fs))
           /\ Keeps(r, RegisterStruct(r, fs))
           /\ StructName(r, fs) \in Names
           /\ fs \in DOMAIN RegisterStruct(r, fs).structDedup
           /\ RegisterStruct(r, fs).structDedup[fs] = StructName(r, fs)
<1>1. CASE fs \in DOMAIN r.structDedup
  BY <1>1, KeepsItself DEF RegisterStruct, StructName, Sound, IsRegistry, IsMap
<1>2. CASE fs \notin DOMAIN r.structDedup
  <2> DEFINE n == Numbered("TypeLit", r.structCtr)
             q == RegisterStruct(r, fs)
  <2>1. r.structCtr \in Nat /\ r.synCtr \in Nat
    BY DEF Sound, IsRegistry
  <2>2. /\ n \in Names
        /\ n.text = "TypeLit" /\ n.id = r.structCtr /\ n.impl = FALSE
    BY <2>1, NameTypes, NamingAssumption DEF Numbered
  <2>3. /\ q = [types |-> q.types, unionDedup |-> q.unionDedup, structDedup |-> q.structDedup,
                enumDedup |-> q.enumDedup, structCtr |-> q.structCtr, synCtr |-> q.synCtr,
                scope |-> q.scope]
        /\ q.types = Put(r.types, n, Def("InlineStruct", fs))
        /\ q.unionDedup = r.unionDedup
        /\ q.structDedup = Put(r.structDedup, fs, n)
        /\ q.enumDedup = r.enumDedup
        /\ q.structCtr = r.structCtr + 1
        /\ q.synCtr = r.synCtr
        /\ q.scope = r.scope
    BY <1>2 DEF RegisterStruct, StructName, Sound, IsRegistry
  <2>4. StructName(r, fs) = n
    BY <1>2 DEF StructName
  <2> HIDE DEF n, q
  <2>5. n \notin DOMAIN r.types
    BY <2>1, <2>2 DEF Sound, NumbersBelow
  <2>6. Def("InlineStruct", fs) \in Defs /\ Def("InlineStruct", fs).body = fs
    BY DEF Def, Defs, Kinds
  <2>7. /\ DOMAIN q.types = DOMAIN r.types \cup {n}
        /\ q.types[n] = Def("InlineStruct", fs)
        /\ \A x \in DOMAIN r.types : q.types[x] = r.types[x]
    BY <2>3, <2>5 DEF Put
  <2>8. /\ DOMAIN q.structDedup = DOMAIN r.structDedup \cup {fs}
        /\ q.structDedup[fs] = n
        /\ \A x \in DOMAIN r.structDedup : q.structDedup[x] = r.structDedup[x]
    BY <1>2, <2>3 DEF Put
  <2>9. IsRegistry(q)
    <3>1. IsMap(q.types, Names, Defs)
      BY <2>2, <2>3, <2>6, PutMap DEF Sound, IsRegistry
    <3>2. IsMap(q.structDedup, Bodies, Names)
      BY <2>2, <2>3, PutMap DEF Sound, IsRegistry
    <3> QED
      BY <2>1, <2>3, <3>1, <3>2 DEF Sound, IsRegistry
  <2>10. Recorded(q, q.structDedup, "TypeLit", q.structCtr)
    BY <2>1, <2>2, <2>3, <2>6, <2>7, <2>8 DEF Sound, Recorded
  <2>11. Recorded(q, q.enumDedup, "Intersection", q.synCtr)
    BY <2>3, <2>7 DEF Sound, Recorded
  <2>12. NumbersBelow(q)
    <3>1. \A x \in DOMAIN r.types : x.id \in Int
      BY DEF Sound, IsRegistry, IsMap, Names, Plain
    <3> QED
      BY <2>1, <2>2, <2>3, <2>7, <3>1 DEF Sound, NumbersBelow
  <2>13. Keeps(r, q)
    BY <2>3, <2>7, <2>8 DEF Keeps
  <2> QED
    BY <2>2, <2>4, <2>8, <2>9, <2>10, <2>11, <2>12, <2>13 DEF Sound, q
<1> QED
  BY <1>1, <1>2

(* register_intersection_enum, with its own counter. *)
LEMMA EnumSound ==
    ASSUME NEW r, NEW vs \in Bodies, Sound(r)
    PROVE  /\ Sound(RegisterIntersectionEnum(r, vs))
           /\ Keeps(r, RegisterIntersectionEnum(r, vs))
           /\ EnumName(r, vs) \in Names
           /\ vs \in DOMAIN RegisterIntersectionEnum(r, vs).enumDedup
           /\ RegisterIntersectionEnum(r, vs).enumDedup[vs] = EnumName(r, vs)
<1>1. CASE vs \in DOMAIN r.enumDedup
  BY <1>1, KeepsItself DEF RegisterIntersectionEnum, EnumName, Sound, IsRegistry, IsMap
<1>2. CASE vs \notin DOMAIN r.enumDedup
  <2> DEFINE n == Numbered("Intersection", r.synCtr)
             q == RegisterIntersectionEnum(r, vs)
  <2>1. r.structCtr \in Nat /\ r.synCtr \in Nat
    BY DEF Sound, IsRegistry
  <2>2. /\ n \in Names
        /\ n.text = "Intersection" /\ n.id = r.synCtr /\ n.impl = FALSE
    BY <2>1, NameTypes, NamingAssumption DEF Numbered
  <2>3. /\ q = [types |-> q.types, unionDedup |-> q.unionDedup, structDedup |-> q.structDedup,
                enumDedup |-> q.enumDedup, structCtr |-> q.structCtr, synCtr |-> q.synCtr,
                scope |-> q.scope]
        /\ q.types = Put(r.types, n, Def("UnionEnum", vs))
        /\ q.unionDedup = r.unionDedup
        /\ q.structDedup = r.structDedup
        /\ q.enumDedup = Put(r.enumDedup, vs, n)
        /\ q.structCtr = r.structCtr
        /\ q.synCtr = r.synCtr + 1
        /\ q.scope = r.scope
    BY <1>2 DEF RegisterIntersectionEnum, EnumName, Sound, IsRegistry
  <2>4. EnumName(r, vs) = n
    BY <1>2 DEF EnumName
  <2> HIDE DEF n, q
  <2>5. n \notin DOMAIN r.types
    BY <2>1, <2>2 DEF Sound, NumbersBelow
  <2>6. Def("UnionEnum", vs) \in Defs /\ Def("UnionEnum", vs).body = vs
    BY DEF Def, Defs, Kinds
  <2>7. /\ DOMAIN q.types = DOMAIN r.types \cup {n}
        /\ q.types[n] = Def("UnionEnum", vs)
        /\ \A x \in DOMAIN r.types : q.types[x] = r.types[x]
    BY <2>3, <2>5 DEF Put
  <2>8. /\ DOMAIN q.enumDedup = DOMAIN r.enumDedup \cup {vs}
        /\ q.enumDedup[vs] = n
        /\ \A x \in DOMAIN r.enumDedup : q.enumDedup[x] = r.enumDedup[x]
    BY <1>2, <2>3 DEF Put
  <2>9. IsRegistry(q)
    <3>1. IsMap(q.types, Names, Defs)
      BY <2>2, <2>3, <2>6, PutMap DEF Sound, IsRegistry
    <3>2. IsMap(q.enumDedup, Bodies, Names)
      BY <2>2, <2>3, PutMap DEF Sound, IsRegistry
    <3> QED
      BY <2>1, <2>3, <3>1, <3>2 DEF Sound, IsRegistry
  <2>10. Recorded(q, q.structDedup, "TypeLit", q.structCtr)
    BY <2>3, <2>7 DEF Sound, Recorded
  <2>11. Recorded(q, q.enumDedup, "Intersection", q.synCtr)
    BY <2>1, <2>2, <2>3, <2>6, <2>7, <2>8 DEF Sound, Recorded
  <2>12. NumbersBelow(q)
    <3>1. \A x \in DOMAIN r.types : x.id \in Int
      BY DEF Sound, IsRegistry, IsMap, Names, Plain
    <3> QED
      BY <2>1, <2>2, <2>3, <2>7, <3>1 DEF Sound, NumbersBelow
  <2>13. Keeps(r, q)
    BY <2>3, <2>7, <2>8 DEF Keeps
  <2> QED
    BY <2>2, <2>4, <2>8, <2>9, <2>10, <2>11, <2>12, <2>13 DEF Sound, q
<1> QED
  BY <1>1, <1>2

(* An intersection with methods: the struct, then its impl block. *)
LEMMA IntersectionSound ==
    ASSUME NEW r, NEW fs \in Bodies, NEW methods \in Bodies, Sound(r)
    PROVE  /\ Sound(RegisterIntersection(r, fs, methods))
           /\ Keeps(r, RegisterIntersection(r, fs, methods))
           /\ fs \in DOMAIN RegisterIntersection(r, fs, methods).structDedup
           /\ RegisterIntersection(r, fs, methods).structDedup[fs] = StructName(r, fs)
<1> DEFINE q == RegisterStruct(r, fs)
           n == ImplName(StructName(r, fs))
<1>1. CASE methods = {}
  BY <1>1, StructSound DEF RegisterIntersection
<1>2. CASE methods # {}
  <2>1. n \in Names /\ n.impl = TRUE
    BY StructSound, NameTypes DEF ImplName, Names
  <2>2. Sound(q) /\ Keeps(r, q)
    BY StructSound
  <2>3. Sound(PushItem(q, n, "ImplBlock", methods)) /\ Keeps(q, PushItem(q, n, "ImplBlock", methods))
    BY <2>1, <2>2, PushSound DEF Kinds
  <2>4. RegisterIntersection(r, fs, methods) = PushItem(q, n, "ImplBlock", methods)
    BY <1>2 DEF RegisterIntersection
  <2>5. PushItem(q, n, "ImplBlock", methods).structDedup = q.structDedup
    BY <2>2 DEF PushItem, Sound, IsRegistry
  <2> QED
    BY <2>2, <2>3, <2>4, <2>5, StructSound, KeepsTransitive
<1> QED
  BY <1>1, <1>2

(* register_string_literal_enum: the hint's own name, or the hint with a   *)
(* number no enum has yet.                                                 *)
LEMMA StringSound ==
    ASSUME NEW r, NEW hint \in Texts, NEW vs \in Bodies, Sound(r),
           hint \notin {"TypeLit", "Intersection"}
    PROVE  /\ Sound(RegisterStringEnum(r, hint, vs))
           /\ Keeps(r, RegisterStringEnum(r, hint, vs))
           /\ StringEnumName(r, hint, vs) \in Names
<1> DEFINE n == StringEnumName(r, hint, vs)
           p == PushItem(r, n, "UnionEnum", vs)
           key == StringKey(vs)
<1>1. r.structCtr \in Nat /\ r.synCtr \in Nat
  BY DEF Sound, IsRegistry
<1>2. key \in UnionKeys
  BY DEF StringKey, UnionKeys
<1>3. CASE key \in DOMAIN r.unionDedup
  BY <1>3, KeepsItself DEF RegisterStringEnum, StringEnumName, Sound, IsRegistry, IsMap
<1>4. CASE key \notin DOMAIN r.unionDedup /\ PlainName(hint) \notin DOMAIN r.types
  <2>1. n = PlainName(hint) /\ n \in Names /\ n.id = Plain
    BY <1>4, NameTypes DEF StringEnumName, PlainName, Numbered
  <2>2. Sound(p) /\ Keeps(r, p)
    BY <2>1, PushSound DEF Kinds
  <2>3. RegisterStringEnum(r, hint, vs) = [p EXCEPT !.unionDedup = Put(@, key, n)]
    BY <1>4 DEF RegisterStringEnum, PushItem, Sound, IsRegistry
  <2> QED
    BY <1>2, <2>1, <2>2, <2>3, UnionKeySound, KeepsTransitive
<1>5. CASE key \notin DOMAIN r.unionDedup /\ PlainName(hint) \in DOMAIN r.types
  <2> DEFINE q == RegisterStringEnum(r, hint, vs)
  <2>1. /\ n = Numbered(hint, r.synCtr) /\ n \in Names
        /\ n.text = hint /\ n.id = r.synCtr /\ n.impl = FALSE
    BY <1>1, <1>5, NameTypes DEF StringEnumName, Numbered
  <2>2. /\ q = [types |-> q.types, unionDedup |-> q.unionDedup, structDedup |-> q.structDedup,
                enumDedup |-> q.enumDedup, structCtr |-> q.structCtr, synCtr |-> q.synCtr,
                scope |-> q.scope]
        /\ q.types = Put(r.types, n, Def("UnionEnum", vs))
        /\ q.unionDedup = Put(r.unionDedup, key, n)
        /\ q.structDedup = r.structDedup
        /\ q.enumDedup = r.enumDedup
        /\ q.structCtr = r.structCtr
        /\ q.synCtr = r.synCtr + 1
        /\ q.scope = r.scope
    <3> HIDE DEF n
    <3>1. n = StringEnumName(r, hint, vs)
      BY DEF n
    <3> HIDE DEF key
    <3>2. key = StringKey(vs)
      BY DEF key
    <3> QED
      BY <1>5, <3>1, <3>2 DEF RegisterStringEnum, Sound, IsRegistry
  <2> HIDE DEF n, q, key
  <2>4. n \notin DOMAIN r.types
    BY <1>1, <2>1 DEF Sound, NumbersBelow
  <2>5. /\ DOMAIN q.types = DOMAIN r.types \cup {n}
        /\ \A x \in DOMAIN r.types : q.types[x] = r.types[x]
    BY <2>2, <2>4 DEF Put
  <2>6. IsRegistry(q)
    <3>1. Def("UnionEnum", vs) \in Defs
      BY DEF Def, Defs, Kinds
    <3>2. IsMap(q.types, Names, Defs)
      BY <2>1, <2>2, <3>1, PutMap DEF Sound, IsRegistry
    <3>3. IsMap(q.unionDedup, UnionKeys, Names)
      BY <1>2, <2>1, <2>2, PutMap DEF Sound, IsRegistry
    <3> QED
      BY <1>1, <2>2, <3>2, <3>3 DEF Sound, IsRegistry
  <2>7. Recorded(q, q.structDedup, "TypeLit", q.structCtr)
    BY <2>2, <2>5 DEF Sound, Recorded
  <2>8. Recorded(q, q.enumDedup, "Intersection", q.synCtr)
    BY <1>1, <2>2, <2>5 DEF Sound, Recorded
  <2>9. NumbersBelow(q)
    <3>1. \A x \in DOMAIN r.types : x.id \in Int
      BY DEF Sound, IsRegistry, IsMap, Names, Plain
    <3> QED
      BY <1>1, <2>1, <2>2, <2>5, <3>1 DEF Sound, NumbersBelow
  <2>10. Keeps(r, q)
    BY <2>2, <2>5 DEF Keeps
  <2> QED
    BY <2>1, <2>6, <2>7, <2>8, <2>9, <2>10 DEF Sound, n, q
<1> QED
  BY <1>3, <1>4, <1>5

-----------------------------------------------------------------------------
(* The same operations on any registry, sound or not: what they leave as   *)
(* it is, and the one item and signature a new request adds.               *)
LEMMA UnionShape ==
    ASSUME NEW r, IsRegistry(r), NEW ms \in Seq(Parts), UnionKey(ms) \notin DOMAIN r.unionDedup
    PROVE  /\ IsRegistry(RegisterUnion(r, ms))
           /\ RegisterUnion(r, ms).types
                 = Put(r.types, FreshUnionName(ms), Def("UnionEnum", DedupMembers(ms)))
           /\ RegisterUnion(r, ms).unionDedup = Put(r.unionDedup, UnionKey(ms), FreshUnionName(ms))
           /\ RegisterUnion(r, ms).structDedup = r.structDedup
           /\ RegisterUnion(r, ms).enumDedup = r.enumDedup
<1> DEFINE q == RegisterUnion(r, ms)
           a == Put(r.types, FreshUnionName(ms), Def("UnionEnum", DedupMembers(ms)))
           b == Put(r.unionDedup, UnionKey(ms), FreshUnionName(ms))
<1>1. q = [r EXCEPT !.types = a, !.unionDedup = b]
  BY DEF RegisterUnion
<1>2. IsMap(a, Names, Defs)
  BY UnionTypes, PutMap DEF IsRegistry, Def, Defs, Kinds
<1>3. IsMap(b, UnionKeys, Names)
  BY UnionTypes, PutMap DEF IsRegistry
<1> HIDE DEF a, b, q
<1>4. q = [types |-> a, unionDedup |-> b, structDedup |-> r.structDedup,
           enumDedup |-> r.enumDedup, structCtr |-> r.structCtr, synCtr |-> r.synCtr,
           scope |-> r.scope]
  BY <1>1 DEF IsRegistry
<1>5. IsRegistry(q)
  BY <1>2, <1>3, <1>4 DEF IsRegistry
<1> QED
  BY <1>4, <1>5 DEF a, b, q

(* What registering a new struct makes of a registry, field by field.      *)
LEMMA StructShape ==
    ASSUME NEW r, IsRegistry(r), NEW fs \in Bodies, fs \notin DOMAIN r.structDedup
    PROVE  /\ IsRegistry(RegisterStruct(r, fs))
           /\ RegisterStruct(r, fs).types
                 = Put(r.types, StructName(r, fs), Def("InlineStruct", fs))
           /\ RegisterStruct(r, fs).unionDedup = r.unionDedup
           /\ RegisterStruct(r, fs).structDedup = Put(r.structDedup, fs, StructName(r, fs))
           /\ RegisterStruct(r, fs).enumDedup = r.enumDedup
           /\ StructName(r, fs) = Numbered("TypeLit", r.structCtr)
           /\ StructName(r, fs) \in Names
<1> DEFINE q == RegisterStruct(r, fs)
           n == StructName(r, fs)
           a == Put(r.types, n, Def("InlineStruct", fs))
           c == Put(r.structDedup, fs, n)
<1>1. q = [r EXCEPT !.structCtr = @ + 1, !.types = a, !.structDedup = c]
  BY DEF RegisterStruct
<1>2. n = Numbered("TypeLit", r.structCtr) /\ n \in Names
  BY NameTypes, NamingAssumption DEF StructName, IsRegistry
<1> HIDE DEF n
<1>3. IsMap(a, Names, Defs)
  BY <1>2, PutMap DEF IsRegistry, Def, Defs, Kinds
<1>4. IsMap(c, Bodies, Names)
  BY <1>2, PutMap DEF IsRegistry
<1> HIDE DEF a, c, q
<1>5. q = [types |-> a, unionDedup |-> r.unionDedup, structDedup |-> c,
           enumDedup |-> r.enumDedup, structCtr |-> r.structCtr + 1, synCtr |-> r.synCtr,
           scope |-> r.scope]
  BY <1>1 DEF IsRegistry
<1>6. IsRegistry(q)
  BY <1>3, <1>4, <1>5 DEF IsRegistry
<1> QED
  BY <1>2, <1>5, <1>6 DEF a, c, q, n

(* What registering a new enum of an intersection makes of a registry,     *)
(* field by field.                                                         *)
LEMMA EnumShape ==
    ASSUME NEW r, IsRegistry(r), NEW vs \in Bodies, vs \notin DOMAIN r.enumDedup
    PROVE  /\ IsRegistry(RegisterIntersectionEnum(r, vs))
           /\ RegisterIntersectionEnum(r, vs).types
                 = Put(r.types, EnumName(r, vs), Def("UnionEnum", vs))
           /\ RegisterIntersectionEnum(r, vs).unionDedup = r.unionDedup
           /\ RegisterIntersectionEnum(r, vs).structDedup = r.structDedup
           /\ RegisterIntersectionEnum(r, vs).enumDedup = Put(r.enumDedup, vs, EnumName(r, vs))
           /\ EnumName(r, vs) = Numbered("Intersection", r.synCtr)
           /\ EnumName(r, vs) \in Names
<1> DEFINE q == RegisterIntersectionEnum(r, vs)
           n == EnumName(r, vs)
           a == Put(r.types, n, Def("UnionEnum", vs))
           c == Put(r.enumDedup, vs, n)
<1>1. q = [r EXCEPT !.synCtr = @ + 1, !.types = a, !.enumDedup = c]
  BY DEF RegisterIntersectionEnum
<1>2. n = Numbered("Intersection", r.synCtr) /\ n \in Names
  BY NameTypes, NamingAssumption DEF EnumName, IsRegistry
<1> HIDE DEF n
<1>3. IsMap(a, Names, Defs)
  BY <1>2, PutMap DEF IsRegistry, Def, Defs, Kinds
<1>4. IsMap(c, Bodies, Names)
  BY <1>2, PutMap DEF IsRegistry
<1> HIDE DEF a, c, q
<1>5. q = [types |-> a, unionDedup |-> r.unionDedup, structDedup |-> r.structDedup,
           enumDedup |-> c, structCtr |-> r.structCtr, synCtr |-> r.synCtr + 1,
           scope |-> r.scope]
  BY <1>1 DEF IsRegistry
<1>6. IsRegistry(q)
  BY <1>3, <1>4, <1>5 DEF IsRegistry
<1> QED
  BY <1>2, <1>5, <1>6 DEF a, c, q, n

(* One entry put into a map. *)
LEMMA PutAt ==
    ASSUME NEW f, NEW k, NEW v
    PROVE  /\ \A x : x \in DOMAIN Put(f, k, v) <=> x \in DOMAIN f \/ x = k
           /\ Put(f, k, v)[k] = v
           /\ \A x : x \in DOMAIN f /\ x # k => Put(f, k, v)[x] = f[x]
BY DEF Put

-----------------------------------------------------------------------------
(* Forking a registry and merging the fork back changes nothing by itself: *)
(* what a merge adds is what the fork registered in between.               *)
THEOREM ForkRoundTrip ==
    ASSUME NEW r, Sound(r)
    PROVE  Merge(r, Fork(r)) = r
<1>1. \A f, S, T : IsMap(f, S, T) => Overlay(f, f) = f
  BY DEF Overlay, IsMap
<1>2. /\ Overlay(r.types, r.types) = r.types
      /\ Overlay(r.unionDedup, r.unionDedup) = r.unionDedup
      /\ Overlay(r.structDedup, r.structDedup) = r.structDedup
      /\ Overlay(r.enumDedup, r.enumDedup) = r.enumDedup
  BY <1>1 DEF Sound, IsRegistry
<1>3. Larger(r.structCtr, r.structCtr) = r.structCtr /\ Larger(r.synCtr, r.synCtr) = r.synCtr
  BY DEF Larger
<1> QED
  BY <1>2, <1>3 DEF Merge, Fork, Sound, IsRegistry

(* One map laid over another. *)
LEMMA OverlayAt ==
    ASSUME NEW f, NEW g
    PROVE  /\ \A x : x \in DOMAIN Overlay(f, g) <=> x \in DOMAIN f \/ x \in DOMAIN g
           /\ \A x : x \in DOMAIN g => Overlay(f, g)[x] = g[x]
           /\ \A x : x \in DOMAIN f /\ x \notin DOMAIN g => Overlay(f, g)[x] = f[x]
BY DEF Overlay

(* A map laid over another of the same kind gives one of that kind.        *)
LEMMA OverlayMap ==
    ASSUME NEW f, NEW g, NEW S, NEW T, IsMap(f, S, T), IsMap(g, S, T)
    PROVE  IsMap(Overlay(f, g), S, T)
<1> DEFINE h == Overlay(f, g)
<1>1. h = [x \in DOMAIN h |-> h[x]]
  BY DEF Overlay
<1>2. /\ \A x : x \in DOMAIN h <=> x \in DOMAIN f \/ x \in DOMAIN g
      /\ \A x : x \in DOMAIN g => h[x] = g[x]
      /\ \A x : x \in DOMAIN f /\ x \notin DOMAIN g => h[x] = f[x]
  BY OverlayAt
<1> HIDE DEF h
<1>3. IsMap(h, S, T)
  BY <1>1, <1>2 DEF IsMap
<1> QED
  BY <1>3 DEF h

(* What survives a merge with any registry: names and definitions stay     *)
(* typed, everything that is named stays named.                            *)
LEMMA MergeShape ==
    ASSUME NEW r, NEW s, IsRegistry(r), IsRegistry(s)
    PROVE  /\ IsRegistry(Merge(r, s))
           /\ Merge(r, s).types = Overlay(r.types, s.types)
           /\ Merge(r, s).unionDedup = Overlay(r.unionDedup, s.unionDedup)
           /\ Merge(r, s).structDedup = Overlay(r.structDedup, s.structDedup)
           /\ Merge(r, s).enumDedup = Overlay(r.enumDedup, s.enumDedup)
           /\ Merge(r, s).structCtr = Larger(r.structCtr, s.structCtr)
           /\ Merge(r, s).synCtr = Larger(r.synCtr, s.synCtr)
<1> DEFINE m == Merge(r, s)
<1>1. r = [types |-> r.types, unionDedup |-> r.unionDedup, structDedup |-> r.structDedup,
           enumDedup |-> r.enumDedup, structCtr |-> r.structCtr, synCtr |-> r.synCtr,
           scope |-> r.scope]
  BY DEF IsRegistry
<1> DEFINE a == Overlay(r.types, s.types)
           b == Overlay(r.unionDedup, s.unionDedup)
           c == Overlay(r.structDedup, s.structDedup)
           d == Overlay(r.enumDedup, s.enumDedup)
           i == Larger(r.structCtr, s.structCtr)
           j == Larger(r.synCtr, s.synCtr)
<1>2. m = [r EXCEPT !.types = a, !.unionDedup = b, !.structDedup = c, !.enumDedup = d,
                    !.structCtr = i, !.synCtr = j]
  BY DEF Merge
<1>3. m = [types |-> Overlay(r.types, s.types), unionDedup |-> Overlay(r.unionDedup, s.unionDedup),
           structDedup |-> Overlay(r.structDedup, s.structDedup),
           enumDedup |-> Overlay(r.enumDedup, s.enumDedup),
           structCtr |-> Larger(r.structCtr, s.structCtr), synCtr |-> Larger(r.synCtr, s.synCtr),
           scope |-> r.scope]
  <2> HIDE DEF a, b, c, d, i, j, m
  <2>1. m = [types |-> a, unionDedup |-> b, structDedup |-> c, enumDedup |-> d, structCtr |-> i,
             synCtr |-> j, scope |-> r.scope]
    BY <1>1, <1>2
  <2> QED
    BY <2>1 DEF a, b, c, d, i, j
<1> HIDE DEF a, b, c, d, i, j, m
<1>4. IsMap(m.types, Names, Defs)
  BY <1>3, OverlayMap DEF IsRegistry
<1>5. IsMap(m.unionDedup, UnionKeys, Names)
  BY <1>3, OverlayMap DEF IsRegistry
<1>6. IsMap(m.structDedup, Bodies, Names) /\ IsMap(m.enumDedup, Bodies, Names)
  BY <1>3, OverlayMap DEF IsRegistry
<1>7. IsRegistry(m)
  BY <1>3, <1>4, <1>5, <1>6 DEF IsRegistry, Larger
<1> QED
  BY <1>3, <1>7 DEF m

(* Signatures on record have a definition after a merge, whichever side    *)
(* they are from.                                                          *)
LEMMA MergeNamed ==
    ASSUME NEW r, NEW s, IsRegistry(r), IsRegistry(s), Named(r), Named(s)
    PROVE  Named(Merge(r, s))
<1> DEFINE m == Merge(r, s)
<1>1. /\ m.types = Overlay(r.types, s.types)
      /\ m.unionDedup = Overlay(r.unionDedup, s.unionDedup)
      /\ m.structDedup = Overlay(r.structDedup, s.structDedup)
      /\ m.enumDedup = Overlay(r.enumDedup, s.enumDedup)
  BY MergeShape
<1> HIDE DEF m
<1>2. \A n : n \in DOMAIN r.types \/ n \in DOMAIN s.types => n \in DOMAIN m.types
  BY <1>1, OverlayAt
<1>3. \A f, g : \A x \in DOMAIN Overlay(f, g) :
         \/ x \in DOMAIN g /\ Overlay(f, g)[x] = g[x]
         \/ x \in DOMAIN f /\ Overlay(f, g)[x] = f[x]
  BY OverlayAt
<1>4. Named(m)
  BY <1>1, <1>2, <1>3 DEF Named
<1> QED
  BY <1>4 DEF m

(* Nor does a union lose the name its variants make.                       *)
LEMMA MergeNamedByVariants ==
    ASSUME NEW r, NEW s, IsRegistry(r), IsRegistry(s), NamedByVariants(r), NamedByVariants(s)
    PROVE  NamedByVariants(Merge(r, s))
<1> DEFINE m == Merge(r, s)
<1>1. m.unionDedup = Overlay(r.unionDedup, s.unionDedup)
  BY MergeShape
<1> HIDE DEF m
<1>2. NamedByVariants(m)
  BY <1>1, OverlayAt DEF NamedByVariants
<1> QED
  BY <1>2 DEF m

(* A fork that has only had registrations can be merged back: the parent   *)
(* keeps all that is numbered and gets a sound registry.  Two registries   *)
(* neither of which keeps the other have no such guarantee.                *)
THEOREM ForkMergesBack ==
    ASSUME NEW r, NEW q, Sound(r), Sound(q), Keeps(r, q),
           r.structCtr <= q.structCtr, r.synCtr <= q.synCtr
    PROVE  Sound(Merge(r, q)) /\ Keeps(r, Merge(r, q)) /\ Keeps(q, Merge(r, q))
<1> DEFINE m == Merge(r, q)
<1>1. IsRegistry(r) /\ IsRegistry(q)
  BY DEF Sound
<1>2. /\ IsRegistry(m)
      /\ m.types = Overlay(r.types, q.types)
      /\ m.structDedup = Overlay(r.structDedup, q.structDedup)
      /\ m.enumDedup = Overlay(r.enumDedup, q.enumDedup)
      /\ m.structCtr = q.structCtr
      /\ m.synCtr = q.synCtr
  BY <1>1, MergeShape DEF Larger, IsRegistry
<1> HIDE DEF m
<1>3. /\ DOMAIN m.structDedup = DOMAIN q.structDedup
      /\ DOMAIN m.enumDedup = DOMAIN q.enumDedup
      /\ \A b \in DOMAIN q.structDedup : m.structDedup[b] = q.structDedup[b]
      /\ \A b \in DOMAIN q.enumDedup : m.enumDedup[b] = q.enumDedup[b]
  BY <1>2 DEF Overlay, Keeps
<1>4. \A n \in DOMAIN q.types : n \in DOMAIN m.types /\ m.types[n] = q.types[n]
  BY <1>2 DEF Overlay
<1>5. \A n \in DOMAIN m.types : n.impl = FALSE /\ n.id # Plain => n \in DOMAIN q.types
  BY <1>2 DEF Overlay, Keeps
<1>6. Recorded(m, m.structDedup, "TypeLit", m.structCtr)
  BY <1>2, <1>3, <1>4 DEF Recorded, Sound
<1>7. Recorded(m, m.enumDedup, "Intersection", m.synCtr)
  BY <1>2, <1>3, <1>4 DEF Recorded, Sound
<1>8. NumbersBelow(m)
  BY <1>1, <1>2, <1>5 DEF NumbersBelow, Sound, Plain, IsRegistry
<1>9. Keeps(q, m)
  BY <1>3, <1>4 DEF Keeps
<1>10. Keeps(r, m)
  BY <1>9, KeepsTransitive
<1> QED
  BY <1>2, <1>6, <1>7, <1>8, <1>9, <1>10 DEF Sound, m
=============================================================================
