---------------------------- MODULE PipelineProofs ----------------------------
(***************************************************************************)
(* Proofs about Pipeline for all programs and builtin types.  Once several *)
(* registries are merged they are no longer Sound, so these proofs rest on *)
(* what a merge does keep: Named, and what is known stays known.           *)
(***************************************************************************)
EXTENDS Pipeline, SyntheticTypesProofs

(* A step that leaves the histories alone leaves each of them alone.       *)
USE DEF history

(* The registry answers the request without registering anything.          *)
Known(r, q) ==
    CASE q.kind = "union"        -> UnionKey(q.parts) \in DOMAIN r.unionDedup
      [] q.kind = "struct"       -> PartsOf(q) \in DOMAIN r.structDedup
      [] q.kind = "intersection" -> PartsOf(q) \in DOMAIN r.enumDedup

(* s has one item more than r, or another one under that name.             *)
WritesItem(r, s, n, b) ==
    \E k \in {"UnionEnum", "InlineStruct"} : s.types = Put(r.types, n, Def(k, b))

(* A request is of one of three kinds and lists parts.                     *)
LEMMA RequestTypes ==
    ASSUME NEW q \in Requests
    PROVE  /\ q.kind \in {"union", "struct", "intersection"}
           /\ q.parts \in Seq(Parts)
           /\ PartsOf(q) \in Bodies
           /\ Asked(q) \in Bodies
<1>1. q.kind \in {"union", "struct", "intersection"} /\ q.parts \in Seq(Parts)
  BY DEF Requests
<1>2. PartsOf(q) \in Bodies
  BY <1>1 DEF PartsOf, Range, Bodies
<1> QED
  BY <1>1, <1>2, UnionTypes DEF Asked

(* The answer to a known request is what is on record.                     *)
Recalled(r, q) ==
    CASE q.kind = "union"        -> r.unionDedup[UnionKey(q.parts)]
      [] q.kind = "struct"       -> r.structDedup[PartsOf(q)]
      [] q.kind = "intersection" -> r.enumDedup[PartsOf(q)]

(* The name a known request gets is the one on record for it.              *)
LEMMA RecalledName ==
    ASSUME NEW r, NEW q \in Requests, Known(r, q)
    PROVE  NameFor(r, q) = Recalled(r, q)
BY RequestTypes DEF Known, NameFor, Recalled, UnionName, StructName, EnumName

(* Registering what is known changes nothing.                              *)
LEMMA RegisterKnown ==
    ASSUME NEW r, IsRegistry(r), NEW q \in Requests, Known(r, q)
    PROVE  Register(r, q) = r /\ NameFor(r, q) \in Names
<1>1. Register(r, q) = r
  BY RequestTypes DEF Known, Register, RegisterUnion, RegisterStruct, RegisterIntersectionEnum
<1>2. Recalled(r, q) \in Names
  BY RequestTypes DEF Known, Recalled, IsRegistry, IsMap
<1> QED
  BY <1>1, <1>2, RecalledName

(* Registering what is not writes one item, under the name that is         *)
(* answered, and records the signature.                                    *)
RecordsUnion(r, s, q) ==
    /\ q.kind = "union"
    /\ s.unionDedup = Put(r.unionDedup, UnionKey(q.parts), FreshUnionName(q.parts))
    /\ s.structDedup = r.structDedup
    /\ s.enumDedup = r.enumDedup
    /\ NameFor(r, q) = FreshUnionName(q.parts)

RecordsStruct(r, s, q) ==
    /\ q.kind = "struct"
    /\ s.unionDedup = r.unionDedup
    /\ s.structDedup = Put(r.structDedup, PartsOf(q), NameFor(r, q))
    /\ s.enumDedup = r.enumDedup
    /\ NameFor(r, q).id # Plain

RecordsEnum(r, s, q) ==
    /\ q.kind = "intersection"
    /\ s.unionDedup = r.unionDedup
    /\ s.structDedup = r.structDedup
    /\ s.enumDedup = Put(r.enumDedup, PartsOf(q), NameFor(r, q))
    /\ NameFor(r, q).id # Plain

(* Registering what is not known yet writes one item, and one entry into   *)
(* the map of the request's kind.                                          *)
LEMMA RegisterNew ==
    ASSUME NEW r, IsRegistry(r), NEW q \in Requests, ~ Known(r, q)
    PROVE  /\ IsRegistry(Register(r, q))
           /\ NameFor(r, q) \in Names
           /\ WritesItem(r, Register(r, q), NameFor(r, q), Asked(q))
           /\ \/ RecordsUnion(r, Register(r, q), q)
              \/ RecordsStruct(r, Register(r, q), q)
              \/ RecordsEnum(r, Register(r, q), q)
<1>1. /\ q.kind \in {"union", "struct", "intersection"}
      /\ q.parts \in Seq(Parts)
      /\ PartsOf(q) \in Bodies
  BY RequestTypes
<1>2. CASE q.kind = "union"
  <2>1. /\ Register(r, q) = RegisterUnion(r, q.parts)
        /\ NameFor(r, q) = FreshUnionName(q.parts)
        /\ Asked(q) = DedupMembers(q.parts)
        /\ UnionKey(q.parts) \notin DOMAIN r.unionDedup
    BY <1>2 DEF Register, NameFor, Asked, Known, UnionName
  <2> QED
    BY <1>1, <1>2, <2>1, UnionShape, UnionTypes DEF WritesItem, RecordsUnion
<1>3. CASE q.kind = "struct"
  <2>1. /\ Register(r, q) = RegisterStruct(r, PartsOf(q))
        /\ NameFor(r, q) = StructName(r, PartsOf(q))
        /\ Asked(q) = PartsOf(q)
        /\ PartsOf(q) \notin DOMAIN r.structDedup
    BY <1>3 DEF Register, NameFor, Asked, Known
  <2>2. Numbered("TypeLit", r.structCtr).id # Plain
    BY DEF Numbered, Plain, IsRegistry
  <2> QED
    BY <1>1, <1>3, <2>1, <2>2, StructShape DEF WritesItem, RecordsStruct
<1>4. CASE q.kind = "intersection"
  <2>1. /\ Register(r, q) = RegisterIntersectionEnum(r, PartsOf(q))
        /\ NameFor(r, q) = EnumName(r, PartsOf(q))
        /\ Asked(q) = PartsOf(q)
        /\ PartsOf(q) \notin DOMAIN r.enumDedup
    BY <1>4 DEF Register, NameFor, Asked, Known
  <2>2. Numbered("Intersection", r.synCtr).id # Plain
    BY DEF Numbered, Plain, IsRegistry
  <2> QED
    BY <1>1, <1>4, <2>1, <2>2, EnumShape DEF WritesItem, RecordsEnum
<1> QED
  BY <1>1, <1>2, <1>3, <1>4

(* What is known stays known, by its name, and what is registered is known *)
(* from then on.                                                           *)
Remembers(r, s) ==
    \A p \in Requests : Known(r, p) => Known(s, p) /\ Recalled(s, p) = Recalled(r, p)

(* A registration is on record afterwards under the name it returned, and  *)
(* loses nothing that was.                                                 *)
LEMMA RegisterRemembers ==
    ASSUME NEW r, IsRegistry(r), NEW q \in Requests
    PROVE  /\ IsRegistry(Register(r, q))
           /\ NameFor(r, q) \in Names
           /\ Known(Register(r, q), q)
           /\ Recalled(Register(r, q), q) = NameFor(r, q)
           /\ Remembers(r, Register(r, q))
           /\ DOMAIN r.types \subseteq DOMAIN Register(r, q).types
<1> DEFINE s == Register(r, q)
           n == NameFor(r, q)
<1>1. CASE Known(r, q)
  BY <1>1, RegisterKnown, RecalledName DEF Remembers
<1>2. CASE ~ Known(r, q)
  <2>1. /\ IsRegistry(s) /\ n \in Names
        /\ WritesItem(r, s, n, Asked(q))
        /\ RecordsUnion(r, s, q) \/ RecordsStruct(r, s, q) \/ RecordsEnum(r, s, q)
    BY <1>2, RegisterNew
  <2>2. n = NameFor(r, q)
    OBVIOUS
  <2> HIDE DEF s, n
  <2>3. DOMAIN r.types \subseteq DOMAIN s.types
    BY <2>1, PutAt DEF WritesItem
  <2>4. CASE RecordsUnion(r, s, q)
    <3>1. /\ q.kind = "union"
          /\ s.unionDedup = Put(r.unionDedup, UnionKey(q.parts), n)
          /\ s.structDedup = r.structDedup
          /\ s.enumDedup = r.enumDedup
      BY <2>4, <2>2 DEF RecordsUnion
    <3>2. Known(s, q) /\ Recalled(s, q) = n
      BY <3>1, PutAt DEF Known, Recalled
    <3>3. UnionKey(q.parts) \notin DOMAIN r.unionDedup
      BY <1>2, <3>1 DEF Known
    <3>4. ASSUME NEW p \in Requests, Known(r, p)
          PROVE  Known(s, p) /\ Recalled(s, p) = Recalled(r, p)
      <4>1. CASE p.kind = "union"
        BY <3>1, <3>3, <3>4, <4>1, PutAt DEF Known, Recalled
      <4>2. CASE p.kind # "union"
        BY <3>1, <3>4, <4>2, RequestTypes DEF Known, Recalled
      <4> QED
        BY <4>1, <4>2
    <3> QED
      BY <2>1, <2>3, <3>2, <3>4 DEF Remembers, s, n
  <2>5. CASE RecordsStruct(r, s, q)
    <3>1. /\ q.kind = "struct"
          /\ s.unionDedup = r.unionDedup
          /\ s.structDedup = Put(r.structDedup, PartsOf(q), n)
          /\ s.enumDedup = r.enumDedup
      BY <2>5, <2>2 DEF RecordsStruct
    <3>2. Known(s, q) /\ Recalled(s, q) = n
      BY <3>1, PutAt DEF Known, Recalled
    <3>3. PartsOf(q) \notin DOMAIN r.structDedup
      BY <1>2, <3>1 DEF Known
    <3>4. ASSUME NEW p \in Requests, Known(r, p)
          PROVE  Known(s, p) /\ Recalled(s, p) = Recalled(r, p)
      <4>1. CASE p.kind = "struct"
        BY <3>1, <3>3, <3>4, <4>1, PutAt DEF Known, Recalled
      <4>2. CASE p.kind # "struct"
        BY <3>1, <3>4, <4>2, RequestTypes DEF Known, Recalled
      <4> QED
        BY <4>1, <4>2
    <3> QED
      BY <2>1, <2>3, <3>2, <3>4 DEF Remembers, s, n
  <2>6. CASE RecordsEnum(r, s, q)
    <3>1. /\ q.kind = "intersection"
          /\ s.unionDedup = r.unionDedup
          /\ s.structDedup = r.structDedup
          /\ s.enumDedup = Put(r.enumDedup, PartsOf(q), n)
      BY <2>6, <2>2 DEF RecordsEnum
    <3>2. Known(s, q) /\ Recalled(s, q) = n
      BY <3>1, PutAt DEF Known, Recalled
    <3>3. PartsOf(q) \notin DOMAIN r.enumDedup
      BY <1>2, <3>1 DEF Known
    <3>4. ASSUME NEW p \in Requests, Known(r, p)
          PROVE  Known(s, p) /\ Recalled(s, p) = Recalled(r, p)
      <4>1. CASE p.kind = "intersection"
        BY <3>1, <3>3, <3>4, <4>1, PutAt DEF Known, Recalled
      <4>2. CASE p.kind # "intersection"
        BY <3>1, <3>4, <4>2, RequestTypes DEF Known, Recalled
      <4> QED
        BY <4>1, <4>2
    <3> QED
      BY <2>1, <2>3, <3>2, <3>4 DEF Remembers, s, n
  <2> QED
    BY <2>1, <2>4, <2>5, <2>6
<1> QED
  BY <1>1, <1>2

(* The name answered is defined, in any registry all of whose signatures   *)
(* are.                                                                    *)
LEMMA RegisterNamed ==
    ASSUME NEW r, IsRegistry(r), Named(r), NEW q \in Requests
    PROVE  Named(Register(r, q)) /\ NameFor(r, q) \in DOMAIN Register(r, q).types
<1> DEFINE s == Register(r, q)
           n == NameFor(r, q)
<1>1. CASE Known(r, q)
  <2>1. Recalled(r, q) \in DOMAIN r.types
    BY <1>1, RequestTypes DEF Known, Recalled, Named
  <2> QED
    BY <1>1, <2>1, RegisterKnown, RecalledName
<1>2. CASE ~ Known(r, q)
  <2>1. /\ WritesItem(r, s, n, Asked(q))
        /\ RecordsUnion(r, s, q) \/ RecordsStruct(r, s, q) \/ RecordsEnum(r, s, q)
    BY <1>2, RegisterNew
  <2>2. n = NameFor(r, q)
    OBVIOUS
  <2> HIDE DEF s, n
  <2>3. \A x : x \in DOMAIN s.types <=> x \in DOMAIN r.types \/ x = n
    BY <2>1, PutAt DEF WritesItem
  <2>4. Named(s)
    <3>1. CASE RecordsUnion(r, s, q)
      BY <2>2, <2>3, <3>1, PutAt DEF RecordsUnion, Named
    <3>2. CASE RecordsStruct(r, s, q)
      BY <2>2, <2>3, <3>2, PutAt DEF RecordsStruct, Named
    <3>3. CASE RecordsEnum(r, s, q)
      BY <2>2, <2>3, <3>3, PutAt DEF RecordsEnum, Named
    <3> QED
      BY <2>1, <3>1, <3>2, <3>3
  <2> QED
    BY <2>3, <2>4 DEF s, n
<1> QED
  BY <1>1, <1>2

-----------------------------------------------------------------------------
(* The control of the pipeline: what has which type, how many registries   *)
(* of files there are in which pass, and what no pass has touched yet.     *)
Maps(S, T) == UNION {[D -> T] : D \in SUBSET S}

Registries ==
    [types : Maps(Names, Defs), unionDedup : Maps(UnionKeys, Names),
     structDedup : Maps(Bodies, Names), enumDedup : Maps(Bodies, Names),
     structCtr : Nat, synCtr : Nat, scope : SUBSET Texts]

Phases ==
    {"parse", "collect", "any", "resolve", "structs", "transform", "externals", "done", "failed", "panicked"}

FilesDone(pass, before) ==
    IF phase \in before THEN 0 ELSE IF phase = pass THEN file - 1 ELSE NFiles

Control ==
    /\ prog \in Programs
    /\ phase \in Phases
    /\ file \in 1 .. (NFiles + 1)
    /\ item \in Nat \ {0} /\ ask \in Nat \ {0}
    /\ IsMap(shared, Names, TypeDefs) /\ DOMAIN BaseTypes \subseteq DOMAIN shared
    /\ anySyn \in Seq(Registries)
    /\ Len(anySyn) = FilesDone("any", {"parse", "collect", "failed"})
    /\ resSyn \in Seq(Registries)
    /\ Len(resSyn) = FilesDone("resolve", {"parse", "collect", "any", "failed"})
    /\ phase \notin {"transform", "externals", "done", "panicked"} =>
          synthetic = BaseSyn /\ emitted = {} /\ handed = {}
    /\ pending # {} => phase = "transform" /\ InItem
    /\ local # NewRegistry => phase = "transform" /\ InItem /\ Here.fn
    /\ rounds \in Nat

AllRegs == {synthetic, work, local} \cup Range(anySyn) \cup Range(resSyn)

(* A registry whose names are defined and whose unions are named by their  *)
(* variants.                                                               *)
Good(r) == IsRegistry(r) /\ Named(r) /\ NamedByVariants(r)

TypeInv == Control /\ \A r \in AllRegs : Good(r)

(* A map is a function on some part of its keys.                           *)
LEMMA MapsAre ==
    ASSUME NEW f, NEW S, NEW T
    PROVE  IsMap(f, S, T) <=> f \in Maps(S, T)
BY DEF IsMap, Maps

(* The predicate and the set of the registries are the same.               *)
LEMMA RegistriesAre ==
    ASSUME NEW r
    PROVE  IsRegistry(r) <=> r \in Registries
<1>1. ASSUME IsRegistry(r) PROVE r \in Registries
  BY <1>1, MapsAre DEF IsRegistry, Registries
<1>2. ASSUME r \in Registries PROVE IsRegistry(r)
  BY <1>2, MapsAre DEF IsRegistry, Registries
<1> QED
  BY <1>1, <1>2

(* The pass after each pass.                                               *)
LEMMA AfterIs ==
    /\ After("parse") = "collect"
    /\ After("collect") = "any"
    /\ After("any") = "resolve"
    /\ After("resolve") = "structs"
    /\ After("structs") = "transform"
    /\ After("transform") = "externals"
<1>1. ASSUME NEW i \in 1 .. 6
      PROVE  After(Passes[i]) = Passes[i + 1]
  <2>1. 1 .. (Len(Passes) - 1) = 1 .. 6
    BY DEF Passes
  <2>2. \A j \in 1 .. 6 : Passes[j] = Passes[i] => j = i
    BY DEF Passes
  <2> DEFINE c == CHOOSE j \in 1 .. 6 : Passes[j] = Passes[i]
  <2>3. c = i
    BY <2>2
  <2>4. After(Passes[i]) = Passes[1 + c]
    BY <2>1, Zenon DEF After
  <2> HIDE DEF c
  <2>5. 1 + c = i + 1
    BY <2>3
  <2> QED
    BY <2>4, <2>5
<1>2. /\ After(Passes[1]) = Passes[2] /\ After(Passes[2]) = Passes[3] /\ After(Passes[3]) = Passes[4]
      /\ After(Passes[4]) = Passes[5] /\ After(Passes[5]) = Passes[6] /\ After(Passes[6]) = Passes[7]
  BY <1>1
<1>3. /\ Passes[1] = "parse" /\ Passes[2] = "collect" /\ Passes[3] = "any" /\ Passes[4] = "resolve"
      /\ Passes[5] = "structs" /\ Passes[6] = "transform" /\ Passes[7] = "externals"
  BY DEF Passes
<1> QED
  BY <1>2, <1>3

(* A file of a program, and an item the cursor is at.                      *)
LEMMA FileTyped ==
    ASSUME prog \in Programs
    PROVE  /\ NFiles \in Nat
           /\ DOMAIN prog = 1 .. NFiles
           /\ \A f \in 1 .. NFiles : /\ prog[f].items \in Seq(Items)
                                     /\ prog[f].imports \in SUBSET Texts
                                     /\ IsMap(prog[f].decls, Names, TypeDefs)
<1> DEFINE F == [decls : {prog[f].decls : f \in DOMAIN prog}, imports : SUBSET Texts, items : Seq(Items)]
<1>1. prog \in Seq(F) /\ \A f \in DOMAIN prog : IsMap(prog[f].decls, Names, TypeDefs)
  BY PipelineAssumption
<1> HIDE DEF F
<1>2. NFiles \in Nat /\ DOMAIN prog = 1 .. NFiles
  BY <1>1 DEF NFiles
<1>3. \A f \in 1 .. NFiles : prog[f] \in F
  BY <1>1, <1>2
<1> USE DEF F
<1> QED
  BY <1>1, <1>2, <1>3

(* Inside of a file's items, the item that is worked on is one of the      *)
(* program's.                                                              *)
LEMMA HereTyped ==
    ASSUME Control, InItem
    PROVE  /\ file \in 1 .. NFiles
           /\ item \in DOMAIN prog[file].items
           /\ Here \in Items
           /\ Here \in AllItems
           /\ Here.sig \in Seq(Requests) /\ Here.exprs \in Seq(Requests)
           /\ Here.anys \in Seq([text : Texts, variants : Bodies])
           /\ Here.fn \in BOOLEAN
<1>1. file \in 1 .. NFiles /\ NFiles \in Nat /\ DOMAIN prog = 1 .. NFiles
  BY FileTyped DEF Control, InItem
<1>2. prog[file].items \in Seq(Items)
  BY <1>1, FileTyped DEF Control
<1>3. item \in 1 .. Len(prog[file].items)
  BY <1>2 DEF Control, InItem
<1>4. item \in DOMAIN prog[file].items /\ prog[file].items[item] \in Items
  BY <1>2, <1>3
<1>5. Here \in Range(prog[file].items)
  BY <1>4 DEF Here, Range
<1>6. Here \in AllItems
  BY <1>1, <1>5 DEF AllItems
<1> QED
  BY <1>1, <1>4, <1>6 DEF Items, Here

AllAnys == UNION {Range(i.anys) : i \in AllItems}

(* What the cursor asks for is a request of the program.                   *)
LEMMA AskTyped ==
    ASSUME Control, InItem
    PROVE  /\ ask <= Len(Here.sig) => Here.sig[ask] \in AllRequests \cap Requests
           /\ ask <= Len(ResolverAsks(Here)) =>
                 ResolverAsks(Here)[ask] \in AllRequests \cap Requests
           /\ ask <= Len(Here.anys) => /\ Here.anys[ask] \in AllAnys
                                       /\ Here.anys[ask].text \in Texts
                                       /\ Here.anys[ask].variants \in Bodies
<1>1. /\ Here.sig \in Seq(Requests) /\ Here.exprs \in Seq(Requests) /\ Here \in AllItems
      /\ Here.anys \in Seq([text : Texts, variants : Bodies])
      /\ ask \in Nat \ {0}
  BY HereTyped DEF Control
<1> DEFINE sig == Here.sig
           exprs == Here.exprs
           both == Here.sig \o Here.exprs
<1>2. \A i \in DOMAIN sig : sig[i] \in AllRequests
  BY <1>1 DEF AllRequests, Range
<1>3. \A i \in DOMAIN exprs : exprs[i] \in AllRequests
  BY <1>1 DEF AllRequests, Range
<1>4. ASSUME ask <= Len(sig) PROVE sig[ask] \in AllRequests \cap Requests
  BY <1>1, <1>2, <1>4
<1>7. sig \in Seq(Requests) /\ exprs \in Seq(Requests)
  BY <1>1
<1>8. both = sig \o exprs
  OBVIOUS
<1> HIDE DEF sig, exprs, both
<1>5. ASSUME ask <= Len(both) PROVE both[ask] \in AllRequests \cap Requests
  <2>1. Len(both) = Len(sig) + Len(exprs)
    BY <1>7, <1>8
  <2>2. CASE ask <= Len(sig)
    <3>1. both[ask] = sig[ask]
      BY <1>1, <1>7, <1>8, <2>2
    <3>2. ask <= Len(sig)
      BY <2>2
    <3> QED
      BY <1>4, <3>1, <3>2
  <2>3. CASE ask > Len(sig)
    <3>1. both[ask] = exprs[ask - Len(sig)] /\ ask - Len(sig) \in 1 .. Len(exprs)
      BY <1>1, <1>7, <1>8, <1>5, <2>1, <2>3
    <3> QED
      BY <1>7, <1>3, <3>1
  <2> QED
    BY <1>1, <1>7, <2>2, <2>3
<1> USE DEF sig, exprs, both
<1>9. ASSUME ask <= Len(ResolverAsks(Here))
      PROVE  ResolverAsks(Here)[ask] \in AllRequests \cap Requests
  <2>1. Here.visited
    <3>1. ~ Here.visited => ResolverAsks(Here) = <<>>
      BY DEF ResolverAsks
    <3>2. Len(<<>>) = 0 /\ ask \in Nat \ {0}
      BY <1>1
    <3> QED
      BY <1>9, <3>1, <3>2
  <2>2. ResolverAsks(Here) = both
    BY <2>1 DEF ResolverAsks
  <2> HIDE DEF both
  <2> QED
    BY <1>5, <1>9, <2>2
<1>6. ASSUME ask <= Len(Here.anys)
      PROVE  /\ Here.anys[ask] \in AllAnys
             /\ Here.anys[ask].text \in Texts
             /\ Here.anys[ask].variants \in Bodies
  <2>1. ask \in DOMAIN Here.anys /\ Here.anys[ask] \in [text : Texts, variants : Bodies]
    <3> DEFINE A == [text : Texts, variants : Bodies]
               s == Here.anys
    <3>1. s \in Seq(A) /\ ask \in 1 .. Len(s)
      BY <1>1, <1>6
    <3> HIDE DEF A, s
    <3>2. ask \in DOMAIN s /\ s[ask] \in A
      BY <3>1
    <3> QED
      BY <3>2 DEF A, s
  <2>2. Here.anys[ask] \in AllAnys
    BY <1>1, <2>1 DEF AllAnys, Range
  <2> QED
    BY <2>1, <2>2
<1> QED
  BY <1>4, <1>6, <1>9

(* All requests and any parameters of the program are what the passes may  *)
(* meet.                                                                   *)
LEMMA ProgramTyped ==
    ASSUME prog \in Programs
    PROVE  /\ \A i \in AllItems : i \in Items
           /\ \A q \in AllRequests : q \in Requests
           /\ \A a \in AllAnys : a.text \in Texts /\ a.variants \in Bodies
           /\ \A a \in AllAnys : a.text \in AnyTexts
<1>1. ASSUME NEW i \in AllItems PROVE i \in Items
  <2>1. PICK f \in DOMAIN prog : i \in Range(prog[f].items)
    BY DEF AllItems
  <2>2. prog[f].items \in Seq(Items)
    BY <2>1, FileTyped
  <2> QED
    BY <2>1, <2>2 DEF Range
<1>2. ASSUME NEW i \in AllItems
      PROVE  /\ i.sig \in Seq(Requests) /\ i.exprs \in Seq(Requests)
             /\ i.anys \in Seq([text : Texts, variants : Bodies])
  BY <1>1 DEF Items
<1>3. ASSUME NEW q \in AllRequests PROVE q \in Requests
  <2>1. PICK i \in AllItems : q \in Range(i.sig) \cup Range(i.exprs)
    BY DEF AllRequests
  <2> QED
    BY <1>2, <2>1 DEF Range
<1>4. ASSUME NEW a \in AllAnys PROVE a \in [text : Texts, variants : Bodies] /\ a.text \in AnyTexts
  <2>1. PICK i \in AllItems : a \in Range(i.anys)
    BY DEF AllAnys
  <2> DEFINE A == [text : Texts, variants : Bodies]
             s == i.anys
  <2>2. s \in Seq(A) /\ a \in Range(s)
    BY <1>2, <2>1
  <2>3. a.text \in AnyTexts
    BY <2>1 DEF AnyTexts
  <2> HIDE DEF A, s
  <2>4. a \in A
    BY <2>2 DEF Range
  <2> QED
    BY <2>3, <2>4 DEF A
<1> QED
  BY <1>1, <1>3, <1>4

-----------------------------------------------------------------------------
(* Where the registries of the next state come from: each is one of this   *)
(* state, a new one, a fork, or one of these after one operation.          *)
Claimed == [synthetic EXCEPT !.types = Overlay(@, Claims)]

Derived(r) ==
    \/ r \in AllRegs
    \/ r = NewRegistry
    \/ \E s \in AllRegs : r = Fork(s)
    \/ \E s \in AllRegs, q \in AllRequests : r = Register(s, q)
    \/ \E s \in AllRegs, a \in AllAnys : r = PushIfAbsent(s, PlainName(a.text), "AnyEnum", a.variants)
    \/ \E s, t \in AllRegs : r = Merge(s, t)
    \/ phase = "externals" /\ r = Claimed

(* The registry a pass opens for a file.                                   *)
LEMMA Opened ==
    ASSUME Control, NEW ph, NEW f \in 1 .. (NFiles + 1),
           ph = "transform" => Len(anySyn) = NFiles /\ Len(resSyn) = NFiles
    PROVE  Derived(Open(ph, f))
<1>1. NFiles \in Nat
  BY FileTyped DEF Control
<1>2. synthetic \in AllRegs
  BY DEF AllRegs
<1>3. CASE ph = "resolve"
  BY <1>2, <1>3 DEF Open, Derived
<1>4. CASE ph = "transform" /\ f <= NFiles
  <2>1. f \in DOMAIN anySyn /\ f \in DOMAIN resSyn
    BY <1>1, <1>4 DEF Control
  <2>2. anySyn[f] \in AllRegs /\ resSyn[f] \in AllRegs
    BY <2>1 DEF AllRegs, Range
  <2>3. Open(ph, f) = Merge(anySyn[f], resSyn[f])
    BY <1>4 DEF Open
  <2> QED
    BY <2>2, <2>3 DEF Derived
<1>5. CASE ph # "resolve" /\ ~ (ph = "transform" /\ f <= NFiles)
  BY <1>5 DEF Open, Derived
<1> QED
  BY <1>3, <1>4, <1>5

(* Every step derives the registries of the next state.                    *)
LEMMA Derivations ==
    ASSUME Control, [Next]_vars
    PROVE  \A r \in AllRegs' : Derived(r)
<1>1. NFiles \in Nat /\ file \in 1 .. (NFiles + 1)
  BY FileTyped DEF Control
<1>2. /\ synthetic \in AllRegs /\ work \in AllRegs /\ local \in AllRegs
      /\ Range(anySyn) \subseteq AllRegs /\ Range(resSyn) \subseteq AllRegs
  BY DEF AllRegs
<1>3. SUFFICES /\ Derived(synthetic') /\ Derived(work') /\ Derived(local')
               /\ Range(anySyn)' \subseteq AllRegs /\ Range(resSyn)' \subseteq AllRegs
  BY DEF AllRegs, Derived
<1>4. Derived(synthetic) /\ Derived(work) /\ Derived(local) /\ Derived(NewRegistry)
  BY <1>2 DEF Derived
<1>5. /\ anySyn' = anySyn => Range(anySyn)' \subseteq AllRegs
      /\ resSyn' = resSyn => Range(resSyn)' \subseteq AllRegs
  BY <1>2 DEF Range
<1>6. /\ anySyn' = Append(anySyn, work) => Range(anySyn)' \subseteq AllRegs
      /\ resSyn' = Append(resSyn, work) => Range(resSyn)' \subseteq AllRegs
  <2>1. ASSUME NEW s \in Seq(Registries), Range(s) \subseteq AllRegs
        PROVE  \A i \in DOMAIN Append(s, work) : Append(s, work)[i] \in AllRegs
    <3>1. \A i \in 1 .. Len(s) : s[i] \in AllRegs
      BY <2>1 DEF Range
    <3> QED
      BY <1>2, <3>1
  <2> QED
    BY <1>2, <2>1 DEF Range, Control
<1>7. ASSUME NextFile, file <= NFiles PROVE Derived(work')
  <2>1. file + 1 \in 1 .. (NFiles + 1)
    BY <1>1, <1>7
  <2>2. phase = "transform" => Len(anySyn) = NFiles /\ Len(resSyn) = NFiles
    BY DEF Control, FilesDone
  <2> QED
    BY <1>7, <2>1, <2>2, Opened DEF NextFile
<1>8. CASE NextPass
  <2>1. Derived(Open(After(phase), 1))
    <3>1. After(phase) = "transform" => phase = "structs"
      BY <1>8, AfterIs DEF NextPass, Control, Phases
    <3>2. After(phase) = "transform" => Len(anySyn) = NFiles /\ Len(resSyn) = NFiles
      BY <3>1 DEF Control, FilesDone
    <3>3. 1 \in 1 .. (NFiles + 1)
      BY <1>1
    <3> QED
      BY <3>2, <3>3, Opened
  <2> QED
    BY <1>4, <1>5, <1>8, <2>1 DEF NextPass
<1>9. CASE ParseFile
  BY <1>4, <1>5, <1>7, <1>9 DEF ParseFile
<1>10. CASE ParseFails
  BY <1>4, <1>5, <1>10 DEF ParseFails
<1>11. CASE CollectTypes
  BY <1>4, <1>5, <1>7, <1>11 DEF CollectTypes, AtEndOfFile
<1>24. CASE CollectAsk
  <2>1. CASE ask <= Len(Here.sig)
    <3>1. Here.sig[ask] \in AllRequests
      BY <1>24, <2>1, AskTyped DEF CollectAsk
    <3>2. Derived(Register(work, Here.sig[ask]))
      BY <1>2, <3>1 DEF Derived
    <3> QED
      BY <1>4, <1>5, <1>24, <2>1, <3>2 DEF CollectAsk
  <2>2. CASE ~ (ask <= Len(Here.sig))
    BY <1>4, <1>5, <1>24, <2>2 DEF CollectAsk
  <2> QED
    BY <2>1, <2>2
<1>25. CASE TooManyIterations
  BY <1>4, <1>5, <1>25 DEF TooManyIterations
<1>12. CASE AnalyzeAny
  <2>1. CASE ask <= Len(Here.anys)
    BY <1>2, <1>4, <1>5, <1>12, <2>1, AskTyped DEF AnalyzeAny, Derived
  <2>2. CASE ~ (ask <= Len(Here.anys))
    BY <1>4, <1>5, <1>12, <2>2 DEF AnalyzeAny
  <2> QED
    BY <2>1, <2>2
<1>13. CASE FinishAny
  BY <1>4, <1>5, <1>6, <1>7, <1>13 DEF FinishAny, AtEndOfFile
<1>14. CASE ResolveAsk
  <2> DEFINE asks == ResolverAsks(Here)
  <2>1. CASE ask <= Len(asks)
    <3>1. asks[ask] \in AllRequests /\ work' = Register(work, asks[ask])
      BY <1>14, <2>1, AskTyped DEF ResolveAsk
    <3> QED
      BY <1>2, <1>4, <1>5, <1>14, <3>1 DEF ResolveAsk, Derived
  <2>2. CASE ~ (ask <= Len(asks))
    BY <1>4, <1>5, <1>14, <2>2 DEF ResolveAsk
  <2> QED
    BY <2>1, <2>2
<1>15. CASE FinishResolve
  BY <1>4, <1>5, <1>6, <1>7, <1>15 DEF FinishResolve, AtEndOfFile
<1>16. CASE RegisterStructs
  BY <1>4, <1>5, <1>7, <1>16 DEF RegisterStructs
<1>17. CASE ConvertAsk
  <2>1. Here.sig[ask] \in AllRequests
    BY <1>17, AskTyped DEF ConvertAsk
  <2>2. Derived(Register(work, Here.sig[ask])) /\ Derived(Register(local, Here.sig[ask]))
    BY <1>2, <2>1 DEF Derived
  <2> QED
    BY <1>4, <1>5, <1>17, <2>2 DEF ConvertAsk
<1>18. CASE FinishItem
  <2>1. Derived(Merge(work, local))
    BY <1>2 DEF Derived
  <2> QED
    BY <1>4, <1>5, <1>18, <2>1 DEF FinishItem
<1>19. CASE ItemFails
  BY <1>4, <1>5, <1>19 DEF ItemFails
<1>20. CASE FinishTransform
  <2>1. Derived(Merge(synthetic, work))
    BY <1>2 DEF Derived
  <2> QED
    BY <1>4, <1>5, <1>7, <1>20, <2>1 DEF FinishTransform, AtEndOfFile
<1>21. CASE ClaimExternals
  BY <1>4, <1>5, <1>21 DEF ClaimExternals, Derived, Claimed
<1>22. CASE Finish
  BY <1>4, <1>5, <1>22 DEF Finish
<1>23. CASE UNCHANGED vars
  BY <1>4, <1>5, <1>23 DEF vars
<1> QED
  BY <1>8, <1>9, <1>10, <1>11, <1>12, <1>13, <1>14, <1>15, <1>16, <1>17, <1>18, <1>19, <1>20,
     <1>21, <1>22, <1>23, <1>24, <1>25 DEF Next

-----------------------------------------------------------------------------
(* A new registry and a fork of a good one are good.                       *)
LEMMA NewGood ==
    Good(NewRegistry)
BY DEF Good, NewRegistry, Empty, IsRegistry, IsMap, Named, NamedByVariants

(* A fork is as good as the registry it was made of.                       *)
LEMMA ForkGood ==
    ASSUME NEW r, Good(r)
    PROVE  Good(Fork(r))
<1> DEFINE s == Fork(r)
<1>1. /\ s = [types |-> r.types, unionDedup |-> r.unionDedup, structDedup |-> r.structDedup,
              enumDedup |-> r.enumDedup, structCtr |-> r.structCtr, synCtr |-> r.synCtr,
              scope |-> {}]
  BY DEF Fork, Good, IsRegistry
<1>2. /\ s.types = r.types /\ s.unionDedup = r.unionDedup /\ s.structDedup = r.structDedup
      /\ s.enumDedup = r.enumDedup /\ s.structCtr = r.structCtr /\ s.synCtr = r.synCtr
      /\ s.scope = {}
  BY <1>1
<1>3. s = [types |-> s.types, unionDedup |-> s.unionDedup, structDedup |-> s.structDedup,
           enumDedup |-> s.enumDedup, structCtr |-> s.structCtr, synCtr |-> s.synCtr,
           scope |-> s.scope]
  BY <1>1, <1>2
<1> HIDE DEF s
<1>4. IsRegistry(s)
  BY <1>2, <1>3 DEF Good, IsRegistry
<1>5. Named(s) /\ NamedByVariants(s)
  BY <1>2 DEF Good, Named, NamedByVariants
<1> QED
  BY <1>4, <1>5 DEF Good, s

(* Whatever is asked for is named by its variants if it is a union.        *)
LEMMA RegisterGood ==
    ASSUME NEW r, Good(r), NEW q \in Requests
    PROVE  Good(Register(r, q))
<1> DEFINE s == Register(r, q)
<1>1. IsRegistry(s) /\ Named(s)
  BY RegisterRemembers, RegisterNamed DEF Good
<1>2. CASE Known(r, q)
  BY <1>2, RegisterKnown DEF Good
<1>3. CASE ~ Known(r, q)
  <2>1. RecordsUnion(r, s, q) \/ RecordsStruct(r, s, q) \/ RecordsEnum(r, s, q)
    BY <1>3, RegisterNew DEF Good
  <2> HIDE DEF s
  <2>2. CASE RecordsUnion(r, s, q)
    <3>1. FreshUnionName(q.parts) = PlainName(UnionText[VariantsOf(UnionKey(q.parts).parts)])
      BY RequestTypes, DedupKeepsVariants DEF FreshUnionName
    <3>2. s.unionDedup = Put(r.unionDedup, UnionKey(q.parts), FreshUnionName(q.parts))
      BY <2>2 DEF RecordsUnion
    <3>3. NamedByVariants(s)
      BY <3>1, <3>2, PutAt DEF NamedByVariants, Good
    <3> QED
      BY <1>1, <3>3 DEF Good, s
  <2>3. CASE RecordsStruct(r, s, q) \/ RecordsEnum(r, s, q)
    <3>1. s.unionDedup = r.unionDedup
      BY <2>3 DEF RecordsStruct, RecordsEnum
    <3> QED
      BY <1>1, <3>1 DEF Good, NamedByVariants, s
  <2> QED
    BY <2>1, <2>2, <2>3
<1> QED
  BY <1>2, <1>3

(* Writing an item records nothing.                                        *)
LEMMA OverlayTypesGood ==
    ASSUME NEW r, Good(r), NEW g, IsMap(g, Names, Defs)
    PROVE  Good([r EXCEPT !.types = Overlay(@, g)])
<1> DEFINE t == Overlay(r.types, g)
           s == [r EXCEPT !.types = t]
<1>1. IsMap(t, Names, Defs)
  BY OverlayMap DEF Good, IsRegistry
<1>2. \A x : x \in DOMAIN r.types => x \in DOMAIN t
  BY OverlayAt
<1> HIDE DEF t
<1>3. s = [types |-> t, unionDedup |-> r.unionDedup, structDedup |-> r.structDedup,
           enumDedup |-> r.enumDedup, structCtr |-> r.structCtr, synCtr |-> r.synCtr,
           scope |-> r.scope]
  BY DEF Good, IsRegistry
<1>4. /\ s.types = t /\ s.unionDedup = r.unionDedup /\ s.structDedup = r.structDedup
      /\ s.enumDedup = r.enumDedup /\ s.structCtr = r.structCtr /\ s.synCtr = r.synCtr
      /\ s.scope = r.scope
  BY <1>3
<1>5. s = [types |-> s.types, unionDedup |-> s.unionDedup, structDedup |-> s.structDedup,
           enumDedup |-> s.enumDedup, structCtr |-> s.structCtr, synCtr |-> s.synCtr,
           scope |-> s.scope]
  BY <1>3, <1>4
<1>6. [r EXCEPT !.types = Overlay(@, g)] = s
  BY DEF t
<1> HIDE DEF s
<1>7. IsRegistry(s)
  BY <1>1, <1>4, <1>5 DEF IsRegistry, Good
<1>8. Named(s) /\ NamedByVariants(s)
  BY <1>2, <1>4 DEF Named, NamedByVariants, Good
<1> QED
  BY <1>6, <1>7, <1>8 DEF Good

(* One item is a map of one item.                                          *)
LEMMA PutIsOverlay ==
    ASSUME NEW f, NEW k, NEW v
    PROVE  Put(f, k, v) = Overlay(f, [x \in {k} |-> v])
BY DEF Put, Overlay

(* An any-enum under a plain name does not spoil a registry.               *)
LEMMA AnyGood ==
    ASSUME NEW r, Good(r), NEW t \in Texts, NEW b \in Bodies
    PROVE  Good(PushIfAbsent(r, PlainName(t), "AnyEnum", b))
<1> DEFINE n == PlainName(t)
           d == Def("AnyEnum", b)
           g == [x \in {n} |-> d]
<1>1. n \in Names /\ d \in Defs
  BY NameTypes DEF Def, Defs, Kinds
<1>2. IsMap(g, Names, Defs)
  BY <1>1 DEF IsMap
<1>3. Put(r.types, n, d) = Overlay(r.types, g)
  BY PutIsOverlay
<1> HIDE DEF g
<1>4. PushItem(r, n, "AnyEnum", b) = [r EXCEPT !.types = Overlay(@, g)]
  BY <1>3 DEF PushItem
<1> QED
  BY <1>2, <1>4, OverlayTypesGood DEF PushIfAbsent

(* Nor does merging one registry into another: a name stands for the same  *)
(* union in both.                                                          *)
LEMMA MergeGood ==
    ASSUME NEW r, NEW s, Good(r), Good(s)
    PROVE  Good(Merge(r, s))
BY MergeShape, MergeNamed, MergeNamedByVariants DEF Good

(* What the fixpoint claims are external types, by their plain names.      *)
LEMMA ClaimsTyped ==
    ASSUME Control
    PROVE  /\ IsMap(Claims, Names, Defs)
           /\ \A n : n \in DOMAIN Claims <=> \E t \in Undefined : n = PlainName(t)
           /\ \A t \in Undefined : Claims[PlainName(t)] = Def("External", ExternalBody(t))
           /\ \A t \in Undefined : PlainName(t) \in DOMAIN BaseTypes
<1>1. ASSUME NEW t \in Undefined
      PROVE  /\ PlainName(t) \in DOMAIN BaseTypes /\ t \in Texts
             /\ PlainName(t).text = t
             /\ ExternalBody(t) \in Bodies
  <2>1. PICK n \in DOMAIN BaseTypes : t = n.text
    BY DEF Undefined, ExternalTexts
  <2>2. n = PlainName(t) /\ n \in Names
    BY <2>1, PipelineAssumption DEF IsMap
  <2>3. n \in DOMAIN shared /\ shared[n] \in TypeDefs
    BY <2>1 DEF Control, IsMap
  <2>4. t \in Texts /\ PlainName(t).text = t
    BY <2>1, <2>2 DEF Names
  <2>5. shared[n].body \in Bodies
    BY <2>3 DEF TypeDefs
  <2>6. ExternalBody(t) \in Bodies
    BY <2>2, <2>5 DEF ExternalBody, Bodies
  <2> QED
    BY <2>1, <2>2, <2>4, <2>6
<1> DEFINE D == {PlainName(t) : t \in Undefined}
<1>2. \A n \in D : n \in Names /\ Def("External", ExternalBody(n.text)) \in Defs
  BY <1>1, NameTypes DEF Def, Defs, Kinds
<1>3. Claims = [n \in D |-> Def("External", ExternalBody(n.text))]
  BY DEF Claims
<1>4. DOMAIN Claims = D /\ \A n \in D : Claims[n] = Def("External", ExternalBody(n.text))
  BY <1>3
<1>5. IsMap(Claims, Names, Defs)
  BY <1>2, <1>3, <1>4 DEF IsMap
<1> QED
  BY <1>1, <1>4, <1>5

(* So whatever a step derives from good registries is good.                *)
LEMMA DerivedGood ==
    ASSUME TypeInv, NEW r, Derived(r)
    PROVE  Good(r)
<1>1. Control /\ \A s \in AllRegs : Good(s)
  BY DEF TypeInv
<1>2. /\ \A q \in AllRequests : q \in Requests
      /\ \A a \in AllAnys : a.text \in Texts /\ a.variants \in Bodies
  BY <1>1, ProgramTyped DEF Control
<1>3. CASE r \in AllRegs
  BY <1>1, <1>3
<1>4. CASE r = NewRegistry
  BY <1>4, NewGood
<1>5. CASE \E s \in AllRegs : r = Fork(s)
  BY <1>1, <1>5, ForkGood
<1>6. CASE \E s \in AllRegs, q \in AllRequests : r = Register(s, q)
  BY <1>1, <1>2, <1>6, RegisterGood
<1>7. CASE \E s \in AllRegs, a \in AllAnys : r = PushIfAbsent(s, PlainName(a.text), "AnyEnum", a.variants)
  BY <1>1, <1>2, <1>7, AnyGood
<1>8. CASE \E s, t \in AllRegs : r = Merge(s, t)
  BY <1>1, <1>8, MergeGood
<1>9. CASE r = Claimed
  <2>1. Good(synthetic)
    BY <1>1 DEF AllRegs
  <2>2. IsMap(Claims, Names, Defs)
    BY <1>1, ClaimsTyped
  <2> QED
    BY <1>9, <2>1, <2>2, OverlayTypesGood DEF Claimed
<1> QED
  BY <1>3, <1>4, <1>5, <1>6, <1>7, <1>8, <1>9 DEF Derived

-----------------------------------------------------------------------------
(* The shared registry keeps its type through each operation on it.        *)
LEMMA SharedTyped ==
    ASSUME IsMap(shared, Names, TypeDefs), DOMAIN BaseTypes \subseteq DOMAIN shared
    PROVE  /\ \A decls : IsMap(decls, Names, TypeDefs) =>
                 /\ IsMap(MergeTypes(shared, decls), Names, TypeDefs)
                 /\ DOMAIN BaseTypes \subseteq DOMAIN MergeTypes(shared, decls)
           /\ \A types, r, kinds : \A as \in {"Struct", "Enum"} :
                 (IsRegistry(r) /\ IsMap(types, Names, TypeDefs)) =>
                    /\ IsMap(AddAbsent(types, r, kinds, as), Names, TypeDefs)
                    /\ DOMAIN types \subseteq DOMAIN AddAbsent(types, r, kinds, as)
<1>1. ASSUME NEW b \in TypeDefs, NEW s \in TypeDefs
      PROVE  Preserving(b, s) \in TypeDefs
  <2>1. s.methods \cup b.methods \in Bodies
    BY DEF TypeDefs, Bodies
  <2> QED
    BY <2>1 DEF Preserving, TypeDefs
<1>2. ASSUME NEW decls, IsMap(decls, Names, TypeDefs)
      PROVE  /\ IsMap(MergeTypes(shared, decls), Names, TypeDefs)
             /\ DOMAIN BaseTypes \subseteq DOMAIN MergeTypes(shared, decls)
  <2> DEFINE v(n) == IF n \in DOMAIN BaseTypes /\ n \in DOMAIN shared
                     THEN Preserving(shared[n], decls[n]) ELSE decls[n]
             g == [n \in DOMAIN decls |-> v(n)]
  <2>1. \A n \in DOMAIN decls : v(n) \in TypeDefs /\ n \in Names
    BY <1>1, <1>2 DEF IsMap
  <2>2. IsMap(g, Names, TypeDefs)
    <3> HIDE DEF v
    <3> QED
      BY <2>1 DEF IsMap
  <2>3. MergeTypes(shared, decls) = Overlay(shared, g)
    BY DEF MergeTypes
  <2> HIDE DEF g
  <2> QED
    BY <2>2, <2>3, OverlayMap, OverlayAt
<1>3. ASSUME NEW types, NEW r, NEW kinds, NEW as \in {"Struct", "Enum"}, IsRegistry(r),
             IsMap(types, Names, TypeDefs)
      PROVE  /\ IsMap(AddAbsent(types, r, kinds, as), Names, TypeDefs)
             /\ DOMAIN types \subseteq DOMAIN AddAbsent(types, r, kinds, as)
  <2> DEFINE D == ItemsOfKind(r, kinds)
             v(n) == [kind |-> as, body |-> r.types[n].body, methods |-> {}]
             g == [n \in D |-> v(n)]
  <2>1. ASSUME NEW n \in D PROVE n \in Names /\ v(n) \in TypeDefs
    <3>1. n \in DOMAIN r.types /\ n \in Names /\ r.types[n] \in Defs
      BY <1>3 DEF ItemsOfKind, IsRegistry, IsMap
    <3>2. r.types[n].body \in Bodies /\ {} \in Bodies
      BY <3>1 DEF Defs, Bodies
    <3> QED
      BY <3>1, <3>2 DEF TypeDefs
  <2>2. IsMap(g, Names, TypeDefs)
    <3> HIDE DEF v, D
    <3> QED
      BY <2>1 DEF IsMap
  <2>3. AddAbsent(types, r, kinds, as) = Overlay(g, types)
    BY DEF AddAbsent
  <2> HIDE DEF g
  <2> QED
    BY <1>3, <2>2, <2>3, OverlayMap, OverlayAt
<1> QED
  BY <1>2, <1>3

(* The pass and the cursor after a step, for the counts of registries.     *)
LEMMA NextFileControl ==
    ASSUME Control, NextFile, file <= NFiles, prog' = prog, phase' = phase
    PROVE  /\ prog' \in Programs /\ NFiles' = NFiles /\ NFiles \in Nat
           /\ phase' \in Phases
           /\ file' = file + 1 /\ file \in Nat /\ file' \in 1 .. (NFiles' + 1)
           /\ item' \in Nat \ {0} /\ ask' \in Nat \ {0}
BY FileTyped DEF Control, NextFile, NFiles

(* The invariant of types and control is inductive.                        *)
LEMMA InitTypes ==
    ASSUME Init
    PROVE  TypeInv
<1>1. prog \in Programs /\ NFiles \in Nat
  BY FileTyped DEF Init
<1>2. anySyn = <<>> /\ resSyn = <<>> /\ Range(anySyn) = {} /\ Range(resSyn) = {}
  BY DEF Init, Range
<1>3. IsMap(shared, Names, TypeDefs) /\ shared = BaseTypes
  BY PipelineAssumption DEF Init
<1>4. Control
  BY <1>1, <1>2, <1>3 DEF Init, Control, Phases, FilesDone
<1>5. Good(BaseSyn)
  BY PipelineAssumption DEF Good, Sound
<1>6. AllRegs = {BaseSyn, NewRegistry}
  BY <1>2 DEF AllRegs, Init
<1> QED
  BY <1>4, <1>5, <1>6, NewGood DEF TypeInv

(* Every step keeps the control of the pipeline and the goodness of every  *)
(* registry in it.                                                         *)
LEMMA StepTypes ==
    ASSUME TypeInv, [Next]_vars
    PROVE  TypeInv'
<1>1. Control
  BY DEF TypeInv
<1>2. /\ prog \in Programs /\ NFiles \in Nat /\ file \in 1 .. (NFiles + 1)
      /\ \A f \in 1 .. NFiles : IsMap(prog[f].decls, Names, TypeDefs)
  BY <1>1, FileTyped DEF Control
<1>3. \A r \in AllRegs : Good(r) /\ IsRegistry(r) /\ r \in Registries
  BY RegistriesAre DEF TypeInv, Good
<1>4. \A r \in AllRegs' : Good(r)
  BY <1>1, Derivations, DerivedGood
<1>5. work \in Registries
  BY <1>3 DEF AllRegs
<1>6. /\ IsMap(shared, Names, TypeDefs) /\ DOMAIN BaseTypes \subseteq DOMAIN shared
  BY <1>1 DEF Control
<1>7. /\ Append(anySyn, work) \in Seq(Registries) /\ Len(Append(anySyn, work)) = Len(anySyn) + 1
      /\ Append(resSyn, work) \in Seq(Registries) /\ Len(Append(resSyn, work)) = Len(resSyn) + 1
  BY <1>1, <1>5 DEF Control
<1>8. SUFFICES Control'
  BY <1>4 DEF TypeInv
<1>9. CASE NextPass
  <2>1. /\ NFiles' = NFiles /\ prog' = prog /\ file' = 1 /\ file' \in 1 .. (NFiles' + 1)
        /\ ~ InItem /\ pending = {} /\ local = NewRegistry
        /\ file = NFiles + 1
    BY <1>1, <1>2, <1>9 DEF NextPass, NFiles, InItem, Control
  <2>2. phase' \in Phases
    BY <1>1, <1>9, AfterIs DEF NextPass, Phases, Control
  <2>3. /\ Len(anySyn') = FilesDone("any", {"parse", "collect", "failed"})'
        /\ Len(resSyn') = FilesDone("resolve", {"parse", "collect", "any", "failed"})'
    BY <1>1, <1>2, <1>9, <2>1, AfterIs DEF NextPass, Phases, Control, FilesDone
  <2>4. phase' \notin {"transform", "externals", "done", "panicked"} =>
           synthetic' = BaseSyn /\ emitted' = {} /\ handed' = {}
    BY <1>1, <1>9, AfterIs DEF NextPass, Phases, Control
  <2> QED
    BY <1>1, <1>2, <1>9, <2>1, <2>2, <2>3, <2>4 DEF NextPass, Control
<1>10. CASE ParseFile
  BY <1>1, <1>2, <1>10, NextFileControl DEF ParseFile, Control, FilesDone
<1>11. CASE ParseFails
  BY <1>1, <1>2, <1>11 DEF ParseFails, cursor, Control, FilesDone, Phases, NFiles
<1>12. CASE CollectTypes
  <2> DEFINE types == AddAbsent(prog[file].decls, work, {"UnionEnum", "AnyEnum"}, "Enum")
  <2>1. file \in 1 .. NFiles /\ IsRegistry(work)
    BY <1>2, <1>3, <1>12 DEF CollectTypes, AtEndOfFile, AllRegs
  <2>2. IsMap(types, Names, TypeDefs)
    BY <1>2, <1>6, <2>1, SharedTyped
  <2>3. shared' = MergeTypes(shared, types)
    BY <1>12 DEF CollectTypes
  <2> HIDE DEF types
  <2>4. IsMap(shared', Names, TypeDefs) /\ DOMAIN BaseTypes \subseteq DOMAIN shared'
    BY <1>6, <2>2, <2>3, SharedTyped
  <2> QED
    BY <1>1, <1>2, <1>12, <2>4, NextFileControl DEF CollectTypes, AtEndOfFile, Control, FilesDone
<1>25. CASE CollectAsk
  BY <1>1, <1>2, <1>25 DEF CollectAsk, NextAsk, NextItem, Control, FilesDone, NFiles
<1>26. CASE TooManyIterations
  BY <1>1, <1>2, <1>26 DEF TooManyIterations, cursor, Control, FilesDone, NFiles, Phases
<1>13. CASE AnalyzeAny
  BY <1>1, <1>2, <1>13 DEF AnalyzeAny, NextAsk, NextItem, Control, FilesDone, NFiles
<1>14. CASE FinishAny
  <2>1. IsMap(shared', Names, TypeDefs) /\ DOMAIN BaseTypes \subseteq DOMAIN shared'
    BY <1>3, <1>6, <1>14, SharedTyped DEF FinishAny, AllRegs
  <2> QED
    BY <1>1, <1>2, <1>7, <1>14, <2>1, NextFileControl DEF FinishAny, AtEndOfFile, Control, FilesDone
<1>15. CASE ResolveAsk
  <2>1. /\ phase = "resolve" /\ phase' = phase /\ file' = file /\ prog' = prog
        /\ NextAsk \/ NextItem
        /\ UNCHANGED <<shared, synthetic, anySyn, resSyn, local, pending, emitted, handed, rounds>>
    BY <1>15 DEF ResolveAsk, NextAsk, NextItem
  <2>2. item' \in Nat \ {0} /\ ask' \in Nat \ {0}
    BY <1>1, <2>1 DEF NextAsk, NextItem, Control
  <2> QED
    BY <1>1, <1>2, <2>1, <2>2 DEF Control, FilesDone, NFiles
<1>16. CASE FinishResolve
  BY <1>1, <1>2, <1>7, <1>16, NextFileControl DEF FinishResolve, AtEndOfFile, Control, FilesDone
<1>17. CASE RegisterStructs
  <2>1. resSyn[file] \in AllRegs
    BY <1>1, <1>2, <1>17 DEF RegisterStructs, Control, FilesDone, AllRegs, Range
  <2>2. IsMap(shared', Names, TypeDefs) /\ DOMAIN BaseTypes \subseteq DOMAIN shared'
    BY <1>3, <1>6, <1>17, <2>1, SharedTyped DEF RegisterStructs
  <2> QED
    BY <1>1, <1>2, <1>17, <2>2, NextFileControl DEF RegisterStructs, Control, FilesDone
<1>18. CASE ConvertAsk
  BY <1>1, <1>2, <1>18 DEF ConvertAsk, NextAsk, InItem, Here, Control, FilesDone, NFiles
<1>19. CASE FinishItem
  BY <1>1, <1>2, <1>19 DEF FinishItem, NextItem, Control, FilesDone, NFiles
<1>20. CASE ItemFails
  BY <1>1, <1>2, <1>20 DEF ItemFails, NextItem, Control, FilesDone, NFiles
<1>21. CASE FinishTransform
  <2>1. ~ InItem /\ pending = {} /\ local = NewRegistry
    BY <1>1, <1>21 DEF FinishTransform, AtEndOfFile, InItem, Control
  <2> QED
    BY <1>1, <1>2, <1>21, <2>1, NextFileControl DEF FinishTransform, AtEndOfFile, Control, FilesDone
<1>22. CASE ClaimExternals
  BY <1>1, <1>2, <1>22 DEF ClaimExternals, cursor, Control, FilesDone, NFiles
<1>23. CASE Finish
  BY <1>1, <1>2, <1>23 DEF Finish, cursor, Control, FilesDone, NFiles, Phases
<1>24. CASE UNCHANGED vars
  BY <1>1, <1>24 DEF vars, cursor, Control, FilesDone, NFiles, InItem, Here
<1> QED
  BY <1>9, <1>10, <1>11, <1>12, <1>13, <1>14, <1>15, <1>16, <1>17, <1>18, <1>19, <1>20, <1>21,
     <1>22, <1>23, <1>24, <1>25, <1>26 DEF Next

(* Every reachable state has typed, well-named registries, as many files'  *)
(* registries as the passes have closed, and no leftover of an item        *)
(* outside that item.                                                      *)
THEOREM TypesHold == Spec => []TypeInv
<1>1. TypeInv /\ [Next]_vars => TypeInv'
  BY StepTypes
<1> QED
  BY InitTypes, <1>1, PTL DEF Spec

-----------------------------------------------------------------------------
(* No item has a name the fixpoint claims.                                 *)
LEMMA ClaimsFresh ==
    ASSUME Control, NEW n \in DOMAIN synthetic.types
    PROVE  n \notin DOMAIN Claims
<1>1. SUFFICES ASSUME NEW t \in Undefined, n = PlainName(t) PROVE FALSE
  BY ClaimsTyped
<1>2. n.text = t /\ n.id = Plain /\ n.impl = FALSE
  BY <1>1 DEF PlainName, Numbered
<1>3. t \in ItemTexts
  BY <1>2 DEF ItemTexts
<1> QED
  BY <1>1, <1>3 DEF Undefined

(* After the collection nothing in the shared registry is replaced, and    *)
(* the fixpoint claims no name that an item has: DeclaredTypesStand.       *)
LEMMA DeclaredStep ==
    ASSUME TypeInv, [Next]_vars
    PROVE  [/\ phase \notin {"parse", "collect"} =>
                  \A n \in DOMAIN shared : n \in DOMAIN shared' /\ shared'[n] = shared[n]
            /\ rounds' # rounds =>
                  \A n \in DOMAIN synthetic.types : synthetic'.types[n] = synthetic.types[n]]_vars
<1>1. ASSUME NEW r, NEW kinds, NEW as, NEW n \in DOMAIN shared
      PROVE  /\ n \in DOMAIN AddAbsent(shared, r, kinds, as)
             /\ AddAbsent(shared, r, kinds, as)[n] = shared[n]
  BY OverlayAt DEF AddAbsent
<1>2. CASE FinishAny \/ RegisterStructs
  BY <1>1, <1>2 DEF FinishAny, RegisterStructs
<1>3. CASE ClaimExternals
  <2>1. Control /\ IsRegistry(synthetic)
    BY DEF TypeInv, AllRegs, Good
  <2>2. synthetic'.types = Overlay(synthetic.types, Claims) /\ shared' = shared
    BY <1>3, <2>1 DEF ClaimExternals, IsRegistry
  <2>3. \A n \in DOMAIN synthetic.types : n \notin DOMAIN Claims
    BY <2>1, ClaimsFresh
  <2>4. \A n \in DOMAIN synthetic.types : synthetic'.types[n] = synthetic.types[n]
    BY <2>2, <2>3, OverlayAt
  <2> QED
    BY <2>2, <2>4
<1>4. CASE CollectAsk \/ CollectTypes
  BY <1>4 DEF CollectAsk, CollectTypes
<1>5. CASE NextPass \/ ParseFile \/ ParseFails \/ AnalyzeAny
  BY <1>5 DEF NextPass, ParseFile, ParseFails, AnalyzeAny
<1>6. CASE ResolveAsk \/ FinishResolve
  BY <1>6 DEF ResolveAsk, FinishResolve
<1>7. CASE ConvertAsk \/ FinishItem \/ ItemFails \/ FinishTransform \/ TooManyIterations \/ Finish
  BY <1>7 DEF ConvertAsk, FinishItem, ItemFails, FinishTransform, TooManyIterations, Finish
<1> QED
  BY <1>2, <1>3, <1>4, <1>5, <1>6, <1>7 DEF Next

(* DeclaredTypesStand, for every program: what one pass has recorded of a  *)
(* declared type, no later pass takes back.                                *)
THEOREM DeclaredTypesHold == Spec => DeclaredTypesStand
<1>1. Spec => []TypeInv
  BY TypesHold
<1> QED
  BY <1>1, DeclaredStep, PTL DEF Spec, DeclaredTypesStand

-----------------------------------------------------------------------------
(* What the collection makes of a file has a union's name or a number.     *)
CollectNames ==
    phase = "collect" =>
        \A n \in DOMAIN work.types : n.id = Plain => \E ms \in UnionLists : n = FreshUnionName(ms)

(* Every step of the collection names what it adds in this way, and starts *)
(* each file with nothing.                                                 *)
LEMMA CollectStep ==
    ASSUME TypeInv, CollectNames, [Next]_vars
    PROVE  CollectNames'
<1>1. Control /\ prog \in Programs /\ IsRegistry(work)
  BY DEF TypeInv, Control, AllRegs, Good
<1>2. prog' = prog => UnionLists' = UnionLists
  BY DEF UnionLists, AllRequests, AllItems
<1>3. DOMAIN NewRegistry.types = {}
  BY DEF NewRegistry, Empty
<1>4. CASE CollectAsk /\ ask <= Len(Here.sig)
  <2> DEFINE q == Here.sig[ask]
             n == NameFor(work, q)
  <2>1. q \in AllRequests /\ q \in Requests
    BY <1>1, <1>4, AskTyped DEF CollectAsk
  <2>2. work' = Register(work, q) /\ prog' = prog /\ phase = "collect"
    BY <1>4 DEF CollectAsk
  <2>3. CASE Known(work, q)
    BY <1>1, <1>2, <2>1, <2>2, <2>3, RegisterKnown DEF CollectNames
  <2>4. CASE ~ Known(work, q)
    <3>1. /\ WritesItem(work, work', n, Asked(q))
          /\ RecordsUnion(work, work', q) \/ RecordsStruct(work, work', q) \/ RecordsEnum(work, work', q)
      BY <1>1, <2>1, <2>2, <2>4, RegisterNew
    <3>2. n.id = Plain => q.kind = "union" /\ n = FreshUnionName(q.parts)
      BY <3>1 DEF RecordsUnion, RecordsStruct, RecordsEnum
    <3>3. q.kind = "union" => q.parts \in UnionLists
      BY <2>1 DEF UnionLists
    <3> HIDE DEF n, q
    <3>4. \A x : x \in DOMAIN work'.types <=> x \in DOMAIN work.types \/ x = n
      BY <3>1, PutAt DEF WritesItem
    <3> QED
      BY <1>2, <2>2, <3>2, <3>3, <3>4 DEF CollectNames
  <2> QED
    BY <2>3, <2>4
<1>5. ASSUME prog' = prog, work' = work, phase' = phase \/ phase' # "collect"
      PROVE  CollectNames'
  BY <1>2, <1>5 DEF CollectNames
<1>6. ASSUME phase' = "collect" => work' = NewRegistry
      PROVE  CollectNames'
  BY <1>3, <1>6 DEF CollectNames
<1>7. CASE CollectAsk /\ ~ (ask <= Len(Here.sig))
  BY <1>5, <1>7 DEF CollectAsk
<1>8. CASE CollectTypes \/ ParseFile \/ NextPass
  BY <1>6, <1>8 DEF CollectTypes, ParseFile, NextPass, NextFile, Open
<1>9. CASE ParseFails \/ TooManyIterations \/ Finish \/ UNCHANGED vars
  BY <1>5, <1>9 DEF ParseFails, TooManyIterations, Finish, vars
<1>10. CASE AnalyzeAny \/ FinishAny \/ ResolveAsk \/ FinishResolve \/ RegisterStructs
  BY <1>6, <1>10 DEF AnalyzeAny, FinishAny, ResolveAsk, FinishResolve, RegisterStructs
<1>11. CASE ConvertAsk \/ FinishItem \/ ItemFails \/ FinishTransform \/ ClaimExternals
  BY <1>6, <1>11 DEF ConvertAsk, FinishItem, ItemFails, FinishTransform, ClaimExternals
<1> QED
  BY <1>4, <1>7, <1>8, <1>9, <1>10, <1>11 DEF Next

(* A builtin struct that is only declared again as a struct, and whose     *)
(* name no union takes, stays one and keeps its methods.                   *)
OnlyStructs(n) ==
    /\ BaseTypes[n].kind = "Struct"
    /\ \A ms \in UnionLists : FreshUnionName(ms) # n
    /\ \A f \in DOMAIN prog : n \in DOMAIN prog[f].decls => prog[f].decls[n].kind = "Struct"

BuiltinsKept ==
    \A n \in DOMAIN BaseTypes : OnlyStructs(n) =>
        shared[n].kind = "Struct" /\ BaseTypes[n].methods \subseteq shared[n].methods

(* Only a file's own declarations can change what is shared under a        *)
(* builtin name, and those are merged with it.                             *)
LEMMA BuiltinsStep ==
    ASSUME TypeInv, CollectNames, BuiltinsKept, [Next]_vars
    PROVE  BuiltinsKept'
<1>1. /\ Control /\ NFiles \in Nat /\ file \in 1 .. (NFiles + 1) /\ DOMAIN prog = 1 .. NFiles
      /\ IsMap(shared, Names, TypeDefs) /\ DOMAIN BaseTypes \subseteq DOMAIN shared
  BY FileTyped DEF TypeInv, Control
<1>0. prog' = prog => UnionLists' = UnionLists
  BY DEF UnionLists, AllRequests, AllItems
<1>2. CASE CollectTypes
  <2> DEFINE decls == AddAbsent(prog[file].decls, work, {"UnionEnum", "AnyEnum"}, "Enum")
             own == prog[file].decls
             v(m) == IF m \in DOMAIN BaseTypes /\ m \in DOMAIN shared
                     THEN Preserving(shared[m], decls[m]) ELSE decls[m]
             g == [m \in DOMAIN decls |-> v(m)]
  <2>1. /\ file \in DOMAIN prog /\ prog' = prog /\ phase = "collect"
        /\ shared' = MergeTypes(shared, decls)
    BY <1>1, <1>2 DEF CollectTypes, AtEndOfFile
  <2>2. SUFFICES ASSUME NEW n \in DOMAIN BaseTypes, OnlyStructs(n)
                 PROVE  shared'[n].kind = "Struct" /\ BaseTypes[n].methods \subseteq shared'[n].methods
    BY <1>0, <2>1 DEF BuiltinsKept, OnlyStructs
  <2>3. /\ n \in DOMAIN shared /\ shared[n].kind = "Struct"
        /\ BaseTypes[n].methods \subseteq shared[n].methods
    BY <1>1, <2>2 DEF BuiltinsKept
  <2>7. n \in DOMAIN decls => n \in DOMAIN own /\ decls[n] = own[n]
    <3> DEFINE h == [m \in ItemsOfKind(work, {"UnionEnum", "AnyEnum"}) |->
                        [kind |-> "Enum", body |-> work.types[m].body, methods |-> {}]]
    <3>1. decls = Overlay(h, own)
      BY DEF AddAbsent
    <3>2. n = PlainName(n.text)
      BY PipelineAssumption
    <3>3. n.id = Plain
      BY <3>2 DEF PlainName, Numbered
    <3>4. n \notin DOMAIN work.types
      BY <2>1, <2>2, <3>3 DEF CollectNames, OnlyStructs
    <3>5. n \notin DOMAIN h
      BY <3>4 DEF ItemsOfKind
    <3> HIDE DEF h, decls, own
    <3> QED
      BY <3>1, <3>5, OverlayAt
  <2>4. shared' = Overlay(shared, g)
    BY <2>1 DEF MergeTypes
  <2>8. own = prog[file].decls
    OBVIOUS
  <2> HIDE DEF decls, own
  <2>5. CASE n \in DOMAIN decls
    <3>1. decls[n] \in TypeDefs /\ decls[n].kind = "Struct"
      <4>1. IsMap(own, Names, TypeDefs)
        BY <1>1, <2>1, <2>8, FileTyped DEF Control
      <4> QED
        BY <2>1, <2>2, <2>5, <2>7, <2>8, <4>1 DEF IsMap, OnlyStructs
    <3>2. Preserving(shared[n], decls[n]) = [decls[n] EXCEPT !.methods = @ \cup shared[n].methods]
      BY <2>3, <3>1 DEF Preserving
    <3>3. /\ Preserving(shared[n], decls[n]).kind = "Struct"
          /\ shared[n].methods \subseteq Preserving(shared[n], decls[n]).methods
      BY <3>1, <3>2 DEF TypeDefs
    <3>4. n \in DOMAIN g /\ g[n] = Preserving(shared[n], decls[n])
      BY <2>2, <2>3, <2>5
    <3> HIDE DEF g
    <3>5. shared'[n] = Preserving(shared[n], decls[n])
      BY <2>4, <3>4, OverlayAt
    <3> QED
      BY <2>3, <3>3, <3>5
  <2>6. CASE n \notin DOMAIN decls
    <3>1. n \notin DOMAIN g
      BY <2>6
    <3> HIDE DEF g
    <3>2. shared'[n] = shared[n]
      BY <2>3, <2>4, <3>1, OverlayAt
    <3> QED
      BY <2>3, <3>2
  <2> QED
    BY <2>5, <2>6
<1>3. ASSUME prog' = prog, \A n \in DOMAIN shared : shared'[n] = shared[n]
      PROVE  BuiltinsKept'
  BY <1>0, <1>1, <1>3 DEF BuiltinsKept, OnlyStructs
<1>4. \A r, kinds, as : \A n \in DOMAIN shared : AddAbsent(shared, r, kinds, as)[n] = shared[n]
  BY OverlayAt DEF AddAbsent
<1>5. CASE FinishAny \/ RegisterStructs
  BY <1>3, <1>4, <1>5 DEF FinishAny, RegisterStructs
<1>6. CASE NextPass \/ ParseFile \/ ParseFails \/ CollectAsk \/ AnalyzeAny \/ ClaimExternals
  BY <1>3, <1>6 DEF NextPass, ParseFile, ParseFails, CollectAsk, AnalyzeAny, ClaimExternals
<1>7. CASE ResolveAsk \/ FinishResolve \/ UNCHANGED vars
  BY <1>3, <1>7 DEF ResolveAsk, FinishResolve, vars
<1>8. CASE ConvertAsk \/ FinishItem \/ ItemFails \/ FinishTransform \/ TooManyIterations \/ Finish
  BY <1>3, <1>8 DEF ConvertAsk, FinishItem, ItemFails, FinishTransform, TooManyIterations, Finish
<1> QED
  BY <1>2, <1>5, <1>6, <1>7, <1>8 DEF Next

(* Files that declare a builtin struct again do not cost it its methods.   *)
THEOREM BuiltinMethodsHold == Spec => []BuiltinMethodsStand
<1>1. Init => CollectNames /\ BuiltinsKept
  BY DEF Init, CollectNames, BuiltinsKept, OnlyStructs
<1>2. TypeInv /\ (CollectNames /\ BuiltinsKept) /\ [Next]_vars => (CollectNames /\ BuiltinsKept)'
  BY CollectStep, BuiltinsStep
<1>3. BuiltinsKept => BuiltinMethodsStand
  BY DEF BuiltinsKept, OnlyStructs, BuiltinMethodsStand
<1>4. Spec => []TypeInv
  BY TypesHold
<1> QED
  BY <1>1, <1>2, <1>3, <1>4, PTL DEF Spec

-----------------------------------------------------------------------------
(* What the resolver has asked so far, and of which registry.              *)
Asks(f, i) == ResolverAsks(prog[f].items[i])

ResReg(f) == IF f <= Len(resSyn) THEN resSyn[f] ELSE work

Before(i, k) == i < item \/ (i = item /\ k < ask)

ResolverPast(f, i, k) ==
    f <= Len(resSyn) \/ (phase = "resolve" /\ f = file /\ Before(i, k))

Recall(r, q) == [kind |-> q.kind, asked |-> Asked(q), name |-> Recalled(r, q)]

(* Each answer is what the file's registry still has on record for a       *)
(* request of that file the resolver is past, and it is past no request    *)
(* that this registry does not know.                                       *)
ResolverInv ==
    /\ \A x \in resolved :
          /\ x.file \in 1 .. NFiles /\ x.item \in DOMAIN prog[x.file].items
          /\ x.ask \in DOMAIN Asks(x.file, x.item)
          /\ ResolverPast(x.file, x.item, x.ask)
          /\ x.answer = Recall(ResReg(x.file), Asks(x.file, x.item)[x.ask])
    /\ \A f \in 1 .. NFiles : \A i \in DOMAIN prog[f].items : \A k \in DOMAIN Asks(f, i) :
          ResolverPast(f, i, k) => Known(ResReg(f), Asks(f, i)[k])

(* The requests of an item of a file are requests of the program.          *)
LEMMA AsksTyped ==
    ASSUME prog \in Programs, NEW f \in 1 .. NFiles
    PROVE  /\ Len(prog[f].items) \in Nat /\ DOMAIN prog[f].items = 1 .. Len(prog[f].items)
           /\ \A i \in DOMAIN prog[f].items :
                 /\ Len(Asks(f, i)) \in Nat /\ DOMAIN Asks(f, i) = 1 .. Len(Asks(f, i))
                 /\ \A k \in DOMAIN Asks(f, i) : Asks(f, i)[k] \in AllRequests \cap Requests
<1>1. prog[f].items \in Seq(Items) /\ f \in DOMAIN prog
  BY FileTyped
<1>2. Len(prog[f].items) \in Nat /\ DOMAIN prog[f].items = 1 .. Len(prog[f].items)
  BY <1>1
<1>3. ASSUME NEW i \in DOMAIN prog[f].items
      PROVE  /\ Len(Asks(f, i)) \in Nat /\ DOMAIN Asks(f, i) = 1 .. Len(Asks(f, i))
             /\ \A k \in DOMAIN Asks(f, i) : Asks(f, i)[k] \in AllRequests \cap Requests
  <2> DEFINE it == prog[f].items[i]
             sig == it.sig
             exprs == it.exprs
             both == sig \o exprs
  <2>1. it \in Items /\ it \in AllItems
    BY <1>1, <1>3 DEF AllItems, Range
  <2>2. sig \in Seq(Requests) /\ exprs \in Seq(Requests)
    BY <2>1 DEF Items
  <2>3. /\ \A j \in DOMAIN sig : sig[j] \in AllRequests
        /\ \A j \in DOMAIN exprs : exprs[j] \in AllRequests
    BY <2>1 DEF AllRequests, Range
  <2>4. CASE ~ it.visited
    <3>1. Asks(f, i) = <<>>
      BY <2>4 DEF Asks, ResolverAsks
    <3> QED
      BY <3>1
  <2>5. CASE it.visited
    <3>1. Asks(f, i) = both
      BY <2>5 DEF Asks, ResolverAsks
    <3>2. both = sig \o exprs
      OBVIOUS
    <3> HIDE DEF it, sig, exprs, both
    <3>3. /\ Len(both) = Len(sig) + Len(exprs) /\ Len(sig) \in Nat /\ Len(exprs) \in Nat
          /\ DOMAIN both = 1 .. Len(both)
          /\ \A k \in 1 .. Len(sig) : both[k] = sig[k]
          /\ \A k \in 1 .. Len(both) : k > Len(sig) => both[k] = exprs[k - Len(sig)]
      BY <2>2, <3>2
    <3>4. ASSUME NEW k \in DOMAIN both PROVE both[k] \in AllRequests \cap Requests
      <4>1. CASE k <= Len(sig)
        <5>1. k \in DOMAIN sig /\ both[k] = sig[k]
          BY <2>2, <3>3, <3>4, <4>1
        <5> QED
          BY <2>2, <2>3, <5>1
      <4>2. CASE k > Len(sig)
        <5>1. k - Len(sig) \in DOMAIN exprs /\ both[k] = exprs[k - Len(sig)]
          BY <2>2, <3>3, <3>4, <4>2
        <5> QED
          BY <2>2, <2>3, <5>1
      <4> QED
        BY <3>3, <3>4, <4>1, <4>2
    <3> QED
      BY <3>1, <3>3, <3>4
  <2> QED
    BY <2>4, <2>5
<1> QED
  BY <1>2, <1>3

(* Every step keeps what the resolver answered on record in that file's    *)
(* registry.                                                               *)
LEMMA ResolverStep ==
    ASSUME TypeInv, ResolverInv, [Next]_vars
    PROVE  ResolverInv'
<1>1. /\ Control /\ NFiles \in Nat /\ file \in 1 .. (NFiles + 1)
      /\ prog \in Programs /\ item \in Nat \ {0} /\ ask \in Nat \ {0}
      /\ IsRegistry(work)
  BY FileTyped DEF TypeInv, Control, AllRegs, Good
<1>2. CASE ResolveAsk
  <2>1. /\ phase = "resolve" /\ phase' = phase /\ prog' = prog /\ resSyn' = resSyn /\ file' = file
        /\ NFiles' = NFiles /\ InItem /\ Len(resSyn) = file - 1 /\ file \in 1 .. NFiles
        /\ item \in DOMAIN prog[file].items
    BY <1>1, <1>2, HereTyped DEF ResolveAsk, NextAsk, NextItem, NFiles, Control, FilesDone
  <2> DEFINE q == Asks(file, item)[ask]
             n == Len(Asks(file, item))
  <2>2. DOMAIN Asks(file, item) = 1 .. n /\ n \in Nat
    BY <1>1, <2>1, AsksTyped
  <2>6. Asks(file, item) = ResolverAsks(Here)
    BY DEF Asks, Here
  <2>7. ASSUME ask <= n
        PROVE  /\ work' = Register(work, q)
               /\ resolved' = resolved \cup {[file |-> file, item |-> item, ask |-> ask,
                                              answer |-> Answer(work, q)]}
               /\ ask' = ask + 1 /\ item' = item
    BY <1>2, <2>6, <2>7 DEF ResolveAsk, NextAsk
  <2>8. ASSUME ~ (ask <= n)
        PROVE  work' = work /\ resolved' = resolved /\ item' = item + 1 /\ ask' = 1
    BY <1>2, <2>6, <2>8 DEF ResolveAsk, NextItem
  <2>9. q = Asks(file, item)[ask] /\ n = Len(Asks(file, item))
    OBVIOUS
  <2> HIDE DEF n, q
  <2>3. \A f, i : Asks(f, i)' = Asks(f, i)
    BY <2>1 DEF Asks
  <2>4. CASE ask <= n
    <3>1. /\ work' = Register(work, q)
          /\ resolved' = resolved \cup {[file |-> file, item |-> item, ask |-> ask,
                                         answer |-> Answer(work, q)]}
          /\ ask' = ask + 1 /\ item' = item
      BY <2>4, <2>7
    <3>2. ask \in DOMAIN Asks(file, item) /\ q \in Requests
      BY <1>1, <2>1, <2>2, <2>4, <2>9, AsksTyped
    <3>3. /\ Known(work', q) /\ Recalled(work', q) = NameFor(work, q)
          /\ Remembers(work, work')
      BY <1>1, <3>1, <3>2, RegisterRemembers
    <3>4. \A f : \A i, k \in Nat : ResolverPast(f, i, k) => ResolverPast(f, i, k)'
      BY <1>1, <2>1, <3>1 DEF ResolverPast, Before
    <3>5. ASSUME NEW f \in 1 .. NFiles, NEW p \in Requests, Known(ResReg(f), p)
          PROVE  Known(ResReg(f)', p) /\ Recalled(ResReg(f)', p) = Recalled(ResReg(f), p)
      BY <2>1, <3>3, <3>5 DEF ResReg, Remembers
    <3>6. \A f : f = file => ResReg(f)' = work'
      BY <2>1 DEF ResReg
    <3>7. \A f, i, k : f = file /\ i = item /\ k = ask => ResolverPast(f, i, k)'
      BY <1>1, <2>1, <3>1 DEF ResolverPast, Before
    <3>8. ASSUME NEW f \in 1 .. NFiles, NEW i \in DOMAIN prog[f].items,
                 NEW k \in DOMAIN Asks(f, i), ResolverPast(f, i, k)'
          PROVE  Known(ResReg(f)', Asks(f, i)[k])
      <4>1. Asks(f, i)[k] \in Requests /\ i \in Nat /\ k \in Nat
        BY <1>1, <3>8, AsksTyped
      <4>2. CASE ResolverPast(f, i, k)
        BY <3>5, <4>1, <4>2 DEF ResolverInv
      <4>3. CASE ~ ResolverPast(f, i, k)
        <5>1. f = file /\ i = item /\ k = ask
          BY <1>1, <2>1, <3>1, <3>8, <4>1, <4>3 DEF ResolverPast, Before
        <5> QED
          BY <2>9, <3>3, <3>6, <5>1
      <4> QED
        BY <4>2, <4>3
    <3>9. ASSUME NEW x \in resolved'
          PROVE  /\ x.file \in 1 .. NFiles /\ x.item \in DOMAIN prog[x.file].items
                 /\ x.ask \in DOMAIN Asks(x.file, x.item)
                 /\ ResolverPast(x.file, x.item, x.ask)'
                 /\ x.answer = Recall(ResReg(x.file)', Asks(x.file, x.item)[x.ask])
      <4>1. CASE x \in resolved
        <5>1. /\ x.file \in 1 .. NFiles /\ x.item \in DOMAIN prog[x.file].items
              /\ x.ask \in DOMAIN Asks(x.file, x.item)
              /\ ResolverPast(x.file, x.item, x.ask)
              /\ x.answer = Recall(ResReg(x.file), Asks(x.file, x.item)[x.ask])
              /\ Known(ResReg(x.file), Asks(x.file, x.item)[x.ask])
          BY <4>1 DEF ResolverInv
        <5>2. Asks(x.file, x.item)[x.ask] \in Requests /\ x.item \in Nat /\ x.ask \in Nat
          BY <1>1, <5>1, AsksTyped
        <5> QED
          BY <3>4, <3>5, <5>1, <5>2 DEF Recall
      <4>2. CASE x = [file |-> file, item |-> item, ask |-> ask, answer |-> Answer(work, q)]
        <5>1. x.file = file /\ x.item = item /\ x.ask = ask /\ x.answer = Answer(work, q)
          BY <4>2
        <5>2. Answer(work, q) = Recall(work', q)
          BY <3>3 DEF Recall, Answer
        <5>3. ResReg(x.file)' = work' /\ ResolverPast(x.file, x.item, x.ask)'
          BY <2>1, <3>6, <3>7, <5>1
        <5> QED
          BY <2>1, <2>9, <3>2, <5>1, <5>2, <5>3
      <4> QED
        BY <3>1, <4>1, <4>2
    <3> QED
      BY <2>1, <2>3, <3>8, <3>9 DEF ResolverInv
  <2>5. CASE ~ (ask <= n)
    <3>1. work' = work /\ resolved' = resolved /\ item' = item + 1 /\ ask' = 1
      BY <2>5, <2>8
    <3>2. \A f : ResReg(f)' = ResReg(f)
      BY <2>1, <3>1 DEF ResReg
    <3>3. ASSUME NEW f \in 1 .. NFiles, NEW i \in DOMAIN prog[f].items, NEW k \in DOMAIN Asks(f, i)
          PROVE  ResolverPast(f, i, k)' <=> ResolverPast(f, i, k)
      <4>1. i \in Nat /\ k \in Nat \ {0} /\ k <= Len(Asks(f, i)) /\ Len(Asks(f, i)) \in Nat
        BY <1>1, AsksTyped
      <4> QED
        BY <1>1, <2>1, <2>2, <2>5, <2>9, <3>1, <4>1 DEF ResolverPast, Before
    <3> QED
      BY <2>1, <2>3, <3>1, <3>2, <3>3 DEF ResolverInv
  <2> QED
    BY <2>4, <2>5
<1>3. CASE FinishResolve
  <2>1. /\ phase = "resolve" /\ phase' = phase /\ prog' = prog /\ resSyn' = Append(resSyn, work)
        /\ NFiles' = NFiles /\ Len(resSyn) = file - 1 /\ file \in 1 .. NFiles
        /\ file' = file + 1 /\ item' = 1 /\ ask' = 1 /\ resolved' = resolved
        /\ item > Len(prog[file].items)
    BY <1>1, <1>3 DEF FinishResolve, AtEndOfFile, NextFile, NFiles, Control, FilesDone
  <2>2. \A f, i : Asks(f, i)' = Asks(f, i)
    BY <2>1 DEF Asks
  <2>3. /\ resSyn \in Seq(Registries) /\ work \in Registries
    BY <1>1, RegistriesAre DEF Control
  <2>4. /\ Len(resSyn') = file
        /\ \A f \in 1 .. (file - 1) : resSyn'[f] = resSyn[f]
        /\ resSyn'[file] = work
    BY <2>1, <2>3
  <2>5. ASSUME NEW f \in 1 .. NFiles, NEW i \in DOMAIN prog[f].items, NEW k \in DOMAIN Asks(f, i)
        PROVE  /\ ResolverPast(f, i, k)' <=> ResolverPast(f, i, k)
               /\ ResolverPast(f, i, k) => ResReg(f)' = ResReg(f)
    <3>1. /\ i \in Nat \ {0} /\ i <= Len(prog[f].items) /\ Len(prog[f].items) \in Nat
          /\ k \in Nat \ {0}
      BY <1>1, AsksTyped
    <3>2. ResolverPast(f, i, k)' <=> f <= file
      BY <2>1, <2>4, <3>1 DEF ResolverPast, Before
    <3>3. ResolverPast(f, i, k) <=> f <= file
      BY <1>1, <2>1, <3>1 DEF ResolverPast, Before
    <3>4. f <= file => ResReg(f)' = ResReg(f)
      BY <2>1, <2>4 DEF ResReg
    <3> QED
      BY <3>2, <3>3, <3>4
  <2> QED
    BY <2>1, <2>2, <2>5 DEF ResolverInv
<1>4. CASE NextPass /\ phase = "any"
  <2>1. /\ phase' = "resolve" /\ prog' = prog /\ resSyn' = resSyn /\ resolved' = resolved
        /\ Len(resSyn) = 0 /\ item' = 1 /\ ask' = 1 /\ NFiles' = NFiles
    BY <1>1, <1>4, AfterIs DEF NextPass, NFiles, Control, FilesDone
  <2>2. \A f, i : Asks(f, i)' = Asks(f, i)
    BY <2>1 DEF Asks
  <2>3. ASSUME NEW f \in 1 .. NFiles, NEW i \in DOMAIN prog[f].items, NEW k \in DOMAIN Asks(f, i)
        PROVE  ~ ResolverPast(f, i, k) /\ ~ ResolverPast(f, i, k)'
    <3>1. i \in Nat \ {0} /\ k \in Nat \ {0}
      BY <1>1, AsksTyped
    <3> QED
      BY <1>4, <2>1, <3>1 DEF ResolverPast, Before
  <2> QED
    BY <2>1, <2>2, <2>3 DEF ResolverInv
<1>5. CASE NextPass /\ phase = "resolve"
  <2>1. /\ phase' = "structs" /\ prog' = prog /\ resSyn' = resSyn /\ resolved' = resolved
        /\ Len(resSyn) = NFiles /\ NFiles' = NFiles
    BY <1>1, <1>5, AfterIs DEF NextPass, NFiles, Control, FilesDone
  <2>2. \A f, i : Asks(f, i)' = Asks(f, i)
    BY <2>1 DEF Asks
  <2>3. ASSUME NEW f \in 1 .. NFiles, NEW i, NEW k
        PROVE  ResolverPast(f, i, k) /\ ResolverPast(f, i, k)' /\ ResReg(f)' = ResReg(f)
    BY <1>1, <2>1 DEF ResolverPast, ResReg
  <2> QED
    BY <2>1, <2>2, <2>3 DEF ResolverInv
<1>6. ASSUME phase # "resolve", phase' # "resolve", prog' = prog, resSyn' = resSyn, resolved' = resolved
      PROVE  ResolverInv'
  <2>1. NFiles' = NFiles /\ \A f, i : Asks(f, i)' = Asks(f, i)
    BY <1>6 DEF NFiles, Asks
  <2>2. ASSUME NEW f, NEW i, NEW k
        PROVE  /\ ResolverPast(f, i, k)' <=> ResolverPast(f, i, k)
               /\ ResolverPast(f, i, k) => ResReg(f)' = ResReg(f)
    BY <1>6 DEF ResolverPast, ResReg
  <2> QED
    BY <1>6, <2>1, <2>2 DEF ResolverInv
<1>7. CASE NextPass /\ phase # "any" /\ phase # "resolve"
  <2>1. phase' # "resolve"
    BY <1>1, <1>7, AfterIs DEF NextPass, Control, Phases
  <2> QED
    BY <1>6, <1>7, <2>1 DEF NextPass
<1>8. CASE ParseFile \/ ParseFails \/ CollectAsk \/ CollectTypes \/ AnalyzeAny \/ FinishAny \/ RegisterStructs
  BY <1>6, <1>8 DEF ParseFile, ParseFails, CollectAsk, CollectTypes, AnalyzeAny, FinishAny, RegisterStructs
<1>9. CASE ConvertAsk \/ FinishItem \/ ItemFails \/ FinishTransform \/ ClaimExternals \/ TooManyIterations \/ Finish
  BY <1>6, <1>9 DEF ConvertAsk, FinishItem, ItemFails, FinishTransform, ClaimExternals, TooManyIterations, Finish
<1>10. CASE UNCHANGED vars
  <2>1. /\ prog' = prog /\ resSyn' = resSyn /\ resolved' = resolved /\ phase' = phase /\ file' = file
        /\ item' = item /\ ask' = ask /\ work' = work
    BY <1>10 DEF vars, cursor
  <2>2. /\ NFiles' = NFiles
        /\ \A f, i : Asks(f, i)' = Asks(f, i)
        /\ \A f : ResReg(f)' = ResReg(f)
        /\ \A f, i, k : ResolverPast(f, i, k)' <=> ResolverPast(f, i, k)
    BY <2>1 DEF NFiles, Asks, ResReg, ResolverPast, Before
  <2> QED
    BY <2>1, <2>2 DEF ResolverInv
<1> QED
  BY <1>2, <1>3, <1>4, <1>5, <1>7, <1>8, <1>9, <1>10 DEF Next

(* The resolver's registries start as forks of the builtin types' and stay *)
(* sound.                                                                  *)
ForksSound ==
    /\ phase = "resolve" => Sound(work)
    /\ \A i \in DOMAIN resSyn : Sound(resSyn[i])

(* A registration of any kind keeps a registry sound.                      *)
LEMMA RegisterSound ==
    ASSUME NEW r, Sound(r), NEW q \in Requests
    PROVE  Sound(Register(r, q))
<1>1. CASE q.kind = "union"
  BY <1>1, RequestTypes, UnionSound DEF Register
<1>2. CASE q.kind = "struct"
  BY <1>2, RequestTypes, StructSound DEF Register
<1>3. CASE q.kind = "intersection"
  BY <1>3, RequestTypes, EnumSound DEF Register
<1> QED
  BY <1>1, <1>2, <1>3, RequestTypes

(* Every step keeps the resolver's forks sound.                            *)
LEMMA ForksStep ==
    ASSUME TypeInv, ForksSound, [Next]_vars
    PROVE  ForksSound'
<1>1. /\ Control /\ prog \in Programs
  BY DEF TypeInv, Control
<1>2. phase \notin {"transform", "externals", "done", "panicked"} => Sound(Fork(synthetic))
  <2>1. Fork(BaseSyn) = RestoreScope(BaseSyn, {})
    BY DEF Fork, RestoreScope
  <2>2. {} \in SUBSET Texts
    OBVIOUS
  <2>3. Sound(Fork(BaseSyn))
    BY <2>1, <2>2, RestoreSound, PipelineAssumption
  <2> QED
    BY <1>1, <2>3 DEF Control
<1>3. CASE ResolveAsk
  <2>1. phase = "resolve" /\ resSyn' = resSyn
    BY <1>3 DEF ResolveAsk
  <2> DEFINE asks == ResolverAsks(Here)
  <2>2. CASE ask <= Len(asks)
    <3>1. asks[ask] \in Requests /\ work' = Register(work, asks[ask])
      BY <1>1, <1>3, <2>2, AskTyped DEF ResolveAsk
    <3> HIDE DEF asks
    <3>2. Sound(work')
      BY <2>1, <3>1, RegisterSound DEF ForksSound
    <3> QED
      BY <2>1, <3>2 DEF ForksSound
  <2>3. CASE ~ (ask <= Len(asks))
    <3>1. work' = work
      BY <1>3, <2>3 DEF ResolveAsk
    <3> QED
      BY <2>1, <3>1 DEF ForksSound
  <2> QED
    BY <2>2, <2>3
<1>4. CASE FinishResolve
  <2>1. /\ phase = "resolve" /\ phase' = phase /\ resSyn' = Append(resSyn, work)
        /\ work' = Fork(synthetic)
    BY <1>4 DEF FinishResolve, NextFile, Open
  <2>2. Sound(work') /\ Sound(work) /\ \A i \in DOMAIN resSyn : Sound(resSyn[i])
    BY <1>2, <2>1 DEF ForksSound
  <2>3. resSyn \in Seq(Registries) /\ work \in Registries
    BY RegistriesAre DEF TypeInv, Control, AllRegs, Good
  <2>4. \A i \in DOMAIN resSyn' : resSyn'[i] = work \/ (i \in DOMAIN resSyn /\ resSyn'[i] = resSyn[i])
    BY <2>1, <2>3
  <2> QED
    BY <2>2, <2>4 DEF ForksSound
<1>5. CASE NextPass
  <2>1. resSyn' = resSyn /\ work' = Open(phase', 1)
    BY <1>5 DEF NextPass
  <2>2. phase' = "resolve" => work' = Fork(synthetic) /\ phase = "any"
    BY <1>1, <1>5, <2>1, AfterIs DEF NextPass, Open, Control, Phases
  <2> QED
    BY <1>2, <2>1, <2>2 DEF ForksSound
<1>6. ASSUME resSyn' = resSyn, phase' # "resolve" \/ (phase' = phase /\ work' = work)
      PROVE  ForksSound'
  BY <1>6 DEF ForksSound
<1>7. CASE ParseFile \/ ParseFails \/ CollectAsk \/ CollectTypes \/ AnalyzeAny \/ FinishAny \/ RegisterStructs
  BY <1>6, <1>7 DEF ParseFile, ParseFails, CollectAsk, CollectTypes, AnalyzeAny, FinishAny, RegisterStructs
<1>8. CASE ConvertAsk \/ FinishItem \/ ItemFails \/ FinishTransform \/ ClaimExternals \/ TooManyIterations \/ Finish
  BY <1>6, <1>8 DEF ConvertAsk, FinishItem, ItemFails, FinishTransform, ClaimExternals, TooManyIterations, Finish
<1>9. CASE UNCHANGED vars
  BY <1>6, <1>9 DEF vars
<1> QED
  BY <1>3, <1>4, <1>5, <1>7, <1>8, <1>9 DEF Next

(* Nothing has been asked when the pipeline starts.                        *)
LEMMA ResolverInit ==
    ASSUME Init
    PROVE  ResolverInv /\ ForksSound
<1>1. /\ prog \in Programs /\ resSyn = <<>> /\ Len(resSyn) = 0 /\ DOMAIN resSyn = {}
      /\ phase = "parse" /\ resolved = {} /\ NFiles \in Nat
  BY FileTyped DEF Init
<1>2. \A f \in 1 .. NFiles : ~ (f <= Len(resSyn))
  BY <1>1
<1> QED
  BY <1>1, <1>2 DEF ResolverInv, ResolverPast, ForksSound

(* What the resolver was told about the type literals and intersections of *)
(* a file stays true in the file's registry: ResolverAnswersStand.         *)
LEMMA ResolverAnswers ==
    ASSUME TypeInv, ResolverInv, ForksSound
    PROVE  ResolverAnswersStand
<1>1. SUFFICES ASSUME NEW x \in resolved, x.answer.kind \in {"struct", "intersection"}
               PROVE  /\ x.answer.name \in DOMAIN ResReg(x.file).types
                      /\ ResReg(x.file).types[x.answer.name].body = x.answer.asked
  BY DEF ResolverAnswersStand, ResReg
<1> DEFINE r == ResReg(x.file)
           q == Asks(x.file, x.item)[x.ask]
<1>2. /\ x.file \in 1 .. NFiles /\ x.item \in DOMAIN prog[x.file].items
      /\ x.ask \in DOMAIN Asks(x.file, x.item)
      /\ ResolverPast(x.file, x.item, x.ask)
      /\ x.answer = Recall(r, q) /\ Known(r, q)
  BY DEF ResolverInv
<1>3. prog \in Programs /\ NFiles \in Nat /\ resSyn \in Seq(Registries)
  BY FileTyped DEF TypeInv, Control
<1>4. q \in Requests
  BY <1>2, <1>3, AsksTyped
<1>5. Sound(r)
  <2>1. CASE x.file <= Len(resSyn)
    BY <1>2, <1>3, <2>1 DEF ForksSound, ResReg
  <2>2. CASE ~ (x.file <= Len(resSyn))
    BY <1>2, <2>2 DEF ForksSound, ResReg, ResolverPast
  <2> QED
    BY <2>1, <2>2
<1> HIDE DEF r, q
<1>6. /\ x.answer.kind = q.kind /\ x.answer.asked = Asked(q) /\ x.answer.name = Recalled(r, q)
  BY <1>2 DEF Recall
<1>7. CASE q.kind = "struct"
  <2>1. PartsOf(q) \in DOMAIN r.structDedup /\ Recalled(r, q) = r.structDedup[PartsOf(q)]
        /\ Asked(q) = PartsOf(q)
    BY <1>2, <1>7 DEF Known, Recalled, Asked
  <2> QED
    BY <1>5, <1>6, <2>1 DEF Sound, Recorded, r
<1>8. CASE q.kind = "intersection"
  <2>1. PartsOf(q) \in DOMAIN r.enumDedup /\ Recalled(r, q) = r.enumDedup[PartsOf(q)]
        /\ Asked(q) = PartsOf(q)
    BY <1>2, <1>8 DEF Known, Recalled, Asked
  <2> QED
    BY <1>5, <1>6, <2>1 DEF Sound, Recorded, r
<1> QED
  BY <1>1, <1>6, <1>7, <1>8

(* What the resolver asked for and the registries it asked are as the      *)
(* cursor says, in every reachable state.                                  *)
THEOREM ResolverHolds == Spec => [](ResolverInv /\ ForksSound)
<1>1. TypeInv /\ (ResolverInv /\ ForksSound) /\ [Next]_vars => (ResolverInv /\ ForksSound)'
  BY ResolverStep, ForksStep
<1>2. Spec => []TypeInv
  BY TypesHold
<1> QED
  BY ResolverInit, <1>1, <1>2, PTL DEF Spec

(* No later file or pass changes what a file's resolver was told.          *)
THEOREM ResolverAnswersHold == Spec => []ResolverAnswersStand
BY ResolverAnswers, ResolverHolds, TypesHold, PTL

-----------------------------------------------------------------------------
(* The names of the any parameters the analysis is past are in the file's  *)
(* registry.                                                               *)
AnyReg(f) == IF f <= Len(anySyn) THEN anySyn[f] ELSE work

AnyPast(f, i, k) ==
    f <= Len(anySyn) \/ (phase = "any" /\ f = file /\ Before(i, k))

AnyInv ==
    \A f \in 1 .. NFiles : \A i \in DOMAIN prog[f].items :
       \A k \in DOMAIN prog[f].items[i].anys :
          AnyPast(f, i, k) => PlainName(prog[f].items[i].anys[k].text) \in DOMAIN AnyReg(f).types

(* Items are numbered from one, and so are their any parameters.           *)
LEMMA AnysTyped ==
    ASSUME prog \in Programs, NEW f \in 1 .. NFiles
    PROVE  /\ Len(prog[f].items) \in Nat /\ DOMAIN prog[f].items = 1 .. Len(prog[f].items)
           /\ \A i \in DOMAIN prog[f].items :
                 /\ Len(prog[f].items[i].anys) \in Nat
                 /\ DOMAIN prog[f].items[i].anys = 1 .. Len(prog[f].items[i].anys)
<1>1. prog[f].items \in Seq(Items) /\ f \in DOMAIN prog
  BY FileTyped
<1>2. ASSUME NEW i \in DOMAIN prog[f].items
      PROVE  /\ Len(prog[f].items[i].anys) \in Nat
             /\ DOMAIN prog[f].items[i].anys = 1 .. Len(prog[f].items[i].anys)
  <2> DEFINE A == [text : Texts, variants : Bodies]
  <2>1. prog[f].items[i] \in Items
    BY <1>1, <1>2
  <2>2. prog[f].items[i].anys \in Seq(A)
    BY <2>1 DEF Items
  <2> HIDE DEF A
  <2> QED
    BY <2>2
<1> QED
  BY <1>1, <1>2

(* What is absent is written under its name, and nothing is dropped.       *)
LEMMA AnyNames ==
    ASSUME NEW r, IsRegistry(r), NEW n, NEW k, NEW b
    PROVE  /\ n \in DOMAIN PushIfAbsent(r, n, k, b).types
           /\ DOMAIN r.types \subseteq DOMAIN PushIfAbsent(r, n, k, b).types
<1>1. CASE n \in DOMAIN r.types
  BY <1>1 DEF PushIfAbsent
<1>2. CASE n \notin DOMAIN r.types
  <2> DEFINE t == Put(r.types, n, Def(k, b))
  <2>1. \A x : x \in DOMAIN t <=> x \in DOMAIN r.types \/ x = n
    BY PutAt
  <2>2. PushIfAbsent(r, n, k, b) = [r EXCEPT !.types = t]
    BY <1>2 DEF PushIfAbsent, PushItem
  <2> HIDE DEF t
  <2>3. PushIfAbsent(r, n, k, b).types = t
    BY <2>2 DEF IsRegistry
  <2> QED
    BY <2>1, <2>3
<1> QED
  BY <1>1, <1>2

(* Every step keeps the any-enums of the files that were analyzed in their *)
(* registries.                                                             *)
LEMMA AnyStep ==
    ASSUME TypeInv, AnyInv, [Next]_vars
    PROVE  AnyInv'
<1>1. /\ Control /\ NFiles \in Nat /\ file \in 1 .. (NFiles + 1)
      /\ prog \in Programs /\ item \in Nat \ {0} /\ ask \in Nat \ {0}
      /\ IsRegistry(work)
  BY FileTyped DEF TypeInv, Control, AllRegs, Good
<1>2. CASE AnalyzeAny
  <2>1. /\ phase = "any" /\ phase' = phase /\ prog' = prog /\ anySyn' = anySyn /\ file' = file
        /\ NFiles' = NFiles /\ InItem /\ Len(anySyn) = file - 1 /\ file \in 1 .. NFiles
        /\ item \in DOMAIN prog[file].items
    BY <1>1, <1>2, HereTyped DEF AnalyzeAny, NextAsk, NextItem, NFiles, Control, FilesDone
  <2> DEFINE n == Len(Here.anys)
             a == Here.anys[ask]
  <2>2. ASSUME ask <= n
        PROVE  /\ work' = PushIfAbsent(work, PlainName(a.text), "AnyEnum", a.variants)
               /\ ask' = ask + 1 /\ item' = item
    BY <1>2, <2>2 DEF AnalyzeAny, NextAsk
  <2>3. ASSUME ~ (ask <= n)
        PROVE  work' = work /\ item' = item + 1 /\ ask' = 1
    BY <1>2, <2>3 DEF AnalyzeAny, NextItem
  <2>4. n = Len(prog[file].items[item].anys) /\ a = prog[file].items[item].anys[ask] /\ n \in Nat
    BY <1>1, <2>1, AnysTyped DEF Here
  <2> HIDE DEF n, a
  <2>5. CASE ask <= n
    <3>1. /\ PlainName(a.text) \in DOMAIN work'.types
          /\ DOMAIN work.types \subseteq DOMAIN work'.types
      BY <1>1, <2>2, <2>5, AnyNames
    <3>2. SUFFICES ASSUME NEW f \in 1 .. NFiles, NEW i \in DOMAIN prog[f].items,
                          NEW k \in DOMAIN prog[f].items[i].anys, AnyPast(f, i, k)'
                   PROVE  PlainName(prog[f].items[i].anys[k].text) \in DOMAIN AnyReg(f)'.types
      BY <2>1 DEF AnyInv
    <3>3. i \in Nat /\ k \in Nat
      BY <1>1, AnysTyped
    <3>4. DOMAIN AnyReg(f).types \subseteq DOMAIN AnyReg(f)'.types
      BY <2>1, <3>1 DEF AnyReg
    <3>5. CASE AnyPast(f, i, k)
      BY <3>4, <3>5 DEF AnyInv
    <3>6. CASE ~ AnyPast(f, i, k)
      <4>1. f = file /\ i = item /\ k = ask
        BY <1>1, <2>1, <2>2, <2>5, <3>2, <3>3, <3>6 DEF AnyPast, Before
      <4>2. AnyReg(f)' = work'
        BY <2>1, <4>1 DEF AnyReg
      <4> QED
        BY <2>4, <3>1, <4>1, <4>2
    <3> QED
      BY <3>5, <3>6
  <2>6. CASE ~ (ask <= n)
    <3>1. \A f : AnyReg(f)' = AnyReg(f)
      BY <2>1, <2>3, <2>6 DEF AnyReg
    <3>2. ASSUME NEW f \in 1 .. NFiles, NEW i \in DOMAIN prog[f].items,
                 NEW k \in DOMAIN prog[f].items[i].anys
          PROVE  AnyPast(f, i, k)' <=> AnyPast(f, i, k)
      <4>1. /\ i \in Nat /\ k \in Nat \ {0} /\ Len(prog[f].items[i].anys) \in Nat
            /\ k <= Len(prog[f].items[i].anys)
        BY <1>1, AnysTyped
      <4> QED
        BY <1>1, <2>1, <2>3, <2>4, <2>6, <4>1 DEF AnyPast, Before
    <3> QED
      BY <2>1, <3>1, <3>2 DEF AnyInv
  <2> QED
    BY <2>5, <2>6
<1>3. CASE FinishAny
  <2>1. /\ phase = "any" /\ phase' = phase /\ prog' = prog /\ anySyn' = Append(anySyn, work)
        /\ NFiles' = NFiles /\ Len(anySyn) = file - 1 /\ file \in 1 .. NFiles
        /\ file' = file + 1 /\ item' = 1 /\ ask' = 1
        /\ item > Len(prog[file].items)
    BY <1>1, <1>3 DEF FinishAny, AtEndOfFile, NextFile, NFiles, Control, FilesDone
  <2>2. /\ anySyn \in Seq(Registries) /\ work \in Registries
    BY <1>1, RegistriesAre DEF Control
  <2>3. /\ Len(anySyn') = file
        /\ \A f \in 1 .. (file - 1) : anySyn'[f] = anySyn[f]
        /\ anySyn'[file] = work
    BY <2>1, <2>2
  <2>4. ASSUME NEW f \in 1 .. NFiles, NEW i \in DOMAIN prog[f].items,
               NEW k \in DOMAIN prog[f].items[i].anys
        PROVE  /\ AnyPast(f, i, k)' <=> AnyPast(f, i, k)
               /\ AnyPast(f, i, k) => AnyReg(f)' = AnyReg(f)
    <3>1. /\ i \in Nat \ {0} /\ i <= Len(prog[f].items) /\ Len(prog[f].items) \in Nat
          /\ k \in Nat \ {0}
      BY <1>1, AnysTyped
    <3>2. AnyPast(f, i, k)' <=> f <= file
      BY <2>1, <2>3, <3>1 DEF AnyPast, Before
    <3>3. AnyPast(f, i, k) <=> f <= file
      BY <1>1, <2>1, <3>1 DEF AnyPast, Before
    <3>4. f <= file => AnyReg(f)' = AnyReg(f)
      BY <2>1, <2>3 DEF AnyReg
    <3> QED
      BY <3>2, <3>3, <3>4
  <2> QED
    BY <2>1, <2>4 DEF AnyInv
<1>4. CASE NextPass /\ phase = "collect"
  <2>1. /\ phase' = "any" /\ prog' = prog /\ anySyn' = anySyn
        /\ Len(anySyn) = 0 /\ item' = 1 /\ ask' = 1 /\ NFiles' = NFiles
    BY <1>1, <1>4, AfterIs DEF NextPass, NFiles, Control, FilesDone
  <2>2. ASSUME NEW f \in 1 .. NFiles, NEW i \in DOMAIN prog[f].items,
               NEW k \in DOMAIN prog[f].items[i].anys
        PROVE  ~ AnyPast(f, i, k)'
    <3>1. i \in Nat \ {0} /\ k \in Nat \ {0}
      BY <1>1, AnysTyped
    <3> QED
      BY <2>1, <3>1 DEF AnyPast, Before
  <2> QED
    BY <2>1, <2>2 DEF AnyInv
<1>5. CASE NextPass /\ phase = "any"
  <2>1. /\ phase' = "resolve" /\ prog' = prog /\ anySyn' = anySyn
        /\ Len(anySyn) = NFiles /\ NFiles' = NFiles
    BY <1>1, <1>5, AfterIs DEF NextPass, NFiles, Control, FilesDone
  <2>2. ASSUME NEW f \in 1 .. NFiles, NEW i, NEW k
        PROVE  AnyPast(f, i, k) /\ AnyPast(f, i, k)' /\ AnyReg(f)' = AnyReg(f)
    BY <1>1, <2>1 DEF AnyPast, AnyReg
  <2> QED
    BY <2>1, <2>2 DEF AnyInv
<1>6. ASSUME phase # "any", phase' # "any", prog' = prog, anySyn' = anySyn
      PROVE  AnyInv'
  <2>1. NFiles' = NFiles
    BY <1>6 DEF NFiles
  <2>2. ASSUME NEW f, NEW i, NEW k
        PROVE  /\ AnyPast(f, i, k)' <=> AnyPast(f, i, k)
               /\ AnyPast(f, i, k) => AnyReg(f)' = AnyReg(f)
    BY <1>6 DEF AnyPast, AnyReg
  <2> QED
    BY <1>6, <2>1, <2>2 DEF AnyInv
<1>7. CASE NextPass /\ phase # "any" /\ phase # "collect"
  <2>1. phase' # "any"
    BY <1>1, <1>7, AfterIs DEF NextPass, Control, Phases
  <2> QED
    BY <1>6, <1>7, <2>1 DEF NextPass
<1>8. CASE ParseFile \/ ParseFails \/ CollectAsk \/ CollectTypes \/ ResolveAsk \/ FinishResolve \/ RegisterStructs
  BY <1>6, <1>8 DEF ParseFile, ParseFails, CollectAsk, CollectTypes, ResolveAsk, FinishResolve, RegisterStructs
<1>9. CASE ConvertAsk \/ FinishItem \/ ItemFails \/ FinishTransform \/ ClaimExternals \/ TooManyIterations \/ Finish
  BY <1>6, <1>9 DEF ConvertAsk, FinishItem, ItemFails, FinishTransform, ClaimExternals, TooManyIterations, Finish
<1>10. CASE UNCHANGED vars
  <2>1. /\ prog' = prog /\ anySyn' = anySyn /\ phase' = phase /\ file' = file
        /\ item' = item /\ ask' = ask /\ work' = work
    BY <1>10 DEF vars, cursor
  <2>2. /\ NFiles' = NFiles
        /\ \A f : AnyReg(f)' = AnyReg(f)
        /\ \A f, i, k : AnyPast(f, i, k)' <=> AnyPast(f, i, k)
    BY <2>1 DEF NFiles, AnyReg, AnyPast, Before
  <2> QED
    BY <2>1, <2>2 DEF AnyInv
<1> QED
  BY <1>2, <1>3, <1>4, <1>5, <1>7, <1>8, <1>9, <1>10 DEF Next

-----------------------------------------------------------------------------
(* A merge has the names of both registries and knows what either knew.    *)
LEMMA MergeHas ==
    ASSUME NEW r, NEW s, IsRegistry(r), IsRegistry(s)
    PROVE  /\ DOMAIN r.types \subseteq DOMAIN Merge(r, s).types
           /\ DOMAIN s.types \subseteq DOMAIN Merge(r, s).types
           /\ \A q \in Requests : Known(r, q) \/ Known(s, q) => Known(Merge(r, s), q)
<1> DEFINE m == Merge(r, s)
<1>1. /\ m.types = Overlay(r.types, s.types)
      /\ m.unionDedup = Overlay(r.unionDedup, s.unionDedup)
      /\ m.structDedup = Overlay(r.structDedup, s.structDedup)
      /\ m.enumDedup = Overlay(r.enumDedup, s.enumDedup)
  BY MergeShape
<1> HIDE DEF m
<1>2. ASSUME NEW q \in Requests, Known(r, q) \/ Known(s, q)
      PROVE  Known(m, q)
  <2>1. CASE q.kind = "union"
    BY <1>1, <1>2, <2>1, OverlayAt DEF Known
  <2>2. CASE q.kind = "struct"
    BY <1>1, <1>2, <2>2, OverlayAt DEF Known
  <2>3. CASE q.kind = "intersection"
    BY <1>1, <1>2, <2>3, OverlayAt DEF Known
  <2> QED
    BY <2>1, <2>2, <2>3, RequestTypes
<1>3. DOMAIN r.types \subseteq DOMAIN m.types /\ DOMAIN s.types \subseteq DOMAIN m.types
  BY <1>1, OverlayAt
<1> QED
  BY <1>2, <1>3 DEF m

(* The transformer's registry of a file has what the earlier passes found  *)
(* in that file; what an item was answered is in the registry it asked;    *)
(* what emitted items name is in the output, or will be when the file is   *)
(* merged into it.                                                         *)
FileMerged ==
    phase = "transform" /\ file <= NFiles =>
        /\ DOMAIN anySyn[file].types \subseteq DOMAIN work.types
        /\ DOMAIN resSyn[file].types \subseteq DOMAIN work.types
        /\ \A q \in Requests : Known(resSyn[file], q) => Known(work, q)

PendingNamed ==
    \A h \in pending : h.name \in DOMAIN (IF Here.fn THEN local ELSE work).types

HandedNamed ==
    \A h \in handed : \/ h.name \in DOMAIN synthetic.types
                      \/ phase = "transform" /\ file <= NFiles /\ h.name \in DOMAIN work.types

NamedInv == FileMerged /\ PendingNamed /\ HandedNamed

(* The transformer opens a file's registry with all that is known of it.   *)
LEMMA FileOpened ==
    ASSUME TypeInv, Len(anySyn) = NFiles, Len(resSyn) = NFiles,
           NEW f \in 1 .. NFiles
    PROVE  /\ DOMAIN anySyn[f].types \subseteq DOMAIN Open("transform", f).types
           /\ DOMAIN resSyn[f].types \subseteq DOMAIN Open("transform", f).types
           /\ \A q \in Requests : Known(resSyn[f], q) => Known(Open("transform", f), q)
<1>1. NFiles \in Nat /\ f <= NFiles /\ f \in DOMAIN anySyn /\ f \in DOMAIN resSyn
  BY FileTyped DEF TypeInv, Control
<1>2. IsRegistry(anySyn[f]) /\ IsRegistry(resSyn[f])
  BY <1>1 DEF TypeInv, AllRegs, Range, Good
<1>3. Open("transform", f) = Merge(anySyn[f], resSyn[f])
  BY <1>1 DEF Open
<1> QED
  BY <1>2, <1>3, MergeHas

(* Every step keeps a definition for every name handed out: in the         *)
(* registry it was asked of, and in the global one once the file is        *)
(* merged.                                                                 *)
LEMMA NamedStep ==
    ASSUME TypeInv, ResolverInv, AnyInv, NamedInv, [Next]_vars
    PROVE  NamedInv'
<1>1. /\ Control /\ NFiles \in Nat /\ file \in 1 .. (NFiles + 1) /\ prog \in Programs
      /\ Good(synthetic) /\ Good(work) /\ Good(local)
      /\ IsRegistry(synthetic) /\ IsRegistry(work) /\ IsRegistry(local)
      /\ \A f \in DOMAIN anySyn : Good(anySyn[f])
      /\ \A f \in DOMAIN resSyn : Good(resSyn[f])
  BY FileTyped DEF TypeInv, Control, AllRegs, Good, Range
<1>2. CASE NextPass
  <2>1. /\ file = NFiles + 1 /\ pending = {} /\ pending' = {} /\ handed' = handed
        /\ synthetic' = synthetic /\ NFiles' = NFiles /\ anySyn' = anySyn /\ resSyn' = resSyn
        /\ file' = 1 /\ work' = Open(phase', 1)
    BY <1>1, <1>2 DEF NextPass, Control, InItem, NFiles
  <2>2. FileMerged'
    <3>1. SUFFICES ASSUME phase' = "transform", 1 <= NFiles PROVE FileMerged'
      BY <2>1 DEF FileMerged
    <3>2. phase = "structs"
      BY <1>1, <1>2, <3>1, AfterIs DEF NextPass, Control, Phases
    <3>3. Len(anySyn) = NFiles /\ Len(resSyn) = NFiles /\ 1 \in 1 .. NFiles
      BY <1>1, <3>1, <3>2 DEF Control, FilesDone
    <3> QED
      BY <2>1, <3>1, <3>3, FileOpened DEF FileMerged
  <2>3. PendingNamed'
    BY <2>1 DEF PendingNamed
  <2>4. HandedNamed'
    BY <1>1, <2>1 DEF NamedInv, HandedNamed
  <2> QED
    BY <2>2, <2>3, <2>4 DEF NamedInv
<1>3. CASE ConvertAsk
  <2>1. /\ phase = "transform" /\ phase' = phase /\ file' = file /\ NFiles' = NFiles /\ Here' = Here
        /\ anySyn' = anySyn /\ resSyn' = resSyn /\ synthetic' = synthetic /\ handed' = handed
    BY <1>3 DEF ConvertAsk, NextAsk, NFiles, Here
  <2> DEFINE q == Here.sig[ask]
  <2>2. q \in Requests
    BY <1>1, <1>3, AskTyped DEF ConvertAsk
  <2>3. CASE Here.fn
    <3>1. /\ local' = Register(local, q) /\ work' = work
          /\ pending' = pending \cup {Answer(local, q)}
      BY <1>3, <2>3 DEF ConvertAsk
    <3> HIDE DEF q
    <3>2. /\ DOMAIN local.types \subseteq DOMAIN local'.types
          /\ NameFor(local, q) \in DOMAIN local'.types
      BY <1>1, <2>2, <3>1, RegisterRemembers, RegisterNamed DEF Good
    <3>3. PendingNamed'
      BY <2>1, <2>3, <3>1, <3>2 DEF NamedInv, PendingNamed, Answer
    <3> QED
      BY <2>1, <3>1, <3>3 DEF NamedInv, FileMerged, HandedNamed
  <2>4. CASE ~ Here.fn
    <3>1. /\ work' = Register(work, q) /\ local' = local
          /\ pending' = pending \cup {Answer(work, q)}
      BY <1>3, <2>4 DEF ConvertAsk
    <3> HIDE DEF q
    <3>2. /\ DOMAIN work.types \subseteq DOMAIN work'.types
          /\ NameFor(work, q) \in DOMAIN work'.types
          /\ \A p \in Requests : Known(work, p) => Known(work', p)
      BY <1>1, <2>2, <3>1, RegisterRemembers, RegisterNamed DEF Good, Remembers
    <3>3. PendingNamed'
      BY <2>1, <2>4, <3>1, <3>2 DEF NamedInv, PendingNamed, Answer
    <3> QED
      BY <2>1, <3>2, <3>3 DEF NamedInv, FileMerged, HandedNamed
  <2> QED
    BY <2>3, <2>4
<1>4. CASE FinishItem
  <2>1. /\ phase = "transform" /\ phase' = phase /\ file' = file /\ NFiles' = NFiles
        /\ file \in 1 .. NFiles /\ InItem
        /\ anySyn' = anySyn /\ resSyn' = resSyn /\ synthetic' = synthetic
        /\ work' = IF Here.fn THEN Merge(work, local) ELSE work
        /\ handed' = handed \cup pending \cup FromResolver
        /\ pending' = {}
    BY <1>1, <1>4 DEF FinishItem, NextItem, NFiles, InItem
  <2>2. Len(anySyn) = NFiles /\ Len(resSyn) = NFiles
    BY <1>1, <2>1 DEF Control, FilesDone
  <2>3. /\ DOMAIN work.types \subseteq DOMAIN work'.types
        /\ Here.fn => DOMAIN local.types \subseteq DOMAIN work'.types
        /\ ~ Here.fn => work' = work
        /\ \A q \in Requests : Known(work, q) => Known(work', q)
    BY <1>1, <2>1, MergeHas
  <2>4. \A h \in pending : h.name \in DOMAIN work'.types
    BY <2>3 DEF NamedInv, PendingNamed
  <2>5. ASSUME NEW x \in resolved, x.file = file
        PROVE  x.answer.name \in DOMAIN work'.types
    <3> DEFINE r == resSyn[file]
               q == Asks(x.file, x.item)[x.ask]
    <3>1. ResReg(x.file) = r /\ Good(r)
      BY <1>1, <2>1, <2>2, <2>5 DEF ResReg, Control
    <3>2. /\ x.file \in 1 .. NFiles /\ x.item \in DOMAIN prog[x.file].items
          /\ x.ask \in DOMAIN Asks(x.file, x.item)
          /\ x.answer = Recall(r, q) /\ Known(r, q)
      BY <3>1 DEF ResolverInv
    <3>3. q \in Requests
      BY <1>1, <3>2, AsksTyped
    <3>4. DOMAIN r.types \subseteq DOMAIN work'.types
      BY <2>1, <2>3 DEF NamedInv, FileMerged
    <3> HIDE DEF r, q
    <3>5. Recalled(r, q) \in DOMAIN r.types
      BY <3>1, <3>2, <3>3, RequestTypes DEF Known, Recalled, Good, Named
    <3> QED
      BY <3>2, <3>4, <3>5 DEF Recall
  <2>6. ASSUME NEW k \in DOMAIN Here.anys
        PROVE  PlainName(Here.anys[k].text) \in DOMAIN work'.types
    <3>1. item \in DOMAIN prog[file].items /\ Here = prog[file].items[item]
      BY <1>1, <2>1, HereTyped DEF Here
    <3>2. AnyPast(file, item, k) /\ AnyReg(file) = anySyn[file]
      BY <2>1, <2>2 DEF AnyPast, AnyReg
    <3>3. PlainName(Here.anys[k].text) \in DOMAIN anySyn[file].types
      BY <2>1, <2>6, <3>1, <3>2 DEF AnyInv
    <3> QED
      BY <2>1, <2>3, <3>3 DEF NamedInv, FileMerged
  <2>7. \A h \in FromResolver : h.name \in DOMAIN work'.types
    BY <2>5, <2>6 DEF FromResolver, AnyAnswer
  <2>8. HandedNamed'
    BY <1>1, <2>1, <2>3, <2>4, <2>7 DEF NamedInv, HandedNamed
  <2>9. FileMerged'
    BY <2>1, <2>3 DEF NamedInv, FileMerged
  <2> QED
    BY <2>1, <2>8, <2>9 DEF NamedInv, PendingNamed
<1>5. CASE ItemFails
  BY <1>5 DEF ItemFails, NextItem, NFiles, NamedInv, FileMerged, PendingNamed, HandedNamed
<1>6. CASE FinishTransform
  <2>1. /\ phase = "transform" /\ phase' = phase /\ file' = file + 1 /\ NFiles' = NFiles
        /\ file \in 1 .. NFiles /\ pending' = {} /\ handed' = handed
        /\ anySyn' = anySyn /\ resSyn' = resSyn /\ synthetic' = Merge(synthetic, work)
        /\ work' = Open("transform", file')
    BY <1>1, <1>6 DEF FinishTransform, AtEndOfFile, NextFile, NFiles, InItem, Control
  <2>2. HandedNamed'
    BY <1>1, <2>1, MergeHas DEF NamedInv, HandedNamed
  <2>3. FileMerged'
    <3>1. Len(anySyn) = NFiles /\ Len(resSyn) = NFiles
      BY <1>1, <2>1 DEF Control, FilesDone
    <3>2. file' <= NFiles => file' \in 1 .. NFiles
      BY <1>1, <2>1
    <3> QED
      BY <2>1, <3>1, <3>2, FileOpened DEF FileMerged
  <2> QED
    BY <2>1, <2>2, <2>3 DEF NamedInv, PendingNamed
<1>7. CASE ClaimExternals
  <2>1. /\ phase = "externals" /\ phase' = phase /\ pending' = pending /\ handed' = handed
        /\ synthetic'.types = Overlay(synthetic.types, Claims)
    BY <1>1, <1>7 DEF ClaimExternals, IsRegistry
  <2>2. DOMAIN synthetic.types \subseteq DOMAIN synthetic'.types
    BY <2>1, OverlayAt
  <2>3. pending = {}
    BY <1>1, <2>1 DEF Control
  <2> QED
    BY <2>1, <2>2, <2>3 DEF NamedInv, FileMerged, PendingNamed, HandedNamed
<1>8. CASE TooManyIterations \/ Finish
  <2>1. /\ phase = "externals" /\ phase' # "transform" /\ pending' = pending /\ handed' = handed
        /\ synthetic' = synthetic
    BY <1>8 DEF TooManyIterations, Finish
  <2>2. pending = {}
    BY <1>1, <2>1 DEF Control
  <2> QED
    BY <2>1, <2>2 DEF NamedInv, FileMerged, PendingNamed, HandedNamed
<1>9. ASSUME phase \notin {"transform", "externals", "done", "panicked"}, phase' # "transform",
             pending' = pending, handed' = handed
      PROVE  NamedInv'
  <2>1. pending = {} /\ handed = {}
    BY <1>1, <1>9 DEF Control
  <2> QED
    BY <1>9, <2>1 DEF NamedInv, FileMerged, PendingNamed, HandedNamed
<1>10. CASE ParseFile \/ ParseFails \/ CollectAsk \/ CollectTypes \/ AnalyzeAny \/ FinishAny
  BY <1>9, <1>10 DEF ParseFile, ParseFails, CollectAsk, CollectTypes, AnalyzeAny, FinishAny
<1>11. CASE ResolveAsk \/ FinishResolve \/ RegisterStructs
  BY <1>9, <1>11 DEF ResolveAsk, FinishResolve, RegisterStructs
<1>12. CASE UNCHANGED vars
  BY <1>12 DEF vars, cursor, NFiles, Here, NamedInv, FileMerged, PendingNamed, HandedNamed
<1> QED
  BY <1>2, <1>3, <1>4, <1>5, <1>6, <1>7, <1>8, <1>10, <1>11, <1>12 DEF Next

(* Each name an emitted item was given for its own types, by the any-enum  *)
(* analysis, the resolver, its file's registry or its own, is defined in   *)
(* the output.                                                             *)
THEOREM NamesHold == Spec => [](AnyInv /\ NamedInv)
<1>1. Init => AnyInv /\ NamedInv
  <2>1. ASSUME Init PROVE AnyInv /\ NamedInv
    <3>1. /\ prog \in Programs /\ anySyn = <<>> /\ Len(anySyn) = 0 /\ NFiles \in Nat
          /\ phase = "parse" /\ pending = {} /\ handed = {}
      BY <2>1, FileTyped DEF Init
    <3>2. \A f \in 1 .. NFiles : ~ (f <= Len(anySyn))
      BY <3>1
    <3> QED
      BY <3>1, <3>2 DEF AnyInv, AnyPast, NamedInv, FileMerged, PendingNamed, HandedNamed
  <2> QED
    BY <2>1
<1>2. TypeInv /\ (ResolverInv /\ ForksSound) /\ (AnyInv /\ NamedInv) /\ [Next]_vars
         => (AnyInv /\ NamedInv)'
  BY AnyStep, NamedStep
<1> QED
  BY <1>1, <1>2, TypesHold, ResolverHolds, PTL DEF Spec

(* EveryNameDefined, for every program: no name that an emitted item was   *)
(* given for its own types is without an item in the end.  The names the   *)
(* collection of declared types gives are CollectedUnionsHold's.           *)
THEOREM EveryNameHolds == Spec => []EveryNameDefined
<1>1. NamedInv => EveryNameDefined
  BY DEF NamedInv, HandedNamed, EveryNameDefined
<1> QED
  BY <1>1, NamesHold, PTL

-----------------------------------------------------------------------------
(* In files whose union names are apart, every registry has under such a   *)
(* name an enum with that union's variants, whichever members it was       *)
(* registered with.                                                        *)
UnionsOk(r) ==
    \A ms \in UnionLists : FreshUnionName(ms) \in DOMAIN r.types =>
        VariantsOf(r.types[FreshUnionName(ms)].body) = VariantsOf(DedupMembers(ms))

(* A union was answered with the name its variants make.                   *)
UnionAnswer(h) ==
    h.kind = "union" =>
        \E ms \in UnionLists : h.name = FreshUnionName(ms) /\ h.asked = DedupMembers(ms)

UnionInv ==
    /\ UnionsApart => \A r \in AllRegs : UnionsOk(r)
    /\ \A h \in pending \cup handed : UnionAnswer(h)
    /\ \A x \in resolved : UnionAnswer(x.answer)

(* The unions of the program list parts.                                   *)
LEMMA UnionListsTyped ==
    ASSUME prog \in Programs
    PROVE  /\ \A ms \in UnionLists : ms \in Seq(Parts)
           /\ \A q \in AllRequests : q.kind = "union" => q.parts \in UnionLists
BY ProgramTyped, RequestTypes DEF UnionLists

(* What is answered to a union of the program is its fresh name, on the    *)
(* first request and on every other.                                       *)
LEMMA UnionAnswered ==
    ASSUME prog \in Programs, NEW r, Good(r), NEW q \in AllRequests
    PROVE  UnionAnswer(Answer(r, q))
<1>1. SUFFICES ASSUME q.kind = "union"
               PROVE  NameFor(r, q) = FreshUnionName(q.parts) /\ Asked(q) = DedupMembers(q.parts)
                      /\ q.parts \in UnionLists
  BY DEF UnionAnswer, Answer
<1>2. q \in Requests /\ q.parts \in Seq(Parts) /\ q.parts \in UnionLists
  BY <1>1, ProgramTyped, RequestTypes, UnionListsTyped
<1>3. FreshUnionName(q.parts) = PlainName(UnionText[VariantsOf(UnionKey(q.parts).parts)])
  BY <1>2, DedupKeepsVariants DEF FreshUnionName
<1>4. UnionKey(q.parts) \in DOMAIN r.unionDedup =>
         r.unionDedup[UnionKey(q.parts)] = FreshUnionName(q.parts)
  BY <1>3 DEF Good, NamedByVariants, UnionKey
<1> QED
  BY <1>1, <1>2, <1>4 DEF NameFor, UnionName, Asked

(* The operations keep union names apart.                                  *)
LEMMA RegisterUnionsOk ==
    ASSUME prog \in Programs, UnionsApart, NEW r, Good(r), UnionsOk(r), NEW q \in AllRequests
    PROVE  UnionsOk(Register(r, q))
<1>1. q \in Requests
  BY ProgramTyped
<1>2. CASE Known(r, q)
  BY <1>1, <1>2, RegisterKnown DEF Good
<1>3. CASE ~ Known(r, q)
  <2> DEFINE s == Register(r, q)
             n == NameFor(r, q)
  <2>1. /\ WritesItem(r, s, n, Asked(q))
        /\ RecordsUnion(r, s, q) \/ RecordsStruct(r, s, q) \/ RecordsEnum(r, s, q)
    BY <1>1, <1>3, RegisterNew DEF Good
  <2>2. n = NameFor(r, q)
    OBVIOUS
  <2> HIDE DEF s, n
  <2>3. /\ \A x : x \in DOMAIN s.types <=> x \in DOMAIN r.types \/ x = n
        /\ s.types[n].body = Asked(q)
        /\ \A x \in DOMAIN r.types : x # n => s.types[x] = r.types[x]
    BY <2>1, PutAt DEF WritesItem, Def
  <2>4. ASSUME NEW ms \in UnionLists, FreshUnionName(ms) = n
        PROVE  VariantsOf(Asked(q)) = VariantsOf(DedupMembers(ms))
    <3>1. FreshUnionName(ms).id = Plain
      BY UnionListsTyped, UnionTypes
    <3>2. q.kind = "union" /\ n = FreshUnionName(q.parts)
      BY <2>1, <2>2, <2>4, <3>1 DEF RecordsUnion, RecordsStruct, RecordsEnum
    <3>3. q.parts \in UnionLists /\ Asked(q) = DedupMembers(q.parts)
      BY <3>2, UnionListsTyped DEF Asked
    <3> QED
      BY <2>4, <3>2, <3>3 DEF UnionsApart
  <2>5. UnionsOk(s)
    BY <2>3, <2>4 DEF UnionsOk
  <2> QED
    BY <2>5 DEF s
<1> QED
  BY <1>2, <1>3

(* Whatever registry a step makes of those there are, union names go on    *)
(* standing for their variants in it.                                      *)
LEMMA DerivedUnionsOk ==
    ASSUME TypeInv, UnionsApart, \A s \in AllRegs : UnionsOk(s), NEW r, Derived(r)
    PROVE  UnionsOk(r)
<1>1. /\ Control /\ prog \in Programs
      /\ \A s \in AllRegs : Good(s) /\ IsRegistry(s)
  BY DEF TypeInv, Control, Good
<1>2. CASE r \in AllRegs
  BY <1>2
<1>3. CASE r = NewRegistry
  BY <1>3 DEF NewRegistry, Empty, UnionsOk
<1>4. ASSUME NEW s \in AllRegs, r = Fork(s)
      PROVE  UnionsOk(r)
  <2>1. r.types = s.types
    BY <1>1, <1>4 DEF Fork, IsRegistry
  <2> QED
    BY <2>1 DEF UnionsOk
<1>5. ASSUME NEW s \in AllRegs, NEW q \in AllRequests, r = Register(s, q)
      PROVE  UnionsOk(r)
  BY <1>1, <1>5, RegisterUnionsOk
<1>6. ASSUME NEW s \in AllRegs, NEW a \in AllAnys,
             r = PushIfAbsent(s, PlainName(a.text), "AnyEnum", a.variants)
      PROVE  UnionsOk(r)
  <2> DEFINE n == PlainName(a.text)
             t == Put(s.types, n, Def("AnyEnum", a.variants))
  <2>1. \A ms \in UnionLists : FreshUnionName(ms) # n
    <3>1. a.text \in AnyTexts /\ n.text = a.text
      BY <1>1, ProgramTyped DEF PlainName, Numbered
    <3> QED
      BY <3>1 DEF UnionsApart
  <2>2. CASE n \in DOMAIN s.types
    BY <1>6, <2>2 DEF PushIfAbsent
  <2>3. CASE n \notin DOMAIN s.types
    <3>1. r = [s EXCEPT !.types = t]
      BY <1>6, <2>3 DEF PushIfAbsent, PushItem
    <3>2. /\ \A x : x \in DOMAIN t <=> x \in DOMAIN s.types \/ x = n
          /\ \A x \in DOMAIN s.types : x # n => t[x] = s.types[x]
      BY PutAt
    <3> HIDE DEF t, n
    <3>3. r.types = t
      BY <1>1, <3>1 DEF IsRegistry
    <3> QED
      BY <2>1, <3>2, <3>3 DEF UnionsOk
  <2> QED
    BY <2>2, <2>3
<1>7. ASSUME NEW s \in AllRegs, NEW t \in AllRegs, r = Merge(s, t)
      PROVE  UnionsOk(r)
  <2>1. r.types = Overlay(s.types, t.types)
    BY <1>1, <1>7, MergeShape
  <2>2. UnionsOk(s) /\ UnionsOk(t)
    OBVIOUS
  <2> QED
    BY <2>1, <2>2, OverlayAt DEF UnionsOk
<1>8. CASE r = Claimed
  <2>1. synthetic \in AllRegs /\ r.types = Overlay(synthetic.types, Claims)
    BY <1>1, <1>8 DEF Claimed, AllRegs, IsRegistry
  <2>2. ASSUME NEW ms \in UnionLists
        PROVE  FreshUnionName(ms) \notin DOMAIN Claims
    <3>1. SUFFICES ASSUME NEW t \in Undefined, FreshUnionName(ms) = PlainName(t) PROVE FALSE
      BY <1>1, ClaimsTyped
    <3>2. t \in ExternalTexts /\ PlainName(t).text = t
      BY DEF Undefined, PlainName, Numbered
    <3> QED
      BY <3>1, <3>2 DEF UnionsApart
  <2> QED
    BY <2>1, <2>2, OverlayAt DEF UnionsOk
<1> QED
  BY <1>2, <1>3, <1>4, <1>5, <1>6, <1>7, <1>8 DEF Derived

(* Every step keeps the names of the unions denoting their variants, in    *)
(* the registries and in what was handed out.                              *)
LEMMA UnionStep ==
    ASSUME TypeInv, UnionInv, [Next]_vars
    PROVE  UnionInv'
<1>1. /\ Control /\ prog \in Programs /\ Good(work) /\ Good(local)
  BY DEF TypeInv, Control, AllRegs
<1>2. prog' = prog
  BY DEF Next, NextPass, ParseFile, ParseFails, CollectAsk, CollectTypes, AnalyzeAny, FinishAny, ResolveAsk,
         FinishResolve, RegisterStructs, ConvertAsk, FinishItem, ItemFails, FinishTransform,
         ClaimExternals, TooManyIterations, Finish, vars
<1>3. UnionLists' = UnionLists /\ UnionsApart' = UnionsApart
  BY <1>2 DEF UnionLists, AllRequests, AllItems, UnionsApart, AnyTexts, ExternalTexts
<1>4. UnionsApart' => \A r \in AllRegs' : UnionsOk(r)'
  <2>1. UnionsApart => \A r \in AllRegs' : UnionsOk(r)
    BY <1>1, Derivations, DerivedUnionsOk DEF UnionInv
  <2> QED
    BY <1>3, <2>1 DEF UnionsOk
<1>5. \A h : UnionAnswer(h)' = UnionAnswer(h)
  BY <1>3 DEF UnionAnswer
<1>6. CASE ResolveAsk
  <2>1. pending' = pending /\ handed' = handed
    BY <1>6 DEF ResolveAsk
  <2> DEFINE asks == ResolverAsks(Here)
             q == asks[ask]
  <2>2. CASE ask <= Len(asks)
    <3>1. /\ q \in AllRequests
          /\ resolved' = resolved \cup {[file |-> file, item |-> item, ask |-> ask,
                                         answer |-> Answer(work, q)]}
      BY <1>1, <1>6, <2>2, AskTyped DEF ResolveAsk
    <3> HIDE DEF asks, q
    <3>2. UnionAnswer(Answer(work, q))
      BY <1>1, <3>1, UnionAnswered
    <3>3. \A x \in resolved' : UnionAnswer(x.answer)
      BY <3>1, <3>2 DEF UnionInv
    <3> QED
      BY <1>4, <1>5, <2>1, <3>3 DEF UnionInv
  <2>3. CASE ~ (ask <= Len(asks))
    <3>1. resolved' = resolved
      BY <1>6, <2>3 DEF ResolveAsk
    <3> QED
      BY <1>4, <1>5, <2>1, <3>1 DEF UnionInv
  <2> QED
    BY <2>2, <2>3
<1>7. CASE ConvertAsk
  <2> DEFINE q == Here.sig[ask]
  <2>1. q \in AllRequests
    BY <1>1, <1>7, AskTyped DEF ConvertAsk
  <2>2. UnionAnswer(Answer(work, q)) /\ UnionAnswer(Answer(local, q))
    BY <1>1, <2>1, UnionAnswered
  <2>3. /\ pending' \subseteq pending \cup {Answer(work, q), Answer(local, q)}
        /\ handed' = handed /\ resolved' = resolved
    BY <1>7 DEF ConvertAsk
  <2> HIDE DEF q
  <2> QED
    BY <1>4, <1>5, <2>2, <2>3 DEF UnionInv
<1>8. CASE FinishItem
  <2>1. /\ pending' = {} /\ resolved' = resolved
        /\ handed' = handed \cup pending \cup FromResolver
    BY <1>8 DEF FinishItem
  <2>2. \A h \in FromResolver : UnionAnswer(h)
    BY DEF FromResolver, AnyAnswer, UnionAnswer, UnionInv
  <2> QED
    BY <1>4, <1>5, <2>1, <2>2 DEF UnionInv
<1>9. ASSUME pending' \subseteq pending, handed' = handed, resolved' = resolved
      PROVE  UnionInv'
  BY <1>4, <1>5, <1>9 DEF UnionInv
<1>10. CASE NextPass \/ ParseFile \/ ParseFails \/ CollectAsk \/ CollectTypes \/ AnalyzeAny \/ FinishAny
  BY <1>9, <1>10 DEF NextPass, ParseFile, ParseFails, CollectAsk, CollectTypes, AnalyzeAny, FinishAny
<1>11. CASE FinishResolve \/ RegisterStructs \/ ItemFails \/ FinishTransform
  BY <1>9, <1>11 DEF FinishResolve, RegisterStructs, ItemFails, FinishTransform
<1>12. CASE ClaimExternals \/ TooManyIterations \/ Finish \/ UNCHANGED vars
  BY <1>9, <1>12 DEF ClaimExternals, TooManyIterations, Finish, vars
<1> QED
  BY <1>6, <1>7, <1>8, <1>10, <1>11, <1>12 DEF Next

(* A union's name in an emitted item denotes, in the output, an enum with  *)
(* that union's variants.                                                  *)
THEOREM UnionNamesHold == Spec => []UnionNamesDenote
<1>1. Init => UnionInv
  <2>1. ASSUME Init PROVE UnionInv
    <3>1. AllRegs = {BaseSyn, NewRegistry} /\ pending = {} /\ handed = {} /\ resolved = {}
      BY <2>1 DEF AllRegs, Init, Range
    <3>2. UnionsApart => UnionsOk(BaseSyn)
      BY DEF UnionsApart, UnionsOk
    <3>3. UnionsOk(NewRegistry)
      BY DEF NewRegistry, Empty, UnionsOk
    <3> QED
      BY <3>1, <3>2, <3>3 DEF UnionInv
  <2> QED
    BY <2>1
<1>2. TypeInv /\ UnionInv /\ [Next]_vars => UnionInv'
  BY UnionStep
<1>3. UnionInv /\ NamedInv => UnionNamesDenote
  <2>1. ASSUME UnionInv, NamedInv, phase = "done", UnionsApart, NEW h \in handed, h.kind = "union"
        PROVE  /\ h.name \in DOMAIN synthetic.types
               /\ VariantsOf(synthetic.types[h.name].body) = VariantsOf(h.asked)
    <3>1. h.name \in DOMAIN synthetic.types
      BY <2>1 DEF NamedInv, HandedNamed
    <3>2. PICK ms \in UnionLists : h.name = FreshUnionName(ms) /\ h.asked = DedupMembers(ms)
      BY <2>1 DEF UnionInv, UnionAnswer
    <3>3. UnionsOk(synthetic)
      BY <2>1 DEF UnionInv, AllRegs
    <3> QED
      BY <3>1, <3>2, <3>3 DEF UnionsOk
  <2> QED
    BY <2>1 DEF UnionNamesDenote
<1> QED
  BY <1>1, <1>2, <1>3, TypesHold, NamesHold, PTL DEF Spec

-----------------------------------------------------------------------------
(* Every struct and enum of a registry is among the items C.               *)
Cited(r, C) ==
    \A n \in DOMAIN r.types : r.types[n].kind \notin {"External", "AnyEnum"} =>
        [name |-> n, body |-> r.types[n].body] \in C

FileRegs ==
    {synthetic} \cup Range(anySyn) \cup Range(resSyn)
      \cup (IF phase = "collect" THEN {} ELSE {work})

AskedItems(H) == {[name |-> h.name, body |-> h.asked] : h \in H}

(* Whatever is in a registry that is used again was asked for by someone   *)
(* who counts, and in a function's own registry by that function.          *)
CountedInv ==
    /\ \A r \in FileRegs : Cited(r, Counted)
    /\ Cited(local, AskedItems(pending))

(* The operations on registries, as far as their items go.                 *)
LEMMA CitedMore ==
    ASSUME NEW r, NEW C, NEW D, Cited(r, C), C \subseteq D
    PROVE  Cited(r, D)
BY DEF Cited

(* An empty registry has nothing to account for.                           *)
LEMMA NewCited ==
    ASSUME NEW C
    PROVE  Cited(NewRegistry, C)
BY DEF Cited, NewRegistry, Empty

(* A fork has the items of what it was made of, and no others.             *)
LEMMA ForkCited ==
    ASSUME NEW r, IsRegistry(r), NEW C, Cited(r, C)
    PROVE  Cited(Fork(r), C)
<1>1. Fork(r).types = r.types
  BY DEF Fork, IsRegistry
<1> QED
  BY <1>1 DEF Cited

(* A merge has the items of the two, and no others.                        *)
LEMMA MergeCited ==
    ASSUME NEW r, NEW s, IsRegistry(r), IsRegistry(s), NEW C, Cited(r, C), Cited(s, C)
    PROVE  Cited(Merge(r, s), C)
<1>1. Merge(r, s).types = Overlay(r.types, s.types)
  BY MergeShape
<1> QED
  BY <1>1, OverlayAt DEF Cited

(* A registration adds no item but the one it was asked for.               *)
LEMMA RegisterCited ==
    ASSUME NEW r, IsRegistry(r), NEW q \in Requests, NEW C, Cited(r, C),
           [name |-> NameFor(r, q), body |-> Asked(q)] \in C
    PROVE  Cited(Register(r, q), C)
<1>1. CASE Known(r, q)
  BY <1>1, RegisterKnown
<1>2. CASE ~ Known(r, q)
  <2> DEFINE s == Register(r, q)
             n == NameFor(r, q)
  <2>1. WritesItem(r, s, n, Asked(q))
    BY <1>2, RegisterNew
  <2>2. [name |-> n, body |-> Asked(q)] \in C
    OBVIOUS
  <2> HIDE DEF s, n
  <2>3. /\ \A x : x \in DOMAIN s.types <=> x \in DOMAIN r.types \/ x = n
        /\ s.types[n].body = Asked(q)
        /\ \A x \in DOMAIN r.types : x # n => s.types[x] = r.types[x]
    BY <2>1, PutAt DEF WritesItem, Def
  <2>4. Cited(s, C)
    BY <2>2, <2>3 DEF Cited
  <2> QED
    BY <2>4 DEF s
<1> QED
  BY <1>1, <1>2

(* An any-enum is not one of the items that have to be accounted for.      *)
LEMMA AnyCited ==
    ASSUME NEW r, IsRegistry(r), NEW n, NEW b, NEW C, Cited(r, C)
    PROVE  Cited(PushIfAbsent(r, n, "AnyEnum", b), C)
<1>1. CASE n \in DOMAIN r.types
  BY <1>1 DEF PushIfAbsent
<1>2. CASE n \notin DOMAIN r.types
  <2> DEFINE d == Def("AnyEnum", b)
             t == Put(r.types, n, d)
  <2>1. /\ \A x : x \in DOMAIN t <=> x \in DOMAIN r.types \/ x = n
        /\ t[n] = d
        /\ \A x \in DOMAIN r.types : x # n => t[x] = r.types[x]
    BY PutAt
  <2>2. d.kind = "AnyEnum"
    BY DEF Def
  <2>3. PushIfAbsent(r, n, "AnyEnum", b) = [r EXCEPT !.types = t]
    BY <1>2 DEF PushIfAbsent, PushItem
  <2> HIDE DEF t, d
  <2>4. PushIfAbsent(r, n, "AnyEnum", b).types = t
    BY <2>3 DEF IsRegistry
  <2> QED
    BY <2>1, <2>2, <2>4 DEF Cited
<1> QED
  BY <1>1, <1>2

(* The registry a pass opens cites what counts, as the ones it is made of  *)
(* do.                                                                     *)
LEMMA OpenCited ==
    ASSUME TypeInv, CountedInv, NEW ph, NEW f \in 1 .. (NFiles + 1),
           ph = "transform" => Len(anySyn) = NFiles /\ Len(resSyn) = NFiles
    PROVE  Cited(Open(ph, f), Counted)
<1>1. /\ NFiles \in Nat /\ Control
      /\ \A r \in FileRegs : IsRegistry(r) /\ Cited(r, Counted)
  BY FileTyped DEF TypeInv, Control, Good, CountedInv, FileRegs, AllRegs
<1>2. CASE ph = "resolve"
  BY <1>1, <1>2, ForkCited DEF Open, FileRegs
<1>3. CASE ph = "transform" /\ f <= NFiles
  <2>1. f \in DOMAIN anySyn /\ f \in DOMAIN resSyn
    BY <1>1, <1>3 DEF Control
  <2>2. anySyn[f] \in FileRegs /\ resSyn[f] \in FileRegs
    BY <2>1 DEF FileRegs, Range
  <2>3. Open(ph, f) = Merge(anySyn[f], resSyn[f])
    BY <1>3 DEF Open
  <2> QED
    BY <1>1, <2>2, <2>3, MergeCited
<1>4. CASE ph # "resolve" /\ ~ (ph = "transform" /\ f <= NFiles)
  BY <1>4, NewCited DEF Open
<1> QED
  BY <1>2, <1>3, <1>4

(* Every step keeps every item of every registry accounted for: something  *)
(* that is counted asked for it.                                           *)
LEMMA CountedStep ==
    ASSUME TypeInv, ResolverInv, NamedInv, CountedInv, [Next]_vars
    PROVE  CountedInv'
<1>1. /\ Control /\ NFiles \in Nat /\ file \in 1 .. (NFiles + 1) /\ prog \in Programs
      /\ \A r \in FileRegs : IsRegistry(r) /\ Cited(r, Counted)
      /\ IsRegistry(work) /\ IsRegistry(local) /\ Cited(local, AskedItems(pending))
      /\ synthetic \in FileRegs /\ (phase # "collect" => work \in FileRegs)
  BY FileTyped DEF TypeInv, Control, Good, CountedInv, FileRegs, AllRegs
<1>2. ASSUME resolved \subseteq resolved', handed \subseteq handed', granted \subseteq granted'
      PROVE  /\ Counted \subseteq Counted'
             /\ \A r : Cited(r, Counted) => Cited(r, Counted')
  <2>1. Counted \subseteq Counted'
    BY <1>2 DEF Counted
  <2> QED
    BY <2>1, CitedMore
<1>3. ASSUME anySyn' = anySyn \/ (phase # "collect" /\ anySyn' = Append(anySyn, work)),
             resSyn' = resSyn \/ (phase # "collect" /\ resSyn' = Append(resSyn, work))
      PROVE  Range(anySyn)' \subseteq FileRegs /\ Range(resSyn)' \subseteq FileRegs
  <2>1. anySyn \in Seq(Registries) /\ resSyn \in Seq(Registries) /\ work \in Registries
    BY <1>1, RegistriesAre DEF Control
  <2>2. ASSUME NEW s \in Seq(Registries), Range(s) \subseteq FileRegs, phase # "collect"
        PROVE  \A i \in DOMAIN Append(s, work) : Append(s, work)[i] \in FileRegs
    <3>1. \A i \in 1 .. Len(s) : s[i] \in FileRegs
      BY <2>2 DEF Range
    <3> QED
      BY <1>1, <2>2, <3>1
  <2>3. Range(anySyn) \subseteq FileRegs /\ Range(resSyn) \subseteq FileRegs
    BY DEF FileRegs
  <2> QED
    BY <1>3, <2>1, <2>2, <2>3 DEF Range
<1>4. ASSUME resolved \subseteq resolved', handed \subseteq handed', granted \subseteq granted',
             anySyn' = anySyn \/ (phase # "collect" /\ anySyn' = Append(anySyn, work)),
             resSyn' = resSyn \/ (phase # "collect" /\ resSyn' = Append(resSyn, work)),
             Cited(synthetic', Counted'), phase' = "collect" \/ Cited(work', Counted'),
             Cited(local', AskedItems(pending)')
      PROVE  CountedInv'
  BY <1>1, <1>2, <1>3, <1>4 DEF CountedInv, FileRegs
<1>5. ASSUME NextFile, file <= NFiles PROVE Cited(work', Counted)
  <2>1. file + 1 \in 1 .. (NFiles + 1)
    BY <1>1, <1>5
  <2>2. phase = "transform" => Len(anySyn) = NFiles /\ Len(resSyn) = NFiles
    BY <1>1 DEF Control, FilesDone
  <2> QED
    BY <1>5, <2>1, <2>2, OpenCited DEF NextFile
<1>6. CASE NextPass
  <2>1. After(phase) = "transform" => Len(anySyn) = NFiles /\ Len(resSyn) = NFiles
    BY <1>1, <1>6, AfterIs DEF NextPass, Control, Phases, FilesDone
  <2>2. 1 \in 1 .. (NFiles + 1)
    BY <1>1
  <2>3. Cited(Open(After(phase), 1), Counted)
    BY <2>1, <2>2, OpenCited
  <2> QED
    BY <1>1, <1>2, <1>4, <1>6, <2>3 DEF NextPass, AskedItems
<1>7. CASE ParseFile \/ CollectTypes \/ FinishAny \/ FinishResolve \/ RegisterStructs
  <2>1. NextFile /\ file <= NFiles
    BY <1>7 DEF ParseFile, CollectTypes, FinishAny, FinishResolve, RegisterStructs, AtEndOfFile
  <2>2. /\ resolved' = resolved /\ granted' = granted /\ handed' = handed
        /\ pending' = pending /\ local' = local
        /\ synthetic' = synthetic
        /\ anySyn' = anySyn \/ (phase # "collect" /\ anySyn' = Append(anySyn, work))
        /\ resSyn' = resSyn \/ (phase # "collect" /\ resSyn' = Append(resSyn, work))
    BY <1>7 DEF ParseFile, CollectTypes, FinishAny, FinishResolve, RegisterStructs
  <2> QED
    BY <1>1, <1>2, <1>4, <1>5, <2>1, <2>2 DEF AskedItems
<1>8. CASE AnalyzeAny
  <2>1. /\ resolved' = resolved /\ granted' = granted /\ handed' = handed
        /\ pending' = pending /\ local' = local
        /\ synthetic' = synthetic /\ anySyn' = anySyn /\ resSyn' = resSyn
    BY <1>8 DEF AnalyzeAny
  <2>2. Cited(work', Counted)
    BY <1>1, <1>8, AnyCited DEF AnalyzeAny
  <2> QED
    BY <1>1, <1>2, <1>4, <2>1, <2>2 DEF AskedItems
<1>16. CASE CollectAsk
  <2>1. /\ resolved' = resolved /\ granted' = granted /\ handed' = handed
        /\ pending' = pending /\ local' = local /\ phase' = "collect"
        /\ synthetic' = synthetic /\ anySyn' = anySyn /\ resSyn' = resSyn
    BY <1>16 DEF CollectAsk
  <2> QED
    BY <1>1, <1>2, <1>4, <2>1 DEF AskedItems
<1>9. CASE ResolveAsk
  <2>1. /\ granted' = granted /\ handed' = handed /\ pending' = pending /\ local' = local
        /\ synthetic' = synthetic /\ anySyn' = anySyn /\ resSyn' = resSyn
    BY <1>9 DEF ResolveAsk
  <2>4. phase = "resolve" /\ granted' = granted
    BY <1>9 DEF ResolveAsk
  <2> DEFINE asks == ResolverAsks(Here)
             q == asks[ask]
  <2>2. CASE ask <= Len(asks)
    <3>1. /\ q \in Requests /\ work' = Register(work, q)
          /\ resolved' = resolved \cup {[file |-> file, item |-> item, ask |-> ask,
                                         answer |-> Answer(work, q)]}
      BY <1>1, <1>9, <2>2, AskTyped DEF ResolveAsk
    <3> HIDE DEF asks, q
    <3>2. \E x \in resolved' : x.answer.name = NameFor(work, q) /\ x.answer.asked = Asked(q)
      <4> DEFINE a == Answer(work, q)
                 x == [file |-> file, item |-> item, ask |-> ask, answer |-> a]
      <4>1. x \in resolved' /\ x.answer = a
        BY <3>1
      <4>2. a.name = NameFor(work, q) /\ a.asked = Asked(q)
        BY DEF Answer
      <4> HIDE DEF x, a
      <4> QED
        BY <4>1, <4>2
    <3>3. [name |-> NameFor(work, q), body |-> Asked(q)] \in Counted'
      BY <3>2 DEF Counted
    <3>4. Cited(work, Counted')
      BY <1>1, <1>2, <2>1, <2>4, <3>1
    <3>5. Cited(work', Counted')
      BY <1>1, <3>1, <3>3, <3>4, RegisterCited
    <3> QED
      BY <1>1, <1>2, <1>4, <2>1, <2>4, <3>1, <3>5 DEF AskedItems
  <2>3. CASE ~ (ask <= Len(asks))
    <3>1. work' = work /\ resolved' = resolved
      BY <1>9, <2>3 DEF ResolveAsk
    <3> QED
      BY <1>1, <1>2, <1>4, <2>1, <2>4, <3>1 DEF AskedItems
  <2> QED
    BY <2>2, <2>3
<1>10. CASE ConvertAsk
  <2>1. /\ handed' = handed /\ resolved' = resolved /\ granted \subseteq granted'
        /\ synthetic' = synthetic /\ anySyn' = anySyn /\ resSyn' = resSyn
    BY <1>10 DEF ConvertAsk
  <2> DEFINE q == Here.sig[ask]
  <2>2. q \in Requests /\ phase = "transform"
    BY <1>1, <1>10, AskTyped DEF ConvertAsk
  <2>3. CASE Here.fn
    <3>1. /\ local' = Register(local, q) /\ work' = work
          /\ pending' = pending \cup {Answer(local, q)}
      BY <1>10, <2>3 DEF ConvertAsk
    <3> HIDE DEF q
    <3>2. AskedItems(pending) \subseteq AskedItems(pending')
      BY <3>1 DEF AskedItems
    <3>3. Answer(local, q) \in pending' /\ Answer(local, q).name = NameFor(local, q)
          /\ Answer(local, q).asked = Asked(q)
      BY <3>1 DEF Answer
    <3>4. [name |-> NameFor(local, q), body |-> Asked(q)] \in AskedItems(pending')
      BY <3>3 DEF AskedItems
    <3>5. Cited(local, AskedItems(pending'))
      BY <1>1, <3>2, CitedMore
    <3>6. Cited(local', AskedItems(pending'))
      BY <1>1, <2>2, <3>1, <3>4, <3>5, RegisterCited
    <3> QED
      BY <1>1, <1>2, <1>4, <2>1, <2>2, <3>1, <3>6 DEF AskedItems
  <2>4. CASE ~ Here.fn
    <3>1. /\ work' = Register(work, q) /\ local' = local /\ pending \subseteq pending'
          /\ granted' = granted \cup {Answer(work, q)}
      BY <1>10, <2>4 DEF ConvertAsk
    <3> HIDE DEF q
    <3>5. Answer(work, q) \in granted' /\ Answer(work, q).name = NameFor(work, q)
          /\ Answer(work, q).asked = Asked(q)
      BY <3>1 DEF Answer
    <3>6. [name |-> NameFor(work, q), body |-> Asked(q)] \in Counted'
      BY <3>5 DEF Counted
    <3>7. Cited(work, Counted')
      BY <1>1, <1>2, <2>1, <2>2
    <3>2. Cited(work', Counted')
      BY <1>1, <2>2, <3>1, <3>6, <3>7, RegisterCited
    <3>3. AskedItems(pending) \subseteq AskedItems(pending')
      BY <3>1 DEF AskedItems
    <3>4. Cited(local', AskedItems(pending'))
      BY <1>1, <3>1, <3>3, CitedMore
    <3> QED
      BY <1>1, <1>2, <1>4, <2>1, <3>2, <3>4 DEF AskedItems
  <2> QED
    BY <2>3, <2>4
<1>11. CASE FinishItem
  <2>1. /\ resolved' = resolved /\ granted' = granted /\ phase = "transform"
        /\ handed \cup pending \subseteq handed'
        /\ synthetic' = synthetic /\ anySyn' = anySyn /\ resSyn' = resSyn
        /\ local' = NewRegistry
        /\ work' = IF Here.fn THEN Merge(work, local) ELSE work
    BY <1>11 DEF FinishItem
  <2>2. AskedItems(pending) \subseteq Counted'
    BY <2>1 DEF AskedItems, Counted
  <2>3. Cited(local, Counted') /\ Cited(work, Counted') /\ Cited(synthetic, Counted')
    BY <1>1, <1>2, <2>1, <2>2, CitedMore
  <2>4. Cited(work', Counted')
    BY <1>1, <2>1, <2>3, MergeCited
  <2> QED
    BY <1>4, <2>1, <2>3, <2>4, NewCited
<1>12. CASE ItemFails
  <2>1. /\ resolved' = resolved /\ granted' = granted /\ handed' = handed
        /\ local' = NewRegistry /\ phase = "transform"
        /\ synthetic' = synthetic /\ anySyn' = anySyn /\ resSyn' = resSyn /\ work' = work
    BY <1>12 DEF ItemFails
  <2> QED
    BY <1>1, <1>2, <1>4, <2>1, NewCited
<1>13. CASE FinishTransform
  <2>1. /\ resolved' = resolved /\ granted' = granted /\ handed' = handed
        /\ local' = local /\ pending' = pending /\ phase # "collect"
        /\ anySyn' = anySyn /\ resSyn' = resSyn /\ synthetic' = Merge(synthetic, work)
        /\ NextFile /\ file <= NFiles
    BY <1>13 DEF FinishTransform, AtEndOfFile
  <2>2. Cited(synthetic', Counted)
    BY <1>1, <2>1, MergeCited
  <2> QED
    BY <1>1, <1>2, <1>4, <1>5, <2>1, <2>2 DEF AskedItems
<1>14. CASE ClaimExternals
  <2>1. /\ resolved' = resolved /\ granted' = granted /\ handed' = handed
        /\ local' = local /\ pending' = pending /\ phase # "collect"
        /\ anySyn' = anySyn /\ resSyn' = resSyn /\ work' = work
        /\ synthetic'.types = Overlay(synthetic.types, Claims)
    BY <1>1, <1>14 DEF ClaimExternals, IsRegistry
  <2>2. ASSUME NEW n \in DOMAIN Claims PROVE Claims[n].kind = "External"
    <3>1. PICK t \in Undefined : n = PlainName(t)
      BY <1>1, <2>2, ClaimsTyped
    <3>2. Claims[n] = Def("External", ExternalBody(t))
      BY <1>1, <3>1, ClaimsTyped
    <3> QED
      BY <3>2 DEF Def
  <2>3. Cited(synthetic', Counted)
    BY <1>1, <2>1, <2>2, OverlayAt DEF Cited
  <2> QED
    BY <1>1, <1>2, <1>4, <2>1, <2>3 DEF AskedItems
<1>15. CASE ParseFails \/ TooManyIterations \/ Finish \/ UNCHANGED vars
  <2>1. /\ resolved' = resolved /\ granted' = granted /\ handed' = handed
        /\ local' = local /\ pending' = pending /\ (phase = "collect" => phase' = "collect")
        /\ anySyn' = anySyn /\ resSyn' = resSyn /\ work' = work /\ synthetic' = synthetic
    BY <1>15 DEF ParseFails, TooManyIterations, Finish, vars
  <2> QED
    BY <1>1, <1>2, <1>4, <2>1 DEF AskedItems
<1> QED
  BY <1>6, <1>7, <1>8, <1>9, <1>10, <1>11, <1>12, <1>13, <1>14, <1>15, <1>16 DEF Next

(* Nothing is in the output that nobody who counts asked for: what a       *)
(* failed function had generated for itself is gone.                       *)
THEOREM OnlyCountedHolds == Spec => []OnlyCountedOutput
<1>1. Init => CountedInv
  <2>1. ASSUME Init PROVE CountedInv
    <3>1. FileRegs = {BaseSyn, NewRegistry} /\ local = NewRegistry
      BY <2>1 DEF FileRegs, Init, Range
    <3>2. Cited(BaseSyn, Counted)
      BY DEF Cited, Counted
    <3> QED
      BY <3>1, <3>2, NewCited DEF CountedInv
  <2> QED
    BY <2>1
<1>2. TypeInv /\ (ResolverInv /\ ForksSound) /\ (AnyInv /\ NamedInv) /\ CountedInv /\ [Next]_vars
         => CountedInv'
  BY CountedStep
<1>3. CountedInv => OnlyCountedOutput
  BY DEF CountedInv, FileRegs, Cited, OnlyCountedOutput
<1> QED
  BY <1>1, <1>2, <1>3, TypesHold, ResolverHolds, NamesHold, PTL DEF Spec

-----------------------------------------------------------------------------
(* There are no external types before the fixpoint; in it each is one that *)
(* is needed, by its own name and with its own members; and it ends when   *)
(* none is undefined.                                                      *)
NoExternal(r) == \A n \in DOMAIN r.types : r.types[n].kind # "External"

Externals == {n \in DOMAIN synthetic.types : synthetic.types[n].kind = "External"}

ExternalsInv ==
    /\ phase \notin {"externals", "done", "panicked"} => \A r \in AllRegs : NoExternal(r)
    /\ phase \in {"externals", "done", "panicked"} =>
          \A n \in Externals : /\ n = PlainName(n.text)
                               /\ n.text \in Needed
                               /\ synthetic.types[n].body = ExternalBody(n.text)
    /\ phase = "done" => Undefined = {}

(* No operation but the fixpoint's makes an external type.                 *)
LEMMA DerivedNoExternal ==
    ASSUME TypeInv, phase # "externals", \A s \in AllRegs : NoExternal(s), NEW r, Derived(r)
    PROVE  NoExternal(r)
<1>1. /\ prog \in Programs
      /\ \A s \in AllRegs : IsRegistry(s)
  BY DEF TypeInv, Control, Good
<1>2. CASE r \in AllRegs
  BY <1>2
<1>3. CASE r = NewRegistry
  BY <1>3 DEF NewRegistry, Empty, NoExternal
<1>4. ASSUME NEW s \in AllRegs, r = Fork(s)
      PROVE  NoExternal(r)
  <2>1. r.types = s.types
    BY <1>1, <1>4 DEF Fork, IsRegistry
  <2> QED
    BY <2>1 DEF NoExternal
<1>5. ASSUME NEW s \in AllRegs, NEW q \in AllRequests, r = Register(s, q)
      PROVE  NoExternal(r)
  <2>1. q \in Requests /\ IsRegistry(s) /\ NoExternal(s)
    BY <1>1, ProgramTyped
  <2>2. CASE Known(s, q)
    BY <1>5, <2>1, <2>2, RegisterKnown
  <2>3. CASE ~ Known(s, q)
    <3> DEFINE m == NameFor(s, q)
    <3>1. WritesItem(s, r, m, Asked(q))
      BY <1>5, <2>1, <2>3, RegisterNew
    <3> HIDE DEF m
    <3>2. PICK k \in {"UnionEnum", "InlineStruct"} : r.types = Put(s.types, m, Def(k, Asked(q)))
      BY <3>1 DEF WritesItem
    <3>3. /\ \A x : x \in DOMAIN r.types <=> x \in DOMAIN s.types \/ x = m
          /\ r.types[m].kind = k
          /\ \A x \in DOMAIN s.types : x # m => r.types[x] = s.types[x]
      BY <3>2, PutAt DEF Def
    <3> QED
      BY <2>1, <3>3 DEF NoExternal
  <2> QED
    BY <2>2, <2>3
<1>6. ASSUME NEW s \in AllRegs, NEW a \in AllAnys,
             r = PushIfAbsent(s, PlainName(a.text), "AnyEnum", a.variants)
      PROVE  NoExternal(r)
  <2> DEFINE n == PlainName(a.text)
             d == Def("AnyEnum", a.variants)
             t == Put(s.types, n, d)
  <2>1. CASE n \in DOMAIN s.types
    BY <1>6, <2>1 DEF PushIfAbsent
  <2>2. CASE n \notin DOMAIN s.types
    <3>1. r = [s EXCEPT !.types = t]
      BY <1>6, <2>2 DEF PushIfAbsent, PushItem
    <3>2. /\ \A x : x \in DOMAIN t <=> x \in DOMAIN s.types \/ x = n
          /\ t[n] = d
          /\ \A x \in DOMAIN s.types : x # n => t[x] = s.types[x]
      BY PutAt
    <3>3. d.kind # "External"
      BY DEF Def
    <3> HIDE DEF t, n, d
    <3>4. r.types = t
      BY <1>1, <3>1 DEF IsRegistry
    <3> QED
      BY <3>2, <3>3, <3>4 DEF NoExternal
  <2> QED
    BY <2>1, <2>2
<1>7. ASSUME NEW s \in AllRegs, NEW t \in AllRegs, r = Merge(s, t)
      PROVE  NoExternal(r)
  <2>1. r.types = Overlay(s.types, t.types)
    BY <1>1, <1>7, MergeShape
  <2>2. NoExternal(s) /\ NoExternal(t)
    OBVIOUS
  <2> QED
    BY <2>1, <2>2, OverlayAt DEF NoExternal
<1> QED
  BY <1>2, <1>3, <1>4, <1>5, <1>6, <1>7 DEF Derived

(* A text is mentioned by an item that was emitted or by a body.           *)
LEMMA MentionedBy ==
    /\ \A t : t \in References <=> \/ \E i \in Emitted : t \in i.refs
                                   \/ \E n \in DOMAIN synthetic.types :
                                         t \in BodyRefs(synthetic.types[n].body)
    /\ \A t : t \in Mentioned <=> \/ \E i \in Emitted : t \in i.refs
                                  \/ \E n \in Written : t \in BodyRefs(synthetic.types[n].body)
<1> DEFINE all == {BodyRefs(synthetic.types[n].body) : n \in DOMAIN synthetic.types}
           own == {BodyRefs(synthetic.types[n].body) : n \in Written}
           refs == {i.refs : i \in Emitted}
<1>1. References = (UNION refs) \cup (UNION all) /\ Mentioned = (UNION refs) \cup (UNION own)
  BY DEF References, Mentioned
<1>2. \A t : t \in (UNION refs) <=> \E i \in Emitted : t \in i.refs
  OBVIOUS
<1>3. \A t : t \in (UNION all) <=> \E n \in DOMAIN synthetic.types : t \in BodyRefs(synthetic.types[n].body)
  OBVIOUS
<1>4. \A t : t \in (UNION own) <=> \E n \in Written : t \in BodyRefs(synthetic.types[n].body)
  OBVIOUS
<1> HIDE DEF all, own, refs
<1> QED
  BY <1>1, <1>2, <1>3, <1>4

(* What is undefined is needed: an item mentions it, or a member of a type *)
(* that is needed.                                                         *)
LEMMA UndefinedIsNeeded ==
    ASSUME ExternalsInv, phase \in {"externals", "done", "panicked"}, NEW t \in Undefined
    PROVE  t \in Needed
<1>1. t \in References /\ t \notin Excluded /\ t \notin ItemTexts /\ t \in ExternalTexts
  BY DEF Undefined
<1>2. t \in Missing
  BY <1>1 DEF Missing, Written, ItemTexts
<1>3. SUFFICES ASSUME NEW S \in SUBSET Missing, ClosedTexts(S) PROVE t \in S
  BY <1>2 DEF Needed
<1>4. ASSUME NEW i \in Emitted, t \in i.refs
      PROVE  t \in S
  BY <1>2, <1>3, <1>4, MentionedBy DEF ClosedTexts
<1>5. ASSUME NEW n \in DOMAIN synthetic.types, t \in BodyRefs(synthetic.types[n].body)
      PROVE  t \in S
  <2>1. CASE n \in Written
    BY <1>2, <1>3, <1>5, <2>1, MentionedBy DEF ClosedTexts
  <2>2. CASE n \notin Written
    <3>1. n \in Externals
      BY <2>2 DEF Written, Externals
    <3>2. n.text \in Needed /\ synthetic.types[n].body = ExternalBody(n.text)
      BY <3>1 DEF ExternalsInv
    <3>3. n.text \in S
      BY <1>3, <3>2 DEF Needed
    <3> QED
      BY <1>2, <1>3, <1>5, <3>2, <3>3 DEF ClosedTexts
  <2> QED
    BY <2>1, <2>2
<1> QED
  BY <1>1, <1>4, <1>5, MentionedBy

(* An iteration writes an external type for each undefined text, and       *)
(* leaves alone what is needed and what there was.                         *)
LEMMA Claiming ==
    ASSUME TypeInv, ClaimExternals
    PROVE  /\ \A n \in DOMAIN Claims :
                 /\ n = PlainName(n.text) /\ n.text \in Undefined
                 /\ Claims[n].kind = "External" /\ Claims[n].body = ExternalBody(n.text)
           /\ \A n : n \in DOMAIN synthetic'.types <=> n \in DOMAIN synthetic.types \/ n \in DOMAIN Claims
           /\ \A n \in DOMAIN synthetic.types : synthetic'.types[n] = synthetic.types[n]
           /\ \A n \in DOMAIN Claims : synthetic'.types[n] = Claims[n]
           /\ Missing' = Missing /\ Mentioned' = Mentioned /\ Needed' = Needed
           /\ \A t : ExternalBody(t)' = ExternalBody(t)
<1>1. Control /\ IsRegistry(synthetic)
  BY DEF TypeInv, Good, AllRegs
<1>2. /\ prog' = prog /\ shared' = shared /\ emitted' = emitted
      /\ synthetic'.types = Overlay(synthetic.types, Claims)
  BY <1>1 DEF ClaimExternals, IsRegistry
<1>3. ASSUME NEW n \in DOMAIN Claims
      PROVE  /\ n = PlainName(n.text) /\ n.text \in Undefined
             /\ Claims[n].kind = "External" /\ Claims[n].body = ExternalBody(n.text)
             /\ n \notin DOMAIN synthetic.types
  <2>1. PICK t \in Undefined : n = PlainName(t)
    BY <1>1, <1>3, ClaimsTyped
  <2>2. n.text = t
    BY <2>1 DEF PlainName, Numbered
  <2>3. Claims[n] = Def("External", ExternalBody(t))
    BY <1>1, <2>1, ClaimsTyped
  <2>4. n \notin DOMAIN synthetic.types
    BY <1>1, <1>3, ClaimsFresh
  <2> QED
    BY <2>1, <2>2, <2>3, <2>4 DEF Def
<1>4. /\ \A n : n \in DOMAIN synthetic'.types <=> n \in DOMAIN synthetic.types \/ n \in DOMAIN Claims
      /\ \A n \in DOMAIN synthetic.types : synthetic'.types[n] = synthetic.types[n]
      /\ \A n \in DOMAIN Claims : synthetic'.types[n] = Claims[n]
  BY <1>2, <1>3, OverlayAt
<1>5. Written' = Written /\ \A n \in Written : synthetic'.types[n] = synthetic.types[n]
  BY <1>3, <1>4 DEF Written
<1>6. /\ Emitted' = Emitted /\ Excluded' = Excluded
      /\ \A t : ExternalBody(t)' = ExternalBody(t)
  BY <1>2 DEF Emitted, Excluded, ExternalBody
<1>7. Missing' = Missing /\ Mentioned' = Mentioned
  BY <1>5, <1>6 DEF Missing, Mentioned, ExternalTexts, BodyRefs
<1>8. Needed' = Needed
  BY <1>6, <1>7 DEF Needed, ClosedTexts, BodyRefs
<1> QED
  BY <1>3, <1>4, <1>6, <1>7, <1>8

(* Every step keeps the external structs out of the registries until the   *)
(* fixpoint has claimed them all.                                          *)
LEMMA ExternalsStep ==
    ASSUME TypeInv, ExternalsInv, [Next]_vars
    PROVE  ExternalsInv'
<1>1. Control /\ IsRegistry(synthetic)
  BY DEF TypeInv, Good, AllRegs
<1>2. CASE phase \notin {"externals", "done", "panicked"}
  <2>1. \A r \in AllRegs' : NoExternal(r)
    BY <1>1, <1>2, Derivations, DerivedNoExternal DEF ExternalsInv
  <2>2. phase' # "done"
    <3>1. CASE NextPass
      BY <1>1, <3>1, AfterIs DEF NextPass, Control, Phases
    <3>2. CASE ~ NextPass
      BY <1>2, <3>2 DEF Next, ParseFile, ParseFails, CollectAsk, CollectTypes, AnalyzeAny, FinishAny, ResolveAsk,
         FinishResolve, RegisterStructs, ConvertAsk, FinishItem, ItemFails, FinishTransform,
         ClaimExternals, TooManyIterations, Finish, vars
    <3> QED
      BY <3>1, <3>2
  <2>3. Externals' = {}
    BY <2>1 DEF NoExternal, Externals, AllRegs
  <2> QED
    BY <2>1, <2>2, <2>3 DEF ExternalsInv, NoExternal
<1>3. CASE ClaimExternals
  <2>1. phase = "externals" /\ phase' = phase
    BY <1>3 DEF ClaimExternals
  <2>2. /\ \A n \in DOMAIN Claims :
              /\ n = PlainName(n.text) /\ n.text \in Undefined
              /\ Claims[n].kind = "External" /\ Claims[n].body = ExternalBody(n.text)
        /\ \A n : n \in DOMAIN synthetic'.types <=> n \in DOMAIN synthetic.types \/ n \in DOMAIN Claims
        /\ \A n \in DOMAIN synthetic.types : synthetic'.types[n] = synthetic.types[n]
        /\ \A n \in DOMAIN Claims : synthetic'.types[n] = Claims[n]
    BY <1>3, Claiming
  <2>3. Needed' = Needed /\ \A t : ExternalBody(t)' = ExternalBody(t)
    BY <1>3, Claiming
  <2>8. ASSUME NEW n \in Externals'
        PROVE  n = PlainName(n.text) /\ n.text \in Needed
               /\ synthetic'.types[n].body = ExternalBody(n.text)
    <3>1. CASE n \in DOMAIN synthetic.types
      BY <2>1, <2>2, <2>8, <3>1 DEF Externals, ExternalsInv
    <3>2. CASE n \in DOMAIN Claims
      BY <2>1, <2>2, <3>2, UndefinedIsNeeded
    <3> QED
      BY <2>2, <2>8, <3>1, <3>2 DEF Externals
  <2> QED
    BY <2>1, <2>3, <2>8 DEF ExternalsInv
<1>4. ASSUME UNCHANGED <<prog, shared, synthetic, emitted>>, phase \in {"externals", "done", "panicked"},
             phase' \in {"externals", "done", "panicked"}, phase' = "done" => Undefined = {}
      PROVE  ExternalsInv'
  <2>1. /\ Needed' = Needed /\ Undefined' = Undefined /\ Externals' = Externals
        /\ \A t : ExternalBody(t)' = ExternalBody(t)
    BY <1>4 DEF Needed, ClosedTexts, Missing, Mentioned, Written, Emitted, Excluded, ExternalBody,
       ExternalTexts, BodyRefs, Undefined, References, ItemTexts, Externals
  <2> QED
    BY <1>4, <2>1 DEF ExternalsInv
<1>5. CASE TooManyIterations \/ Finish
  BY <1>4, <1>5 DEF TooManyIterations, Finish
<1>6. CASE UNCHANGED vars /\ phase \in {"externals", "done", "panicked"}
  BY <1>4, <1>6 DEF vars, ExternalsInv
<1>7. CASE phase \in {"externals", "done", "panicked"} /\ Next
         /\ ~ (ClaimExternals \/ TooManyIterations \/ Finish)
  BY <1>7 DEF Next, NextPass, ParseFile, ParseFails, CollectAsk, CollectTypes, AnalyzeAny, FinishAny, ResolveAsk,
     FinishResolve, RegisterStructs, ConvertAsk, FinishItem, ItemFails, FinishTransform
<1> QED
  BY <1>2, <1>3, <1>5, <1>6, <1>7

(* When nothing is undefined, the external types are closed under what     *)
(* they and the items mention, so they are all that is needed.             *)
LEMMA NothingMissing ==
    ASSUME ExternalsInv, phase = "done"
    PROVE  {n.text : n \in Externals} = Needed
<1> DEFINE E == {n.text : n \in Externals}
<1>1. \A n \in Externals : /\ n = PlainName(n.text) /\ n.text \in Needed
                           /\ synthetic.types[n].body = ExternalBody(n.text)
  BY DEF ExternalsInv
<1>2. E \subseteq Needed
  BY <1>1
<1>3. ASSUME NEW t \in References, t \in Missing
      PROVE  t \in E
  <2>1. t \in ItemTexts
    BY <1>3 DEF ExternalsInv, Undefined, Missing
  <2>2. PICK m \in DOMAIN synthetic.types : m.id = Plain /\ ~m.impl /\ m.text = t
    BY <2>1 DEF ItemTexts
  <2>3. m \notin Written
    BY <1>3, <2>2 DEF Missing
  <2> QED
    BY <2>2, <2>3 DEF Written, Externals
<1>4. Mentioned \subseteq References
  BY DEF Mentioned, References, Written
<1>5. ASSUME NEW t \in E
      PROVE  BodyRefs(ExternalBody(t)) \subseteq References
  <2>1. PICK n \in Externals : n.text = t
    BY <1>5
  <2>2. synthetic.types[n].body = ExternalBody(t) /\ n \in DOMAIN synthetic.types
    BY <1>1, <2>1 DEF Externals
  <2>3. BodyRefs(synthetic.types[n].body) \subseteq References
    BY <2>2, MentionedBy
  <2> QED
    BY <2>2, <2>3
<1> HIDE DEF E
<1>6. ClosedTexts(E)
  BY <1>3, <1>4, <1>5 DEF ClosedTexts
<1>7. E \in SUBSET Missing
  BY <1>2 DEF Needed
<1>8. Needed \subseteq E
  BY <1>6, <1>7 DEF Needed
<1> QED
  BY <1>2, <1>8 DEF E

(* Every external type in a reachable state is needed, as the fixpoint     *)
(* goes on and when it has ended.                                          *)
THEOREM ExternalTypesHold == Spec => []ExternalsInv
<1>1. Init => ExternalsInv
  <2>1. ASSUME Init PROVE ExternalsInv
    <3>1. AllRegs = {BaseSyn, NewRegistry} /\ phase = "parse"
      BY <2>1 DEF AllRegs, Init, Range
    <3>2. NoExternal(BaseSyn)
      BY PipelineAssumption DEF NoExternal
    <3>3. NoExternal(NewRegistry)
      BY DEF NewRegistry, Empty, NoExternal
    <3> QED
      BY <3>1, <3>2, <3>3 DEF ExternalsInv
  <2> QED
    BY <2>1
<1>2. TypeInv /\ ExternalsInv /\ [Next]_vars => ExternalsInv'
  BY ExternalsStep
<1> QED
  BY <1>1, <1>2, TypesHold, PTL DEF Spec

-----------------------------------------------------------------------------
(* The name of a union of a declaration comes back to the item when it is  *)
(* transformed.                                                            *)
UnionNamed(q, H) == q.kind = "union" => \E h \in H : h.name = FreshUnionName(q.parts)

Signature(f, i) == prog[f].items[i].sig

CollectedInv ==
    /\ \A x \in collected :
          /\ x.file \in 1 .. NFiles /\ x.item \in DOMAIN prog[x.file].items
          /\ x.ask \in 1 .. Len(Signature(x.file, x.item))
          /\ x.answer.kind = Signature(x.file, x.item)[x.ask].kind
          /\ x.answer.kind = "union" =>
                x.answer.name = FreshUnionName(Signature(x.file, x.item)[x.ask].parts)
    /\ (phase = "transform" /\ InItem) =>
          \A k \in 1 .. Len(Here.sig) : k < ask => UnionNamed(Here.sig[k], pending)
    /\ \A f \in 1 .. NFiles : \A i \in DOMAIN prog[f].items : <<f, i>> \in emitted =>
          \A k \in 1 .. Len(Signature(f, i)) : UnionNamed(Signature(f, i)[k], handed)

(* A union's answer has the name of its variants.                          *)
LEMMA AnswerNamed ==
    ASSUME NEW r, Good(r), NEW q \in Requests
    PROVE  /\ Answer(r, q).kind = q.kind
           /\ q.kind = "union" => Answer(r, q).name = FreshUnionName(q.parts)
<1>1. Answer(r, q).kind = q.kind /\ Answer(r, q).name = NameFor(r, q)
  BY DEF Answer
<1>2. ASSUME q.kind = "union" PROVE NameFor(r, q) = FreshUnionName(q.parts)
  <2>1. FreshUnionName(q.parts) = PlainName(UnionText[VariantsOf(UnionKey(q.parts).parts)])
    BY RequestTypes, DedupKeepsVariants DEF FreshUnionName
  <2>2. UnionKey(q.parts) \in DOMAIN r.unionDedup =>
           r.unionDedup[UnionKey(q.parts)] = FreshUnionName(q.parts)
    BY <2>1 DEF Good, NamedByVariants, UnionKey
  <2> QED
    BY <1>2, <2>2 DEF NameFor, UnionName
<1> QED
  BY <1>1, <1>2

(* Every step keeps it so.                                                 *)
LEMMA CollectedStep ==
    ASSUME TypeInv, CollectedInv, [Next]_vars
    PROVE  CollectedInv'
<1>1. /\ Control /\ prog \in Programs /\ NFiles \in Nat /\ Good(work) /\ Good(local)
      /\ item \in Nat \ {0} /\ ask \in Nat \ {0}
  BY FileTyped DEF TypeInv, Control, AllRegs
<1>2. /\ prog' = prog => NFiles' = NFiles /\ \A f, i : Signature(f, i)' = Signature(f, i)
  BY DEF NFiles, Signature
<1>3. \A q, G, H : UnionNamed(q, G) /\ G \subseteq H => UnionNamed(q, H)
  BY DEF UnionNamed
<1>4. ASSUME prog' = prog, collected' = collected, emitted' = emitted, handed' = handed,
             (phase' = "transform" /\ InItem') =>
                 (ask' = 1 \/ (phase = "transform" /\ InItem /\ Here' = Here /\ ask' = ask
                                 /\ pending' = pending))
      PROVE  CollectedInv'
  <2>1. (phase' = "transform" /\ InItem') =>
            \A k \in 1 .. Len(Here'.sig) : k < ask' => UnionNamed(Here'.sig[k], pending')
    BY <1>4 DEF CollectedInv
  <2> QED
    BY <1>2, <1>4, <2>1 DEF CollectedInv, UnionNamed
<1>5. CASE CollectAsk /\ ask <= Len(Here.sig)
  <2> DEFINE q == Here.sig[ask]
             a == Answer(work, q)
             x == [file |-> file, item |-> item, ask |-> ask, answer |-> a]
  <2>1. /\ prog' = prog /\ phase' = "collect" /\ emitted' = emitted /\ handed' = handed
        /\ collected' = collected \cup {x}
    BY <1>5 DEF CollectAsk
  <2>2. /\ file \in 1 .. NFiles /\ item \in DOMAIN prog[file].items
        /\ ask \in 1 .. Len(Signature(file, item)) /\ q = Signature(file, item)[ask]
        /\ q \in Requests
    BY <1>1, <1>5, HereTyped, AskTyped DEF CollectAsk, Signature, Here
  <2>3. a.kind = q.kind /\ (q.kind = "union" => a.name = FreshUnionName(q.parts))
    BY <1>1, <2>2, AnswerNamed
  <2>4. x.file = file /\ x.item = item /\ x.ask = ask /\ x.answer = a
    OBVIOUS
  <2> HIDE DEF x, a, q
  <2>5. ASSUME NEW y \in collected'
        PROVE  /\ y.file \in 1 .. NFiles /\ y.item \in DOMAIN prog[y.file].items
               /\ y.ask \in 1 .. Len(Signature(y.file, y.item))
               /\ y.answer.kind = Signature(y.file, y.item)[y.ask].kind
               /\ y.answer.kind = "union" =>
                     y.answer.name = FreshUnionName(Signature(y.file, y.item)[y.ask].parts)
    <3>1. CASE y \in collected
      BY <3>1 DEF CollectedInv
    <3>2. CASE y = x
      BY <2>2, <2>3, <2>4, <3>2
    <3> QED
      BY <2>1, <3>1, <3>2
  <2> QED
    BY <1>2, <2>1, <2>5 DEF CollectedInv, UnionNamed
<1>6. CASE ConvertAsk
  <2> DEFINE q == Here.sig[ask]
  <2>1. /\ prog' = prog /\ phase' = "transform" /\ collected' = collected /\ emitted' = emitted
        /\ handed' = handed /\ Here' = Here /\ ask' = ask + 1 /\ phase = "transform" /\ InItem
    BY <1>6 DEF ConvertAsk, NextAsk, Here
  <2>2. q \in Requests
    BY <1>1, <1>6, AskTyped DEF ConvertAsk
  <2>3. \E r \in {work, local} : pending' = pending \cup {Answer(r, q)}
    BY <1>6 DEF ConvertAsk
  <2>4. pending \subseteq pending' /\ UnionNamed(q, pending')
    BY <1>1, <2>2, <2>3, AnswerNamed DEF UnionNamed
  <2>5. q = Here.sig[ask]
    OBVIOUS
  <2> HIDE DEF q
  <2>6. ASSUME NEW k \in 1 .. Len(Here.sig), k < ask + 1
        PROVE  UnionNamed(Here.sig[k], pending')
    <3>1. k < ask \/ k = ask
      BY <1>1, <2>6
    <3> QED
      BY <1>3, <2>1, <2>4, <2>5, <3>1 DEF CollectedInv
  <2> QED
    BY <1>2, <2>1, <2>6 DEF CollectedInv, UnionNamed
<1>7. CASE FinishItem
  <2>1. /\ prog' = prog /\ collected' = collected /\ emitted' = emitted \cup {<<file, item>>}
        /\ pending \subseteq handed' /\ handed \subseteq handed' /\ ask' = 1
        /\ phase = "transform" /\ InItem /\ ask > Len(Here.sig)
    BY <1>7 DEF FinishItem, NextItem
  <2>2. Here.sig = Signature(file, item) /\ Len(Here.sig) \in Nat
    BY <1>1, <2>1, HereTyped DEF Signature, Here
  <2>3. \A k \in 1 .. Len(Here.sig) : k < ask
    BY <1>1, <2>1, <2>2
  <2>4. \A k \in 1 .. Len(Signature(file, item)) : UnionNamed(Signature(file, item)[k], handed')
    BY <1>3, <2>1, <2>2, <2>3 DEF CollectedInv
  <2>5. \A f \in 1 .. NFiles : \A i \in DOMAIN prog[f].items : <<f, i>> \in emitted' =>
            \A k \in 1 .. Len(Signature(f, i)) : UnionNamed(Signature(f, i)[k], handed')
    BY <1>3, <2>1, <2>4 DEF CollectedInv
  <2>6. \A k \in 1 .. Len(Here'.sig) : ~ (k < ask')
    BY <2>1
  <2> QED
    BY <1>2, <2>1, <2>5, <2>6 DEF CollectedInv, UnionNamed
<1>8. CASE CollectAsk /\ ~ (ask <= Len(Here.sig))
  BY <1>4, <1>8 DEF CollectAsk
<1>9. CASE NextPass
  BY <1>4, <1>9 DEF NextPass
<1>10. CASE ParseFile \/ ParseFails \/ CollectTypes \/ AnalyzeAny \/ FinishAny
  BY <1>4, <1>10 DEF ParseFile, ParseFails, CollectTypes, AnalyzeAny, FinishAny
<1>11. CASE ResolveAsk \/ FinishResolve \/ RegisterStructs
  BY <1>4, <1>11 DEF ResolveAsk, FinishResolve, RegisterStructs
<1>12. CASE ItemFails \/ FinishTransform
  BY <1>4, <1>12 DEF ItemFails, FinishTransform, NextItem, NextFile
<1>13. CASE ClaimExternals \/ TooManyIterations \/ Finish
  BY <1>4, <1>13 DEF ClaimExternals, TooManyIterations, Finish
<1>14. CASE UNCHANGED vars
  BY <1>4, <1>14 DEF vars, cursor, InItem, Here, NFiles
<1> QED
  BY <1>5, <1>6, <1>7, <1>8, <1>9, <1>10, <1>11, <1>12, <1>13, <1>14 DEF Next

(* CollectedUnionsDefined, for every program: a union's name that stands   *)
(* in a declared type is defined in the output if the declaration is in    *)
(* it, although the registry that gave the name is gone.                   *)
THEOREM CollectedUnionsHold == Spec => []CollectedUnionsDefined
<1>1. Init => CollectedInv
  BY DEF Init, CollectedInv
<1>2. TypeInv /\ CollectedInv /\ [Next]_vars => CollectedInv'
  BY CollectedStep
<1>3. CollectedInv /\ NamedInv => CollectedUnionsDefined
  <2>1. ASSUME CollectedInv, NamedInv, phase = "done", NEW x \in collected,
               x.answer.kind = "union", <<x.file, x.item>> \in emitted
        PROVE  x.answer.name \in DOMAIN synthetic.types
    <3> DEFINE q == Signature(x.file, x.item)[x.ask]
    <3>1. UnionNamed(q, handed) /\ q.kind = "union" /\ x.answer.name = FreshUnionName(q.parts)
      BY <2>1 DEF CollectedInv
    <3>2. PICK h \in handed : h.name = x.answer.name
      BY <3>1 DEF UnionNamed
    <3> QED
      BY <2>1, <3>2 DEF NamedInv, HandedNamed
  <2> QED
    BY <2>1 DEF CollectedUnionsDefined
<1> QED
  BY <1>1, <1>2, <1>3, TypesHold, NamesHold, PTL DEF Spec

-----------------------------------------------------------------------------
(* What the iterations find: Found, unfolded.                              *)
Further(S) == S \cup ((UNION {BodyRefs(ExternalBody(t)) : t \in S}) \cap Missing)

FoundStep(k, g) == IF k = 0 THEN Mentioned \cap Missing ELSE Further(g[k - 1])

Number == [n \in Nat |-> n]

OfFound == INSTANCE Recursion WITH S <- Nat, H <- Number, Step <- FoundStep

FoundRuns ==
    Found[0] = Mentioned \cap Missing /\ \A k \in Nat : Found[k + 1] = Further(Found[k])

(* Found is what its definition says.                                      *)
LEMMA FoundIs == FoundRuns
<1>1. Number \in [Nat -> Nat] /\ \A n \in Nat : Number[n] = n
  BY DEF Number
<1>2. ASSUME NEW n \in Nat, NEW g, NEW h, \A y \in Nat : Number[y] < Number[n] => g[y] = h[y]
      PROVE  FoundStep(n, g) = FoundStep(n, h)
  <2>1. n # 0 => n - 1 \in Nat /\ n - 1 < n
    OBVIOUS
  <2>2. n # 0 => g[n - 1] = h[n - 1]
    BY <1>1, <1>2, <2>1
  <2> QED
    BY <2>2 DEF FoundStep
<1>3. OfFound!LooksDown
  BY <1>2 DEF OfFound!LooksDown
<1>4. \E f : f = [n \in Nat |-> FoundStep(n, f)]
  BY <1>1, <1>3, OfFound!Exists
<1>5. Found = [n \in Nat |-> FoundStep(n, Found)]
  BY <1>4, Zenon DEF Found, FoundStep, Further
<1> HIDE DEF Found
<1>6. \A n \in Nat : Found[n] = FoundStep(n, Found)
  BY <1>5
<1>7. ASSUME NEW k \in Nat PROVE Found[k + 1] = Further(Found[k])
  <2>1. k + 1 \in Nat /\ k + 1 # 0 /\ (k + 1) - 1 = k
    OBVIOUS
  <2> QED
    BY <1>6, <2>1 DEF FoundStep
<1> QED
  BY <1>6, <1>7 DEF FoundRuns, FoundStep

(* What holds of no iterations and of one more than it holds of.           *)
LEMMA Iterations ==
    ASSUME NEW P, 0 \in P, \A n \in Nat : n \in P => n + 1 \in P
    PROVE  Nat \subseteq P
<1>1. Number \in [Nat -> Nat] /\ \A n \in Nat : Number[n] = n
  BY DEF Number
<1>2. ASSUME NEW n \in Nat, \A m \in Nat : Number[m] < Number[n] => m \in P
      PROVE  n \in P
  <2>1. CASE n # 0
    <3>1. n - 1 \in Nat /\ n - 1 < n /\ (n - 1) + 1 = n
      BY <2>1
    <3>2. n - 1 \in P
      BY <1>1, <1>2, <3>1
    <3> QED
      BY <3>1, <3>2
  <2> QED
    BY <2>1
<1> QED
  BY <1>1, <1>2, OfFound!Induct

(* Iterations find more and more, and never what is not needed.            *)
LEMMA FoundGrows ==
    /\ \A k \in Nat : Found[0] \subseteq Found[k] /\ Found[k] \subseteq Needed
    /\ \A m, n \in Nat : m <= n => Found[m] \subseteq Found[n]
<1>1. Found[0] = Mentioned \cap Missing /\ \A k \in Nat : Found[k + 1] = Further(Found[k])
  BY FoundIs DEF FoundRuns
<1> HIDE DEF Found
<1>2. \A k \in Nat : Found[k] \subseteq Found[k + 1]
  BY <1>1 DEF Further
<1>3. ASSUME NEW S, S \subseteq Needed
      PROVE  Further(S) \subseteq Needed
  <2>1. SUFFICES ASSUME NEW t \in S, NEW u \in BodyRefs(ExternalBody(t)), u \in Missing
                 PROVE  u \in Needed
    BY <1>3 DEF Further
  <2>2. t \in Needed
    BY <1>3
  <2>3. ASSUME NEW R \in SUBSET Missing, ClosedTexts(R) PROVE u \in R
    <3>1. t \in R
      BY <2>2, <2>3 DEF Needed
    <3> QED
      BY <2>1, <2>3, <3>1 DEF ClosedTexts
  <2> QED
    BY <2>1, <2>3 DEF Needed
<1>4. Found[0] \subseteq Needed
  BY <1>1 DEF Needed, ClosedTexts
<1>5. \A k \in Nat : Found[0] \subseteq Found[k] /\ Found[k] \subseteq Needed
  <2> DEFINE P == {k \in Nat : Found[0] \subseteq Found[k] /\ Found[k] \subseteq Needed}
  <2>1. 0 \in P
    BY <1>4
  <2>2. \A n \in Nat : n \in P => n + 1 \in P
    BY <1>1, <1>2, <1>3
  <2> HIDE DEF P
  <2>3. Nat \subseteq P
    BY <2>1, <2>2, Iterations
  <2> QED
    BY <2>3 DEF P
<1>6. ASSUME NEW m \in Nat
      PROVE  \A n \in Nat : m <= n => Found[m] \subseteq Found[n]
  <2> DEFINE P == {n \in Nat : m <= n => Found[m] \subseteq Found[n]}
  <2>1. 0 \in P
    BY <1>6
  <2>2. ASSUME NEW n \in Nat, n \in P PROVE n + 1 \in P
    <3>1. m <= n + 1 => m <= n \/ m = n + 1
      BY <1>6
    <3> QED
      BY <1>2, <2>2, <3>1
  <2> HIDE DEF P
  <2>3. Nat \subseteq P
    BY <2>1, <2>2, Iterations
  <2> QED
    BY <2>3 DEF P
<1> QED
  BY <1>5, <1>6

(* The external types that are written are those of the iterations that    *)
(* were made.                                                              *)
ExternalsWritten == {n.text : n \in Externals}

DepthInv ==
    /\ rounds \in 0 .. MaxIterations
    /\ phase \notin {"externals", "done", "panicked"} => rounds = 0
    /\ phase \in {"externals", "done", "panicked"} =>
          ExternalsWritten = IF rounds = 0 THEN {} ELSE Found[rounds - 1]
    /\ phase = "panicked" => rounds = MaxIterations /\ Undefined # {}

(* What is undefined is what is mentioned, also by what has been found,    *)
(* and has not been written.                                               *)
LEMMA UndefinedIs ==
    ASSUME ExternalsInv, phase \in {"externals", "done", "panicked"}
    PROVE  Undefined = ((Mentioned \cap Missing) \cup Further(ExternalsWritten)) \ ExternalsWritten
<1>1. \A n \in Externals : /\ n = PlainName(n.text) /\ n.text \in Missing
                           /\ synthetic.types[n].body = ExternalBody(n.text)
  BY DEF ExternalsInv, Needed
<1>2. ASSUME NEW t \in Missing
      PROVE  t \in ItemTexts <=> t \in ExternalsWritten
  <2>1. ASSUME t \in ItemTexts PROVE t \in ExternalsWritten
    <3>1. PICK m \in DOMAIN synthetic.types : m.id = Plain /\ ~m.impl /\ m.text = t
      BY <2>1 DEF ItemTexts
    <3>2. m \notin Written
      BY <1>2, <3>1 DEF Missing
    <3> QED
      BY <3>1, <3>2 DEF Written, Externals, ExternalsWritten
  <2>2. ASSUME t \in ExternalsWritten PROVE t \in ItemTexts
    <3>1. PICK n \in Externals : n.text = t
      BY <2>2 DEF ExternalsWritten
    <3>2. n = PlainName(t) /\ n \in DOMAIN synthetic.types
      BY <1>1, <3>1 DEF Externals
    <3>3. n.id = Plain /\ ~ n.impl
      BY <3>2 DEF PlainName, Numbered
    <3> QED
      BY <3>1, <3>2, <3>3 DEF ItemTexts
  <2> QED
    BY <2>1, <2>2
<1>3. Undefined = {t \in References \cap Missing : t \notin ItemTexts}
  BY DEF Undefined, Missing, ItemTexts, Written
<1>4. \A t : t \in References <=>
                t \in Mentioned \/ \E n \in Externals : t \in BodyRefs(synthetic.types[n].body)
  <2>1. \A n : n \in DOMAIN synthetic.types <=> n \in Written \/ n \in Externals
    BY DEF Written, Externals
  <2> QED
    BY <2>1, MentionedBy
<1>5. ASSUME NEW t \in Missing
      PROVE  t \in Further(ExternalsWritten) <=>
                \/ t \in ExternalsWritten
                \/ \E n \in Externals : t \in BodyRefs(synthetic.types[n].body)
  <2> DEFINE R(u) == BodyRefs(ExternalBody(u))
  <2>1. t \in Further(ExternalsWritten) <=>
           t \in ExternalsWritten \/ \E u \in ExternalsWritten : t \in R(u)
    BY <1>5 DEF Further
  <2>2. (\E u \in ExternalsWritten : t \in R(u)) <=> \E n \in Externals : t \in R(n.text)
    <3> HIDE DEF R
    <3> QED
      BY DEF ExternalsWritten
  <2>3. \A n \in Externals : BodyRefs(synthetic.types[n].body) = R(n.text)
    BY <1>1
  <2> HIDE DEF R
  <2> QED
    BY <2>1, <2>2, <2>3
<1>6. Further(ExternalsWritten) \subseteq Missing
  BY <1>1 DEF Further, ExternalsWritten
<1> QED
  BY <1>2, <1>3, <1>4, <1>5, <1>6

(* Every iteration writes what the next of Found has beyond the last.      *)
LEMMA DepthStep ==
    ASSUME TypeInv, ExternalsInv, DepthInv, [Next]_vars, FoundRuns, FoundRuns'
    PROVE  DepthInv'
<1>1. Control /\ IsRegistry(synthetic) /\ rounds \in Nat /\ MaxIterations \in Nat \ {0}
  BY PipelineAssumption DEF TypeInv, Control, Good, AllRegs
<1>2. ASSUME Mentioned' = Mentioned, Missing' = Missing, \A t : ExternalBody(t)' = ExternalBody(t)
      PROVE  /\ \A S : Further(S)' = Further(S)
             /\ \A k \in Nat : Found'[k] = Found[k]
  <2>1. \A S : Further(S)' = Further(S)
    BY <1>2 DEF Further, BodyRefs
  <2> DEFINE P == {k \in Nat : Found'[k] = Found[k]}
  <2>2. 0 \in P
    BY <1>2 DEF FoundRuns
  <2>3. \A n \in Nat : n \in P => n + 1 \in P
    BY <2>1 DEF FoundRuns
  <2> HIDE DEF P
  <2>4. Nat \subseteq P
    BY <2>2, <2>3, Iterations
  <2> QED
    BY <2>1, <2>4 DEF P
<1>3. CASE ClaimExternals
  <2>1. /\ phase = "externals" /\ phase' = phase /\ rounds' = rounds + 1 /\ rounds < MaxIterations
    BY <1>3 DEF ClaimExternals
  <2>2. /\ Missing' = Missing /\ Mentioned' = Mentioned
        /\ \A t : ExternalBody(t)' = ExternalBody(t)
    BY <1>3, Claiming
  <2>3. \A k \in Nat : Found'[k] = Found[k]
    BY <1>2, <2>2
  <2>4. ExternalsWritten' = ExternalsWritten \cup Undefined
    <3>1. /\ \A n \in DOMAIN Claims : n.text \in Undefined /\ Claims[n].kind = "External"
          /\ \A t \in Undefined : PlainName(t) \in DOMAIN Claims /\ PlainName(t).text = t
      BY <1>1, <1>3, Claiming, ClaimsTyped DEF PlainName, Numbered
    <3>2. /\ \A n : n \in DOMAIN synthetic'.types <=> n \in DOMAIN synthetic.types \/ n \in DOMAIN Claims
          /\ \A n \in DOMAIN synthetic.types : synthetic'.types[n] = synthetic.types[n]
          /\ \A n \in DOMAIN Claims : synthetic'.types[n] = Claims[n]
      BY <1>3, Claiming
    <3>3. \A n : n \in Externals' <=> n \in Externals \/ n \in DOMAIN Claims
      BY <3>1, <3>2 DEF Externals
    <3>4. \A t : t \in ExternalsWritten' <=> \E n \in Externals' : n.text = t
      BY DEF ExternalsWritten
    <3>5. \A t : t \in ExternalsWritten <=> \E n \in Externals : n.text = t
      BY DEF ExternalsWritten
    <3> QED
      BY <3>1, <3>3, <3>4, <3>5
  <2>5. ExternalsWritten' = (Mentioned \cap Missing) \cup Further(ExternalsWritten)
    <3>1. ExternalsWritten \subseteq Further(ExternalsWritten)
      BY DEF Further
    <3> QED
      BY <2>1, <2>4, <3>1, UndefinedIs
  <2>6. ExternalsWritten' = Found[rounds]
    <3>1. CASE rounds = 0
      <4>1. ExternalsWritten = {}
        BY <2>1, <3>1 DEF DepthInv
      <4>2. Further({}) = {}
        BY DEF Further
      <4> QED
        BY <2>5, <3>1, <4>1, <4>2 DEF FoundRuns
    <3>2. CASE rounds # 0
      <4>1. ExternalsWritten = Found[rounds - 1] /\ rounds - 1 \in Nat /\ (rounds - 1) + 1 = rounds
        BY <1>1, <2>1, <3>2 DEF DepthInv
      <4>2. Found[rounds] = Further(Found[rounds - 1])
        BY <4>1 DEF FoundRuns
      <4>3. Mentioned \cap Missing \subseteq Found[rounds]
        BY <1>1, FoundGrows DEF FoundRuns
      <4> QED
        BY <2>5, <4>1, <4>2, <4>3
    <3> QED
      BY <3>1, <3>2
  <2>7. rounds' \in 0 .. MaxIterations /\ rounds' # 0 /\ rounds' - 1 = rounds
    BY <1>1, <2>1
  <2> QED
    BY <1>1, <2>1, <2>3, <2>6, <2>7 DEF DepthInv
<1>4. ASSUME UNCHANGED <<prog, shared, synthetic, emitted, rounds>>,
             phase \in {"externals", "done", "panicked"}, phase' \in {"externals", "done", "panicked"},
             phase' = "panicked" => rounds = MaxIterations /\ Undefined # {}
      PROVE  DepthInv'
  <2>1. /\ Mentioned' = Mentioned /\ Missing' = Missing /\ \A t : ExternalBody(t)' = ExternalBody(t)
        /\ Undefined' = Undefined /\ ExternalsWritten' = ExternalsWritten
    BY <1>4 DEF Missing, Mentioned, Written, Emitted, Excluded, ExternalBody, ExternalTexts, BodyRefs,
       Undefined, References, ItemTexts, Externals, ExternalsWritten
  <2>2. \A k \in Nat : Found'[k] = Found[k]
    BY <1>2, <2>1
  <2>3. rounds # 0 => rounds - 1 \in Nat
    BY <1>1
  <2> QED
    BY <1>4, <2>1, <2>2, <2>3 DEF DepthInv
<1>5. CASE TooManyIterations \/ Finish
  BY <1>4, <1>5 DEF TooManyIterations, Finish
<1>6. CASE UNCHANGED vars /\ phase \in {"externals", "done", "panicked"}
  BY <1>4, <1>6 DEF vars, DepthInv
<1>7. CASE NextPass /\ phase = "transform"
  <2>1. phase' = "externals" /\ synthetic' = synthetic /\ rounds' = rounds /\ rounds = 0
    BY <1>7, AfterIs DEF NextPass, DepthInv
  <2>2. NoExternal(synthetic)
    BY <1>7 DEF ExternalsInv, AllRegs
  <2>3. ExternalsWritten' = {}
    BY <2>1, <2>2 DEF ExternalsWritten, Externals, NoExternal
  <2> QED
    BY <1>1, <2>1, <2>3 DEF DepthInv
<1>8. ASSUME phase \notin {"externals", "done", "panicked"},
             phase' \notin {"externals", "done", "panicked"}, rounds' = rounds
      PROVE  DepthInv'
  BY <1>8 DEF DepthInv
<1>9. CASE NextPass /\ phase # "transform"
  BY <1>1, <1>8, <1>9, AfterIs DEF NextPass, Control, Phases
<1>10. CASE ParseFile \/ ParseFails \/ CollectAsk \/ CollectTypes \/ AnalyzeAny \/ FinishAny
  BY <1>8, <1>10 DEF ParseFile, ParseFails, CollectAsk, CollectTypes, AnalyzeAny, FinishAny
<1>11. CASE ResolveAsk \/ FinishResolve \/ RegisterStructs
  BY <1>8, <1>11 DEF ResolveAsk, FinishResolve, RegisterStructs
<1>12. CASE ConvertAsk \/ FinishItem \/ ItemFails \/ FinishTransform
  BY <1>8, <1>12 DEF ConvertAsk, FinishItem, ItemFails, FinishTransform
<1>13. CASE UNCHANGED vars /\ phase \notin {"externals", "done", "panicked"}
  BY <1>8, <1>13 DEF vars
<1> QED
  BY <1>3, <1>5, <1>6, <1>7, <1>9, <1>10, <1>11, <1>12, <1>13 DEF Next

(* With as many iterations as are allowed everything is found, or else     *)
(* something is left over and the assertion fails.                         *)
LEMMA DepthDecides ==
    ASSUME ExternalsInv, DepthInv
    PROVE  PanicsOnlyOnDepth
<1>1. rounds \in 0 .. MaxIterations /\ MaxIterations \in Nat \ {0} /\ MaxIterations - 1 \in Nat
  BY PipelineAssumption DEF DepthInv
<1>2. CASE phase = "panicked"
  <2>1. rounds = MaxIterations /\ Undefined # {} /\ ExternalsWritten = Found[MaxIterations - 1]
    BY <1>1, <1>2 DEF DepthInv
  <2>2. PICK t \in Undefined : t \notin ExternalsWritten
    BY <1>2, <2>1, UndefinedIs
  <2>3. t \in Needed
    BY <1>2, UndefinedIsNeeded
  <2> QED
    BY <1>2, <2>1, <2>2, <2>3 DEF PanicsOnlyOnDepth
<1>3. CASE phase = "done"
  <2>1. ExternalsWritten = Needed
    BY <1>3, NothingMissing DEF ExternalsWritten
  <2>2. Found[MaxIterations - 1] \subseteq Needed
    BY <1>1, FoundGrows
  <2>3. CASE rounds = 0
    BY <1>3, <2>1, <2>2, <2>3 DEF PanicsOnlyOnDepth, DepthInv
  <2>4. CASE rounds # 0
    <3>1. ExternalsWritten = Found[rounds - 1] /\ rounds - 1 \in Nat /\ rounds - 1 <= MaxIterations - 1
      BY <1>1, <1>3, <2>4 DEF DepthInv
    <3>2. Found[rounds - 1] \subseteq Found[MaxIterations - 1]
      BY <1>1, <3>1, FoundGrows
    <3> QED
      BY <1>3, <2>1, <2>2, <3>1, <3>2 DEF PanicsOnlyOnDepth
  <2> QED
    BY <2>3, <2>4
<1> QED
  BY <1>2, <1>3 DEF PanicsOnlyOnDepth

(* ExternalsAreClosure, for every program and every bound: the output has  *)
(* exactly the external types that something in it needs, directly or      *)
(* through other external types, and the assertion on the number of        *)
(* iterations fails if and only if these refer to one another more deeply  *)
(* than the bound.                                                         *)
THEOREM ExternalsHold == Spec => []ExternalsAreClosure
<1>1. Init => DepthInv
  <2>1. ASSUME Init PROVE DepthInv
    BY <2>1, PipelineAssumption DEF Init, DepthInv
  <2> QED
    BY <2>1
<1>2. TypeInv /\ ExternalsInv /\ DepthInv /\ FoundRuns /\ FoundRuns' /\ [Next]_vars => DepthInv'
  BY DepthStep
<1>3. ExternalsInv /\ DepthInv => ExternalsAreClosure
  BY NothingMissing, DepthDecides DEF ExternalsAreClosure, EndsWithClosure, Externals
<1> QED
  BY <1>1, <1>2, <1>3, FoundIs, TypesHold, ExternalTypesHold, PTL DEF Spec
=============================================================================
