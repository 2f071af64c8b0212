----------------------- MODULE SyntheticRegistryProofs -----------------------
(* Proofs about SyntheticRegistry for every set of requests. *)
EXTENDS SyntheticRegistry, SyntheticTypesProofs

-----------------------------------------------------------------------------
(* Types, the soundness of the names and the bookkeeping of what was       *)
(* handed out: what TypeOK and StructRefsDenote follow from.               *)
AnswersRecorded(r, answers) ==
    \A h \in answers :
        /\ h.kind = "struct" => h.asked \in DOMAIN r.structDedup
                                  /\ r.structDedup[h.asked] = h.name
        /\ h.kind = "intersection" => h.asked \in DOMAIN r.enumDedup
                                  /\ r.enumDedup[h.asked] = h.name

AnswerSet == [kind : RequestKinds, asked : Bodies, name : Names]

(* The invariant, in the parts the steps establish.                        *)
LEMMA NumberedInvParts ==
    NumberedInv <=> /\ Sound(reg)
             /\ handed \subseteq AnswerSet
             /\ saved \in Seq(SUBSET Texts)
             /\ AnswersRecorded(reg, handed)
BY DEF NumberedInv, TypeOK, Sound, AnswersRecorded, AnswerSet

(* A registration that keeps what is numbered keeps the answers recorded.  *)
LEMMA KeepsAnswers ==
    ASSUME NEW r, NEW q, NEW answers, Keeps(r, q), AnswersRecorded(r, answers)
    PROVE  AnswersRecorded(q, answers)
BY DEF Keeps, AnswersRecorded

(* An answer is a request kind, the parts asked for and a name.            *)
LEMMA AnswerTypes ==
    ASSUME NEW k \in RequestKinds, NEW b \in Bodies, NEW n \in Names
    PROVE  Answer(k, b, n) \in AnswerSet
BY DEF Answer, AnswerSet

(* Initially nothing is registered.                                        *)
LEMMA InitNumbered == Init => NumberedInv
<1> SUFFICES ASSUME Init PROVE NumberedInv
  OBVIOUS
<1>1. Sound(reg)
  <2>1. /\ reg = [types |-> reg.types, unionDedup |-> reg.unionDedup,
                  structDedup |-> reg.structDedup, enumDedup |-> reg.enumDedup,
                  structCtr |-> reg.structCtr, synCtr |-> reg.synCtr, scope |-> reg.scope]
        /\ reg.types = Empty /\ reg.unionDedup = Empty
        /\ reg.structDedup = Empty /\ reg.enumDedup = Empty
        /\ reg.structCtr = 0 /\ reg.synCtr = 0 /\ reg.scope = {}
    BY DEF Init, NewRegistry
  <2>2. DOMAIN Empty = {} /\ Empty = [x \in DOMAIN Empty |-> Empty[x]]
    BY DEF Empty
  <2>3. \A S, T : IsMap(Empty, S, T)
    BY <2>2 DEF IsMap
  <2>4. IsRegistry(reg)
    BY <2>1, <2>3 DEF IsRegistry
  <2> QED
    BY <2>1, <2>2, <2>4 DEF Sound, Recorded, NumbersBelow
<1>2. handed = {} /\ saved = <<>>
  BY DEF Init
<1>3. saved \in Seq(SUBSET Texts)
  BY <1>2
<1>4. handed \subseteq AnswerSet /\ AnswersRecorded(reg, handed)
  BY <1>2 DEF AnswersRecorded
<1> QED
  BY <1>1, <1>3, <1>4, NumberedInvParts

(* What a registration has to do for the invariant to survive it: keep     *)
(* what is numbered and record the answer when it is about a numbered one. *)
LEMMA RegistrationStep ==
    ASSUME NumberedInv, Sound(reg'), Keeps(reg, reg'), NEW new \in SUBSET AnswerSet,
           handed' = handed \cup new, AnswersRecorded(reg', new),
           saved' \in Seq(SUBSET Texts)
    PROVE  NumberedInv'
<1>1. AnswersRecorded(reg, handed) /\ handed \subseteq AnswerSet
  BY NumberedInvParts
<1>2. AnswersRecorded(reg', handed)
  BY <1>1, KeepsAnswers
<1>3. AnswersRecorded(reg', handed')
  BY <1>2 DEF AnswersRecorded
<1>4. handed' \subseteq AnswerSet
  BY <1>1
<1> QED
  BY <1>3, <1>4 DEF NumberedInv, TypeOK, Sound, AnswersRecorded, AnswerSet

(* The answer to a request that is not about a numbered item needs no      *)
(* record.                                                                 *)
LEMMA PlainAnswer ==
    ASSUME NEW r, NEW k, NEW b, NEW n, k \notin {"struct", "intersection"}
    PROVE  AnswersRecorded(r, {Answer(k, b, n)})
BY DEF AnswersRecorded, Answer

(* Every step keeps what is numbered. *)
LEMMA NextKeeps ==
    ASSUME NumberedInv, [Next]_vars
    PROVE  NumberedInv' /\ Keeps(reg, reg')
<1>1. Sound(reg) /\ saved \in Seq(SUBSET Texts) /\ reg.scope \in SUBSET Texts
  BY NumberedInvParts DEF Sound, IsRegistry
<1>2. ASSUME NEW ms \in UnionRequests, AskUnion(ms)
      PROVE  NumberedInv' /\ Keeps(reg, reg')
  <2>1. ms \in Seq(Parts)
    BY RequestAssumption
  <2>2. Sound(reg') /\ Keeps(reg, reg')
    BY <1>1, <1>2, <2>1, UnionSound DEF AskUnion
  <2>3. UnionName(reg, ms) \in Names
    BY <1>1, <2>1, UnionTypes DEF UnionName, Sound, IsRegistry, IsMap
  <2> DEFINE h == Answer("union", DedupMembers(ms), UnionName(reg, ms))
  <2>4. h \in AnswerSet
    BY <2>1, <2>3, UnionTypes, AnswerTypes DEF RequestKinds
  <2>5. AnswersRecorded(reg', {h})
    BY PlainAnswer
  <2>6. handed' = handed \cup {h} /\ saved' = saved
    BY <1>2 DEF AskUnion, Hand
  <2> HIDE DEF h
  <2> QED
    BY <1>1, <2>2, <2>4, <2>5, <2>6, RegistrationStep
<1>3. ASSUME NEW q \in StructRequests, AskStruct(q)
      PROVE  NumberedInv' /\ Keeps(reg, reg')
  <2>1. q.fields \in Bodies /\ q.methods \in Bodies
    BY RequestAssumption
  <2> DEFINE n == StructName(reg, q.fields)
             new == StructAnswers(n, q)
  <2>2. /\ Sound(reg') /\ Keeps(reg, reg')
        /\ q.fields \in DOMAIN reg'.structDedup /\ reg'.structDedup[q.fields] = n
    BY <1>1, <1>3, <2>1, IntersectionSound DEF AskStruct
  <2>3. n \in Names
    BY <1>1, <2>1, StructSound
  <2> HIDE DEF n
  <2>4. new \in SUBSET AnswerSet
    BY <2>1, <2>3, NameTypes, AnswerTypes DEF StructAnswers, RequestKinds
  <2>5. AnswersRecorded(reg', new)
    BY <2>2 DEF AnswersRecorded, StructAnswers, Answer
  <2>6. handed' = handed \cup new /\ saved' = saved
    BY <1>3 DEF AskStruct, n
  <2> HIDE DEF new
  <2> QED
    BY <1>1, <2>2, <2>4, <2>5, <2>6, RegistrationStep
<1>4. ASSUME NEW vs \in EnumRequests, AskIntersectionEnum(vs)
      PROVE  NumberedInv' /\ Keeps(reg, reg')
  <2>1. vs \in Bodies
    BY RequestAssumption
  <2> DEFINE h == Answer("intersection", vs, EnumName(reg, vs))
  <2>2. /\ Sound(reg') /\ Keeps(reg, reg')
        /\ vs \in DOMAIN reg'.enumDedup /\ reg'.enumDedup[vs] = EnumName(reg, vs)
    BY <1>1, <1>4, <2>1, EnumSound DEF AskIntersectionEnum
  <2>3. EnumName(reg, vs) \in Names
    BY <1>1, <2>1, EnumSound
  <2>4. h \in AnswerSet
    BY <2>1, <2>3, AnswerTypes DEF RequestKinds
  <2>5. AnswersRecorded(reg', {h})
    BY <2>2 DEF AnswersRecorded, Answer
  <2>6. handed' = handed \cup {h} /\ saved' = saved
    BY <1>4 DEF AskIntersectionEnum, Hand
  <2> HIDE DEF h
  <2> QED
    BY <1>1, <2>2, <2>4, <2>5, <2>6, RegistrationStep
<1>5. ASSUME NEW q \in StringRequests, AskStringEnum(q)
      PROVE  NumberedInv' /\ Keeps(reg, reg')
  <2>1. q.hint \in Texts /\ q.values \in Bodies /\ q.hint \notin {"TypeLit", "Intersection"}
    BY RequestAssumption, HintAssumption
  <2> DEFINE h == Answer("string", q.values, StringEnumName(reg, q.hint, q.values))
  <2>2. /\ Sound(reg') /\ Keeps(reg, reg')
        /\ StringEnumName(reg, q.hint, q.values) \in Names
    BY <1>1, <1>5, <2>1, StringSound DEF AskStringEnum
  <2>3. h \in AnswerSet
    BY <2>1, <2>2, AnswerTypes DEF RequestKinds
  <2>4. AnswersRecorded(reg', {h})
    BY PlainAnswer
  <2>5. handed' = handed \cup {h} /\ saved' = saved
    BY <1>5 DEF AskStringEnum, Hand
  <2> HIDE DEF h
  <2> QED
    BY <1>1, <2>2, <2>3, <2>4, <2>5, RegistrationStep
<1>6. ASSUME NEW k \in Kinds, NEW a \in {"any", "utility"}, NEW t \in Texts, NEW b \in Bodies,
             reg' = PushIfAbsent(reg, PlainName(t), k, b),
             Hand(a, b, PlainName(t)), saved' = saved
      PROVE  NumberedInv' /\ Keeps(reg, reg')
  <2> DEFINE h == Answer(a, b, PlainName(t))
  <2>1. Sound(reg') /\ Keeps(reg, reg')
    BY <1>1, <1>6, PushIfAbsentSound
  <2>2. h \in AnswerSet
    BY NameTypes, AnswerTypes DEF RequestKinds
  <2>3. AnswersRecorded(reg', {h})
    BY PlainAnswer
  <2>4. handed' = handed \cup {h}
    BY <1>6 DEF Hand
  <2> HIDE DEF h
  <2> QED
    BY <1>1, <1>6, <2>1, <2>2, <2>3, <2>4, RegistrationStep
<1>7. ASSUME NEW q \in AnyRequests, AskAnyEnum(q)
      PROVE  NumberedInv' /\ Keeps(reg, reg')
  <2>1. q.text \in Texts /\ q.variants \in Bodies
    BY RequestAssumption
  <2> QED
    BY <1>6, <1>7, <2>1 DEF AskAnyEnum, Kinds
<1>8. ASSUME NEW q \in UtilityRequests, AskUtility(q)
      PROVE  NumberedInv' /\ Keeps(reg, reg')
  <2>1. q.text \in Texts /\ q.fields \in Bodies
    BY RequestAssumption
  <2> QED
    BY <1>6, <1>8, <2>1 DEF AskUtility, Kinds
<1>9. ASSUME Sound(reg'), Keeps(reg, reg'), handed' = handed, saved' \in Seq(SUBSET Texts)
      PROVE  NumberedInv' /\ Keeps(reg, reg')
  <2>1. handed' = handed \cup {} /\ AnswersRecorded(reg', {})
    BY <1>9 DEF AnswersRecorded
  <2> QED
    BY <1>9, <2>1, RegistrationStep
<1>10. ASSUME NEW t \in StubTexts, PushStub(t)
       PROVE  NumberedInv' /\ Keeps(reg, reg')
  <2>1. PlainName(t) \in Names /\ PlainName(t).id = Plain /\ {} \in Bodies
    BY RequestAssumption, NameTypes DEF PlainName, Numbered, Bodies
  <2>2. Sound(reg') /\ Keeps(reg, reg')
    BY <1>1, <1>10, <2>1, PushSound DEF PushStub, Kinds
  <2> QED
    BY <1>1, <1>9, <1>10, <2>2 DEF PushStub
<1>11. ASSUME NEW ts \in ScopeRequests, EnterGeneric(ts)
       PROVE  NumberedInv' /\ Keeps(reg, reg')
  <2>1. Sound(reg') /\ Keeps(reg, reg')
    BY <1>1, <1>11, RequestAssumption, PushScopeSound DEF EnterGeneric
  <2>2. saved' \in Seq(SUBSET Texts)
    BY <1>1, <1>11 DEF EnterGeneric
  <2> QED
    BY <1>9, <1>11, <2>1, <2>2 DEF EnterGeneric
<1>12. ASSUME LeaveGeneric
       PROVE  NumberedInv' /\ Keeps(reg, reg')
  <2>1. saved[Len(saved)] \in SUBSET Texts /\ saved' \in Seq(SUBSET Texts)
    BY <1>1, <1>12 DEF LeaveGeneric
  <2>2. Sound(reg') /\ Keeps(reg, reg')
    BY <1>1, <1>12, <2>1, RestoreSound DEF LeaveGeneric
  <2> QED
    BY <1>9, <1>12, <2>1, <2>2 DEF LeaveGeneric
<1>13. CASE UNCHANGED vars
  BY <1>1, <1>9, <1>13, KeepsItself DEF vars
<1> QED
  BY <1>2, <1>3, <1>4, <1>5, <1>7, <1>8, <1>10, <1>11, <1>12, <1>13 DEF Next

-----------------------------------------------------------------------------
(* The registry, the answers and the saved scopes are well typed and the   *)
(* strengthened invariant holds, for every set of requests.                *)
LEMMA NumberedHolds == Spec => []NumberedInv
<1>1. NumberedInv /\ [Next]_vars => NumberedInv'
  BY NextKeeps
<1> QED
  BY <1>1, InitNumbered, PTL DEF Spec

(* The registry, what callers were told and the saved scopes are well      *)
(* typed.                                                                  *)
THEOREM TypeCorrect == Spec => []TypeOK
<1>1. NumberedInv => TypeOK
  BY DEF NumberedInv
<1> QED
  BY <1>1, NumberedHolds, PTL

(* The name of a type literal or an intersection denotes, forever, an item *)
(* with exactly the parts asked for (register_struct_dedup and             *)
(* register_intersection_enum under every other registration).             *)
THEOREM StructNamesDenote == Spec => []StructRefsDenote
<1>1. NumberedInv => StructRefsDenote
  BY DEF NumberedInv, Sound, Recorded, StructRefsDenote, Denotes
<1> QED
  BY <1>1, NumberedHolds, PTL

(* No call writes over an item with a number.                              *)
THEOREM NumberedNeverRewritten == Spec => NumberedItemsFrozen
<1>1. NumberedInv /\ [Next]_vars => [\A n \in DOMAIN reg.types :
          (n.id # Plain /\ n.impl = FALSE) =>
             n \in DOMAIN reg'.types /\ reg'.types[n] = reg.types[n]]_vars
  BY NextKeeps DEF Keeps
<1> QED
  BY <1>1, NumberedHolds, PTL DEF Spec, NumberedItemsFrozen

-----------------------------------------------------------------------------
(* The refinement of Naming.  What a step may do to the two dictionaries   *)
(* of numbered items: nothing, or one new entry under a number no entry    *)
(* has.                                                                    *)
SameDictionary(r, q) ==
    /\ q.structDedup = r.structDedup
    /\ q.enumDedup = r.enumDedup

AddsStruct(r, q, fs) ==
    /\ fs \notin DOMAIN r.structDedup
    /\ q.structDedup = Put(r.structDedup, fs, Numbered("TypeLit", r.structCtr))
    /\ q.enumDedup = r.enumDedup

AddsEnum(r, q, vs) ==
    /\ vs \notin DOMAIN r.enumDedup
    /\ q.enumDedup = Put(r.enumDedup, vs, Numbered("Intersection", r.synCtr))
    /\ q.structDedup = r.structDedup

(* Only a struct or intersection request with new parts adds an entry.     *)
LEMMA DictionaryCases ==
    ASSUME NumberedInv, [Next]_vars
    PROVE  \/ SameDictionary(reg, reg')
           \/ \E q \in StructRequests : AddsStruct(reg, reg', q.fields)
           \/ \E vs \in EnumRequests : AddsEnum(reg, reg', vs)
<1>1. IsRegistry(reg)
  BY DEF NumberedInv, TypeOK
<1>2. \A n, k, b : SameDictionary(reg, PushItem(reg, n, k, b))
  BY <1>1 DEF SameDictionary, PushItem, IsRegistry
<1>3. ASSUME NEW ms \in UnionRequests, AskUnion(ms)
      PROVE  SameDictionary(reg, reg')
  BY <1>1, <1>3 DEF AskUnion, RegisterUnion, SameDictionary, IsRegistry
<1>4. ASSUME NEW q \in StructRequests, AskStruct(q)
      PROVE  SameDictionary(reg, reg') \/ AddsStruct(reg, reg', q.fields)
  <2> DEFINE s == RegisterStruct(reg, q.fields)
  <2>1. SameDictionary(reg, s) \/ AddsStruct(reg, s, q.fields)
    BY <1>1 DEF RegisterStruct, StructName, SameDictionary, AddsStruct, IsRegistry
  <2>2. s = [types |-> s.types, unionDedup |-> s.unionDedup, structDedup |-> s.structDedup,
             enumDedup |-> s.enumDedup, structCtr |-> s.structCtr, synCtr |-> s.synCtr,
             scope |-> s.scope]
    BY <1>1 DEF RegisterStruct, IsRegistry
  <2>3. \A n, k, b : SameDictionary(s, PushItem(s, n, k, b))
    <3> HIDE DEF s
    <3> QED
      BY <2>2 DEF SameDictionary, PushItem
  <2>4. reg' = s \/ \E n, k, b : reg' = PushItem(s, n, k, b)
    BY <1>4 DEF AskStruct, RegisterIntersection
  <2> HIDE DEF s
  <2> QED
    BY <2>1, <2>3, <2>4 DEF SameDictionary, AddsStruct
<1>5. ASSUME NEW vs \in EnumRequests, AskIntersectionEnum(vs)
      PROVE  SameDictionary(reg, reg') \/ AddsEnum(reg, reg', vs)
  BY <1>1, <1>5
     DEF AskIntersectionEnum, RegisterIntersectionEnum, EnumName, SameDictionary, AddsEnum, IsRegistry
<1>6. ASSUME NEW q \in StringRequests, AskStringEnum(q)
      PROVE  SameDictionary(reg, reg')
  BY <1>1, <1>6 DEF AskStringEnum, RegisterStringEnum, SameDictionary, IsRegistry
<1>7. ASSUME NEW n, NEW k, NEW b, reg' = PushIfAbsent(reg, n, k, b)
      PROVE  SameDictionary(reg, reg')
  BY <1>2, <1>7 DEF PushIfAbsent, SameDictionary
<1>8. ASSUME NEW ts, reg' = PushScope(reg, ts) \/ reg' = RestoreScope(reg, ts)
      PROVE  SameDictionary(reg, reg')
  BY <1>1, <1>8 DEF PushScope, RestoreScope, SameDictionary, IsRegistry
<1>9. CASE UNCHANGED vars
  BY <1>9 DEF vars, SameDictionary
<1> QED
  BY <1>2, <1>3, <1>4, <1>5, <1>6, <1>7, <1>8, <1>9
     DEF Next, AskAnyEnum, AskUtility, PushStub, EnterGeneric, LeaveGeneric

(* The entries of the dictionary, one by one.                              *)
LEMMA GivenEntries ==
    /\ \A q : q \in DOMAIN given <=>
                \/ \E b \in DOMAIN reg.structDedup : q = Asked("struct", b)
                \/ \E b \in DOMAIN reg.enumDedup : q = Asked("intersection", b)
    /\ \A b \in DOMAIN reg.structDedup : given[Asked("struct", b)] = reg.structDedup[b]
    /\ \A b \in DOMAIN reg.enumDedup : given[Asked("intersection", b)] = reg.enumDedup[b]
BY DEF given, Asked

(* A step that leaves the dictionary alone leaves what its names mean      *)
(* alone, whatever it wrote elsewhere.                                     *)
LEMMA StutterStep ==
    ASSUME NumberedInv, Keeps(reg, reg'), SameDictionary(reg, reg')
    PROVE  UNCHANGED <<given, means>>
<1>1. given' = given
  BY DEF SameDictionary, given
<1>2. \A q \in DOMAIN given : reg'.types[given[q]] = reg.types[given[q]]
  BY GivenEntries DEF NumberedInv, Sound, Recorded, Keeps, Plain
<1> QED
  BY <1>1, <1>2 DEF means

(* A new entry under a number no entry has is a step of the dictionary.    *)
LEMMA AskStep ==
    ASSUME NumberedInv, NumberedInv', Keeps(reg, reg'),
           NEW q \in Requests,
           N!AddsOne(given, given', q),
           \A p \in DOMAIN given : given[p] # given'[q],
           reg'.types[given'[q]].body = q.parts
    PROVE  N!Ask(q)
<1> DEFINE n == given'[q]
<1>1. /\ q \notin DOMAIN given
      /\ DOMAIN given' = DOMAIN given \cup {q}
      /\ \A p \in DOMAIN given : given'[p] = given[p]
  BY DEF N!AddsOne
<1>2. \A p \in DOMAIN given : reg'.types[given[p]] = reg.types[given[p]]
  BY GivenEntries DEF NumberedInv, Sound, Recorded, Keeps, Plain
<1>3. /\ DOMAIN means = {given[p] : p \in DOMAIN given}
      /\ \A x \in DOMAIN means : means[x] = reg.types[x].body
  BY DEF means
<1>4. /\ DOMAIN means' = {given'[p] : p \in DOMAIN given'}
      /\ \A x \in DOMAIN means' : means'[x] = reg'.types[x].body
  BY DEF means
<1> HIDE DEF n
<1>5. n = given'[q]
  BY DEF n
<1>6. n \notin DOMAIN means
  BY <1>3, <1>5
<1>7. DOMAIN means' = DOMAIN means \cup {n}
  BY <1>1, <1>3, <1>4, <1>5
<1>8. \A x \in DOMAIN means : means'[x] = means[x]
  <2> TAKE x \in DOMAIN means
  <2>1. PICK p \in DOMAIN given : x = given[p]
    BY <1>3
  <2>2. reg'.types[x].body = reg.types[x].body
    BY <1>2, <2>1
  <2>3. x \in DOMAIN means'
    BY <1>7
  <2>4. means[x] = reg.types[x].body
    BY <1>3
  <2>5. means'[x] = reg'.types[x].body
    BY <1>4, <2>3
  <2> QED
    BY <2>2, <2>4, <2>5
<1>9. means'[n] = q.parts
  BY <1>4, <1>5, <1>7
<1> QED
  BY <1>5, <1>6, <1>7, <1>8, <1>9 DEF N!Ask, N!AddsOne

(* Every step of the registry is a step of the dictionary, or none.        *)
LEMMA DictionaryStep ==
    ASSUME NumberedInv, [Next]_vars
    PROVE  [N!Next]_<<given, means>>
<1>1. NumberedInv' /\ Keeps(reg, reg')
  BY NextKeeps
<1>2. CASE SameDictionary(reg, reg')
  BY <1>1, <1>2, StutterStep
<1>3. ASSUME NEW s \in StructRequests, AddsStruct(reg, reg', s.fields)
      PROVE  N!Next
  <2> DEFINE q == Asked("struct", s.fields)
             n == Numbered("TypeLit", reg.structCtr)
  <2>1. q \in Requests /\ q.parts = s.fields /\ q.kind = "struct"
    BY DEF Requests, Asked
  <2>2. /\ DOMAIN reg'.structDedup = DOMAIN reg.structDedup \cup {s.fields}
        /\ reg'.structDedup[s.fields] = n
        /\ \A b \in DOMAIN reg.structDedup : reg'.structDedup[b] = reg.structDedup[b]
        /\ reg'.enumDedup = reg.enumDedup
        /\ s.fields \notin DOMAIN reg.structDedup
    BY <1>3 DEF AddsStruct, Put
  <2>3. N!AddsOne(given, given', q) /\ given'[q] = n
    <3>1. \A x : x \in DOMAIN given' <=>
              \/ \E b \in DOMAIN reg'.structDedup : x = Asked("struct", b)
              \/ \E b \in DOMAIN reg'.enumDedup : x = Asked("intersection", b)
      BY DEF given, Asked
    <3>2. /\ \A b \in DOMAIN reg'.structDedup : given'[Asked("struct", b)] = reg'.structDedup[b]
          /\ \A b \in DOMAIN reg'.enumDedup : given'[Asked("intersection", b)] = reg'.enumDedup[b]
      BY DEF given, Asked
    <3>3. q \notin DOMAIN given
      BY <2>2, GivenEntries DEF Asked
    <3>4. DOMAIN given' = DOMAIN given \cup {q}
      BY <2>2, <3>1, GivenEntries
    <3>5. \A p \in DOMAIN given : given'[p] = given[p]
      BY <2>2, <3>2, GivenEntries
    <3> QED
      BY <2>2, <3>2, <3>3, <3>4, <3>5 DEF N!AddsOne
  <2>4. \A p \in DOMAIN given : given[p] # n
    <3>1. reg.structCtr \in Nat
      BY DEF NumberedInv, TypeOK, IsRegistry
    <3>2. \A b \in DOMAIN reg.structDedup : reg.structDedup[b].id < reg.structCtr
      BY <3>1 DEF NumberedInv, Sound, Recorded
    <3>3. \A b \in DOMAIN reg.enumDedup : reg.enumDedup[b].text = "Intersection"
      BY DEF NumberedInv, Sound, Recorded
    <3>4. n.id = reg.structCtr /\ n.text = "TypeLit"
      BY DEF Numbered
    <3> QED
      BY <3>1, <3>2, <3>3, <3>4, GivenEntries
  <2>5. reg'.types[n].body = s.fields
    BY <1>1, <2>2 DEF NumberedInv, Sound, Recorded
  <2> HIDE DEF q, n
  <2> QED
    BY <1>1, <2>1, <2>3, <2>4, <2>5, AskStep DEF N!Next
<1>4. ASSUME NEW vs \in EnumRequests, AddsEnum(reg, reg', vs)
      PROVE  N!Next
  <2> DEFINE q == Asked("intersection", vs)
             n == Numbered("Intersection", reg.synCtr)
  <2>1. q \in Requests /\ q.parts = vs /\ q.kind = "intersection"
    BY DEF Requests, Asked
  <2>2. /\ DOMAIN reg'.enumDedup = DOMAIN reg.enumDedup \cup {vs}
        /\ reg'.enumDedup[vs] = n
        /\ \A b \in DOMAIN reg.enumDedup : reg'.enumDedup[b] = reg.enumDedup[b]
        /\ reg'.structDedup = reg.structDedup
        /\ vs \notin DOMAIN reg.enumDedup
    BY <1>4 DEF AddsEnum, Put
  <2>3. N!AddsOne(given, given', q) /\ given'[q] = n
    <3>1. \A x : x \in DOMAIN given' <=>
              \/ \E b \in DOMAIN reg'.structDedup : x = Asked("struct", b)
              \/ \E b \in DOMAIN reg'.enumDedup : x = Asked("intersection", b)
      BY DEF given, Asked
    <3>2. /\ \A b \in DOMAIN reg'.structDedup : given'[Asked("struct", b)] = reg'.structDedup[b]
          /\ \A b \in DOMAIN reg'.enumDedup : given'[Asked("intersection", b)] = reg'.enumDedup[b]
      BY DEF given, Asked
    <3>3. q \notin DOMAIN given
      BY <2>2, GivenEntries DEF Asked
    <3>4. DOMAIN given' = DOMAIN given \cup {q}
      BY <2>2, <3>1, GivenEntries
    <3>5. \A p \in DOMAIN given : given'[p] = given[p]
      BY <2>2, <3>2, GivenEntries
    <3> QED
      BY <2>2, <3>2, <3>3, <3>4, <3>5 DEF N!AddsOne
  <2>4. \A p \in DOMAIN given : given[p] # n
    <3>1. reg.synCtr \in Nat
      BY DEF NumberedInv, TypeOK, IsRegistry
    <3>2. \A b \in DOMAIN reg.enumDedup : reg.enumDedup[b].id < reg.synCtr
      BY <3>1 DEF NumberedInv, Sound, Recorded
    <3>3. \A b \in DOMAIN reg.structDedup : reg.structDedup[b].text = "TypeLit"
      BY DEF NumberedInv, Sound, Recorded
    <3>4. n.id = reg.synCtr /\ n.text = "Intersection"
      BY DEF Numbered
    <3> QED
      BY <3>1, <3>2, <3>3, <3>4, GivenEntries
  <2>5. reg'.types[n].body = vs
    BY <1>1, <2>2 DEF NumberedInv, Sound, Recorded
  <2> HIDE DEF q, n
  <2> QED
    BY <1>1, <2>1, <2>3, <2>4, <2>5, AskStep DEF N!Next
<1> QED
  BY <1>2, <1>3, <1>4, DictionaryCases

(* The registry implements the dictionary of Naming for every set of       *)
(* requests: one name for one set of parts, no name reused, none ever      *)
(* standing for anything but what was asked for.                           *)
THEOREM RegistryIsDictionary == Spec => KeepsDictionary
<1>1. Init => N!Init
  BY DEF Init, NewRegistry, Empty, given, means, N!Init
<1>2. NumberedInv /\ [Next]_vars => [N!Next]_<<given, means>>
  BY DictionaryStep
<1> QED
  BY <1>1, <1>2, NumberedHolds, PTL DEF Spec, KeepsDictionary, N!Spec, N!vars

-----------------------------------------------------------------------------
(* The scopes: what the outermost caller saved is the empty scope it will  *)
(* restore.                                                                *)
ScopeInv ==
    /\ ScopesNest
    /\ saved # <<>> => saved[1] = {}

(* No registration touches the scope. *)
LEMMA RegistrationScope ==
    ASSUME NEW r, IsRegistry(r)
    PROVE  /\ \A ms : RegisterUnion(r, ms).scope = r.scope
           /\ \A fs, methods : RegisterIntersection(r, fs, methods).scope = r.scope
           /\ \A vs : RegisterIntersectionEnum(r, vs).scope = r.scope
           /\ \A hint, vs : RegisterStringEnum(r, hint, vs).scope = r.scope
           /\ \A n, k, b : PushIfAbsent(r, n, k, b).scope = r.scope
           /\ \A n, k, b : PushItem(r, n, k, b).scope = r.scope
<1>1. \A n, k, b : PushItem(r, n, k, b).scope = r.scope
  BY DEF PushItem, IsRegistry
<1>2. \A n, k, b : PushIfAbsent(r, n, k, b).scope = r.scope
  BY <1>1 DEF PushIfAbsent
<1>3. \A ms : RegisterUnion(r, ms).scope = r.scope
  BY DEF RegisterUnion, IsRegistry
<1>4. \A vs : RegisterIntersectionEnum(r, vs).scope = r.scope
  BY DEF RegisterIntersectionEnum, IsRegistry
<1>5. \A hint, vs : RegisterStringEnum(r, hint, vs).scope = r.scope
  BY DEF RegisterStringEnum, IsRegistry
<1>6. \A fs, methods : RegisterIntersection(r, fs, methods).scope = r.scope
  <2> TAKE fs, methods
  <2> DEFINE q == RegisterStruct(r, fs)
  <2>1. /\ q = [types |-> q.types, unionDedup |-> q.unionDedup, structDedup |-> q.structDedup,
                enumDedup |-> q.enumDedup, structCtr |-> q.structCtr, synCtr |-> q.synCtr,
                scope |-> q.scope]
        /\ q.scope = r.scope
    BY DEF RegisterStruct, IsRegistry
  <2> HIDE DEF q
  <2>2. \A n, k, b : PushItem(q, n, k, b).scope = q.scope
    BY <2>1 DEF PushItem
  <2> QED
    BY <2>1, <2>2 DEF RegisterIntersection, q
<1> QED
  BY <1>1, <1>2, <1>3, <1>4, <1>5, <1>6

(* Entering a generic declaration saves the scope around it, which only    *)
(* grows; leaving one restores what was in force when it was entered.      *)
LEMMA ScopeStep ==
    ASSUME NumberedInv, ScopeInv, [Next]_vars
    PROVE  ScopeInv'
<1>1. IsRegistry(reg) /\ saved \in Seq(SUBSET Texts)
  BY DEF NumberedInv, TypeOK
<1>2. ASSUME reg'.scope = reg.scope, saved' = saved
      PROVE  ScopeInv'
  BY <1>2 DEF ScopeInv, ScopesNest
<1>3. ASSUME NEW ts \in ScopeRequests, EnterGeneric(ts)
      PROVE  ScopeInv'
  <2>1. /\ reg'.scope = reg.scope \cup ts
        /\ saved' = Append(saved, reg.scope)
    BY <1>1, <1>3 DEF EnterGeneric, PushScope, IsRegistry
  <2>2. /\ Len(saved') = Len(saved) + 1
        /\ saved'[Len(saved) + 1] = reg.scope
        /\ \A i \in 1 .. Len(saved) : saved'[i] = saved[i]
        /\ Len(saved) \in Nat
        /\ saved' # <<>>
    BY <1>1, <2>1
  <2>3. \A i \in 1 .. Len(saved') : saved'[i] \subseteq reg.scope
    BY <2>2 DEF ScopeInv, ScopesNest
  <2>4. \A i, j \in 1 .. Len(saved') : i <= j => saved'[i] \subseteq saved'[j]
    BY <2>2, <2>3 DEF ScopeInv, ScopesNest
  <2>5. saved'[1] = {}
    <3>1. CASE saved = <<>>
      BY <2>2, <3>1 DEF ScopeInv, ScopesNest
    <3>2. CASE saved # <<>>
      BY <1>1, <2>2, <3>2 DEF ScopeInv
    <3> QED
      BY <3>1, <3>2
  <2> QED
    BY <2>1, <2>2, <2>3, <2>4, <2>5 DEF ScopeInv, ScopesNest
<1>4. ASSUME LeaveGeneric
      PROVE  ScopeInv'
  <2> DEFINE last == Len(saved)
  <2>1. /\ last \in Nat /\ last >= 1
        /\ reg'.scope = saved[last]
        /\ saved' = SubSeq(saved, 1, last - 1)
    BY <1>1, <1>4 DEF LeaveGeneric, RestoreScope, IsRegistry
  <2>2. /\ Len(saved') = last - 1
        /\ \A i \in 1 .. (last - 1) : saved'[i] = saved[i]
    <3>1. \A i \in 1 .. (last - 1) : saved[i] \in SUBSET Texts
      BY <1>1
    <3> HIDE DEF last
    <3>2. last - 1 \in Int
      BY <2>1
    <3>3. /\ Len(SubSeq(saved, 1, last - 1)) = IF 1 <= last - 1 THEN last - 1 - 1 + 1 ELSE 0
          /\ \A i \in 1 .. (last - 1 - 1 + 1) : SubSeq(saved, 1, last - 1)[i] = saved[1 + i - 1]
      BY <3>1, <3>2, SubSeqProperties
    <3>4. \A i \in 1 .. (last - 1) : 1 + i - 1 = i
      BY <2>1
    <3>5. last - 1 - 1 + 1 = last - 1
      BY <2>1
    <3> QED
      BY <2>1, <3>3, <3>4, <3>5
  <2>3. saved' = <<>> => reg'.scope = {}
    <3> SUFFICES ASSUME saved' = <<>> PROVE reg'.scope = {}
      OBVIOUS
    <3>1. last = 1
      BY <2>1, <2>2
    <3> QED
      BY <1>1, <2>1, <3>1 DEF ScopeInv
  <2>4. saved' # <<>> => saved'[1] = {}
    <3> SUFFICES ASSUME saved' # <<>> PROVE saved'[1] = {}
      OBVIOUS
    <3>1. saved' \in Seq(SUBSET Texts)
      BY <1>1, <2>1
    <3>2. last - 1 >= 1
      BY <2>1, <2>2, <3>1
    <3> QED
      BY <1>1, <1>4, <2>1, <2>2, <3>2 DEF ScopeInv, LeaveGeneric
  <2> QED
    BY <2>1, <2>2, <2>3, <2>4 DEF ScopeInv, ScopesNest
<1>5. CASE UNCHANGED vars
  BY <1>2, <1>5 DEF vars
<1> QED
  BY <1>1, <1>2, <1>3, <1>4, <1>5, RegistrationScope
     DEF Next, AskUnion, AskStruct, AskIntersectionEnum, AskStringEnum, AskAnyEnum, AskUtility,
         PushStub

(* Type parameters of the enclosing declarations stay in scope while one   *)
(* inside them is converted, and none leaks out of the outermost one       *)
(* (push_type_param_scope and restore_type_param_scope, at any depth).     *)
THEOREM ScopesAreNested == Spec => []ScopesNest
<1>1. Init => ScopeInv
  <2> SUFFICES ASSUME Init PROVE ScopeInv
    OBVIOUS
  <2>1. saved = <<>> /\ Len(saved) = 0 /\ reg.scope = {}
    BY DEF Init, NewRegistry
  <2> QED
    BY <2>1 DEF ScopeInv, ScopesNest
<1>2. NumberedInv /\ ScopeInv /\ [Next]_vars => ScopeInv'
  BY ScopeStep
<1>3. ScopeInv => ScopesNest
  BY DEF ScopeInv
<1> QED
  BY <1>1, <1>2, <1>3, NumberedHolds, PTL DEF Spec

-----------------------------------------------------------------------------
(* The names Naming leaves out.  What an operation that is about neither a *)
(* union nor a string enum may write: impl blocks, numbered structs and    *)
(* intersection enums, stubs, and the items of other owners where nothing  *)
(* is yet.                                                                 *)
OthersOnly(r, q) ==
    /\ q.unionDedup = r.unionDedup
    /\ DOMAIN r.types \subseteq DOMAIN q.types
    /\ \A n \in DOMAIN q.types :
          \/ n \in DOMAIN r.types /\ q.types[n] = r.types[n]
          \/ n.impl = TRUE
          \/ n.id # Plain /\ n.text \in {"TypeLit", "Intersection"}
          \/ n.text \in StubTexts
          \/ n \notin DOMAIN r.types /\ n.text \in OwnedTexts

(* Such an operation disturbs no union and no string enum.                 *)
LEMMA OthersKeepNames ==
    ASSUME NEW r, NEW q, NamesApart, OthersOnly(r, q), UnionsRecorded(r), StringsRecorded(r)
    PROVE  UnionsRecorded(q) /\ StringsRecorded(q)
<1>1. \A n \in DOMAIN q.types :
         (n.id = Plain /\ n.impl = FALSE /\ n.text \in UnionTexts) =>
            n \in DOMAIN r.types /\ q.types[n] = r.types[n]
  BY DEF OthersOnly, NamesApart
<1>2. UnionsRecorded(q)
  BY <1>1 DEF OthersOnly, UnionsRecorded
<1>3. \A n \in DOMAIN r.types :
         (n.impl = FALSE /\ n.text \in HintTexts) =>
            n \in DOMAIN q.types /\ q.types[n] = r.types[n]
  BY HintAssumption DEF OthersOnly, NamesApart, HintTexts
<1>4. StringsRecorded(q)
  BY <1>3 DEF OthersOnly, StringsRecorded
<1> QED
  BY <1>2, <1>4

(* Writing one item is such an operation when its name is one of those.    *)
LEMMA PushOthers ==
    ASSUME NEW r, IsRegistry(r), NEW n, NEW k, NEW b,
           \/ n.impl = TRUE
           \/ n.text \in StubTexts
           \/ n \notin DOMAIN r.types /\ n.text \in OwnedTexts
    PROVE  OthersOnly(r, PushItem(r, n, k, b))
<1>1. /\ PushItem(r, n, k, b).types = Put(r.types, n, Def(k, b))
      /\ PushItem(r, n, k, b).unionDedup = r.unionDedup
  BY DEF PushItem, IsRegistry
<1> QED
  BY <1>1 DEF OthersOnly, Put

(* Structs, intersections with their impl blocks, and intersection enums.  *)
LEMMA StructOthers ==
    ASSUME NEW r, Sound(r), NEW fs \in Bodies, NEW methods \in Bodies
    PROVE  OthersOnly(r, RegisterIntersection(r, fs, methods))
<1> DEFINE q == RegisterStruct(r, fs)
<1>1. OthersOnly(r, q)
  <2>1. CASE fs \in DOMAIN r.structDedup
    BY <2>1 DEF RegisterStruct, OthersOnly
  <2>2. CASE fs \notin DOMAIN r.structDedup
    <3> DEFINE n == Numbered("TypeLit", r.structCtr)
    <3>1. q.types = Put(r.types, n, Def("InlineStruct", fs)) /\ q.unionDedup = r.unionDedup
      BY <2>2 DEF RegisterStruct, StructName, Sound, IsRegistry
    <3>2. n.id # Plain /\ n.text = "TypeLit"
      BY DEF Numbered, Plain, Sound, IsRegistry
    <3> HIDE DEF n, q
    <3> QED
      BY <3>1, <3>2 DEF OthersOnly, Put
  <2> QED
    BY <2>1, <2>2
<1>2. CASE methods = {}
  BY <1>1, <1>2 DEF RegisterIntersection
<1>3. CASE methods # {}
  <2> DEFINE n == ImplName(StructName(r, fs))
  <2>1. n.impl = TRUE /\ IsRegistry(q)
    BY StructSound DEF ImplName, Names, Sound
  <2> HIDE DEF n
  <2>2. OthersOnly(q, PushItem(q, n, "ImplBlock", methods))
    BY <2>1, PushOthers
  <2>3. PushItem(q, n, "ImplBlock", methods).types = Put(q.types, n, Def("ImplBlock", methods))
    BY <2>1 DEF PushItem, IsRegistry
  <2>4. RegisterIntersection(r, fs, methods) = PushItem(q, n, "ImplBlock", methods)
    BY <1>3 DEF RegisterIntersection, n
  <2> HIDE DEF q
  <2> QED
    BY <1>1, <2>1, <2>2, <2>3, <2>4 DEF OthersOnly, Put
<1> QED
  BY <1>2, <1>3

(* register_intersection_enum. *)
LEMMA EnumOthers ==
    ASSUME NEW r, Sound(r), NEW vs \in Bodies
    PROVE  OthersOnly(r, RegisterIntersectionEnum(r, vs))
<1> DEFINE q == RegisterIntersectionEnum(r, vs)
           n == Numbered("Intersection", r.synCtr)
<1>1. CASE vs \in DOMAIN r.enumDedup
  BY <1>1 DEF RegisterIntersectionEnum, OthersOnly
<1>2. CASE vs \notin DOMAIN r.enumDedup
  <2>1. q.types = Put(r.types, n, Def("UnionEnum", vs)) /\ q.unionDedup = r.unionDedup
    BY <1>2 DEF RegisterIntersectionEnum, EnumName, Sound, IsRegistry
  <2>2. n.id # Plain /\ n.text = "Intersection"
    BY DEF Numbered, Plain, Sound, IsRegistry
  <2> HIDE DEF n, q
  <2>3. OthersOnly(r, q)
    BY <2>1, <2>2 DEF OthersOnly, Put
  <2> QED
    BY <2>3 DEF q
<1> QED
  BY <1>1, <1>2

(* Signatures on record stay, with their names.                            *)
Grows(r, q) ==
    \A k \in DOMAIN r.unionDedup : k \in DOMAIN q.unionDedup /\ q.unionDedup[k] = r.unionDedup[k]

(* register_union records a union under the name of its variants, and      *)
(* whatever it writes over is a union with the same variants.              *)
LEMMA UnionRecords ==
    ASSUME NEW r, NEW ms \in UnionRequests, IsRegistry(r), NamesApart,
           UnionsRecorded(r), StringsRecorded(r)
    PROVE  /\ UnionsRecorded(RegisterUnion(r, ms))
           /\ StringsRecorded(RegisterUnion(r, ms))
           /\ Grows(r, RegisterUnion(r, ms))
           /\ UnionKey(ms) \in DOMAIN RegisterUnion(r, ms).unionDedup
           /\ UnionName(r, ms) = FreshUnionName(ms)
<1>1. CASE UnionKey(ms) \in DOMAIN r.unionDedup
  BY <1>1 DEF RegisterUnion, UnionName, UnionsRecorded, Grows
<1>2. CASE UnionKey(ms) \notin DOMAIN r.unionDedup
  <2> DEFINE q == RegisterUnion(r, ms)
             n == FreshUnionName(ms)
             key == UnionKey(ms)
             d == Def("UnionEnum", DedupMembers(ms))
  <2>1. /\ q.types = Put(r.types, n, d)
        /\ q.unionDedup = Put(r.unionDedup, key, n)
        /\ UnionName(r, ms) = n
    BY <1>2 DEF RegisterUnion, UnionName, IsRegistry
  <2>2. /\ n.id = Plain /\ n.impl = FALSE /\ n.text \in UnionTexts
        /\ key.of = "union"
        /\ d.body = DedupMembers(ms)
    BY DEF FreshUnionName, PlainName, Numbered, UnionTexts, UnionKey, Def
  <2>3. \A ns \in UnionRequests : UnionKey(ns) = key => FreshUnionName(ns) = n
    BY RequestAssumption, KeyDeterminesName
  <2> HIDE DEF q, n, key, d
  <2>4. UnionsRecorded(q)
    <3>1. \A ns \in UnionRequests :
             UnionKey(ns) \in DOMAIN q.unionDedup =>
                /\ q.unionDedup[UnionKey(ns)] = FreshUnionName(ns)
                /\ FreshUnionName(ns) \in DOMAIN q.types
      BY <2>1, <2>3 DEF Put, UnionsRecorded
    <3>2. ASSUME NEW x \in DOMAIN q.types,
                 x.id = Plain /\ x.impl = FALSE /\ x.text \in UnionTexts
          PROVE  \E ns \in UnionRequests :
                    /\ x = FreshUnionName(ns)
                    /\ VariantsOf(q.types[x].body) = VariantsOf(DedupMembers(ns))
      <4>1. CASE x = n
        <5>1. q.types[x].body = DedupMembers(ms)
          BY <2>1, <2>2, <4>1 DEF Put
        <5> QED
          BY <4>1, <5>1 DEF n
      <4>2. CASE x # n
        <5>1. x \in DOMAIN r.types /\ q.types[x] = r.types[x]
          BY <2>1, <4>2 DEF Put
        <5> QED
          BY <3>2, <5>1 DEF UnionsRecorded
      <4> QED
        BY <4>1, <4>2
    <3> QED
      BY <3>1, <3>2 DEF UnionsRecorded
  <2>5. StringsRecorded(q)
    <3>1. \A k \in DOMAIN q.unionDedup :
             k.of = "string_enum" =>
                /\ k \in DOMAIN r.unionDedup
                /\ q.unionDedup[k] = r.unionDedup[k]
                /\ r.unionDedup[k] # n
      BY <2>1, <2>2 DEF Put, StringsRecorded, NamesApart
    <3>2. \A x \in DOMAIN r.types : x # n => x \in DOMAIN q.types /\ q.types[x] = r.types[x]
      BY <2>1 DEF Put
    <3> QED
      BY <3>1, <3>2 DEF StringsRecorded
  <2>6. Grows(r, q) /\ key \in DOMAIN q.unionDedup
    BY <1>2, <2>1 DEF Grows, Put, key
  <2> QED
    BY <2>1, <2>4, <2>5, <2>6 DEF q, n, key
<1> QED
  BY <1>1, <1>2

(* register_string_literal_enum records its values under a name nothing    *)
(* has yet.                                                                *)
LEMMA StringRecords ==
    ASSUME NEW r, NEW s \in StringRequests, Sound(r), NamesApart,
           UnionsRecorded(r), StringsRecorded(r)
    PROVE  /\ UnionsRecorded(RegisterStringEnum(r, s.hint, s.values))
           /\ StringsRecorded(RegisterStringEnum(r, s.hint, s.values))
           /\ Grows(r, RegisterStringEnum(r, s.hint, s.values))
           /\ StringKey(s.values) \in DOMAIN RegisterStringEnum(r, s.hint, s.values).unionDedup
           /\ RegisterStringEnum(r, s.hint, s.values).unionDedup[StringKey(s.values)]
                 = StringEnumName(r, s.hint, s.values)
<1>1. CASE StringKey(s.values) \in DOMAIN r.unionDedup
  BY <1>1 DEF RegisterStringEnum, StringEnumName, Grows
<1>2. CASE StringKey(s.values) \notin DOMAIN r.unionDedup
  <2> DEFINE q == RegisterStringEnum(r, s.hint, s.values)
             n == StringEnumName(r, s.hint, s.values)
             key == StringKey(s.values)
             d == Def("UnionEnum", s.values)
  <2>1. /\ q.types = Put(r.types, n, d)
        /\ q.unionDedup = Put(r.unionDedup, key, n)
    <3>1. r = [types |-> r.types, unionDedup |-> r.unionDedup, structDedup |-> r.structDedup,
               enumDedup |-> r.enumDedup, structCtr |-> r.structCtr, synCtr |-> r.synCtr,
               scope |-> r.scope]
      BY DEF Sound, IsRegistry
    <3> HIDE DEF n, key
    <3>2. n = StringEnumName(r, s.hint, s.values) /\ key = StringKey(s.values)
      BY DEF n, key
    <3> QED
      BY <1>2, <3>1, <3>2 DEF RegisterStringEnum
  <2>2. n \in {PlainName(s.hint), Numbered(s.hint, r.synCtr)} /\ n \notin DOMAIN r.types
    <3>1. CASE PlainName(s.hint) \notin DOMAIN r.types
      BY <1>2, <3>1 DEF StringEnumName
    <3>2. CASE PlainName(s.hint) \in DOMAIN r.types
      <4>1. n = Numbered(s.hint, r.synCtr)
        BY <1>2, <3>2 DEF StringEnumName
      <4>2. r.synCtr \in Nat /\ s.hint # "TypeLit"
        BY HintAssumption DEF Sound, IsRegistry
      <4> QED
        BY <4>1, <4>2 DEF Sound, NumbersBelow, Numbered
    <3> QED
      BY <3>1, <3>2
  <2>3. /\ n.impl = FALSE /\ n.text = s.hint /\ s.hint \in HintTexts
        /\ key = StringKey(s.values) /\ key.of = "string_enum" /\ key.parts = s.values
        /\ d.body = s.values
    BY <2>2 DEF PlainName, Numbered, HintTexts, StringKey, Def
  <2>4. \A ms : UnionKey(ms) # key
    BY <2>3 DEF UnionKey
  <2> HIDE DEF q, n, key, d
  <2>5. UnionsRecorded(q)
    <3>1. \A x \in DOMAIN q.types :
             x.text \in UnionTexts => x \in DOMAIN r.types /\ q.types[x] = r.types[x]
      BY <2>1, <2>3 DEF Put, NamesApart
    <3>2. DOMAIN r.types \subseteq DOMAIN q.types
      BY <2>1 DEF Put
    <3>3. \A ms : UnionKey(ms) \in DOMAIN q.unionDedup =>
             /\ UnionKey(ms) \in DOMAIN r.unionDedup
             /\ q.unionDedup[UnionKey(ms)] = r.unionDedup[UnionKey(ms)]
      BY <2>1, <2>4 DEF Put
    <3> QED
      BY <3>1, <3>2, <3>3 DEF UnionsRecorded
  <2>6. StringsRecorded(q)
    <3>1. \A x \in DOMAIN r.types : x \in DOMAIN q.types /\ q.types[x] = r.types[x]
      BY <2>1, <2>2 DEF Put
    <3>2. n \in DOMAIN q.types /\ q.types[n] = d
      BY <2>1 DEF Put
    <3>3. \A k \in DOMAIN q.unionDedup :
             \/ k = key /\ q.unionDedup[k] = n
             \/ k \in DOMAIN r.unionDedup /\ q.unionDedup[k] = r.unionDedup[k]
      BY <2>1 DEF Put
    <3> QED
      BY <2>3, <3>1, <3>2, <3>3 DEF StringsRecorded
  <2>7. Grows(r, q) /\ key \in DOMAIN q.unionDedup /\ q.unionDedup[key] = n
    BY <1>2, <2>1, <2>3 DEF Grows, Put
  <2> QED
    BY <2>5, <2>6, <2>7 DEF q, n, key
<1> QED
  BY <1>1, <1>2

(* The answers about unions and string enums that were on record still are *)
(* when no signature goes.                                                 *)
NamesAnswered(r, answers) ==
    \A h \in answers :
        /\ h.kind = "union" =>
              \E ms \in UnionRequests :
                 /\ h.asked = DedupMembers(ms)
                 /\ h.name = FreshUnionName(ms)
                 /\ UnionKey(ms) \in DOMAIN r.unionDedup
        /\ h.kind = "string" =>
              /\ StringKey(h.asked) \in DOMAIN r.unionDedup
              /\ r.unionDedup[StringKey(h.asked)] = h.name

(* What was answered stays answered in a registry that has only grown.     *)
LEMMA GrowsAnswers ==
    ASSUME NEW r, NEW q, NEW answers, Grows(r, q), NamesAnswered(r, answers)
    PROVE  NamesAnswered(q, answers)
BY DEF Grows, NamesAnswered

(* What a step has to do for the names to go on denoting.                  *)
LEMMA NamesStepParts ==
    ASSUME NamesInv, NamesApart => UnionsRecorded(reg') /\ StringsRecorded(reg'),
           NamesApart => Grows(reg, reg'), NEW new, handed' = handed \cup new,
           NamesApart => NamesAnswered(reg', new)
    PROVE  NamesInv'
<1> SUFFICES ASSUME NamesApart
             PROVE  /\ UnionsRecorded(reg')
                    /\ StringsRecorded(reg')
                    /\ NamesAnswered(reg', handed')
  BY DEF NamesInv, NamesAnswered
<1>1. NamesAnswered(reg, handed)
  BY DEF NamesInv, NamesAnswered
<1>2. NamesAnswered(reg', handed)
  BY <1>1, GrowsAnswers
<1> QED
  BY <1>2 DEF NamesAnswered

(* Every step keeps the unions and string enums recorded under names that  *)
(* denote them.                                                            *)
LEMMA NamesStep ==
    ASSUME NumberedInv, NamesInv, [Next]_vars
    PROVE  NamesInv'
<1>1. Sound(reg) /\ IsRegistry(reg)
  BY DEF NumberedInv, TypeOK
<1>2. NamesApart => UnionsRecorded(reg) /\ StringsRecorded(reg)
  BY DEF NamesInv
<1>3. ASSUME NEW ms \in UnionRequests, AskUnion(ms)
      PROVE  NamesInv'
  <2> DEFINE h == Answer("union", DedupMembers(ms), UnionName(reg, ms))
  <2>1. reg' = RegisterUnion(reg, ms) /\ handed' = handed \cup {h}
    BY <1>3 DEF AskUnion, Hand
  <2>2. NamesApart => NamesAnswered(reg', {h})
    BY <1>1, <1>2, <2>1, UnionRecords DEF NamesAnswered, Answer
  <2> HIDE DEF h
  <2> QED
    BY <1>1, <1>2, <2>1, <2>2, UnionRecords, NamesStepParts
<1>4. ASSUME NEW s \in StringRequests, AskStringEnum(s)
      PROVE  NamesInv'
  <2> DEFINE h == Answer("string", s.values, StringEnumName(reg, s.hint, s.values))
  <2>1. reg' = RegisterStringEnum(reg, s.hint, s.values) /\ handed' = handed \cup {h}
    BY <1>4 DEF AskStringEnum, Hand
  <2>2. NamesApart => NamesAnswered(reg', {h})
    BY <1>1, <1>2, <2>1, StringRecords DEF NamesAnswered, Answer
  <2> HIDE DEF h
  <2> QED
    BY <1>1, <1>2, <2>1, <2>2, StringRecords, NamesStepParts
<1>5. ASSUME NamesApart => OthersOnly(reg, reg'), NEW new, handed' = handed \cup new,
             \A h \in new : h.kind \notin {"union", "string"}
      PROVE  NamesInv'
  <2>1. NamesAnswered(reg', new)
    BY <1>5 DEF NamesAnswered
  <2>2. NamesApart => Grows(reg, reg')
    BY <1>5 DEF OthersOnly, Grows
  <2>3. NamesApart => UnionsRecorded(reg') /\ StringsRecorded(reg')
    BY <1>2, <1>5, OthersKeepNames
  <2> QED
    BY <1>5, <2>1, <2>2, <2>3, NamesStepParts
<1>6. ASSUME NEW q \in StructRequests, AskStruct(q)
      PROVE  NamesInv'
  <2>1. OthersOnly(reg, reg')
    BY <1>1, <1>6, RequestAssumption, StructOthers DEF AskStruct
  <2>2. \A n : \A h \in StructAnswers(n, q) : h.kind \notin {"union", "string"}
    BY DEF StructAnswers, Answer
  <2>3. handed' = handed \cup StructAnswers(StructName(reg, q.fields), q)
    BY <1>6 DEF AskStruct
  <2> QED
    BY <1>5, <2>1, <2>2, <2>3
<1>7. ASSUME NEW vs \in EnumRequests, AskIntersectionEnum(vs)
      PROVE  NamesInv'
  <2>1. OthersOnly(reg, reg')
    BY <1>1, <1>7, RequestAssumption, EnumOthers DEF AskIntersectionEnum
  <2> DEFINE new == {Answer("intersection", vs, EnumName(reg, vs))}
  <2>2. handed' = handed \cup new
    BY <1>7 DEF AskIntersectionEnum, Hand
  <2>3. \A h \in new : h.kind \notin {"union", "string"}
    BY DEF Answer
  <2> HIDE DEF new
  <2> QED
    BY <1>5, <2>1, <2>2, <2>3
<1>8. ASSUME NEW t \in OwnedTexts, NEW k, NEW b, NEW a \in {"any", "utility"},
             reg' = PushIfAbsent(reg, PlainName(t), k, b), Hand(a, b, PlainName(t))
      PROVE  NamesInv'
  <2>1. OthersOnly(reg, reg')
    <3>1. PlainName(t).text = t
      BY DEF PlainName, Numbered
    <3>2. CASE PlainName(t) \in DOMAIN reg.types
      BY <1>8, <3>2 DEF PushIfAbsent, OthersOnly
    <3>3. CASE PlainName(t) \notin DOMAIN reg.types
      BY <1>1, <1>8, <3>1, <3>3, PushOthers DEF PushIfAbsent
    <3> QED
      BY <3>2, <3>3
  <2> DEFINE new == {Answer(a, b, PlainName(t))}
  <2>2. handed' = handed \cup new
    BY <1>8 DEF Hand
  <2>3. \A h \in new : h.kind \notin {"union", "string"}
    BY DEF Answer
  <2> HIDE DEF new
  <2> QED
    BY <1>5, <2>1, <2>2, <2>3
<1>9. ASSUME NEW q \in AnyRequests, AskAnyEnum(q)
      PROVE  NamesInv'
  BY <1>8, <1>9 DEF AskAnyEnum, OwnedTexts
<1>10. ASSUME NEW q \in UtilityRequests, AskUtility(q)
       PROVE  NamesInv'
  BY <1>8, <1>10 DEF AskUtility, OwnedTexts
<1>11. ASSUME OthersOnly(reg, reg'), handed' = handed
       PROVE  NamesInv'
  <2> DEFINE new == {}
  <2>1. handed' = handed \cup new /\ \A h \in new : h.kind \notin {"union", "string"}
    BY <1>11
  <2> HIDE DEF new
  <2> QED
    BY <1>5, <1>11, <2>1
<1>12. ASSUME NEW t \in StubTexts, PushStub(t)
       PROVE  NamesInv'
  <2>1. PlainName(t).text = t
    BY DEF PlainName, Numbered
  <2> QED
    BY <1>1, <1>11, <1>12, <2>1, PushOthers DEF PushStub
<1>13. ASSUME NEW ts, reg' = PushScope(reg, ts) \/ reg' = RestoreScope(reg, ts), handed' = handed
       PROVE  NamesInv'
  <2>1. reg'.types = reg.types /\ reg'.unionDedup = reg.unionDedup
    BY <1>1, <1>13 DEF PushScope, RestoreScope, IsRegistry
  <2> QED
    BY <1>11, <1>13, <2>1 DEF OthersOnly
<1>14. CASE UNCHANGED vars
  BY <1>11, <1>14 DEF vars, OthersOnly
<1> QED
  BY <1>3, <1>4, <1>6, <1>7, <1>9, <1>10, <1>12, <1>13, <1>14 DEF Next, EnterGeneric, LeaveGeneric

(* The whole invariant holds for every set of requests: the numbered names *)
(* and, where the texts a file uses are apart, the names of unions and     *)
(* string enums.                                                           *)
THEOREM InvariantHolds == Spec => []IInv
<1>1. Init => NamesInv
  BY DEF Init, NewRegistry, Empty, NamesInv, UnionsRecorded, StringsRecorded
<1>2. NumberedInv /\ NamesInv /\ [Next]_vars => NamesInv'
  BY NamesStep
<1> QED
  BY <1>1, <1>2, NumberedHolds, PTL DEF Spec, IInv

(* A union's name stands, whatever is registered later and in whatever     *)
(* order its members are listed, for an enum with the union's variants,    *)
(* and a string enum's name for its values (register_union and             *)
(* register_string_literal_enum), where the texts are apart.               *)
THEOREM NamesStand == Spec => []NamesDenote
<1>1. ASSUME IInv, NamesApart
      PROVE  /\ \A h \in handed : h.kind = "union" =>
                   /\ h.name \in DOMAIN reg.types
                   /\ VariantsOf(reg.types[h.name].body) = VariantsOf(h.asked)
             /\ \A h \in handed : h.kind = "string" => Denotes(h)
  <2>1. UnionsRecorded(reg) /\ StringsRecorded(reg) /\ NamesAnswered(reg, handed)
    BY <1>1 DEF IInv, NamesInv, NamesAnswered
  <2>2. ASSUME NEW h \in handed, h.kind = "union"
        PROVE  /\ h.name \in DOMAIN reg.types
               /\ VariantsOf(reg.types[h.name].body) = VariantsOf(h.asked)
    <3>1. PICK ms \in UnionRequests :
             /\ h.asked = DedupMembers(ms)
             /\ h.name = FreshUnionName(ms)
             /\ UnionKey(ms) \in DOMAIN reg.unionDedup
      BY <2>1, <2>2 DEF NamesAnswered
    <3>2. h.name \in DOMAIN reg.types
      BY <2>1, <3>1 DEF UnionsRecorded
    <3>3. h.name.id = Plain /\ h.name.impl = FALSE /\ h.name.text \in UnionTexts
      BY <3>1 DEF FreshUnionName, PlainName, Numbered, UnionTexts
    <3>4. PICK ns \in UnionRequests :
             /\ h.name = FreshUnionName(ns)
             /\ VariantsOf(reg.types[h.name].body) = VariantsOf(DedupMembers(ns))
      BY <2>1, <3>2, <3>3 DEF UnionsRecorded
    <3> QED
      BY <1>1, <3>1, <3>2, <3>4 DEF NamesApart
  <2>3. ASSUME NEW h \in handed, h.kind = "string"
        PROVE  Denotes(h)
    <3>1. StringKey(h.asked).of = "string_enum" /\ StringKey(h.asked).parts = h.asked
      BY DEF StringKey
    <3> QED
      BY <2>1, <2>3, <3>1 DEF NamesAnswered, StringsRecorded, Denotes
  <2> QED
    BY <2>2, <2>3
<1>2. IInv => NamesDenote
  BY <1>1 DEF NamesDenote, UnionVariantsStand, StringRefsDenote
<1> QED
  BY <1>2, InvariantHolds, PTL
=============================================================================
