------------------------- MODULE SyntheticRegistry -------------------------
(***************************************************************************)
(* One registry of synthetic types under every operation its callers, the  *)
(* type converter and resolver, can make in any order.                     *)
(*                                                                         *)
(* handed is a history variable: what each caller asked for and the name   *)
(* it was given.  Callers embed that name in the types they build and      *)
(* never look the item up again, so the item must go on being the one that *)
(* was asked for.                                                          *)
(***************************************************************************)
EXTENDS SyntheticTypes

CONSTANTS
    UnionRequests,   \* member lists, without repetitions
    StructRequests,  \* [fields, methods] of type literals and intersections
    EnumRequests,    \* variants of intersection enums, tag included
    StringRequests,  \* [hint, values] of string literal enums
    AnyRequests,     \* [text, variants] of any-enums
    UtilityRequests, \* [text, fields] of Partial, Pick, ...
    StubTexts,       \* names of stub traits
    ScopeRequests,   \* type parameter lists of generic declarations
    MaxDepth         \* bound on nested generic declarations

ASSUME RequestAssumption ==
    /\ UnionRequests \subseteq Seq(Parts)
    /\ StructRequests \subseteq [fields : Bodies, methods : Bodies]
    /\ EnumRequests \subseteq Bodies
    /\ StringRequests \subseteq [hint : Texts, values : Bodies]
    /\ AnyRequests \subseteq [text : Texts, variants : Bodies]
    /\ UtilityRequests \subseteq [text : Texts, fields : Bodies]
    /\ StubTexts \subseteq Texts
    /\ ScopeRequests \subseteq SUBSET Texts
    /\ MaxDepth \in Nat

(* A property name `type_lit` or `intersection` could give a string enum   *)
(* the texts the numbered structs and enums use.                           *)
ASSUME HintAssumption ==
    \A q \in StringRequests : q.hint \notin {"TypeLit", "Intersection"}

VARIABLES
    reg,     \* the registry
    handed,  \* [kind, asked, name]: what callers asked for and were given
    saved    \* the scopes callers hold to restore, innermost last

vars == <<reg, handed, saved>>

RequestKinds == {"union", "struct", "methods", "intersection", "string", "any", "utility"}

Answer(k, b, n) == [kind |-> k, asked |-> b, name |-> n]

Hand(k, b, n) == handed' = handed \cup {Answer(k, b, n)}

Init ==
    /\ reg = NewRegistry
    /\ handed = {}
    /\ saved = <<>>

-----------------------------------------------------------------------------
AskUnion(ms) ==
    /\ reg' = RegisterUnion(reg, ms)
    /\ Hand("union", DedupMembers(ms), UnionName(reg, ms))
    /\ UNCHANGED saved

StructAnswers(n, q) ==
    {Answer("struct", q.fields, n)}
      \cup (IF q.methods = {} THEN {} ELSE {Answer("methods", q.methods, ImplName(n))})

AskStruct(q) ==
    /\ reg' = RegisterIntersection(reg, q.fields, q.methods)
    /\ handed' = handed \cup StructAnswers(StructName(reg, q.fields), q)
    /\ UNCHANGED saved

AskIntersectionEnum(vs) ==
    /\ reg' = RegisterIntersectionEnum(reg, vs)
    /\ Hand("intersection", vs, EnumName(reg, vs))
    /\ UNCHANGED saved

AskStringEnum(q) ==
    /\ reg' = RegisterStringEnum(reg, q.hint, q.values)
    /\ Hand("string", q.values, StringEnumName(reg, q.hint, q.values))
    /\ UNCHANGED saved

AskAnyEnum(q) ==
    /\ reg' = PushIfAbsent(reg, PlainName(q.text), "AnyEnum", q.variants)
    /\ Hand("any", q.variants, PlainName(q.text))
    /\ UNCHANGED saved

AskUtility(q) ==
    /\ reg' = PushIfAbsent(reg, PlainName(q.text), "InlineStruct", q.fields)
    /\ Hand("utility", q.fields, PlainName(q.text))
    /\ UNCHANGED saved

PushStub(t) ==
    /\ reg' = PushItem(reg, PlainName(t), "Trait", {})
    /\ UNCHANGED <<handed, saved>>

EnterGeneric(ts) ==
    /\ Len(saved) < MaxDepth
    /\ saved' = Append(saved, reg.scope)
    /\ reg' = PushScope(reg, ts)
    /\ UNCHANGED handed

LeaveGeneric ==
    /\ saved # <<>>
    /\ reg' = RestoreScope(reg, saved[Len(saved)])
    /\ saved' = SubSeq(saved, 1, Len(saved) - 1)
    /\ UNCHANGED handed

Next ==
    \/ \E ms \in UnionRequests : AskUnion(ms)
    \/ \E q \in StructRequests : AskStruct(q)
    \/ \E vs \in EnumRequests : AskIntersectionEnum(vs)
    \/ \E q \in StringRequests : AskStringEnum(q)
    \/ \E q \in AnyRequests : AskAnyEnum(q)
    \/ \E q \in UtilityRequests : AskUtility(q)
    \/ \E t \in StubTexts : PushStub(t)
    \/ \E ts \in ScopeRequests : EnterGeneric(ts)
    \/ LeaveGeneric

Spec == Init /\ [][Next]_vars

-----------------------------------------------------------------------------
(* Type correctness of the registry, the answers and the saved scopes. *)
TypeOK ==
    /\ IsRegistry(reg)
    /\ handed \subseteq [kind : RequestKinds, asked : Bodies, name : Names]
    /\ saved \in Seq(SUBSET Texts)

Denotes(h) == h.name \in DOMAIN reg.types /\ reg.types[h.name].body = h.asked

(* The name handed out for a type literal or an intersection goes on       *)
(* naming an item with exactly the fields (or variants) asked for,         *)
(* whatever is registered, pushed or overwritten later.                    *)
StructRefsDenote ==
    \A h \in handed : h.kind \in {"struct", "intersection"} => Denotes(h)

(* What the passing configuration assumes of the texts a file uses: the    *)
(* joined variant names tell unions apart, and unions, hints, any-enums,   *)
(* utility types and stubs take their texts from different pools, a        *)
(* any-enum or utility text belonging to one body.                         *)
UnionTexts == {FreshUnionName(ms).text : ms \in UnionRequests}
HintTexts == {q.hint : q \in StringRequests}
OwnedTexts == {q.text : q \in AnyRequests \cup UtilityRequests}

NamesApart ==
    /\ \A ms, ns \in UnionRequests :
          FreshUnionName(ms) = FreshUnionName(ns)
             => VariantsOf(DedupMembers(ms)) = VariantsOf(DedupMembers(ns))
    /\ UnionTexts \cap (HintTexts \cup OwnedTexts \cup StubTexts) = {}
    /\ HintTexts \cap StubTexts = {}

(* A union's name denotes an enum with the variant names of that union,    *)
(* even when a request with the members in another order, or with other    *)
(* members of the same variant names, registered it: generated code        *)
(* constructs and matches `Name::Variant`.                                 *)
UnionVariantsStand ==
    NamesApart =>
      \A h \in handed : h.kind = "union" =>
          /\ h.name \in DOMAIN reg.types
          /\ VariantsOf(reg.types[h.name].body) = VariantsOf(h.asked)

(* A string literal enum keeps its values: a second enum with the same     *)
(* hint gets a numbered name instead of taking over the first one's.       *)
StringRefsDenote ==
    NamesApart => \A h \in handed : h.kind = "string" => Denotes(h)

(* The names the dictionary of Naming leaves out.                          *)
NamesDenote == UnionVariantsStand /\ StringRefsDenote

(* A numbered item is written once: no registration, with whatever hint,   *)
(* reuses the number of an earlier one.                                    *)
NumberedItemsFrozen ==
    [][\A n \in DOMAIN reg.types :
          (n.id # Plain /\ n.impl = FALSE) =>
             n \in DOMAIN reg'.types /\ reg'.types[n] = reg.types[n]]_vars

(* While a generic declaration is converted every type parameter of the    *)
(* declarations around it stays in scope, and after the outermost one      *)
(* nothing does.                                                           *)
ScopesNest ==
    /\ saved = <<>> => reg.scope = {}
    /\ \A i \in 1 .. Len(saved) : saved[i] \subseteq reg.scope
    /\ \A i, j \in 1 .. Len(saved) : i <= j => saved[i] \subseteq saved[j]

(* The invariant the proofs induct on.  Of structs and intersection enums: *)
(* the registry is sound and each answer is still on record.               *)
NumberedInv ==
    /\ TypeOK
    /\ Sound(reg)
    /\ \A h \in handed :
          /\ h.kind = "struct" => h.asked \in DOMAIN reg.structDedup
                                    /\ reg.structDedup[h.asked] = h.name
          /\ h.kind = "intersection" => h.asked \in DOMAIN reg.enumDedup
                                    /\ reg.enumDedup[h.asked] = h.name

(* Of unions: a signature on record has the name made of its variants, and *)
(* what stands under a union's name is some union of that name.            *)
UnionsRecorded(r) ==
    /\ \A ms \in UnionRequests :
          UnionKey(ms) \in DOMAIN r.unionDedup =>
             /\ r.unionDedup[UnionKey(ms)] = FreshUnionName(ms)
             /\ FreshUnionName(ms) \in DOMAIN r.types
    /\ \A n \in DOMAIN r.types :
          (n.id = Plain /\ n.impl = FALSE /\ n.text \in UnionTexts) =>
             \E ms \in UnionRequests :
                /\ n = FreshUnionName(ms)
                /\ VariantsOf(r.types[n].body) = VariantsOf(DedupMembers(ms))

(* Of string enums: a signature on record has a name made of some hint,    *)
(* numbered or not, under which its values stand.                          *)
StringsRecorded(r) ==
    \A k \in DOMAIN r.unionDedup :
        k.of = "string_enum" =>
           /\ r.unionDedup[k].text \in HintTexts
           /\ r.unionDedup[k].impl = FALSE
           /\ r.unionDedup[k] \in DOMAIN r.types
           /\ r.types[r.unionDedup[k]].body = k.parts

NamesInv ==
    NamesApart =>
       /\ UnionsRecorded(reg)
       /\ StringsRecorded(reg)
       /\ \A h \in handed :
             /\ h.kind = "union" =>
                   \E ms \in UnionRequests :
                      /\ h.asked = DedupMembers(ms)
                      /\ h.name = FreshUnionName(ms)
                      /\ UnionKey(ms) \in DOMAIN reg.unionDedup
             /\ h.kind = "string" =>
                   /\ StringKey(h.asked) \in DOMAIN reg.unionDedup
                   /\ reg.unionDedup[StringKey(h.asked)] = h.name

IInv == NumberedInv /\ NamesInv

-----------------------------------------------------------------------------
(* The registry seen as a dictionary of structs and intersection enums. *)
Asked(k, b) == [kind |-> k, parts |-> b]

given == [q \in {Asked("struct", b) : b \in DOMAIN reg.structDedup}
                  \cup {Asked("intersection", b) : b \in DOMAIN reg.enumDedup} |->
            IF q.kind = "struct" THEN reg.structDedup[q.parts] ELSE reg.enumDedup[q.parts]]

means == [n \in {given[q] : q \in DOMAIN given} |-> reg.types[n].body]

Requests ==
    {Asked("struct", q.fields) : q \in StructRequests}
      \cup {Asked("intersection", vs) : vs \in EnumRequests}

N == INSTANCE Naming WITH Request <- Requests

(* The registry is such a dictionary: every registration, push, stub or    *)
(* scope change either leaves it as it is or adds one request under a name *)
(* that meant nothing before (register_struct_dedup, and                   *)
(* register_intersection_enum, under all the other ways to write an item). *)
KeepsDictionary == N!Spec
=============================================================================
