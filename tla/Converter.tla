------------------------------ MODULE Converter ------------------------------
(***************************************************************************)
(* What the transformation emits for the interfaces and the type aliases   *)
(* of a file, once the whole file has been collected.  Each declaration is *)
(* thus translated twice, by different code and against different states   *)
(* of the registry: into the entry everything that uses the type reads     *)
(* (Collection), and into the Rust item these uses are compiled against.   *)
(***************************************************************************)
EXTENDS Collection

-----------------------------------------------------------------------------
(* Rust items.                                                             *)

Item(kind, params) == [item |-> kind, params |-> params, fields |-> <<>>, methods |-> <<>>, variants |-> <<>>,
                       tag |-> "", type |-> Rust("()"), supertraits |-> <<>>]
NoItem             == Item("none", <<>>)
Struct(params, fs) == [Item("struct", params) EXCEPT !.fields = fs]
TypeAlias(params, t) == [Item("alias", params) EXCEPT !.type = t]
Enum(tag, variants)  == [Item("enum", <<>>) EXCEPT !.tag = tag, !.variants = variants]
Trait(params, methods, supertraits) ==
    [Item("trait", params) EXCEPT !.methods = methods, !.supertraits = supertraits]

NoData == [none |-> TRUE]
UnitVariant(n)      == [name |-> n, data |-> NoData, fields |-> <<>>]
DataVariant(n, t)   == [name |-> n, data |-> t, fields |-> <<>>]
FieldsVariant(n, fs) == [name |-> n, data |-> NoData, fields |-> fs]

EachType(fs, subs) == [i \in DOMAIN fs |-> [fs[i] EXCEPT !.type = Substitute(@, subs)]]
SubstituteSigs(sigs, subs) ==
    [i \in DOMAIN sigs |-> [sigs[i] EXCEPT !.takes = EachType(@, subs), !.gives = Substitute(@, subs)]]

(* A variant: every parameter is kept.                                     *)
ParamsAsWritten(d, env) ==
    [params |-> [i \in DOMAIN d.params |-> [d.params[i] EXCEPT !.bound = NoRustBound]], subs |-> <<>>]

(* The parameters of a declaration, a bound that does not resolve dropped, *)
(* and what those with a concrete bound are replaced by.                   *)
ExtractTypeParams(d, env) ==
    LET Bound(b) == LET t == env.types[b]
                    IN  IF b = NoBound \/ t = Err THEN NoRustBound ELSE t
    IN  Monomorphize([i \in DOMAIN d.params |-> [d.params[i] EXCEPT !.bound = Bound(@)]], <<>>, env.reg)

(* The parameters by name.                                                 *)
Params(params) == Names(params)

-----------------------------------------------------------------------------
(* Unions.                                                                 *)

IsText(t) == t.k = "text"

(* A union of texts; null among them is forgotten.                         *)
TryConvertStringLiteralUnion(t) ==
    LET texts == SelectSeq(t.members, IsText)
    IN  IF t.k = "union" /\ \A i \in DOMAIN t.members : t.members[i].k \in {"text", "nothing"}
        THEN Enum("", [i \in DOMAIN texts |-> UnitVariant(texts[i].value)]) ELSE NoItem

TryConvertSingleStringLiteral(t) == IF IsText(t) THEN Enum("", <<UnitVariant(t.value)>>) ELSE NoItem

(* A union of literals that a field tells apart; it has no parameters.     *)
IsTagged(t) == /\ t.k = "union"
               /\ Len(t.members) >= 2
               /\ FindDiscriminantField(t.members) # ""

TryConvertDiscriminatedUnion(t, env) ==
    LET tag == FindDiscriminantField(t.members)
        variants == [i \in DOMAIN t.members |->
                        FieldsVariant(Find(t.members[i].fields, tag).value,
                                      ExtractDiscriminatedVariant(t.members[i], tag, env.types))]
    IN  IF \E v \in Range(variants) : v.fields = Refused THEN NoItem ELSE Enum(tag, variants)

(* Functions and tuples carry their type, what is not known anything.      *)
ConvertUnsupportedUnionMember(t, n, env) ==
    LET data == env.types[t]
    IN  CASE t.k = "function" /\ data # Err -> DataVariant("Fn", data)
          [] t.k = "tuple" /\ data # Err -> DataVariant("Tuple", data)
          [] OTHER -> DataVariant(<<"Other0", "Other1", "Other2", "Other3">>[n + 1], Rust("Any"))

(* Of an intersection in a union only the literals count.                  *)
FieldsOfLiterals(members, env) ==
    FlattenSeq([i \in DOMAIN members |->
        IF members[i].k = "literal" THEN ResolveTypeLiteralFields(members[i].fields, env.types) ELSE <<>>])

(* The n-th variant of a union.                                            *)
ConvertUnionMember(t, n, env) ==
    CASE IsText(t) -> UnitVariant(t.value)
      [] t.k = "digit" -> UnitVariant(t.value)
      [] t.k = "prim" -> DataVariant(t.name, Rust(t.name))
      [] t.k = "ref" -> DataVariant(t.name, env.types[t])
      [] t.k = "literal" -> FieldsVariant(Numbered(n), ResolveTypeLiteralFields(t.fields, env.types))
      [] t.k = "both" -> FieldsVariant(Numbered(n), FieldsOfLiterals(t.members, env))
      [] OTHER -> ConvertUnsupportedUnionMember(t, n, env)

(* T | null is an Option, anything else an enum; null among several members *)
(* is forgotten.                                                           *)
TryConvertGeneralUnion(d, env) ==
    LET t    == d.type
        rest == SelectSeq(t.members, LAMBDA m : m.k # "nothing")
        some == SelectSeq(rest, LAMBDA m : m.k # "never")
        mono == ExtractTypeParams(d, env)
        inner == env.types[rest[1]]
        variants == [i \in DOMAIN some |-> ConvertUnionMember(some[i], i - 1, env)]
    IN  CASE t.k # "union" -> NoItem
          [] t.k = "union" /\ Len(rest) = 1 /\ Len(t.members) > 1 ->
                IF inner = Err THEN NoItem
                ELSE TypeAlias(Params(mono.params), Substitute(Wrap(inner, TRUE), mono.subs))
          [] OTHER -> IF variants = <<>> \/ \E v \in Range(variants) : v.data = Err \/ v.fields = Refused
                      THEN NoItem ELSE Enum("", variants)

-----------------------------------------------------------------------------
(* Intersections.                                                          *)

(* The fields and the methods of the parts: a name recorded as a struct    *)
(* adds the fields it is recorded with, a primitive nothing, anything else *)
(* one field named by the position of the part.                            *)
ExtractIntersectionMembers(members, env) ==
    LET Add(merged, i) ==
            LET m == members[i]
                t == env.types[m]
                own == <<[name |-> Position(i - 1), type |-> IF t = Err /\ m.k # "ref" THEN Rust("Any") ELSE t]>>
            IN  CASE m.k = "literal" -> MergeFieldsInto(merged, ResolveTypeLiteralFields(m.fields, env.types))
                  [] m.k = "ref" /\ IsStruct(Lookup(env, m.name)) ->
                        MergeFieldsInto(merged, Plain(Lookup(env, m.name).fields))
                  [] m.k \in {"prim", "nothing", "never"} -> merged
                  [] OTHER -> IF merged = Refused THEN Refused ELSE merged \o own
        MethodsOf(m) == [i \in DOMAIN m.methods |->
                            ResolveMethodSig(m.methods[i], env.types)]
    IN  [fields  |-> FoldLeft(Add, <<>>, [i \in DOMAIN members |-> i]),
         methods |-> FlattenSeq([i \in DOMAIN members |->
                        IF members[i].k = "literal" THEN MethodsOf(members[i]) ELSE <<>>])]

(* A part that is recorded with methods and no fields.                     *)
IsTraitPart(m, env) == /\ m.k = "ref"
                       /\ IsStruct(Lookup(env, m.name))
                       /\ Lookup(env, m.name).fields = <<>>
                       /\ Lookup(env, m.name).methods # <<>>

(* A union among the parts: an enum whose variants have the fields of the  *)
(* others, any further union being one of those.                           *)
ConvertIntersectionWithUnion(parts, mono, env) ==
    LET unions == SelectSeq(parts, LAMBDA m : m.k = "union")
        others == SelectSeq(parts, LAMBDA m : m.k # "union")
        base   == ExtractIntersectionMembers(others, env)
        More(fs, u) == Append(fs, [name |-> Position(Len(fs)), type |-> env.types[u]])
        fields == FoldLeft(More, base.fields, Tail(unions))
        variants == DistributeIntersectionWithUnion(fields, unions[1].members, env.types, env)
    IN  IF fields = Refused \/ \E v \in Range(variants) : v.fields = Refused THEN NoItem
        ELSE [Enum(FindDiscriminantField(unions[1].members),
                   [i \in DOMAIN variants |-> FieldsVariant(variants[i].name, EachType(variants[i].fields, mono.subs))])
                EXCEPT !.methods = SubstituteSigs(base.methods, mono.subs)]

TryConvertIntersectionType(d, env) ==
    LET parts == SelectSeq(d.type.members, LAMBDA m : ~IsEmptyTypeLiteral(m))
        mono  == ExtractTypeParams(d, env)
        names == Params(mono.params)
        only  == env.types[parts[1]]
        all   == ExtractIntersectionMembers(parts, env)
    IN  CASE d.type.k # "both" -> NoItem
          [] parts = <<>> -> Struct(names, <<>>)
          [] Len(parts) = 1 /\ parts[1].k \notin {"literal", "ref", "prim", "nothing", "never"} ->
                TypeAlias(names, Substitute(IF only = Err THEN Rust("Any") ELSE only, mono.subs))
          [] OTHER ->
                CASE \E i \in DOMAIN parts : parts[i].k = "union" -> ConvertIntersectionWithUnion(parts, mono, env)
                  [] \A i \in DOMAIN parts : IsTraitPart(parts[i], env) ->
                        Trait(<<>>, <<>>, [i \in DOMAIN parts |-> parts[i].name])
                  [] OTHER -> IF all.fields = Refused THEN NoItem
                              ELSE [Struct(names, EachType(all.fields, mono.subs))
                                        EXCEPT !.methods = SubstituteSigs(all.methods, mono.subs)]

-----------------------------------------------------------------------------
(* The other aliases.                                                      *)

TryConvertFunctionTypeAlias(d, env) ==
    LET mono == ExtractTypeParams(d, env)
        t == env.types[d.type]
    IN  IF d.type.k # "function" \/ t = Err THEN NoItem ELSE TypeAlias(Params(mono.params), Substitute(t, mono.subs))

TryConvertTupleTypeAlias(d, env) ==
    LET mono == ExtractTypeParams(d, env)
        t == env.types[d.type]
    IN  IF d.type.k # "tuple" \/ t = Err THEN NoItem ELSE TypeAlias(Params(mono.params), Substitute(t, mono.subs))

(* The longest of several call signatures, the last of that length; that a *)
(* parameter is optional is forgotten.                                     *)
ConvertCalls(d, env) ==
    LET calls == d.type.calls
        sig   == calls[Longest(calls)]
        takes == [i \in DOMAIN sig.takes |-> env.types[sig.takes[i].type]]
        gives == env.types[sig.gives]
        mono  == ExtractTypeParams(d, env)
    IN  IF Failed(Append(takes, gives)) THEN NoItem
        ELSE TypeAlias(Params(mono.params), Substitute([fn |-> takes, gives |-> gives], mono.subs))

(* An object literal: its call signatures, or its methods, when it has no  *)
(* properties; its index signature; or else its properties.                *)
ConvertTypeLiteral(d, env) ==
    LET lit    == d.type
        mono   == ExtractTypeParams(d, env)
        names  == Params(mono.params)
        fields == ResolveTypeLiteralFields(lit.fields, env.types)
        value  == env.types[lit.index]
        methods == [i \in DOMAIN lit.methods |->
                        ResolveMethodSig(lit.methods[i], env.types)]
    IN  CASE lit.calls # <<>> /\ lit.methods = <<>> /\ lit.fields = <<>> -> ConvertCalls(d, env)
          [] lit.methods # <<>> /\ lit.fields = <<>> -> Trait(<<>>, methods, <<>>)
          [] OTHER ->
                CASE lit.index # Untyped ->
                        IF value = Err THEN NoItem ELSE TypeAlias(names, [map |-> Substitute(value, mono.subs)])
                  [] OTHER -> IF lit.calls # <<>> \/ fields = Refused THEN NoItem
                              ELSE Struct(names, EachType(fields, mono.subs))

ConvertTypeAliasFallback(d, env) ==
    LET mono == ExtractTypeParams(d, env)
        t == env.types[d.type]
    IN  CASE d.type.k = "literal" -> ConvertTypeLiteral(d, env)
          [] OTHER -> IF t = Err THEN NoItem ELSE TypeAlias(Params(mono.params), Substitute(t, mono.subs))

(* The first form that fits.                                               *)
ConvertTypeAliasWithScope(d, env) ==
    CASE IsTagged(d.type) -> TryConvertDiscriminatedUnion(d.type, env)
      [] d.type.k = "union" /\ ~IsTagged(d.type) -> TryConvertGeneralUnion(d, env)
      [] d.type.k = "both" -> TryConvertIntersectionType(d, env)
      [] d.type.k = "function" -> TryConvertFunctionTypeAlias(d, env)
      [] d.type.k = "tuple" -> TryConvertTupleTypeAlias(d, env)
      [] OTHER -> ConvertTypeAliasFallback(d, env)

ConvertTypeAlias(d, env) ==
    LET texts  == TryConvertStringLiteralUnion(d.type)
        single == TryConvertSingleStringLiteral(d.type)
    IN  CASE texts # NoItem -> texts
          [] single # NoItem -> single
          [] OTHER -> ConvertTypeAliasWithScope(d, env)

(* keyof typeof: the names of the fields of a struct or the values of an   *)
(* enumeration, as an enum; of anything else, nothing.                     *)
TryConvertKeyofTypeofAlias(t, env) ==
    LET def == Lookup(env, t.of.name)
    IN  CASE ~(t.k = "keyof" /\ t.of.k = "typeof") -> NoItem
          [] def.kind = "struct" -> Enum("", [i \in DOMAIN def.fields |-> UnitVariant(def.fields[i].name)])
          [] def.kind = "enum" -> Enum("", [i \in DOMAIN def.variants |-> UnitVariant(def.variants[i].name)])
          [] OTHER -> NoItem

RECURSIVE UsesParam(_, _)
UsesParam(t, n) ==
    CASE Is(t, "var") -> t.var = n
      [] Is(t, "option") -> UsesParam(t.option, n)
      [] Is(t, "vec") -> UsesParam(t.vec, n)
      [] Is(t, "map") -> UsesParam(t.map, n)
      [] Is(t, "named") -> \E i \in DOMAIN t.args : UsesParam(t.args[i], n)
      [] OTHER -> FALSE

(* T extends C<infer U> ? U : never, the Output of a trait C.              *)
TryConvertInferPattern(t) ==
    IF /\ t.no = Never
       /\ t.extends.k = "ref"
       /\ \E i \in DOMAIN t.extends.args : t.extends.args[i].k = "infer"
       /\ t.check.k = "ref"
    THEN [output |-> t.check.name, of |-> t.extends.name] ELSE Err

ConvertConditionalType(t, env) ==
    LET infer == TryConvertInferPattern(t)
    IN  CASE infer # Err -> infer
          [] t.yes = Truth(TRUE) /\ t.no = Truth(FALSE) -> Rust("bool")
          [] OTHER -> env.types[t.yes]

(* A conditional alias keeps the parameters its type mentions; one that    *)
(* does not resolve is anything.                                           *)
ConvertConditionalAlias(d, env) ==
    LET mono == ExtractTypeParams(d, env)
        t    == ConvertConditionalType(d.type, env)
        ty   == Substitute(IF t = Err THEN Rust("Any") ELSE t, mono.subs)
    IN  TypeAlias(Params(SelectSeq(mono.params, LAMBDA p : UsesParam(ty, p.name))), ty)

ConvertTypeAliasItems(d, env) ==
    LET keys == TryConvertKeyofTypeofAlias(d.type, env)
    IN  CASE d.type.k = "conditional" -> ConvertConditionalAlias(d, env)
          [] d.type.k = "keyof" /\ keys # NoItem -> keys
          [] OTHER -> ConvertTypeAlias(d, env)

-----------------------------------------------------------------------------
(* Interfaces.                                                             *)

(* A property is emitted with the type it is annotated with.               *)
ConvertPropertySignatures(d, env) ==
    IF Untyped \in Range(Types(d.fields)) THEN Refused ELSE ResolveTypeLiteralFields(d.fields, env.types)

(* The call signatures of an interface are the methods of a trait; one     *)
(* that gives a promise is asynchronous and gives what is promised.        *)
ConvertCallableInterfaceAsTrait(d, mono, env) ==
    LET sigs == ResolveMethodSigs(d.calls, env.types)
        Promised(t) == IF Is(t, "named") /\ t.named = Declared("Promise") THEN t.args[1] ELSE t
    IN  Trait(Params(mono.params), [i \in DOMAIN sigs |-> [sigs[i] EXCEPT !.gives = Promised(@)]], <<>>)

(* What a declaration becomes: the item of its own name and, beside it,    *)
(* the struct {Name}Data, whose methods are those of its impl.             *)
Alone(it) == [own |-> it, data |-> NoItem]

StructAndTrait(trait, struct) == [own |-> trait, data |-> [struct EXCEPT !.methods = trait.methods]]

(* The fields recorded for the parents, each name once.                    *)
ParentFields(d, env) ==
    LET Add(fs, n) ==
            LET def == Lookup(env, n)
                new == SelectSeq(Plain(def.fields), LAMBDA f : f.name \notin Range(Names(fs)))
            IN  IF IsStruct(def) THEN fs \o new ELSE fs
    IN  FoldLeft(Add, <<>>, d.extends)

(* Properties, its parents' first, make a struct, methods a trait on those *)
(* of its parents, and both the two of them.                               *)
ConvertInterfaceItems(d, env) ==
    LET mono    == ExtractTypeParams(d, env)
        names   == Params(mono.params)
        own     == ConvertPropertySignatures(d, env)
        fields  == EachType(ParentFields(d, env) \o own, mono.subs)
        methods == SubstituteSigs(ResolveMethodSigs(d.methods, env.types), mono.subs)
        callable == ConvertCallableInterfaceAsTrait(d, mono, env)
        trait   == Trait(names, methods, d.extends)
        others  == d.calls \o d.ctor
    IN  CASE d.calls # <<>> /\ d.fields = <<>> /\ d.methods = <<>> /\ d.ctor = <<>> ->
                Alone([callable EXCEPT !.methods = SubstituteSigs(@, mono.subs)])
          [] d.methods # <<>> /\ d.fields = <<>> -> Alone(IF others # <<>> THEN NoItem ELSE trait)
          [] d.methods # <<>> /\ d.fields # <<>> ->
                IF own = Refused THEN Alone(NoItem)
                ELSE StructAndTrait(trait, Struct(names, fields))
          [] OTHER -> Alone(IF own = Refused \/ others # <<>> THEN NoItem ELSE Struct(names, fields))

(* What a declaration is translated against: the registry, and its types   *)
(* resolved with its parameters in scope.                                  *)
Translation(d, env) ==
    [reg |-> env.reg, synthetic |-> env.synthetic,
     types |-> ResolveAll(UNION {Inside(t) : t \in TypesOf(d)}, Scoped(env, d.params))]

Emitted(d, env) ==
    IF d.what = "alias" THEN Alone(ConvertTypeAliasItems(d, env)) ELSE ConvertInterfaceItems(d, env)

-----------------------------------------------------------------------------
(* What a use that reads the entry finds in the item.                      *)

SameSigs(sigs, others) == /\ Len(sigs) = Len(others)
                          /\ \A i \in DOMAIN sigs : /\ Types(sigs[i].takes) = Types(others[i].takes)
                                                    /\ sigs[i].gives = others[i].gives

Empty(def) == IsStruct(def) /\ def.fields = <<>> /\ def.methods = <<>> /\ def.calls = <<>>

(* The struct a type names, if it does.                                    *)
StructNamed(t, env) ==
    CASE ~Is(t, "named") -> NoDef
      [] IsSyntheticStruct(t) -> [NoDef EXCEPT !.kind = "struct", !.fields = AsFields(SyntheticFields(t.named, env))]
      [] ~Is(t.named, "decl") -> NoDef
      [] OTHER -> Instantiate(Lookup(env, t.named.decl), t.args)

AliasAgrees(t, def, env) ==
    LET target == StructNamed(t, env)
    IN  CASE IsStruct(target) -> /\ Plain(def.fields) = Plain(target.fields)
                                 /\ SameSigs(def.methods, target.methods)
                                 /\ ~target.interface \/ target.methods = <<>>
          [] Is(t, "fn") -> def.kind = "function" /\ t = [fn |-> Types(def.fields), gives |-> def.gives]
          [] OTHER -> Empty(def)

Agrees(emitted, def, env) ==
    /\ emitted.params = Params(def.params)
    /\ CASE emitted.item = "struct" -> /\ IsStruct(def)
                                    /\ Plain(def.fields) = emitted.fields
                                    /\ SameSigs(def.methods, emitted.methods)
         [] emitted.item = "trait" -> /\ IsStruct(def)
                                   /\ def.interface
                                   /\ def.fields = <<>>
                                   /\ def.extends = emitted.supertraits
                                   /\ SameSigs(def.methods \o def.calls, emitted.methods)
         [] emitted.item = "enum" -> /\ def.kind = "enum"
                                  /\ Names(def.variants) = Names(emitted.variants)
                                  /\ \A i \in DOMAIN def.variants :
                                        Plain(def.variants[i].fields) = emitted.variants[i].fields
         [] emitted.item = "alias" -> AliasAgrees(emitted.type, def, env)
         [] emitted.item = "none" -> FALSE

(* A trait and a struct under another name have between them what the      *)
(* entry lists for the one name.                                           *)
SplitsAsRecorded(emitted, def) ==
    /\ emitted.data.item = "struct"
    /\ emitted.own.params = Params(def.params)
    /\ def.extends = emitted.own.supertraits
    /\ Plain(def.fields) = emitted.data.fields
    /\ SameSigs(def.methods, emitted.own.methods)
    /\ SameSigs(def.methods, emitted.data.methods)

-----------------------------------------------------------------------------
(* Where the two translations differ: the gaps, each by name.              *)

Parts(d) == {d.type.members[i] : i \in DOMAIN d.type.members}

(* A union that is not all texts nor told apart by a tag, one text or the  *)
(* keys of a constant is emitted as an enum and recorded with no members.  *)
UnrecordedUnion(d) == d.type.k \in {"union", "text", "keyof"} /\ CopiesFields(d)

(* The tag of the entry is the first text that all literals have; that of  *)
(* the item must be another text in each.                                  *)
TagRepeats(d) == IsDiscriminatedUnion(d.type) /\ ~IsTagged(d.type)

(* Enums, and traits made of an alias, are emitted with no parameters.     *)
LosesParams(d, emitted) == d.what = "alias" /\ d.params # <<>> /\ emitted.item \in {"enum", "trait"}

(* An alias of what has no members, or of call signatures, is recorded     *)
(* without its parameters.                                                 *)
ParamsUnrecorded(d) == (CopiesFields(d) \/ IsCallOnly(d.type)) /\ d.params # reg[d.name].params

(* An alias of an object literal is recorded with the parameters it is     *)
(* written with, and emitted with those that no type replaces.             *)
StaysGeneric(d, env) ==
    d.type.k \in {"literal", "both"} /\ Len(ExtractTypeParams(d, env).params) < Len(d.params)

(* An intersection with a union is emitted as an enum and recorded with    *)
(* one field; a part that is no name and no literal is a field, named by   *)
(* the place of the part in one and by how many fields there are in the    *)
(* other; a name given arguments is recorded with these.                   *)
OddIntersection(d) ==
    d.type.k = "both" /\ \E m \in Parts(d) : m.k \notin {"literal", "ref"} \/ (m.k = "ref" /\ m.args # <<>>)

(* Traits together are a trait, and recorded with no members.              *)
TraitsTogether(d, emitted) == d.what = "alias" /\ emitted.item = "trait" /\ emitted.supertraits # <<>>

(* A struct has the fields of its parents, which its entry does not list,  *)
(* those it declares itself twice, and no methods of theirs; the trait of  *)
(* call signatures has no parents.                                         *)
Inherits(d, emitted) == d.extends # <<>> /\ ("struct" \in {emitted.own.item, emitted.data.item} \/ d.calls # <<>>)

(* A literal with methods and properties is emitted without the methods,   *)
(* one with methods alone as a trait, which the entry does not say; one    *)
(* with an index signature as a map.                                       *)
MethodsOfLiteral(d) == d.type.k = "literal" /\ (d.type.methods # <<>> \/ (d.type.index # Untyped /\ d.type.fields # <<>>))

(* An alias of an interface with methods is no trait to the registry.      *)
AliasOfTrait(t, env) == Is(t, "named") /\ LET target == StructNamed(t, env) IN target.interface /\ target.methods # <<>>

(* An alias of the type of a field copies what was known of that type.      *)
FieldsTypeAhead(i, t) == Is(t, "named") /\ Is(t.named, "decl") /\ Declares(t.named.decl) /\ ~Sees(i, t.named.decl)

(* The type of a function is emitted as one, and recorded with no members.  *)
TypeOfFunction(d, emitted) == d.type.k = "typeof" /\ Is(emitted.type, "fn")

(* Call signatures: what is optional among their parameters is forgotten,  *)
(* and with properties beside them the declaration is refused.             *)
ForgetsOptional(d) ==
    d.type.k = "literal" /\ \E sig \in Range(d.type.calls) : \E p \in Range(sig.takes) : p.optional
MixedCalls(d) == d.type.k = "literal" /\ d.type.calls # <<>> /\ d.type.fields # <<>>

EmissionGap(i, emitted, env) ==
    LET d   == program[i]
        own == emitted.own
    IN  \/ LooksAhead(i) \/ FieldsTypeAhead(i, own.type)
        \/ UntypedMember(d)
        \/ OddIntersection(d)
        \/ SharedField(d)
        \/ UnrecordedUnion(d)
        \/ TagRepeats(d)
        \/ LosesParams(d, own)
        \/ ParamsUnrecorded(d)
        \/ StaysGeneric(d, env)
        \/ TraitsTogether(d, own) \/ Inherits(d, emitted)
        \/ MethodsOfLiteral(d)
        \/ AliasOfTrait(own.type, env)
        \/ TypeOfFunction(d, own)
        \/ ForgetsOptional(d)
        \/ MixedCalls(d)

CorrespondsTo(i, emitted, env) ==
    LET def == reg[program[i].name]
    IN  EmissionGap(i, emitted, env) \/ Agrees(emitted.own, def, env) \/ SplitsAsRecorded(emitted, def)
Corresponds(i, env) == CorrespondsTo(i, Emitted(program[i], env), env)

(* A declaration's entry and its item (collect_decl; convert_interface and *)
(* convert_type_alias): the struct, enum, trait or function that is        *)
(* emitted for an interface or a type alias has the parameters, the fields,*)
(* the variants and the methods, each of the type, that its entry in the   *)
(* registry tells the code that builds, matches and calls it, and stands   *)
(* under its name, but for an interface with properties and methods, whose *)
(* fields are those of a struct of another name; an alias of a type with   *)
(* no members is recorded with none.  The gaps are the declarations named  *)
(* above.                                                                  *)
EmittedAsRecorded ==
    pass = "done" => \A i \in DOMAIN program :
        program[i].what \in {"interface", "alias"} =>
            Corresponds(i, Translation(program[i], Reading(reg)))

=============================================================================
