----------------------------- MODULE Collection -----------------------------
(***************************************************************************)
(* The collection of a file's declarations into the type registry, and the *)
(* resolution of the types they mention.  A first pass registers a         *)
(* placeholder for every name; the second resolves the declarations that   *)
(* are not variables against a copy of the placeholders, and aliases that  *)
(* are not object literals against the registry under construction; a      *)
(* third resolves the variables against a copy of what the second left.    *)
(* What a definition holds thus depends on what its types had to look      *)
(* inside of, and on whether that had been collected by then.              *)
(*                                                                         *)
(* A TypeScript type is a record with a field "k"; the Rust types, and the *)
(* names of synthetic types, are records told apart by their fields.  A    *)
(* synthetic type named after its content is that content; one named after *)
(* another type (Partial, Required, Pick, Omit) keeps the fields it had    *)
(* when it was first asked for.                                            *)
(***************************************************************************)
EXTENDS Integers, Sequences, FiniteSets, SequencesExt

CONSTANTS Pool,     \* declarations a file may hold
          MaxItems  \* bound on the declarations of a file

ASSUME MaxItemsAssumption == MaxItems \in Nat \ {0}

-----------------------------------------------------------------------------
(* TypeScript's types, declarations and registry entries.                  *)

Prim(p)        == [k |-> "prim", name |-> p]
Ref(n, args)   == [k |-> "ref", name |-> n, args |-> args]
Text(s)        == [k |-> "text", value |-> s]
Nothing        == [k |-> "nothing"]            \* null, undefined, void
Untyped        == [k |-> "untyped"]            \* no annotation
Digit(n)       == [k |-> "digit", value |-> n] \* a literal number, true or false, never
Truth(b)       == [k |-> "truth", value |-> b]
Never          == [k |-> "never"]
LiteralOf(fs, ms, calls, index) ==
    [k |-> "literal", fields |-> fs, methods |-> ms, calls |-> calls, index |-> index]
Literal(fs)    == LiteralOf(fs, <<>>, <<>>, Untyped)
Tuple(ts)      == [k |-> "tuple", members |-> ts]
Conditional(check, extends, yes, no) ==
    [k |-> "conditional", check |-> check, extends |-> extends, yes |-> yes, no |-> no]
Infer(n)       == [k |-> "infer", name |-> n]
Union(ts)      == [k |-> "union", members |-> ts]
Both(ts)       == [k |-> "both", members |-> ts]
KeyOf(t)       == [k |-> "keyof", of |-> t]
TypeOf(n)      == [k |-> "typeof", name |-> n]
At(o, i)       == [k |-> "at", object |-> o, index |-> i]
Function(ps, r) == [k |-> "function", takes |-> ps, gives |-> r]
MappedAs(b, v, modified, filter) ==
    [k |-> "mapped", base |-> b, value |-> v, modified |-> modified, filter |-> filter]
Mapped(b, v)   == MappedAs(b, v, FALSE, "none")

Field(n, t, opt) == [name |-> n, type |-> t, optional |-> opt]
Sig(takes, gives) == [takes |-> takes, gives |-> gives]

IsStruct(def) == def.kind = "struct"

(* Rust's types.                                                           *)
Err            == [err |-> "unsupported"]
Rust(p)        == [prim |-> p]
Named(n, args) == [named |-> n, args |-> args]
Declared(n)    == [decl |-> n]

NoDef == [kind |-> "none", params |-> <<>>, fields |-> <<>>, methods |-> <<>>, ctor |-> <<>>,
          calls |-> <<>>, gives |-> Rust("()"), elements |-> <<>>, variants |-> <<>>, ref |-> "",
          extends |-> <<>>, interface |-> FALSE]

Is(t, f) == f \in DOMAIN t

Wrap(t, optional) == IF optional /\ ~Is(t, "option") /\ t # Err THEN [option |-> t] ELSE t
Unwrap(t) == IF Is(t, "option") THEN t.option ELSE t

Failed(ts) == Err \in Range(ts)
Names(fs)  == [i \in DOMAIN fs |-> fs[i].name]
Types(fs)  == [i \in DOMAIN fs |-> fs[i].type]
Find(fs, n) == LET at == SelectInSeq(fs, LAMBDA f : f.name = n)
               IN  IF at = 0 THEN Err ELSE fs[at].type

Plain(fs)  == [i \in DOMAIN fs |-> [name |-> fs[i].name, type |-> fs[i].type]]

RemoveDuplicates(ts) == FoldLeft(LAMBDA acc, t : IF t \in Range(acc) THEN acc ELSE Append(acc, t), <<>>, ts)

Uniform(ts) == LET distinct == RemoveDuplicates(ts)
               IN  CASE Len(distinct) = 0 -> Rust("Any")
                     [] Len(distinct) = 1 -> distinct[1]
                     [] OTHER -> Named([union |-> distinct], <<>>)

Utilities == {"Partial", "Required", "Pick", "Omit"}

-----------------------------------------------------------------------------
(* Resolution.  env is what the resolver reads: the registry it looks      *)
(* names up in, the synthetic types asked for so far, and the type         *)
(* parameters in scope.                                                    *)

Lookup(env, n) == IF n \in DOMAIN env.reg THEN env.reg[n] ELSE NoDef

(* The fields of a synthetic struct: those it was first given.             *)
RECURSIVE SyntheticFields(_, _)
SyntheticFields(name, env) ==
    LET source == IF Is(name.of, "decl") THEN Lookup(env, name.of.decl).fields
                                         ELSE SyntheticFields(name.of, env)
    IN  CASE Is(name, "inline") -> name.inline
          [] Is(name, "merged") -> name.merged
          [] name \in DOMAIN env.synthetic -> env.synthetic[name]
          [] name.utility = "Partial" ->
                [i \in DOMAIN source |-> [source[i] EXCEPT !.type = Wrap(@, TRUE)]]
          [] name.utility = "Required" ->
                [i \in DOMAIN source |-> [source[i] EXCEPT !.type = Unwrap(@)]]
          [] name.utility = "Pick" -> SelectSeq(source, LAMBDA f : f.name \in name.keys)
          [] name.utility = "Omit" -> SelectSeq(source, LAMBDA f : f.name \notin name.keys)

IsSyntheticStruct(t) == Is(t, "named") /\ (Is(t.named, "inline") \/ Is(t.named, "merged") \/ Is(t.named, "utility"))

UtilityName(u, of, keys) == [utility |-> u, of |-> of, keys |-> keys]

KeysOf(t) == CASE t.k = "text" -> {t.value}
               [] t.k = "union" -> {t.members[i].value : i \in {j \in DOMAIN t.members : t.members[j].k = "text"}}
               [] OTHER -> {}

(* The names of the fields, when the entry has any.                        *)
FieldNames(def) == IF def.kind \in {"struct", "const"} THEN Names(def.fields) ELSE <<>>

ResolveKeyOf(t, env) ==
    LET name  == t.of.name
        names == FieldNames(Lookup(env, name))
    IN  CASE t.of.k \notin {"typeof", "ref"} -> Rust("String")
          [] names # <<>> -> Named([keyof |-> name, values |-> names], <<>>)
          [] t.of.k = "typeof" -> Err
          [] OTHER -> Rust("String")

Longest(sigs) == CHOOSE i \in DOMAIN sigs : \A j \in DOMAIN sigs :
                    \/ Len(sigs[j].takes) < Len(sigs[i].takes)
                    \/ Len(sigs[j].takes) = Len(sigs[i].takes) /\ j <= i

ResolveTypeQuery(n, env) ==
    LET def  == Lookup(env, n)
        best == def.ctor[Longest(def.ctor)]
    IN  CASE def.kind = "function" -> [fn |-> Types(def.fields), gives |-> def.gives]
          [] IsStruct(def) /\ def.ctor # <<>> -> [fn |-> Types(best.takes), gives |-> Named(Declared(n), <<>>)]
          [] def.kind \in {"struct", "enum"} -> Named(Declared(n), <<>>)
          [] def.kind = "const" -> Named(Declared(IF def.ref = "" THEN n ELSE def.ref), <<>>)
          [] OTHER -> Err

(* An identity mapped type is its base; any other one is a map.            *)
TrySimplifyIdentityMapped(t) ==
    t.base.k = "keyof" /\ t.base.of.k = "ref" /\ t.value.k = "at"
        /\ t.value.object.k = "ref" /\ t.value.object.name = t.base.of.name

(* A filter that drops the symbols among the keys drops nothing.           *)
IsSymbolFilterNoop(filter) == filter = "symbols"

IsIdentity(t) == /\ t.k = "mapped"
                 /\ ~t.modified
                 /\ t.filter = "none" \/ IsSymbolFilterNoop(t.filter)
                 /\ TrySimplifyIdentityMapped(t)

(* A field by name: of a struct or a constant; what is not found is named  *)
(* by its path.                                                            *)
LookupFieldType(name, key, env) ==
    LET found == CASE ~Is(name, "decl") -> Find(SyntheticFields(name, env), key)
                   [] Lookup(env, name.decl).kind \in {"struct", "const"} -> Find(Lookup(env, name.decl).fields, key)
                   [] OTHER -> Err
    IN  IF found = Err THEN Named([path |-> name, field |-> key], <<>>) ELSE found

ResolveNumberIndex(n, env) ==
    LET def == Lookup(env, n)
        texts == SelectSeq(def.elements, LAMBDA e : e.value # "")
    IN  CASE def.kind # "const" \/ def.elements = <<>> -> Rust("Any")
          [] Len(texts) = Len(def.elements) ->
                Named([keyof |-> n, values |-> [i \in DOMAIN texts |-> texts[i].value]], <<>>)
          [] OTHER -> Uniform(Types(def.elements))

(* T[keyof T]: the union of the types of the fields.                       *)
ResolveTypeParamIndexedAccess(n, env) ==
    LET def == Lookup(env, n)
    IN  IF FieldNames(def) = <<>> THEN Rust("Any") ELSE Uniform(Types(def.fields))

(* Fields that could not be resolved.                                      *)
Refused == <<[name |-> "", type |-> Err]>>

(* Fields of two parts of an intersection: a name in both is refused.      *)
MergeFieldsInto(base, new) ==
    IF Refused \in {base, new} \/ Range(Names(base)) \cap Range(Names(new)) # {} THEN Refused
    ELSE base \o new

(* The field of a part of an intersection that is no struct.               *)
Position(n) == <<"_0", "_1", "_2", "_3">>[n + 1]

TypesOfSigs(sigs) == UNION {Range(Types(sigs[i].takes)) \cup {sigs[i].gives} : i \in DOMAIN sigs}

(* The types inside a literal.                                             *)
TypesOfLiteral(t) == Types(t.fields) \o SetToSeq((TypesOfSigs(t.methods \o t.calls) \cup {t.index}) \ {Untyped})

(* A type and the types written inside it.                                 *)
RECURSIVE Inside(_)
Inside(t) ==
    {t} \cup UNION {Inside(u) : u \in CASE t.k \in {"union", "both", "tuple"} -> Range(t.members)
                                       [] t.k = "literal" -> Range(TypesOfLiteral(t))
                                       [] t.k = "conditional" -> {t.yes}
                                       [] OTHER -> {}}

(* The fields of a literal; `types` maps the types to what they resolve to. *)
ResolveTypeLiteralFields(fields, types) ==
    LET own == [i \in DOMAIN fields |-> Wrap(types[fields[i].type], fields[i].optional)]
    IN  IF Failed(own) THEN Refused
        ELSE [i \in DOMAIN fields |-> [name |-> fields[i].name, type |-> own[i]]]

IsEmptyTypeLiteral(t) == t = Literal(<<>>)

(* One part of an intersection added to the fields of those before it.     *)
MergePart(merged, m, types, env) ==
    CASE m.k = "literal" -> MergeFieldsInto(merged, ResolveTypeLiteralFields(m.fields, types))
      [] m.k = "ref" /\ IsStruct(Lookup(env, m.name)) -> MergeFieldsInto(merged, Plain(Lookup(env, m.name).fields))
      [] OTHER -> MergeFieldsInto(merged, <<[name |-> Position(Len(merged)), type |-> types[m]]>>)

(* The discriminant of a union of literals: a field of the first that is a *)
(* text in all of them, another one in each; "" when there is none.        *)
FindDiscriminantField(variants) ==
    LET TextOf(lit, n) == {f.type.value : f \in {g \in Range(lit.fields) : g.name = n /\ g.type.k = "text"}}
        Tells(n) == /\ \A i \in DOMAIN variants : TextOf(variants[i], n) # {}
                    /\ \A i, j \in DOMAIN variants : TextOf(variants[i], n) = TextOf(variants[j], n) => i = j
        at == SelectInSeq(variants[1].fields, LAMBDA f : f.type.k = "text" /\ Tells(f.name))
    IN  IF (\A i \in DOMAIN variants : variants[i].k = "literal") /\ at # 0
        THEN variants[1].fields[at].name ELSE ""

(* What a member of a union contributes: its fields, or itself as one.     *)
ExtractVariantFields(t, types, env) ==
    CASE t.k = "literal" -> ResolveTypeLiteralFields(t.fields, types)
      [] t.k = "ref" /\ IsStruct(Lookup(env, t.name)) -> Plain(Lookup(env, t.name).fields)
      [] OTHER -> LET data == types[t]
                  IN  IF data = Err THEN Refused ELSE <<[name |-> "_data", type |-> data]>>

ExtractDiscriminatedVariant(lit, tag, types) ==
    ResolveTypeLiteralFields(SelectSeq(lit.fields, LAMBDA f : f.name # tag), types)

Numbered(n) == <<"Variant0", "Variant1", "Variant2", "Variant3">>[n + 1]

(* The fields of the other parts, but for those the variant has itself.    *)
MergeFields(base, variant) == SelectSeq(base, LAMBDA f : f.name \notin Range(Names(variant))) \o variant

(* The variants of a union, each with the fields of the other parts.       *)
DistributeIntersectionWithUnion(base, variants, types, env) ==
    LET tag == FindDiscriminantField(variants)
    IN  [i \in DOMAIN variants |->
            LET own == IF tag = "" THEN ExtractVariantFields(variants[i], types, env)
                       ELSE ExtractDiscriminatedVariant(variants[i], tag, types)
            IN  [name   |-> IF tag = "" THEN Numbered(i - 1) ELSE Find(variants[i].fields, tag).value,
                 fields |-> IF own = Refused THEN Refused ELSE MergeFields(base, own)]]

(* The last union counts; of the other parts, the literals and the names.  *)
ResolveIntersectionWithUnion(parts, types, env) ==
    LET unions == SelectSeq(parts, LAMBDA m : m.k = "union")
        bases  == SelectSeq(parts, LAMBDA m : m.k \in {"literal", "ref"})
        base   == FoldLeft(LAMBDA merged, m : MergePart(merged, m, types, env), <<>>, bases)
        variants == DistributeIntersectionWithUnion(base, Last(unions).members, types, env)
    IN  IF base = Refused \/ Failed(Types(base)) \/ \E i \in DOMAIN variants : variants[i].fields = Refused
        THEN Err ELSE Named([distributed |-> variants], <<>>)

RECURSIVE ResolveTsType(_, _), ResolveTypeRef(_, _), ResolveIndexedAccess(_, _, _),
          ResolveIntersection(_, _), ResolveUnion(_, _), ResolveMapped(_, _),
          ResolveTypeLiteral(_, _), ResolveConditional(_, _)

ResolveAll(types, env) == [t \in types \ {Untyped} |-> ResolveTsType(t, env)]

ResolveTsType(t, env) ==
    CASE t.k = "prim" -> Rust(t.name)
      [] t.k = "text" -> Rust("String")
      [] t.k = "nothing" -> Rust("()")
      [] t.k = "digit" -> Rust("f64")
      [] t.k = "truth" -> Rust("bool")
      [] t.k = "never" -> Rust("!")
      [] t.k = "infer" -> Rust("Any")
      [] t.k = "tuple" -> LET elems == [i \in DOMAIN t.members |-> ResolveTsType(t.members[i], env)]
                          IN  IF Failed(elems) THEN Err ELSE [tuple |-> elems]
      [] t.k = "conditional" -> ResolveConditional(t, env)
      [] t.k = "ref" -> ResolveTypeRef(t, env)
      [] t.k = "union" -> ResolveUnion(t.members, env)
      [] t.k = "both" -> ResolveIntersection(t.members, env)
      [] t.k = "literal" -> ResolveTypeLiteral(t, env)
      [] t.k = "function" ->
            LET takes == [i \in DOMAIN t.takes |-> Wrap(ResolveTsType(t.takes[i].type, env), t.takes[i].optional)]
                gives == ResolveTsType(t.gives, env)
            IN  IF Failed(Append(takes, gives)) THEN Err ELSE [fn |-> takes, gives |-> gives]
      [] t.k = "keyof" -> ResolveKeyOf(t, env)
      [] t.k = "typeof" -> ResolveTypeQuery(t.name, env)
      [] t.k = "at" -> ResolveIndexedAccess(t.object, t.index, env)
      [] t.k = "mapped" -> ResolveMapped(t, env)

ResolveMapped(t, env) ==
    LET value == ResolveTsType(t.value, env)
    IN  CASE IsIdentity(t) -> Named(Declared(t.base.of.name), <<>>)
          [] OTHER -> IF value = Err THEN Err ELSE [map |-> value]

(* A literal with an index signature is a map; its methods are left out.   *)
ResolveTypeLiteral(t, env) ==
    LET types  == ResolveAll(Range(TypesOfLiteral(t)), env)
        fields == ResolveTypeLiteralFields(t.fields, types)
        value  == types[t.index]
    IN  CASE t.index # Untyped -> IF value = Err THEN Err ELSE [map |-> value]
          [] OTHER -> IF fields = Refused THEN Err ELSE Named([inline |-> fields], <<>>)

(* A conditional type is the Output of a trait when it infers or is never, *)
(* and otherwise its first branch that resolves.                           *)
ResolveConditional(t, env) ==
    LET yes == ResolveTsType(t.yes, env)
    IN  CASE t.no = Never /\ t.check.k = "ref" /\ t.extends.k = "ref" ->
                [output |-> t.check.name, of |-> t.extends.name]
          [] t.yes = Truth(TRUE) /\ t.no = Truth(FALSE) -> Rust("bool")
          [] OTHER -> IF yes # Err THEN yes ELSE ResolveTsType(t.no, env)

(* The struct a utility type is made from: the entry of the name it is     *)
(* given, and for Partial and Required also what that argument resolves to.*)
InnerFields(arg, env) ==
    IF arg.k = "ref" /\ IsStruct(Lookup(env, arg.name)) THEN Declared(arg.name) ELSE Err

InnerFieldsWithConversion(arg, env) ==
    LET direct   == InnerFields(arg, env)
        resolved == ResolveTsType(arg, env)
    IN  IF direct # Err THEN direct
        ELSE IF IsSyntheticStruct(resolved) THEN resolved.named ELSE Err

ResolvePartialOrRequired(u, arg, env) ==
    LET inner == InnerFieldsWithConversion(arg, env)
    IN  IF inner # Err THEN Named(UtilityName(u, inner, {}), <<>>) ELSE ResolveTsType(arg, env)

ResolvePickOrOmit(u, args, env) ==
    LET inner == InnerFields(args[1], env)
    IN  CASE Len(args) < 2 -> Err
          [] inner = Err -> Rust("Any")
          [] OTHER -> Named(UtilityName(u, inner, KeysOf(args[2])), <<>>)

(* A reference: the arguments beyond the parameters the registry knows are *)
(* cut off.                                                                *)
ResolveTypeRef(t, env) ==
    LET args == [i \in DOMAIN t.args |-> ResolveTsType(t.args[i], env)]
        def  == Lookup(env, t.name)
        kept == IF def = NoDef \/ Len(args) <= Len(def.params) THEN args
                ELSE SubSeq(args, 1, Len(def.params))
    IN  CASE t.name \in {"Partial", "Required"} -> ResolvePartialOrRequired(t.name, t.args[1], env)
          [] t.name \in {"Pick", "Omit"} -> ResolvePickOrOmit(t.name, t.args, env)
          [] t.name = "NonNullable" -> Unwrap(ResolveTsType(t.args[1], env))
          [] t.name = "Readonly" -> ResolveTsType(t.args[1], env)
          [] t.name \notin Utilities \cup {"NonNullable", "Readonly"} /\ Failed(args) -> Err
          [] t.name = "Array" -> [vec |-> args[1]]
          [] t.name = "Record" -> [map |-> args[2]]
          [] t.args = <<>> /\ t.name \in env.scope -> [var |-> t.name]
          [] OTHER -> Named(Declared(t.name), kept)

ResolveUnion(members, env) ==
    LET rest     == SelectSeq(members, LAMBDA m : m.k # "nothing")
        resolved == [i \in DOMAIN rest |-> ResolveTsType(rest[i], env)]
        inner    == CASE rest = <<>> -> Rust("()")
                      [] \A i \in DOMAIN rest : rest[i].k = "text" -> Rust("String")
                      [] Failed(resolved) -> Err
                      [] OTHER -> Uniform(resolved)
    IN  Wrap(inner, Len(rest) < Len(members))

(* A mapped type among the parts is all the intersection is.               *)
ResolveIntersection(members, env) ==
    LET types  == ResolveAll(Inside(Both(members)) \ {Both(members)}, env)
        parts  == SelectSeq(members, LAMBDA m : ~IsEmptyTypeLiteral(m))
        mapped == SelectInSeq(parts, LAMBDA m : m.k = "mapped")
        upTo   == IF mapped = 0 THEN Len(parts) ELSE mapped - 1
        all    == FoldLeft(LAMBDA merged, m : MergePart(merged, m, types, env), <<>>, SubSeq(parts, 1, upTo))
    IN  CASE parts = <<>> -> Named([inline |-> <<>>], <<>>)
          [] Len(parts) = 1 -> types[parts[1]]
          [] Len(parts) > 1 /\ \E i \in DOMAIN parts : parts[i].k = "union" ->
                ResolveIntersectionWithUnion(parts, types, env)
          [] OTHER -> CASE all = Refused \/ Failed(Types(all)) -> Err
                        [] mapped # 0 -> ResolveMapped([parts[mapped] EXCEPT !.modified = @ \/ parts[mapped].filter # "none"], env)
                        [] OTHER -> Named([merged |-> all], <<>>)

ResolveIndexedAccess(object, index, env) ==
    LET inner == ResolveIndexedAccess(object.object, object.index, env)
        name  == CASE object.k = "ref" -> Declared(object.name)
                   [] object.k = "typeof" /\ Lookup(env, object.name) # NoDef -> Declared(object.name)
                   [] object.k = "at" /\ Is(inner, "named") -> inner.named
                   [] OTHER -> Err
    IN  CASE object.k = "literal" -> ResolveTsType(Find(object.fields, index.value), env)
          [] name = Err -> Rust("Any")
          [] index.k = "text" -> LookupFieldType(name, index.value, env)
          [] index.k = "union" ->
                Uniform([i \in DOMAIN index.members |-> ResolveIndexedAccess(object, index.members[i], env)])
          [] index.k = "prim" /\ Is(name, "decl") -> ResolveNumberIndex(name.decl, env)
          [] index.k = "keyof" -> ResolveTypeParamIndexedAccess(index.of.name, env)
          [] OTHER -> Rust("Any")

-----------------------------------------------------------------------------
(* The members of a definition.                                            *)

(* Members without an annotation are left out.                             *)
Typed(fs) == SelectSeq(fs, LAMBDA f : f.type # Untyped)

(* In what follows `types` maps the types of a definition, as written, to   *)
(* what they resolve to.                                                   *)
ResolveFieldDefs(fields, types) ==
    [i \in DOMAIN fields |-> [fields[i] EXCEPT !.type = Wrap(types[@], fields[i].optional)]]

ResolveMethodSig(sig, types) ==
    [sig EXCEPT !.takes = ResolveFieldDefs(Typed(@), types), !.gives = types[@]]

ResolveMethodSigs(sigs, types) == [i \in DOMAIN sigs |-> ResolveMethodSig(sigs[i], types)]

NoBound == Untyped
NoRustBound == [unbound |-> TRUE]

ResolveTypeParams(params, types) ==
    [i \in DOMAIN params |-> [params[i] EXCEPT !.bound = IF @ = NoBound THEN NoRustBound ELSE types[@]]]

ResolveStructMembers(def, types) ==
    [def EXCEPT !.params = ResolveTypeParams(@, types), !.fields = ResolveFieldDefs(Typed(@), types),
                !.methods = ResolveMethodSigs(@, types), !.ctor = ResolveMethodSigs(@, types),
                !.calls = ResolveMethodSigs(@, types), !.gives = types[@]]

(* The types of a definition.                                              *)
TypesIn(def) ==
    Range(Types(def.fields)) \cup Range(Types(def.elements)) \cup TypesOfSigs(def.methods \o def.ctor \o def.calls)
        \cup {def.gives} \cup {def.params[i].bound : i \in DOMAIN def.params}
        \cup UNION {Range(Types(def.variants[i].fields)) : i \in DOMAIN def.variants}

(* A bound that can be a trait: an interface, or a name not known here.    *)
IsValidTraitBound(bound, reg) ==
    /\ Is(bound, "named")
    /\ Is(bound.named, "decl")
    /\ bound.named.decl \in DOMAIN reg => IsStruct(reg[bound.named.decl]) /\ reg[bound.named.decl].interface

RECURSIVE Substitute(_, _), Monomorphize(_, _, _)

(* A type with its parameters replaced: subs maps a parameter to a type.   *)
Substitute(t, subs) ==
    LET All(ts) == [i \in DOMAIN ts |-> Substitute(ts[i], subs)]
        Each(fs) == [i \in DOMAIN fs |-> [fs[i] EXCEPT !.type = Substitute(@, subs)]]
    IN  CASE Is(t, "var") -> IF t.var \in DOMAIN subs THEN subs[t.var] ELSE t
          [] Is(t, "option") -> [option |-> Substitute(t.option, subs)]
          [] Is(t, "vec") -> [vec |-> Substitute(t.vec, subs)]
          [] Is(t, "map") -> [map |-> Substitute(t.map, subs)]
          [] Is(t, "fn") -> [fn |-> All(t.fn), gives |-> Substitute(t.gives, subs)]
          [] Is(t, "tuple") -> [tuple |-> All(t.tuple)]
          [] Is(t, "named") ->
                Named(CASE Is(t.named, "inline") -> [inline |-> Each(t.named.inline)]
                        [] Is(t.named, "merged") -> [merged |-> Each(t.named.merged)]
                        [] Is(t.named, "union") -> [union |-> All(t.named.union)]
                        [] OTHER -> t.named, All(t.args))
          [] OTHER -> t

(* Parameters whose bound is no trait are replaced by it, until none is    *)
(* left; a parameter bounded by a parameter waits for it.                  *)
Monomorphize(params, subs, reg) ==
    LET Concrete(p) == p.bound # NoRustBound /\ ~Is(p.bound, "var") /\ ~IsValidTraitBound(p.bound, reg)
        now  == {i \in DOMAIN params : Concrete(params[i])}
        new  == [n \in {params[i].name : i \in now} |->
                    params[CHOOSE i \in now : params[i].name = n].bound]
        left == SelectSeq(params, LAMBDA p : ~Concrete(p))
    IN  IF now = {} THEN [params |-> params, subs |-> subs]
        ELSE Monomorphize([i \in DOMAIN left |-> [left[i] EXCEPT !.bound = Substitute(@, new)]], new @@ subs, reg)

ApplySubstitutions(def, subs) ==
    LET Fields(fs) == [i \in DOMAIN fs |-> [fs[i] EXCEPT !.type = Substitute(@, subs)]]
        Sigs(ss) == [i \in DOMAIN ss |-> [ss[i] EXCEPT !.takes = Fields(@), !.gives = Substitute(@, subs)]]
    IN  [def EXCEPT !.fields = Fields(@), !.methods = Sigs(@), !.ctor = Sigs(@), !.calls = Sigs(@),
                    !.gives = Substitute(@, subs),
                    !.variants = [i \in DOMAIN @ |-> [@[i] EXCEPT !.fields = Fields(@)]]]

Scoped(env, params) == [env EXCEPT !.scope = @ \cup Range(Names(params))]

(* A definition of any kind, its members resolved.                         *)
ResolveTypedefInner(def, types) ==
    [ResolveStructMembers(def, types) EXCEPT
        !.elements = [i \in DOMAIN @ |-> [@[i] EXCEPT !.type = types[@]]],
        !.variants = [i \in DOMAIN @ |-> [@[i] EXCEPT !.fields = ResolveFieldDefs(Typed(@), types)]]]

(* The fields of a constant are not wrapped when they are optional.        *)
ResolveConst(def, types) ==
    [ResolveTypedefInner(def, types) EXCEPT
        !.fields = [i \in DOMAIN def.fields |-> [def.fields[i] EXCEPT !.type = types[@]]]]

(* Some type of the definition was refused.                                *)
Unresolved(def) ==
    LET Bad(sigs) == \E i \in DOMAIN sigs : sigs[i].gives = Err \/ Failed(Types(sigs[i].takes))
    IN  \/ Failed(Types(def.fields) \o Types(def.elements))
        \/ def.gives = Err
        \/ Bad(def.methods) \/ Bad(def.ctor) \/ Bad(def.calls)
        \/ \E i \in DOMAIN def.params : def.params[i].bound = Err
        \/ \E i \in DOMAIN def.variants : Failed(Types(def.variants[i].fields))

Monomorphized(def, mono) == ApplySubstitutions([def EXCEPT !.params = mono.params], mono.subs)

ResolveTypedefWith(def, types, reg) ==
    LET resolved == ResolveTypedefInner(def, types)
    IN  IF def.kind = "const" THEN ResolveConst(def, types)
        ELSE Monomorphized(resolved, Monomorphize(ResolveTypeParams(def.params, types), <<>>, reg))

ResolveTypedef(def, env) ==
    ResolveTypedefWith(def, ResolveAll(TypesIn(def), Scoped(env, def.params)), env.reg)

(* An object literal's alias stays generic.                                *)
ResolveStructForRegistry(def, env) ==
    ResolveStructMembers(def, ResolveAll(TypesIn(def), Scoped(env, def.params)))

-----------------------------------------------------------------------------
(* Aliases that copy fields: what is known of their target when they are   *)
(* collected is what they keep.                                            *)

(* A generic definition applied to arguments.                              *)
Instantiate(def, args) ==
    IF def.params = <<>> \/ Len(args) # Len(def.params) THEN def
    ELSE LET at(n) == CHOOSE i \in DOMAIN def.params : def.params[i].name = n
         IN  ApplySubstitutions(def, [n \in Range(Names(def.params)) |-> args[at(n)]])

AsFields(fs) == [i \in DOMAIN fs |-> Field(fs[i].name, fs[i].type, Is(fs[i].type, "option"))]

AliasOf(def, params) == [def EXCEPT !.params = params, !.interface = FALSE, !.kind = "struct"]

(* The target of the alias, resolved, where an alias needs one.            *)
ResolveTypeRefForRegistry(target, params, scoped) ==
    LET source == CASE ~Is(target, "named") -> NoDef
                    [] IsSyntheticStruct(target) ->
                          [NoDef EXCEPT !.kind = "struct", !.fields = AsFields(SyntheticFields(target.named, scoped))]
                    [] ~Is(target.named, "decl") -> NoDef
                    [] OTHER -> Instantiate(Lookup(scoped, target.named.decl), target.args)
    IN  IF IsStruct(source) THEN AliasOf(source, params) ELSE NoDef

(* An intersection: the fields of its parts in a row; a part that is no    *)
(* struct becomes a field named by its position.  With a union among the   *)
(* parts, the whole is one field.                                          *)
ResolveIntersectionForRegistry(members, params, types, scoped) ==
    LET Part(merged, m) ==
            LET def  == Lookup(scoped, m.name)
                args == [i \in DOMAIN m.args |-> types[m.args[i]]]
            IN  CASE m.k = "literal" ->
                        LET fields == Plain(ResolveFieldDefs(m.fields, types))
                        IN  IF Failed(Types(fields)) THEN merged ELSE merged \o AsFields(fields)
                  [] m.k = "ref" /\ IsStruct(def) -> merged \o Instantiate(def, args).fields
                  [] OTHER -> IF types[m] = Err THEN merged
                              ELSE Append(merged, Field(Position(Len(merged)), types[m], FALSE))
        fields  == FoldLeft(Part, <<>>, members)
        methods == FlattenSeq([i \in DOMAIN members |->
                        IF members[i].k = "literal" THEN ResolveMethodSigs(members[i].methods, types) ELSE <<>>])
        record  == [NoDef EXCEPT !.kind = "struct", !.fields = fields, !.methods = methods]
        whole   == types[Both(members)]
    IN  CASE \E i \in DOMAIN members : members[i].k = "union" ->
                IF whole = Err THEN NoDef
                ELSE AliasOf([record EXCEPT !.fields = <<Field("_0", whole, FALSE)>>, !.methods = <<>>], params)
          [] OTHER -> IF fields = <<>> /\ methods = <<>> THEN NoDef ELSE AliasOf(record, params)

(* The types an alias that copies fields has to resolve.                   *)
TypesCopied(type, params) ==
    {type} \cup {params[i].bound : i \in DOMAIN params}
        \cup (IF type.k # "both" THEN {}
              ELSE UNION {CASE m.k = "literal" -> Range(Types(m.fields)) \cup TypesOfSigs(m.methods)
                            [] m.k = "ref" -> {m} \cup Range(m.args)
                            [] OTHER -> {m} : m \in Range(type.members)})

AliasCopies(type, params, types, scoped) ==
    IF type.k = "both"
    THEN ResolveIntersectionForRegistry(type.members, ResolveTypeParams(params, types), types, scoped)
    ELSE ResolveTypeRefForRegistry(types[type], ResolveTypeParams(params, types), scoped)

-----------------------------------------------------------------------------
(* Declarations.                                                           *)

Decl(what, name) == [what |-> what, name |-> name, params |-> <<>>, fields |-> <<>>, properties |-> <<>>,
                     methods |-> <<>>, ctor |-> <<>>, calls |-> <<>>, gives |-> Nothing,
                     extends |-> <<>>, type |-> Untyped, elements |-> <<>>, variants |-> <<>>]

IsVar(d) == d.what \in {"arrow", "const"}

(* A constant is recorded when it is annotated or asserted "as const".     *)
IsRegistrableConst(d) == d.type # Untyped \/ d.fields # <<>> \/ d.elements # <<>>

Placeholder(d) ==
    [NoDef EXCEPT
        !.kind = CASE d.what \in {"interface", "alias", "class"} -> "struct"
                   [] d.what \in {"function", "arrow"} -> "function"
                   [] d.what = "const" /\ ~IsRegistrableConst(d) -> "none"
                   [] OTHER -> d.what,
        !.interface = d.what = "interface"]

(* The members of a declaration, as written.                               *)
Written(d, kind) ==
    [NoDef EXCEPT !.kind = kind, !.params = d.params, !.fields = d.fields, !.methods = d.methods,
                  !.ctor = d.ctor, !.calls = d.calls, !.gives = d.gives, !.extends = d.extends,
                  !.interface = d.what = "interface",
                  !.elements = d.elements, !.variants = d.variants]

Variant(n, fields) == [name |-> n, fields |-> fields]

IsStringLiteralUnion(t) == t.k = "union" /\ \A i \in DOMAIN t.members : t.members[i].k = "text"

StringLiteralUnion(d) ==
    [Written(d, "enum") EXCEPT !.params = <<>>,
        !.variants = [i \in DOMAIN d.type.members |-> Variant(d.type.members[i].value, <<>>)]]

IsTag(n, lits) == \A i \in DOMAIN lits :
                     \E f \in Range(lits[i].fields) : f.name = n /\ f.type.k = "text"

IsDiscriminatedUnion(t) ==
    /\ t.k = "union"
    /\ Len(t.members) >= 2
    /\ \A i \in DOMAIN t.members : t.members[i].k = "literal"
    /\ \E f \in Range(t.members[1].fields) : IsTag(f.name, t.members)

(* One variant for each literal, named by its tag: the other fields.       *)
DiscriminatedUnion(d) ==
    LET lits == d.type.members
        tag  == d.type.members[1].fields[SelectInSeq(lits[1].fields, LAMBDA f : IsTag(f.name, lits))].name
    IN  [Written(d, "enum") EXCEPT
            !.variants = [i \in DOMAIN lits |->
                Variant(Find(lits[i].fields, tag).value, SelectSeq(lits[i].fields, LAMBDA f : f.name # tag))]]

FnTypeAlias(d) == [Written(d, "function") EXCEPT !.fields = d.type.takes, !.gives = d.type.gives]

(* A literal of nothing but call signatures is a function, too: the        *)
(* longest of them, with the type parameters it has itself, which is none. *)
IsCallOnly(t) == /\ t.k = "literal"
                 /\ t.calls # <<>>
                 /\ t.fields = <<>> /\ t.methods = <<>> /\ t.index = Untyped

CallSignatureFn(d) ==
    LET sig == d.type.calls[Longest(d.type.calls)]
    IN  [NoDef EXCEPT !.kind = "function", !.fields = sig.takes, !.gives = sig.gives]

(* An interface of nothing but call signatures.                            *)
IsCallable(def) == /\ IsStruct(def)
                   /\ def.interface
                   /\ def.calls # <<>>
                   /\ def.fields = <<>> /\ def.methods = <<>> /\ def.ctor = <<>>

StructFromLiteral(d) ==
    [Written(d, "struct") EXCEPT !.fields = d.type.fields, !.methods = d.type.methods, !.calls = d.type.calls]

(* An alias that is not an object literal, a function or an enumeration    *)
(* copies the fields of its target.                                        *)
CollectAlias(d) ==
    CASE IsStringLiteralUnion(d.type) -> StringLiteralUnion(d)
      [] IsDiscriminatedUnion(d.type) -> DiscriminatedUnion(d)
      [] d.type.k = "function" -> FnTypeAlias(d)
      [] IsCallOnly(d.type) -> CallSignatureFn(d)
      [] d.type.k = "literal" /\ ~IsCallOnly(d.type) -> StructFromLiteral(d)
      [] OTHER -> NoDef

CollectClass(d) ==
    IF d.fields = <<>> /\ d.methods = <<>> /\ d.ctor = <<>> /\ d.extends = <<>> THEN NoDef ELSE Written(d, "struct")

(* An annotated constant has the fields of the literal it is annotated     *)
(* with, or the name of its type; an asserted one those of its value.      *)
CollectConstValue(d) ==
    CASE d.type.k = "literal" -> [Written(d, "const") EXCEPT !.fields = d.type.fields]
      [] d.type.k = "ref" -> [NoDef EXCEPT !.kind = "const", !.ref = d.type.name]
      [] d.type = Untyped /\ (d.fields # <<>> \/ d.elements # <<>>) -> Written(d, "const")
      [] OTHER -> NoDef

(* An arrow function annotated with a callable interface is a constant of  *)
(* that type, any other one a function.                                    *)
CollectArrow(d, lookup) ==
    IF d.type.k = "ref" /\ IsCallable(Lookup(lookup, d.type.name))
    THEN [NoDef EXCEPT !.kind = "const", !.ref = d.type.name]
    ELSE Written(d, "function")

CollectInterface(d) == Written(d, "struct")
CollectFunction(d)  == Written(d, "function")

(* The definition a declaration writes, before its types are resolved.     *)
Collected(d, lookup) ==
    CASE d.what = "interface" -> CollectInterface(d)
      [] d.what = "alias" -> CollectAlias(d)
      [] d.what = "enum" -> [NoDef EXCEPT !.kind = "enum", !.variants = d.variants]
      [] d.what = "function" -> CollectFunction(d)
      [] d.what = "class" -> CollectClass(d)
      [] d.what = "arrow" -> CollectArrow(d, lookup)
      [] d.what = "const" -> CollectConstValue(d)

CopiesFields(d) == d.what = "alias" /\ CollectAlias(d) = NoDef

CollectDecl(d, def, lookup, env) ==
    CASE CopiesFields(d) ->
            AliasCopies(d.type, d.params, ResolveAll(TypesCopied(d.type, d.params), Scoped(env, d.params)),
                        Scoped(env, d.params))
      [] def.kind = "none" \/ def.ref # "" \/ d.what = "enum" -> def
      [] d.what = "alias" /\ d.type.k = "literal" /\ ~IsCallOnly(d.type) -> ResolveStructForRegistry(def, lookup)
      [] OTHER -> ResolveTypedef(def, lookup)

(* The utility structs a declaration asks for.                             *)
RECURSIVE Asked(_, _)
Asked(t, env) ==
    LET Each(ts) == UNION {Asked(ts[i], env) : i \in DOMAIN ts}
        own == ResolveTsType(t, env)
    IN  CASE t.k = "ref" -> Each(t.args) \cup (IF Is(own, "named") /\ Is(own.named, "utility") THEN {own.named} ELSE {})
          [] t.k \in {"union", "both", "tuple"} -> Each(t.members)
          [] t.k = "literal" -> Each(TypesOfLiteral(t))
          [] t.k = "mapped" -> Asked(t.value, env)
          [] t.k = "conditional" -> Asked(t.yes, env)
          [] OTHER -> {}

TypesOf(d) == TypesIn(d) \cup (IF IsVar(d) /\ d.type.k = "ref" THEN {} ELSE {d.type})

-----------------------------------------------------------------------------
(* The state of the collection of a file.                                  *)

VARIABLES program,   \* the declarations of the file, in order
          pass,      \* "names", "types", "values" or "done"
          item,      \* the next declaration of the pass
          reg,       \* the registry under construction
          lookup,    \* the copy a pass resolves against
          synthetic  \* utility struct -> its fields

vars == <<program, pass, item, reg, lookup, synthetic>>

-----------------------------------------------------------------------------
(* What TypeScript says of the declarations, independently of their order. *)

Declares(n) == \E i \in DOMAIN program : program[i].name = n
DeclOf(n)   == program[CHOOSE i \in DOMAIN program : program[i].name = n]

Builtins == Utilities \cup {"NonNullable", "Readonly", "Array", "Record"}

(* A name that can bound a parameter as a trait: an interface, or a name   *)
(* the file does not declare.                                              *)
CanBound(t) == t.k = "ref" /\ t.name \notin Builtins /\ (Declares(t.name) => DeclOf(t.name).what = "interface")

RECURSIVE Shape(_, _), TypeFields(_, _), Meant(_, _)

(* What the type parameters of a declaration stand for: themselves, or the *)
(* bound that is no trait (an object literal's alias stays generic).       *)
Meant(d, i) ==
    LET bound == d.params[i].bound
        outer == {j \in DOMAIN d.params : bound.k = "ref" /\ bound.name = d.params[j].name}
        self  == [var |-> d.params[i].name]
    IN  CASE bound = NoBound \/ (d.what = "alias" /\ d.type.k \in {"literal", "ref", "both"}) -> self
          [] outer # {} -> LET other == Meant(d, CHOOSE j \in outer : TRUE)
                           IN  IF Is(other, "var") THEN self ELSE other
          [] CanBound(bound) -> self
          [] OTHER -> Shape(bound, <<>>)

ScopeOf(d) == [n \in Range(Names(d.params)) |-> Meant(d, SelectInSeq(d.params, LAMBDA p : p.name = n))]

Shapes(fs, sc) ==
    [i \in DOMAIN fs |-> [name |-> fs[i].name, type |-> Wrap(Shape(fs[i].type, sc), fs[i].optional)]]

(* The fields of a declared name, its parameters as sc says: its own, what *)
(* it extends being recorded by name.                                      *)
DeclFields(d, sc) ==
    CASE d.what = "alias" -> TypeFields(d.type, sc)
      [] d.what = "const" /\ d.type.k = "literal" -> Shapes(d.type.fields, sc)
      [] OTHER -> Shapes(d.fields \o d.properties, sc)

(* The fields of an intersection: one that both parts have is of both types.*)
Join(fs, gs) ==
    [i \in DOMAIN fs |->
        LET other == Find(gs, fs[i].name)
        IN  IF other \in {Err, fs[i].type} THEN fs[i] ELSE [fs[i] EXCEPT !.type = [both |-> {@, other}]]]
    \o SelectSeq(gs, LAMBDA g : Find(fs, g.name) = Err)

TypeFields(t, sc) ==
    LET inner == TypeFields(t.args[1], sc)
        d     == DeclOf(t.name)
        given == [n \in Range(Names(d.params)) |->
                    Shape(t.args[SelectInSeq(d.params, LAMBDA p : p.name = n)], sc)]
    IN  CASE t.k = "literal" -> Shapes(t.fields, sc)
          [] t.k = "both" -> FoldLeft(LAMBDA acc, m : Join(acc, TypeFields(m, sc)), <<>>, t.members)
          [] t.name = "Partial" -> [i \in DOMAIN inner |-> [inner[i] EXCEPT !.type = Wrap(@, TRUE)]]
          [] t.name = "Required" -> [i \in DOMAIN inner |-> [inner[i] EXCEPT !.type = Unwrap(@)]]
          [] t.name = "Pick" -> SelectSeq(inner, LAMBDA f : f.name \in KeysOf(t.args[2]))
          [] t.name = "Omit" -> SelectSeq(inner, LAMBDA f : f.name \notin KeysOf(t.args[2]))
          [] t.name = "Readonly" -> inner
          [] OTHER -> DeclFields(d, IF t.args = <<>> THEN ScopeOf(d) ELSE given)

OneOf(shapes) == IF Cardinality(shapes) = 1 THEN CHOOSE s \in shapes : TRUE ELSE [oneof |-> shapes]

Shape(t, sc) ==
    LET All(ts) == [i \in DOMAIN ts |-> Shape(ts[i], sc)]
        rest == SelectSeq(t.members, LAMBDA m : m.k # "nothing")
        d == DeclOf(t.name)
        fields == TypeFields(IF t.object.k = "typeof" THEN Ref(t.object.name, <<>>) ELSE t.object, sc)
    IN  CASE t.k = "prim" -> Rust(t.name)
          [] t.k = "text" -> Rust("String")
          [] t.k = "nothing" -> Rust("()")
          [] t.k = "untyped" -> Rust("Any")
          [] t.k = "digit" -> Rust("f64")
          [] t.k = "truth" -> Rust("bool")
          [] t.k = "tuple" -> [tuple |-> All(t.members)]
          [] t.k = "union" -> Wrap(OneOf(Range(All(rest))), Len(rest) < Len(t.members))
          [] t.k \in {"literal", "both"} ->
                IF t.k = "literal" /\ t.index # Untyped THEN [map |-> Shape(t.index, sc)]
                ELSE [object |-> TypeFields(t, sc)]
          [] t.k = "function" -> [fn |-> Types(Shapes(t.takes, sc)), gives |-> Shape(t.gives, sc)]
          [] t.k = "keyof" -> [keys |-> Range(Names(DeclFields(DeclOf(t.of.name), <<>>)))]
          [] t.k = "typeof" ->
                CASE d.what \in {"function", "arrow"} ->
                        [fn |-> Types(Shapes(d.fields, <<>>)), gives |-> Shape(d.gives, <<>>)]
                  [] d.what = "class" /\ d.ctor # <<>> ->
                        [fn |-> Types(Shapes(d.ctor[1].takes, <<>>)), gives |-> [decl |-> t.name, args |-> <<>>]]
                  [] d.what = "const" /\ d.type.k = "ref" -> [decl |-> d.type.name, args |-> <<>>]
                  [] OTHER -> [decl |-> t.name, args |-> <<>>]
          [] t.k = "mapped" ->
                IF IsIdentity(t) THEN [decl |-> t.base.of.name, args |-> <<>>]
                ELSE [map |-> Shape(t.value, sc)]
          [] t.k = "at" ->
                CASE t.index.k = "text" -> Find(fields, t.index.value)
                  [] t.index.k = "union" -> OneOf({Find(fields, t.index.members[i].value) : i \in DOMAIN t.index.members})
                  [] t.index.k = "keyof" -> OneOf(Range(Types(fields)))
                  [] t.index.k = "ref" -> Rust("Any")          \* by a key that varies
                  [] OTHER -> LET elements == DeclOf(t.object.name).elements
                              IN  IF \A e \in Range(elements) : e.value # ""
                                  THEN [keys |-> {e.value : e \in Range(elements)}]
                                  ELSE OneOf(Range(All(Types(elements))))
          [] t.k = "ref" ->
                CASE t.name \in Utilities ->
                        [utility |-> t.name, of |-> Shape(t.args[1], sc),
                         keys |-> IF Len(t.args) = 1 THEN {} ELSE KeysOf(t.args[2])]
                  [] t.name = "NonNullable" -> Unwrap(Shape(t.args[1], sc))
                  [] t.name = "Readonly" -> Shape(t.args[1], sc)
                  [] t.name = "Array" -> [vec |-> Shape(t.args[1], sc)]
                  [] t.name = "Record" -> [map |-> Shape(t.args[2], sc)]
                  [] t.name \in DOMAIN sc -> sc[t.name]
                  [] OTHER -> [decl |-> t.name, args |-> All(t.args)]

(* A file the TypeScript compiler accepts: what is opened has fields, and  *)
(* the ones that are named.                                                *)
RECURSIVE HasFields(_), Accepted(_)
IsObject(t) == t.k = "ref" /\ Declares(t.name) /\ DeclOf(t.name).what = "interface"

HasFields(t) ==
    CASE t.k = "literal" -> t.calls = <<>> /\ t.index = Untyped
      [] t.k = "both" -> \A i \in DOMAIN t.members :
                LET m == t.members[i]
                IN  CASE m.k = "union" -> \A j \in DOMAIN m.members : HasFields(m.members[j])
                      [] m.k = "mapped" -> IsIdentity(m) /\ HasFields(m.base.of)
                      [] OTHER -> HasFields(m)
      [] t.k = "typeof" -> Declares(t.name) /\ LET d == DeclOf(t.name)
                                               IN  d.what = "const" /\ d.elements = <<>> /\ (d.type.k = "ref" => HasFields(d.type))
      [] t.k = "ref" /\ t.name \in Utilities \cup {"Readonly"} -> HasFields(t.args[1])
      [] t.k = "ref" /\ Declares(t.name) ->
            LET d == DeclOf(t.name)
            IN  (d.what \in {"interface", "class"} /\ d.fields # <<>> /\ d.extends = <<>>) \/ (d.what = "alias" /\ HasFields(d.type))
      [] OTHER -> FALSE

Accepted(t) ==
    LET FieldOf(o) == Range(Names(TypeFields(IF o.k = "typeof" THEN Ref(o.name, <<>>) ELSE o, <<>>)))
        All(ts) == \A i \in DOMAIN ts : Accepted(ts[i])
        d == DeclOf(t.name)
    IN  CASE t.k \in {"union", "tuple"} -> All(t.members)
          [] t.k = "conditional" -> Accepted(t.yes)
          [] t.k = "both" -> All(t.members) /\ (HasFields(t) \/ \A i \in DOMAIN t.members : IsObject(t.members[i]))
          [] t.k = "literal" -> All(TypesOfLiteral(t))
          [] t.k = "function" -> All(Append(Types(t.takes), t.gives))
          [] t.k = "keyof" -> HasFields(t.of) /\ Accepted(t.of)
          [] t.k = "typeof" -> Declares(t.name) /\ d.what \in {"class", "function", "arrow", "const", "enum"}
          [] t.k = "mapped" -> Accepted(t.base)
          [] t.k = "at" -> /\ Accepted(t.object)
                           /\ IF t.index = Prim("f64")
                              THEN t.object.k = "typeof" /\ DeclOf(t.object.name).elements # <<>>
                              ELSE /\ HasFields(t.object)
                                   /\ t.index.k = "text" => t.index.value \in FieldOf(t.object)
                                   /\ t.index.k = "union" => KeysOf(t.index) \subseteq FieldOf(t.object)
          [] t.k = "ref" ->
                CASE t.name \in Utilities -> Accepted(t.args[1]) /\ HasFields(t.args[1])
                  [] t.name \in Builtins -> All(t.args)
                  [] Declares(t.name) -> /\ d.what \in {"interface", "alias", "class", "enum"}
                                         /\ Len(t.args) = Len(d.params)
                                         /\ All(t.args)
                  [] OTHER -> t.args = <<>>
          [] OTHER -> TRUE

(* An interface extends interfaces, and declares what they have again only *)
(* as they do.                                                             *)
AcceptedParents(d) ==
    \A i \in DOMAIN d.extends :
        LET parent == DeclOf(d.extends[i])
            same(f) == Find(parent.fields, f.name) \in {Err, f.type}
        IN  Declares(d.extends[i]) =>
                parent.what = "interface" /\ parent.params = <<>> /\ \A f \in Range(d.fields) : same(f)

(* What a recorded type says.                                              *)
RECURSIVE Reads(_)
Reads(t) ==
    LET All(ts) == [i \in DOMAIN ts |-> Reads(ts[i])]
        Object(fs) == [object |-> [i \in DOMAIN fs |-> [name |-> fs[i].name, type |-> Reads(fs[i].type)]]]
        n == t.named
    IN  CASE Is(t, "option") -> [option |-> Reads(t.option)]
          [] Is(t, "vec") -> [vec |-> Reads(t.vec)]
          [] Is(t, "map") -> [map |-> Reads(t.map)]
          [] Is(t, "fn") -> [fn |-> All(t.fn), gives |-> Reads(t.gives)]
          [] Is(t, "tuple") -> [tuple |-> All(t.tuple)]
          [] ~Is(t, "named") -> t
          [] Is(n, "decl") -> [decl |-> n.decl, args |-> All(t.args)]
          [] Is(n, "union") -> [oneof |-> Range(All(n.union))]
          [] Is(n, "keyof") -> [keys |-> Range(n.values)]
          [] Is(n, "utility") ->
                [n EXCEPT !.of = IF Is(n.of, "decl") THEN [decl |-> n.of.decl, args |-> <<>>] ELSE Reads(Named(n.of, <<>>))]
          [] Is(n, "inline") -> Object(n.inline)
          [] Is(n, "merged") -> Object(n.merged)
          [] OTHER -> t

ReadFields(fs) == [i \in DOMAIN fs |-> [name |-> fs[i].name, type |-> Reads(fs[i].type)]]

-----------------------------------------------------------------------------
(* build_registry.                                                         *)

Distinct(p) == \A i, j \in DOMAIN p : p[i].name = p[j].name => i = j

Init == /\ \E n \in 1..MaxItems : program \in [1..n -> Pool]
        /\ Distinct(program)
        /\ \A d \in Range(program) : AcceptedParents(d) /\ \A t \in TypesOf(d) \cup {d.type} : Accepted(t)
        /\ pass = "names"
        /\ item = 1
        /\ reg = <<>>
        /\ lookup = <<>>
        /\ synthetic = <<>>

Register(n, def) == reg' = IF def.kind = "none" \/ Unresolved(def) THEN reg ELSE (n :> def) @@ reg

CollectTypeName ==
    /\ pass = "names"
    /\ item <= Len(program)
    /\ Register(program[item].name, Placeholder(program[item]))
    /\ item' = item + 1
    /\ UNCHANGED <<program, pass, lookup, synthetic>>

(* A variant: the values are resolved against the placeholders, too.          *)
BeginPassOnNames(from, to) ==
    /\ pass = from
    /\ item > Len(program)
    /\ pass' = to
    /\ item' = 1
    /\ lookup' = IF from = "names" THEN reg ELSE lookup
    /\ UNCHANGED <<program, reg, synthetic>>

(* A pass that reads a copy of the registry as the one before it left it.  *)
BeginPass(from, to) ==
    /\ pass = from
    /\ item > Len(program)
    /\ pass' = to
    /\ item' = 1
    /\ lookup' = reg
    /\ UNCHANGED <<program, reg, synthetic>>

BeginTypes  == BeginPass("names", "types")
BeginValues == BeginPass("types", "values")

Reading(r) == [reg |-> r, synthetic |-> synthetic, scope |-> {}]

(* What the aliases copy fields from.                                      *)
AliasEnv == Reading(reg)

Collect(d) ==
    LET env   == IF CopiesFields(d) THEN AliasEnv ELSE Reading(lookup)
        asked == UNION {Asked(t, env) : t \in TypesOf(d) \ {Untyped}} \ DOMAIN synthetic
    IN  /\ Register(d.name, CollectDecl(d, Collected(d, Reading(lookup)), Reading(lookup), AliasEnv))
        /\ synthetic' = [u \in asked |-> SyntheticFields(u, env)] @@ synthetic

(* The variables wait for their own pass.                                  *)
CollectItem ==
    /\ pass \in {"types", "values"}
    /\ item <= Len(program)
    /\ IF IsVar(program[item]) = (pass = "values") THEN Collect(program[item]) ELSE UNCHANGED <<reg, synthetic>>
    /\ item' = item + 1
    /\ UNCHANGED <<program, pass, lookup>>

(* The enums that were generated are entered as well, under names that no  *)
(* declaration has; Pipeline follows these.                                *)
Finish ==
    /\ pass = "values"
    /\ item > Len(program)
    /\ pass' = "done"
    /\ UNCHANGED <<program, item, reg, lookup, synthetic>>

Next == CollectTypeName \/ BeginTypes \/ CollectItem \/ BeginValues \/ Finish

Spec == Init /\ [][Next]_vars

-----------------------------------------------------------------------------
(* Where the code says otherwise: the gaps, each by name.                  *)

RECURSIVE Opens(_), Copies(_), FromGap(_, _)

(* The declared names a type has to look inside of to be resolved.         *)
Opens(t) ==
    LET Each(ts) == UNION {Opens(ts[i]) : i \in DOMAIN ts}
    IN  CASE t.k = "tuple" -> Each(t.members)
          [] t.k = "conditional" -> Opens(t.yes)
          [] t.k \in {"union", "both"} ->
                Each(t.members) \cup (IF t.k = "union" THEN {}
                                      ELSE {m.name : m \in {n \in Range(t.members) : n.k = "ref"}})
          [] t.k = "literal" -> Each(TypesOfLiteral(t))
          [] t.k = "function" -> Each(Append(Types(t.takes), t.gives))
          [] t.k = "keyof" -> {t.of.name}
          [] t.k = "typeof" -> {t.name}
          [] t.k = "at" -> IF t.object.k \in {"ref", "typeof"} THEN {t.object.name} ELSE Opens(t.object)
          [] t.k = "mapped" -> IF IsIdentity(t) THEN {} ELSE Opens(t.value)
          [] t.k = "ref" -> Each(t.args) \cup (IF t.args = <<>> \/ t.name \in Builtins THEN {} ELSE {t.name})
          [] OTHER -> {}

(* The names whose fields an alias copies.                                 *)
Copies(t) ==
    CASE t.k = "ref" /\ t.name \in Utilities \cup {"Readonly"} -> Copies(t.args[1]) \cup Opens(t)
      [] t.k = "ref" -> ({t.name} \ Builtins) \cup Opens(t)
      [] t.k = "mapped" /\ IsIdentity(t) -> {t.base.of.name}
      [] t.k = "both" -> UNION {Copies(t.members[i]) : i \in DOMAIN t.members}
      [] t.k = "conditional" -> Copies(t.yes)
      [] OTHER -> Opens(t)

Copying(d) == CopiesFields(d)

OpenedBy(d) == IF Copying(d) THEN Copies(d.type) ELSE UNION {Opens(t) : t \in TypesOf(d)}

(* What the i-th declaration can see of n when it is collected: the values *)
(* see the types, an alias that copies the types before it, and the others *)
(* nothing.                                                                *)
Sees(i, n) == \E j \in DOMAIN program :
                /\ program[j].name = n
                /\ ~IsVar(program[j])
                /\ IsVar(program[i]) \/ (Copying(program[i]) /\ j < i)

LooksAhead(i) == \E n \in OpenedBy(program[i]) : ~Sees(i, n)

(* A utility struct that an earlier declaration asked for while its source *)
(* was not collected keeps having no fields.                               *)
Mentions(d) == UNION {Asked(t, Reading(reg)) : t \in TypesOf(d) \ {Untyped}}
Stale(i) == Copying(program[i]) /\ \E j \in 1..(i - 1) :
                ~IsVar(program[j]) /\ Mentions(program[i]) \cap Mentions(program[j]) # {}

(* An alias of what has no fields is left as an empty struct, one of       *)
(* several call signatures keeps the longest, and a parameter the alias    *)
(* has is not known in what is recorded of them.                           *)
IsFunction(t) == t.k = "function" \/ IsCallOnly(t)
NotAnObject(d) == d.what = "alias" /\ ~IsFunction(d.type) /\ ~HasFields(d.type)
Overloaded(d) == d.what = "alias" /\ IsCallOnly(d.type) /\ Len(d.type.calls) > 1
LosesAliasParams(d) == d.what = "alias" /\ IsCallOnly(d.type) /\ d.params # <<>>

(* A field that two parts of an intersection have is recorded twice, and   *)
(* an intersection inside another type is refused for it.                  *)
RECURSIVE Shares(_)
Shares(t) ==
    CASE t.k = "both" ->
            \E i, j \in DOMAIN t.members : i # j /\ Range(Names(TypeFields(t.members[i], <<>>)))
                                                     \cap Range(Names(TypeFields(t.members[j], <<>>))) # {}
      [] t.k = "literal" -> \E f \in Range(t.fields) : Shares(f.type)
      [] OTHER -> FALSE
SharedField(d) == \E t \in TypesOf(d) : Shares(t)

(* A part of an intersection that is no literal and no declared name      *)
(* becomes one field.                                                      *)
RECURSIVE OddPart(_)
OddPart(t) ==
    CASE t.k = "both" -> \E i \in DOMAIN t.members :
                LET m == t.members[i]
                IN  ~(m.k = "literal" \/ (m.k = "ref" /\ m.name \notin Builtins))
      [] t.k = "literal" -> \E f \in Range(t.fields) : OddPart(f.type)
      [] OTHER -> FALSE
OneField(d) == \E t \in TypesOf(d) : OddPart(t)

(* Members without an annotation are dropped, parameter properties are not *)
(* collected as fields, the fields of an annotated constant lose their "?",*)
(* and Pick and Omit take nothing but a name.                              *)
UntypedMember(d) == Untyped \in TypesOf([d EXCEPT !.type = Nothing, !.params = <<>>])
ParameterProperty(d) == d.properties # <<>>
OptionalConst(d) == d.what = "const" /\ d.type.k = "literal" /\ \E f \in Range(d.type.fields) : f.optional
RECURSIVE PicksUtility(_)
PicksUtility(t) == \/ t.k = "ref" /\ t.name \in {"Pick", "Omit"} /\ t.args[1].args # <<>>
                   \/ t.k = "literal" /\ \E f \in Range(t.fields) : PicksUtility(f.type)
PickOfUtility(d) == \E t \in TypesOf(d) : PicksUtility(t)

Gap(i) == LET d == program[i]
          IN  \/ NotAnObject(d)
              \/ Overloaded(d)
              \/ LosesAliasParams(d)
              \/ LooksAhead(i)
              \/ Stale(i)
              \/ OneField(d)
              \/ SharedField(d)
              \/ UntypedMember(d)
              \/ ParameterProperty(d)
              \/ OptionalConst(d)
              \/ PickOfUtility(d)

(* What is opened was itself recorded otherwise.                           *)
FromGap(i, seen) == Gap(i) \/ \E j \in DOMAIN program \ seen :
                        /\ program[j].name \in OpenedBy(program[i])
                        /\ FromGap(j, seen \cup {j})

-----------------------------------------------------------------------------
(* Properties.                                                             *)

(* What a declaration of functions or of members says.                     *)
SaysSigs(sigs, sc) == [i \in DOMAIN sigs |-> Sig(Types(Shapes(sigs[i].takes, sc)), Shape(sigs[i].gives, sc))]
ReadSigs(sigs)     == [i \in DOMAIN sigs |-> Sig(Types(ReadFields(sigs[i].takes)), Reads(sigs[i].gives))]

Says(d) == LET sc == ScopeOf(d)
           IN  [fields |-> DeclFields(d, sc), methods |-> SaysSigs(d.methods, sc), ctor |-> SaysSigs(d.ctor, sc),
                calls |-> SaysSigs(d.calls, sc), gives |-> Shape(d.gives, sc), extends |-> d.extends]
Recorded(def) == [fields |-> ReadFields(def.fields), methods |-> ReadSigs(def.methods), ctor |-> ReadSigs(def.ctor),
                  calls |-> ReadSigs(def.calls), gives |-> Reads(def.gives), extends |-> def.extends]

(* The function an alias stands for, and the one that is recorded.         *)
SaysFunction(d) ==
    LET sig == IF d.type.k = "function" THEN d.type ELSE d.type.calls[1]
        sc  == ScopeOf(d)
    IN  [fn |-> Types(Shapes(sig.takes, sc)), gives |-> Shape(sig.gives, sc)]
RecordedFunction(def) == [fn |-> Types(ReadFields(def.fields)), gives |-> Reads(def.gives)]

(* An arrow function of a callable type is recorded by the type's name.    *)
CallableByName(d) == d.what = "arrow" /\ d.type.k = "ref" /\ Declares(d.type.name) /\
                     LET t == DeclOf(d.type.name)
                     IN  t.what = "interface" /\ t.calls # <<>> /\ t.fields \o t.methods \o t.ctor = <<>>

(* The registry of a file (build_registry_with_synthetic): whatever the    *)
(* order of the declarations, a finished definition has the members        *)
(* TypeScript gives the declaration, each of the type it is declared with, *)
(* and the names it extends; an alias of a function, or of one call        *)
(* signature, is that function.  The exceptions are the gaps above; a      *)
(* constant of a named type, and an arrow function of a callable           *)
(* interface, is recorded by that name.                                    *)
RecordedAsDeclared ==
    pass = "done" => \A i \in DOMAIN program :
        LET d   == program[i]
            def == reg[d.name]
        IN  \/ FromGap(i, {i})
            \/ CallableByName(d) /\ def.ref = d.type.name
            \/ d.what = "const" /\ d.type.k = "ref" /\ def.ref = d.type.name
            \/ ~CallableByName(d) /\ d.what # "alias" /\ Recorded(def) = Says(d)
            \/ /\ d.what = "alias"
               /\ IF IsFunction(d.type) THEN def.kind = "function" /\ RecordedFunction(def) = SaysFunction(d)
                  ELSE Recorded(def).fields = Says(d).fields
=============================================================================
