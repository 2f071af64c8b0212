--------------------------- MODULE SyntheticTypes ---------------------------
(***************************************************************************)
(* The registry of synthetic types (src/src/pipeline/synthetic_registry):  *)
(* the enums and structs the transpiler invents for union types, type      *)
(* literals, intersections, `any` parameters and external types.           *)
(*                                                                         *)
(* A registry is a value here, because the pipeline keeps several of them  *)
(* at once: the shared one, a fork per file, a local one per function.     *)
(* Every operation is a pair of operators, the registry after the call and *)
(* the name the caller is handed.                                          *)
(*                                                                         *)
(* Abstraction.  The body of a generated item is the set of its parts (the *)
(* member types of a union, the name:type fields of a struct, the variants *)
(* of an enum, the values of a string enum); the signatures of the code    *)
(* are sorted renderings of the same parts, so a signature is that set.    *)
(* A name is its text, for a generated `_Text3` the number in it, and      *)
(* whether it is the `...Impl` name of the impl block of that type.        *)
(***************************************************************************)
EXTENDS Integers, Sequences, FiniteSets

CONSTANTS
    Parts,      \* what bodies are made of: types, fields, variants, values
    Texts,      \* identifier texts in PascalCase
    VariantOf,  \* variant_name_for_type: the variant name of a member type
    UnionText   \* generate_union_name: sorted variant names joined by "Or"

ASSUME NamingAssumption ==
    /\ VariantOf \in [Parts -> Texts]
    /\ UnionText \in [SUBSET Texts -> Texts]
    /\ {"TypeLit", "Intersection"} \subseteq Texts

Bodies == SUBSET Parts

Kinds == {"UnionEnum", "AnyEnum", "InlineStruct", "ImplBlock", "Trait", "External"}

Plain == -1                         \* the number of a name without one

Names == [text : Texts, id : Nat \cup {Plain}, impl : BOOLEAN]

Numbered(t, n) == [text |-> t, id |-> n, impl |-> FALSE]
PlainName(t) == Numbered(t, Plain)
ImplName(n) == [n EXCEPT !.impl = TRUE]

Defs == [kind : Kinds, body : Bodies]

(* union_dedup holds the unions and the string enums, told apart by the    *)
(* prefix of the signature.                                                *)
UnionKeys == [of : {"union", "string_enum"}, parts : Bodies]

IsMap(f, S, T) ==
    /\ f = [x \in DOMAIN f |-> f[x]]
    /\ DOMAIN f \subseteq S
    /\ \A x \in DOMAIN f : f[x] \in T

IsRegistry(r) ==
    /\ r = [types |-> r.types, unionDedup |-> r.unionDedup, structDedup |-> r.structDedup,
            enumDedup |-> r.enumDedup, structCtr |-> r.structCtr, synCtr |-> r.synCtr,
            scope |-> r.scope]
    /\ IsMap(r.types, Names, Defs)
    /\ IsMap(r.unionDedup, UnionKeys, Names)
    /\ IsMap(r.structDedup, Bodies, Names)
    /\ IsMap(r.enumDedup, Bodies, Names)
    /\ r.structCtr \in Nat
    /\ r.synCtr \in Nat
    /\ r.scope \subseteq Texts

-----------------------------------------------------------------------------
Put(f, k, v) == [x \in DOMAIN f \cup {k} |-> IF x = k THEN v ELSE f[x]]

Overlay(f, g) == [x \in DOMAIN f \cup DOMAIN g |-> IF x \in DOMAIN g THEN g[x] ELSE f[x]]

Larger(m, n) == IF m >= n THEN m ELSE n

Empty == [x \in {} |-> x]

NewRegistry ==
    [types |-> Empty, unionDedup |-> Empty, structDedup |-> Empty, enumDedup |-> Empty,
     structCtr |-> 0, synCtr |-> 0, scope |-> {}]

Def(k, b) == [kind |-> k, body |-> b]

-----------------------------------------------------------------------------
(* Mutation: the signature is taken before the members are collected. *)
UnionKeyTooEarly(ms) == [of |-> "union", parts |-> {}]

(* register_union: members with the same variant name are dropped, the     *)
(* first one stays; the name is made of the variant names alone.           *)

UnionKey(ms) == [of |-> "union", parts |-> {ms[i] : i \in DOMAIN ms}]

DedupMembers(ms) ==
    {ms[i] : i \in {j \in DOMAIN ms : \A k \in 1 .. (j - 1) : VariantOf[ms[k]] # VariantOf[ms[j]]}}

VariantsOf(b) == {VariantOf[m] : m \in b}

FreshUnionName(ms) == PlainName(UnionText[VariantsOf(DedupMembers(ms))])

UnionName(r, ms) ==
    IF UnionKey(ms) \in DOMAIN r.unionDedup THEN r.unionDedup[UnionKey(ms)] ELSE FreshUnionName(ms)

RegisterUnion(r, ms) ==
    IF UnionKey(ms) \in DOMAIN r.unionDedup
    THEN r
    ELSE [r EXCEPT !.types = Put(@, FreshUnionName(ms), Def("UnionEnum", DedupMembers(ms))),
                   !.unionDedup = Put(@, UnionKey(ms), FreshUnionName(ms))]

(* push_item: no signature, the last write wins. *)
PushItem(r, n, k, b) == [r EXCEPT !.types = Put(@, n, Def(k, b))]

(* What already has the name stays: register_any_enum, whose name comes    *)
(* from the function and the parameter, and the utility types (Partial,    *)
(* Required, Pick, Omit), which look the name up before they push.         *)
PushIfAbsent(r, n, k, b) == IF n \in DOMAIN r.types THEN r ELSE PushItem(r, n, k, b)

(* register_struct_dedup, behind register_inline_struct and                *)
(* register_intersection_struct.                                           *)
StructName(r, fs) ==
    IF fs \in DOMAIN r.structDedup THEN r.structDedup[fs] ELSE Numbered("TypeLit", r.structCtr)

(* Mutation: the counter is not advanced. *)
RegisterStructSameNumber(r, fs) ==
    IF fs \in DOMAIN r.structDedup
    THEN r
    ELSE [r EXCEPT !.types = Put(@, StructName(r, fs), Def("InlineStruct", fs)),
                   !.structDedup = Put(@, fs, StructName(r, fs))]

RegisterStruct(r, fs) ==
    IF fs \in DOMAIN r.structDedup
    THEN r
    ELSE [r EXCEPT !.structCtr = @ + 1,
                   !.types = Put(@, StructName(r, fs), Def("InlineStruct", fs)),
                   !.structDedup = Put(@, fs, StructName(r, fs))]

(* An intersection with methods registers its struct and then, on a hit    *)
(* too, pushes the impl block of that name.                                *)
RegisterIntersection(r, fs, methods) ==
    IF methods = {}
    THEN RegisterStruct(r, fs)
    ELSE PushItem(RegisterStruct(r, fs), ImplName(StructName(r, fs)), "ImplBlock", methods)

(* register_intersection_enum. *)
EnumName(r, vs) ==
    IF vs \in DOMAIN r.enumDedup THEN r.enumDedup[vs] ELSE Numbered("Intersection", r.synCtr)

(* Mutation: the counter is not advanced. *)
RegisterEnumSameNumber(r, vs) ==
    IF vs \in DOMAIN r.enumDedup
    THEN r
    ELSE [r EXCEPT !.types = Put(@, EnumName(r, vs), Def("UnionEnum", vs)),
                   !.enumDedup = Put(@, vs, EnumName(r, vs))]

RegisterIntersectionEnum(r, vs) ==
    IF vs \in DOMAIN r.enumDedup
    THEN r
    ELSE [r EXCEPT !.synCtr = @ + 1,
                   !.types = Put(@, EnumName(r, vs), Def("UnionEnum", vs)),
                   !.enumDedup = Put(@, vs, EnumName(r, vs))]

(* register_string_literal_enum: the hint is the name, numbered when some  *)
(* type already has it.                                                    *)
StringKey(vs) == [of |-> "string_enum", parts |-> vs]

StringEnumName(r, hint, vs) ==
    IF StringKey(vs) \in DOMAIN r.unionDedup THEN r.unionDedup[StringKey(vs)]
    ELSE IF PlainName(hint) \in DOMAIN r.types THEN Numbered(hint, r.synCtr)
    ELSE PlainName(hint)

RegisterStringEnum(r, hint, vs) ==
    IF StringKey(vs) \in DOMAIN r.unionDedup
    THEN r
    ELSE [r EXCEPT !.synCtr = IF PlainName(hint) \in DOMAIN r.types THEN @ + 1 ELSE @,
                   !.types = Put(@, StringEnumName(r, hint, vs), Def("UnionEnum", vs)),
                   !.unionDedup = Put(@, StringKey(vs), StringEnumName(r, hint, vs))]

-----------------------------------------------------------------------------
(* Mutation: the new parameters replace the ones in scope. *)
PushScopeReplacing(r, ts) == [r EXCEPT !.scope = ts]

(* push_type_param_scope appends to the scope; the caller keeps what was   *)
(* there and hands it back to restore_type_param_scope.                    *)
PushScope(r, ts) == [r EXCEPT !.scope = @ \cup ts]
RestoreScope(r, prev) == [r EXCEPT !.scope = prev]

(* Mutation: the fork starts to number structs anew. *)
ForkFromZero(r) == [r EXCEPT !.scope = {}, !.structCtr = 0]

(* fork_dedup_state: a clone with an empty scope. *)
Fork(r) == [r EXCEPT !.scope = {}]

(* merge: the other registry overwrites, the counters become the larger. *)
Merge(r, other) ==
    [r EXCEPT !.types = Overlay(@, other.types),
              !.unionDedup = Overlay(@, other.unionDedup),
              !.structDedup = Overlay(@, other.structDedup),
              !.enumDedup = Overlay(@, other.enumDedup),
              !.structCtr = Larger(@, other.structCtr),
              !.synCtr = Larger(@, other.synCtr)]

-----------------------------------------------------------------------------
(* What makes a registry's names good: a struct or intersection enum is    *)
(* recorded under its signature, the signature's item has exactly those    *)
(* parts, and every number in use is below its counter.                    *)
Recorded(r, dedup, text, ctr) ==
    \A b \in DOMAIN dedup :
        /\ dedup[b].text = text
        /\ dedup[b].impl = FALSE
        /\ dedup[b].id \in 0 .. (ctr - 1)
        /\ dedup[b] \in DOMAIN r.types
        /\ r.types[dedup[b]].body = b

NumbersBelow(r) ==
    \A n \in DOMAIN r.types :
        n.impl = FALSE => n.id < (IF n.text = "TypeLit" THEN r.structCtr ELSE r.synCtr)

Sound(r) ==
    /\ IsRegistry(r)
    /\ Recorded(r, r.structDedup, "TypeLit", r.structCtr)
    /\ Recorded(r, r.enumDedup, "Intersection", r.synCtr)
    /\ NumbersBelow(r)

(* Whatever a signature is recorded under is there; this, unlike Sound,    *)
(* outlives a merge with any registry.                                     *)
Named(r) ==
    /\ \A k \in DOMAIN r.unionDedup : r.unionDedup[k] \in DOMAIN r.types
    /\ \A b \in DOMAIN r.structDedup : r.structDedup[b] \in DOMAIN r.types
    /\ \A b \in DOMAIN r.enumDedup : r.enumDedup[b] \in DOMAIN r.types

(* A recorded union has the name its variants make.                        *)
NamedByVariants(r) ==
    \A k \in DOMAIN r.unionDedup :
        k.of = "union" => r.unionDedup[k] = PlainName(UnionText[VariantsOf(k.parts)])

(* r2 has everything numbered that r has, as r has it. *)
Keeps(r, r2) ==
    /\ \A n \in DOMAIN r.types :
          (n.id # Plain /\ n.impl = FALSE) => n \in DOMAIN r2.types /\ r2.types[n] = r.types[n]
    /\ \A b \in DOMAIN r.structDedup : b \in DOMAIN r2.structDedup /\ r2.structDedup[b] = r.structDedup[b]
    /\ \A b \in DOMAIN r.enumDedup : b \in DOMAIN r2.enumDedup /\ r2.enumDedup[b] = r.enumDedup[b]
=============================================================================
