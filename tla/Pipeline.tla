------------------------------ MODULE Pipeline ------------------------------
(***************************************************************************)
(* The unified pipeline, transpile_pipeline in src/src/pipeline/mod.rs:    *)
(* the passes over all files, in order, and the registries that travel     *)
(* between them.                                                           *)
(*                                                                         *)
(*   parse -> collect -> any -> resolve -> structs -> transform ->         *)
(*   externals -> done                                                     *)
(*                                                                         *)
(* `shared` is the TypeRegistry of declared types, `synthetic` the         *)
(* registry of synthetic types that is output.  Every pass but the first   *)
(* works on registries of its own: a new one per file for the declared     *)
(* types, which is dropped with the names it gave; a new one per file for  *)
(* the any-enums, a fork per file for the resolver, one per file and a new *)
(* one per function for the transformer.                                   *)
(*                                                                         *)
(* Abstraction.  A file is the list of its module items; an item is what   *)
(* the passes ask the registries for when they visit it, the type names it *)
(* mentions and the ones it defines.  Where an item has a construct the    *)
(* transformer does not support is left open: it may fail at any point.    *)
(* What the collection makes of a file's declarations is given, `decls`;   *)
(* that it resolves variables after the other declarations would change    *)
(* the numbers of its names only, and nothing is claimed of those.         *)
(***************************************************************************)
EXTENDS SyntheticTypes, Functions

CONSTANTS
    Programs,   \* sequences of files
    BaseTypes,  \* builtin_types: declared names to definitions, all external
    BaseSyn,    \* base_synthetic: the registry of the builtin types
    RefsOf,     \* the type names a part mentions
    MaxIterations   \* UNDEFINED_REFS_FIXPOINT_MAX_ITERATIONS

TypeDefs == [kind : {"Struct", "Enum", "Function"}, body : Bodies, methods : Bodies]

Requests == [kind : {"union", "struct", "intersection"}, parts : Seq(Parts)]

(* An interface or an alias is not `visited` by the resolver; a function   *)
(* has a registry of its own in the transformer.                           *)
Items == [fn : BOOLEAN, visited : BOOLEAN, defines : SUBSET Texts, typeParams : SUBSET Texts,
          refs : SUBSET Texts, anys : Seq([text : Texts, variants : Bodies]), sig : Seq(Requests), exprs : Seq(Requests)]

ASSUME PipelineAssumption ==
    /\ \A p \in Programs :
          /\ p \in Seq([decls : {p[f].decls : f \in DOMAIN p}, imports : SUBSET Texts,
                        items : Seq(Items)])
          /\ \A f \in DOMAIN p : IsMap(p[f].decls, Names, TypeDefs)
    /\ IsMap(BaseTypes, Names, TypeDefs)
    /\ \A n \in DOMAIN BaseTypes : n = PlainName(n.text)
    /\ Sound(BaseSyn) /\ Named(BaseSyn) /\ NamedByVariants(BaseSyn)
    /\ \A n \in DOMAIN BaseSyn.types : BaseSyn.types[n].kind # "External"
    /\ RefsOf \in [Parts -> SUBSET Texts]
    /\ MaxIterations \in Nat \ {0}

VARIABLES
    prog,       \* the files, unchanged
    phase,      \* the pass
    file,       \* the file it is at, one past the last when the pass is over
    item, ask,  \* the item of the file and the request of the item it is at
    shared,     \* shared_registry
    synthetic,  \* synthetic
    anySyn,     \* per_file_any_synthetics
    resSyn,     \* per_file_resolver_synthetics
    work,       \* the registry of the file in the pass at hand
    local,      \* local_synthetic of the function at hand
    pending,    \* answers the item at hand was given
    collected,  \* answers the collection of declared types was given, with file and item
    granted,    \* answers a file's registry gave to items that are no functions
    resolved,   \* answers the resolver was given, with file and item
    emitted,    \* the items transformed without an error
    handed,     \* answers whose names stand in emitted items
    rounds      \* iterations of the external type fixpoint

cursor == <<file, item, ask>>
history == <<collected, granted, resolved, emitted, handed>>
vars == <<prog, phase, cursor, shared, synthetic, anySyn, resSyn, work, local, pending, history,
          rounds>>

NFiles == Len(prog)
Here == prog[file].items[item]
InItem == file <= NFiles /\ item <= Len(prog[file].items)
AtEndOfFile == file <= NFiles /\ item > Len(prog[file].items)

-----------------------------------------------------------------------------
(* Requests to a registry, and the answers. *)
PartsOf(q) == Range(q.parts)

Asked(q) == IF q.kind = "union" THEN DedupMembers(q.parts) ELSE PartsOf(q)

Register(r, q) ==
    CASE q.kind = "union"        -> RegisterUnion(r, q.parts)
      [] q.kind = "struct"       -> RegisterStruct(r, PartsOf(q))
      [] q.kind = "intersection" -> RegisterIntersectionEnum(r, PartsOf(q))

NameFor(r, q) ==
    CASE q.kind = "union"        -> UnionName(r, q.parts)
      [] q.kind = "struct"       -> StructName(r, PartsOf(q))
      [] q.kind = "intersection" -> EnumName(r, PartsOf(q))

Answer(r, q) == [kind |-> q.kind, asked |-> Asked(q), name |-> NameFor(r, q)]

AnyAnswer(a) == [kind |-> "any", asked |-> a.variants, name |-> PlainName(a.text)]

-----------------------------------------------------------------------------
(* TypeRegistry::merge: a builtin struct keeps its methods when a file     *)
(* declares the name again, everything else is the file's.                 *)
Preserving(builtin, source) ==
    IF builtin.kind = "Struct" /\ source.kind = "Struct"
    THEN [source EXCEPT !.methods = @ \cup builtin.methods]
    ELSE source

(* Mutation: the file's declaration always wins. *)
MergeTypesPlainly(types, decls) == Overlay(types, decls)

MergeTypes(types, decls) ==
    Overlay(types, [n \in DOMAIN decls |->
        IF n \in DOMAIN BaseTypes /\ n \in DOMAIN types
        THEN Preserving(types[n], decls[n])
        ELSE decls[n]])

(* register_extra_enums and register_synthetic_structs_in_registry: what   *)
(* the registry has and the shared one lacks.                              *)
ItemsOfKind(r, kinds) == {n \in DOMAIN r.types : r.types[n].kind \in kinds}

(* Mutation: what the shared registry has is replaced. *)
AddAlways(types, r, kinds, as) ==
    Overlay(types,
            [n \in ItemsOfKind(r, kinds) |-> [kind |-> as, body |-> r.types[n].body, methods |-> {}]])

AddAbsent(types, r, kinds, as) ==
    Overlay([n \in ItemsOfKind(r, kinds) |-> [kind |-> as, body |-> r.types[n].body, methods |-> {}]],
            types)

-----------------------------------------------------------------------------
(* The registry a pass opens for a file. *)
(* Mutation: the transformer does not get the resolver's registry. *)
OpenWithoutResolver(ph, f) ==
    IF ph = "resolve" THEN Fork(synthetic)
    ELSE IF ph = "transform" /\ f <= NFiles THEN anySyn[f]
    ELSE NewRegistry

Open(ph, f) ==
    IF ph = "resolve" THEN Fork(synthetic)
    ELSE IF ph = "transform" /\ f <= NFiles THEN Merge(anySyn[f], resSyn[f])
    ELSE NewRegistry

Passes == <<"parse", "collect", "any", "resolve", "structs", "transform", "externals">>

After(ph) == Passes[1 + CHOOSE i \in 1 .. Len(Passes) - 1 : Passes[i] = ph]

Init ==
    /\ prog \in Programs
    /\ phase = "parse"
    /\ file = 1 /\ item = 1 /\ ask = 1
    /\ shared = BaseTypes
    /\ synthetic = BaseSyn
    /\ anySyn = <<>> /\ resSyn = <<>>
    /\ work = NewRegistry /\ local = NewRegistry
    /\ pending = {}
    /\ collected = {} /\ granted = {} /\ resolved = {} /\ emitted = {} /\ handed = {}
    /\ rounds = 0

NextPass ==
    /\ file > NFiles
    /\ phase \notin {"externals", "done", "failed", "panicked"}
    /\ phase' = After(phase)
    /\ file' = 1 /\ item' = 1 /\ ask' = 1
    /\ work' = Open(After(phase), 1)
    /\ UNCHANGED <<prog, shared, synthetic, anySyn, resSyn, local, pending, history, rounds>>

NextFile ==
    /\ file' = file + 1 /\ item' = 1 /\ ask' = 1
    /\ work' = Open(phase, file + 1)

NextItem == item' = item + 1 /\ ask' = 1 /\ UNCHANGED file

NextAsk == ask' = ask + 1 /\ UNCHANGED <<file, item>>

-----------------------------------------------------------------------------
ParseFile ==
    /\ phase = "parse" /\ file <= NFiles
    /\ NextFile
    /\ UNCHANGED <<prog, phase, shared, synthetic, anySyn, resSyn, local, pending, history, rounds>>

(* One file that does not parse ends the run. *)
ParseFails ==
    /\ phase = "parse" /\ file <= NFiles
    /\ phase' = "failed"
    /\ UNCHANGED <<prog, cursor, shared, synthetic, anySyn, resSyn, work, local, pending, history, rounds>>

(* build_registry resolves a file's declarations: the types of their       *)
(* fields, parameters and results.                                         *)
CollectAsk ==
    /\ phase = "collect" /\ InItem
    /\ IF ask <= Len(Here.sig)
       THEN /\ work' = Register(work, Here.sig[ask])
            /\ collected' = collected \cup {[file |-> file, item |-> item, ask |-> ask,
                                             answer |-> Answer(work, Here.sig[ask])]}
            /\ NextAsk
       ELSE NextItem /\ UNCHANGED <<work, collected>>
    /\ UNCHANGED <<prog, phase, shared, synthetic, anySyn, resSyn, local, pending, granted, resolved,
                   emitted, handed, rounds>>

(* Its last step adds the enums that were generated to the file's types,   *)
(* which the shared registry then takes over; the registry they were       *)
(* generated in is dropped.                                                *)
CollectTypes ==
    /\ phase = "collect" /\ AtEndOfFile
    /\ shared' = MergeTypes(shared, AddAbsent(prog[file].decls, work, {"UnionEnum", "AnyEnum"}, "Enum"))
    /\ NextFile
    /\ UNCHANGED <<prog, phase, synthetic, anySyn, resSyn, local, pending, history, rounds>>

(* analyze_any_enums: one enum per function and parameter name. *)
AnalyzeAny ==
    /\ phase = "any" /\ InItem
    /\ IF ask <= Len(Here.anys)
       THEN /\ work' = PushIfAbsent(work, PlainName(Here.anys[ask].text), "AnyEnum",
                                    Here.anys[ask].variants)
            /\ NextAsk
       ELSE NextItem /\ UNCHANGED work
    /\ UNCHANGED <<prog, phase, shared, synthetic, anySyn, resSyn, local, pending, history, rounds>>

FinishAny ==
    /\ phase = "any" /\ AtEndOfFile
    /\ shared' = AddAbsent(shared, work, {"UnionEnum", "AnyEnum"}, "Enum")
    /\ anySyn' = Append(anySyn, work)
    /\ NextFile
    /\ UNCHANGED <<prog, phase, synthetic, resSyn, local, pending, history, rounds>>

(* TypeResolver::resolve_file: the annotations of the signature, then what *)
(* the expressions of the body make.                                       *)
ResolverAsks(i) == IF i.visited THEN i.sig \o i.exprs ELSE <<>>

ResolveAsk ==
    LET asks == ResolverAsks(Here) IN
    /\ phase = "resolve" /\ InItem
    /\ IF ask <= Len(asks)
       THEN /\ work' = Register(work, asks[ask])
            /\ resolved' = resolved \cup {[file |-> file, item |-> item, ask |-> ask,
                                           answer |-> Answer(work, asks[ask])]}
            /\ NextAsk
       ELSE NextItem /\ UNCHANGED <<work, resolved>>
    /\ UNCHANGED <<prog, phase, shared, synthetic, anySyn, resSyn, local, pending, collected, granted,
                   emitted, handed, rounds>>

FinishResolve ==
    /\ phase = "resolve" /\ AtEndOfFile
    /\ resSyn' = Append(resSyn, work)
    /\ NextFile
    /\ UNCHANGED <<prog, phase, shared, synthetic, anySyn, local, pending, history, rounds>>

RegisterStructs ==
    /\ phase = "structs" /\ file <= NFiles
    /\ shared' = AddAbsent(shared, resSyn[file], {"InlineStruct", "External"}, "Struct")
    /\ NextFile
    /\ UNCHANGED <<prog, phase, synthetic, anySyn, resSyn, local, pending, history, rounds>>

-----------------------------------------------------------------------------
(* Mutation: what is no function is left with the types the collection     *)
(* resolved.                                                               *)
ConvertAskOfFunctions ==
    /\ phase = "transform" /\ InItem
    /\ ask <= Len(Here.sig)
    /\ IF Here.fn
       THEN /\ local' = Register(local, Here.sig[ask])
            /\ pending' = pending \cup {Answer(local, Here.sig[ask])}
       ELSE UNCHANGED <<local, pending>>
    /\ NextAsk
    /\ UNCHANGED <<prog, phase, shared, synthetic, anySyn, resSyn, work, history, rounds>>

(* transform_module_collecting.  A function's signature is converted on    *)
(* the function's own registry, any other item's on the file's.            *)
ConvertAsk ==
    /\ phase = "transform" /\ InItem
    /\ ask <= Len(Here.sig)
    /\ IF Here.fn
       THEN /\ local' = Register(local, Here.sig[ask])
            /\ pending' = pending \cup {Answer(local, Here.sig[ask])}
            /\ UNCHANGED <<work, granted>>
       ELSE /\ work' = Register(work, Here.sig[ask])
            /\ pending' = pending \cup {Answer(work, Here.sig[ask])}
            /\ granted' = granted \cup {Answer(work, Here.sig[ask])}
            /\ UNCHANGED local
    /\ NextAsk
    /\ UNCHANGED <<prog, phase, shared, synthetic, anySyn, resSyn, collected, resolved, emitted, handed,
                   rounds>>

(* The names an emitted item has from the resolver: the types of its       *)
(* expressions and of its any parameters.                                  *)
FromResolver ==
    {x.answer : x \in {y \in resolved : y.file = file /\ y.item = item /\ y.ask > Len(Here.sig)}}
      \cup {AnyAnswer(Here.anys[i]) : i \in DOMAIN Here.anys}

FinishItem ==
    /\ phase = "transform" /\ InItem
    /\ ask > Len(Here.sig)
    /\ work' = IF Here.fn THEN Merge(work, local) ELSE work
    /\ emitted' = emitted \cup {<<file, item>>}
    /\ handed' = handed \cup pending \cup FromResolver
    /\ local' = NewRegistry /\ pending' = {}
    /\ NextItem
    /\ UNCHANGED <<prog, phase, shared, synthetic, anySyn, resSyn, collected, granted, resolved, rounds>>

(* Mutation: a failed function's registry is merged all the same. *)
ItemFailsMerging ==
    /\ phase = "transform" /\ InItem
    /\ work' = Merge(work, local)
    /\ local' = NewRegistry /\ pending' = {}
    /\ NextItem
    /\ UNCHANGED <<prog, phase, shared, synthetic, anySyn, resSyn, history, rounds>>

(* An unsupported construct: the item is reported and left out, a          *)
(* function's registry dropped, and the next item is transformed.          *)
ItemFails ==
    /\ phase = "transform" /\ InItem
    /\ local' = NewRegistry /\ pending' = {}
    /\ NextItem
    /\ UNCHANGED <<prog, phase, shared, synthetic, anySyn, resSyn, work, history, rounds>>

(* Mutation: the output is the last file's registry alone. *)
FinishTransformReplacing ==
    /\ phase = "transform" /\ AtEndOfFile
    /\ synthetic' = work
    /\ NextFile
    /\ UNCHANGED <<prog, phase, shared, anySyn, resSyn, local, pending, history, rounds>>

FinishTransform ==
    /\ phase = "transform" /\ AtEndOfFile
    /\ synthetic' = Merge(synthetic, work)
    /\ NextFile
    /\ UNCHANGED <<prog, phase, shared, anySyn, resSyn, local, pending, history, rounds>>

-----------------------------------------------------------------------------
(* collect_undefined_type_references over the emitted items of all files   *)
(* and the synthetic items.                                                *)
Emitted == {prog[e[1]].items[e[2]] : e \in emitted}

ItemTexts == {n.text : n \in {m \in DOMAIN synthetic.types : m.id = Plain /\ ~m.impl}}

Excluded ==
    (UNION {i.defines \cup i.typeParams : i \in Emitted})
      \cup (UNION {prog[f].imports : f \in DOMAIN prog})

BodyRefs(b) == UNION {RefsOf[p] : p \in b}

(* Mutation: only the items of the files are searched. *)
ReferencesOfFiles == UNION {i.refs : i \in Emitted}

References ==
    (UNION {i.refs : i \in Emitted})
      \cup (UNION {BodyRefs(synthetic.types[n].body) : n \in DOMAIN synthetic.types})

ExternalTexts == {n.text : n \in DOMAIN BaseTypes}

Undefined == ((References \ Excluded) \ ItemTexts) \cap ExternalTexts

(* generate_external_struct, or the empty stub for what is no struct. *)
ExternalBody(t) ==
    IF shared[PlainName(t)].kind = "Struct" THEN shared[PlainName(t)].body ELSE {}

(* Mutation: what is no struct gets no stub, and is asked for again.       *)
ClaimsOfStructs ==
    [n \in {PlainName(t) : t \in {u \in Undefined : shared[PlainName(u)].kind = "Struct"}} |->
        Def("External", ExternalBody(n.text))]

Claims == [n \in {PlainName(t) : t \in Undefined} |-> Def("External", ExternalBody(n.text))]

(* One iteration of resolve_external_types_globally. *)
ClaimExternals ==
    /\ phase = "externals"
    /\ Undefined # {}
    /\ rounds < MaxIterations
    /\ synthetic' = [synthetic EXCEPT !.types = Overlay(@, Claims)]
    /\ rounds' = rounds + 1
    /\ UNCHANGED <<prog, phase, cursor, shared, anySyn, resSyn, work, local, pending, history>>

Finish ==
    /\ phase = "externals"
    /\ Undefined = {}
    /\ phase' = "done"
    /\ UNCHANGED <<prog, cursor, shared, synthetic, anySyn, resSyn, work, local, pending, history, rounds>>

(* Its assertion that this is not one iteration too many. *)
TooManyIterations ==
    /\ phase = "externals"
    /\ Undefined # {}
    /\ rounds = MaxIterations
    /\ phase' = "panicked"
    /\ UNCHANGED <<prog, cursor, shared, synthetic, anySyn, resSyn, work, local, pending, history,
                   rounds>>

Next ==
    \/ NextPass
    \/ ParseFile \/ ParseFails
    \/ CollectAsk \/ CollectTypes
    \/ AnalyzeAny \/ FinishAny
    \/ ResolveAsk \/ FinishResolve
    \/ RegisterStructs
    \/ ConvertAsk \/ FinishItem \/ ItemFails \/ FinishTransform
    \/ ClaimExternals \/ TooManyIterations \/ Finish

Spec == Init /\ [][Next]_vars

-----------------------------------------------------------------------------
Answers == [kind : {"union", "struct", "intersection", "any"}, asked : Bodies, name : Names]

Denotes(h) == h.name \in DOMAIN synthetic.types /\ synthetic.types[h.name].body = h.asked

(* No dangling name: each name an emitted item was given for its own types *)
(* - by the any-enum analysis, the resolver's fork, the file's registry or *)
(* the function's - is defined in the output, in spite of failed           *)
(* neighbours and of overwriting merges.  Names that come to an item by    *)
(* way of the shared registry are CollectedUnionsDefined's.                *)
EveryNameDefined ==
    phase = "done" => \A h \in handed : h.name \in DOMAIN synthetic.types

(* The registry the collection made its names in is dropped, but the names *)
(* stay in the types of the shared registry, where the later passes read   *)
(* them for whatever item uses the declaration.  A union's name is defined *)
(* in the output all the same, since it is made of the union's variants    *)
(* and the declaration, if it was emitted, asked for the union again.      *)
(* Numbered names, and the names of declarations that failed, may dangle.  *)
CollectedUnionsDefined ==
    phase = "done" =>
       \A x \in collected :
          (x.answer.kind = "union" /\ <<x.file, x.item>> \in emitted) =>
              x.answer.name \in DOMAIN synthetic.types

(* The names unions and any-enums take in these files: unions with other   *)
(* variants have other names, those of the builtin types included, and no  *)
(* any-enum or external type has one.                                      *)
AllItems == UNION {Range(prog[f].items) : f \in DOMAIN prog}
AllRequests == UNION {Range(i.sig) \cup Range(i.exprs) : i \in AllItems}
UnionLists == {q.parts : q \in {r \in AllRequests : r.kind = "union"}}
AnyTexts == {a.text : a \in UNION {Range(i.anys) : i \in AllItems}}

UnionsApart ==
    /\ \A ms, ns \in UnionLists :
          FreshUnionName(ms) = FreshUnionName(ns)
             => VariantsOf(DedupMembers(ms)) = VariantsOf(DedupMembers(ns))
    /\ \A ms \in UnionLists :
          FreshUnionName(ms) \in DOMAIN BaseSyn.types =>
             VariantsOf(BaseSyn.types[FreshUnionName(ms)].body) = VariantsOf(DedupMembers(ms))
    /\ \A ms \in UnionLists : FreshUnionName(ms).text \notin AnyTexts \cup ExternalTexts

(* A union's name in an emitted item is an enum with that union's variants *)
(* in the output, whichever registry's copy the merges kept.               *)
UnionNamesDenote ==
    (phase = "done" /\ UnionsApart) =>
       \A h \in handed : h.kind = "union" =>
          /\ h.name \in DOMAIN synthetic.types
          /\ VariantsOf(synthetic.types[h.name].body) = VariantsOf(h.asked)

(* The name of a type literal or an intersection in an emitted item is, in *)
(* the output, the struct or enum with the parts that were asked for. This *)
(* holds within a registry (SyntheticRegistryProofs), but not here:        *)
(* registries that were started apart use the same numbers.                *)
StructNamesDenote ==
    phase = "done" => \A h \in handed : h.kind \in {"struct", "intersection"} => Denotes(h)

(* What the resolver is told about a file stays true in that file's fork,  *)
(* which every later file and pass leaves alone.                           *)
ResolverAnswersStand ==
    \A x \in resolved :
       x.answer.kind \in {"struct", "intersection"} =>
          LET r == IF x.file <= Len(resSyn) THEN resSyn[x.file] ELSE work
          IN  x.file = file \/ x.file <= Len(resSyn) =>
                 /\ x.answer.name \in DOMAIN r.types
                 /\ r.types[x.answer.name].body = x.answer.asked

(* Every generated item in the output was asked for by somebody whose      *)
(* request counts: the builtin types, the resolver, the any-enum analysis, *)
(* an item that is not a function or a function that was emitted.  What a  *)
(* failed function had generated for itself is gone, and so is what the    *)
(* collection of declared types had.                                       *)
Counted ==
    {[name |-> n, body |-> BaseSyn.types[n].body] : n \in DOMAIN BaseSyn.types}
      \cup {[name |-> x.answer.name, body |-> x.answer.asked] : x \in resolved}
      \cup {[name |-> h.name, body |-> h.asked] : h \in handed \cup granted}

OnlyCountedOutput ==
    phase = "done" =>
       \A n \in DOMAIN synthetic.types :
          synthetic.types[n].kind \notin {"External", "AnyEnum"} =>
             [name |-> n, body |-> synthetic.types[n].body] \in Counted

(* After the collection of declared types nothing in the shared registry   *)
(* is ever replaced: enums and structs of the synthetic registries are     *)
(* added only under names it does not have.  Nor does the fixpoint over    *)
(* the external types claim a name that an item has.                       *)
DeclaredTypesStand ==
    [][/\ phase \notin {"parse", "collect"} =>
            \A n \in DOMAIN shared : n \in DOMAIN shared' /\ shared'[n] = shared[n]
       /\ rounds' # rounds =>
            \A n \in DOMAIN synthetic.types : synthetic'.types[n] = synthetic.types[n]]_vars

(* A file that declares a builtin struct again does not lose the builtin's *)
(* methods, whatever files follow; unless the name a union's enum gets is  *)
(* the builtin's, which no declaration is merged with.                     *)
BuiltinMethodsStand ==
    \A n \in DOMAIN BaseTypes :
       (/\ BaseTypes[n].kind = "Struct"
        /\ \A ms \in UnionLists : FreshUnionName(ms) # n
        /\ \A f \in DOMAIN prog : n \in DOMAIN prog[f].decls => prog[f].decls[n].kind = "Struct") =>
          BaseTypes[n].methods \subseteq shared[n].methods

-----------------------------------------------------------------------------
(* The external types the output needs: the least set with what the items  *)
(* mention and what its own members mention.                               *)
Written == {n \in DOMAIN synthetic.types : synthetic.types[n].kind # "External"}

Missing ==
    (ExternalTexts \ Excluded) \ {n.text : n \in {m \in Written : m.id = Plain /\ ~m.impl}}

Mentioned ==
    (UNION {i.refs : i \in Emitted})
      \cup (UNION {BodyRefs(synthetic.types[n].body) : n \in Written})

ClosedTexts(S) ==
    /\ Mentioned \cap Missing \subseteq S
    /\ \A t \in S : BodyRefs(ExternalBody(t)) \cap Missing \subseteq S

Needed == {t \in Missing : \A S \in SUBSET Missing : ClosedTexts(S) => t \in S}

(* The external types that are found in the first iterations up to the one *)
(* of a number: what is mentioned, then what those mention, and so on.     *)
Found[k \in Nat] ==
    IF k = 0 THEN Mentioned \cap Missing
    ELSE Found[k - 1] \cup ((UNION {BodyRefs(ExternalBody(t)) : t \in Found[k - 1]}) \cap Missing)

(* The fixpoint ends with exactly the transitive closure of the undefined  *)
(* external types: none that nobody mentions, none missing.  Its assertion *)
(* on the number of iterations fails exactly when these types refer to one *)
(* another more deeply than it allows, never because an iteration left     *)
(* open what it found.                                                     *)
EndsWithClosure ==
    phase = "done" =>
       {n.text : n \in {m \in DOMAIN synthetic.types : synthetic.types[m].kind = "External"}} = Needed

PanicsOnlyOnDepth ==
    phase \in {"done", "panicked"} =>
       (phase = "panicked" <=> Found[MaxIterations - 1] # Needed)

ExternalsAreClosure == EndsWithClosure /\ PanicsOnlyOnDepth
=============================================================================
