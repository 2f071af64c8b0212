# Verification of ts_to_rs

ts_to_rs converts TypeScript to Rust: one file, or a directory of files that
import each other. This directory holds TLA+ models of its parts, TLC
configurations that check them, and TLAPS proofs about the registry of generated
types, the pipeline, the module graph, the output writer, main synthesis and control flow. `PROJECT.json` has the same in tabular form: the components, the runs, one
mutation per property, the source lines of every definition, the hazards and the
theorems. Source paths below are relative to the crate's `src/src/`.

To repeat the checks, in this directory:

    tlc -workers 2 -config MCPipeline.cfg MCPipeline     # any .cfg with its module
    tlapm PipelineProofs.tla                             # any ...Proofs module

## 1. The system and its parts

The program is sequential; there are no threads and nothing is persisted but
its output. What makes it hard is not concurrency:

  * state travels. Seven passes hand registries on, fork them per file, start
    new ones per function and merge them again; a name given out by one
    registry is looked up in another.
  * order matters, and part of it is arbitrary: the iteration order of hash
    maps, the order of the files and of their declarations, which callers ask
    first.
  * one fact is decided in several places. The resolver records a type for a
    position, an analyzer decides how a statement is emitted, the transformer
    looks at both and at the tree it just built: the result compiles, and means
    the same, only if they agree.
  * parts fail. A function with an unsupported construct is left out and its
    neighbours go on; a write can fail after others succeeded.
  * fixpoints are bounded by constants (20 rounds of re-exports, a limit on
    the external types, whose excess is a panic), which must be enough where the answer exists and must
    stop where it does not.
  * rewrites meet. The lowering of control flow rewrites code that other rewrites
    have already been at; it is right only if their labels and flags stay apart.
  * the translation has two meanings to keep together: what TypeScript does, and
    what rustc accepts and does.

| component | source | state | operations | what makes it correct | modelled |
|---|---|---|---|---|---|
| synthetic type registry | `pipeline/synthetic_registry`, callers in `ts_type_info/resolve` | items by name, three signature maps, two counters, type parameter scope | register union / struct / intersection / string enum / any-enum, push, scopes, fork, merge | a name handed out denotes what was asked for, for ever | `Naming`, `SyntheticTypes`, `SyntheticRegistry`: all operations |
| pipeline driver | `pipeline/mod.rs` | the shared type registry, the output registry, per-file registries | seven passes | names resolve in the output, failed items leave nothing, passes end | `Pipeline`: all passes |
| external struct generator | `pipeline/external_struct_generator` | items generated so far | fixpoint over undefined names | exactly the transitive closure | in `Pipeline`; monomorphisation is not |
| any-enum analysis | `pipeline/any_enum_analyzer.rs` | a registry per file | one enum per function and parameter | enums exist where mentioned, with a variant for each check | in `Pipeline` and `Unions` |
| type registry, merge | `registry/mod.rs` | declared types | merge, register, external marks | builtins keep their methods, declarations stand | in `Pipeline` |
| type registry, collection | `registry/collection`, `registry/interfaces.rs`, ... | placeholders, then definitions | two passes over declarations | an entry has the members TypeScript gives the declaration | `Collection` |
| type information and resolution | `ts_type_info` | - | TypeScript types to Rust types | the type means the source's | `Collection`, `Converter` |
| type converter | `pipeline/type_converter` | - | declarations to items | the item fits the entry | `Converter`; hierarchies in `Classes` |
| control-flow lowering | `transformer/statements` | rewriting context | try, loops, do-while, switch | the translation does what the source does | `Statements`, `Lowering` |
| narrowing analyzer, narrowing in resolver and transformer | `pipeline/narrowing_analyzer`, `pipeline/type_resolver`, `transformer/statements` | guards, resets, bindings of one variable | classify, narrow, shadow, match | a type holds where it is used | `Narrowing` for null, `Unions` for variants |
| expressions: operators | `transformer/expressions`, `pipeline/type_resolver/expressions.rs`, `transformer/helpers` | - | convert, wrap, compare | same value, accepted by rustc | `Expressions`, `RustExpressions` |
| expressions: members | `transformer/expressions/member_dispatch` and others | - | read, assign, update | effects once and in order | `Members` |
| generator | `generator` | - | print | the text reads back as the tree | in `RustExpressions` |
| classes | `transformer/classes` | - | structs, traits, impls, constructors | same objects, same bodies run | `Classes` |
| main synthesis | `transformer/main_synthesis`, `transformer/mod.rs` | top-level statements | capture, rename, await, order | the program's order is kept, one entry point | `MainSynthesis`, `MainRuns` |
| module graph | `pipeline/module_graph` | origins of exported names | collect, resolve, look up | an import finds the declaration | `ModuleGraph` |
| imports and exports of the transformer | `transformer/mod.rs` | - | `use`, `pub use`, visibility, items one by one | rustc finds what is used | in `ModuleGraph` and `Pipeline` |
| placement | `pipeline/placement.rs`, `pipeline/output_writer/placement.rs` | reference graph | inline, shared, imports | every type has one place and is in scope | `Placement` |
| output writer | `pipeline/output_writer` | files on disk | files, shared module, mod.rs | nothing is overwritten, the crate hangs together | `OutputWriter` |
| command line | `main.rs`, `lib.rs`, `directory.rs` | - | options, directory walk | - | directory mode, in `OutputWriter` |
| functions, return wrapping | `transformer/functions`, `transformer/return_wrap` | a local registry | convert, wrap, merge | what is returned is in the variant of its type | the registry in `Pipeline`, parameters and returns of union type in `Unions` |
| helpers, IR, injections, parser, builtin types | see `PROJECT.json` | none of their own | syntax-directed | - | as far as the modules above use them |

How they meet: the driver parses all files, collects the declared types of all
files in one `TypeRegistry` - each file's resolved with a registry of generated types
that is dropped, while its names stay in the declared types -, then makes an any-enum registry per file, a fork of
the output registry per file for the resolver, and lets the transformer work
per file on those two merged. Every function is converted on a registry of its
own that is merged into the file's when the function succeeds. The file's
registry is merged into the output registry at the end of the file. The module
graph is built before and read by the transformer (which module to `use`) and by
the output writer (`pub use` and `pub mod` lines). The writer takes the items of
the files and the generated items, decides where each generated item goes, and
writes files, a shared module and the `mod.rs` files.

Inside a file, the collection of declarations is read by everything after it. The
resolver records, by source position, the type of each expression, the type
expected of it and the ranges in which a variable is narrowed; the narrowing
analyzer records hints for `??=` and captures by closures. The transformer turns
each item into IR with these records at hand, class by class and statement by
statement, and collects the top-level statements for `fn main`. The generator
prints the IR, deciding the parentheses itself.

## 2. Modules and their correspondence with the code

Generated types and the passes

`Naming` - what the registry of generated types promises: a dictionary from requests to
names and from names to meanings that only grows. `SyntheticRegistry` implements it
(section 6).

`SyntheticTypes` - the registry as a value, each operation as two operators: the
registry afterwards and the name returned (`RegisterStruct`/`StructName` and so
on). The signatures of the code are sorted renderings of the parts, so a
signature is a set of parts. A name is a text, the number in it and whether it is
an impl block's; `_TypeLit3` is the text `TypeLit` with 3. `variant_name_for_type`
and `generate_union_name` are functions given as constants, and not injective:
two types can share a variant name and the code then drops one of them.

`SyntheticRegistry` - one registry under all operations in any order.
`handed` is a history variable, what callers were given. `MCSyntheticRegistry`
supplies requests that share variant names, hints and fields.

`Pipeline` - `transpile_pipeline` as a state machine with the phase, the file, the
item and the request it is at. An item is what the passes ask the registries for
on visiting it. A pass is one or two actions: one request or one item at a time,
then the end of the file. `ItemFails` may happen at any point of an item and
`ParseFails` at any file. `work` is the registry of the pass at hand (`Open`),
`local` that of the function at hand. The collection asks a registry that is new for each
file (`CollectAsk`) and dropped with it (`CollectTypes`): `collected` is what it answered.
The resolver visits functions, variables and classes only (`ResolverAsks`). The fixpoint
ends (`Finish`) or fails its assertion (`TooManyIterations`).

Declarations

`Collection` - the type registry of one file: placeholders for every declaration, then
the declarations in their order, each with the types it mentions resolved against
the registry as it is then; functions and constants after the types. `Declare` and
`Collect` are its actions; the `*Fields`/`Struct*`/`Utility*` operators are the
functions of `registry/collection` and `ts_type_info/resolve`. Aliases of literals with call
signatures only are functions (`CallSignatureFn`); what a declaration extends is recorded by name. `Meaning` says what
members TypeScript gives a declaration.
`Converter` - what the type converter makes of the same declarations afterwards: one
operator per form of alias or interface, and the comparison of the item with the
entry. An interface with properties and methods is a trait, `own`, and a struct beside it, `data`
(`StructAndTrait`). It extends `Collection`, as the converter resolves against its registry.
`Classes` - a file of classes and interfaces, their conversion into structs, traits and
impl blocks (`Convert...`), the rules of rustc that this output can break, and an
execution of constructors, methods and accessors' bodies in both languages. A body is
the names it reads, writes and calls.

Functions and expressions

`Statements` - statements of both languages, the lists of them up to a depth (`Lists`),
and which jumps leave a list (`Exits`), by which it says what rustc insists on: E0695, E0267,
E0426, E0004 and closures that do not return are a `Wrong` exit or one that leaves the function.
`StatementRuns` - an interpreter for each language: conditions and switched-on values
are answered from outside, so a body runs against every sequence of answers. A variable that is
switched on is answered once, a call whenever it is evaluated: by guards (`TryArms`) and
conditions (`IfCase`) again. These
rules are TypeScript's and Rust's and not in the repository; their `map` entries are
marked external, but for the shape of the statements.
`Lowering` - the three rewriting walks, the conversions of try, do-while, `for`
and switch, and a machine that builds every small function body. A walk is a recursive
function over `Walks` (a list and a rule), the conversion one over lists (`Lowered`), so
that both can be proved about.
`LoweringRuns` - runs a function and its translation and compares them (`LoweringPreserves`),
but for the forms of section 7.

`Narrowing` - one variable `x: number | null` in a function. `Resolve` classifies the
resets after each `x ??= d` (the analyzer's `classify_reset_in_stmts` and below) and
annotates each statement with the narrowing the resolver believes in; `Transform` emits the
shadowing bindings, matches and defaults. Both programs are then executed, and the
errors of rustc are computed by binding: what an occurrence of `x` was written for
(a number, an `Option`, something mutable) against what binds it.

`Expressions` - operators, conditions, defaults, negations, `typeof` and indexing over
numbers, booleans, strings and optional numbers: the types and expectations the
resolver records, the conversion with all its decisions about `Some`, `clone`, `&`, casts
and constants, and the meaning of the source. An action wraps one more operator
around the expression.
`RustExpressions` - the IR of expressions: what the generator prints, with its rules for
parentheses, how rustc reads the text back, the types it gives the tree, and its
value.

`Unions` - a parameter of a union type or of type unknown: the variants its checks call
for (`AnyVariants`), what the resolver takes it for at each statement (`Resolved`), the `if let`,
`match` and `let x = match` the transformer makes of tests, conditionals and
`switch (typeof x)` (`ConvertIf`, `SwitchArms`), and the variants put around what is returned
(`Wrap`, leaf by leaf as `return_wrap` pairs them). `Check` is what rustc says of the types,
moves and matches; source and code are executed for every argument (`Run`, `Execute`).

`Members` - `x.m`, `x.m = e`, `x.m += e`, `x.m++`, `x.m ??= e` and so on, with `m` a field, an
element or a pair of accessors, of an instance or static, and the receiver a variable, a
field, a getter, a call or an element. A step converts one statement and runs it in both
languages.

`MainSynthesis` - the top-level items of a module: which are captured for `fn main`,
which stay, what becomes of a function called `main`, where `.await` is put. Expressions
are trees of any depth; the analyses of them (`ContainsAwait`, `Conv`) are recursive
functions over the set `Exprs`, whose elements have a `Height`, so that they can be proved
about. `MainRuns` executes both programs; the log of effects is what is compared.

Modules and files

`ModuleGraph` - `ModuleGraphBuilder::build` as an iteration over the files in an
order that is fixed for a run and arbitrary otherwise, what TypeScript means by the
exports (`Links` from a name in a file to others, `Chain` and `Origins` along them), and what Rust
makes of the `use` lines (`RustLinks`, `RustOrigins`).

`Placement` and `OutputWriter` - the reference graph and the placement as functions
of the project, the writes as actions in their order. Any write may fail.

`MC...` modules give the constants for TLC, `...Proofs` modules the theorems of section 6. Definitions introduced by "Mutation:"
are mistakes someone could have made in the definition that follows (in it or
for it); `PROJECT.json` says which property notices each.

## 3. Runs

| run | states | question | answer |
|---|---|---|---|
| `registry` | 257,280 | do names denote what was asked for, whatever is registered when? is the registry a dictionary that only grows? | yes: structs and intersections always, unions and string enums if their texts are apart (`NamesApart`) |
| `pipeline` | 2,749 | do the names stand through forks, merges, failures and a registry that is dropped; does the external fixpoint give the closure; when does its assertion fail? | yes, but for numbered names (section 7) |
| `collection` | 630,987 | does a finished entry have the members TypeScript gives the declaration, whatever the order; does the emitted item fit the entry? | yes, except for section 7 |
| `classes` | 89,573 | does what becomes of hierarchies compile, construct the same objects and run the same bodies? | yes, except for section 7 |
| `lowering` | 696,625 | does the translation of control flow do what the source does? | yes, except for section 7 |
| `narrowing` | 270,006 | do analyzer, resolver and transformer agree about a nullable variable, and does what compiles compute the same? | yes, except for section 7 |
| `unions` | 25,314 | is x what the resolver takes it for; does a test on a union of two compile; does what compiles do what the source does? | yes, except for section 7 |
| `expressions` | 3,891 | does the printed text read back as the tree; does it type-check; has it the value of the source? | yes, except for section 7 |
| `members` | 65,327 | are receivers, accessors and right-hand sides run once and in order, and do the objects agree? | yes, except for section 7 |
| `main` | 925,473 | do top-level effects keep their order, is there one entry point, do names and awaits stand? | yes, except for section 7 |
| `module_graph` | 222,096 | does every import find its declaration, in every order, and does building end? | yes, except for section 7 |
| `output` | 42,312 | one place per type, names in scope, no overwriting, `mod.rs` files that fit? | yes, under the assumptions of section 4 |

The properties, by run:

  * `registry`: `IInv`, the invariant of the proofs, type correctness among it;
    `KeepsDictionary`, the specification of `Naming` under the refinement mapping;
    `NamesDenote` for the names of unions and string enums, which the dictionary leaves out;
    `ScopesNest` for the type parameters of nested generic declarations.
  * `pipeline`: `EveryNameDefined`, `UnionNamesDenote` and `OnlyCountedOutput` relate
    the output to the emitted items, `CollectedUnionsDefined` to the names that the collection left in
    the declared types; `ResolverAnswersStand` a file's fork to what
    the resolver was told; `DeclaredTypesStand` (action property) and
    `BuiltinMethodsStand` are about the shared registry; `ExternalsAreClosure` about the fixpoint: it ends with the closure, which is
    defined declaratively, or its assertion fails, for types nested deeper than it allows and for no
    other reason.
  * `collection`: `RecordedAsDeclared` compares the registry with what TypeScript says of
    each declaration, independently of the order, what it extends included; `EmittedAsRecorded` the emitted items
    with the registry.
  * `classes`: `ClassesCompile` asks of every file, and of every use of its classes -
    constructing one, reading its fields, calling a method on it or on it seen as a
    parent or an interface - that rustc accepts it; `ClassesBehave` that the output and
    the fields afterwards are those of TypeScript.
  * `lowering`: `LoweringPreserves` compares logs and endings of source and
    translation; `JumpsAreAccepted` says that rustc takes what try and loops become: every
    flag and label is there where it is used, and no bare jump is left in a labeled block.
  * `narrowing`: `HintsExact` - a shadowing binding is chosen for `x ??= d` where nothing
    later makes x null again, and only there; `NarrowingAgrees` - what the resolver takes
    for a number is bound to one; `AssignedIsMut`; `CompiledCodeAgrees` - where the code
    compiles, source and output print the same for every argument.
  * `unions`: `BeliefsSound` compares what the resolver takes x for, at every statement that is
    reached, with what x is; `UnionsBehave` what is done and returned in both languages;
    `UnionsCompile` asks rustc, for one test on a union of two (`Plain`): without it the
    second might be about nothing.
  * `expressions`: `OperandsStayTogether` (printer against rustc's grammar, in both
    directions: where it is wrong is named, and wrong everywhere it is named),
    `ExpressionsCompile`, `ExpressionsPreserve`.
  * `members`: `MembersPreserved` compares effects, values and objects.
  * `main`: `EffectsInOrder` compares the logs; `OneEntry`, `NamesResolve`, `AwaitsStand` are
    what rustc asks of the entry point, of names and of awaits.
  * `module_graph`: `ExportsResolved` is `OriginsMeanTheSame`, at every moment, half way
    through an iteration too, and `NothingMissing`, in the end;
    `UsesReachTheDeclaration` holds in the end; `Terminates` is about the bound of 20. The
    proofs showed what small programs had hidden: both need `InReach` and the forms of
    section 7, and programs of four files with two stars are in the run for that.
  * `output`: `NamesInScope` for the generated types; `DeclaredModulesExist` at every
    moment, so after a failure too, thanks to writing the deepest directories first;
    `CrateComplete` in the end; `WrittenStays` (action property).

Properties of the form "the output is right, or a named form occurs" are the rule in the
translating modules. The forms are operators on the source; each is listed with its
reason in section 7, and the comments of the modules say what goes wrong. They are
narrow on purpose: a form that covers more than the wrong cases would hide
mistakes, so where it was cheap (`OperandsStayTogether`, `HintsExact`) the converse is
part of the property.

## 4. Bounds, and why they are enough

  * `registry`: two or three requests of each kind, chosen to collide wherever two
    requests can: same variant names in other members, same fields with and without
    methods, same hint with other values, an any-enum with the text of a hint.
    A collision takes two requests, a counter matters from the second number on.
    `MaxDepth` = 2 is the nesting of generic declarations: one saved scope under
    another. The proofs have no bounds.
  * `pipeline`: nine programs of two files with one or two items, made of functions
    and a class that ask for the same and for different things, files that declare a
    builtin again, and a chain of external types with a cycle, a function among
    them and a type whose name is also a generated enum's. Effects of one file on
    another need two files, of a failed function on its neighbour two items. `MaxIterations` is 3 (the
    code's is 64), and the chain takes four iterations where nothing of it is defined already, so runs end in
    both ways. The proofs are for any number.
  * `collection`: files of up to `MaxItems` = 3 declarations, in every order, from a pool
    with each form of declaration and of type expression, each referring to others by
    name. A reference, what it refers to and what that refers to are three; a forward
    reference takes two. Five interfaces of the pool extend one or two others.
  * `classes`: files of up to three classes and three interfaces, from five pools, each
    about one thing: state and constructors, receivers and overrides, abstract
    parents, interfaces, static members. Three classes make a chain with a middle or a
    parent with two children.
  * `lowering`: bodies of up to four steps (`MaxSteps`); a step puts a conditional
    jump before the body, a jump after it or one of eighteen constructs around it,
    the last one a construct. Nesting of three and a jump across two of them occur.
    `MaxAnswers` = 4 answers are enough for one full turn of a loop and a part of the
    next around a condition; a run that wants more is cut, and both sides must
    have been cut at the same point. `MaxTurns` stops a loop that asks nothing. `MaxDepth`
    is no restriction: it is the depth of the lists that `Exits`, `Lowered` and so on are functions of,
    and `BoundsAssumption` asks that it is large enough for every body and its translation
    (a body of n steps is at most 2n + 1 deep, and lowering takes a statement to three inside
    each other). `Names` are the labels and marks of the source.
  * `narrowing`: 90,002 functions: two statements in a row, each simple (an assignment, a
    default, an update, a read) or an `if`, a loop or a block around one to three others, also
    after a default or around a closure and its call; for every argument in
    {null, 0, 7} and both values of the flag. A default, a reset and a read are three
    statements, and each function ends with a read.
  * `unions`: 8,438 functions, those of a larger pool that TypeScript accepts: unions of two
    and three and unknown; tests by typeof and instanceof, negated, joined, in sequence, nested,
    after an else, in a block, in a conditional and as a switch with shared, empty and
    misplaced cases; bodies that use, leave, both or neither. A complement takes
    three members to be more than one type, and a shifted leaf two returns.
  * `expressions`: up to `MaxWraps` = 2 operators, methods or conditions around a variable,
    with every other kind of operand beside it, for all values of the variables, as the
    value of a declaration with and without a type. A pair of parent and child decides
    parentheses, types and expectations. With 3 (90,715 states) `OperandsStayTogether` and
    `ExpressionsCompile` were seen to hold too.
  * `members`: two statements in a row over one declaration of `m` (`MaxStatements`): a write
    and what a later read sees of it. Right-hand sides nest once.
  * `main`: every module of up to three items from 41, which declare a main of each kind,
    functions, async ones, literals, initialisers with effects, awaits, classes; any item
    may fail to convert. A declaration, an effect and something between them are three.
    `Exprs` is what the items hold, with all parts and all that becomes of them. Each exception
    in the antecedents of the four properties is needed: without it TLC finds a violation.
  * `module_graph`: four files with one export each (chains through all four, and
    circles), one of them possibly with two stars (a circle and a way out of it); three files with two
    exports, with aliases, lists and imports, or with names of their own that hide others. Each
    set of programs is closed under exchanging files, so that one iteration order
    stands for all. `MaxRounds` is the code's 20.
  * `output`: three files, three generated types, every way to mention each other
    in one layout (any of: nobody, one file, two files, another type); every layout
    of three files in three nested directories, one of them possibly called
    `shared_types`, with three sets of items.

Assumptions a run makes of its inputs are conjuncts or antecedents with names, so
that they can be seen and tested; each corresponds to a gap of section 7:
`NamesApart` and `UnionsApart` (unions with other variants have other names, pools
of names do not meet), `HintAssumption` (no string enum is called `TypeLit` or
`Intersection`), `TypesApart` (one definition per type name), `ImplsAtHome` (impls
are for types only one file mentions), `PathsApart` (no two files at one path, none
called mod or index), `InReach` (a declaration is no further than the bound), `NoGaps` (no directory with only directories in it). The
constants contain instances on both sides of most of them. Programs are well typed
where TypeScript's checker would reject others (`WellTyped` of `Classes` and `Members`).

What the models of the two languages leave out: numbers are small integers (no width, no
fractions, NaN, -0 or negative bits), arrays are read within their bounds, the
borrow checker is not modelled (moves, clones and borrows are), and printing is a
log of values.

## 5. Fairness

`ModuleGraph` has `WF_vars(Next)`: the program is one thread that goes on
as long as there is a next step; nothing else is assumed. `Pipeline` has none: its passes are loops over
lists and its fixpoint is bounded, so that it ends is plain; what it ends with is `ExternalsAreClosure`. Deadlock is not checked where the program ends (`done`, `panicked`,
`failed`), and where a body or a file is complete when it has reached its bound.
`registry` checks deadlock: its callers can always ask again. The other modules
have safety properties only and no fairness: a conversion is a function, and that it
returns is not in question.

## 6. Proofs

Eight modules of proofs, for all values of the constants. The modules they are about have
no RECURSIVE operators: what has to be repeated is a fold, a recursive function, or an
action.

### The registry: `SyntheticTypesProofs`, `SyntheticRegistryProofs`

| theorem | says |
|---|---|
| `InvariantHolds` | `Spec => []IInv` |
| `TypeCorrect` | `Spec => []TypeOK` |
| `StructNamesDenote` | `Spec => []StructRefsDenote` |
| `NumberedNeverRewritten` | `Spec => NumberedItemsFrozen` |
| `NamesStand` | `Spec => []NamesDenote`, for unions and string enums |
| `ScopesAreNested` | `Spec => []ScopesNest` |
| `RegistryIsDictionary` | `Spec => KeepsDictionary`, the specification of `Naming` |
| `ForkRoundTrip` | merging a fork back at once changes nothing |
| `ForkMergesBack` | merging a fork back after registrations keeps all that parent and fork have numbered, and a sound registry |

Assumptions: `NamingAssumption` (naming functions are functions into texts),
`RequestAssumption` (types of the requests) and `HintAssumption`. Without the
last, a string enum hinted `TypeLit` could take the number of a struct: its
numbers come from the other counter.

`IInv` is in two parts. `NumberedInv` is for structs and intersection enums:
`StructRefsDenote` is not inductive, because from a state in which a signature map has a wrong
entry, or an item has a number its counter has not reached, the next request breaks
it. It adds `Sound(reg)` - each signature's item has exactly the signature's parts,
each number in use is below its counter - and that each answer is still on record
under its signature. `NamesInv` is for unions and string enums, under `NamesApart`: a union's
signature is on record with the name its variants make, and what stands under such a name has
those variants, whichever of several unions of that name came first; a string enum's
values stand under its name. Without it nothing says that the
item a union's name refers to was put there by a union.

The argument has one lemma per operation, about registries
as values (`StructSound`, `EnumSound`, `StringSound`, `UnionSound`, `PushSound`, ...): it
leaves a sound registry and `Keeps` what was numbered. `NextKeeps` has one step
per action, which cites the lemma of its operation; `OthersKeepNames` and `GrowsAnswers` do the
same for the names. As the lemmas are about
values, `ForkMergesBack` follows from the same ones: a fork is sound,
registrations keep, and a registry merged over one that it keeps overwrites
nothing numbered. That is also the exact condition the collision of section 7 lacks:
two registries neither of which keeps the other.
`ScopesNest` is inductive with the typing of `saved`.

`RegistryIsDictionary` is the refinement. The mapping (end of `SyntheticRegistry`) takes the
dictionary's names to the answers for structs and intersections in `handed`, and its
meanings to the numbered items. A step of the registry is then one of three
(`DictionaryCases`): nothing the mapping sees changes (`StutterStep`: scopes, stubs, unions and
string enums), a known request gets the name it has, or a new request gets a new
name with the parts it asked for (`AskStep`). That an old entry never changes is what
`Sound` gives.

### The pipeline: `PipelineProofs`

For any number of files and items, any requests, any failures:

| theorem | says | invariant besides `TypeInv` |
|---|---|---|
| `TypesHold` | `Spec => []TypeInv` | |
| `DeclaredTypesHold` | `Spec => DeclaredTypesStand` | |
| `BuiltinMethodsHold` | `Spec => []BuiltinMethodsStand` | `BuiltinsKept` |
| `ResolverHolds` | `Spec => [](ResolverInv /\ ForksSound)` | |
| `ResolverAnswersHold` | `Spec => []ResolverAnswersStand` | `ResolverInv`, `ForksSound` |
| `NamesHold` | names stand where they will be merged from | `AnyInv`, `NamedInv` |
| `EveryNameHolds` | `Spec => []EveryNameDefined` | `NamedInv` |
| `CollectedUnionsHold` | `Spec => []CollectedUnionsDefined` | `CollectNames`, `CollectedInv` |
| `UnionNamesHold` | `Spec => []UnionNamesDenote` | `UnionInv`, `NamedInv` |
| `OnlyCountedHolds` | `Spec => []OnlyCountedOutput` | `CountedInv` |
| `ExternalsHold` | `Spec => []ExternalsAreClosure` | `ExternalsInv`, `DepthInv` |

None of these properties is inductive: each speaks of the output, at the end, and what makes it
true was done passes before in another registry.

  * `TypeInv` says which registries there are in which phase (`Control`) and that each of
    them is `Good`: well typed, every name of the three signature maps defined, unions named by their
    variants. All registries of the next state are `Derived`
    from those of this one - new, forked, registered in, merged - so that one
    lemma per operation does for all the passes (`Derivations`).
  * `ResolverInv` - each answer is what the registry of that file has on record for a request of
    the file, and no request the resolver is past is unknown to it. `ForksSound`
    carries over that this record says what was asked for.
  * `AnyInv`, `NamedInv` - an any-enum is in the registry of its file as soon as the analysis is past its parameter; the
    transformer's registry has all that the two earlier passes found in
    the file (`FileMerged`), so an answer given again there is known; a pending answer is in the registry that
    was asked, the function's or the file's (`PendingNamed`); what emitted items name
    is in the output, or in the registry that will be merged into it
    at the end of the file (`HandedNamed`). An item that fails drops its pending
    answers and its registry together, which is why the two invariants need to be about the same registry.
  * `UnionInv` - every registry has the unions of `NamesInv` above, under `UnionsApart`. A merge keeps
    that, although it overwrites by name, because what overwrites has the same variants.
  * `CountedInv` - every struct and enum of a registry is `Cited`, was asked for by someone who counts;
    what is in the function's registry by the pending item alone.
  * `ExternalsInv` - there is no external type before the fixpoint; in it each is needed, stands under its
    own name and has its own members; and it does not end while one is undefined (`ExternalTypesHold`).
  * `CollectNames`, `CollectedInv` - what the collection was told for a union is the name its variants make, and the request is
    one of the item's signature. The registry that said so is gone, so the name has to be found again:
    an item that is emitted has asked for all of its signature a second time, and where the name went then - the function's
    registry or the file's - it is merged from. This is true of unions, whose names depend on the request alone, and of no
    other kind.
  * `DepthInv` - after the first `rounds` iterations the external types are `Found[rounds - 1]`: those an item mentions, those such a type
    mentions, and so on as often. `Found` stops growing where it is closed (`FoundGrows`), so that the iteration of the limit
    finds something new exactly if the closure is deeper (`DepthDecides`).

Assumptions: `PipelineAssumption`, the types of the constants, and of the builtin types that their names are plain
(without a number), that their registry is `Sound`, `Named` and `NamedByVariants`, and that it
has no external types yet. The loader makes it with the registry's own operations
from an empty one, for which this holds.

### Modules: `ModuleGraphProofs`

For any number of files, any program and any order of iteration, any `MaxRounds`:

| theorem | says |
|---|---|
| `GraphHolds` | `Spec => []GraphInv` |
| `ExportsHold` | `Spec => []ExportsResolved` |
| `UsesHold` | `Spec => []UsesReachTheDeclaration` |

The table of origins is filled while it is read: an iteration sees entries of this
round in some files and of the last one in others. What can be said of it at every moment is
`Right`: an entry lies on the chain of its name (`OnChain`), has a named export behind it (`Rooted`),
means the same declarations (`Same`), and is the declaration itself where nothing on the chain is
provisional (`Exact`). One pass over a file's exports keeps it (`PassRight`), in
whatever order the files come, as `PassStep` and `FollowedPasses` describe the fold over the exports by what
each entry comes from, and not by its order.

That nothing is missing in the end is progress and not in `Right`: after round k every
name whose declaration is within k links is found (`FoundUpTo`, `PassFinds`). If the
loop ends early, a round in which nothing changed has shown that every file's pass is the identity
(`Unchanging`), and finding is then inherited by k + 1 without another round, so by every k: this is
why `break` on `!changed` loses nothing, even though files were visited one after
the other while the table was in use. If the bound ends it, the declaration has to be
within `MaxRounds` links, which is the antecedent `InReach`.

`UsesHold` follows the `use` lines in Rust. A line stays on the chain (`UseStays`), so what it
reaches is at most the declaration (`RustSound`). That it reaches it is by the shortest
counterexample (`RustReaches`): a link further the chain is strictly smaller, unless it
is circular. In a circle the argument fails, and so does the code: section 7.

That a chain, which the model computes by following links `Cardinality(Nodes)` times, is closed under
links is the pigeonhole argument of `ClosureIsAll`. Assumptions: `ProgramAssumption` - finitely many
files and names, orders with each file, and a declaration is exported under its own name.

### The output: `OutputWriterProofs`

For any layout, any items, and a failure of any write:

| theorem | says |
|---|---|
| `DiskHolds` | `Spec => []DiskInv` |
| `WrittenStaysHolds` | `Spec => WrittenStays` |
| `DeclaredModulesHold` | `Spec => []DeclaredModulesExist` |
| `CrateCompleteHolds` | `Spec => []CrateComplete` |
| `NamesInScopeHolds` | `Spec => []NamesInScope` |

`DiskInv` describes the disk by the progress of the run: what is there was written (`Written`), what was
written is there with its content (`Present`), if paths are apart. `Progress` says that
directories are finished from the deepest up, none before those below it. With that a `mod.rs` declares what exists
whenever the run stops (`DeclaredOnDisk`): a directory is declared because there is a
file further down, and then its own `mod.rs`, written before, has at least one line. `CrateComplete`
needs the other direction, from the root of the graph down (`RootTyped`, `GraphBelow`, `DoneComplete`).
`NamesInScope` is about the placement: a type that is mentioned is in the one file that
mentions it or in the shared module (`MentionedIsPlaced`), an impl with its type (`ImplPlaced`), and a file
imports what it mentions and does not hold.

Assumptions: `ProjectAssumption` - types of the constants, `mod` is a possible name but not one of the shared module's,
and one of the shared module's names is free (the code counts up until it is).

### Main synthesis: `Recursion`, `MainSynthesisProofs`

For any modules, of any length, with expressions nested to any depth, any library, any failures:

| theorem | says |
|---|---|
| `InvHolds` | `Spec => []Inv` |
| `OneEntryHolds` | `Spec => []OneEntry` |
| `NamesResolveHolds` | `Spec => []NamesResolve` |
| `AwaitsStandHolds` | `Spec => []AwaitsStand` |

The lemmas `Exists` and `Induct` of `Recursion` say nothing of this program, and are not counted among its theorems: they are the recursion and the
induction the others need, here and in `PipelineProofs` and `LoweringProofs`. `Recursion` is about any set `S` with heights `H` and any `Step` that looks at lower elements only:
a function with `f[x] = Step(x, f)` exists, and a subset of `S` that has an element whenever it has all lower ones
is all of `S`. `MainSynthesisProofs` instantiates it four times: for the two analyses of
expressions, for their conversion and, with lengths for heights, for the loop over the
declarators of a `var`. Each function then has a lemma that unfolds it once (`ContainsAwaitIs`, `WithinIs`, `ConvIs`,
`TakenIs`), and induction gives what the properties need of trees:

  * `ConvComesFrom`: every part of a converted expression is a part of the source
    unchanged, a call under its new name, or an await put over a call of `main`. What was awaited in the source
    was converted with `quiet`, so nothing is awaited twice.
  * `ConvAwaits`: there is an await after the conversion only if there was one before, or `main` is called
    and async. This is what `has_top_level_await` and `AsyncRename` together have to foresee.
  * `TakenInOrder`: the loop takes all declarators that are captured, each after those before it.

None of the three properties is inductive, as each is about the items alone. `Inv` ties them to the history `kept`:
every statement in `mains` comes from a statement or captured declarator of `kept`, and the lets of all captured
declarators before it stand before it (`MainsInv`); `items` is exactly what `kept` and the library
were turned into, with `fn main` at the end (`ItemsInv`); and what is in `kept` is of the
module, whole or, where a declarator failed, in part (`KeptInv`).

`OneEntry`: if the module runs, its own `main` would have been the user's main of
`detect_user_main`, hence renamed (`ExecutableHasNoOwn`); if it does not, no `fn main` is made, and a
module declares `main` once. `NamesResolve`: functions and literals are never captured, so their items are there
(`Emitted`, `NamesThere`); any other variable that is read was captured, so its let stands before (`DeclaredBefore`).
`AwaitsStand`: where `main()` is awaited, the `main` that was converted is the async one that `detect_user_main`
saw (`KeptMainAsync`), and a function that came out with an await is async (`FnSource`).

Assumptions: `ExprAssumption` - what expressions there are, and that each is deeper than its arguments;
`ModuleAssumption` - what TypeScript asks of a module (a name is declared once, only async functions await),
that the library is apart from it and does not call `main`, and that `Exprs` has what its elements are converted to.

### Control flow: `LoweringProofs`

For bodies of any length and depth, from any jumps:

| theorem | says |
|---|---|
| `LowerExits` | without a switch or a finally that jumps, what leaves the translation of a list of statements leaves the list |
| `ShapeHolds` | `Spec => []Shape` |
| `JumpsAreAcceptedHolds` | `Spec => []JumpsAreAccepted` |

`JumpsAreAccepted` speaks of one function; what can be proved by induction is about lists, and
is `LowerExits`: the jumps that leave the translation are among those that leave the source. As
rustc's rules are said by `Exits` - a label that is not in scope leaves the function, and a bare break in a
labeled block or a jump out of a closure is the exit `Wrong` - this covers E0426, E0695 and E0267 at once. It is
proved for every depth n (`3 * n <= MaxDepth`), by induction on it, one lemma per conversion:

  * `RewriteExits` is about `TryBodyRewrite` and `rewrite_do_while_body`: what leaves the rewritten list left the old one
    and is not one of the jumps that were to go (`Gone`), or it is a break to the walk's own label, and then the walk
    replaced something (`Added`). Its own induction is over the depth of the list with the depth in loops quantified inside, because the
    walk's rule changes as it goes down.
  * `HitsBare` is the converse that the flags need. `convert_try_stmt` emits `if _try_break { break; }` after the
    block where the walk saw a bare break; this is legal where the try stands because the jump the walk saw did leave
    the body, so the source had it there too. For that a hit at depth 0 must be an exit of
    the list (`MetBare`), which fails in a block of another label - where it is `Wrong` instead, and the source has none.
  * `Within...` say where a list of generated statements lies and what leaves it, part by part. From these
    `LowerForExits`, `LowerDoWhileExits` and `LowerTryExits` follow; `KeptExits` is for statements that keep their form, and
    `MarksExits` for a `finally` of marks, the body of a closure.

`Shape` is the invariant that makes this a property of the machine: after k steps the body is
a list of the source at most 2k + 1 deep (`NextShape`; `ConstructsNest` has one case per construct). `JumpsAreAccepted`
alone is not inductive, and says nothing of depths.

The functions are unfolded by `Recursion`, which the module instantiates seven times: for the lists at each
depth (of all statements, and of the source's and the output's), the lists within a list, `Exits`, `Lowered`, and the two walks.
A list's height is the least depth it occurs at (`Height`), a walk's that of its list.

Assumptions: `BoundsAssumption` - `MaxDepth` is enough for what the machine builds - and `SourceAssumption`,
which says what the jumps and constructs are and that `Names` has the labels and marks in them. A switch
is left out because `JumpsAreAccepted` does: what leaves it is not always what left the source (section 7).

### What is not proved

Model-checked only:

  * `Terminates` of `ModuleGraph`: liveness under fairness, out of the prover's reach. The part that matters - what the end brings - is `ExportsHold`.
  * `EffectsInOrder` of `MainRuns`, `LoweringPreserves` of `LoweringRuns`, and everything in `Collection`,
    `Converter`, `Classes`, `Narrowing`, `Unions`, `Expressions` and `Members`. These interpret or rewrite programs of any
    depth with RECURSIVE operators, which the prover does not take. Where an interpreter runs functions that call each
    other there is also no height to do an induction over; where a translation follows the
    tree, `Recursion` shows the way, as in `MainSynthesis` and `Lowering`, at the price of writing the operators
    as functions over a set of trees.

## 7. What the code does not do, as far as the models found it

Registries that were started separately give the same numbers: the any-enum registry of a
file, the fork the resolver gets and the local registry of every function
(`transformer/functions/mod.rs:52`) each count for themselves, and `merge`
(`pipeline/synthetic_registry/mod.rs:438-454`, called at `pipeline/mod.rs:154`) inserts by name. Two
functions of one file with a type literal each therefore share `_TypeLit0`, and the
items of the first hold the struct of the second. The comment at line 452, "Take the max
counter to avoid name collisions", is true of later registrations only.
`StructNamesDenote` of `Pipeline` states what is lost; as an invariant of `MCPipeline.cfg` TLC
finds it violated.

The declarations of a file are resolved against a registry that is dropped at once
(`registry/mod.rs:853-856`). Its names stay in the declared types, and with those they reach other items. For unions
`CollectedUnionsDefined` says that another registry defines them, if the declaration is emitted. A numbered
name, of a type literal or an intersection, may mean another item by then or none, and of a declaration that
fails to be converted even a union's name may be left without an item.
The resolver does not visit interfaces and aliases (`type_resolver/visitors.rs:73-79`), so that the
transformer is the only one to ask for their types again.

Besides it the models name, as antecedents of the passing properties, what the code
does not carry over. Several contradict something the repository says of itself;
these are marked with what it says.

Registry and pipeline. Intersections with the same fields share one impl block, and the
methods of the first are lost (`ts_type_info/resolve/intersection.rs:155`). Names of
any-enums of different files, and of unions with other variants,
are assumed apart (`UnionsApart`); a type parameter's name anywhere suppresses an
external struct of that name everywhere (part of `Excluded`); a builtin struct
redeclared as something else and then as a struct loses its methods, as does one whose name a union's enum is given in a file
(`registry/mod.rs:912`); of
two files that declare a name the last wins; one file that does not parse ends
the run.

Collection (`Gap`):

  * `LooksAhead` - what has to look inside another declaration sees it only if it was
    collected before: an alias sees the types before it, anything but an alias and
    the constants sees placeholders. An alias of a later type copies the empty
    placeholder (`registry/collection/decl.rs:144`), though `placeholder.rs:18-19` says
    placeholders exist so that references forward resolve.
  * `Stale` - a utility struct that an earlier declaration asked for stays without fields.
  * `Overloaded`, `LosesAliasParams` - an alias of a literal with only call signatures is recorded as the
    function of the longest one, with that signature's type parameters and not the alias's
    (`registry/functions.rs:139-188`).
  * `NotAnObject` - an alias of what has no fields is left as an empty struct (TODO:843,
    I-140).
  * `SharedField`, `OneField` - intersections with a common field, or with a part that is
    neither a literal nor a declared name.
  * `UntypedMember`, `ParameterProperty`, `OptionalConst`, `PickOfUtility` - members without
    annotation are dropped, parameter properties are not fields of the entry,
    optional fields of an annotated constant are not optional, `Pick` and `Omit` take a name only.
  * `FromGap` - what is looked into was itself recorded so.

  Not modelled: index values by `keyof typeof`, type parameters of methods, values of `as const`,
  duplicate names and overloaded functions, imported names that are opened, members looked up in what is
  extended (names are recorded and compared, and no declaration of the pool opens an heir), and the generated enums that
  `Finish` puts in the registry (`Pipeline` follows those).

Converter (`EmissionGap`), besides those of Collection: `UnrecordedUnion` (a union is emitted as
an enum and recorded empty), `TagRepeats` (entry and item choose different tags),
`LosesParams` and `ParamsUnrecorded` (type parameters of enums and traits, of aliases without
members), `StaysGeneric` (parameters that were substituted), `OddIntersection` (parts that are
no names and no literals), `TraitsTogether`, `MethodsOfLiteral`, `AliasOfTrait`,
`FieldsTypeAhead`, `TypeOfFunction`, `ForgetsOptional`, `MixedCalls` (call signatures). Each is
explained at its operator. Two are about interfaces:

  * `SplitsAsRecorded` - one with properties and methods is recorded under its name as a struct with both and emitted as a
    trait of that name and a struct `{Name}Data` with an impl (`type_converter/interfaces.rs:291-378`). Nothing in the code
    builds a `{Name}Data`: what is built after the entry names a trait. The property says that the two items together have what
    the entry has.
  * `Inherits` - the struct of an heir has the fields of its parents too, those it declares again twice
    (`interfaces.rs:93-131`), and their methods not; the trait made of call signatures
    drops the parents. The entry has the heir's own members and the names of the parents.

Classes, by operator. What rustc rejects:

  * `InTheMiddle` - a class that is extended and extends loses its parent.
  * `SuperOfAbstract`, `AbstractState`, `OwnMethod`, `StaticOfAbstract` - children of abstract
    classes: `super(...)` stays, fields of the parent are not there, methods
    of their own end up in the impl of the trait, statics get a self. No child of an abstract class
    that TypeScript accepts can be constructed.
  * `AssignsTwice`, `Unassigned`, `ReadsThis`, `AssignsNothing`, `Redeclares` - constructors
    become one struct literal, of the fields they assign, each once, with no this to read.
  * `CallsWriter`, `InterfaceWrites` - a method gets `&mut self` from its own
    assignments only, and a trait's method from the interface, which has none.
  * `PartlyItsOwn`, `ExtendsInterface`, `TwoTraits`, `NotItsOwn`, `Upcast` - interfaces whose methods
    are inherited, extended or shared, and values seen as their parent.
  * `WithoutNew` - a class without constructor has no `new`.

  What compiles and does something else (`Losses`): static blocks never run; `super(...)`
  assigns the parent's fields in order and its constructor does nothing more (`DoesMore`); `this.x +=`
  in a constructor assigns (`AddsInConstructor`); an override that writes where the parent's does
  not, or the reverse, leaves two methods, one of which a call picks by its receiver
  (`WritesUnlikeParent`); a constructor that assigns nothing is `todo!()`.

Lowering (`LosesNothing`), by operator:

  * `ForSkipsUpdate` - `continue` in a `for` that becomes a `loop` skips the update.
  * `CaseLosesJump` - a case drops its own `continue` and labelled `break`, and a
    `break` with something after it.
  * `DefaultRunsEarly` - in a chain of ifs a default that is not last runs
    whenever it is reached.
  * `AsksAgain` - what is switched on is copied and not bound. In a chain of ifs every condition has a copy
    (`statements/switch.rs:763-771`), in a match on numbers every guard (`statements/switch.rs:52-64`, 702-706), so a call
    is made once for each case that is tried, and a later case compares with another answer.
  * `EnumStopsFalling` - no fall-through on enums (`statements/switch.rs:246`).
  * `DefaultTakesOthers` - empty cases at the end go to the default; a typeof
    switch gives an empty default an arm of its own.
  * `FinallyRunsLate`, `FinallyWaits` - a finally is a guard and runs at the end of the
    list its try stands in, after what follows the try.
  * `FlagCaptured` - a try in a try shadows the outer one's `_try_result`
    (`statements/error_handling.rs:91`).
  * `ContinueCaptured` - `continue L` from an inner do-while leaves the inner
    do-while's block.
  * an unlabelled `continue` in a wrapped switch, or a jump out of a finally, is
    rejected by rustc (E0695, E0267); `LoweringPreserves` asks for acceptance.

Narrowing:

  * `FlattenedBinding` - a bare block is flattened: `{ let x = 3; }` binds for what follows
    (`statements/mod.rs:228`).
  * `NestedDefault` - a default given in a nested block is bound there and lost after it.
  * `MutatedBinding` - an assignment in an arm, or after `if (x === null) continue` in a
    loop body, goes to the new binding and is lost with it (`control_flow.rs:348`). TODO:43
    (I-177) says of the second form that nothing needs to be carried outwards.
  * `NarrowedDeclaration` - a narrowing covers another x declared in its region.
  * `ZeroTaken` - `if (x)` over an Option takes 0.
  * `OlderClosure` - a closure keeps the x it was made with.
  * what rustc rejects besides, and `CompiledCodeAgrees` therefore leaves alone: reads written
    for an Option after `x ??= d`, in the else of `if (!x)` and after a second null test;
    `x ??= a; x ??= b`; `x = v` in an arm, which assigns `Some(v)` to a number; arithmetic
    after an assignment to a narrowed x. The else of a compound test is emitted twice.

Unions. What the resolver gets wrong (`Leaks`): an exit in an `else if`, or in a case of a
switch, narrows the rest of the block around, which is reached without the test too
(`type_resolver/visitors.rs:793`). What changes the meaning:

  * `Guesses` - a test that binds no variant is decided while converting
    (`expressions/patterns.rs:103`, `convert_instanceof`, `binary.rs:219`), though x may be either: `typeof x ===
    "object"` on a union, tests of an unknown that the any-enum analysis did not see or
    of a union that was narrowed to two; an empty default that is not last.
  * `Overlapping` - an unknown that is tested for an object and for a class has two variants
    that one value fits.

  What is refused or rejected, about half of the functions; `UnionsBehave` is about the others:
  `return x` of a whole union, and a returned x in a conditional on its type; a return in the arm
  of `let x = match` (not walked by `wrap_body_returns`); `if (typeof x !== "string") return;`, whose exit
  body is dropped (`control_flow.rs:363-400`: the swap gives it to the arm of the rest);
  any-enums in a `match` or `let x = match` without an arm for `Other`; a string or a Widget that
  is used again after an `if let` that moved it; a default arm whose break stands in a
  `let x = match` (`statements/switch.rs:168` says none does).

Expressions. The printer (`Ungrouped`): the IR has no parentheses, and of right operands
of equal precedence `b - (1 - a)` prints as `b - 1.0 - a` (`generator/expressions/mod.rs:96`; its
doc at 91-92 says parentheses are inserted to preserve precedence); `(a < b) === q` as a
chain; `x as f64 < y`; a cast of an operation; a negated cast; `&` of an operation; and a value that
begins with a block or `if` where a statement may stand. What is rejected (`Rejected`): `&&` and
`||` on values, tests that are no booleans, `o!` (keeps the Option), `a === o`, `typeof` as a value,
a number plus a string, `Some(if .. Some(..))`, branches `"x"` and `undefined` where no
type is expected, a tested `o` taken for an Option. What has another value:
`o ? x : y` with 0 (`ZeroTaken`), unary plus and `typeof` of what has no recorded type and
`typeof o === "number"` (`TypeUnknown`).

Members (`OwnGaps`): `copy` - writes through `arr[i]` or what a call returns go to a clone,
which `member_dispatch/shared.rs:95-97` calls always semantically safe; `repeated` - the receiver
of a compound assignment to a field is evaluated twice (TODO, I-217); `order`, `unit`, `reread`,
`skipped`, `dropped` - explained there.

Main synthesis: two computations of the mode differ where the first declarator has no effect and
a later one has (`ModesAgree`; `main_synthesis/mod.rs:858`, whose doc at 826-828 calls the two exactly
equivalent); an object literal with effects does not make a module executable
(`DataHasEffect`); a future that is not awaited (`DropsFuture`), a call of main that is not the last
(`MainFinishesFirst`) or in a function that is not async (`SyncCallerOfMain`); heritage of a class
with effects; texts and classes in variables have no item (`ReadsUnemitted`); functions do not see
the lets of fn main (`FnReadsLet`), which are never `mut`; `await` of a plain value (`AwaitsPlain`); a
literal called main (`ConstMain`). `main` as a value is not renamed, only calls are (`ReadsMain`;
`expressions/calls.rs:184`). An interface or namespace called `main` before the function hides it from
`detect_user_main`, which takes the first (`TypeHidesMain`). `__ts_main` is reported where it is taken (`Reserved`), but not in
`const main = .., __ts_main = ..`: the `var` speaks for its first declarator of either name, where the doc
(`user_main.rs:321-325`) says that the collision wins. A closure that reads a variable declared later becomes
a statement that does not see the let (`ReadsAhead`).

Module graph: `export { f }` leaves f private (`transformer/mod.rs:590`); an alias in
`export { x as y }` is not looked at and one in an import or
`export ... from` does not reach the `use` (`ListAliases`, `Aliases`); `export { x }`
of an imported x is not re-exported (`Lists`); a file that imports x, or declares one of its own, and
re-exports another x hides it (`Hides`; E0252 where both are `use` lines); a
provisional origin taken over by `export *` is
never corrected and depends on the order of a hash map (`TakenOver`; the `use` still
reaches the declaration, unless the chain comes back to where it was, `Circular`: then the module in the `use` can be
one that only re-exports from the circle); a re-export that leads nowhere still
gets an origin, which a star copies, and the name's real declaration, found by the file's other star, comes too late (part of
`Importable`: TypeScript reports the re-export); origins in a circle rotate until the 20th round; a
declaration more than 20 re-exports away may be missed (`InReach`; `module_graph/mod.rs:169` gives the bound for
circles only); a file that re-exports from itself reads what it overwrites (`FromItself`).

Output: no `mod.rs` is made where the output directory is not the sources'
(`module_graph/mod.rs:299`; README.md:20-21 and 47 of the repository show such a call);
an impl block moves away from its type when another file mentions the type
(`output_writer/placement.rs:79`); an `index.ts` becomes an `index.rs` that no `mod.rs` declares, while its
module path is the directory's, and a directory with only that gets no
`mod.rs` (`PathsApart`); a directory with only directories in it is not declared, and a
common root below the converted directory gives other module paths than
`mod.rs` has (`NoGaps`); a user's `mod.ts` is overwritten; hyphens and underscores, `a.ts`
and `a/index.ts` can meet at one path; the shared module can have the name of a
directory; imports of user types may repeat the file's own `use`, and the types may be
private (visibility is not modelled); an impl for a name that a generated
struct also has is dropped, the first item of a name wins (`TypesApart`).

## 8. Not modelled

Parser (a library call whose failure is an action); the conversion of the syntax tree into
type information (`ts_type_info/convert`: an input of `Collection`); loading of builtin types from
JSON (a constant); single-file mode and argument parsing; `resolve-types`, an
external process; rustfmt, whose failure is only reported; the layout of what the
generator prints; liveness of variables within a function body (`du_analysis`) and the
selection of overloads (`call_resolution`), which read and keep no state.

In what is modelled: monomorphisation of external type parameters, which local variables
get an any-enum, specifier resolution (`module_resolver.rs`), sanitizing of paths, nested
functions, declarations in function bodies, conditional assignments in `while`, calls
that fail inside a try, `apply_substitutions_to_items` (it runs on external structs of a
fresh registry and renames parts). Of expressions: object and array literals, optional
chains, in, functions as values, methods of builtins. Of functions: parameters
with patterns or defaults, callable interfaces' constants, optional members of a returned union. Of
classes: generics, static properties, private members, string fields.

## 9. Plan

Done, in order: `SyntheticTypes`, `SyntheticRegistry` with its proofs; `Pipeline`, which
composes several registries; `Statements`, `StatementRuns`, `Lowering`, `LoweringRuns`; `ModuleGraph`; `Placement`, `OutputWriter`;
`MainSynthesis`; `Narrowing`; `Naming` with the refinement; `Members`; `Collection` and `Converter`;
`RustExpressions` and `Expressions`; `Classes`; `Unions`.

Next:

 1. `Scopes` - the resolver's stack of scopes with expected types, calls and generics.
 2. `Optionals` - optional chains, `in`, and unions with null.

Proofs next: `LowerExits` for a switch without the forms of section 7; that registering in
any order gives the same set of numbered items up to their numbers; and the number of rounds the
module graph needs.
