----------------------------- MODULE ModuleGraph -----------------------------
(***************************************************************************)
(* The module graph, src/src/pipeline/module_graph: which module an        *)
(* imported name comes from, through chains of re-exports; and the `use`   *)
(* declarations the transformer and the output writer make of it.          *)
(*                                                                         *)
(* Abstraction.  A file and its Rust module path are the same value, that  *)
(* is, no two files have the same path.  A specifier is the file it        *)
(* resolves to; exports from files that are not converted are left out, as *)
(* collect_file_exports leaves them out.  The map of raw exports is        *)
(* iterated in an order that differs from run to run but not within one.   *)
(***************************************************************************)
EXTENDS Integers, Sequences, FiniteSets, SequencesExt

CONSTANTS
    Files,
    Names,
    Programs,   \* files to their declarations, imports and exports
    Orders,     \* orders in which the map of raw exports is iterated
    MaxRounds   \* 20 in the code

Binding == [as : Names, from : Files, name : Names]

(* decl: `export function name`; list: `export { name as as }`; from: the  *)
(* same from a file; star: `export *` from a file.                         *)
Exports == [kind : {"decl", "list", "from", "star"}, name : Names, as : Names, from : Files]

ASSUME ProgramAssumption ==
    /\ Names # {} /\ IsFiniteSet(Names) /\ IsFiniteSet(Files)
    /\ \A p \in Programs :
          /\ p \in [Files -> [decls : SUBSET Names, imports : SUBSET Binding, exports : Seq(Exports)]]
          /\ \A f \in Files : \A e \in ToSet(p[f].exports) : e.kind = "decl" => e.as = e.name
    /\ Orders \subseteq {o \in [1 .. Cardinality(Files) -> Files] : ToSet(o) = Files}
    /\ MaxRounds \in Nat \ {0}

Node(f, n) == [file |-> f, name |-> n]
Nodes == [file : Files, name : Names]

VARIABLES
    prog,       \* the files, unchanged
    order,      \* the iteration order, unchanged
    phase,      \* "locals", "chains" or "done"
    next,       \* how far this iteration is
    round,      \* the iteration
    changed,    \* whether it changed something
    resolved    \* files to exported names to origins

vars == <<prog, order, phase, next, round, changed, resolved>>

ExportsOf(f) == ToSet(prog[f].exports)

-----------------------------------------------------------------------------
(* What TypeScript means by a name exported from a file: the declarations  *)
(* at the end of its chains.                                               *)
Within(links, start, n) ==
    LET reach[i \in Nat] ==
            IF i = 0 THEN {start} ELSE LET r == reach[i - 1] IN r \cup UNION {links[x] : x \in r}
    IN  reach[n]

Closure(links, start) == Within(links, start, Cardinality(Nodes))

Explicit(f, n) == {e \in ExportsOf(f) : e.kind # "star" /\ e.as = n}

ImportsAs(f, n) == {b \in prog[f].imports : b.as = n}

Declares(f, e) == e.kind = "decl" \/ (e.kind = "list" /\ ImportsAs(f, e.name) = {})

Links(x) ==
    LET es == Explicit(x.file, x.name)
    IN  IF es = {} THEN {Node(e.from, x.name) : e \in {d \in ExportsOf(x.file) : d.kind = "star"}}
        ELSE {Node(e.from, e.name) : e \in {d \in es : d.kind = "from"}}
               \cup {Node(b.from, b.name) :
                        b \in UNION {ImportsAs(x.file, e.name) : e \in {d \in es : d.kind = "list"}}}

Defines(x) == {Node(x.file, e.name) : e \in {d \in Explicit(x.file, x.name) : Declares(x.file, d)}}

AllLinks == [y \in Nodes |-> Links(y)]

Chain(x) == Closure(AllLinks, x)

Origins(x) == UNION {Defines(y) : y \in Chain(x)}

(* The names somebody may import.  TypeScript reports the others, or a     *)
(* file on the way that exports a name twice or one that is not there.     *)
Importable(x) ==
    /\ Cardinality(Origins(x)) = 1
    /\ \A y \in Chain(x) : \A e \in Explicit(y.file, y.name) :
          Explicit(y.file, y.name) = {e} /\ Origins(y) # {}

-----------------------------------------------------------------------------
(* collect_file_exports: the alias of `export { name as alias }` is not    *)
(* looked at.                                                              *)
IsLocal(e) == e.kind \in {"decl", "list"}

LocalsOf(f) == {e.name : e \in {d \in ExportsOf(f) : IsLocal(d)}}

Set(m, n, origin) == [x \in DOMAIN m \cup {n} |-> IF x = n THEN origin ELSE m[x]]

(* Mutation: the origin is always the module named in the text.           *)
OriginOfProvisional(res, e) == Node(e.from, e.name)

(* The origin of a re-export: what is known of the source, and until then  *)
(* the source itself.                                                      *)
OriginOf(res, e) ==
    IF e.name \in DOMAIN res[e.from] THEN res[e.from][e.name] ELSE Node(e.from, e.name)

(* `export *` takes what its file has no entry for.                        *)
WithAllOf(m, source) ==
    [n \in DOMAIN m \cup DOMAIN source |-> IF n \in DOMAIN m THEN m[n] ELSE source[n]]

Apply(res, f, e) ==
    CASE e.kind = "from" -> [res EXCEPT ![f] = Set(@, e.as, OriginOf(res, e))]
      [] e.kind = "star" -> [res EXCEPT ![f] = WithAllOf(@, res[e.from])]
      [] OTHER           -> res

Init ==
    /\ prog \in Programs
    /\ order \in Orders
    /\ phase = "locals" /\ next = 1 /\ round = 1 /\ changed = FALSE
    /\ resolved = [f \in Files |-> [n \in {} |-> n]]

(* The first pass over the map. *)
EnterLocals ==
    /\ phase = "locals"
    /\ resolved' = [f \in Files |-> [n \in LocalsOf(f) |-> Node(f, n)]]
    /\ phase' = "chains"
    /\ UNCHANGED <<prog, order, next, round, changed>>

Follow(acc, f, e) ==
    LET res == Apply(acc.resolved, f, e)
    IN  [resolved |-> res, changed |-> acc.changed \/ res # acc.resolved]

Followed(f) ==
    LET after[i \in 0 .. Len(prog[f].exports)] ==
            IF i = 0 THEN [resolved |-> resolved, changed |-> changed]
            ELSE Follow(after[i - 1], f, prog[f].exports[i])
    IN  after[Len(prog[f].exports)]

(* One file in an iteration of the second pass, its exports in order. *)
FollowExports ==
    /\ phase = "chains" /\ next <= Len(order)
    /\ LET acc == Followed(order[next])
       IN  resolved' = acc.resolved /\ changed' = acc.changed
    /\ next' = next + 1
    /\ UNCHANGED <<prog, order, phase, round>>

(* Mutation: no bound on the iterations.                                  *)
EndRoundUntilStable ==
    /\ phase = "chains" /\ next > Len(order)
    /\ IF changed
       THEN /\ round' = IF round < MaxRounds THEN round + 1 ELSE round
            /\ next' = 1 /\ changed' = FALSE /\ UNCHANGED phase
       ELSE phase' = "done" /\ UNCHANGED <<next, round, changed>>
    /\ UNCHANGED <<prog, order, resolved>>

(* After an iteration over the map: another one if something changed, but  *)
(* not more than MaxRounds.                                                *)
EndRound ==
    /\ phase = "chains" /\ next > Len(order)
    /\ IF changed /\ round < MaxRounds
       THEN /\ round' = round + 1
            /\ next' = 1
            /\ changed' = FALSE
            /\ UNCHANGED phase
       ELSE /\ phase' = "done"
            /\ UNCHANGED <<next, round, changed>>
    /\ UNCHANGED <<prog, order, resolved>>

Next == EnterLocals \/ FollowExports \/ EndRound

(* One thread that builds the graph to the end.                            *)
Spec == Init /\ [][Next]_vars /\ WF_vars(Next)

-----------------------------------------------------------------------------
(* What becomes of the graph. *)
ResolveImport(f, n) == IF n \in DOMAIN resolved[f] THEN resolved[f][n] ELSE Node(f, n)

(* transform_import takes the local name, transform_export_named the       *)
(* original one; both ask the graph for the module only.                   *)
UseOf(f, n) == Node(ResolveImport(f, n).file, n)

PrivateUses(f) == {UseOf(b.from, b.as) : b \in prog[f].imports}

PublicUses(f) == {UseOf(e.from, e.name) : e \in {d \in ExportsOf(f) : d.kind = "from"}}

(* Mutation: `export *` makes nothing public.                             *)
NoGlobs(f) == {}

Globs(f) == {e.from : e \in {d \in ExportsOf(f) : d.kind = "star"}}

(* transform_module_item: an item is public if its declaration is exported *)
(* where it stands; a list of exports adds nothing.                        *)
PublicItems(f) == {e.name : e \in {d \in ExportsOf(f) : d.kind = "decl"}}

(* reexports_of, for the `pub use` lines of a mod.rs. *)
ReexportsOf(f) ==
    {Node(resolved[f][n].file, n) : n \in {m \in DOMAIN resolved[f] : resolved[f][m].file # f}}

(* What Rust makes of a path to a name in another module: a public item of *)
(* it, or what it publicly uses; names of its own, private ones too, come  *)
(* before the globs.                                                       *)
Hidden(x) ==
    \/ x.name \in prog[x.file].decls \ PublicItems(x.file)
    \/ \E u \in PrivateUses(x.file) : u.name = x.name

RustLinks(x) ==
    LET named == {u \in PublicUses(x.file) : u.name = x.name}
    IN  IF x.name \in PublicItems(x.file) \/ Hidden(x) THEN {}
        ELSE IF named # {} THEN named
        ELSE {Node(g, x.name) : g \in Globs(x.file)}

RustOrigins(x) ==
    {y \in Closure([z \in Nodes |-> RustLinks(z)], x) : y.name \in PublicItems(y.file)}

-----------------------------------------------------------------------------

(* Where the graph departs from TypeScript: an alias in a list of exports  *)
(* is not seen, an alias in an export from a file or an import does not    *)
(* reach the `use`, a list of exports makes nothing public, and what a     *)
(* file imports or keeps to itself hides what it re-exports by that name.  *)
ListAliases == \E f \in Files : \E e \in ExportsOf(f) : e.kind = "list" /\ e.as # e.name
Aliases ==
    \/ \E f \in Files : \E e \in ExportsOf(f) : e.kind = "from" /\ e.as # e.name
    \/ \E f \in Files : \E b \in prog[f].imports : b.as # b.name
Lists == \E f \in Files : \E e \in ExportsOf(f) : e.kind = "list"
Hides(x) == \E y \in Chain(x) : Importable(y) /\ Hidden(y)

(* A provisional origin may be taken over by an `export *`, and then is    *)
(* for good: if there is a star on the way to a name that is re-exported   *)
(* from where it is not declared.                                          *)
Provisional(y) == \E e \in Explicit(y.file, y.name) :
    e.kind = "from" /\ e.name \notin LocalsOf(e.from)

TakenOver(x) ==
    \E y \in Chain(x) : Explicit(y.file, y.name) = {} /\ \E z \in Chain(y) : Provisional(z)

(* A file that re-exports names of its own reads what it is about to       *)
(* overwrite.                                                              *)
FromItself == \E f \in Files : \E e \in ExportsOf(f) : e.kind = "from" /\ e.from = f

(* The declaration is not more re-exports away than there are iterations.  *)
InReach(x) == \E y \in Within(AllLinks, x, MaxRounds) : Defines(y) # {}

(* At every moment, an origin on record stands for the same declaration    *)
(* as the name it is the origin of: following a chain half way, in any     *)
(* order, never ends in another one.                                       *)
OriginsMeanTheSame ==
    (~ListAliases /\ ~FromItself) =>
       \A f \in Files : \A n \in DOMAIN resolved[f] :
          Importable(Node(f, n)) => Origins(resolved[f][n]) = Origins(Node(f, n))

(* In the end it is the declaring module, unless a provisional one was     *)
(* taken over, and no name that can be imported is missing.                *)
NothingMissing ==
    (phase = "done" /\ ~ListAliases /\ ~FromItself) =>
       \A x \in Nodes : (Importable(x) /\ InReach(x)) =>
          /\ x.name \in DOMAIN resolved[x.file]
          /\ (~Lists /\ ~TakenOver(x)) => Origins(x) = {resolved[x.file][x.name]}

(* What the table of exports promises: nothing wrong at any moment, and    *)
(* nothing missing in the end.                                             *)
ExportsResolved == OriginsMeanTheSame /\ NothingMissing

(* A chain that comes back to where it was. *)
Circular(x) == \E y \in Chain(x) : \E z \in Links(y) : y \in Chain(z)

(* Whoever imports a name, and every line of a mod.rs, uses a module where *)
(* rustc finds that very declaration, stale origin or not; but for a name  *)
(* re-exported in a circle, whose stale origin may be the circle itself.   *)
UsesReachTheDeclaration ==
    (phase = "done" /\ ~Lists /\ ~Aliases /\ ~FromItself) =>
       \A x \in Nodes :
         (Importable(x) /\ InReach(x) /\ ~Hides(x) /\ ~(Circular(x) /\ TakenOver(x))) =>
          /\ RustOrigins(UseOf(x.file, x.name)) = Origins(x)
          /\ \A u \in ReexportsOf(x.file) : u.name = x.name => RustOrigins(u) = Origins(x)

(* Circular re-exports, whose origins can go round for ever, do not keep   *)
(* the graph from being built.                                             *)
Terminates == <>(phase = "done")
=============================================================================
