------------------------------ MODULE Placement ------------------------------
(***************************************************************************)
(* Where the generated types go when several files are written: the        *)
(* reference graph of src/src/pipeline/placement.rs and the placement made *)
(* of it, src/src/pipeline/output_writer/placement.rs.                     *)
(*                                                                         *)
(* Abstraction.  An item is the type names it mentions; a file is the      *)
(* types it defines and the names all its items mention.  A `use` is the   *)
(* module it names and the type.                                           *)
(***************************************************************************)
EXTENDS Integers, Sequences, FiniteSets

CONSTANTS
    Types,      \* type names, of users and generated
    Segments    \* names of directories, and of files without extension

Paths == [dir : Seq(Segments), stem : Segments]

(* defs: the types the file defines.  refs: collect_type_refs_from_item,   *)
(* over its items.                                                         *)
SourceFiles == [path : Paths, defs : SUBSET Types, refs : SUBSET Types]

(* A generated type, or an impl block for the type of that name.           *)
SyntheticItems == [name : Types, impl : BOOLEAN, refs : SUBSET Types]

(* file_path_to_module_path: an index file stands for its directory.       *)
ModuleOf(path) == IF path.stem = "index" THEN path.dir ELSE Append(path.dir, path.stem)

-----------------------------------------------------------------------------
(* SyntheticReferenceGraph::build, of the files fs and the items syn.      *)
NamesOf(syn) == {syn[i].name : i \in DOMAIN syn}

ItemsFor(syn, n) == {i \in DOMAIN syn : syn[i].name = n}

(* The code kept under a name is that of the first item with it.           *)
CodeOf(syn, n) == CHOOSE i \in ItemsFor(syn, n) : \A j \in ItemsFor(syn, n) : i <= j

ImplTargets(syn) == {syn[i].name : i \in {j \in DOMAIN syn : syn[j].impl}}

Mentions(syn, file) == file.refs \cup (file.defs \cap ImplTargets(syn))

DirectReferencers(fs, syn, n) == {f \in DOMAIN fs : n \in Mentions(syn, fs[f])}

RefsOf(syn, n) == UNION {syn[i].refs : i \in ItemsFor(syn, n)}

Dependencies(syn, n) == (RefsOf(syn, n) \cap NamesOf(syn)) \ {n}

UserTypes(fs) == UNION {fs[f].defs : f \in DOMAIN fs}

UserTypeDeps(fs, syn, n) == (RefsOf(syn, n) \cap UserTypes(fs)) \ NamesOf(syn)

ReferencedBySynthetic(syn, n) == \E m \in NamesOf(syn) : n \in Dependencies(syn, m)

(* reachable_synthetics: the least set with start and what it depends on.  *)
Reachable(syn, start) ==
    {n \in NamesOf(syn) \cup start :
        \A S \in SUBSET (NamesOf(syn) \cup start) :
           (start \subseteq S /\ \A m \in S : Dependencies(syn, m) \subseteq S) => n \in S}

-----------------------------------------------------------------------------

Inline(fs, syn, f) ==
    {n \in NamesOf(syn) : DirectReferencers(fs, syn, n) = {f} /\ ~ReferencedBySynthetic(syn, n)}

Shared(fs, syn) ==
    {n \in NamesOf(syn) :
        ReferencedBySynthetic(syn, n) \/ Cardinality(DirectReferencers(fs, syn, n)) > 1}

(* transitive_shared_refs of what is inline in the file.                   *)
TransitiveShared(fs, syn, f) ==
    (Reachable(syn, Inline(fs, syn, f)) \ Inline(fs, syn, f)) \cap Shared(fs, syn)

(* Mutation: what the inline types need is forgotten.                      *)
SharedNamesDirect(fs, syn, f) == {n \in Shared(fs, syn) : f \in DirectReferencers(fs, syn, n)}

(* The names a file imports from the shared module.                        *)
SharedNames(fs, syn, f) ==
    {n \in Shared(fs, syn) : f \in DirectReferencers(fs, syn, n)} \cup TransitiveShared(fs, syn, f)

(* user_types_in_scope; both callers give one set as start and as scope,   *)
(* so that the traversal stays in it.                                      *)
UserTypesInScope(fs, syn, scope) == UNION {UserTypeDeps(fs, syn, n) : n \in scope}

(* user_type_def_map: the last file that defines the name.                 *)
DefFile(fs, t) == CHOOSE f \in DOMAIN fs : t \in fs[f].defs /\ \A g \in DOMAIN fs : t \in fs[g].defs => g <= f

Use(module, name) == [module |-> module, name |-> name]

UseOfUser(fs, t) == Use(ModuleOf(fs[DefFile(fs, t)].path), t)

(* Mutation: the shared module imports none of the users' types.           *)
NoSharedUserUses(fs, syn) == {}

SharedUserUses(fs, syn) == {UseOfUser(fs, t) : t \in UserTypesInScope(fs, syn, Shared(fs, syn))}

InlineUserUses(fs, syn, f) ==
    {UseOfUser(fs, t) : t \in {u \in UserTypesInScope(fs, syn, Inline(fs, syn, f)) : DefFile(fs, u) # f}}

(* The items whose code is put at the head of a file, and into the module. *)
CodeFor(syn, names) == {CodeOf(syn, n) : n \in names}
=============================================================================
