---------------------------- MODULE OutputWriter ----------------------------
(***************************************************************************)
(* Writing a converted directory: OutputWriter::write_to_directory in      *)
(* src/src/pipeline/output_writer, called by transpile_directory in        *)
(* src/src/main.rs.  Files, then the shared module, then a mod.rs per      *)
(* directory, the deepest first; any write may fail and ends the run where *)
(* it is.                                                                  *)
(*                                                                         *)
(* Abstraction.  Paths are relative to the directory that is converted,    *)
(* on both sides, with their hyphens already replaced.  What is on disk is *)
(* what was written in this run.  rustfmt, whose failure is only reported, *)
(* changes nothing that matters here.                                      *)
(***************************************************************************)
EXTENDS Placement, SequencesExt

CONSTANTS
    Projects,   \* [files, synthetic, inPlace], inPlace: into the sources' directory
    SharedStems \* "shared_types", then "shared_types_0" and so on

ASSUME ProjectAssumption ==
    /\ \A p \in Projects :
          /\ p = [files |-> p.files, synthetic |-> p.synthetic, inPlace |-> p.inPlace]
          /\ p.files \in Seq(SourceFiles) /\ p.files # <<>>
          /\ p.synthetic \in Seq(SyntheticItems)
          /\ p.inPlace \in BOOLEAN
          /\ \E i \in DOMAIN SharedStems :
                [dir |-> <<>>, stem |-> SharedStems[i]] \notin {p.files[f].path : f \in DOMAIN p.files}
    /\ SharedStems \in Seq(Segments)
    /\ \A i \in DOMAIN SharedStems : SharedStems[i] # "mod"
    /\ "mod" \in Segments

VARIABLES
    project,    \* the files and items, unchanged
    phase,      \* "files", "mods", "done" or "failed"
    next,       \* the file to write
    dirs,       \* the directories that have no mod.rs yet
    disk        \* paths to contents

vars == <<project, phase, next, dirs, disk>>

fs == project.files
syn == project.synthetic

Put(m, k, v) == [x \in DOMAIN m \cup {k} |-> IF x = k THEN v ELSE m[x]]

-----------------------------------------------------------------------------
(* Mutation: no look at the names that are taken.                          *)
FirstStem(files) == SharedStems[1]

(* choose_shared_module_path: the first name no file has.                  *)
SharedStem(files) ==
    LET free(i) == [dir |-> <<>>, stem |-> SharedStems[i]] \notin {files[f].path : f \in DOMAIN files}
    IN  SharedStems[CHOOSE i \in DOMAIN SharedStems : free(i) /\ \A j \in 1 .. i - 1 : ~free(j)]

SharedPath == [dir |-> <<>>, stem |-> SharedStem(fs)]

HasShared == Shared(fs, syn) # {}

FromShared(f) == {Use(<<SharedStem(fs)>>, n) : n \in SharedNames(fs, syn, f)}

(* A content: the file whose source it is, 0 for none; the items generated *)
(* into it; its `use` lines other than the source's; its `pub mod` lines.  *)
Content(f, items, uses, mods) == [source |-> f, items |-> items, uses |-> uses, mods |-> mods]

FileContent(f) ==
    Content(f, CodeFor(syn, Inline(fs, syn, f)), FromShared(f) \cup InlineUserUses(fs, syn, f), {})

SharedContent == Content(0, CodeFor(syn, Shared(fs, syn)), SharedUserUses(fs, syn), {})

-----------------------------------------------------------------------------
(* collect_dirs: the output directory and every one on the way to a file.  *)
DirsOf(files) == {<<>>} \cup UNION {Prefixes(files[f].path.dir) : f \in DOMAIN files}

(* find_common_root: the module graph strips it from every path.           *)
Root(files) ==
    LET common == {d \in DirsOf(files) : \A f \in DOMAIN files : IsPrefix(d, files[f].path.dir)}
    IN  CHOOSE d \in common : \A e \in common : Len(e) <= Len(d)

(* strip_root, of a directory: one that is not below the root is compared  *)
(* as it stands, with no match; one of another output tree never is.       *)
InGraph(d) == project.inPlace /\ IsPrefix(Root(fs), d)

(* Mutation: no look at the directories further down.                      *)
ChildrenFilesOnly(d) ==
    IF ~InGraph(d) THEN {}
    ELSE {fs[f].path.stem : f \in {g \in DOMAIN fs : fs[g].path.dir = d}} \ {"index"}

(* children_of: the files in d, and the directories a file is right below. *)
ChildrenOf(d) ==
    IF ~InGraph(d) THEN {}
    ELSE ({fs[f].path.stem : f \in {g \in DOMAIN fs : fs[g].path.dir = d}} \ {"index"})
           \cup {Last(fs[f].path.dir) : f \in {g \in DOMAIN fs :
                     fs[g].path.dir # <<>> /\ Front(fs[g].path.dir) = d}}

(* generate_mod_rs and, in the output directory, the shared module.        *)
ModsOf(d) == ChildrenOf(d) \cup (IF HasShared /\ d = <<>> THEN {SharedStem(fs)} ELSE {})

-----------------------------------------------------------------------------
Init ==
    /\ project \in Projects
    /\ phase = "files" /\ next = 1
    /\ dirs = DirsOf(project.files)
    /\ disk = [x \in {} |-> x]

WriteFile ==
    /\ phase = "files" /\ next <= Len(fs)
    /\ disk' = Put(disk, fs[next].path, FileContent(next))
    /\ next' = next + 1
    /\ UNCHANGED <<project, phase, dirs>>

WriteShared ==
    /\ phase = "files" /\ next > Len(fs)
    /\ disk' = IF HasShared THEN Put(disk, SharedPath, SharedContent) ELSE disk
    /\ phase' = "mods"
    /\ UNCHANGED <<project, next, dirs>>

(* Mutation: the directories in any order.                                 *)
AnyDir(d) == d \in dirs

(* Deepest first, in whatever order otherwise.                             *)
NextDir(d) == d \in dirs /\ \A e \in dirs : Len(e) > Len(d) => ~IsPrefix(d, e)

(* A mod.rs without a line is not written.                                 *)
WriteMod(d) ==
    /\ phase = "mods" /\ NextDir(d)
    /\ disk' = IF ModsOf(d) = {} THEN disk
               ELSE Put(disk, [dir |-> d, stem |-> "mod"], Content(0, {}, {}, ModsOf(d)))
    /\ dirs' = dirs \ {d}
    /\ UNCHANGED <<project, phase, next>>

Finish ==
    /\ phase = "mods" /\ dirs = {}
    /\ phase' = "done"
    /\ UNCHANGED <<project, next, dirs, disk>>

(* An I/O error: what is written stays, the rest is not.                   *)
WriteFails ==
    /\ phase \in {"files", "mods"}
    /\ phase' = "failed"
    /\ UNCHANGED <<project, next, dirs, disk>>

Next ==
    \/ WriteFile \/ WriteShared \/ (\E d \in dirs : WriteMod(d)) \/ Finish
    \/ WriteFails

Spec == Init /\ [][Next]_vars

-----------------------------------------------------------------------------
Contents ==
    [source : 0 .. Len(fs), items : SUBSET (DOMAIN syn),
     uses : SUBSET [module : Seq(Segments), name : Types],
     mods : SUBSET Segments]

(* What the passing configuration assumes of a project: a type has one     *)
(* definition, none with a generated name but as the target of an impl; an *)
(* impl's target is a user type no other file or item mentions.            *)
TypesApart ==
    /\ \A f, g \in DOMAIN fs : f # g => fs[f].defs \cap fs[g].defs = {}
    /\ UserTypes(fs) \cap NamesOf(syn) \subseteq ImplTargets(syn)
    /\ \A i, j \in DOMAIN syn : syn[i].name = syn[j].name => i = j

ImplsAtHome ==
    \A n \in ImplTargets(syn) :
        /\ ~ReferencedBySynthetic(syn, n)
        /\ n \in UserTypes(fs)
        /\ \A f \in DOMAIN fs : n \in fs[f].refs => n \in fs[f].defs

(* ... and of its paths: no file of the user's is a mod or an index file,  *)
(* one of them is in the directory itself or they part there, and no       *)
(* directory has only directories in it.                                   *)
PathsApart ==
    /\ \A f, g \in DOMAIN fs : f # g => fs[f].path # fs[g].path
    /\ \A f \in DOMAIN fs : fs[f].path.stem \notin {"mod", "index"}
    /\ \A f, g \in DOMAIN fs : ~IsPrefix(Append(fs[f].path.dir, fs[f].path.stem), fs[g].path.dir)

NoGaps == Root(fs) = <<>> /\ \A d \in DirsOf(fs) : d = <<>> \/ \E f \in DOMAIN fs : fs[f].path.dir = d

(* The types defined in a content, and what a `use` in it names.           *)
Defined(c) ==
    {syn[i].name : i \in {j \in c.items : ~syn[j].impl}}
      \cup (IF c.source = 0 THEN {} ELSE fs[c.source].defs)

Brings(c, n) ==
    \E u \in c.uses :
        /\ u.name = n
        /\ \E x \in DOMAIN disk : Append(x.dir, x.stem) = u.module /\ n \in Defined(disk[x])

KnownTo(c, n) == n \in Defined(c) \/ Brings(c, n)

(* In a directory that was written to the end every generated type is in   *)
(* scope wherever it is mentioned - by a source, by a type put into that   *)
(* file, in the shared module - and so is every user type a generated one  *)
(* mentions; an impl of a type that only its own file mentions is where    *)
(* its type is, or Rust would not take it.                                 *)
NamesInScope ==
    (phase = "done" /\ TypesApart /\ ImplsAtHome /\ PathsApart) =>
       \A x \in DOMAIN disk :
          LET c == disk[x] IN
          /\ c.source # 0 => \A n \in fs[c.source].refs \cap NamesOf(syn) : KnownTo(c, n)
          /\ \A i \in c.items : \A n \in syn[i].refs \cap (NamesOf(syn) \cup UserTypes(fs)) : KnownTo(c, n)
          /\ \A i \in DOMAIN syn : syn[i].impl => (syn[i].name \in Defined(c) <=> i \in c.items)

(* Whenever the run stops, after a failure too, a mod.rs declares no       *)
(* module that is not there.                                               *)
DeclaredModulesExist ==
    PathsApart =>
       \A x \in DOMAIN disk : \A m \in disk[x].mods :
          \/ [dir |-> x.dir, stem |-> m] \in DOMAIN disk
          \/ [dir |-> Append(x.dir, m), stem |-> "mod"] \in DOMAIN disk

(* What is written is not overwritten: not a user's file by the shared     *)
(* module or a mod.rs, nor one of those by another.                        *)
WrittenStays ==
    [][PathsApart => \A x \in DOMAIN disk : x \in DOMAIN disk' /\ disk'[x] = disk[x]]_vars

(* A module is declared in the mod.rs of its directory, and so is that     *)
(* directory in the one above it.                                          *)
Declares(d, m) ==
    [dir |-> d, stem |-> "mod"] \in DOMAIN disk /\ m \in disk[[dir |-> d, stem |-> "mod"]].mods

AllDeclared ==
    \A x \in DOMAIN disk :
        x.stem # "mod" =>
           /\ Declares(x.dir, x.stem)
           /\ \A n \in 1 .. Len(x.dir) : Declares(SubSeq(x.dir, 1, n - 1), x.dir[n])

(* Written into the directory of the sources, everything is part of the    *)
(* crate in the end.                                                       *)
CrateComplete == (phase = "done" /\ project.inPlace /\ PathsApart /\ NoGaps) => AllDeclared

=============================================================================
