--------------------------- MODULE MCOutputWriter ---------------------------
(* Constants for checking OutputWriter: every way three files and three    *)
(* generated types can mention each other, in one layout of the files; and *)
(* every layout of three files, with a few ways.                           *)
EXTENDS OutputWriter

MCTypes == {"U", "S", "V", "A", "B"}
MCSegments == {"a", "b", "sub", "deep", "index", "mod", "shared_types", "shared_types_0"}
MCSharedStems == <<"shared_types", "shared_types_0">>

Path(d, s) == [dir |-> d, stem |-> s]
File(p, ds, rs) == [path |-> p, defs |-> ds, refs |-> rs]
Item(n, i, rs) == [name |-> n, impl |-> i, refs |-> rs]
Project(f, s, i) == [files |-> f, synthetic |-> s, inPlace |-> i]

(* U, S and V generated, A and B the users'. *)
Mentioning ==
    {Project(<<File(Path(<<>>, "a"), {"A"}, r), File(Path(<<"sub">>, "b"), {"B"}, s),
               File(Path(<<>>, "shared_types"), {}, t)>>,
             <<Item("U", FALSE, u), Item("S", FALSE, v), Item("V", FALSE, w)>>, TRUE) :
        r \in SUBSET {"U", "S"}, s \in SUBSET {"U", "V"}, t \in {{}, {"S", "V"}},
        u \in SUBSET {"S", "A"}, v \in SUBSET {"V", "A"}, w \in SUBSET {"U", "B"}}

Places == {Path(d, s) : d \in {<<>>, <<"sub">>, <<"sub", "deep">>}, s \in {"a", "shared_types"}}

Threes == {p \in [1 .. 3 -> Places] : IsInjective(p)}

Layouts(inPlace, syns) ==
    {Project(<<File(p[1], {"A"}, {"U"}), File(p[2], {"B"}, {"U", "S"}), File(p[3], {}, {"S"})>>, s, i) :
        p \in Threes, s \in syns, i \in inPlace}

(* An intersection with methods declared by a user in the first file.      *)
OwnImpl == <<Item("U", FALSE, {"B"}), Item("A", TRUE, {"U"})>>

Chain == <<Item("S", FALSE, {}), Item("U", FALSE, {"S", "B"})>>

MCProjects == Mentioning \cup Layouts(BOOLEAN, {OwnImpl, Chain, <<>>})

MCLayouts == Layouts(BOOLEAN, {Chain})
=============================================================================
