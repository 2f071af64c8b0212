------------------------------ MODULE MCMembers ------------------------------
(* Constants for checking Members.                                         *)
EXTENDS Members

Types == {"number", "option", "object"}

MCDeclarations ==
    [kind : {"field"}, type : Types, loud : {FALSE}, clamp : {FALSE}]
    \cup [kind : {"slot"}, type : Types, loud : {FALSE}, clamp : {FALSE}]
    \cup [kind : {"accessors"}, type : Types, loud : BOOLEAN, clamp : BOOLEAN]
    \cup [kind : {"getter", "setter", "method", "inherited"}, type : {"number"}, loud : {TRUE}, clamp : {FALSE}]

MCValues == {Null, 0, 2}

Receivers == {"x", "inner", "peer", "made", "fresh", "element", "class"}

Within == {Access(r, op, Lit(2), TRUE) : r \in {"x", "made"}, op \in {"read", "=", "+=", "post++", "pre++", "||="}}

MCStatements ==
    {Access(r, "read", Lit(0), TRUE) : r \in Receivers}
    \cup {Access(r, op, Lit(0), used) : r \in Receivers, op \in Updates, used \in BOOLEAN}
    \cup {Access(r, op, rhs, used) :
             r \in Receivers, op \in Logical \cup {"=", "+="}, used \in BOOLEAN,
             rhs \in {Lit(2), Lit(Null), CallRhs} \cup {Nested(a) : a \in Within}}
=============================================================================
