------------------------------- MODULE Naming -------------------------------
(***************************************************************************)
(* What the registry of synthetic types promises its callers about the     *)
(* structs of type literals and the enums of intersections: a dictionary   *)
(* that only grows, in which asking twice gives the same name, and a name  *)
(* given means exactly the parts that were asked for and never anything    *)
(* else.                                                                   *)
(***************************************************************************)
CONSTANT Request  \* [kind, parts]: what can be asked for

VARIABLES
    given,  \* request -> the name it was given
    means   \* name -> the parts it stands for

vars == <<given, means>>

(* g has every entry of f, and one more, at x. *)
AddsOne(f, g, x) ==
    /\ x \notin DOMAIN f
    /\ DOMAIN g = DOMAIN f \cup {x}
    /\ \A y \in DOMAIN f : g[y] = f[y]

Init ==
    /\ DOMAIN given = {}
    /\ DOMAIN means = {}

(* A new request gets a name that means nothing yet. *)
Ask(q) ==
    /\ AddsOne(given, given', q)
    /\ AddsOne(means, means', given'[q])
    /\ means'[given'[q]] = q.parts

Next == \E q \in Request : Ask(q)

Spec == Init /\ [][Next]_vars
=============================================================================
