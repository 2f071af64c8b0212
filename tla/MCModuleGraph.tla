---------------------------- MODULE MCModuleGraph ----------------------------
(* Constants for checking ModuleGraph.  Every set of programs is closed    *)
(* under exchanging the files, so one iteration order stands for all.      *)
EXTENDS ModuleGraph

CONSTANTS a, b, c, d, x, y

Export(k, n, as, f) == [kind |-> k, name |-> n, as |-> as, from |-> f]
Decl(n) == Export("decl", n, n, a)
List(n, as) == Export("list", n, as, a)
From(f, n, as) == Export("from", n, as, f)
Star(f) == Export("star", x, x, f)

(* A file that declares what it exports, and imports ibs.                  *)
File(es, ibs) ==
    [exports |-> es, imports |-> ibs,
     decls |-> {e.name : e \in {g \in ToSet(es) : g.kind = "decl"
                                   \/ (g.kind = "list" /\ \A i \in ibs : i.as # g.name)}}]

(* Four files with one export each. *)
Single(f) ==
    LET others == {a, b, c, d} \ {f} IN
    {File(es, {}) : es \in {<<>>, <<Decl(x)>>}
        \cup {<<From(g, x, x)>> : g \in others} \cup {<<Star(g)>> : g \in others}}

(* Or one has two stars and one the declaration. *)
Stars(f) == {File(<<Star(g[1]), Star(g[2])>>, {}) :
                 g \in {h \in ({a, b, c, d} \ {f}) \X ({a, b, c, d} \ {f}) : h[1] # h[2]}}

(* Three files with two exports, or with aliases, lists and imports. *)
Pairs(f) ==
    LET others   == {a, b, c} \ {f}
        explicit == {Decl(x)} \cup {From(g, x, x) : g \in others}
        stars    == {Star(g) : g \in others}
    IN  {File(es, {}) : es \in ({<<e, s>> : e \in explicit, s \in stars}
            \cup {<<s, e>> : e \in explicit, s \in stars}
            \cup {st \in stars \X stars : st[1] # st[2]} \cup {<<Decl(x)>>})}

Mixed(f) ==
    LET others == {a, b, c} \ {f} IN
    {File(es, {}) : es \in {<<>>, <<Decl(x)>>, <<Decl(x), Decl(y)>>, <<List(x, x)>>, <<List(x, y)>>}
        \cup {<<From(g, x, x)>> : g \in others} \cup {<<From(g, x, y)>> : g \in others}
        \cup {<<From(g, y, x)>> : g \in others} \cup {<<Star(g)>> : g \in others}}
      \cup {File(<<List(x, x)>>, {[as |-> x, from |-> g, name |-> x]}) : g \in others}
      \cup {File(<<>>, {[as |-> x, from |-> g, name |-> x]}) : g \in others}

(* A file that keeps x to itself, as a declaration or an import. *)
Hiding(f) ==
    LET others == {a, b, c} \ {f} IN
    {[exports |-> <<e>>, imports |-> {}, decls |-> {x}] :
        e \in {Star(g) : g \in others} \cup {From(g, x, x) : g \in others}}
      \cup {File(<<Star(g)>>, {[as |-> x, from |-> h, name |-> x] : h \in others \ {g}}) : g \in others}

Three(choice(_)) ==
    {[f \in {a, b, c, d} |-> CASE f = a -> p [] f = b -> q [] f = c -> r [] f = d -> File(<<>>, {})] :
        p \in choice(a), q \in choice(b), r \in choice(c)}

Four(choice(_)) ==
    {[f \in {a, b, c, d} |-> CASE f = a -> p [] f = b -> q [] f = c -> r [] f = d -> s] :
        p \in choice(a), q \in choice(b), r \in choice(c), s \in choice(d)}

StarsAndOne(s, t) ==
    Four(LAMBDA f : CASE f = s -> Stars(f)
                      [] f = t -> {File(<<Decl(x)>>, {})}
                      [] OTHER -> Single(f) \ {File(<<Decl(x)>>, {})})

MCFiles == {a, b, c, d}
MCNames == {x, y}
MCOrders == {<<a, b, c, d>>}

MCPrograms ==
    Four(Single) \cup Three(Pairs) \cup Three(Mixed)
      \cup UNION {StarsAndOne(s[1], s[2]) : s \in {t \in MCFiles \X MCFiles : t[1] # t[2]}}
      \cup UNION {Three(LAMBDA f : IF f = s THEN Hiding(f) ELSE Single(f) \ {File(<<g>>, {}) : g \in {From(d, x, x), Star(d)}}) : s \in {a, b, c}}
=============================================================================
