------------------------------ MODULE Classes ------------------------------
(***************************************************************************)
(* What becomes of classes and of the interfaces they implement.  A file   *)
(* grows by one declaration at a time.  Source() executes it as            *)
(* TypeScript does: constructors run from the root of the chain, every     *)
(* call on an object runs the nearest body.  Items() is what the           *)
(* transformer emits: structs, traits and impls, with the bodies of a      *)
(* parent copied into each child.  Accepted() is what rustc asks of them   *)
(* and Picked() the method it chooses for a call: inherent before trait,   *)
(* but only among the methods of one receiver, and a shared receiver is    *)
(* tried before a mutable one.                                             *)
(*                                                                         *)
(* Fields hold numbers and methods have no parameters.  Accessors are in   *)
(* Members, generic classes in Collection and SyntheticRegistry.           *)
(***************************************************************************)
EXTENDS Naturals, Sequences, FiniteSets, SequencesExt, Functions

CONSTANTS
    Pools,       \* the interfaces and classes a file may take its declarations from
    Arguments    \* what every constructor is called with, as far as it has parameters

VARIABLES pool, interfaces, classes

vars == <<pool, interfaces, classes>>

None == "none"

Elements(s) == {s[i] : i \in DOMAIN s}

Named(s, n) == CHOOSE x \in Elements(s) : x.name = n

HasName(s, n) == \E x \in Elements(s) : x.name = n

Names(s) == {x.name : x \in Elements(s)}

---------------------------------------------------------------------------
(* The file as TypeScript reads it. *)

\* The class and its ancestors, the class first.
RECURSIVE Lineage(_, _)
Lineage(cs, c) ==
    IF c = None THEN <<>> ELSE <<Named(cs, c)>> \o Lineage(cs, Named(cs, c).parent)

\* The nearest class that gives m a body.
Owner(line, m) ==
    LET has == {i \in DOMAIN line : \E x \in Elements(line[i].methods) : x.name = m /\ x.body # <<>>}
    IN  IF has = {} THEN None ELSE line[CHOOSE i \in has : \A j \in has : i <= j].name

ObjectFields(line) == UNION {Names(line[i].fields)
                              \cup {p.name : p \in {q \in Elements(IF line[i].ctor = <<>> THEN <<>> ELSE line[i].ctor[1].params) : q.prop}}
                              : i \in DOMAIN line}

RECURSIVE AllInterfaces(_, _)
AllInterfaces(is, ns) ==
    LET up == UNION {Elements(Named(is, n).extends) : n \in ns}
    IN  IF up \subseteq ns THEN ns ELSE AllInterfaces(is, ns \cup up)

InterfacesOf(is, line) == AllInterfaces(is, UNION {Elements(line[i].implements) : i \in DOMAIN line})

MethodsOf(is, ns) == UNION {Named(is, n).methods : n \in AllInterfaces(is, ns)}

DataOf(is, ns) == UNION {Named(is, n).data : n \in AllInterfaces(is, ns)}

Params(c) == IF c.ctor = <<>> THEN <<>> ELSE c.ctor[1].params

\* Without a constructor of its own a class takes the parameters of its parent.
RECURSIVE Arity(_)
Arity(line) ==
    IF line = <<>> THEN 0
    ELSE IF line[1].ctor # <<>> THEN Len(Params(line[1])) ELSE Arity(Tail(line))

Value(e, env, obj) ==
    CASE e.is = "number" -> e.number
      [] e.is = "param"  -> env[e.name]
      [] e.is = "next"   -> env[e.name] + 1
      [] e.is = "field"  -> obj[e.name]

\* What console.log shows.
Shown(e, env, obj) ==
    IF e.is = "text" THEN <<"text", e.name>> ELSE <<"number", Value(e, env, obj)>>

Bound(params, args) == [p \in Names(params) |-> args[CHOOSE i \in DOMAIN params : params[i].name = p]]

Assigned(obj, f, v) == [g \in DOMAIN obj \cup {f} |-> IF g = f THEN v ELSE obj[g]]

Initialised(obj, fields) ==
    FoldLeft(LAMBDA o, f : IF f.init = <<>> THEN o ELSE Assigned(o, f.name, f.init[1]), obj, fields)

PropsSet(obj, params, env) ==
    FoldLeft(LAMBDA o, p : IF p.prop THEN Assigned(o, p.name, env[p.name]) ELSE o, obj, params)

\* Steps of a body of line[at], on an object of line[1].
RECURSIVE Perform(_, _, _, _, _)
RECURSIVE Construct(_, _, _, _)
Perform(line, at, steps, env, st) ==
    FoldLeft(LAMBDA s, step :
        CASE step.do = "say" -> [s EXCEPT !.out = Append(@, Shown(step.of, env, s.obj))]
          [] step.do = "set" -> [s EXCEPT !.obj = Assigned(@, step.field,
                                    Value(step.of, env, s.obj) + (IF step.plus THEN s.obj[step.field] ELSE 0))]
          [] step.do = "call" ->
               LET o == Owner(line, step.method)
                   i == CHOOSE k \in DOMAIN line : line[k].name = o
               IN  Perform(line, i, Named(line[i].methods, step.method).body[1], <<>>, s)
          [] step.do = "super" ->
               LET args == [k \in DOMAIN step.args |-> Value(step.args[k], env, s.obj)]
                   up   == Construct(line, at + 1, args, s)
               IN  [up EXCEPT !.obj = PropsSet(Initialised(@, line[at].fields), Params(line[at]), env)],
        st, steps)

Construct(line, at, args, st) ==
    LET c    == line[at]
        root == c.parent = None
        env  == Bound(Params(c), args)
    IN  IF c.ctor = <<>>
        THEN LET up == IF root THEN st ELSE Construct(line, at + 1, args, st)
             IN  [up EXCEPT !.obj = Initialised(@, c.fields)]
        ELSE Perform(line, at, c.ctor[1].body, env,
                     IF root THEN [st EXCEPT !.obj = PropsSet(Initialised(@, c.fields), Params(c), env)] ELSE st)

Start == [obj |-> <<>>, out |-> <<>>]

\* Static blocks run when the module is loaded.
Loaded(cs) ==
    FoldLeft(LAMBDA s, c : FoldLeft(LAMBDA t, b : Perform(<<c>>, 1, b, <<>>, t), s, c.blocks), Start, cs)

\* A use of a class: construct it, look at it as a value of type `as`, and
\* show its fields or call a method; or call a static method.
Uses(is, cs) ==
    LET uses(c) ==
            LET line  == Lineage(cs, c.name)
                as    == {c.name} \cup {line[i].name : i \in DOMAIN line} \cup InterfacesOf(is, line)
                made(t) == IF HasName(is, t) THEN MethodsOf(is, {t})
                           ELSE UNION {{m.name : m \in {x \in Elements(k.methods) : ~x.static}}
                                       : k \in Elements(Lineage(cs, t))}
            IN  (IF c.abstract THEN {}
                 ELSE {[do |-> "show", class |-> c.name, as |-> c.name, method |-> None]}
                      \cup UNION {{[do |-> "call", class |-> c.name, as |-> t, method |-> m] : m \in made(t)} : t \in as})
                \cup {[do |-> "static", class |-> c.name, as |-> c.name, method |-> m.name]
                      : m \in {x \in UNION {Elements(k.methods) : k \in Elements(line)} : x.static}}
    IN  UNION {uses(c) : c \in Elements(cs)}

\* Objects are shown field by field, in an order of their own.
Shows(obj, fields) == [f \in fields |-> obj[f]]

Source(is, cs, use) ==
    LET line == Lineage(cs, use.class)
        args == SubSeq(Arguments, 1, Arity(line))
        st   == IF use.do = "static" THEN Loaded(cs) ELSE Construct(line, 1, args, [Loaded(cs) EXCEPT !.obj = <<>>])
        end  == IF use.do = "show" THEN st
                ELSE Perform(line, 1, <<[do |-> "call", method |-> use.method]>>, <<>>, st)
    IN  [out |-> end.out, obj |-> IF use.do = "static" THEN <<>> ELSE Shows(end.obj, ObjectFields(line))]

\* What the TypeScript compiler accepts, as far as the pool can differ from it.
Calls(body, what) == {i \in DOMAIN body : body[i].do = what}

Reads(e) == IF e.is = "field" THEN {e.name} ELSE {}

Mentions(body) ==
    UNION {CASE body[i].do = "say" -> Reads(body[i].of)
             [] body[i].do = "set" -> Reads(body[i].of) \cup {body[i].field}
             [] OTHER -> {} : i \in DOMAIN body}

WellTyped(is, cs, c) ==
    LET all  == Append(cs, c)
        line == Lineage(all, c.name)
        body == IF c.ctor = <<>> THEN <<>> ELSE c.ctor[1].body
        calls(b) == {b[i].method : i \in Calls(b, "call")}
        known == {m \in UNION {Names(line[i].methods) : i \in DOMAIN line} : TRUE}
    IN  /\ c.parent # None => HasName(cs, c.parent)
        /\ \A n \in Elements(c.implements) : HasName(is, n)
        /\ Arity(line) <= Len(Arguments)
        \* a derived constructor calls super first, no other does
        /\ c.ctor # <<>> =>
             /\ (c.parent # None) <=> (body # <<>> /\ body[1].do = "super")
             /\ Cardinality(Calls(body, "super")) = (IF c.parent = None THEN 0 ELSE 1)
             /\ c.parent # None => Len(body[1].args) = Arity(Tail(line))
        \* every field is assigned, and read only when it is
        /\ \A f \in Elements(c.fields) :
             f.init = <<>> => \E i \in Calls(body, "set") : body[i].field = f.name /\ ~body[i].plus
        /\ \A i \in Calls(body, "set") : body[i].plus =>
             \E f \in Elements(c.fields) : f.name = body[i].field /\ f.init # <<>>
        /\ Mentions(body) \subseteq ObjectFields(line)
        /\ \A m \in Elements(c.methods) : m.body # <<>> =>
             /\ Mentions(m.body[1]) \subseteq ObjectFields(line)
             /\ calls(m.body[1]) \subseteq known
             /\ \A i \in Calls(m.body[1], "above") : Owner(Tail(line), m.body[1][i].method) # None
             /\ m.static => m.body[1] = <<>> \/ Mentions(m.body[1]) \cup calls(m.body[1]) = {}
        /\ \A m \in Elements(c.methods) : m.body = <<>> => c.abstract
        /\ ~c.abstract => \A m \in known : Owner(line, m) # None
        /\ \A i \in DOMAIN line : \A m \in Elements(line[i].methods) : \A n \in Elements(c.methods) :
             m.name = n.name => m.static = n.static
        \* what it promises to implement it has
        /\ \A m \in MethodsOf(is, Elements(c.implements)) : m \in known
        /\ DataOf(is, Elements(c.implements)) \subseteq ObjectFields(line)

---------------------------------------------------------------------------
(* What the transformer makes of it. *)

\* A method of a trait or impl.  self is "none", "ref" or "mut".
Method(name, self, body) == [name |-> name, self |-> self, body |-> body]

\* A variant: only += needs a mutable self.
NeedsMutSelfToAdd(body) == \E i \in Calls(body, "set") : body[i].plus

\* body_requires_mut_self_borrow: only an assignment to a field counts, not a
\* call of a method that needs it.
NeedsMutSelf(body) == Calls(body, "set") # {}

ConvertMethod(m) ==
    Method(m.name,
           IF m.static THEN "none" ELSE IF m.body # <<>> /\ NeedsMutSelf(m.body[1]) THEN "mut" ELSE "ref",
           m.body)

\* A static block becomes a function that nothing calls.
ConvertStaticBlock(b) == Method("_init_static", "none", <<b>>)

ConvertMethods(c) == [i \in DOMAIN c.methods |-> ConvertMethod(c.methods[i])]
                     \o [i \in DOMAIN c.blocks |-> ConvertStaticBlock(c.blocks[i])]

\* Initialisers of fields are dropped.
ConvertFields(c) ==
    [i \in DOMAIN c.fields |-> c.fields[i].name]
    \o LET props == SelectSeq(Params(c), LAMBDA p : p.prop) IN [i \in DOMAIN props |-> props[i].name]

\* A variant: the other statements of a constructor are lost.
AssignmentsOnly(c) ==
    LET k == c.ctor[1]
        props == SelectSeq(k.params, LAMBDA p : p.prop)
        sets  == SelectSeq(k.body, LAMBDA s : s.do = "set")
    IN  [params  |-> k.params,
         body    |-> SelectSeq(k.body, LAMBDA s : s.do = "super"),
         literal |-> [i \in DOMAIN props |-> [field |-> props[i].name, of |-> [is |-> "param", name |-> props[i].name]]]
                     \o [i \in DOMAIN sets |-> [field |-> sets[i].field, of |-> sets[i].of]]]

\* Assignments to fields of this move into one struct literal at the end,
\* whatever their operator; parameter properties are assigned first.
ConvertConstructor(c) ==
    LET k     == c.ctor[1]
        props == SelectSeq(k.params, LAMBDA p : p.prop)
        sets  == SelectSeq(k.body, LAMBDA s : s.do = "set")
    IN  [params  |-> k.params,
         body    |-> SelectSeq(k.body, LAMBDA s : s.do # "set"),
         literal |-> [i \in DOMAIN props |-> [field |-> props[i].name, of |-> [is |-> "param", name |-> props[i].name]]]
                     \o [i \in DOMAIN sets |-> [field |-> sets[i].field, of |-> sets[i].of]]]

\* super.m() is not converted, and the class is reported.
Converts(c) ==
    \A m \in Elements(c.methods) : m.body # <<>> => Calls(m.body[1], "above") = {}

ExtractClassInfo(c) ==
    [name |-> c.name, parent |-> c.parent, abstract |-> c.abstract, implements |-> c.implements,
     fields |-> ConvertFields(c),
     ctor |-> IF c.ctor = <<>> THEN <<>> ELSE <<ConvertConstructor(c)>>,
     methods |-> ConvertMethods(c)]

\* The classes of the file that convert.
PreScanClasses(cs) ==
    LET converted == SelectSeq(cs, Converts)
    IN  [i \in DOMAIN converted |-> ExtractClassInfo(converted[i])]

\* The names of the methods an interface declares itself.
PreScanInterfaceMethods(is) == [n \in {i.name : i \in {x \in Elements(is) : x.methods # {}}} |-> Named(is, n).methods]

\* super(args) assigns the parent's fields, in the order of their declaration.
SuperFits(ctor, parent) ==
    \A i \in Calls(ctor.body, "super") : Len(ctor.body[i].args) = Len(parent.fields)

RewriteSuperConstructor(ctor, parent) ==
    LET calls == SelectSeq(ctor.body, LAMBDA s : s.do = "super")
        supers == IF calls = <<>> THEN <<>>
                  ELSE [i \in DOMAIN parent.fields |-> [field |-> parent.fields[i], of |-> calls[1].args[i]]]
    IN  [ctor EXCEPT !.body = SelectSeq(@, LAMBDA s : s.do # "super"), !.literal = supers \o @]

Struct(name, fields) == [kind |-> "struct", name |-> name, fields |-> fields]
Trait(name, supers, methods) == [kind |-> "trait", name |-> name, supers |-> supers, methods |-> methods]
Impl(for, trait, ctor, methods) == [kind |-> "impl", name |-> for, trait |-> trait, ctor |-> ctor, methods |-> methods]

\* Nothing for an empty block.
MakeImpl(for, trait, ctor, methods) ==
    IF ctor = <<>> /\ methods = <<>> THEN <<>> ELSE <<Impl(for, trait, ctor, methods)>>

TraitOf(c) == [A |-> "ATrait", B |-> "BTrait", C |-> "CTrait"][c]

StandaloneClass(k) == <<Struct(k.name, k.fields)>> \o MakeImpl(k.name, None, k.ctor, k.methods)

\* A class that is extended: its methods stand in a trait.  What it extends
\* or implements itself is not looked at.
ParentClassItems(k) ==
    <<Struct(k.name, k.fields),
      Trait(TraitOf(k.name), <<>>, [i \in DOMAIN k.methods |-> [k.methods[i] EXCEPT !.body = <<>>]])>>
    \o MakeImpl(k.name, None, k.ctor, <<>>)
    \o MakeImpl(k.name, TraitOf(k.name), <<>>, k.methods)

\* An abstract class: a trait and nothing else; every method takes self.
AbstractClassItems(k) ==
    <<Trait(k.name, <<>>, [i \in DOMAIN k.methods |->
                             [k.methods[i] EXCEPT !.self = IF @ = "none" THEN "ref" ELSE @]])>>

ChildOfAbstract(k) ==
    <<Struct(k.name, k.fields)>>
    \o MakeImpl(k.name, None, k.ctor, <<>>)
    \o MakeImpl(k.name, k.parent, <<>>, k.methods)

\* The child has the parent's fields and a copy of the parent's bodies.
ChildClass(k, parent) ==
    <<Struct(k.name, parent.fields \o k.fields)>>
    \o MakeImpl(k.name, None,
                IF k.ctor = <<>> THEN <<>> ELSE <<RewriteSuperConstructor(k.ctor[1], parent)>>, k.methods)
    \o MakeImpl(k.name, TraitOf(parent.name), <<>>, parent.methods)

ItemsForClass(k, parent) == IF parent = <<>> THEN StandaloneClass(k) ELSE ChildClass(k, parent[1])

ClaimedBy(k, n, declared) ==
    IF n \in DOMAIN declared THEN SelectSeq(k.methods, LAMBDA m : m.name \in declared[n]) ELSE <<>>

\* One impl for each interface that the class has methods of.
ImplementsOf(k, declared) ==
    FlattenSeq([i \in DOMAIN k.implements |->
                  MakeImpl(k.name, k.implements[i], <<>>, ClaimedBy(k, k.implements[i], declared))])

Unclaimed(k, declared) ==
    SelectSeq(k.methods, LAMBDA m : \A n \in Elements(k.implements) : n \in DOMAIN declared => m.name \notin declared[n])

ChildClassWithImplements(k, parent, declared) ==
    LET items == ItemsForClass(k, parent)
    IN  [i \in DOMAIN items |->
            IF items[i].kind = "impl" /\ items[i].trait = None
            THEN [items[i] EXCEPT !.methods = Unclaimed(k, declared)] ELSE items[i]]
        \o ImplementsOf(k, declared)

ClassWithImplements(k, declared) ==
    <<Struct(k.name, k.fields)>>
    \o ImplementsOf(k, declared)
    \o MakeImpl(k.name, None, k.ctor, Unclaimed(k, declared))

TransformClass(k, infos, declared) ==
    LET parent == IF k.parent # None /\ HasName(infos, k.parent) THEN <<Named(infos, k.parent)>> ELSE <<>>
    IN  IF k.abstract THEN AbstractClassItems(k)
        ELSE IF k.name \in {x.parent : x \in Elements(infos)} THEN ParentClassItems(k)
        ELSE IF k.parent # None /\ parent # <<>> /\ parent[1].abstract THEN ChildOfAbstract(k)
        ELSE IF k.parent # None /\ k.implements # <<>> THEN ChildClassWithImplements(k, parent, declared)
        ELSE IF k.parent # None THEN ItemsForClass(k, parent)
        ELSE IF k.implements # <<>> THEN ClassWithImplements(k, declared)
        ELSE ItemsForClass(k, <<>>)

\* A call of super that does not fit the parent's fields is reported too.
Fits(k, infos) ==
    \/ k.abstract
    \/ k.name \in {x.parent : x \in Elements(infos)}
    \/ k.parent = None
    \/ ~HasName(infos, k.parent)
    \/ Named(infos, k.parent).abstract
    \/ k.ctor = <<>>
    \/ SuperFits(k.ctor[1], Named(infos, k.parent))

Reported(cs) ==
    LET infos == PreScanClasses(cs)
    IN  Len(infos) # Len(cs) \/ \E k \in Elements(infos) : ~Fits(k, infos)

\* An interface: a trait of its methods, or a struct of its properties and the
\* own properties of the interfaces it extends, or both and an empty impl.
ParentFields(is, i) ==
    FoldLeft(LAMBDA fs, n : fs \o SetToSeq(Named(is, n).data \ Elements(fs)), <<>>, i.extends)

InterfaceAsStruct(is, i) == <<Struct(i.name, ParentFields(is, i) \o SetToSeq(i.data))>>

Signatures(i) == LET ms == SetToSeq(i.methods) IN [j \in DOMAIN ms |-> Method(ms[j], "ref", <<>>)]

InterfaceAsTrait(i) == <<Trait(i.name, i.extends, Signatures(i))>>

DataStruct(i) == [J |-> "JData", K |-> "KData"][i]

InterfaceAsStructAndTrait(is, i) ==
    <<Struct(DataStruct(i.name), ParentFields(is, i) \o SetToSeq(i.data)),
      Trait(i.name, i.extends, Signatures(i)),
      Impl(DataStruct(i.name), i.name, <<>>,
           LET ms == Signatures(i) IN [j \in DOMAIN ms |-> [ms[j] EXCEPT !.body = << <<>> >>]])>>

ConvertInterface(is, i) ==
    IF i.methods # {} /\ i.data # {} THEN InterfaceAsStructAndTrait(is, i)
    ELSE IF i.methods # {} THEN InterfaceAsTrait(i)
    ELSE InterfaceAsStruct(is, i)

Items(is, cs) ==
    LET infos    == PreScanClasses(cs)
        declared == PreScanInterfaceMethods(is)
    IN  FlattenSeq([i \in DOMAIN is |-> ConvertInterface(is, is[i])])
        \o FlattenSeq([i \in DOMAIN infos |-> TransformClass(infos[i], infos, declared)])

---------------------------------------------------------------------------
(* The emitted items as rustc reads them. *)

OfKind(items, kind) == {x \in Elements(items) : x.kind = kind}

Declares(items, kind, n) == \E x \in OfKind(items, kind) : x.name = n

Declared(items, kind, n) == CHOOSE x \in OfKind(items, kind) : x.name = n

FieldsOf(items, c) == Declared(items, "struct", c).fields

ImplsOf(items, c) == {x \in OfKind(items, "impl") : x.name = c}

RECURSIVE WithSupers(_, _)
WithSupers(items, ts) ==
    LET up == UNION {Elements(Declared(items, "trait", t).supers) : t \in ts}
    IN  IF up \subseteq ts THEN ts ELSE WithSupers(items, ts \cup up)

Inherent(items, c, m) ==
    {[from |-> None, method |-> x] :
       x \in {y \in UNION {Elements(i.methods) : i \in {j \in ImplsOf(items, c) : j.trait = None}} : y.name = m}}

\* The method of the impl, or the one the trait provides.
Provided(items, c, t, m) ==
    LET impl == {x \in UNION {Elements(i.methods) : i \in {j \in ImplsOf(items, c) : j.trait = t}} : x.name = m}
    IN  IF impl # {} THEN {[from |-> None, method |-> x] : x \in impl}
        ELSE {[from |-> t, method |-> x] : x \in {y \in Elements(Declared(items, "trait", t).methods) : y.name = m}}

FromTraits(items, c, ts, m) ==
    UNION {{[of |-> t, is |-> p] : p \in Provided(items, c, t, m)} : t \in ts}

TraitsOf(items, c) == {i.trait : i \in {j \in ImplsOf(items, c) : j.trait # None}}

\* The methods a call may mean: those of one receiver, inherent before trait.
\* An owned object or a shared self is tried as a shared reference first, a
\* mutable self as a mutable one.
Picked(items, c, within, self, m) ==
    LET inherent == IF within = None THEN Inherent(items, c, m) ELSE {}
        traits   == FromTraits(items, c, IF within = None THEN TraitsOf(items, c)
                                         ELSE WithSupers(items, {within}), m)
        with(s)  == IF \E x \in inherent : x.method.self = s THEN {x \in inherent : x.method.self = s}
                    ELSE {p.is : p \in {q \in traits : q.is.method.self = s}}
        many(s)  == ~(\E x \in inherent : x.method.self = s)
                    /\ Cardinality({q \in traits : q.is.method.self = s}) > 1
        order    == IF self = "mut" THEN <<"mut", "ref">> ELSE <<"ref", "mut">>
        first    == IF with(order[1]) # {} THEN order[1] ELSE order[2]
    IN  IF many(first) THEN {} ELSE with(first)

\* A body in the type or trait c, read with the receiver self.
BodyAccepted(items, c, within, self, body) ==
    \A i \in DOMAIN body :
        CASE body[i].do = "say" ->
               \A f \in Reads(body[i].of) : within = None /\ self # "none" /\ f \in Elements(FieldsOf(items, c))
          [] body[i].do = "set" ->
               within = None /\ self = "mut" /\ {body[i].field} \cup Reads(body[i].of) \subseteq Elements(FieldsOf(items, c))
          [] body[i].do = "call" ->
               self # "none" /\ \E p \in Picked(items, c, within, self, body[i].method) :
                                   p.method.self = "mut" => self = "mut"
          [] OTHER -> FALSE

\* new returns a literal with every field once; an empty body is todo!().
NewAccepted(items, c, ctor) ==
    LET given == [i \in DOMAIN ctor.literal |-> ctor.literal[i].field]
    IN  IF ctor.literal = <<>> THEN ctor.body = <<>>
        ELSE /\ BodyAccepted(items, c, None, "none", ctor.body)
             /\ \A i \in DOMAIN ctor.literal : Reads(ctor.literal[i].of) = {}
             /\ IsInjective(given)
             /\ Elements(given) = Elements(FieldsOf(items, c))

\* A trait's own bodies are read once, for any type that implements it.
TraitAccepted(items, t) ==
    /\ \A s \in Elements(t.supers) : Declares(items, "trait", s)
    /\ \A m \in Elements(t.methods) : m.body # <<>> =>
         \A i \in DOMAIN m.body[1] :
            CASE m.body[1][i].do = "say" -> Reads(m.body[1][i].of) = {}
              [] m.body[1][i].do = "call" ->
                   \E x \in Elements(t.methods) : x.name = m.body[1][i].method /\ (x.self = "mut" => m.self = "mut")
              [] OTHER -> FALSE

ImplAccepted(items, i) ==
    /\ Declares(items, "struct", i.name)
    /\ i.trait # None =>
         /\ Declares(items, "trait", i.trait)
         /\ LET t == Declared(items, "trait", i.trait)
            IN  /\ \A m \in Elements(i.methods) : \E x \in Elements(t.methods) : x.name = m.name /\ x.self = m.self
                /\ \A x \in Elements(t.methods) : x.body = <<>> => HasName(i.methods, x.name)
                /\ \A s \in Elements(t.supers) : s \in TraitsOf(items, i.name)
    /\ \A m \in Elements(i.methods) : m.body # <<>> => BodyAccepted(items, i.name, None, m.self, m.body[1])
    /\ i.ctor # <<>> => NewAccepted(items, i.name, i.ctor[1])

Accepted(items) ==
    /\ \A x \in OfKind(items, "struct") : IsInjective(x.fields)
    /\ \A x \in OfKind(items, "trait") : TraitAccepted(items, x)
    /\ \A x \in OfKind(items, "impl") : ImplAccepted(items, x)

New(items, c) == UNION {Elements(i.ctor) : i \in ImplsOf(items, c)}

\* An associated function, called by its path.
Associated(items, c, m) ==
    IF Inherent(items, c, m) # {} THEN Inherent(items, c, m)
    ELSE {p.is : p \in FromTraits(items, c, TraitsOf(items, c), m)}

\* What the call of a use means.  A value of an interface type is a
\* Box<dyn Trait>; another class or a struct is another type.
Called(items, use) ==
    IF use.do = "static" THEN {p \in Associated(items, use.class, use.method) : p.method.self = "none"}
    ELSE IF use.as = use.class THEN Picked(items, use.class, None, "owned", use.method)
    ELSE IF Declares(items, "trait", use.as) /\ use.as \in TraitsOf(items, use.class)
         THEN Picked(items, use.class, use.as, "owned", use.method)
    ELSE {}

UseAccepted(items, use, fields) ==
    /\ Declares(items, "struct", use.class)
    /\ use.do # "static" => New(items, use.class) # {}
    /\ use.do = "show" => fields \subseteq Elements(FieldsOf(items, use.class))
    /\ use.do # "show" => Called(items, use) # {}

RECURSIVE Execute(_, _, _, _, _, _)
Execute(items, c, within, self, body, st) ==
    FoldLeft(LAMBDA s, step :
        CASE step.do = "say" -> [s EXCEPT !.out = Append(@, Shown(step.of, <<>>, s.obj))]
          [] step.do = "set" -> [s EXCEPT !.obj = Assigned(@, step.field,
                                    Value(step.of, <<>>, s.obj) + (IF step.plus THEN s.obj[step.field] ELSE 0))]
          [] step.do = "call" ->
               LET p == CHOOSE x \in Picked(items, c, within, self, step.method) : TRUE
               IN  Execute(items, c, p.from, p.method.self, p.method.body[1], s),
        st, body)

Built(ctor, args, st) ==
    LET env == Bound(ctor.params, args)
        said == FoldLeft(LAMBDA s, step : [s EXCEPT !.out = Append(@, Shown(step.of, env, <<>>))], st, ctor.body)
    IN  IF ctor.literal = <<>> THEN [st EXCEPT !.out = Append(@, <<"panics", "todo">>)]
        ELSE [said EXCEPT !.obj = [f \in {x.field : x \in Elements(ctor.literal)} |->
                                     Value(Named([i \in DOMAIN ctor.literal |->
                                                    [name |-> ctor.literal[i].field, of |-> ctor.literal[i].of]], f).of,
                                           env, <<>>)]]

Panics(st) == st.out # <<>> /\ Last(st.out)[1] = "panics"

Target(items, use, fields) ==
    LET ctor == CHOOSE k \in New(items, use.class) : TRUE
        made == IF use.do = "static" THEN Start ELSE Built(ctor, SubSeq(Arguments, 1, Len(ctor.params)), Start)
        p    == CHOOSE x \in Called(items, use) : TRUE
        end  == IF use.do = "show" \/ Panics(made) THEN made
                ELSE Execute(items, use.class, p.from, p.method.self, p.method.body[1], made)
    IN  [out |-> end.out, obj |-> IF use.do = "static" \/ Panics(end) THEN <<>> ELSE Shows(end.obj, fields)]

---------------------------------------------------------------------------
Init == pool \in Pools /\ interfaces = <<>> /\ classes = <<>>

DeclareInterface ==
    \E i \in pool.interfaces :
        /\ ~HasName(interfaces, i.name)
        /\ \A n \in Elements(i.extends) : HasName(interfaces, n)
        /\ classes = <<>>
        /\ interfaces' = Append(interfaces, i)
        /\ UNCHANGED <<pool, classes>>

DeclareClass ==
    \E c \in pool.classes :
        /\ ~HasName(classes, c.name)
        /\ WellTyped(interfaces, classes, c)
        /\ classes' = Append(classes, c)
        /\ UNCHANGED <<pool, interfaces>>

Next == DeclareInterface \/ DeclareClass

Spec == Init /\ [][Next]_vars

---------------------------------------------------------------------------
(* Properties. *)

Extended(c) == \E x \in Elements(classes) : x.parent = c.name

ParentIsAbstract(c) == c.parent # None /\ Named(classes, c.parent).abstract

Body(c) == IF c.ctor = <<>> THEN <<>> ELSE c.ctor[1].body

\* A class in the middle of a chain loses what it extends.
InTheMiddle(c) == c.parent # None /\ Extended(c)

\* super(...) stays where the parent is a trait.
SuperOfAbstract(c) == ParentIsAbstract(c) /\ c.ctor # <<>>

\* A constructor that assigns a field twice, or one of its parent.
AssignsTwice(c) ==
    LET sets == Calls(Body(c), "set")
    IN  \/ \E i, j \in sets : i # j /\ Body(c)[i].field = Body(c)[j].field
        \/ c.parent # None /\ \E i \in sets : Body(c)[i].field \in ObjectFields(Lineage(classes, c.parent))

\* A field whose only value is its initialiser.
Unassigned(c) ==
    c.ctor # <<>> /\ \E f \in Names(c.fields) : \A i \in Calls(Body(c), "set") : Body(c)[i].field # f

Bodies(c) == {m \in Elements(c.methods) : m.body # <<>>}

\* A constructor that reads this.
ReadsThis(c) == \E i \in DOMAIN Body(c) : Body(c)[i].do # "super" /\ Reads(Body(c)[i].of) # {}

\* A constructor that assigns no field, not even through super.
AssignsNothing(c) ==
    /\ c.ctor # <<>>
    /\ Calls(Body(c), "set") = {} /\ ~\E p \in Elements(Params(c)) : p.prop
    /\ c.parent # None => ConvertFields(Named(classes, c.parent)) = <<>>

\* A field of the parent declared again.
Redeclares(c) ==
    c.parent # None /\ Names(c.fields) \cap ObjectFields(Lineage(classes, c.parent)) # {}

Writes(m) == m.body # <<>> /\ Calls(m.body[1], "set") # {}

\* A method that writes nothing itself calls one that does.
CallsWriter(c) ==
    \E m \in Bodies(c) : ~Writes(m) /\
        \E i \in Calls(m.body[1], "call") : \E k \in Elements(classes) : \E x \in Elements(k.methods) :
            x.name = m.body[1][i].method /\ Writes(x)

\* A method uses a field of an abstract class, its own or an inherited one.
AbstractState(c) ==
    \E k \in Elements(Lineage(classes, c.name)) :
        k.abstract /\ \E m \in Bodies(c) : Mentions(m.body[1]) \cap Names(k.fields) # {}

\* A child of an abstract class that has a method of its own, or writes
\* where the abstract class does not say so.
OwnMethod(c) ==
    ParentIsAbstract(c) /\ \E m \in Bodies(c) : \A x \in Elements(Named(classes, c.parent).methods) :
                              ~(x.name = m.name /\ Writes(x) = Writes(m) /\ ~x.static)

\* An interface has a method that writes in the class.
InterfaceWrites(c) ==
    \E m \in Bodies(c) : Writes(m) /\ m.name \in MethodsOf(interfaces, Elements(c.implements))

\* Some of the interface's methods are the class's, others its parent's or
\* those of an interface it extends.
PartlyItsOwn(c) ==
    \E n \in Elements(c.implements) :
        LET all == MethodsOf(interfaces, {n}) IN all \cap Names(c.methods) \notin {{}, all}

ExtendsInterface(c) == \E n \in Elements(c.implements) : Named(interfaces, n).extends # <<>>

\* A method stands in two traits of the class: two interfaces, or an
\* interface and its parent.
TwoTraits(c) ==
    \E i \in DOMAIN c.implements : LET ms == MethodsOf(interfaces, {c.implements[i]})
        IN  \/ \E j \in DOMAIN c.implements : i # j /\ ms \cap MethodsOf(interfaces, {c.implements[j]}) # {}
            \/ c.parent # None /\ ms \cap Names(Named(classes, c.parent).methods) # {}

ItemForms(c) ==
    \/ InTheMiddle(c) \/ SuperOfAbstract(c) \/ AssignsTwice(c) \/ Unassigned(c)
    \/ ReadsThis(c) \/ (AssignsNothing(c) /\ Calls(Body(c), "say") # {}) \/ Redeclares(c) \/ CallsWriter(c)
    \/ AbstractState(c) \/ OwnMethod(c) \/ InterfaceWrites(c)
    \/ PartlyItsOwn(c) \/ ExtendsInterface(c) \/ TwoTraits(c)

LineOf(use) == Lineage(classes, use.class)

\* Without a constructor of its own a class has no new.
WithoutNew(use) == use.do # "static" /\ Named(classes, use.class).ctor = <<>>

\* A value of the class where a parent is expected.
Upcast(use) == use.as # use.class /\ HasName(classes, use.as)

\* A value of the class where an interface is expected: the class is extended,
\* or the interface or the method is not its own.
NotItsOwn(use) ==
    LET c == Named(classes, use.class)
    IN  /\ HasName(interfaces, use.as)
        /\ Extended(c) \/ use.as \notin Elements(c.implements) \/ use.method \notin Names(c.methods)

\* The static method of an abstract class gets a self.
StaticOfAbstract(use) == use.do = "static" /\ \E k \in Elements(LineOf(use)) : k.abstract

UseForms(use) ==
    \/ \E k \in Elements(LineOf(use)) : InTheMiddle(k) \/ TwoTraits(k)
    \/ WithoutNew(use) \/ Upcast(use) \/ NotItsOwn(use) \/ StaticOfAbstract(use)

\* A constructor whose effect is not to assign its parameters to the fields
\* in order: what super(...) means to the child.
DoesMore(c) ==
    LET k == ConvertConstructor(c)
    IN  c.ctor # <<>> /\ ~(/\ k.body = <<>>
                           /\ Len(k.literal) = Len(k.params)
                           /\ \A i \in DOMAIN k.literal :
                                k.literal[i] = [field |-> ConvertFields(c)[i],
                                                of |-> [is |-> "param", name |-> k.params[i].name]])

AddsInConstructor(c) == \E i \in Calls(Body(c), "set") : Body(c)[i].plus

\* An override that writes a field where the parent's does not, or the other
\* way: the copy of the parent's has another receiver and may be chosen.
WritesUnlikeParent(c) ==
    c.parent # None /\ \E m \in Bodies(c) : \E x \in Bodies(Named(classes, c.parent)) :
                          x.name = m.name /\ Writes(x) # Writes(m)

\* Where the emitted code does something else: a static block never runs,
\* super(...) assigns the parent's fields and does nothing more, += in a
\* constructor assigns, and a constructor that assigns nothing panics.
Losses(use) ==
    \/ \E c \in Elements(classes) : c.blocks # <<>>
    \/ \E k \in Elements(Tail(LineOf(use))) : DoesMore(k)
    \/ \E k \in Elements(LineOf(use)) : InTheMiddle(k) \/ AddsInConstructor(k) \/ WritesUnlikeParent(k)
    \/ AssignsNothing(LineOf(use)[1])

\* A file whose classes and interfaces all convert compiles, and so does every
\* use of its classes: constructing one, reading its fields, calling what it
\* declares, inherits or implements, on the class or on a value seen as a
\* parent or an interface.  ItemForms and UseForms name what does not.
\* (classes/generation.rs splits a class into up to three impl blocks by the
\* kinds of its parent and of each interface, helpers.rs decides each
\* receiver from one body alone.)
ClassesCompile ==
    classes # <<>> /\ ~Reported(classes) =>
        LET items == Items(interfaces, classes)
        IN  /\ Accepted(items) \/ \E c \in Elements(classes) : ItemForms(c)
            /\ Accepted(items) => \A use \in Uses(interfaces, classes) :
                 UseAccepted(items, use, ObjectFields(LineOf(use))) \/ UseForms(use)

\* What compiles prints the same and leaves the same fields, whichever body a
\* call means and whatever the order of the constructors' effects; Losses
\* names where it does not.
ClassesBehave ==
    classes # <<>> /\ ~Reported(classes) =>
        LET items == Items(interfaces, classes)
        IN  Accepted(items) => \A use \in Uses(interfaces, classes) :
                LET fields == ObjectFields(LineOf(use))
                IN  UseAccepted(items, use, fields) =>
                      Source(interfaces, classes, use) = Target(items, use, fields) \/ Losses(use)

=============================================================================
