------------------------------ MODULE Registry ------------------------------
(***************************************************************************)
(* The one registry of a process, which every agent sees through a view of *)
(* its own (component/registry.py, component/namespace.py).                *)
(*                                                                         *)
(* A name is a sequence of words, joined by '_' in the code: qualifying it *)
(* with a namespace is concatenation, so agent <<"a">>'s <<"b", "c">> and  *)
(* agent <<"a", "b">>'s <<"c">> have one key, as they do there.            *)
(***************************************************************************)
EXTENDS Naturals, FiniteSets, Sequences

Root == <<>>

\* A component: the kind it is looked up by, its namespace and its base name.
Component(kind, ns, base) == [kind |-> kind, ns |-> ns, base |-> base]

Qualified(ns, base) == ns \o base
KeyOf(c) == Qualified(c.ns, c.base)

(* A registry is the sequence of its components, in the dictionary's order. *)
Registered(reg) == {reg[i] : i \in DOMAIN reg}
Taken(reg, key) == \E c \in Registered(reg) : KeyOf(c) = key

(* What is at the places P of a list, in the order of the list.             *)
Picked(s, P) == [k \in 1..Cardinality(P) |-> s[CHOOSE i \in P : Cardinality({j \in P : j <= i}) = k]]

\* get_components_by_type, for one namespace.
OfKind(reg, kind, ns) == {c \in Registered(reg) : c.kind = kind /\ c.ns = ns}

\* A rename moves the entry to the end of the dictionary; a name another component has is refused.
RenameRefused(reg, c, base) == base # c.base /\ Taken(reg, Qualified(c.ns, base))
Rename(reg, c, base) ==
    IF base = c.base THEN reg
    ELSE Append(Picked(reg, {i \in DOMAIN reg : reg[i] # c}), [c EXCEPT !.base = base])

\* The wanted components take, in the order given, the places they have among themselves.
Reorder(reg, wanted) ==
    LET Slots(i) == {j \in 1..i : \E k \in DOMAIN wanted : wanted[k] = reg[j]}
    IN  [i \in DOMAIN reg |-> IF i \in Slots(i) THEN wanted[Cardinality(Slots(i))] ELSE reg[i]]

-----------------------------------------------------------------------------
(* What the view of namespace ns answers: a set of one component, or none.  *)

\* Mutant: the qualified name is taken for a proof of ownership.
LookupByKeyOnly(reg, ns, name) ==
    LET hit == {c \in Registered(reg) : KeyOf(c) = Qualified(ns, name)}
    IN  IF ns # Root /\ hit # {} THEN hit
        ELSE {c \in Registered(reg) : KeyOf(c) = name /\ (ns = Root \/ c.ns \in {ns, Root})}

\* By name: its own under the qualified name, else what is registered under the
\* bare one, unless that is a neighbour's; the root is told whosever it is.
Lookup(reg, ns, name) ==
    LET own == {c \in Registered(reg) : KeyOf(c) = Qualified(ns, name) /\ c.ns = ns}
    IN  IF ns # Root /\ own # {} THEN own
        ELSE {c \in Registered(reg) : KeyOf(c) = name /\ (ns = Root \/ c.ns \in {ns, Root})}

\* By class: the one of the agent, else the one of the root; two at a level are
\* ambiguous, which is refused.
Resolve(reg, ns, kind) ==
    LET At(level) == {c \in Registered(reg) : c.kind = kind /\ c.ns = level}
        level == IF At(ns) # {} THEN ns ELSE Root
    IN  IF Cardinality(At(level)) = 1 THEN At(level) ELSE {}

\* With a namespace named: its own or the root; a neighbour is refused, not answered.
AskedBy(reg, view, ns, name) == IF ns \in {view, Root} THEN Lookup(reg, ns, name) ELSE {}

\* By a class's name, else by the class (get_component, _resolve_single): what the
\* name belongs to has to be of the class.
Single(reg, ns, kind, base) ==
    LET named == Lookup(reg, ns, base)
    IN  IF named # {} THEN {c \in named : c.kind = kind} ELSE Resolve(reg, ns, kind)

\* The client of an agent, as its publishing service asks for it.
IOClient(reg, ns) == Single(reg, ns, "client", <<"io", "client", "base">>)

\* _runtime_named: a runtime of that name, or an error.
RuntimeNamed(reg, ns, name) == {c \in Lookup(reg, ns, name) : c.kind = "agent"}

\* _bind_runtime: the runtime the handler names; else the only one of its agent, by its
\* full key; with several, none.
BoundRuntime(reg, ns, named) ==
    LET own == OfKind(reg, "agent", ns)
    IN  IF named # <<>> THEN RuntimeNamed(reg, ns, named)
        ELSE IF Cardinality(own) = 1 THEN UNION {RuntimeNamed(reg, ns, KeyOf(c)) : c \in own} ELSE {}

-----------------------------------------------------------------------------
(* The caches: a function from agent and name to the service behind it.     *)

CacheAdded(store, ns, name, cache) ==
    [e \in DOMAIN store \cup {<<ns, name>>} |-> IF e = <<ns, name>> THEN cache ELSE store[e]]

\* get_all_caches: the names of one agent's.
CachesOf(store, ns) == {e[2] : e \in {x \in DOMAIN store : x[1] = ns}}

\* _cache_owner, get_cache: no fallback to the root, none to another name, and a view
\* that names a neighbour is refused.
CacheAsked(store, view, ns, name) ==
    IF ns \in {view, Root} /\ name \in CachesOf(store, ns) THEN {store[<<ns, name>>]} ELSE {}

-----------------------------------------------------------------------------
(* The words some name of the registry ends in: what can be asked for by name. *)
Tails(reg) == UNION {{SubSeq(KeyOf(c), i, Len(KeyOf(c))) : i \in DOMAIN KeyOf(c)} : c \in Registered(reg)}
=============================================================================
