---------------------------- MODULE Assembly_proofs ----------------------------
(***************************************************************************)
(* The start of a process, for every deployment and every image: what an   *)
(* agent finds is its own or the process's, what starts serves what was    *)
(* declared, and `asbs validate` says before what the start will say.  The *)
(* inductive invariant is built stage by stage: who is hosted, what is     *)
(* replayed, what is registered, what feeds the handlers; and, for the     *)
(* last, where each component and each refusal comes from.                 *)
(***************************************************************************)
EXTENDS Validation, Integers, FunctionTheorems, FiniteSetTheorems, SequenceTheorems, TLAPS

-----------------------------------------------------------------------------
(* The places of a list.                                                   *)

\* How many of the places are up to this one, and the place of that number.
UpTo(P, i) == {j \in P : j <= i}
Number(P, i) == Cardinality(UpTo(P, i))
PlaceOf(P, k) == CHOOSE i \in P : Number(P, i) = k

LEMMA Numbers ==
    ASSUME NEW m \in Nat, NEW P \in SUBSET (1..m)
    PROVE  /\ IsFiniteSet(P) /\ Cardinality(P) \in Nat
           /\ \A i \in P : Number(P, i) \in 1..Cardinality(P)
           /\ \A i, j \in P : Number(P, i) = Number(P, j) => i = j
           /\ \A i, j \in P : i < j => Number(P, i) < Number(P, j)
           /\ \A k \in 1..Cardinality(P) : \E i \in P : Number(P, i) = k
<1> DEFINE n == Cardinality(P)
           f == [i \in P |-> Number(P, i)]
<1>1. IsFiniteSet(P) /\ n \in Nat
    <2>1. IsFiniteSet(1..m)
        BY FS_Interval
    <2> QED BY <2>1, FS_Subset, FS_CardinalityType
<1>2. \A i : IsFiniteSet(UpTo(P, i)) /\ Number(P, i) \in Nat /\ Number(P, i) <= n
    <2> TAKE i
    <2>1. UpTo(P, i) \in SUBSET P
        BY DEF UpTo
    <2> QED BY <1>1, <2>1, FS_Subset, FS_CardinalityType DEF Number
<1>3. ASSUME NEW i \in P PROVE Number(P, i) \in 1..n
    <2>1. UpTo(P, i) # {}
        BY DEF UpTo
    <2>2. Number(P, i) # 0
        BY <1>2, <2>1, FS_EmptySet DEF Number
    <2> QED BY <1>1, <1>2, <2>2
<1>4. ASSUME NEW i \in P, NEW j \in P, i < j PROVE Number(P, i) < Number(P, j)
    <2>0. \A x \in P : x \in Int
        OBVIOUS
    <2>a. \A x \in UpTo(P, i) : x \in P /\ x <= j
        BY <1>4, <2>0 DEF UpTo
    <2>b. j <= j /\ ~(j <= i)
        BY <1>4, <2>0
    <2>1. UpTo(P, i) \in SUBSET UpTo(P, j) /\ j \in UpTo(P, j) /\ j \notin UpTo(P, i)
        BY <2>a, <2>b DEF UpTo
    <2>2. Number(P, i) <= Number(P, j) /\ Number(P, i) # Number(P, j)
        BY <1>2, <2>1, FS_Subset DEF Number
    <2> QED BY <1>2, <2>2
<1>5. \A i, j \in P : Number(P, i) = Number(P, j) => i = j
    <2> SUFFICES ASSUME NEW i \in P, NEW j \in P, i # j PROVE Number(P, i) # Number(P, j)
        OBVIOUS
    <2>1. CASE i < j
        BY <1>2, <1>4, <2>1
    <2>2. CASE j < i
        BY <1>2, <1>4, <2>2
    <2> QED BY <2>1, <2>2
<1> HIDE DEF n
<1>6. f \in [P -> 1..n] /\ \A i \in P : f[i] = Number(P, i)
    BY <1>3
<1>7. f \in Surjection(P, 1..n)
    <2> HIDE DEF f
    <2>1. f \in Injection(P, 1..n)
        BY <1>5, <1>6, Fun_IsInj
    <2>2. IsFiniteSet(1..n) /\ Cardinality(1..n) = n
        BY <1>1, FS_Interval
    <2> QED BY <1>1, <2>1, <2>2, FS_Injection DEF n
<1> HIDE DEF f
<1>8. \A k \in 1..n : \E i \in P : Number(P, i) = k
    BY <1>6, <1>7 DEF Surjection
<1> QED BY <1>1, <1>3, <1>4, <1>5, <1>8 DEF n

LEMMA Places ==
    ASSUME NEW m \in Nat, NEW P \in SUBSET (1..m)
    PROVE  /\ \A k \in 1..Cardinality(P) : PlaceOf(P, k) \in P /\ Number(P, PlaceOf(P, k)) = k
           /\ \A i \in P : PlaceOf(P, Number(P, i)) = i
           /\ \A k, l \in 1..Cardinality(P) : PlaceOf(P, k) = PlaceOf(P, l) => k = l
<1>1. \A k \in 1..Cardinality(P) : PlaceOf(P, k) \in P /\ Number(P, PlaceOf(P, k)) = k
    BY Numbers DEF PlaceOf
<1>2. \A i \in P : PlaceOf(P, Number(P, i)) = i
    <2> TAKE i \in P
    <2>1. Number(P, i) \in 1..Cardinality(P) /\ \A j \in P : Number(P, i) = Number(P, j) => i = j
        BY Numbers
    <2> QED BY <1>1, <2>1
<1> QED BY <1>1, <1>2

\* What is picked, in its order.
LEMMA PickedAt ==
    ASSUME NEW S, NEW s \in Seq(S), NEW P \in SUBSET DOMAIN s
    PROVE  /\ Picked(s, P) \in Seq(S) /\ Len(Picked(s, P)) = Cardinality(P) /\ Cardinality(P) \in Nat
           /\ \A k \in DOMAIN Picked(s, P) : PlaceOf(P, k) \in P /\ Picked(s, P)[k] = s[PlaceOf(P, k)]
           /\ \A i \in P : Number(P, i) \in DOMAIN Picked(s, P) /\ Picked(s, P)[Number(P, i)] = s[i]
           /\ \A k, l \in DOMAIN Picked(s, P) : PlaceOf(P, k) = PlaceOf(P, l) => k = l
           /\ Seqs(Picked(s, P)) = {s[i] : i \in P}
<1>1. DOMAIN s = 1..Len(s) /\ Len(s) \in Nat /\ \A i \in DOMAIN s : s[i] \in S
    BY ElementOfSeq, LenProperties
<1> DEFINE n == Cardinality(P)
<1>2. n \in Nat /\ \A i \in P : Number(P, i) \in 1..n
    BY <1>1, Numbers
<1>3. /\ \A k \in 1..n : PlaceOf(P, k) \in P /\ Number(P, PlaceOf(P, k)) = k
      /\ \A i \in P : PlaceOf(P, Number(P, i)) = i
      /\ \A k, l \in 1..n : PlaceOf(P, k) = PlaceOf(P, l) => k = l
    BY <1>1, Places
<1>4. Picked(s, P) = [k \in 1..n |-> s[PlaceOf(P, k)]]
    BY DEF Picked, PlaceOf, Number, UpTo
<1> HIDE DEF n
<1>5. \A k \in 1..n : s[PlaceOf(P, k)] \in S
    BY <1>1, <1>3
<1>6. Picked(s, P) \in [1..n -> S]
    BY <1>4, <1>5
<1>7. Picked(s, P) \in Seq(S) /\ Len(Picked(s, P)) = n /\ DOMAIN Picked(s, P) = 1..n
    BY <1>2, <1>6, SeqDef, LenProperties
<1>8. \A i \in P : Picked(s, P)[Number(P, i)] = s[i]
    BY <1>2, <1>3, <1>4
<1>9. Seqs(Picked(s, P)) = {s[i] : i \in P}
    <2>1. ASSUME NEW k \in 1..n PROVE Picked(s, P)[k] \in {s[i] : i \in P}
        BY <1>3, <1>4
    <2>2. ASSUME NEW i \in P PROVE s[i] \in Seqs(Picked(s, P))
        BY <1>2, <1>7, <1>8 DEF Seqs
    <2> QED BY <1>7, <2>1, <2>2 DEF Seqs
<1> QED BY <1>2, <1>3, <1>4, <1>7, <1>8, <1>9 DEF n

\* Lists without repetition stay so when something is picked.
Distinct(s) == \A i, j \in DOMAIN s : s[i] = s[j] => i = j

LEMMA PickedDistinct ==
    ASSUME NEW S, NEW s \in Seq(S), NEW P \in SUBSET DOMAIN s, \A i, j \in P : s[i] = s[j] => i = j
    PROVE  Distinct(Picked(s, P))
BY PickedAt DEF Distinct

-----------------------------------------------------------------------------
(* The registry: no two components have one key.                           *)

KindSet == {"handler", "service", "agent", "scheduler", "rest_api", "cache", "health_checker", "client", "redis", "disk"}
FrameworkWords == {"tick", "cache", "redis", "disk", "nats", "dapr", "sessions", "client", "api", "session", "key", "provider",
                   "event", "processing", "publishing", "service"}
Path == Seq(STRING \cup FrameworkWords)
Comp == [kind : KindSet, ns : Name, base : Path]

LEMMA NameIsPath == Name \subseteq Path
BY SeqMonotonic DEF Name, Path
KeysDistinct(reg) == \A i, j \in DOMAIN reg : KeyOf(reg[i]) = KeyOf(reg[j]) => i = j

LEMMA KeyedOnce ==
    ASSUME NEW reg, KeysDistinct(reg)
    PROVE  \A c, d \in Registered(reg) : KeyOf(c) = KeyOf(d) => c = d
BY DEF KeysDistinct, Registered

LEMMA AfterConcat ==
    ASSUME NEW S, NEW s \in Seq(S), NEW t \in Seq(S)
    PROVE  /\ s \o t \in Seq(S) /\ Len(s \o t) = Len(s) + Len(t)
           /\ \A i \in DOMAIN (s \o t) : \/ i \in DOMAIN s /\ (s \o t)[i] = s[i]
                                         \/ i \notin DOMAIN s /\ i - Len(s) \in DOMAIN t /\ (s \o t)[i] = t[i - Len(s)]
           /\ \A i \in DOMAIN s : i \in DOMAIN (s \o t) /\ (s \o t)[i] = s[i]
           /\ \A i \in DOMAIN t : Len(s) + i \in DOMAIN (s \o t) /\ Len(s) + i \notin DOMAIN s /\ (s \o t)[Len(s) + i] = t[i]
           /\ Seqs(s \o t) = Seqs(s) \cup Seqs(t)
<1>1. /\ Len(s) \in Nat /\ Len(t) \in Nat /\ DOMAIN s = 1..Len(s) /\ DOMAIN t = 1..Len(t)
      /\ s \o t \in Seq(S) /\ Len(s \o t) = Len(s) + Len(t) /\ DOMAIN (s \o t) = 1..(Len(s) + Len(t))
      /\ \A i \in 1..(Len(s) + Len(t)) : (s \o t)[i] = IF i <= Len(s) THEN s[i] ELSE t[i - Len(s)]
    BY ConcatProperties, LenProperties
<1> DEFINE u == s \o t
<1>2. u = s \o t
    OBVIOUS
<1> HIDE DEF u
<1>3. ASSUME NEW i \in DOMAIN u
      PROVE  \/ i \in DOMAIN s /\ u[i] = s[i]
             \/ i \notin DOMAIN s /\ i - Len(s) \in DOMAIN t /\ u[i] = t[i - Len(s)]
    BY <1>1, <1>2
<1>4. ASSUME NEW i \in DOMAIN s PROVE i \in DOMAIN u /\ u[i] = s[i]
    BY <1>1, <1>2
<1>5. ASSUME NEW i \in DOMAIN t PROVE Len(s) + i \in DOMAIN u /\ Len(s) + i \notin DOMAIN s /\ u[Len(s) + i] = t[i]
    <2>1. Len(s) + i \in 1..(Len(s) + Len(t)) /\ ~(Len(s) + i <= Len(s)) /\ (Len(s) + i) - Len(s) = i
        BY <1>1
    <2> QED BY <1>1, <1>2, <2>1
<1>6. Seqs(u) = Seqs(s) \cup Seqs(t)
    <2>1. ASSUME NEW x \in Seqs(u) PROVE x \in Seqs(s) \cup Seqs(t)
        BY <1>3, <2>1 DEF Seqs
    <2>2. ASSUME NEW x \in Seqs(s) \cup Seqs(t) PROVE x \in Seqs(u)
        BY <1>4, <1>5, <2>2 DEF Seqs
    <2> QED BY <2>1, <2>2
<1>7. u \in Seq(S) /\ Len(u) = Len(s) + Len(t)
    BY <1>1, <1>2
<1>8. \A i \in DOMAIN u : \/ i \in DOMAIN s /\ u[i] = s[i]
                          \/ i \notin DOMAIN s /\ i - Len(s) \in DOMAIN t /\ u[i] = t[i - Len(s)]
    BY <1>3
<1>9. \A i \in DOMAIN s : i \in DOMAIN u /\ u[i] = s[i]
    BY <1>4
<1>10. \A i \in DOMAIN t : Len(s) + i \in DOMAIN u /\ Len(s) + i \notin DOMAIN s /\ u[Len(s) + i] = t[i]
    BY <1>5
<1> QED BY <1>6, <1>7, <1>8, <1>9, <1>10 DEF u

LEMMA AfterAppend ==
    ASSUME NEW S, NEW s \in Seq(S), NEW e \in S
    PROVE  /\ Append(s, e) \in Seq(S) /\ Append(s, e) = s \o <<e>> /\ <<e>> \in Seq(S) /\ Seqs(<<e>>) = {e}
           /\ Seqs(Append(s, e)) = Seqs(s) \cup {e}
           /\ DOMAIN <<e>> = {1} /\ <<e>>[1] = e
<1>1. Append(s, e) \in Seq(S) /\ Append(s, e) = s \o <<e>> /\ <<e>> \in Seq(S)
    BY AppendProperties, AppendIsConcat
<1>2. DOMAIN <<e>> = {1} /\ <<e>>[1] = e
    OBVIOUS
<1>3. Seqs(<<e>>) = {e}
    BY <1>2 DEF Seqs
<1>4. Seqs(s \o <<e>>) = Seqs(s) \cup Seqs(<<e>>)
    BY <1>1, AfterConcat
<1> QED BY <1>1, <1>2, <1>3, <1>4

\* What is registered when no name is in use.
LEMMA Extended ==
    ASSUME NEW reg \in Seq(Comp), NEW made \in Seq(Comp), KeysDistinct(reg), ~Collides(reg, made)
    PROVE  /\ reg \o made \in Seq(Comp) /\ KeysDistinct(reg \o made)
           /\ Registered(reg \o made) = Registered(reg) \cup Seqs(made)
           /\ \A c \in Seqs(made) : c \notin Registered(reg)
<1> DEFINE u == reg \o made
<1>1. /\ u \in Seq(Comp) /\ Seqs(u) = Seqs(reg) \cup Seqs(made)
      /\ \A i \in DOMAIN u : \/ i \in DOMAIN reg /\ u[i] = reg[i]
                             \/ i \notin DOMAIN reg /\ i - Len(reg) \in DOMAIN made /\ u[i] = made[i - Len(reg)]
    BY AfterConcat
<1>2. Len(reg) \in Nat /\ DOMAIN u = 1..Len(u) /\ Len(u) \in Nat
    BY <1>1, LenProperties
<1>a. \A i \in DOMAIN u : i \in Int
    BY <1>2
<1> HIDE DEF u
<1>3. \A i \in DOMAIN made : \A k \in DOMAIN reg : KeyOf(reg[k]) # KeyOf(made[i])
    BY DEF Collides, Taken, Registered
<1>4. \A i, j \in DOMAIN made : KeyOf(made[i]) = KeyOf(made[j]) => i = j
    BY DEF Collides
<1>5. ASSUME NEW i \in DOMAIN u, NEW j \in DOMAIN u, KeyOf(u[i]) = KeyOf(u[j]) PROVE i = j
    <2>1. CASE i \in DOMAIN reg /\ j \in DOMAIN reg
        BY <1>1, <1>5, <2>1 DEF KeysDistinct
    <2>2. CASE i \in DOMAIN reg /\ j \notin DOMAIN reg
        BY <1>1, <1>3, <1>5, <2>2
    <2>3. CASE i \notin DOMAIN reg /\ j \in DOMAIN reg
        BY <1>1, <1>3, <1>5, <2>3
    <2>4. CASE i \notin DOMAIN reg /\ j \notin DOMAIN reg
        <3>1. i - Len(reg) = j - Len(reg)
            BY <1>1, <1>4, <1>5, <2>4
        <3> QED BY <1>2, <1>a, <3>1
    <2> QED BY <2>1, <2>2, <2>3, <2>4
<1>6. KeysDistinct(u)
    BY <1>5 DEF KeysDistinct
<1>7. \A c \in Seqs(made) : c \notin Registered(reg)
    BY <1>3 DEF Registered, Seqs
<1> QED BY <1>1, <1>6, <1>7 DEF u, Registered, Seqs

LEMMA ExtendedByOne ==
    ASSUME NEW reg \in Seq(Comp), NEW c \in Comp, KeysDistinct(reg), ~Taken(reg, KeyOf(c))
    PROVE  /\ Append(reg, c) \in Seq(Comp) /\ KeysDistinct(Append(reg, c))
           /\ Registered(Append(reg, c)) = Registered(reg) \cup {c}
           /\ c \notin Registered(reg)
<1>1. Append(reg, c) = reg \o <<c>> /\ <<c>> \in Seq(Comp) /\ Seqs(<<c>>) = {c} /\ DOMAIN <<c>> = {1} /\ <<c>>[1] = c
    BY AfterAppend
<1>2. ~Collides(reg, <<c>>)
    BY <1>1 DEF Collides
<1> DEFINE one == <<c>>
<1>3. one \in Seq(Comp) /\ Seqs(one) = {c} /\ ~Collides(reg, one) /\ Append(reg, c) = reg \o one
    BY <1>1, <1>2
<1> HIDE DEF one
<1>4. /\ reg \o one \in Seq(Comp) /\ KeysDistinct(reg \o one)
      /\ Registered(reg \o one) = Registered(reg) \cup Seqs(one)
      /\ \A d \in Seqs(one) : d \notin Registered(reg)
    BY <1>3, Extended
<1> QED BY <1>3, <1>4

\* What is left out of a registry.
LEMMA Without ==
    ASSUME NEW reg \in Seq(Comp), KeysDistinct(reg), NEW c
    PROVE  LET rest == Picked(reg, {i \in DOMAIN reg : reg[i] # c})
           IN  /\ rest \in Seq(Comp) /\ KeysDistinct(rest)
               /\ Registered(rest) = Registered(reg) \ {c}
<1> DEFINE P == {i \in DOMAIN reg : reg[i] # c}
           rest == Picked(reg, P)
<1>0. P \in SUBSET DOMAIN reg
    OBVIOUS
<1> HIDE DEF P
<1>1. /\ rest \in Seq(Comp)
      /\ \A k \in DOMAIN rest : PlaceOf(P, k) \in P /\ rest[k] = reg[PlaceOf(P, k)]
      /\ \A k, l \in DOMAIN rest : PlaceOf(P, k) = PlaceOf(P, l) => k = l
      /\ Seqs(rest) = {reg[i] : i \in P}
    BY <1>0, PickedAt
<1> HIDE DEF rest
<1>2. KeysDistinct(rest)
    BY <1>0, <1>1 DEF KeysDistinct
<1>3. Seqs(rest) = Registered(reg) \ {c}
    BY <1>1 DEF Registered, P
<1> QED BY <1>1, <1>2, <1>3 DEF Registered, Seqs, rest, P

LEMMA Renamed ==
    ASSUME NEW reg \in Seq(Comp), KeysDistinct(reg), NEW kind \in KindSet, NEW ns \in Name, NEW own \in Path, NEW base \in Path,
           Component(kind, ns, own) \in Registered(reg), ~RenameRefused(reg, Component(kind, ns, own), base)
    PROVE  LET self == Component(kind, ns, own)
           IN  /\ Rename(reg, self, base) \in Seq(Comp) /\ KeysDistinct(Rename(reg, self, base))
               /\ Registered(Rename(reg, self, base)) = (Registered(reg) \ {self}) \cup {Component(kind, ns, base)}
               /\ Component(kind, ns, base) \in Registered(reg) => base = own
<1> DEFINE self == Component(kind, ns, own)
           renamed == Component(kind, ns, base)
           rest == Picked(reg, {i \in DOMAIN reg : reg[i] # self})
<1>1. self.base = own /\ self.ns = ns /\ [self EXCEPT !.base = base] = renamed /\ renamed \in Comp /\ KeyOf(renamed) = ns \o base
    BY DEF Component, Comp, KeyOf, Qualified
<1> HIDE DEF self, renamed
<1>2. CASE base = own
    <2>1. Rename(reg, self, base) = reg /\ renamed = self
        BY <1>1, <1>2 DEF Rename, renamed, self
    <2> QED BY <1>2, <2>1 DEF self, renamed
<1>3. CASE base # own
    <2>1. rest \in Seq(Comp) /\ KeysDistinct(rest) /\ Registered(rest) = Registered(reg) \ {self}
        BY Without
    <2>2. Rename(reg, self, base) = Append(rest, renamed)
        BY <1>1, <1>3 DEF Rename
    <2>3. ~Taken(reg, KeyOf(renamed))
        BY <1>1, <1>3 DEF RenameRefused, self, Qualified
    <2> HIDE DEF rest
    <2>4. ~Taken(rest, KeyOf(renamed)) /\ renamed \notin Registered(reg)
        BY <2>1, <2>3 DEF Taken
    <2>5. /\ Append(rest, renamed) \in Seq(Comp) /\ KeysDistinct(Append(rest, renamed))
          /\ Registered(Append(rest, renamed)) = Registered(rest) \cup {renamed}
        BY <1>1, <2>1, <2>4, ExtendedByOne
    <2>6. Registered(Rename(reg, self, base)) = (Registered(reg) \ {self}) \cup {renamed}
        BY <2>1, <2>2, <2>5
    <2>7. Rename(reg, self, base) \in Seq(Comp) /\ KeysDistinct(Rename(reg, self, base))
        BY <2>2, <2>5
    <2> QED BY <2>4, <2>6, <2>7 DEF self, renamed
<1> QED BY <1>2, <1>3

\* The wanted components, which the registry holds, are put into their order, and nothing else changes.
LEMMA Reordered ==
    ASSUME NEW reg \in Seq(Comp), KeysDistinct(reg), NEW W \in Seq(Comp), Distinct(W), Seqs(W) \subseteq Registered(reg)
    PROVE  LET new == Reorder(reg, W)
           IN  /\ new \in Seq(Comp) /\ KeysDistinct(new) /\ Registered(new) = Registered(reg)
               /\ Picked(new, {i \in DOMAIN new : new[i] \in Seqs(W)}) = W
<1> DEFINE n == Len(reg)
           m == Len(W)
           P == {i \in DOMAIN reg : reg[i] \in Seqs(W)}
           new == Reorder(reg, W)
           at == [i \in P |-> CHOOSE k \in 1..m : W[k] = reg[i]]
<1>1. /\ n \in Nat /\ m \in Nat /\ DOMAIN reg = 1..n /\ DOMAIN W = 1..m
      /\ (\A i \in 1..n : reg[i] \in Comp) /\ (\A k \in 1..m : W[k] \in Comp)
    BY ElementOfSeq, LenProperties
<1>2. \A i \in P : \E k \in 1..m : W[k] = reg[i]
    BY <1>1 DEF Seqs
<1>3. \A k \in 1..m : \E i \in P : W[k] = reg[i]
    BY <1>1 DEF Seqs, Registered
<1>4. \A i, j \in 1..n : reg[i] = reg[j] => i = j
    BY <1>1 DEF KeysDistinct
<1>5. \A i \in DOMAIN reg : i \in P <=> \E k \in DOMAIN W : W[k] = reg[i]
    BY DEF Seqs
<1>6. P \in SUBSET (1..n)
    BY <1>1
<1> HIDE DEF P
<1>7. at \in [P -> 1..m] /\ \A i \in P : W[at[i]] = reg[i]
    BY <1>2
<1> HIDE DEF at
<1>8. at \in Bijection(P, 1..m)
    <2>1. \A i, j \in P : at[i] = at[j] => i = j
        BY <1>4, <1>6, <1>7
    <2>2. \A k \in 1..m : \E i \in P : at[i] = k
        <3> TAKE k \in 1..m
        <3>1. PICK i \in P : W[k] = reg[i]
            BY <1>3
        <3>2. at[i] = k
            BY <1>1, <1>7, <3>1 DEF Distinct
        <3> QED BY <3>2
    <2> QED BY <1>7, <2>1, <2>2 DEF Bijection, Injection, Surjection, IsInjective
<1>9. Cardinality(P) = m /\ IsFiniteSet(P)
    <2>1. IsFiniteSet(P)
        BY <1>1, <1>6, Numbers
    <2>2. ExistsBijection(P, 1..m)
        BY <1>8 DEF ExistsBijection
    <2>3. Cardinality(1..m) = Cardinality(P)
        BY <2>1, <2>2, FS_Bijection
    <2>4. Cardinality(1..m) = m
        <3> HIDE DEF m
        <3>1. 1 \in Int /\ m \in Int /\ (1 > m => m = 0) /\ m - 1 + 1 = m
            BY <1>1
        <3> QED BY <3>1, FS_Interval
    <2> QED BY <2>1, <2>3, <2>4
<1>10. /\ \A i \in P : Number(P, i) \in 1..m /\ PlaceOf(P, Number(P, i)) = i
       /\ \A k \in 1..m : PlaceOf(P, k) \in P /\ Number(P, PlaceOf(P, k)) = k
       /\ \A i, j \in P : Number(P, i) = Number(P, j) => i = j
    BY <1>1, <1>6, <1>9, Numbers, Places
<1>11. \A i \in 1..n : {j \in 1..i : \E k \in DOMAIN W : W[k] = reg[j]} = UpTo(P, i)
    <2> TAKE i \in 1..n
    <2>1. \A j \in 1..i : j \in 1..n /\ j <= i
        BY <1>1
    <2>2. \A j \in P : j <= i => j \in 1..i
        BY <1>1, <1>6
    <2> QED BY <1>1, <1>5, <2>1, <2>2 DEF UpTo
<1>12. new = [i \in 1..n |-> IF i \in P THEN W[Number(P, i)] ELSE reg[i]]
    <2> DEFINE Slots(i) == {j \in 1..i : \E k \in DOMAIN W : W[k] = reg[j]}
    <2>1. new = [i \in DOMAIN reg |-> IF i \in Slots(i) THEN W[Cardinality(Slots(i))] ELSE reg[i]]
        BY DEF Reorder
    <2>2. \A i \in 1..n : Slots(i) = UpTo(P, i)
        BY <1>11
    <2> HIDE DEF Slots
    <2>3. \A i \in 1..n : i \in UpTo(P, i) <=> i \in P
        BY DEF UpTo
    <2>4. \A i \in 1..n : (IF i \in Slots(i) THEN W[Cardinality(Slots(i))] ELSE reg[i]) = (IF i \in P THEN W[Number(P, i)] ELSE reg[i])
        BY <2>2, <2>3 DEF Number
    <2> QED BY <1>1, <2>1, <2>4
<1> HIDE DEF new, n, m
<1>13. /\ DOMAIN new = 1..n
       /\ \A i \in P : i \in 1..n /\ new[i] = W[Number(P, i)]
       /\ \A i \in 1..n : i \notin P => new[i] = reg[i]
    BY <1>6, <1>12
<1>14. new \in Seq(Comp)
    <2>1. \A i \in 1..n : new[i] \in Comp
        BY <1>1, <1>10, <1>13
    <2>2. new \in [1..n -> Comp]
        BY <1>12, <2>1
    <2> QED BY <1>1, <2>2, SeqDef
<1>15. \A i \in 1..n : new[i] \in Registered(reg)
    BY <1>1, <1>10, <1>13 DEF Registered, Seqs
<1>16. \A i \in 1..n : i \in P <=> new[i] \in Seqs(W)
    <2> TAKE i \in 1..n
    <2>1. CASE i \in P
        BY <1>1, <1>10, <1>13, <2>1 DEF Seqs
    <2>2. CASE i \notin P
        BY <1>1, <1>5, <1>13, <2>2 DEF Seqs
    <2> QED BY <2>1, <2>2
<1>17. KeysDistinct(new)
    <2> SUFFICES ASSUME NEW i \in 1..n, NEW j \in 1..n, KeyOf(new[i]) = KeyOf(new[j]) PROVE i = j
        BY <1>13 DEF KeysDistinct
    <2>1. new[i] = new[j]
        BY <1>15, KeyedOnce
    <2>2. CASE i \in P
        <3>1. j \in P
            BY <1>16, <2>1, <2>2
        <3>2. Number(P, i) = Number(P, j)
            BY <1>1, <1>10, <1>13, <2>1, <2>2, <3>1 DEF Distinct
        <3> QED BY <1>10, <2>2, <3>1, <3>2
    <2>3. CASE i \notin P
        <3>1. j \notin P
            BY <1>16, <2>1, <2>3
        <3> QED BY <1>4, <1>13, <2>1, <2>3, <3>1
    <2> QED BY <2>2, <2>3
<1>18. Registered(new) = Registered(reg)
    <2>1. ASSUME NEW i \in 1..n PROVE reg[i] \in Registered(new)
        <3>1. CASE i \in P
            <4>1. PICK k \in 1..m : W[k] = reg[i]
                BY <1>2, <3>1
            <4>2. PlaceOf(P, k) \in 1..n /\ new[PlaceOf(P, k)] = W[k]
                BY <1>10, <1>13
            <4> QED BY <1>13, <4>1, <4>2 DEF Registered
        <3>2. CASE i \notin P
            BY <1>13, <3>2 DEF Registered
        <3> QED BY <3>1, <3>2
    <2> QED BY <1>1, <1>13, <1>15, <2>1 DEF Registered
<1>19. Picked(new, {i \in DOMAIN new : new[i] \in Seqs(W)}) = W
    <2>1. {i \in DOMAIN new : new[i] \in Seqs(W)} = P
        BY <1>6, <1>13, <1>16
    <2>2. P \in SUBSET DOMAIN new
        BY <1>6, <1>13
    <2>3. /\ Picked(new, P) \in Seq(Comp) /\ Len(Picked(new, P)) = Cardinality(P)
          /\ \A k \in DOMAIN Picked(new, P) : Picked(new, P)[k] = new[PlaceOf(P, k)]
        BY <1>14, <2>2, PickedAt
    <2>4. DOMAIN Picked(new, P) = 1..m
        BY <1>9, <2>3, LenProperties
    <2>5. \A k \in 1..m : Picked(new, P)[k] = W[k]
        BY <1>10, <1>13, <2>3, <2>4
    <2>6. Len(Picked(new, P)) = m
        BY <1>9, <2>3
    <2> QED BY <2>1, <2>3, <2>5, <2>6, SeqEqual DEF m
<1> QED BY <1>14, <1>17, <1>18, <1>19 DEF new

\* A list is of what is in it.
LEMMA Within ==
    ASSUME NEW S, NEW T, NEW s \in Seq(S), Seqs(s) \subseteq T
    PROVE  s \in Seq(T)
<1>1. Len(s) \in Nat /\ DOMAIN s = 1..Len(s) /\ s \in [1..Len(s) -> S]
    BY LenProperties
<1>2. \A i \in 1..Len(s) : s[i] \in T
    BY <1>1 DEF Seqs
<1>3. s \in [1..Len(s) -> T]
    BY <1>1, <1>2
<1> QED BY <1>1, <1>3, SeqDef

LEMMA Members ==
    ASSUME NEW S, NEW s \in Seq(S)
    PROVE  /\ Len(s) \in Nat /\ DOMAIN s = 1..Len(s) /\ \A i \in DOMAIN s : s[i] \in S
           /\ Seqs(s) \subseteq S
<1>1. Len(s) \in Nat /\ DOMAIN s = 1..Len(s) /\ \A i \in DOMAIN s : s[i] \in S
    BY ElementOfSeq, LenProperties
<1> QED BY <1>1 DEF Seqs

\* A list as long as the set of its members repeats none.
LEMMA NoRepeats ==
    ASSUME NEW S, NEW s \in Seq(S), ~(Cardinality(Seqs(s)) < Len(s))
    PROVE  Distinct(s)
<1> DEFINE n == Len(s)
<1>1. n \in Nat /\ DOMAIN s = 1..n /\ s \in [1..n -> S]
    BY LenProperties
<1>2. s \in [1..n -> Seqs(s)] /\ \A x \in Seqs(s) : \E i \in 1..n : s[i] = x
    BY <1>1 DEF Seqs
<1>3. s \in Surjection(1..n, Seqs(s))
    BY <1>2 DEF Surjection
<1>4. IsFiniteSet(1..n) /\ Cardinality(1..n) = n
    <2> HIDE DEF n
    <2>1. 1 \in Int /\ n \in Int /\ (1 > n => n = 0) /\ n - 1 + 1 = n
        BY <1>1
    <2> QED BY <2>1, FS_Interval
<1>5. /\ IsFiniteSet(Seqs(s)) /\ Cardinality(Seqs(s)) <= n
      /\ (Cardinality(Seqs(s)) = n <=> s \in Injection(1..n, Seqs(s)))
    BY <1>3, <1>4, FS_Surjection
<1>6. Cardinality(Seqs(s)) \in Nat
    BY <1>5, FS_CardinalityType
<1>7. Cardinality(Seqs(s)) = n
    BY <1>1, <1>5, <1>6
<1>8. s \in Injection(1..n, Seqs(s))
    BY <1>5, <1>7
<1> QED BY <1>1, <1>8 DEF Injection, IsInjective, Distinct

-----------------------------------------------------------------------------
(* The agents: those that are hosted are of the group, each once, and those *)
(* that are critical are hosted.                                            *)

AgentSet == {n \in Namespace : n # Root /\ n \in DOMAIN dep.image}
CriticalIn(names) == \A n \in Seqs(AgentNames(dep)) : IsCritical(dep, n) => n \in names

Late == {"construct", "caches", "schedulers", "transports", "built", "serving"}

Hosting ==
    /\ dep \in Deployments /\ next \in Nat /\ next >= 1
    /\ stage \in {"group", "load", "replay", "standalone", "refused"} \cup Late
    /\ stage = "standalone" => dep.standalone
    /\ stage \in {"group", "load", "replay"} => ~dep.standalone
    /\ specs \in Seq(AgentSet) /\ Distinct(specs)
    /\ hosted \in Seq(AgentSet) /\ Distinct(hosted)
    /\ stage \in {"standalone", "group"} \/ dep.standalone => specs = <<>> /\ hosted = <<>>
    /\ stage = "load" =>
         /\ CriticalIn(Seqs(specs))
         /\ \A i \in DOMAIN hosted : \E k \in DOMAIN specs : k < next /\ hosted[i] = specs[k]
         /\ \A k \in DOMAIN specs : k < next /\ IsCritical(dep, specs[k]) => specs[k] \in Seqs(hosted)
    /\ stage \in {"replay"} \cup Late /\ ~dep.standalone => CriticalIn(Seqs(hosted))

LEMMA NamesOfAGroup ==
    ASSUME NEW d \in Deployments
    PROVE  AgentNames(d) \in Seq(Name \ {Root})
<1>1. GroupFit(d)
    BY AssemblyParameters
<1>2. CASE d.agents # <<>>
    BY <1>1, <1>2 DEF GroupFit, AgentNames, Unnamed, Root
<1>3. CASE d.agents = <<>> /\ FileRead(d) /\ ~FileUnclear(d)
    <2>1. Cardinality(Chosen(d)) = 1
        BY <1>3 DEF FileUnclear
    <2>2. Chosen(d) # {}
        BY <2>1, FS_EmptySet
    <2>3. PICK i \in DOMAIN d.file : Declared(d) = d.file[i]
        BY <1>3, <2>2 DEF Declared, Chosen
    <2>4. d.file[i] \in [name : Name, agents : Seq(Name \ {Unnamed}), critical : SUBSET Name]
        BY <1>1, Members DEF GroupFit
    <2>5. Declared(d).agents \in Seq(Name \ {Root})
        BY <2>3, <2>4 DEF Unnamed, Root
    <2> QED BY <1>3, <2>5 DEF AgentNames
<1>4. CASE d.agents = <<>> /\ ~(FileRead(d) /\ ~FileUnclear(d))
    <2>1. AgentNames(d) = <<>>
        BY <1>4 DEF AgentNames, Declared
    <2> QED BY <2>1, EmptySeq
<1> QED BY <1>2, <1>3, <1>4

LEMMA GroupResolved ==
    ASSUME Hosting, ~GroupRefused(dep)
    PROVE  Resolved(dep) \in Seq(AgentSet) /\ Distinct(Resolved(dep)) /\ CriticalIn(Seqs(Resolved(dep)))
<1> DEFINE names == AgentNames(dep)
           P == {i \in DOMAIN names : names[i] \in DOMAIN dep.image}
<1>1. names \in Seq(Name \ {Root})
    BY NamesOfAGroup DEF Hosting
<1>2. ~NamesUnfit(dep)
    BY DEF GroupRefused
<1>3. Distinct(names)
    BY <1>1, <1>2, NoRepeats DEF NamesUnfit
<1>4. P \in SUBSET DOMAIN names /\ Resolved(dep) = Picked(names, P)
    BY DEF Resolved
<1>5. \A n \in Seqs(names) : n \in Namespace /\ n # Root /\ (IsCritical(dep, n) => n \in DOMAIN dep.image)
    BY <1>1, <1>2, Members DEF NamesUnfit
<1>6. Picked(names, P) \in Seq(Name \ {Root}) /\ Seqs(Picked(names, P)) = {names[i] : i \in P}
    BY <1>1, <1>4, PickedAt
<1>7. Seqs(Picked(names, P)) \subseteq AgentSet
    BY <1>5, <1>6 DEF AgentSet, Seqs
<1>8. Distinct(Picked(names, P))
    BY <1>1, <1>3, <1>4, PickedDistinct DEF Distinct
<1>9. CriticalIn(Seqs(Picked(names, P)))
    BY <1>5, <1>6 DEF CriticalIn, Seqs
<1>10. Picked(names, P) \in Seq(AgentSet)
    BY <1>6, <1>7, Within
<1> QED BY <1>4, <1>8, <1>9, <1>10

LEMMA HostingInit == Init => Hosting
<1> SUFFICES ASSUME Init PROVE Hosting
    OBVIOUS
<1>1. dep.standalone \in BOOLEAN
    BY AssemblyParameters DEF Init, ImageFit
<1>2. <<>> \in Seq(AgentSet) /\ Distinct(<<>>)
    BY EmptySeq DEF Distinct
<1> QED BY <1>1, <1>2 DEF Init, Hosting, Late

LEMMA Frames ==
    ASSUME dep' = dep
    PROVE  /\ AgentSet' = AgentSet /\ \A names : CriticalIn(names)' <=> CriticalIn(names)
           /\ \A n : BuilderOf(n)' = BuilderOf(n)
BY DEF AgentSet, CriticalIn, BuilderOf, AgentNames, IsCritical, CriticalNames, Declared, FileRead, FileUnclear, Chosen

LEMMA HostingStep == Hosting /\ [Next]_vars => Hosting'
<1> SUFFICES ASSUME Hosting, [Next]_vars PROVE Hosting'
    OBVIOUS
<1> USE DEF Late
<1>0. dep' = dep /\ AgentSet' = AgentSet /\ (\A names : CriticalIn(names)' <=> CriticalIn(names)) /\ dep.standalone \in BOOLEAN
    <2>1. dep' = dep
        BY DEF Next, vars, ResolveGroup, LoadAgent, HostAgents, ReplayAgent, AllReplayed, HostRoot, Construct, RestoreOrder, CreateCache,
               CachesDone, WireScheduler, SchedulersDone, WireTransport, Mount, Startup, Refuses, Enters
    <2>2. dep.standalone \in BOOLEAN
        BY AssemblyParameters DEF Hosting, ImageFit
    <2> QED BY <2>1, <2>2, Frames
<1>1. CASE UNCHANGED vars
    BY <1>0, <1>1 DEF Hosting, vars
<1>2. CASE \E reason : Refuses(reason)
    BY <1>0, <1>2 DEF Hosting, Refuses
<1>3. CASE ResolveGroup /\ ~(\E reason : Refuses(reason))
    <2>1. /\ stage = "group" /\ stage' = "load" /\ next' = 1 /\ hosted' = hosted
          /\ specs' = Resolved(dep) /\ ~GroupRefused(dep)
        BY <1>3 DEF ResolveGroup, Enters
    <2>2. specs' \in Seq(AgentSet) /\ Distinct(specs') /\ CriticalIn(Seqs(specs'))
        BY <2>1, GroupResolved
    <2>3. hosted = <<>> /\ ~dep.standalone /\ DOMAIN hosted = {}
        BY <2>1 DEF Hosting
    <2>4. \A k \in DOMAIN specs' : ~(k < 1)
        BY <2>2, Members
    <2> QED BY <1>0, <2>1, <2>2, <2>3, <2>4 DEF Hosting
<1>4. CASE LoadAgent /\ ~(\E reason : Refuses(reason))
    <2> DEFINE n == specs[next]
    <2>1. /\ stage = "load" /\ stage' = stage /\ next <= Len(specs) /\ next' = next + 1 /\ specs' = specs
          /\ \/ hosted' = Append(hosted, n)
             \/ hosted' = hosted /\ ~IsCritical(dep, n)
        BY <1>4 DEF LoadAgent, Hosts
    <2>2. next \in DOMAIN specs /\ n \in AgentSet /\ n \in Seqs(specs)
        <3>1. next \in DOMAIN specs
            BY <2>1, Members DEF Hosting
        <3> QED BY <3>1, Members DEF Hosting, Seqs
    <2>3. \A i \in DOMAIN hosted : \E k \in DOMAIN specs : k < next /\ hosted[i] = specs[k]
        BY <2>1 DEF Hosting
    <2>a. \A k \in DOMAIN specs : k \in Nat /\ (k < next => k < next + 1) /\ (k < next + 1 => k < next \/ k = next) /\ (k < next => k # next)
        <3>1. DOMAIN specs = 1..Len(specs) /\ Len(specs) \in Nat /\ next \in Nat
            BY Members DEF Hosting
        <3> QED BY <3>1
    <2>4. hosted' \in Seq(AgentSet) /\ Distinct(hosted') /\ Seqs(hosted) \subseteq Seqs(hosted') /\ (IsCritical(dep, n) => n \in Seqs(hosted'))
          /\ \A i \in DOMAIN hosted' : \E k \in DOMAIN specs : k < next + 1 /\ hosted'[i] = specs[k]
        <3>1. CASE hosted' = hosted /\ ~IsCritical(dep, n)
            BY <2>3, <2>a, <3>1 DEF Hosting
        <3>2. CASE hosted' = Append(hosted, n)
            <4> DEFINE u == Append(hosted, n)
            <4>1. /\ u \in Seq(AgentSet) /\ Seqs(u) = Seqs(hosted) \cup {n} /\ u = hosted \o <<n>> /\ <<n>> \in Seq(AgentSet)
                  /\ DOMAIN <<n>> = {1} /\ <<n>>[1] = n
                BY <2>2, AfterAppend DEF Hosting
            <4>2. \A i \in DOMAIN u : \/ i \in DOMAIN hosted /\ u[i] = hosted[i]
                                      \/ i \notin DOMAIN hosted /\ i - Len(hosted) = 1 /\ u[i] = n
                BY <4>1, AfterConcat DEF Hosting
            <4>b. Len(hosted) \in Nat /\ DOMAIN u = 1..Len(u) /\ Len(u) \in Nat
                BY <4>1, Members DEF Hosting
            <4> HIDE DEF u
            <4>3. \A i \in DOMAIN u : \E k \in DOMAIN specs : k < next + 1 /\ u[i] = specs[k]
                BY <2>2, <2>3, <2>a, <4>2
            <4>4. ASSUME NEW i \in DOMAIN hosted PROVE hosted[i] # n
                <5>1. PICK k \in DOMAIN specs : k < next /\ hosted[i] = specs[k]
                    BY <2>3
                <5> QED BY <2>2, <2>a, <5>1 DEF Hosting, Distinct
            <4>5. Distinct(u)
                <5> SUFFICES ASSUME NEW i \in DOMAIN u, NEW j \in DOMAIN u, u[i] = u[j] PROVE i = j
                    BY DEF Distinct
                <5>1. CASE i \in DOMAIN hosted /\ j \in DOMAIN hosted
                    BY <4>2, <5>1 DEF Hosting, Distinct
                <5>2. CASE i \notin DOMAIN hosted /\ j \notin DOMAIN hosted
                    <6>1. i - Len(hosted) = 1 /\ j - Len(hosted) = 1 /\ i \in Int /\ j \in Int
                        BY <4>2, <4>b, <5>2
                    <6> QED BY <4>b, <6>1
                <5>3. CASE i \in DOMAIN hosted /\ j \notin DOMAIN hosted
                    BY <4>2, <4>4, <5>3
                <5>4. CASE i \notin DOMAIN hosted /\ j \in DOMAIN hosted
                    BY <4>2, <4>4, <5>4
                <5> QED BY <5>1, <5>2, <5>3, <5>4
            <4> QED BY <3>2, <4>1, <4>3, <4>5 DEF u
        <3> QED BY <2>1, <3>1, <3>2
    <2>5. \A k \in DOMAIN specs : k < next + 1 /\ IsCritical(dep, specs[k]) => specs[k] \in Seqs(hosted')
        BY <2>1, <2>4, <2>a DEF Hosting
    <2>6. next + 1 \in Nat /\ next + 1 >= 1
        BY DEF Hosting
    <2> QED BY <1>0, <2>1, <2>4, <2>5, <2>6 DEF Hosting
<1>5. CASE HostAgents /\ ~(\E reason : Refuses(reason))
    <2>1. stage = "load" /\ next > Len(specs) /\ stage' = "replay" /\ next' = 1 /\ UNCHANGED <<specs, hosted>>
        BY <1>5 DEF HostAgents, Enters
    <2>2. \A n \in Seqs(specs) : IsCritical(dep, n) => n \in Seqs(hosted)
        <3>1. \A k \in DOMAIN specs : k < next
            BY <2>1, Members DEF Hosting
        <3> QED BY <2>1, <3>1 DEF Hosting, Seqs
    <2>3. CriticalIn(Seqs(hosted))
        BY <2>1, <2>2 DEF Hosting, CriticalIn
    <2> QED BY <1>0, <2>1, <2>3 DEF Hosting
<1>6. CASE /\ ReplayAgent \/ AllReplayed \/ HostRoot \/ Construct \/ RestoreOrder \/ CreateCache \/ CachesDone
              \/ WireScheduler \/ SchedulersDone \/ WireTransport \/ Mount \/ Startup
           /\ ~(\E reason : Refuses(reason))
    <2>a. UNCHANGED <<specs, hosted>> /\ (next' = 1 \/ next' = next + 1)
        BY <1>6 DEF ReplayAgent, AllReplayed, HostRoot, Construct, RestoreOrder, CreateCache, CachesDone, WireScheduler,
                    SchedulersDone, WireTransport, Mount, Startup, Enters
    <2>1. UNCHANGED <<specs, hosted>> /\ next' \in Nat /\ next' >= 1
        BY <2>a DEF Hosting
    <2>2. stage' \in Late \cup {"replay"} /\ (stage \in Late \cup {"replay"} \/ dep.standalone) /\ (stage' = "replay" => stage = "replay")
        BY <1>6 DEF Hosting, ReplayAgent, AllReplayed, HostRoot, Construct, RestoreOrder, CreateCache, CachesDone, WireScheduler,
                    SchedulersDone, WireTransport, Mount, Startup, Enters
    <2>3. CriticalIn(Seqs(hosted)) \/ dep.standalone
        BY <2>2 DEF Hosting
    <2> QED BY <1>0, <2>1, <2>2, <2>3 DEF Hosting
<1> QED BY <1>1, <1>2, <1>3, <1>4, <1>5, <1>6 DEF Next

-----------------------------------------------------------------------------
(* The declarations: each has the namespace of its agent, and of an agent   *)
(* all are replayed, in their order.                                        *)

Owners == IF dep.standalone THEN {Root} ELSE Seqs(hosted)
OfAgent == [ns : Name, of : Declaration]
QueueOf(all, n) == {q.of : q \in {x \in Seqs(all) : x.ns = n}}
DeclaredBy(n) == Seqs(BuilderOf(n).declares)

Replaying ==
    /\ queue \in Seq(OfAgent)
    /\ stage \in {"standalone", "group", "load"} => queue = <<>>
    /\ \A q \in Seqs(queue) : q.ns \in Owners
    /\ stage = "replay" =>
         /\ \A n \in Seqs(hosted) : ~Dishonoured(n)
         /\ \A q \in Seqs(queue) : ~q.of.instance
         /\ \A k \in DOMAIN hosted : QueueOf(queue, hosted[k]) = IF k < next THEN DeclaredBy(hosted[k]) ELSE {}
    /\ stage \in Late => \A n \in Owners : QueueOf(queue, n) = DeclaredBy(n)

LEMMA DepFit == ASSUME dep \in Deployments PROVE GroupFit(dep) /\ ImageFit(dep) /\ SettingsFit(dep)
BY AssemblyParameters

LEMMA BuilderFit ==
    ASSUME dep \in Deployments, NEW n \in DOMAIN dep.image
    PROVE  BuilderOf(n) \in BuilderSet /\ BuilderOf(n).declares \in Seq(Declaration) /\ dep.image[n] \in ImageEntry /\ n \in Name
<1>1. dep.image[n] \in ImageEntry /\ n \in Name
    BY DepFit DEF ImageFit
<1>2. BuilderOf(n) \in BuilderSet
    BY <1>1, AssemblyParameters DEF BuilderOf, ImageEntry
<1> QED BY <1>1, <1>2 DEF BuilderSet

\* Who owns a declaration is an agent of the group, or the root of what stands alone.
LEMMA OwnersFit ==
    ASSUME Hosting
    PROVE  /\ Owners \subseteq Name /\ \A n \in Owners : n \in DOMAIN dep.image
           /\ \A n \in Seqs(hosted) : n # Root /\ n \in Name /\ n \in Namespace /\ n \in DOMAIN dep.image
           /\ dep.standalone => Owners = {Root} /\ hosted = <<>> /\ Seqs(hosted) = {}
           /\ ~dep.standalone => Owners = Seqs(hosted)
           /\ dep.standalone \in BOOLEAN /\ dep \in Deployments
<1>1. dep \in Deployments /\ dep.standalone \in BOOLEAN /\ (dep.standalone => Root \in DOMAIN dep.image) /\ DOMAIN dep.image \subseteq Name
    BY DepFit DEF Hosting, ImageFit
<1>2. \A n \in Seqs(hosted) : n # Root /\ n \in Name /\ n \in Namespace /\ n \in DOMAIN dep.image
    BY Members DEF Hosting, AgentSet, Namespace
<1>3. dep.standalone => hosted = <<>> /\ Seqs(hosted) = {}
    BY DEF Hosting, Seqs
<1> QED BY <1>1, <1>2, <1>3 DEF Owners

LEMMA ReplayedAs ==
    ASSUME NEW b \in BuilderSet, NEW ns \in Name
    PROVE  /\ Replayed(b, ns) \in Seq(OfAgent) /\ DOMAIN Replayed(b, ns) = DOMAIN b.declares
           /\ \A i \in DOMAIN b.declares : Replayed(b, ns)[i] = [ns |-> ns, of |-> b.declares[i]]
           /\ \A q \in Seqs(Replayed(b, ns)) : q.ns = ns /\ q.of \in Seqs(b.declares)
           /\ \A d \in Seqs(b.declares) : [ns |-> ns, of |-> d] \in Seqs(Replayed(b, ns))
<1>1. b.declares \in Seq(Declaration)
    BY DEF BuilderSet
<1>2. Len(b.declares) \in Nat /\ DOMAIN b.declares = 1..Len(b.declares) /\ \A i \in DOMAIN b.declares : b.declares[i] \in Declaration
    BY <1>1, Members
<1>3. /\ DOMAIN Replayed(b, ns) = DOMAIN b.declares
      /\ \A i \in DOMAIN b.declares : Replayed(b, ns)[i] = [ns |-> ns, of |-> b.declares[i]]
    BY DEF Replayed
<1>4. Replayed(b, ns) \in [1..Len(b.declares) -> OfAgent]
    <2>1. \A i \in DOMAIN b.declares : [ns |-> ns, of |-> b.declares[i]] \in OfAgent
        BY <1>2 DEF OfAgent
    <2> QED BY <1>2, <2>1 DEF Replayed
<1>5. Replayed(b, ns) \in Seq(OfAgent)
    BY <1>2, <1>4, SeqDef
<1> DEFINE r == Replayed(b, ns)
<1>6. DOMAIN r = DOMAIN b.declares /\ (\A i \in DOMAIN b.declares : r[i] = [ns |-> ns, of |-> b.declares[i]]) /\ r \in Seq(OfAgent)
    BY <1>3, <1>5
<1> HIDE DEF r
<1>7. \A q \in Seqs(r) : q.ns = ns /\ q.of \in Seqs(b.declares)
    <2> SUFFICES ASSUME NEW i \in DOMAIN r PROVE r[i].ns = ns /\ r[i].of \in Seqs(b.declares)
        BY DEF Seqs
    <2> DEFINE e == [ns |-> ns, of |-> b.declares[i]]
    <2>a. e.ns = ns /\ e.of = b.declares[i]
        OBVIOUS
    <2>b. r[i] = e
        BY <1>6
    <2> HIDE DEF e
    <2>1. r[i].ns = ns /\ r[i].of = b.declares[i]
        BY <2>a, <2>b
    <2> QED BY <1>6, <2>1 DEF Seqs
<1>8. \A d \in Seqs(b.declares) : [ns |-> ns, of |-> d] \in Seqs(r)
    BY <1>6 DEF Seqs
<1> QED BY <1>6, <1>7, <1>8 DEF r

LEMMA ReplayingInit == Init => Replaying
<1> SUFFICES ASSUME Init PROVE Replaying
    OBVIOUS
<1>1. <<>> \in Seq(OfAgent) /\ Seqs(<<>>) = {}
    BY EmptySeq DEF Seqs
<1>2. stage \in {"standalone", "group"} /\ queue = <<>>
    BY DEF Init
<1> QED BY <1>1, <1>2 DEF Replaying, Late

\* What the queue says of an agent, and what its builder declares, are of the deployment.
LEMMA QueueFrames ==
    ASSUME dep' = dep
    PROVE  /\ hosted' = hosted => Owners' = Owners /\ \A n : Dishonoured(n)' <=> Dishonoured(n)
           /\ \A n : DeclaredBy(n)' = DeclaredBy(n)
BY DEF Owners, Dishonoured, Shared, BuilderOf, DeclaredBy, Settled, Constructs

LEMMA ReplayingStep == Hosting /\ Hosting' /\ Replaying /\ [Next]_vars => Replaying'
<1> SUFFICES ASSUME Hosting, Hosting', Replaying, [Next]_vars PROVE Replaying'
    OBVIOUS
<1> USE DEF Late
<1>0. dep' = dep
    BY DEF Next, vars, ResolveGroup, LoadAgent, HostAgents, ReplayAgent, AllReplayed, HostRoot, Construct, RestoreOrder, CreateCache,
               CachesDone, WireScheduler, SchedulersDone, WireTransport, Mount, Startup, Refuses, Enters
<1>a. /\ hosted' = hosted => Owners' = Owners /\ \A n : Dishonoured(n)' <=> Dishonoured(n)
      /\ \A n : DeclaredBy(n)' = DeclaredBy(n)
    BY <1>0, QueueFrames
<1>1. CASE UNCHANGED vars
    BY <1>a, <1>1 DEF Replaying, vars
<1>2. CASE \E reason : Refuses(reason)
    BY <1>a, <1>2 DEF Replaying, Refuses
<1>3. CASE (ResolveGroup \/ LoadAgent) /\ ~(\E reason : Refuses(reason))
    <2>1. queue' = queue /\ stage \in {"group", "load"} /\ stage' = "load"
        BY <1>3 DEF ResolveGroup, LoadAgent, Enters
    <2>2. queue = <<>> /\ Seqs(queue) = {}
        BY <2>1 DEF Replaying, Seqs
    <2> QED BY <2>1, <2>2 DEF Replaying
<1>4. CASE HostAgents /\ ~(\E reason : Refuses(reason))
    <2>1. queue' = queue /\ hosted' = hosted /\ stage = "load" /\ stage' = "replay" /\ next' = 1 /\ \A n \in Seqs(hosted) : ~Dishonoured(n)
        BY <1>4 DEF HostAgents, Enters
    <2>2. queue = <<>> /\ Seqs(queue) = {} /\ \A n : QueueOf(queue, n) = {}
        BY <2>1 DEF Replaying, Seqs, QueueOf
    <2>3. \A k \in DOMAIN hosted : ~(k < 1)
        BY Members DEF Hosting
    <2> QED BY <1>a, <2>1, <2>2, <2>3 DEF Replaying
<1>5. CASE ReplayAgent
    <2> DEFINE n == hosted[next]
               more == Replayed(BuilderOf(n), n)
    <2>1. stage = "replay" /\ next <= Len(hosted) /\ queue' = queue \o more /\ next' = next + 1 /\ UNCHANGED <<stage, hosted>>
        BY <1>5 DEF ReplayAgent
    <2>2. next \in DOMAIN hosted /\ n \in Seqs(hosted)
        <3>1. next \in DOMAIN hosted
            BY <2>1, Members DEF Hosting
        <3> QED BY <3>1 DEF Seqs
    <2>3. n \in DOMAIN dep.image /\ n \in Name /\ n # Root /\ ~dep.standalone /\ Owners = Seqs(hosted)
        BY <2>1, <2>2, OwnersFit DEF Hosting
    <2>4. BuilderOf(n) \in BuilderSet
        BY <2>3, BuilderFit DEF Hosting
    <2>5. /\ more \in Seq(OfAgent) /\ \A q \in Seqs(more) : q.ns = n /\ q.of \in DeclaredBy(n)
          /\ \A d \in DeclaredBy(n) : [ns |-> n, of |-> d] \in Seqs(more)
        BY <2>3, <2>4, ReplayedAs DEF DeclaredBy
    <2>6. \A d \in DeclaredBy(n) : ~d.instance
        BY <2>1, <2>2 DEF Replaying, Dishonoured, Constructs, DeclaredBy
    <2> HIDE DEF more
    <2>7. queue' \in Seq(OfAgent) /\ Seqs(queue') = Seqs(queue) \cup Seqs(more)
        BY <2>1, <2>5, AfterConcat DEF Replaying
    <2>8. \A q \in Seqs(queue') : q.ns \in Owners /\ ~q.of.instance
        BY <2>1, <2>2, <2>3, <2>5, <2>6, <2>7 DEF Replaying
    <2>9. /\ QueueOf(queue', n) = QueueOf(queue, n) \cup DeclaredBy(n)
          /\ \A o : o # n => QueueOf(queue', o) = QueueOf(queue, o)
        <3>1. {q.of : q \in Seqs(more)} = DeclaredBy(n)
            <4>1. \A d \in DeclaredBy(n) : [ns |-> n, of |-> d].of = d
                OBVIOUS
            <4> HIDE DEF n
            <4> QED BY <2>5, <4>1
        <3> HIDE DEF n
        <3>2. {x \in Seqs(queue') : x.ns = n} = {x \in Seqs(queue) : x.ns = n} \cup Seqs(more)
            BY <2>5, <2>7
        <3>3. QueueOf(queue', n) = QueueOf(queue, n) \cup {q.of : q \in Seqs(more)}
            BY <3>2 DEF QueueOf
        <3>4. \A o : o # n => {x \in Seqs(queue') : x.ns = o} = {x \in Seqs(queue) : x.ns = o}
            BY <2>5, <2>7
        <3>5. \A o : o # n => QueueOf(queue', o) = QueueOf(queue, o)
            BY <3>4 DEF QueueOf
        <3> QED BY <3>1, <3>3, <3>5
    <2>10. ASSUME NEW k \in DOMAIN hosted
           PROVE  QueueOf(queue', hosted[k]) = IF k < next + 1 THEN DeclaredBy(hosted[k]) ELSE {}
        <3>1. k \in Nat /\ next \in Nat /\ Distinct(hosted)
            BY Members DEF Hosting
        <3>2. QueueOf(queue, hosted[k]) = IF k < next THEN DeclaredBy(hosted[k]) ELSE {}
            BY <2>1 DEF Replaying
        <3>3. CASE k = next
            BY <2>9, <3>1, <3>2, <3>3
        <3>4. CASE k # next
            <4>1. hosted[k] # n /\ (k < next + 1 <=> k < next)
                BY <2>2, <3>1, <3>4 DEF Distinct
            <4> QED BY <2>9, <3>2, <4>1
        <3> QED BY <3>3, <3>4
    <2> HIDE DEF n
    <2>11. \A k \in DOMAIN hosted' : QueueOf(queue', hosted'[k]) = IF k < next' THEN DeclaredBy(hosted[k])' ELSE {}
        BY <1>0, <2>1, <2>10 DEF DeclaredBy, BuilderOf
    <2>12. \A m \in Seqs(hosted') : ~Dishonoured(m)'
        BY <1>a, <2>1 DEF Replaying
    <2> QED BY <1>a, <2>1, <2>7, <2>8, <2>11, <2>12 DEF Replaying
<1>6. CASE AllReplayed
    <2>1. stage = "replay" /\ next > Len(hosted) /\ stage' = "construct" /\ UNCHANGED <<hosted, queue>>
        BY <1>6 DEF AllReplayed, Enters
    <2>2. \A k \in DOMAIN hosted : k < next
        BY <2>1, Members DEF Hosting
    <2>3. \A n \in Owners : QueueOf(queue, n) = DeclaredBy(n)
        BY <2>1, <2>2, OwnersFit DEF Replaying, Hosting, Seqs
    <2> QED BY <1>a, <2>1, <2>3 DEF Replaying
<1>7. CASE HostRoot /\ ~(\E reason : Refuses(reason))
    <2>1. stage = "standalone" /\ stage' = "construct" /\ queue' = Replayed(BuilderOf(Root), Root) /\ hosted' = hosted
        BY <1>7 DEF HostRoot, Enters
    <2>2. dep.standalone /\ Owners = {Root} /\ Root \in DOMAIN dep.image
        BY <2>1, OwnersFit DEF Hosting
    <2>3. BuilderOf(Root) \in BuilderSet /\ Root \in Name
        BY <2>2, BuilderFit DEF Hosting
    <2>4. /\ queue' \in Seq(OfAgent) /\ \A q \in Seqs(queue') : q.ns = Root /\ q.of \in DeclaredBy(Root)
          /\ \A d \in DeclaredBy(Root) : [ns |-> Root, of |-> d] \in Seqs(queue')
        BY <2>1, <2>3, ReplayedAs DEF DeclaredBy
    <2>5. QueueOf(queue', Root) = DeclaredBy(Root)
        <3>1. {x \in Seqs(queue') : x.ns = Root} = Seqs(queue')
            BY <2>4
        <3>2. \A d \in DeclaredBy(Root) : [ns |-> Root, of |-> d].of = d
            OBVIOUS
        <3>3. {q.of : q \in Seqs(queue')} = DeclaredBy(Root)
            BY <2>4, <3>2
        <3> QED BY <3>1, <3>3 DEF QueueOf
    <2> QED BY <1>a, <2>1, <2>2, <2>4, <2>5 DEF Replaying
<1>8. CASE /\ Construct \/ RestoreOrder \/ CreateCache \/ CachesDone \/ WireScheduler \/ SchedulersDone \/ WireTransport
              \/ Mount \/ Startup
           /\ ~(\E reason : Refuses(reason))
    <2>1. UNCHANGED <<hosted, queue>> /\ stage \in Late /\ stage' \in Late
        BY <1>8 DEF Construct, RestoreOrder, CreateCache, CachesDone, WireScheduler, SchedulersDone, WireTransport, Mount, Startup, Enters
    <2> QED BY <1>a, <2>1 DEF Replaying
<1> QED BY <1>1, <1>2, <1>3, <1>4, <1>5, <1>6, <1>7, <1>8 DEF Next

-----------------------------------------------------------------------------
(* What a declaration has made: under the name it has in the end, once it   *)
(* is reached; what is passed as an instance, under its own until then.     *)

CurrentAt(all, u, i) ==
    Component(all[i].of.kind, all[i].ns, IF i < u THEN BaseOf(all[i].of) ELSE all[i].of.base)
ClaimedAt(all, u) == {i \in DOMAIN all : IF i < u THEN Constructed(all[i].of) ELSE all[i].of.instance}
ClaimsHeld(all, u, reg) ==
    \A i \in ClaimedAt(all, u) :
        /\ CurrentAt(all, u, i) \in Registered(reg)
        /\ \A j \in ClaimedAt(all, u) : CurrentAt(all, u, i) = CurrentAt(all, u, j) => i = j

LEMMA DeclarationFit ==
    ASSUME NEW d \in Declaration
    PROVE  d.kind \in KindSet /\ d.base \in Path /\ d.name \in Path /\ d.nested \in Seq(Name) /\ BaseOf(d) \in Path
           /\ d.instance \in BOOLEAN /\ d.kind # "client"
<1>1. /\ d.kind \in {"handler", "service", "agent", "scheduler", "rest_api", "cache", "health_checker"}
      /\ d.base \in Path /\ d.name \in Path /\ d.nested \in Seq(Name) /\ d.instance \in BOOLEAN
    BY NameIsPath DEF Declaration
<1>2. d.kind \in KindSet /\ d.kind # "client"
    BY <1>1 DEF KindSet
<1>3. BaseOf(d) \in Path
    BY <1>1 DEF BaseOf
<1> QED BY <1>1, <1>2, <1>3

LEMMA QueueAt ==
    ASSUME NEW all \in Seq(OfAgent), NEW i \in DOMAIN all
    PROVE  all[i].ns \in Name /\ all[i].of \in Declaration /\ i \in Nat /\ i <= Len(all) /\ Len(all) \in Nat /\ i >= 1
<1>1. DOMAIN all = 1..Len(all) /\ Len(all) \in Nat /\ all[i] \in OfAgent
    BY Members
<1> QED BY <1>1 DEF OfAgent

LEMMA CurrentFit ==
    ASSUME NEW all \in Seq(OfAgent), NEW i \in DOMAIN all, NEW u
    PROVE  CurrentAt(all, u, i) \in Comp
BY QueueAt, DeclarationFit DEF CurrentAt, Component, Comp

\* A declaration that registers nothing leaves the claims of the others.
LEMMA ClaimsPassed ==
    ASSUME NEW all \in Seq(OfAgent), NEW u \in DOMAIN all, NEW reg, ClaimsHeld(all, u, reg), ~Constructed(all[u].of)
    PROVE  ClaimsHeld(all, u + 1, reg)
<1>1. \A i \in DOMAIN all : i \in Nat /\ (i < u + 1 <=> i < u \/ i = u) /\ ~(u < u)
    BY QueueAt
<1>2. \A i \in ClaimedAt(all, u + 1) : i \in ClaimedAt(all, u) /\ CurrentAt(all, u + 1, i) = CurrentAt(all, u, i)
    BY <1>1 DEF ClaimedAt, CurrentAt
<1> QED BY <1>2 DEF ClaimsHeld

\* Makes: itself, then what its constructor builds.
LEMMA Made ==
    ASSUME NEW d \in Declaration, NEW ns \in Name
    PROVE  /\ Makes(d, ns) \in Seq(Comp)
           /\ \A c \in Seqs(Makes(d, ns)) : c.ns = ns /\ c.kind # "client" /\ (c = Component(d.kind, ns, d.base) \/ c.kind = "service")
           /\ ~d.instance => Component(d.kind, ns, d.base) \in Seqs(Makes(d, ns))
           /\ d.instance => Makes(d, ns) = <<>> /\ Seqs(Makes(d, ns)) = {}
<1> DEFINE self == Component(d.kind, ns, d.base)
           nested == [i \in DOMAIN d.nested |-> Component("service", ns, d.nested[i])]
<1>1. self \in Comp /\ self.ns = ns /\ self.kind # "client"
    BY DeclarationFit DEF Comp, Component
<1>2. nested \in Seq(Comp) /\ \A c \in Seqs(nested) : c.ns = ns /\ c.kind = "service"
    <2>1. Len(d.nested) \in Nat /\ DOMAIN d.nested = 1..Len(d.nested) /\ \A i \in DOMAIN d.nested : d.nested[i] \in Name
        BY DeclarationFit, Members
    <2>2. \A i \in DOMAIN d.nested : Component("service", ns, d.nested[i]) \in Comp
        <3> TAKE i \in DOMAIN d.nested
        <3>1. d.nested[i] \in Path /\ "service" \in KindSet
            BY <2>1, NameIsPath DEF KindSet
        <3> QED BY <3>1 DEF Comp, Component
    <2>3. nested \in [1..Len(d.nested) -> Comp]
        BY <2>1, <2>2
    <2>4. \A i \in DOMAIN nested : nested[i].ns = ns /\ nested[i].kind = "service"
        BY DEF Component
    <2> HIDE DEF nested
    <2>5. \A c \in Seqs(nested) : c.ns = ns /\ c.kind = "service"
        BY <2>4 DEF Seqs
    <2> QED BY <2>1, <2>3, <2>5, SeqDef
<1>3. CASE d.instance
    <2>1. Makes(d, ns) = <<>>
        BY <1>3 DEF Makes
    <2>2. <<>> \in Seq(Comp) /\ Seqs(<<>>) = {}
        BY EmptySeq DEF Seqs
    <2> QED BY <1>3, <2>1, <2>2
<1>4. CASE ~d.instance
    <2>1. Makes(d, ns) = <<self>> \o nested
        BY <1>4 DEF Makes
    <2> HIDE DEF self, nested
    <2>2. <<self>> \in Seq(Comp) /\ Seqs(<<self>>) = {self}
        BY <1>1, EmptySeq, AfterAppend
    <2>3. Makes(d, ns) \in Seq(Comp) /\ Seqs(Makes(d, ns)) = {self} \cup Seqs(nested)
        <3> DEFINE one == <<self>>
        <3>1. one \in Seq(Comp) /\ Seqs(one) = {self} /\ Makes(d, ns) = one \o nested
            BY <2>1, <2>2
        <3> HIDE DEF one
        <3>2. one \o nested \in Seq(Comp) /\ Seqs(one \o nested) = Seqs(one) \cup Seqs(nested)
            BY <1>2, <3>1, AfterConcat
        <3> QED BY <3>1, <3>2
    <2>4. self \in Seqs(Makes(d, ns)) /\ \A c \in Seqs(Makes(d, ns)) : c.ns = ns /\ c.kind # "client" /\ (c = self \/ c.kind = "service")
        BY <1>1, <1>2, <2>3
    <2> QED BY <1>4, <2>3, <2>4 DEF self
<1> QED BY <1>3, <1>4

\* A declaration that registers: its component has the name it was declared with, and no
\* other declaration's component has become another.
LEMMA ConstructedOne ==
    ASSUME NEW all \in Seq(OfAgent), NEW u \in DOMAIN all, NEW reg \in Seq(Comp), KeysDistinct(reg),
           ClaimsHeld(all, u, reg), Constructed(all[u].of),
           ~Collides(reg, Makes(all[u].of, all[u].ns)),
           ~RenameRefused(reg \o Makes(all[u].of, all[u].ns), Component(all[u].of.kind, all[u].ns, all[u].of.base), BaseOf(all[u].of))
    PROVE  LET self == Component(all[u].of.kind, all[u].ns, all[u].of.base)
               named == Component(all[u].of.kind, all[u].ns, BaseOf(all[u].of))
               new == Rename(reg \o Makes(all[u].of, all[u].ns), self, BaseOf(all[u].of))
           IN  /\ new \in Seq(Comp) /\ KeysDistinct(new) /\ ClaimsHeld(all, u + 1, new)
               /\ Registered(new) = ((Registered(reg) \cup Seqs(Makes(all[u].of, all[u].ns))) \ {self}) \cup {named}
               /\ CurrentAt(all, u + 1, u) = named
               /\ \A i \in ClaimedAt(all, u) : i # u => i \in ClaimedAt(all, u + 1) /\ CurrentAt(all, u + 1, i) = CurrentAt(all, u, i)
               /\ u \in ClaimedAt(all, u) => CurrentAt(all, u, u) = self
<1> DEFINE d == all[u].of
           ns == all[u].ns
           made == Makes(d, ns)
           grown == reg \o made
           self == Component(d.kind, ns, d.base)
           named == Component(d.kind, ns, BaseOf(d))
           new == Rename(grown, self, BaseOf(d))
<1>1. d \in Declaration /\ ns \in Name /\ d.kind \in KindSet /\ d.base \in Path /\ BaseOf(d) \in Path
    BY QueueAt, DeclarationFit
<1>2. \A i \in DOMAIN all : i \in Nat /\ (i < u + 1 <=> i < u \/ i = u) /\ ~(u < u)
    BY QueueAt
<1>3. /\ \A i \in ClaimedAt(all, u + 1) : i # u => i \in ClaimedAt(all, u) /\ CurrentAt(all, u + 1, i) = CurrentAt(all, u, i)
      /\ \A i \in ClaimedAt(all, u) : i # u => i \in ClaimedAt(all, u + 1) /\ CurrentAt(all, u + 1, i) = CurrentAt(all, u, i)
    BY <1>2 DEF ClaimedAt, CurrentAt
<1>4. CurrentAt(all, u + 1, u) = named /\ CurrentAt(all, u, u) = self /\ (d.instance <=> u \in ClaimedAt(all, u)) /\ u \in ClaimedAt(all, u + 1)
    BY <1>2 DEF ClaimedAt, CurrentAt
<1>5. /\ made \in Seq(Comp)
      /\ ~d.instance => self \in Seqs(made)
    BY <1>1, Made
<1>6. ~Collides(reg, made) /\ ~RenameRefused(grown, self, BaseOf(d))
    OBVIOUS
<1>c. ClaimsHeld(all, u, reg)
    OBVIOUS
<1> HIDE DEF d, ns, made
<1>7. /\ grown \in Seq(Comp) /\ KeysDistinct(grown) /\ Registered(grown) = Registered(reg) \cup Seqs(made)
      /\ \A c \in Seqs(made) : c \notin Registered(reg)
    BY <1>5, <1>6, Extended
<1>8. self \in Registered(grown)
    BY <1>4, <1>5, <1>7, <1>c DEF ClaimsHeld
<1> HIDE DEF grown
<1>9. /\ new \in Seq(Comp) /\ KeysDistinct(new)
      /\ Registered(new) = (Registered(grown) \ {self}) \cup {named}
      /\ named \in Registered(grown) => BaseOf(d) = d.base
    <2>1. d.kind \in KindSet /\ ns \in Name /\ d.base \in Path /\ BaseOf(d) \in Path
        BY <1>1 DEF d, ns
    <2> QED BY <1>6, <1>7, <1>8, <2>1, Renamed
<1>10. named \in Registered(grown) => named = self
    BY <1>9
<1> HIDE DEF self, named, new
<1>11. ASSUME NEW i \in ClaimedAt(all, u + 1), i # u
       PROVE  CurrentAt(all, u + 1, i) \in Registered(grown) /\ CurrentAt(all, u + 1, i) # self /\ CurrentAt(all, u + 1, i) # named
    <2>1. i \in ClaimedAt(all, u) /\ CurrentAt(all, u + 1, i) = CurrentAt(all, u, i) /\ CurrentAt(all, u, i) \in Registered(reg)
        BY <1>3, <1>11, <1>c DEF ClaimsHeld
    <2>2. CurrentAt(all, u, i) # self
        <3>1. CASE d.instance
            BY <1>4, <1>11, <2>1, <3>1, <1>c DEF ClaimsHeld
        <3>2. CASE ~d.instance
            BY <1>5, <1>7, <2>1, <3>2
        <3> QED BY <3>1, <3>2
    <2> QED BY <1>7, <1>10, <2>1, <2>2
<1>12. ClaimsHeld(all, u + 1, new)
    <2>1. \A i \in ClaimedAt(all, u + 1) : CurrentAt(all, u + 1, i) \in Registered(new)
        BY <1>4, <1>9, <1>11
    <2>2. ASSUME NEW i \in ClaimedAt(all, u + 1), NEW j \in ClaimedAt(all, u + 1), CurrentAt(all, u + 1, i) = CurrentAt(all, u + 1, j)
          PROVE  i = j
        <3>1. CASE i # u /\ j # u
            BY <1>3, <1>c, <2>2, <3>1 DEF ClaimsHeld
        <3>2. CASE i = u /\ j # u
            BY <1>4, <1>11, <2>2, <3>2
        <3>3. CASE i # u /\ j = u
            BY <1>4, <1>11, <2>2, <3>3
        <3> QED BY <3>1, <3>2, <3>3
    <2> QED BY <2>1, <2>2 DEF ClaimsHeld
<1>13. /\ new \in Seq(Comp) /\ KeysDistinct(new)
       /\ Registered(new) = ((Registered(reg) \cup Seqs(made)) \ {self}) \cup {named}
    BY <1>7, <1>9
<1> QED BY <1>3, <1>4, <1>12, <1>13 DEF new, grown, self, named, made, d, ns

-----------------------------------------------------------------------------
(* The registry through the start.                                         *)

Unreached == IF stage = "construct" THEN next ELSE Len(queue) + 1
PlacesOf(reg, W) == {i \in DOMAIN reg : reg[i] \in Seqs(W)}
InOrder == Picked(registry, PlacesOf(registry, HandlersDeclared)) = HandlersDeclared

Registering ==
    /\ registry \in Seq(Comp) /\ KeysDistinct(registry)
    /\ stage \in {"standalone", "group", "load", "replay"} => registry = <<>>
    /\ \A c \in Registered(registry) : c.ns \in Owners \cup {Root}
    /\ \A c \in Registered(registry) : c.kind = "client" => stage \notin {"construct", "caches", "schedulers"} /\ c.base = <<dep.bus, "client">>
    /\ stage \in Late => ClaimsHeld(queue, Unreached, registry)
    /\ stage \in Late \ {"construct"} => InOrder

LEMMA RegisteringInit == Init => Registering
<1> SUFFICES ASSUME Init PROVE Registering
    OBVIOUS
<1>1. <<>> \in Seq(Comp) /\ Registered(<<>>) = {} /\ KeysDistinct(<<>>)
    BY EmptySeq DEF Registered, KeysDistinct
<1>2. registry = <<>> /\ stage \in {"standalone", "group"}
    BY DEF Init
<1> QED BY <1>1, <1>2 DEF Registering, Late

\* The handlers that were declared are in the registry when all are constructed, each once.
LEMMA HandlersFit ==
    ASSUME queue \in Seq(OfAgent), NEW u, ClaimsHeld(queue, u, registry), \A i \in DOMAIN queue : i < u
    PROVE  HandlersDeclared \in Seq(Comp) /\ Distinct(HandlersDeclared) /\ Seqs(HandlersDeclared) \subseteq Registered(registry)
<1> DEFINE P == {i \in DOMAIN queue : queue[i].of.kind = "handler"}
           h == Picked(queue, P)
           W == HandlersDeclared
<1>1. P \in SUBSET DOMAIN queue
    OBVIOUS
<1>2. /\ h \in Seq(OfAgent)
      /\ \A k \in DOMAIN h : PlaceOf(P, k) \in P /\ h[k] = queue[PlaceOf(P, k)]
      /\ \A k, l \in DOMAIN h : PlaceOf(P, k) = PlaceOf(P, l) => k = l
    BY <1>1, PickedAt
<1>3. DOMAIN W = DOMAIN h /\ \A k \in DOMAIN h : W[k] = Component("handler", h[k].ns, BaseOf(h[k].of))
    BY DEF HandlersDeclared
<1> HIDE DEF h, W
<1>4. \A i \in P : i \in ClaimedAt(queue, u) /\ CurrentAt(queue, u, i) = Component("handler", queue[i].ns, BaseOf(queue[i].of))
                   /\ CurrentAt(queue, u, i) \in Comp
    BY CurrentFit DEF ClaimedAt, CurrentAt, Constructed
<1>5. \A k \in DOMAIN h : W[k] = CurrentAt(queue, u, PlaceOf(P, k)) /\ PlaceOf(P, k) \in ClaimedAt(queue, u) /\ W[k] \in Comp
    BY <1>2, <1>3, <1>4
<1> HIDE DEF P
<1>6. W \in Seq(Comp)
    <2>1. Len(h) \in Nat /\ DOMAIN h = 1..Len(h)
        BY <1>2, Members
    <2>2. W = [k \in DOMAIN h |-> Component("handler", h[k].ns, BaseOf(h[k].of))]
        BY DEF W, h, P, HandlersDeclared
    <2>3. W \in [1..Len(h) -> Comp]
        BY <1>3, <1>5, <2>1, <2>2
    <2> QED BY <2>1, <2>3, SeqDef
<1>7. Distinct(W)
    BY <1>2, <1>3, <1>5 DEF Distinct, ClaimsHeld
<1>8. Seqs(W) \subseteq Registered(registry)
    BY <1>3, <1>5 DEF ClaimsHeld, Seqs
<1> QED BY <1>6, <1>7, <1>8 DEF W

\* What is added after them leaves their order.
LEMMA OrderKept ==
    ASSUME NEW reg \in Seq(Comp), NEW made \in Seq(Comp), NEW W, Seqs(W) \subseteq Registered(reg), \A c \in Seqs(made) : c \notin Registered(reg)
    PROVE  Picked(reg \o made, PlacesOf(reg \o made, W)) = Picked(reg, PlacesOf(reg, W))
<1> DEFINE u == reg \o made
           P == PlacesOf(reg, W)
<1>1. /\ \A i \in DOMAIN u : \/ i \in DOMAIN reg /\ u[i] = reg[i]
                             \/ i \notin DOMAIN reg /\ i - Len(reg) \in DOMAIN made /\ u[i] = made[i - Len(reg)]
      /\ \A i \in DOMAIN reg : i \in DOMAIN u /\ u[i] = reg[i]
    BY AfterConcat
<1> HIDE DEF u
<1>2. PlacesOf(u, W) = P
    <2>1. ASSUME NEW i \in PlacesOf(u, W) PROVE i \in P
        BY <1>1 DEF PlacesOf, Seqs
    <2>2. ASSUME NEW i \in P PROVE i \in PlacesOf(u, W)
        BY <1>1 DEF PlacesOf
    <2> QED BY <2>1, <2>2
<1>3. P \in SUBSET (1..Len(reg)) /\ Len(reg) \in Nat /\ DOMAIN reg = 1..Len(reg)
    BY Members DEF PlacesOf
<1> HIDE DEF P
<1>4. \A k \in 1..Cardinality(P) : u[PlaceOf(P, k)] = reg[PlaceOf(P, k)]
    BY <1>1, <1>3, Places
<1>5. Picked(u, P) = [k \in 1..Cardinality(P) |-> u[PlaceOf(P, k)]] /\ Picked(reg, P) = [k \in 1..Cardinality(P) |-> reg[PlaceOf(P, k)]]
    BY DEF Picked, PlaceOf, Number, UpTo
<1>6. Picked(u, P) = Picked(reg, P)
    BY <1>4, <1>5
<1> QED BY <1>2, <1>6 DEF u, P

\* What a later stage adds.
LEMMA GrowthKeeps ==
    ASSUME Replaying, Registering, stage \in Late \ {"construct"}, stage' \in Late \ {"construct"}, UNCHANGED <<dep, hosted, queue>>,
           stage' \in {"caches", "schedulers"} => stage \in {"caches", "schedulers"},
           NEW made \in Seq(Comp), ~Collides(registry, made), registry' = registry \o made,
           \A c \in Seqs(made) : /\ c.ns \in Owners \cup {Root}
                                 /\ c.kind = "client" => stage' \notin {"caches", "schedulers"} /\ c.base = <<dep.bus, "client">>
    PROVE  Registering' /\ Registered(registry') = Registered(registry) \cup Seqs(made) /\ \A c \in Seqs(made) : c \notin Registered(registry)
<1>0. Owners' = Owners /\ dep' = dep /\ queue' = queue /\ HandlersDeclared' = HandlersDeclared /\ Unreached' = Len(queue) + 1 /\ Unreached = Len(queue) + 1
    BY DEF Owners, HandlersDeclared, Unreached
<1>1. /\ registry' \in Seq(Comp) /\ KeysDistinct(registry')
      /\ Registered(registry') = Registered(registry) \cup Seqs(made)
      /\ \A c \in Seqs(made) : c \notin Registered(registry)
    BY Extended DEF Registering
<1>2. ClaimsHeld(queue, Unreached, registry) /\ ClaimsHeld(queue, Unreached, registry')
    BY <1>1 DEF Registering, ClaimsHeld
<1>3. Seqs(HandlersDeclared) \subseteq Registered(registry)
    <2>1. \A i \in DOMAIN queue : i < Len(queue) + 1
        BY QueueAt DEF Replaying
    <2> QED BY <1>0, <1>2, <2>1, HandlersFit DEF Replaying
<1>4. InOrder'
    <2>1. Picked(registry', PlacesOf(registry', HandlersDeclared)) = Picked(registry, PlacesOf(registry, HandlersDeclared))
        BY <1>1, <1>3, OrderKept DEF Registering
    <2> QED BY <1>0, <2>1 DEF InOrder, Registering
<1>5. \A c \in Registered(registry') : c.ns \in Owners' \cup {Root}
    BY <1>0, <1>1 DEF Registering
<1>6. \A c \in Registered(registry') : c.kind = "client" => stage' \notin {"construct", "caches", "schedulers"} /\ c.base = <<dep'.bus, "client">>
    BY <1>0, <1>1 DEF Registering, Late
<1> QED BY <1>0, <1>1, <1>2, <1>4, <1>5, <1>6 DEF Registering, Late

LEMMA NothingAdded ==
    ASSUME Replaying, Registering, stage \in Late \ {"construct"}, stage' \in Late \ {"construct"}, UNCHANGED <<dep, hosted, queue, registry>>,
           stage' \in {"caches", "schedulers"} => stage \in {"caches", "schedulers"}
    PROVE  Registering'
<1> DEFINE none == <<>>
<1>1. none \in Seq(Comp) /\ Seqs(none) = {} /\ DOMAIN none = {} /\ registry' = registry \o none
    BY EmptySeq, ConcatEmptySeq DEF Registering, Seqs
<1> HIDE DEF none
<1>2. ~Collides(registry, none)
    BY <1>1 DEF Collides
<1> QED BY <1>1, <1>2, GrowthKeeps

-----------------------------------------------------------------------------
(* What each stage makes.                                                  *)

LEMMA Words ==
    /\ <<"tick">> \in Path /\ <<"cache">> \in Path /\ <<"redis">> \in Path /\ <<"disk">> \in Path
    /\ <<"nats", "client">> \in Path /\ <<"dapr", "client">> \in Path /\ <<"sessions", "api", "client">> \in Path
    /\ <<"session", "key", "provider">> \in Path /\ <<"event", "processing", "service">> \in Path
    /\ <<"event", "publishing", "service">> \in Path
BY DEF Path, FrameworkWords

LEMMA PathConcat == ASSUME NEW s \in Path, NEW t \in Path PROVE s \o t \in Path
BY ConcatProperties DEF Path

\* CreateCache: the services of a cache, the last of them the one it is used through.
CacheMade(ns, d) == [i \in DOMAIN Backends |-> Component(Backends[i], ns, CacheBase(Backends[i], d.name))]

LEMMA CachesMade ==
    ASSUME dep \in Deployments, NEW ns \in Name, NEW d \in Declaration
    PROVE  /\ CacheMade(ns, d) \in Seq(Comp) /\ Len(CacheMade(ns, d)) \in DOMAIN CacheMade(ns, d)
           /\ \A c \in Seqs(CacheMade(ns, d)) : c.ns = ns /\ c.kind \in {"redis", "disk"}
<1>1. dep.cache \in {"disk", "redis", "redis_not_installed", "redis_down"}
    BY DepFit DEF SettingsFit
<1>2. Backends = <<"redis">> \/ Backends = <<"disk">> \/ Backends = <<"redis", "disk">>
    BY <1>1 DEF Backends
<1>3. /\ Len(Backends) \in Nat /\ Len(Backends) >= 1 /\ DOMAIN Backends = 1..Len(Backends)
      /\ \A i \in DOMAIN Backends : Backends[i] \in {"redis", "disk"}
    BY <1>2
<1>4. \A i \in DOMAIN Backends : CacheBase(Backends[i], d.name) \in Path
    <2> TAKE i \in DOMAIN Backends
    <2>1. <<Backends[i]>> \in Path
        BY <1>3, Words
    <2>2. <<"cache">> \o d.name \in Path
        BY DeclarationFit, Words, PathConcat
    <2> QED BY <2>1, <2>2 DEF CacheBase
<1> DEFINE made == CacheMade(ns, d)
<1>5. DOMAIN made = DOMAIN Backends /\ \A i \in DOMAIN Backends : made[i] = Component(Backends[i], ns, CacheBase(Backends[i], d.name))
    BY DEF CacheMade
<1>6. \A i \in DOMAIN Backends : made[i] \in Comp /\ made[i].ns = ns /\ made[i].kind \in {"redis", "disk"}
    BY <1>3, <1>4, <1>5 DEF Component, Comp, KindSet
<1>7. made \in [1..Len(Backends) -> Comp]
    BY <1>3, <1>6 DEF CacheMade
<1> HIDE DEF made
<1>8. made \in Seq(Comp)
    BY <1>3, <1>7, SeqDef
<1>9. Len(made) = Len(Backends)
    BY <1>3, <1>5, <1>8, Members
<1> QED BY <1>3, <1>5, <1>6, <1>8, <1>9 DEF made, Seqs

LEMMA SchedulersFit ==
    ASSUME registry \in Seq(Comp)
    PROVE  /\ Schedulers \in Seq(Comp) /\ Len(Schedulers) \in Nat /\ DOMAIN Schedulers = 1..Len(Schedulers)
           /\ Seqs(Schedulers) = {c \in Registered(registry) : c.kind = "scheduler"}
           /\ \A k \in DOMAIN Schedulers : Schedulers[k] \in Registered(registry) /\ Schedulers[k].kind = "scheduler"
<1> DEFINE P == {i \in DOMAIN registry : registry[i].kind = "scheduler"}
<1>1. P \in SUBSET DOMAIN registry
    OBVIOUS
<1>2. Schedulers = Picked(registry, P)
    BY DEF Schedulers
<1> HIDE DEF P
<1>3. Schedulers \in Seq(Comp) /\ Seqs(Schedulers) = {registry[i] : i \in P}
    BY <1>1, <1>2, PickedAt
<1>4. Seqs(Schedulers) = {c \in Registered(registry) : c.kind = "scheduler"}
    BY <1>3 DEF Registered, P
<1>5. \A k \in DOMAIN Schedulers : Schedulers[k] \in Seqs(Schedulers)
    BY DEF Seqs
<1> QED BY <1>3, <1>4, <1>5, Members

LEMMA TickFit ==
    ASSUME NEW s \in Comp
    PROVE  TickOf(s) \in Comp /\ TickOf(s).kind = "handler" /\ TickOf(s).ns = s.ns
<1>1. s.base \o <<"tick">> \in Path
    BY Words, PathConcat DEF Comp
<1> QED BY <1>1 DEF TickOf, Component, Comp, KindSet

LEMMA ClientsFit ==
    ASSUME dep \in Deployments, NEW ns \in Name
    PROVE  /\ ClientOf(ns) \in Seq(Comp) /\ <<>> \in Seq(Comp) /\ Seqs(<<>>) = {}
           /\ \A c \in Seqs(ClientOf(ns)) : c.ns = ns /\ c.kind \in {"client", "service"} /\ (c.kind = "client" => c.base = <<dep.bus, "client">>)
<1>1. dep.bus \in {"nats", "dapr", "sessions", "none"}
    BY DepFit DEF SettingsFit
<1>2. <<>> \in Seq(Comp) /\ Seqs(<<>>) = {}
    BY EmptySeq DEF Seqs
<1>3. \A c \in Comp : <<c>> \in Seq(Comp) /\ Seqs(<<c>>) = {c}
    BY <1>2, AfterAppend
<1>4. CASE dep.bus \in {"nats", "dapr"}
    <2> DEFINE c == Component("client", ns, <<dep.bus, "client">>)
    <2>1. c \in Comp /\ c.ns = ns /\ c.kind = "client" /\ c.base = <<dep.bus, "client">>
        BY <1>4, Words DEF Component, Comp, KindSet
    <2>2. ClientOf(ns) = <<c>>
        BY <1>4 DEF ClientOf
    <2> HIDE DEF c
    <2> QED BY <1>2, <1>3, <2>1, <2>2
<1>5. CASE dep.bus = "sessions"
    <2> DEFINE c == Component("service", ns, <<"sessions", "api", "client">>)
               d == Component("service", ns, <<"session", "key", "provider">>)
    <2>1. c \in Comp /\ c.ns = ns /\ c.kind = "service" /\ d \in Comp /\ d.ns = ns /\ d.kind = "service"
        BY Words DEF Component, Comp, KindSet
    <2>2. ClientOf(ns) = <<c, d>>
        BY <1>5 DEF ClientOf
    <2> HIDE DEF c, d
    <2>3. <<c, d>> \in Seq(Comp) /\ DOMAIN <<c, d>> = {1, 2} /\ <<c, d>>[1] = c /\ <<c, d>>[2] = d
        BY <2>1
    <2>4. Seqs(<<c, d>>) = {c, d}
        BY <2>3 DEF Seqs
    <2> QED BY <1>2, <2>1, <2>2, <2>3, <2>4
<1>6. CASE dep.bus = "none"
    <2>1. ClientOf(ns) = <<>>
        BY <1>6 DEF ClientOf
    <2> QED BY <1>2, <2>1
<1> QED BY <1>1, <1>4, <1>5, <1>6

LEMMA ServicesFit ==
    ASSUME registry \in Seq(Comp)
    PROVE  /\ Services \in Seq(Comp)
           /\ \A c \in Seqs(Services) : c.kind = "service" /\ (c.ns = Root \/ \E d \in Registered(registry) : c.ns = d.ns)
<1> DEFINE P == {i \in DOMAIN registry : registry[i].kind = "client"}
           clients == Picked(registry, P)
           one == IF HasHandler THEN <<Component("service", Root, <<"event", "processing", "service">>)>> ELSE <<>>
           many == [i \in DOMAIN clients |-> Component("service", clients[i].ns, <<"event", "publishing", "service">>)]
<1>1. P \in SUBSET DOMAIN registry
    OBVIOUS
<1>2. clients \in Seq(Comp) /\ Seqs(clients) = {registry[i] : i \in P}
    BY <1>1, PickedAt
<1>3. Services = one \o many
    BY DEF Services
<1>4. \A k \in DOMAIN clients : clients[k] \in Registered(registry) /\ clients[k] \in Comp
    <2>1. \A k \in DOMAIN clients : clients[k] \in Seqs(clients)
        BY DEF Seqs
    <2>2. Seqs(clients) \subseteq Comp
        BY <1>2, Members
    <2>3. Seqs(clients) \subseteq Registered(registry)
        BY <1>2 DEF Registered
    <2> QED BY <2>1, <2>2, <2>3
<1> HIDE DEF clients
<1>5. many \in Seq(Comp) /\ \A c \in Seqs(many) : c.kind = "service" /\ \E d \in Registered(registry) : c.ns = d.ns
    <2>1. \A k \in DOMAIN clients : Component("service", clients[k].ns, <<"event", "publishing", "service">>) \in Comp
        BY <1>4, Words DEF Component, Comp, KindSet
    <2>2. Len(clients) \in Nat /\ DOMAIN clients = 1..Len(clients)
        BY <1>2, Members
    <2>3. many \in [1..Len(clients) -> Comp]
        BY <2>1, <2>2
    <2>4. \A k \in DOMAIN clients : many[k].kind = "service" /\ many[k].ns = clients[k].ns
        BY DEF Component
    <2>5. DOMAIN many = DOMAIN clients
        OBVIOUS
    <2> HIDE DEF many
    <2>6. \A c \in Seqs(many) : c.kind = "service" /\ \E d \in Registered(registry) : c.ns = d.ns
        BY <1>4, <2>4, <2>5 DEF Seqs
    <2> QED BY <2>2, <2>3, <2>6, SeqDef
<1>6. one \in Seq(Comp) /\ \A c \in Seqs(one) : c.kind = "service" /\ c.ns = Root
    <2> DEFINE e == Component("service", Root, <<"event", "processing", "service">>)
    <2>1. e \in Comp /\ e.kind = "service" /\ e.ns = Root
        <3>1. Root \in Name
            BY EmptySeq DEF Root, Name
        <3> QED BY <3>1, Words DEF Component, Comp, KindSet
    <2> HIDE DEF e
    <2>2. <<e>> \in Seq(Comp) /\ Seqs(<<e>>) = {e} /\ <<>> \in Seq(Comp) /\ Seqs(<<>>) = {}
        BY <2>1, AfterAppend, EmptySeq DEF Seqs
    <2> QED BY <2>1, <2>2 DEF e
<1> HIDE DEF one, many
<1>7. Services \in Seq(Comp) /\ Seqs(Services) = Seqs(one) \cup Seqs(many)
    BY <1>3, <1>5, <1>6, AfterConcat
<1> QED BY <1>5, <1>6, <1>7

\* HostRoot: what is passed as an instance is registered before the rest is made.
PassedBy(b) == Picked(b.declares, {i \in DOMAIN b.declares : b.declares[i].instance})
MadeOf(b) == [i \in DOMAIN PassedBy(b) |-> Component(PassedBy(b)[i].kind, Root, PassedBy(b)[i].base)]

LEMMA InstancesHeld ==
    ASSUME NEW b \in BuilderSet, ~Collides(<<>>, MadeOf(b))
    PROVE  /\ MadeOf(b) \in Seq(Comp) /\ KeysDistinct(MadeOf(b)) /\ ClaimsHeld(Replayed(b, Root), 1, MadeOf(b))
           /\ \A c \in Registered(MadeOf(b)) : c.ns = Root /\ c.kind # "client" /\ \E i \in ClaimedAt(Replayed(b, Root), 1) : c = CurrentAt(Replayed(b, Root), 1, i)
<1> DEFINE P == {i \in DOMAIN b.declares : b.declares[i].instance}
           passed == PassedBy(b)
           made == MadeOf(b)
           all == Replayed(b, Root)
<1>1. b.declares \in Seq(Declaration) /\ Root \in Name /\ P \in SUBSET DOMAIN b.declares
    BY EmptySeq DEF BuilderSet, Root, Name
<1>2. passed = Picked(b.declares, P)
    BY DEF PassedBy
<1>3. all \in Seq(OfAgent) /\ DOMAIN all = DOMAIN b.declares /\ \A i \in DOMAIN b.declares : all[i] = [ns |-> Root, of |-> b.declares[i]]
    BY <1>1, ReplayedAs
<1>4. \A i \in DOMAIN all : all[i].ns = Root /\ all[i].of = b.declares[i] /\ ~(i < 1)
    <2> TAKE i \in DOMAIN all
    <2> DEFINE e == [ns |-> Root, of |-> b.declares[i]]
    <2>1. e.ns = Root /\ e.of = b.declares[i] /\ all[i] = e
        BY <1>3
    <2> HIDE DEF e
    <2>2. ~(i < 1)
        BY <1>3, QueueAt
    <2> QED BY <2>1, <2>2
<1>5. DOMAIN made = DOMAIN passed /\ \A k \in DOMAIN passed : made[k] = Component(passed[k].kind, Root, passed[k].base)
    BY DEF MadeOf
<1> HIDE DEF all
<1>6. ClaimedAt(all, 1) = P /\ \A i \in P : CurrentAt(all, 1, i) = Component(b.declares[i].kind, Root, b.declares[i].base)
    BY <1>3, <1>4 DEF ClaimedAt, CurrentAt
<1> HIDE DEF P
<1>7. /\ passed \in Seq(Declaration)
      /\ \A k \in DOMAIN passed : PlaceOf(P, k) \in P /\ passed[k] = b.declares[PlaceOf(P, k)]
      /\ \A i \in P : Number(P, i) \in DOMAIN passed /\ passed[Number(P, i)] = b.declares[i]
    BY <1>1, <1>2, PickedAt
<1>8. \A i, j \in P : Number(P, i) = Number(P, j) => i = j
    <2>1. Len(b.declares) \in Nat /\ DOMAIN b.declares = 1..Len(b.declares)
        BY <1>1, Members
    <2> QED BY <1>1, <2>1, Numbers
<1> HIDE DEF passed
<1>9. made \in Seq(Comp)
    <2>1. Len(passed) \in Nat /\ DOMAIN passed = 1..Len(passed) /\ \A k \in DOMAIN passed : passed[k] \in Declaration
        BY <1>7, Members
    <2>2. \A k \in DOMAIN passed : Component(passed[k].kind, Root, passed[k].base) \in Comp
        BY <1>1, <2>1, DeclarationFit DEF Component, Comp
    <2>3. made \in [1..Len(passed) -> Comp]
        BY <2>1, <2>2 DEF MadeOf, passed
    <2> QED BY <2>1, <2>3, SeqDef
<1>c. ~Collides(<<>>, made)
    OBVIOUS
<1> HIDE DEF made
<1>10. KeysDistinct(made)
    BY <1>c DEF Collides, KeysDistinct
<1>11. ASSUME NEW k \in DOMAIN made PROVE PlaceOf(P, k) \in P /\ made[k] = CurrentAt(all, 1, PlaceOf(P, k))
    BY <1>5, <1>6, <1>7
<1>12. ASSUME NEW i \in P PROVE Number(P, i) \in DOMAIN made /\ made[Number(P, i)] = CurrentAt(all, 1, i)
    BY <1>5, <1>6, <1>7
<1>13. ClaimsHeld(all, 1, made)
    <2>1. \A i \in P : CurrentAt(all, 1, i) \in Registered(made)
        BY <1>12 DEF Registered
    <2>2. ASSUME NEW i \in P, NEW j \in P, CurrentAt(all, 1, i) = CurrentAt(all, 1, j) PROVE i = j
        <3>1. Number(P, i) = Number(P, j)
            BY <1>10, <1>12, <2>2 DEF KeysDistinct
        <3> QED BY <1>8, <3>1
    <2> QED BY <1>6, <2>1, <2>2 DEF ClaimsHeld
<1>14. ASSUME NEW c \in Registered(made)
       PROVE  c.ns = Root /\ c.kind # "client" /\ \E i \in ClaimedAt(all, 1) : c = CurrentAt(all, 1, i)
    <2>1. PICK k \in DOMAIN made : c = made[k]
        BY DEF Registered
    <2>2. c = CurrentAt(all, 1, PlaceOf(P, k)) /\ PlaceOf(P, k) \in P
        BY <1>11, <2>1
    <2>3. b.declares[PlaceOf(P, k)].kind # "client"
        BY <1>1, <2>2, Members, DeclarationFit
    <2> QED BY <1>6, <2>2, <2>3 DEF Component
<1> QED BY <1>9, <1>10, <1>13, <1>14 DEF all, made

\* The stages that add to the registry after all is constructed: what they add.
LEMMA Adds ==
    ASSUME Hosting, Replaying, Registering, ~(\E reason : Refuses(reason)),
           CreateCache \/ CachesDone \/ WireScheduler \/ SchedulersDone \/ WireTransport \/ Mount \/ Startup
    PROVE  /\ UNCHANGED <<dep, hosted, queue>> /\ stage \in Late \ {"construct"} /\ stage' \in Late \ {"construct"}
           /\ stage' \in {"caches", "schedulers"} => stage \in {"caches", "schedulers"}
           /\ \/ registry' = registry
              \/ \E made \in Seq(Comp) :
                    /\ ~Collides(registry, made) /\ registry' = registry \o made
                    /\ \A c \in Seqs(made) : /\ c.ns \in Owners \cup {Root}
                                             /\ c.kind = "client" => stage' \notin {"caches", "schedulers"} /\ c.base = <<dep.bus, "client">>
<1>1. /\ UNCHANGED <<dep, hosted, queue>> /\ stage \in Late \ {"construct"} /\ stage' \in Late \ {"construct"}
      /\ stage' \in {"caches", "schedulers"} => stage \in {"caches", "schedulers"}
    BY DEF CreateCache, CachesDone, WireScheduler, SchedulersDone, WireTransport, Mount, Startup, Enters, Late
<1>2. CASE CachesDone \/ SchedulersDone \/ Startup
    BY <1>1, <1>2 DEF CachesDone, SchedulersDone, Startup
<1>3. CASE CreateCache
    <2> DEFINE ns == queue[next].ns
               d == queue[next].of
               made == CacheMade(ns, d)
    <2>1. registry' = registry \/ (~Collides(registry, made) /\ registry' = registry \o made)
        BY <1>3 DEF CreateCache, CacheMade
    <2>2. next \in DOMAIN queue
        BY <1>3, Members DEF CreateCache, Hosting, Replaying
    <2>3. ns \in Name /\ d \in Declaration /\ ns \in Owners
        BY <2>2, QueueAt DEF Replaying, Seqs
    <2> HIDE DEF ns, d
    <2>4. made \in Seq(Comp) /\ \A c \in Seqs(made) : c.ns = ns /\ c.kind \in {"redis", "disk"}
        BY <2>3, CachesMade DEF Hosting
    <2>5. \A c \in Seqs(made) : c.ns \in Owners /\ c.kind # "client"
        BY <2>3, <2>4
    <2> HIDE DEF made
    <2> QED BY <1>1, <2>1, <2>4, <2>5
<1>4. CASE WireScheduler
    <2> DEFINE s == Schedulers[next]
               made == <<TickOf(s)>>
    <2>1. next <= Len(Schedulers) /\ (registry' = registry \/ (~Taken(registry, KeyOf(TickOf(s))) /\ registry' = Append(registry, TickOf(s))))
        BY <1>4 DEF WireScheduler
    <2>2. next \in DOMAIN Schedulers
        BY <2>1, SchedulersFit DEF Hosting, Registering
    <2>3. s \in Registered(registry) /\ s \in Comp
        BY <2>2, SchedulersFit, Members DEF Registering
    <2> HIDE DEF s
    <2>4. TickOf(s) \in Comp /\ TickOf(s).kind = "handler" /\ TickOf(s).ns \in Owners \cup {Root}
        BY <2>3, TickFit DEF Registering
    <2>5. made \in Seq(Comp) /\ Seqs(made) = {TickOf(s)} /\ Append(registry, TickOf(s)) = registry \o made /\ DOMAIN made = {1} /\ made[1] = TickOf(s)
        BY <2>4, AfterAppend DEF Registering
    <2> HIDE DEF made
    <2>6. ~Taken(registry, KeyOf(TickOf(s))) => ~Collides(registry, made)
        BY <2>5 DEF Collides
    <2> QED BY <1>1, <2>1, <2>4, <2>5, <2>6
<1>5. CASE WireTransport
    <2> DEFINE ns == (<<Root>> \o hosted)[next]
               made == IF Consuming(ns) \/ ns \in dep.publishing THEN ClientOf(ns) ELSE <<>>
    <2>1. next <= Len(hosted) + 1 /\ ~Collides(registry, made) /\ registry' = registry \o made /\ stage' = "transports"
        BY <1>5 DEF WireTransport
    <2>2. ns \in Owners \cup {Root} /\ ns \in Name
        <3>1. hosted \in Seq(Name) /\ Root \in Name
            BY OwnersFit, Within, EmptySeq DEF Hosting, Root, Name
        <3>2. <<Root>> \in Seq(Name) /\ Seqs(<<Root>>) = {Root} /\ Len(<<Root>>) = 1
            BY <3>1, AfterAppend
        <3>3. Seqs(<<Root>> \o hosted) = {Root} \cup Seqs(hosted) /\ <<Root>> \o hosted \in Seq(Name) /\ Len(<<Root>> \o hosted) = Len(hosted) + 1
            <4> DEFINE one == <<Root>>
            <4>0. one \in Seq(Name) /\ Seqs(one) = {Root} /\ Len(one) = 1 /\ Len(hosted) \in Nat
                BY <3>1, <3>2, Members
            <4> HIDE DEF one
            <4>1. Seqs(one \o hosted) = Seqs(one) \cup Seqs(hosted) /\ one \o hosted \in Seq(Name) /\ Len(one \o hosted) = Len(one) + Len(hosted)
                BY <3>1, <4>0, AfterConcat
            <4>2. Seqs(one \o hosted) = {Root} \cup Seqs(hosted) /\ one \o hosted \in Seq(Name) /\ Len(one \o hosted) = Len(hosted) + 1
                BY <4>0, <4>1
            <4> QED BY <4>2 DEF one
        <3>4. next \in DOMAIN (<<Root>> \o hosted)
            BY <2>1, <3>3, Members DEF Hosting
        <3>5. ns \in {Root} \cup Seqs(hosted)
            BY <3>3, <3>4 DEF Seqs
        <3> QED BY <3>1, <3>5, OwnersFit
    <2> HIDE DEF ns
    <2>3. made \in Seq(Comp) /\ \A c \in Seqs(made) : c.ns = ns /\ (c.kind = "client" => c.base = <<dep.bus, "client">>)
        BY <2>2, ClientsFit DEF Hosting
    <2> HIDE DEF made
    <2>4. stage' \notin {"caches", "schedulers"}
        BY <2>1
    <2> QED BY <1>1, <2>1, <2>2, <2>3, <2>4
<1>6. CASE Mount
    <2>1. ~Collides(registry, Services) /\ registry' = registry \o Services
        BY <1>6 DEF Mount
    <2>2. Services \in Seq(Comp) /\ \A c \in Seqs(Services) : c.kind # "client" /\ c.ns \in Owners \cup {Root}
        BY ServicesFit DEF Registering
    <2> QED BY <1>1, <2>1, <2>2
<1> QED BY <1>2, <1>3, <1>4, <1>5, <1>6

LEMMA RegisteringStep == Hosting /\ Replaying /\ Replaying' /\ Registering /\ [Next]_vars => Registering'
<1> SUFFICES ASSUME Hosting, Replaying, Replaying', Registering, [Next]_vars PROVE Registering'
    OBVIOUS
<1>e. Registered(<<>>) = {} /\ \A c : c \notin Registered(<<>>)
    BY DEF Registered
<1>1. CASE UNCHANGED vars
    BY <1>1 DEF Registering, vars, InOrder, HandlersDeclared, Owners, Unreached
<1>2. CASE \E reason : Refuses(reason)
    BY <1>2 DEF Registering, Refuses, Owners, Late
<1>3. CASE (ResolveGroup \/ LoadAgent \/ HostAgents \/ ReplayAgent) /\ ~(\E reason : Refuses(reason))
    <2>1. registry' = registry /\ stage \in {"group", "load", "replay"} /\ stage' \in {"load", "replay"}
        BY <1>3 DEF ResolveGroup, LoadAgent, HostAgents, ReplayAgent, Enters
    <2>2. registry = <<>>
        BY <2>1 DEF Registering
    <2> QED BY <1>e, <2>1, <2>2 DEF Registering, Late
<1>4. CASE AllReplayed
    <2>1. registry' = registry /\ queue' = queue /\ stage = "replay" /\ stage' = "construct" /\ next' = 1
        BY <1>4 DEF AllReplayed, Enters
    <2>2. registry = <<>> /\ \A q \in Seqs(queue) : ~q.of.instance
        BY <2>1 DEF Registering, Replaying
    <2>3. \A i \in DOMAIN queue : ~(i < 1) /\ ~queue[i].of.instance
        BY <2>2, QueueAt DEF Replaying, Seqs
    <2>4. ClaimedAt(queue, 1) = {}
        BY <2>3 DEF ClaimedAt
    <2>5. ClaimsHeld(queue', Unreached', registry')
        BY <2>1, <2>4 DEF ClaimsHeld, Unreached
    <2> QED BY <1>e, <2>1, <2>2, <2>5 DEF Registering, Late
<1>5. CASE HostRoot /\ ~(\E reason : Refuses(reason))
    <2> DEFINE b == BuilderOf(Root)
    <2>1. /\ stage = "standalone" /\ stage' = "construct" /\ next' = 1 /\ queue' = Replayed(b, Root) /\ registry' = MadeOf(b)
          /\ ~Collides(<<>>, MadeOf(b)) /\ UNCHANGED <<dep, hosted>>
        BY <1>5 DEF HostRoot, Enters, MadeOf, PassedBy
    <2>2. b \in BuilderSet
        <3>1. Root \in DOMAIN dep.image
            BY <2>1, OwnersFit DEF Hosting
        <3> QED BY <3>1, BuilderFit DEF Hosting
    <2> HIDE DEF b
    <2>3. /\ registry' \in Seq(Comp) /\ KeysDistinct(registry') /\ ClaimsHeld(queue', 1, registry')
          /\ \A c \in Registered(registry') : c.ns = Root /\ c.kind # "client"
        BY <2>1, <2>2, InstancesHeld
    <2>4. Unreached' = 1
        BY <2>1 DEF Unreached
    <2> QED BY <2>1, <2>3, <2>4 DEF Registering, Late
<1>6. CASE Construct /\ ~(\E reason : Refuses(reason))
    <2> DEFINE d == queue[next].of
               ns == queue[next].ns
               made == Makes(d, ns)
               self == Component(d.kind, ns, d.base)
    <2>1. /\ stage = "construct" /\ stage' = "construct" /\ next <= Len(queue) /\ next' = next + 1 /\ UNCHANGED <<dep, hosted, queue>>
          /\ \/ ~Constructed(d) /\ registry' = registry
             \/ /\ Constructed(d) /\ ~Collides(registry, made) /\ ~RenameRefused(registry \o made, self, BaseOf(d))
                /\ registry' = Rename(registry \o made, self, BaseOf(d))
        BY <1>6 DEF Construct
    <2>2. next \in DOMAIN queue /\ queue \in Seq(OfAgent) /\ registry \in Seq(Comp) /\ KeysDistinct(registry)
        BY <2>1, Members DEF Hosting, Replaying, Registering
    <2>3. ns \in Owners /\ ns \in Name /\ d \in Declaration
        BY <2>2, QueueAt DEF Replaying, Seqs
    <2>4. ClaimsHeld(queue, next, registry) /\ Unreached' = next + 1 /\ Owners' = Owners
        BY <2>1 DEF Registering, Late, Unreached, Owners
    <2>5. CASE ~Constructed(d) /\ registry' = registry
        <3>1. ClaimsHeld(queue, next + 1, registry)
            BY <2>2, <2>4, <2>5, ClaimsPassed
        <3> QED BY <2>1, <2>4, <2>5, <3>1 DEF Registering, Late
    <2>6. CASE /\ Constructed(d) /\ ~Collides(registry, made) /\ ~RenameRefused(registry \o made, self, BaseOf(d))
               /\ registry' = Rename(registry \o made, self, BaseOf(d))
        <3> DEFINE named == Component(d.kind, ns, BaseOf(d))
        <3>1. /\ registry' \in Seq(Comp) /\ KeysDistinct(registry') /\ ClaimsHeld(queue, next + 1, registry')
              /\ Registered(registry') = ((Registered(registry) \cup Seqs(made)) \ {self}) \cup {named}
            BY <2>2, <2>4, <2>6, ConstructedOne
        <3>2. named.ns = ns /\ named.kind # "client"
            BY <2>3, DeclarationFit DEF Component
        <3>3. \A c \in Seqs(made) : c.ns = ns /\ c.kind # "client"
            BY <2>3, Made
        <3> HIDE DEF made, named, self, d, ns
        <3>4. \A c \in Registered(registry) : c.ns \in Owners \cup {Root} /\ c.kind # "client"
            BY <2>1 DEF Registering
        <3>5. \A c \in Registered(registry') : c.ns \in Owners \cup {Root} /\ c.kind # "client"
            BY <2>3, <3>1, <3>2, <3>3, <3>4
        <3> QED BY <2>1, <2>4, <3>1, <3>5 DEF Registering, Late
    <2> QED BY <2>1, <2>5, <2>6
<1>7. CASE RestoreOrder
    <2>1. /\ stage = "construct" /\ next > Len(queue) /\ registry' = Reorder(registry, HandlersDeclared) /\ stage' = "caches"
          /\ UNCHANGED <<dep, hosted, queue>>
        BY <1>7 DEF RestoreOrder, Enters
    <2>2. /\ ClaimsHeld(queue, next, registry) /\ Unreached' = Len(queue) + 1 /\ Owners' = Owners /\ HandlersDeclared' = HandlersDeclared
          /\ registry \in Seq(Comp) /\ KeysDistinct(registry) /\ queue \in Seq(OfAgent)
        BY <2>1 DEF Registering, Replaying, Late, Unreached, Owners, HandlersDeclared
    <2>3. \A i \in DOMAIN queue : i < next /\ i < Len(queue) + 1
        BY <2>1, <2>2, QueueAt DEF Hosting
    <2>4. HandlersDeclared \in Seq(Comp) /\ Distinct(HandlersDeclared) /\ Seqs(HandlersDeclared) \subseteq Registered(registry)
        BY <2>2, <2>3, HandlersFit
    <2>5. /\ registry' \in Seq(Comp) /\ KeysDistinct(registry') /\ Registered(registry') = Registered(registry)
          /\ Picked(registry', PlacesOf(registry', HandlersDeclared)) = HandlersDeclared
        BY <2>1, <2>2, <2>4, Reordered DEF PlacesOf
    <2>6. ClaimsHeld(queue, Len(queue) + 1, registry')
        <3>1. ClaimedAt(queue, Len(queue) + 1) = ClaimedAt(queue, next)
            BY <2>3 DEF ClaimedAt
        <3>2. \A i \in ClaimedAt(queue, next) : CurrentAt(queue, Len(queue) + 1, i) = CurrentAt(queue, next, i)
            BY <2>3 DEF ClaimedAt, CurrentAt
        <3> QED BY <2>2, <2>5, <3>1, <3>2 DEF ClaimsHeld
    <2>7. \A c \in Registered(registry') : c.ns \in Owners \cup {Root} /\ c.kind # "client"
        BY <2>1, <2>5 DEF Registering
    <2> QED BY <2>1, <2>2, <2>5, <2>6, <2>7 DEF Registering, Late, InOrder
<1>8. CASE (CreateCache \/ CachesDone \/ WireScheduler \/ SchedulersDone \/ WireTransport \/ Mount \/ Startup) /\ ~(\E reason : Refuses(reason))
    BY <1>8, Adds, NothingAdded, GrowthKeeps
<1> QED BY <1>1, <1>2, <1>3, <1>4, <1>5, <1>6, <1>7, <1>8 DEF Next

-----------------------------------------------------------------------------
(* The caches: one entry for each that is declared, of the agent that       *)
(* declares it.                                                             *)

Cached(all, s, u) ==
    {i \in DOMAIN all : all[i].of.kind = "cache" /\ (s \in {"schedulers", "transports", "built", "serving"} \/ (s = "caches" /\ i < u))}
Caching ==
    stage # "refused" =>
        /\ DOMAIN caches = {<<queue[i].ns, queue[i].of.name>> : i \in Cached(queue, stage, next)}
        /\ \A e \in DOMAIN caches : caches[e].ns = e[1]

LEMMA CachingInit == Init => Caching
<1> SUFFICES ASSUME Init PROVE Caching
    OBVIOUS
<1>1. caches = <<>> /\ queue = <<>> /\ DOMAIN caches = {} /\ DOMAIN queue = {}
    BY DEF Init
<1>2. Cached(queue, stage, next) = {}
    BY <1>1 DEF Cached
<1> QED BY <1>1, <1>2 DEF Caching

LEMMA CachingStep == Hosting /\ Replaying /\ Caching /\ [Next]_vars => Caching'
<1> SUFFICES ASSUME Hosting, Replaying, Caching, [Next]_vars PROVE Caching'
    OBVIOUS
<1>1. CASE UNCHANGED vars
    BY <1>1 DEF Caching, vars
<1>2. CASE \E reason : Refuses(reason)
    BY <1>2 DEF Caching, Refuses
<1>3. CASE /\ ResolveGroup \/ LoadAgent \/ HostAgents \/ ReplayAgent \/ AllReplayed \/ HostRoot \/ Construct \/ RestoreOrder
           /\ ~(\E reason : Refuses(reason))
    <2>1. /\ caches' = caches /\ stage \in {"standalone", "group", "load", "replay", "construct"}
          /\ stage' \in {"load", "replay", "construct", "caches"} /\ (stage' = "caches" => next' = 1 /\ queue' = queue)
        BY <1>3 DEF ResolveGroup, LoadAgent, HostAgents, ReplayAgent, AllReplayed, HostRoot, Construct, RestoreOrder, Enters
    <2>2. Cached(queue, stage, next) = {}
        BY <2>1 DEF Cached
    <2>3. Cached(queue', stage', next') = {}
        <3>1. \A i \in DOMAIN queue : ~(i < 1)
            BY QueueAt DEF Replaying
        <3> QED BY <2>1, <3>1 DEF Cached
    <2>4. DOMAIN caches' = {} /\ {<<queue'[i].ns, queue'[i].of.name>> : i \in Cached(queue', stage', next')} = {}
        BY <2>1, <2>2, <2>3 DEF Caching
    <2> QED BY <2>4 DEF Caching
<1>4. CASE CreateCache /\ ~(\E reason : Refuses(reason))
    <2> DEFINE ns == queue[next].ns
               d == queue[next].of
               made == CacheMade(ns, d)
    <2>1. /\ stage = "caches" /\ next <= Len(queue) /\ stage' = stage /\ queue' = queue /\ next' = next + 1
          /\ caches' = IF d.kind = "cache" THEN CacheAdded(caches, ns, d.name, made[Len(made)]) ELSE caches
        BY <1>4 DEF CreateCache, CacheMade
    <2>2. next \in DOMAIN queue /\ \A i \in DOMAIN queue : (i < next + 1 <=> i < next \/ i = next)
        <3>1. DOMAIN queue = 1..Len(queue) /\ Len(queue) \in Nat /\ next \in Nat /\ next >= 1
            BY Members DEF Hosting, Replaying
        <3> QED BY <2>1, <3>1
    <2>3. ns \in Name /\ d \in Declaration
        BY <2>2, QueueAt DEF Replaying
    <2>4. made[Len(made)].ns = ns
        <3> HIDE DEF ns, d
        <3> QED BY <2>3, CachesMade DEF Hosting, Seqs
    <2>5. CASE d.kind # "cache"
        <3>1. Cached(queue, stage, next + 1) = Cached(queue, stage, next)
            BY <2>1, <2>2, <2>5 DEF Cached
        <3> QED BY <2>1, <2>5, <3>1 DEF Caching
    <2>6. CASE d.kind = "cache"
        <3>1. Cached(queue, stage, next + 1) = Cached(queue, stage, next) \cup {next}
            BY <2>1, <2>2, <2>6 DEF Cached
        <3>2. {<<queue[i].ns, queue[i].of.name>> : i \in Cached(queue, stage, next + 1)} = DOMAIN caches \cup {<<ns, d.name>>}
            BY <2>1, <3>1 DEF Caching
        <3> HIDE DEF made, ns
        <3>3. DOMAIN caches' = DOMAIN caches \cup {<<ns, d.name>>}
            BY <2>1, <2>6 DEF CacheAdded
        <3>4. \A e \in DOMAIN caches' : caches'[e].ns = e[1]
            <4> TAKE e \in DOMAIN caches'
            <4>1. caches'[e] = IF e = <<ns, d.name>> THEN made[Len(made)] ELSE caches[e]
                BY <2>1, <2>6 DEF CacheAdded
            <4> QED BY <2>1, <2>4, <3>3, <4>1 DEF Caching
        <3> QED BY <2>1, <3>2, <3>3, <3>4 DEF Caching
    <2> QED BY <2>5, <2>6
<1>5. CASE /\ CachesDone \/ WireScheduler \/ SchedulersDone \/ WireTransport \/ Mount \/ Startup
           /\ ~(\E reason : Refuses(reason))
    <2>1. /\ UNCHANGED <<caches, queue>> /\ stage \in {"caches", "schedulers", "transports", "built"}
          /\ stage' \in {"schedulers", "transports", "built", "serving"} /\ (stage = "caches" => next > Len(queue))
        BY <1>5 DEF CachesDone, WireScheduler, SchedulersDone, WireTransport, Mount, Startup, Enters
    <2>2. stage = "caches" => \A i \in DOMAIN queue : i < next
        BY <2>1, QueueAt DEF Hosting, Replaying
    <2>3. Cached(queue, stage', next') = Cached(queue, stage, next)
        BY <2>1, <2>2 DEF Cached
    <2> QED BY <2>1, <2>3 DEF Caching
<1> QED BY <1>1, <1>2, <1>3, <1>4, <1>5 DEF Next

-----------------------------------------------------------------------------
(* OwnOrShared: what an agent finds is its own or the root's.               *)

LEMMA Cancels ==
    ASSUME NEW ns \in Name, NEW x \in Path, NEW y \in Path, ns \o x = ns \o y
    PROVE  x = y
<1>1. ns \in Path
    BY NameIsPath
<1> QED BY <1>1, ConcatSimplifications DEF Path

LEMMA RootKey == ASSUME NEW x \in Path PROVE Root \o x = x
BY ConcatEmptySeq DEF Root, Path

LEMMA TailsFit == ASSUME NEW reg \in Seq(Comp) PROVE Tails(reg) \subseteq Path
<1> SUFFICES ASSUME NEW name \in Tails(reg) PROVE name \in Path
    OBVIOUS
<1>0. PICK c \in Registered(reg) : \E i \in DOMAIN KeyOf(c) : name = SubSeq(KeyOf(c), i, Len(KeyOf(c)))
    BY DEF Tails
<1>1. PICK i \in DOMAIN KeyOf(c) : name = SubSeq(KeyOf(c), i, Len(KeyOf(c)))
    BY <1>0
<1>2. c \in Comp
    BY Members DEF Registered
<1>3. KeyOf(c) \in Path
    BY <1>2, NameIsPath, PathConcat DEF Comp, KeyOf, Qualified
<1> DEFINE k == KeyOf(c)
           W == STRING \cup FrameworkWords
<1>4. k \in Seq(W) /\ i \in 1..Len(k) /\ Len(k) \in Nat /\ \A j \in 1..Len(k) : k[j] \in W
    <2>1. k \in Seq(W)
        BY <1>3 DEF Path
    <2> HIDE DEF k, W
    <2>2. Len(k) \in Nat /\ DOMAIN k = 1..Len(k) /\ \A j \in DOMAIN k : k[j] \in W
        BY <2>1, Members
    <2> QED BY <2>1, <2>2 DEF k
<1> HIDE DEF k, W
<1>5. \A j \in i..Len(k) : k[j] \in W
    BY <1>4
<1>6. SubSeq(k, i, Len(k)) \in Seq(W)
    BY <1>4, <1>5, SubSeqProperties
<1> QED BY <1>1, <1>6 DEF k, W, Path

LEMMA OwnFirst ==
    ASSUME Hosting, Registering, NEW ns \in Seqs(hosted), NEW name \in Path
    PROVE  /\ \A c \in Lookup(registry, ns, name) : c.ns \in {ns, Root}
           /\ {c \in Registered(registry) : c.ns = ns /\ c.base = name} # {} =>
                 Lookup(registry, ns, name) = {c \in Registered(registry) : c.ns = ns /\ c.base = name}
           /\ {c \in Registered(registry) : c.ns = ns /\ c.base = name} = {} /\ {c \in Registered(registry) : c.ns = Root /\ c.base = name} # {} =>
                 Lookup(registry, ns, name) = {c \in Registered(registry) : c.ns = Root /\ c.base = name}
<1> DEFINE own == {c \in Registered(registry) : KeyOf(c) = Qualified(ns, name) /\ c.ns = ns}
           bare == {c \in Registered(registry) : KeyOf(c) = name /\ c.ns \in {ns, Root}}
           mine == {c \in Registered(registry) : c.ns = ns /\ c.base = name}
           roots == {c \in Registered(registry) : c.ns = Root /\ c.base = name}
<1>1. ns # Root /\ ns \in Name
    BY OwnersFit
<1>2. Lookup(registry, ns, name) = IF own # {} THEN own ELSE bare
    BY <1>1 DEF Lookup
<1>3. \A c \in Registered(registry) : c.ns \in Name /\ c.base \in Path
    <2>1. Registered(registry) = Seqs(registry)
        BY DEF Registered, Seqs
    <2>2. Registered(registry) \subseteq Comp
        BY <2>1, Members DEF Registering
    <2> QED BY <2>2 DEF Comp
<1>4. own = mine
    <2>1. ASSUME NEW c \in Registered(registry), c.ns = ns PROVE KeyOf(c) = Qualified(ns, name) <=> c.base = name
        <3>1. KeyOf(c) = ns \o c.base
            BY <2>1 DEF KeyOf, Qualified
        <3>2. ns \o c.base = ns \o name => c.base = name
            BY <1>1, <1>3, Cancels
        <3> QED BY <3>1, <3>2 DEF Qualified
    <2> QED BY <2>1
<1>5. ASSUME own = {}, roots # {} PROVE bare = roots
    <2>1. PICK r \in roots : TRUE
        BY <1>5
    <2>2. \A c \in roots : KeyOf(c) = name
        BY RootKey DEF KeyOf, Qualified
    <2>3. \A c \in bare : c = r
        BY <2>1, <2>2, KeyedOnce DEF Registering
    <2>4. roots \subseteq bare
        BY <2>2
    <2> HIDE DEF bare
    <2>5. bare \subseteq roots
        BY <2>1, <2>3
    <2> QED BY <2>4, <2>5
<1> QED BY <1>2, <1>4, <1>5

LEMMA FindsByName == ASSUME Hosting, Registering, NEW ns \in Seqs(hosted) PROVE FoundByName(ns)
<1> SUFFICES ASSUME NEW name \in Tails(registry)
             PROVE  /\ \A c \in Lookup(registry, ns, name) : c.ns \in {ns, Root}
                    /\ {c \in Registered(registry) : c.ns = ns /\ c.base = name} # {} =>
                          Lookup(registry, ns, name) = {c \in Registered(registry) : c.ns = ns /\ c.base = name}
                    /\ {c \in Registered(registry) : c.ns = ns /\ c.base = name} = {} /\ {c \in Registered(registry) : c.ns = Root /\ c.base = name} # {} =>
                          Lookup(registry, ns, name) = {c \in Registered(registry) : c.ns = Root /\ c.base = name}
                    /\ \A kind \in {"service", "client"} : \A c \in Single(registry, ns, kind, name) : c.ns \in {ns, Root}
    BY DEF FoundByName
<1>1. name \in Path
    BY TailsFit DEF Registering
<1>2. \A kind : \A c \in Resolve(registry, ns, kind) : c.ns \in {ns, Root}
    BY DEF Resolve
<1>3. \A kind : Single(registry, ns, kind, name) \subseteq Lookup(registry, ns, name) \cup Resolve(registry, ns, kind)
    BY DEF Single
<1>4. \A c \in Lookup(registry, ns, name) : c.ns \in {ns, Root}
    BY <1>1, OwnFirst
<1> QED BY <1>1, <1>2, <1>3, <1>4, OwnFirst

LEMMA FindsRuntime == ASSUME Hosting, Registering, NEW ns \in Seqs(hosted) PROVE RuntimeFound(ns)
<1>1. ns # Root /\ ns \in Name
    BY OwnersFit
<1>2. \A name : \A c \in Lookup(registry, ns, name) : c.ns \in {ns, Root}
    BY <1>1 DEF Lookup
<1>3. \A name : RuntimeNamed(registry, ns, name) \subseteq Lookup(registry, ns, name)
    BY DEF RuntimeNamed
<1>4. ASSUME NEW name, NEW c \in BoundRuntime(registry, ns, name) PROVE c.ns \in {ns, Root}
    <2>1. \E other : c \in RuntimeNamed(registry, ns, other)
        BY <1>4 DEF BoundRuntime
    <2> QED BY <1>2, <1>3, <2>1
<1>5. ASSUME NEW c \in Registered(registry), OfKind(registry, "agent", ns) = {c}, ~Taken(registry, Qualified(ns, KeyOf(c)))
      PROVE  BoundRuntime(registry, ns, Unnamed) = {c}
    <2>1. c.kind = "agent" /\ c.ns = ns
        BY <1>5 DEF OfKind
    <2>2. Cardinality(OfKind(registry, "agent", ns)) = 1
        BY <1>5, FS_Singleton
    <2>3. BoundRuntime(registry, ns, Unnamed) = UNION {RuntimeNamed(registry, ns, KeyOf(d)) : d \in {c}}
        BY <1>5, <2>2 DEF BoundRuntime, Unnamed
    <2>4. Lookup(registry, ns, KeyOf(c)) = {d \in Registered(registry) : KeyOf(d) = KeyOf(c) /\ d.ns \in {ns, Root}}
        <3>1. {d \in Registered(registry) : KeyOf(d) = Qualified(ns, KeyOf(c)) /\ d.ns = ns} = {}
            BY <1>5 DEF Taken
        <3> QED BY <1>1, <3>1 DEF Lookup
    <2>5. Lookup(registry, ns, KeyOf(c)) = {c}
        BY <2>1, <2>4, KeyedOnce DEF Registering
    <2>6. RuntimeNamed(registry, ns, KeyOf(c)) = {c}
        BY <2>1, <2>5 DEF RuntimeNamed
    <2> QED BY <2>3, <2>6
<1> QED BY <1>4, <1>5 DEF RuntimeFound

LEMMA FindsStores ==
    ASSUME Hosting, Replaying, Registering, Caching, Assembled, NEW ns \in Seqs(hosted)
    PROVE  StoresAndClient(ns)
<1>1. ns # Root /\ \A other \in Seqs(hosted) : other # Root
    BY OwnersFit
<1>2. /\ stage \in {"built", "serving"}
      /\ DOMAIN caches = {<<queue[i].ns, queue[i].of.name>> : i \in Cached(queue, stage, next)}
      /\ \A e \in DOMAIN caches : caches[e].ns = e[1]
    BY DEF Assembled, Caching
<1>3. Cached(queue, stage, next) = {i \in DOMAIN queue : queue[i].of.kind = "cache"}
    BY <1>2 DEF Cached
<1>4. \A n, name : name \in CachesOf(caches, n) <=> <<n, name>> \in DOMAIN caches
    <2> TAKE n, name
    <2>1. name \in CachesOf(caches, n) <=> \E e \in DOMAIN caches : e[1] = n /\ e[2] = name
        BY DEF CachesOf
    <2>2. \A e \in DOMAIN caches : e = <<e[1], e[2]>>
        BY <1>2
    <2> QED BY <2>1, <2>2
<1>5. {d.of.name : d \in {q \in Seqs(queue) : q.ns = ns /\ q.of.kind = "cache"}} = CachesOf(caches, ns)
    <2>1. ASSUME NEW q \in Seqs(queue), q.ns = ns, q.of.kind = "cache" PROVE q.of.name \in CachesOf(caches, ns)
        <3>1. PICK i \in DOMAIN queue : q = queue[i]
            BY DEF Seqs
        <3>2. i \in Cached(queue, stage, next)
            BY <1>3, <2>1, <3>1
        <3> QED BY <1>2, <1>4, <2>1, <3>1, <3>2
    <2>2. ASSUME NEW name \in CachesOf(caches, ns) PROVE \E q \in Seqs(queue) : q.ns = ns /\ q.of.kind = "cache" /\ q.of.name = name
        <3>1. PICK i \in Cached(queue, stage, next) : <<ns, name>> = <<queue[i].ns, queue[i].of.name>>
            BY <1>2, <1>4
        <3> QED BY <1>3, <3>1 DEF Seqs
    <2> QED BY <2>1, <2>2
<1>6. ASSUME NEW other \in Seqs(hosted), NEW name, NEW c \in CacheAsked(caches, ns, other, name) PROVE c.ns = ns /\ other = ns
    <2>1. other = ns /\ <<other, name>> \in DOMAIN caches /\ c = caches[<<other, name>>]
        BY <1>1, <1>4, <1>6 DEF CacheAsked
    <2> QED BY <1>2, <2>1
<1>7. ASSUME NEW c \in OfKind(registry, "client", ns), Lookup(registry, ns, <<"io", "client", "base">>) = {}
      PROVE  IOClient(registry, ns) = {c}
    <2>1. \A d \in Registered(registry) : d.kind = "client" => d.base = <<dep.bus, "client">>
        BY DEF Registering
    <2>2. \A d \in OfKind(registry, "client", ns) : KeyOf(d) = KeyOf(c)
        BY <2>1 DEF OfKind, KeyOf
    <2>3. \A d \in OfKind(registry, "client", ns) : d = c
        BY <2>2, KeyedOnce DEF Registering, OfKind
    <2>4. {d \in Registered(registry) : d.kind = "client" /\ d.ns = ns} = {c}
        BY <2>3 DEF OfKind
    <2>5. Cardinality({c}) = 1
        BY FS_Singleton
    <2>6. Resolve(registry, ns, "client") = {c}
        BY <2>4, <2>5 DEF Resolve
    <2> QED BY <1>7, <2>6 DEF IOClient, Single
<1> QED BY <1>5, <1>6, <1>7 DEF StoresAndClient

StartInv == Hosting /\ Replaying /\ Registering /\ Caching

LEMMA Started == Spec => []StartInv
<1>1. Init => StartInv
    BY HostingInit, ReplayingInit, RegisteringInit, CachingInit DEF StartInv
<1>2. StartInv /\ [Next]_vars => StartInv'
    BY HostingStep, ReplayingStep, RegisteringStep, CachingStep DEF StartInv
<1> QED BY <1>1, <1>2, PTL DEF Spec

\* What an agent finds is its own or the process's.
THEOREM OwnFound == Spec => []OwnOrShared
<1>1. StartInv => OwnOrShared
    BY FindsByName, FindsRuntime, FindsStores DEF StartInv, OwnOrShared
<1> QED BY <1>1, Started, PTL

-----------------------------------------------------------------------------
(* The transports: what hands a handler its events is there once.          *)

Line == <<Root>> \o hosted

LEMMA LineFit ==
    ASSUME Hosting
    PROVE  /\ Line \in Seq(Name) /\ Distinct(Line) /\ Seqs(Line) = {Root} \cup Seqs(hosted)
           /\ DOMAIN Line = 1..(Len(hosted) + 1) /\ Len(hosted) \in Nat /\ \A k \in DOMAIN Line : Line[k] \in Seqs(Line)
           /\ Owners \cup {Root} \subseteq Seqs(Line)
<1> DEFINE one == <<Root>>
<1>1. hosted \in Seq(Name) /\ Root \in Name /\ \A i \in DOMAIN hosted : hosted[i] # Root
    <2>1. \A n \in Seqs(hosted) : n # Root /\ n \in Name
        BY OwnersFit
    <2> QED BY <2>1, Within, EmptySeq DEF Hosting, Root, Name, Seqs
<1>2. one \in Seq(Name) /\ Seqs(one) = {Root} /\ Len(one) = 1 /\ DOMAIN one = {1} /\ one[1] = Root
    BY <1>1, AfterAppend
<1>3. Line = one \o hosted
    BY DEF Line
<1> HIDE DEF one
<1>4. /\ Line \in Seq(Name) /\ Len(Line) = Len(one) + Len(hosted) /\ Seqs(Line) = Seqs(one) \cup Seqs(hosted)
      /\ \A i \in DOMAIN Line : \/ i \in DOMAIN one /\ Line[i] = one[i]
                                \/ i \notin DOMAIN one /\ i - Len(one) \in DOMAIN hosted /\ Line[i] = hosted[i - Len(one)]
    <2>1. /\ one \o hosted \in Seq(Name) /\ Len(one \o hosted) = Len(one) + Len(hosted) /\ Seqs(one \o hosted) = Seqs(one) \cup Seqs(hosted)
          /\ \A i \in DOMAIN (one \o hosted) :
                \/ i \in DOMAIN one /\ (one \o hosted)[i] = one[i]
                \/ i \notin DOMAIN one /\ i - Len(one) \in DOMAIN hosted /\ (one \o hosted)[i] = hosted[i - Len(one)]
        BY <1>1, <1>2, AfterConcat
    <2> QED BY <1>3, <2>1
<1>5. Len(hosted) \in Nat /\ DOMAIN Line = 1..(Len(hosted) + 1)
    BY <1>1, <1>2, <1>4, Members
<1>6. Distinct(Line)
    <2> SUFFICES ASSUME NEW i \in DOMAIN Line, NEW j \in DOMAIN Line, Line[i] = Line[j] PROVE i = j
        BY DEF Distinct
    <2>1. CASE i = 1 \/ j = 1
        BY <1>1, <1>2, <1>4, <2>1
    <2>2. CASE i # 1 /\ j # 1
        <3>1. i - 1 \in DOMAIN hosted /\ j - 1 \in DOMAIN hosted /\ hosted[i - 1] = hosted[j - 1]
            BY <1>2, <1>4, <2>2
        <3>2. i - 1 = j - 1 /\ i \in Int /\ j \in Int
            BY <1>5, <3>1 DEF Hosting, Distinct
        <3> QED BY <3>2
    <2> QED BY <2>1, <2>2
<1>7. \A k \in DOMAIN Line : Line[k] \in Seqs(Line)
    BY DEF Seqs
<1>8. Owners \cup {Root} \subseteq Seqs(Line)
    BY <1>2, <1>4 DEF Owners
<1> QED BY <1>2, <1>4, <1>5, <1>6, <1>7, <1>8

OfFeed == [by : {"nats", "dapr", "sessions", "none"}, ns : Name]
FedOnce ==
    dep.bus # "none" => \A c \in Registered(registry) : c.kind = "handler" =>
        Cardinality({i \in DOMAIN feeds : feeds[i].by = "dapr" \/ feeds[i].ns = c.ns}) = 1

\* The transports wired so far.
FedSoFar ==
    /\ \A i \in DOMAIN feeds : /\ feeds[i].by = dep.bus /\ dep.bus \in {"nats", "sessions"}
                               /\ \E k \in DOMAIN Line : k < next /\ feeds[i].ns = Line[k]
                               /\ dep.bus = "nats" => Consuming(feeds[i].ns)
    /\ \A i, j \in DOMAIN feeds : feeds[i].ns = feeds[j].ns => i = j
    /\ dep.bus \in {"nats", "sessions"} =>
         \A k \in DOMAIN Line : k < next /\ Consuming(Line[k]) => \E i \in DOMAIN feeds : feeds[i].ns = Line[k]

Fed ==
    /\ feeds \in Seq(OfFeed)
    /\ stage \in {"standalone", "group", "load", "replay", "construct", "caches", "schedulers"} => feeds = <<>>
    /\ stage = "transports" => FedSoFar
    /\ Assembled => FedOnce /\ \A n : Feeding(n) => Consuming(n)
    /\ Assembled /\ dep.bus = "nats" => \A n \in Seqs(Line) : Consuming(n) => Feeding(n)

LEMMA FedInit == Init => Fed
BY EmptySeq DEF Init, Fed, Assembled

\* Clients and services are no handlers: who consumes stays the same.
LEMMA ConsumersStay ==
    ASSUME NEW made, Registered(registry') = Registered(registry) \cup Seqs(made), \A c \in Seqs(made) : c.kind # "handler"
    PROVE  /\ \A n : OfKind(registry', "handler", n) = OfKind(registry, "handler", n)
           /\ \A n : Consuming(n)' <=> Consuming(n)
           /\ \A c \in Registered(registry') : c.kind = "handler" => c \in Registered(registry)
<1>1. \A n : OfKind(registry', "handler", n) = OfKind(registry, "handler", n)
    BY DEF OfKind
<1> QED BY <1>1 DEF Consuming

\* WireTransport, when it does not refuse.
LEMMA Wires ==
    ASSUME Hosting, Registering, WireTransport, ~(\E reason : Refuses(reason))
    PROVE  LET ns == Line[next]
               made == IF Consuming(ns) \/ ns \in dep.publishing THEN ClientOf(ns) ELSE <<>>
           IN  /\ stage = "transports" /\ stage' = stage /\ next \in DOMAIN Line /\ next' = next + 1 /\ UNCHANGED <<dep, hosted, queue, caches>>
               /\ ns \in Seqs(Line) /\ ns \in Name /\ made \in Seq(Comp) /\ ~Collides(registry, made) /\ registry' = registry \o made
               /\ \A c \in Seqs(made) : c.ns = ns /\ c.kind \in {"client", "service"} /\ (c.kind = "client" => c.base = <<dep.bus, "client">>)
               /\ Registered(registry') = Registered(registry) \cup Seqs(made)
               /\ feeds' = IF (dep.bus = "nats" /\ Consuming(ns)) \/ (dep.bus = "sessions" /\ (Consuming(ns) \/ ns \in dep.publishing))
                           THEN Append(feeds, [by |-> dep.bus, ns |-> ns]) ELSE feeds
               /\ (ns \in dep.publishing => dep.bus \in TopicTransports) /\ "publishing" \notin Wrong(ns)
<1> DEFINE ns == Line[next]
           made == IF Consuming(ns) \/ ns \in dep.publishing THEN ClientOf(ns) ELSE <<>>
<1>1. /\ stage = "transports" /\ stage' = stage /\ next <= Len(hosted) + 1 /\ next' = next + 1 /\ UNCHANGED <<dep, hosted, queue, caches>>
      /\ ~Collides(registry, made) /\ registry' = registry \o made
      /\ feeds' = IF (dep.bus = "nats" /\ Consuming(ns)) \/ (dep.bus = "sessions" /\ (Consuming(ns) \/ ns \in dep.publishing))
                  THEN Append(feeds, [by |-> dep.bus, ns |-> ns]) ELSE feeds
      /\ (ns \in dep.publishing => dep.bus \in TopicTransports) /\ "publishing" \notin Wrong(ns)
    BY DEF WireTransport, Line
<1>2. next \in DOMAIN Line
    BY <1>1, LineFit DEF Hosting
<1>3. ns \in Seqs(Line) /\ ns \in Name
    BY <1>2, LineFit, Members
<1> HIDE DEF ns
<1>4. /\ made \in Seq(Comp)
      /\ \A c \in Seqs(made) : c.ns = ns /\ c.kind \in {"client", "service"} /\ (c.kind = "client" => c.base = <<dep.bus, "client">>)
    BY <1>3, ClientsFit DEF Hosting
<1> HIDE DEF made
<1>5. Registered(registry') = Registered(registry) \cup Seqs(made)
    BY <1>1, <1>4, Extended DEF Registering
<1> QED BY <1>1, <1>2, <1>3, <1>4, <1>5 DEF ns, made

LEMMA FedStep == StartInv /\ StartInv' /\ Fed /\ [Next]_vars => Fed'
<1> SUFFICES ASSUME StartInv, StartInv', Fed, [Next]_vars PROVE Fed'
    OBVIOUS
<1>0. Hosting /\ Replaying /\ Registering
    BY DEF StartInv
<1>1. CASE UNCHANGED vars
    <2>1. UNCHANGED <<dep, stage, next, hosted, registry, feeds>>
        BY <1>1 DEF vars
    <2>2. Line' = Line /\ (\A n : Consuming(n)' <=> Consuming(n)) /\ (\A n : Feeding(n)' <=> Feeding(n)) /\ (Assembled' <=> Assembled)
        BY <2>1 DEF Line, Consuming, Feeding, Assembled
    <2>3. FedSoFar => FedSoFar'
        BY <2>1, <2>2 DEF FedSoFar
    <2>4. FedOnce => FedOnce'
        BY <2>1 DEF FedOnce
    <2> QED BY <2>1, <2>2, <2>3, <2>4 DEF Fed
<1>2. CASE \E reason : Refuses(reason)
    BY <1>2 DEF Fed, Refuses, Assembled
<1>3. CASE /\ ResolveGroup \/ LoadAgent \/ HostAgents \/ ReplayAgent \/ AllReplayed \/ HostRoot \/ Construct \/ RestoreOrder
              \/ CreateCache \/ CachesDone \/ WireScheduler \/ SchedulersDone
           /\ ~(\E reason : Refuses(reason))
    <2>1. /\ feeds' = feeds /\ stage \in {"standalone", "group", "load", "replay", "construct", "caches", "schedulers"}
          /\ stage' \notin {"built", "serving"} /\ (stage' = "transports" => next' = 1)
        BY <1>3 DEF ResolveGroup, LoadAgent, HostAgents, ReplayAgent, AllReplayed, HostRoot, Construct, RestoreOrder, CreateCache, CachesDone,
                    WireScheduler, SchedulersDone, Enters
    <2>2. feeds = <<>> /\ DOMAIN feeds = {}
        BY <2>1 DEF Fed
    <2>3. stage' = "transports" => FedSoFar'
        <3>1. \A k \in DOMAIN Line' : ~(k < 1)
            <4>1. Line' \in Seq(Name)
                <5>1. Hosting'
                    BY DEF StartInv
                <5>2. (Hosting => Line \in Seq(Name))'
                    BY LineFit, PTL
                <5> QED BY <5>1, <5>2
            <4> QED BY <4>1, Members
        <3> QED BY <2>1, <2>2, <3>1 DEF FedSoFar
    <2> QED BY <2>1, <2>2, <2>3 DEF Fed, Assembled
<1>4. CASE WireTransport /\ ~(\E reason : Refuses(reason))
    <2> DEFINE ns == Line[next]
               made == IF Consuming(ns) \/ ns \in dep.publishing THEN ClientOf(ns) ELSE <<>>
               feeding == (dep.bus = "nats" /\ Consuming(ns)) \/ (dep.bus = "sessions" /\ (Consuming(ns) \/ ns \in dep.publishing))
               feed == [by |-> dep.bus, ns |-> ns]
    <2>1. /\ stage = "transports" /\ stage' = stage /\ next \in DOMAIN Line /\ next' = next + 1 /\ UNCHANGED <<dep, hosted, queue, caches>>
          /\ ns \in Seqs(Line) /\ ns \in Name
          /\ \A c \in Seqs(made) : c.kind \in {"client", "service"}
          /\ Registered(registry') = Registered(registry) \cup Seqs(made)
          /\ feeds' = IF feeding THEN Append(feeds, feed) ELSE feeds
        BY <1>0, <1>4, Wires
    <2>2. Line' = Line /\ ns' = Line[next + 1]
        BY <2>1 DEF Line
    <2>3. \A n : Consuming(n)' <=> Consuming(n)
        <3> HIDE DEF made
        <3> QED BY <2>1, ConsumersStay
    <2>4. feed \in OfFeed /\ feed.by = dep.bus /\ feed.ns = ns
        BY <1>0, <2>1, DepFit DEF OfFeed, Hosting, SettingsFit
    <2>5. \A k \in DOMAIN Line : (k < next + 1 <=> k < next \/ k = next) /\ (k < next => k # next)
        BY <1>0, LineFit DEF Hosting
    <2>6. FedSoFar
        BY <2>1 DEF Fed
    <2>7. \A i \in DOMAIN feeds : feeds[i].ns # ns
        BY <1>0, <2>1, <2>5, <2>6, LineFit DEF FedSoFar, Distinct
    <2>8. feeding => dep.bus \in {"nats", "sessions"} /\ (dep.bus = "nats" => Consuming(ns))
        OBVIOUS
    <2>9. dep.bus \in {"nats", "sessions"} /\ Consuming(ns) => feeding
        OBVIOUS
    <2> DEFINE u == Append(feeds, feed)
    <2>10. /\ u \in Seq(OfFeed)
           /\ \A i \in DOMAIN u : \/ i \in DOMAIN feeds /\ u[i] = feeds[i]
                                  \/ i \notin DOMAIN feeds /\ i - Len(feeds) = 1 /\ u[i] = feed
           /\ \A i \in DOMAIN feeds : i \in DOMAIN u /\ u[i] = feeds[i]
           /\ \E i \in DOMAIN u : u[i] = feed
           /\ Len(feeds) \in Nat /\ \A i \in DOMAIN u : i \in Int
        <3> DEFINE one == <<feed>>
        <3>1. one \in Seq(OfFeed) /\ u = feeds \o one /\ DOMAIN one = {1} /\ one[1] = feed /\ u \in Seq(OfFeed)
            BY <2>4, AfterAppend DEF Fed
        <3> HIDE DEF one, u, feed
        <3>2. /\ \A i \in DOMAIN u : \/ i \in DOMAIN feeds /\ u[i] = feeds[i]
                                     \/ i \notin DOMAIN feeds /\ i - Len(feeds) \in DOMAIN one /\ u[i] = one[i - Len(feeds)]
              /\ \A i \in DOMAIN feeds : i \in DOMAIN u /\ u[i] = feeds[i]
              /\ \A i \in DOMAIN one : Len(feeds) + i \in DOMAIN u /\ u[Len(feeds) + i] = one[i]
            BY <3>1, AfterConcat DEF Fed
        <3>3. Len(feeds) \in Nat /\ DOMAIN u = 1..Len(u) /\ Len(u) \in Nat
            BY <3>1, Members DEF Fed
        <3>4. \A i \in DOMAIN u : \/ i \in DOMAIN feeds /\ u[i] = feeds[i]
                                  \/ i \notin DOMAIN feeds /\ i - Len(feeds) = 1 /\ u[i] = feed
            BY <3>1, <3>2
        <3>5. \E i \in DOMAIN u : u[i] = feed
            BY <3>1, <3>2
        <3> QED BY <3>1, <3>2, <3>3, <3>4, <3>5
    <2> HIDE DEF ns, made, feeding, feed, u
    <2>11. CASE feeding
        <3>1. feeds' = u
            BY <2>1, <2>11 DEF u
        <3>2. \A i \in DOMAIN u : /\ u[i].by = dep.bus /\ dep.bus \in {"nats", "sessions"}
                                  /\ \E k \in DOMAIN Line : k < next + 1 /\ u[i].ns = Line[k]
                                  /\ dep.bus = "nats" => Consuming(u[i].ns)
            <4> TAKE i \in DOMAIN u
            <4>1. CASE i \in DOMAIN feeds /\ u[i] = feeds[i]
                BY <2>5, <2>6, <4>1 DEF FedSoFar
            <4>2. CASE u[i] = feed
                BY <2>1, <2>4, <2>5, <2>8, <2>11, <4>2 DEF ns
            <4> QED BY <2>10, <4>1, <4>2
        <3>3. ASSUME NEW i \in DOMAIN u, NEW j \in DOMAIN u, u[i].ns = u[j].ns PROVE i = j
            <4>1. CASE i \in DOMAIN feeds /\ j \in DOMAIN feeds
                BY <2>6, <2>10, <3>3, <4>1 DEF FedSoFar
            <4>2. CASE i \in DOMAIN feeds /\ j \notin DOMAIN feeds
                BY <2>4, <2>7, <2>10, <3>3, <4>2
            <4>3. CASE i \notin DOMAIN feeds /\ j \in DOMAIN feeds
                BY <2>4, <2>7, <2>10, <3>3, <4>3
            <4>4. CASE i \notin DOMAIN feeds /\ j \notin DOMAIN feeds
                <5>1. i - Len(feeds) = 1 /\ j - Len(feeds) = 1 /\ i \in Int /\ j \in Int /\ Len(feeds) \in Nat
                    BY <2>10, <4>4
                <5> QED BY <5>1
            <4> QED BY <4>1, <4>2, <4>3, <4>4
        <3>4. dep.bus \in {"nats", "sessions"} =>
                \A k \in DOMAIN Line : k < next + 1 /\ Consuming(Line[k]) => \E i \in DOMAIN u : u[i].ns = Line[k]
            <4> SUFFICES ASSUME dep.bus \in {"nats", "sessions"}, NEW k \in DOMAIN Line, k < next + 1, Consuming(Line[k])
                         PROVE  \E i \in DOMAIN u : u[i].ns = Line[k]
                OBVIOUS
            <4>1. CASE k < next
                <5>1. PICK i \in DOMAIN feeds : feeds[i].ns = Line[k]
                    BY <2>6, <4>1 DEF FedSoFar
                <5>2. i \in DOMAIN u /\ u[i].ns = Line[k]
                    BY <2>10, <5>1
                <5> QED BY <5>2
            <4>2. CASE k = next
                BY <2>4, <2>10, <4>2 DEF ns
            <4> QED BY <2>5, <4>1, <4>2
        <3>5. FedSoFar'
            BY <2>1, <2>2, <2>3, <3>1, <3>2, <3>3, <3>4 DEF FedSoFar
        <3> QED BY <2>1, <2>10, <3>1, <3>5 DEF Fed, Assembled
    <2>12. CASE ~feeding
        <3>1. feeds' = feeds
            BY <2>1, <2>12
        <3>2. FedSoFar'
            <4>1. dep.bus \in {"nats", "sessions"} => ~Consuming(Line[next])
                BY <2>9, <2>12 DEF ns
            <4> QED BY <2>1, <2>2, <2>3, <2>5, <2>6, <3>1, <4>1 DEF FedSoFar
        <3> QED BY <2>1, <3>1, <3>2 DEF Fed, Assembled
    <2> QED BY <2>11, <2>12
<1>5. CASE Mount /\ ~(\E reason : Refuses(reason))
    <2> DEFINE dapr == [by |-> "dapr", ns |-> Root]
               served == dep.bus = "dapr" /\ HasHandler
    <2>1. /\ stage = "transports" /\ stage' = "built" /\ next > Len(hosted) + 1 /\ UNCHANGED <<dep, hosted>>
          /\ registry' = registry \o Services /\ ~Collides(registry, Services)
          /\ feeds' = IF served THEN Append(feeds, dapr) ELSE feeds
        BY <1>5 DEF Mount, Enters
    <2>2. Services \in Seq(Comp) /\ \A c \in Seqs(Services) : c.kind = "service"
        BY <1>0, ServicesFit DEF Registering
    <2>3. Registered(registry') = Registered(registry) \cup Seqs(Services)
        BY <1>0, <2>1, <2>2, Extended DEF Registering
    <2>4. (\A n : Consuming(n)' <=> Consuming(n)) /\ \A c \in Registered(registry') : c.kind = "handler" => c \in Registered(registry)
        BY <2>2, <2>3, ConsumersStay
    <2>5. Line' = Line /\ Assembled'
        BY <2>1 DEF Line, Assembled
    <2>6. FedSoFar /\ feeds \in Seq(OfFeed) /\ DOMAIN feeds = 1..Len(feeds) /\ Len(feeds) \in Nat
        BY <2>1, Members DEF Fed
    <2>7. \A k \in DOMAIN Line : k < next
        BY <1>0, <2>1, LineFit DEF Hosting
    <2>8. \A c \in Registered(registry) : c.kind = "handler" => Consuming(c.ns) /\ \E k \in DOMAIN Line : Line[k] = c.ns
        <3>1. \A c \in Registered(registry) : c.ns \in Seqs(Line)
            BY <1>0, LineFit DEF Registering
        <3> QED BY <3>1 DEF Consuming, OfKind, Seqs
    <2>9. CASE served
        <3>1. feeds = <<>> /\ feeds' = <<dapr>>
            <4>1. DOMAIN feeds = {}
                BY <2>6, <2>9 DEF FedSoFar
            <4>2. feeds = <<>>
                BY <2>6, <4>1, EmptySeq
            <4> QED BY <2>1, <2>9, <4>2
        <3>2. DOMAIN feeds' = {1} /\ feeds'[1].by = "dapr" /\ feeds' \in Seq(OfFeed)
            <4>1. dapr \in OfFeed
                BY EmptySeq DEF OfFeed, Name, Root
            <4> QED BY <3>1, <4>1
        <3>3. \A n : {i \in DOMAIN feeds' : feeds'[i].by = "dapr" \/ feeds'[i].ns = n} = {1}
            BY <3>2
        <3>4. FedOnce'
            BY <3>3, FS_Singleton DEF FedOnce
        <3> HIDE DEF dapr
        <3>5. \A n : ~Feeding(n)'
            BY <2>1, <2>9 DEF Feeding
        <3>6. dep'.bus # "nats"
            BY <2>1, <2>9
        <3> QED BY <2>1, <3>2, <3>4, <3>5, <3>6 DEF Fed
    <2>10. CASE ~served
        <3>1. feeds' = feeds
            BY <2>1, <2>10
        <3>2. dep.bus \in {"nats", "dapr", "sessions", "none"}
            BY <1>0, DepFit DEF Hosting, SettingsFit
        <3>3. ASSUME dep.bus # "none", NEW c \in Registered(registry), c.kind = "handler"
              PROVE  Cardinality({i \in DOMAIN feeds : feeds[i].by = "dapr" \/ feeds[i].ns = c.ns}) = 1
            <4>1. dep.bus \in {"nats", "sessions"}
                BY <2>10, <3>2, <3>3 DEF HasHandler
            <4>2. PICK i \in DOMAIN feeds : feeds[i].ns = c.ns
                BY <2>6, <2>7, <2>8, <3>3, <4>1 DEF FedSoFar
            <4>3. \A j \in DOMAIN feeds : feeds[j].by # "dapr" /\ (feeds[j].ns = feeds[i].ns => j = i)
                BY <2>6, <4>1 DEF FedSoFar
            <4>4. {j \in DOMAIN feeds : feeds[j].by = "dapr" \/ feeds[j].ns = c.ns} = {i}
                BY <4>2, <4>3
            <4> QED BY <4>4, FS_Singleton
        <3>4. FedOnce'
            BY <2>1, <2>4, <3>1, <3>3 DEF FedOnce
        <3>5. \A n : Feeding(n)' => Consuming(n)'
            BY <2>1, <2>4, <2>6, <3>1 DEF Feeding, FedSoFar
        <3>6. dep.bus = "nats" => \A n \in Seqs(Line) : Consuming(n)' => Feeding(n)'
            <4> SUFFICES ASSUME dep.bus = "nats", NEW n \in Seqs(Line), Consuming(n)' PROVE Feeding(n)'
                OBVIOUS
            <4>1. Consuming(n)
                BY <2>4
            <4>2. PICK k \in DOMAIN Line : Line[k] = n
                BY DEF Seqs
            <4>3. PICK i \in DOMAIN feeds : feeds[i].ns = n
                BY <2>6, <2>7, <4>1, <4>2 DEF FedSoFar
            <4> QED BY <2>1, <3>1, <4>3 DEF Feeding
        <3> QED BY <2>1, <2>5, <2>6, <3>1, <3>4, <3>5, <3>6 DEF Fed
    <2> QED BY <2>9, <2>10
<1>6. CASE Startup /\ ~(\E reason : Refuses(reason))
    <2>1. UNCHANGED <<dep, hosted, registry, feeds>> /\ stage = "built" /\ stage' = "serving"
        BY <1>6 DEF Startup, Enters
    <2> QED BY <2>1 DEF Fed, FedOnce, Consuming, Line, Assembled, Feeding
<1> QED BY <1>1, <1>2, <1>3, <1>4, <1>5, <1>6 DEF Next

-----------------------------------------------------------------------------
(* The readiness probe: an entry for each check, under a key of its own.    *)

Checked == Assembled => checks = ChecksAdded /\ ~ChecksRefused

\* Clients and caches are all there before the services are.
LEMMA ChecksStay ==
    ASSUME UNCHANGED <<queue, caches>>, {c \in Registered(registry') : c.kind = "client"} = {c \in Registered(registry) : c.kind = "client"}
    PROVE  BuiltinChecks' = BuiltinChecks /\ DeclaredChecks' = DeclaredChecks /\ ChecksAdded' = ChecksAdded /\ (ChecksRefused' <=> ChecksRefused)
<1>1. BuiltinChecks' = BuiltinChecks
    BY DEF BuiltinChecks
<1>2. DeclaredChecks' = DeclaredChecks
    BY DEF DeclaredChecks
<1> QED BY <1>1, <1>2 DEF ChecksAdded, ChecksRefused

LEMMA CheckedStep == StartInv /\ Checked /\ [Next]_vars => Checked'
<1> SUFFICES ASSUME StartInv, Checked, [Next]_vars PROVE Checked'
    OBVIOUS
<1>1. CASE (UNCHANGED vars \/ Startup) /\ ~(\E reason : Refuses(reason))
    <2>1. UNCHANGED <<queue, caches, registry, checks>> /\ (Assembled' => Assembled)
        BY <1>1 DEF vars, Startup, Enters, Assembled
    <2> QED BY <2>1, ChecksStay DEF Checked
<1>2. CASE \E reason : Refuses(reason)
    BY <1>2 DEF Checked, Refuses, Assembled
<1>3. CASE /\ ResolveGroup \/ LoadAgent \/ HostAgents \/ ReplayAgent \/ AllReplayed \/ HostRoot \/ Construct \/ RestoreOrder
              \/ CreateCache \/ CachesDone \/ WireScheduler \/ SchedulersDone \/ WireTransport
           /\ ~(\E reason : Refuses(reason))
    <2>1. ~Assembled'
        BY <1>3 DEF ResolveGroup, LoadAgent, HostAgents, ReplayAgent, AllReplayed, HostRoot, Construct, RestoreOrder, CreateCache, CachesDone,
                    WireScheduler, SchedulersDone, WireTransport, Enters, Assembled
    <2> QED BY <2>1 DEF Checked
<1>4. CASE Mount /\ ~(\E reason : Refuses(reason))
    <2>1. registry' = registry \o Services /\ ~Collides(registry, Services) /\ checks' = ChecksAdded /\ ~ChecksRefused /\ UNCHANGED <<queue, caches>>
        BY <1>4 DEF Mount, Enters
    <2>2. Services \in Seq(Comp) /\ \A c \in Seqs(Services) : c.kind = "service"
        BY ServicesFit DEF StartInv, Registering
    <2>3. Registered(registry') = Registered(registry) \cup Seqs(Services)
        BY <2>1, <2>2, Extended DEF StartInv, Registering
    <2>4. {c \in Registered(registry') : c.kind = "client"} = {c \in Registered(registry) : c.kind = "client"}
        BY <2>2, <2>3
    <2> QED BY <2>1, <2>4, ChecksStay DEF Checked
<1> QED BY <1>1, <1>2, <1>3, <1>4 DEF Next

\* A dot no namespace has stands between it and the name.
LEMMA Dotted ==
    ASSUME NEW S, "." \in S, NEW n \in Seq(S), NEW m \in Seq(S), NEW x \in Seq(S), NEW y \in Seq(S),
           \A i \in DOMAIN n : n[i] # ".", \A i \in DOMAIN m : m[i] # ".",
           n \o <<".">> \o x = m \o <<".">> \o y
    PROVE  n = m /\ x = y
<1> DEFINE dot == <<".">>
<1>1. dot \in Seq(S) /\ Len(dot) = 1 /\ DOMAIN dot = {1} /\ dot[1] = "." /\ 1 \in DOMAIN dot
    OBVIOUS
<1>a. (n \o dot) \o x = (m \o dot) \o y
    OBVIOUS
<1> HIDE DEF dot
<1>b. ASSUME NEW r \in Seq(S)
      PROVE  /\ r \o dot \in Seq(S) /\ Len(r \o dot) = Len(r) + 1 /\ (\A i \in DOMAIN r : i \in DOMAIN (r \o dot) /\ (r \o dot)[i] = r[i])
             /\ Len(r) + 1 \in DOMAIN (r \o dot) /\ (r \o dot)[Len(r) + 1] = "."
             /\ Len(r) \in Nat /\ DOMAIN r = 1..Len(r)
    <2>0. /\ r \o dot \in Seq(S) /\ Len(r \o dot) = Len(r) + Len(dot)
          /\ \A i \in DOMAIN r : i \in DOMAIN (r \o dot) /\ (r \o dot)[i] = r[i]
          /\ \A i \in DOMAIN dot : Len(r) + i \in DOMAIN (r \o dot) /\ Len(r) + i \notin DOMAIN r /\ (r \o dot)[Len(r) + i] = dot[i]
        BY <1>1, AfterConcat
    <2>1. /\ r \o dot \in Seq(S) /\ Len(r \o dot) = Len(r) + Len(dot) /\ (\A i \in DOMAIN r : i \in DOMAIN (r \o dot) /\ (r \o dot)[i] = r[i])
          /\ \A i \in DOMAIN dot : Len(r) + i \in DOMAIN (r \o dot) /\ (r \o dot)[Len(r) + i] = dot[i]
        BY <2>0
    <2>2. Len(r) \in Nat /\ DOMAIN r = 1..Len(r)
        BY Members
    <2> QED BY <1>1, <2>1, <2>2
<1> DEFINE nd == n \o dot
           md == m \o dot
           u == nd \o x
           v == md \o y
           a == Len(n)
           b == Len(m)
<1>2. /\ nd \in Seq(S) /\ (\A i \in DOMAIN n : i \in DOMAIN nd /\ nd[i] = n[i]) /\ a + 1 \in DOMAIN nd /\ nd[a + 1] = "."
    BY <1>b
<1>3. /\ md \in Seq(S) /\ (\A i \in DOMAIN m : i \in DOMAIN md /\ md[i] = m[i]) /\ b + 1 \in DOMAIN md /\ md[b + 1] = "."
    BY <1>b
<1>6. a \in Nat /\ DOMAIN n = 1..a /\ b \in Nat /\ DOMAIN m = 1..b /\ u = v
    BY <1>a, <1>b
<1> HIDE DEF nd, md, a, b
<1>4. \A i \in DOMAIN nd : u[i] = nd[i]
    BY <1>2, AfterConcat
<1>5. \A i \in DOMAIN md : v[i] = md[i]
    BY <1>3, AfterConcat
<1> HIDE DEF u, v
<1>7. u[a + 1] = "." /\ v[b + 1] = "." /\ (\A i \in DOMAIN n : u[i] # "." /\ u[i] = n[i]) /\ (\A i \in DOMAIN m : v[i] # "." /\ v[i] = m[i])
    BY <1>2, <1>3, <1>4, <1>5
<1>8. a + 1 \notin DOMAIN m /\ b + 1 \notin DOMAIN n
    BY <1>6, <1>7
<1>9. a = b
    BY <1>6, <1>8
<1>10. n = m
    <2>1. \A i \in 1..a : n[i] = m[i]
        BY <1>6, <1>7, <1>9
    <2> QED BY <1>9, <2>1, SeqEqual DEF a, b
<1>11. x = y
    <2>1. nd \o x = nd \o y
        BY <1>6, <1>10 DEF nd, md, u, v
    <2> QED BY <1>2, <2>1, ConcatSimplifications
<1> QED BY <1>10, <1>11

Keys == STRING \cup FrameworkWords \cup {".", ":"}

LEMMA KeysFit == Name \subseteq Seq(Keys) /\ Path \subseteq Seq(Keys)
BY SeqMonotonic DEF Name, Path, Keys

\* What the checks are of.
LEMMA DeclaredFit ==
    ASSUME Hosting, Replaying, NEW i \in DOMAIN DeclaredChecks
    PROVE  DeclaredChecks[i].ns \in Owners /\ DeclaredChecks[i].name \in Name
<1> DEFINE P == {j \in DOMAIN queue : queue[j].of.kind = "health_checker"}
           declared == Picked(queue, P)
           c == Check(declared[i].ns, declared[i].of.name, <<>>)
<1>1. P \in SUBSET DOMAIN queue
    OBVIOUS
<1>2. declared \in Seq(OfAgent) /\ Seqs(declared) = {queue[j] : j \in P}
    BY <1>1, PickedAt DEF Replaying
<1>3. DeclaredChecks = [j \in DOMAIN declared |-> Check(declared[j].ns, declared[j].of.name, <<>>)]
    BY DEF DeclaredChecks
<1> HIDE DEF declared
<1>4. i \in DOMAIN declared /\ DeclaredChecks[i] = c
    BY <1>3
<1>5. c.ns = declared[i].ns /\ c.name = declared[i].of.name
    BY DEF Check
<1>6. declared[i] \in Seqs(declared) /\ Seqs(declared) \subseteq Seqs(queue)
    BY <1>2, <1>4 DEF Seqs
<1>7. declared[i] \in OfAgent /\ declared[i].ns \in Owners
    BY <1>2, <1>4, <1>6, Members DEF Replaying
<1> HIDE DEF c
<1>8. declared[i].of.name \in Name
    BY <1>7 DEF OfAgent, Declaration
<1> QED BY <1>4, <1>5, <1>7, <1>8

LEMMA BuiltinFit ==
    ASSUME StartInv, stage # "refused", NEW b \in BuiltinChecks
    PROVE  /\ b.name \in Seq(Keys)
           /\ \/ b.ns \in Owners
              \/ b.ns = Root /\ b.name = <<dep.bus, "client">>
<1>0. Hosting /\ Replaying /\ Registering /\ Caching
    BY DEF StartInv
<1>1. CASE \E c \in Registered(registry) : c.kind = "client" /\ b = Check(c.ns, c.base, <<c>>)
    <2>1. PICK c \in Registered(registry) : c.kind = "client" /\ b = Check(c.ns, c.base, <<c>>)
        BY <1>1
    <2>2. b.ns = c.ns /\ b.name = c.base
        BY <2>1 DEF Check
    <2>3. c \in Comp /\ c.ns \in Owners \cup {Root} /\ c.base = <<dep.bus, "client">>
        <3>1. Registered(registry) \subseteq Comp
            BY <1>0, Members DEF Registering, Registered
        <3> QED BY <1>0, <2>1, <3>1 DEF Registering
    <2>4. c.base \in Path
        BY <2>3 DEF Comp
    <2> QED BY <2>2, <2>3, <2>4, KeysFit
<1>2. CASE \E e \in DOMAIN caches : b = Check(e[1], CacheCheck(e[2]), <<caches[e]>>)
    <2>1. PICK e \in DOMAIN caches : b = Check(e[1], CacheCheck(e[2]), <<caches[e]>>)
        BY <1>2
    <2>2. b.ns = e[1] /\ b.name = CacheCheck(e[2])
        BY <2>1 DEF Check
    <2>3. PICK i \in DOMAIN queue : e = <<queue[i].ns, queue[i].of.name>>
        BY <1>0, <2>1 DEF Caching, Cached
    <2>4. queue[i] \in OfAgent /\ queue[i].ns \in Owners
        BY <1>0, Members DEF Replaying, Seqs
    <2>5. e[1] \in Owners /\ e[2] \in Name
        BY <2>3, <2>4 DEF OfAgent, Declaration
    <2>6. CacheCheck(e[2]) \in Seq(Keys)
        <3> HIDE DEF Keys
        <3>1. <<"cache">> \in Seq(Keys) /\ <<"cache", ":">> \in Seq(Keys)
            BY DEF Keys, FrameworkWords
        <3>2. <<"cache", ":">> \o e[2] \in Seq(Keys)
            BY <2>5, <3>1, KeysFit, ConcatProperties
        <3> QED BY <3>1, <3>2 DEF CacheCheck
    <2> QED BY <2>2, <2>5, <2>6
<1> QED BY <1>1, <1>2 DEF BuiltinChecks

\* A check of the agents' takes the place of one of the same agent and name.
LEMMA ReplacesItsOwn ==
    ASSUME StartInv, stage # "refused", NEW b \in BuiltinChecks, NEW i \in DOMAIN DeclaredChecks, CheckKey(DeclaredChecks[i]) = CheckKey(b)
    PROVE  DeclaredChecks[i].ns = b.ns /\ DeclaredChecks[i].name = b.name
<1> DEFINE c == DeclaredChecks[i]
<1>0. Hosting /\ Replaying
    BY DEF StartInv
<1>1. c.ns \in Owners /\ c.name \in Name
    BY <1>0, DeclaredFit
<1>2. b.name \in Seq(Keys) /\ (b.ns \in Owners \/ (b.ns = Root /\ b.name = <<dep.bus, "client">>))
    BY BuiltinFit
<1>k. CheckKey(c) = CheckKey(b)
    OBVIOUS
<1> SUFFICES c.ns = b.ns /\ c.name = b.name
    OBVIOUS
<1> HIDE DEF c
<1>3. CASE dep.standalone
    <2>1. c.ns = Root /\ b.ns = Root
        BY <1>0, <1>1, <1>2, <1>3, OwnersFit
    <2> QED BY <1>k, <2>1 DEF CheckKey
<1>4. CASE ~dep.standalone
    <2>1. Owners = Seqs(hosted)
        BY <1>0, <1>4, OwnersFit
    <2>2. c.ns # Root /\ c.ns \in Seq(Keys) /\ (\A j \in DOMAIN c.ns : c.ns[j] # ".") /\ c.name \in Seq(Keys)
        <3>1. c.ns # Root /\ c.ns \in Name /\ c.ns \in Namespace
            BY <1>0, <1>1, <2>1, OwnersFit
        <3> QED BY <1>1, <3>1, KeysFit DEF Namespace
    <2>3. CheckKey(c) = c.ns \o <<".">> \o c.name
        BY <2>2 DEF CheckKey
    <2>4. CASE b.ns \in Owners
        <3>1. b.ns # Root /\ b.ns \in Seq(Keys) /\ (\A j \in DOMAIN b.ns : b.ns[j] # ".")
            <4>1. b.ns # Root /\ b.ns \in Name /\ b.ns \in Namespace
                BY <1>0, <2>1, <2>4, OwnersFit
            <4> QED BY <4>1, KeysFit DEF Namespace
        <3>2. CheckKey(b) = b.ns \o <<".">> \o b.name
            BY <3>1 DEF CheckKey
        <3>3. c.ns \o <<".">> \o c.name = b.ns \o <<".">> \o b.name /\ "." \in Keys
            BY <1>k, <2>3, <3>2 DEF Keys
        <3> HIDE DEF Keys
        <3> DEFINE n == c.ns
                   m == b.ns
                   x == c.name
                   y == b.name
        <3>4. /\ n \in Seq(Keys) /\ m \in Seq(Keys) /\ x \in Seq(Keys) /\ y \in Seq(Keys) /\ "." \in Keys
              /\ (\A j \in DOMAIN n : n[j] # ".") /\ (\A j \in DOMAIN m : m[j] # ".") /\ n \o <<".">> \o x = m \o <<".">> \o y
            BY <1>2, <2>2, <3>1, <3>3
        <3> HIDE DEF n, m, x, y
        <3>5. n = m /\ x = y
            BY <3>4, Dotted
        <3> QED BY <3>5 DEF n, m, x, y
    <2>5. CASE b.ns = Root /\ b.name = <<dep.bus, "client">>
        <3> DEFINE key == <<dep.bus, "client">>
                   n == c.ns \o <<".">>
                   u == n \o c.name
        <3>1. CheckKey(b) = key
            BY <2>5 DEF CheckKey
        <3>2. dep.bus # "." /\ \A j \in DOMAIN key : key[j] # "."
            BY <1>0, DepFit DEF Hosting, SettingsFit
        <3>3. u = key
            BY <1>k, <2>3, <3>1
        <3> HIDE DEF key
        <3>4. "." \in Keys /\ <<".">> \in Seq(Keys)
            BY DEF Keys
        <3> HIDE DEF Keys
        <3>5. n \in Seq(Keys) /\ Len(c.ns) + 1 \in DOMAIN n /\ n[Len(c.ns) + 1] = "."
            <4> DEFINE dot == <<".">>
            <4>1. dot \in Seq(Keys) /\ 1 \in DOMAIN dot /\ dot[1] = "."
                BY <3>4
            <4> HIDE DEF dot
            <4>2. c.ns \o dot \in Seq(Keys) /\ \A j \in DOMAIN dot : Len(c.ns) + j \in DOMAIN (c.ns \o dot) /\ (c.ns \o dot)[Len(c.ns) + j] = dot[j]
                BY <2>2, <4>1, AfterConcat
            <4> QED BY <4>1, <4>2 DEF dot
        <3> HIDE DEF n
        <3>6. \A j \in DOMAIN n : j \in DOMAIN (n \o c.name) /\ (n \o c.name)[j] = n[j]
            BY <2>2, <3>5, AfterConcat
        <3>7. Len(c.ns) + 1 \in DOMAIN key /\ key[Len(c.ns) + 1] = "."
            BY <3>3, <3>5, <3>6
        <3> QED BY <3>2, <3>7 DEF key
    <2> QED BY <1>2, <2>4, <2>5
<1>5. dep.standalone \in BOOLEAN
    BY <1>0, OwnersFit
<1> QED BY <1>3, <1>4, <1>5

LEMMA Served == StartInv /\ Fed /\ Checked => ServedAsDeclared
<1> SUFFICES ASSUME StartInv, Fed, Checked, Assembled PROVE ServedAsDeclared
    BY DEF ServedAsDeclared
<1>0. Hosting /\ Replaying /\ Registering /\ stage \in Late \ {"construct"} /\ stage # "refused"
    BY DEF StartInv, Assembled, Late
<1>1. ~dep.standalone => \A n \in Seqs(AgentNames(dep)) : IsCritical(dep, n) => n \in Seqs(hosted)
    BY <1>0 DEF Hosting, CriticalIn
<1>2. FedOnce
    BY DEF Fed
<1>3. Picked(registry, {i \in DOMAIN registry : registry[i] \in Seqs(HandlersDeclared)}) = HandlersDeclared
    BY <1>0 DEF Registering, InOrder, PlacesOf
<1>4. checks = ChecksAdded /\ ~ChecksRefused
    BY DEF Checked
<1>5. \A c \in checks : (\E i \in DOMAIN DeclaredChecks : c = DeclaredChecks[i]) \/ (c \in BuiltinChecks /\ \A i \in DOMAIN DeclaredChecks : CheckKey(DeclaredChecks[i]) # CheckKey(c))
    BY <1>4 DEF ChecksAdded, Seqs
<1>6. ASSUME NEW c \in checks, NEW k \in checks, CheckKey(c) = CheckKey(k) PROVE c = k
    <2>1. CASE (\E i \in DOMAIN DeclaredChecks : c = DeclaredChecks[i]) /\ (\E j \in DOMAIN DeclaredChecks : k = DeclaredChecks[j])
        BY <1>4, <1>6, <2>1 DEF ChecksRefused
    <2>2. CASE c \in BuiltinChecks /\ k \in BuiltinChecks
        BY <1>4, <1>6, <2>2 DEF ChecksRefused
    <2> QED BY <1>5, <1>6, <2>1, <2>2
<1>7. Seqs(DeclaredChecks) \subseteq checks
    BY <1>4 DEF ChecksAdded
<1>8. ASSUME NEW b \in BuiltinChecks PROVE \E c \in checks : c.ns = b.ns /\ c.name = b.name
    <2>1. CASE \A i \in DOMAIN DeclaredChecks : CheckKey(DeclaredChecks[i]) # CheckKey(b)
        BY <1>4, <2>1 DEF ChecksAdded
    <2>2. CASE \E i \in DOMAIN DeclaredChecks : CheckKey(DeclaredChecks[i]) = CheckKey(b)
        <3>1. PICK i \in DOMAIN DeclaredChecks : CheckKey(DeclaredChecks[i]) = CheckKey(b)
            BY <2>2
        <3>2. DeclaredChecks[i] \in checks
            BY <1>7 DEF Seqs
        <3> QED BY <1>0, <3>1, <3>2, ReplacesItsOwn
    <2> QED BY <2>1, <2>2
<1> QED BY <1>1, <1>2, <1>3, <1>6, <1>7, <1>8 DEF ServedAsDeclared, FedOnce

\* What starts serves what was declared.
THEOREM ServedOnce == Spec => []ServedAsDeclared
<1> DEFINE I == StartInv /\ Fed /\ Checked
<1>1. Init => Fed /\ Checked
    BY FedInit DEF Init, Checked, Assembled
<1>2. StartInv /\ StartInv' /\ Fed /\ Checked /\ [Next]_vars => Fed' /\ Checked'
    BY FedStep, CheckedStep
<1>3. Spec => []StartInv
    BY Started
<1>4. StartInv /\ Fed /\ Checked => ServedAsDeclared
    BY Served
<1> QED BY <1>1, <1>2, <1>3, <1>4, PTL DEF Spec

-----------------------------------------------------------------------------
(* What each stage adds, by its kind.                                      *)

LEMMA CacheAdds ==
    ASSUME Hosting, Replaying, Registering, CreateCache, ~(\E reason : Refuses(reason))
    PROVE  /\ stage = "caches" /\ UNCHANGED <<dep, stage, hosted, queue, feeds>>
           /\ Registered(registry) \subseteq Registered(registry')
           /\ \A c \in Registered(registry') : c \in Registered(registry) \/ c.kind \in {"redis", "disk"}
<1> DEFINE ns == queue[next].ns
           d == queue[next].of
           made == CacheMade(ns, d)
<1>1. stage = "caches" /\ UNCHANGED <<dep, stage, hosted, queue, feeds>> /\ next <= Len(queue)
      /\ (registry' = registry \/ (~Collides(registry, made) /\ registry' = registry \o made))
    BY DEF CreateCache, CacheMade
<1>2. next \in DOMAIN queue
    BY <1>1, Members DEF Hosting, Replaying
<1>3. ns \in Name /\ d \in Declaration
    BY <1>2, QueueAt DEF Replaying
<1> HIDE DEF ns, d
<1>4. made \in Seq(Comp) /\ \A c \in Seqs(made) : c.kind \in {"redis", "disk"}
    BY <1>3, CachesMade DEF Hosting
<1> HIDE DEF made
<1>5. CASE registry' = registry
    BY <1>1, <1>5
<1>6. CASE ~Collides(registry, made) /\ registry' = registry \o made
    <2>1. Registered(registry') = Registered(registry) \cup Seqs(made)
        BY <1>4, <1>6, Extended DEF Registering
    <2> QED BY <1>1, <1>4, <2>1
<1> QED BY <1>1, <1>5, <1>6

TickFits(s) ==
    /\ dep.mode \in {"event", "in_process"} /\ ~CrontabRefused(CrontabOf(s), dep.mode)
    /\ dep.mode = "event" => dep.bus \in TopicTransports /\ ~Unidentified(s)
Tick(s) == IF dep.mode = "event" THEN <<TickOf(s)>> ELSE <<>>

LEMMA TickAdds ==
    ASSUME Hosting, Registering, WireScheduler, ~(\E reason : Refuses(reason))
    PROVE  LET s == Schedulers[next]
           IN  /\ stage = "schedulers" /\ next \in DOMAIN Schedulers /\ next' = next + 1 /\ UNCHANGED <<dep, stage, hosted, queue, feeds>>
               /\ s \in Registered(registry) /\ s.kind = "scheduler" /\ s \in Comp /\ TickFits(s)
               /\ Tick(s) \in Seq(Comp) /\ ~Collides(registry, Tick(s)) /\ registry' = registry \o Tick(s)
               /\ Seqs(Tick(s)) = IF dep.mode = "event" THEN {TickOf(s)} ELSE {}
               /\ TickOf(s).kind = "handler" /\ TickOf(s).ns = s.ns
               /\ Registered(registry') = Registered(registry) \cup Seqs(Tick(s)) /\ \A c \in Seqs(Tick(s)) : c \notin Registered(registry)
<1> DEFINE s == Schedulers[next]
<1>1. /\ stage = "schedulers" /\ next <= Len(Schedulers) /\ next' = next + 1 /\ UNCHANGED <<dep, stage, hosted, queue, feeds>>
      /\ TickFits(s)
      /\ registry' = IF dep.mode = "event" THEN Append(registry, TickOf(s)) ELSE registry
      /\ dep.mode = "event" => ~Taken(registry, KeyOf(TickOf(s)))
    BY DEF WireScheduler, TickFits
<1>2. next \in DOMAIN Schedulers
    BY <1>1, SchedulersFit DEF Hosting, Registering
<1>3. s \in Registered(registry) /\ s \in Comp /\ s.kind = "scheduler"
    BY <1>2, SchedulersFit, Members DEF Registering
<1> HIDE DEF s
<1>4. TickOf(s) \in Comp /\ TickOf(s).kind = "handler" /\ TickOf(s).ns = s.ns
    BY <1>3, TickFit
<1>5. Tick(s) \in Seq(Comp) /\ Seqs(Tick(s)) = (IF dep.mode = "event" THEN {TickOf(s)} ELSE {}) /\ registry' = registry \o Tick(s)
      /\ ~Collides(registry, Tick(s))
    <2>1. CASE dep.mode = "event"
        <3> DEFINE one == <<TickOf(s)>>
        <3>1. one \in Seq(Comp) /\ Seqs(one) = {TickOf(s)} /\ Append(registry, TickOf(s)) = registry \o one /\ DOMAIN one = {1} /\ one[1] = TickOf(s)
            BY <1>4, AfterAppend DEF Registering
        <3>2. Tick(s) = one
            BY <2>1 DEF Tick
        <3> HIDE DEF one
        <3>3. ~Collides(registry, one)
            BY <1>1, <2>1, <3>1 DEF Collides
        <3> QED BY <1>1, <2>1, <3>1, <3>2, <3>3
    <2>2. CASE dep.mode # "event"
        <3> DEFINE none == <<>>
        <3>1. none \in Seq(Comp) /\ Seqs(none) = {} /\ DOMAIN none = {} /\ registry = registry \o none
            BY EmptySeq, ConcatEmptySeq DEF Registering, Seqs
        <3>2. Tick(s) = none
            BY <2>2 DEF Tick
        <3> HIDE DEF none
        <3>3. ~Collides(registry, none)
            BY <3>1 DEF Collides
        <3> QED BY <1>1, <2>2, <3>1, <3>2, <3>3
    <2> QED BY <2>1, <2>2
<1>6. Registered(registry') = Registered(registry) \cup Seqs(Tick(s)) /\ \A c \in Seqs(Tick(s)) : c \notin Registered(registry)
    BY <1>5, Extended DEF Registering
<1> QED BY <1>1, <1>2, <1>3, <1>4, <1>5, <1>6 DEF s

LEMMA ServicesAdd ==
    ASSUME Hosting, Registering, Mount, ~(\E reason : Refuses(reason))
    PROVE  /\ stage = "transports" /\ stage' = "built" /\ UNCHANGED <<dep, hosted, queue>> /\ next > Len(hosted) + 1
           /\ Services \in Seq(Comp) /\ ~Collides(registry, Services) /\ registry' = registry \o Services
           /\ Registered(registry') = Registered(registry) \cup Seqs(Services)
           /\ \A c \in Seqs(Services) : c.kind = "service"
<1>1. /\ stage = "transports" /\ stage' = "built" /\ UNCHANGED <<dep, hosted, queue>> /\ next > Len(hosted) + 1
      /\ ~Collides(registry, Services) /\ registry' = registry \o Services
    BY DEF Mount, Enters
<1>2. Services \in Seq(Comp) /\ \A c \in Seqs(Services) : c.kind = "service"
    BY ServicesFit DEF Registering
<1> QED BY <1>1, <1>2, Extended DEF Registering

-----------------------------------------------------------------------------
(* The agents that are hosted: what was loaded of them fits.               *)

Loaded ==
    /\ \A n \in Seqs(hosted) : dep.image[n].module = "found" /\ ~Misplaced(n)
    /\ stage \in {"replay"} \cup Late => \A n \in Seqs(hosted) : ~SettingsUnfit(n)

LEMMA LoadedInit == Init => Loaded
BY DEF Init, Loaded, Seqs, Late

LEMMA LoadedStep == Hosting /\ Loaded /\ [Next]_vars => Loaded'
<1> SUFFICES ASSUME Hosting, Loaded, [Next]_vars PROVE Loaded'
    OBVIOUS
<1> USE DEF Late
<1>1. CASE UNCHANGED vars
    BY <1>1 DEF Loaded, vars, Misplaced, SettingsUnfit
<1>2. CASE \E reason : Refuses(reason)
    BY <1>2 DEF Loaded, Refuses, Misplaced, SettingsUnfit
<1>3. CASE LoadAgent /\ ~(\E reason : Refuses(reason))
    <2> DEFINE n == specs[next]
    <2>1. /\ stage = "load" /\ stage' = stage /\ dep' = dep /\ next <= Len(specs)
          /\ \/ hosted' = hosted
             \/ hosted' = Append(hosted, n) /\ dep.image[n].module = "found" /\ ~Misplaced(n)
        BY <1>3 DEF LoadAgent, Hosts
    <2>2. n \in AgentSet
        BY <2>1, Members DEF Hosting
    <2> HIDE DEF n
    <2>3. Seqs(Append(hosted, n)) = Seqs(hosted) \cup {n}
        <3>1. hosted \in Seq(AgentSet)
            BY DEF Hosting
        <3>2. Append(hosted, n) = hosted \o <<n>> /\ Append(hosted, n) \in Seq(AgentSet) /\ <<n>> \in Seq(AgentSet)
              /\ Seqs(<<n>>) = {n} /\ Seqs(Append(hosted, n)) = Seqs(hosted) \cup {n} /\ DOMAIN <<n>> = {1} /\ <<n>>[1] = n
            BY <2>2, <3>1, AfterAppend
        <3> QED BY <3>2
    <2> QED BY <2>1, <2>3 DEF Loaded, Misplaced
<1>4. CASE HostAgents /\ ~(\E reason : Refuses(reason))
    BY <1>4 DEF HostAgents, Enters, Loaded, Misplaced, SettingsUnfit
<1>5. CASE HostRoot /\ ~(\E reason : Refuses(reason))
    <2>1. stage = "standalone" /\ hosted' = hosted
        BY <1>5 DEF HostRoot
    <2>2. hosted = <<>>
        BY <2>1 DEF Hosting
    <2>3. Seqs(hosted) = {}
        BY <2>2 DEF Seqs
    <2> QED BY <2>1, <2>3 DEF Loaded
<1>6. CASE ResolveGroup /\ ~(\E reason : Refuses(reason))
    BY <1>6 DEF ResolveGroup, Enters, Loaded, Misplaced
<1>7. CASE /\ ReplayAgent \/ AllReplayed \/ Construct \/ RestoreOrder \/ CreateCache \/ CachesDone
              \/ WireScheduler \/ SchedulersDone \/ WireTransport \/ Mount \/ Startup
           /\ ~(\E reason : Refuses(reason))
    <2>1. UNCHANGED <<dep, hosted>> /\ stage \in {"replay"} \cup Late
        BY <1>7 DEF ReplayAgent, AllReplayed, Construct, RestoreOrder, CreateCache, CachesDone,
                    WireScheduler, SchedulersDone, WireTransport, Mount, Startup, Enters
    <2> QED BY <2>1 DEF Loaded, Misplaced, SettingsUnfit
<1> QED BY <1>1, <1>2, <1>3, <1>4, <1>5, <1>6, <1>7 DEF Next

-----------------------------------------------------------------------------
(* Where the handlers and the schedulers come from: a declaration, or the   *)
(* tick of a scheduler.                                                     *)

FromQueue(all, u, c) == \E i \in ClaimedAt(all, u) : c = CurrentAt(all, u, i)
TickIn(reg, c) == \E s \in Registered(reg) : s.kind = "scheduler" /\ c = TickOf(s)

Originated ==
    /\ stage \in {"construct", "caches"} =>
         \A c \in Registered(registry) : c.kind \in {"handler", "scheduler"} => FromQueue(queue, Unreached, c)
    /\ stage \in {"schedulers", "transports", "built", "serving"} => \A c \in Registered(registry) :
         /\ c.kind = "scheduler" => FromQueue(queue, Unreached, c)
         /\ c.kind = "handler" => FromQueue(queue, Unreached, c) \/ (dep.mode = "event" /\ TickIn(registry, c))

LEMMA OriginatedInit == Init => Originated
BY DEF Init, Originated

\* A component that is not one of these changes nothing of it.
LEMMA StillOriginated ==
    ASSUME Originated, stage \in {"caches", "schedulers", "transports", "built", "serving"},
           stage' \in {"caches", "schedulers", "transports", "built", "serving"}, stage' = "caches" => stage = "caches",
           UNCHANGED <<dep, queue>>, Registered(registry) \subseteq Registered(registry'),
           \A c \in Registered(registry') : c \in Registered(registry) \/ c.kind \notin {"handler", "scheduler"}
    PROVE  Originated'
<1>1. Unreached' = Unreached
    BY DEF Unreached
<1>2. \A c \in Registered(registry') : c.kind = "scheduler" => FromQueue(queue, Unreached, c)
    BY DEF Originated
<1>3. \A c \in Registered(registry') : c.kind = "handler" =>
         FromQueue(queue, Unreached, c) \/ (stage # "caches" /\ dep.mode = "event" /\ TickIn(registry, c))
    BY DEF Originated
<1>4. \A c : TickIn(registry, c) => TickIn(registry', c)
    BY DEF TickIn
<1> QED BY <1>1, <1>2, <1>3, <1>4 DEF Originated

LEMMA OriginatedStep == Hosting /\ Replaying /\ Registering /\ Originated /\ [Next]_vars => Originated'
<1> SUFFICES ASSUME Hosting, Replaying, Registering, Originated, [Next]_vars PROVE Originated'
    OBVIOUS
<1>e. Registered(<<>>) = {} /\ \A c : c \notin Registered(<<>>)
    BY DEF Registered
<1>1. CASE UNCHANGED vars
    BY <1>1 DEF Originated, vars, Unreached
<1>2. CASE \E reason : Refuses(reason)
    BY <1>2 DEF Originated, Refuses
<1>3. CASE (ResolveGroup \/ LoadAgent \/ HostAgents \/ ReplayAgent) /\ ~(\E reason : Refuses(reason))
    <2>1. stage' \in {"load", "replay"}
        BY <1>3 DEF ResolveGroup, LoadAgent, HostAgents, ReplayAgent, Enters
    <2> QED BY <2>1 DEF Originated
<1>4. CASE AllReplayed
    <2>1. registry' = registry /\ stage = "replay" /\ stage' = "construct"
        BY <1>4 DEF AllReplayed, Enters
    <2>2. registry = <<>>
        BY <2>1 DEF Registering
    <2> QED BY <1>e, <2>1, <2>2 DEF Originated
<1>5. CASE HostRoot /\ ~(\E reason : Refuses(reason))
    <2> DEFINE b == BuilderOf(Root)
    <2>1. /\ stage = "standalone" /\ stage' = "construct" /\ next' = 1 /\ queue' = Replayed(b, Root) /\ registry' = MadeOf(b)
          /\ ~Collides(<<>>, MadeOf(b))
        BY <1>5 DEF HostRoot, Enters, MadeOf, PassedBy
    <2>2. b \in BuilderSet
        <3>1. Root \in DOMAIN dep.image
            BY <2>1, OwnersFit DEF Hosting
        <3> QED BY <3>1, BuilderFit DEF Hosting
    <2> HIDE DEF b
    <2>3. \A c \in Registered(registry') : FromQueue(queue', 1, c)
        BY <2>1, <2>2, InstancesHeld DEF FromQueue
    <2>4. Unreached' = 1
        BY <2>1 DEF Unreached
    <2> QED BY <2>1, <2>3, <2>4 DEF Originated
<1>6. CASE Construct /\ ~(\E reason : Refuses(reason))
    <2> DEFINE d == queue[next].of
               ns == queue[next].ns
               made == Makes(d, ns)
               self == Component(d.kind, ns, d.base)
               named == Component(d.kind, ns, BaseOf(d))
    <2>1. /\ stage = "construct" /\ stage' = "construct" /\ next <= Len(queue) /\ next' = next + 1 /\ UNCHANGED queue
          /\ \/ ~Constructed(d) /\ registry' = registry
             \/ /\ Constructed(d) /\ ~Collides(registry, made) /\ ~RenameRefused(registry \o made, self, BaseOf(d))
                /\ registry' = Rename(registry \o made, self, BaseOf(d))
        BY <1>6 DEF Construct
    <2>2. next \in DOMAIN queue /\ queue \in Seq(OfAgent) /\ registry \in Seq(Comp) /\ KeysDistinct(registry)
        BY <2>1, Members DEF Hosting, Replaying, Registering
    <2>3. ns \in Name /\ d \in Declaration
        BY <2>2, QueueAt
    <2>4. ClaimsHeld(queue, next, registry) /\ Unreached' = next + 1 /\ Unreached = next
        BY <2>1 DEF Registering, Late, Unreached
    <2>5. \A c \in Registered(registry) : c.kind \in {"handler", "scheduler"} => \E i \in ClaimedAt(queue, next) : c = CurrentAt(queue, next, i)
        BY <2>1, <2>4 DEF Originated, FromQueue
    <2>6. CASE ~Constructed(d) /\ registry' = registry
        <3>1. \A i \in DOMAIN queue : i \in Nat /\ (i < next + 1 <=> i < next \/ i = next)
            BY <2>2, QueueAt DEF Hosting
        <3>2. \A i \in ClaimedAt(queue, next) : i # next => i \in ClaimedAt(queue, next + 1) /\ CurrentAt(queue, next + 1, i) = CurrentAt(queue, next, i)
            BY <3>1 DEF ClaimedAt, CurrentAt
        <3>3. CurrentAt(queue, next, next).kind \notin {"handler", "scheduler"}
            BY <2>6 DEF CurrentAt, Component, Constructed
        <3>4. \A c \in Registered(registry) : c.kind \in {"handler", "scheduler"} => FromQueue(queue, next + 1, c)
            <4> HIDE DEF d
            <4> QED BY <2>5, <3>2, <3>3 DEF FromQueue
        <3> QED BY <2>1, <2>4, <2>6, <3>4 DEF Originated
    <2>7. CASE /\ Constructed(d) /\ ~Collides(registry, made) /\ ~RenameRefused(registry \o made, self, BaseOf(d))
               /\ registry' = Rename(registry \o made, self, BaseOf(d))
        <3>1. /\ Registered(registry') = ((Registered(registry) \cup Seqs(made)) \ {self}) \cup {named}
              /\ CurrentAt(queue, next + 1, next) = named
              /\ \A i \in ClaimedAt(queue, next) : i # next => i \in ClaimedAt(queue, next + 1) /\ CurrentAt(queue, next + 1, i) = CurrentAt(queue, next, i)
              /\ next \in ClaimedAt(queue, next) => CurrentAt(queue, next, next) = self
            BY <2>2, <2>4, <2>7, ConstructedOne
        <3>2. next \in ClaimedAt(queue, next + 1)
            <4>1. next < next + 1
                BY DEF Hosting
            <4> QED BY <2>2, <2>7, <4>1 DEF ClaimedAt
        <3>3. \A c \in Seqs(made) : c = self \/ c.kind = "service"
            BY <2>3, Made
        <3> HIDE DEF made, named, self, d, ns
        <3>4. ASSUME NEW c \in Registered(registry'), c.kind \in {"handler", "scheduler"} PROVE FromQueue(queue, next + 1, c)
            <4>1. CASE c = named
                BY <3>1, <3>2, <4>1 DEF FromQueue
            <4>2. CASE c # named
                <5>1. c \in Registered(registry) /\ c # self
                    BY <3>1, <3>3, <3>4, <4>2
                <5>2. PICK i \in ClaimedAt(queue, next) : c = CurrentAt(queue, next, i)
                    BY <2>5, <3>4, <5>1
                <5> QED BY <3>1, <5>1, <5>2 DEF FromQueue
            <4> QED BY <4>1, <4>2
        <3> QED BY <2>1, <2>4, <3>4 DEF Originated
    <2> QED BY <2>1, <2>6, <2>7
<1>7. CASE RestoreOrder
    <2>1. /\ stage = "construct" /\ next > Len(queue) /\ registry' = Reorder(registry, HandlersDeclared) /\ stage' = "caches" /\ UNCHANGED queue
        BY <1>7 DEF RestoreOrder, Enters
    <2>2. /\ ClaimsHeld(queue, next, registry) /\ Unreached' = Len(queue) + 1 /\ Unreached = next
          /\ registry \in Seq(Comp) /\ KeysDistinct(registry) /\ queue \in Seq(OfAgent)
        BY <2>1 DEF Registering, Replaying, Late, Unreached
    <2>3. \A i \in DOMAIN queue : i < next /\ i < Len(queue) + 1
        BY <2>1, <2>2, QueueAt DEF Hosting
    <2>4. HandlersDeclared \in Seq(Comp) /\ Distinct(HandlersDeclared) /\ Seqs(HandlersDeclared) \subseteq Registered(registry)
        BY <2>2, <2>3, HandlersFit
    <2>5. Registered(registry') = Registered(registry)
        BY <2>1, <2>2, <2>4, Reordered DEF PlacesOf
    <2>6. ClaimedAt(queue, Len(queue) + 1) = ClaimedAt(queue, next)
        BY <2>3 DEF ClaimedAt
    <2>7. \A i \in ClaimedAt(queue, next) : CurrentAt(queue, Len(queue) + 1, i) = CurrentAt(queue, next, i)
        BY <2>3 DEF ClaimedAt, CurrentAt
    <2>8. \A c : FromQueue(queue, next, c) => FromQueue(queue, Len(queue) + 1, c)
        BY <2>6, <2>7 DEF FromQueue
    <2> QED BY <2>1, <2>2, <2>5, <2>8 DEF Originated
<1>8. CASE CreateCache /\ ~(\E reason : Refuses(reason))
    <2>1. \A c : c.kind \in {"redis", "disk"} => c.kind \notin {"handler", "scheduler"}
        OBVIOUS
    <2> QED BY <1>8, <2>1, CacheAdds, StillOriginated
<1>9. CASE (CachesDone \/ SchedulersDone \/ Startup) /\ ~(\E reason : Refuses(reason))
    <2>1. /\ UNCHANGED <<dep, queue, registry>> /\ stage \in {"caches", "schedulers", "built"} /\ stage' \in {"schedulers", "transports", "serving"}
        BY <1>9 DEF CachesDone, SchedulersDone, Startup, Enters
    <2> QED BY <2>1, StillOriginated
<1>10. CASE WireScheduler /\ ~(\E reason : Refuses(reason))
    <2> DEFINE s == Schedulers[next]
    <2>1. /\ stage = "schedulers" /\ UNCHANGED <<dep, stage, queue>> /\ s \in Registered(registry) /\ s.kind = "scheduler"
          /\ Registered(registry') = Registered(registry) \cup Seqs(Tick(s))
          /\ Seqs(Tick(s)) = IF dep.mode = "event" THEN {TickOf(s)} ELSE {}
          /\ TickOf(s).kind = "handler"
        BY <1>10, TickAdds
    <2> HIDE DEF s
    <2>2. Unreached' = Unreached /\ \A c : TickIn(registry, c) => TickIn(registry', c)
        BY <2>1 DEF Unreached, TickIn
    <2>3. ASSUME NEW c \in Registered(registry')
          PROVE  /\ c.kind = "scheduler" => FromQueue(queue, Unreached, c)
                 /\ c.kind = "handler" => FromQueue(queue, Unreached, c) \/ (dep.mode = "event" /\ TickIn(registry', c))
        <3>1. CASE c \in Registered(registry)
            BY <2>1, <2>2, <3>1 DEF Originated
        <3>2. CASE c \notin Registered(registry)
            <4>1. c = TickOf(s) /\ dep.mode = "event"
                BY <2>1, <3>2
            <4> QED BY <2>1, <4>1 DEF TickIn
        <3> QED BY <3>1, <3>2
    <2> QED BY <2>1, <2>2, <2>3 DEF Originated
<1>11. CASE WireTransport /\ ~(\E reason : Refuses(reason))
    <2> DEFINE ns == Line[next]
               made == IF Consuming(ns) \/ ns \in dep.publishing THEN ClientOf(ns) ELSE <<>>
    <2>1. /\ stage = "transports" /\ stage' = stage /\ UNCHANGED <<dep, queue>>
          /\ Registered(registry') = Registered(registry) \cup Seqs(made) /\ \A c \in Seqs(made) : c.kind \in {"client", "service"}
        BY <1>11, Wires
    <2> HIDE DEF made
    <2>2. \A c \in Registered(registry') : c \in Registered(registry) \/ c.kind \notin {"handler", "scheduler"}
        BY <2>1
    <2> QED BY <2>1, <2>2, StillOriginated
<1>12. CASE Mount /\ ~(\E reason : Refuses(reason))
    <2>1. /\ stage = "transports" /\ stage' = "built" /\ UNCHANGED <<dep, queue>>
          /\ Registered(registry') = Registered(registry) \cup Seqs(Services) /\ \A c \in Seqs(Services) : c.kind = "service"
        BY <1>12, ServicesAdd
    <2>2. \A c \in Registered(registry') : c \in Registered(registry) \/ c.kind \notin {"handler", "scheduler"}
        BY <2>1
    <2> QED BY <2>1, <2>2, StillOriginated
<1> QED BY <1>1, <1>2, <1>3, <1>4, <1>5, <1>6, <1>7, <1>8, <1>9, <1>10, <1>11, <1>12 DEF Next

-----------------------------------------------------------------------------
(* Every scheduler has passed its check, and has its tick where that is an  *)
(* event: a handler no declaration has made.                                *)

Scheduled(s) ==
    /\ TickFits(s)
    /\ dep.mode = "event" => TickOf(s) \in Registered(registry) /\ ~FromQueue(queue, Len(queue) + 1, TickOf(s))

Timing ==
    /\ stage = "schedulers" => \A k \in DOMAIN Schedulers : k < next => Scheduled(Schedulers[k])
    /\ stage \in {"transports", "built", "serving"} => \A s \in Seqs(Schedulers) : Scheduled(s)

LEMMA SchedulersStay ==
    ASSUME Registering, NEW made \in Seq(Comp), ~Collides(registry, made), registry' = registry \o made, \A c \in Seqs(made) : c.kind # "scheduler"
    PROVE  Schedulers' = Schedulers
<1> DEFINE u == registry \o made
           W == Schedulers
           P == {i \in DOMAIN registry : registry[i].kind = "scheduler"}
           Q == {i \in DOMAIN u : u[i].kind = "scheduler"}
<1>1. registry \in Seq(Comp) /\ Seqs(W) = {c \in Registered(registry) : c.kind = "scheduler"} /\ W = Picked(registry, P) /\ Schedulers' = Picked(u, Q)
    BY SchedulersFit DEF Registering, Schedulers
<1>2. u \in Seq(Comp) /\ Registered(u) = Registered(registry) \cup Seqs(made) /\ \A c \in Seqs(made) : c \notin Registered(registry)
    BY Extended DEF Registering
<1> HIDE DEF W
<1>3. PlacesOf(registry, W) = P
    BY <1>1 DEF PlacesOf, Registered
<1>4. PlacesOf(u, W) = Q
    <2> HIDE DEF u
    <2>1. \A i \in DOMAIN u : u[i] \in Registered(u)
        BY DEF Registered
    <2>2. \A i \in DOMAIN u : u[i] \in Seqs(W) <=> u[i].kind = "scheduler"
        BY <1>1, <1>2, <2>1
    <2> QED BY <2>2 DEF PlacesOf
<1>5. Picked(u, PlacesOf(u, W)) = Picked(registry, PlacesOf(registry, W))
    BY <1>1, <1>2, OrderKept
<1> QED BY <1>1, <1>3, <1>4, <1>5 DEF W

LEMMA StillScheduled ==
    ASSUME UNCHANGED <<dep, queue>>, Registered(registry) \subseteq Registered(registry')
    PROVE  \A s : Scheduled(s) => Scheduled(s)'
<1>1. \A s : TickFits(s)' <=> TickFits(s)
    BY DEF TickFits, CrontabOf, Unidentified, Wrong
<1> QED BY <1>1 DEF Scheduled

\* Where nothing is added.
LEMMA TimingKept ==
    ASSUME Hosting, Registering, Timing, UNCHANGED <<dep, queue>>, NEW made \in Seq(Comp), ~Collides(registry, made), registry' = registry \o made,
           \A c \in Seqs(made) : c.kind # "scheduler",
           stage \in {"transports", "built", "serving"}, stage' \in {"transports", "built", "serving"}
    PROVE  Timing'
<1>1. Schedulers' = Schedulers
    BY SchedulersStay
<1>2. Registered(registry) \subseteq Registered(registry')
    BY Extended DEF Registering
<1> QED BY <1>1, <1>2, StillScheduled DEF Timing

LEMMA TimingStep == Hosting /\ Replaying /\ Registering /\ Timing /\ [Next]_vars => Timing'
<1> SUFFICES ASSUME Hosting, Replaying, Registering, Timing, [Next]_vars PROVE Timing'
    OBVIOUS
<1>1. CASE UNCHANGED vars
    <2>1. UNCHANGED <<dep, queue, registry, stage, next>>
        BY <1>1 DEF vars
    <2>2. Schedulers' = Schedulers
        BY <2>1 DEF Schedulers
    <2> QED BY <2>1, <2>2, StillScheduled DEF Timing
<1>2. CASE \E reason : Refuses(reason)
    BY <1>2 DEF Timing, Refuses
<1>3. CASE /\ ResolveGroup \/ LoadAgent \/ HostAgents \/ ReplayAgent \/ AllReplayed \/ HostRoot \/ Construct \/ RestoreOrder \/ CreateCache
           /\ ~(\E reason : Refuses(reason))
    <2>1. stage' \in {"load", "replay", "construct", "caches"}
        BY <1>3 DEF ResolveGroup, LoadAgent, HostAgents, ReplayAgent, AllReplayed, HostRoot, Construct, RestoreOrder, CreateCache, Enters
    <2> QED BY <2>1 DEF Timing
<1>4. CASE CachesDone
    <2>1. stage = "caches" /\ stage' = "schedulers" /\ next' = 1 /\ registry' = registry
        BY <1>4 DEF CachesDone, Enters
    <2>a. Schedulers' = Schedulers
        BY <2>1 DEF Schedulers
    <2>2. Schedulers' = Schedulers /\ \A k \in DOMAIN Schedulers : ~(k < 1)
        BY <2>a, SchedulersFit DEF Registering
    <2> QED BY <2>1, <2>2 DEF Timing
<1>5. CASE WireScheduler /\ ~(\E reason : Refuses(reason))
    <2> DEFINE s == Schedulers[next]
               made == Tick(s)
    <2>1. /\ stage = "schedulers" /\ UNCHANGED <<dep, stage, queue>> /\ next' = next + 1 /\ next \in DOMAIN Schedulers /\ TickFits(s)
          /\ made \in Seq(Comp) /\ ~Collides(registry, made) /\ registry' = registry \o made
          /\ Seqs(made) = IF dep.mode = "event" THEN {TickOf(s)} ELSE {}
          /\ TickOf(s).kind = "handler"
          /\ Registered(registry') = Registered(registry) \cup Seqs(made) /\ \A c \in Seqs(made) : c \notin Registered(registry)
        BY <1>5, TickAdds
    <2>2. \A k \in DOMAIN Schedulers : k < next + 1 => k < next \/ k = next
        BY SchedulersFit DEF Hosting, Registering
    <2>3. \A k \in DOMAIN Schedulers : k < next => Scheduled(Schedulers[k])
        BY <2>1 DEF Timing
    <2> HIDE DEF s, made
    <2>4. Schedulers' = Schedulers
        <3>1. \A c \in Seqs(made) : c.kind # "scheduler"
            BY <2>1
        <3> QED BY <2>1, <3>1, SchedulersStay
    <2>5. dep.mode = "event" => ~FromQueue(queue, Len(queue) + 1, TickOf(s))
        <3>1. ClaimsHeld(queue, Len(queue) + 1, registry)
            BY <2>1 DEF Registering, Unreached, Late
        <3> QED BY <2>1, <3>1 DEF FromQueue, ClaimsHeld
    <2>6. \A x : x = s => Scheduled(x)'
        <3> SUFFICES ASSUME NEW x, x = s PROVE Scheduled(x)'
            OBVIOUS
        <3>1. TickFits(x)'
            BY <2>1 DEF TickFits, CrontabOf, Unidentified, Wrong
        <3>2. dep.mode = "event" => TickOf(x) \in Registered(registry') /\ ~FromQueue(queue, Len(queue) + 1, TickOf(x))
            BY <2>1, <2>5
        <3> QED BY <2>1, <3>1, <3>2 DEF Scheduled
    <2>7. \A x : (\E k \in DOMAIN Schedulers : k < next + 1 /\ x = Schedulers[k]) => Scheduled(x)'
        <3> SUFFICES ASSUME NEW k \in DOMAIN Schedulers, NEW x, k < next + 1, x = Schedulers[k] PROVE Scheduled(x)'
            OBVIOUS
        <3>1. CASE k < next
            <4>1. Scheduled(x)
                BY <2>3, <3>1
            <4> QED BY <2>1, <4>1, StillScheduled
        <3>2. CASE k = next
            BY <2>6, <3>2 DEF s
        <3> QED BY <2>2, <3>1, <3>2
    <2> QED BY <2>1, <2>4, <2>7 DEF Timing
<1>6. CASE SchedulersDone
    <2>1. stage = "schedulers" /\ stage' = "transports" /\ next > Len(Schedulers) /\ UNCHANGED <<dep, queue, registry>>
        BY <1>6 DEF SchedulersDone, Enters
    <2>a. Schedulers' = Schedulers
        BY <2>1 DEF Schedulers
    <2>2. Schedulers' = Schedulers /\ \A k \in DOMAIN Schedulers : k < next
        BY <2>1, <2>a, SchedulersFit DEF Registering, Hosting
    <2>3. \A s \in Seqs(Schedulers) : Scheduled(s)
        BY <2>1, <2>2 DEF Timing, Seqs
    <2> QED BY <2>1, <2>2, <2>3, StillScheduled DEF Timing
<1>7. CASE WireTransport /\ ~(\E reason : Refuses(reason))
    <2> DEFINE ns == Line[next]
               made == IF Consuming(ns) \/ ns \in dep.publishing THEN ClientOf(ns) ELSE <<>>
    <2>1. /\ stage = "transports" /\ stage' = stage /\ UNCHANGED <<dep, queue>> /\ made \in Seq(Comp) /\ ~Collides(registry, made) /\ registry' = registry \o made
          /\ \A c \in Seqs(made) : c.kind \in {"client", "service"}
        BY <1>7, Wires
    <2> HIDE DEF made
    <2> QED BY <2>1, TimingKept
<1>8. CASE Mount /\ ~(\E reason : Refuses(reason))
    <2>1. /\ stage = "transports" /\ stage' = "built" /\ UNCHANGED <<dep, queue>> /\ Services \in Seq(Comp) /\ ~Collides(registry, Services)
          /\ registry' = registry \o Services /\ \A c \in Seqs(Services) : c.kind = "service"
        BY <1>8, ServicesAdd
    <2> QED BY <2>1, TimingKept
<1>9. CASE Startup /\ ~(\E reason : Refuses(reason))
    <2>1. stage = "built" /\ stage' = "serving" /\ UNCHANGED <<dep, queue, registry>>
        BY <1>9 DEF Startup, Enters
    <2>2. Schedulers' = Schedulers
        BY <2>1 DEF Schedulers
    <2> QED BY <2>1, <2>2, StillScheduled DEF Timing
<1> QED BY <1>1, <1>2, <1>3, <1>4, <1>5, <1>6, <1>7, <1>8, <1>9 DEF Next

LEMMA TimingInit == Init => Timing
BY DEF Init, Timing

-----------------------------------------------------------------------------
(* The clients: of those who consume or publish, and, on NATS, of each of   *)
(* them.                                                                    *)

Wanting(n) == Consuming(n) \/ n \in dep.publishing

Wired ==
    /\ \A c \in Registered(registry) : c.kind = "client" => Wanting(c.ns)
    /\ stage = "transports" /\ dep.bus = "nats" => \A k \in DOMAIN Line : k < next /\ Wanting(Line[k]) => Line[k] \in Clients
    /\ Assembled /\ dep.bus = "nats" => \A n \in Seqs(Line) : Wanting(n) => n \in Clients
    /\ stage = "transports" => \A k \in DOMAIN Line : k < next => "publishing" \notin Wrong(Line[k])
    /\ Assembled => \A n \in Seqs(Line) : "publishing" \notin Wrong(n)

LEMMA WiredInit == Init => Wired
BY DEF Init, Wired, Assembled, Registered

LEMMA WiredStep == Hosting /\ Replaying /\ Registering /\ Wired /\ [Next]_vars => Wired'
<1> SUFFICES ASSUME Hosting, Replaying, Registering, Wired, [Next]_vars PROVE Wired'
    OBVIOUS
<1>1. CASE UNCHANGED vars
    <2>1. UNCHANGED <<dep, hosted, stage, next, registry>>
        BY <1>1 DEF vars
    <2>2. /\ Line' = Line /\ Clients' = Clients /\ (Assembled' <=> Assembled)
          /\ \A n : (Wanting(n)' <=> Wanting(n)) /\ Wrong(n)' = Wrong(n)
        BY <2>1 DEF Line, Clients, Assembled, Wanting, Consuming, Wrong
    <2> QED BY <2>1, <2>2 DEF Wired
<1>2. CASE \E reason : Refuses(reason)
    <2>1. UNCHANGED <<dep, registry>> /\ stage' = "refused"
        BY <1>2 DEF Refuses
    <2>2. \A n : Wanting(n)' <=> Wanting(n)
        BY <2>1 DEF Wanting, Consuming
    <2> QED BY <2>1, <2>2 DEF Wired, Assembled
<1>3. CASE /\ ResolveGroup \/ LoadAgent \/ HostAgents \/ ReplayAgent \/ AllReplayed \/ HostRoot
              \/ Construct \/ RestoreOrder \/ CreateCache \/ CachesDone \/ WireScheduler
           /\ ~(\E reason : Refuses(reason))
    <2>1. stage' \in {"load", "replay", "construct", "caches", "schedulers"}
        BY <1>3 DEF ResolveGroup, LoadAgent, HostAgents, ReplayAgent, AllReplayed, HostRoot, Construct, RestoreOrder, CreateCache,
                    CachesDone, WireScheduler, Enters
    <2>2. \A c \in Registered(registry') : c.kind # "client"
        <3>1. Registering'
            BY RegisteringStep, ReplayingStep, HostingStep
        <3>2. stage' \in {"load", "replay"} => Registered(registry') = {}
            BY <3>1 DEF Registering, Registered
        <3> QED BY <2>1, <3>1, <3>2 DEF Registering
    <2> QED BY <2>1, <2>2 DEF Wired, Assembled
<1>4. CASE SchedulersDone
    <2>1. UNCHANGED <<dep, hosted, registry>> /\ stage = "schedulers" /\ stage' = "transports" /\ next' = 1
        BY <1>4 DEF SchedulersDone, Enters
    <2>2. Line' = Line /\ \A n : Wanting(n)' <=> Wanting(n)
        BY <2>1 DEF Line, Wanting, Consuming
    <2>3. \A k \in DOMAIN Line : ~(k < 1)
        BY LineFit
    <2> QED BY <2>1, <2>2, <2>3 DEF Wired, Assembled
<1>5. CASE WireTransport /\ ~(\E reason : Refuses(reason))
    <2> DEFINE ns == Line[next]
               made == IF Consuming(ns) \/ ns \in dep.publishing THEN ClientOf(ns) ELSE <<>>
    <2>1. /\ stage = "transports" /\ stage' = stage /\ next \in DOMAIN Line /\ next' = next + 1 /\ UNCHANGED <<dep, hosted>>
          /\ \A c \in Seqs(made) : c.ns = ns /\ c.kind \in {"client", "service"}
          /\ Registered(registry') = Registered(registry) \cup Seqs(made)
          /\ "publishing" \notin Wrong(ns)
        BY <1>5, Wires
    <2>a. Seqs(made) = {} \/ Wanting(ns)
        BY DEF Wanting, Seqs
    <2>b. Wanting(ns) /\ dep.bus = "nats" => \E c \in Seqs(made) : c.kind = "client"
        <3> SUFFICES ASSUME Wanting(ns), dep.bus = "nats" PROVE \E c \in Seqs(made) : c.kind = "client"
            OBVIOUS
        <3>1. made = <<Component("client", ns, <<"nats", "client">>)>>
            BY DEF Wanting, ClientOf
        <3>2. Component("client", ns, <<"nats", "client">>) \in Seqs(made)
            BY <3>1 DEF Seqs
        <3>3. Component("client", ns, <<"nats", "client">>).kind = "client"
            BY DEF Component
        <3> QED BY <3>2, <3>3
    <2> HIDE DEF made
    <2>2. Line' = Line /\ \A n : (Wanting(n)' <=> Wanting(n)) /\ Wrong(n)' = Wrong(n)
        <3>1. \A n : Consuming(n)' <=> Consuming(n)
            BY <2>1, ConsumersStay
        <3> QED BY <2>1, <3>1 DEF Line, Wanting, Wrong
    <2>3. Clients \subseteq Clients'
        BY <2>1 DEF Clients
    <2>4. \A k \in DOMAIN Line : k < next + 1 => k < next \/ k = next
        BY LineFit DEF Hosting
    <2>5. Wanting(ns) /\ dep.bus = "nats" => ns \in Clients'
        BY <2>1, <2>b DEF Clients
    <2>6. \A c \in Registered(registry') : c.kind = "client" => Wanting(c.ns)
        BY <2>1, <2>a DEF Wired
    <2>7. ~Assembled'
        BY <2>1 DEF Assembled
    <2>8. dep.bus = "nats" => \A k \in DOMAIN Line : k < next + 1 /\ Wanting(Line[k]) => Line[k] \in Clients'
        BY <2>1, <2>3, <2>4, <2>5 DEF Wired
    <2>9. \A k \in DOMAIN Line : k < next + 1 => "publishing" \notin Wrong(Line[k])
        BY <2>1, <2>4 DEF Wired
    <2> HIDE DEF ns
    <2> QED BY <2>1, <2>2, <2>6, <2>7, <2>8, <2>9 DEF Wired
<1>6. CASE Mount /\ ~(\E reason : Refuses(reason))
    <2>1. /\ stage = "transports" /\ stage' = "built" /\ UNCHANGED <<dep, hosted>> /\ next > Len(hosted) + 1
          /\ Registered(registry') = Registered(registry) \cup Seqs(Services)
          /\ \A c \in Seqs(Services) : c.kind = "service"
        BY <1>6, ServicesAdd
    <2>2. Line' = Line /\ \A n : (Wanting(n)' <=> Wanting(n)) /\ Wrong(n)' = Wrong(n)
        <3>1. \A n : Consuming(n)' <=> Consuming(n)
            BY <2>1, ConsumersStay
        <3> QED BY <2>1, <3>1 DEF Line, Wanting, Wrong
    <2>3. Clients' = Clients
        BY <2>1 DEF Clients
    <2>4. \A k \in DOMAIN Line : k < next
        BY <2>1, LineFit DEF Hosting
    <2>5. dep.bus = "nats" => \A n \in Seqs(Line) : Wanting(n) => n \in Clients
        BY <2>1, <2>4 DEF Wired, Seqs
    <2>6. \A n \in Seqs(Line) : "publishing" \notin Wrong(n)
        BY <2>1, <2>4 DEF Wired, Seqs
    <2> QED BY <2>1, <2>2, <2>3, <2>5, <2>6 DEF Wired
<1>7. CASE Startup /\ ~(\E reason : Refuses(reason))
    <2>1. UNCHANGED <<dep, hosted, registry>> /\ stage = "built" /\ stage' = "serving"
        BY <1>7 DEF Startup, Enters
    <2>2. Line' = Line /\ Clients' = Clients /\ \A n : (Wanting(n)' <=> Wanting(n)) /\ Wrong(n)' = Wrong(n)
        BY <2>1 DEF Line, Clients, Wanting, Consuming, Wrong
    <2> QED BY <2>1, <2>2 DEF Wired, Assembled
<1> QED BY <1>1, <1>2, <1>3, <1>4, <1>5, <1>6, <1>7 DEF Next

-----------------------------------------------------------------------------
(* What the check reads of an agent is what its start has registered.       *)

Wiring == stage \in {"transports", "built", "serving"}
Assembling == Hosting /\ Replaying /\ Registering /\ Originated /\ Timing

\* What a declaration stands for in the end, in the namespace of its agent.
NamedFor(n, d) == Component(d.kind, n, BaseOf(d))

LEMMA DeclaredIsThere ==
    ASSUME Replaying, Registering, stage \in Late \ {"construct"}, NEW n \in Owners
    PROVE  /\ \A d \in DeclaredBy(n) : Constructed(d) => NamedFor(n, d) \in Registered(registry)
           /\ \A d \in DeclaredBy(n) : Constructed(d) => FromQueue(queue, Len(queue) + 1, NamedFor(n, d))
           /\ \A d, e \in DeclaredBy(n) : Constructed(d) /\ Constructed(e) /\ NamedFor(n, d) = NamedFor(n, e) => d = e
<1>1. ClaimsHeld(queue, Len(queue) + 1, registry) /\ queue \in Seq(OfAgent) /\ QueueOf(queue, n) = DeclaredBy(n)
    BY DEF Replaying, Registering, Unreached, Late
<1>2. \A i \in DOMAIN queue : i < Len(queue) + 1
    BY <1>1, QueueAt
<1>3. ASSUME NEW d \in DeclaredBy(n), Constructed(d)
      PROVE  \E i \in ClaimedAt(queue, Len(queue) + 1) : queue[i].of = d /\ CurrentAt(queue, Len(queue) + 1, i) = NamedFor(n, d)
    <2>1. PICK q \in Seqs(queue) : q.ns = n /\ q.of = d
        BY <1>1 DEF QueueOf
    <2>2. PICK i \in DOMAIN queue : queue[i] = q
        BY DEF Seqs
    <2> QED BY <1>2, <1>3, <2>1, <2>2 DEF ClaimedAt, CurrentAt, NamedFor
<1> QED BY <1>1, <1>3 DEF ClaimsHeld, FromQueue

LEMMA FromDeclared ==
    ASSUME Replaying, stage \in Late \ {"construct"}, NEW c, FromQueue(queue, Len(queue) + 1, c)
    PROVE  c.ns \in Owners /\ \E d \in DeclaredBy(c.ns) : Constructed(d) /\ d.kind = c.kind /\ c = NamedFor(c.ns, d)
<1>1. PICK i \in ClaimedAt(queue, Len(queue) + 1) : c = CurrentAt(queue, Len(queue) + 1, i)
    BY DEF FromQueue
<1>2. queue \in Seq(OfAgent) /\ i \in DOMAIN queue
    BY <1>1 DEF Replaying, ClaimedAt
<1>3. i < Len(queue) + 1
    BY <1>2, QueueAt
<1>4. c = Component(queue[i].of.kind, queue[i].ns, BaseOf(queue[i].of)) /\ Constructed(queue[i].of)
    BY <1>1, <1>3 DEF CurrentAt, ClaimedAt
<1>5. c.kind = queue[i].of.kind /\ c.ns = queue[i].ns
    BY <1>4 DEF Component
<1>6. queue[i] \in Seqs(queue)
    BY <1>2 DEF Seqs
<1>7. queue[i].ns \in Owners /\ queue[i].of \in QueueOf(queue, queue[i].ns)
    BY <1>6 DEF Replaying, QueueOf
<1>8. queue[i].of \in DeclaredBy(queue[i].ns)
    BY <1>7 DEF Replaying, Late
<1> QED BY <1>4, <1>5, <1>7, <1>8 DEF NamedFor

\* The schedulers: those declared, each with the crontab it was declared with.
LEMMA SchedulersDeclared ==
    ASSUME Assembling, stage \in {"schedulers", "transports", "built", "serving"}
    PROVE  /\ \A s \in Seqs(Schedulers) : s.ns \in Owners /\ \E d \in Declares(s.ns, "scheduler") : s = NamedFor(s.ns, d) /\ CrontabOf(s) = d.crontab
           /\ \A n \in Owners : \A d \in Declares(n, "scheduler") : NamedFor(n, d) \in Seqs(Schedulers) /\ CrontabOf(NamedFor(n, d)) = d.crontab
<1>1. Seqs(Schedulers) = {c \in Registered(registry) : c.kind = "scheduler"}
    BY SchedulersFit DEF Assembling, Registering
<1>2. ASSUME NEW n \in Owners, NEW d \in Declares(n, "scheduler")
      PROVE  NamedFor(n, d) \in Seqs(Schedulers) /\ CrontabOf(NamedFor(n, d)) = d.crontab
    <2> DEFINE s == NamedFor(n, d)
    <2>1. d \in DeclaredBy(n) /\ d.kind = "scheduler" /\ Constructed(d)
        BY <1>2 DEF Declares, DeclaredBy, Constructed
    <2>2. s \in Seqs(Schedulers)
        <3>1. s \in Registered(registry)
            BY <2>1, DeclaredIsThere DEF Assembling, Late
        <3>2. s.kind = "scheduler"
            BY <2>1 DEF NamedFor, Component
        <3> QED BY <1>1, <3>1, <3>2
    <2>3. QueueOf(queue, n) = DeclaredBy(n)
        BY DEF Assembling, Replaying, Late
    <2>4. \E q \in Seqs(queue) : q.ns = n /\ q.of = d
        BY <2>1, <2>3 DEF QueueOf
    <2>5. s.ns = n /\ s.base = BaseOf(d)
        BY DEF NamedFor, Component
    <2> DEFINE Of(q) == q.ns = s.ns /\ q.of.kind = "scheduler" /\ BaseOf(q.of) = s.base
               p == CHOOSE q \in Seqs(queue) : Of(q)
    <2>6. \E q \in Seqs(queue) : Of(q)
        BY <2>1, <2>4, <2>5
    <2>7. p \in Seqs(queue) /\ Of(p)
        <3> HIDE DEF Of
        <3> QED BY <2>6
    <2>8. p.of \in DeclaredBy(n)
        BY <2>3, <2>5, <2>7 DEF QueueOf
    <2>9. NamedFor(n, p.of) = NamedFor(n, d) /\ Constructed(p.of)
        BY <2>1, <2>5, <2>7 DEF NamedFor, Component, Constructed
    <2>10. p.of = d
        BY <2>1, <2>8, <2>9, DeclaredIsThere DEF Assembling, Late
    <2>11. CrontabOf(s) = p.of.crontab
        BY DEF CrontabOf
    <2> HIDE DEF p, s
    <2> QED BY <2>2, <2>10, <2>11 DEF s
<1>3. ASSUME NEW s \in Seqs(Schedulers)
      PROVE  s.ns \in Owners /\ \E d \in Declares(s.ns, "scheduler") : s = NamedFor(s.ns, d) /\ CrontabOf(s) = d.crontab
    <2>1. s \in Registered(registry) /\ s.kind = "scheduler"
        BY <1>1
    <2>2. FromQueue(queue, Len(queue) + 1, s)
        BY <2>1 DEF Assembling, Originated, Unreached
    <2>3. s.ns \in Owners /\ \E d \in DeclaredBy(s.ns) : d.kind = s.kind /\ s = NamedFor(s.ns, d)
        BY <2>2, FromDeclared DEF Assembling, Late
    <2>4. PICK d \in DeclaredBy(s.ns) : d.kind = "scheduler" /\ s = NamedFor(s.ns, d)
        BY <2>1, <2>3
    <2>5. d \in Declares(s.ns, "scheduler")
        BY <2>4 DEF Declares, DeclaredBy
    <2> QED BY <1>2, <2>3, <2>4, <2>5
<1> QED BY <1>2, <1>3

\* Who consumes is who was read to consume.
LEMMA ConsumesAsRead ==
    ASSUME Assembling, Wiring
    PROVE  /\ \A n \in Owners : Consuming(n) <=> ConsumesEvents(n)
           /\ \A n : Consuming(n) => n \in Owners
<1>1. stage \in Late \ {"construct"} /\ Unreached = Len(queue) + 1 /\ stage \in {"schedulers", "transports", "built", "serving"}
    BY DEF Wiring, Late, Unreached
<1>2. ASSUME NEW n \in Owners, ConsumesEvents(n) PROVE Consuming(n)
    <2>1. CASE HasHandlers(n)
        <3>1. PICK d \in DeclaredBy(n) : d.kind = "handler"
            BY <2>1 DEF HasHandlers, Declares, DeclaredBy
        <3>2. NamedFor(n, d) \in Registered(registry)
            BY <1>1, <3>1, DeclaredIsThere DEF Assembling, Constructed
        <3>3. NamedFor(n, d).kind = "handler" /\ NamedFor(n, d).ns = n
            BY <3>1 DEF NamedFor, Component
        <3> QED BY <3>2, <3>3 DEF Consuming, OfKind
    <2>2. CASE HasSchedulers(n) /\ dep.mode = "event"
        <3>1. PICK d \in Declares(n, "scheduler") : TRUE
            BY <2>2 DEF HasSchedulers
        <3> DEFINE s == NamedFor(n, d)
        <3>2. s \in Seqs(Schedulers)
            BY <1>1, <3>1, SchedulersDeclared
        <3>3. TickOf(s) \in Registered(registry)
            BY <2>2, <3>2 DEF Assembling, Timing, Wiring, Scheduled
        <3>4. TickOf(s).kind = "handler" /\ TickOf(s).ns = n
            BY DEF TickOf, NamedFor, Component
        <3> QED BY <3>3, <3>4 DEF Consuming, OfKind
    <2> QED BY <1>2, <2>1, <2>2 DEF ConsumesEvents
<1>3. ASSUME NEW n, Consuming(n) PROVE n \in Owners /\ ConsumesEvents(n)
    <2>1. PICK c \in Registered(registry) : c.kind = "handler" /\ c.ns = n
        BY <1>3 DEF Consuming, OfKind
    <2>2. CASE FromQueue(queue, Len(queue) + 1, c)
        <3>1. n \in Owners /\ \E d \in DeclaredBy(n) : d.kind = "handler"
            BY <1>1, <2>1, <2>2, FromDeclared DEF Assembling
        <3> QED BY <3>1 DEF ConsumesEvents, HasHandlers, Declares, DeclaredBy
    <2>3. CASE dep.mode = "event" /\ TickIn(registry, c)
        <3>1. PICK s \in Registered(registry) : s.kind = "scheduler" /\ c = TickOf(s)
            BY <2>3 DEF TickIn
        <3>2. s \in Seqs(Schedulers) /\ s.ns = n
            BY <2>1, <3>1, SchedulersFit DEF Assembling, Registering, TickOf, Component
        <3>3. n \in Owners /\ Declares(n, "scheduler") # {}
            BY <1>1, <3>2, SchedulersDeclared
        <3> QED BY <2>3, <3>3 DEF ConsumesEvents, HasSchedulers
    <2> QED BY <1>1, <2>1, <2>2, <2>3 DEF Assembling, Originated
<1> QED BY <1>2, <1>3

-----------------------------------------------------------------------------
(* TopicsOf: the handlers of an agent, those of its schedulers included.    *)

\* What is made of the members of a set, one of each, is as many.
LEMMA AsMany ==
    ASSUME NEW S, IsFiniteSet(S), NEW T, NEW f \in [S -> T],
           \A y \in T : \E x \in S : f[x] = y, \A x, y \in S : f[x] = f[y] => x = y
    PROVE  IsFiniteSet(T) /\ Cardinality(T) = Cardinality(S)
<1>1. f \in Surjection(S, T)
    BY DEF Surjection
<1>2. f \in Injection(S, T)
    BY DEF Injection, IsInjective
<1> QED BY <1>1, <1>2, FS_Surjection

LEMMA FiniteList ==
    ASSUME NEW S, NEW s \in Seq(S)
    PROVE  IsFiniteSet(Seqs(s))
<1> DEFINE n == Len(s)
<1>1. n \in Nat /\ DOMAIN s = 1..n /\ s \in [1..n -> S]
    BY LenProperties
<1>2. s \in [1..n -> Seqs(s)] /\ \A x \in Seqs(s) : \E i \in 1..n : s[i] = x
    BY <1>1 DEF Seqs
<1>3. s \in Surjection(1..n, Seqs(s))
    BY <1>2 DEF Surjection
<1>4. IsFiniteSet(1..n)
    BY <1>1, FS_Interval
<1> QED BY <1>3, <1>4, FS_Surjection

LEMMA TicksDiffer ==
    ASSUME NEW s \in Comp, NEW t \in Comp, s.kind = t.kind, TickOf(s) = TickOf(t)
    PROVE  s = t
<1>1. s.ns = t.ns /\ s.base \o <<"tick">> = t.base \o <<"tick">>
    BY DEF TickOf, Component
<1>2. s.base \in Path /\ t.base \in Path /\ <<"tick">> \in Path
    BY Words DEF Comp
<1>3. s.base = t.base
    BY <1>1, <1>2, ConcatSimplifications DEF Path
<1> QED BY <1>1, <1>3 DEF Comp

LEMMA TopicsCounted ==
    ASSUME Assembling, Wiring, NEW n \in Owners
    PROVE  Cardinality(OfKind(registry, "handler", n)) = TopicsOf(n)
<1> DEFINE H == Declares(n, "handler")
           S == Declares(n, "scheduler")
           K == OfKind(registry, "handler", n)
           made == {NamedFor(n, d) : d \in H}
           ticks == {TickOf(NamedFor(n, d)) : d \in S}
           f == [d \in H |-> NamedFor(n, d)]
           g == [d \in S |-> TickOf(NamedFor(n, d))]
<1>1. stage \in Late \ {"construct"} /\ Unreached = Len(queue) + 1 /\ stage \in {"schedulers", "transports", "built", "serving"}
    BY DEF Wiring, Late, Unreached
<1>2. BuilderOf(n).declares \in Seq(Declaration) /\ n \in Name
    BY OwnersFit, BuilderFit DEF Assembling, Hosting
<1>3. IsFiniteSet(H) /\ IsFiniteSet(S)
    <2>1. IsFiniteSet(DeclaredBy(n))
        BY <1>2, FiniteList DEF DeclaredBy
    <2>2. H \in SUBSET DeclaredBy(n) /\ S \in SUBSET DeclaredBy(n)
        BY DEF Declares, DeclaredBy
    <2> QED BY <2>1, <2>2, FS_Subset
<1>4. /\ \A d \in H : d \in DeclaredBy(n) /\ d.kind = "handler" /\ Constructed(d)
      /\ \A d \in S : d \in DeclaredBy(n) /\ d.kind = "scheduler" /\ Constructed(d)
    BY DEF Declares, DeclaredBy, Constructed
<1>5. \A d \in DeclaredBy(n) : Constructed(d) =>
         /\ NamedFor(n, d) \in Registered(registry) /\ FromQueue(queue, Len(queue) + 1, NamedFor(n, d))
         /\ \A e \in DeclaredBy(n) : Constructed(e) /\ NamedFor(n, d) = NamedFor(n, e) => d = e
    BY <1>1, DeclaredIsThere DEF Assembling
<1>6. \A d : NamedFor(n, d).kind = d.kind /\ NamedFor(n, d).ns = n /\ TickOf(NamedFor(n, d)).kind = "handler" /\ TickOf(NamedFor(n, d)).ns = n
    BY DEF NamedFor, TickOf, Component
<1> HIDE DEF H, S
<1>7. IsFiniteSet(made) /\ Cardinality(made) = Cardinality(H)
    <2>1. f \in [H -> made] /\ (\A y \in made : \E d \in H : f[d] = y) /\ \A d, e \in H : f[d] = f[e] => d = e
        BY <1>4, <1>5
    <2> HIDE DEF f, made
    <2> QED BY <1>3, <2>1, AsMany
<1>8. IsFiniteSet(ticks) /\ Cardinality(ticks) = Cardinality(S)
    <2>1. \A d \in S : NamedFor(n, d) \in Comp
        BY <1>4, <1>5, Members DEF Assembling, Registering, Registered
    <2>2. \A d, e \in S : TickOf(NamedFor(n, d)) = TickOf(NamedFor(n, e)) => NamedFor(n, d) = NamedFor(n, e)
        BY <1>4, <1>6, <2>1, TicksDiffer
    <2>3. g \in [S -> ticks] /\ (\A y \in ticks : \E d \in S : g[d] = y) /\ \A d, e \in S : g[d] = g[e] => d = e
        BY <1>4, <1>5, <2>2
    <2> HIDE DEF g, ticks
    <2> QED BY <1>3, <2>3, AsMany
<1>9. \A d \in S : dep.mode = "event" => TickOf(NamedFor(n, d)) \in Registered(registry)
                                          /\ ~FromQueue(queue, Len(queue) + 1, TickOf(NamedFor(n, d)))
    <2>1. \A d \in S : NamedFor(n, d) \in Seqs(Schedulers)
        BY <1>1, SchedulersDeclared DEF S
    <2> QED BY <2>1 DEF Assembling, Timing, Wiring, Scheduled
<1>10. K = made \cup (IF dep.mode = "event" THEN ticks ELSE {})
    <2>1. made \subseteq K
        BY <1>4, <1>5, <1>6 DEF OfKind
    <2>2. dep.mode = "event" => ticks \subseteq K
        BY <1>6, <1>9 DEF OfKind
    <2>3. ASSUME NEW c \in K PROVE c \in made \/ (dep.mode = "event" /\ c \in ticks)
        <3>1. c \in Registered(registry) /\ c.kind = "handler" /\ c.ns = n
            BY DEF OfKind
        <3>2. CASE FromQueue(queue, Len(queue) + 1, c)
            <4>1. \E d \in DeclaredBy(n) : d.kind = "handler" /\ c = NamedFor(n, d)
                BY <1>1, <3>1, <3>2, FromDeclared DEF Assembling
            <4> QED BY <4>1 DEF H, Declares, DeclaredBy
        <3>3. CASE dep.mode = "event" /\ TickIn(registry, c)
            <4>1. PICK s \in Registered(registry) : s.kind = "scheduler" /\ c = TickOf(s)
                BY <3>3 DEF TickIn
            <4>2. s \in Seqs(Schedulers) /\ s.ns = n
                BY <3>1, <4>1, SchedulersFit DEF Assembling, Registering, TickOf, Component
            <4>3. \E d \in S : s = NamedFor(n, d)
                BY <1>1, <4>2, SchedulersDeclared DEF S
            <4> QED BY <3>3, <4>1, <4>3
        <3> QED BY <1>1, <3>1, <3>2, <3>3 DEF Assembling, Originated
    <2> HIDE DEF K, made, ticks
    <2> QED BY <2>1, <2>2, <2>3
<1>11. dep.mode = "event" => made \cap ticks = {}
    <2>1. \A d \in H : FromQueue(queue, Len(queue) + 1, NamedFor(n, d))
        BY <1>4, <1>5
    <2> QED BY <1>9, <2>1
<1> HIDE DEF made, ticks, K
<1>12. CASE dep.mode = "event"
    <2>1. Cardinality(K) = Cardinality(made) + Cardinality(ticks) - Cardinality(made \cap ticks)
        BY <1>7, <1>8, <1>10, <1>12, FS_Union
    <2>2. Cardinality(made \cap ticks) = 0
        BY <1>11, <1>12, FS_EmptySet
    <2>3. Cardinality(made) \in Nat /\ Cardinality(ticks) \in Nat
        BY <1>7, <1>8, FS_CardinalityType
    <2> QED BY <1>7, <1>8, <1>12, <2>1, <2>2, <2>3 DEF TopicsOf, K, H, S
<1>13. CASE dep.mode # "event"
    <2>1. K = made
        BY <1>10, <1>13
    <2>2. Cardinality(H) \in Nat
        BY <1>3, FS_CardinalityType
    <2> QED BY <1>7, <1>13, <2>1, <2>2 DEF TopicsOf, K, H, S
<1> QED BY <1>12, <1>13

-----------------------------------------------------------------------------
(* ValidatorAgrees, of what serves: what the check reports of an agent the   *)
(* process counts on is a failure of some component of it.                   *)

Building == Assembling /\ Caching /\ Fed /\ Loaded /\ Wired

Fatal(f) == f[2] = Root \/ IsCritical(dep, f[2])
Sound == stage = "serving" => \A f \in StartupFailures : ~Fatal(f)

LEMMA SoundInit == Init => Sound
BY DEF Init, Sound

LEMMA SoundStep == Sound /\ [Next]_vars => Sound'
<1> SUFFICES ASSUME Sound, [Next]_vars PROVE Sound'
    OBVIOUS
<1>1. StartupFailures' = StartupFailures \/ ~(UNCHANGED <<dep, queue, registry, caches, feeds>>)
    BY DEF StartupFailures, Schedulers, Clients, Feeding, Wrong, Undeduplicated, HasHandler, Chains, DedupOf, HasCache
<1>2. CASE UNCHANGED vars
    <2>1. UNCHANGED <<dep, stage, queue, registry, caches, feeds>>
        BY <1>2 DEF vars
    <2> QED BY <1>1, <2>1 DEF Sound, Fatal
<1>3. CASE \E reason : Refuses(reason)
    BY <1>3 DEF Sound, Refuses
<1>4. CASE /\ ResolveGroup \/ LoadAgent \/ HostAgents \/ ReplayAgent \/ AllReplayed \/ HostRoot \/ Construct \/ RestoreOrder
              \/ CreateCache \/ CachesDone \/ WireScheduler \/ SchedulersDone \/ WireTransport \/ Mount
           /\ ~(\E reason : Refuses(reason))
    <2>1. stage' # "serving"
        BY <1>4 DEF ResolveGroup, LoadAgent, HostAgents, ReplayAgent, AllReplayed, HostRoot, Construct, RestoreOrder, CreateCache, CachesDone,
                    WireScheduler, SchedulersDone, WireTransport, Mount, Enters
    <2> QED BY <2>1 DEF Sound
<1>5. CASE Startup /\ ~(\E reason : Refuses(reason))
    <2>1. UNCHANGED <<dep, queue, registry, caches, feeds>> /\ {f \in StartupFailures : f[2] = Root \/ IsCritical(dep, f[2])} = {}
        BY <1>5 DEF Startup, Enters
    <2>2. \A f \in StartupFailures : ~Fatal(f)
        BY <2>1 DEF Fatal
    <2> QED BY <1>1, <2>1, <2>2 DEF Sound, Fatal
<1> QED BY <1>2, <1>3, <1>4, <1>5 DEF Next

LEMMA OwnCache ==
    ASSUME Replaying, Caching, Assembled, NEW n \in Owners
    PROVE  HasCache(n) <=> \E d \in Declares(n, "cache") : d.name = Default
<1>1. /\ stage \in {"built", "serving"}
      /\ DOMAIN caches = {<<queue[i].ns, queue[i].of.name>> : i \in Cached(queue, stage, next)}
    BY DEF Assembled, Caching
<1>2. Cached(queue, stage, next) = {i \in DOMAIN queue : queue[i].of.kind = "cache"}
    BY <1>1 DEF Cached
<1>3. HasCache(n) <=> <<n, Default>> \in DOMAIN caches
    <2>1. HasCache(n) <=> \E e \in DOMAIN caches : e[1] = n /\ e[2] = Default
        BY DEF HasCache, CachesOf
    <2>2. \A e \in DOMAIN caches : e = <<e[1], e[2]>>
        BY <1>1
    <2> QED BY <2>1, <2>2
<1>4. <<n, Default>> \in DOMAIN caches <=> \E q \in Seqs(queue) : q.ns = n /\ q.of.kind = "cache" /\ q.of.name = Default
    <2> HIDE DEF Default
    <2>1. <<n, Default>> \in DOMAIN caches <=> \E i \in DOMAIN queue : queue[i].of.kind = "cache" /\ queue[i].ns = n /\ queue[i].of.name = Default
        BY <1>1, <1>2
    <2> QED BY <2>1 DEF Seqs
<1>5. QueueOf(queue, n) = DeclaredBy(n)
    BY <1>1 DEF Replaying, Late
<1>6. (\E q \in Seqs(queue) : q.ns = n /\ q.of.kind = "cache" /\ q.of.name = Default) <=> \E d \in QueueOf(queue, n) : d.kind = "cache" /\ d.name = Default
    BY DEF QueueOf
<1> QED BY <1>3, <1>4, <1>5, <1>6 DEF Declares, DeclaredBy

\* On NATS, who is on it has a client, and who consumes is fed.
LEMMA ServedOnNats ==
    ASSUME Building, Assembled, dep.bus = "nats", NEW n \in Owners
    PROVE  /\ OnNats(n) => n \in Clients
           /\ ConsumesEvents(n) => Feeding(n) /\ Consuming(n)
<1>1. n \in Seqs(Line) /\ (Consuming(n) <=> ConsumesEvents(n))
    BY LineFit, ConsumesAsRead DEF Building, Assembling, Wiring, Assembled
<1> QED BY <1>1 DEF Building, Wired, Fed, Wanting, OnNats

\* Who consumes has a chain, with the policy of its namespace.
LEMMA ServedChains ==
    ASSUME NEW n, Consuming(n)
    PROVE  HasHandler /\ n \in Chains
BY DEF Consuming, OfKind, HasHandler, Chains

LEMMA TickedAsDeclared ==
    ASSUME Assembling, Wiring, NEW n \in Owners
    PROVE  ~ModeUnfit(n) /\ ~CrontabUnfit(n) /\ ~NoTicks(n)
<1>1. \A d \in Declares(n, "scheduler") : NamedFor(n, d) \in Seqs(Schedulers) /\ CrontabOf(NamedFor(n, d)) = d.crontab
    BY SchedulersDeclared DEF Wiring
<1>2. \A d \in Declares(n, "scheduler") : TickFits(NamedFor(n, d))
    BY <1>1 DEF Assembling, Timing, Wiring, Scheduled
<1>3. \A d \in Declares(n, "scheduler") : dep.mode \in {"event", "in_process"} /\ ~CrontabRefused(d.crontab, dep.mode)
                                          /\ (dep.mode = "event" => dep.bus \in TopicTransports)
    BY <1>1, <1>2 DEF TickFits
<1> QED BY <1>3 DEF ModeUnfit, CrontabUnfit, NoTicks, HasSchedulers

LEMMA ServesWhatIsFit ==
    ASSUME Building, Sound, stage = "serving", NEW n \in Owners
    PROVE  /\ ~ModeUnfit(n) /\ ~CrontabUnfit(n) /\ ~NoTicks(n) /\ ~DedupUnfit(n)
           /\ n # Root => ~OwnSettingsUnfit(n)
           /\ n = Root \/ IsCritical(dep, n) =>
                 /\ ~ZoneUnfit(n) /\ ~QueueGroupUnfit(n) /\ ~DurableShared(n) /\ ~UrlMissing(n)
                 /\ n # Root => ~EntryUnfit(n)
                 /\ ~((ValuesUnfit(n) \/ HeartbeatUnfit(n)) /\ OnNats(n) /\ ConsumesEvents(n))
<1>1. Assembling /\ Wiring /\ Assembled /\ Replaying /\ Caching
    BY DEF Building, Assembling, Wiring, Assembled
<1>2. ~ModeUnfit(n) /\ ~CrontabUnfit(n) /\ ~NoTicks(n)
    BY <1>1, TickedAsDeclared
<1>3. \A f \in StartupFailures : ~Fatal(f)
    BY DEF Sound
<1>4. ~DedupUnfit(n)
    <2> SUFFICES ASSUME ConsumesEvents(n), PolicyUnfit(DedupOf(n), DeclaresACache(n)) PROVE FALSE
        BY DEF DedupUnfit
    <2>1. Consuming(n)
        BY <1>1, ConsumesAsRead
    <2>2. HasHandler /\ n \in Chains
        BY <2>1, ServedChains
    <2>3. HasCache(n) => DeclaresACache(n)
        BY <1>1, OwnCache DEF DeclaresACache
    <2>4. PolicyUnfit(DedupOf(n), HasCache(n))
        BY <2>3 DEF PolicyUnfit
    <2>5. n \in Undeduplicated
        BY <2>2, <2>4 DEF Undeduplicated
    <2> DEFINE f == <<IF n = Root /\ ~dep.standalone THEN "root_dedup" ELSE "dedup", Root>>
    <2>6. f \in StartupFailures
        BY <2>5 DEF StartupFailures
    <2> QED BY <1>3, <2>6 DEF Fatal
<1>5. n # Root => ~OwnSettingsUnfit(n) /\ ~EntryUnfit(n)
    <2> SUFFICES ASSUME n # Root PROVE ~OwnSettingsUnfit(n) /\ ~EntryUnfit(n)
        OBVIOUS
    <2>1. n \in Seqs(hosted)
        BY DEF Owners
    <2>2. dep.image[n].module = "found" /\ ~Misplaced(n) /\ dep.image[n].settings = "fit"
        BY <2>1 DEF Building, Loaded, SettingsUnfit, Late
    <2> QED BY <2>2 DEF OwnSettingsUnfit, EntryUnfit, ModuleUnfit
<1>6. ASSUME n = Root \/ IsCritical(dep, n)
      PROVE  /\ ~ZoneUnfit(n) /\ ~QueueGroupUnfit(n) /\ ~DurableShared(n) /\ ~UrlMissing(n)
             /\ ~((ValuesUnfit(n) \/ HeartbeatUnfit(n)) /\ OnNats(n) /\ ConsumesEvents(n))
    <2>0. \A word : <<word, n>> \notin StartupFailures
        BY <1>3, <1>6 DEF Fatal
    <2>a. dep.bus = "nats" => /\ OnNats(n) => n \in Clients
                              /\ ConsumesEvents(n) => Feeding(n) /\ Consuming(n)
        BY <1>1, ServedOnNats
    <2>1. ~ZoneUnfit(n)
        <3> SUFFICES ASSUME HasSchedulers(n), dep.mode = "in_process", ~dep.zone PROVE FALSE
            BY DEF ZoneUnfit
        <3>1. PICK d \in Declares(n, "scheduler") : TRUE
            BY DEF HasSchedulers
        <3>2. NamedFor(n, d) \in Seqs(Schedulers) /\ NamedFor(n, d).ns = n
            BY <1>1, SchedulersDeclared DEF Wiring, NamedFor, Component
        <3>3. <<"timezone", n>> \in StartupFailures
            BY <3>2 DEF StartupFailures
        <3> QED BY <2>0, <3>3
    <2>2. ~QueueGroupUnfit(n)
        <3> SUFFICES ASSUME OnNats(n), ConsumesEvents(n), n = Root, "identity" \in Wrong(n) PROVE FALSE
            BY DEF QueueGroupUnfit
        <3>1. Feeding(n)
            BY <2>a DEF OnNats
        <3>2. <<"identity", n>> \in StartupFailures
            BY <3>1 DEF StartupFailures
        <3> QED BY <2>0, <3>2
    <2>3. ~UrlMissing(n)
        <3> SUFFICES ASSUME OnNats(n), ~dep.url PROVE FALSE
            BY DEF UrlMissing
        <3>1. n \in Clients /\ dep.bus = "nats"
            BY <2>a DEF OnNats
        <3>2. <<"url", n>> \in StartupFailures
            BY <3>1 DEF StartupFailures
        <3> QED BY <2>0, <3>2
    <2>4. ~((ValuesUnfit(n) \/ HeartbeatUnfit(n)) /\ OnNats(n) /\ ConsumesEvents(n))
        <3> SUFFICES ASSUME "delivery" \in Wrong(n) \/ "heartbeat" \in Wrong(n), OnNats(n), ConsumesEvents(n) PROVE FALSE
            BY DEF ValuesUnfit, HeartbeatUnfit
        <3>1. n \in Clients /\ Feeding(n)
            BY <2>a DEF OnNats
        <3>2. <<"delivery", n>> \in StartupFailures \/ <<"heartbeat", n>> \in StartupFailures
            BY <3>1 DEF StartupFailures
        <3> QED BY <2>0, <3>2
    <2>5. ~DurableShared(n)
        <3> SUFFICES ASSUME OnNats(n), ConsumesEvents(n), dep.js, dep.image[n].durable, TopicsOf(n) > 1 PROVE FALSE
            BY DEF DurableShared
        <3>1. n \in Clients /\ Feeding(n)
            BY <2>a DEF OnNats
        <3>2. Cardinality(OfKind(registry, "handler", n)) > 1
            BY <1>1, TopicsCounted
        <3>3. <<"durable", n>> \in StartupFailures
            BY <3>1, <3>2 DEF StartupFailures
        <3> QED BY <2>0, <3>3
    <2> QED BY <2>1, <2>2, <2>3, <2>4, <2>5
<1> QED BY <1>2, <1>4, <1>5, <1>6

-----------------------------------------------------------------------------
(* ValidatorAgrees, of what is refused: what the check lets pass is refused  *)
(* only for a reason it does not look for.                                   *)

Passed == Valid /\ ~Notices
Excused == Unforeseeable \cup NotLookedFor

\* What the check says is of the deployment alone.
LEMMA UnfitStays ==
    ASSUME dep' = dep
    PROVE  \A n : /\ Unfit(n)' <=> Unfit(n)
                  /\ Noticed(n)' <=> Noticed(n)
                  /\ EntryUnfit(n)' <=> EntryUnfit(n)
                  /\ ValuesUnfit(n)' <=> ValuesUnfit(n)
<1> SUFFICES ASSUME NEW n
             PROVE  /\ (Unfit(n)' <=> Unfit(n)) /\ (Noticed(n)' <=> Noticed(n)) /\ (EntryUnfit(n)' <=> EntryUnfit(n))
                    /\ (ValuesUnfit(n)' <=> ValuesUnfit(n))
    OBVIOUS
<1>1. /\ HasHandlers(n)' <=> HasHandlers(n)
      /\ HasSchedulers(n)' <=> HasSchedulers(n)
      /\ DeclaresACache(n)' <=> DeclaresACache(n)
      /\ \A kind : Declares(n, kind)' = Declares(n, kind)
    BY DEF HasHandlers, HasSchedulers, DeclaresACache, Declares, BuilderOf
<1>2. ConsumesEvents(n)' <=> ConsumesEvents(n)
    BY <1>1 DEF ConsumesEvents
<1>3. OnNats(n)' <=> OnNats(n)
    BY <1>2 DEF OnNats, Wrong
<1>4. (ModeUnfit(n)' <=> ModeUnfit(n)) /\ (CrontabUnfit(n)' <=> CrontabUnfit(n)) /\ (NoTicks(n)' <=> NoTicks(n)) /\ (ZoneUnfit(n)' <=> ZoneUnfit(n))
    BY <1>1 DEF ModeUnfit, CrontabUnfit, NoTicks, ZoneUnfit
<1>5. DedupUnfit(n)' <=> DedupUnfit(n)
    BY <1>1, <1>2 DEF DedupUnfit, DedupOf, PolicyUnfit
<1>6. /\ (UrlMissing(n)' <=> UrlMissing(n)) /\ (QueueGroupUnfit(n)' <=> QueueGroupUnfit(n))
      /\ (ValuesUnfit(n)' <=> ValuesUnfit(n)) /\ (HeartbeatUnfit(n)' <=> HeartbeatUnfit(n))
    BY <1>2, <1>3 DEF UrlMissing, QueueGroupUnfit, ValuesUnfit, HeartbeatUnfit, Wrong
<1>7. DurableShared(n)' <=> DurableShared(n)
    <2>1. TopicsOf(n)' = TopicsOf(n)
        BY <1>1 DEF TopicsOf
    <2> QED BY <1>2, <1>3, <2>1 DEF DurableShared
<1>8. EntryUnfit(n)' <=> EntryUnfit(n)
    BY DEF EntryUnfit, ModuleUnfit, Misplaced, OwnSettingsUnfit
<1> QED BY <1>4, <1>5, <1>6, <1>7, <1>8 DEF Unfit, Noticed

LEMMA ReadStays == dep' = dep => (Passed' <=> Passed) /\ Excused' = Excused
<1> SUFFICES ASSUME dep' = dep PROVE (Passed' <=> Passed) /\ Excused' = Excused
    OBVIOUS
<1>1. Candidates' = Candidates /\ Agents' = Agents /\ (MapUnfit' <=> MapUnfit)
    BY DEF Candidates, Agents, MapUnfit
<1>2. Issues' <=> Issues
    BY <1>1, UnfitStays DEF Issues
<1>3. Notices' <=> Notices
    BY <1>1, UnfitStays DEF Notices
<1>4. NotLookedFor' = NotLookedFor
    BY DEF NotLookedFor, DeclaresACache, Declares, BuilderOf
<1> QED BY <1>2, <1>3, <1>4 DEF Passed, Valid, Excused

\* Of whom the process hosts, nothing was found unfit.
LEMMA OwnersPassed ==
    ASSUME Hosting, Passed, NEW n \in Owners
    PROVE  ~Unfit(n) /\ ~Noticed(n)
<1>1. CASE dep.standalone
    BY <1>1 DEF Owners, Passed, Valid, Issues, Notices
<1>2. CASE ~dep.standalone
    <2>1. n \in Agents
        BY <1>2, OwnersFit DEF Agents
    <2> QED BY <1>2, <2>1 DEF Passed, Valid, Issues, Notices
<1> QED BY <1>1, <1>2

LEMMA GroupExplained ==
    ASSUME Hosting, Passed, ResolveGroup, NEW reason, Refuses(reason)
    PROVE  reason \in Excused
<1>1. reason = why' /\ stage = "group" /\ ~dep.standalone
    BY DEF Refuses, ResolveGroup, Hosting
<1>2. why' = "group" /\ GroupRefused(dep)
    BY DEF Refuses, ResolveGroup, Enters
<1>3. (\A d \in Candidates : ~GroupRefused(d)) /\ Candidates # {}
    BY <1>1 DEF Passed, Valid, Issues, Notices
<1>4. CASE ~NoGroupNamed(dep)
    BY <1>2, <1>3, <1>4 DEF Candidates
<1>5. CASE NoGroupNamed(dep) /\ ~Several(dep)
    BY <1>2, <1>3, <1>5 DEF Candidates
<1>6. CASE NoGroupNamed(dep) /\ Several(dep)
    BY <1>1, <1>2, <1>6 DEF Excused, NotLookedFor
<1> QED BY <1>4, <1>5, <1>6

LEMMA LoadExplained ==
    ASSUME Hosting, Passed, LoadAgent, NEW reason, Refuses(reason)
    PROVE  reason \in Excused
<1> DEFINE n == specs[next]
<1>1. /\ reason = why' /\ ~dep.standalone /\ next <= Len(specs)
      /\ ~(dep.image[n].module = "found" /\ ~Misplaced(n)) /\ why' = IF dep.image[n].module = "raises" THEN "import" ELSE "agent"
    BY DEF Refuses, LoadAgent, Hosting
<1>2. n \in AgentSet
    BY <1>1, Members DEF Hosting
<1>3. n \in Agents /\ dep.image[n] \in ImageEntry
    BY <1>2, DepFit DEF AgentSet, Agents, Hosting, ImageFit
<1>4. ~EntryUnfit(n)
    BY <1>1, <1>3 DEF Passed, Valid, Issues
<1>5. dep.image[n].module = "raises"
    BY <1>1, <1>3, <1>4 DEF EntryUnfit, ModuleUnfit, ImageEntry
<1> QED BY <1>1, <1>5 DEF Excused, Unforeseeable

LEMMA HostExplained ==
    ASSUME Hosting, Passed, HostAgents, NEW reason, Refuses(reason)
    PROVE  reason \in Excused
<1>1. reason = why' /\ ~dep.standalone
    BY DEF Refuses, HostAgents, Hosting
<1>2. CASE why' = "declaration"
    BY <1>1, <1>2 DEF Excused, Unforeseeable
<1>3. ASSUME NEW n \in Seqs(hosted), SettingsUnfit(n) PROVE FALSE
    <2>1. n \in Agents /\ dep.image[n] \in ImageEntry
        BY OwnersFit, BuilderFit DEF Agents, Hosting
    <2>2. ~EntryUnfit(n)
        BY <1>1, <2>1 DEF Passed, Valid, Issues
    <2> QED BY <1>3, <2>1, <2>2 DEF EntryUnfit, OwnSettingsUnfit, SettingsUnfit, ImageEntry
<1> QED BY <1>2, <1>3 DEF HostAgents, Refuses, Enters

LEMMA WireExplained ==
    ASSUME Assembling, Passed, WireScheduler, NEW reason, Refuses(reason)
    PROVE  reason \in Excused
<1> DEFINE s == Schedulers[next]
<1>0. reason = why'
    BY DEF Refuses
<1>1. stage = "schedulers" /\ next <= Len(Schedulers)
    BY DEF WireScheduler
<1>2. s \in Seqs(Schedulers)
    BY <1>1, SchedulersFit DEF Assembling, Hosting, Registering, Seqs
<1> HIDE DEF s
<1>3. PICK d \in Declares(s.ns, "scheduler") : s = NamedFor(s.ns, d) /\ CrontabOf(s) = d.crontab
    BY <1>1, <1>2, SchedulersDeclared
<1>4. s.ns \in Owners /\ HasSchedulers(s.ns)
    BY <1>1, <1>2, <1>3, SchedulersDeclared DEF HasSchedulers
<1>5. ~Unfit(s.ns) /\ ~Noticed(s.ns)
    BY <1>4, OwnersPassed DEF Assembling
<1>6. dep.mode \in {"event", "in_process"} /\ ~CrontabRefused(CrontabOf(s), dep.mode) /\ (dep.mode = "event" => dep.bus \in TopicTransports)
    BY <1>3, <1>4, <1>5 DEF Unfit, Noticed, ModeUnfit, CrontabUnfit, NoTicks
<1>7. CASE why' = "name"
    BY <1>0, <1>7 DEF Excused, Unforeseeable
<1>8. CASE dep.mode = "event" /\ Unidentified(s) /\ why' = "identity"
    <2>1. CASE dep.bus # "nats"
        BY <1>0, <1>8, <2>1 DEF Excused, NotLookedFor
    <2>2. CASE dep.bus = "nats"
        <3>1. ConsumesEvents(s.ns) /\ OnNats(s.ns) /\ s.ns = Root /\ "identity" \in Wrong(s.ns)
            BY <1>4, <1>8, <2>2 DEF ConsumesEvents, OnNats, Unidentified, Wrong
        <3> QED BY <1>5, <3>1 DEF Unfit, QueueGroupUnfit
    <2> QED BY <2>1, <2>2
<1>9. why' = "name" \/ (why' = "identity" /\ dep.mode = "event" /\ Unidentified(s))
    <2>1. ~(dep.mode \notin {"event", "in_process"} \/ CrontabRefused(CrontabOf(s), dep.mode) \/ (dep.mode = "event" /\ dep.bus \notin TopicTransports))
        BY <1>6
    <2> QED BY <2>1 DEF WireScheduler, Refuses, s
<1> QED BY <1>7, <1>8, <1>9

\* The failures of the start, each of a component of who was read to have it.
LEMMA StartupExplained ==
    ASSUME Building, Passed, Startup, NEW reason, Refuses(reason)
    PROVE  reason \in Excused
<1>0. reason = why' /\ stage = "built"
    BY DEF Refuses, Startup
<1>1. Assembling /\ Wiring /\ Assembled /\ Replaying /\ Caching /\ Hosting
    BY <1>0 DEF Building, Assembling, Wiring, Assembled
<1>2. PICK f \in StartupFailures : why' = f[1]
    <2>1. stage' # "serving"
        BY DEF Refuses
    <2> QED BY <2>1 DEF Startup, Refuses, Enters
<1>a. \A n \in Owners : ~Unfit(n) /\ ~Noticed(n)
    BY <1>1, OwnersPassed
<1>b. \A n : Consuming(n) => n \in Owners /\ ConsumesEvents(n)
    BY <1>1, ConsumesAsRead
<1>c. \A n : Feeding(n) => Consuming(n) /\ dep.bus = "nats"
    BY <1>1 DEF Building, Fed, Feeding
<1>d. \A n : Feeding(n) => n \in Owners /\ ConsumesEvents(n) /\ OnNats(n) /\ ~Unfit(n)
    BY <1>a, <1>b, <1>c DEF OnNats
<1>3. CASE why' \in {"redis", "login", "tuning", "root_dedup"}
    BY <1>0, <1>3 DEF Excused, Unforeseeable, NotLookedFor
<1>4. CASE \E c \in Seqs(Schedulers) : dep.mode = "in_process" /\ ~dep.zone
    <2>1. PICK c \in Seqs(Schedulers) : dep.mode = "in_process" /\ ~dep.zone
        BY <1>4
    <2>2. c.ns \in Owners /\ HasSchedulers(c.ns)
        BY <1>1, <2>1, SchedulersDeclared DEF Wiring, HasSchedulers
    <2> QED BY <1>a, <2>1, <2>2 DEF Unfit, ZoneUnfit
<1>5. CASE why' = "url" /\ \E n \in Clients : dep.bus = "nats" /\ ~dep.url
    <2>1. PICK n \in Clients : dep.bus = "nats" /\ ~dep.url
        BY <1>5
    <2>2. n \in Owners \cup {Root} /\ (Consuming(n) \/ n \in dep.publishing)
        BY <1>1 DEF Clients, Building, Assembling, Registering, Wired, Wanting
    <2>3. CASE n \in Owners
        <3>1. OnNats(n)
            BY <1>b, <2>1, <2>2 DEF OnNats
        <3> QED BY <1>a, <2>1, <2>3, <3>1 DEF Noticed, UrlMissing
    <2>4. CASE n \notin Owners
        <3>1. n = Root /\ Root \in dep.publishing /\ ~dep.standalone
            BY <1>b, <2>2, <2>4 DEF Owners
        <3> QED BY <1>0, <1>5, <3>1 DEF Excused, NotLookedFor
    <2> QED BY <2>3, <2>4
<1>6. CASE Feeding(Root) /\ "identity" \in Wrong(Root)
    BY <1>d, <1>6 DEF Unfit, QueueGroupUnfit
<1>7. CASE \E n \in Clients : Feeding(n) /\ "delivery" \in Wrong(n)
    BY <1>d, <1>7 DEF Unfit, ValuesUnfit
<1>11. CASE \E n \in Clients : Feeding(n) /\ "heartbeat" \in Wrong(n)
    BY <1>d, <1>11 DEF Unfit, HeartbeatUnfit
<1>12. CASE ~dep.debug
    BY <1>12 DEF Passed, Valid, Issues
<1>8. CASE \E n \in Clients : Feeding(n) /\ dep.js /\ dep.image[n].durable /\ Cardinality(OfKind(registry, "handler", n)) > 1
    <2>1. PICK n \in Clients : Feeding(n) /\ dep.js /\ dep.image[n].durable /\ Cardinality(OfKind(registry, "handler", n)) > 1
        BY <1>8
    <2>2. TopicsOf(n) > 1
        BY <1>1, <1>d, <2>1, TopicsCounted
    <2> QED BY <1>d, <2>1, <2>2 DEF Unfit, DurableShared
<1>9. CASE why' = "dedup" /\ \E n \in Undeduplicated : n # Root \/ dep.standalone
    <2>1. PICK n \in Undeduplicated : n # Root \/ dep.standalone
        BY <1>9
    <2>2. HasHandler /\ n \in Chains /\ PolicyUnfit(DedupOf(n), HasCache(n))
        BY <2>1 DEF Undeduplicated
    <2>3. Consuming(n)
        <3>1. CASE n # Root
            BY <2>2, <3>1 DEF Chains, Consuming, OfKind
        <3>2. CASE n = Root /\ dep.standalone
            <4>1. PICK c \in Registered(registry) : c.kind = "handler"
                BY <2>2 DEF HasHandler
            <4>2. Consuming(c.ns)
                BY <4>1 DEF Consuming, OfKind
            <4>3. c.ns = Root
                BY <1>b, <3>2, <4>2 DEF Owners
            <4> QED BY <3>2, <4>2, <4>3
        <3> QED BY <2>1, <3>1, <3>2
    <2>4. n \in Owners /\ ~PolicyUnfit(DedupOf(n), DeclaresACache(n))
        BY <1>a, <1>b, <2>3 DEF Unfit, DedupUnfit
    <2>5. DeclaresACache(n) /\ ~HasCache(n)
        BY <2>2, <2>4 DEF PolicyUnfit
    <2>6. \A d \in Declares(n, "cache") : d.name # Default
        BY <1>1, <2>4, <2>5, OwnCache
    <2>7. n \in DOMAIN dep.image
        BY <1>1, <2>4, OwnersFit
    <2>8. "dedup" \in NotLookedFor
        BY <2>5, <2>6, <2>7 DEF NotLookedFor
    <2> QED BY <1>0, <1>9, <2>8 DEF Excused
<1>10. \/ why' \in {"redis", "login", "tuning", "root_dedup"}
       \/ \E c \in Seqs(Schedulers) : dep.mode = "in_process" /\ ~dep.zone
       \/ why' = "url" /\ \E n \in Clients : dep.bus = "nats" /\ ~dep.url
       \/ Feeding(Root) /\ "identity" \in Wrong(Root)
       \/ \E n \in Clients : Feeding(n) /\ "delivery" \in Wrong(n)
       \/ \E n \in Clients : Feeding(n) /\ "heartbeat" \in Wrong(n)
       \/ ~dep.debug
       \/ \E n \in Clients : Feeding(n) /\ dep.js /\ dep.image[n].durable /\ Cardinality(OfKind(registry, "handler", n)) > 1
       \/ why' = "dedup" /\ \E n \in Undeduplicated : n # Root \/ dep.standalone
    BY <1>2 DEF StartupFailures
<1> QED BY <1>3, <1>4, <1>5, <1>6, <1>7, <1>8, <1>9, <1>10, <1>11, <1>12

-----------------------------------------------------------------------------
\* Whatever refuses a deployment that passed is a reason the check does not look for.
Explained == stage = "refused" /\ Passed => why \in Excused

LEMMA ExplainedStep == Building /\ Explained /\ [Next]_vars => Explained'
<1> SUFFICES ASSUME Building, Explained, [Next]_vars PROVE Explained'
    OBVIOUS
<1>0. Assembling /\ Hosting
    BY DEF Building, Assembling
<1>1. CASE UNCHANGED vars
    <2>1. UNCHANGED <<dep, stage, why>>
        BY <1>1 DEF vars
    <2> QED BY <2>1, ReadStays DEF Explained
<1>2. CASE \E reason : Next /\ Refuses(reason)
    <2>1. PICK reason : Next /\ Refuses(reason)
        BY <1>2
    <2>2. dep' = dep /\ why' = reason
        BY <2>1 DEF Refuses
    <2>3. Passed => reason \in Excused
        <3>1. CASE Construct \/ CreateCache \/ WireTransport \/ Mount \/ HostRoot
            <4>1. why' \in {"name", "cache", "publishing", "check", "route", "declaration"} \/ stage' # "refused"
                BY <3>1 DEF Construct, CreateCache, WireTransport, Mount, HostRoot, Refuses, Enters
            <4>2. stage' = "refused"
                BY <2>1 DEF Refuses
            <4> QED BY <2>2, <4>1, <4>2 DEF Excused, Unforeseeable, NotLookedFor
        <3>2. CASE ReplayAgent \/ AllReplayed \/ RestoreOrder \/ CachesDone \/ SchedulersDone
            BY <2>1, <3>2 DEF Refuses, ReplayAgent, AllReplayed, RestoreOrder, CachesDone, SchedulersDone, Enters
        <3> QED BY <1>0, <2>1, <3>1, <3>2, GroupExplained, LoadExplained, HostExplained, WireExplained, StartupExplained DEF Next
    <2> QED BY <2>2, <2>3, ReadStays DEF Explained
<1>3. CASE Next /\ ~(\E reason : Refuses(reason))
    <2>1. stage' # "refused"
        <3>1. CASE ResolveGroup \/ LoadAgent \/ HostAgents \/ ReplayAgent \/ AllReplayed \/ HostRoot \/ Construct \/ RestoreOrder
            BY <1>3, <3>1 DEF ResolveGroup, LoadAgent, HostAgents, ReplayAgent, AllReplayed, HostRoot, Construct, RestoreOrder, Enters
        <3>2. CASE CreateCache \/ CachesDone \/ WireScheduler \/ SchedulersDone \/ WireTransport \/ Mount \/ Startup
            BY <1>3, <3>2 DEF CreateCache, CachesDone, WireScheduler, SchedulersDone, WireTransport, Mount, Startup, Enters
        <3> QED BY <1>3, <3>1, <3>2 DEF Next
    <2> QED BY <2>1 DEF Explained
<1> QED BY <1>1, <1>2, <1>3

\* What `asbs validate` lets pass is refused only for reasons it does not look for, and
\* what it reports of an agent the process counts on would have stopped the start, for
\* any image, group, settings and declarations.
THEOREM ValidatorIsRight == Spec => []ValidatorAgrees
<1> DEFINE Inv == StartInv /\ Fed /\ Loaded /\ Originated /\ Timing /\ Wired /\ Sound /\ Explained
<1>1. Init => Inv
    <2>1. Init => stage # "refused"
        BY DEF Init
    <2> QED BY <2>1, HostingInit, ReplayingInit, RegisteringInit, CachingInit, FedInit, LoadedInit, OriginatedInit, TimingInit, WiredInit, SoundInit
            DEF StartInv, Explained
<1>2. Inv /\ [Next]_vars => Inv'
    <2> SUFFICES ASSUME Inv, [Next]_vars PROVE Inv'
        OBVIOUS
    <2>1. Hosting /\ Replaying /\ Registering /\ Caching
        BY DEF StartInv
    <2>2. StartInv'
        BY <2>1, HostingStep, ReplayingStep, RegisteringStep, CachingStep DEF StartInv
    <2>3. Fed' /\ Loaded' /\ Originated' /\ Timing' /\ Wired' /\ Sound'
        BY <2>1, <2>2, FedStep, LoadedStep, OriginatedStep, TimingStep, WiredStep, SoundStep
    <2>4. Explained'
        BY <2>1, ExplainedStep DEF Building, Assembling
    <2> QED BY <2>2, <2>3, <2>4
<1>3. Inv => ValidatorAgrees
    <2> SUFFICES ASSUME Inv PROVE ValidatorAgrees
        OBVIOUS
    <2>1. Building /\ Sound
        BY DEF Building, Assembling, StartInv
    <2>2. stage = "refused" /\ Valid /\ ~Notices => why \in Unforeseeable \cup NotLookedFor
        BY DEF Explained, Passed, Excused
    <2>3. (IF dep.standalone THEN {Root} ELSE Seqs(hosted)) = Owners
        BY DEF Owners
    <2>4. stage = "serving" => dep.debug
        <3> SUFFICES ASSUME stage = "serving", ~dep.debug PROVE FALSE
            OBVIOUS
        <3>1. <<"debug", Root>> \in StartupFailures
            BY DEF StartupFailures
        <3> QED BY <2>1, <3>1 DEF Sound, Fatal
    <2> QED BY <2>1, <2>2, <2>3, <2>4, ServesWhatIsFit DEF ValidatorAgrees
<1> QED BY <1>1, <1>2, <1>3, PTL DEF Spec
=============================================================================
