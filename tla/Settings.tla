------------------------------ MODULE Settings ------------------------------
(***************************************************************************)
(* The one settings tree of a process that hosts several agents: the files *)
(* an agent brings are merged under its name, and what it then reads is    *)
(* its own value or the process's, through a view (config/config.py).      *)
(*                                                                         *)
(* The tree is a function from paths -- sequences of keys -- to where the  *)
(* value came from; a value is whoever set it.  The settings library       *)
(* (Dynaconf), which loads the process's own files, is external.           *)
(***************************************************************************)
EXTENDS Naturals, FiniteSets, Sequences

CONSTANTS
    Agents,       \* in the order the group hosts them
    Group,        \* the paths the process's own files set
    Secrets,      \* the files of each agent: sections, each a set of paths
    Fragments,
    Environment,  \* the environment section the process loaded
    Environments, \* the names of environments (environment_section_names)
    ProcessKeys,  \* AGENT_REFUSED_KEYS
    IdentityKeys, \* DEPLOYMENT_IDENTITY_KEYS
    SharedTables, \* SHARED_NESTED_PREFIXES
    Asked,        \* the keys agents read
    Built,        \* a runtime and a key each, that agents build runtimes from
    Validated     \* those of the keys `asbs validate` reads: a value each

VARIABLES tree, files

vars == <<tree, files>>

Names == {Agents[i] : i \in DOMAIN Agents}
Paths == DOMAIN tree

\* What a key stands for: itself, and what is in the table there.
Under(key, p) == Len(key) <= Len(p) /\ SubSeq(p, 1, Len(key)) = key

-----------------------------------------------------------------------------
(* layer_settings_document.                                                *)

\* The sections that count, each over the ones before it; "top" is outside any.
Active == <<"top", "default", Environment, "global">>

\* A section that is not active and not an environment is a table of that name.
IsTable(s) == s \notin ({Active[i] : i \in DOMAIN Active} \cup Environments)

\* A key is taken, with all that is under it, from the last section that sets it.
Sets(doc, s, k) == s \in DOMAIN doc /\ \E p \in doc[s] : p[1] = k
From(doc, i, k) == Sets(doc, Active[i], k) /\ \A j \in DOMAIN Active : j > i => ~Sets(doc, Active[j], k)
FromNone(doc, k) == \A i \in DOMAIN Active : ~Sets(doc, Active[i], k)

InSections(doc) == UNION {{p \in doc[Active[i]] : From(doc, i, p[1])} : i \in {j \in DOMAIN Active : Active[j] \in DOMAIN doc}}
InTables(doc) == UNION {{<<s>> \o p : p \in doc[s]} : s \in {t \in DOMAIN doc : IsTable(t) /\ FromNone(doc, t)}}
Layered(doc) == InSections(doc) \cup InTables(doc)

\* _drop_process_scope_keys
Kept(paths) == {p \in paths : p[1] \notin ProcessKeys}

-----------------------------------------------------------------------------
(* What the files are.                                                     *)

\* What is a value holds nothing else.
WellFormed(paths) == paths \subseteq Seq(STRING) \ {<<>>} /\ \A p, q \in paths : Under(p, q) => p = q
File(doc) == DOMAIN doc \subseteq STRING /\ \A s \in DOMAIN doc : WellFormed(doc[s])

\* Whatever is set there, a view does not give what describes the deployment, and
\* says of the environment which one the process loaded (Config.get).
Withheld(key) == key \in {<<k>> : k \in IdentityKeys}
EnvironmentKey == <<"app_environment">>

\* Wherever the key is set, it is a value.
OneValue(key, paths) == \A p \in paths : Under(p, key) \/ Under(key, p) => p = key

Parameters ==
    /\ Agents \in Seq(STRING) /\ Names \cap SharedTables = {}  \* RESERVED_NAMESPACES
    /\ WellFormed(Group) /\ \A a \in Names : File(Secrets[a]) /\ File(Fragments[a])
    /\ Asked \cup Validated \subseteq Seq(STRING) \ {<<>>}
    /\ Built \subseteq STRING \X STRING /\ {"runtimes", "runtime"} \subseteq STRING
    /\ \A key \in Validated :
        /\ ~Withheld(key) /\ key # EnvironmentKey /\ (Len(key) = 1 \/ key[1] \in SharedTables)
        /\ OneValue(key, Group)
        /\ \A a \in Names : /\ OneValue(<<a>> \o key, Group \ {<<a>>})
                           /\ OneValue(key, Layered(Secrets[a]) \cup Layered(Fragments[a]))

-----------------------------------------------------------------------------
\* Whose a path of the process's own files is: a section with an agent's name is that agent's.
OwnerOf(p) == IF Len(p) > 1 /\ p[1] \in Names THEN p[1] ELSE "process"

Init ==
    /\ tree = [p \in Group |-> <<OwnerOf(p), "process">>]
    /\ files = [a \in Names |-> <<"secrets", "fragment">>]

Document(a, f) == IF f = "secrets" THEN Secrets[a] ELSE Fragments[a]

\* _refuse_self_scoped_fragment, and a key of the process with the agent's name.
MergeRefused(a, paths) == (\E p \in paths : p[1] = a) \/ (<<a>> \in Paths /\ Kept(paths) # {})

\* Set already, or under something that is, or above it (_fill_missing).
Clashes(p) == \E q \in Paths : Under(q, p) \/ Under(p, q)

(* merge_agent_settings: the group merges each agent's secrets and then its   *)
(* settings, in its order; what is set already stays.  A refusal ends it.     *)
Merges(a) ==
    /\ files[a] # <<>>
    /\ \A i, j \in DOMAIN Agents : Agents[j] = a /\ i < j => files[Agents[i]] = <<>>
    /\ LET f == Head(files[a])
           paths == Layered(Document(a, f))
           added == {p \in {<<a>> \o k : k \in Kept(paths)} : ~Clashes(p)}
       IN  /\ ~MergeRefused(a, paths)
           /\ tree' = [p \in Paths \cup added |-> IF p \in Paths THEN tree[p] ELSE <<a, f>>]
    /\ files' = [files EXCEPT ![a] = Tail(@)]

Next == \E a \in Names : Merges(a)
Spec == Init /\ [][Next]_vars

Settled == \A a \in Names : files[a] = <<>>

-----------------------------------------------------------------------------
(* What a view reads: where the values at a key and under it come from.       *)

At(key) == {tree[p] : p \in {q \in Paths : Under(key, q)}}

\* Mutant: the first segment of a dotted key is not looked at.
ForeignWhenFlat(key) == Len(key) = 1 /\ key[1] \in Names /\ At(key) # {} /\ key \notin Paths

\* _refuse_a_foreign_section
Foreign(key) ==
    IF Len(key) = 1 THEN key[1] \in Names /\ At(key) # {} /\ key \notin Paths
    ELSE key[1] \notin SharedTables

\* _scoped_get: its own scope first, then the process's, unless that is a neighbour's.
InScope(a, key) == At(<<a>> \o key) # {}
Scoped(a, key) == IF InScope(a, key) THEN At(<<a>> \o key) ELSE IF Foreign(key) THEN {} ELSE At(key)

\* get
Read(a, key) ==
    IF Withheld(key) THEN {}
    ELSE IF key = EnvironmentKey THEN {<<"process", "environment">>}
    ELSE Scoped(a, key)

\* What a table of a runtime says of a key: a table in the agent's scope hides the process's.
InTable(a, table, k) == IF InScope(a, table) THEN At(<<a>> \o table \o <<k>>) ELSE Scoped(a, table \o <<k>>)
ElseFlat(a, table, k) == IF InTable(a, table, k) # {} THEN InTable(a, table, k) ELSE Read(a, <<k>>)

\* get_ai_config: the model of a runtime.
ModelSetting(a, r, k) == ElseFlat(a, <<"runtimes", r>>, k)

\* get_runtime_config, get_prompt_config: its prompts, under the older name as well.
PromptSetting(a, r, k) ==
    ElseFlat(a, IF Scoped(a, <<"runtimes", r>>) # {} THEN <<"runtimes", r>> ELSE <<"runtime", r>>, k)

\* SettingsView.get, _lookup
Has(paths, key) == \E p \in paths : Under(key, p)

\* ProcessSettings.agent_view: before anything is merged, the first source that has the key.
View(a, key) ==
    IF Has(Group, <<a>> \o key) THEN {<<a, "process">>}
    ELSE IF Has(Kept(Layered(Secrets[a])), key) THEN {<<a, "secrets">>}
    ELSE IF Has(Kept(Layered(Fragments[a])), key) THEN {<<a, "fragment">>}
    ELSE {<<OwnerOf(p), "process">> : p \in {q \in Group : Under(key, q)}}

\* resolved_settings: the process's keys without the sections, under the agent's own.
Sections == {p[1] : p \in {q \in Paths : Len(q) > 1}} \ SharedTables
Resolved(a) ==
    LET own == {p \in Paths : Len(p) > 1 /\ p[1] = a}
        shared == {p \in Paths : p[1] \notin (Sections \cup Names) /\ <<a, p[1]>> \notin {SubSeq(q, 1, 2) : q \in own}}
    IN  {tree[p] : p \in own \cup shared}

\* Whatever the agents' files say, an agent reads its own values or the process's: never
\* a neighbour's, by any key and in the flattened settings; the process's own word for an
\* agent before the agent's files, its secrets before its settings; and what describes
\* the process never from an agent's file (merge_agent_settings, _scoped_get).  A
\* runtime's model and prompts come from one place, and what `asbs validate` judges is
\* what is read.
ReadsOwnOrShared ==
    Settled => \A a \in Names :
        /\ \A key \in Asked : \A o \in Read(a, key) :
              /\ o[1] \in {a, "process"}
              /\ key[1] \in ProcessKeys => o[2] \in {"process", "environment"}
              /\ (<<a>> \o key) \in Group /\ key # EnvironmentKey => o = <<a, "process">>
              /\ ~Has(Group, <<a>> \o key) /\ key \in Layered(Secrets[a]) => o[2] # "fragment"
        /\ \A key \in Validated : Read(a, key) = View(a, key)
        /\ \A b \in Built :
              LET model == ModelSetting(a, b[1], b[2])
                  prompt == PromptSetting(a, b[1], b[2])
              IN  /\ \A o \in model \cup prompt : o[1] \in {a, "process"}
                  /\ Scoped(a, <<"runtime", b[1]>>) = {} => model = prompt
        /\ \A o \in Resolved(a) : o[1] \in {a, "process"}
=============================================================================
