--------------------------- MODULE MCDeployments ---------------------------
(* The builders of a small image, and what is deployed of it, for Assembly. *)
EXTENDS Sequences, TLC

LOCAL Decl(kind, base, name) ==
    [kind |-> kind, base |-> base, name |-> name, instance |-> FALSE, stateful |-> FALSE,
     nested |-> <<>>, segment |-> <<"orders">>, crontab |-> "fit"]

LOCAL a == <<"a">>
LOCAL ab == <<"a", "b">>
LOCAL x == <<"x">>
LOCAL Handlers == <<Decl("handler", <<"one">>, <<"first">>), Decl("handler", <<"two">>, <<>>)>>
LOCAL Ledger == [Decl("service", <<"ledger">>, <<>>) EXCEPT !.nested = <<<<"helper">>>>]
LOCAL Job == Decl("scheduler", <<"nightly">>, <<>>)
LOCAL Runtime == Decl("agent", <<"runtime">>, <<>>)
LOCAL Probe(name) == Decl("health_checker", <<>>, name)
LOCAL Caches == <<Decl("cache", <<>>, <<"default">>), Decl("cache", <<>>, <<"s">>)>>

LOCAL Builder(declares) == [declares |-> declares, built |-> FALSE, configured |-> FALSE]

(* What the agents are built from; `forger` declares a name that ends in a   *)
(* neighbour's, `twice` one class without and with a name.                    *)
MCBuilders ==
    [full |-> Builder(Handlers \o <<Ledger, Job, Decl("rest_api", <<"orders">>, <<>>), Runtime, Probe(<<"db">>)>> \o Caches),
     lean |-> Builder(<<Ledger, Decl("handler", <<"two">>, <<>>), Caches[1], Probe(<<"cache">>), Probe(<<"db">>)>>),
     minds |-> Builder(<<Runtime, [Runtime EXCEPT !.name = <<"other">>], Handlers[2]>>),
     mind |-> Builder(<<[Runtime EXCEPT !.name = <<"b", "runtime">>], Handlers[2]>>),
     watchful |-> Builder(<<Probe(<<"db">>), Handlers[2], Probe(<<"db">>)>>),
     forger |-> Builder(<<Decl("service", <<"account">>, <<"b", "ledger">>)>>),
     twice |-> Builder(<<Decl("service", <<"ledger">>, <<>>), Decl("service", <<"ledger">>, <<"other">>)>>),
     stateful |-> Builder(<<[Ledger EXCEPT !.stateful = TRUE]>>),
     made |-> Builder(<<Handlers[1], [Handlers[2] EXCEPT !.instance = TRUE]>>),
     own |-> [Builder(<<Handlers[1], [Handlers[2] EXCEPT !.instance = TRUE]>>) EXCEPT !.configured = TRUE],
     greedy |-> Builder(<<[Decl("rest_api", <<"orders">>, <<>>) EXCEPT !.segment = <<"cache">>]>>),
     done |-> [Builder(<<>>) EXCEPT !.built = TRUE],
     ticker |-> Builder(<<Job, Caches[1]>>),
     weekly |-> Builder(<<[Job EXCEPT !.crontab = "numbered"], Handlers[2]>>),
     never |-> Builder(<<[Job EXCEPT !.crontab = "unfit"]>>),
     named |-> Builder(<<Handlers[2], Caches[2]>>)]

LOCAL Entry(builder, root) ==
    [builder |-> builder, root |-> root, module |-> "found", tidy |-> TRUE, settings |-> "fit",
     dedup |-> "unset", durable |-> FALSE, wrong |-> {}]
LOCAL Image(one, two) ==
    [n \in {a, ab, <<>>} |-> CASE n = a -> Entry(one, "r1") [] n = ab -> Entry(two, "r2") [] OTHER -> Entry(one, "r0")]

Plain ==
    [file |-> <<>>, group |-> <<>>, agents |-> <<a, ab>>, critical |-> {}, image |-> Image("full", "lean"),
     standalone |-> FALSE, bus |-> "nats", publishing |-> {}, mode |-> "event", cache |-> "disk",
     zone |-> TRUE, url |-> TRUE, js |-> TRUE, dedup |-> "unset", debug |-> TRUE]

LOCAL One == [name |-> <<"g">>, agents |-> <<a, ab>>, critical |-> {}]
LOCAL Two == [name |-> <<"h">>, agents |-> <<ab, x>>, critical |-> {ab}]

(* Groups that resolve and groups that do not. *)
LOCAL Groups ==
    {[Plain EXCEPT !.file = file, !.group = group, !.agents = agents, !.critical = critical, !.image = image] :
        file \in {<<>>, <<One>>, <<One, Two>>, <<One, One>>},
        group \in {<<>>, <<"h">>},
        agents \in {<<>>, <<a, x>>, <<a, a>>, <<a, <<"b", ".">>>>},
        critical \in {{}, {a}, {x}},
        image \in {Image("full", "lean"),
                   [Image("full", "lean") EXCEPT ![ab].root = "r1"],
                   [Image("full", "lean") EXCEPT ![a].module = "absent"],
                   [Image("full", "lean") EXCEPT ![ab].tidy = FALSE]}}

(* Two agents from every pair of builders that differs, on every transport. *)
LOCAL Pairs == {<<"full", "lean">>, <<"forger", "lean">>, <<"full", "twice">>, <<"full", "full">>,
                <<"stateful", "stateful">>, <<"stateful", "lean">>, <<"made", "lean">>, <<"own", "lean">>, <<"greedy", "lean">>,
                <<"done", "lean">>, <<"minds", "full">>, <<"mind", "full">>, <<"watchful", "lean">>}
LOCAL Transports ==
    {[Plain EXCEPT !.image = Image(p[1], p[2]), !.standalone = alone, !.bus = bus, !.publishing = pub, !.mode = mode] :
        p \in Pairs, alone \in BOOLEAN, bus \in {"nats", "dapr", "sessions", "none"}, pub \in {{}, {ab}},
        mode \in {"event", "in_process", "unset"}}

(* Every backend of the caches. *)
LOCAL Backed ==
    {[Plain EXCEPT !.image = image, !.standalone = alone, !.critical = critical, !.cache = cache] :
        image \in {Image("full", "lean"), Image("lean", "lean")}, alone \in BOOLEAN, critical \in {{}, {ab}}, cache \in {"redis", "redis_not_installed", "redis_down"}}

(* What the files of an agent or of the process may have wrong. *)
LOCAL Modes == {"event", "in_process", "unset", "other"}
LOCAL Faulty ==
    LET Of(builder, root) == {[Entry(builder, root) EXCEPT !.dedup = dedup] : dedup \in {"unset", "on", "no_ttl"}}
        entries == UNION {Of(b, "r1") : b \in {"full", "lean", "ticker", "weekly", "never", "named"}}
            \cup {[Entry("full", "r1") EXCEPT !.durable = TRUE], [Entry("lean", "r1") EXCEPT !.durable = TRUE],
                  [Entry("weekly", "r1") EXCEPT !.durable = TRUE], [Entry("full", "r1") EXCEPT !.module = "raises"]}
            \cup {[Entry("lean", "r1") EXCEPT !.wrong = {w}] : w \in {"login", "delivery", "tuning", "identity", "publishing", "heartbeat"}}
            \cup {[Entry("forger", "r1") EXCEPT !.wrong = {w}] : w \in {"publishing", "heartbeat"}}
            \cup {[Entry("ticker", "r1") EXCEPT !.wrong = {"identity"}]}
            \cup {[Entry("lean", "r1") EXCEPT !.settings = unfit] : unfit \in {"self_scoped", "taken", "unreadable"}}
    IN  {[Plain EXCEPT !.image = (a :> e @@ ab :> Entry("lean", "r2") @@ <<>> :> [e EXCEPT !.root = "r0"]),
                       !.critical = critical, !.standalone = alone, !.bus = bus, !.mode = mode] :
            e \in entries, critical \in {{}, {ab}}, alone \in BOOLEAN, bus \in {"nats", "dapr"}, mode \in Modes}
LOCAL Process ==
    {[Plain EXCEPT !.dedup = dedup, !.url = url, !.js = js, !.zone = zone, !.mode = mode, !.standalone = alone] :
        dedup \in {"unset", "off", "on", "no_ttl"}, url \in BOOLEAN, js \in BOOLEAN, zone \in BOOLEAN,
        mode \in {"event", "in_process"}, alone \in BOOLEAN}
    \cup {[Plain EXCEPT !.debug = FALSE, !.standalone = alone] : alone \in BOOLEAN}

(* The process publishes, whether its agents do or not.                     *)
LOCAL Publishing ==
    {[Plain EXCEPT !.image = Image("forger", "forger"), !.publishing = pub, !.url = url, !.bus = bus] :
        pub \in {{<<>>}, {<<>>, a, ab}}, url \in BOOLEAN, bus \in {"nats", "dapr", "sessions"}}

MCReserved == {<<"cache">>}

MCDeployments == Faulty \cup Process \cup Groups \cup Transports \cup Backed \cup Publishing

\* A deployment that starts when its Redis answers, or none is asked for.
Outage == {[Plain EXCEPT !.cache = "redis_down", !.critical = {ab}]}
=============================================================================
