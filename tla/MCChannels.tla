----------------------------- MODULE MCChannels -----------------------------
(* What replicas of two agents and of a standalone service run with, for    *)
(* Channels: on one topic, on topics whose durables have one name, with and *)
(* without JetStream, and configurations that are refused.                  *)
EXTENDS Sequences

LOCAL Created == <<<<"created">>>>
LOCAL Dotted == <<<<"orders">>, <<"created">>>>
LOCAL Dashed == <<<<"orders", "-", "created">>>>
LOCAL Any == <<<<">">>>>

LOCAL Config(ns, process, topics) ==
    [ns |-> ns, process |-> process, topics |-> topics, jobs |-> {}, js |-> TRUE, durable |-> <<>>, dead |-> <<>>,
     url |-> "set", methods |-> {}, claimed |-> {}, hybrid |-> FALSE, wrong |-> {}]

LOCAL g == <<"g">>
LOCAL h == <<"h">>
LOCAL orders == <<"orders">>
LOCAL eu == <<"eu">>

LOCAL Orders(process) == [Config(orders, process, {Created}) EXCEPT !.jobs = {<<"nightly">>}]
LOCAL Core(config) == [config EXCEPT !.js = FALSE]
LOCAL Wrong(config, key) == [config EXCEPT !.wrong = {key}]

(* The agent orders in two processes, eu beside it, and a service alone.    *)
MCRuns ==
    [r1 |-> {Orders(g), Core(Orders(g)), Wrong(Orders(g), "publishing"), Wrong(Orders(g), "tuning")},
     r2 |-> {Orders(h), Core(Orders(h)), [Orders(h) EXCEPT !.claimed = {Created}, !.hybrid = TRUE]},
     r3 |-> {Config(eu, g, {Created}), [Core(Config(eu, g, {Created})) EXCEPT !.jobs = {<<"nightly">>}],
             [Config(eu, g, {Created}) EXCEPT !.methods = {"token", "user"}],
             [Config(eu, g, {Created, Dotted}) EXCEPT !.claimed = {Dotted}],
             Config(eu, g, {Any}), Config(eu, g, {Dotted, <<<<"orders", "_", "created">>>>})},
     r4 |-> {Config(<<>>, <<"shop">>, {Dashed}), Core(Config(<<>>, g, {Created})),
             Config(<<>>, <<"my", " ", "shop">>, {Created}), Wrong(Core(Config(<<>>, g, {Dashed})), "delivery"), [Config(<<>>, g, {Dashed}) EXCEPT !.url = "unset"],
             [Config(<<>>, <<"shop">>, {Dashed, Created}) EXCEPT !.durable = <<"mine">>]}]

\* Nothing, or the consumer the agent orders had when it ran alone, under another name.
MCStanding ==
    {<<>>, [n \in {orders \o <<"-", "created">> \o <<"-", "durable">>} |-> [filter |-> Created, group |-> <<"old">>]]}
=============================================================================
