------------------------------ MODULE MCProcess ------------------------------
(* The parts of a process, each on a small instance of its own.             *)
EXTENDS Process, MCDeployments, MCChannels

CONSTANTS c1, c2, k1, never, noKey  \* model values

(* Two namespaces; b has a client, a handler and an eventing component.     *)
MCOrder == <<"root_client", "b_client", "b_handler", "b_eventing">>
MCNameOf == [i \in {MCOrder[j] : j \in 1..4} |-> IF i = "root_client" THEN "root" ELSE "b"]
MCKindOf == [i \in DOMAIN MCNameOf |->
                CASE i = "b_handler" -> 2 [] i = "b_eventing" -> 3 [] OTHER -> 1]

(* Two agents, one of which deduplicates and publishes; two deliveries, on a *)
(* topic of both, of one, or of nobody.                                     *)
LOCAL OfAgent(ns, topics) == [ns |-> ns, topics |-> topics]
MCOffered == <<OfAgent("a", {"t"}), OfAgent("b", {"t", "v"}), OfAgent("a", {})>>
MCDeliveries == 1..2

(* Two replicas, a and x, that share the durable da, and a client with      *)
(* another; a pattern an operator adds is wider than two of the topics.     *)
MCWanted == [a |-> {"a"}, b |-> {"b", "c"}, x |-> {"x", "c"}]
MCTopic == [a |-> "a", b |-> "b", x |-> "x"]
MCDurable == [a |-> "da", b |-> "db", x |-> "da"]
MCWider == {<<"all", "a">>, <<"all", "b">>}

(* Agent a has a handler for everything, declared first and tried last, and  *)
(* one for orders; b answers orders with a result that is published and one  *)
(* that is not.  Only a deduplicates.                                        *)
LOCAL Handler(priority, types, selects, gives) ==
    [priority |-> priority, types |-> types, selects |-> selects, gives |-> gives]
MCHandlers ==
    [a |-> <<Handler(100, {}, {"order", "other"}, {<<"pass">>}),
             Handler(10, {"order"}, {"order"}, {<<"x", "x">>, <<"skip">>, <<"pass">>})>>,
     b |-> <<Handler(100, {}, {"order"}, {<<"x", "loop">>})>>]
MCTypes ==
    {[type |-> "order", inner |-> "none"], [type |-> "other", inner |-> "none"],
     [type |-> "envelope", inner |-> "order"], [type |-> "envelope", inner |-> "broken"]}

(* The process configures each agent here and there; a's settings name the   *)
(* sections of two environments, and of the agent b.                         *)
MCAgents == <<"a", "b">>
MCGroup ==
    {<<"log_level">>, <<"app_environment">>, <<"b", "app_environment">>, <<"url">>, <<"cache", "dir">>,
     <<"a", "url">>, <<"b", "cache", "dir">>, <<"runtimes", "x", "token">>, <<"runtime", "y", "url">>}
MCSecrets == [n \in {"a", "b"} |-> [top |-> {<<"token">>}, default |-> {<<"token">>, <<"key">>}]]
MCFragments ==
    [a |-> [default |-> {<<"url">>, <<"token">>, <<"cache", "dir">>, <<"only">>, <<"log_level">>, <<"app_environment">>},
            production |-> {<<"only">>}, staging |-> {<<"stage">>}, b |-> {<<"token">>}],
     b |-> [top |-> {<<"url">>, <<"own">>}, runtimes |-> {<<"x", "model">>}]]
MCAsked ==
    {<<"url">>, <<"token">>, <<"key">>, <<"log_level">>, <<"app_environment">>, <<"only">>, <<"own">>, <<"a">>, <<"b">>,
     <<"b", "token">>, <<"a", "token">>, <<"b", "own">>, <<"cache", "dir">>, <<"runtimes", "x">>,
     <<"runtimes">>, <<"pod_name">>}
MCBuilt == {"x", "y", "a"} \X {"model", "token", "url"}
MCValidated == {<<"url">>, <<"token">>, <<"key">>, <<"log_level">>, <<"only">>, <<"stage">>, <<"own">>, <<"cache", "dir">>}

(* The replicas of MCChannels. *)
MCReplicas == DOMAIN MCRuns
==============================================================================
