---------------------------- MODULE RuntimeModelMC ----------------------------
(* The inputs RuntimeModel is checked on: all that clients can ask for, along *)
(* three lines: the domains of routes, the selectors, the settings.           *)
EXTENDS RuntimeModel, TLC

\* One domain inside the other, in lexical order, and hosts in and out of them.
TwoDomains == <<<<"b", "c">>, <<"c">>>>
FourHosts  == {<<"a", "b", "c">>, <<"b", "c">>, <<"c">>, <<"d">>}
InChina    == {<<"b", "c">>, <<"d">>}

Asked(proxyMode, routeMode, port, address) ==
  [mobile |-> FALSE, proxyMode |-> proxyMode, routeMode |-> routeMode, port |-> port,
   address |-> address, ipv6 |-> FALSE]

Chooses(nodes, selected) == [nodes |-> nodes, selected |-> selected]

Pools == BoundedSeq(Node, 2)

OneReady == {pool \in Pools : Len(pool) = 1 /\ pool[1].available}

AnyRoute ==
  [domains: BoundedSeq([domain: Domains, plain: BOOLEAN], 2) \ {<<>>}, enabled: BOOLEAN]
  \cup {[domains |-> <<[domain |-> Invalid, plain |-> TRUE]>>, enabled |-> TRUE], Absent}

\* Any two routes, over no node and over one.
RouteInputs ==
  {[settings |-> Asked(p, r, 2080, "ip"),
    model |-> [pool |-> pool, routes |-> routes,
               selectors |-> [tag \in Tags |-> Chooses({Direct}, Direct)]]] :
     p \in {"mixed", "tun"}, r \in {"rule", "direct", "all"},
     pool \in {<<>>} \cup OneReady, routes \in [Services -> AnyRoute]}

\* Any selectors, over any pool.
AnySelector ==
  {Chooses(nodes, selected) :
     nodes \in SUBSET (Nodes \cup {Direct}) \ {{}}, selected \in Nodes \cup {Direct}}

SelectorInputs ==
  {[settings |-> Asked("mixed", "rule", 2080, "ip"),
    model |-> [pool |-> pool, selectors |-> (Proxy :> proxy) @@ selectors,
               routes |-> [s \in Services |->
                 IF s = CHOOSE t \in Services : TRUE
                 THEN [domains |-> <<[domain |-> Lexical[1], plain |-> TRUE]>>,
                       enabled |-> TRUE]
                 ELSE Absent]]] :
     pool \in Pools, selectors \in [Services -> {Absent} \cup AnySelector],
     proxy \in {Absent} \cup {Chooses({}, selected) : selected \in Nodes \cup {Direct}}}

\* Any settings, at the limits of the port.
SettingInputs ==
  {[settings |-> [Asked(p, r, port, address) EXCEPT !.mobile = mobile, !.ipv6 = ipv6],
    model |-> [pool |-> pool, routes |-> [s \in Services |-> Absent],
               selectors |-> [tag \in Tags |->
                 IF tag = Proxy THEN Chooses({}, pool[1].id) ELSE Absent]]] :
     p \in {"mixed", "tun", "unset"}, r \in {"rule", "direct", "all", "unset"},
     mobile \in BOOLEAN, ipv6 \in BOOLEAN, port \in {0, 1, 65535, 65536}, address \in {"ip", "name", "empty"},
     pool \in OneReady}

AllInputs == <<RouteInputs, SelectorInputs, SettingInputs>>
=============================================================================
