----------------------------- MODULE RuntimeModel -----------------------------
(***************************************************************************)
(* From a client's settings and the runtime configuration to the sing-box  *)
(* configuration (src/manager/config.go and src/config), on desktop and    *)
(* mobile: buildSettings reads the settings, NormalizeRuntimeModel checks  *)
(* the selectors and routes for a node pool, and planRuntimeModel lays out *)
(* the inbounds, the outbounds, DNS and the ordered rules.                 *)
(* RuntimeController says when this happens; here is what is built.        *)
(*                                                                         *)
(* Abstracted: identifiers are trimmed, and those of selectors and routes  *)
(* distinct, as their makers leave them (hashes, keys of a map); a         *)
(* selector is found by its tag, so that their order does not show; a      *)
(* domain is a sequence of labels of one length; logs, TUN prefixes and    *)
(* the address of the DNS server are fixed values.  Probe runtimes have no *)
(* caller.                                                                 *)
(***************************************************************************)
EXTENDS Integers, Sequences, SequencesExt

CONSTANTS
  Nodes,     \* node identifiers
  Services,  \* services a route can be made for
  Lexical,   \* the domains, in lexical order
  Hosts,     \* names that connections ask for, longer than domains or equal
  China,     \* those whose addresses the China rule set holds
  Inputs,    \* the settings and models to build from, in families
  Proxy,     \* tag of the default selector
  Direct,    \* the built-in direct outbound
  URLTest,   \* tag of the automatic group
  PublicDNS, \* tag of the DNS server
  Invalid,   \* what is not a domain
  Absent,    \* no selector, no route
  Refused    \* ErrInvalidSource, ErrInvalidSettings

Tags    == {Proxy} \cup Services
Domains == ToSet(Lexical)

LastPort == 65535

\* A domain as a client writes it: with blanks, capitals or a final dot, or not.
Spelled == [domain: Domains \cup {Invalid}, plain: BOOLEAN]

Node     == [id: Nodes, available: BOOLEAN]
Selector == [nodes: SUBSET (Nodes \cup {Direct}), selected: Nodes \cup {Direct}]
Route    == [domains: Seq(Spelled), enabled: BOOLEAN]
Model ==
  [pool: Seq(Node), selectors: [Tags -> Selector \cup {Absent}],
   routes: [Services -> Route \cup {Absent}]]

\* RuntimeSettings of the API, with the platform; the Settings read from them.
Request ==
  [mobile: BOOLEAN, proxyMode: STRING, routeMode: STRING, port: Nat, address: STRING,
   ipv6: BOOLEAN]
Settings ==
  [address: STRING, port: 1..LastPort, ipv6: BOOLEAN, proxyMode: {"mixed", "tun"},
   routeMode: {"rule", "direct", "all"}, cache: BOOLEAN]

\* What a plan consists of.
OptionInbound ==
  [type: {"tun"}, addresses: SUBSET {"v4", "v6"}] \cup [type: {"mixed"}, port: 1..LastPort]
OptionOutbound ==
  [tag: Tags \cup Nodes \cup {Direct, URLTest}, members: SUBSET (Nodes \cup {Direct}),
   default: Nodes \cup {Direct, Absent}]
OptionRule ==
  [kind: {"sniff", "dns", "china", "suffix"}, domain: Domains \cup {<<>>},
   outbound: Services \cup {Direct, Absent}]
OptionDNS == [servers: {{PublicDNS}}, final: {PublicDNS}]
Blueprint ==
  [inbounds: SUBSET OptionInbound, outbounds: Seq(OptionOutbound),
   dns: OptionDNS \cup {Absent}, rules: Seq(OptionRule), ruleSets: SUBSET {"china"},
   final: {Proxy, Direct}, cache: BOOLEAN]

ASSUME ConstantsAssumption ==
  /\ IsFiniteSet(Services)
  /\ Lexical \in Seq(Seq(STRING)) /\ IsInjective(Lexical)
  /\ {Proxy, Direct, URLTest} \cap (Nodes \cup Services) = {}
  /\ Nodes \cap Services = {}
  /\ Proxy # Direct /\ Proxy # URLTest /\ Direct # URLTest
  /\ Invalid \notin Domains
  /\ China \subseteq Hosts

\* What stands for nothing, and for an error, is none of the values beside it.
ASSUME SentinelsAssumption ==
  /\ Absent \notin Selector \cup Route \cup OptionDNS
  /\ Refused \notin Model \cup Settings \cup Blueprint \cup {Absent}

ASSUME InputsAssumption ==
  \A i \in DOMAIN Inputs : Inputs[i] \subseteq [settings: Request, model: Model]

\* A relation by its pairs, and a set in the order that its pairs give.
Pairs(set, Before(_, _)) == {pair \in set \X set : Before(pair[1], pair[2])}
Ordered(set, order) ==
  [k \in 1..Cardinality(set) |->
    CHOOSE x \in set : Cardinality({y \in set : y = x \/ <<y, x>> \in order}) = k]

VARIABLES
  request,   \* RuntimeSettings of the client, and the platform
  settings,  \* the Settings read from it, or Refused
  model,     \* the model, normalised or not
  stage,     \* what has been done with it
  plan       \* the Blueprint, or Refused

vars == <<request, settings, model, stage, plan>>

\* What the answer to an update shows: the nodes of one subscription, no selectors
\* and no routes.
Preview(pool) ==
  [pool |-> pool, selectors |-> [tag \in Tags |-> Absent],
   routes |-> [s \in Services |-> Absent]]

Init ==
  /\ \E i \in DOMAIN Inputs : \E input \in Inputs[i] :
       /\ request = input.settings
       /\ model \in {input.model, Preview(input.model.pool)}
  /\ settings = Absent
  /\ stage = "given"
  /\ plan = Absent

-----------------------------------------------------------------------------
(* Normalising *)

Available(pool) == {pool[i].id : i \in {j \in DOMAIN pool : pool[j].available}}

Chosen(routes) == {s \in Services : routes[s] # Absent}
Enabled(routes) == {s \in Chosen(routes) : routes[s].enabled}

\* Available or not, no two nodes have the same identity.
UniqueNodes(pool) == IsInjective([i \in DOMAIN pool |-> pool[i].id])

\* The default selector is made of the whole pool.
Filled(selectors, nodes) ==
  [tag \in Tags |->
    IF tag = Proxy /\ selectors[tag] # Absent
    THEN [selectors[tag] EXCEPT !.nodes = nodes \cup {Direct}] ELSE selectors[tag]]

SelectedIsMember(selector) == selector.selected \in selector.nodes

ValidSelector(selector, nodes) ==
  /\ selector.nodes \subseteq nodes \cup {Direct}
  /\ SelectedIsMember(selector)

KeyMutant(spelled) == spelled

\* The name under which an owner of a domain is remembered.
Key(spelled) == spelled.domain

DisjointRoutes(routes) ==
  \A s, t \in Enabled(routes) :
    \A i \in DOMAIN routes[s].domains, j \in DOMAIN routes[t].domains :
      Key(routes[s].domains[i]) = Key(routes[t].domains[j]) => s = t /\ i = j

ValidRoute(route, selector) ==
  /\ selector # Absent
  /\ route.domains # <<>>
  /\ \A i \in DOMAIN route.domains : route.domains[i].domain # Invalid

\* Lexical order of domain names.
Rank(named) == CHOOSE i \in DOMAIN Lexical : Lexical[i] = named.domain

\* slices.Sort; which of two equal domains comes first does not show.
Sorted(domains) ==
  LET Before(i, j) == \/ Rank(domains[i]) < Rank(domains[j])
                      \/ Rank(domains[i]) = Rank(domains[j]) /\ i < j
      places == Ordered(DOMAIN domains, Pairs(DOMAIN domains, Before))
  IN  [k \in DOMAIN domains |-> domains[places[k]]]

CanonicalRoute(route) ==
  [route EXCEPT !.domains =
    Sorted([i \in DOMAIN @ |-> [domain |-> @[i].domain, plain |-> TRUE]])]

NormalizeRuntimeModel(given) ==
  LET nodes     == Available(given.pool)
      selectors == Filled(given.selectors, nodes)
      routes    == given.routes
  IN  IF /\ UniqueNodes(given.pool)
         /\ \A tag \in Tags :
              selectors[tag] # Absent => ValidSelector(selectors[tag], nodes)
         /\ \A s \in Chosen(routes) : ValidRoute(routes[s], selectors[s])
         /\ DisjointRoutes(routes)
      THEN [given EXCEPT
             !.selectors = selectors,
             !.routes = [s \in Services |->
               IF routes[s] = Absent THEN Absent ELSE CanonicalRoute(routes[s])]]
      ELSE Refused

-----------------------------------------------------------------------------
(* Settings and inbounds *)

\* Settings.Validate.  An unset route mode passes: the default is given to a copy.
ValidSettings(value) ==
  /\ value.address # "empty"
  /\ value.port \in 1..LastPort
  /\ value.proxyMode \in {"mixed", "tun"}
  /\ value.routeMode \in {"rule", "direct", "all", "unset"}

\* canonicalRuntimeSettings: what is saved of a request.  Phones have only the TUN
\* mode.
Canonical(asked) == [asked EXCEPT !.proxyMode = IF asked.mobile THEN "tun" ELSE @]

CachedMutant == TRUE

\* No selection cache of sing-box's own: it would override the saved selections.
Cached == FALSE

\* buildSettings
BuildSettings(asked) ==
  LET value == [address |-> asked.address, port |-> asked.port, ipv6 |-> asked.ipv6,
                proxyMode |-> Canonical(asked).proxyMode, routeMode |-> asked.routeMode,
                cache |-> Cached]
  IN  IF value.routeMode # "unset" /\ ValidSettings(value) THEN value ELSE Refused

\* The port goes into a uint16.
Inbounds ==
  IF settings.proxyMode = "tun"
  THEN {[type |-> "tun", addresses |-> {"v4"} \cup (IF settings.ipv6 THEN {"v6"} ELSE {})]}
  ELSE {[type |-> "mixed", port |-> settings.port % (LastPort + 1)]}

\* Only a mixed inbound parses the address.
ValidInbounds == settings.proxyMode = "mixed" => settings.address = "ip"

-----------------------------------------------------------------------------
(* Outbounds *)

Outbound(tag, members, default) == [tag |-> tag, members |-> members, default |-> default]

Plain(tag) == Outbound(tag, {}, Absent)

\* The available nodes, in the order of the pool.
NodeTags ==
  LET Usable == {i \in DOMAIN model.pool : model.pool[i].available}
      places == Ordered(Usable, Pairs(Usable, <))
  IN  [k \in DOMAIN places |-> model.pool[places[k]].id]

Selectors(tags) == SetToSeq({tag \in tags : model.selectors[tag] # Absent})

\* Without nodes every selector goes direct.
DirectSelectors ==
  LET tags == Selectors(Tags)
  IN  [i \in DOMAIN tags |-> Outbound(tags[i], {Direct}, Direct)]

DefaultNode ==
  IF model.selectors[Proxy] = Absent THEN NodeTags[1] ELSE model.selectors[Proxy].selected

Members(tag) == model.selectors[tag].nodes \cap (ToSet(NodeTags) \cup {Direct})

ServiceSelectors ==
  LET tags == Selectors(Services)
  IN  [i \in DOMAIN tags |->
        Outbound(tags[i], Members(tags[i]), model.selectors[tags[i]].selected)]

WithoutNodes == <<Plain(Direct)>> \o DirectSelectors

Outbounds ==
  IF NodeTags = <<>> THEN WithoutNodes
  ELSE [i \in DOMAIN NodeTags |-> Plain(NodeTags[i])]
       \o <<Plain(Direct),
            Outbound(URLTest, ToSet(NodeTags), Absent),
            Outbound(Proxy, ToSet(NodeTags) \cup {Direct}, DefaultNode)>>
       \o ServiceSelectors

\* planOutboundsWithSelectors refuses a selector without its selected member.
ValidOutbounds ==
  NodeTags # <<>> => \A s \in Services :
    model.selectors[s] # Absent => model.selectors[s].selected \in Members(s)

-----------------------------------------------------------------------------
(* Rules *)

Rule(kind, domain, outbound) == [kind |-> kind, domain |-> domain, outbound |-> outbound]

\* planRoute: sniffing, the interception of DNS, the China rule.
PlannedRules ==
  <<Rule("sniff", <<>>, Absent)>>
  \o (IF settings.proxyMode = "tun" THEN <<Rule("dns", <<>>, Absent)>> ELSE <<>>)
  \o (IF settings.routeMode = "rule" THEN <<Rule("china", <<>>, Direct)>> ELSE <<>>)

RuleSetsMutant == {}

RuleSets == IF settings.routeMode = "rule" THEN {"china"} ELSE {}

\* planDNS: nothing of a provider's DNS is used.
DNS ==
  IF settings.proxyMode = "tun"
  THEN [servers |-> {PublicDNS}, final |-> PublicDNS] ELSE Absent

FinalOutbound ==
  IF settings.routeMode = "direct" \/ NodeTags = <<>> THEN Direct ELSE Proxy

MoreSpecificMutant(a, b) ==
  \/ Len(a.domain) < Len(b.domain)
  \/ Len(a.domain) = Len(b.domain) /\ Rank(a) < Rank(b)

\* The longer domain first, then the lexical order.  Of two domains that match one
\* host the longer name has more labels.
MoreSpecific(a, b) ==
  \/ Len(a.domain) > Len(b.domain)
  \/ Len(a.domain) = Len(b.domain) /\ Rank(a) < Rank(b)

ServiceRules ==
  LET enabled == Enabled(model.routes)
      rules   == UNION {{Rule("suffix", model.routes[s].domains[i].domain, s) :
                          i \in DOMAIN model.routes[s].domains} : s \in enabled}
  IN  Ordered(rules, Pairs(rules, MoreSpecific))

ReservedMutant == 1

\* How many rules stay in front of the service rules.
Reserved == IF settings.proxyMode = "tun" THEN 2 ELSE 1

Rules ==
  IF settings.routeMode = "direct" THEN PlannedRules
  ELSE SubSeq(PlannedRules, 1, Reserved) \o ServiceRules
       \o SubSeq(PlannedRules, Reserved + 1, Len(PlannedRules))

\* planRuntime: a cache only where the settings name a file for it.
CacheEnabled == settings.cache

PlanRuntimeModel ==
  [inbounds |-> Inbounds, outbounds |-> Outbounds, dns |-> DNS, rules |-> Rules,
   ruleSets |-> RuleSets, final |-> FinalOutbound, cache |-> CacheEnabled]

\* Emit: sing-box decodes what was written, and refuses a tag that is used twice.
Emit(blueprint) ==
  IF IsInjective([i \in DOMAIN blueprint.outbounds |-> blueprint.outbounds[i].tag])
  THEN blueprint ELSE Refused

BuildNormalized ==
  IF ValidSettings(settings) /\ ValidInbounds /\ ValidOutbounds
  THEN Emit(PlanRuntimeModel) ELSE Refused

-----------------------------------------------------------------------------
ReadSettings ==
  /\ stage = "given"
  /\ settings' = BuildSettings(request)
  /\ stage' = IF settings' = Refused THEN "refused" ELSE "set"
  /\ UNCHANGED <<request, model, plan>>

Normalize ==
  /\ stage = "set"
  /\ model' = NormalizeRuntimeModel(model)
  /\ stage' = IF model' = Refused THEN "refused" ELSE "normal"
  /\ UNCHANGED <<request, settings, plan>>

Build ==
  /\ stage = "normal"
  /\ plan' = BuildNormalized
  /\ stage' = "built"
  /\ UNCHANGED <<request, settings, model>>

\* prepareRuntimeContent
Next == ReadSettings \/ Normalize \/ Build

Spec == Init /\ [][Next]_vars

-----------------------------------------------------------------------------
(* Properties *)

TypeOK ==
  /\ request \in Request
  /\ settings \in Settings \cup {Absent, Refused}
  /\ model \in Model \cup {Refused}
  /\ stage \in {"given", "set", "normal", "built", "refused"}
  /\ plan \in Blueprint \cup {Absent, Refused}

Normalised == stage \in {"normal", "built"}
Planned    == stage = "built" /\ plan # Refused

\* The rules that end the evaluation for a connection; query: to port 53.
Matches(rule, name, query) ==
  \/ rule.kind = "dns" /\ query
  \/ rule.kind = "china" /\ name \in China
  \/ rule.kind = "suffix" /\ IsSuffix(rule.domain, name)

FirstMatch(name, query) ==
  SelectInSeq(plan.rules, LAMBDA rule : Matches(rule, name, query))

\* The outbound sing-box uses for a host: that of the first rule that matches.
Routed(name) ==
  LET first == FirstMatch(name, FALSE)
  IN  IF first = 0 THEN plan.final ELSE plan.rules[first].outbound

\* A DNS query for a host is answered by sing-box itself.
Intercepted(name) ==
  LET first == FirstMatch(name, TRUE)
  IN  first # 0 /\ plan.rules[first].kind = "dns"

\* The services that have asked for a host, and how specifically.
Claims(name) ==
  {claim \in Enabled(model.routes) \X Domains :
     /\ \E i \in DOMAIN model.routes[claim[1]].domains :
          model.routes[claim[1]].domains[i].domain = claim[2]
     /\ IsSuffix(claim[2], name)}

Closest(name) == {c \in Claims(name) : \A other \in Claims(name) : Len(other[2]) <= Len(c[2])}

\* A host goes to the service that names it most specifically, also when it is in
\* China, and also in the mode ALL; only a host no service names goes direct by
\* country or to the default.  The flow chart at the end of docs/GRPC.md has this
\* order; its section on routes has the country first, and its table of modes
\* sends everything through the default proxy in the mode ALL: the code does not.
ClosestServiceWins ==
  Planned => \A name \in Hosts :
    IF settings.routeMode # "direct" /\ Claims(name) # {}
    THEN \E c \in Closest(name) : Routed(name) = c[1]
    ELSE Routed(name) = IF settings.routeMode = "rule" /\ name \in China
                        THEN Direct ELSE plan.final

\* Whatever a rule, a group or a default refers to is in the plan: sing-box checks
\* that only when it starts.
PlanIsClosed ==
  Planned =>
    LET tags == {plan.outbounds[i].tag : i \in DOMAIN plan.outbounds}
    IN  /\ \A i \in DOMAIN plan.outbounds :
             /\ plan.outbounds[i].members \subseteq tags
             /\ plan.outbounds[i].default \in plan.outbounds[i].members \cup {Absent}
        /\ \A i \in DOMAIN plan.rules :
             /\ plan.rules[i].outbound \in tags \cup {Absent}
             /\ plan.rules[i].kind = "china" => "china" \in plan.ruleSets
        /\ plan.final \in tags
        /\ plan.dns # Absent => plan.dns.final \in plan.dns.servers

\* What has been accepted once is accepted at every later start: the plan refuses
\* nothing but an address, the normalised model, which is saved, normalises to
\* itself, and the settings that are saved are read as they were.
AcceptedStaysAccepted ==
  /\ stage = "built" /\ ValidInbounds => plan # Refused
  /\ Normalised => NormalizeRuntimeModel(model) = model
  /\ Normalised => BuildSettings(Canonical(request)) = settings

\* The mode that was asked for, TUN on a phone, is served: a mixed inbound listens
\* on the port of the request, and exactly the plans with a TUN inbound answer DNS
\* queries themselves, those for the domains of a service too.
ModeIsServed ==
  Planned =>
    LET tun == \E inbound \in plan.inbounds : inbound.type = "tun"
    IN  /\ tun <=> request.mobile \/ request.proxyMode = "tun"
        /\ \A inbound \in plan.inbounds :
             inbound.type = "mixed" => inbound.port = request.port
        /\ tun <=> plan.dns # Absent
        /\ \A name \in Hosts : tun <=> Intercepted(name)

\* The conditions under which RuntimeController takes a configuration.
Controller == INSTANCE RuntimeController WITH
  Settings <- {"given"}, DefaultSettings <- "given", up <- TRUE, pool <- {},
  config <- Absent, durable <- Absent, active <- Absent, daemon <- Absent, op <- Absent

Abstract(value) ==
  [settings |-> "given", selectors |-> value.selectors,
   routes |-> [s \in Services |->
     IF value.routes[s] = Absent THEN Absent
     ELSE [enabled |-> value.routes[s].enabled,
           domains |-> {value.routes[s].domains[i].domain :
                          i \in DOMAIN value.routes[s].domains}]]]

\* The selection sing-box begins with: the default of the group, or what it has
\* cached.
Begins(tag) ==
  {plan.outbounds[i].default : i \in {j \in DOMAIN plan.outbounds : plan.outbounds[j].tag = tag}}
  \cup (IF plan.cache THEN model.selectors[tag].nodes ELSE {})

\* RuntimeController is right about what is built: it accepts the models that are
\* accepted here, and a daemon that loads the plan begins with the selections that
\* RuntimeController says it does, so that its theorems are about the
\* configurations the code builds.
ControllerAgrees ==
  /\ Normalised => Controller!Normal(Abstract(model), Available(model.pool))
  /\ Planned => \A tag \in Tags : model.selectors[tag] # Absent =>
       Begins(tag) = {Controller!Loaded(Abstract(model)).live[tag]}
=============================================================================
