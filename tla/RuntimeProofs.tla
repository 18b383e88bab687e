---------------------------- MODULE RuntimeProofs ----------------------------
(***************************************************************************)
(* Proofs about the runtime controller.  First what building a             *)
(* configuration for a pool returns and keeps; then the types, the form of *)
(* every configuration that is kept, and the agreement of the running      *)
(* configuration with the saved one.                                       *)
(***************************************************************************)
EXTENDS RuntimeController, TLAPS

-----------------------------------------------------------------------------
(* Building a configuration for a pool *)

\* A wanted configuration, as the requests make it from the current one.
Wanted(value) ==
  /\ value \in RuntimeConfig
  /\ \A service \in Services : value.selectors[service] # Absent =>
       Direct \in value.selectors[service].nodes

\* The agreement of what is built with what was wanted.
BuiltFrom(value, next) ==
  /\ next.settings = value.settings
  /\ next.routes = value.routes
  /\ next.selectors[Proxy] # Absent
  /\ \A tag \in Tags : value.selectors[tag] # Absent => next.selectors[tag] # Absent
  /\ \A service \in Services : next.selectors[service] # Absent => value.selectors[service] # Absent
  /\ \A tag \in Tags : value.selectors[tag] # Absent =>
       next.selectors[tag].selected \in {value.selectors[tag].selected, Direct}

\* A selector record is not the absent one.
LEMMA SelectorPresent ==
  ASSUME NEW nodes \in SUBSET Outbounds, NEW selected \in Outbounds
  PROVE  /\ [nodes |-> nodes, selected |-> selected] \in Selector
         /\ [nodes |-> nodes, selected |-> selected] # Absent
BY ConstantsAssumption DEF Selector

\* Tags and the direct outbound.
LEMMA TagFacts ==
  /\ Proxy \in Tags
  /\ Direct \in Outbounds
  /\ Nodes \subseteq Outbounds
  /\ \A service \in Services : service \in Tags /\ service # Proxy
BY ConstantsAssumption DEF Tags, Outbounds

\* WithProxy adds at most the selector of the default proxy.
LEMMA WithProxyFacts ==
  ASSUME NEW value \in RuntimeConfig, NEW first \in Outbounds
  PROVE  /\ WithProxy(value, first) \in RuntimeConfig
         /\ WithProxy(value, first).settings = value.settings
         /\ WithProxy(value, first).routes = value.routes
         /\ WithProxy(value, first).selectors[Proxy] # Absent
         /\ \A service \in Services :
              WithProxy(value, first).selectors[service] = value.selectors[service]
         /\ value.selectors[Proxy] # Absent => WithProxy(value, first) = value
         /\ \A tag \in Tags : value.selectors[tag] # Absent =>
              WithProxy(value, first).selectors[tag] = value.selectors[tag]
<1> DEFINE new == [nodes |-> {}, selected |-> first]
<1>1. new \in Selector /\ new # Absent
  BY SelectorPresent
<1> HIDE DEF new
<1>2. CASE value.selectors[Proxy] # Absent
  BY <1>2 DEF WithProxy
<1>3. CASE value.selectors[Proxy] = Absent
  <2>1. WithProxy(value, first) = [value EXCEPT !.selectors[Proxy] = new]
    BY <1>3 DEF WithProxy, new
  <2> QED
    BY <1>1, <1>3, <2>1, TagFacts DEF RuntimeConfig
<1> QED
  BY <1>2, <1>3

\* Members of a selector are available, and direct stays one of them.
LEMMA MembersFacts ==
  ASSUME NEW tag \in Tags, NEW selector \in Selector, NEW nodes \in SUBSET Nodes
  PROVE  /\ Members(tag, selector, nodes) \subseteq nodes \cup {Direct}
         /\ Members(tag, selector, nodes) \in SUBSET Outbounds
         /\ tag = Proxy \/ Direct \in selector.nodes => Direct \in Members(tag, selector, nodes)
         /\ \A node \in nodes : tag = Proxy \/ node \in selector.nodes =>
              node \in Members(tag, selector, nodes)
BY TagFacts DEF Members, Outbounds

\* What is kept and what is changed when nodes have left the pool.
LEMMA ReconciledFacts ==
  ASSUME NEW value \in RuntimeConfig, NEW nodes \in SUBSET Nodes
  PROVE  /\ Reconciled(value, nodes) \in RuntimeConfig
         /\ Reconciled(value, nodes).settings = value.settings
         /\ Reconciled(value, nodes).routes = value.routes
         /\ \A tag \in Tags :
              /\ Reconciled(value, nodes).selectors[tag] = Absent <=> value.selectors[tag] = Absent
              /\ value.selectors[tag] # Absent =>
                   /\ Reconciled(value, nodes).selectors[tag].nodes
                        = Members(tag, value.selectors[tag], nodes)
                   /\ Reconciled(value, nodes).selectors[tag].selected =
                        IF value.selectors[tag].selected \in nodes
                        THEN value.selectors[tag].selected ELSE Direct
<1> DEFINE chosen(tag) == IF value.selectors[tag].selected \in nodes
                          THEN value.selectors[tag].selected ELSE Direct
           one(tag) == [nodes |-> Members(tag, value.selectors[tag], nodes),
                        selected |-> chosen(tag)]
           all == [tag \in Tags |-> IF value.selectors[tag] = Absent THEN Absent ELSE one(tag)]
<1>1. Reconciled(value, nodes) = [value EXCEPT !.selectors = all]
  BY DEF Reconciled
<1>2. \A tag \in Tags : value.selectors[tag] # Absent => value.selectors[tag] \in Selector
  BY DEF RuntimeConfig
<1>3. ASSUME NEW tag \in Tags, value.selectors[tag] # Absent
      PROVE  one(tag) \in Selector /\ one(tag) # Absent
  <2>1. Members(tag, value.selectors[tag], nodes) \in SUBSET Outbounds
    BY <1>2, <1>3, MembersFacts
  <2>2. chosen(tag) \in Outbounds
    BY TagFacts
  <2> QED
    BY <2>1, <2>2, SelectorPresent
<1>4. \A tag \in Tags : value.selectors[tag] # Absent =>
        /\ one(tag).nodes = Members(tag, value.selectors[tag], nodes)
        /\ one(tag).selected = chosen(tag)
  OBVIOUS
<1> HIDE DEF one
<1>5. all \in [Tags -> Selector \cup {Absent}]
  BY <1>3
<1>6. \A tag \in Tags : all[tag] = IF value.selectors[tag] = Absent THEN Absent ELSE one(tag)
  OBVIOUS
<1> HIDE DEF all
<1>7. /\ Reconciled(value, nodes) \in RuntimeConfig
      /\ Reconciled(value, nodes).settings = value.settings
      /\ Reconciled(value, nodes).routes = value.routes
      /\ Reconciled(value, nodes).selectors = all
  BY <1>1, <1>5 DEF RuntimeConfig
<1>8. ASSUME NEW tag \in Tags
      PROVE  /\ all[tag] = Absent <=> value.selectors[tag] = Absent
             /\ value.selectors[tag] # Absent =>
                  /\ all[tag].nodes = Members(tag, value.selectors[tag], nodes)
                  /\ all[tag].selected = chosen(tag)
  BY <1>3, <1>4, <1>6
<1> QED
  BY <1>7, <1>8

\* Some node, or direct, is there to be the first.
LEMMA FirstFacts ==
  ASSUME NEW nodes \in SUBSET Nodes
  PROVE  FirstNodes(nodes) # {} /\ FirstNodes(nodes) \subseteq Outbounds
BY TagFacts DEF FirstNodes

\* What normalizeDesired returns is a well-formed configuration with the rules
\* that were wanted; a selection is the wanted one or direct.
LEMMA BuiltFacts ==
  ASSUME NEW value, Wanted(value), NEW nodes \in SUBSET Nodes,
         NEW next \in Built(value, nodes)
  PROVE  /\ next \in RuntimeConfig
         /\ WellFormed(next)
         /\ BuiltFrom(value, next)
         /\ \A tag \in Tags :
              value.selectors[tag] # Absent /\ value.selectors[tag].selected \in nodes =>
                next.selectors[tag].selected = value.selectors[tag].selected
<1>1. PICK first \in FirstNodes(nodes) :
        next = Reconciled(WithProxy(value, first), nodes) /\ Normal(next, nodes)
  BY DEF Built
<1> DEFINE w == WithProxy(value, first)
<1>2. first \in Outbounds /\ value \in RuntimeConfig
  BY FirstFacts DEF Wanted
<1>3. /\ w \in RuntimeConfig
      /\ w.settings = value.settings
      /\ w.routes = value.routes
      /\ w.selectors[Proxy] # Absent
      /\ \A service \in Services : w.selectors[service] = value.selectors[service]
      /\ \A tag \in Tags : value.selectors[tag] # Absent =>
           w.selectors[tag] = value.selectors[tag]
  BY <1>2, WithProxyFacts
<1>4. next = Reconciled(w, nodes)
  BY <1>1
<1> HIDE DEF w
<1>5. /\ next \in RuntimeConfig
      /\ next.settings = w.settings
      /\ next.routes = w.routes
      /\ \A tag \in Tags :
           /\ next.selectors[tag] = Absent <=> w.selectors[tag] = Absent
           /\ w.selectors[tag] # Absent =>
                /\ next.selectors[tag].nodes = Members(tag, w.selectors[tag], nodes)
                /\ next.selectors[tag].selected =
                     IF w.selectors[tag].selected \in nodes
                     THEN w.selectors[tag].selected ELSE Direct
  BY <1>3, <1>4, ReconciledFacts
<1>6. BuiltFrom(value, next)
  BY <1>3, <1>5, TagFacts DEF BuiltFrom
<1>7. ASSUME NEW tag \in Tags, next.selectors[tag] # Absent
      PROVE  Direct \in next.selectors[tag].nodes
  <2>1. w.selectors[tag] # Absent /\ w.selectors[tag] \in Selector
    BY <1>3, <1>5, <1>7 DEF RuntimeConfig
  <2>2. tag = Proxy \/ Direct \in w.selectors[tag].nodes
    BY <1>3, <2>1 DEF Wanted, Tags
  <2> QED
    BY <1>5, <2>1, <2>2, MembersFacts
<1>8. WellFormed(next)
  BY <1>1, <1>7 DEF WellFormed, Normal
<1>9. \A tag \in Tags :
        value.selectors[tag] # Absent /\ value.selectors[tag].selected \in nodes =>
          next.selectors[tag].selected = value.selectors[tag].selected
  BY <1>3, <1>5
<1> QED
  BY <1>5, <1>6, <1>8, <1>9

\* A well-formed configuration can be built for every pool.
LEMMA WellFormedStarts ==
  ASSUME NEW value \in RuntimeConfig, WellFormed(value)
  PROVE  Startable(value)
<1> SUFFICES ASSUME NEW nodes \in SUBSET Nodes
             PROVE  Built(value, nodes) # {}
  BY DEF Startable
<1>1. PICK first \in FirstNodes(nodes) : TRUE
  BY FirstFacts
<1>2. first \in Outbounds
  BY FirstFacts
<1> DEFINE w == WithProxy(value, first)
           next == Reconciled(w, nodes)
<1>3. /\ w \in RuntimeConfig
      /\ w.routes = value.routes
      /\ \A service \in Services : w.selectors[service] = value.selectors[service]
  BY <1>2, WithProxyFacts
<1> HIDE DEF w
<1>5. /\ next \in RuntimeConfig
      /\ next.routes = w.routes
      /\ \A tag \in Tags :
           /\ next.selectors[tag] = Absent <=> w.selectors[tag] = Absent
           /\ w.selectors[tag] # Absent =>
                /\ next.selectors[tag].nodes = Members(tag, w.selectors[tag], nodes)
                /\ next.selectors[tag].selected =
                     IF w.selectors[tag].selected \in nodes
                     THEN w.selectors[tag].selected ELSE Direct
  BY <1>3, ReconciledFacts
<1> HIDE DEF next
<1>6. ASSUME NEW tag \in Tags, next.selectors[tag] # Absent
      PROVE  /\ next.selectors[tag].nodes \subseteq nodes \cup {Direct}
             /\ next.selectors[tag].selected \in next.selectors[tag].nodes
  <2>1. w.selectors[tag] # Absent /\ w.selectors[tag] \in Selector
    BY <1>3, <1>5, <1>6 DEF RuntimeConfig
  <2>2. \/ tag = Proxy
        \/ /\ Direct \in w.selectors[tag].nodes
           /\ w.selectors[tag].selected \in w.selectors[tag].nodes
    BY <1>3, <2>1 DEF WellFormed, Tags
  <2>3. /\ Members(tag, w.selectors[tag], nodes) \subseteq nodes \cup {Direct}
        /\ Direct \in Members(tag, w.selectors[tag], nodes)
        /\ \A node \in nodes : tag = Proxy \/ node \in w.selectors[tag].nodes =>
             node \in Members(tag, w.selectors[tag], nodes)
    BY <2>1, <2>2, MembersFacts
  <2> QED
    BY <1>5, <2>1, <2>2, <2>3
<1>7. \A service \in Services : next.routes[service] # Absent =>
        next.selectors[service] # Absent /\ next.routes[service].domains # {}
  BY <1>3, <1>5, TagFacts DEF WellFormed
<1>8. \A s, t \in Services : s # t /\ EnabledRoute(next, s) /\ EnabledRoute(next, t) =>
        next.routes[s].domains \cap next.routes[t].domains = {}
  BY <1>3, <1>5 DEF WellFormed, EnabledRoute
<1>9. Normal(next, nodes)
  BY <1>6, <1>7, <1>8 DEF Normal
<1> QED
  BY <1>1, <1>9 DEF Built, w, next

-----------------------------------------------------------------------------
(* What the requests begin *)

\* The request that takes opMu: all of Requests except StopService.
Begins ==
  /\ CanLock
  /\ op' \in Operation
  /\ op'.next \in RuntimeConfig /\ WellFormed(op'.next)
  /\ op'.next.selectors[Proxy] # Absent
  /\ op'.running = Started
  /\ Started => op'.activate
  /\ \/ /\ op'.tag = Absent
        /\ op'.pc = IF op'.activate THEN "apply" ELSE "save"
     \/ /\ op'.tag \in Tags
        /\ op'.node \in Nodes
        /\ op'.activate = Started
        /\ op'.pc = IF Started THEN "select" ELSE "save"
        /\ config.selectors[Proxy] # Absent =>
             /\ config.selectors[op'.tag] # Absent
             /\ op'.previous = config.selectors[op'.tag].selected
             /\ SameRules(config, op'.next)
             /\ op'.next.selectors[op'.tag].selected = op'.node
             /\ \A tag \in Tags : tag # op'.tag /\ config.selectors[tag] # Absent =>
                  op'.next.selectors[tag].selected \in {config.selectors[tag].selected, Direct}
  /\ UNCHANGED <<up, pool, config, durable, active, daemon>>

\* The record an operation on a whole configuration begins with.
LEMMA ApplySnapshotRecord ==
  ASSUME NEW next \in RuntimeConfig, NEW activate \in BOOLEAN, NEW running \in BOOLEAN,
         ApplySnapshot(next, activate, running)
  PROVE  /\ op' \in Operation
         /\ op'.next = next
         /\ op'.activate = activate
         /\ op'.running = running
         /\ op'.tag = Absent
         /\ op'.pc = IF activate THEN "apply" ELSE "save"
<1>1. op' = [pc |-> IF activate THEN "apply" ELSE "save", next |-> next,
             activate |-> activate, running |-> running, tag |-> Absent,
             node |-> Absent, previous |-> Absent]
  BY DEF ApplySnapshot, Unlocked
<1> QED
  BY <1>1 DEF Operation

\* A request that applies a wanted configuration.
LEMMA ApplyDesiredBegins ==
  ASSUME TypeOK, NEW value, Wanted(value), ApplyDesired(value)
  PROVE  Begins
<1>1. PICK next \in Built(value, pool) : ApplySnapshot(next, Started, Started)
  BY DEF ApplyDesired
<1>2. pool \in SUBSET Nodes
  BY DEF TypeOK
<1>3. next \in RuntimeConfig /\ WellFormed(next) /\ next.selectors[Proxy] # Absent
  BY <1>2, BuiltFacts DEF BuiltFrom
<1>4. Started \in BOOLEAN
  BY DEF Started
<1>5. CanLock /\ UNCHANGED <<up, pool, config, durable, active, daemon>>
  BY DEF ApplyDesired
<1> QED
  BY <1>1, <1>3, <1>4, <1>5, ApplySnapshotRecord DEF Begins

\* The current configuration is a wanted one, and has the routes' selectors.
LEMMA ConfigWanted ==
  ASSUME TypeOK, FormInv, CanLock
  PROVE  config \in RuntimeConfig /\ WellFormed(config) /\ Wanted(config)
BY TagFacts DEF TypeOK, FormInv, CanLock, Configurations, Wanted, WellFormed

\* UpdateRuntimeConfig
LEMMA UpdateBegins ==
  ASSUME TypeOK, FormInv, NEW settings \in Settings, UpdateRuntimeConfig(settings)
  PROVE  Begins
<1> DEFINE value == [config EXCEPT !.settings = settings]
<1>1. ApplyDesired(value) /\ CanLock
  BY DEF UpdateRuntimeConfig, ApplyDesired
<1>2. Wanted(value)
  BY <1>1, ConfigWanted DEF Wanted, RuntimeConfig
<1> HIDE DEF value
<1> QED
  BY <1>1, <1>2, ApplyDesiredBegins

\* UpsertRoute
LEMMA UpsertBegins ==
  ASSUME TypeOK, FormInv, NEW service \in Services, NEW domains \in SUBSET Domains,
         NEW node \in Nodes, NEW enabled \in BOOLEAN,
         UpsertRoute(service, domains, node, enabled)
  PROVE  Begins
<1> DEFINE selector == [nodes |-> Offered(pool), selected |-> node]
           route == [domains |-> domains, enabled |-> enabled]
           value == [config EXCEPT !.selectors[service] = selector, !.routes[service] = route]
<1>1. ApplyDesired(value) /\ CanLock
  BY DEF UpsertRoute
<1>2. selector \in Selector /\ Direct \in selector.nodes
  <2>1. Offered(pool) \in SUBSET Outbounds /\ Direct \in Offered(pool)
    BY TagFacts DEF TypeOK, Offered
  <2> QED
    BY <2>1, TagFacts DEF Selector
<1>3. route \in Route
  BY DEF Route
<1> HIDE DEF selector, route
<1>4. Wanted(value)
  BY <1>1, <1>2, <1>3, ConfigWanted, TagFacts DEF Wanted, RuntimeConfig
<1> HIDE DEF value
<1> QED
  BY <1>1, <1>4, ApplyDesiredBegins

\* DeleteRoute
LEMMA DeleteBegins ==
  ASSUME TypeOK, FormInv, NEW service \in Services, DeleteRoute(service)
  PROVE  Begins
<1> DEFINE value == [config EXCEPT !.selectors[service] = Absent, !.routes[service] = Absent]
<1>1. ApplyDesired(value) /\ CanLock
  BY DEF DeleteRoute
<1>2. Wanted(value)
  BY <1>1, ConfigWanted, TagFacts DEF Wanted, RuntimeConfig
<1> HIDE DEF value
<1> QED
  BY <1>1, <1>2, ApplyDesiredBegins

\* Start and Restart
LEMMA ActivateBegins ==
  ASSUME TypeOK, FormInv, CanLock, ActivateSavedRuntime(Started)
  PROVE  Begins
<1>1. PICK next \in Built(config, pool) : ApplySnapshot(next, TRUE, Started)
  BY DEF ActivateSavedRuntime
<1>2. pool \in SUBSET Nodes
  BY DEF TypeOK
<1>3. next \in RuntimeConfig /\ WellFormed(next) /\ next.selectors[Proxy] # Absent
  BY <1>2, BuiltFacts, ConfigWanted DEF BuiltFrom
<1>4. Started \in BOOLEAN
  BY DEF Started
<1>5. UNCHANGED <<up, pool, config, durable, active, daemon>>
  BY DEF ActivateSavedRuntime
<1> QED
  BY <1>1, <1>3, <1>4, <1>5, ApplySnapshotRecord DEF Begins

\* A request that switches one selector.
LEMMA SwitchBegins ==
  ASSUME TypeOK, CanLock, NEW tag \in Tags, NEW value, Wanted(value), NEW node \in pool,
         config \in RuntimeConfig,
         value.settings = config.settings, value.routes = config.routes,
         value.selectors[tag] # Absent, value.selectors[tag].selected = node,
         config.selectors[Proxy] # Absent =>
           /\ config.selectors[tag] # Absent
           /\ \A t \in Tags : (value.selectors[t] = Absent <=> config.selectors[t] = Absent)
           /\ \A t \in Tags : t # tag => value.selectors[t] = config.selectors[t],
         SwitchSelector(tag, value, node)
  PROVE  Begins
<1> DEFINE previous == IF config.selectors[tag] = Absent
                       THEN Absent ELSE config.selectors[tag].selected
<1>1. PICK next \in Built(value, pool) :
        op' = [pc |-> IF Started THEN "select" ELSE "save", next |-> next,
               activate |-> Started, running |-> Started, tag |-> tag, node |-> node,
               previous |-> previous]
  BY DEF SwitchSelector
<1>2. pool \in SUBSET Nodes
  BY DEF TypeOK
<1>3. /\ next \in RuntimeConfig /\ WellFormed(next)
      /\ BuiltFrom(value, next)
      /\ next.selectors[tag].selected = node
  BY <1>2, BuiltFacts
<1>4. Started \in BOOLEAN
  BY DEF Started
<1>5. UNCHANGED <<up, pool, config, durable, active, daemon>>
  BY DEF SwitchSelector
<1>6. previous \in Outbounds \cup {Absent}
  BY DEF RuntimeConfig, Selector
<1>7. node \in Nodes /\ node \in Outbounds
  BY <1>2, TagFacts
<1>8. ASSUME config.selectors[Proxy] # Absent
      PROVE  /\ config.selectors[tag] # Absent
             /\ previous = config.selectors[tag].selected
             /\ SameRules(config, next)
             /\ \A t \in Tags : t # tag /\ config.selectors[t] # Absent =>
                  next.selectors[t].selected \in {config.selectors[t].selected, Direct}
  <2>1. SameRules(config, next)
    BY <1>3, <1>8, TagFacts DEF SameRules, BuiltFrom, Tags
  <2>2. \A t \in Tags : t # tag /\ config.selectors[t] # Absent =>
          next.selectors[t].selected \in {config.selectors[t].selected, Direct}
    BY <1>3, <1>8 DEF BuiltFrom
  <2> QED
    BY <1>8, <2>1, <2>2
<1> HIDE DEF previous
<1>9. /\ op' \in Operation
      /\ op'.pc = IF Started THEN "select" ELSE "save"
      /\ op'.next = next
      /\ op'.activate = Started
      /\ op'.running = Started
      /\ op'.tag = tag
      /\ op'.node = node
      /\ op'.previous = previous
  BY <1>1, <1>3, <1>4, <1>6, <1>7 DEF Operation
<1>10. next.selectors[Proxy] # Absent
  BY <1>3 DEF BuiltFrom
<1> QED
  BY <1>3, <1>5, <1>7, <1>8, <1>9, <1>10 DEF Begins

\* SelectNode
LEMMA SelectNodeBegins ==
  ASSUME TypeOK, FormInv, NEW node \in Nodes, SelectNode(node)
  PROVE  Begins
<1> DEFINE base == WithProxy(config, node)
           value == [base EXCEPT !.selectors[Proxy].selected = node]
<1>1. CanLock /\ node \in pool /\ SwitchSelector(Proxy, value, node)
  BY DEF SelectNode
<1>2. config \in RuntimeConfig /\ Wanted(config)
  BY <1>1, ConfigWanted
<1>3. node \in Outbounds
  BY TagFacts
<1>4. /\ base \in RuntimeConfig
      /\ base.settings = config.settings
      /\ base.routes = config.routes
      /\ base.selectors[Proxy] # Absent
      /\ \A service \in Services : base.selectors[service] = config.selectors[service]
      /\ config.selectors[Proxy] # Absent => base = config
  BY <1>2, <1>3, WithProxyFacts
<1> HIDE DEF base
<1>5. base.selectors[Proxy] \in Selector
  BY <1>4, TagFacts DEF RuntimeConfig
<1> DEFINE new == [base.selectors[Proxy] EXCEPT !.selected = node]
<1>6. new \in Selector /\ new.selected = node
  BY <1>3, <1>5 DEF Selector
<1>7. value = [base EXCEPT !.selectors[Proxy] = new]
  OBVIOUS
<1>8. new # Absent
  BY <1>6, ConstantsAssumption
<1> HIDE DEF new, value
<1>9. /\ value \in RuntimeConfig
      /\ value.settings = config.settings
      /\ value.routes = config.routes
      /\ value.selectors[Proxy] = new
      /\ \A service \in Services : value.selectors[service] = config.selectors[service]
  BY <1>4, <1>6, <1>7, TagFacts DEF RuntimeConfig
<1>10. Wanted(value)
  BY <1>2, <1>9 DEF Wanted
<1>11. config.selectors[Proxy] # Absent =>
         /\ \A t \in Tags : (value.selectors[t] = Absent <=> config.selectors[t] = Absent)
         /\ \A t \in Tags : t # Proxy => value.selectors[t] = config.selectors[t]
  BY <1>8, <1>9 DEF Tags
<1> QED
  BY <1>1, <1>2, <1>6, <1>8, <1>9, <1>10, <1>11, TagFacts, SwitchBegins

\* SelectRouteNode
LEMMA SelectRouteNodeBegins ==
  ASSUME TypeOK, FormInv, NEW service \in Services, NEW node \in Nodes,
         SelectRouteNode(service, node)
  PROVE  Begins
<1> DEFINE value == [config EXCEPT !.selectors[service].selected = node]
<1>1. /\ CanLock /\ node \in pool /\ SwitchSelector(service, value, node)
      /\ config.selectors[service] # Absent
  BY DEF SelectRouteNode
<1>2. config \in RuntimeConfig /\ Wanted(config)
  BY <1>1, ConfigWanted
<1>3. node \in Outbounds /\ service \in Tags
  BY TagFacts
<1>5. config.selectors[service] \in Selector
  BY <1>1, <1>2, <1>3 DEF RuntimeConfig
<1> DEFINE new == [config.selectors[service] EXCEPT !.selected = node]
<1>6. /\ new \in Selector /\ new.selected = node
      /\ new.nodes = config.selectors[service].nodes
  BY <1>3, <1>5 DEF Selector
<1>7. value = [config EXCEPT !.selectors[service] = new]
  OBVIOUS
<1>8. new # Absent
  BY <1>6, ConstantsAssumption
<1> HIDE DEF new, value
<1>9. /\ value \in RuntimeConfig
      /\ value.settings = config.settings
      /\ value.routes = config.routes
      /\ value.selectors[service] = new
      /\ \A t \in Tags : t # service => value.selectors[t] = config.selectors[t]
  BY <1>2, <1>3, <1>6, <1>7 DEF RuntimeConfig
<1>10. Wanted(value)
  BY <1>1, <1>2, <1>3, <1>6, <1>9, TagFacts DEF Wanted
<1>11. \A t \in Tags : (value.selectors[t] = Absent <=> config.selectors[t] = Absent)
  BY <1>1, <1>8, <1>9
<1> QED
  BY <1>1, <1>2, <1>3, <1>6, <1>8, <1>9, <1>10, <1>11, SwitchBegins

\* A request takes opMu with a well-formed configuration, or stops the service.
LEMMA RequestsBegin ==
  ASSUME TypeOK, FormInv, Requests
  PROVE  StopService \/ Begins
<1>1. ASSUME NEW settings \in Settings, UpdateRuntimeConfig(settings) PROVE Begins
  BY <1>1, UpdateBegins
<1>2. ASSUME NEW service \in Services, NEW domains \in SUBSET Domains, NEW node \in Nodes,
             NEW enabled \in BOOLEAN, UpsertRoute(service, domains, node, enabled)
      PROVE  Begins
  BY <1>2, UpsertBegins
<1>3. ASSUME NEW service \in Services, DeleteRoute(service) PROVE Begins
  BY <1>3, DeleteBegins
<1>4. ASSUME Start PROVE Begins
  <2>1. Started = FALSE /\ CanLock /\ ActivateSavedRuntime(FALSE)
    BY <1>4 DEF Start, Started
  <2> QED
    BY <2>1, ActivateBegins
<1>5. ASSUME Restart PROVE Begins
  BY <1>5, ActivateBegins DEF Restart
<1>6. ASSUME NEW node \in Nodes, SelectNode(node) PROVE Begins
  BY <1>6, SelectNodeBegins
<1>7. ASSUME NEW service \in Services, NEW node \in Nodes, SelectRouteNode(service, node)
      PROVE  Begins
  BY <1>7, SelectRouteNodeBegins
<1> QED
  BY <1>1, <1>2, <1>3, <1>4, <1>5, <1>6, <1>7 DEF Requests

-----------------------------------------------------------------------------
(* Types, and the form of every configuration that is kept *)

\* A daemon that has loaded a configuration.
LEMMA LoadedFacts ==
  ASSUME NEW content \in RuntimeConfig
  PROVE  /\ Loaded(content) \in Daemon
         /\ Loaded(content).status = "STARTED"
         /\ Loaded(content).content = content /\ content # Absent
         /\ \A tag \in Tags : content.selectors[tag] # Absent =>
              Loaded(content).live[tag] = content.selectors[tag].selected
<1>1. \A tag \in Tags : content.selectors[tag] # Absent => content.selectors[tag].selected \in Outbounds
  BY DEF RuntimeConfig, Selector
<1> DEFINE live == [tag \in Tags |-> IF content.selectors[tag] = Absent
                                    THEN Absent ELSE content.selectors[tag].selected]
<1>2. live \in [Tags -> Outbounds \cup {Absent}]
  BY <1>1
<1>3. \A tag \in Tags : content.selectors[tag] # Absent => live[tag] = content.selectors[tag].selected
  OBVIOUS
<1>4. Loaded(content) = [status |-> "STARTED", content |-> content, live |-> live]
  BY DEF Loaded
<1>5. content # Absent
  BY ConstantsAssumption
<1> HIDE DEF live
<1> QED
  BY <1>2, <1>3, <1>4, <1>5 DEF Daemon

\* A stopped daemon.
LEMMA StoppedFacts ==
  ASSUME NEW status \in {"IDLE", "FATAL"}
  PROVE  /\ Stopped(status) \in Daemon
         /\ Stopped(status).status = status
         /\ Stopped(status).content = Absent
<1>1. Unchosen \in [Tags -> Outbounds \cup {Absent}]
  BY DEF Unchosen
<1> QED
  BY <1>1 DEF Stopped, Daemon

\* The configuration of a new installation is well formed.
LEMMA DefaultFacts ==
  /\ DefaultConfig \in RuntimeConfig
  /\ WellFormed(DefaultConfig)
<1>1. /\ DefaultConfig.settings = DefaultSettings
      /\ DefaultConfig.selectors = Unchosen
      /\ DefaultConfig.routes = [service \in Services |-> Absent]
      /\ \A tag \in Tags : DefaultConfig.selectors[tag] = Absent
      /\ \A service \in Services : DefaultConfig.routes[service] = Absent
  BY DEF DefaultConfig, Unchosen
<1>2. DefaultConfig \in RuntimeConfig
  BY ConstantsAssumption DEF DefaultConfig, RuntimeConfig, Unchosen
<1>3. WellFormed(DefaultConfig)
  BY <1>1, TagFacts DEF WellFormed, EnabledRoute
<1> QED
  BY <1>2, <1>3

\* The record of no operation.
LEMMA UnlockedFacts ==
  /\ Unlocked \in Operation
  /\ Unlocked.pc = "idle" /\ Unlocked.tag = Absent
BY DEF Unlocked, Operation

\* A step that only moves the operation on.
LEMMA MovedFacts ==
  ASSUME op \in Operation,
         NEW pc \in {"idle", "apply", "select", "save", "restore", "revert"},
         op' = [op EXCEPT !.pc = pc]
  PROVE  /\ op' \in Operation
         /\ op'.pc = pc
         /\ op'.next = op.next /\ op'.tag = op.tag /\ op'.node = op.node
         /\ op'.activate = op.activate /\ op'.running = op.running
         /\ op'.previous = op.previous
BY DEF Operation

Formed == TypeOK /\ FormInv

\* Initially nothing exists.
LEMMA InitFormed == Init => Formed
<1> SUFFICES ASSUME Init PROVE Formed
  OBVIOUS
<1>1. Stopped("IDLE") \in Daemon /\ Stopped("IDLE").content = Absent
      /\ Stopped("IDLE").status = "IDLE"
  BY StoppedFacts
<1> QED
  BY <1>1, UnlockedFacts DEF Init, Formed, TypeOK, FormInv, Configurations, Started

\* Beginning an operation.
LEMMA BeginsFormed ==
  ASSUME Formed, Begins
  PROVE  Formed'
<1> USE DEF Formed
<1>1. /\ op' \in Operation
      /\ op'.next \in RuntimeConfig /\ op'.next # Absent /\ WellFormed(op'.next)
      /\ up /\ UNCHANGED <<up, pool, config, durable, active, daemon>>
      /\ op'.pc \in {"select", "revert"} => op'.tag \in Tags
      /\ op'.tag # Absent => op'.node \in Nodes
  BY ConstantsAssumption DEF Begins, CanLock
<1>2. /\ op'.pc \in {"select", "revert"} => op'.tag # Absent
      /\ op'.tag # Absent => op'.node # Absent
  BY <1>1, ConstantsAssumption DEF Outbounds
<1>3. TypeOK'
  BY <1>1, <1>2 DEF TypeOK, Started, Configurations
<1>4. FormInv'
  <2>1. WellFormed(op.next)'
    BY <1>1 DEF WellFormed, EnabledRoute
  <2>2. (durable # Absent => WellFormed(durable))' /\ (config # Absent => WellFormed(config))'
    BY <1>1 DEF FormInv, WellFormed, EnabledRoute
  <2> QED
    BY <2>1, <2>2 DEF FormInv
<1> QED
  BY <1>3, <1>4

\* Steps of an operation and requests that change only the daemon.
LEMMA DaemonFormed ==
  ASSUME Formed, up, daemon' \in Daemon, (Started <=> daemon.content # Absent)',
         UNCHANGED <<up, pool, config, durable, active>>,
         op' \in Operation,
         op'.pc # "idle" => op.pc # "idle" /\ op'.next = op.next,
         op'.pc \in {"select", "revert"} => op'.tag # Absent,
         op'.tag # Absent => op'.node # Absent
  PROVE  Formed'
<1> USE DEF Formed
<1>1. TypeOK'
  BY DEF TypeOK, Configurations
<1>2. FormInv'
  BY DEF FormInv, WellFormed, EnabledRoute
<1> QED
  BY <1>1, <1>2

\* The process is gone.
LEMMA GoneFormed ==
  ASSUME Formed, Gone
  PROVE  Formed'
<1> USE DEF Formed
<1>1. Stopped("IDLE") \in Daemon /\ Stopped("IDLE").content = Absent
      /\ Stopped("IDLE").status = "IDLE"
  BY StoppedFacts
<1>2. TypeOK'
  BY <1>1, UnlockedFacts DEF Gone, TypeOK, Configurations, Started
<1>3. FormInv'
  BY UnlockedFacts DEF Gone, FormInv, WellFormed, EnabledRoute
<1> QED
  BY <1>2, <1>3

\* Loading and stopping leave a daemon that is started exactly when it has a
\* configuration.
LEMMA DaemonOutcome ==
  ASSUME \/ \E content \in RuntimeConfig : daemon' = Loaded(content)
         \/ \E status \in {"IDLE", "FATAL"} : daemon' = Stopped(status)
  PROVE  daemon' \in Daemon /\ (Started <=> daemon.content # Absent)'
BY LoadedFacts, StoppedFacts DEF Started

\* Saving.
LEMMA SaveFormed ==
  ASSUME Formed, Save
  PROVE  Formed'
<1> USE DEF Formed
<1>1. /\ op.pc = "save" /\ up /\ op \in Operation
      /\ op.next \in RuntimeConfig /\ op.next # Absent /\ WellFormed(op.next)
      /\ UNCHANGED <<up, pool, daemon>>
  BY DEF Save, TypeOK, FormInv, Operation
<1>2. CASE durable' = op.next /\ Swap /\ op' = Unlocked
  <2>1. config' = op.next /\ active' \in {op.next, active}
    BY <1>2 DEF Swap
  <2>2. TypeOK'
    BY <1>1, <1>2, <2>1, UnlockedFacts DEF TypeOK, Configurations, Started
  <2>3. FormInv'
    BY <1>1, <1>2, <2>1, UnlockedFacts DEF FormInv, WellFormed, EnabledRoute
  <2> QED
    BY <2>2, <2>3
<1>3. CASE op' = AfterFailedSave /\ UNCHANGED <<config, durable, active>>
  <2>1. CASE op' = Unlocked
    BY <1>1, <1>3, <2>1, UnlockedFacts, DaemonFormed DEF TypeOK, Started
  <2>2. CASE op.activate /\ op.tag = Absent /\ op' = [op EXCEPT !.pc = "restore"]
    <3>1. op' \in Operation /\ op'.pc = "restore" /\ op'.next = op.next /\ op'.tag = op.tag
      BY <1>1, <2>2, MovedFacts
    <3> QED
      BY <1>1, <1>3, <2>2, <3>1, DaemonFormed DEF TypeOK, Started
  <2>3. CASE op.activate /\ op.tag # Absent /\ op' = [op EXCEPT !.pc = "revert"]
    <3>1. /\ op' \in Operation /\ op'.pc = "revert" /\ op'.next = op.next
          /\ op'.tag = op.tag /\ op'.node = op.node
      BY <1>1, <2>3, MovedFacts
    <3>2. op.node # Absent
      BY <2>3 DEF TypeOK
    <3> QED
      BY <1>1, <1>3, <2>3, <3>1, <3>2, DaemonFormed DEF TypeOK, Started
  <2> QED
    BY <1>3, <2>1, <2>2, <2>3 DEF AfterFailedSave
<1> QED
  BY <1>2, <1>3 DEF Save

-----------------------------------------------------------------------------
(* The running configuration and the saved one *)

Ind == TypeOK /\ FormInv /\ SyncInv

\* What a well-formed configuration looks like once it is loaded.
LEMMA LoadedInStep ==
  ASSUME NEW value \in RuntimeConfig, WellFormed(value), value.selectors[Proxy] # Absent,
         daemon' = Loaded(value), config' = value, active' = value
  PROVE  InStep' /\ Follows(daemon.live, config)'
<1>1. /\ daemon'.content = value
      /\ \A tag \in Tags : value.selectors[tag] # Absent =>
           daemon'.live[tag] = value.selectors[tag].selected
  BY LoadedFacts
<1>2. \A tag \in Tags : value.selectors[tag] # Absent =>
        /\ Direct \in value.selectors[tag].nodes
        /\ value.selectors[tag].selected \in value.selectors[tag].nodes
  BY DEF WellFormed
<1>3. LiveMembers'
  BY <1>1, <1>2 DEF LiveMembers
<1>4. SameRules(daemon.content, config)'
  BY <1>1 DEF SameRules
<1>5. Follows(daemon.live, config)'
  BY <1>1 DEF Follows
<1> QED
  BY <1>3, <1>4, <1>5 DEF InStep

\* Initially nothing runs.
LEMMA InitInd == Init => Ind
<1> SUFFICES ASSUME Init PROVE Ind
  OBVIOUS
<1>1. ~Started /\ op.pc = "idle" /\ ~up
  BY StoppedFacts, UnlockedFacts DEF Init, Started
<1> QED
  BY <1>1, InitFormed DEF Formed, Ind, SyncInv

\* Agreement is about the configurations and the daemon only.
LEMMA AgreementKept ==
  ASSUME UNCHANGED <<config, active, daemon>>
  PROVE  /\ Started' = Started
         /\ InStep' = InStep
         /\ Follows(daemon.live, config)' = Follows(daemon.live, config)
<1>1. Started' = Started
  BY DEF Started
<1>2. LiveMembers' = LiveMembers
  BY DEF LiveMembers
<1>3. SameRules(daemon.content, config)' = SameRules(daemon.content, config)
  BY DEF SameRules
<1>4. Follows(daemon.live, config)' = Follows(daemon.live, config)
  BY DEF Follows
<1> QED
  BY <1>1, <1>2, <1>3, <1>4 DEF InStep

\* An operation begins where the daemon agrees with the manager.
LEMMA BeginsInd ==
  ASSUME Ind, Begins
  PROVE  Ind'
<1>1. Formed'
  BY BeginsFormed DEF Ind, Formed
<1>2. /\ up /\ op.pc = "idle"
      /\ UNCHANGED <<up, config, durable, active, daemon>>
      /\ durable = config
      /\ Started => InStep /\ Follows(daemon.live, config) /\ config.selectors[Proxy] # Absent
                    /\ active = config
  BY DEF Begins, CanLock, Ind, SyncInv, InStep
<1>3. /\ Started' = Started
      /\ InStep' = InStep
      /\ Follows(daemon.live, config)' = Follows(daemon.live, config)
  BY <1>2, AgreementKept
<1>4. CASE op'.tag = Absent /\ op'.pc = IF op'.activate THEN "apply" ELSE "save"
  <2>1. /\ op'.pc = "apply" => op'.activate /\ op'.running = Started'
                               /\ op'.next.selectors[Proxy] # Absent
        /\ op'.pc \in {"apply", "save"}
        /\ op'.pc = "save" => ~op'.activate /\ ~Started'
    BY <1>3, <1>4 DEF Begins
  <2>2. SyncInv'
    BY <1>2, <1>3, <1>4, <2>1 DEF SyncInv
  <2> QED
    BY <1>1, <2>2 DEF Ind, Formed
<1>5. CASE op'.tag \in Tags
  <2>1. op'.tag # Absent
    BY <1>5, ConstantsAssumption
  <2>2. /\ op'.pc = IF Started THEN "select" ELSE "save"
        /\ op'.activate = Started /\ op'.running = Started
        /\ Started => /\ config.selectors[op'.tag] # Absent
                      /\ op'.previous = config.selectors[op'.tag].selected
                      /\ SameRules(config, op'.next)
                      /\ op'.next.selectors[op'.tag].selected = op'.node
                      /\ \A tag \in Tags : tag # op'.tag /\ config.selectors[tag] # Absent =>
                           op'.next.selectors[tag].selected
                             \in {config.selectors[tag].selected, Direct}
    BY <1>2, <2>1 DEF Begins
  <2>3. Started => Switching'
    BY <1>2, <2>1, <2>2 DEF Switching
  <2>4. Started => SwitchOf(config, op.next)'
    BY <1>2, <2>2 DEF SwitchOf, SameRules
  <2>5. SyncInv'
    BY <1>2, <1>3, <2>1, <2>2, <2>3, <2>4 DEF SyncInv
  <2> QED
    BY <1>1, <2>5 DEF Ind, Formed
<1> QED
  BY <1>4, <1>5 DEF Begins

\* Stopping the service.
LEMMA StopInd ==
  ASSUME Ind, StopService
  PROVE  Ind'
<1>1. /\ up /\ op.pc = "idle" /\ durable = config
      /\ UNCHANGED <<up, pool, config, durable, active, op>>
      /\ \E status \in {"IDLE", "FATAL"} : daemon' = Stopped(status)
  BY DEF StopService, CanLock, Ind, SyncInv
<1>2. ~Started' /\ daemon' \in Daemon /\ (Started <=> daemon.content # Absent)'
  BY <1>1, StoppedFacts, DaemonOutcome DEF Started
<1>3. Formed'
  BY <1>1, <1>2, DaemonFormed DEF Ind, Formed, TypeOK
<1>4. SyncInv'
  BY <1>1, <1>2 DEF SyncInv
<1> QED
  BY <1>3, <1>4 DEF Ind, Formed

\* Applying the new configuration, which is loaded or brings the daemon down.
LEMMA ApplyInd ==
  ASSUME Ind, Apply
  PROVE  Ind'
<1>1. /\ up /\ op.pc = "apply" /\ durable = config
      /\ op \in Operation /\ op.next \in RuntimeConfig
      /\ UNCHANGED <<up, pool, config, durable, active>>
      /\ op.activate /\ op.tag = Absent /\ op.running = Started
      /\ op.next.selectors[Proxy] # Absent
      /\ op.running => active = config /\ config.selectors[Proxy] # Absent
  BY DEF Apply, Ind, TypeOK, SyncInv, InStep, Operation
<1>2. CASE daemon' = Loaded(op.next) /\ op' = [op EXCEPT !.pc = "save"]
  <2>1. /\ op' \in Operation /\ op'.pc = "save" /\ op'.next = op.next /\ op'.tag = op.tag
        /\ op'.node = op.node /\ op'.activate = op.activate /\ op'.running = op.running
    BY <1>1, <1>2, MovedFacts
  <2>2. daemon' \in Daemon /\ (Started <=> daemon.content # Absent)'
    BY <1>1, <1>2, DaemonOutcome
  <2>3. Formed'
    BY <1>1, <2>1, <2>2, DaemonFormed DEF Ind, Formed
  <2>4. (daemon = Loaded(op.next))'
    BY <1>2, <2>1 DEF Loaded
  <2>5. SyncInv'
    BY <1>1, <2>1, <2>4 DEF SyncInv
  <2> QED
    BY <2>3, <2>5 DEF Ind, Formed
<1>3. CASE daemon' = Stopped("FATAL") /\ op' = [op EXCEPT !.pc = "restore"]
  <2>1. /\ op' \in Operation /\ op'.pc = "restore" /\ op'.next = op.next /\ op'.tag = op.tag
        /\ op'.node = op.node /\ op'.activate = op.activate /\ op'.running = op.running
    BY <1>1, <1>3, MovedFacts
  <2>2. ~Started' /\ daemon' \in Daemon /\ (Started <=> daemon.content # Absent)'
    BY <1>3, StoppedFacts, DaemonOutcome DEF Started
  <2>3. Formed'
    BY <1>1, <2>1, <2>2, DaemonFormed DEF Ind, Formed
  <2>4. SyncInv'
    BY <1>1, <2>1, <2>2 DEF SyncInv
  <2> QED
    BY <2>3, <2>4 DEF Ind, Formed
<1> QED
  BY <1>2, <1>3 DEF Apply

\* The rollback brings the active configuration back, or nothing runs.
LEMMA RestoreInd ==
  ASSUME Ind, Restore
  PROVE  Ind'
<1>1. /\ up /\ op.pc = "restore" /\ durable = config
      /\ op' = Unlocked
      /\ UNCHANGED <<up, pool, config, durable, active>>
      /\ op.running => active = config /\ config.selectors[Proxy] # Absent
      /\ config \in RuntimeConfig /\ WellFormed(config)
  BY DEF Restore, Ind, TypeOK, FormInv, SyncInv, Configurations
<1>2. CASE op.running /\ daemon' = Loaded(active)
  <2>1. InStep' /\ Follows(daemon.live, config)'
    BY <1>1, <1>2, LoadedInStep
  <2>2. daemon' \in Daemon /\ (Started <=> daemon.content # Absent)'
    BY <1>1, <1>2, DaemonOutcome
  <2>3. Formed'
    BY <1>1, <2>2, UnlockedFacts, DaemonFormed DEF Ind, Formed
  <2>4. SyncInv'
    BY <1>1, <2>1, UnlockedFacts DEF SyncInv
  <2> QED
    BY <2>3, <2>4 DEF Ind, Formed
<1>3. CASE daemon' \in {Stopped("IDLE"), Stopped("FATAL")}
  <2>1. ~Started' /\ daemon' \in Daemon /\ (Started <=> daemon.content # Absent)'
    BY <1>3, StoppedFacts, DaemonOutcome DEF Started
  <2>2. Formed'
    BY <1>1, <2>1, UnlockedFacts, DaemonFormed DEF Ind, Formed
  <2>3. SyncInv'
    BY <1>1, <2>1, UnlockedFacts DEF SyncInv
  <2> QED
    BY <2>2, <2>3 DEF Ind, Formed
<1> QED
  BY <1>2, <1>3 DEF Restore, Restored

\* Switching one live selector changes what that selector uses and nothing else.
LEMMA SwitchedDaemon ==
  ASSUME daemon \in Daemon, NEW tag \in Tags, NEW node \in Outbounds,
         daemon' = [daemon EXCEPT !.live[tag] = node]
  PROVE  /\ daemon' \in Daemon
         /\ daemon'.status = daemon.status
         /\ daemon'.content = daemon.content
         /\ daemon'.live[tag] = node
         /\ \A t \in Tags : t # tag => daemon'.live[t] = daemon.live[t]
BY DEF Daemon

\* The live switch, or a refusal of it.
LEMMA SelectLiveInd ==
  ASSUME Ind, SelectLive
  PROVE  Ind'
<1>1. /\ up /\ op.pc = "select" /\ durable = config
      /\ op \in Operation /\ op.tag \in Tags /\ op.node \in Outbounds
      /\ daemon \in Daemon /\ (Started <=> daemon.content # Absent)
      /\ UNCHANGED <<up, pool, config, durable, active>>
      /\ Started /\ Switching /\ SwitchOf(config, op.next)
      /\ InStep /\ Follows(daemon.live, config)
      /\ op.tag # Absent /\ op.node # Absent
  BY DEF SelectLive, Ind, TypeOK, SyncInv, Operation
<1>2. CASE /\ Selectable(op.tag, op.node)
           /\ daemon' = [daemon EXCEPT !.live[op.tag] = op.node]
           /\ op' = [op EXCEPT !.pc = "save"]
  <2>1. /\ op' \in Operation /\ op'.pc = "save" /\ op'.next = op.next /\ op'.tag = op.tag
        /\ op'.node = op.node /\ op'.activate = op.activate /\ op'.running = op.running
        /\ op'.previous = op.previous
    BY <1>1, <1>2, MovedFacts
  <2>2. /\ daemon' \in Daemon
        /\ daemon'.status = daemon.status
        /\ daemon'.content = daemon.content
        /\ daemon'.live[op.tag] = op.node
        /\ \A t \in Tags : t # op.tag => daemon'.live[t] = daemon.live[t]
    BY <1>1, <1>2, SwitchedDaemon
  <2>3. Formed'
    BY <1>1, <2>1, <2>2, DaemonFormed DEF Ind, Formed, Started
  <2>4. op.node \in daemon.content.selectors[op.tag].nodes
    BY <1>2 DEF Selectable
  <2>5. LiveMembers'
    BY <1>1, <2>2, <2>4 DEF InStep, LiveMembers
  <2>6. SameRules(daemon.content, config)'
    BY <1>1, <2>2 DEF InStep, SameRules
  <2>7. InStep'
    BY <1>1, <2>5, <2>6 DEF InStep
  <2>8. Switching' /\ SwitchOf(config, op.next)'
    BY <1>1, <2>1 DEF Switching, SwitchOf, SameRules
  <2>9. \A tag \in Tags : tag # op'.tag /\ config'.selectors[tag] # Absent =>
          \/ daemon'.live[tag] = config'.selectors[tag].selected
          \/ config'.selectors[tag].selected = Direct
    BY <1>1, <2>1, <2>2 DEF Follows
  <2>10. config'.selectors[op'.tag].selected \in daemon'.content.selectors[op'.tag].nodes
    <3>1. config.selectors[op.tag] # Absent
      BY <1>1 DEF Switching
    <3>2. daemon.content.selectors[op.tag] # Absent
      BY <1>1, <3>1 DEF InStep, SameRules
    <3>3. /\ Direct \in daemon.content.selectors[op.tag].nodes
          /\ daemon.live[op.tag] \in daemon.content.selectors[op.tag].nodes
      BY <1>1, <3>2 DEF InStep, LiveMembers
    <3>4. config.selectors[op.tag].selected \in {daemon.live[op.tag], Direct}
      BY <1>1, <3>1 DEF Follows
    <3> QED
      BY <1>1, <2>1, <2>2, <3>3, <3>4
  <2>11. Started'
    BY <1>1, <2>2 DEF Started
  <2>12. Switched'
    BY <2>1, <2>2, <2>7, <2>8, <2>9, <2>10, <2>11 DEF Switched, Reverting
  <2>13. SyncInv'
    BY <1>1, <2>1, <2>12 DEF SyncInv, Switching
  <2> QED
    BY <2>3, <2>13 DEF Ind, Formed
<1>3. CASE op' = Unlocked /\ UNCHANGED daemon
  <2>1. Formed'
    BY <1>1, <1>3, UnlockedFacts, DaemonFormed DEF Ind, Formed, Started
  <2>2. /\ Started' = Started
        /\ InStep' = InStep
        /\ Follows(daemon.live, config)' = Follows(daemon.live, config)
    BY <1>1, <1>3, AgreementKept
  <2>3. SyncInv'
    BY <1>1, <1>3, <2>2, UnlockedFacts DEF SyncInv
  <2> QED
    BY <2>1, <2>3 DEF Ind, Formed
<1> QED
  BY <1>2, <1>3 DEF SelectLive

\* The way back to the selection that is reported.
LEMMA RevertInd ==
  ASSUME Ind, Revert
  PROVE  Ind' /\ Started' /\ op.running
<1>1. /\ up /\ op.pc = "revert" /\ durable = config
      /\ op \in Operation /\ op.tag \in Tags
      /\ daemon \in Daemon /\ (Started <=> daemon.content # Absent)
      /\ op' = Unlocked
      /\ UNCHANGED <<up, pool, config, durable, active>>
      /\ Reverting /\ Started /\ InStep /\ Switching
      /\ config \in RuntimeConfig
  BY DEF Revert, Ind, TypeOK, SyncInv, Operation, Reverting, Configurations
<1>2. config.selectors[op.tag] # Absent /\ op.previous = config.selectors[op.tag].selected /\ op.running
  BY <1>1 DEF Switching
<1>3. op.previous \in Outbounds /\ op.previous # Absent
  BY <1>1, <1>2, ConstantsAssumption DEF RuntimeConfig, Selector
<1>4. Selectable(op.tag, op.previous)
  BY <1>1, <1>2 DEF Selectable, Reverting, InStep, SameRules
<1>5. daemon' = [daemon EXCEPT !.live[op.tag] = op.previous]
  BY <1>3, <1>4 DEF Revert, RevertTarget
<1>6. /\ daemon' \in Daemon
      /\ daemon'.status = daemon.status
      /\ daemon'.content = daemon.content
      /\ daemon'.live[op.tag] = op.previous
      /\ \A t \in Tags : t # op.tag => daemon'.live[t] = daemon.live[t]
  BY <1>1, <1>3, <1>5, SwitchedDaemon
<1>7. Started'
  BY <1>1, <1>6 DEF Started
<1>8. Formed'
  BY <1>1, <1>6, UnlockedFacts, DaemonFormed DEF Ind, Formed, Started
<1>9. Follows(daemon.live, config)'
  BY <1>1, <1>2, <1>6 DEF Follows, Reverting
<1>10. LiveMembers'
  BY <1>1, <1>2, <1>6 DEF InStep, LiveMembers, Reverting
<1>11. SameRules(daemon.content, config)'
  BY <1>1, <1>6 DEF InStep, SameRules
<1>12. InStep'
  BY <1>1, <1>10, <1>11 DEF InStep
<1>13. SyncInv'
  BY <1>1, <1>7, <1>9, <1>12, UnlockedFacts DEF SyncInv
<1> QED
  BY <1>2, <1>7, <1>8, <1>13 DEF Ind, Formed

\* A saved operation leaves memory, the saved snapshot and the daemon agreed; one
\* that cannot be saved goes back.
LEMMA SaveInd ==
  ASSUME Ind, Save
  PROVE  Ind'
<1>1. Formed'
  BY SaveFormed DEF Ind, Formed
<1>2. /\ up /\ op.pc = "save" /\ durable = config
      /\ op \in Operation /\ op.next \in RuntimeConfig /\ WellFormed(op.next)
      /\ UNCHANGED <<up, pool, daemon>>
  BY DEF Save, Ind, TypeOK, FormInv, SyncInv, Operation
<1>3. Started' = Started
  BY <1>2 DEF Started
<1>4. CASE durable' = op.next /\ Swap /\ op' = Unlocked
  <2>1. /\ config' = op.next /\ durable' = config' /\ up' /\ op'.pc = "idle"
        /\ active' = IF op.activate THEN op.next ELSE active
    BY <1>2, <1>4, UnlockedFacts DEF Swap
  <2>2. ASSUME Started PROVE InStep' /\ Follows(daemon.live, config)'
    <3>1. op.activate
      BY <1>2, <2>2 DEF Ind, SyncInv
    <3>2. CASE op.tag = Absent
      <4>1. daemon' = Loaded(op.next) /\ op.next.selectors[Proxy] # Absent
        BY <1>2, <3>1, <3>2 DEF Ind, SyncInv
      <4> QED
        BY <1>2, <2>1, <3>1, <4>1, LoadedInStep
    <3>3. CASE op.tag # Absent
      <4>1. Switched
        BY <1>2, <3>1, <3>3 DEF Ind, SyncInv
      <4>2. /\ InStep /\ SwitchOf(config, op.next) /\ daemon.live[op.tag] = op.node
            /\ \A tag \in Tags : tag # op.tag /\ config.selectors[tag] # Absent =>
                 \/ daemon.live[tag] = config.selectors[tag].selected
                 \/ config.selectors[tag].selected = Direct
        BY <4>1 DEF Switched, Reverting
      <4>3. SameRules(daemon.content, config)'
        BY <1>2, <2>1, <4>2 DEF InStep, SwitchOf, SameRules
      <4>4. LiveMembers'
        BY <1>2, <4>2 DEF InStep, LiveMembers
      <4>5. config'.selectors[Proxy] # Absent
        BY <2>1, <4>2, TagFacts DEF InStep, SwitchOf, SameRules
      <4>6. Follows(daemon.live, config)'
        BY <1>2, <2>1, <4>2 DEF Follows, SwitchOf, SameRules
      <4> QED
        BY <2>1, <3>1, <4>3, <4>4, <4>5, <4>6 DEF InStep
    <3> QED
      BY <3>2, <3>3
  <2>3. SyncInv'
    BY <1>3, <2>1, <2>2 DEF SyncInv
  <2> QED
    BY <1>1, <2>3 DEF Ind, Formed
<1>5. CASE op' = AfterFailedSave /\ UNCHANGED <<config, durable, active>>
  <2>1. CASE ~op.activate
    <3>1. op'.pc = "idle" /\ ~Started'
      BY <1>2, <1>3, <1>5, <2>1, UnlockedFacts DEF AfterFailedSave, Ind, SyncInv
    <3>2. SyncInv'
      BY <1>2, <1>5, <3>1 DEF SyncInv
    <3> QED
      BY <1>1, <3>2 DEF Ind, Formed
  <2>2. CASE op.activate /\ op.tag = Absent
    <3>1. op' = [op EXCEPT !.pc = "restore"]
      BY <1>5, <2>2 DEF AfterFailedSave
    <3>2. /\ op'.pc = "restore" /\ op'.tag = Absent
          /\ op'.activate /\ op'.running = op.running
      BY <1>2, <2>2, <3>1, MovedFacts
    <3>3. op.running => active = config /\ config.selectors[Proxy] # Absent
      BY <1>2, <2>2 DEF Ind, SyncInv
    <3>4. SyncInv'
      BY <1>2, <1>5, <3>2, <3>3 DEF SyncInv
    <3> QED
      BY <1>1, <3>4 DEF Ind, Formed
  <2>3. CASE op.activate /\ op.tag # Absent
    <3>1. op' = [op EXCEPT !.pc = "revert"]
      BY <1>5, <2>3 DEF AfterFailedSave
    <3>2. /\ op'.pc = "revert" /\ op'.tag = op.tag /\ op'.previous = op.previous
          /\ op'.activate = op.activate /\ op'.running = op.running
      BY <1>2, <3>1, MovedFacts
    <3>3. Reverting
      BY <1>2, <2>3 DEF Ind, SyncInv, Switched
    <3>4. InStep' /\ Started'
      BY <1>2, <1>5, <3>3, AgreementKept DEF Reverting
    <3>5. Switching'
      BY <1>5, <3>2, <3>3 DEF Reverting, Switching
    <3>6. Reverting'
      BY <1>2, <1>5, <3>2, <3>3, <3>4, <3>5 DEF Reverting
    <3>7. SyncInv'
      BY <1>2, <1>5, <3>2, <3>6 DEF SyncInv
    <3> QED
      BY <1>1, <3>7 DEF Ind, Formed
  <2> QED
    BY <2>1, <2>2, <2>3
<1> QED
  BY <1>4, <1>5 DEF Save

\* Opening the manager and losing it.
LEMMA LifeInd ==
  ASSUME Ind, Open \/ Gone
  PROVE  Ind'
<1>1. CASE Open
  <2>1. /\ up' /\ durable' = config' /\ ~Started /\ op.pc = "idle"
        /\ config' = Initial
        /\ UNCHANGED <<pool, active, daemon, op>>
    BY <1>1 DEF Open, Ind, SyncInv
  <2>2. config' \in RuntimeConfig /\ WellFormed(config')
    BY <2>1, DefaultFacts DEF Initial, Ind, TypeOK, FormInv, Configurations
  <2>3. config' # Absent
    BY <2>2, ConstantsAssumption
  <2>4. TypeOK'
    BY <2>1, <2>2, <2>3 DEF Ind, TypeOK, Configurations, Started
  <2>5. FormInv'
    BY <2>1, <2>2 DEF FormInv, WellFormed, EnabledRoute
  <2>6. SyncInv'
    BY <2>1 DEF SyncInv, Started
  <2> QED
    BY <2>4, <2>5, <2>6 DEF Ind
<1>2. CASE Gone
  <2>1. Formed'
    BY <1>2, GoneFormed DEF Ind, Formed
  <2>2. ~up' /\ op'.pc = "idle" /\ ~Started'
    BY <1>2, UnlockedFacts, StoppedFacts DEF Gone, Started
  <2>3. SyncInv'
    BY <2>2 DEF SyncInv
  <2> QED
    BY <2>1, <2>3 DEF Ind, Formed
<1> QED
  BY <1>1, <1>2

\* Steps that concern neither the manager nor the daemon.
LEMMA OthersInd ==
  ASSUME Ind, pool' \in SUBSET Nodes, UNCHANGED <<up, config, durable, active, daemon, op>>
  PROVE  Ind'
<1>1. /\ Started' = Started
      /\ InStep' = InStep
      /\ Follows(daemon.live, config)' = Follows(daemon.live, config)
  BY AgreementKept
<1>2. TypeOK'
  BY <1>1 DEF Ind, TypeOK, Configurations
<1>3. FormInv'
  BY DEF Ind, FormInv, WellFormed, EnabledRoute
<1>4. Switching' = Switching /\ SwitchOf(config, op.next)' = SwitchOf(config, op.next)
  BY DEF Switching, SwitchOf, SameRules
<1>5. Reverting' = Reverting
  BY <1>1, <1>4 DEF Reverting
<1>6. Switched' = Switched
  BY <1>4, <1>5 DEF Switched
<1>7. (daemon = Loaded(op.next))' = (daemon = Loaded(op.next))
  BY DEF Loaded
<1>8. SyncInv'
  BY <1>1, <1>4, <1>5, <1>6, <1>7 DEF Ind, SyncInv
<1> QED
  BY <1>2, <1>3, <1>8 DEF Ind

\* Every step keeps the inductive invariant.
LEMMA NextInd == Ind /\ [Next]_vars => Ind'
<1> SUFFICES ASSUME Ind, [Next]_vars PROVE Ind'
  OBVIOUS
<1>1. CASE Requests
  BY <1>1, RequestsBegin, BeginsInd, StopInd DEF Ind
<1>2. CASE Progress
  BY <1>2, ApplyInd, RestoreInd, SelectLiveInd, RevertInd, SaveInd DEF Progress
<1>3. CASE Open \/ Close \/ Crash
  BY <1>3, LifeInd DEF Close, Crash
<1>4. CASE PoolChanges
  BY <1>4, OthersInd DEF PoolChanges
<1>5. CASE UNCHANGED vars
  BY <1>5, OthersInd DEF vars, Ind, TypeOK
<1> QED
  BY <1>1, <1>2, <1>3, <1>4, <1>5 DEF Next

\* The inductive invariant holds in every reachable state.
LEMMA Invariance == Spec => []Ind
<1>1. Init => Ind
  BY InitInd
<1>2. Ind /\ [Next]_vars => Ind'
  BY NextInd
<1> QED
  BY <1>1, <1>2, PTL DEF Spec

-----------------------------------------------------------------------------
(* Theorems *)

\* Every field of the manager and of the daemon keeps its type, and an operation
\* that holds opMu has a configuration to install.
THEOREM RuntimeTypeTheorem == Spec => []TypeOK
<1>1. Ind => TypeOK
  BY DEF Ind
<1> QED
  BY <1>1, Invariance, PTL

\* What has been saved can be built again for every pool of nodes.
THEOREM SavedStartsTheorem == Spec => []SavedStarts
<1>1. ASSUME Ind PROVE SavedStarts
  <2>1. durable # Absent => durable \in RuntimeConfig /\ WellFormed(durable)
    BY <1>1 DEF Ind, TypeOK, FormInv, Configurations
  <2> QED
    BY <2>1, WellFormedStarts DEF SavedStarts
<1> QED
  BY <1>1, Invariance, PTL

\* Between operations the daemon enforces the rules the manager has saved.
THEOREM RunningIsSavedTheorem == Spec => []RunningIsSaved
<1>1. Ind => RunningIsSaved
  BY DEF Ind, SyncInv, InStep, RunningIsSaved, Settled
<1> QED
  BY <1>1, Invariance, PTL

\* Between operations no selector uses a node that is neither the saved one nor,
\* after a fallback, the one it had; and the default proxy runs through the node of
\* its status whenever the status has it as available.
THEOREM NoOtherNodeTheorem == Spec => []NoOtherNode
<1>1. ASSUME Ind PROVE NoOtherNode
  <2> SUFFICES ASSUME Settled, Started
               PROVE  /\ Follows(daemon.live, config)
                      /\ config.selectors[Proxy] # Absent /\ ProxyStatus.state = "RUNNING"
                      /\ ProxyStatus.available => ProxyStatus.actual = daemon.live[Proxy]
    BY DEF NoOtherNode
  <2>1. InStep /\ Follows(daemon.live, config) /\ pool \subseteq Nodes
    BY <1>1 DEF Ind, TypeOK, SyncInv, Settled
  <2> DEFINE selected == config.selectors[Proxy].selected
  <2>2. ProxyStatus = [state |-> State, effective |-> Started, selected |-> selected,
                       actual |-> selected, available |-> selected \in pool]
    BY <2>1 DEF ProxyStatus, InStep
  <2>3. State = "RUNNING"
    BY DEF State, Started
  <2>4. selected \in pool => selected = daemon.live[Proxy]
    BY <2>1, TagFacts, ConstantsAssumption DEF InStep, Follows
  <2> QED
    BY <2>1, <2>2, <2>3, <2>4 DEF InStep
<1> QED
  BY <1>1, Invariance, PTL

\* A failed operation leaves the service running or stopped as it found it, unless
\* its rollback fails too.
THEOREM FailureTheorem == Spec => FailureKeepsRunning
<1> DEFINE Kept == op.pc \in {"restore", "revert"} /\ op'.pc = "idle" /\ up' =>
                     Started' = op.running \/ daemon'.status = "FATAL"
<1>1. ASSUME Ind, Next PROVE Kept
  <2> SUFFICES ASSUME op.pc \in {"restore", "revert"}, op'.pc = "idle", up'
               PROVE  Started' = op.running \/ daemon'.status = "FATAL"
    OBVIOUS
  <2>1. op.running \in BOOLEAN /\ up
    BY <1>1 DEF Ind, TypeOK, Operation
  <2>2. CASE Restore
    <3>1. CASE daemon' = Restored
      <4>1. CASE op.running
        <5>1. active \in RuntimeConfig
          BY <1>1, <2>2, <4>1 DEF Ind, TypeOK, SyncInv, Configurations, Restore
        <5> QED
          BY <3>1, <4>1, <5>1, LoadedFacts DEF Restored, Started
      <4>2. CASE ~op.running
        BY <2>1, <3>1, <4>2, StoppedFacts DEF Restored, Started
      <4> QED
        BY <4>1, <4>2
    <3>2. CASE daemon' = Stopped("FATAL")
      BY <3>2, StoppedFacts
    <3> QED
      BY <2>2, <3>1, <3>2 DEF Restore
  <2>3. CASE Revert
    BY <1>1, <2>1, <2>3, RevertInd DEF Started
  <2>4. ~Requests
    BY DEF Requests, CanLock, UpdateRuntimeConfig, UpsertRoute, DeleteRoute, ApplyDesired,
       Start, Restart, StopService, SelectNode, SelectRouteNode
  <2>5. ~Apply /\ ~SelectLive /\ ~Save
    BY DEF Apply, SelectLive, Save
  <2>6. ~Open /\ ~Close /\ ~Crash
    BY <2>1 DEF Open, Close, Crash, CanLock, Gone
  <2>7. ~PoolChanges
    BY DEF PoolChanges
  <2> QED
    BY <1>1, <2>2, <2>3, <2>4, <2>5, <2>6, <2>7 DEF Next, Progress
<1>2. Ind /\ [Next]_vars =>
        [op.pc \in {"restore", "revert"} /\ op'.pc = "idle" /\ up' =>
           Started' = op.running \/ daemon'.status = "FATAL"]_vars
  BY <1>1
<1> HIDE DEF Ind
<1> QED
  BY <1>2, Invariance, PTL DEF Spec, FailureKeepsRunning
=============================================================================
