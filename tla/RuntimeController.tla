-------------------------- MODULE RuntimeController --------------------------
(***************************************************************************)
(* The runtime controller (src/manager): the saved runtime configuration   *)
(* (settings, selectors, service routes), its copy in memory, and the      *)
(* embedded sing-box daemon that runs what is built from it and the pool   *)
(* of nodes.  Every RPC that changes something holds opMu from beginning   *)
(* to end; what it does outside the manager (reloading the daemon,         *)
(* switching a live selector, saving the snapshot, rolling back) is one    *)
(* action each, so that the pool changes and the process dies in between.   *)
(*                                                                         *)
(* A request that is refused before it touches anything (a missing node,   *)
(* an invalid setting, a configuration the daemon's check rejects, a       *)
(* cancelled context) changes nothing and is a stuttering step.            *)
(*                                                                         *)
(* Abstracted: the settings, except as one value a request sets; times,    *)
(* names and the pool's revision; the text of the built configuration,     *)
(* which is determined by the normalised model.  The selector tag          *)
(* "route-" + service is represented by the service.                       *)
(***************************************************************************)
EXTENDS FiniteSets

CONSTANTS
  Nodes,            \* node identifiers
  Services,         \* services a route can be made for
  Domains,          \* domain suffixes
  Settings,         \* valid runtime settings
  DefaultSettings,  \* those of a new installation
  Proxy,            \* tag of the default selector
  Direct,           \* the built-in direct outbound
  Absent            \* no selector, no route, no configuration

Tags      == {Proxy} \cup Services
Outbounds == Nodes \cup {Direct}

Selector == [nodes: SUBSET Outbounds, selected: Outbounds]
Route    == [domains: SUBSET Domains, enabled: BOOLEAN]

RuntimeConfig ==
  [settings: Settings,
   selectors: [Tags -> Selector \cup {Absent}],
   routes: [Services -> Route \cup {Absent}]]

ASSUME ConstantsAssumption ==
  /\ DefaultSettings \in Settings
  /\ Proxy \notin Services
  /\ Direct \notin Nodes
  /\ Absent \notin Selector \cup Route \cup RuntimeConfig \cup Outbounds \cup Tags

VARIABLES
  up,       \* the manager exists
  pool,     \* the available nodes of the enabled subscriptions
  config,   \* Manager.runtimeConfig
  durable,  \* the snapshot saved in the metadata store
  active,   \* Manager.config: the last configuration activated
  daemon,   \* the sing-box daemon: status, configuration, live selections
  op        \* the operation that holds opMu

vars == <<up, pool, config, durable, active, daemon, op>>

Unchosen == [tag \in Tags |-> Absent]

Stopped(status) == [status |-> status, content |-> Absent, live |-> Unchosen]

\* A daemon that has loaded a configuration starts from its default selections.
Loaded(content) ==
  [status |-> "STARTED", content |-> content,
   live |-> [tag \in Tags |->
     IF content.selectors[tag] = Absent
     THEN Absent ELSE content.selectors[tag].selected]]

Started == daemon.status = "STARTED"

Daemon ==
  [status: {"IDLE", "STARTED", "FATAL"}, content: RuntimeConfig \cup {Absent},
   live: [Tags -> Outbounds \cup {Absent}]]

\* activate: the new configuration is to run; running: the daemon ran before;
\* tag, node and previous belong to a switch of a live selector.
Operation ==
  [pc: {"idle", "apply", "select", "save", "restore", "revert"},
   next: RuntimeConfig \cup {Absent}, activate: BOOLEAN, running: BOOLEAN,
   tag: Tags \cup {Absent}, node: Outbounds \cup {Absent},
   previous: Outbounds \cup {Absent}]

Unlocked ==
  [pc |-> "idle", next |-> Absent, activate |-> FALSE, running |-> FALSE,
   tag |-> Absent, node |-> Absent, previous |-> Absent]

DefaultConfig ==
  [settings |-> DefaultSettings, selectors |-> Unchosen,
   routes |-> [service \in Services |-> Absent]]

Init ==
  /\ up = FALSE
  /\ pool = {}
  /\ config = Absent
  /\ durable = Absent
  /\ active = Absent
  /\ daemon = Stopped("IDLE")
  /\ op = Unlocked

-----------------------------------------------------------------------------
(* Building a configuration for a pool *)

\* The selector of the default proxy, made of the first available node when
\* there is none yet.
WithProxy(value, first) ==
  IF value.selectors[Proxy] # Absent THEN value
  ELSE [value EXCEPT !.selectors[Proxy] = [nodes |-> {}, selected |-> first]]

FirstNodes(nodes) == IF nodes = {} THEN {Direct} ELSE nodes

\* Nodes that left the pool leave the selectors; the default proxy always
\* offers the whole pool.
Members(tag, selector, nodes) ==
  LET filtered == selector.nodes \cap (nodes \cup {Direct})
  IN  IF tag = Proxy THEN nodes \cup {Direct}
      ELSE IF filtered = {} THEN {Direct} ELSE filtered

ReconciledMutant(value, nodes) ==
  [value EXCEPT !.selectors = [tag \in Tags |->
    IF @[tag] = Absent THEN Absent
    ELSE [nodes |-> Members(tag, @[tag], nodes), selected |-> @[tag].selected]]]

Reconciled(value, nodes) ==
  [value EXCEPT !.selectors = [tag \in Tags |->
    IF @[tag] = Absent THEN Absent
    ELSE [nodes |-> Members(tag, @[tag], nodes),
          selected |-> IF @[tag].selected \in nodes THEN @[tag].selected ELSE Direct]]]

EnabledRoute(value, service) ==
  value.routes[service] # Absent /\ value.routes[service].enabled

\* NormalizeRuntimeModel accepts the model.
Normal(value, nodes) ==
  /\ \A tag \in Tags : value.selectors[tag] # Absent =>
       /\ value.selectors[tag].nodes \subseteq nodes \cup {Direct}
       /\ value.selectors[tag].selected \in value.selectors[tag].nodes
  /\ \A service \in Services : value.routes[service] # Absent =>
       /\ value.selectors[service] # Absent
       /\ value.routes[service].domains # {}
  /\ \A s, t \in Services : s # t /\ EnabledRoute(value, s) /\ EnabledRoute(value, t) =>
       value.routes[s].domains \cap value.routes[t].domains = {}

\* The configurations normalizeDesired can return.
Built(wanted, nodes) ==
  {next \in {Reconciled(WithProxy(wanted, first), nodes) : first \in FirstNodes(nodes)} :
     Normal(next, nodes)}

-----------------------------------------------------------------------------
(* Operations that apply a whole configuration *)

CanLock == up /\ op.pc = "idle"

\* applySnapshot, once the checks have passed.
ApplySnapshot(next, activate, running) ==
  op' = [Unlocked EXCEPT !.pc = IF activate THEN "apply" ELSE "save",
           !.next = next, !.activate = activate, !.running = running]

\* applyDesired: what is running is reloaded, otherwise it is only saved.
ApplyDesired(wanted) ==
  /\ CanLock
  /\ \E next \in Built(wanted, pool) : ApplySnapshot(next, Started, Started)
  /\ UNCHANGED <<up, pool, config, durable, active, daemon>>

UpdateRuntimeConfig(settings) ==
  ApplyDesired([config EXCEPT !.settings = settings])

Offered(nodes) == nodes \cup {Direct}

UpsertRoute(service, domains, node, enabled) ==
  /\ CanLock
  /\ node \in pool
  /\ domains # {}
  /\ ApplyDesired([config EXCEPT
       !.selectors[service] = [nodes |-> Offered(pool), selected |-> node],
       !.routes[service] = [domains |-> domains, enabled |-> enabled]])

DeleteRoute(service) ==
  /\ CanLock
  /\ config.routes[service] # Absent
  /\ ApplyDesired([config EXCEPT !.selectors[service] = Absent,
                                 !.routes[service] = Absent])

ActivateSavedRuntime(running) ==
  /\ \E next \in Built(config, pool) : ApplySnapshot(next, TRUE, running)
  /\ UNCHANGED <<up, pool, config, durable, active, daemon>>

Start ==
  /\ CanLock
  /\ ~Started
  /\ ActivateSavedRuntime(FALSE)

Restart ==
  /\ CanLock
  /\ ActivateSavedRuntime(Started)

\* The daemon closes what runs before it tries the new configuration.
Apply ==
  /\ op.pc = "apply"
  /\ \/ /\ daemon' = Loaded(op.next)
        /\ op' = [op EXCEPT !.pc = "save"]
     \/ /\ daemon' = Stopped("FATAL")
        /\ op' = [op EXCEPT !.pc = "restore"]
  /\ UNCHANGED <<up, pool, config, durable, active>>

RestoreMutant == IF op.running THEN Loaded(op.next) ELSE Stopped("IDLE")

StoppingRestoreMutant == Stopped("IDLE")

\* What the rollback of a failed activation brings back.
Restored == IF op.running THEN Loaded(active) ELSE Stopped("IDLE")

\* The rollback: reload the last active configuration, or stop.
Restore ==
  /\ op.pc = "restore"
  /\ \/ daemon' = Restored
     \/ daemon' = Stopped("FATAL")
  /\ op' = Unlocked
  /\ UNCHANGED <<up, pool, config, durable, active>>

StopService ==
  /\ CanLock
  /\ Started
  /\ \E status \in {"IDLE", "FATAL"} : daemon' = Stopped(status)
  /\ UNCHANGED <<up, pool, config, durable, active, op>>

-----------------------------------------------------------------------------
(* Operations that switch one selector *)

\* A switch of a selector on the model, live when the daemon is running.
SwitchSelector(tag, wanted, node) ==
  /\ \E next \in Built(wanted, pool) :
       op' = [pc |-> IF Started THEN "select" ELSE "save", next |-> next,
              activate |-> Started, running |-> Started, tag |-> tag, node |-> node,
              previous |-> IF config.selectors[tag] = Absent
                           THEN Absent ELSE config.selectors[tag].selected]
  /\ UNCHANGED <<up, pool, config, durable, active, daemon>>

SelectNode(node) ==
  /\ CanLock
  /\ node \in pool
  /\ SwitchSelector(Proxy, [WithProxy(config, node) EXCEPT !.selectors[Proxy].selected = node],
                    node)

SelectRouteNode(service, node) ==
  /\ CanLock
  /\ node \in pool
  /\ config.routes[service] # Absent
  /\ config.selectors[service] # Absent
  /\ SwitchSelector(service, [config EXCEPT !.selectors[service].selected = node], node)

\* The running configuration has the selector and the selector has the node.
Selectable(tag, node) ==
  /\ Started
  /\ daemon.content.selectors[tag] # Absent
  /\ node \in daemon.content.selectors[tag].nodes

\* commitLiveSelector: SelectOutbound of the daemon.
SelectLive ==
  /\ op.pc = "select"
  /\ \/ /\ Selectable(op.tag, op.node)
        /\ daemon' = [daemon EXCEPT !.live[op.tag] = op.node]
        /\ op' = [op EXCEPT !.pc = "save"]
     \/ /\ ~Selectable(op.tag, op.node)
        /\ op' = Unlocked
        /\ UNCHANGED daemon
  /\ UNCHANGED <<up, pool, config, durable, active>>

RevertTargetMutant == op.node

\* The selection a failed save goes back to.
RevertTarget == op.previous

\* The error of the way back is ignored.
Revert ==
  /\ op.pc = "revert"
  /\ daemon' = IF RevertTarget # Absent /\ Selectable(op.tag, RevertTarget)
               THEN [daemon EXCEPT !.live[op.tag] = RevertTarget] ELSE daemon
  /\ op' = Unlocked
  /\ UNCHANGED <<up, pool, config, durable, active>>

-----------------------------------------------------------------------------
(* Saving, and the life of the manager *)

\* swapRuntime
Swap == /\ config' = op.next
        /\ active' = IF op.activate THEN op.next ELSE active

AfterFailedSaveMutant ==
  IF ~op.activate THEN Unlocked
  ELSE [op EXCEPT !.pc = IF op.tag = Absent THEN "apply" ELSE "select"]

\* Where an operation goes when its snapshot cannot be saved.
AfterFailedSave ==
  IF ~op.activate THEN Unlocked
  ELSE [op EXCEPT !.pc = IF op.tag = Absent THEN "restore" ELSE "revert"]

\* SaveSnapshot and what follows it.
Save ==
  /\ op.pc = "save"
  /\ \/ /\ durable' = op.next
        /\ Swap
        /\ op' = Unlocked
     \/ /\ op' = AfterFailedSave
        /\ UNCHANGED <<config, durable, active>>
  /\ UNCHANGED <<up, pool, daemon>>

InitialMutant == durable

Initial == IF durable = Absent THEN DefaultConfig ELSE durable

\* New: the saved configuration, or a default that is saved first.
Open ==
  /\ ~up
  /\ up' = TRUE
  /\ config' = Initial
  /\ durable' = config'
  /\ UNCHANGED <<pool, active, daemon, op>>

Gone ==
  /\ up' = FALSE
  /\ config' = Absent
  /\ active' = Absent
  /\ daemon' = Stopped("IDLE")
  /\ op' = Unlocked
  /\ UNCHANGED <<pool, durable>>

\* Close waits for the operation that holds opMu.
Close == CanLock /\ Gone

\* The process dies with the daemon in it, at any point of an operation.
Crash == up /\ op.pc # "idle" /\ Gone

\* Subscriptions are updated, enabled and removed at any time.
PoolChanges ==
  /\ \E nodes \in SUBSET Nodes : pool' = nodes
  /\ UNCHANGED <<up, config, durable, active, daemon, op>>

Requests ==
  \/ \E settings \in Settings : UpdateRuntimeConfig(settings)
  \/ \E service \in Services, domains \in SUBSET Domains, node \in Nodes,
        enabled \in BOOLEAN : UpsertRoute(service, domains, node, enabled)
  \/ \E service \in Services : DeleteRoute(service)
  \/ Start
  \/ Restart
  \/ StopService
  \/ \E node \in Nodes : SelectNode(node)
  \/ \E service \in Services, node \in Nodes : SelectRouteNode(service, node)

Progress ==
  \/ Apply
  \/ Restore
  \/ SelectLive
  \/ Revert
  \/ Save

Next ==
  \/ Requests
  \/ Progress
  \/ Open
  \/ Close
  \/ Crash
  \/ PoolChanges

Spec == Init /\ [][Next]_vars

\* An operation that holds opMu goes on: no step of it waits for a client.
FairSpec == Spec /\ WF_vars(Progress)

-----------------------------------------------------------------------------
(* The report on the default proxy *)

\* managerState.  The daemon is starting or stopping only within its own calls.
State ==
  CASE daemon.status = "IDLE"    -> "IDLE"
    [] daemon.status = "STARTED" -> "RUNNING"
    [] daemon.status = "FATAL"   -> "FAILED"

\* What GetProxyStatus says: nothing when there is no default selector yet.  It
\* reads the selector, the pool and the status one after the other; the node it
\* calls actual is the saved selection, not what the daemon has selected.
ProxyStatus ==
  LET selector == config.selectors[Proxy]
  IN  IF selector = Absent THEN Absent
      ELSE [state |-> State, effective |-> Started,
            selected |-> selector.selected,
            actual |-> IF Started THEN selector.selected ELSE Absent,
            available |-> selector.selected \in pool]

-----------------------------------------------------------------------------
(* Properties *)

Configurations == RuntimeConfig \cup {Absent}

\* Every variable keeps the type of the field of Manager, or of the daemon, it
\* stands for; an operation that holds opMu has a configuration to install.
TypeOK ==
  /\ up \in BOOLEAN
  /\ pool \in SUBSET Nodes
  /\ config \in Configurations /\ (up <=> config # Absent)
  /\ durable \in Configurations /\ (up => durable # Absent)
  /\ active \in Configurations
  /\ daemon \in Daemon /\ (Started <=> daemon.content # Absent)
  /\ op \in Operation
  /\ op.pc # "idle" => up /\ op.next # Absent
  /\ op.pc \in {"select", "revert"} => op.tag # Absent
  /\ op.tag # Absent => op.node # Absent

Settled == up /\ op.pc = "idle"

SameRules(a, b) ==
  /\ a.settings = b.settings
  /\ a.routes = b.routes
  /\ \A tag \in Tags : a.selectors[tag] # Absent <=> b.selectors[tag] # Absent

\* Between operations a running daemon enforces the settings and the routes the
\* manager reports and has saved, whatever failed or was rolled back before.
RunningIsSaved ==
  Settled /\ Started => SameRules(daemon.content, config) /\ durable = config

Follows(live, value) ==
  \A tag \in Tags : value.selectors[tag] # Absent =>
    live[tag] = value.selectors[tag].selected \/ value.selectors[tag].selected = Direct

\* Between operations a selector of a running daemon never uses a node other
\* than the one the manager has saved for it; it may be behind only where the
\* manager has fallen back to direct.  So the actual node of the default proxy's
\* status, a copy of the saved one that docs/GRPC.md says is read back from the
\* daemon, is the daemon's whenever the status has the node as available: a
\* fallback never is.
NoOtherNode ==
  Settled /\ Started =>
    /\ Follows(daemon.live, config)
    /\ config.selectors[Proxy] # Absent /\ ProxyStatus.state = "RUNNING"
    /\ ProxyStatus.available => ProxyStatus.actual = daemon.live[Proxy]

Startable(value) ==
  \A nodes \in SUBSET Nodes : Built(value, nodes) # {}

\* Whatever has been saved can be built again for every pool, however the
\* subscriptions change until the next start: the service is never locked out
\* by its own configuration.
SavedStarts == durable # Absent => Startable(durable)

\* A request that fails after it has begun leaves a running service running,
\* unless the rollback itself fails, and a stopped one stopped.
FailureKeepsRunning ==
  [][op.pc \in {"restore", "revert"} /\ op'.pc = "idle" /\ up' =>
       Started' = op.running \/ daemon'.status = "FATAL"]_vars

\* Every operation releases opMu.
OperationsEnd == up /\ op.pc # "idle" ~> op.pc = "idle"

-----------------------------------------------------------------------------
(* Inductive strengthenings of the invariants, for the proofs *)

\* What every configuration that was ever built satisfies, for whatever pool.
WellFormed(value) ==
  /\ \A tag \in Tags : value.selectors[tag] # Absent =>
       /\ Direct \in value.selectors[tag].nodes
       /\ value.selectors[tag].selected \in value.selectors[tag].nodes
  /\ \A service \in Services : value.routes[service] # Absent =>
       value.selectors[service] # Absent /\ value.routes[service].domains # {}
  /\ \A s, t \in Services : s # t /\ EnabledRoute(value, s) /\ EnabledRoute(value, t) =>
       value.routes[s].domains \cap value.routes[t].domains = {}

\* Every configuration that is kept anywhere can be built again.
FormInv ==
  /\ durable # Absent => WellFormed(durable)
  /\ config # Absent => WellFormed(config)
  /\ op.pc # "idle" => WellFormed(op.next)

\* The selection of every selector of the running configuration is a member.
LiveMembers ==
  \A tag \in Tags : daemon.content.selectors[tag] # Absent =>
    /\ Direct \in daemon.content.selectors[tag].nodes
    /\ daemon.live[tag] \in daemon.content.selectors[tag].nodes

\* next differs from the current configuration in the selection of one selector
\* and, for the others, in nodes that have left the pool.
SwitchOf(value, next) ==
  /\ SameRules(value, next)
  /\ next.selectors[op.tag].selected = op.node
  /\ \A tag \in Tags : tag # op.tag /\ value.selectors[tag] # Absent =>
       next.selectors[tag].selected \in {value.selectors[tag].selected, Direct}

\* The running configuration is the active one, up to nodes.
InStep ==
  /\ active = config
  /\ config.selectors[Proxy] # Absent
  /\ SameRules(daemon.content, config)
  /\ LiveMembers

\* The selector being switched goes back to what is reported for it.
Switching ==
  /\ op.activate /\ op.running /\ op.tag # Absent
  /\ config.selectors[op.tag] # Absent
  /\ op.previous = config.selectors[op.tag].selected

\* The switch can be taken back.
Reverting ==
  /\ Started /\ InStep /\ Switching
  /\ \A tag \in Tags : tag # op.tag /\ config.selectors[tag] # Absent =>
       \/ daemon.live[tag] = config.selectors[tag].selected
       \/ config.selectors[tag].selected = Direct
  /\ config.selectors[op.tag].selected \in daemon.content.selectors[op.tag].nodes

\* The daemon uses the new node; the switch can be saved or taken back.
Switched == Reverting /\ SwitchOf(config, op.next) /\ daemon.live[op.tag] = op.node

\* The running daemon agrees with the manager, and where an operation is under
\* way, what it needs to agree again once it has ended either way.
SyncInv ==
  /\ up => durable = config
  /\ ~up => op.pc = "idle" /\ ~Started
  /\ Started /\ op.pc \in {"idle", "apply", "select"} =>
       InStep /\ Follows(daemon.live, config)
  /\ op.pc = "apply" => op.activate /\ op.tag = Absent /\ op.running = Started
                        /\ op.next.selectors[Proxy] # Absent
  /\ op.pc = "restore" => op.activate /\ op.tag = Absent
  /\ op.pc \in {"save", "restore"} /\ op.activate /\ op.tag = Absent /\ op.running =>
       active = config /\ config.selectors[Proxy] # Absent
  /\ op.pc = "save" /\ ~op.activate => ~Started
  /\ op.pc = "save" /\ op.activate /\ op.tag = Absent =>
       daemon = Loaded(op.next) /\ op.next.selectors[Proxy] # Absent
  /\ op.pc = "select" => Started /\ Switching /\ SwitchOf(config, op.next)
  /\ op.pc = "save" /\ op.activate /\ op.tag # Absent => Switched
  /\ op.pc = "revert" => Reverting
=============================================================================
