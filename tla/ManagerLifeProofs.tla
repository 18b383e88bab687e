--------------------------- MODULE ManagerLifeProofs ---------------------------
(***************************************************************************)
(* Proofs about the life of the manager: the invariant of the start, on    *)
(* top of the invariant of RuntimeProofs, and the refinement that makes    *)
(* the start, with every place where it can fail, the one step Open of     *)
(* RuntimeController.                                                       *)
(***************************************************************************)
EXTENDS ManagerLife, RuntimeProofs

-----------------------------------------------------------------------------
(* The controller's steps in the life of the program *)

\* A program without a manager has no operation; only the pool can change.
LEMMA DownStep ==
  ASSUME ~up, op.pc = "idle", Requests \/ Progress \/ PoolChanges \/ Close \/ Crash
  PROVE  PoolChanges
BY DEF Requests, UpdateRuntimeConfig, UpsertRoute, DeleteRoute, ApplyDesired, Start, Restart,
       StopService, SelectNode, SelectRouteNode, CanLock, Progress, Apply, Restore,
       SelectLive, Revert, Save, Close, Crash

\* Every step of the controller is one of RuntimeController's.
LEMMA StepIsNext ==
  ASSUME ControllerStep
  PROVE  Next
BY DEF ControllerStep, Next

\* Starting to encrypt and to save changes nothing of the controller's.
LEMMA BootChanges ==
  ASSUME FindKey \/ SetKey \/ OpenDatabase \/ LoadStore \/ BootEnds
  PROVE  UNCHANGED vars /\ UNCHANGED <<listing, unseen>>
BY DEF FindKey, SetKey, OpenDatabase, LoadStore, BootEnds

\* Neither do the readers.
LEMMA ReadersChange ==
  ASSUME ListRoutes \/ \E service \in Services : RouteInfo(service)
  PROVE  UNCHANGED vars /\ UNCHANGED <<boot, ring, disk, unseen>>
BY DEF ListRoutes, RouteInfo

-----------------------------------------------------------------------------
(* The invariant of the controller holds while it starts *)

\* The last step of a start opens the manager with what is saved.
LEMMA ReadyOpens ==
  ASSUME LifeInv, Ready
  PROVE  Open /\ durable # Absent
<1>1. ~up /\ durable # Absent
  BY DEF LifeInv, LifeTypeOK, BootInv, BootAt, Ready
<1>2. config' = durable /\ durable' = durable
  BY <1>1 DEF Ready, Initial
<1> QED
  BY <1>1, <1>2 DEF Ready, Open

\* A default that is saved can be built.
LEMMA SaveDefaultInd ==
  ASSUME Ind, LifeInv, SaveDefault
  PROVE  Ind'
<1>1. /\ ~up /\ op.pc = "idle" /\ ~Started
      /\ durable' = DefaultConfig
      /\ UNCHANGED <<up, pool, config, active, daemon, op>>
  BY DEF LifeInv, LifeTypeOK, BootAt, SaveDefault, Ind, SyncInv
<1>2. TypeOK'
  BY <1>1, DefaultFacts DEF Ind, TypeOK, Configurations, Started
<1>3. FormInv'
  BY <1>1, DefaultFacts DEF Ind, FormInv
<1>4. SyncInv'
  BY <1>1 DEF SyncInv, Started
<1> QED
  BY <1>2, <1>3, <1>4 DEF Ind

LEMMA ControllerInd ==
  ASSUME Ind, LifeInv, [LifeNext]_<<vars, lifeVars>>
  PROVE  Ind'
<1>1. CASE Boot
  <2>1. CASE SaveDefault
    BY <2>1, SaveDefaultInd
  <2>2. CASE Ready
    BY <2>2, ReadyOpens, NextInd DEF Next
  <2>3. CASE FindKey \/ SetKey \/ OpenDatabase \/ LoadStore \/ BootEnds
    BY <2>3, BootChanges, NextInd
  <2> QED
    BY <1>1, <2>1, <2>2, <2>3 DEF Boot
<1>2. CASE ListRoutes \/ \E service \in Services : RouteInfo(service)
  BY <1>2, ReadersChange, NextInd
<1>3. CASE ControllerStep
  BY <1>3, StepIsNext, NextInd
<1>4. CASE UNCHANGED <<vars, lifeVars>>
  BY <1>4, NextInd
<1> QED
  BY <1>1, <1>2, <1>3, <1>4 DEF LifeNext

-----------------------------------------------------------------------------
(* The invariant of the start *)

LEMMA LifeStarts == LifeInit => Ind /\ LifeInv
<1> SUFFICES ASSUME LifeInit PROVE Ind /\ LifeInv
  OBVIOUS
<1>1. Ind
  BY InitInd DEF LifeInit
<1>2. LifeInv
  BY UnlockedFacts DEF LifeInit, Init, LifeInv, LifeTypeOK, BootInv, KeyFits, UnseenInv, Off,
     NoListing, BootAt, Steps
<1> QED
  BY <1>1, <1>2

-----------------------------------------------------------------------------

\* A step of the start keeps what the start has established.
LEMMA BootLife ==
  ASSUME Ind, LifeInv, Boot
  PROVE  LifeInv'
<1> USE DEF LifeInv, LifeTypeOK, BootInv, KeyFits, UnseenInv, BootAt, BootTo, Steps, vars
<1>1. ~up /\ listing = NoListing /\ op.pc = "idle"
  <2>1. ~up
    BY DEF Boot, FindKey, SetKey, OpenDatabase, LoadStore, SaveDefault, Ready, BootEnds
  <2> QED
    BY <2>1
<1>2. CASE FindKey
  BY <1>1, <1>2, LifeAssumption DEF FindKey, NewKey
<1>3. CASE SetKey
  BY <1>1, <1>3 DEF SetKey
<1>4. CASE OpenDatabase
  BY <1>1, <1>4, LifeAssumption DEF OpenDatabase
<1>5. CASE LoadStore
  BY <1>1, <1>5 DEF LoadStore, AfterLoad
<1>6. CASE SaveDefault
  <2>1. DefaultConfig # Absent
    BY DefaultFacts, ConstantsAssumption
  <2> QED
    BY <1>1, <1>6, <2>1 DEF SaveDefault
<1>7. CASE Ready
  BY <1>1, <1>7 DEF Ready, Off
<1>8. CASE BootEnds
  BY <1>1, <1>8 DEF BootEnds, Off
<1> QED
  BY <1>2, <1>3, <1>4, <1>5, <1>6, <1>7, <1>8 DEF Boot

\* A reader looks up services it has found.
LEMMA ReadersLife ==
  ASSUME Ind, LifeInv, ListRoutes \/ \E service \in Services : RouteInfo(service)
  PROVE  LifeInv'
<1>1. UNCHANGED <<up, durable, op, boot, ring, disk, unseen>>
  BY ReadersChange DEF vars
<1>2. up /\ listing' \in [left: SUBSET Services, whole: BOOLEAN]
  <2> USE DEF LifeInv, LifeTypeOK, NoListing
  <2>1. CASE ListRoutes
    BY <2>1 DEF ListRoutes
  <2>2. ASSUME NEW service \in Services, RouteInfo(service)
        PROVE  up /\ listing' \in [left: SUBSET Services, whole: BOOLEAN]
    <3>1. up
      BY <2>2 DEF RouteInfo
    <3>2. CASE \E whole \in BOOLEAN : listing' = [left |-> {}, whole |-> whole]
      BY <3>1, <3>2
    <3>3. CASE listing' = [listing EXCEPT !.left = @ \ {service}]
      BY <3>1, <3>3
    <3>4. \/ \E whole \in BOOLEAN : listing' = [left |-> {}, whole |-> whole]
          \/ listing' = [listing EXCEPT !.left = @ \ {service}]
      BY <2>2 DEF RouteInfo
    <3> QED
      BY <3>2, <3>3, <3>4
  <2> QED
    BY <2>1, <2>2
<1> QED
  BY <1>1, <1>2 DEF LifeInv, LifeTypeOK, BootInv, KeyFits, UnseenInv, BootAt

\* Where the manager is gone after a step, so are its requests and readers.
LEMMA ControllerLife ==
  ASSUME Ind, Ind', LifeInv, ControllerStep
  PROVE  LifeInv'
<1>1. /\ UNCHANGED <<boot, ring, disk, unseen>>
      /\ listing' = IF up' THEN listing ELSE NoListing
  BY DEF ControllerStep, StillRead
<1>2. listing' \in [left: SUBSET Services, whole: BOOLEAN] /\ (~up' => listing' = NoListing)
  BY <1>1 DEF LifeInv, LifeTypeOK, NoListing
<1>3. ~up => UNCHANGED <<up, durable>>
  BY DownStep DEF ControllerStep, PoolChanges, LifeInv, UnseenInv
<1>4. op'.pc # "idle" => up'
  BY DEF Ind, TypeOK
<1> QED
  BY <1>1, <1>2, <1>3, <1>4 DEF LifeInv, LifeTypeOK, BootInv, KeyFits, UnseenInv, BootAt

\* Both invariants together are inductive.
LEMMA LifeInvariance == LifeSpec => [](Ind /\ LifeInv)
<1>1. LifeInit => Ind /\ LifeInv
  BY LifeStarts
<1>2. Ind /\ LifeInv /\ [LifeNext]_<<vars, lifeVars>> => (Ind /\ LifeInv)'
  <2> SUFFICES ASSUME Ind, LifeInv, [LifeNext]_<<vars, lifeVars>>
               PROVE  Ind' /\ LifeInv'
    OBVIOUS
  <2>1. Ind'
    BY ControllerInd
  <2>2. CASE LifeNext
    BY <2>1, <2>2, BootLife, ReadersLife, ControllerLife DEF LifeNext
  <2>3. CASE UNCHANGED <<vars, lifeVars>>
    BY <2>1, <2>3 DEF vars, lifeVars, LifeInv, LifeTypeOK, BootInv, KeyFits, UnseenInv, BootAt
  <2> QED
    BY <2>1, <2>2, <2>3
<1> HIDE DEF Ind, LifeInv
<1> QED
  BY <1>1, <1>2, PTL DEF LifeSpec

-----------------------------------------------------------------------------
(* The theorems *)

\* Wherever a start fails or dies, the key ring has the key of the database.
THEOREM KeyFitsTheorem == LifeSpec => []KeyFits
<1>1. LifeInv => KeyFits
  BY DEF LifeInv
<1> QED
  BY <1>1, LifeInvariance, PTL

\* What has been saved can be built again, also while the program starts.
THEOREM LifeSavedStartsTheorem == LifeSpec => []SavedStarts
<1>1. Ind => SavedStarts
  BY WellFormedStarts DEF Ind, TypeOK, FormInv, SavedStarts, Configurations
<1> QED
  BY <1>1, LifeInvariance, PTL

-----------------------------------------------------------------------------
(* The refinement: with a default nobody has seen left out, the life of the  *)
(* program is one of RuntimeController's.  The operators of the abstract      *)
(* controller that do not mention durable are the ones of this module.       *)

LEMMA SameValues ==
  /\ Controller!DefaultConfig = DefaultConfig
  /\ Controller!Unlocked = Unlocked
  /\ Controller!Started = Started
  /\ \A status : Controller!Stopped(status) = Stopped(status)
  /\ \A content : Controller!Loaded(content) = Loaded(content)
BY DEF Controller!DefaultConfig, DefaultConfig, Controller!Unlocked, Unlocked,
       Controller!Started, Started, Controller!Stopped, Stopped, Controller!Loaded, Loaded,
       Controller!Unchosen, Unchosen, Controller!Tags, Tags

LEMMA SameForms ==
  /\ \A value, first : Controller!WithProxy(value, first) = WithProxy(value, first)
  /\ \A nodes : Controller!FirstNodes(nodes) = FirstNodes(nodes)
  /\ \A nodes : Controller!Offered(nodes) = Offered(nodes)
  /\ \A tag, selector, nodes : Controller!Members(tag, selector, nodes) = Members(tag, selector, nodes)
BY DEF Controller!WithProxy, WithProxy, Controller!FirstNodes, FirstNodes,
       Controller!Offered, Offered, Controller!Members, Members

LEMMA SameReconciled ==
  ASSUME NEW value, NEW nodes
  PROVE  Controller!Reconciled(value, nodes) = Reconciled(value, nodes)
BY SameForms DEF Controller!Reconciled, Reconciled, Controller!Tags, Tags

LEMMA SameNormal ==
  ASSUME NEW value, NEW nodes
  PROVE  Controller!Normal(value, nodes) <=> Normal(value, nodes)
BY DEF Controller!Normal, Normal, Controller!Tags, Tags, Controller!EnabledRoute, EnabledRoute

LEMMA SameBuilt ==
  ASSUME NEW value, NEW nodes
  PROVE  Controller!Built(value, nodes) = Built(value, nodes)
BY SameForms, SameReconciled, SameNormal DEF Controller!Built, Built

LEMMA SameApply ==
  ASSUME NEW wanted, ApplyDesired(wanted), Acknowledged = durable, Acknowledged' = durable'
  PROVE  Controller!ApplyDesired(wanted)
BY SameBuilt, SameValues
DEF Controller!ApplyDesired, ApplyDesired, Controller!CanLock, CanLock,
    Controller!ApplySnapshot, ApplySnapshot

LEMMA SameActivate ==
  ASSUME NEW running, ActivateSavedRuntime(running),
         Acknowledged = durable, Acknowledged' = durable'
  PROVE  Controller!ActivateSavedRuntime(running)
BY SameBuilt, SameValues
DEF Controller!ActivateSavedRuntime, ActivateSavedRuntime, Controller!ApplySnapshot, ApplySnapshot

LEMMA SameSwitch ==
  ASSUME NEW tag, NEW wanted, NEW node, SwitchSelector(tag, wanted, node),
         Acknowledged = durable, Acknowledged' = durable'
  PROVE  Controller!SwitchSelector(tag, wanted, node)
BY SameBuilt, SameValues DEF Controller!SwitchSelector, SwitchSelector

\* A request is a request of the abstract controller.
LEMMA RequestsMap ==
  ASSUME Requests, Acknowledged = durable, Acknowledged' = durable'
  PROVE  Controller!Requests
<1> USE DEF Controller!CanLock, CanLock
<1>1. ASSUME NEW settings \in Settings, UpdateRuntimeConfig(settings)
      PROVE  Controller!UpdateRuntimeConfig(settings)
  BY <1>1, SameApply DEF Controller!UpdateRuntimeConfig, UpdateRuntimeConfig
<1>2. ASSUME NEW service \in Services, NEW domains \in SUBSET Domains, NEW node \in Nodes,
             NEW enabled \in BOOLEAN, UpsertRoute(service, domains, node, enabled)
      PROVE  Controller!UpsertRoute(service, domains, node, enabled)
  BY <1>2, SameApply, SameForms DEF Controller!UpsertRoute, UpsertRoute
<1>3. ASSUME NEW service \in Services, DeleteRoute(service)
      PROVE  Controller!DeleteRoute(service)
  BY <1>3, SameApply DEF Controller!DeleteRoute, DeleteRoute
<1>4. ASSUME Start PROVE Controller!Start
  BY <1>4, SameActivate, SameValues DEF Controller!Start, Start
<1>5. ASSUME Restart PROVE Controller!Restart
  BY <1>5, SameActivate, SameValues DEF Controller!Restart, Restart
<1>6. ASSUME StopService PROVE Controller!StopService
  BY <1>6, SameValues DEF Controller!StopService, StopService
<1>7. ASSUME NEW node \in Nodes, SelectNode(node)
      PROVE  Controller!SelectNode(node)
  BY <1>7, SameSwitch, SameForms DEF Controller!SelectNode, SelectNode
<1>8. ASSUME NEW service \in Services, NEW node \in Nodes, SelectRouteNode(service, node)
      PROVE  Controller!SelectRouteNode(service, node)
  BY <1>8, SameSwitch DEF Controller!SelectRouteNode, SelectRouteNode
<1> QED
  BY <1>1, <1>2, <1>3, <1>4, <1>5, <1>6, <1>7, <1>8 DEF Requests, Controller!Requests

\* And so is every later step of an operation.
LEMMA ProgressMaps ==
  ASSUME Progress, Acknowledged = durable, Acknowledged' = durable'
  PROVE  Controller!Progress
<1> USE SameValues
<1>1. ASSUME Apply PROVE Controller!Apply
  BY <1>1 DEF Controller!Apply, Apply
<1>2. ASSUME Restore PROVE Controller!Restore
  BY <1>2 DEF Controller!Restore, Restore, Controller!Restored, Restored
<1>3. ASSUME SelectLive PROVE Controller!SelectLive
  BY <1>3 DEF Controller!SelectLive, SelectLive, Controller!Selectable, Selectable
<1>4. ASSUME Revert PROVE Controller!Revert
  BY <1>4 DEF Controller!Revert, Revert, Controller!RevertTarget, RevertTarget,
              Controller!Selectable, Selectable
<1>5. ASSUME Save PROVE Controller!Save
  BY <1>5 DEF Controller!Save, Save, Controller!Swap, Swap, Controller!AfterFailedSave,
              AfterFailedSave
<1> QED
  BY <1>1, <1>2, <1>3, <1>4, <1>5 DEF Progress, Controller!Progress

\* The end of the program is the abstract one's.
LEMMA EndMaps ==
  ASSUME Close \/ Crash, Acknowledged = durable, Acknowledged' = durable'
  PROVE  Controller!Close \/ Controller!Crash
BY SameValues DEF Controller!Close, Close, Controller!Crash, Crash, Controller!Gone, Gone,
                  Controller!CanLock, CanLock

\* A step of the controller with a manager is the abstract step.
LEMMA ControllerMaps ==
  ASSUME Ind, Ind', LifeInv, LifeInv', ControllerStep
  PROVE  Controller!Next
<1>1. CASE PoolChanges
  BY <1>1 DEF ControllerStep, PoolChanges, Controller!PoolChanges, Controller!Next, Acknowledged
<1>2. CASE up
  <2>1. ~unseen /\ ~unseen'
    BY <1>2 DEF LifeInv, UnseenInv, ControllerStep
  <2>2. Acknowledged = durable /\ Acknowledged' = durable'
    BY <2>1 DEF Acknowledged
  <2> QED
    BY <1>1, <2>2, RequestsMap, ProgressMaps, EndMaps DEF ControllerStep, Controller!Next
<1>3. CASE ~up
  BY <1>1, <1>3, DownStep DEF ControllerStep, LifeInv, UnseenInv
<1> QED
  BY <1>1, <1>2, <1>3

\* The start ends in the one step Open of the abstract controller; until then it
\* changes nothing of it.
LEMMA BootMaps ==
  ASSUME Ind, LifeInv, Boot
  PROVE  Controller!Open \/ UNCHANGED Controller!vars
<1>1. CASE SaveDefault
  <2>1. durable = Absent
    BY <1>1 DEF LifeInv, BootInv, SaveDefault
  <2>2. Acknowledged = Absent /\ Acknowledged' = Absent
    BY <1>1, <2>1 DEF Acknowledged, SaveDefault
  <2> QED
    BY <1>1, <2>2 DEF SaveDefault, Controller!vars
<1>2. CASE Ready
  <2>1. durable # Absent /\ ~up /\ durable' = durable /\ config' = durable
    BY <1>2, ReadyOpens DEF Open, Ready, Initial
  <2>2. Acknowledged' = durable
    BY <1>2, <2>1 DEF Acknowledged, Ready
  <2>3. Acknowledged = durable \/ (Acknowledged = Absent /\ durable = DefaultConfig)
    <3>1. CASE unseen
      BY <3>1 DEF Acknowledged, LifeInv, UnseenInv
    <3>2. CASE ~unseen
      BY <3>2 DEF Acknowledged
    <3> QED
      BY <3>1, <3>2
  <2>4. Controller!Initial = durable
    BY <2>1, <2>3, SameValues DEF Controller!Initial
  <2> QED
    BY <1>2, <2>1, <2>2, <2>4 DEF Ready, Controller!Open
<1>3. CASE FindKey \/ SetKey \/ OpenDatabase \/ LoadStore \/ BootEnds
  BY <1>3, BootChanges DEF vars, Controller!vars, Acknowledged
<1> QED
  BY <1>1, <1>2, <1>3 DEF Boot

\* Every step maps to a step or to a stutter.
LEMMA LifeMaps ==
  ASSUME Ind, Ind', LifeInv, LifeInv', [LifeNext]_<<vars, lifeVars>>
  PROVE  [Controller!Next]_Controller!vars
<1>1. CASE Boot
  BY <1>1, BootMaps DEF Controller!Next
<1>2. CASE ListRoutes \/ \E service \in Services : RouteInfo(service)
  BY <1>2, ReadersChange DEF vars, Controller!vars, Acknowledged
<1>3. CASE ControllerStep
  BY <1>3, ControllerMaps
<1>4. CASE UNCHANGED <<vars, lifeVars>>
  BY <1>4 DEF vars, lifeVars, Controller!vars, Acknowledged
<1> QED
  BY <1>1, <1>2, <1>3, <1>4 DEF LifeNext

\* The start, with all the places where it can fail, and the readers add nothing
\* to what RuntimeController allows.
THEOREM ImplementsControllerTheorem == LifeSpec => ImplementsController
<1>1. LifeInit => Controller!Init
  BY SameValues DEF LifeInit, Init, Controller!Init, Acknowledged
<1>2. Ind /\ Ind' /\ LifeInv /\ LifeInv' /\ [LifeNext]_<<vars, lifeVars>>
        => [Controller!Next]_Controller!vars
  BY LifeMaps
<1>3. LifeSpec => [](Ind /\ LifeInv)
  BY LifeInvariance
<1> HIDE DEF Ind, LifeInv
<1> QED
  BY <1>1, <1>2, <1>3, PTL DEF LifeSpec, ImplementsController, Controller!Spec

-----------------------------------------------------------------------------
(* What the manager reports *)

\* A route that is found has its selector: no ListRoutes meets one without.
LEMMA ListingKept ==
  ASSUME Ind, LifeInv, listing.whole, [LifeNext]_<<vars, lifeVars>>
  PROVE  listing'.whole
<1>1. ASSUME NEW service \in Services, RouteInfo(service)
      PROVE  listing'.whole
  <2>1. up
    BY <1>1 DEF LifeInv, LifeTypeOK, NoListing, RouteInfo
  <2>2. Found(service) => config.selectors[service] # Absent
    BY <2>1 DEF Ind, TypeOK, FormInv, WellFormed, Found
  <2>3. listing' = NoListing \/ listing' = [listing EXCEPT !.left = @ \ {service}]
    BY <1>1, <2>2 DEF RouteInfo
  <2> QED
    BY <2>3 DEF LifeInv, LifeTypeOK, NoListing
<1>2. CASE ListRoutes
  BY <1>2 DEF ListRoutes
<1>3. CASE Boot
  BY <1>3 DEF Boot, FindKey, SetKey, OpenDatabase, LoadStore, SaveDefault, Ready, BootEnds
<1>4. CASE ControllerStep
  BY <1>4 DEF ControllerStep, StillRead, NoListing
<1>5. CASE UNCHANGED <<vars, lifeVars>>
  BY <1>5 DEF lifeVars
<1> QED
  BY <1>1, <1>2, <1>3, <1>4, <1>5 DEF LifeNext

\* Between operations the routes reported as effective are in force.
LEMMA ReportsFollow ==
  ASSUME Ind, listing.whole
  PROVE  ReportsAreTrue
<1> SUFFICES ASSUME Settled, NEW s \in Services, Effective(s)
             PROVE  /\ daemon.content.routes[s] = config.routes[s]
                    /\ config.selectors[s].selected # Direct =>
                         daemon.live[s] = config.selectors[s].selected
  BY DEF ReportsAreTrue
<1>1. /\ InStep /\ Follows(daemon.live, config)
      /\ config \in RuntimeConfig /\ WellFormed(config)
  BY DEF Ind, TypeOK, FormInv, SyncInv, Settled, Configurations, Effective
<1>2. config.selectors[s] # Absent
  BY <1>1 DEF WellFormed, EnabledRoute, Effective
<1> QED
  BY <1>1, <1>2, TagFacts DEF InStep, SameRules, Follows

\* Between operations a route reported as effective is in force with the saved
\* domains, and through the saved node unless that is the fallback; and no
\* ListRoutes meets a route without its selector.
THEOREM ReportsAreTrueTheorem == LifeSpec => []ReportsAreTrue
<1>1. LifeInit => listing.whole
  BY DEF LifeInit, NoListing
<1>2. Ind /\ LifeInv /\ listing.whole /\ [LifeNext]_<<vars, lifeVars>> => (listing.whole)'
  BY ListingKept
<1>3. Ind /\ listing.whole => ReportsAreTrue
  BY ReportsFollow
<1>4. LifeSpec => [](Ind /\ LifeInv)
  BY LifeInvariance
<1> HIDE DEF Ind, LifeInv
<1> QED
  BY <1>1, <1>2, <1>3, <1>4, PTL DEF LifeSpec

=============================================================================
