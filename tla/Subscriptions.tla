--------------------------- MODULE Subscriptions ---------------------------
(***************************************************************************)
(* The subscription manager (src/subscriptions): one coordinator goroutine *)
(* that owns the in-memory snapshot and applies commands one at a time, a  *)
(* transactional store, and one update pipeline per subscription (a        *)
(* goroutine of a singleflight group) that copies a subscription, fetches  *)
(* and parses its document without any lock, and writes the copy back.     *)
(*                                                                         *)
(* An action is one coordinator command together with the local work that  *)
(* leads up to it, so everything two goroutines can interleave is a        *)
(* separate action.  A command whose store transaction fails and that has  *)
(* no failure state changes nothing and is a stuttering step.              *)
(*                                                                         *)
(* Abstracted: URLs, headers, error texts and traffic counters; resolved   *)
(* endpoints; the parsed nodes, represented by the version of the document *)
(* they came from; wall-clock time (an automatic update may become due at  *)
(* any moment).  Operators named ...Mutant are deliberate defects: nothing *)
(* in the specification uses them.                                         *)
(***************************************************************************)
EXTENDS Naturals

CONSTANTS
  Ids,              \* subscription identifiers
  Callers,          \* RPC handlers that may be in AddSubscription or Update
  Flights,          \* goroutines that can run an update pipeline
  Names,            \* display names
  Enabling,         \* values requests give to the enabled switch
  Automatic,        \* values requests give to the auto-update switch
  Intervals,        \* intervals a request or a server may give; 0: not given
  MinInterval,      \* minimumUpdateInterval
  DefaultInterval,  \* Options.DefaultUpdateInterval
  MaxVersion,       \* bound on the versions a server publishes
  Absent,           \* not a subscription: no entry in the map or the store
  Scheduler,        \* leader of the pipelines started by Run
  None              \* no id, no flight, no leader

Phases   == {"down", "running", "draining", "closing"}
Statuses == {"idle", "updating", "ready", "failed"}
Stages   == {"idle", "fetching", "parsing", "resolving", "persisting",
             "complete", "failed"}

\* nodes holds the version of the document they were taken from, and etag (ETag
\* and Last-Modified) the version it validates; 0 when there is none.  blind is
\* a history variable: since the last document, a "not modified" answer has
\* been recorded that did not answer the validator of the copy.
Subscription ==
  [name: Names, enabled: BOOLEAN, auto: BOOLEAN, interval: Nat,
   nodes: Nat, etag: Nat, blind: BOOLEAN, status: Statuses, stage: Stages]

ASSUME ConstantsAssumption ==
  /\ Enabling \subseteq BOOLEAN
  /\ Automatic \subseteq BOOLEAN
  /\ Intervals \subseteq Nat
  /\ MinInterval \in Nat \ {0}
  /\ DefaultInterval \in Nat
  /\ MaxVersion \in Nat \ {0}
  /\ Absent \notin Subscription
  /\ Scheduler \notin Callers
  /\ None \notin Ids \cup Flights \cup Callers \cup {Scheduler}

VARIABLES
  phase,    \* of the manager's life: see Phases
  items,    \* the coordinator's current state, published as the snapshot
  stored,   \* what the store holds
  flight,   \* the update pipelines
  caller,   \* RPC handlers waiting for an update
  server    \* the version each subscription's server publishes

vars == <<phase, items, stored, flight, caller, server>>

Outcomes ==
  [kind: {"none", "fetch", "parse", "notModified", "parsed"},
   version: Nat, tagged: BOOLEAN, suggested: Nat]

NoOutcome == [kind |-> "none", version |-> 0, tagged |-> FALSE, suggested |-> 0]

Working == {"announce", "fetch", "parse", "resolve", "commit"}

\* base is the copy beginUpdate hands to the pipeline; live says that the
\* context of the caller that started it has not been cancelled.
Pipeline ==
  [pc: Working \cup {"free", "claim"}, id: Ids \cup {None},
   leader: Callers \cup {Scheduler, None}, live: BOOLEAN,
   base: Subscription \cup {Absent}, outcome: Outcomes]

Free == [pc |-> "free", id |-> None, leader |-> None, live |-> FALSE,
         base |-> Absent, outcome |-> NoOutcome]

\* adding: the handler is AddSubscription with update_now.
Handler ==
  [pc: {"idle", "update", "wait", "rollback", "refused"}, id: Ids \cup {None},
   flight: Flights \cup {None}, adding: BOOLEAN]

Idle == [pc |-> "idle", id |-> None, flight |-> None, adding |-> FALSE]

Init ==
  /\ phase = "down"
  /\ items = [id \in Ids |-> Absent]
  /\ stored = [id \in Ids |-> Absent]
  /\ flight = [f \in Flights |-> Free]
  /\ caller = [c \in Callers |-> Idle]
  /\ server = [id \in Ids |-> 1]

-----------------------------------------------------------------------------
(* The coordinator *)

\* After the cancellation of its context the coordinator's select, and the
\* select of a caller, may still choose the command channel.
Accepting == phase # "down"

\* A caller may be told errManagerClosed although its command was applied.
ReplyLost == IF phase = "closing" THEN BOOLEAN ELSE {FALSE}

Present(id) == items[id] # Absent

\* A command that replaces one entry of the snapshot and of the store in one
\* transaction.
Write(id, item) ==
  /\ items' = [items EXCEPT ![id] = item]
  /\ stored' = [stored EXCEPT ![id] = item]

\* Load: an update that was interrupted is forgotten.
Recovered(item) ==
  IF item # Absent /\ item.status = "updating"
  THEN [item EXCEPT !.status = "idle", !.stage = "idle"]
  ELSE item

\* NewManager and Load: a new coordinator takes its state from the store.
Load ==
  /\ phase = "down"
  /\ phase' = "running"
  /\ items' = [id \in Ids |-> Recovered(stored[id])]
  /\ UNCHANGED <<stored, flight, caller, server>>

Cancelled(leader) ==
  [f \in Flights |->
    IF flight[f].leader = leader THEN [flight[f] EXCEPT !.live = FALSE] ELSE flight[f]]

\* The owner's Close stops the scheduler first; the pipelines it started go on
\* with a cancelled context.
StopScheduler ==
  /\ phase = "running"
  /\ phase' = "draining"
  /\ flight' = Cancelled(Scheduler)
  /\ UNCHANGED <<items, stored, caller, server>>

\* Close cancels the coordinator's context ...
Close ==
  /\ phase = "draining"
  /\ phase' = "closing"
  /\ UNCHANGED <<items, stored, flight, caller, server>>

Halt ==
  /\ phase' = "down"
  /\ items' = [id \in Ids |-> Absent]
  /\ flight' = [f \in Flights |-> Free]
  /\ caller' = [c \in Callers |-> Idle]
  /\ UNCHANGED <<stored, server>>

\* ... and waits for the coordinator to leave its loop.
Exit == phase = "closing" /\ Halt

\* The process dies: only the store survives.
Crash == phase \in {"running", "draining"} /\ Halt

-----------------------------------------------------------------------------
(* Commands of the RPC handlers *)

NewItem(name, enabled, auto, interval) ==
  [name |-> name, enabled |-> enabled, auto |-> auto, interval |-> interval,
   nodes |-> 0, etag |-> 0, blind |-> FALSE, status |-> "idle", stage |-> "idle"]

Add(id, name, enabled, auto, requested) ==
  LET interval == IF requested = 0 THEN DefaultInterval ELSE requested
  IN  /\ Accepting
      /\ ~Present(id)
      /\ interval >= MinInterval
      /\ Write(id, NewItem(name, enabled, auto, interval))

CanCall(c) == caller[c].pc \in {"idle", "refused"}

\* AddSubscription: with update_now the handler goes on to Update.
AddSubscription(c, id, name, enabled, auto, requested, updateNow) ==
  /\ CanCall(c)
  /\ Add(id, name, enabled, auto, requested)
  /\ \E lost \in ReplyLost :
       caller' = [caller EXCEPT ![c] =
         IF updateNow /\ ~lost
         THEN [pc |-> "update", id |-> id, flight |-> None, adding |-> TRUE]
         ELSE Idle]
  /\ UNCHANGED <<phase, flight, server>>

DiscardMutant(id) == items' = [items EXCEPT ![id] = Absent] /\ UNCHANGED stored

Discard(id) == Write(id, Absent)

Remove(id) ==
  /\ Accepting
  /\ Present(id)
  /\ Discard(id)

RemoveSubscription(id) ==
  /\ Remove(id)
  /\ UNCHANGED <<phase, flight, caller, server>>

\* modify: the whole current entry is changed, published and stored.
Modify(id, changed) ==
  /\ Accepting
  /\ Present(id)
  /\ Write(id, changed)
  /\ UNCHANGED <<phase, flight, caller, server>>

RenameSubscription(id, name) ==
  Modify(id, [items[id] EXCEPT !.name = name])

SetSubscriptionEnabled(id, enabled) ==
  Modify(id, [items[id] EXCEPT !.enabled = enabled])

IntervalAllowed(auto, interval) == auto => interval >= MinInterval

\* An interval below the minimum is accepted when automatic updates are off.
ConfigureSubscriptionUpdates(id, auto, interval) ==
  /\ IntervalAllowed(auto, interval)
  /\ Modify(id, [items[id] EXCEPT
       !.auto = auto,
       !.interval = IF interval > 0 THEN interval ELSE @])

-----------------------------------------------------------------------------
(* Callers of Update *)

InFlight(f, id) == flight[f].pc # "free" /\ flight[f].id = id

Launch(f, id, leader) ==
  /\ flight[f].pc = "free"
  /\ flight' = [flight EXCEPT ![f] =
       [Free EXCEPT !.pc = "claim", !.id = id, !.leader = leader, !.live = TRUE]]

IdleKeyMutant(id) == \A f \in Flights : InFlight(f, id) => flight[f].pc # "claim"

\* The singleflight group has no call under this key.
IdleKey(id) == \A f \in Flights : ~InFlight(f, id)

Await(c, id, f, adding) ==
  caller' = [caller EXCEPT ![c] =
    [pc |-> "wait", id |-> id, flight |-> f, adding |-> adding]]

\* DoChan: join the call in flight for this id, or start one.
Update(c, id, adding) ==
  /\ \E f \in Flights :
       /\ \/ InFlight(f, id) /\ UNCHANGED flight
          \/ IdleKey(id) /\ Launch(f, id, c)
       /\ Await(c, id, f, adding)
  /\ UNCHANGED <<phase, items, stored, server>>

UpdateSubscription(c, id) ==
  /\ phase # "down"
  /\ CanCall(c)
  /\ Update(c, id, FALSE)

UpdateAdded(c) ==
  /\ caller[c].pc = "update"
  /\ Update(c, caller[c].id, TRUE)

\* The scheduler of Run finds the subscription due.
UpdateDue(id) ==
  /\ phase = "running"
  /\ Present(id)
  /\ items[id].enabled
  /\ items[id].auto
  /\ IdleKey(id)
  /\ \E f \in Flights : Launch(f, id, Scheduler)
  /\ UNCHANGED <<phase, items, stored, caller, server>>

\* What a handler does with the result of its update.
Answered(handler, ok) ==
  IF handler.adding /\ ~ok
  THEN [handler EXCEPT !.pc = "rollback", !.flight = None]
  ELSE Idle

\* A handler's context ends: its Update returns ctx.Err(), the pipeline it
\* started goes on with a cancelled context.
Cancel(c) ==
  /\ caller[c].pc \in {"update", "wait"}
  /\ caller' = [caller EXCEPT ![c] = Answered(@, FALSE)]
  /\ flight' = Cancelled(c)
  /\ UNCHANGED <<phase, items, stored, server>>

Refused(handler) == [handler EXCEPT !.pc = "refused"]

\* AddSubscription gives up: remove the subscription, whatever happened to
\* the request's context.
Rollback(c) ==
  /\ caller[c].pc = "rollback"
  /\ \/ /\ Remove(caller[c].id)
        /\ caller' = [caller EXCEPT ![c] = Refused(@)]
     \/ \* not found, a failed transaction, or a closed manager
        /\ caller' = [caller EXCEPT ![c] = Idle]
        /\ UNCHANGED <<items, stored>>
  /\ UNCHANGED <<phase, flight, server>>

-----------------------------------------------------------------------------
(* The update pipeline *)

\* The stage of a subscription that is still there is shown.
StageShown(f, stage) ==
  LET id == flight[f].id
  IN  /\ Accepting
      /\ items' = IF Present(id) THEN [items EXCEPT ![id].stage = stage] ELSE items

\* The command fails: the context is cancelled or the manager closes.
StageSkipped(f) ==
  /\ ~flight[f].live \/ phase = "closing"
  /\ UNCHANGED items

\* setStage ignores the error of its command.
SetStage(f, stage) == StageShown(f, stage) \/ StageSkipped(f)

Advance(f, pc) == flight' = [flight EXCEPT ![f].pc = pc]

Settle(f, outcome) ==
  flight' = [flight EXCEPT ![f].pc = "commit", ![f].outcome = outcome]

FinishMutant(f, ok) ==
  /\ flight' = [flight EXCEPT ![f] = Free]
  /\ caller' = [c \in Callers |->
       IF flight[f].leader = c /\ caller[c].flight = f
       THEN Answered(caller[c], ok) ELSE caller[c]]

\* The goroutine ends: every caller that joined it gets the result.
Finish(f, ok) ==
  /\ flight' = [flight EXCEPT ![f] = Free]
  /\ caller' = [c \in Callers |->
       IF caller[c].pc = "wait" /\ caller[c].flight = f
       THEN Answered(caller[c], ok) ELSE caller[c]]

Marked(item) == [item EXCEPT !.status = "updating", !.stage = "fetching"]

\* beginUpdate hands out the entry as it was before the mark.
Claim(f) ==
  LET id == flight[f].id
  IN  /\ flight[f].pc = "claim"
      /\ Accepting
      /\ Present(id)
      /\ items' = [items EXCEPT ![id] = Marked(@)]
      /\ flight' = [flight EXCEPT ![f].pc = "announce", ![f].base = items[id]]
      /\ UNCHANGED <<phase, stored, caller, server>>

ClaimFailsMutant(f) ==
  LET id == flight[f].id
  IN  /\ flight[f].pc = "claim"
      /\ ~Present(id) \/ ~flight[f].live \/ phase = "closing"
      /\ Advance(f, "announce")
      /\ UNCHANGED <<phase, items, stored, caller, server>>

\* The subscription is gone, the context is cancelled or the manager closes:
\* in the last case the mark may have been made all the same.
ClaimFails(f) ==
  LET id == flight[f].id
  IN  /\ flight[f].pc = "claim"
      /\ \/ ~Present(id) \/ ~flight[f].live \/ phase = "closing"
      /\ \/ UNCHANGED items
         \/ /\ phase = "closing" /\ Present(id)
            /\ items' = [items EXCEPT ![id] = Marked(@)]
      /\ Finish(f, FALSE)
      /\ UNCHANGED <<phase, stored, server>>

Announce(f) ==
  /\ flight[f].pc = "announce"
  /\ SetStage(f, "fetching")
  /\ Advance(f, "fetch")
  /\ UNCHANGED <<phase, stored, caller, server>>

FetchFails(f) ==
  /\ flight[f].pc = "fetch"
  /\ Settle(f, [NoOutcome EXCEPT !.kind = "fetch"])
  /\ UNCHANGED <<phase, items, stored, caller, server>>

\* Status 304, with or without a validator of the version that the server
\* publishes.  Any is accepted: the request may have carried no validator, or
\* one from the headers the client gave the subscription.
FetchNotModified(f, tagged, suggested) ==
  /\ flight[f].pc = "fetch"
  /\ Settle(f, [kind |-> "notModified", version |-> server[flight[f].id],
                tagged |-> tagged, suggested |-> suggested])
  /\ UNCHANGED <<phase, items, stored, caller, server>>

\* A document arrives, with or without a validator.
FetchDocument(f, tagged, suggested) ==
  /\ flight[f].pc = "fetch"
  /\ flight' = [flight EXCEPT ![f].pc = "parse",
       ![f].outcome = [kind |-> "parsed", version |-> server[flight[f].id],
                       tagged |-> tagged, suggested |-> suggested]]
  /\ SetStage(f, "parsing")
  /\ UNCHANGED <<phase, stored, caller, server>>

ParseFails(f) ==
  /\ flight[f].pc = "parse"
  /\ Settle(f, [NoOutcome EXCEPT !.kind = "parse"])
  /\ UNCHANGED <<phase, items, stored, caller, server>>

ParseDocument(f) ==
  /\ flight[f].pc = "parse"
  /\ SetStage(f, "resolving")
  /\ Advance(f, "resolve")
  /\ UNCHANGED <<phase, stored, caller, server>>

Resolve(f) ==
  /\ flight[f].pc = "resolve"
  /\ SetStage(f, "persisting")
  /\ Advance(f, "commit")
  /\ UNCHANGED <<phase, stored, caller, server>>

Succeeded(outcome) == outcome.kind \in {"notModified", "parsed"}

SuggestionMutant(base, suggested) == IF suggested > 0 THEN suggested ELSE base.interval

\* applyHeaderMetadata: a suggested interval below the minimum is ignored.
Suggestion(base, suggested) ==
  IF suggested >= MinInterval THEN suggested ELSE base.interval

FilledMutant(base, outcome) ==
  [base EXCEPT !.nodes = outcome.version,
     !.etag = IF outcome.tagged THEN outcome.version ELSE @,
     !.blind = FALSE]

\* The nodes and the validator of a parsed document.
Filled(base, outcome) ==
  [base EXCEPT !.nodes = outcome.version,
     !.etag = IF outcome.tagged THEN outcome.version ELSE 0,
     !.blind = FALSE]

\* "Not modified" refreshes the validator and leaves the nodes.
Refreshed(base, outcome) ==
  [base EXCEPT !.etag = IF outcome.tagged THEN outcome.version ELSE @,
     !.blind = @ \/ base.etag # outcome.version]

\* The entry the pipeline writes: its copy with the outcome filled in.
Result(base, outcome) ==
  LET filled == IF outcome.kind = "parsed"
                THEN Filled(base, outcome) ELSE Refreshed(base, outcome)
  IN  IF Succeeded(outcome)
      THEN [filled EXCEPT !.status = "ready", !.stage = "complete",
                          !.interval = Suggestion(base, outcome.suggested)]
      ELSE [base EXCEPT !.status = "failed", !.stage = "failed"]

CommitFailureMutant(f) == items

UnsettledMutant(f) == [items EXCEPT ![flight[f].id] = Marked(flight[f].base)]

\* The state a failed commit falls back to.
CommitFailure(f) == [items EXCEPT ![flight[f].id] = flight[f].base]

\* The whole copy is written ...
CommitStored(f) ==
  /\ Accepting
  /\ Write(flight[f].id, Result(flight[f].base, flight[f].outcome))
  /\ \E lost \in ReplyLost : Finish(f, Succeeded(flight[f].outcome) /\ ~lost)

\* ... or the store refuses it ...
CommitRefused(f) ==
  /\ Accepting
  /\ items' = CommitFailure(f)
  /\ UNCHANGED stored
  /\ Finish(f, FALSE)

\* ... or the manager is closing.
CommitUnheard(f) ==
  /\ phase = "closing"
  /\ UNCHANGED <<items, stored>>
  /\ Finish(f, FALSE)

\* commit runs with context.WithoutCancel.
Commit(f) ==
  /\ flight[f].pc = "commit"
  /\ CommitStored(f) \/ CommitRefused(f) \/ CommitUnheard(f)
  /\ UNCHANGED <<phase, server>>

-----------------------------------------------------------------------------
(* The provider publishes a new document. *)
Publish(id) ==
  /\ server[id] < MaxVersion
  /\ server' = [server EXCEPT ![id] = @ + 1]
  /\ UNCHANGED <<phase, items, stored, flight, caller>>

Adding(id) ==
  \E c \in Callers, name \in Names, enabled \in Enabling, auto \in Automatic,
     requested \in Intervals, now \in BOOLEAN :
    AddSubscription(c, id, name, enabled, auto, requested, now)

Editing(id) ==
  \/ RemoveSubscription(id)
  \/ \E name \in Names : RenameSubscription(id, name)
  \/ \E enabled \in Enabling : SetSubscriptionEnabled(id, enabled)
  \/ \E auto \in Automatic, interval \in Intervals :
       ConfigureSubscriptionUpdates(id, auto, interval)

Calling(c) ==
  \/ \E id \in Ids : UpdateSubscription(c, id)
  \/ UpdateAdded(c)
  \/ Cancel(c)
  \/ Rollback(c)

FlightStep(f) ==
  \/ Claim(f)
  \/ ClaimFails(f)
  \/ Announce(f)
  \/ FetchFails(f)
  \/ \E tagged \in BOOLEAN, suggested \in Intervals :
       FetchNotModified(f, tagged, suggested) \/ FetchDocument(f, tagged, suggested)
  \/ ParseFails(f)
  \/ ParseDocument(f)
  \/ Resolve(f)
  \/ Commit(f)

Next ==
  \/ Load
  \/ StopScheduler
  \/ Close
  \/ Exit
  \/ Crash
  \/ \E id \in Ids : Adding(id) \/ Editing(id) \/ UpdateDue(id) \/ Publish(id)
  \/ \E c \in Callers : Calling(c)
  \/ \E f \in Flights : FlightStep(f)

Spec == Init /\ [][Next]_vars

\* Goroutines are scheduled, the HTTP client has a timeout, an update that was
\* added is requested, a failed add is rolled back.
Fairness ==
  /\ WF_vars(Exit)
  /\ \A f \in Flights : WF_vars(FlightStep(f))
  /\ \A c \in Callers : WF_vars(UpdateAdded(c)) /\ WF_vars(Rollback(c))

FairSpec == Spec /\ Fairness

-----------------------------------------------------------------------------
(* Properties *)

\* A pipeline that is not free works for some subscription, and holds a copy of
\* it once it has claimed it.
FlightOK(f) ==
  /\ f \in Pipeline
  /\ f.pc # "free" => f.id \in Ids
  /\ f.pc \in Working => f.base \in Subscription

\* A handler that is waiting, or was refused, knows its subscription.
HandlerOK(h) == h \in Handler /\ (h.pc # "idle" => h.id \in Ids)

\* Every variable keeps the type of the field of Manager it stands for.
TypeOK ==
  /\ phase \in Phases
  /\ items \in [Ids -> Subscription \cup {Absent}]
  /\ stored \in [Ids -> Subscription \cup {Absent}]
  /\ flight \in [Flights -> Pipeline] /\ \A f \in Flights : FlightOK(flight[f])
  /\ caller \in [Callers -> Handler] /\ \A c \in Callers : HandlerOK(caller[c])
  /\ server \in [Ids -> Nat]

\* At most one pipeline works for a subscription, however many handlers and
\* scheduler ticks ask for an update at the same time.
OneUpdatePerSubscription ==
  \A f, g \in Flights, id \in Ids : InFlight(f, id) /\ InFlight(g, id) => f = g

\* While the coordinator runs, a subscription shown as updating has a pipeline
\* that will settle it: no cancelled, failed or restarted update leaves the
\* transient status behind.
NoOrphanUpdating ==
  \A id \in Ids :
    /\ phase \in {"running", "draining"}
    /\ Present(id)
    /\ items[id].status = "updating"
    => \E f \in Flights : InFlight(f, id) /\ flight[f].pc \in Working

RateLimited(item) == item # Absent /\ item.auto => item.interval >= MinInterval

\* No path (adding, configuring, a server's suggestion, writing an old copy
\* back, a restart) leaves a subscription that the scheduler may update more
\* often than the minimum interval allows.
AutoUpdatesRateLimited ==
  \A id \in Ids : RateLimited(items[id]) /\ RateLimited(stored[id])

Backed(item) ==
  item # Absent /\ ~item.blind =>
    /\ item.etag # 0 => item.nodes = item.etag
    /\ item.status = "ready" => item.nodes # 0

\* Whatever documents, failures, refreshed validators, raced updates, failed
\* commits and restarts follow one another, a stored validator is the validator
\* of the stored nodes, and a subscription reported ready has nodes.  The one
\* exception is the code's own, and blind says where it applies: a provider
\* that answered "not modified" to a request without the validator of what it
\* publishes has the subscription reported ready whatever nodes it has.
ReadyMeansContent ==
  \A id \in Ids : Backed(items[id]) /\ Backed(stored[id])

\* What is durable is visible: a restart brings no subscription to light that
\* the running manager does not list.
NothingDurableIsHidden ==
  phase # "down" => \A id \in Ids : stored[id] # Absent => Present(id)

Regresses(before, after) ==
  before # Absent /\ after # Absent /\ after.nodes < before.nodes

\* A subscription that stays in the list, or in the store, keeps the last
\* usable nodes: a failed, cancelled, raced or unstorable update never puts
\* older nodes, or none, in their place.
NodesNeverRegress ==
  [][\A id \in Ids : ~Regresses(items[id], items'[id])
                  /\ ~Regresses(stored[id], stored'[id])]_vars

\* An update of a subscription always ends, whoever gave up waiting for it.
UpdatingEnds ==
  \A id \in Ids :
    Present(id) /\ items[id].status = "updating"
      ~> ~(Present(id) /\ items[id].status = "updating")

\* Every handler that asked for an update, and every rolled-back add, returns.
HandlersReturn ==
  \A c \in Callers : caller[c].pc \in {"update", "wait", "rollback"} ~> CanCall(c)

-----------------------------------------------------------------------------
(* Inductive strengthenings of the invariants, for the proofs *)

HasCopy(f) == flight[f].pc \in Working

\* A manager that is not there has no pipelines, handlers or snapshot.
DownIsEmpty ==
  phase = "down" =>
    /\ items = [id \in Ids |-> Absent]
    /\ flight = [f \in Flights |-> Free]
    /\ caller = [c \in Callers |-> Idle]

\* AutoUpdatesRateLimited for what the pipelines may write back as well.
RateInv ==
  /\ AutoUpdatesRateLimited
  /\ \A f \in Flights : HasCopy(f) => RateLimited(flight[f].base)

\* NoOrphanUpdating needs the state a failed commit falls back to.
OrphanInv ==
  /\ NoOrphanUpdating
  /\ phase \in {"running", "draining"} =>
       \A f \in Flights : HasCopy(f) => flight[f].base.status # "updating"

\* A pipeline has no outcome before it has a copy.
NoEarlyOutcome ==
  \A f \in Flights : ~HasCopy(f) => flight[f].outcome = NoOutcome

\* An outcome that certifies nodes has nodes to certify.
OutcomeBacked(f) ==
  Succeeded(flight[f].outcome) => flight[f].outcome.version # 0

\* ReadyMeansContent for the copies and outcomes of the pipelines as well.
ContentInv ==
  /\ ReadyMeansContent
  /\ \A id \in Ids : server[id] # 0
  /\ \A f \in Flights : HasCopy(f) => Backed(flight[f].base) /\ OutcomeBacked(f)

NoNewer(item, version) == item # Absent => item.nodes <= version

\* The store is not ahead of the snapshot, nor the snapshot of the server.
EntryBehind(id) ==
  /\ NoNewer(items[id], server[id])
  /\ NoNewer(stored[id], server[id])
  /\ Present(id) => NoNewer(stored[id], items[id].nodes)

\* What a pipeline may write back is as new as what it replaces.
CopyAhead(f) ==
  LET id == flight[f].id
      base == flight[f].base
      outcome == flight[f].outcome
  IN  /\ base.nodes <= server[id]
      /\ NoNewer(items[id], base.nodes)
      /\ NoNewer(stored[id], base.nodes)
      /\ outcome.kind = "parsed" =>
           base.nodes <= outcome.version /\ outcome.version <= server[id]

\* Nodes never run ahead of the server, nor of the copy of the pipeline at work.
VersionInv ==
  /\ \A id \in Ids : EntryBehind(id)
  /\ \A f \in Flights : HasCopy(f) => CopyAhead(f)

-----------------------------------------------------------------------------
(* What the documentation says and the code does not do *)

Appears(id) == items[id] = Absent /\ items'[id] # Absent

\* docs/GRPC.md: RemoveSubscription deletes the subscription.  Only adding it
\* again, or the start of the manager, makes it appear.
RemovedStaysRemoved ==
  [][\A id \in Ids : Appears(id) => Load \/ Adding(id)]_vars
=============================================================================
