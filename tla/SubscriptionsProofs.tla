------------------------- MODULE SubscriptionsProofs -------------------------
(***************************************************************************)
(* Theorems about Subscriptions, for every value of its constants: first   *)
(* what each step does to the entries and the copies, then the safety      *)
(* properties, each with its inductive step and its theorem.               *)
(***************************************************************************)
EXTENDS Subscriptions, TLAPS

\* Writing an entry keeps the types of the snapshot and of the store.
LEMMA WriteType ==
  ASSUME TypeOK, NEW id, NEW item \in Subscription \cup {Absent}, Write(id, item)
  PROVE  /\ items' \in [Ids -> Subscription \cup {Absent}]
         /\ stored' \in [Ids -> Subscription \cup {Absent}]
BY DEF TypeOK, Write

\* setStage keeps the type of the snapshot.
LEMMA SetStageType ==
  ASSUME TypeOK, NEW f \in Flights, NEW stage \in Stages,
         flight[f].id \in Ids, SetStage(f, stage)
  PROVE  items' \in [Ids -> Subscription \cup {Absent}]
<1>1. CASE UNCHANGED items
  BY <1>1 DEF TypeOK
<1>2. CASE Present(flight[f].id)
  <2> DEFINE id == flight[f].id
  <2>1. items[id] \in Subscription
    BY <1>2 DEF TypeOK, Present
  <2>2. [items[id] EXCEPT !.stage = stage] \in Subscription
    BY <2>1 DEF Subscription
  <2>3. items' = [items EXCEPT ![id].stage = stage] \/ UNCHANGED items
    BY <1>2 DEF SetStage, StageShown, StageSkipped
  <2> QED
    BY <2>2, <2>3 DEF TypeOK
<1> QED
  BY <1>1, <1>2 DEF SetStage, StageShown, StageSkipped

\* A handler that gets an answer stays well formed.
LEMMA AnsweredType ==
  ASSUME NEW h, NEW ok \in BOOLEAN, HandlerOK(h), h.pc # "idle"
  PROVE  HandlerOK(Answered(h, ok))
BY DEF Answered, Idle, Handler, HandlerOK

\* A finished pipeline is free, its callers are told.
LEMMA FinishType ==
  ASSUME TypeOK, NEW f \in Flights, NEW ok \in BOOLEAN, Finish(f, ok)
  PROVE  /\ flight' \in [Flights -> Pipeline]
         /\ \A g \in Flights : FlightOK(flight'[g])
         /\ caller' \in [Callers -> Handler]
         /\ \A c \in Callers : HandlerOK(caller'[c])
<1>1. FlightOK(Free)
  BY DEF Free, Pipeline, FlightOK, NoOutcome, Outcomes, Working
<1>2. ASSUME NEW c \in Callers
      PROVE  HandlerOK(caller'[c])
  <2>1. HandlerOK(caller[c])
    BY DEF TypeOK
  <2>2. caller[c].pc = "wait" => HandlerOK(Answered(caller[c], ok))
    BY <2>1, AnsweredType
  <2> QED
    BY <2>1, <2>2 DEF Finish
<1>3. \A g \in Flights : FlightOK(flight'[g])
  BY <1>1 DEF TypeOK, Finish
<1>4. flight' \in [Flights -> Pipeline]
  BY <1>1 DEF TypeOK, Finish, FlightOK
<1> QED
  BY <1>2, <1>3, <1>4 DEF Finish, HandlerOK

\* The pipelines of a cancelled context keep their type.
LEMMA CancelledType ==
  ASSUME TypeOK, NEW leader
  PROVE  /\ Cancelled(leader) \in [Flights -> Pipeline]
         /\ \A f \in Flights : FlightOK(Cancelled(leader)[f])
<1> SUFFICES ASSUME NEW f \in Flights
             PROVE  FlightOK([flight[f] EXCEPT !.live = FALSE]) /\ FlightOK(flight[f])
  BY DEF Cancelled, FlightOK
<1> QED
  BY DEF TypeOK, FlightOK, Pipeline

\* Starting a pipeline, whoever leads it.
LEMMA LaunchType ==
  ASSUME TypeOK, NEW f \in Flights, NEW id \in Ids,
         NEW leader \in Callers \cup {Scheduler}, Launch(f, id, leader)
  PROVE  /\ flight' \in [Flights -> Pipeline]
         /\ \A g \in Flights : FlightOK(flight'[g])
<1> DEFINE new == [Free EXCEPT !.pc = "claim", !.id = id, !.leader = leader, !.live = TRUE]
<1>1. FlightOK(new)
  BY DEF Free, FlightOK, Pipeline, NoOutcome, Outcomes, Working
<1>2. flight' = [flight EXCEPT ![f] = new]
  BY DEF Launch
<1> HIDE DEF new
<1> QED
  BY <1>1, <1>2 DEF TypeOK, FlightOK

\* The copy written back is a subscription.
LEMMA ResultType ==
  ASSUME NEW base \in Subscription, NEW outcome \in Outcomes
  PROVE  Result(base, outcome) \in Subscription
<1>1. Suggestion(base, outcome.suggested) \in Nat
  BY DEF Suggestion, Subscription, Outcomes
<1>2. Filled(base, outcome) \in Subscription
  BY DEF Filled, Subscription, Outcomes
<1>3. Refreshed(base, outcome) \in Subscription
  BY DEF Refreshed, Subscription, Outcomes
<1> QED
  BY <1>1, <1>2, <1>3 DEF Result, Subscription, Statuses, Stages

-----------------------------------------------------------------------------
\* Every step keeps the type invariant.
LEMMA TypeStep == TypeOK /\ [Next]_vars => TypeOK'
<1> SUFFICES ASSUME TypeOK, [Next]_vars PROVE TypeOK'
  OBVIOUS
<1> USE ConstantsAssumption
<1>1. CASE Load
  <2>1. ASSUME NEW id \in Ids
        PROVE  Recovered(stored[id]) \in Subscription \cup {Absent}
    <3>1. stored[id] \in Subscription \cup {Absent}
      BY DEF TypeOK
    <3>2. ASSUME NEW item \in Subscription
          PROVE  [item EXCEPT !.status = "idle", !.stage = "idle"] \in Subscription
      BY DEF Subscription, Statuses, Stages
    <3> QED
      BY <3>1, <3>2 DEF Recovered
  <2> QED
    BY <1>1, <2>1 DEF Load, TypeOK, Phases
<1>2. CASE StopScheduler
  BY <1>2, CancelledType DEF StopScheduler, TypeOK, Phases
<1>3. CASE Close
  BY <1>3 DEF Close, TypeOK, Phases
<1>4. CASE Exit \/ Crash
  <2>1. FlightOK(Free) /\ HandlerOK(Idle)
    BY DEF Free, Pipeline, FlightOK, NoOutcome, Outcomes, Working, Idle, Handler, HandlerOK
  <2>2. Halt
    BY <1>4 DEF Exit, Crash
  <2> QED
    BY <2>1, <2>2 DEF Halt, TypeOK, Phases, FlightOK, HandlerOK
<1>5. ASSUME NEW id \in Ids, Adding(id) PROVE TypeOK'
  <2> PICK c \in Callers, name \in Names, enabled \in Enabling, auto \in Automatic,
           requested \in Intervals, now \in BOOLEAN :
        AddSubscription(c, id, name, enabled, auto, requested, now)
    BY <1>5 DEF Adding
  <2>1. NewItem(name, enabled, auto, IF requested = 0 THEN DefaultInterval ELSE requested)
          \in Subscription
    BY DEF NewItem, Subscription, Statuses, Stages
  <2>2. /\ items' \in [Ids -> Subscription \cup {Absent}]
        /\ stored' \in [Ids -> Subscription \cup {Absent}]
    BY <2>1, WriteType DEF AddSubscription, Add
  <2>3. HandlerOK([pc |-> "update", id |-> id, flight |-> None, adding |-> TRUE])
    BY DEF HandlerOK, Handler
  <2>4. HandlerOK(Idle)
    BY DEF HandlerOK, Handler, Idle
  <2>5. caller' \in [Callers -> Handler] /\ \A d \in Callers : HandlerOK(caller'[d])
    <3> PICK h : HandlerOK(h) /\ caller' = [caller EXCEPT ![c] = h]
      BY <2>3, <2>4 DEF AddSubscription
    <3> QED
      BY DEF TypeOK, HandlerOK
  <2> QED
    BY <2>2, <2>5 DEF AddSubscription, TypeOK
<1>6. ASSUME NEW id \in Ids, Editing(id) PROVE TypeOK'
  <2>1. CASE RemoveSubscription(id)
    BY <2>1, WriteType DEF RemoveSubscription, Remove, Discard, TypeOK
  <2>2. ASSUME NEW changed \in Subscription, Modify(id, changed) PROVE TypeOK'
    BY <2>2, WriteType DEF Modify, TypeOK
  <2>3. Present(id) => items[id] \in Subscription
    BY DEF TypeOK, Present
  <2>4. ASSUME NEW name \in Names, RenameSubscription(id, name) PROVE TypeOK'
    <3>1. Present(id) => [items[id] EXCEPT !.name = name] \in Subscription
      BY <2>3 DEF Subscription
    <3> QED
      BY <2>2, <2>4, <3>1 DEF RenameSubscription, Modify
  <2>5. ASSUME NEW enabled \in Enabling, SetSubscriptionEnabled(id, enabled) PROVE TypeOK'
    <3>1. Present(id) => [items[id] EXCEPT !.enabled = enabled] \in Subscription
      BY <2>3 DEF Subscription
    <3> QED
      BY <2>2, <2>5, <3>1 DEF SetSubscriptionEnabled, Modify
  <2>6. ASSUME NEW auto \in Automatic, NEW interval \in Intervals,
               ConfigureSubscriptionUpdates(id, auto, interval)
        PROVE  TypeOK'
    <3> DEFINE new == [items[id] EXCEPT !.auto = auto,
                         !.interval = IF interval > 0 THEN interval ELSE @]
    <3>1. Present(id) => new \in Subscription
      BY <2>3 DEF Subscription
    <3>2. Present(id) /\ Modify(id, new)
      BY <2>6 DEF ConfigureSubscriptionUpdates, Modify
    <3> HIDE DEF new
    <3> QED
      BY <2>2, <3>1, <3>2
  <2> QED
    BY <1>6, <2>1, <2>4, <2>5, <2>6 DEF Editing
<1>7. ASSUME NEW id \in Ids, UpdateDue(id) PROVE TypeOK'
  BY <1>7, LaunchType DEF UpdateDue, TypeOK
<1>8. ASSUME NEW id \in Ids, Publish(id) PROVE TypeOK'
  BY <1>8 DEF Publish, TypeOK
<1>9. ASSUME NEW c \in Callers, Calling(c) PROVE TypeOK'
  <2>0. HandlerOK(caller[c])
    BY DEF TypeOK
  <2>1. ASSUME NEW id \in Ids, NEW adding \in BOOLEAN, Update(c, id, adding) PROVE TypeOK'
    <3> PICK f \in Flights : /\ \/ InFlight(f, id) /\ UNCHANGED flight
                                \/ IdleKey(id) /\ Launch(f, id, c)
                             /\ Await(c, id, f, adding)
      BY <2>1 DEF Update
    <3>1. flight' \in [Flights -> Pipeline] /\ \A g \in Flights : FlightOK(flight'[g])
      BY LaunchType DEF TypeOK
    <3>2. HandlerOK([pc |-> "wait", id |-> id, flight |-> f, adding |-> adding])
      BY DEF HandlerOK, Handler
    <3>3. caller' \in [Callers -> Handler] /\ \A d \in Callers : HandlerOK(caller'[d])
      BY <3>2 DEF Await, TypeOK, HandlerOK
    <3> QED
      BY <2>1, <3>1, <3>3 DEF Update, TypeOK
  <2>2. ASSUME NEW h, HandlerOK(h), caller' = [caller EXCEPT ![c] = h]
        PROVE  caller' \in [Callers -> Handler] /\ \A d \in Callers : HandlerOK(caller'[d])
    BY <2>2 DEF TypeOK, HandlerOK
  <2>3. CASE \E id \in Ids : UpdateSubscription(c, id)
    BY <2>3, <2>1 DEF UpdateSubscription
  <2>4. CASE UpdateAdded(c)
    BY <2>4, <2>1, <2>0 DEF UpdateAdded, HandlerOK
  <2>5. CASE Cancel(c)
    <3>1. HandlerOK(Answered(caller[c], FALSE))
      BY <2>0, <2>5, AnsweredType DEF Cancel
    <3> QED
      BY <2>2, <2>5, <3>1, CancelledType DEF Cancel, TypeOK
  <2>6. CASE Rollback(c)
    <3>1. HandlerOK(Refused(caller[c])) /\ HandlerOK(Idle)
      BY <2>0, <2>6 DEF Rollback, Refused, HandlerOK, Handler, Idle
    <3>2. caller' \in [Callers -> Handler] /\ \A d \in Callers : HandlerOK(caller'[d])
      BY <2>2, <2>6, <3>1 DEF Rollback
    <3> QED
      BY <2>6, <3>2, WriteType DEF Rollback, Remove, Discard, TypeOK
  <2> QED
    BY <1>9, <2>3, <2>4, <2>5, <2>6 DEF Calling
<1>10. ASSUME NEW f \in Flights, FlightStep(f) PROVE TypeOK'
  <2> DEFINE id == flight[f].id
  <2>0. FlightOK(flight[f])
    BY DEF TypeOK
  <2>1. ASSUME NEW g, FlightOK(g), flight' = [flight EXCEPT ![f] = g]
        PROVE  flight' \in [Flights -> Pipeline] /\ \A h \in Flights : FlightOK(flight'[h])
    BY <2>1 DEF TypeOK, FlightOK
  <2>2. ASSUME flight[f].pc \in Working, NEW pc \in Working, Advance(f, pc)
        PROVE  flight' \in [Flights -> Pipeline] /\ \A h \in Flights : FlightOK(flight'[h])
    <3>1. FlightOK([flight[f] EXCEPT !.pc = pc])
      BY <2>0, <2>2 DEF FlightOK, Pipeline, Working
    <3> QED
      BY <2>1, <2>2, <3>1 DEF Advance
  <2>3. ASSUME flight[f].pc \in Working, NEW pc \in Working, NEW outcome \in Outcomes,
               flight' = [flight EXCEPT ![f].pc = pc, ![f].outcome = outcome]
        PROVE  flight' \in [Flights -> Pipeline] /\ \A h \in Flights : FlightOK(flight'[h])
    <3>1. FlightOK([flight[f] EXCEPT !.pc = pc, !.outcome = outcome])
      BY <2>0, <2>3 DEF FlightOK, Pipeline, Working
    <3>2. flight' = [flight EXCEPT ![f] = [flight[f] EXCEPT !.pc = pc, !.outcome = outcome]]
      BY <2>3 DEF TypeOK
    <3> QED
      BY <2>1, <3>1, <3>2
  <2>4. ASSUME flight[f].pc # "free", Present(id), items' = [items EXCEPT ![id] = Marked(@)]
        PROVE  items' \in [Ids -> Subscription \cup {Absent}]
    <3>1. items[id] \in Subscription
      BY <2>0, <2>4 DEF TypeOK, Present, FlightOK
    <3>2. Marked(items[id]) \in Subscription
      BY <3>1 DEF Marked, Subscription, Statuses, Stages
    <3> QED
      BY <2>4, <3>2 DEF TypeOK
  <2>5. CASE Claim(f)
    <3>1. items[id] \in Subscription
      BY <2>0, <2>5 DEF Claim, TypeOK, Present, FlightOK
    <3>2. FlightOK([flight[f] EXCEPT !.pc = "announce", !.base = items[id]])
      BY <2>0, <2>5, <3>1 DEF Claim, FlightOK, Pipeline, Working
    <3>3. flight' = [flight EXCEPT ![f] =
                       [flight[f] EXCEPT !.pc = "announce", !.base = items[id]]]
      BY <2>5 DEF Claim, TypeOK
    <3> QED
      BY <2>1, <2>4, <2>5, <3>2, <3>3 DEF Claim, TypeOK
  <2>6. CASE ClaimFails(f)
    <3>1. items' \in [Ids -> Subscription \cup {Absent}]
      BY <2>4, <2>6 DEF ClaimFails, TypeOK
    <3> QED
      BY <2>6, <3>1, FinishType DEF ClaimFails, TypeOK
  <2>7. CASE Announce(f)
    BY <2>0, <2>2, <2>7, SetStageType DEF Announce, TypeOK, Working, FlightOK, Stages
  <2>8. CASE FetchFails(f)
    <3>1. [NoOutcome EXCEPT !.kind = "fetch"] \in Outcomes
      BY DEF NoOutcome, Outcomes
    <3> QED
      BY <2>3, <2>8, <3>1 DEF FetchFails, Settle, TypeOK, Working
  <2>9. ASSUME NEW tagged \in BOOLEAN, NEW suggested \in Intervals,
               FetchNotModified(f, tagged, suggested)
        PROVE  TypeOK'
    <3>1. [kind |-> "notModified", version |-> server[id], tagged |-> tagged,
           suggested |-> suggested] \in Outcomes
      BY <2>0, <2>9 DEF FetchNotModified, Outcomes, TypeOK, FlightOK
    <3> QED
      BY <2>3, <2>9, <3>1 DEF FetchNotModified, Settle, TypeOK, Working
  <2>10. ASSUME NEW tagged \in BOOLEAN, NEW suggested \in Intervals,
                FetchDocument(f, tagged, suggested)
         PROVE  TypeOK'
    <3>1. [kind |-> "parsed", version |-> server[id], tagged |-> tagged,
           suggested |-> suggested] \in Outcomes
      BY <2>0, <2>10 DEF FetchDocument, Outcomes, TypeOK, FlightOK
    <3> QED
      BY <2>0, <2>3, <2>10, <3>1, SetStageType
      DEF FetchDocument, TypeOK, Working, FlightOK, Stages
  <2>11. CASE ParseFails(f)
    <3>1. [NoOutcome EXCEPT !.kind = "parse"] \in Outcomes
      BY DEF NoOutcome, Outcomes
    <3> QED
      BY <2>3, <2>11, <3>1 DEF ParseFails, Settle, TypeOK, Working
  <2>12. CASE ParseDocument(f)
    BY <2>0, <2>2, <2>12, SetStageType DEF ParseDocument, TypeOK, Working, FlightOK, Stages
  <2>13. CASE Resolve(f)
    BY <2>0, <2>2, <2>13, SetStageType DEF Resolve, TypeOK, Working, FlightOK, Stages
  <2>14. CASE Commit(f)
    <3>1. flight[f].base \in Subscription /\ flight[f].outcome \in Outcomes
      BY <2>0, <2>14 DEF Commit, CommitStored, CommitRefused, CommitUnheard, FlightOK, Working, Pipeline
    <3>2. /\ items' \in [Ids -> Subscription \cup {Absent}]
          /\ stored' \in [Ids -> Subscription \cup {Absent}]
      BY <2>14, <3>1, ResultType, WriteType DEF Commit, CommitStored, CommitRefused, CommitUnheard, CommitFailure, TypeOK
    <3>3. \E ok \in BOOLEAN : Finish(f, ok)
      BY <2>14 DEF Commit, CommitStored, CommitRefused, CommitUnheard, Succeeded, ReplyLost
    <3> QED
      BY <2>14, <3>2, <3>3, FinishType DEF Commit, CommitStored, CommitRefused, CommitUnheard, TypeOK
  <2> QED
    BY <1>10, <2>5, <2>6, <2>7, <2>8, <2>9, <2>10, <2>11, <2>12, <2>13, <2>14 DEF FlightStep
<1>11. CASE UNCHANGED vars
  BY <1>11 DEF vars, TypeOK
<1> QED
  BY <1>1, <1>2, <1>3, <1>4, <1>5, <1>6, <1>7, <1>8, <1>9, <1>10, <1>11 DEF Next

\* Every reachable state of the manager is well typed: in particular a pipeline
\* never works without a subscription copied at its start.
THEOREM TypeCorrect == Spec => []TypeOK
<1>1. Init => TypeOK
  BY ConstantsAssumption DEF Init, TypeOK, Phases, FlightOK, Free, Pipeline, NoOutcome,
     Outcomes, Working, HandlerOK, Handler, Idle
<1>2. QED
  BY <1>1, TypeStep, PTL DEF Spec

-----------------------------------------------------------------------------
(* Mutual exclusion of the pipelines *)

\* The steps of a pipeline other than its end leave every pipeline where it is
\* in flight; its end removes it.
LEMMA FlightFrame ==
  ASSUME TypeOK, NEW f \in Flights, FlightStep(f)
  PROVE  /\ \A g \in Flights : g # f => flight'[g] = flight[g]
         /\ flight[f].pc # "free"
         /\ flight'[f] = Free \/ flight'[f].id = flight[f].id
         /\ UNCHANGED <<phase, server>>
<1>1. flight[f] \in Pipeline /\ flight \in [Flights -> Pipeline]
  BY DEF TypeOK
<1>2. /\ UNCHANGED <<phase, server>>
      /\ flight[f].pc # "free"
  BY DEF FlightStep, Claim, ClaimFails, Announce, FetchFails, FetchNotModified,
     FetchDocument, ParseFails, ParseDocument, Resolve, Commit
<1>3. CASE \E ok : Finish(f, ok)
  BY <1>1, <1>2, <1>3 DEF Finish
<1>4. CASE ClaimFails(f) \/ Commit(f)
  BY <1>3, <1>4 DEF ClaimFails, Commit, CommitStored, CommitRefused, CommitUnheard
<1>5. CASE Claim(f)
  BY <1>1, <1>2, <1>5 DEF Claim, Pipeline
<1>6. ASSUME NEW pc, Advance(f, pc)
      PROVE  (\A g \in Flights : g # f => flight'[g] = flight[g]) /\ flight'[f].id = flight[f].id
  BY <1>1, <1>6 DEF Advance, Pipeline
<1>8. CASE Announce(f) \/ ParseDocument(f) \/ Resolve(f)
  BY <1>2, <1>6, <1>8 DEF Announce, ParseDocument, Resolve
<1>9. CASE FetchFails(f) \/ ParseFails(f)
  BY <1>1, <1>2, <1>9 DEF FetchFails, ParseFails, Settle, Pipeline
<1>10. ASSUME NEW tagged \in BOOLEAN, NEW suggested \in Intervals,
              FetchNotModified(f, tagged, suggested)
       PROVE  (\A g \in Flights : g # f => flight'[g] = flight[g]) /\ flight'[f].id = flight[f].id
  BY <1>1, <1>10 DEF FetchNotModified, Settle, Pipeline
<1>11. ASSUME NEW tagged \in BOOLEAN, NEW suggested \in Intervals,
              FetchDocument(f, tagged, suggested)
       PROVE  (\A g \in Flights : g # f => flight'[g] = flight[g]) /\ flight'[f].id = flight[f].id
  BY <1>1, <1>11 DEF FetchDocument, Pipeline
<1> QED
  BY <1>2, <1>4, <1>5, <1>8, <1>9, <1>10, <1>11 DEF FlightStep

\* Nothing but its context has happened to a pipeline.
SameWork(f) ==
  /\ flight'[f].pc = flight[f].pc
  /\ flight'[f].id = flight[f].id
  /\ flight'[f].base = flight[f].base
  /\ flight'[f].outcome = flight[f].outcome

\* The steps of everything else leave the pipelines as they are, or only cancel
\* contexts, or start one under an idle key, or lose them all.
LEMMA CallFrame ==
  ASSUME TypeOK, [Next]_vars, \A f \in Flights : ~FlightStep(f)
  PROVE  \/ \A f \in Flights : SameWork(f)
         \/ \E f \in Flights, id \in Ids, leader \in Callers \cup {Scheduler} :
              Launch(f, id, leader) /\ IdleKey(id)
         \/ Halt
<1>0. UNCHANGED flight => \A f \in Flights : SameWork(f)
  BY DEF SameWork
<1>1. ASSUME NEW leader, flight' = Cancelled(leader)
      PROVE  \A f \in Flights : SameWork(f)
  BY <1>1 DEF Cancelled, TypeOK, Pipeline, SameWork
<1>2. ASSUME NEW c \in Callers, Calling(c)
      PROVE  \/ UNCHANGED flight
             \/ \E leader : flight' = Cancelled(leader)
             \/ \E f \in Flights, id \in Ids : Launch(f, id, c) /\ IdleKey(id)
  <2>1. caller[c].pc = "update" => caller[c].id \in Ids
    BY DEF TypeOK, HandlerOK
  <2> QED
    BY <1>2, <2>1 DEF Calling, UpdateSubscription, UpdateAdded, Update, Cancel, Rollback
<1>3. \/ UNCHANGED flight
      \/ \E leader : flight' = Cancelled(leader)
      \/ \E f \in Flights, id \in Ids, leader \in Callers \cup {Scheduler} :
           Launch(f, id, leader) /\ IdleKey(id)
      \/ Halt
  BY <1>2 DEF Next, vars, Load, StopScheduler, Close, Exit, Crash, Adding, Editing,
     AddSubscription, RemoveSubscription, RenameSubscription, SetSubscriptionEnabled,
     ConfigureSubscriptionUpdates, Modify, UpdateDue, Publish
<1> QED
  BY <1>0, <1>1, <1>3

\* Every step keeps at most one pipeline per subscription.
LEMMA OneUpdateStep ==
  TypeOK /\ OneUpdatePerSubscription /\ [Next]_vars => OneUpdatePerSubscription'
<1> SUFFICES ASSUME TypeOK, OneUpdatePerSubscription, [Next]_vars
             PROVE  OneUpdatePerSubscription'
  OBVIOUS
<1>1. CASE \E f \in Flights : FlightStep(f)
  <2> PICK f \in Flights : FlightStep(f)
    BY <1>1
  <2>1. \A g \in Flights : g # f => flight'[g] = flight[g]
    BY FlightFrame
  <2>2. \A id \in Ids : flight'[f].pc # "free" /\ flight'[f].id = id => InFlight(f, id)
    BY FlightFrame DEF Free, InFlight
  <2> SUFFICES ASSUME NEW g \in Flights, NEW h \in Flights, NEW id \in Ids,
                      InFlight(g, id)', InFlight(h, id)'
               PROVE  g = h
    BY DEF OneUpdatePerSubscription
  <2>3. InFlight(g, id) /\ InFlight(h, id)
    BY <2>1, <2>2 DEF InFlight
  <2> QED
    BY <2>3 DEF OneUpdatePerSubscription
<1>2. CASE \A f \in Flights : SameWork(f)
  BY <1>2 DEF OneUpdatePerSubscription, InFlight, SameWork
<1>3. ASSUME NEW f \in Flights, NEW id \in Ids, NEW leader \in Callers \cup {Scheduler},
             Launch(f, id, leader), IdleKey(id)
      PROVE  OneUpdatePerSubscription'
  <2>1. \A g \in Flights : g # f => flight'[g] = flight[g]
    BY <1>3 DEF Launch, TypeOK
  <2>2. flight'[f].id = id
    BY <1>3 DEF Launch, TypeOK, Free
  <2> QED
    BY <1>3, <2>1, <2>2 DEF OneUpdatePerSubscription, InFlight, IdleKey
<1>4. CASE Halt
  BY <1>4, ConstantsAssumption DEF Halt, OneUpdatePerSubscription, InFlight, Free
<1> QED
  BY <1>1, <1>2, <1>3, <1>4, CallFrame

\* singleflight as the manager uses it: whatever the handlers, the scheduler and
\* cancelled contexts do, two pipelines never work for the same subscription.
THEOREM OneUpdateTheorem == Spec => []OneUpdatePerSubscription
<1>1. Init => OneUpdatePerSubscription
  BY DEF Init, OneUpdatePerSubscription, InFlight, Free
<1>2. QED
  BY <1>1, TypeCorrect, OneUpdateStep, PTL DEF Spec

-----------------------------------------------------------------------------
(* What one step does to the entries of the snapshot and of the store *)

\* A request's change to an entry: the contents stay, the rate stays allowed.
Edited(before, after) ==
  /\ before \in Subscription /\ after \in Subscription
  /\ after.nodes = before.nodes
  /\ after.etag = before.etag /\ after.blind = before.blind
  /\ after.status = before.status
  /\ RateLimited(before) => RateLimited(after)

\* A mark or a stage put on an entry.
Staged(before, after) ==
  /\ before \in Subscription /\ after \in Subscription
  /\ after.nodes = before.nodes
  /\ after.etag = before.etag /\ after.blind = before.blind
  /\ after.auto = before.auto
  /\ after.interval = before.interval
  /\ after.status \in {before.status, "updating"}

\* A new entry has no contents and an allowed rate.
Fresh(item) ==
  /\ item \in Subscription
  /\ item.nodes = 0 /\ item.etag = 0 /\ item.status = "idle"
  /\ RateLimited(item)

\* An edit replaces one entry of the snapshot and of the store by the same
\* value: nothing, an edited entry, or a fresh one where there was none.
LEMMA EditEffect ==
  ASSUME TypeOK, NEW id \in Ids, Adding(id) \/ Editing(id)
  PROVE  /\ UNCHANGED <<phase, flight, server>>
         /\ \E item \in Subscription \cup {Absent} :
              /\ Write(id, item)
              /\ \/ item = Absent /\ Present(id)
                 \/ Present(id) /\ Edited(items[id], item)
                 \/ ~Present(id) /\ Fresh(item)
<1> USE ConstantsAssumption
<1>1. CASE Adding(id)
  <2> PICK c \in Callers, name \in Names, enabled \in Enabling, auto \in Automatic,
           requested \in Intervals, now \in BOOLEAN :
        AddSubscription(c, id, name, enabled, auto, requested, now)
    BY <1>1 DEF Adding
  <2> DEFINE interval == IF requested = 0 THEN DefaultInterval ELSE requested
             item == NewItem(name, enabled, auto, interval)
  <2>1. interval >= MinInterval /\ interval \in Nat
    BY DEF AddSubscription, Add
  <2>2. Fresh(item)
    BY <2>1 DEF NewItem, Fresh, RateLimited, Subscription, Statuses, Stages
  <2> QED
    BY <2>2 DEF AddSubscription, Add, Fresh
<1>2. CASE RemoveSubscription(id)
  BY <1>2 DEF RemoveSubscription, Remove, Discard
<1>3. CASE Editing(id) /\ ~RemoveSubscription(id)
  <2>1. Present(id) /\ items[id] \in Subscription
    BY <1>3 DEF Editing, RenameSubscription, SetSubscriptionEnabled,
       ConfigureSubscriptionUpdates, Modify, Present, TypeOK
  <2>2. ASSUME NEW name \in Names
        PROVE  Edited(items[id], [items[id] EXCEPT !.name = name])
    BY <2>1 DEF Edited, Subscription, RateLimited
  <2>3. ASSUME NEW enabled \in Enabling
        PROVE  Edited(items[id], [items[id] EXCEPT !.enabled = enabled])
    BY <2>1 DEF Edited, Subscription, RateLimited
  <2>4. ASSUME NEW auto \in Automatic, NEW interval \in Intervals,
               IntervalAllowed(auto, interval)
        PROVE  Edited(items[id], [items[id] EXCEPT !.auto = auto,
                 !.interval = IF interval > 0 THEN interval ELSE @])
    <3> DEFINE new == [items[id] EXCEPT !.auto = auto,
                         !.interval = IF interval > 0 THEN interval ELSE @]
    <3>1. /\ new \in Subscription
          /\ new.auto = auto
          /\ new.interval = IF interval > 0 THEN interval ELSE items[id].interval
          /\ new.nodes = items[id].nodes /\ new.etag = items[id].etag
          /\ new.blind = items[id].blind /\ new.status = items[id].status
      BY <2>1 DEF Subscription
    <3>2. auto => new.interval >= MinInterval
      BY <2>4, <3>1 DEF IntervalAllowed
    <3> HIDE DEF new
    <3>3. Edited(items[id], new)
      BY <2>1, <3>1, <3>2 DEF Edited, RateLimited
    <3> QED
      BY <3>3 DEF new
  <2>5. ASSUME NEW changed, Modify(id, changed), Edited(items[id], changed)
        PROVE  /\ UNCHANGED <<phase, flight, server>>
               /\ changed \in Subscription
               /\ Write(id, changed)
               /\ Present(id)
    BY <2>5 DEF Modify, Edited
  <2> QED
    BY <1>3, <2>1, <2>2, <2>3, <2>4, <2>5 DEF Editing, RenameSubscription,
       SetSubscriptionEnabled, ConfigureSubscriptionUpdates
<1> QED
  BY <1>1, <1>2, <1>3

\* The snapshot is untouched, or one present entry gets a mark or a stage.
Touches(id) ==
  /\ UNCHANGED stored
  /\ \/ UNCHANGED items
     \/ /\ Present(id)
        /\ \E item : Staged(items[id], item) /\ items' = [items EXCEPT ![id] = item]

\* The pipeline takes its copy.
Claims(f) ==
  LET id == flight[f].id
  IN  /\ flight[f].pc = "claim" /\ Present(id)
      /\ flight'[f].pc \in Working
      /\ flight'[f].base = items[id]
      /\ flight'[f].outcome = flight[f].outcome

\* The pipeline goes on with its copy, perhaps with a new outcome.
Proceeds(f) ==
  LET id == flight[f].id
      outcome == flight'[f].outcome
  IN  /\ HasCopy(f)
      /\ flight'[f].pc \in Working
      /\ flight'[f].base = flight[f].base
      /\ \/ outcome = flight[f].outcome
         \/ outcome.kind \in {"fetch", "parse"}
         \/ Succeeded(outcome) /\ outcome.version = server[id]

\* The pipeline ends: without a trace, with its result, or with its copy put
\* back.
Ends(f) ==
  LET id == flight[f].id
  IN  /\ flight'[f] = Free
      /\ \/ phase = "closing" /\ Touches(id)
         \/ UNCHANGED <<items, stored>> /\ ~HasCopy(f)
         \/ HasCopy(f) /\ Write(id, Result(flight[f].base, flight[f].outcome))
         \/ HasCopy(f) /\ items' = [items EXCEPT ![id] = flight[f].base] /\ UNCHANGED stored

\* setStage touches at most the stage of the pipeline's entry.
LEMMA SetStageEffect ==
  ASSUME TypeOK, NEW f \in Flights, NEW stage \in Stages, flight[f].id \in Ids,
         SetStage(f, stage), UNCHANGED stored
  PROVE  Touches(flight[f].id)
<1> DEFINE id == flight[f].id
<1>1. CASE UNCHANGED items
  BY <1>1 DEF Touches
<1>2. CASE Present(id) /\ items' = [items EXCEPT ![id].stage = stage]
  <2>1. items[id] \in Subscription
    BY <1>2 DEF TypeOK, Present
  <2>2. Staged(items[id], [items[id] EXCEPT !.stage = stage])
    BY <2>1 DEF Staged, Subscription
  <2> QED
    BY <1>2, <2>2 DEF Touches
<1> QED
  BY <1>1, <1>2 DEF SetStage, StageShown, StageSkipped

\* Marking an entry as updating.
LEMMA MarkEffect ==
  ASSUME TypeOK, NEW id \in Ids, Present(id), UNCHANGED stored,
         items' = [items EXCEPT ![id] = Marked(@)]
  PROVE  Touches(id)
<1>1. items[id] \in Subscription
  BY DEF TypeOK, Present
<1>2. Staged(items[id], Marked(items[id]))
  BY <1>1 DEF Staged, Marked, Subscription, Statuses, Stages
<1> QED
  BY <1>2 DEF Touches

\* A pipeline step claims, proceeds or ends, and touches only its own entry.
LEMMA PipelineEffect ==
  ASSUME TypeOK, NEW f \in Flights, FlightStep(f)
  PROVE  /\ flight[f].id \in Ids
         /\ UNCHANGED <<phase, server>>
         /\ \A g \in Flights : g # f => flight'[g] = flight[g]
         /\ \/ Ends(f)
            \/ /\ Claims(f) \/ Proceeds(f)
               /\ flight'[f].id = flight[f].id
               /\ Touches(flight[f].id)
<1> DEFINE id == flight[f].id
<1>1. /\ UNCHANGED <<phase, server>>
      /\ \A g \in Flights : g # f => flight'[g] = flight[g]
      /\ flight'[f] = Free \/ flight'[f].id = id
      /\ id \in Ids
  BY FlightFrame DEF TypeOK, FlightOK
<1>2. flight[f] \in Pipeline /\ flight \in [Flights -> Pipeline]
  BY DEF TypeOK
<1>3. CASE Claim(f)
  <2>1. Touches(id)
    BY <1>1, <1>3, MarkEffect DEF Claim
  <2>2. Claims(f) /\ flight'[f].id = id
    BY <1>2, <1>3 DEF Claim, Claims, Working, Pipeline
  <2> QED
    BY <1>1, <2>1, <2>2
<1>4. CASE ClaimFails(f)
  <2>1. flight'[f] = Free /\ ~HasCopy(f) /\ UNCHANGED stored
    BY <1>2, <1>4 DEF ClaimFails, Finish, HasCopy, Working
  <2>2. UNCHANGED items \/ (phase = "closing" /\ Touches(id))
    BY <1>1, <1>4, <2>1, MarkEffect DEF ClaimFails
  <2> QED
    BY <1>1, <2>1, <2>2 DEF Ends
<1>5. CASE Commit(f)
  <2>1. flight'[f] = Free /\ HasCopy(f)
    BY <1>2, <1>5 DEF Commit, CommitStored, CommitRefused, CommitUnheard, Finish, HasCopy, Working
  <2> QED
    BY <1>1, <1>5, <2>1 DEF Commit, CommitStored, CommitRefused, CommitUnheard, CommitFailure, Ends, Touches
<1>6. ASSUME NEW pc \in Working, HasCopy(f), Advance(f, pc)
      PROVE  Proceeds(f) /\ flight'[f].id = id
  BY <1>2, <1>6 DEF Advance, Proceeds, Pipeline
<1>7. CASE Announce(f) \/ ParseDocument(f) \/ Resolve(f)
  <2>1. Proceeds(f) /\ flight'[f].id = id
    BY <1>6, <1>7 DEF Announce, ParseDocument, Resolve, HasCopy, Working
  <2>2. Touches(id)
    BY <1>1, <1>7, SetStageEffect DEF Announce, ParseDocument, Resolve, Stages
  <2> QED
    BY <1>1, <2>1, <2>2
<1>8. CASE FetchFails(f) \/ ParseFails(f)
  <2>1. Proceeds(f) /\ flight'[f].id = id
    BY <1>2, <1>8 DEF FetchFails, ParseFails, Settle, NoOutcome, Proceeds, HasCopy,
       Working, Pipeline
  <2> QED
    BY <1>1, <1>8, <2>1 DEF FetchFails, ParseFails, Touches
<1>9. ASSUME NEW tagged \in BOOLEAN, NEW suggested \in Intervals,
             FetchNotModified(f, tagged, suggested)
      PROVE  Proceeds(f) /\ flight'[f].id = id /\ Touches(id)
  BY <1>2, <1>9 DEF FetchNotModified, Settle, NoOutcome, Proceeds, HasCopy, Working,
     Pipeline, Touches
<1>10. ASSUME NEW tagged \in BOOLEAN, NEW suggested \in Intervals,
              FetchDocument(f, tagged, suggested)
       PROVE  Proceeds(f) /\ flight'[f].id = id /\ Touches(id)
  <2>1. Proceeds(f) /\ flight'[f].id = id
    BY <1>2, <1>10 DEF FetchDocument, Proceeds, HasCopy, Working, Pipeline
  <2> QED
    BY <1>1, <1>10, <2>1, SetStageEffect DEF FetchDocument, Stages
<1> QED
  BY <1>1, <1>3, <1>4, <1>5, <1>7, <1>8, <1>9, <1>10 DEF FlightStep

\* Every other step leaves the entries alone, edits one, loads or loses them.
LEMMA OtherEffect ==
  ASSUME [Next]_vars, \A f \in Flights : ~FlightStep(f)
  PROVE  \/ UNCHANGED <<items, stored>> /\ ~Load
         \/ \E id \in Ids : Adding(id) \/ Editing(id)
         \/ \E c \in Callers : Rollback(c) /\ Remove(caller[c].id)
         \/ Load
         \/ Halt
BY DEF Next, vars, StopScheduler, Close, Exit, Crash, UpdateDue, Publish, Calling,
   UpdateSubscription, UpdateAdded, Update, Cancel, Rollback, Load

\* What a step that is not a pipeline's does to the copies: none is new.
LEMMA CopiesKept ==
  ASSUME TypeOK, [Next]_vars, \A f \in Flights : ~FlightStep(f)
  PROVE  \A f \in Flights : HasCopy(f)' => HasCopy(f) /\ SameWork(f)
<1>1. CASE \A f \in Flights : SameWork(f)
  BY <1>1 DEF SameWork, HasCopy
<1>2. ASSUME NEW f \in Flights, NEW id \in Ids, NEW leader \in Callers \cup {Scheduler},
             Launch(f, id, leader)
      PROVE  \A g \in Flights : HasCopy(g)' => HasCopy(g) /\ SameWork(g)
  <2>1. \A g \in Flights : g # f => flight'[g] = flight[g]
    BY <1>2 DEF Launch, TypeOK
  <2>2. flight'[f].pc = "claim"
    BY <1>2 DEF Launch, TypeOK, Free
  <2> QED
    BY <2>1, <2>2 DEF HasCopy, Working, SameWork
<1>3. CASE Halt
  BY <1>3 DEF Halt, HasCopy, Free, Working
<1> QED
  BY <1>1, <1>2, <1>3, CallFrame

\* A rollback that finds the subscription removes it from both sides.
LEMMA RemoveEffect ==
  ASSUME TypeOK, NEW c \in Callers, Rollback(c), Remove(caller[c].id)
  PROVE  \E id \in Ids : Present(id) /\ Write(id, Absent)
<1>1. caller[c].id \in Ids
  BY DEF Rollback, TypeOK, HandlerOK
<1> QED
  BY <1>1 DEF Remove, Discard

\* A copy survives every step that is neither its pipeline's nor an end of the
\* manager.
LEMMA CopiesStay ==
  ASSUME TypeOK, [Next]_vars, \A f \in Flights : ~FlightStep(f), ~Halt
  PROVE  \A f \in Flights : HasCopy(f) => HasCopy(f)' /\ SameWork(f)
<1>1. CASE \A f \in Flights : SameWork(f)
  BY <1>1 DEF SameWork, HasCopy
<1>2. ASSUME NEW f \in Flights, NEW id \in Ids, NEW leader \in Callers \cup {Scheduler},
             Launch(f, id, leader)
      PROVE  \A g \in Flights : HasCopy(g) => HasCopy(g)' /\ SameWork(g)
  <2>1. \A g \in Flights : g # f => flight'[g] = flight[g]
    BY <1>2 DEF Launch, TypeOK
  <2>2. ~HasCopy(f)
    BY <1>2 DEF Launch, HasCopy, Working
  <2> QED
    BY <2>1, <2>2 DEF HasCopy, SameWork
<1> QED
  BY <1>1, <1>2, CallFrame

\* What a restart makes of an entry: only the transient status is gone.
LEMMA RecoveredEffect ==
  ASSUME NEW item \in Subscription
  PROVE  /\ Recovered(item) \in Subscription
         /\ Recovered(item).nodes = item.nodes
         /\ Recovered(item).etag = item.etag
         /\ Recovered(item).blind = item.blind
         /\ Recovered(item).auto = item.auto
         /\ Recovered(item).interval = item.interval
         /\ Recovered(item).status \in {item.status, "idle"}
         /\ Recovered(item).status # "updating"
<1>1. CASE item.status = "updating"
  <2>1. Recovered(item) = [item EXCEPT !.status = "idle", !.stage = "idle"]
    BY <1>1, ConstantsAssumption DEF Recovered
  <2> QED
    BY <2>1 DEF Subscription, Statuses, Stages
<1>2. CASE item.status # "updating"
  BY <1>2 DEF Recovered
<1> QED
  BY <1>1, <1>2

\* What an update makes of its copy.
LEMMA ResultEffect ==
  ASSUME NEW base \in Subscription, NEW outcome \in Outcomes
  PROVE  LET result == Result(base, outcome)
         IN  /\ result \in Subscription
             /\ result.status \in {"ready", "failed"}
             /\ outcome.kind = "parsed" => /\ result.nodes = outcome.version
                                           /\ result.etag \in {0, outcome.version}
             /\ outcome.kind # "parsed" => result.nodes = base.nodes
             /\ outcome.kind # "parsed" /\ ~result.blind =>
                  /\ ~base.blind
                  /\ result.etag = base.etag
                  /\ Succeeded(outcome) => base.etag = outcome.version
             /\ result.status = "ready" => Succeeded(outcome)
<1> DEFINE result == Result(base, outcome)
<1>0. result \in Subscription
  BY ResultType
<1>1. CASE outcome.kind = "parsed"
  <2> DEFINE filled == Filled(base, outcome)
  <2>1. filled \in Subscription /\ filled.nodes = outcome.version
          /\ filled.etag \in {0, outcome.version}
    BY DEF Filled, Subscription, Outcomes
  <2>2. result = [filled EXCEPT !.status = "ready", !.stage = "complete",
                    !.interval = Suggestion(base, outcome.suggested)]
    BY <1>1 DEF Result, Succeeded
  <2> HIDE DEF filled, result
  <2>3. result.nodes = filled.nodes /\ result.etag = filled.etag /\ result.status = "ready"
    BY <2>1, <2>2 DEF Subscription
  <2> QED
    BY <1>0, <1>1, <2>1, <2>3 DEF result, Succeeded
<1>2. CASE outcome.kind = "notModified"
  <2> DEFINE refreshed == Refreshed(base, outcome)
  <2>1. /\ refreshed \in Subscription /\ refreshed.nodes = base.nodes
        /\ ~refreshed.blind => /\ ~base.blind /\ base.etag = outcome.version
                               /\ refreshed.etag = base.etag
    BY DEF Refreshed, Subscription, Outcomes
  <2>2. result = [refreshed EXCEPT !.status = "ready", !.stage = "complete",
                    !.interval = Suggestion(base, outcome.suggested)]
    BY <1>2 DEF Result, Succeeded
  <2> HIDE DEF refreshed, result
  <2>3. /\ result.nodes = refreshed.nodes /\ result.etag = refreshed.etag
        /\ result.blind = refreshed.blind /\ result.status = "ready"
    BY <2>1, <2>2 DEF Subscription
  <2> QED
    BY <1>0, <1>2, <2>1, <2>3 DEF result, Succeeded
<1>3. CASE ~Succeeded(outcome)
  <2>1. result = [base EXCEPT !.status = "failed", !.stage = "failed"]
    BY <1>3 DEF Result
  <2> HIDE DEF result
  <2>2. /\ result.nodes = base.nodes /\ result.etag = base.etag
        /\ result.blind = base.blind /\ result.status = "failed"
    BY <2>1 DEF Subscription
  <2> QED
    BY <1>0, <1>3, <2>2 DEF result, Succeeded
<1> QED
  BY <1>1, <1>2, <1>3 DEF Succeeded

\* Only Load brings a manager to life, only Halt ends it; its shutdown is not
\* undone.
LEMMA PhaseKept ==
  ASSUME [Next]_vars, ~Load, ~Halt
  PROVE  /\ phase = "down" <=> phase' = "down"
         /\ phase' \in {"running", "draining"} => phase \in {"running", "draining"}
<1>1. ASSUME NEW f \in Flights, FlightStep(f) PROVE UNCHANGED phase
  BY <1>1 DEF FlightStep, Claim, ClaimFails, Announce, FetchFails, FetchNotModified,
     FetchDocument, ParseFails, ParseDocument, Resolve, Commit
<1>2. ASSUME NEW id \in Ids, Adding(id) \/ Editing(id) \/ UpdateDue(id) \/ Publish(id)
      PROVE  UNCHANGED phase
  BY <1>2 DEF Adding, AddSubscription, Editing, RemoveSubscription, RenameSubscription,
     SetSubscriptionEnabled, ConfigureSubscriptionUpdates, Modify, UpdateDue, Publish
<1>3. ASSUME NEW c \in Callers, Calling(c) PROVE UNCHANGED phase
  BY <1>3 DEF Calling, UpdateSubscription, UpdateAdded, Update, Cancel, Rollback
<1> QED
  BY <1>1, <1>2, <1>3 DEF Next, vars, StopScheduler, Close, Exit, Crash, Halt

\* Providers only publish newer documents.
LEMMA ServerGrows ==
  ASSUME TypeOK, [Next]_vars
  PROVE  /\ \A id \in Ids : server'[id] \in Nat /\ server[id] <= server'[id]
         /\ UNCHANGED server \/ UNCHANGED <<phase, items, stored, flight, caller>>
<1>1. CASE \E id \in Ids : Publish(id)
  BY <1>1 DEF Publish, TypeOK
<1>2. CASE UNCHANGED server
  BY <1>2 DEF TypeOK
<1>3. ASSUME NEW f \in Flights, FlightStep(f) PROVE UNCHANGED server
  BY <1>3, FlightFrame
<1>4. ASSUME NEW c \in Callers, Calling(c) PROVE UNCHANGED server
  BY <1>4 DEF Calling, UpdateSubscription, UpdateAdded, Update, Cancel, Rollback
<1> QED
  BY <1>1, <1>2, <1>3, <1>4 DEF Next, vars, Load, StopScheduler, Close, Exit, Crash, Halt,
     Adding, AddSubscription, Editing, RemoveSubscription, RenameSubscription,
     SetSubscriptionEnabled, ConfigureSubscriptionUpdates, Modify, UpdateDue

-----------------------------------------------------------------------------
(* The rate of automatic updates *)

\* The result of an update keeps the rate of the copy or takes one allowed.
LEMMA ResultRate ==
  ASSUME NEW base \in Subscription, NEW outcome \in Outcomes, RateLimited(base)
  PROVE  RateLimited(Result(base, outcome))
<1>0. base # Absent
  BY ConstantsAssumption
<1> DEFINE filled == IF outcome.kind = "parsed"
                     THEN Filled(base, outcome) ELSE Refreshed(base, outcome)
<1> DEFINE rate == Suggestion(base, outcome.suggested)
<1>1. CASE Succeeded(outcome)
  <2>1. base.auto => rate >= MinInterval
    BY <1>0, ConstantsAssumption DEF RateLimited, Suggestion
  <2>2. filled \in Subscription /\ filled.auto = base.auto
    BY DEF Filled, Refreshed, Subscription, Outcomes
  <2>3. Result(base, outcome) =
          [filled EXCEPT !.status = "ready", !.stage = "complete", !.interval = rate]
    BY <1>1 DEF Result
  <2> HIDE DEF filled, rate
  <2>4. Result(base, outcome).auto = base.auto /\ Result(base, outcome).interval = rate
    BY <2>2, <2>3 DEF Subscription
  <2> QED
    BY <2>1, <2>4 DEF RateLimited
<1>2. CASE ~Succeeded(outcome)
  <2>1. Result(base, outcome) = [base EXCEPT !.status = "failed", !.stage = "failed"]
    BY <1>2 DEF Result
  <2>2. Result(base, outcome).auto = base.auto /\ Result(base, outcome).interval = base.interval
    BY <2>1 DEF Subscription
  <2> QED
    BY <1>0, <2>2 DEF RateLimited
<1> QED
  BY <1>1, <1>2

\* Every step keeps the rates, and the rates the copies would write back.
LEMMA RateStep == TypeOK /\ TypeOK' /\ RateInv /\ [Next]_vars => RateInv'
<1> SUFFICES ASSUME TypeOK, TypeOK', RateInv, [Next]_vars PROVE RateInv'
  OBVIOUS
<1> USE ConstantsAssumption
<1>1. ASSUME NEW f \in Flights, FlightStep(f) PROVE RateInv'
  <2> DEFINE id == flight[f].id
  <2>0. /\ id \in Ids
        /\ \A g \in Flights : g # f => flight'[g] = flight[g]
    BY <1>1, PipelineEffect
  <2>1. HasCopy(f) => /\ flight[f].base \in Subscription /\ flight[f].outcome \in Outcomes
                      /\ RateLimited(flight[f].base)
                      /\ RateLimited(Result(flight[f].base, flight[f].outcome))
    BY ResultRate DEF TypeOK, FlightOK, HasCopy, RateInv, Pipeline
  <2>2. ASSUME Touches(id) PROVE AutoUpdatesRateLimited'
    BY <2>0, <2>2 DEF Touches, Staged, RateInv, AutoUpdatesRateLimited, RateLimited, TypeOK
  <2>3. AutoUpdatesRateLimited'
    <3>1. CASE Ends(f)
      BY <2>0, <2>1, <2>2, <3>1 DEF Ends, Write, RateInv, AutoUpdatesRateLimited, TypeOK
    <3> QED
      BY <1>1, <2>2, <3>1, PipelineEffect
  <2>4. HasCopy(f)' => RateLimited(flight'[f].base)
    <3>1. CASE Ends(f)
      BY <3>1 DEF Ends, HasCopy, Free, Working
    <3>2. CASE Claims(f) \/ Proceeds(f)
      BY <2>0, <2>1, <3>2 DEF Claims, Proceeds, RateInv, AutoUpdatesRateLimited
    <3> QED
      BY <1>1, <3>1, <3>2, PipelineEffect
  <2> QED
    BY <2>0, <2>3, <2>4 DEF RateInv, HasCopy
<1>2. CASE \A f \in Flights : ~FlightStep(f)
  <2>1. \A f \in Flights : HasCopy(f)' => RateLimited(flight'[f].base)
    BY <1>2, CopiesKept DEF RateInv, SameWork
  <2>2. ASSUME NEW id \in Ids, Adding(id) \/ Editing(id) PROVE AutoUpdatesRateLimited'
    BY <2>2, EditEffect DEF Write, Edited, Fresh, RateInv, AutoUpdatesRateLimited, RateLimited, TypeOK
  <2>3. ASSUME NEW c \in Callers, Rollback(c), Remove(caller[c].id) PROVE AutoUpdatesRateLimited'
    BY <2>3, RemoveEffect DEF Write, RateInv, AutoUpdatesRateLimited, RateLimited, TypeOK
  <2>4. ASSUME Load PROVE AutoUpdatesRateLimited'
    BY <2>4 DEF Load, Recovered, RateInv, AutoUpdatesRateLimited, RateLimited, TypeOK, Subscription
  <2>5. ASSUME Halt PROVE AutoUpdatesRateLimited'
    BY <2>5 DEF Halt, RateInv, AutoUpdatesRateLimited, RateLimited
  <2>6. ASSUME UNCHANGED <<items, stored>> PROVE AutoUpdatesRateLimited'
    BY <2>6 DEF RateInv, AutoUpdatesRateLimited
  <2> QED
    BY <1>2, <2>1, <2>2, <2>3, <2>4, <2>5, <2>6, OtherEffect DEF RateInv
<1> QED
  BY <1>1, <1>2

\* No request, suggestion, stale copy, failed transaction or restart makes the
\* scheduler update a subscription more often than the minimum interval allows.
THEOREM RateTheorem == Spec => []AutoUpdatesRateLimited
<1>1. Init => RateInv
  BY ConstantsAssumption DEF Init, RateInv, AutoUpdatesRateLimited, RateLimited, HasCopy,
     Free, Working
<1>2. RateInv => AutoUpdatesRateLimited
  BY DEF RateInv
<1>3. QED
  BY <1>1, <1>2, TypeCorrect, RateStep, PTL DEF Spec

-----------------------------------------------------------------------------
(* Nothing durable is hidden *)

\* Every step keeps an entry in the snapshot for what is in the store.
LEMMA HiddenStep ==
  TypeOK /\ TypeOK' /\ NothingDurableIsHidden /\ [Next]_vars => NothingDurableIsHidden'
<1> SUFFICES ASSUME TypeOK, TypeOK', NothingDurableIsHidden, [Next]_vars
             PROVE  NothingDurableIsHidden'
  OBVIOUS
<1> USE ConstantsAssumption DEF NothingDurableIsHidden, Present
<1>1. ASSUME NEW f \in Flights, FlightStep(f) PROVE NothingDurableIsHidden'
  <2> DEFINE id == flight[f].id
  <2>1. id \in Ids /\ UNCHANGED phase
    BY <1>1, PipelineEffect
  <2>3. ASSUME Touches(id) PROVE NothingDurableIsHidden'
    BY <2>1, <2>3 DEF Touches, Staged, TypeOK
  <2>4. ASSUME Ends(f) PROVE NothingDurableIsHidden'
    <3>1. HasCopy(f) => /\ Result(flight[f].base, flight[f].outcome) # Absent
                        /\ flight[f].base # Absent
      BY ResultType DEF TypeOK, FlightOK, HasCopy, Pipeline
    <3> QED
      BY <2>1, <2>3, <2>4, <3>1 DEF Ends, Write, TypeOK
  <2> QED
    BY <1>1, <2>3, <2>4, PipelineEffect
<1>2. CASE \A f \in Flights : ~FlightStep(f)
  <2>1. ASSUME NEW id \in Ids, Adding(id) \/ Editing(id) PROVE NothingDurableIsHidden'
    BY <2>1, EditEffect DEF Write, TypeOK
  <2>2. ASSUME NEW c \in Callers, Rollback(c), Remove(caller[c].id)
        PROVE  NothingDurableIsHidden'
    BY <2>2, RemoveEffect DEF Write, TypeOK, Rollback
  <2>3. ASSUME Load PROVE NothingDurableIsHidden'
    <3>1. \A id \in Ids : stored[id] # Absent => Recovered(stored[id]) # Absent
      BY RecoveredEffect DEF TypeOK
    <3> QED
      BY <2>3, <3>1 DEF Load
  <2>4. ASSUME Halt PROVE NothingDurableIsHidden'
    BY <2>4 DEF Halt
  <2>5. ASSUME UNCHANGED <<items, stored>>, ~Load PROVE NothingDurableIsHidden'
    BY <2>4, <2>5, PhaseKept
  <2> QED
    BY <1>2, <2>1, <2>2, <2>3, <2>4, <2>5, OtherEffect
<1> QED
  BY <1>1, <1>2

\* No failed commit, rollback, lost reply or crash leaves a subscription in the
\* store that the running manager does not list.
THEOREM HiddenTheorem == Spec => []NothingDurableIsHidden
<1>1. Init => NothingDurableIsHidden
  BY DEF Init, NothingDurableIsHidden
<1>2. QED
  BY <1>1, TypeCorrect, HiddenStep, PTL DEF Spec

-----------------------------------------------------------------------------
(* A manager that is not there *)

\* Halt empties the manager; while it is down, no step but Load finds anything
\* to do in it.
LEMMA DownStep == TypeOK /\ DownIsEmpty /\ [Next]_vars => DownIsEmpty'
<1> SUFFICES ASSUME TypeOK, DownIsEmpty, [Next]_vars, phase' = "down" PROVE DownIsEmpty'
  BY DEF DownIsEmpty
<1>1. CASE Halt
  BY <1>1 DEF Halt, DownIsEmpty
<1>2. CASE ~Halt
  <2>1. phase = "down"
    BY <1>2, PhaseKept DEF Load
  <2>2. /\ items = [id \in Ids |-> Absent]
        /\ \A f \in Flights : flight[f].pc = "free"
        /\ \A c \in Callers : caller[c].pc = "idle"
    BY <2>1 DEF DownIsEmpty, Free, Idle
  <2>3. \A f \in Flights : ~FlightStep(f)
    BY <2>2, FlightFrame
  <2>4. \A c \in Callers : ~Calling(c)
    BY <2>1, <2>2 DEF Calling, UpdateSubscription, UpdateAdded, Cancel, Rollback
  <2>5. \A id \in Ids : ~Adding(id) /\ ~Editing(id) /\ ~UpdateDue(id)
    BY <2>1 DEF Adding, AddSubscription, Add, Accepting, Editing, RemoveSubscription, Remove,
       RenameSubscription, SetSubscriptionEnabled, ConfigureSubscriptionUpdates, Modify,
       UpdateDue
  <2>6. UNCHANGED <<items, flight, caller>>
    BY <1>2, <2>1, <2>3, <2>4, <2>5 DEF Next, vars, Load, StopScheduler, Close, Exit, Crash,
       Publish
  <2> QED
    BY <2>1, <2>6 DEF DownIsEmpty
<1> QED
  BY <1>1, <1>2

\* Between two lives of the manager no pipeline, handler or snapshot is left.
THEOREM DownTheorem == Spec => []DownIsEmpty
<1>1. Init => DownIsEmpty
  BY DEF Init, DownIsEmpty
<1>2. QED
  BY <1>1, TypeCorrect, DownStep, PTL DEF Spec

-----------------------------------------------------------------------------
(* No orphaned updating status *)

\* The pipeline steps: a copy is never taken of an entry that is being updated,
\* because its pipeline would still be there.
LEMMA OrphanFlight ==
  ASSUME TypeOK, TypeOK', OneUpdatePerSubscription, OrphanInv,
         NEW f \in Flights, FlightStep(f)
  PROVE  OrphanInv'
<1> USE ConstantsAssumption
<1> DEFINE id == flight[f].id
           alive == phase \in {"running", "draining"}
<1>1. /\ id \in Ids /\ UNCHANGED phase
      /\ \A g \in Flights : g # f => flight'[g] = flight[g]
  BY PipelineEffect
<1> SUFFICES ASSUME alive
             PROVE  /\ \A i \in Ids : Present(i)' /\ items'[i].status = "updating" =>
                         \E g \in Flights : InFlight(g, i)' /\ flight'[g].pc \in Working
                    /\ \A g \in Flights : HasCopy(g)' => flight'[g].base.status # "updating"
  BY <1>1 DEF OrphanInv, NoOrphanUpdating
<1>2. \A i \in Ids : i # id => items'[i] = items[i]
  BY <1>1, PipelineEffect DEF Touches, Ends, Write, TypeOK
<1>3. \A i \in Ids : i # id /\ Present(i)' /\ items'[i].status = "updating" =>
        \E g \in Flights : InFlight(g, i)' /\ flight'[g].pc \in Working
  BY <1>1, <1>2 DEF OrphanInv, NoOrphanUpdating, Present, InFlight
<1>4. \A g \in Flights : g # f /\ HasCopy(g)' => flight'[g].base.status # "updating"
  BY <1>1 DEF HasCopy, OrphanInv
<1>5. CASE Ends(f)
  <2>1. ~HasCopy(f)'
    BY <1>5 DEF Ends, HasCopy, Free, Working
  <2>2. CASE HasCopy(f) /\ Write(id, Result(flight[f].base, flight[f].outcome))
    <3>1. Result(flight[f].base, flight[f].outcome).status # "updating"
      BY <2>2, ResultEffect DEF TypeOK, FlightOK, HasCopy, Pipeline
    <3> QED
      BY <1>1, <1>3, <1>4, <2>1, <2>2, <3>1 DEF Write, TypeOK
  <2>3. CASE HasCopy(f) /\ items' = [items EXCEPT ![id] = flight[f].base]
    BY <1>1, <1>3, <1>4, <2>1, <2>3 DEF OrphanInv, TypeOK
  <2>4. CASE UNCHANGED items /\ ~HasCopy(f)
    <3>1. \A g \in Flights : HasCopy(g) => g # f
      BY <2>4
    <3>2. \A i \in Ids : Present(i)' /\ items'[i].status = "updating" =>
            \E g \in Flights : InFlight(g, i)' /\ flight'[g].pc \in Working
      BY <1>1, <2>4, <3>1 DEF OrphanInv, NoOrphanUpdating, InFlight, HasCopy, Present
    <3> QED
      BY <1>4, <2>1, <3>2
  <2> QED
    BY <1>5, <2>2, <2>3, <2>4 DEF Ends
<1>6. CASE Claims(f) \/ Proceeds(f)
  <2>1. HasCopy(f)' /\ flight'[f].id = id
    BY <1>6, PipelineEffect DEF Claims, Proceeds, HasCopy, Ends, Free, Working
  <2>2. InFlight(f, id)' /\ flight'[f].pc \in Working
    BY <2>1 DEF InFlight, HasCopy, Working
  <2>3. flight'[f].base.status # "updating"
    <3>1. CASE Claims(f)
      <4>1. ASSUME NEW g \in Flights, InFlight(g, id), flight[g].pc \in Working PROVE FALSE
        <5>1. InFlight(f, id)
          BY <3>1 DEF Claims, InFlight
        <5> QED
          BY <1>1, <3>1, <4>1, <5>1 DEF Claims, OneUpdatePerSubscription, Working
      <4> QED
        BY <1>1, <3>1, <4>1 DEF Claims, OrphanInv, NoOrphanUpdating
    <3>2. CASE Proceeds(f)
      BY <3>2 DEF Proceeds, OrphanInv
    <3> QED
      BY <1>6, <3>1, <3>2
  <2>4. \A i \in Ids : i = id =>
          \E g \in Flights : InFlight(g, i)' /\ flight'[g].pc \in Working
    BY <2>1, <2>2 DEF InFlight
  <2>5. \A g \in Flights : HasCopy(g)' => flight'[g].base.status # "updating"
    BY <1>4, <2>3
  <2> HIDE DEF id
  <2> QED
    BY <1>3, <2>4, <2>5
<1> QED
  BY <1>5, <1>6, PipelineEffect

\* Every step keeps a pipeline behind every updating entry.
LEMMA OrphanStep ==
  TypeOK /\ TypeOK' /\ OneUpdatePerSubscription /\ DownIsEmpty /\ OrphanInv /\ [Next]_vars
    => OrphanInv'
<1> SUFFICES ASSUME TypeOK, TypeOK', OneUpdatePerSubscription, DownIsEmpty, OrphanInv,
                    [Next]_vars
             PROVE  OrphanInv'
  OBVIOUS
<1> USE ConstantsAssumption
<1>1. CASE \E f \in Flights : FlightStep(f)
  BY <1>1, OrphanFlight
<1>2. CASE Halt
  BY <1>2 DEF Halt, OrphanInv, NoOrphanUpdating
<1>3. CASE Load
  <2>1. \A f \in Flights : ~HasCopy(f)'
    BY <1>3 DEF Load, DownIsEmpty, HasCopy, Free, Working
  <2>2. \A id \in Ids : Present(id)' => items'[id].status # "updating"
    BY <1>3, RecoveredEffect DEF Load, TypeOK, Present, Recovered
  <2> QED
    BY <2>1, <2>2 DEF OrphanInv, NoOrphanUpdating
<1>4. CASE ~Halt /\ ~Load /\ \A f \in Flights : ~FlightStep(f)
  <2>1. phase' \in {"running", "draining"} => phase \in {"running", "draining"}
    BY <1>4, PhaseKept
  <2>2. \A f \in Flights : HasCopy(f)' => HasCopy(f) /\ SameWork(f)
    BY <1>4, CopiesKept
  <2>3. \A f \in Flights : HasCopy(f) => HasCopy(f)' /\ SameWork(f)
    BY <1>4, CopiesStay
  <2>4. \A id \in Ids : Present(id)' /\ items'[id].status = "updating"
                          => Present(id) /\ items[id].status = "updating"
    <3>1. ASSUME NEW id \in Ids, Adding(id) \/ Editing(id)
          PROVE  \A i \in Ids : Present(i)' /\ items'[i].status = "updating"
                                  => Present(i) /\ items[i].status = "updating"
      BY <3>1, EditEffect DEF Write, Edited, Fresh, Present, TypeOK
    <3>2. ASSUME NEW c \in Callers, Rollback(c), Remove(caller[c].id)
          PROVE  \A i \in Ids : Present(i)' /\ items'[i].status = "updating"
                                  => Present(i) /\ items[i].status = "updating"
      BY <3>2, RemoveEffect DEF Write, Present, TypeOK
    <3> QED
      BY <1>4, <3>1, <3>2, OtherEffect DEF Present
  <2>5. phase' \in {"running", "draining"} =>
          \A f \in Flights : HasCopy(f)' => flight'[f].base.status # "updating"
    BY <2>1, <2>2 DEF OrphanInv, SameWork
  <2>6. ASSUME NEW id \in Ids, phase' \in {"running", "draining"},
               Present(id)', items'[id].status = "updating"
        PROVE  \E f \in Flights : InFlight(f, id)' /\ flight'[f].pc \in Working
    <3>1. PICK f \in Flights : InFlight(f, id) /\ flight[f].pc \in Working
      BY <2>1, <2>4, <2>6 DEF OrphanInv, NoOrphanUpdating
    <3> QED
      BY <2>3, <3>1 DEF HasCopy, SameWork, InFlight
  <2> QED
    BY <2>5, <2>6 DEF OrphanInv, NoOrphanUpdating
<1> QED
  BY <1>1, <1>2, <1>3, <1>4

\* While the coordinator runs, whatever fails, is cancelled or restarted, an
\* entry that says it is updating has a pipeline at work.
THEOREM OrphanTheorem == Spec => []NoOrphanUpdating
<1>1. Init => OrphanInv
  BY DEF Init, OrphanInv, NoOrphanUpdating
<1>2. OrphanInv => NoOrphanUpdating
  BY DEF OrphanInv
<1>3. QED
  BY <1>1, <1>2, TypeCorrect, OneUpdateTheorem, DownTheorem, OrphanStep, PTL DEF Spec

-----------------------------------------------------------------------------
(* Validators and nodes *)

\* A pipeline that has not finished its fetch has no outcome yet.
LEMMA OutcomeStep == TypeOK /\ NoEarlyOutcome /\ [Next]_vars => NoEarlyOutcome'
<1> SUFFICES ASSUME TypeOK, NoEarlyOutcome, [Next]_vars PROVE NoEarlyOutcome'
  OBVIOUS
<1>1. CASE \A f \in Flights : SameWork(f)
  BY <1>1 DEF SameWork, NoEarlyOutcome, HasCopy
<1>2. ASSUME NEW f \in Flights, NEW id, NEW leader, Launch(f, id, leader)
      PROVE  NoEarlyOutcome'
  <2>1. \A g \in Flights : g # f => flight'[g] = flight[g]
    BY <1>2 DEF Launch, TypeOK
  <2>2. flight'[f].outcome = NoOutcome
    BY <1>2 DEF Launch, TypeOK, Free
  <2> QED
    BY <2>1, <2>2 DEF NoEarlyOutcome, HasCopy
<1>3. CASE Halt
  BY <1>3 DEF Halt, NoEarlyOutcome, Free
<1>4. ASSUME NEW f \in Flights, FlightStep(f) PROVE NoEarlyOutcome'
  <2>1. \A g \in Flights : g # f => flight'[g] = flight[g]
    BY <1>4, PipelineEffect
  <2>2. HasCopy(f)' \/ flight'[f] = Free
    BY <1>4, PipelineEffect DEF Claims, Proceeds, Ends, HasCopy
  <2> QED
    BY <2>1, <2>2 DEF NoEarlyOutcome, HasCopy, Free
<1> QED
  BY <1>1, <1>2, <1>3, <1>4, CallFrame

\* Marks, stages and edits leave the contents of an entry as they were.
LEMMA ContentKept ==
  ASSUME NEW before, NEW after, Backed(before), before # Absent,
         Staged(before, after) \/ Edited(before, after)
  PROVE  Backed(after)
BY DEF Staged, Edited, Backed

\* The pipeline steps keep validators and nodes together.
LEMMA ContentFlight ==
  ASSUME TypeOK, TypeOK', NoEarlyOutcome, ContentInv, NEW f \in Flights, FlightStep(f)
  PROVE  ContentInv'
<1> USE ConstantsAssumption
<1> DEFINE id == flight[f].id
<1>1. /\ id \in Ids /\ UNCHANGED server
      /\ \A g \in Flights : g # f => flight'[g] = flight[g]
  BY PipelineEffect
<1>2. \A g \in Flights : g # f /\ HasCopy(g)' => Backed(flight'[g].base) /\ OutcomeBacked(g)'
  BY <1>1 DEF HasCopy, ContentInv, OutcomeBacked
<1>3. \A i \in Ids : server'[i] # 0
  BY <1>1 DEF ContentInv
<1>4. ASSUME Touches(id) PROVE ReadyMeansContent'
  BY <1>1, <1>4, ContentKept DEF Touches, ContentInv, ReadyMeansContent, TypeOK, Present
<1>5. CASE Ends(f)
  <2>1. ~HasCopy(f)'
    BY <1>5 DEF Ends, HasCopy, Free, Working
  <2>2. HasCopy(f) => Backed(Result(flight[f].base, flight[f].outcome))
    <3> SUFFICES ASSUME HasCopy(f)
                 PROVE  Backed(Result(flight[f].base, flight[f].outcome))
      OBVIOUS
    <3>1. /\ flight[f].base \in Subscription /\ flight[f].outcome \in Outcomes
          /\ Backed(flight[f].base) /\ OutcomeBacked(f)
      BY DEF TypeOK, FlightOK, HasCopy, Pipeline, ContentInv
    <3> DEFINE result == Result(flight[f].base, flight[f].outcome)
    <3>2. /\ result.status = "ready" => Succeeded(flight[f].outcome)
          /\ flight[f].outcome.kind = "parsed" =>
               /\ result.nodes = flight[f].outcome.version
               /\ result.etag \in {0, flight[f].outcome.version}
          /\ flight[f].outcome.kind # "parsed" => result.nodes = flight[f].base.nodes
          /\ flight[f].outcome.kind # "parsed" /\ ~result.blind =>
               /\ ~flight[f].base.blind
               /\ result.etag = flight[f].base.etag
               /\ Succeeded(flight[f].outcome) => flight[f].base.etag = flight[f].outcome.version
      BY <3>1, ResultEffect
    <3>3. flight[f].base # Absent
      BY <3>1
    <3> HIDE DEF result
    <3>4. Backed(result)
      BY <3>1, <3>2, <3>3 DEF Backed, OutcomeBacked, Succeeded
    <3> QED
      BY <3>4 DEF result
  <2>3. HasCopy(f) => Backed(flight[f].base)
    BY DEF ContentInv
  <2>4. ReadyMeansContent'
    BY <1>1, <1>4, <1>5, <2>2, <2>3 DEF Ends, Write, ContentInv, ReadyMeansContent, TypeOK
  <2> QED
    BY <1>2, <1>3, <2>1, <2>4 DEF ContentInv
<1>6. CASE Claims(f) \/ Proceeds(f)
  <2>1. ReadyMeansContent'
    BY <1>4, <1>6, PipelineEffect DEF Claims, Proceeds, Ends, Free, Working
  <2>2. Backed(flight'[f].base) /\ OutcomeBacked(f)'
    <3>1. CASE Claims(f)
      <4>1. flight'[f].outcome = NoOutcome /\ flight'[f].base = items[id]
        BY <3>1 DEF Claims, NoEarlyOutcome, HasCopy, Working
      <4> QED
        BY <1>1, <4>1 DEF OutcomeBacked, Succeeded, NoOutcome, ContentInv, ReadyMeansContent
    <3>2. CASE Proceeds(f)
      BY <1>1, <3>2 DEF Proceeds, ContentInv, OutcomeBacked, Succeeded
    <3> QED
      BY <1>6, <3>1, <3>2
  <2> QED
    BY <1>2, <1>3, <2>1, <2>2 DEF ContentInv
<1> QED
  BY <1>5, <1>6, PipelineEffect

\* Every step keeps validators and nodes together.
LEMMA ContentStep ==
  TypeOK /\ TypeOK' /\ NoEarlyOutcome /\ ContentInv /\ [Next]_vars => ContentInv'
<1> SUFFICES ASSUME TypeOK, TypeOK', NoEarlyOutcome, ContentInv, [Next]_vars
             PROVE  ContentInv'
  OBVIOUS
<1> USE ConstantsAssumption
<1>1. CASE \E f \in Flights : FlightStep(f)
  BY <1>1, ContentFlight
<1>2. CASE \A f \in Flights : ~FlightStep(f)
  <2>1. \A f \in Flights : HasCopy(f)' => Backed(flight'[f].base) /\ OutcomeBacked(f)'
    BY <1>2, CopiesKept DEF ContentInv, SameWork, OutcomeBacked
  <2>2. \A id \in Ids : server'[id] # 0
    BY ServerGrows DEF ContentInv, TypeOK
  <2>3. ASSUME NEW id \in Ids, Adding(id) \/ Editing(id) PROVE ReadyMeansContent'
    <3>1. \A item : Fresh(item) => Backed(item)
      BY DEF Fresh, Backed
    <3> QED
      BY <2>3, <3>1, EditEffect, ContentKept DEF Write, ContentInv, ReadyMeansContent, TypeOK,
         Present, Backed
  <2>4. ASSUME NEW c \in Callers, Rollback(c), Remove(caller[c].id) PROVE ReadyMeansContent'
    BY <2>4, RemoveEffect DEF Write, ContentInv, ReadyMeansContent, Backed, TypeOK
  <2>5. ASSUME Load PROVE ReadyMeansContent'
    <3>1. ASSUME NEW item \in Subscription \cup {Absent}, Backed(item)
          PROVE  Backed(Recovered(item))
      <4>1. CASE item = Absent
        BY <3>1, <4>1 DEF Recovered
      <4>2. CASE item \in Subscription
        BY <3>1, <4>2, RecoveredEffect DEF Backed
      <4> QED
        BY <4>1, <4>2
    <3> QED
      BY <2>5, <3>1 DEF Load, ContentInv, ReadyMeansContent, TypeOK
  <2>6. ASSUME Halt PROVE ReadyMeansContent'
    BY <2>6 DEF Halt, ContentInv, ReadyMeansContent, Backed
  <2>7. ASSUME UNCHANGED <<items, stored>> PROVE ReadyMeansContent'
    BY <2>7 DEF ContentInv, ReadyMeansContent
  <2> QED
    BY <1>2, <2>1, <2>2, <2>3, <2>4, <2>5, <2>6, <2>7, OtherEffect DEF ContentInv
<1> QED
  BY <1>1, <1>2

\* Unless a provider answered "not modified" to a request that did not carry the
\* validator of what it publishes, a stored validator belongs to the stored nodes
\* and a subscription reported ready has nodes: whatever documents, refreshed
\* validators, races, failed commits and restarts follow one another.
THEOREM ContentTheorem == Spec => []ReadyMeansContent
<1>1. Init => ContentInv /\ NoEarlyOutcome
  BY DEF Init, ContentInv, ReadyMeansContent, Backed, HasCopy, Free, Working, NoEarlyOutcome
<1>2. ContentInv => ReadyMeansContent
  BY DEF ContentInv
<1>3. QED
  BY <1>1, <1>2, TypeCorrect, OutcomeStep, ContentStep, PTL DEF Spec

-----------------------------------------------------------------------------
(* Nodes never go backwards *)

\* The pipeline steps on their own entry: the copy of the one pipeline of a
\* subscription is at least as new as the entry it will replace.
LEMMA VersionEntry ==
  ASSUME TypeOK, TypeOK', NoEarlyOutcome, NothingDurableIsHidden, VersionInv,
         NEW f \in Flights, FlightStep(f), NEW id \in Ids, id = flight[f].id
  PROVE  /\ NoNewer(items'[id], server[id])
         /\ NoNewer(stored'[id], server[id])
         /\ items'[id] # Absent => NoNewer(stored'[id], items'[id].nodes)
         /\ ~Regresses(items[id], items'[id])
         /\ ~Regresses(stored[id], stored'[id])
         /\ HasCopy(f)' => CopyAhead(f)'
<1> USE ConstantsAssumption
<1>1. /\ UNCHANGED server
      /\ server[id] \in Nat
      /\ items[id] \in Subscription \cup {Absent} /\ items'[id] \in Subscription \cup {Absent}
      /\ stored[id] \in Subscription \cup {Absent}
      /\ \A item \in Subscription : item.nodes \in Nat
  BY PipelineEffect DEF TypeOK, Subscription
<1>2. EntryBehind(id)
  BY DEF VersionInv
<1>3. HasCopy(f) => /\ flight[f].base \in Subscription /\ flight[f].outcome \in Outcomes
                    /\ flight[f].outcome.version \in Nat
                    /\ CopyAhead(f)
  BY DEF VersionInv, TypeOK, FlightOK, Pipeline, HasCopy, Outcomes
<1>4. ASSUME Touches(id)
      PROVE  /\ stored'[id] = stored[id]
             /\ items'[id] # Absent <=> items[id] # Absent
             /\ items[id] # Absent => items'[id].nodes = items[id].nodes
  BY <1>1, <1>4 DEF Touches, Staged, Present, TypeOK
<1>5. ASSUME Touches(id)
      PROVE  /\ NoNewer(items'[id], server[id])
             /\ NoNewer(stored'[id], server[id])
             /\ items'[id] # Absent => NoNewer(stored'[id], items'[id].nodes)
             /\ ~Regresses(items[id], items'[id])
             /\ ~Regresses(stored[id], stored'[id])
  BY <1>1, <1>2, <1>4, <1>5 DEF EntryBehind, NoNewer, Regresses, Present
<1>6. CASE Ends(f)
  <2>1. ~HasCopy(f)'
    BY <1>6 DEF Ends, HasCopy, Free, Working
  <2>2. CASE UNCHANGED <<items, stored>>
    BY <1>1, <1>2, <2>1, <2>2 DEF EntryBehind, NoNewer, Regresses, Present
  <2>3. CASE HasCopy(f) /\ Write(id, Result(flight[f].base, flight[f].outcome))
    <3> DEFINE result == Result(flight[f].base, flight[f].outcome)
    <3>1. result.nodes \in {flight[f].base.nodes} \/
            (flight[f].outcome.kind = "parsed" /\ result.nodes = flight[f].outcome.version)
      BY <1>3, <2>3, ResultEffect
    <3>2. items'[id] = result /\ stored'[id] = result /\ result \in Subscription
      BY <1>3, <2>3, ResultEffect DEF Write, TypeOK
    <3> HIDE DEF result
    <3>3. result.nodes <= server[id] /\ NoNewer(items[id], result.nodes)
            /\ NoNewer(stored[id], result.nodes)
      BY <1>1, <1>3, <2>3, <3>1 DEF CopyAhead, NoNewer
    <3> QED
      BY <1>1, <2>1, <3>2, <3>3 DEF NoNewer, Regresses
  <2>4. CASE /\ HasCopy(f)
             /\ items' = [items EXCEPT ![id] = flight[f].base]
             /\ UNCHANGED stored
    <3>1. items'[id] = flight[f].base /\ stored'[id] = stored[id]
      BY <2>4 DEF TypeOK
    <3>2. flight[f].base.nodes <= server[id] /\ NoNewer(items[id], flight[f].base.nodes)
            /\ NoNewer(stored[id], flight[f].base.nodes)
      BY <1>3, <2>4 DEF CopyAhead
    <3> QED
      BY <1>1, <1>2, <2>1, <3>1, <3>2 DEF NoNewer, Regresses, EntryBehind
  <2> QED
    BY <1>5, <1>6, <2>1, <2>2, <2>3, <2>4 DEF Ends
<1>7. CASE (Claims(f) \/ Proceeds(f)) /\ flight'[f].id = id /\ Touches(id)
  <2>1. CASE Claims(f)
    <3>1. /\ flight'[f].base = items[id] /\ items[id] # Absent
          /\ flight'[f].outcome.kind # "parsed"
      BY <2>1 DEF Claims, Present, NoEarlyOutcome, NoOutcome, HasCopy, Working
    <3>2. CopyAhead(f)'
      BY <1>1, <1>2, <1>4, <1>7, <3>1 DEF CopyAhead, EntryBehind, NoNewer, Present
    <3> QED
      BY <1>5, <1>7, <3>2
  <2>2. CASE Proceeds(f)
    <3>1. /\ HasCopy(f) /\ flight'[f].base = flight[f].base
          /\ flight'[f].outcome.kind = "parsed" =>
               \/ flight'[f].outcome = flight[f].outcome
               \/ flight'[f].outcome.version = server[id]
      BY <2>2 DEF Proceeds
    <3>2. CopyAhead(f)'
      BY <1>1, <1>3, <1>4, <1>7, <3>1 DEF CopyAhead, NoNewer
    <3> QED
      BY <1>5, <1>7, <3>2
  <2> QED
    BY <1>7, <2>1, <2>2
<1> QED
  BY <1>6, <1>7, PipelineEffect

\* A step that leaves a subscription alone keeps what is known of its versions.
LEMMA VersionFrame ==
  ASSUME TypeOK, VersionInv, NEW id \in Ids,
         items'[id] = items[id], stored'[id] = stored[id],
         server'[id] \in Nat, server[id] <= server'[id]
  PROVE  /\ EntryBehind(id)'
         /\ ~Regresses(items[id], items'[id])
         /\ ~Regresses(stored[id], stored'[id])
         /\ \A f \in Flights : HasCopy(f)' /\ HasCopy(f) /\ SameWork(f) /\ flight[f].id = id
              => CopyAhead(f)'
<1>1. /\ server[id] \in Nat
      /\ items[id] \in Subscription \cup {Absent}
      /\ stored[id] \in Subscription \cup {Absent}
      /\ \A item \in Subscription : item.nodes \in Nat
  BY DEF TypeOK, Subscription
<1>2. EntryBehind(id)'
  BY <1>1 DEF VersionInv, EntryBehind, NoNewer, Present
<1>3. ~Regresses(items[id], items'[id]) /\ ~Regresses(stored[id], stored'[id])
  BY <1>1, ConstantsAssumption DEF Regresses
<1>4. ASSUME NEW f \in Flights, HasCopy(f)', HasCopy(f), SameWork(f), flight[f].id = id
      PROVE  CopyAhead(f)'
  <2>1. CopyAhead(f) /\ flight[f].base.nodes \in Nat /\ flight[f].outcome.version \in Nat
    BY <1>4 DEF VersionInv, TypeOK, FlightOK, HasCopy, Subscription, Pipeline, Outcomes
  <2>2. /\ flight'[f].id = id /\ flight'[f].base = flight[f].base
        /\ flight'[f].outcome = flight[f].outcome
    BY <1>4 DEF SameWork
  <2> QED
    BY <1>1, <1>4, <2>1, <2>2 DEF CopyAhead, NoNewer
<1> QED
  BY <1>2, <1>3, <1>4

\* What the step of another actor does to a subscription: it leaves it, or
\* writes the same entry on both sides without touching its nodes, removes it,
\* or adds it.
LEMMA VersionWrite ==
  ASSUME TypeOK, VersionInv, NEW id \in Ids, NEW item \in Subscription \cup {Absent},
         Write(id, item), UNCHANGED server,
         \A f \in Flights : HasCopy(f)' => HasCopy(f) /\ SameWork(f),
         \/ item = Absent
         \/ Present(id) /\ item.nodes = items[id].nodes
         \/ ~Present(id) /\ item.nodes = 0 /\ stored[id] = Absent
  PROVE  /\ VersionInv'
         /\ \A i \in Ids : ~Regresses(items[i], items'[i]) /\ ~Regresses(stored[i], stored'[i])
<1> USE ConstantsAssumption
<1>1. /\ server[id] \in Nat
      /\ items[id] \in Subscription \cup {Absent}
      /\ stored[id] \in Subscription \cup {Absent}
      /\ \A i \in Subscription : i.nodes \in Nat
      /\ EntryBehind(id)
      /\ items'[id] = item /\ stored'[id] = item /\ server' = server
  BY DEF TypeOK, Subscription, VersionInv, Write
<1>2. ASSUME NEW i \in Ids, i # id
      PROVE  items'[i] = items[i] /\ stored'[i] = stored[i]
               /\ server'[i] \in Nat /\ server[i] <= server'[i]
  BY <1>2 DEF Write, TypeOK
<1>3. EntryBehind(id)' /\ ~Regresses(items[id], items'[id]) /\ ~Regresses(stored[id], stored'[id])
  BY <1>1 DEF EntryBehind, NoNewer, Regresses, Present
<1>4. ASSUME NEW f \in Flights, HasCopy(f)' PROVE CopyAhead(f)'
  <2>1. HasCopy(f) /\ SameWork(f) /\ flight[f].id \in Ids
    BY <1>4 DEF TypeOK, FlightOK, HasCopy, Working
  <2>2. CASE flight[f].id # id
    BY <1>2, <1>4, <2>1, <2>2, VersionFrame
  <2>3. CASE flight[f].id = id
    <3>1. CopyAhead(f) /\ flight[f].base.nodes \in Nat
      BY <2>1 DEF VersionInv, TypeOK, FlightOK, HasCopy, Subscription
    <3>2. /\ flight'[f].id = id /\ flight'[f].base = flight[f].base
          /\ flight'[f].outcome = flight[f].outcome
      BY <2>1, <2>3 DEF SameWork
    <3>3. item # Absent => item.nodes <= flight[f].base.nodes
      BY <1>1, <2>3, <3>1 DEF CopyAhead, NoNewer, Present
    <3> QED
      BY <1>1, <2>3, <3>1, <3>2, <3>3 DEF CopyAhead, NoNewer
  <2> QED
    BY <2>1, <2>2, <2>3
<1> QED
  BY <1>2, <1>3, <1>4, VersionFrame DEF VersionInv

\* Every step keeps the versions in order, and no step takes nodes back.
LEMMA VersionStep ==
  /\ TypeOK /\ TypeOK' /\ OneUpdatePerSubscription /\ NoEarlyOutcome /\ DownIsEmpty
  /\ NothingDurableIsHidden /\ VersionInv /\ [Next]_vars
  => /\ VersionInv'
     /\ \A id \in Ids : ~Regresses(items[id], items'[id]) /\ ~Regresses(stored[id], stored'[id])
<1> DEFINE Forward == \A id \in Ids : /\ ~Regresses(items[id], items'[id])
                                      /\ ~Regresses(stored[id], stored'[id])
<1> SUFFICES ASSUME TypeOK, TypeOK', OneUpdatePerSubscription, NoEarlyOutcome, DownIsEmpty,
                    NothingDurableIsHidden, VersionInv, [Next]_vars
             PROVE  VersionInv' /\ Forward
  OBVIOUS
<1> USE ConstantsAssumption
<1>0. \A id \in Ids : server'[id] \in Nat /\ server[id] <= server'[id]
  BY ServerGrows
<1>1. ASSUME NEW f \in Flights, FlightStep(f) PROVE VersionInv' /\ Forward
  <2>1. PICK id \in Ids : id = flight[f].id
    BY <1>1, PipelineEffect
  <2>2. /\ UNCHANGED server
        /\ \A g \in Flights : g # f => flight'[g] = flight[g]
        /\ \A i \in Ids : i # id => items'[i] = items[i] /\ stored'[i] = stored[i]
    BY <1>1, <2>1, PipelineEffect DEF Touches, Ends, Write, TypeOK
  <2>3. /\ EntryBehind(id)'
        /\ ~Regresses(items[id], items'[id]) /\ ~Regresses(stored[id], stored'[id])
        /\ HasCopy(f)' => CopyAhead(f)'
    BY <1>1, <2>1, <2>2, VersionEntry DEF EntryBehind, Present
  <2>4. ASSUME NEW g \in Flights, g # f, HasCopy(g)' PROVE CopyAhead(g)'
    <3>1. HasCopy(g) /\ SameWork(g) /\ flight[g].id \in Ids
      BY <2>2, <2>4 DEF HasCopy, SameWork, TypeOK, FlightOK, Working
    <3>2. flight[g].id # id
      BY <1>1, <2>1, <2>4, <3>1, FlightFrame
         DEF OneUpdatePerSubscription, InFlight, HasCopy, Working
    <3> QED
      BY <1>0, <2>2, <2>4, <3>1, <3>2, VersionFrame
  <2> QED
    BY <1>0, <2>2, <2>3, <2>4, VersionFrame DEF VersionInv
<1>2. CASE \A f \in Flights : ~FlightStep(f)
  <2>1. \A f \in Flights : HasCopy(f)' => HasCopy(f) /\ SameWork(f) /\ flight[f].id \in Ids
    BY <1>2, CopiesKept DEF TypeOK, FlightOK, HasCopy, Working
  <2>2. ASSUME NEW id \in Ids, Adding(id) \/ Editing(id) PROVE VersionInv' /\ Forward
    <3>1. /\ phase # "down" /\ UNCHANGED server
      BY <2>2, EditEffect DEF Adding, AddSubscription, Add, Accepting, Editing,
         RemoveSubscription, Remove, RenameSubscription, SetSubscriptionEnabled,
         ConfigureSubscriptionUpdates, Modify
    <3>2. PICK item \in Subscription \cup {Absent} :
            /\ Write(id, item)
            /\ \/ item = Absent
               \/ Present(id) /\ item.nodes = items[id].nodes
               \/ ~Present(id) /\ item.nodes = 0
      BY <2>2, EditEffect DEF Edited, Fresh
    <3>3. ~Present(id) => stored[id] = Absent
      BY <3>1 DEF NothingDurableIsHidden
    <3> QED
      BY <2>1, <3>1, <3>2, <3>3, VersionWrite
  <2>3. ASSUME NEW c \in Callers, Rollback(c), Remove(caller[c].id)
        PROVE  VersionInv' /\ Forward
    <3>1. UNCHANGED server
      BY <2>3 DEF Rollback
    <3> QED
      BY <2>1, <2>3, <3>1, RemoveEffect, VersionWrite
  <2>4. ASSUME Load PROVE VersionInv' /\ Forward
    <3>1. \A f \in Flights : ~HasCopy(f)'
      BY <2>4 DEF Load, DownIsEmpty, HasCopy, Free, Working
    <3>2. \A id \in Ids : /\ items[id] = Absent /\ stored'[id] = stored[id]
                          /\ items'[id] = Recovered(stored[id]) /\ server'[id] = server[id]
      BY <2>4 DEF Load, DownIsEmpty
    <3>3. \A id \in Ids : EntryBehind(id)'
      <4> TAKE id \in Ids
      <4>1. CASE stored[id] = Absent
        BY <3>2, <4>1 DEF EntryBehind, NoNewer, Present, Recovered
      <4>2. CASE stored[id] \in Subscription
        <5>1. items'[id].nodes = stored[id].nodes /\ stored[id].nodes \in Nat
          BY <3>2, <4>2, RecoveredEffect DEF Subscription
        <5>2. stored[id].nodes <= server[id]
          BY <4>2 DEF VersionInv, EntryBehind, NoNewer
        <5> QED
          BY <3>2, <5>1, <5>2 DEF EntryBehind, NoNewer, Present
      <4> QED
        BY <4>1, <4>2 DEF TypeOK
    <3>4. Forward
      BY <3>2 DEF Regresses, TypeOK, Subscription
    <3> QED
      BY <3>1, <3>3, <3>4 DEF VersionInv
  <2>5. ASSUME Halt PROVE VersionInv' /\ Forward
    <3>1. \A f \in Flights : ~HasCopy(f)'
      BY <2>5 DEF Halt, HasCopy, Free, Working
    <3>2. \A id \in Ids : items'[id] = Absent /\ stored'[id] = stored[id]
                            /\ server'[id] = server[id]
      BY <2>5 DEF Halt
    <3>3. \A id \in Ids : EntryBehind(id)'
      BY <3>2 DEF EntryBehind, NoNewer, Present, VersionInv
    <3>4. Forward
      BY <3>2 DEF Regresses, TypeOK, Subscription
    <3> QED
      BY <3>1, <3>3, <3>4 DEF VersionInv
  <2>6. ASSUME UNCHANGED <<items, stored>> PROVE VersionInv' /\ Forward
    <3>1. \A id \in Ids : items'[id] = items[id] /\ stored'[id] = stored[id]
      BY <2>6
    <3> QED
      BY <1>0, <2>1, <3>1, VersionFrame DEF VersionInv
  <2> QED
    BY <1>2, <2>2, <2>3, <2>4, <2>5, <2>6, OtherEffect
<1> QED
  BY <1>1, <1>2

\* As long as a subscription stays in the list or in the store, its nodes are
\* only replaced by the same or newer ones.
THEOREM ForwardTheorem == Spec => NodesNeverRegress
<1> DEFINE Known == TypeOK /\ OneUpdatePerSubscription /\ DownIsEmpty /\ NothingDurableIsHidden
<1>1. Init => VersionInv /\ NoEarlyOutcome
  BY ConstantsAssumption DEF Init, VersionInv, EntryBehind, NoNewer, Present, HasCopy, Free,
     Working, NoEarlyOutcome
<1>2. Known /\ Known' /\ NoEarlyOutcome /\ VersionInv /\ [Next]_vars => VersionInv'
  BY VersionStep
<1>3. Known /\ Known' /\ NoEarlyOutcome /\ VersionInv /\ [Next]_vars
        => [\A id \in Ids : ~Regresses(items[id], items'[id])
                         /\ ~Regresses(stored[id], stored'[id])]_vars
  BY VersionStep
<1>4. Spec => []Known
  BY TypeCorrect, OneUpdateTheorem, DownTheorem, HiddenTheorem, PTL
<1>5. Known /\ NoEarlyOutcome /\ [Next]_vars => NoEarlyOutcome'
  BY OutcomeStep
<1> HIDE DEF Known
<1>6. QED
  BY <1>1, <1>2, <1>3, <1>4, <1>5, PTL DEF Spec, NodesNeverRegress
=============================================================================
