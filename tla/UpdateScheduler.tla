--------------------------- MODULE UpdateScheduler ---------------------------
(***************************************************************************)
(* Automatic updates over time: Run and updateDue of the subscription      *)
(* manager, with the ticker, the errgroup that runs a limited number of    *)
(* updates, the singleflight group that joins them, and the time of the    *)
(* next update that each outcome sets.  What else an update does is in     *)
(* Subscriptions.                                                          *)
(*                                                                         *)
(* Time is counted in ticks of one minute and relative: due is how many    *)
(* ticks are left until NextUpdateAt, so that the clock needs no bound.    *)
(* enabled stands for Enabled and AutoUpdate.  An update begins with the   *)
(* copy it takes: callers that ask in between join it all the same.        *)
(* rest is a history variable, nothing in the program records it.          *)
(***************************************************************************)
EXTENDS Naturals

CONSTANTS
  Ids,         \* subscriptions
  Slots,       \* what the group's limit allows to run at a time
  Intervals,   \* update intervals a client or a provider may give, in ticks
  MinInterval, \* minimumUpdateInterval, in ticks
  MinDelay,    \* bounds of failureDelay, in ticks
  MaxDelay,
  None         \* no subscription, no entry, no update

ASSUME ConstantsAssumption ==
  /\ Slots # {} /\ Ids # {}
  /\ MinInterval \in Nat \ {0}
  /\ Intervals # {} /\ \A i \in Intervals : i \in Nat /\ MinInterval <= i
  /\ MinDelay \in Nat \ {0} /\ MaxDelay \in Nat
  /\ MinDelay <= MaxDelay /\ MinDelay <= MinInterval

VARIABLES
  sub,    \* the entries of the snapshot
  flight, \* the update that runs for a subscription: the copy it took
  slot,   \* the goroutines of the group
  todo,   \* what updateDue has not handed to the group yet
  tick,   \* the ticker's channel holds a tick
  run,    \* where Run is: in its loop, in group.Wait, or returned
  live,   \* the scheduler's context has not been cancelled
  rest    \* how many ticks the last outcome leaves a subscription alone

vars == <<sub, flight, slot, todo, tick, run, live, rest>>

FreeSlot == [pc |-> "free", id |-> None]

New(interval) == [enabled |-> TRUE, interval |-> interval, due |-> 0]

\* Run makes its first round without waiting for a tick.
Init ==
  /\ sub \in [Ids -> {New(interval) : interval \in Intervals}]
  /\ flight = [id \in Ids |-> None]
  /\ slot = [s \in Slots |-> FreeSlot]
  /\ todo = {}
  /\ tick = TRUE
  /\ run = "loop"
  /\ live = TRUE
  /\ rest = [id \in Ids |-> 0]

-----------------------------------------------------------------------------
(* Time *)

Less(n) == IF n = 0 THEN 0 ELSE n - 1

Aged(item) == IF item = None THEN None ELSE [item EXCEPT !.due = Less(@)]

\* The ticker's channel holds one tick; a tick that finds it full is dropped.
Tick ==
  /\ sub' = [id \in Ids |-> Aged(sub[id])]
  /\ flight' = [id \in Ids |-> Aged(flight[id])]
  /\ rest' = [id \in Ids |-> Less(rest[id])]
  /\ tick' = TRUE
  /\ UNCHANGED <<slot, todo, run, live>>

-----------------------------------------------------------------------------
(* The scheduler *)

IsDue(item) == item # None /\ item.enabled /\ item.due = 0

\* updateDue takes the list once and works it off, however long that takes.
TakeList ==
  /\ run = "loop" /\ todo = {}
  /\ tick
  /\ tick' = FALSE
  /\ todo' = {id \in Ids : IsDue(sub[id])}
  /\ UNCHANGED <<sub, flight, slot, run, live, rest>>

\* group.Go waits until fewer than Limit goroutines run.  The order of the list is
\* abstracted.
GroupGo ==
  /\ run = "loop"
  /\ \E s \in Slots, id \in todo :
       /\ slot[s] = FreeSlot
       /\ slot' = [slot EXCEPT ![s] = [pc |-> "start", id |-> id]]
       /\ todo' = todo \ {id}
  /\ UNCHANGED <<sub, flight, tick, run, live, rest>>

LeaveMutant == run = "loop" /\ todo = {} /\ ~tick /\ ~live /\ run' = "wait"

\* Between two rounds the loop sees that the context is done, perhaps only
\* after another round.
Leave == run = "loop" /\ todo = {} /\ ~live /\ run' = "wait"

LeaveLoop == Leave /\ UNCHANGED <<sub, flight, slot, todo, tick, live, rest>>

\* group.Wait
Returned == \A s \in Slots : slot[s] = FreeSlot

Return ==
  /\ run = "wait"
  /\ Returned
  /\ run' = "returned"
  /\ UNCHANGED <<sub, flight, slot, todo, tick, live, rest>>

\* Close cancels the scheduler's context.
Cancel ==
  /\ live
  /\ live' = FALSE
  /\ UNCHANGED <<sub, flight, slot, todo, tick, run, rest>>

-----------------------------------------------------------------------------
(* Updates *)

\* beginUpdate takes a copy of the entry.
Begin(id) == flight' = [flight EXCEPT ![id] = sub[id]]

\* A goroutine of the group calls Update, which starts an update or joins the
\* one that runs; there is nothing to update when the entry is gone.
CallUpdate(s) ==
  LET id == slot[s].id
  IN  /\ slot[s].pc = "start"
      /\ IF flight[id] = None /\ sub[id] = None
         THEN slot' = [slot EXCEPT ![s] = FreeSlot] /\ UNCHANGED flight
         ELSE /\ slot' = [slot EXCEPT ![s].pc = "wait"]
              /\ IF flight[id] = None THEN Begin(id) ELSE UNCHANGED flight
      /\ UNCHANGED <<sub, todo, tick, run, live, rest>>

\* With a cancelled context Update returns at once; the update goes on.
GiveUp(s) ==
  /\ ~live
  /\ slot[s] # FreeSlot
  /\ slot' = [slot EXCEPT ![s] = FreeSlot]
  /\ UNCHANGED <<sub, flight, todo, tick, run, live, rest>>

\* A client asks for an update; its handler may still be running when the
\* scheduler is stopped.
UpdateSubscription(id) ==
  /\ flight[id] = None
  /\ sub[id] # None
  /\ Begin(id)
  /\ UNCHANGED <<sub, slot, todo, tick, run, live, rest>>

ReleasedMutant(id) == slot

\* Every goroutine that waits for the update returns and leaves the group.
Released(id) ==
  [s \in Slots |->
    IF slot[s].pc = "wait" /\ slot[s].id = id THEN FreeSlot ELSE slot[s]]

\* commit writes the copy whatever became of the entry meanwhile.
Settle(id, item, pause) ==
  /\ sub' = [sub EXCEPT ![id] = item]
  /\ rest' = [rest EXCEPT ![id] = pause]
  /\ flight' = [flight EXCEPT ![id] = None]
  /\ slot' = Released(id)
  /\ UNCHANGED <<todo, tick, run, live>>

\* A document, or 304: perhaps with a suggested interval.
Succeeds(id) ==
  \E interval \in Intervals \cup {flight[id].interval} :
    Settle(id, [flight[id] EXCEPT !.interval = interval, !.due = interval], MinInterval)

DelayMutant(interval) == interval \div 8

\* failureDelay
FailureDelay(interval) ==
  LET delay == interval \div 8
  IN  IF delay < MinDelay THEN MinDelay
      ELSE IF delay > MaxDelay THEN MaxDelay ELSE delay

Fails(id) ==
  Settle(id, [flight[id] EXCEPT !.due = FailureDelay(flight[id].interval)], MinDelay)

\* The store refuses the commit: the copy is published as it was taken.
Refused(id) == Settle(id, flight[id], rest[id])

FlightEnds(id) ==
  flight[id] # None /\ (Succeeds(id) \/ Fails(id) \/ Refused(id))

-----------------------------------------------------------------------------
(* Clients *)

Edit(id, item, pause) ==
  /\ sub' = [sub EXCEPT ![id] = item]
  /\ rest' = [rest EXCEPT ![id] = pause]
  /\ UNCHANGED <<flight, slot, todo, tick, run, live>>

AddSubscription(id, interval) == sub[id] = None /\ Edit(id, New(interval), 0)

RemoveSubscription(id) == sub[id] # None /\ Edit(id, None, 0)

SetSubscriptionEnabled(id, enabled) ==
  sub[id] # None /\ Edit(id, [sub[id] EXCEPT !.enabled = enabled], rest[id])

\* ConfigureSubscriptionUpdates that turns automatic updates on makes one due.
ConfigureSubscriptionUpdates(id, interval) ==
  /\ sub[id] # None
  /\ Edit(id, [enabled |-> TRUE, interval |-> interval, due |-> 0], 0)

Editing(id) ==
  \/ RemoveSubscription(id)
  \/ \E enabled \in BOOLEAN : SetSubscriptionEnabled(id, enabled)
  \/ \E interval \in Intervals :
       AddSubscription(id, interval) \/ ConfigureSubscriptionUpdates(id, interval)

Scheduling == TakeList \/ GroupGo \/ LeaveLoop \/ Return

Next ==
  \/ Tick
  \/ Scheduling
  \/ Cancel
  \/ \E s \in Slots : CallUpdate(s) \/ GiveUp(s)
  \/ \E id \in Ids : UpdateSubscription(id) \/ FlightEnds(id) \/ Editing(id)

\* Time passes, goroutines are scheduled, and an update ends because each of
\* its requests and lookups has a timeout.  select chooses among its ready
\* cases at random, so that a context that is done is not overlooked for ever.
Fairness ==
  /\ WF_vars(Tick)
  /\ WF_vars(Scheduling) /\ SF_vars(LeaveLoop)
  /\ \A s \in Slots : WF_vars(CallUpdate(s) \/ GiveUp(s))
  /\ \A id \in Ids : WF_vars(FlightEnds(id))

Spec == Init /\ [][Next]_vars /\ Fairness

-----------------------------------------------------------------------------
(* Properties *)

\* A round begins with subscriptions that may be updated: no outcome, whatever
\* copy it was computed from, makes a subscription due before the minimum
\* interval, or the retry delay after a failure, has passed.
RoundsRespectOutcomes ==
  [][\A id \in Ids : id \notin todo /\ id \in todo' => rest[id] = 0]_vars

\* A subscription that is due is updated although others are slow, unless a
\* client turns it off.
DueIsUpdated ==
  \A id \in Ids : live /\ IsDue(sub[id]) ~> ~live \/ ~IsDue(sub[id]) \/ flight[id] # None

\* Once cancelled, the scheduler returns, also from group.Go.
CancelledReturns == ~live ~> run = "returned"

=============================================================================
