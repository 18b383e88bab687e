------------------------ MODULE UpdateSchedulerProofs ------------------------
(***************************************************************************)
(* Proofs about UpdateScheduler, for any number of subscriptions and of    *)
(* goroutines in the group: the round of automatic updates respects every  *)
(* outcome.  The argument is that a subscription rests no longer than the  *)
(* time left until its next update.  The copy of a running update has to   *)
(* satisfy this too, since a commit publishes it, and a refused commit     *)
(* does so as it was taken.                                                *)
(***************************************************************************)
EXTENDS UpdateScheduler, TLAPS

Items == [enabled : BOOLEAN, interval : {i \in Nat : MinInterval <= i}, due : Nat]

TypeOK ==
  /\ sub \in [Ids -> Items \cup {None}]
  /\ flight \in [Ids -> Items \cup {None}]
  /\ rest \in [Ids -> Nat]

RestsBeforeDue(item, pause) == item # None => pause <= item.due

RestInv ==
  /\ TypeOK
  /\ \A id \in Ids : RestsBeforeDue(sub[id], rest[id]) /\ RestsBeforeDue(flight[id], rest[id])

USE ConstantsAssumption

-----------------------------------------------------------------------------
(* Entries *)

\* A new entry is well formed and due at once.
LEMMA NewItem == ASSUME NEW interval \in Intervals PROVE New(interval) \in Items
BY DEF New, Items

\* The delay after a failure lies between its bounds.
LEMMA DelayBounds ==
  ASSUME NEW interval \in Nat
  PROVE  FailureDelay(interval) \in Nat /\ MinDelay <= FailureDelay(interval)
<1> DEFINE delay == interval \div 8
<1>1. delay \in Nat
  OBVIOUS
<1> HIDE DEF delay
<1>2. /\ (IF delay < MinDelay THEN MinDelay ELSE IF delay > MaxDelay THEN MaxDelay ELSE delay) \in Nat
      /\ MinDelay <= (IF delay < MinDelay THEN MinDelay
                      ELSE IF delay > MaxDelay THEN MaxDelay ELSE delay)
  BY <1>1
<1> QED
  BY <1>2 DEF FailureDelay, delay

\* A tick brings the next update and the end of the rest nearer alike.
LEMMA AgedItem ==
  ASSUME NEW item \in Items \cup {None}, NEW pause \in Nat, RestsBeforeDue(item, pause)
  PROVE  /\ Aged(item) \in Items \cup {None}
         /\ Less(pause) \in Nat
         /\ RestsBeforeDue(Aged(item), Less(pause))
<1>1. CASE item = None
  BY <1>1 DEF Aged, Less, RestsBeforeDue
<1>2. CASE item # None
  <2>1. item \in Items
    BY <1>2
  <2>2. Aged(item) = [item EXCEPT !.due = Less(@)]
    BY <1>2 DEF Aged
  <2>3. Less(item.due) \in Nat /\ Less(pause) \in Nat /\ Less(pause) <= Less(item.due)
    BY <1>2, <2>1 DEF Items, Less, RestsBeforeDue
  <2>4. Aged(item) \in Items /\ Aged(item).due = Less(item.due)
    BY <2>1, <2>2, <2>3 DEF Items
  <2> QED
    BY <2>3, <2>4 DEF RestsBeforeDue
<1> QED
  BY <1>1, <1>2

-----------------------------------------------------------------------------
(* What changes one entry *)

\* Publishing an entry that is due no sooner than its rest ends keeps the invariant
\* when the rest becomes no longer than before or no update is left behind.
LEMMA PublishedRests ==
  ASSUME RestInv, NEW id \in Ids,
         NEW item \in Items \cup {None}, NEW pause \in Nat, RestsBeforeDue(item, pause),
         sub' = [sub EXCEPT ![id] = item], rest' = [rest EXCEPT ![id] = pause],
         \/ flight' = flight /\ pause <= rest[id]
         \/ flight' = [flight EXCEPT ![id] = None]
  PROVE  RestInv'
<1>1. TypeOK'
  BY DEF RestInv, TypeOK
<1>2. ASSUME NEW j \in Ids
      PROVE  RestsBeforeDue(sub'[j], rest'[j]) /\ RestsBeforeDue(flight'[j], rest'[j])
  <2>1. CASE j # id
    BY <1>2, <2>1 DEF RestInv, TypeOK
  <2>2. CASE j = id
    <3>1. sub'[j] = item /\ rest'[j] = pause
      BY <2>2 DEF RestInv, TypeOK
    <3>2. CASE flight' = flight /\ pause <= rest[id]
      <4>1. CASE flight[id] = None
        BY <2>2, <3>1, <3>2, <4>1 DEF RestsBeforeDue
      <4>2. CASE flight[id] # None
        <5>1. flight[id].due \in Nat /\ rest[id] \in Nat /\ rest[id] <= flight[id].due
          BY <4>2 DEF RestInv, TypeOK, Items, RestsBeforeDue
        <5> QED
          BY <2>2, <3>1, <3>2, <5>1 DEF RestsBeforeDue
      <4> QED
        BY <4>1, <4>2
    <3>3. CASE flight' = [flight EXCEPT ![id] = None]
      BY <2>2, <3>1, <3>3 DEF RestInv, TypeOK, RestsBeforeDue
    <3> QED
      BY <3>2, <3>3
  <2> QED
    BY <2>1, <2>2
<1> QED
  BY <1>1, <1>2 DEF RestInv

\* The copy that an update takes is due when the entry is.
LEMMA BegunRests ==
  ASSUME RestInv, NEW id \in Ids, Begin(id), sub' = sub, rest' = rest
  PROVE  RestInv'
BY DEF RestInv, TypeOK, Begin, RestsBeforeDue

\* Every end of an update sets the time of the next one no sooner than the rest.
LEMMA EndedRests ==
  ASSUME RestInv, NEW id \in Ids, FlightEnds(id)
  PROVE  RestInv'
<1>0. flight[id] \in Items /\ rest[id] \in Nat /\ rest[id] <= flight[id].due
  BY DEF FlightEnds, RestInv, TypeOK, RestsBeforeDue
<1>1. CASE Succeeds(id)
  <2>1. PICK interval \in Intervals \cup {flight[id].interval} :
          Settle(id, [flight[id] EXCEPT !.interval = interval, !.due = interval], MinInterval)
    BY <1>1 DEF Succeeds
  <2> DEFINE item == [flight[id] EXCEPT !.interval = interval, !.due = interval]
  <2>2. interval \in Nat /\ MinInterval <= interval
    BY <1>0, <2>1 DEF Items
  <2>3. item \in Items /\ item.due = interval
    BY <1>0, <2>2 DEF Items
  <2>4. RestsBeforeDue(item, MinInterval)
    BY <2>2, <2>3 DEF RestsBeforeDue
  <2> QED
    BY <2>1, <2>3, <2>4, PublishedRests DEF Settle
<1>2. CASE Fails(id)
  <2> DEFINE delay == FailureDelay(flight[id].interval)
             item == [flight[id] EXCEPT !.due = delay]
  <2>1. delay \in Nat /\ MinDelay <= delay
    BY <1>0, DelayBounds DEF Items
  <2> HIDE DEF delay
  <2>2. item \in Items /\ item.due = delay
    BY <1>0, <2>1 DEF Items
  <2>3. RestsBeforeDue(item, MinDelay)
    BY <2>1, <2>2 DEF RestsBeforeDue
  <2>4. Settle(id, item, MinDelay)
    BY <1>2 DEF Fails, delay
  <2> QED
    BY <2>2, <2>3, <2>4, PublishedRests DEF Settle
<1>3. CASE Refused(id)
  BY <1>0, <1>3, PublishedRests DEF Refused, Settle, RestsBeforeDue
<1> QED
  BY <1>1, <1>2, <1>3 DEF FlightEnds

\* A client's edit lets a subscription rest no longer than before.
LEMMA EditedRests ==
  ASSUME RestInv, NEW id \in Ids, Editing(id)
  PROVE  RestInv'
<1>1. ASSUME NEW item \in Items \cup {None}, Edit(id, item, 0)
      PROVE  RestInv'
  <2>1. RestsBeforeDue(item, 0)
    BY <1>1 DEF RestsBeforeDue, Items
  <2>2. 0 <= rest[id] /\ 0 \in Nat
    BY DEF RestInv, TypeOK
  <2> QED
    BY <1>1, <2>1, <2>2, PublishedRests DEF Edit
<1>2. CASE RemoveSubscription(id)
  BY <1>1, <1>2 DEF RemoveSubscription
<1>3. ASSUME NEW enabled \in BOOLEAN, SetSubscriptionEnabled(id, enabled)
      PROVE  RestInv'
  <2> DEFINE item == [sub[id] EXCEPT !.enabled = enabled]
  <2>1. sub[id] \in Items /\ rest[id] \in Nat /\ rest[id] <= sub[id].due
    BY <1>3 DEF SetSubscriptionEnabled, RestInv, TypeOK, RestsBeforeDue
  <2>2. item \in Items /\ item.due = sub[id].due
    BY <2>1 DEF Items
  <2>3. RestsBeforeDue(item, rest[id])
    BY <2>1, <2>2 DEF RestsBeforeDue
  <2>4. rest[id] <= rest[id]
    BY <2>1
  <2>5. sub' = [sub EXCEPT ![id] = item] /\ rest' = [rest EXCEPT ![id] = rest[id]] /\ flight' = flight
    BY <1>3 DEF SetSubscriptionEnabled, Edit
  <2> HIDE DEF item
  <2> QED
    BY <2>1, <2>2, <2>3, <2>4, <2>5, PublishedRests
<1>4. ASSUME NEW interval \in Intervals,
             AddSubscription(id, interval) \/ ConfigureSubscriptionUpdates(id, interval)
      PROVE  RestInv'
  BY <1>1, <1>4, NewItem DEF AddSubscription, ConfigureSubscriptionUpdates, New
<1> QED
  BY <1>2, <1>3, <1>4 DEF Editing

-----------------------------------------------------------------------------
(* The invariant *)

\* At the start nothing rests.
LEMMA RestInvInit == Init => RestInv
<1> SUFFICES ASSUME Init PROVE RestInv
  OBVIOUS
<1>1. TypeOK
  BY NewItem DEF Init, TypeOK
<1>2. \A id \in Ids : rest[id] = 0 /\ flight[id] = None
  BY DEF Init
<1>3. ASSUME NEW id \in Ids PROVE sub[id].due = 0
  <2>1. PICK entry \in [Ids -> {New(interval) : interval \in Intervals}] : sub = entry
    BY DEF Init
  <2>2. PICK interval \in Intervals : sub[id] = New(interval)
    BY <2>1
  <2> QED
    BY <2>2 DEF New
<1> QED
  BY <1>1, <1>2, <1>3 DEF RestInv, RestsBeforeDue

\* Every step keeps the rest no longer than the time left.
LEMMA RestInvNext == RestInv /\ [Next]_vars => RestInv'
<1> SUFFICES ASSUME RestInv, [Next]_vars PROVE RestInv'
  OBVIOUS
<1>1. CASE Tick
  <2>1. ASSUME NEW id \in Ids
        PROVE  /\ sub'[id] = Aged(sub[id]) /\ rest'[id] = Less(rest[id])
               /\ flight'[id] = Aged(flight[id])
               /\ Aged(sub[id]) \in Items \cup {None}
               /\ Aged(flight[id]) \in Items \cup {None}
               /\ Less(rest[id]) \in Nat
               /\ RestsBeforeDue(Aged(sub[id]), Less(rest[id]))
               /\ RestsBeforeDue(Aged(flight[id]), Less(rest[id]))
    <3>1. /\ sub[id] \in Items \cup {None} /\ flight[id] \in Items \cup {None}
          /\ rest[id] \in Nat
          /\ RestsBeforeDue(sub[id], rest[id]) /\ RestsBeforeDue(flight[id], rest[id])
      BY <2>1 DEF RestInv, TypeOK
    <3>2. /\ sub'[id] = Aged(sub[id]) /\ rest'[id] = Less(rest[id])
          /\ flight'[id] = Aged(flight[id])
      BY <1>1, <2>1 DEF Tick
    <3> QED
      BY <3>1, <3>2, AgedItem
  <2>2. TypeOK'
    BY <1>1, <2>1 DEF Tick, TypeOK
  <2> QED
    BY <2>1, <2>2 DEF RestInv
<1>2. CASE Scheduling
  BY <1>2 DEF Scheduling, TakeList, GroupGo, LeaveLoop, Return, RestInv, TypeOK
<1>3. CASE Cancel
  BY <1>3 DEF Cancel, RestInv, TypeOK
<1>4. ASSUME NEW s \in Slots, CallUpdate(s), slot[s].id \in Ids
      PROVE  RestInv'
  <2>1. CASE flight' = flight
    BY <1>4, <2>1 DEF CallUpdate, RestInv, TypeOK
  <2>2. CASE Begin(slot[s].id)
    BY <1>4, <2>2, BegunRests DEF CallUpdate
  <2> QED
    BY <1>4, <2>1, <2>2 DEF CallUpdate
<1>5. ASSUME NEW s \in Slots, CallUpdate(s), slot[s].id \notin Ids
      PROVE  RestInv'
  <2>1. flight' = flight
    BY <1>5 DEF CallUpdate, Begin, RestInv, TypeOK
  <2> QED
    BY <1>5, <2>1 DEF CallUpdate, RestInv, TypeOK
<1>6. ASSUME NEW s \in Slots, GiveUp(s)
      PROVE  RestInv'
  BY <1>6 DEF GiveUp, RestInv, TypeOK
<1>7. ASSUME NEW id \in Ids, UpdateSubscription(id)
      PROVE  RestInv'
  BY <1>7, BegunRests DEF UpdateSubscription
<1>8. ASSUME NEW id \in Ids, FlightEnds(id)
      PROVE  RestInv'
  BY <1>8, EndedRests
<1>9. ASSUME NEW id \in Ids, Editing(id)
      PROVE  RestInv'
  BY <1>9, EditedRests
<1>10. CASE UNCHANGED vars
  BY <1>10 DEF vars, RestInv, TypeOK
<1> QED
  BY <1>1, <1>2, <1>3, <1>4, <1>5, <1>6, <1>7, <1>8, <1>9, <1>10 DEF Next

-----------------------------------------------------------------------------
(* The property *)

\* What a round takes up has rested: updateDue puts subscriptions on its list only
\* when the time of the next update has come.
LEMMA TakenRested ==
  RestInv /\ [Next]_vars => \A id \in Ids : id \notin todo /\ id \in todo' => rest[id] = 0
<1> SUFFICES ASSUME RestInv, [Next]_vars, NEW id \in Ids, id \notin todo, id \in todo'
             PROVE  rest[id] = 0
  OBVIOUS
<1>1. TakeList
  BY DEF Next, vars, Tick, Scheduling, GroupGo, LeaveLoop, Return, Cancel, CallUpdate, GiveUp,
         UpdateSubscription, FlightEnds, Succeeds, Fails, Refused, Settle, Editing, Edit,
         AddSubscription, RemoveSubscription, SetSubscriptionEnabled, ConfigureSubscriptionUpdates
<1>2. sub[id] # None /\ sub[id].due = 0
  BY <1>1 DEF TakeList, IsDue
<1>3. rest[id] \in Nat /\ rest[id] <= 0
  BY <1>2 DEF RestInv, TypeOK, RestsBeforeDue
<1> QED
  BY <1>3

\* A round begins with subscriptions that may be updated: no success, no failure, no
\* refused commit and no edit, in whatever order they come, makes a subscription due
\* before the minimum interval, or the retry delay after a failure, has passed.
THEOREM RoundsRespectOutcomesTheorem == Spec => RoundsRespectOutcomes
<1>1. Spec => []RestInv
  BY RestInvInit, RestInvNext, PTL DEF Spec
<1> QED
  BY <1>1, TakenRested, PTL DEF Spec, RoundsRespectOutcomes
=============================================================================
