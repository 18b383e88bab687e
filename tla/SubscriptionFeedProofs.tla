------------------------ MODULE SubscriptionFeedProofs ------------------------
(***************************************************************************)
(* Proofs about the event stream, for every number of subscribers and      *)
(* every capacity of their channels.  The composition takes the manager's  *)
(* steps only, so that the theorems about the manager hold for it; every   *)
(* step of the manager changes one entry at most, and says so in an event  *)
(* or is a refused commit.                                                 *)
(***************************************************************************)
EXTENDS SubscriptionFeed, SubscriptionsProofs

-----------------------------------------------------------------------------
(* The events about one subscription *)

\* A queue and the same queue with one more event.
LEMMA AppendedEvents ==
  ASSUME NEW queue \in Seq(Events), NEW event \in Events, NEW longer,
         longer = Append(queue, event)
  PROVE  /\ Len(queue) \in Nat /\ DOMAIN queue = 1..Len(queue)
         /\ DOMAIN longer = 1..(Len(queue) + 1)
         /\ longer[Len(queue) + 1] = event
         /\ \A i \in DOMAIN queue : longer[i] = queue[i]
         /\ longer \in Seq(Events)
OBVIOUS

\* An appended event is about its subscription ...
LEMMA AboutAppended ==
  ASSUME NEW queue \in Seq(Events), NEW event \in Events, NEW longer,
         longer = Append(queue, event)
  PROVE  Len(queue) + 1 \in About(longer, event.id)
<1>1. Len(queue) + 1 \in DOMAIN longer /\ longer[Len(queue) + 1] = event
  BY AppendedEvents
<1> QED
  BY <1>1 DEF About

\* ... and does not concern the others.
LEMMA OthersAppended ==
  ASSUME NEW queue \in Seq(Events), NEW event \in Events, NEW longer,
         longer = Append(queue, event), NEW id, event.id # id
  PROVE  About(longer, id) = About(queue, id)
<1> DEFINE last == Len(queue) + 1
<1>1. 1..last = (1..Len(queue)) \cup {last}
  BY AppendedEvents
<1>2. /\ DOMAIN longer = DOMAIN queue \cup {last}
      /\ longer[last] = event
      /\ \A i \in DOMAIN queue : longer[i] = queue[i]
  BY <1>1, AppendedEvents
<1> HIDE DEF last
<1> QED
  BY <1>2 DEF About

\* A queue and what is left of it when its oldest event is taken.
LEMMA TakenEvents ==
  ASSUME NEW queue \in Seq(Events), queue # <<>>, NEW rest, rest = Tail(queue)
  PROVE  /\ Len(queue) \in Nat \ {0} /\ DOMAIN queue = 1..Len(queue)
         /\ DOMAIN rest = 1..(Len(queue) - 1)
         /\ \A i \in 1..(Len(queue) - 1) : rest[i] = queue[i + 1]
         /\ Head(queue) = queue[1]
         /\ rest \in Seq(Events)
OBVIOUS

\* The places of the events that are left.
LEMMA TakenPlaces ==
  ASSUME NEW queue \in Seq(Events), queue # <<>>, NEW rest, rest = Tail(queue), NEW id,
         NEW i \in About(queue, id)
  PROVE  i \in Nat /\ (i = 1 \/ (i - 1 \in About(rest, id) /\ rest[i - 1] = queue[i]))
<1>1. i \in 1..Len(queue) /\ queue[i].id = id
  BY TakenEvents DEF About
<1>2. i # 1 => i - 1 \in 1..(Len(queue) - 1) /\ (i - 1) + 1 = i
  BY <1>1, TakenEvents
<1>3. i # 1 => i - 1 \in DOMAIN rest /\ rest[i - 1] = queue[i]
  BY <1>2, TakenEvents
<1> QED
  BY <1>1, <1>3 DEF About

\* What is the latest in the rest was the latest before.
LEMMA LatestTaken ==
  ASSUME NEW queue \in Seq(Events), queue # <<>>, NEW rest, rest = Tail(queue), NEW id,
         NEW i \in Latest(rest, id)
  PROVE  i + 1 \in Latest(queue, id) /\ rest[i] = queue[i + 1]
<1>1. i \in DOMAIN rest /\ rest[i].id = id /\ \A j \in About(rest, id) : j <= i
  BY DEF Latest, About
<1>2. i \in Nat /\ i + 1 \in DOMAIN queue /\ rest[i] = queue[i + 1]
  BY <1>1, TakenEvents
<1>3. ASSUME NEW j \in About(queue, id) PROVE j <= i + 1
  <2>1. j \in Nat /\ (j = 1 \/ j - 1 \in About(rest, id))
    BY <1>3, TakenPlaces
  <2> QED
    BY <1>1, <1>2, <2>1
<1> QED
  BY <1>1, <1>2, <1>3 DEF Latest, About

\* The last event about a subscription that is taken was the latest.
LEMMA LastTaken ==
  ASSUME NEW queue \in Seq(Events), queue # <<>>, NEW rest, rest = Tail(queue), NEW id,
         About(rest, id) = {}
  PROVE  IF queue[1].id = id THEN 1 \in Latest(queue, id) ELSE About(queue, id) = {}
<1>1. ASSUME NEW i \in About(queue, id) PROVE i = 1
  BY <1>1, TakenPlaces
<1>2. 1 \in DOMAIN queue
  BY TakenEvents
<1> QED
  BY <1>1, <1>2 DEF Latest, About

\* Taking the oldest event does not disturb the one that is being published.
LEMMA TakenFromLonger ==
  ASSUME NEW queue \in Seq(Events), queue # <<>>, NEW event \in Events
  PROVE  /\ Append(Tail(queue), event) = Tail(Append(queue, event))
         /\ Head(queue) = Append(queue, event)[1]
         /\ Append(queue, event) # <<>>
OBVIOUS

-----------------------------------------------------------------------------
(* Events, lists and what is shown *)

\* The latest event about a subscription, unless it is quiet, tells what is shown.
UpToDate(events, quiet, shown) ==
  \A id \in Ids \ quiet : \A i \in Latest(events, id) : Shown(events[i]) = shown[id]

\* A list holds what no event is going to change.
Settled(list, events, quiet, shown) ==
  \A id \in Ids \ quiet : About(events, id) = {} => list[id] = shown[id]

\* The event tells what is shown after a change, which does not concern the others.
Tells(event, quietBefore, before, quiet, after) ==
  /\ Shown(event) = after[event.id]
  /\ \A id \in Ids \ quiet :
       id # event.id => id \notin quietBefore /\ after[id] = before[id]

\* An event that tells what is shown after a change is appended.
LEMMA AppendedUpToDate ==
  ASSUME NEW queue \in Seq(Events), NEW event \in Events, NEW longer,
         longer = Append(queue, event),
         NEW before, NEW quietBefore, NEW after, NEW quiet, NEW list
  PROVE  Tells(event, quietBefore, before, quiet, after) =>
           /\ UpToDate(queue, quietBefore, before) => UpToDate(longer, quiet, after)
           /\ Settled(list, queue, quietBefore, before) => Settled(list, longer, quiet, after)
<1>1. ASSUME NEW id, NEW i \in Latest(longer, id)
      PROVE  \/ event.id = id /\ longer[i] = event
             \/ event.id # id /\ i \in Latest(queue, id) /\ longer[i] = queue[i]
  <2>1. i \in About(longer, id) /\ \A j \in About(longer, id) : j <= i
    BY DEF Latest
  <2>2. CASE event.id = id
    <3>1. Len(queue) + 1 \in About(longer, id)
      BY <2>2, AboutAppended
    <3>2. i \in DOMAIN longer /\ Len(queue) + 1 <= i
      BY <2>1, <3>1 DEF About
    <3>3. i = Len(queue) + 1
      BY <3>2, AppendedEvents
    <3> QED
      BY <2>2, <3>3, AppendedEvents
  <2>3. CASE event.id # id
    <3>1. About(longer, id) = About(queue, id)
      BY <2>3, OthersAppended
    <3>2. i \in Latest(queue, id) /\ i \in DOMAIN queue
      BY <2>1, <3>1 DEF Latest, About
    <3> QED
      BY <2>3, <3>2, AppendedEvents
  <2> QED
    BY <2>2, <2>3
<1>2. ASSUME NEW id, id # event.id
      PROVE  About(longer, id) = About(queue, id)
  BY <1>2, OthersAppended
<1>3. About(longer, event.id) # {}
  <2>1. Len(queue) + 1 \in About(longer, event.id)
    BY AboutAppended
  <2> QED
    BY <2>1
<1>4. ASSUME Tells(event, quietBefore, before, quiet, after),
             UpToDate(queue, quietBefore, before), NEW id \in Ids \ quiet,
             NEW i \in Latest(longer, id)
      PROVE  Shown(longer[i]) = after[id]
  <2>1. CASE event.id = id
    BY <1>1, <1>4, <2>1 DEF Tells
  <2>2. CASE event.id # id
    <3>1. i \in Latest(queue, id) /\ longer[i] = queue[i]
      BY <1>1, <1>4, <2>2
    <3>2. id \notin quietBefore /\ after[id] = before[id]
      BY <1>4, <2>2 DEF Tells
    <3> QED
      BY <1>4, <3>1, <3>2 DEF UpToDate
  <2> QED
    BY <2>1, <2>2
<1>5. ASSUME Tells(event, quietBefore, before, quiet, after),
             Settled(list, queue, quietBefore, before), NEW id \in Ids \ quiet,
             About(longer, id) = {}
      PROVE  list[id] = after[id]
  <2>1. id # event.id
    BY <1>3, <1>5
  <2>2. About(queue, id) = {}
    BY <1>2, <1>5, <2>1
  <2>3. id \notin quietBefore /\ after[id] = before[id]
    BY <1>5, <2>1 DEF Tells
  <2> QED
    BY <1>5, <2>2, <2>3 DEF Settled
<1> QED
  BY <1>4, <1>5 DEF UpToDate, Settled

\* The oldest event is applied to a list, or dropped by a client that has none.
LEMMA TakenUpToDate ==
  ASSUME NEW queue \in Seq(Events), queue # <<>>, NEW rest, rest = Tail(queue),
         NEW shown, NEW quiet, UpToDate(queue, quiet, shown)
  PROVE  /\ UpToDate(rest, quiet, shown)
         /\ \A list \in [Ids -> Views] :
              Settled(list, queue, quiet, shown) => Settled(Applied(list, queue[1]), rest, quiet, shown)
<1>1. ASSUME NEW id \in Ids \ quiet, NEW i \in Latest(rest, id)
      PROVE  Shown(rest[i]) = shown[id]
  <2>1. i + 1 \in Latest(queue, id) /\ rest[i] = queue[i + 1]
    BY <1>1, LatestTaken
  <2> QED
    BY <2>1 DEF UpToDate
<1>2. ASSUME NEW list \in [Ids -> Views], Settled(list, queue, quiet, shown),
             NEW id \in Ids \ quiet, About(rest, id) = {}
      PROVE  Applied(list, queue[1])[id] = shown[id]
  <2>1. IF queue[1].id = id THEN 1 \in Latest(queue, id) ELSE About(queue, id) = {}
    BY <1>2, LastTaken
  <2>2. CASE queue[1].id = id
    BY <2>1, <2>2 DEF UpToDate, Applied
  <2>3. CASE queue[1].id # id
    <3>1. list[id] = shown[id]
      BY <1>2, <2>1, <2>3 DEF Settled
    <3> QED
      BY <2>3, <3>1 DEF Applied
  <2> QED
    BY <2>2, <2>3
<1> QED
  BY <1>1, <1>2 DEF UpToDate, Settled

\* Nothing is under way in an empty channel.
LEMMA NothingWaits ==
  ASSUME NEW quiet, NEW shown
  PROVE  UpToDate(<<>>, quiet, shown) /\ Settled(shown, <<>>, quiet, shown)
BY DEF UpToDate, Settled, Latest, About

-----------------------------------------------------------------------------
(* The steps of the manager *)

\* The entries other than that of id stay as they are.
OthersStay(id) == \A other \in Ids : other # id => items'[other] = items[other]

\* A commit that the store refuses publishes the copy of its pipeline.
Refuses(id) ==
  \E f \in Flights : HasCopy(f) /\ items'[id] = flight[f].base

\* The composition adds no behaviour to the manager.
LEMMA FeedStepsAreManagerSteps == [FeedNext]_<<vars, feedVars>> => [Next]_vars
<1> SUFFICES ASSUME FeedNext PROVE [Next]_vars
  BY DEF vars
<1>1. ASSUME NEW f \in Flights, CommitAndSay(f) \/ FlightAndSay(f) PROVE FlightStep(f)
  BY <1>1 DEF CommitAndSay, FlightAndSay, Commit, FlightStep
<1>2. ASSUME NEW c \in Callers, CallAndSay(c) PROVE Calling(c)
  BY <1>2 DEF CallAndSay, Calling
<1>3. CASE ManagerStep
  BY <1>1, <1>2, <1>3 DEF ManagerStep, ServerStarts, Next
<1>4. CASE ServerStops
  BY <1>4 DEF ServerStops, Next
<1>5. CASE PublishEvent
  BY <1>5 DEF PublishEvent
<1>6. ASSUME NEW l \in Listeners, Subscribe(l) \/ List(l) \/ Deliver(l) \/ Unsubscribe(l)
      PROVE  UNCHANGED vars
  BY <1>6 DEF Subscribe, List, Deliver, Unsubscribe
<1> QED
  BY <1>3, <1>4, <1>5, <1>6 DEF FeedNext

\* The manager with its event stream behaves as the manager without: publishing and
\* the subscribers never change or hold up what the coordinator does to the entries.
THEOREM FeedImplementsManager == FeedSpec => Spec
<1>1. FeedInit => Init
  BY DEF FeedInit
<1> QED
  BY <1>1, FeedStepsAreManagerSteps, PTL DEF FeedSpec, Spec

\* A step of the manager, other than its start, changes nothing a client sees, or one
\* entry with an event, or one entry in a refused commit.
LEMMA ManagerEffect ==
  ASSUME TypeOK, ManagerStep, ~ServerStarts
  PROVE  \/ Idles
         \/ \E id \in Ids : OthersStay(id) /\ (Says(id) \/ (Silent(id) /\ Refuses(id)))
<1> USE DEF OthersStay
<1>1. ASSUME NEW id \in Ids, (Adding(id) \/ Editing(id)) /\ Says(id)
      PROVE  OthersStay(id) /\ Says(id)
  BY <1>1, EditEffect DEF Write, TypeOK
<1>2. ASSUME NEW c \in Callers, CallAndSay(c), ~Idles
      PROVE  \E id \in Ids : OthersStay(id) /\ Says(id)
  <2>1. Rollback(c) /\ items' # items /\ Says(caller[c].id)
    BY <1>2 DEF CallAndSay
  <2>2. caller[c].id \in Ids
    BY <2>1 DEF Rollback, TypeOK, HandlerOK
  <2>3. Remove(caller[c].id)
    BY <2>1 DEF Rollback
  <2> QED
    BY <2>1, <2>2, <2>3 DEF Remove, Discard, Write, TypeOK
<1>3. ASSUME NEW f \in Flights, CommitAndSay(f), ~Idles
      PROVE  \E id \in Ids : OthersStay(id) /\ (Says(id) \/ (Silent(id) /\ Refuses(id)))
  <2> DEFINE id == flight[f].id
  <2>1. id \in Ids /\ HasCopy(f)
    BY <1>3 DEF CommitAndSay, HasCopy, TypeOK, FlightOK, Working
  <2>2. ASSUME CommitStored(f) PROVE OthersStay(id)
    BY <2>1, <2>2 DEF CommitStored, Write, TypeOK
  <2>3. ASSUME CommitRefused(f) PROVE OthersStay(id) /\ Refuses(id)
    <3>1. OthersStay(id) /\ items'[id] = flight[f].base
      BY <2>1, <2>3 DEF CommitRefused, CommitFailure, TypeOK
    <3> QED
      BY <2>1, <3>1 DEF Refuses
  <2>4. (CommitStored(f) /\ Says(id)) \/ (CommitRefused(f) /\ Silent(id))
    BY <1>3 DEF CommitAndSay
  <2>5. OthersStay(id) /\ (Says(id) \/ (Silent(id) /\ Refuses(id)))
    BY <2>2, <2>3, <2>4
  <2> HIDE DEF id
  <2> QED
    BY <2>1, <2>5
<1>4. ASSUME NEW f \in Flights, FlightAndSay(f), ~Idles
      PROVE  \E id \in Ids : OthersStay(id) /\ Says(id)
  <2> DEFINE id == flight[f].id
  <2>1. FlightStep(f) /\ Says(id)
    BY <1>4 DEF FlightAndSay
  <2>2. id \in Ids /\ (Ends(f) \/ Touches(id))
    BY <2>1, PipelineEffect
  <2>3. OthersStay(id)
    BY <2>2 DEF Ends, Touches, Write, TypeOK
  <2> QED
    BY <2>1, <2>2, <2>3
<1> HIDE DEF OthersStay
<1>5. \/ Idles
      \/ \E id \in Ids : (Adding(id) \/ Editing(id)) /\ Says(id)
      \/ \E c \in Callers : CallAndSay(c)
      \/ \E f \in Flights : CommitAndSay(f) \/ FlightAndSay(f)
  BY DEF ManagerStep
<1>6. CASE \E id \in Ids : (Adding(id) \/ Editing(id)) /\ Says(id)
  BY <1>1, <1>6
<1>7. CASE ~Idles /\ \E c \in Callers : CallAndSay(c)
  BY <1>2, <1>7
<1>8. CASE ~Idles /\ \E f \in Flights : CommitAndSay(f) \/ FlightAndSay(f)
  BY <1>3, <1>4, <1>8
<1> QED
  BY <1>5, <1>6, <1>7, <1>8

\* Only a manager that is there does something a client sees; its shutdown is not
\* undone.
LEMMA ManagerPhase ==
  ASSUME TypeOK, DownIsEmpty, ManagerStep, ~ServerStarts
  PROVE  /\ phase = "down" <=> phase' = "down"
         /\ phase' \in {"running", "draining"} => phase \in {"running", "draining"}
         /\ Idles \/ phase # "down"
<1>1. ASSUME NEW f \in Flights, CommitAndSay(f) \/ FlightAndSay(f)
      PROVE  UNCHANGED phase /\ phase # "down"
  <2>1. FlightStep(f)
    BY <1>1 DEF CommitAndSay, FlightAndSay, Commit, FlightStep
  <2>2. flight[f].pc # "free"
    BY <2>1 DEF FlightStep, Claim, ClaimFails, Announce, FetchFails, FetchNotModified,
       FetchDocument, ParseFails, ParseDocument, Resolve, Commit
  <2> QED
    BY <2>1, <2>2, PipelineEffect DEF DownIsEmpty, Free
<1>2. ASSUME NEW id \in Ids, Adding(id) \/ Editing(id)
      PROVE  UNCHANGED phase /\ phase # "down"
  <2>1. Accepting
    BY <1>2 DEF Adding, AddSubscription, Add, Editing, RemoveSubscription, Remove,
       RenameSubscription, SetSubscriptionEnabled, ConfigureSubscriptionUpdates, Modify
  <2> QED
    BY <1>2, <2>1, EditEffect DEF Accepting
<1>3. ASSUME NEW c \in Callers, CallAndSay(c)
      PROVE  UNCHANGED phase /\ (Idles \/ phase # "down")
  <2>1. UNCHANGED phase
    BY <1>3 DEF CallAndSay, Calling, UpdateSubscription, UpdateAdded, Update, Cancel, Rollback
  <2>2. Idles \/ Rollback(c)
    BY <1>3 DEF CallAndSay
  <2>3. Rollback(c) => phase # "down"
    BY DEF Rollback, DownIsEmpty, Idle
  <2> QED
    BY <2>1, <2>2, <2>3
<1>4. ASSUME NEW id \in Ids, UpdateDue(id) \/ Publish(id) PROVE UNCHANGED phase
  BY <1>4 DEF UpdateDue, Publish
<1>5. ASSUME Close PROVE phase = "draining" /\ phase' = "closing"
  BY <1>5 DEF Close
<1>6. \/ Close /\ Idles
      \/ \E id \in Ids : (Adding(id) \/ Editing(id)) /\ Says(id)
      \/ \E id \in Ids : (UpdateDue(id) \/ Publish(id)) /\ Idles
      \/ \E c \in Callers : CallAndSay(c)
      \/ \E f \in Flights : CommitAndSay(f) \/ FlightAndSay(f)
  BY DEF ManagerStep
<1> QED
  BY <1>1, <1>2, <1>3, <1>4, <1>5, <1>6

-----------------------------------------------------------------------------
(* Silent entries have settled *)

\* A manager that is not there has kept nothing from its clients.
SettledInv ==
  /\ SilentEntriesAreSettled
  /\ unsaid \subseteq Ids
  /\ phase = "down" => unsaid = {}

\* Every step keeps silent entries settled.
LEMMA SettledStep ==
  TypeOK /\ DownIsEmpty /\ OrphanInv /\ SettledInv /\ [FeedNext]_<<vars, feedVars>> => SettledInv'
<1> SUFFICES ASSUME TypeOK, DownIsEmpty, OrphanInv, SettledInv, [FeedNext]_<<vars, feedVars>>
             PROVE  SettledInv'
  OBVIOUS
<1> DEFINE Alive == phase \in {"running", "draining"}
<1>1. CASE ServerStarts
  BY <1>1 DEF ServerStarts, Load, feedVars, SettledInv, SilentEntriesAreSettled
<1>2. CASE ServerStops
  BY <1>2 DEF ServerStops, SettledInv, SilentEntriesAreSettled
<1>3. CASE ManagerStep /\ ~ServerStarts
  <2>1. /\ phase = "down" <=> phase' = "down"
        /\ phase' \in {"running", "draining"} => Alive
    BY <1>3, ManagerPhase
  <2>2. CASE Idles
    BY <2>1, <2>2 DEF Idles, feedVars, SettledInv, SilentEntriesAreSettled, Present
  <2>3. ASSUME NEW id \in Ids, OthersStay(id), Says(id) PROVE SettledInv'
    BY <2>1, <2>3 DEF Says, OthersStay, SettledInv, SilentEntriesAreSettled, Present
  <2>4. ASSUME NEW id \in Ids, OthersStay(id), Silent(id), Refuses(id) PROVE SettledInv'
    <3>1. Alive => items'[id].status # "updating"
      BY <2>4 DEF Refuses, OrphanInv
    <3>2. SilentEntriesAreSettled'
      BY <2>1, <2>4, <3>1 DEF Silent, OthersStay, SettledInv, SilentEntriesAreSettled, Present
    <3>3. phase # "down"
      BY <2>4 DEF Refuses, DownIsEmpty, HasCopy, Free, Working
    <3> QED
      BY <2>1, <2>4, <3>2, <3>3 DEF Silent, SettledInv
  <2> QED
    BY <1>3, <2>2, <2>3, <2>4, ManagerEffect
<1>4. CASE UNCHANGED <<vars, unsaid>>
  BY <1>4 DEF vars, SettledInv, SilentEntriesAreSettled, Present
<1> QED
  BY <1>1, <1>2, <1>3, <1>4 DEF FeedNext, PublishEvent, Subscribe, List, Deliver, Unsubscribe,
     feedVars

\* The pipelines' copies are not marked as updating while the coordinator runs.
LEMMA OrphanCorrect == Spec => []OrphanInv
<1>1. Init => OrphanInv
  BY DEF Init, OrphanInv, NoOrphanUpdating
<1> QED
  BY <1>1, TypeCorrect, OneUpdateTheorem, DownTheorem, OrphanStep, PTL DEF Spec

\* A client never waits for the end of an update that has ended without an event and
\* still runs in the manager's eyes.
THEOREM SilentTheorem == FeedSpec => []SilentEntriesAreSettled
<1>1. FeedInit => SettledInv
  BY DEF FeedInit, SettledInv, SilentEntriesAreSettled
<1>2. SettledInv => SilentEntriesAreSettled
  BY DEF SettledInv
<1>3. FeedSpec => [](TypeOK /\ DownIsEmpty /\ OrphanInv)
  BY FeedImplementsManager, TypeCorrect, DownTheorem, OrphanCorrect, PTL
<1> QED
  BY <1>1, <1>2, <1>3, SettledStep, PTL DEF FeedSpec

-----------------------------------------------------------------------------
(* A subscriber's list follows the snapshot *)

Subscriber ==
  [open : BOOLEAN, listed : BOOLEAN, lost : BOOLEAN, queue : Seq(Events),
   list : [Ids -> Views]]

\* Every variable of the stream keeps its type.
FeedTypeOK ==
  /\ said \in Events \cup {NoEvent}
  /\ feed \in [Listeners -> Subscriber]
  /\ unsaid \subseteq Ids

\* What is under way to a subscriber that has lost nothing is up to date, also before
\* it lists: that is why it may list at any time.
Follows(l) ==
  /\ feed[l].listed => feed[l].open /\ ~feed[l].lost
  /\ ~feed[l].open => feed[l].queue = <<>>
  /\ ~feed[l].lost => UpToDate(Waiting(l), unsaid, Listing)
  /\ feed[l].listed => Settled(feed[l].list, Waiting(l), unsaid, Listing)

\* The event that is being published tells what the snapshot holds.
SaidIsTrue == said # NoEvent => said.id \notin unsaid /\ Shown(said) = View(items[said.id])

FollowInv ==
  /\ FeedTypeOK
  /\ SaidIsTrue
  /\ phase = "down" => said = NoEvent /\ feed = [l \in Listeners |-> Closed]
  /\ \A l \in Listeners : Follows(l)

\* What a client sees of an entry.
LEMMA ViewType ==
  ASSUME NEW item \in Subscription \cup {Absent} PROVE View(item) \in Views
BY ConstantsAssumption DEF View, Views, Subscription

\* What a subscriber has not applied yet are events.
LEMMA WaitingType ==
  ASSUME FeedTypeOK, NEW l \in Listeners
  PROVE  Waiting(l) \in Seq(Events) /\ feed[l].queue \in Seq(Events)
<1>1. feed[l].queue \in Seq(Events)
  BY DEF FeedTypeOK, Subscriber
<1>2. CASE said = NoEvent
  BY <1>1, <1>2 DEF Waiting
<1>3. CASE said # NoEvent
  <2>1. said \in Events
    BY <1>3 DEF FeedTypeOK
  <2> QED
    BY <1>1, <1>3, <2>1 DEF Waiting
<1> QED
  BY <1>2, <1>3

\* What waits for a client whose channel is empty.
Unsent == IF said = NoEvent THEN <<>> ELSE Append(<<>>, said)

\* A client whose channel is empty can list.
LEMMA UnsentUpToDate ==
  ASSUME FeedTypeOK, SaidIsTrue
  PROVE  UpToDate(Unsent, unsaid, Listing)
<1>1. CASE said = NoEvent
  BY <1>1, NothingWaits DEF Unsent
<1>2. CASE said # NoEvent
  <2>1. Unsent = Append(<<>>, said) /\ said \in Events /\ <<>> \in Seq(Events)
    BY <1>2 DEF Unsent, FeedTypeOK
  <2>2. Tells(said, unsaid, Listing, unsaid, Listing)
    BY <1>2, <2>1 DEF Tells, SaidIsTrue, Listing, Events
  <2>3. UpToDate(<<>>, unsaid, Listing)
    BY NothingWaits
  <2> QED
    BY <2>1, <2>2, <2>3, AppendedUpToDate
<1> QED
  BY <1>1, <1>2

\* Following depends on the entries, the event being published and the subscriber.
LEMMA FollowsKept ==
  ASSUME NEW l \in Listeners, Follows(l), items' = items, said' = said, unsaid' = unsaid,
         feed'[l] = feed[l]
  PROVE  Follows(l)'
<1>1. Listing' = Listing /\ Waiting(l)' = Waiting(l)
  BY DEF Listing, Waiting
<1> QED
  BY <1>1 DEF Follows

-----------------------------------------------------------------------------
(* The steps that change an entry *)

\* The event of a command is right about its entry and does not concern others.
LEMMA SaysFollows ==
  ASSUME TypeOK', FollowInv, said = NoEvent, NEW id \in Ids, OthersStay(id), Says(id)
  PROVE  FeedTypeOK' /\ SaidIsTrue' /\ \A l \in Listeners : Follows(l)'
<1>1. /\ said' \in Events /\ said'.id = id
      /\ Shown(said') = View(items'[id])
  <2>1. View(items'[id]) \in Views /\ (items'[id] = Absent => View(items'[id]) = Absent)
    BY ViewType DEF TypeOK, View
  <2> QED
    BY <2>1 DEF Says, Event, Events, Shown
<1>2. FeedTypeOK' /\ SaidIsTrue'
  BY <1>1 DEF Says, FollowInv, FeedTypeOK, SaidIsTrue
<1>3. said' # NoEvent
  BY <1>1, FeedAssumption
<1>4. Tells(said', unsaid, Listing, unsaid', Listing')
  BY <1>1 DEF Tells, Says, OthersStay, Listing
<1>5. ASSUME NEW l \in Listeners PROVE Follows(l)'
  <2>1. Waiting(l) \in Seq(Events) /\ Waiting(l)' = Append(Waiting(l), said')
    BY <1>3, WaitingType DEF FollowInv, Waiting, Says
  <2>0. said' \in Events
    BY <1>1
  <2>2. /\ UpToDate(Waiting(l), unsaid, Listing) => UpToDate(Waiting(l)', unsaid', Listing')
        /\ Settled(feed[l].list, Waiting(l), unsaid, Listing) =>
             Settled(feed[l].list, Waiting(l)', unsaid', Listing')
    <3>1. ASSUME NEW longer, longer = Append(Waiting(l), said'), NEW after, NEW quiet,
                 Tells(said', unsaid, Listing, quiet, after), NEW list
          PROVE  /\ UpToDate(Waiting(l), unsaid, Listing) => UpToDate(longer, quiet, after)
                 /\ Settled(list, Waiting(l), unsaid, Listing) => Settled(list, longer, quiet, after)
      BY <2>0, <2>1, <3>1, AppendedUpToDate
    <3> QED
      BY <1>4, <2>1, <3>1
  <2>3. feed'[l] = feed[l]
    BY DEF Says
  <2> QED
    BY <2>2, <2>3 DEF FollowInv, Follows
<1> QED
  BY <1>2, <1>5

\* An entry that changes without an event is not followed.
LEMMA SilentFollows ==
  ASSUME FollowInv, said = NoEvent, NEW id \in Ids, OthersStay(id), Silent(id)
  PROVE  FeedTypeOK' /\ SaidIsTrue' /\ \A l \in Listeners : Follows(l)'
<1>1. said' = said /\ UNCHANGED feed /\ unsaid \subseteq unsaid' /\ unsaid' \subseteq Ids
  BY DEF Silent, FollowInv, FeedTypeOK
<1>2. \A other \in Ids \ unsaid' : other \notin unsaid /\ Listing'[other] = Listing[other]
  BY DEF Silent, OthersStay, Listing
<1>3. FeedTypeOK' /\ SaidIsTrue'
  BY <1>1 DEF FollowInv, FeedTypeOK, SaidIsTrue
<1>4. ASSUME NEW l \in Listeners PROVE Follows(l)'
  <2>1. Waiting(l)' = Waiting(l)
    BY <1>1 DEF Waiting
  <2>2. ~feed[l].lost => UpToDate(Waiting(l)', unsaid', Listing')
    BY <1>1, <1>2, <2>1 DEF FollowInv, Follows, UpToDate
  <2>3. feed[l].listed => Settled(feed[l].list, Waiting(l)', unsaid', Listing')
    BY <1>1, <1>2, <2>1 DEF FollowInv, Follows, Settled
  <2> QED
    BY <1>1, <2>2, <2>3 DEF FollowInv, Follows
<1> QED
  BY <1>3, <1>4

-----------------------------------------------------------------------------
(* The steps of the stream *)

\* A subscriber that has closed its stream, or not opened one.
LEMMA ClosedFollows ==
  ASSUME NEW l \in Listeners, feed[l] = Closed, FeedTypeOK, SaidIsTrue
  PROVE  Follows(l)
<1>1. feed[l].queue = <<>> /\ ~feed[l].listed
  BY DEF Closed
<1>2. UpToDate(Waiting(l), unsaid, Listing)
  <2>1. Waiting(l) = Unsent
    BY <1>1 DEF Waiting, Unsent
  <2> QED
    BY <2>1, UnsentUpToDate
<1> QED
  BY <1>1, <1>2 DEF Follows

\* A closed stream is a subscriber.
LEMMA ClosedType == Closed \in Subscriber
<1>1. Unlisted \in [Ids -> Views]
  BY DEF Unlisted, Views
<1> QED
  BY <1>1 DEF Closed, Subscriber

\* Whether a channel has room or not, what is under way to its subscriber stays.
LEMMA PublishFollows ==
  ASSUME TypeOK, FollowInv, PublishEvent
  PROVE  FeedTypeOK' /\ SaidIsTrue' /\ \A l \in Listeners : Follows(l)'
<1>0. /\ said \in Events /\ said' = NoEvent /\ said # NoEvent
      /\ unsaid' = unsaid /\ unsaid \subseteq Ids
      /\ items' = items
      /\ feed \in [Listeners -> Subscriber]
      /\ feed' = [l \in Listeners |-> Offered(feed[l])]
  BY DEF PublishEvent, FollowInv, FeedTypeOK, vars
<1>1. Listing' = Listing
  BY <1>0 DEF Listing
<1>2. ASSUME NEW l \in Listeners PROVE Offered(feed[l]) \in Subscriber /\ Follows(l)'
  <2>1. feed[l] \in Subscriber /\ feed[l].queue \in Seq(Events)
    BY <1>0 DEF Subscriber
  <2>2. Waiting(l) = Append(feed[l].queue, said) /\ Waiting(l)' = feed'[l].queue
    BY <1>0 DEF Waiting
  <2>3. feed'[l] = Offered(feed[l])
    BY <1>0
  <2>4. Follows(l)
    BY DEF FollowInv
  <2>5. CASE ~feed[l].open
    <3>1. feed'[l] = feed[l] /\ feed[l].queue = <<>> /\ ~feed[l].listed
      BY <2>3, <2>4, <2>5 DEF Offered, Follows
    <3>2. UpToDate(Waiting(l)', unsaid', Listing')
      BY <2>2, <3>1, NothingWaits
    <3> QED
      BY <2>1, <2>3, <3>1, <3>2 DEF Follows
  <2>6. CASE feed[l].open /\ Len(feed[l].queue) < Buffer
    <3>1. feed'[l] = [feed[l] EXCEPT !.queue = Append(feed[l].queue, said)]
      BY <2>3, <2>6 DEF Offered
    <3>2. Append(feed[l].queue, said) \in Seq(Events)
      BY <1>0, <2>1
    <3>3. /\ feed'[l] \in Subscriber
          /\ feed'[l].open = feed[l].open /\ feed'[l].listed = feed[l].listed
          /\ feed'[l].lost = feed[l].lost /\ feed'[l].list = feed[l].list
          /\ feed'[l].queue = Append(feed[l].queue, said)
      BY <2>1, <3>1, <3>2 DEF Subscriber
    <3>4. Waiting(l)' = Waiting(l)
      BY <2>2, <3>3
    <3> QED
      BY <1>0, <1>1, <2>3, <2>4, <2>6, <3>3, <3>4 DEF Follows
  <2>7. CASE feed[l].open /\ ~(Len(feed[l].queue) < Buffer)
    <3>1. feed'[l] = [feed[l] EXCEPT !.lost = TRUE, !.listed = FALSE, !.list = Unlisted]
      BY <2>3, <2>7 DEF Offered
    <3>2. feed'[l] \in Subscriber /\ feed'[l].open /\ feed'[l].lost /\ ~feed'[l].listed
      BY <2>1, <2>7, <3>1 DEF Subscriber, Unlisted, Views
    <3> QED
      BY <2>3, <3>2 DEF Follows
  <2> QED
    BY <2>5, <2>6, <2>7
<1>3. FeedTypeOK' /\ SaidIsTrue'
  BY <1>0, <1>2 DEF FeedTypeOK, SaidIsTrue
<1> QED
  BY <1>2, <1>3

\* A client may list at any time: what is still under way is up to date.
LEMMA ListFollows ==
  ASSUME TypeOK, FollowInv, NEW l \in Listeners, List(l)
  PROVE  feed'[l] \in Subscriber /\ Follows(l)'
<1>1. /\ feed[l] \in Subscriber /\ feed[l].open
      /\ feed'[l] = [feed[l] EXCEPT !.listed = TRUE, !.lost = FALSE, !.list = Listing]
      /\ UNCHANGED <<said, unsaid, items>>
  BY DEF List, FollowInv, FeedTypeOK, vars
<1>2. Listing \in [Ids -> Views]
  BY ViewType DEF Listing, TypeOK
<1>3. /\ feed'[l] \in Subscriber
      /\ feed'[l].open /\ feed'[l].listed /\ ~feed'[l].lost
      /\ feed'[l].queue = feed[l].queue /\ feed'[l].list = Listing
  BY <1>1, <1>2 DEF Subscriber
<1>4. Waiting(l)' = Waiting(l) /\ Listing' = Listing
  BY <1>1, <1>3 DEF Waiting, Listing
<1>5. UpToDate(Waiting(l), unsaid, Listing)
  <2>1. CASE ~feed[l].lost
    BY <2>1 DEF FollowInv, Follows
  <2>2. CASE feed[l].lost
    <3>1. Waiting(l) = Unsent
      BY <2>2 DEF List, Waiting, Unsent
    <3> QED
      BY <3>1, UnsentUpToDate DEF FollowInv
  <2> QED
    BY <2>1, <2>2
<1>6. Settled(Listing, Waiting(l), unsaid, Listing)
  BY DEF Settled
<1> QED
  BY <1>1, <1>3, <1>4, <1>5, <1>6 DEF Follows

\* Applying the oldest event brings the list nearer to the snapshot.
LEMMA DeliverFollows ==
  ASSUME TypeOK, FollowInv, NEW l \in Listeners, Deliver(l)
  PROVE  feed'[l] \in Subscriber /\ Follows(l)'
<1> DEFINE queue == feed[l].queue
           list == IF feed[l].listed THEN Applied(feed[l].list, Head(queue)) ELSE feed[l].list
<1>1. /\ feed[l] \in Subscriber /\ queue \in Seq(Events) /\ queue # <<>>
      /\ feed[l].list \in [Ids -> Views]
      /\ feed'[l] = [feed[l] EXCEPT !.queue = Tail(queue), !.list = list]
      /\ UNCHANGED <<said, unsaid, items>>
  BY DEF Deliver, FollowInv, FeedTypeOK, Subscriber, vars
<1>2. Tail(queue) \in Seq(Events) /\ Head(queue) \in Events
  BY <1>1
<1>3. list \in [Ids -> Views]
  <2>1. Shown(Head(queue)) \in Views
    BY <1>2 DEF Shown, Events, Views
  <2> QED
    BY <1>1, <2>1 DEF Applied
<1> HIDE DEF list
<1>4. /\ feed'[l] \in Subscriber
      /\ feed'[l].open = feed[l].open /\ feed'[l].listed = feed[l].listed
      /\ feed'[l].lost = feed[l].lost
      /\ feed'[l].queue = Tail(queue) /\ feed'[l].list = list
  BY <1>1, <1>2, <1>3 DEF Subscriber
<1>5. Listing' = Listing
  BY <1>1 DEF Listing
<1>6. /\ Waiting(l) \in Seq(Events) /\ Waiting(l) # <<>>
      /\ Waiting(l)' = Tail(Waiting(l)) /\ Head(queue) = Waiting(l)[1]
  <2>1. CASE said = NoEvent
    BY <1>1, <1>4, <2>1 DEF Waiting
  <2>2. CASE said # NoEvent
    <3>1. said \in Events
      BY <2>2 DEF FollowInv, FeedTypeOK
    <3>2. Waiting(l) = Append(queue, said) /\ Waiting(l)' = Append(Tail(queue), said)
      BY <1>1, <1>4, <2>2 DEF Waiting
    <3> QED
      BY <1>1, <3>1, <3>2, TakenFromLonger
  <2> QED
    BY <2>1, <2>2
<1>7. feed[l].open
  BY <1>1 DEF FollowInv, Follows
<1>8. ASSUME ~feed[l].lost
      PROVE  /\ UpToDate(Waiting(l)', unsaid, Listing)
             /\ feed[l].listed => Settled(list, Waiting(l)', unsaid, Listing)
  <2>1. UpToDate(Waiting(l), unsaid, Listing)
    BY <1>8 DEF FollowInv, Follows
  <2>2. UpToDate(Waiting(l)', unsaid, Listing)
    BY <1>6, <2>1, TakenUpToDate
  <2>3. ASSUME feed[l].listed PROVE Settled(list, Waiting(l)', unsaid, Listing)
    <3>1. Settled(feed[l].list, Waiting(l), unsaid, Listing)
      BY <2>3 DEF FollowInv, Follows
    <3>2. Settled(Applied(feed[l].list, Waiting(l)[1]), Waiting(l)', unsaid, Listing)
      BY <1>1, <1>6, <2>1, <3>1, TakenUpToDate
    <3> QED
      BY <1>6, <2>3, <3>2 DEF list
  <2> QED
    BY <2>2, <2>3
<1>9. feed[l].listed => ~feed[l].lost
  BY DEF FollowInv, Follows
<1> QED
  BY <1>1, <1>4, <1>5, <1>7, <1>8, <1>9 DEF Follows

\* A step of one subscriber does not disturb the others.
LEMMA SubscriberFollows ==
  ASSUME TypeOK, FollowInv, NEW l \in Listeners,
         Subscribe(l) \/ List(l) \/ Deliver(l) \/ Unsubscribe(l)
  PROVE  FeedTypeOK' /\ SaidIsTrue' /\ \A other \in Listeners : Follows(other)'
<1>1. /\ UNCHANGED <<vars, said, unsaid>>
      /\ feed' = [feed EXCEPT ![l] = feed'[l]]
      /\ \A other \in Listeners : other # l => feed'[other] = feed[other]
  BY DEF Subscribe, List, Deliver, Unsubscribe, FollowInv, FeedTypeOK
<1>2. SaidIsTrue'
  BY <1>1 DEF FollowInv, SaidIsTrue, vars
<1>3. feed'[l] \in Subscriber /\ (feed'[l] = Closed \/ feed'[l] = [Closed EXCEPT !.open = TRUE]
                                  \/ Follows(l)')
  <2>1. CASE Subscribe(l) \/ Unsubscribe(l)
    <3>1. feed'[l] = Closed \/ feed'[l] = [Closed EXCEPT !.open = TRUE]
      BY <2>1 DEF Subscribe, Unsubscribe, FollowInv, FeedTypeOK
    <3> QED
      BY <3>1, ClosedType DEF Subscriber
  <2> QED
    BY <2>1, ListFollows, DeliverFollows
<1>4. FeedTypeOK'
  BY <1>1, <1>3 DEF FollowInv, FeedTypeOK
<1>5. Follows(l)'
  <2>1. CASE feed'[l] = Closed \/ feed'[l] = [Closed EXCEPT !.open = TRUE]
    <3>1. feed'[l].queue = <<>> /\ ~feed'[l].listed
      BY <2>1 DEF Closed
    <3>2. Waiting(l)' = Unsent /\ unsaid' = unsaid /\ Listing' = Listing
      BY <1>1, <3>1 DEF Waiting, Unsent, Listing, vars
    <3>3. UpToDate(Waiting(l)', unsaid', Listing')
      BY <3>2, UnsentUpToDate DEF FollowInv
    <3> QED
      BY <3>1, <3>3 DEF Follows
  <2> QED
    BY <1>3, <2>1
<1>6. ASSUME NEW other \in Listeners, other # l PROVE Follows(other)'
  BY <1>1, <1>6, FollowsKept DEF FollowInv, vars
<1> QED
  BY <1>2, <1>4, <1>5, <1>6

-----------------------------------------------------------------------------
(* The invariant *)

\* Nobody listens at the start.
LEMMA FollowInit == FeedInit => FollowInv
<1> SUFFICES ASSUME FeedInit PROVE FollowInv
  OBVIOUS
<1>1. FeedTypeOK /\ SaidIsTrue
  BY ClosedType DEF FeedInit, FeedTypeOK, SaidIsTrue
<1>2. ASSUME NEW l \in Listeners PROVE Follows(l)
  <2>1. feed[l] = Closed
    BY DEF FeedInit
  <2> QED
    BY <1>1, <2>1, ClosedFollows
<1> QED
  BY <1>1, <1>2 DEF FollowInv, FeedInit

\* Where nobody listens and nothing is said, everybody follows.
LEMMA SilenceFollows ==
  ASSUME said' = NoEvent, unsaid' \subseteq Ids, feed' = [l \in Listeners |-> Closed]
  PROVE  FollowInv'
<1>1. FeedTypeOK' /\ SaidIsTrue'
  BY ClosedType DEF FeedTypeOK, SaidIsTrue
<1>2. ASSUME NEW l \in Listeners PROVE Follows(l)'
  <2>1. feed'[l].queue = <<>> /\ ~feed'[l].listed /\ Waiting(l)' = <<>>
    BY DEF Closed, Waiting
  <2>2. UpToDate(Waiting(l)', unsaid', Listing')
    BY <2>1, NothingWaits
  <2> QED
    BY <2>1, <2>2 DEF Follows
<1> QED
  BY <1>1, <1>2 DEF FollowInv

\* Every step of the composition keeps the invariant.
LEMMA FollowStep ==
  TypeOK /\ TypeOK' /\ DownIsEmpty /\ FollowInv /\ [FeedNext]_<<vars, feedVars>> => FollowInv'
<1> SUFFICES ASSUME TypeOK, TypeOK', DownIsEmpty, FollowInv, [FeedNext]_<<vars, feedVars>>
             PROVE  FollowInv'
  OBVIOUS
<1>1. CASE ServerStarts
  BY <1>1, SilenceFollows DEF ServerStarts, Load, feedVars, FollowInv, FeedTypeOK
<1>2. CASE ServerStops
  BY <1>2, SilenceFollows DEF ServerStops
<1>3. CASE Idles /\ (phase = "down" <=> phase' = "down")
  <2>1. \A l \in Listeners : Follows(l)'
    BY <1>3, FollowsKept DEF FollowInv, Idles, feedVars
  <2> QED
    BY <1>3, <2>1 DEF FollowInv, FeedTypeOK, SaidIsTrue, Idles, feedVars
<1>4. CASE ManagerStep /\ ~ServerStarts /\ ~Idles
  <2>1. phase # "down" /\ phase' # "down" /\ said = NoEvent
    BY <1>4, ManagerPhase DEF ManagerStep
  <2>2. FeedTypeOK' /\ SaidIsTrue' /\ \A l \in Listeners : Follows(l)'
    BY <1>4, <2>1, ManagerEffect, SaysFollows, SilentFollows
  <2> QED
    BY <2>1, <2>2 DEF FollowInv
<1>5. CASE PublishEvent
  <2>1. phase' = phase /\ phase # "down"
    BY <1>5 DEF PublishEvent, FollowInv, vars
  <2> QED
    BY <1>5, <2>1, PublishFollows DEF FollowInv
<1>6. ASSUME NEW l \in Listeners, Subscribe(l) \/ List(l) \/ Deliver(l) \/ Unsubscribe(l)
      PROVE  FollowInv'
  <2>1. phase' = phase
    BY <1>6 DEF Subscribe, List, Deliver, Unsubscribe, vars
  <2>2. phase # "down"
    <3>1. phase = "running" \/ feed[l].open \/ feed[l].queue # <<>>
      BY <1>6 DEF Subscribe, List, Deliver, Unsubscribe
    <3> QED
      BY <3>1 DEF FollowInv, Closed
  <2> QED
    BY <1>6, <2>1, <2>2, SubscriberFollows DEF FollowInv
<1>7. CASE UNCHANGED <<vars, feedVars>>
  <2>1. \A l \in Listeners : Follows(l)'
    BY <1>7, FollowsKept DEF FollowInv, vars, feedVars
  <2> QED
    BY <1>7, <2>1 DEF FollowInv, FeedTypeOK, SaidIsTrue, vars, feedVars
<1>8. ManagerStep /\ ~ServerStarts => (phase = "down" <=> phase' = "down")
  BY ManagerPhase
<1> QED
  BY <1>1, <1>2, <1>3, <1>4, <1>5, <1>6, <1>7, <1>8 DEF FeedNext

\* A client that subscribes first and lists afterwards misses nothing, however many
\* clients listen and however small their channels are: the events still under way
\* bring its list to what the manager holds, unless its channel was full, or the last
\* change of the entry was a commit that the store refused.
THEOREM FollowTheorem == FeedSpec => []ListFollowsSnapshot
<1>1. FollowInv => ListFollowsSnapshot
  BY DEF FollowInv, Follows, UpToDate, Settled, Listing, ListFollowsSnapshot
<1>2. FeedSpec => [](TypeOK /\ DownIsEmpty)
  BY FeedImplementsManager, TypeCorrect, DownTheorem, PTL
<1> QED
  BY <1>1, <1>2, FollowInit, FollowStep, PTL DEF FeedSpec
=============================================================================
