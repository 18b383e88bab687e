-------------------------- MODULE SubscriptionFeed --------------------------
(***************************************************************************)
(* The event stream of the subscription manager, composed with it: the     *)
(* coordinator stores a new snapshot, publishes the event of the command   *)
(* to the bounded channel of every subscriber, and takes the next command. *)
(* A subscriber (SubscribeSubscriptionEvents) also lists the subscriptions *)
(* and applies the events it receives to its list.                         *)
(*                                                                         *)
(* A command that leaves its entry in the snapshot as it is may or may not *)
(* have an event; both are allowed.  Steps that do not use the coordinator *)
(* could be taken while it publishes; they change no entry, so that it     *)
(* makes no difference that they wait here.  lost and unsaid are history   *)
(* variables: nothing in the program records them.                         *)
(***************************************************************************)
EXTENDS Subscriptions, Sequences

CONSTANTS
  Listeners, \* streams of SubscribeSubscriptionEvents
  Buffer,    \* capacity of a subscriber's channel
  NoEvent    \* the coordinator has nothing to publish

\* What a client sees of a subscription: neither the URL nor the validators.
Views ==
  [name : Names, enabled : BOOLEAN, auto : BOOLEAN, interval : Nat, nodes : Nat,
   status : Statuses, stage : Stages] \cup {Absent}

Events == [id : Ids, gone : BOOLEAN, item : Views]

ASSUME FeedAssumption == Buffer \in Nat \ {0} /\ NoEvent \notin Events

VARIABLES
  said,   \* the event the coordinator is about to publish
  feed,   \* the subscribers
  unsaid  \* subscriptions whose last change in the snapshot had no event

feedVars == <<said, feed, unsaid>>

\* subscriptionView
View(item) ==
  IF item = Absent THEN Absent
  ELSE [name |-> item.name, enabled |-> item.enabled, auto |-> item.auto,
        interval |-> item.interval, nodes |-> item.nodes,
        status |-> item.status, stage |-> item.stage]

\* Views: the whole of one snapshot.
Listing == [id \in Ids |-> View(items[id])]

Unlisted == [id \in Ids |-> Absent]

\* list is what the client shows, once it has listed; lost: an event did not fit,
\* and what the client shows is not followed until it lists again.
Closed == [open |-> FALSE, listed |-> FALSE, lost |-> FALSE, queue |-> <<>>,
           list |-> Unlisted]

FeedInit ==
  /\ Init
  /\ said = NoEvent
  /\ feed = [l \in Listeners |-> Closed]
  /\ unsaid = {}

-----------------------------------------------------------------------------
(* The coordinator *)

\* An event carries the view of the entry; a removal the view of what was
\* removed, of which a client only needs the id.
EventMutant(id) == [id |-> id, gone |-> items'[id] = Absent, item |-> View(items[id])]

Event(id) == [id |-> id, gone |-> items'[id] = Absent, item |-> View(items'[id])]

\* The command for id was applied: its event will be published.
Says(id) ==
  /\ said' = Event(id)
  /\ unsaid' = unsaid \ {id}
  /\ UNCHANGED feed

\* The entry changes without an event.
Silent(id) ==
  /\ said' = NoEvent
  /\ unsaid' = IF items'[id] = items[id] THEN unsaid ELSE unsaid \cup {id}
  /\ UNCHANGED feed

\* A step that changes no entry.
Idles == items' = items /\ UNCHANGED feedVars

\* A failed transaction publishes the state the commit falls back to, and no
\* event.
CommitAndSay(f) ==
  LET id == flight[f].id
  IN  /\ flight[f].pc = "commit"
      /\ \/ CommitStored(f) /\ Says(id)
         \/ CommitRefused(f) /\ Silent(id)
         \/ CommitUnheard(f) /\ Idles
      /\ UNCHANGED <<phase, server>>

\* The other steps of a pipeline: a mark or a stage is announced.
FlightAndSay(f) ==
  LET id == flight[f].id
  IN  /\ FlightStep(f)
      /\ ~Commit(f)
      /\ Says(id) \/ Idles

CallAndSay(c) ==
  \/ /\ Rollback(c)
     /\ IF items' = items THEN Idles ELSE Says(caller[c].id)
  \/ Calling(c) /\ ~Rollback(c) /\ Idles

\* The server is stopped before the scheduler and the manager, which ends the
\* streams; a new manager has no subscribers.
ServerStops ==
  /\ StopScheduler \/ Exit \/ Crash
  /\ said' = NoEvent
  /\ feed' = [l \in Listeners |-> Closed]
  /\ unsaid' = {}

ServerStarts == Load /\ UNCHANGED feedVars

\* The manager's steps, with the event each command publishes.
ManagerStep ==
  /\ said = NoEvent
  /\ \/ ServerStarts
     \/ Close /\ Idles
     \/ \E id \in Ids :
          \/ (Adding(id) \/ Editing(id)) /\ Says(id)
          \/ (UpdateDue(id) \/ Publish(id)) /\ Idles
     \/ \E c \in Callers : CallAndSay(c)
     \/ \E f \in Flights : CommitAndSay(f) \/ FlightAndSay(f)

\* publish: a channel that is full does not get the event.
Offered(listener) ==
  IF ~listener.open THEN listener
  ELSE IF Len(listener.queue) < Buffer
       THEN [listener EXCEPT !.queue = Append(@, said)]
       ELSE [listener EXCEPT !.lost = TRUE, !.listed = FALSE, !.list = Unlisted]

PublishEvent ==
  /\ said # NoEvent
  /\ feed' = [l \in Listeners |-> Offered(feed[l])]
  /\ said' = NoEvent
  /\ UNCHANGED <<vars, unsaid>>

-----------------------------------------------------------------------------
(* Subscribers *)

Subscribe(l) ==
  /\ phase = "running"
  /\ ~feed[l].open
  /\ feed' = [feed EXCEPT ![l] = [Closed EXCEPT !.open = TRUE]]
  /\ UNCHANGED <<vars, said, unsaid>>

\* ListSubscriptions reads the snapshot.  What is still in the channel, and the
\* event that is being published, is applied to the list afterwards; after a
\* loss that makes the list wrong, until the channel has been emptied.
List(l) ==
  /\ feed[l].open
  /\ feed[l].lost => feed[l].queue = <<>>
  /\ feed' = [feed EXCEPT ![l].listed = TRUE, ![l].lost = FALSE,
                          ![l].list = Listing]
  /\ UNCHANGED <<vars, said, unsaid>>

\* What a client makes of an event.
Shown(event) == IF event.gone THEN Absent ELSE event.item

Applied(list, event) == [list EXCEPT ![event.id] = Shown(event)]

\* The stream sends the oldest event of the channel.
Deliver(l) ==
  /\ feed[l].queue # <<>>
  /\ feed' = [feed EXCEPT ![l].queue = Tail(@),
                ![l].list = IF feed[l].listed THEN Applied(@, Head(feed[l].queue)) ELSE @]
  /\ UNCHANGED <<vars, said, unsaid>>

\* The stream's context ends, or a send fails.
Unsubscribe(l) ==
  /\ feed[l].open
  /\ feed' = [feed EXCEPT ![l] = Closed]
  /\ UNCHANGED <<vars, said, unsaid>>

FeedNext ==
  \/ ManagerStep
  \/ ServerStops
  \/ PublishEvent
  \/ \E l \in Listeners : Subscribe(l) \/ List(l) \/ Deliver(l) \/ Unsubscribe(l)

FeedSpec == FeedInit /\ [][FeedNext]_<<vars, feedVars>>

-----------------------------------------------------------------------------
(* Properties *)

\* The events a subscriber has not applied yet, the one being published last.
Waiting(l) == IF said = NoEvent THEN feed[l].queue ELSE Append(feed[l].queue, said)

About(events, id) == {i \in DOMAIN events : events[i].id = id}

Latest(events, id) == {i \in About(events, id) : \A j \in About(events, id) : j <= i}

\* A client that subscribes first and lists afterwards misses nothing: whatever
\* commands, updates, rollbacks and shutdowns ran meanwhile, the events still
\* under way bring its list to what the manager holds, unless its channel was
\* full, or the last change of the entry was a commit that the store refused.
ListFollowsSnapshot ==
  \A l \in Listeners, id \in Ids \ unsaid :
    feed[l].listed =>
      /\ \A i \in Latest(Waiting(l), id) : Shown(Waiting(l)[i]) = View(items[id])
      /\ About(Waiting(l), id) = {} => feed[l].list[id] = View(items[id])

\* Only a refused commit is silent, so that a silent entry has settled: a client
\* never waits for the end of an update that has ended without an event and is
\* still running in the manager's eyes.
SilentEntriesAreSettled ==
  \A id \in unsaid : phase \in {"running", "draining"} /\ Present(id) => items[id].status # "updating"

=============================================================================
