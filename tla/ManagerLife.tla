------------------------------ MODULE ManagerLife ------------------------------
(***************************************************************************)
(* The life of the manager in the desktop program, composed with the       *)
(* runtime controller: the start of the program step by step               *)
(* (keyringstore.New, New and runtimeConfigStore), where the process can    *)
(* fail or die at every step, and the requests that only read, which take  *)
(* no opMu and look at the configuration several times.                    *)
(*                                                                         *)
(* The platform's service manager runs one instance of the program.  The   *)
(* control token and the listeners are in LocalService, the records of the *)
(* subscriptions in ProviderDocument.  The settings a desktop program      *)
(* saves are canonical, so that New does not save them again.              *)
(***************************************************************************)
EXTENDS RuntimeController

CONSTANTS
  Keys,            \* encryption keys
  DirectSettings   \* the settings whose route mode is direct

ASSUME LifeAssumption ==
  /\ Keys # {} /\ Absent \notin Keys
  /\ DirectSettings \subseteq Settings

VARIABLES
  boot,     \* the step of the start and the encryption key it has
  ring,     \* the key in the key ring of the operating system
  disk,     \* the key the database was made with
  listing,  \* a ListRoutes: the services it has still to look up; whole: none of
            \* the routes it found had lost its selector
  unseen    \* history: a default was saved by a start that never came up

lifeVars == <<boot, ring, disk, listing, unseen>>

Off       == [pc |-> "off", key |-> Absent]
NoListing == [left |-> {}, whole |-> TRUE]

LifeInit ==
  /\ Init
  /\ boot = Off
  /\ ring = Absent
  /\ disk = Absent
  /\ listing = NoListing
  /\ unseen = FALSE

-----------------------------------------------------------------------------
(* The start of the program *)

BootAt(place) == boot.pc = place
BootTo(place) == boot' = [boot EXCEPT !.pc = place]

NewKeyMutant == "open"

\* A new key is in the key ring before anything is encrypted with it.
NewKey == "set"

\* keyringstore.New: the key of an earlier start, or a new one.
FindKey ==
  /\ ~up /\ BootAt("off")
  /\ \/ /\ ring # Absent
        /\ boot' = [pc |-> "open", key |-> ring]
     \/ /\ ring = Absent
        /\ \E key \in Keys : boot' = [pc |-> NewKey, key |-> key]
  /\ UNCHANGED <<vars, ring, disk, listing, unseen>>

SetKey ==
  /\ BootAt("set")
  /\ ring' = boot.key
  /\ BootTo("open")
  /\ UNCHANGED <<vars, disk, listing, unseen>>

\* OpenBadgerStore makes a database with the key, or opens one that was made
\* with it.
OpenDatabase ==
  /\ BootAt("open")
  /\ disk \in {Absent, boot.key}
  /\ disk' = boot.key
  /\ BootTo("load")
  /\ UNCHANGED <<vars, ring, listing, unseen>>

OverwritingMutant == "default"

\* Without a saved configuration the default one is saved first.
AfterLoad == IF durable = Absent THEN "default" ELSE "settled"

\* Manager.Load has decoded the subscriptions, runtimeConfigStore.Load the
\* configuration.
LoadStore ==
  /\ BootAt("load")
  /\ BootTo(AfterLoad)
  /\ UNCHANGED <<vars, ring, disk, listing, unseen>>

SaveDefault ==
  /\ BootAt("default")
  /\ durable' = DefaultConfig
  /\ unseen' = (durable = Absent)
  /\ BootTo("settled")
  /\ UNCHANGED <<up, pool, config, active, daemon, op, ring, disk, listing>>

\* The daemon is made and the scheduler started: the manager exists.
Ready ==
  /\ BootAt("settled")
  /\ up' = TRUE
  /\ config' = Initial
  /\ unseen' = FALSE
  /\ boot' = Off
  /\ UNCHANGED <<pool, durable, active, daemon, op, ring, disk, listing>>

\* A step returns an error, and the program exits; or it dies.
BootEnds ==
  /\ ~BootAt("off")
  /\ boot' = Off
  /\ UNCHANGED <<vars, ring, disk, listing, unseen>>

Boot ==
  FindKey \/ SetKey \/ OpenDatabase \/ LoadStore \/ SaveDefault \/ Ready \/ BootEnds

-----------------------------------------------------------------------------
(* Requests that only read *)

\* ListRoutes takes the routes of the moment ...
ListRoutes ==
  /\ up
  /\ listing.left = {}
  /\ listing' = [left |-> {s \in Services : config.routes[s] # Absent}, whole |-> TRUE]
  /\ UNCHANGED <<vars, boot, ring, disk, unseen>>

\* routeInfo finds the route again, in the configuration of now.
Found(service) == config.routes[service] # Absent

\* ... and looks each of them up, which fails when it has been deleted.
RouteInfo(service) ==
  /\ service \in listing.left
  /\ \/ ~Found(service) /\ listing' = NoListing
     \/ /\ Found(service) /\ config.selectors[service] = Absent
        /\ listing' = [left |-> {}, whole |-> FALSE]
     \/ /\ Found(service) /\ config.selectors[service] # Absent
        /\ listing' = [listing EXCEPT !.left = @ \ {service}]
  /\ UNCHANGED <<vars, boot, ring, disk, unseen>>

\* What routeInfo says of a route: enabled, not overruled by the mode, running.
Effective(service) ==
  /\ EnabledRoute(config, service)
  /\ config.settings \notin DirectSettings
  /\ Started

-----------------------------------------------------------------------------
(* The controller's steps; its start is the one above *)

\* Requests end with the manager.
StillRead == IF up' THEN listing ELSE NoListing

ControllerStep ==
  /\ Requests \/ Progress \/ PoolChanges \/ Close \/ Crash
  /\ listing' = StillRead
  /\ UNCHANGED <<boot, ring, disk, unseen>>

LifeNext ==
  \/ Boot
  \/ ListRoutes
  \/ \E service \in Services : RouteInfo(service)
  \/ ControllerStep

LifeSpec == LifeInit /\ [][LifeNext]_<<vars, lifeVars>>

LifeFairSpec == LifeSpec /\ WF_<<vars, lifeVars>>(Progress /\ UNCHANGED lifeVars)

-----------------------------------------------------------------------------
(* Properties *)

Steps == {"off", "set", "open", "load", "default", "settled"}

\* The variables of the start keep their types; a program that is starting has a
\* key and no manager.
LifeTypeOK ==
  /\ boot \in [pc: Steps, key: Keys \cup {Absent}]
  /\ ~BootAt("off") => ~up /\ boot.key # Absent
  /\ ring \in Keys \cup {Absent}
  /\ disk \in Keys \cup {Absent}
  /\ listing \in [left: SUBSET Services, whole: BOOLEAN]
  /\ ~up => listing = NoListing
  /\ unseen \in BOOLEAN

\* Wherever a start fails or dies, the key ring has the key of the database: the
\* next start can read what was stored.
KeyFits == disk # Absent => ring = disk

\* Between operations, a route reported as effective is in force with the domains
\* that are saved, and through the saved node unless that is the fallback, while
\* the program starts, fails, dies and starts again around it.  And a ListRoutes
\* that runs between the steps of other requests never meets a route without its
\* selector, which it would report as an internal error.
ReportsAreTrue ==
  /\ listing.whole
  /\ Settled =>
       \A s \in Services : Effective(s) =>
         LET selected == config.selectors[s].selected
         IN  /\ daemon.content.routes[s] = config.routes[s]
             /\ selected # Direct => daemon.live[s] = selected

\* A default that nobody has seen does not count as saved.
Acknowledged == IF unseen THEN Absent ELSE durable

Controller == INSTANCE RuntimeController WITH durable <- Acknowledged

\* The start, with all the places where it can fail, and the readers add nothing
\* to what RuntimeController allows: its theorems hold here.
ImplementsController == Controller!Spec

-----------------------------------------------------------------------------
(* The inductive strengthening, for the proofs *)

\* What a start has established by the time it reaches a step.
BootInv ==
  /\ BootAt("set") => ring = Absent
  /\ boot.pc \in {"open", "load", "default", "settled"} => ring = boot.key
  /\ boot.pc \in {"load", "default", "settled"} => disk = boot.key
  /\ BootAt("default") => durable = Absent
  /\ BootAt("settled") => durable # Absent
  /\ ring = Absent => disk = Absent

\* Only a default that was just saved is unseen, and whoever holds opMu has a
\* manager.
UnseenInv ==
  /\ unseen => ~up /\ durable = DefaultConfig
  /\ op.pc # "idle" => up

LifeInv == LifeTypeOK /\ BootInv /\ KeyFits /\ UnseenInv
=============================================================================
