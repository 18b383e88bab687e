----------------------------- MODULE LocalService -----------------------------
(***************************************************************************)
(* The life of the local server (src/manager/server.go) under its two      *)
(* hosts: the desktop service program (src/cmd/TargetLib) and the library  *)
(* in an Android VPN service (src/ffi/native), with what outlives a        *)
(* server: the socket file, the control token, the lock of the database    *)
(* and the TUN descriptor; and the SDK client that connects to it.         *)
(*                                                                         *)
(* The platform calls a host one callback at a time.  A server has a       *)
(* goroutine of its own (Serve), which goes on after the callback that     *)
(* stops the server has returned, unless the callback waits for it.        *)
(*                                                                         *)
(* Abstracted: what requests do to the manager (see Subscriptions and      *)
(* RuntimeController), except starting and reloading the service, which    *)
(* open the TUN interface; the addresses, of which there is one each.      *)
(* The platform starts and stops the host for its own reasons and at the   *)
(* client's request; a request of the client is not told apart.            *)
(***************************************************************************)
CONSTANTS
  Servers,  \* instances of Server; one that has ended is used again
  Tokens,   \* control tokens
  Host,     \* the thread of the platform's callbacks
  Absent,   \* no server, no token, no file
  Stale     \* the socket file of a process that has died

Threads == Servers \cup {Host}

ASSUME ConstantsAssumption ==
  /\ Host \notin Servers
  /\ {Absent, Stale} \cap (Threads \cup Tokens) = {}
  /\ Absent # Stale
  /\ {"missing", "empty", "done"} \cap (Tokens \cup Threads \cup {Absent}) = {}

VARIABLES
  host,           \* "service" or "library"
  slot,           \* program.server, activeServer
  nativeStarted,  \* TargetlibVpnService.nativeStarted
  pc,             \* where each thread is
  current,        \* the server the host is starting or stopping
  once,           \* the thread in the body of Server.Close
  open,           \* the Unix listener is open
  tcp,            \* the server that holds the TCP address
  path,           \* whose socket the file is
  store,          \* the manager that has the database open
  file,           \* the control token file
  held,           \* the token of each server's manager, while it is not closed
  fd,             \* a TUN descriptor is set and not yet taken
  box,            \* the sing-box service of each manager
  client          \* the SDK runtime: where it is, the token it has read

vars == <<host, slot, nativeStarted, pc, current, once, open, tcp, path, store,
          file, held, fd, box, client>>

listeners == <<open, tcp, path>>
instance  == <<slot, nativeStarted, current>>
manager   == <<store, held, box>>

At(t, place)   == pc[t] = place
Goto(t, place) == pc' = [pc EXCEPT ![t] = place]

Starting == pc[Host] \in {"token", "write", "listen", "unlink", "bind"}

Idle == [t \in Threads |-> IF t = Host THEN "idle" ELSE "none"]

Init ==
  /\ host \in {"service", "library"}
  /\ slot = Absent
  /\ nativeStarted = FALSE
  /\ pc = Idle
  /\ current = Absent
  /\ once = [s \in Servers |-> Absent]
  /\ open = [s \in Servers |-> FALSE]
  /\ tcp = Absent
  /\ path = Absent
  /\ store = Absent
  /\ file = "missing"
  /\ held = [s \in Servers |-> Absent]
  /\ fd = FALSE
  /\ box = [s \in Servers |-> "stopped"]
  /\ client = [pc |-> "off", token |-> Absent]

\* The process dies: what is left is on the disk.
Dies ==
  /\ slot' = Absent
  /\ nativeStarted' = FALSE
  /\ pc' = Idle
  /\ current' = Absent
  /\ once' = [s \in Servers |-> Absent]
  /\ open' = [s \in Servers |-> FALSE]
  /\ tcp' = Absent
  /\ path' = IF path \in Servers THEN Stale ELSE path
  /\ store' = Absent
  /\ held' = [s \in Servers |-> Absent]
  /\ fd' = FALSE
  /\ box' = [s \in Servers |-> "stopped"]

-----------------------------------------------------------------------------
(* Starting *)

\* program.Start, or onStartCommand up to targetlib_start: the desktop program
\* opens its database first, the VPN service establishes a tunnel first.
Start ==
  /\ At(Host, "idle")
  /\ slot = Absent
  /\ ~nativeStarted
  /\ host = "service" => store = Absent
  /\ \E s \in Servers :
       /\ At(s, "none") /\ held[s] = Absent
       /\ current' = s
       /\ store' = IF host = "service" THEN s ELSE store
  /\ Goto(Host, "token")
  /\ fd' = (host = "library")
  /\ UNCHANGED <<host, slot, nativeStarted, once, listeners, file, held, box, client>>

UnlistenedMutant == tcp

\* A listener that has been opened is closed again.
Unlistened == IF tcp = current THEN Absent ELSE tcp

\* The desktop program exits; the library closes what it has opened.
StartFails ==
  \/ host = "service" /\ Dies
  \/ /\ host = "library"
     /\ Goto(Host, "idle")
     /\ current' = Absent
     /\ tcp' = Unlistened
     /\ held' = [held EXCEPT ![current] = Absent]
     /\ UNCHANGED <<slot, nativeStarted, once, open, path, store, fd, box>>

FreshMutant == TRUE

\* The token is made only when there is no file (O_EXCL).
Fresh == file = "missing"

\* loadControlToken: a token that has been written is read, a missing one is
\* made; a file without a valid token is an error.
LoadToken ==
  /\ At(Host, "token")
  /\ \/ /\ file \in Tokens
        /\ held' = [held EXCEPT ![current] = file]
        /\ Goto(Host, "listen")
        /\ UNCHANGED <<file, instance, once, listeners, store, fd, box>>
     \/ /\ Fresh
        /\ file' = "empty"
        /\ Goto(Host, "write")
        /\ UNCHANGED <<instance, once, listeners, manager, fd>>
     \/ /\ file = "empty"
        /\ StartFails
        /\ UNCHANGED file
  /\ UNCHANGED <<host, client>>

WriteToken ==
  /\ At(Host, "write")
  /\ \/ \E token \in Tokens :
          /\ file' = token
          /\ held' = [held EXCEPT ![current] = token]
          /\ Goto(Host, "listen")
          /\ UNCHANGED <<instance, once, listeners, store, fd, box>>
     \/ StartFails /\ UNCHANGED file
  /\ UNCHANGED <<host, client>>

\* The TCP address is taken before the socket file is touched.
ListenTCP ==
  /\ At(Host, "listen")
  /\ \/ /\ tcp = Absent
        /\ tcp' = current
        /\ Goto(Host, "unlink")
        /\ UNCHANGED <<instance, once, open, path, manager, fd>>
     \/ StartFails
  /\ UNCHANGED <<host, file, client>>

Unlink ==
  /\ At(Host, "unlink")
  /\ path' = Absent
  /\ Goto(Host, "bind")
  /\ UNCHANGED <<host, instance, once, open, tcp, manager, file, fd, client>>

\* The socket is bound, the server is published and its goroutine started.
ListenUnix ==
  /\ At(Host, "bind")
  /\ \/ /\ path = Absent
        /\ path' = current
        /\ open' = [open EXCEPT ![current] = TRUE]
        /\ once' = [once EXCEPT ![current] = Absent]
        /\ slot' = current
        /\ nativeStarted' = (host = "library")
        /\ current' = Absent
        /\ pc' = [pc EXCEPT ![Host] = "idle", ![current] = "serving"]
        /\ UNCHANGED <<tcp, manager, fd>>
     \/ StartFails
  /\ UNCHANGED <<host, file, client>>

-----------------------------------------------------------------------------
(* Serving and stopping *)

Target(t) == IF t = Host THEN current ELSE t

\* Serve returns when grpc.Stop has closed both listeners ...
ServeReturns(s) ==
  /\ At(s, "serving")
  /\ ~open[s] /\ tcp # s
  /\ Goto(s, "unlisten")
  /\ UNCHANGED <<host, instance, once, listeners, manager, file, fd, client>>

\* ... or when one of them fails.
ServeFails(s) ==
  /\ At(s, "serving")
  /\ open[s] \/ tcp = s
  /\ Goto(s, "unlisten")
  /\ UNCHANGED <<host, instance, once, listeners, manager, file, fd, client>>

\* Server.Close: one thread runs the body, the others wait until it has.
EnterClose(t) ==
  /\ At(t, "close")
  /\ \/ /\ once[Target(t)] = Absent
        /\ once' = [once EXCEPT ![Target(t)] = t]
        /\ Goto(t, "unlisten")
     \/ /\ once[Target(t)] = "done"
        /\ Goto(t, "closed")
        /\ UNCHANGED once
  /\ UNCHANGED <<host, instance, listeners, manager, file, fd, client>>

\* stopListeners, first part: closing the Unix listener removes the file of that
\* name, whosever it is.
CloseUnix(t) ==
  /\ At(t, "unlisten")
  /\ open[Target(t)]
  /\ open' = [open EXCEPT ![Target(t)] = FALSE]
  /\ path' = Absent
  /\ UNCHANGED <<host, instance, pc, once, tcp, manager, file, fd, client>>

CloseTCP(t) ==
  /\ At(t, "unlisten")
  /\ tcp = Target(t)
  /\ tcp' = Absent
  /\ UNCHANGED <<host, instance, pc, once, open, path, manager, file, fd, client>>

ListenersClosed(t) ==
  /\ At(t, "unlisten")
  /\ ~open[Target(t)] /\ tcp # Target(t)
  /\ Goto(t, "remove")
  /\ UNCHANGED <<host, instance, once, listeners, manager, file, fd, client>>

\* Second part: the file is removed once more.  In Close the manager comes next;
\* after Serve the goroutine of the library closes the server, that of the
\* program ends.
RemoveSocket(t) ==
  /\ At(t, "remove")
  /\ path' = Absent
  /\ Goto(t, IF once[Target(t)] = t THEN "manager"
             ELSE IF host = "library" THEN "release" ELSE "none")
  /\ UNCHANGED <<host, instance, once, open, tcp, manager, file, fd, client>>

AfterReleaseMutant == "none"

AfterRelease == "close"

\* serve: a server that has ended by itself is no longer the active one.
\* targetlib_start holds the lock.
Release(s) ==
  /\ At(s, "release")
  /\ ~Starting
  /\ slot' = IF slot = s THEN Absent ELSE slot
  /\ Goto(s, AfterRelease)
  /\ UNCHANGED <<host, nativeStarted, current, once, listeners, manager, file, fd, client>>

ClosedMutant(t) == t

\* What Close leaves for those who wait for it.
Closed(t) == "done"

\* Manager.Close: the service is stopped and the database closed.
CloseManager(t) ==
  /\ At(t, "manager")
  /\ held' = [held EXCEPT ![Target(t)] = Absent]
  /\ box' = [box EXCEPT ![Target(t)] = "stopped"]
  /\ store' = IF store = Target(t) THEN Absent ELSE store
  /\ once' = [once EXCEPT ![Target(t)] = Closed(t)]
  /\ Goto(t, "closed")
  /\ UNCHANGED <<host, instance, listeners, file, fd, client>>

\* The goroutine of the library ends.
ServeEnds(s) ==
  /\ At(s, "closed")
  /\ Goto(s, "none")
  /\ UNCHANGED <<host, instance, once, listeners, manager, file, fd, client>>

\* program.Stop, or onDestroy and targetlib_stop.
Stop ==
  /\ At(Host, "idle")
  /\ slot # Absent \/ nativeStarted
  /\ slot' = Absent
  /\ nativeStarted' = FALSE
  /\ IF slot = Absent THEN UNCHANGED <<pc, current>>
     ELSE current' = slot /\ Goto(Host, "close")
  /\ UNCHANGED <<host, once, listeners, manager, file, fd, client>>

DoneMutant == TRUE

\* program.Stop waits for the goroutine, targetlib_stop does not.
Done == host = "service" => At(current, "none")

StopEnds ==
  /\ At(Host, "closed")
  /\ Done
  /\ current' = Absent
  /\ Goto(Host, "idle")
  /\ UNCHANGED <<host, slot, nativeStarted, once, listeners, manager, file, fd, client>>

Crash ==
  /\ pc # Idle \/ slot # Absent
  /\ Dies
  /\ UNCHANGED <<host, file, client>>

-----------------------------------------------------------------------------
(* The TUN interface *)

\* OpenInterface: on Android the descriptor is there, and is taken.
Opens == host = "library" => fd

\* The server has been started and its manager is not closed.  Stopping the
\* listeners does not wait for the requests that have begun; closing the manager
\* waits for the one that holds opMu, and the next can no longer read the status.
Answering(s) == held[s] # Absent /\ ~(Starting /\ s = current)

\* A request to start the service; it can fail for other reasons too.
StartBox(s) ==
  /\ Answering(s)
  /\ box[s] = "stopped"
  /\ \/ Opens /\ box' = [box EXCEPT ![s] = "running"]
     \/ UNCHANGED box
  /\ fd' = FALSE
  /\ UNCHANGED <<host, instance, pc, once, listeners, store, held, file, client>>

\* A request that loads a new configuration into the running service: the old
\* one is closed first, and loaded again when the new one fails.
Reload(s) ==
  /\ Answering(s)
  /\ box[s] = "running"
  /\ box' = IF Opens THEN box ELSE [box EXCEPT ![s] = "stopped"]
  /\ fd' = FALSE
  /\ UNCHANGED <<host, instance, pc, once, listeners, store, held, file, client>>

-----------------------------------------------------------------------------
(* The client *)

ClientOnly == UNCHANGED <<host, instance, pc, once, listeners, manager, file, fd>>

\* The token is read once, before the first attempt to connect.
ReadToken ==
  /\ client.pc \in {"off", "asked"}
  /\ client' = [pc |-> IF client.pc = "off" THEN "probing" ELSE "connecting",
                token |-> IF file \in Tokens THEN file ELSE Absent]
  /\ ClientOnly

IntentMethods == {"UpdateRuntimeConfig", "UpsertRoute", "DeleteRoute", "SelectRouteNode"}

\* authenticate, in front of every handler: only what changes the runtime's
\* configuration needs the token of the manager.
Authenticated(s, token, method) ==
  method \in IntentMethods => token # Absent /\ token = held[s]

\* GetState answers over the socket or over TCP.
Connects ==
  /\ client.pc \in {"probing", "connecting"}
  /\ \E s \in Servers : /\ At(s, "serving") /\ ((open[s] /\ path = s) \/ tcp = s)
                       /\ Authenticated(s, client.token, "GetState")
  /\ client' = [client EXCEPT !.pc = "connected"]
  /\ ClientOnly

\* Nothing answers: the host is started after the first attempt, the second one
\* gives up.
TimesOut ==
  /\ client.pc \in {"probing", "connecting"}
  /\ client' = IF client.pc = "probing" THEN [pc |-> "asked", token |-> Absent]
               ELSE [pc |-> "off", token |-> Absent]
  /\ ClientOnly

Disconnects ==
  /\ client.pc = "connected"
  /\ client' = [pc |-> "off", token |-> Absent]
  /\ ClientOnly

-----------------------------------------------------------------------------
HostSteps == LoadToken \/ WriteToken \/ ListenTCP \/ Unlink \/ ListenUnix

ServerSteps(t) ==
  \/ EnterClose(t)
  \/ CloseUnix(t)
  \/ CloseTCP(t)
  \/ ListenersClosed(t)
  \/ RemoveSocket(t)
  \/ CloseManager(t)

Goroutine(s) == ServeReturns(s) \/ ServerSteps(s) \/ Release(s) \/ ServeEnds(s)

Stopping == ServerSteps(Host) \/ StopEnds

Next ==
  \/ Start
  \/ HostSteps
  \/ Stop
  \/ Stopping
  \/ \E s \in Servers : Goroutine(s) \/ ServeFails(s) \/ StartBox(s) \/ Reload(s)
  \/ Crash
  \/ ReadToken
  \/ Connects
  \/ TimesOut
  \/ Disconnects

Spec == Init /\ [][Next]_vars

\* Threads are scheduled, and none of these steps waits for a client.
Fairness ==
  /\ WF_vars(HostSteps)
  /\ WF_vars(Stopping)
  /\ \A s \in Servers : WF_vars(Goroutine(s))

FairSpec == Spec /\ Fairness

-----------------------------------------------------------------------------
(* Properties *)

Places == {"none", "idle", "token", "write", "listen", "unlink", "bind", "serving",
           "unlisten", "remove", "release", "close", "manager", "closed"}

\* Every variable keeps its type; the host has a server in hand exactly while it
\* is starting or stopping one, and a server that listens has an open manager.
TypeOK ==
  /\ host \in {"service", "library"}
  /\ slot \in Servers \cup {Absent}
  /\ nativeStarted \in BOOLEAN
  /\ pc \in [Threads -> Places]
  /\ current \in Servers \cup {Absent} /\ (current # Absent <=> ~At(Host, "idle"))
  /\ once \in [Servers -> Threads \cup {Absent, "done"}]
  /\ open \in [Servers -> BOOLEAN]
  /\ tcp \in Servers \cup {Absent}
  /\ path \in Servers \cup {Absent, Stale}
  /\ store \in Servers \cup {Absent}
  /\ file \in Tokens \cup {"missing", "empty"}
  /\ held \in [Servers -> Tokens \cup {Absent}]
  /\ \A s \in Servers : tcp = s \/ open[s] => held[s] # Absent
  /\ fd \in BOOLEAN
  /\ box \in [Servers -> {"stopped", "running"}]
  /\ client \in [pc: {"off", "probing", "asked", "connecting", "connected"},
                 token: Tokens \cup {Absent}]

Reachable == At(Host, "idle") /\ slot # Absent /\ At(slot, "serving") => path = slot /\ tcp = slot

\* The socket of a server of the desktop program that nobody is stopping stays
\* where clients look for it, whatever servers before it still had to clean up.
ServiceReachable == host = "service" => Reachable

\* When a stop has returned the addresses are free, so that the next start can
\* have them; in the desktop program the database is closed too, and no sing-box
\* service is left running by a request that went on while the server was stopped.
StoppedIsReleased ==
  At(Host, "idle") /\ slot = Absent =>
    /\ tcp = Absent /\ path \notin Servers
    /\ host = "service" => store = Absent /\ \A s \in Servers : box[s] = "stopped"

\* A client that has read a token is let in to every method that needs one, by
\* every server that runs, however often the host was restarted or died since.
TokenStillValid ==
  client.token # Absent =>
    \A s \in Servers : \A method \in IntentMethods :
      held[s] # Absent => Authenticated(s, client.token, method)

\* A stop of the host returns, also when the server is ending by itself.
StopReturns == At(Host, "close") ~> At(Host, "idle")

\* A server of the library that has ended by itself is closed to the end: its
\* manager does not go on without a server.
ManagersEnd ==
  \A s \in Servers :
    (host = "library" /\ At(s, "unlisten")) ~> held[s] = Absent

-----------------------------------------------------------------------------
(* Inductive strengthenings of the invariants, for the proofs *)

Quiet(s)    == ~open[s] /\ tcp # s
Released(s) == Quiet(s) /\ path # s

\* Only the server in the slot or in the host's hand can have anything; a thread
\* that is past a part of the cleanup has done it, whoever did it.
ListenInv ==
  /\ slot = Absent \/ current = Absent
  /\ \A s \in Servers :
       /\ s \notin {slot, current} => Released(s)
       /\ At(s, "remove") => Quiet(s)
       /\ pc[s] \in {"release", "close", "manager", "closed"} => Released(s)
       /\ once[s] = "done" /\ ~(Starting /\ s = current) => Released(s)
  /\ Starting => At(current, "none") /\ ~open[current] /\ path # current
  /\ pc[Host] \in {"unlink", "bind"} => tcp = current
  /\ At(Host, "remove") => Quiet(current)
  /\ pc[Host] \in {"manager", "closed"} => Released(current)

\* In the desktop program the server in the slot or in hand is the only one, and
\* nobody but the host closes it.
ServiceInv ==
  host = "service" =>
    /\ \A s \in Servers :
         /\ pc[s] \in {"none", "serving", "unlisten", "remove"}
         /\ once[s] # s
         /\ ~At(s, "none") \/ store = s => s \in {slot, current}
    /\ slot # Absent => once[slot] = Absent
    /\ slot # Absent /\ At(slot, "serving") => open[slot] /\ path = slot /\ tcp = slot
    /\ At(Host, "close") => once[current] = Absent
    /\ At(Host, "closed") => store # current
    /\ \A s \in Servers : held[s] # Absent => s \in {slot, current}
    /\ At(Host, "closed") => held[current] = Absent

\* A service that runs has a manager that will stop it.
BoxInv == \A s \in Servers : box[s] = "running" => Answering(s)

\* There is one token at a time, the one on the disk.
TokenInv ==
  /\ At(Host, "write") => file = "empty"
  /\ pc[Host] \in {"listen", "unlink", "bind"} => held[current] # Absent
  /\ \A s \in Servers : held[s] # Absent => held[s] = file
  /\ client.token # Absent => client.token = file

LocalInv == TypeOK /\ ListenInv /\ ServiceInv /\ TokenInv /\ BoxInv
=============================================================================
