------------------------- MODULE LocalServiceProofs -------------------------
(***************************************************************************)
(* Safety of LocalService for any servers and tokens: LocalInv is          *)
(* inductive, one lemma per conjunct and one step per action, and implies  *)
(* the properties.                                                         *)
(***************************************************************************)
EXTENDS LocalService, TLAPS

\* A start that fails leaves everything with its type: the process dies, or the
\* library closes what this start has opened.
LEMMA FailingType ==
  ASSUME TypeOK, ListenInv, Starting, StartFails, UNCHANGED <<host, file, client>>
  PROVE  TypeOK'
<1> USE ConstantsAssumption DEF At, Starting, TypeOK, ListenInv, Quiet, Released, Threads, Places
<1>1. CASE Dies
  <2>1. (open \in [Servers -> BOOLEAN])'
    BY <1>1 DEF Dies
  <2>2. (fd \in BOOLEAN)'
    BY <1>1 DEF Dies
  <2>3. QED
    BY <1>1, <2>1, <2>2 DEF Dies, Idle
<1>2. CASE ~Dies
  BY <1>2 DEF StartFails, Unlistened, Goto
<1>3. QED
  BY <1>1, <1>2

\* What the actions do to the listeners keeps them Boolean.
LEMMA OpenType ==
  ASSUME open \in [Servers -> BOOLEAN],
         \/ open' = open
         \/ open' = [s \in Servers |-> FALSE]
         \/ open' = [open EXCEPT ![current] = TRUE]
  PROVE  open' \in [Servers -> BOOLEAN]
OBVIOUS

\* A server that listens keeps its manager open, because a manager is closed only
\* after the listeners are (ListenInv).
LEMMA TypeStep ==
  ASSUME TypeOK, ListenInv, TokenInv, [Next]_vars
  PROVE  TypeOK'
<1> USE ConstantsAssumption DEF At, Goto, Target, Starting,
       TypeOK, ListenInv, TokenInv, Quiet, Released, Threads, Places
<1>1. CASE Start
  <2>1. (open \in [Servers -> BOOLEAN])'
    BY <1>1 DEF Start, listeners
  <2>2. (fd \in BOOLEAN)'
    BY <1>1 DEF Start, listeners
  <2>3. QED
    BY <1>1, <2>1, <2>2 DEF Start, listeners
<1>2. CASE LoadToken
  <2>1. CASE StartFails /\ UNCHANGED file
    BY <1>2, <2>1, FailingType DEF LoadToken
  <2>2. CASE ~(StartFails /\ UNCHANGED file)
    BY <1>2, <2>2 DEF LoadToken, Fresh, instance, listeners, manager
  <2>3. QED
    BY <2>1, <2>2
<1>3. CASE WriteToken
  <2>1. CASE StartFails /\ UNCHANGED file
    BY <1>3, <2>1, FailingType DEF WriteToken
  <2>2. CASE ~(StartFails /\ UNCHANGED file)
    BY <1>3, <2>2 DEF WriteToken, instance, listeners
  <2>3. QED
    BY <2>1, <2>2
<1>4. CASE ListenTCP
  <2>1. CASE StartFails /\ UNCHANGED file
    BY <1>4, <2>1, FailingType DEF ListenTCP
  <2>2. CASE ~(StartFails /\ UNCHANGED file)
    BY <1>4, <2>2 DEF ListenTCP, instance, manager
  <2>3. QED
    BY <2>1, <2>2
<1>5. CASE Unlink
  BY <1>5 DEF Unlink, instance, manager
<1>6. CASE ListenUnix
  <2>1. CASE StartFails
    BY <1>6, <2>1, FailingType DEF ListenUnix
  <2>2. CASE ~StartFails
    <3>1. open' = [open EXCEPT ![current] = TRUE]
      BY <1>6, <2>2 DEF ListenUnix
    <3>2. open' \in [Servers -> BOOLEAN]
      BY <3>1, OpenType
    <3>3. nativeStarted' \in BOOLEAN
      BY <1>6, <2>2 DEF ListenUnix
    <3>4. (pc \in [Threads -> Places])'
      BY <1>6, <2>2 DEF ListenUnix
    <3>5. (\A s \in Servers : tcp = s \/ open[s] => held[s] # Absent)'
      BY <1>6, <2>2, <3>1 DEF ListenUnix, manager
    <3>6. QED
      BY <1>6, <2>2, <3>2, <3>3, <3>4, <3>5 DEF ListenUnix, manager
  <2>3. QED
    BY <2>1, <2>2
<1>7. CASE Stop
  <2>1. (open \in [Servers -> BOOLEAN])'
    BY <1>7 DEF Stop, listeners, manager
  <2>2. (fd \in BOOLEAN)'
    BY <1>7 DEF Stop, listeners, manager
  <2>3. (pc \in [Threads -> Places])'
    BY <1>7 DEF Stop, listeners, manager
  <2>4. (\A s \in Servers : tcp = s \/ open[s] => held[s] # Absent)'
    BY <1>7 DEF Stop, listeners, manager
  <2>5. QED
    BY <1>7, <2>1, <2>2, <2>3, <2>4 DEF Stop, listeners, manager
<1>8. ASSUME NEW t \in Threads, EnterClose(t) PROVE TypeOK'
  BY <1>8 DEF EnterClose, instance, listeners, manager
<1>9. ASSUME NEW t \in Threads, CloseUnix(t) PROVE TypeOK'
  BY <1>9 DEF CloseUnix, instance, manager
<1>10. ASSUME NEW t \in Threads, CloseTCP(t) PROVE TypeOK'
  BY <1>10 DEF CloseTCP, instance, manager
<1>11. ASSUME NEW t \in Threads, ListenersClosed(t) PROVE TypeOK'
  BY <1>11 DEF ListenersClosed, instance, listeners, manager
<1>12. ASSUME NEW t \in Threads, RemoveSocket(t) PROVE TypeOK'
  BY <1>12 DEF RemoveSocket, instance, manager
<1>13. ASSUME NEW t \in Threads, CloseManager(t) PROVE TypeOK'
  BY <1>13 DEF CloseManager, Closed, instance, listeners
<1>14. CASE StopEnds
  BY <1>14 DEF StopEnds, Done, listeners, manager
<1>15. ASSUME NEW s \in Servers, ServeReturns(s) PROVE TypeOK'
  BY <1>15 DEF ServeReturns, instance, listeners, manager
<1>16. ASSUME NEW s \in Servers, ServeFails(s) PROVE TypeOK'
  BY <1>16 DEF ServeFails, instance, listeners, manager
<1>17. ASSUME NEW s \in Servers, Release(s) PROVE TypeOK'
  BY <1>17 DEF Release, AfterRelease, listeners, manager
<1>18. ASSUME NEW s \in Servers, ServeEnds(s) PROVE TypeOK'
  BY <1>18 DEF ServeEnds, instance, listeners, manager
<1>19. ASSUME NEW s \in Servers, StartBox(s) PROVE TypeOK'
  <2>1. (open \in [Servers -> BOOLEAN])'
    BY <1>19 DEF StartBox, Opens, instance, listeners
  <2>2. (fd \in BOOLEAN)'
    BY <1>19 DEF StartBox, Opens, instance, listeners
  <2>3. QED
    BY <1>19, <2>1, <2>2 DEF StartBox, Opens, instance, listeners
<1>20. ASSUME NEW s \in Servers, Reload(s) PROVE TypeOK'
  <2>1. (open \in [Servers -> BOOLEAN])'
    BY <1>20 DEF Reload, Opens, instance, listeners
  <2>2. (fd \in BOOLEAN)'
    BY <1>20 DEF Reload, Opens, instance, listeners
  <2>3. QED
    BY <1>20, <2>1, <2>2 DEF Reload, Opens, instance, listeners
<1>21. CASE Crash
  BY <1>21 DEF Crash, Dies, Idle
<1>22. CASE ReadToken
  BY <1>22 DEF ReadToken, ClientOnly, instance, listeners, manager
<1>23. CASE Connects
  BY <1>23 DEF Connects, ClientOnly, instance, listeners, manager
<1>24. CASE TimesOut
  BY <1>24 DEF TimesOut, ClientOnly, instance, listeners, manager
<1>25. CASE Disconnects
  BY <1>25 DEF Disconnects, ClientOnly, instance, listeners, manager
<1>26. CASE UNCHANGED vars
  BY <1>26 DEF vars, listeners, instance, manager
<1>27. QED
  BY <1>1, <1>2, <1>3, <1>4, <1>5, <1>6, <1>7, <1>8, <1>9, <1>10, <1>11, <1>12, <1>13, <1>14,
     <1>15, <1>16, <1>17, <1>18, <1>19, <1>20, <1>21, <1>22, <1>23, <1>24, <1>25, <1>26
     DEF Next, HostSteps, ServerSteps, Goroutine, Stopping, Threads

\* Every step of the cleanup leaves to the later ones what they rely on, and only
\* the server in the slot or in hand gets listeners.
LEMMA ListenStep ==
  ASSUME TypeOK, ListenInv, [Next]_vars
  PROVE  ListenInv'
<1> USE ConstantsAssumption DEF At, Goto, Target, Starting,
       TypeOK, ListenInv, Quiet, Released, Threads
<1>1. CASE Start
  BY <1>1 DEF Start, listeners
<1>2. CASE LoadToken
  BY <1>2 DEF LoadToken, Fresh, StartFails, Unlistened, Dies, Idle, instance, listeners, manager
<1>3. CASE WriteToken
  BY <1>3 DEF WriteToken, StartFails, Unlistened, Dies, Idle, instance, listeners, manager
<1>4. CASE ListenTCP
  BY <1>4 DEF ListenTCP, StartFails, Unlistened, Dies, Idle, instance, manager
<1>5. CASE Unlink
  BY <1>5 DEF Unlink, instance, manager
<1>6. CASE ListenUnix
  BY <1>6 DEF ListenUnix, StartFails, Unlistened, Dies, Idle, instance, manager
<1>7. CASE Stop
  BY <1>7 DEF Stop, listeners, manager
<1>8. ASSUME NEW t \in Threads, EnterClose(t) PROVE ListenInv'
  BY <1>8 DEF EnterClose, instance, listeners, manager
<1>9. ASSUME NEW t \in Threads, CloseUnix(t) PROVE ListenInv'
  BY <1>9 DEF CloseUnix, instance, manager
<1>10. ASSUME NEW t \in Threads, CloseTCP(t) PROVE ListenInv'
  BY <1>10 DEF CloseTCP, instance, manager
<1>11. ASSUME NEW t \in Threads, ListenersClosed(t) PROVE ListenInv'
  BY <1>11 DEF ListenersClosed, instance, listeners, manager
<1>12. ASSUME NEW t \in Threads, RemoveSocket(t) PROVE ListenInv'
  BY <1>12 DEF RemoveSocket, instance, manager
<1>13. ASSUME NEW t \in Threads, CloseManager(t) PROVE ListenInv'
  BY <1>13 DEF CloseManager, Closed, instance, listeners
<1>14. CASE StopEnds
  BY <1>14 DEF StopEnds, Done, listeners, manager
<1>15. ASSUME NEW s \in Servers, ServeReturns(s) PROVE ListenInv'
  BY <1>15 DEF ServeReturns, instance, listeners, manager
<1>16. ASSUME NEW s \in Servers, ServeFails(s) PROVE ListenInv'
  BY <1>16 DEF ServeFails, instance, listeners, manager
<1>17. ASSUME NEW s \in Servers, Release(s) PROVE ListenInv'
  BY <1>17 DEF Release, AfterRelease, listeners, manager
<1>18. ASSUME NEW s \in Servers, ServeEnds(s) PROVE ListenInv'
  BY <1>18 DEF ServeEnds, instance, listeners, manager
<1>19. ASSUME NEW s \in Servers, StartBox(s) PROVE ListenInv'
  BY <1>19 DEF StartBox, Opens, instance, listeners
<1>20. ASSUME NEW s \in Servers, Reload(s) PROVE ListenInv'
  BY <1>20 DEF Reload, Opens, instance, listeners
<1>21. CASE Crash
  BY <1>21 DEF Crash, Dies, Idle
<1>22. CASE ReadToken
  BY <1>22 DEF ReadToken, ClientOnly, instance, listeners, manager
<1>23. CASE Connects
  BY <1>23 DEF Connects, ClientOnly, instance, listeners, manager
<1>24. CASE TimesOut
  BY <1>24 DEF TimesOut, ClientOnly, instance, listeners, manager
<1>25. CASE Disconnects
  BY <1>25 DEF Disconnects, ClientOnly, instance, listeners, manager
<1>26. CASE UNCHANGED vars
  BY <1>26 DEF vars, listeners, instance, manager
<1>27. QED
  BY <1>1, <1>2, <1>3, <1>4, <1>5, <1>6, <1>7, <1>8, <1>9, <1>10, <1>11, <1>12, <1>13, <1>14,
     <1>15, <1>16, <1>17, <1>18, <1>19, <1>20, <1>21, <1>22, <1>23, <1>24, <1>25, <1>26
     DEF Next, HostSteps, ServerSteps, Goroutine, Stopping, Threads

\* The desktop program waits for the goroutine before it lets go of a server.
LEMMA ServiceStep ==
  ASSUME TypeOK, ListenInv, ServiceInv, [Next]_vars
  PROVE  ServiceInv'
<1> USE ConstantsAssumption DEF At, Goto, Target, Starting,
       TypeOK, ListenInv, ServiceInv, Quiet, Released, Threads
<1>1. CASE Start
  BY <1>1 DEF Start, listeners
<1>2. CASE LoadToken
  BY <1>2 DEF LoadToken, Fresh, StartFails, Unlistened, Dies, Idle, instance, listeners, manager
<1>3. CASE WriteToken
  BY <1>3 DEF WriteToken, StartFails, Unlistened, Dies, Idle, instance, listeners, manager
<1>4. CASE ListenTCP
  BY <1>4 DEF ListenTCP, StartFails, Unlistened, Dies, Idle, instance, manager
<1>5. CASE Unlink
  BY <1>5 DEF Unlink, instance, manager
<1>6. CASE ListenUnix
  <2>1. CASE path = Absent /\ path' = current
    <3>1. At(Host, "bind") /\ pc' = [pc EXCEPT ![Host] = "idle", ![current] = "serving"]
          /\ open' = [open EXCEPT ![current] = TRUE]
          /\ once' = [once EXCEPT ![current] = Absent]
          /\ slot' = current /\ current' = Absent /\ host' = host /\ store' = store /\ tcp' = tcp /\ held' = held
      BY <1>6, <2>1 DEF ListenUnix, StartFails, Dies, manager
    <3>2. QED
      BY <2>1, <3>1
  <2>2. CASE StartFails
    BY <1>6, <2>2 DEF ListenUnix, StartFails, Dies, Idle, Unlistened
  <2>3. QED
    BY <1>6, <2>1, <2>2 DEF ListenUnix
<1>7. CASE Stop
  BY <1>7 DEF Stop, listeners, manager
<1>8. ASSUME NEW t \in Threads, EnterClose(t) PROVE ServiceInv'
  BY <1>8 DEF EnterClose, instance, listeners, manager
<1>9. ASSUME NEW t \in Threads, CloseUnix(t) PROVE ServiceInv'
  BY <1>9 DEF CloseUnix, instance, manager
<1>10. ASSUME NEW t \in Threads, CloseTCP(t) PROVE ServiceInv'
  BY <1>10 DEF CloseTCP, instance, manager
<1>11. ASSUME NEW t \in Threads, ListenersClosed(t) PROVE ServiceInv'
  BY <1>11 DEF ListenersClosed, instance, listeners, manager
<1>12. ASSUME NEW t \in Threads, RemoveSocket(t) PROVE ServiceInv'
  <2>1. CASE t = Host
    BY <1>12, <2>1 DEF RemoveSocket, instance, manager
  <2>2. CASE t \in Servers
    BY <1>12, <2>2 DEF RemoveSocket, instance, manager
  <2>3. QED
    BY <2>1, <2>2
<1>13. ASSUME NEW t \in Threads, CloseManager(t) PROVE ServiceInv'
  BY <1>13 DEF CloseManager, Closed, instance, listeners
<1>14. CASE StopEnds
  BY <1>14 DEF StopEnds, Done, listeners, manager
<1>15. ASSUME NEW s \in Servers, ServeReturns(s) PROVE ServiceInv'
  BY <1>15 DEF ServeReturns, instance, listeners, manager
<1>16. ASSUME NEW s \in Servers, ServeFails(s) PROVE ServiceInv'
  BY <1>16 DEF ServeFails, instance, listeners, manager
<1>17. ASSUME NEW s \in Servers, Release(s) PROVE ServiceInv'
  BY <1>17 DEF Release, AfterRelease, listeners, manager
<1>18. ASSUME NEW s \in Servers, ServeEnds(s) PROVE ServiceInv'
  BY <1>18 DEF ServeEnds, instance, listeners, manager
<1>19. ASSUME NEW s \in Servers, StartBox(s) PROVE ServiceInv'
  BY <1>19 DEF StartBox, Answering, Opens, instance, listeners
<1>20. ASSUME NEW s \in Servers, Reload(s) PROVE ServiceInv'
  BY <1>20 DEF Reload, Answering, Opens, instance, listeners
<1>21. CASE Crash
  BY <1>21 DEF Crash, Dies, Idle
<1>22. CASE ReadToken
  BY <1>22 DEF ReadToken, ClientOnly, instance, listeners, manager
<1>23. CASE Connects
  BY <1>23 DEF Connects, ClientOnly, instance, listeners, manager
<1>24. CASE TimesOut
  BY <1>24 DEF TimesOut, ClientOnly, instance, listeners, manager
<1>25. CASE Disconnects
  BY <1>25 DEF Disconnects, ClientOnly, instance, listeners, manager
<1>26. CASE UNCHANGED vars
  BY <1>26 DEF vars, listeners, instance, manager
<1>27. QED
  BY <1>1, <1>2, <1>3, <1>4, <1>5, <1>6, <1>7, <1>8, <1>9, <1>10, <1>11, <1>12, <1>13, <1>14,
     <1>15, <1>16, <1>17, <1>18, <1>19, <1>20, <1>21, <1>22, <1>23, <1>24, <1>25, <1>26
     DEF Next, HostSteps, ServerSteps, Goroutine, Stopping, Threads

\* The token on the disk is never replaced.
LEMMA TokenStep ==
  ASSUME TypeOK, ListenInv, TokenInv, [Next]_vars
  PROVE  TokenInv'
<1> USE ConstantsAssumption DEF At, Goto, Target, Starting,
       TypeOK, ListenInv, TokenInv, Threads
<1>1. CASE Start
  BY <1>1 DEF Start, listeners
<1>2. CASE LoadToken
  BY <1>2 DEF LoadToken, Fresh, StartFails, Unlistened, Dies, Idle, instance, listeners, manager
<1>3. CASE WriteToken
  BY <1>3 DEF WriteToken, StartFails, Unlistened, Dies, Idle, instance, listeners, manager
<1>4. CASE ListenTCP
  BY <1>4 DEF ListenTCP, StartFails, Unlistened, Dies, Idle, instance, manager
<1>5. CASE Unlink
  BY <1>5 DEF Unlink, instance, manager
<1>6. CASE ListenUnix
  BY <1>6 DEF ListenUnix, StartFails, Unlistened, Dies, Idle, instance, manager
<1>7. CASE Stop
  BY <1>7 DEF Stop, listeners, manager
<1>8. ASSUME NEW t \in Threads, EnterClose(t) PROVE TokenInv'
  BY <1>8 DEF EnterClose, instance, listeners, manager
<1>9. ASSUME NEW t \in Threads, CloseUnix(t) PROVE TokenInv'
  BY <1>9 DEF CloseUnix, instance, manager
<1>10. ASSUME NEW t \in Threads, CloseTCP(t) PROVE TokenInv'
  BY <1>10 DEF CloseTCP, instance, manager
<1>11. ASSUME NEW t \in Threads, ListenersClosed(t) PROVE TokenInv'
  BY <1>11 DEF ListenersClosed, instance, listeners, manager
<1>12. ASSUME NEW t \in Threads, RemoveSocket(t) PROVE TokenInv'
  BY <1>12 DEF RemoveSocket, instance, manager
<1>13. ASSUME NEW t \in Threads, CloseManager(t) PROVE TokenInv'
  BY <1>13 DEF CloseManager, Closed, instance, listeners
<1>14. CASE StopEnds
  BY <1>14 DEF StopEnds, Done, listeners, manager
<1>15. ASSUME NEW s \in Servers, ServeReturns(s) PROVE TokenInv'
  BY <1>15 DEF ServeReturns, instance, listeners, manager
<1>16. ASSUME NEW s \in Servers, ServeFails(s) PROVE TokenInv'
  BY <1>16 DEF ServeFails, instance, listeners, manager
<1>17. ASSUME NEW s \in Servers, Release(s) PROVE TokenInv'
  BY <1>17 DEF Release, AfterRelease, listeners, manager
<1>18. ASSUME NEW s \in Servers, ServeEnds(s) PROVE TokenInv'
  BY <1>18 DEF ServeEnds, instance, listeners, manager
<1>19. ASSUME NEW s \in Servers, StartBox(s) PROVE TokenInv'
  BY <1>19 DEF StartBox, Opens, instance, listeners
<1>20. ASSUME NEW s \in Servers, Reload(s) PROVE TokenInv'
  BY <1>20 DEF Reload, Opens, instance, listeners
<1>21. CASE Crash
  BY <1>21 DEF Crash, Dies, Idle
<1>22. CASE ReadToken
  BY <1>22 DEF ReadToken, ClientOnly, instance, listeners, manager
<1>23. CASE Connects
  BY <1>23 DEF Connects, ClientOnly, instance, listeners, manager
<1>24. CASE TimesOut
  BY <1>24 DEF TimesOut, ClientOnly, instance, listeners, manager
<1>25. CASE Disconnects
  BY <1>25 DEF Disconnects, ClientOnly, instance, listeners, manager
<1>26. CASE UNCHANGED vars
  BY <1>26 DEF vars, listeners, instance, manager
<1>27. QED
  BY <1>1, <1>2, <1>3, <1>4, <1>5, <1>6, <1>7, <1>8, <1>9, <1>10, <1>11, <1>12, <1>13, <1>14,
     <1>15, <1>16, <1>17, <1>18, <1>19, <1>20, <1>21, <1>22, <1>23, <1>24, <1>25, <1>26
     DEF Next, HostSteps, ServerSteps, Goroutine, Stopping, Threads

\* A request reaches only a server that has been started, and closing its manager
\* stops its sing-box service.
LEMMA BoxStep ==
  ASSUME TypeOK, ListenInv, TokenInv, BoxInv, [Next]_vars
  PROVE  BoxInv'
<1> USE ConstantsAssumption DEF At, Goto, Target, Starting,
       TypeOK, ListenInv, TokenInv, BoxInv, Answering, Threads
<1>1. CASE Start
  BY <1>1 DEF Start, listeners
<1>2. CASE LoadToken
  BY <1>2 DEF LoadToken, Fresh, StartFails, Unlistened, Dies, Idle, instance, listeners, manager
<1>3. CASE WriteToken
  BY <1>3 DEF WriteToken, StartFails, Unlistened, Dies, Idle, instance, listeners, manager
<1>4. CASE ListenTCP
  BY <1>4 DEF ListenTCP, StartFails, Unlistened, Dies, Idle, instance, manager
<1>5. CASE Unlink
  BY <1>5 DEF Unlink, instance, manager
<1>6. CASE ListenUnix
  BY <1>6 DEF ListenUnix, StartFails, Unlistened, Dies, Idle, instance, manager
<1>7. CASE Stop
  BY <1>7 DEF Stop, listeners, manager
<1>8. ASSUME NEW t \in Threads, EnterClose(t) PROVE BoxInv'
  BY <1>8 DEF EnterClose, instance, listeners, manager
<1>9. ASSUME NEW t \in Threads, CloseUnix(t) PROVE BoxInv'
  BY <1>9 DEF CloseUnix, instance, manager
<1>10. ASSUME NEW t \in Threads, CloseTCP(t) PROVE BoxInv'
  BY <1>10 DEF CloseTCP, instance, manager
<1>11. ASSUME NEW t \in Threads, ListenersClosed(t) PROVE BoxInv'
  BY <1>11 DEF ListenersClosed, instance, listeners, manager
<1>12. ASSUME NEW t \in Threads, RemoveSocket(t) PROVE BoxInv'
  BY <1>12 DEF RemoveSocket, instance, manager
<1>13. ASSUME NEW t \in Threads, CloseManager(t) PROVE BoxInv'
  BY <1>13 DEF CloseManager, Closed, instance, listeners
<1>14. CASE StopEnds
  BY <1>14 DEF StopEnds, Done, listeners, manager
<1>15. ASSUME NEW s \in Servers, ServeReturns(s) PROVE BoxInv'
  BY <1>15 DEF ServeReturns, instance, listeners, manager
<1>16. ASSUME NEW s \in Servers, ServeFails(s) PROVE BoxInv'
  BY <1>16 DEF ServeFails, instance, listeners, manager
<1>17. ASSUME NEW s \in Servers, Release(s) PROVE BoxInv'
  BY <1>17 DEF Release, AfterRelease, listeners, manager
<1>18. ASSUME NEW s \in Servers, ServeEnds(s) PROVE BoxInv'
  BY <1>18 DEF ServeEnds, instance, listeners, manager
<1>19. ASSUME NEW s \in Servers, StartBox(s) PROVE BoxInv'
  BY <1>19 DEF StartBox, Opens, instance, listeners
<1>20. ASSUME NEW s \in Servers, Reload(s) PROVE BoxInv'
  BY <1>20 DEF Reload, Opens, instance, listeners
<1>21. CASE Crash
  BY <1>21 DEF Crash, Dies, Idle
<1>22. CASE ReadToken
  BY <1>22 DEF ReadToken, ClientOnly, instance, listeners, manager
<1>23. CASE Connects
  BY <1>23 DEF Connects, ClientOnly, instance, listeners, manager
<1>24. CASE TimesOut
  BY <1>24 DEF TimesOut, ClientOnly, instance, listeners, manager
<1>25. CASE Disconnects
  BY <1>25 DEF Disconnects, ClientOnly, instance, listeners, manager
<1>26. CASE UNCHANGED vars
  BY <1>26 DEF vars, listeners, instance, manager
<1>27. QED
  BY <1>1, <1>2, <1>3, <1>4, <1>5, <1>6, <1>7, <1>8, <1>9, <1>10, <1>11, <1>12, <1>13, <1>14,
     <1>15, <1>16, <1>17, <1>18, <1>19, <1>20, <1>21, <1>22, <1>23, <1>24, <1>25, <1>26
     DEF Next, HostSteps, ServerSteps, Goroutine, Stopping, Threads

-----------------------------------------------------------------------------
LEMMA LocalInvariant == Spec => []LocalInv
<1>1. Init => LocalInv
  <2>1. ASSUME Init PROVE TypeOK
    <3>1. open \in [Servers -> BOOLEAN] /\ fd \in BOOLEAN /\ nativeStarted \in BOOLEAN
      BY <2>1 DEF Init
    <3>2. QED
      BY <2>1, <3>1, ConstantsAssumption DEF Init, Idle, TypeOK, Threads, At, Places
  <2>2. ASSUME Init PROVE ListenInv /\ ServiceInv /\ TokenInv /\ BoxInv
    BY <2>2, ConstantsAssumption DEF Init, Idle, ListenInv, ServiceInv, TokenInv, BoxInv, Threads, At,
       Starting, Quiet, Released
  <2>3. QED
    BY <2>1, <2>2 DEF LocalInv
<1>2. LocalInv /\ [Next]_vars => LocalInv'
  BY TypeStep, ListenStep, ServiceStep, TokenStep, BoxStep DEF LocalInv
<1>3. QED
  BY <1>1, <1>2, PTL DEF Spec

\* Type correctness, with: who listens has an open manager.
THEOREM LocalTypeTheorem == Spec => []TypeOK
<1>1. LocalInv => TypeOK
  BY DEF LocalInv
<1>2. QED
  BY <1>1, LocalInvariant, PTL

\* The socket of the desktop program's server stays where clients look for it,
\* whatever the servers before it still had to do: program.Stop waits for them.
THEOREM ServiceReachableTheorem == Spec => []ServiceReachable
<1>1. LocalInv => ServiceReachable
  BY DEF LocalInv, ServiceInv, ServiceReachable, Reachable
<1>2. QED
  BY <1>1, LocalInvariant, PTL

\* When a stop has returned, under either host, nothing holds the addresses; in
\* the desktop program nothing holds the database and no sing-box service runs.
THEOREM StoppedIsReleasedTheorem == Spec => []StoppedIsReleased
<1>1. LocalInv => StoppedIsReleased
  <2>1. SUFFICES ASSUME LocalInv, At(Host, "idle"), slot = Absent
                 PROVE  /\ tcp = Absent /\ path \notin Servers
                        /\ host = "service" =>
                             store = Absent /\ \A s \in Servers : box[s] = "stopped"
    BY DEF StoppedIsReleased
  <2>2. current = Absent /\ Absent \notin Servers
    BY <2>1, ConstantsAssumption DEF LocalInv, TypeOK, Threads
  <2>3. \A s \in Servers : Released(s)
    BY <2>1, <2>2 DEF LocalInv, ListenInv
  <2>4. tcp = Absent /\ path \notin Servers
    BY <2>1, <2>3 DEF LocalInv, TypeOK, Released, Quiet
  <2>5. host = "service" => store = Absent
    BY <2>1, <2>2 DEF LocalInv, TypeOK, ServiceInv
  <2>6. ASSUME host = "service", NEW s \in Servers PROVE box[s] = "stopped"
    <3>1. held[s] = Absent
      BY <2>1, <2>2, <2>6 DEF LocalInv, ServiceInv
    <3>2. box[s] # "running"
      BY <2>1, <3>1 DEF LocalInv, BoxInv, Answering
    <3>3. QED
      BY <2>1, <3>2 DEF LocalInv, TypeOK
  <2>7. QED
    BY <2>4, <2>5, <2>6
<1>2. QED
  BY <1>1, LocalInvariant, PTL

\* A client's token is the one of every server that runs, over restarts, failed
\* starts and crashes: a token is made only when there is no file.
THEOREM TokenStillValidTheorem == Spec => []TokenStillValid
<1>1. LocalInv => TokenStillValid
  BY DEF LocalInv, TypeOK, TokenInv, TokenStillValid, Authenticated
<1>2. QED
  BY <1>1, LocalInvariant, PTL

=============================================================================
