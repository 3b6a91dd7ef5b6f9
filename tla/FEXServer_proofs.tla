------------------------- MODULE FEXServer_proofs -------------------------
(***************************************************************************)
(* For any number of clients and server processes, with and without an     *)
(* image and the abstract socket, whatever is killed or crashes: at most   *)
(* one server serves and new clients reach it, a client that was answered  *)
(* keeps its server and its mount until the server is told to stop, and    *)
(* until some server stops or fails no client is turned away.              *)
(*                                                                         *)
(* LifeInv ties the sockets to the lock, ClientInv the count of clients to *)
(* the connections accepted, CalmInv the hopes of a client to the lock.    *)
(***************************************************************************)
EXTENDS FEXServer, FiniteSetTheorems, TLAPS

(* Zenon is tried where a leaf does not name a prover.                     *)
USE Zenon

Listening == {"rootfs", "rootfslock", "mount", "ready", "serve", "closelock"}
Holding == {"bind", "bindfs"} \union Listening
Bound == {"bindfs", "closesocket"} \union Listening

(* The lock is held from the start of a server to its shutdown, so that    *)
(* the sockets' names follow the lock.                                     *)
LifeInv ==
  /\ spc \in [Servers -> ServerPlaces]
  /\ \A s \in Servers : spc[s] \in Holding => lock = s
  /\ Steam => abstract = None
  /\ ~Steam => \A s \in Servers : spc[s] \in Bound <=> abstract = s
  /\ abstract \in Servers \union {None}
  /\ \A s \in Servers : spc[s] \in Listening => path = s

(* Every action leaves each server where it is or moves it along; this is  *)
(* what the places mean for the invariant.                                 *)
LEMMA PlaceFacts ==
  /\ Listening \subseteq Holding /\ Listening \subseteq Bound
  /\ Holding \subseteq ServerPlaces /\ Bound \subseteq ServerPlaces
  /\ "serve" \in Listening /\ "off" \notin Holding \union Bound
BY DEF Listening, Holding, Bound, ServerPlaces

(* The end of a process, however it comes, keeps the invariant.            *)
LEMMA LeaveLife == ASSUME LifeInv, NEW s \in Servers, Leave(s) PROVE LifeInv'
<1>1. \A z \in Servers : spc'[z] = IF z = s THEN "off" ELSE spc[z]
  BY DEF LifeInv, Leave, ServerGoto
<1>2. spc' \in [Servers -> ServerPlaces]
  BY DEF LifeInv, Leave, ServerGoto, ServerPlaces
<1>3. \A z \in Servers : spc'[z] \in Holding => lock' = z
  BY <1>1, PlaceFacts DEF LifeInv, Leave
<1>4. \A z \in Servers : spc'[z] \in Listening => path' = z
  BY <1>1, PlaceFacts DEF LifeInv, Leave
<1>5. Steam => abstract' = None
  BY DEF LifeInv, Leave
<1>6. ~Steam => \A z \in Servers : spc'[z] \in Bound <=> abstract' = z
  BY <1>1, PlaceFacts, ServerAssumption DEF LifeInv, Leave
<1>7. abstract' \in Servers \union {None}
  BY DEF LifeInv, Leave
<1> QED
  BY <1>2, <1>3, <1>4, <1>5, <1>6, <1>7 DEF LifeInv

(* A move within what a server holds, with nothing bound or released.      *)
LEMMA MoveLife ==
  ASSUME LifeInv, NEW s \in Servers, NEW place \in ServerPlaces, ServerGoto(s, place),
         UNCHANGED <<lock, abstract, path>>,
         place \in Holding => spc[s] \in Holding,
         place \in Bound <=> spc[s] \in Bound,
         place \in Listening => spc[s] \in Listening
  PROVE  LifeInv'
<1>1. \A z \in Servers : spc'[z] = IF z = s THEN place ELSE spc[z]
  BY DEF LifeInv, ServerGoto
<1>2. spc' \in [Servers -> ServerPlaces]
  BY DEF LifeInv, ServerGoto
<1> QED
  BY <1>1, <1>2 DEF LifeInv

LifeVars == <<spc, lock, abstract, path>>

(* Every step keeps the lock and the sockets together.                     *)
LEMMA NextLife == ASSUME LifeInv, [Next]_vars PROVE LifeInv'
<1>q. ASSUME UNCHANGED LifeVars PROVE LifeInv'
  BY <1>q DEF LifeVars, LifeInv
<1>c. ASSUME NEW c \in Clients, SetupClient(c) \/ ClientStep(c) \/ ClientExit(c) PROVE LifeInv'
  <2>1. CASE StartServer(c)
    <3>1. CASE UNCHANGED spc
      BY <1>q, <2>1, <3>1 DEF StartServer, LifeVars, sockVars
    <3>2. CASE \E s \in Servers : spc[s] = "off" /\ ServerGoto(s, "lock")
      <4>1. PICK s \in Servers : spc[s] = "off" /\ ServerGoto(s, "lock")
        BY <3>2
      <4> QED
        BY <2>1, <4>1, MoveLife DEF StartServer, sockVars, Listening, Holding, Bound, ServerPlaces
    <3> QED
      BY <2>1, <3>1, <3>2 DEF StartServer
  <2>2. CASE ~StartServer(c)
    BY <1>q, <1>c, <2>2
    DEF ClientStep, SetupClient, ClientExit, ConnectToServer, PipeClosed, GiveUp, RequestRootFSPath,
        LifeVars, sockVars
  <2> QED
    BY <2>1, <2>2
<1>1. ASSUME NEW s \in Servers, InitializeServerPipe(s) PROVE LifeInv'
  <2>1. CASE LockGained(s)
    <3>1. spc[s] = "lock" /\ lock = None /\ lock' = s /\ UNCHANGED <<abstract, path>>
      BY <1>1, <2>1 DEF InitializeServerPipe, LockGained, sockVars
    <3>2. \A z \in Servers : spc[z] \notin Holding
      BY <3>1, ServerAssumption DEF LifeInv
    <3>3. ServerGoto(s, "bind")
      BY <1>1, <2>1 DEF InitializeServerPipe
    <3>4. spc' \in [Servers -> ServerPlaces] /\ \A z \in Servers : spc'[z] = IF z = s THEN "bind" ELSE spc[z]
      BY <3>3 DEF LifeInv, ServerGoto, ServerPlaces
    <3>5. "bind" \notin Bound /\ "bind" \notin Listening /\ "lock" \notin Bound
      BY DEF Bound, Listening
    <3> QED
      BY <3>1, <3>2, <3>4, <3>5, PlaceFacts DEF LifeInv
  <2>2. CASE ~LockGained(s)
    BY <1>1, <2>2, LeaveLife DEF InitializeServerPipe
  <2> QED
    BY <2>1, <2>2
<1>2. ASSUME NEW s \in Servers, BindAbstract(s) PROVE LifeInv'
  <2>1. CASE Steam \/ abstract = None
    <3>1. spc[s] = "bind" /\ abstract' = (IF Steam THEN None ELSE s) /\ UNCHANGED <<lock, path>>
      BY <1>2, <2>1 DEF BindAbstract
    <3>2. spc' \in [Servers -> ServerPlaces] /\ \A z \in Servers : spc'[z] = IF z = s THEN "bindfs" ELSE spc[z]
      BY <1>2, <2>1 DEF BindAbstract, LifeInv, ServerGoto, ServerPlaces
    <3>3. "bindfs" \in Bound /\ "bindfs" \notin Listening /\ "bind" \in Holding
      BY DEF Bound, Listening, Holding
    <3>4. ~Steam => \A z \in Servers : spc[z] \notin Bound
      BY <2>1, ServerAssumption DEF LifeInv
    <3>5. ~Steam => \A z \in Servers : spc'[z] \in Bound <=> abstract' = z
      BY <3>1, <3>2, <3>3, <3>4
    <3> QED
      BY <3>1, <3>2, <3>3, <3>5 DEF LifeInv
  <2>2. CASE ~(Steam \/ abstract = None)
    BY <1>2, <2>2, LeaveLife DEF BindAbstract
  <2> QED
    BY <2>1, <2>2
<1>3. ASSUME NEW s \in Servers, BindPath(s) PROVE LifeInv'
  <2>1. spc[s] = "bindfs" /\ path' = s /\ UNCHANGED <<lock, abstract>>
    BY <1>3 DEF BindPath
  <2>2. PICK place \in {"rootfs", "ready"} : ServerGoto(s, place)
    BY <1>3 DEF BindPath
  <2>3. spc' \in [Servers -> ServerPlaces] /\ \A z \in Servers : spc'[z] = IF z = s THEN place ELSE spc[z]
    BY <2>2 DEF LifeInv, ServerGoto, ServerPlaces
  <2>4. place \in Listening /\ "bindfs" \in Bound /\ "bindfs" \in Holding
    BY DEF Listening, Bound, Holding
  <2>5. \A z \in Servers \ {s} : spc[z] \notin Listening
    BY <2>1, <2>4, PlaceFacts DEF LifeInv
  <2> QED
    BY <2>1, <2>3, <2>4, <2>5, PlaceFacts DEF LifeInv
<1>4. ASSUME NEW s \in Servers, OpenRootFSLock(s) PROVE LifeInv'
  BY <1>4, MoveLife DEF OpenRootFSLock, sockVars, Listening, Holding, Bound, ServerPlaces
<1>5. ASSUME NEW s \in Servers, LockRootFS(s) PROVE LifeInv'
  <2>1. CASE Leave(s)
    BY <2>1, LeaveLife
  <2>2. CASE ~Leave(s)
    BY <1>5, <2>2, MoveLife DEF LockRootFS, sockVars, Listening, Holding, Bound, ServerPlaces
  <2> QED
    BY <2>1, <2>2
<1>6. ASSUME NEW s \in Servers, MountRootFSImagePath(s) PROVE LifeInv'
  <2>1. CASE Leave(s)
    BY <2>1, LeaveLife
  <2>2. CASE ~Leave(s)
    BY <1>6, <2>2, MoveLife DEF MountRootFSImagePath, sockVars, Listening, Holding, Bound, ServerPlaces
  <2> QED
    BY <2>1, <2>2
<1>7. ASSUME NEW s \in Servers, ClosePipes(s) PROVE LifeInv'
  BY <1>7, MoveLife DEF ClosePipes, sockVars, Listening, Holding, Bound, ServerPlaces
<1>8. ASSUME NEW s \in Servers, Accept(s) \/ HandleSocketData(s) \/ HangUp(s) PROVE LifeInv'
  BY <1>q, <1>8 DEF Accept, HandleSocketData, HangUp, LifeVars, sockVars
<1>9. ASSUME NEW s \in Servers, RequestTimeout(s) \/ StopAsync(s) PROVE LifeInv'
  BY <1>9, MoveLife DEF RequestTimeout, StopAsync, sockVars, Listening, Holding, Bound, ServerPlaces
<1>10. ASSUME NEW s \in Servers, CloseLock(s) PROVE LifeInv'
  <2>1. spc[s] = "closelock" /\ UNCHANGED <<abstract, path>> /\ lock = s
    BY <1>10 DEF CloseLock, sockVars, LifeInv, Holding, Listening
  <2>2. spc' \in [Servers -> ServerPlaces] /\ \A z \in Servers : spc'[z] = IF z = s THEN "closesocket" ELSE spc[z]
    BY <1>10 DEF CloseLock, LifeInv, ServerGoto, ServerPlaces
  <2>3. "closelock" \in Bound /\ "closesocket" \in Bound /\ "closesocket" \notin Holding
    BY DEF Bound, Holding, Listening
  <2>4. \A z \in Servers : spc'[z] \notin Holding
    BY <2>1, <2>2, <2>3 DEF LifeInv
  <2> QED
    BY <2>1, <2>2, <2>3, <2>4, PlaceFacts DEF LifeInv
<1>11. ASSUME NEW s \in Servers, CloseAcceptors(s) PROVE LifeInv'
  <2>1. spc[s] = "closesocket" /\ UNCHANGED <<lock, path>>
        /\ abstract' = IF abstract = s THEN None ELSE abstract
    BY <1>11 DEF CloseAcceptors
  <2>2. PICK place \in {"unmount", "exit"} : ServerGoto(s, place)
    BY <1>11 DEF CloseAcceptors
  <2>3. spc' \in [Servers -> ServerPlaces] /\ \A z \in Servers : spc'[z] = IF z = s THEN place ELSE spc[z]
    BY <2>2 DEF LifeInv, ServerGoto, ServerPlaces
  <2>4. place \notin Bound /\ place \notin Holding /\ place \notin Listening
    BY DEF Bound, Holding, Listening
  <2>5. ~Steam => \A z \in Servers : spc'[z] \in Bound <=> abstract' = z
    BY <2>1, <2>3, <2>4, ServerAssumption DEF LifeInv
  <2> QED
    BY <2>1, <2>3, <2>4, <2>5 DEF LifeInv
<1>12. ASSUME NEW s \in Servers, Unmount(s) \/ UnlinkRootFSLock(s) PROVE LifeInv'
  BY <1>12, MoveLife DEF Unmount, UnlinkRootFSLock, sockVars, Listening, Holding, Bound, ServerPlaces
<1>13. ASSUME NEW s \in Servers, Exit(s) \/ Crash(s) PROVE LifeInv'
  BY <1>13, LeaveLife DEF Exit, Crash
<1>14. CASE UNCHANGED vars
  BY <1>q, <1>14 DEF vars, sockVars, LifeVars
<1> QED
  BY <1>c, <1>1, <1>2, <1>3, <1>4, <1>5, <1>6, <1>7, <1>8, <1>9, <1>10, <1>11, <1>12, <1>13, <1>14
  DEF Next, ServerStep

(* Two servers never serve at once, and the one that serves is the one a   *)
(* new client reaches: InitializeServerPipe's lock orders the sockets.     *)
THEOREM OnlyServer == Spec => []OneServer
<1>1. Init => LifeInv
  BY PlaceFacts, ServerAssumption, SMT DEF Init, LifeInv, ServerPlaces
<1>2. LifeInv /\ [Next]_vars => LifeInv'
  BY NextLife
<1>3. LifeInv => OneServer
  <2> SUFFICES ASSUME LifeInv, NEW s \in Servers, spc[s] = "serve"
               PROVE (\A z \in Servers \ {s} : spc[z] # "serve") /\ Reachable = s
    BY DEF OneServer
  <2>1. lock = s /\ path = s /\ spc[s] \in Bound
    BY PlaceFacts DEF LifeInv
  <2>2. \A z \in Servers \ {s} : spc[z] # "serve"
    BY <2>1, PlaceFacts DEF LifeInv
  <2>3. CASE Steam
    <3>1. abstract = None /\ path # None
      BY <2>1, <2>3, ServerAssumption DEF LifeInv
    <3>2. ListeningOnPath(path)
      BY <2>1 DEF ListeningOnPath
    <3> QED
      BY <2>1, <2>2, <3>1, <3>2 DEF Reachable
  <2>4. CASE ~Steam
    BY <2>1, <2>4, ServerAssumption DEF LifeInv, Reachable
  <2> QED
    BY <2>2, <2>3, <2>4
<1> QED
  BY <1>1, <1>2, <1>3, PTL DEF Spec

-----------------------------------------------------------------------------
(* What a server knows of its clients.                                     *)

Mounted == {"ready", "serve", "closelock", "closesocket", "unmount"}
Unconnected == {"connect", "spawn", "pipe", "retry"}
Served == {"answered", "running"}

ConnType ==
  /\ spc \in [Servers -> ServerPlaces]
  /\ backlog \in [Servers -> SUBSET (Clients \X Nat)]
  /\ accepted \in [Servers -> SUBSET (Clients \X Nat)]
  /\ NumClients \in [Servers -> Int]
  /\ cpc \in [Clients -> ClientPlaces]
  /\ on \in [Clients -> Servers \union {None}]
  /\ runs \in [Clients -> Nat]
  /\ abstract \in Servers \union {None} /\ path \in Servers \union {None}

(* A connection belongs to a run that has begun, and is made once in it.   *)
FreshInv ==
  \A s \in Servers : \A k \in backlog[s] \union accepted[s] :
    k[2] <= runs[k[1]] /\ (k[2] = runs[k[1]] => cpc[k[1]] \notin Unconnected)

(* It is accepted once, so the count is that of the accepted ones.         *)
CountInv ==
  \A s \in Servers :
    /\ backlog[s] \intersect accepted[s] = {}
    /\ IsFiniteSet(accepted[s]) /\ NumClients[s] = Cardinality(accepted[s])

(* Whoever has been answered is among them, and is kept.                   *)
ServedInv ==
  \A c \in Clients : cpc[c] \in Served /\ on[c] # None =>
    /\ Connection(c) \in accepted[on[c]]
    /\ on[c] \notin killed => spc[on[c]] = "serve"

MountInv == Image => \A s \in Servers : spc[s] \in Mounted => s \in mounted

ClientInv == ConnType /\ FreshInv /\ CountInv /\ ServedInv /\ MountInv

(* Every step keeps the types; a server reached is a server.               *)
LEMMA NextConnType == ASSUME LifeInv, ConnType, [Next]_vars, LifeInv' PROVE ConnType'
<1>a. path' \in Servers \union {None}
  BY SMT DEF ConnType, Next, ServerStep, ClientStep, SetupClient, ConnectToServer, StartServer, PipeClosed, GiveUp,
         RequestRootFSPath, ClientExit, InitializeServerPipe, BindAbstract, BindPath, OpenRootFSLock,
         LockRootFS, MountRootFSImagePath, ClosePipes, Accept, HandleSocketData, HangUp,
         RequestTimeout, StopAsync, CloseLock, CloseAcceptors, Unmount, UnlinkRootFSLock, Exit, Crash,
         Leave, vars, sockVars
<1>b. spc' \in [Servers -> ServerPlaces] /\ abstract' \in Servers \union {None}
  BY DEF LifeInv
<1>q. ASSUME UNCHANGED <<connVars, cpc, runs>> PROVE ConnType'
  BY <1>a, <1>b, <1>q DEF ConnType, connVars
<1>l. ASSUME NEW s \in Servers, Leave(s), UNCHANGED <<cpc, runs>> PROVE ConnType'
  BY <1>a, <1>b, <1>l, SMT DEF ConnType, Leave
<1>g. ASSUME NEW c \in Clients, NEW place \in ClientPlaces, ClientGoto(c, place), UNCHANGED <<connVars, runs>>
      PROVE ConnType'
  BY <1>a, <1>b, <1>g DEF ConnType, ClientGoto, connVars
<1>1. ASSUME NEW c \in Clients, SetupClient(c) PROVE ConnType'
  BY <1>a, <1>b, <1>1, SMT DEF ConnType, SetupClient, ClientGoto, ClientPlaces, connVars
<1>2. ASSUME NEW c \in Clients, ConnectToServer(c) PROVE ConnType'
  <2>1. CASE Reachable # None
    <3>1. Reachable \in Servers
      BY <2>1 DEF ConnType, Reachable
    <3>2. Connection(c) \in Clients \X Nat
      BY DEF ConnType, Connection
    <3> QED
      BY <1>a, <1>b, <1>2, <2>1, <3>1, <3>2, SMT DEF ConnType, ConnectToServer, Join, ClientGoto, ClientPlaces, bounds
  <2>2. CASE Reachable = None
    BY <1>g, <1>2, <2>2 DEF ConnectToServer, ClientPlaces, bounds
  <2> QED
    BY <2>1, <2>2
<1>3. ASSUME NEW c \in Clients, StartServer(c) \/ PipeClosed(c) \/ GiveUp(c) \/ RequestRootFSPath(c)
      PROVE ConnType'
  BY <1>g, <1>3 DEF StartServer, PipeClosed, GiveUp, RequestRootFSPath, ClientPlaces, bounds
<1>4. ASSUME NEW c \in Clients, ClientExit(c) PROVE ConnType'
  BY <1>a, <1>b, <1>4 DEF ConnType, ClientExit, ClientGoto, ClientPlaces, bounds
<1>5. ASSUME NEW s \in Servers,
             \/ InitializeServerPipe(s) \/ BindAbstract(s) \/ BindPath(s) \/ OpenRootFSLock(s) \/ LockRootFS(s)
             \/ MountRootFSImagePath(s) \/ ClosePipes(s) \/ RequestTimeout(s) \/ StopAsync(s)
             \/ CloseLock(s) \/ Unmount(s) \/ UnlinkRootFSLock(s) \/ Exit(s) \/ Crash(s)
      PROVE ConnType'
  BY <1>q, <1>l, <1>5
  DEF InitializeServerPipe, BindAbstract, BindPath, OpenRootFSLock, LockRootFS, MountRootFSImagePath,
      ClosePipes, RequestTimeout, StopAsync, CloseLock, Unmount, UnlinkRootFSLock, Exit, Crash, bounds
<1>6. ASSUME NEW s \in Servers, Accept(s) \/ HangUp(s) \/ CloseAcceptors(s) PROVE ConnType'
  <2>1. CASE Accept(s)
    BY <1>a, <1>b, <2>1, SMT DEF ConnType, Accept, bounds
  <2>2. CASE HangUp(s)
    BY <1>a, <1>b, <2>2, SMT DEF ConnType, HangUp, bounds
  <2>3. CASE CloseAcceptors(s)
    BY <1>a, <1>b, <2>3 DEF ConnType, CloseAcceptors, bounds
  <2> QED
    BY <1>6, <2>1, <2>2, <2>3
<1>7. ASSUME NEW s \in Servers, HandleSocketData(s) PROVE ConnType'
  <2>1. PICK k \in accepted[s] : ClientGoto(k[1], "answered")
    BY <1>7 DEF HandleSocketData
  <2>2. k[1] \in Clients
    BY <2>1, SMT DEF ConnType
  <2> QED
    BY <1>g, <1>7, <2>1, <2>2 DEF HandleSocketData, ClientPlaces, bounds
<1>8. CASE UNCHANGED vars
  BY <1>q, <1>8 DEF vars, bounds
<1> QED
  BY <1>1, <1>2, <1>3, <1>4, <1>5, <1>6, <1>7, <1>8 DEF Next, ClientStep, ServerStep

(* A step of a server that is not about its connections keeps them all, or *)
(* ends the process.                                                       *)
LEMMA ServerKeeps ==
  ASSUME NEW s \in Servers,
             \/ InitializeServerPipe(s) \/ BindAbstract(s) \/ BindPath(s) \/ OpenRootFSLock(s) \/ LockRootFS(s)
             \/ MountRootFSImagePath(s) \/ ClosePipes(s) \/ RequestTimeout(s) \/ StopAsync(s)
             \/ CloseLock(s) \/ Unmount(s) \/ UnlinkRootFSLock(s) \/ Exit(s) \/ Crash(s)
  PROVE  UNCHANGED <<cpc, runs>> /\ (Leave(s) \/ UNCHANGED connVars)
BY DEF InitializeServerPipe, BindAbstract, BindPath, OpenRootFSLock, LockRootFS, MountRootFSImagePath,
      ClosePipes, RequestTimeout, StopAsync, CloseLock, Unmount, UnlinkRootFSLock, Exit, Crash, bounds

(* Every step keeps FreshInv: a client connects once in a run.             *)
LEMMA NextFresh == ASSUME ConnType, FreshInv, [Next]_vars PROVE FreshInv'
<1>f. \A s \in Servers : \A k \in backlog[s] \union accepted[s] :
        /\ k[1] \in Clients /\ k[2] \in Nat /\ runs[k[1]] \in Nat
        /\ k[2] <= runs[k[1]] /\ (k[2] = runs[k[1]] => cpc[k[1]] \notin Unconnected)
  BY SMT DEF FreshInv, ConnType
<1>q. ASSUME UNCHANGED <<cpc, runs>>,
             \A s \in Servers : backlog'[s] \union accepted'[s] \subseteq backlog[s] \union accepted[s]
      PROVE  FreshInv'
  BY <1>f, <1>q DEF FreshInv
<1>g. ASSUME NEW c \in Clients, NEW place, ClientGoto(c, place), UNCHANGED <<runs, backlog, accepted>>,
             place \notin Unconnected \/ cpc[c] \in Unconnected
      PROVE  FreshInv'
  <2>1. \A d \in Clients : cpc'[d] = IF d = c THEN place ELSE cpc[d]
    BY <1>g DEF ClientGoto, ConnType
  <2> QED
    BY <1>f, <1>g, <2>1 DEF FreshInv
<1>1. ASSUME NEW c \in Clients, SetupClient(c) PROVE FreshInv'
  <2>1. \A d \in Clients : /\ cpc'[d] = IF d = c THEN "connect" ELSE cpc[d]
                           /\ runs'[d] = IF d = c THEN runs[d] + 1 ELSE runs[d]
    BY <1>1 DEF SetupClient, ClientGoto, ConnType
  <2>2. UNCHANGED <<backlog, accepted>>
    BY <1>1 DEF SetupClient, connVars
  <2> QED
    BY <1>f, <2>1, <2>2, SMT DEF FreshInv
<1>2. ASSUME NEW c \in Clients, ConnectToServer(c) PROVE FreshInv'
  <2>1. CASE Reachable # None
    <3>1. Reachable \in Servers
      BY <2>1 DEF ConnType, Reachable
    <3>2. UNCHANGED <<accepted, runs>> /\ \A d \in Clients : cpc'[d] = IF d = c THEN "ask" ELSE cpc[d]
      BY <1>2, <2>1 DEF ConnectToServer, Join, ClientGoto, ConnType, bounds
    <3>3. \A s \in Servers : \A k \in backlog'[s] : k \in backlog[s] \/ k = Connection(c)
      BY <1>2, <2>1, <3>1, SMT DEF ConnectToServer, Join, ConnType
    <3>4. /\ Connection(c)[1] = c /\ Connection(c)[2] = runs[c]
          /\ runs[c] \in Nat /\ "ask" \notin Unconnected
      BY DEF Connection, Unconnected, ConnType
    <3> HIDE DEF Connection
    <3> QED
      BY <1>f, <3>2, <3>3, <3>4, SMT DEF FreshInv
  <2>2. CASE Reachable = None
    BY <1>g, <1>2, <2>2 DEF ConnectToServer, Unconnected, connVars, bounds
  <2> QED
    BY <2>1, <2>2
<1>3. ASSUME NEW c \in Clients, StartServer(c) \/ PipeClosed(c) \/ GiveUp(c) \/ RequestRootFSPath(c) \/ ClientExit(c)
      PROVE FreshInv'
  BY <1>g, <1>3 DEF StartServer, PipeClosed, GiveUp, RequestRootFSPath, ClientExit, Unconnected, connVars, bounds
<1>l. ASSUME NEW s \in Servers, Leave(s), UNCHANGED <<cpc, runs>> PROVE FreshInv'
  <2>1. \A z \in Servers : backlog'[z] \union accepted'[z] \subseteq backlog[z] \union accepted[z]
    BY <1>l DEF Leave, ConnType
  <2> QED
    BY <1>q, <1>l, <2>1
<1>5. ASSUME NEW s \in Servers,
             \/ InitializeServerPipe(s) \/ BindAbstract(s) \/ BindPath(s) \/ OpenRootFSLock(s) \/ LockRootFS(s)
             \/ MountRootFSImagePath(s) \/ ClosePipes(s) \/ RequestTimeout(s) \/ StopAsync(s)
             \/ CloseLock(s) \/ Unmount(s) \/ UnlinkRootFSLock(s) \/ Exit(s) \/ Crash(s)
      PROVE FreshInv'
  BY <1>l, <1>q, <1>5, ServerKeeps DEF connVars
<1>6. ASSUME NEW s \in Servers, Accept(s) \/ HangUp(s) \/ CloseAcceptors(s) PROVE FreshInv'
  <2>1. \A z \in Servers : backlog'[z] \union accepted'[z] \subseteq backlog[z] \union accepted[z]
    BY <1>6, SMT DEF Accept, HangUp, CloseAcceptors, ConnType
  <2> QED
    BY <1>q, <1>6, <2>1 DEF Accept, HangUp, CloseAcceptors, bounds
<1>7. ASSUME NEW s \in Servers, HandleSocketData(s) PROVE FreshInv'
  <2>1. PICK k \in accepted[s] : ClientGoto(k[1], "answered")
    BY <1>7 DEF HandleSocketData
  <2>2. k[1] \in Clients
    BY <2>1, SMT DEF ConnType
  <2> QED
    BY <1>g, <1>7, <2>1, <2>2 DEF HandleSocketData, Unconnected, connVars, bounds
<1>8. CASE UNCHANGED vars
  BY <1>q, <1>8 DEF vars, bounds, connVars
<1> QED
  BY <1>1, <1>2, <1>3, <1>5, <1>6, <1>7, <1>8 DEF Next, ClientStep, ServerStep

(* Every step keeps CountInv: the handlers count a connection once, and    *)
(* once more when it hangs up.                                             *)
LEMMA NextCount == ASSUME ConnType, FreshInv, CountInv, [Next]_vars PROVE CountInv'
<1>q. ASSUME UNCHANGED <<backlog, accepted, NumClients>> PROVE CountInv'
  BY <1>q DEF CountInv
<1>2. ASSUME NEW c \in Clients, ConnectToServer(c) PROVE CountInv'
  <2>1. CASE Reachable # None
    <3>1. Reachable \in Servers
      BY <2>1 DEF ConnType, Reachable
    <3>2. UNCHANGED <<accepted, NumClients>>
      BY <1>2, <2>1 DEF ConnectToServer, Join
    <3>3. \A s \in Servers : \A k \in backlog'[s] : k \in backlog[s] \/ k = Connection(c)
      BY <1>2, <2>1, <3>1, SMT DEF ConnectToServer, Join, ConnType
    <3>4. \A s \in Servers : Connection(c) \notin accepted[s]
      <4>1. cpc[c] \in Unconnected
        BY <1>2 DEF ConnectToServer, Unconnected
      <4>2. Connection(c)[1] = c /\ Connection(c)[2] = runs[c]
        BY DEF Connection
      <4> QED
        BY <4>1, <4>2 DEF FreshInv
    <3> QED
      BY <3>2, <3>3, <3>4 DEF CountInv
  <2>2. CASE Reachable = None
    BY <1>q, <1>2, <2>2 DEF ConnectToServer, connVars
  <2> QED
    BY <2>1, <2>2
<1>3. ASSUME NEW c \in Clients,
             SetupClient(c) \/ StartServer(c) \/ PipeClosed(c) \/ GiveUp(c) \/ RequestRootFSPath(c) \/ ClientExit(c)
      PROVE CountInv'
  BY <1>q, <1>3 DEF SetupClient, StartServer, PipeClosed, GiveUp, RequestRootFSPath, ClientExit, connVars
<1>l. ASSUME NEW s \in Servers, Leave(s) PROVE CountInv'
  <2>1. \A z \in Servers : /\ backlog'[z] = IF z = s THEN {} ELSE backlog[z]
                           /\ accepted'[z] = IF z = s THEN {} ELSE accepted[z]
                           /\ NumClients'[z] = IF z = s THEN 0 ELSE NumClients[z]
    BY <1>l DEF Leave, ConnType
  <2> QED
    BY <2>1, FS_EmptySet DEF CountInv
<1>5. ASSUME NEW s \in Servers,
             \/ InitializeServerPipe(s) \/ BindAbstract(s) \/ BindPath(s) \/ OpenRootFSLock(s) \/ LockRootFS(s)
             \/ MountRootFSImagePath(s) \/ ClosePipes(s) \/ RequestTimeout(s) \/ StopAsync(s)
             \/ CloseLock(s) \/ Unmount(s) \/ UnlinkRootFSLock(s) \/ Exit(s) \/ Crash(s)
      PROVE CountInv'
  BY <1>l, <1>q, <1>5, ServerKeeps DEF connVars
<1>6. ASSUME NEW s \in Servers, Accept(s) PROVE CountInv'
  <2>1. PICK k \in backlog[s] :
          /\ backlog' = [backlog EXCEPT ![s] = @ \ {k}]
          /\ accepted' = [accepted EXCEPT ![s] = @ \union {k}]
          /\ NumClients' = [NumClients EXCEPT ![s] = @ + 1]
    BY <1>6 DEF Accept
  <2>2. \A z \in Servers : /\ backlog'[z] = IF z = s THEN backlog[s] \ {k} ELSE backlog[z]
                           /\ accepted'[z] = IF z = s THEN accepted[s] \union {k} ELSE accepted[z]
                           /\ NumClients'[z] = IF z = s THEN NumClients[s] + 1 ELSE NumClients[z]
    BY <2>1 DEF ConnType
  <2>3. k \notin accepted[s] /\ IsFiniteSet(accepted[s])
    BY <2>1 DEF CountInv
  <2>4. IsFiniteSet(accepted[s] \union {k}) /\ Cardinality(accepted[s] \union {k}) = Cardinality(accepted[s]) + 1
    BY <2>3, FS_AddElement
  <2> QED
    BY <2>2, <2>4 DEF CountInv
<1>7. ASSUME NEW s \in Servers, HangUp(s) PROVE CountInv'
  <2>1. PICK k \in accepted[s] :
          /\ accepted' = [accepted EXCEPT ![s] = @ \ {k}]
          /\ NumClients' = [NumClients EXCEPT ![s] = @ - 1]
    BY <1>7 DEF HangUp
  <2>2. \A z \in Servers : /\ accepted'[z] = IF z = s THEN accepted[s] \ {k} ELSE accepted[z]
                           /\ NumClients'[z] = IF z = s THEN NumClients[s] - 1 ELSE NumClients[z]
    BY <2>1 DEF ConnType
  <2>3. IsFiniteSet(accepted[s])
    BY DEF CountInv
  <2>4. IsFiniteSet(accepted[s] \ {k}) /\ Cardinality(accepted[s] \ {k}) = Cardinality(accepted[s]) - 1
    BY <2>1, <2>3, FS_RemoveElement
  <2>5. UNCHANGED backlog
    BY <1>7 DEF HangUp
  <2> QED
    BY <2>2, <2>4, <2>5 DEF CountInv
<1>8. ASSUME NEW s \in Servers, CloseAcceptors(s) PROVE CountInv'
  <2>1. UNCHANGED <<accepted, NumClients>> /\ \A z \in Servers : backlog'[z] \subseteq backlog[z]
    BY <1>8 DEF CloseAcceptors, ConnType
  <2> QED
    BY <2>1 DEF CountInv
<1>9. ASSUME NEW s \in Servers, HandleSocketData(s) PROVE CountInv'
  BY <1>q, <1>9 DEF HandleSocketData, connVars
<1>10. CASE UNCHANGED vars
  BY <1>q, <1>10 DEF vars, connVars
<1> QED
  BY <1>2, <1>3, <1>5, <1>6, <1>7, <1>8, <1>9, <1>10 DEF Next, ClientStep, ServerStep

(* Every step keeps ServedInv: the client an answer went to is counted, so *)
(* the server has no timeout while it is connected.                        *)
LEMMA NextServed ==
  ASSUME LifeInv, ConnType, CountInv, ServedInv, [Next]_vars, ConnType' PROVE ServedInv'
<1>q. ASSUME UNCHANGED <<runs, killed, spc>>,
             \A c \in Clients : cpc'[c] \in Served /\ on'[c] # None =>
               cpc[c] \in Served /\ on'[c] = on[c] /\ Connection(c) \in accepted'[on[c]]
      PROVE  ServedInv'
  BY <1>q DEF ServedInv, Connection
<1>g. ASSUME NEW c \in Clients, NEW place, ClientGoto(c, place), UNCHANGED <<connVars, killed, spc, runs>>,
             place \in Served => cpc[c] \in Served
      PROVE  ServedInv'
  <2>1. \A d \in Clients : cpc'[d] = IF d = c THEN place ELSE cpc[d]
    BY <1>g DEF ClientGoto, ConnType
  <2> QED
    BY <1>q, <1>g, <2>1 DEF ServedInv, connVars
<1>1. ASSUME NEW c \in Clients, SetupClient(c) PROVE ServedInv'
  <2>1. \A d \in Clients : /\ cpc'[d] = IF d = c THEN "connect" ELSE cpc[d]
                           /\ runs'[d] = IF d = c THEN runs[d] + 1 ELSE runs[d]
    BY <1>1 DEF SetupClient, ClientGoto, ConnType
  <2>2. UNCHANGED <<on, accepted, killed, spc>>
    BY <1>1 DEF SetupClient, connVars
  <2> QED
    BY <2>1, <2>2 DEF ServedInv, Connection, Served
<1>2. ASSUME NEW c \in Clients, ConnectToServer(c) PROVE ServedInv'
  <2>1. CASE Reachable # None
    <3>1. UNCHANGED <<accepted, runs, killed, spc>>
      BY <1>2, <2>1 DEF ConnectToServer, Join, bounds
    <3>2. \A d \in Clients : /\ cpc'[d] = IF d = c THEN "ask" ELSE cpc[d]
                             /\ on'[d] = IF d = c THEN Reachable ELSE on[d]
      BY <1>2, <2>1 DEF ConnectToServer, Join, ClientGoto, ConnType
    <3> QED
      BY <1>q, <3>1, <3>2 DEF ServedInv, Served
  <2>2. CASE Reachable = None
    BY <1>g, <1>2, <2>2 DEF ConnectToServer, Served, bounds
  <2> QED
    BY <2>1, <2>2
<1>3. ASSUME NEW c \in Clients, PipeClosed(c) \/ GiveUp(c) \/ RequestRootFSPath(c) PROVE ServedInv'
  BY <1>g, <1>3 DEF PipeClosed, GiveUp, RequestRootFSPath, Served, bounds
<1>4. ASSUME NEW c \in Clients, ClientExit(c) PROVE ServedInv'
  <2>1. \A d \in Clients : /\ cpc'[d] = IF d = c THEN "idle" ELSE cpc[d]
                           /\ on'[d] = IF d = c THEN None ELSE on[d]
    BY <1>4 DEF ClientExit, ClientGoto, ConnType
  <2> QED
    BY <1>q, <1>4, <2>1 DEF ClientExit, ServedInv, bounds
<1>s. ASSUME NEW s \in Servers, NEW place, ServerGoto(s, place), UNCHANGED <<cpc, on, runs, accepted>>,
             killed \subseteq killed', spc[s] = "serve" => place = "serve" \/ s \in killed' \/ accepted[s] = {}
      PROVE  ServedInv'
  <2>1. \A z \in Servers : spc'[z] = IF z = s THEN place ELSE spc[z]
    BY <1>s DEF ServerGoto, ConnType
  <2>2. \A c \in Clients : on[c] # None => on[c] \in Servers
    BY DEF ConnType
  <2> QED
    BY <1>s, <2>1, <2>2 DEF ServedInv, Connection
<1>5. ASSUME NEW c \in Clients, StartServer(c) PROVE ServedInv'
  <2>1. CASE UNCHANGED spc
    BY <1>g, <1>5, <2>1 DEF StartServer, Served
  <2>2. CASE \E s \in Servers : spc[s] = "off" /\ ServerGoto(s, "lock")
    <3>1. PICK s \in Servers : spc[s] = "off" /\ ServerGoto(s, "lock")
      BY <2>2
    <3>2. \A z \in Servers : spc'[z] = IF z = s THEN "lock" ELSE spc[z]
      BY <3>1 DEF ServerGoto, ConnType
    <3>3. UNCHANGED <<on, accepted, runs, killed>>
      BY <1>5 DEF StartServer, connVars
    <3>4. \A d \in Clients : cpc'[d] \in Served => cpc[d] \in Served
      BY <1>5 DEF StartServer, ClientGoto, Served, ConnType
    <3>5. \A d \in Clients : on[d] # None => on[d] \in Servers
      BY DEF ConnType
    <3> QED
      BY <3>1, <3>2, <3>3, <3>4, <3>5 DEF ServedInv, Connection
  <2> QED
    BY <1>5, <2>1, <2>2 DEF StartServer
<1>l. ASSUME NEW s \in Servers, Leave(s), UNCHANGED <<cpc, runs>> PROVE ServedInv'
  <2>1. \A z \in Servers : /\ spc'[z] = IF z = s THEN "off" ELSE spc[z]
                           /\ accepted'[z] = IF z = s THEN {} ELSE accepted[z]
    BY <1>l DEF Leave, ServerGoto, ConnType
  <2>2. \A c \in Clients : on'[c] = (IF on[c] = s THEN None ELSE on[c]) /\ (on[c] # None => on[c] \in Servers)
    BY <1>l DEF Leave, ConnType
  <2>3. killed' = killed \ {s}
    BY <1>l DEF Leave
  <2> QED
    BY <1>l, <2>1, <2>2, <2>3 DEF ServedInv, Connection
<1>6. ASSUME NEW s \in Servers,
             \/ InitializeServerPipe(s) \/ BindAbstract(s) \/ BindPath(s) \/ OpenRootFSLock(s) \/ LockRootFS(s)
             \/ MountRootFSImagePath(s) \/ ClosePipes(s)
             \/ CloseLock(s) \/ Unmount(s) \/ UnlinkRootFSLock(s) \/ Exit(s) \/ Crash(s)
      PROVE ServedInv'
  <2> DEFINE Moves == /\ spc[s] # "serve" /\ UNCHANGED <<connVars, killed>>
                      /\ \E place : ServerGoto(s, place)
  <2>1. ASSUME InitializeServerPipe(s) \/ BindAbstract(s) \/ LockRootFS(s) \/ MountRootFSImagePath(s)
        PROVE  Leave(s) \/ Moves
    BY <2>1 DEF InitializeServerPipe, BindAbstract, LockRootFS, MountRootFSImagePath
  <2>2. ASSUME BindPath(s) \/ OpenRootFSLock(s) \/ ClosePipes(s) \/ CloseLock(s) \/ Unmount(s) \/ UnlinkRootFSLock(s)
        PROVE  Moves
    BY <2>2 DEF BindPath, OpenRootFSLock, ClosePipes, CloseLock, Unmount, UnlinkRootFSLock
  <2>3. UNCHANGED <<cpc, runs>>
    BY <1>6, ServerKeeps
  <2>4. Leave(s) \/ Moves
    BY <1>6, <2>1, <2>2 DEF Exit, Crash
  <2> QED
    BY <1>l, <1>s, <2>3, <2>4 DEF connVars
<1>7. ASSUME NEW s \in Servers, RequestTimeout(s) PROVE ServedInv'
  <2>1. accepted[s] = {}
    BY <1>7, FS_EmptySet DEF RequestTimeout, TimeoutAllowed, CountInv
  <2> QED
    BY <1>s, <1>7, <2>1 DEF RequestTimeout, connVars, bounds
<1>8. ASSUME NEW s \in Servers, StopAsync(s) PROVE ServedInv'
  BY <1>s, <1>8 DEF StopAsync, connVars
<1>9. ASSUME NEW s \in Servers, Accept(s) PROVE ServedInv'
  <2>1. \A z \in Servers : accepted[z] \subseteq accepted'[z]
    BY <1>9, SMT DEF Accept, ConnType
  <2>2. \A c \in Clients : on[c] # None => on[c] \in Servers
    BY DEF ConnType
  <2> QED
    BY <1>q, <1>9, <2>1, <2>2 DEF Accept, ServedInv, bounds
<1>10. ASSUME NEW s \in Servers, HangUp(s) PROVE ServedInv'
  <2>1. PICK k \in accepted[s] : ~OpenOn(s, k) /\ accepted' = [accepted EXCEPT ![s] = @ \ {k}]
    BY <1>10 DEF HangUp
  <2>2. \A z \in Servers : accepted'[z] = IF z = s THEN accepted[s] \ {k} ELSE accepted[z]
    BY <2>1 DEF ConnType
  <2>3. \A c \in Clients : on[c] = s => Connection(c) # k
    BY <2>1, SMT DEF OpenOn, Connection
  <2>4. \A c \in Clients : on[c] # None => on[c] \in Servers
    BY DEF ConnType
  <2>5. UNCHANGED <<cpc, on, runs, killed, spc>>
    BY <1>10 DEF HangUp, bounds
  <2> QED
    BY <1>q, <2>2, <2>3, <2>4, <2>5 DEF ServedInv
<1>11. ASSUME NEW s \in Servers, HandleSocketData(s) PROVE ServedInv'
  <2>1. PICK k \in accepted[s] : OpenOn(s, k) /\ ClientGoto(k[1], "answered")
    BY <1>11 DEF HandleSocketData
  <2>2. k[1] \in Clients
    BY <2>1, SMT DEF ConnType
  <2>3. \A d \in Clients : cpc'[d] = IF d = k[1] THEN "answered" ELSE cpc[d]
    BY <2>1 DEF ClientGoto, ConnType
  <2>4. UNCHANGED <<connVars, killed, spc, runs>> /\ spc[s] = "serve"
    BY <1>11 DEF HandleSocketData, bounds
  <2>5. on[k[1]] = s /\ Connection(k[1]) \in accepted[s]
    BY <2>1 DEF OpenOn
  <2> QED
    BY <2>2, <2>3, <2>4, <2>5 DEF ServedInv, Connection, connVars
<1>12. ASSUME NEW s \in Servers, CloseAcceptors(s) PROVE ServedInv'
  <2>1. UNCHANGED <<cpc, accepted, runs, killed>> /\ spc[s] = "closesocket"
    BY <1>12 DEF CloseAcceptors, bounds
  <2>2. \A z \in Servers \ {s} : spc'[z] = spc[z]
    BY <1>12 DEF CloseAcceptors, ServerGoto, ConnType
  <2>3. \A c \in Clients : on'[c] # None => on'[c] = on[c] /\ on[c] \in Servers
    BY <1>12 DEF CloseAcceptors, ConnType
  <2> QED
    BY <2>1, <2>2, <2>3 DEF ServedInv, Connection
<1>13. CASE UNCHANGED vars
  BY <1>q, <1>13 DEF vars, connVars, bounds, ServedInv
<1> QED
  BY <1>1, <1>2, <1>3, <1>4, <1>5, <1>6, <1>7, <1>8, <1>9, <1>10, <1>11, <1>12, <1>13
  DEF Next, ClientStep, ServerStep

(* Every step keeps MountInv: a server is mounted before it is ready, and  *)
(* until it unmounts.                                                      *)
LEMMA NextMount == ASSUME ConnType, MountInv, [Next]_vars PROVE MountInv'
<1>m. ASSUME NEW s \in Servers, NEW place, ServerGoto(s, place),
             mounted \ {s} \subseteq mounted', Image /\ place \in Mounted => s \in mounted'
      PROVE  MountInv'
  <2>1. \A z \in Servers : spc'[z] = IF z = s THEN place ELSE spc[z]
    BY <1>m DEF ServerGoto, ConnType
  <2> QED
    BY <1>m, <2>1 DEF MountInv
<1>q. ASSUME UNCHANGED <<spc, mounted>> PROVE MountInv'
  BY <1>q DEF MountInv
<1>1. ASSUME NEW c \in Clients, SetupClient(c) \/ ClientStep(c) \/ ClientExit(c) PROVE MountInv'
  BY <1>1, <1>q, <1>m
  DEF SetupClient, ClientStep, ClientExit, ConnectToServer, StartServer, PipeClosed, GiveUp, RequestRootFSPath,
      fileVars, Mounted
<1>2. ASSUME NEW s \in Servers, Leave(s) PROVE MountInv'
  BY <1>2, <1>m DEF Leave, Mounted
<1>3. ASSUME NEW s \in Servers,
             ServerStep(s) \/ RequestTimeout(s) \/ StopAsync(s) \/ Crash(s), ~Leave(s)
      PROVE MountInv'
  <2>1. ASSUME Accept(s) \/ HandleSocketData(s) \/ HangUp(s) PROVE MountInv'
    BY <1>q, <2>1 DEF Accept, HandleSocketData, HangUp, fileVars
  <2>2. ASSUME InitializeServerPipe(s) \/ BindAbstract(s) \/ OpenRootFSLock(s) \/ LockRootFS(s) PROVE MountInv'
    BY <1>3, <1>m, <2>2 DEF InitializeServerPipe, BindAbstract, OpenRootFSLock, LockRootFS, fileVars, Mounted
  <2>3. CASE BindPath(s)
    BY <1>m, <2>3 DEF BindPath, fileVars, Mounted
  <2>4. CASE MountRootFSImagePath(s)
    BY <1>3, <1>m, <2>4 DEF MountRootFSImagePath
  <2>5. ASSUME ClosePipes(s) \/ RequestTimeout(s) \/ StopAsync(s) \/ CloseLock(s) \/ CloseAcceptors(s) PROVE MountInv'
    <3>1. spc[s] \in Mounted /\ UNCHANGED mounted /\ \E place : ServerGoto(s, place)
      BY <2>5 DEF ClosePipes, RequestTimeout, StopAsync, CloseLock, CloseAcceptors, fileVars, Mounted
    <3> QED
      BY <1>m, <3>1 DEF MountInv
  <2>6. ASSUME Unmount(s) \/ UnlinkRootFSLock(s) PROVE MountInv'
    BY <1>m, <2>6 DEF Unmount, UnlinkRootFSLock, Mounted
  <2> QED
    BY <1>3, <2>1, <2>2, <2>3, <2>4, <2>5, <2>6 DEF ServerStep, Exit, Crash
<1>4. CASE UNCHANGED vars
  BY <1>q, <1>4 DEF vars, fileVars
<1> QED
  BY <1>1, <1>2, <1>3, <1>4 DEF Next

(* A client that was answered keeps its server and the mount until it      *)
(* hangs up, unless the server is told to stop: NumClients counts exactly  *)
(* the accepted connections, so run_one has no timeout under a client.     *)
THEOREM KeepsRootFS == Spec => []ServedKeepsRootFS
<1>1. Init => LifeInv /\ ClientInv
  <2>1. Init => LifeInv
    BY PlaceFacts, ServerAssumption, SMT DEF Init, LifeInv, ServerPlaces
  <2>2. Init => ConnType
    BY SMT DEF Init, ConnType, ServerPlaces, ClientPlaces
  <2>3. Init => FreshInv /\ CountInv
    BY FS_EmptySet DEF Init, FreshInv, CountInv
  <2>4. Init => ServedInv
    BY DEF Init, ServedInv
  <2>5. Init => MountInv
    BY DEF Init, MountInv, Mounted
  <2> QED
    BY <2>1, <2>2, <2>3, <2>4, <2>5 DEF ClientInv
<1>2. LifeInv /\ ClientInv /\ [Next]_vars => (LifeInv /\ ClientInv)'
  BY NextLife, NextConnType, NextFresh, NextCount, NextServed, NextMount DEF ClientInv
<1>3. ClientInv => ServedKeepsRootFS
  BY DEF ClientInv, ConnType, ServedInv, MountInv, ServedKeepsRootFS, Served, Mounted
<1> QED
  BY <1>1, <1>2, <1>3, PTL DEF Spec

-----------------------------------------------------------------------------
(* Where a server can be as long as none has stopped or failed.            *)
Starting == {"bind", "bindfs", "rootfs", "rootfslock", "mount", "ready", "serve"}
Connectable == Starting \ {"bind"}

(* As long as no server has stopped or failed: the lock, once taken, stays *)
(* with a server that goes on to serve; nobody else gets further than the  *)
(* lock; whoever is connected is connected to that server; and a client    *)
(* whose own server is gone, or ready, can count on there being one.       *)
CalmBody ==
  /\ lock \in Servers \union {None}
  /\ lock # None => spc[lock] \in Starting
  /\ \A s \in Servers : spc[s] \in {"off", "lock"} \union Starting
  /\ starter \in [Servers -> Clients \union {None}]
  /\ \A s \in Servers : spc[s] = "off" => starter[s] = None
  /\ locked \subseteq Servers
  /\ \A s \in locked : spc[s] \in {"mount", "ready", "serve"}
  /\ \A c \in Clients : on[c] # None => spc[on[c]] \in Connectable
  /\ \A c \in Clients :
       /\ cpc[c] = "pipe" => lock # None \/ \E s \in Servers : starter[s] = c
       /\ cpc[c] = "retry" => lock # None
       /\ cpc[c] = "ask" => on[c] # None
       /\ cpc[c] \notin {"failed", "dropped"}

CalmInv == calm => CalmBody

(* A step of a client that moves only that client.                         *)
LEMMA ClientCalm ==
  ASSUME ConnType, CalmBody, NEW c \in Clients, NEW place, ClientGoto(c, place),
         UNCHANGED <<spc, starter, lock, locked>>,
         \A d \in Clients : on'[d] = on[d] \/ (d = c /\ (on'[d] = None \/ spc[on'[d]] \in Connectable)),
         place = "pipe" => lock # None \/ \E s \in Servers : starter[s] = c,
         place = "retry" => lock # None,
         place = "ask" => on'[c] # None,
         place \notin {"failed", "dropped"}
  PROVE  CalmBody'
<1>1. \A d \in Clients : cpc'[d] = IF d = c THEN place ELSE cpc[d]
  BY DEF ConnType, ClientGoto
<1>2. \A d \in Clients : on'[d] # None => spc'[on'[d]] \in Connectable
  BY DEF CalmBody
<1>3. \A d \in Clients :
        /\ cpc'[d] = "pipe" => lock' # None \/ \E s \in Servers : starter'[s] = d
        /\ cpc'[d] = "retry" => lock' # None
        /\ cpc'[d] = "ask" => on'[d] # None
        /\ cpc'[d] \notin {"failed", "dropped"}
  BY <1>1 DEF CalmBody
<1> QED
  BY <1>2, <1>3 DEF CalmBody

(* A server that goes on.                                                  *)
LEMMA ServerCalm ==
  ASSUME ConnType, CalmBody, NEW s \in Servers, NEW place \in Starting, ServerGoto(s, place),
         spc[s] \in {"lock"} \union Starting,
         place \in Connectable \/ spc[s] \notin Connectable,
         UNCHANGED <<on, cpc>>, lock' \in Servers, lock' = lock \/ lock' = s,
         starter' \in [Servers -> Clients \union {None}],
         \A z \in Servers \ {s} : starter'[z] = starter[z],
         \A z \in locked' : z \in locked \/ z = s,
         s \in locked' => place \in {"mount", "ready", "serve"}
  PROVE  CalmBody'
<1>1. \A z \in Servers : spc'[z] = IF z = s THEN place ELSE spc[z]
  BY DEF ConnType, ServerGoto
<1>2. lock' # None /\ spc'[lock'] \in Starting
  BY <1>1, ServerAssumption, SMT DEF CalmBody
<1>3. \A z \in Servers : spc'[z] \in {"off", "lock"} \union Starting
  BY <1>1 DEF CalmBody
<1>4. \A z \in Servers : spc'[z] = "off" => starter'[z] = None
  BY <1>1 DEF CalmBody, Starting
<1>5. locked' \subseteq Servers /\ \A z \in locked' : spc'[z] \in {"mount", "ready", "serve"}
  BY <1>1 DEF CalmBody
<1>6. \A c \in Clients : on'[c] # None => spc'[on'[c]] \in Connectable
  <2>1. \A c \in Clients : on[c] # None => on[c] \in Servers /\ spc[on[c]] \in Connectable
    BY SMT DEF CalmBody, ConnType
  <2> QED
    BY <1>1, <2>1
<1> QED
  BY <1>2, <1>3, <1>4, <1>5, <1>6 DEF CalmBody

(* A server that finds the lock taken leaves nobody without one.           *)
LEMMA LoserCalm ==
  ASSUME ConnType, CalmBody, NEW s \in Servers, spc[s] = "lock", lock # None, Leave(s), UNCHANGED cpc
  PROVE  CalmBody'
<1>1. \A z \in Servers : spc'[z] = IF z = s THEN "off" ELSE spc[z]
  BY DEF ConnType, Leave, ServerGoto
<1>2. lock # s /\ lock' = lock
  BY DEF CalmBody, Starting, Leave
<1>3. lock' \in Servers /\ spc'[lock'] \in Starting
  BY <1>1, <1>2 DEF CalmBody
<1>4. starter' \in [Servers -> Clients \union {None}]
        /\ \A z \in Servers : starter'[z] = IF z = s THEN None ELSE starter[z]
  BY DEF CalmBody, Leave
<1>5. \A z \in Servers : spc'[z] \in {"off", "lock"} \union Starting
  BY <1>1 DEF CalmBody
<1>6. \A z \in Servers : spc'[z] = "off" => starter'[z] = None
  BY <1>1, <1>4 DEF CalmBody
<1>7. locked' \subseteq Servers /\ \A z \in locked' : spc'[z] \in {"mount", "ready", "serve"}
  BY <1>1 DEF CalmBody, Leave
<1>8. \A c \in Clients : on[c] # None => on[c] \in Servers \ {s} /\ spc[on[c]] \in Connectable
  BY DEF CalmBody, ConnType, Connectable, Starting
<1>9. \A c \in Clients : on'[c] = on[c]
  BY <1>8, ServerAssumption DEF Leave
<1>10. \A c \in Clients : on'[c] # None => spc'[on'[c]] \in Connectable
  BY <1>1, <1>8, <1>9
<1>11. \A c \in Clients : cpc[c] = "ask" => on'[c] # None
  BY <1>9 DEF CalmBody
<1> QED
  BY <1>2, <1>3, <1>4, <1>5, <1>6, <1>7, <1>10, <1>11, ServerAssumption DEF CalmBody

(* Every step keeps CalmInv.                                               *)
LEMMA NextCalm == ASSUME LifeInv, ConnType, CalmInv, [Next]_vars PROVE CalmInv'
<1>p. Starting \subseteq Holding /\ Connectable \subseteq Bound /\ Connectable \subseteq Starting
  BY DEF Starting, Connectable, Holding, Bound, Listening
<1>c. ASSUME NEW c \in Clients, calm, CalmBody, calm',
             SetupClient(c) \/ ClientStep(c) \/ ClientExit(c)
      PROVE  CalmBody'
  <2>1. CASE SetupClient(c)
    BY <1>c, <2>1, ClientCalm DEF SetupClient, connVars, fileVars
  <2>2. CASE ClientExit(c)
    <3>1. \A d \in Clients : on'[d] = IF d = c THEN None ELSE on[d]
      BY <2>2 DEF ClientExit, ConnType
    <3> QED
      BY <1>c, <2>2, <3>1, ClientCalm DEF ClientExit, fileVars
  <2>3. CASE ConnectToServer(c)
    <3>1. CASE Reachable # None
      <4>1. ClientGoto(c, "ask") /\ on' = [on EXCEPT ![c] = Reachable]
              /\ UNCHANGED <<spc, starter, lock, locked>>
        BY <2>3, <3>1 DEF ConnectToServer, Join, fileVars
      <4>2. Reachable \in Servers /\ spc[Reachable] \in Connectable
        <5>1. CASE abstract # None
          <6>1. ~Steam /\ Reachable = abstract /\ abstract \in Servers
            BY <5>1 DEF Reachable, LifeInv
          <6>2. spc[abstract] \in Bound
            BY <6>1 DEF LifeInv
          <6> QED
            BY <1>c, <6>1, <6>2 DEF CalmBody, Bound, Listening, Connectable, Starting
        <5>2. CASE abstract = None
          <6>1. Reachable = path /\ path \in Servers /\ ListeningOnPath(path)
            BY <3>1, <5>2 DEF Reachable, ConnType
          <6> QED
            BY <1>c, <6>1 DEF CalmBody, ListeningOnPath, Connectable, Starting
        <5> QED
          BY <5>1, <5>2
      <4>3. PICK z \in Servers : z = Reachable
        BY <4>2
      <4>4. \A d \in Clients : on'[d] = IF d = c THEN z ELSE on[d]
        BY <4>1, <4>3 DEF ConnType
      <4> QED
        BY <1>c, <4>1, <4>2, <4>3, <4>4, ClientCalm, ServerAssumption
    <3>2. CASE Reachable = None
      BY <1>c, <2>3, <3>2, ClientCalm DEF ConnectToServer, connVars, fileVars
    <3> QED
      BY <3>1, <3>2
  <2>4. CASE StartServer(c)
    <3>1. PICK s \in Servers : spc[s] = "off" /\ ServerGoto(s, "lock") /\ starter' = [starter EXCEPT ![s] = c]
      BY <1>c, <2>4 DEF StartServer
    <3>2. ClientGoto(c, "pipe") /\ UNCHANGED <<lock, on, locked>>
      BY <1>c, <2>4 DEF StartServer, connVars, fileVars
    <3>3. \A z \in Servers : spc'[z] = IF z = s THEN "lock" ELSE spc[z]
      BY <3>1 DEF ConnType, ServerGoto
    <3>4. starter' \in [Servers -> Clients \union {None}]
            /\ \A z \in Servers : starter'[z] = IF z = s THEN c ELSE starter[z]
      BY <1>c, <3>1 DEF CalmBody
    <3>5. \A d \in Clients : cpc'[d] = IF d = c THEN "pipe" ELSE cpc[d]
      BY <3>2 DEF ConnType, ClientGoto
    <3>6. starter[s] = None
      BY <1>c, <3>1 DEF CalmBody
    <3>7. \A d \in Clients : (\E z \in Servers : starter[z] = d) => \E z \in Servers : starter'[z] = d
      BY <3>4, <3>6, ServerAssumption
    <3>8. \A d \in Clients : on[d] # None => on[d] \in Servers \ {s} /\ spc[on[d]] \in Connectable
      BY <1>c, <3>1 DEF CalmBody, ConnType, Connectable, Starting
    <3>9. \A d \in Clients : on'[d] # None => spc'[on'[d]] \in Connectable
      BY <3>2, <3>3, <3>8
    <3>10. lock' \in Servers \union {None} /\ (lock' # None => spc'[lock'] \in Starting)
      BY <1>c, <3>1, <3>2, <3>3 DEF CalmBody, Starting
    <3>11. \A z \in Servers : spc'[z] \in {"off", "lock"} \union Starting
      BY <1>c, <3>3 DEF CalmBody
    <3>12. \A z \in Servers : spc'[z] = "off" => starter'[z] = None
      BY <1>c, <3>3, <3>4 DEF CalmBody
    <3>13. locked' \subseteq Servers /\ \A z \in locked' : spc'[z] \in {"mount", "ready", "serve"}
      BY <1>c, <3>1, <3>2, <3>3 DEF CalmBody
    <3>14. \A d \in Clients :
             /\ cpc'[d] = "pipe" => lock' # None \/ \E z \in Servers : starter'[z] = d
             /\ cpc'[d] = "retry" => lock' # None
             /\ cpc'[d] = "ask" => on'[d] # None
             /\ cpc'[d] \notin {"failed", "dropped"}
      BY <1>c, <3>2, <3>4, <3>5, <3>7 DEF CalmBody
    <3> QED
      BY <3>4, <3>9, <3>10, <3>11, <3>12, <3>13, <3>14 DEF CalmBody
  <2>5. CASE PipeClosed(c)
    <3>1. lock # None
      BY <1>c, <2>5 DEF CalmBody, PipeClosed
    <3> QED
      BY <1>c, <2>5, <3>1, ClientCalm DEF PipeClosed, connVars, fileVars
  <2>6. CASE GiveUp(c)
    <3>1. cpc[c] = "retry" /\ Reachable = None /\ \A s \in Servers : spc[s] \notin {"lock", "bind", "bindfs"}
      BY <2>6 DEF GiveUp
    <3>2. PICK s \in Servers : s = lock /\ spc[s] \in Starting
      BY <1>c, <3>1 DEF CalmBody
    <3>3. spc[s] \in Listening
      BY <3>1, <3>2 DEF Starting, Listening
    <3>4. path = s /\ ListeningOnPath(s) /\ (~Steam => abstract = s) /\ (Steam => abstract = None)
      BY <3>3, PlaceFacts DEF LifeInv, ListeningOnPath, Listening
    <3>5. Reachable # None
      BY <3>4, ServerAssumption DEF Reachable
    <3> QED
      BY <3>1, <3>5
  <2>7. CASE RequestRootFSPath(c)
    <3>1. ~(cpc[c] = "ask" /\ on[c] = None)
      BY <1>c DEF CalmBody
    <3> QED
      BY <1>c, <2>7, <3>1, ClientCalm DEF RequestRootFSPath, connVars, fileVars
  <2> QED
    BY <1>c, <2>1, <2>2, <2>3, <2>4, <2>5, <2>6, <2>7 DEF ClientStep
<1>s. ASSUME NEW s \in Servers, calm, CalmBody, calm',
             ServerStep(s) \/ RequestTimeout(s) \/ StopAsync(s) \/ Crash(s)
      PROVE  CalmBody'
  <2>f. spc[s] \in {"off", "lock"} \union Starting /\ starter \in [Servers -> Clients \union {None}]
    BY <1>s DEF CalmBody
  <2>1. CASE InitializeServerPipe(s)
    <3>1. CASE LockGained(s)
      <4>1. spc[s] = "lock" /\ lock' = s /\ ServerGoto(s, "bind") /\ UNCHANGED <<on, cpc, starter, locked>>
        BY <2>1, <3>1 DEF InitializeServerPipe, connVars, fileVars
      <4>2. "bind" \in Starting /\ "lock" \notin Connectable /\ s \notin locked
        BY <1>s, <4>1 DEF Starting, Connectable, CalmBody
      <4> QED
        BY <1>s, <2>f, <4>1, <4>2, ServerCalm
    <3>2. CASE ~LockGained(s)
      BY <1>s, <2>1, <3>2, LoserCalm DEF InitializeServerPipe, LockGained
    <3> QED
      BY <3>1, <3>2
  <2>2. CASE BindAbstract(s)
    <3>1. spc[s] = "bind" /\ lock = s
      BY <2>2 DEF BindAbstract, LifeInv, Holding
    <3>2. Steam \/ abstract = None
      <4> SUFFICES ASSUME ~Steam, abstract # None PROVE FALSE
        OBVIOUS
      <4>1. abstract \in Servers /\ spc[abstract] \in Bound
        BY DEF LifeInv
      <4>2. spc[abstract] \in Starting
        BY <1>s, <4>1 DEF CalmBody, Bound, Listening, Starting
      <4>3. lock = abstract
        BY <1>p, <4>1, <4>2 DEF LifeInv
      <4> QED
        BY <3>1, <4>1, <4>3 DEF Bound, Listening
    <3>3. ServerGoto(s, "bindfs") /\ UNCHANGED <<on, cpc, starter, locked, lock>>
      BY <2>2, <3>2 DEF BindAbstract, connVars, fileVars
    <3>4. "bindfs" \in Starting /\ "bindfs" \in Connectable /\ "bind" \in Starting /\ s \notin locked
      BY <1>s, <3>1 DEF Starting, Connectable, CalmBody
    <3> QED
      BY <1>s, <2>f, <3>1, <3>3, <3>4, ServerCalm
  <2>3. ASSUME spc[s] \in Starting, NEW place \in Connectable, ServerGoto(s, place),
               UNCHANGED <<on, cpc, lock>>,
               starter' \in [Servers -> Clients \union {None}],
               \A z \in Servers \ {s} : starter'[z] = starter[z],
               \A z \in locked' : z \in locked \/ z = s,
               s \in locked' => place \in {"mount", "ready", "serve"}
        PROVE CalmBody'
    <3>1. lock = s
      BY <1>p, <2>3 DEF LifeInv
    <3>2. place \in Starting
      BY <1>p, <2>3
    <3> QED
      BY <1>s, <2>3, <3>1, <3>2, ServerCalm
  <2>4. CASE BindPath(s)
    <3>1. PICK place \in {"rootfs", "ready"} : ServerGoto(s, place)
      BY <2>4 DEF BindPath
    <3>2. spc[s] \in Starting /\ place \in Connectable /\ s \notin locked
      BY <1>s, <2>4 DEF BindPath, Starting, Connectable, CalmBody
    <3> QED
      BY <2>f, <2>3, <2>4, <3>1, <3>2 DEF BindPath, connVars, fileVars
  <2>5. CASE OpenRootFSLock(s)
    <3>1. PICK place \in {"rootfslock"} : ServerGoto(s, place)
      BY <2>5 DEF OpenRootFSLock
    <3>2. spc[s] \in Starting /\ place \in Connectable /\ s \notin locked
      BY <1>s, <2>5 DEF OpenRootFSLock, Starting, Connectable, CalmBody
    <3> QED
      BY <2>f, <2>3, <2>5, <3>1, <3>2 DEF OpenRootFSLock, connVars
  <2>6. CASE LockRootFS(s)
    <3>1. spc[s] = "rootfslock" /\ spc[s] \in Starting /\ s \notin locked /\ lock = s
      BY <1>p, <1>s, <2>6 DEF LockRootFS, Starting, CalmBody, LifeInv
    <3>2. locked = {}
      <4> SUFFICES ASSUME NEW z \in locked PROVE FALSE
        OBVIOUS
      <4>1. z \in Servers /\ spc[z] \in {"mount", "ready", "serve"}
        BY <1>s DEF CalmBody
      <4>2. lock = z
        BY <4>1 DEF LifeInv, Holding, Listening
      <4> QED
        BY <3>1, <4>2
    <3>3. PICK place \in {"mount"} : ServerGoto(s, place) /\ locked' = locked \union {s}
      BY <2>6, <3>2 DEF LockRootFS
    <3>4. place \in Connectable
      BY DEF Connectable, Starting
    <3> QED
      BY <2>f, <2>3, <2>6, <3>1, <3>2, <3>3, <3>4 DEF LockRootFS, connVars
  <2>7. CASE MountRootFSImagePath(s)
    <3>1. PICK place \in {"ready"} : ServerGoto(s, place)
      BY <1>s, <2>7 DEF MountRootFSImagePath
    <3>2. UNCHANGED <<starter, lock, on, locked, cpc>>
      BY <1>s, <2>7 DEF MountRootFSImagePath, connVars
    <3>3. spc[s] \in Starting /\ place \in Connectable
      BY <2>7 DEF MountRootFSImagePath, Starting, Connectable
    <3> QED
      BY <2>f, <2>3, <3>1, <3>2, <3>3
  <2>8. CASE ClosePipes(s)
    <3>1. PICK place \in {"serve"} : ServerGoto(s, place)
      BY <2>8 DEF ClosePipes
    <3>2. UNCHANGED <<lock, on, locked, cpc>> /\ starter' = [starter EXCEPT ![s] = None]
      BY <2>8 DEF ClosePipes, connVars, fileVars
    <3>3. spc[s] \in Starting /\ place \in Connectable
      BY <2>8 DEF ClosePipes, Starting, Connectable
    <3>4. starter' \in [Servers -> Clients \union {None}] /\ \A z \in Servers \ {s} : starter'[z] = starter[z]
      BY <2>f, <3>2
    <3> QED
      BY <2>3, <3>1, <3>2, <3>3, <3>4
  <2>9. CASE Accept(s) \/ HangUp(s)
    <3>1. UNCHANGED <<spc, starter, lock, on, locked, cpc>>
      BY <2>9 DEF Accept, HangUp, fileVars
    <3> QED
      BY <1>s, <3>1 DEF CalmBody
  <2>10. CASE HandleSocketData(s)
    <3>1. PICK k \in accepted[s] : ClientGoto(k[1], "answered")
      BY <2>10 DEF HandleSocketData
    <3>2. PICK c \in Clients, place \in {"answered"} : ClientGoto(c, place)
      BY <3>1, SMT DEF ConnType
    <3> QED
      BY <1>s, <2>10, <3>2, ClientCalm DEF HandleSocketData, connVars, fileVars
  <2>11. CASE RequestTimeout(s) \/ StopAsync(s) \/ Crash(s)
    BY <1>s, <2>11 DEF RequestTimeout, StopAsync, Crash
  <2>12. CASE CloseLock(s) \/ CloseAcceptors(s) \/ Unmount(s) \/ UnlinkRootFSLock(s) \/ Exit(s)
    BY <2>f, <2>12 DEF CloseLock, CloseAcceptors, Unmount, UnlinkRootFSLock, Exit, Starting
  <2> QED
    BY <1>s, <2>1, <2>2, <2>4, <2>5, <2>6, <2>7, <2>8, <2>9, <2>10, <2>11, <2>12 DEF ServerStep
<1>t. calm' = calm \/ calm' = FALSE
  <2>1. ASSUME NEW c \in Clients, SetupClient(c) \/ ClientStep(c) \/ ClientExit(c)
        PROVE  calm' = calm \/ calm' = FALSE
    BY <2>1 DEF ClientStep, SetupClient, ClientExit, ConnectToServer, StartServer, PipeClosed, GiveUp,
       RequestRootFSPath
  <2>2. ASSUME NEW s \in Servers, ServerStep(s) PROVE calm' = calm \/ calm' = FALSE
    BY <2>2 DEF ServerStep, InitializeServerPipe, BindAbstract, BindPath, OpenRootFSLock, LockRootFS,
       MountRootFSImagePath, ClosePipes, Accept, HandleSocketData, HangUp, CloseLock, CloseAcceptors,
       Unmount, UnlinkRootFSLock, Exit
  <2>3. ASSUME NEW s \in Servers, RequestTimeout(s) \/ StopAsync(s) \/ Crash(s) PROVE calm' = FALSE
    BY <2>3 DEF RequestTimeout, StopAsync, Crash
  <2> QED
    BY <2>1, <2>2, <2>3 DEF Next, vars
<1>1. CASE calm' /\ UNCHANGED vars
  BY <1>1 DEF CalmInv, CalmBody, vars, connVars, fileVars
<1>2. CASE calm' /\ Next
  BY <1>c, <1>s, <1>t, <1>2 DEF CalmInv, Next
<1> QED
  BY <1>1, <1>2 DEF CalmInv

(* As long as no server has stopped or failed, no client gives up and none *)
(* loses its connection: a server that finds the lock taken leaves only    *)
(* when another holds it, and that one serves.                             *)
THEOREM AllServed == Spec => []NobodyTurnedAway
<1>1. Init => LifeInv /\ ClientInv /\ CalmInv
  <2>1. Init => LifeInv
    BY PlaceFacts, ServerAssumption, SMT DEF Init, LifeInv, ServerPlaces
  <2>2. Init => CalmInv
    BY DEF Init, CalmInv, CalmBody
  <2>3. Init => ConnType
    BY SMT DEF Init, ConnType, ServerPlaces, ClientPlaces
  <2>4. Init => FreshInv /\ CountInv
    BY FS_EmptySet DEF Init, FreshInv, CountInv
  <2>5. Init => ServedInv
    BY DEF Init, ServedInv
  <2>6. Init => MountInv
    BY DEF Init, MountInv, Mounted
  <2> QED
    BY <2>1, <2>2, <2>3, <2>4, <2>5, <2>6 DEF ClientInv
<1>2. LifeInv /\ ClientInv /\ CalmInv /\ [Next]_vars => (LifeInv /\ ClientInv /\ CalmInv)'
  BY NextLife, NextConnType, NextFresh, NextCount, NextServed, NextMount, NextCalm DEF ClientInv
<1>3. CalmInv => NobodyTurnedAway
  BY DEF CalmInv, CalmBody, NobodyTurnedAway
<1> QED
  BY <1>1, <1>2, <1>3, PTL DEF Spec
=============================================================================
