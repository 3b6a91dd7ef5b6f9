----------------------------- MODULE FEXServer -----------------------------
(***************************************************************************)
(* The life of FEXServer and of the clients that connect to it and start   *)
(* one when there is none: FEXServer/Main.cpp, ProcessPipe.cpp,            *)
(* SquashFS.cpp, and FEXServerClient.cpp with the reactor of Async.h.      *)
(*                                                                         *)
(* A server takes the lock file, binds the abstract socket and the one in  *)
(* the file system, mounts the root file system and serves until no client *)
(* has been connected for a while.  Connections land in its backlog from   *)
(* the moment it listens.  Shutting down it gives the lock up first, then  *)
(* the sockets, then the mount, so a new server may start underneath.      *)
(*                                                                         *)
(* A slot of Servers stands for one process at a time.  The requests are   *)
(* reduced to the one every client makes, for the path of the root file    *)
(* system; code maps are in CodeMaps.                                      *)
(***************************************************************************)
EXTENDS Integers, FiniteSets

CONSTANTS
  Clients,
  Servers,
  None,
  Image,       \* the root file system is an image to be mounted
  Steam,       \* FEX_STEAM_SUPPORT: no abstract socket
  MaxRuns,     \* bound: times each client runs
  MaxFaults    \* bound: kills, crashes, and starts and mounts that fail

ASSUME ServerAssumption ==
  /\ None \notin Clients \union Servers /\ IsFiniteSet(Servers)
  /\ Image \in BOOLEAN /\ Steam \in BOOLEAN /\ MaxRuns \in Nat /\ MaxFaults \in Nat

VARIABLES
  spc,         \* where each server is in main
  starter,     \* the client whose wait pipe it still holds
  lock,        \* holder of the lock on the server's lock file
  abstract,    \* the server bound to the abstract socket's name
  path,        \* the server whose socket is the one in the file system
  backlog, accepted,  \* its connections, known by a client and its run
  NumClients,
  rootfs,      \* the inode of the RootFS lock file, None when there is none
  opened,      \* ServerRootFSLockFD: the inode each server has open
  locked,      \* the servers that hold the lock of theirs
  mounted,     \* the servers whose image is mounted
  killed,      \* the servers told to stop
  cpc,         \* where each client is
  on,          \* the server it is connected to
  runs, faults,
  calm         \* no server has stopped or failed to start so far

fileVars == <<rootfs, opened, locked, mounted>>
sockVars == <<abstract, path>>
connVars == <<backlog, accepted, NumClients, on>>
bounds == <<runs, faults>>
vars == <<spc, starter, lock, sockVars, connVars, fileVars, killed, cpc, bounds, calm>>

Inodes == 1..(Cardinality(Servers) + 1)
ServerPlaces ==
  {"off", "lock", "bind", "bindfs", "rootfs", "rootfslock", "mount", "ready", "serve",
   "closelock", "closesocket", "unmount", "unlink", "exit"}
ClientPlaces ==
  {"idle", "connect", "spawn", "pipe", "retry", "ask", "answered", "running", "failed", "dropped"}

(* The type of every variable.                                             *)
TypeOK ==
  /\ spc \in [Servers -> ServerPlaces]
  /\ starter \in [Servers -> Clients \union {None}]
  /\ lock \in Servers \union {None}
  /\ abstract \in Servers \union {None} /\ path \in Servers \union {None}
  /\ backlog \in [Servers -> SUBSET (Clients \X (1..MaxRuns))]
  /\ accepted \in [Servers -> SUBSET (Clients \X (1..MaxRuns))]
  /\ NumClients \in [Servers -> Nat]
  /\ rootfs \in Inodes \union {None}
  /\ opened \in [Servers -> Inodes \union {None}]
  /\ locked \subseteq Servers /\ mounted \subseteq Servers /\ killed \subseteq Servers
  /\ cpc \in [Clients -> ClientPlaces]
  /\ on \in [Clients -> Servers \union {None}]
  /\ runs \in [Clients -> 0..MaxRuns] /\ faults \in 0..MaxFaults
  /\ calm \in BOOLEAN

Init ==
  /\ spc = [s \in Servers |-> "off"]
  /\ starter = [s \in Servers |-> None]
  /\ lock = None /\ abstract = None /\ path = None
  /\ backlog = [s \in Servers |-> {}] /\ accepted = [s \in Servers |-> {}]
  /\ NumClients = [s \in Servers |-> 0]
  /\ rootfs = None
  /\ opened = [s \in Servers |-> None]
  /\ locked = {} /\ mounted = {} /\ killed = {}
  /\ cpc = [c \in Clients |-> "idle"]
  /\ on = [c \in Clients |-> None]
  /\ runs = [c \in Clients |-> 0] /\ faults = 0
  /\ calm = TRUE

ServerGoto(s, place) == spc' = [spc EXCEPT ![s] = place]
ClientGoto(c, place) == cpc' = [cpc EXCEPT ![c] = place]

-----------------------------------------------------------------------------
(* The client.                                                             *)

(* ConnectToServer: the abstract name, then the path, whose socket file    *)
(* outlives the server that bound it.                                      *)
ListeningOnPath(s) ==
  spc[s] \in {"rootfs", "rootfslock", "mount", "ready", "serve", "closelock", "closesocket"}
Reachable ==
  IF abstract # None THEN abstract
  ELSE IF path # None /\ ListeningOnPath(path) THEN path ELSE None

Connection(c) == <<c, runs[c]>>
OpenOn(s, k) == k = Connection(k[1]) /\ on[k[1]] = s

Join(c, s) ==
  /\ backlog' = [backlog EXCEPT ![s] = @ \union {Connection(c)}]
  /\ on' = [on EXCEPT ![c] = s]
  /\ UNCHANGED <<accepted, NumClients>>

SetupClient(c) ==
  /\ cpc[c] = "idle" /\ runs[c] < MaxRuns
  /\ runs' = [runs EXCEPT ![c] = @ + 1]
  /\ ClientGoto(c, "connect")
  /\ UNCHANGED <<spc, starter, lock, sockVars, connVars, fileVars, killed, faults, calm>>

(* The first connect of ConnectToAndStartServer, and those of the loop in  *)
(* StartServer.                                                            *)
ConnectToServer(c) ==
  /\ cpc[c] \in {"connect", "retry"}
  /\ IF Reachable # None
     THEN Join(c, Reachable) /\ ClientGoto(c, "ask")
     ELSE cpc[c] = "connect" /\ ClientGoto(c, "spawn") /\ UNCHANGED connVars
  /\ UNCHANGED <<spc, starter, lock, sockVars, fileVars, killed, bounds, calm>>

(* fork and execvp in StartServer; the parent polls the pipe, where a      *)
(* child that could not execute leaves an error.                           *)
StartServer(c) ==
  /\ cpc[c] = "spawn"
  /\ \/ /\ \E s \in Servers :
             /\ spc[s] = "off"
             /\ ServerGoto(s, "lock")
             /\ starter' = [starter EXCEPT ![s] = c]
        /\ ClientGoto(c, "pipe")
        /\ UNCHANGED <<faults, calm>>
     \/ /\ faults < MaxFaults /\ faults' = faults + 1 /\ calm' = FALSE
        /\ ClientGoto(c, "failed")
        /\ UNCHANGED <<spc, starter>>
  /\ UNCHANGED <<lock, sockVars, connVars, fileVars, killed, runs>>

(* The poll returns: the child closed the pipe, or left.                   *)
PipeClosed(c) ==
  /\ cpc[c] = "pipe" /\ \A s \in Servers : starter[s] # c
  /\ ClientGoto(c, "retry")
  /\ UNCHANGED <<spc, starter, lock, sockVars, connVars, fileVars, killed, bounds, calm>>

(* Mutant of GiveUp: a single connect after the pipe has closed.           *)
GiveUpAtOnce(c) ==
  /\ cpc[c] = "retry" /\ Reachable = None
  /\ ClientGoto(c, "failed")
  /\ UNCHANGED <<spc, starter, lock, sockVars, connVars, fileVars, killed, bounds, calm>>

(* The end of the five seconds of retries.  They outlast the few system    *)
(* calls between the start of a server and its listen.                     *)
GiveUp(c) ==
  /\ cpc[c] = "retry" /\ Reachable = None
  /\ \A s \in Servers : spc[s] \notin {"lock", "bind", "bindfs"}
  /\ ClientGoto(c, "failed")
  /\ UNCHANGED <<spc, starter, lock, sockVars, connVars, fileVars, killed, bounds, calm>>

(* RequestRootFSPath: recv returns the answer, or nothing when the server  *)
(* closed the connection.                                                  *)
RequestRootFSPath(c) ==
  /\ \/ cpc[c] = "answered" /\ ClientGoto(c, "running")
     \/ cpc[c] = "ask" /\ on[c] = None /\ ClientGoto(c, "dropped")
  /\ UNCHANGED <<spc, starter, lock, sockVars, connVars, fileVars, killed, bounds, calm>>

(* The process ends and its socket closes.                                 *)
ClientExit(c) ==
  /\ cpc[c] \in {"running", "failed", "dropped"}
  /\ ClientGoto(c, "idle")
  /\ on' = [on EXCEPT ![c] = None]
  /\ UNCHANGED <<spc, starter, lock, sockVars, backlog, accepted, NumClients, fileVars, killed,
                 bounds, calm>>

-----------------------------------------------------------------------------
(* The server, up to WaitForRequests.                                      *)

(* What the kernel does when the process ends: its locks, its sockets, its *)
(* connections and the wait pipe go.                                       *)
Leave(s) ==
  /\ ServerGoto(s, "off")
  /\ starter' = [starter EXCEPT ![s] = None]
  /\ lock' = IF lock = s THEN None ELSE lock
  /\ abstract' = IF abstract = s THEN None ELSE abstract
  /\ path' = IF path = s THEN None ELSE path
  /\ on' = [c \in Clients |-> IF on[c] = s THEN None ELSE on[c]]
  /\ backlog' = [backlog EXCEPT ![s] = {}]
  /\ accepted' = [accepted EXCEPT ![s] = {}]
  /\ NumClients' = [NumClients EXCEPT ![s] = 0]
  /\ opened' = [opened EXCEPT ![s] = None]
  /\ locked' = locked \ {s}
  /\ mounted' = mounted \ {s}
  /\ killed' = killed \ {s}

(* Mutant of LockGained: the result of the write lock is not looked at.    *)
LockTried(s) == TRUE

LockGained(s) == lock = None

(* InitializeServerPipe: the file is created or opened, and is never       *)
(* removed; a write lock is tried and then downgraded, which keeps every   *)
(* other write lock out.                                                   *)
InitializeServerPipe(s) ==
  /\ spc[s] = "lock"
  /\ IF LockGained(s)
     THEN /\ lock' = s /\ ServerGoto(s, "bind")
          /\ UNCHANGED <<starter, sockVars, connVars, fileVars, killed>>
     ELSE Leave(s) /\ UNCHANGED rootfs
  /\ UNCHANGED <<cpc, bounds, calm>>

(* InitializeServerSocket for the abstract name, which only one socket at  *)
(* a time can be bound to.                                                 *)
BindAbstract(s) ==
  /\ spc[s] = "bind"
  /\ IF Steam \/ abstract = None
     THEN /\ abstract' = IF Steam THEN None ELSE s
          /\ ServerGoto(s, "bindfs")
          /\ UNCHANGED <<starter, lock, path, connVars, fileVars, killed>>
     ELSE Leave(s) /\ UNCHANGED rootfs
  /\ UNCHANGED <<cpc, bounds, calm>>

(* InitializeServerSocket for the path: unlink what is there, and bind.    *)
BindPath(s) ==
  /\ spc[s] = "bindfs"
  /\ path' = s
  /\ ServerGoto(s, IF Image THEN "rootfs" ELSE "ready")
  /\ UNCHANGED <<starter, lock, abstract, connVars, fileVars, killed, cpc, bounds, calm>>

(* InitializeSquashFSPipe: open the lock file, new or not, ...             *)
OpenRootFSLock(s) ==
  /\ spc[s] = "rootfs"
  /\ LET fresh == CHOOSE i \in Inodes : i # rootfs /\ \A z \in Servers : opened[z] # i
         inode == IF rootfs = None THEN fresh ELSE rootfs
     IN rootfs' = inode /\ opened' = [opened EXCEPT ![s] = inode]
  /\ ServerGoto(s, "rootfslock")
  /\ UNCHANGED <<starter, lock, sockVars, connVars, locked, mounted, killed, cpc, bounds, calm>>

(* ... and lock it; a server that cannot is gone, with its backlog.        *)
LockRootFS(s) ==
  /\ spc[s] = "rootfslock"
  /\ IF \A z \in locked : opened[z] # opened[s]
     THEN /\ locked' = locked \union {s} /\ ServerGoto(s, "mount")
          /\ UNCHANGED <<starter, lock, sockVars, connVars, rootfs, opened, mounted, killed>>
     ELSE Leave(s) /\ UNCHANGED rootfs
  /\ UNCHANGED <<cpc, bounds, calm>>

(* MountRootFSImagePath, which may fail, and the downgrade of the lock.    *)
MountRootFSImagePath(s) ==
  /\ spc[s] = "mount"
  /\ \/ /\ mounted' = mounted \union {s} /\ ServerGoto(s, "ready")
        /\ UNCHANGED <<starter, lock, sockVars, connVars, rootfs, opened, locked, killed, faults, calm>>
     \/ /\ faults < MaxFaults /\ faults' = faults + 1 /\ calm' = FALSE
        /\ Leave(s) /\ UNCHANGED rootfs
  /\ UNCHANGED <<cpc, runs>>

(* ClosePipes tells the client that started it.                            *)
ClosePipes(s) ==
  /\ spc[s] = "ready"
  /\ starter' = [starter EXCEPT ![s] = None]
  /\ ServerGoto(s, "serve")
  /\ UNCHANGED <<lock, sockVars, connVars, fileVars, killed, cpc, bounds, calm>>

-----------------------------------------------------------------------------
(* The server in run_one, and after it.                                    *)

(* The handler of the acceptors.                                           *)
Accept(s) ==
  /\ spc[s] = "serve"
  /\ \E k \in backlog[s] :
       /\ backlog' = [backlog EXCEPT ![s] = @ \ {k}]
       /\ accepted' = [accepted EXCEPT ![s] = @ \union {k}]
       /\ NumClients' = [NumClients EXCEPT ![s] = @ + 1]
  /\ UNCHANGED <<spc, starter, lock, sockVars, on, fileVars, killed, cpc, bounds, calm>>

(* Mutant of HandleSocketData: one connection is served at a time.         *)
HandleFirstClient(s) ==
  /\ spc[s] = "serve" /\ NumClients[s] = 1
  /\ \E k \in accepted[s] :
       OpenOn(s, k) /\ cpc[k[1]] = "ask" /\ ClientGoto(k[1], "answered")
  /\ UNCHANGED <<spc, starter, lock, sockVars, connVars, fileVars, killed, bounds, calm>>

(* HandleSocketData for TYPE_GET_ROOTFS_PATH.                              *)
HandleSocketData(s) ==
  /\ spc[s] = "serve"
  /\ \E k \in accepted[s] :
       OpenOn(s, k) /\ cpc[k[1]] = "ask" /\ ClientGoto(k[1], "answered")
  /\ UNCHANGED <<spc, starter, lock, sockVars, connVars, fileVars, killed, bounds, calm>>

(* Mutant of HangUp: the client stays counted.                             *)
HangUpUncounted(s) ==
  /\ spc[s] = "serve"
  /\ \E k \in accepted[s] :
       /\ ~OpenOn(s, k)
       /\ accepted' = [accepted EXCEPT ![s] = @ \ {k}]
  /\ UNCHANGED <<spc, starter, lock, sockVars, backlog, NumClients, on, fileVars, killed, cpc, bounds, calm>>

(* The handler of a connection whose client has closed it.                 *)
HangUp(s) ==
  /\ spc[s] = "serve"
  /\ \E k \in accepted[s] :
       /\ ~OpenOn(s, k)
       /\ accepted' = [accepted EXCEPT ![s] = @ \ {k}]
       /\ NumClients' = [NumClients EXCEPT ![s] = @ - 1]
  /\ UNCHANGED <<spc, starter, lock, sockVars, backlog, on, fileVars, killed, cpc, bounds, calm>>

(* Mutant of TimeoutAllowed: the timeout does not depend on the clients.   *)
TimeoutAlways(s) == TRUE

(* run_one returns a timeout: it is given one only when no client is       *)
(* counted, and ppoll found nothing in the backlog.                        *)
TimeoutAllowed(s) == NumClients[s] = 0
RequestTimeout(s) ==
  /\ spc[s] = "serve" /\ TimeoutAllowed(s) /\ backlog[s] = {}
  /\ ServerGoto(s, "closelock")
  /\ calm' = FALSE
  /\ UNCHANGED <<starter, lock, sockVars, connVars, fileVars, killed, cpc, bounds>>

(* TYPE_KILL from FEXServer -k, and SIGINT: stop_async ends the loop.      *)
StopAsync(s) ==
  /\ spc[s] = "serve" /\ faults < MaxFaults /\ faults' = faults + 1
  /\ killed' = killed \union {s} /\ calm' = FALSE
  /\ ServerGoto(s, "closelock")
  /\ UNCHANGED <<starter, lock, sockVars, connVars, fileVars, cpc, runs>>

(* CloseConnections: the lock first, ...                                   *)
CloseLock(s) ==
  /\ spc[s] = "closelock"
  /\ lock' = IF lock = s THEN None ELSE lock
  /\ ServerGoto(s, "closesocket")
  /\ UNCHANGED <<starter, sockVars, connVars, fileVars, killed, cpc, bounds, calm>>

(* ... then the acceptors, with whoever waits in the backlog.              *)
CloseAcceptors(s) ==
  /\ spc[s] = "closesocket"
  /\ abstract' = IF abstract = s THEN None ELSE abstract
  /\ on' = [c \in Clients |-> IF Connection(c) \in backlog[s] THEN None ELSE on[c]]
  /\ backlog' = [backlog EXCEPT ![s] = {}]
  /\ ServerGoto(s, IF Image THEN "unmount" ELSE "exit")
  /\ UNCHANGED <<starter, lock, path, accepted, NumClients, fileVars, killed, cpc, bounds, calm>>

(* UnmountRootFS: the mount, ...                                           *)
Unmount(s) ==
  /\ spc[s] = "unmount"
  /\ mounted' = mounted \ {s}
  /\ ServerGoto(s, "unlink")
  /\ UNCHANGED <<starter, lock, sockVars, connVars, rootfs, opened, locked, killed, cpc, bounds, calm>>

(* ... then the lock file, by its name.                                    *)
UnlinkRootFSLock(s) ==
  /\ spc[s] = "unlink"
  /\ rootfs' = None
  /\ ServerGoto(s, "exit")
  /\ UNCHANGED <<starter, lock, sockVars, connVars, opened, locked, mounted, killed, cpc, bounds, calm>>

Exit(s) ==
  /\ spc[s] = "exit"
  /\ Leave(s)
  /\ UNCHANGED <<rootfs, cpc, bounds, calm>>

(* SIGTERM, which calls _exit at once, or a crash.                         *)
Crash(s) ==
  /\ spc[s] # "off" /\ faults < MaxFaults /\ faults' = faults + 1
  /\ calm' = FALSE
  /\ Leave(s)
  /\ UNCHANGED <<rootfs, cpc, runs>>

ClientStep(c) ==
  \/ ConnectToServer(c) \/ StartServer(c) \/ PipeClosed(c) \/ GiveUp(c) \/ RequestRootFSPath(c)

ServerStep(s) ==
  \/ InitializeServerPipe(s) \/ BindAbstract(s) \/ BindPath(s) \/ OpenRootFSLock(s)
  \/ LockRootFS(s) \/ MountRootFSImagePath(s) \/ ClosePipes(s)
  \/ Accept(s) \/ HandleSocketData(s) \/ HangUp(s)
  \/ CloseLock(s) \/ CloseAcceptors(s) \/ Unmount(s) \/ UnlinkRootFSLock(s) \/ Exit(s)

Next ==
  \/ \E c \in Clients : SetupClient(c) \/ ClientStep(c) \/ ClientExit(c)
  \/ \E s \in Servers : ServerStep(s) \/ RequestTimeout(s) \/ StopAsync(s) \/ Crash(s)

Spec == Init /\ [][Next]_vars

(* Processes keep running, and a server that nobody uses times out.        *)
Fairness ==
  /\ \A c \in Clients : WF_vars(ClientStep(c))
  /\ \A s \in Servers : WF_vars(ServerStep(s)) /\ WF_vars(RequestTimeout(s))

FairSpec == Spec /\ Fairness

-----------------------------------------------------------------------------
(* Two servers never serve at once, whatever stops, dies and starts        *)
(* meanwhile, and the one that serves is the one a new client reaches.     *)
OneServer ==
  \A s \in Servers : spc[s] = "serve" =>
    /\ \A z \in Servers \ {s} : spc[z] # "serve"
    /\ Reachable = s

(* A client that was given the path of the root file system keeps it: the  *)
(* server counts it until it hangs up, does not time out under it, and     *)
(* stays mounted unless it was told to stop.                               *)
ServedKeepsRootFS ==
  \A c \in Clients :
    cpc[c] \in {"answered", "running"} /\ on[c] # None /\ on[c] \notin killed =>
      spc[on[c]] = "serve" /\ (Image => on[c] \in mounted)

(* As long as no server has stopped or failed, clients that start at the   *)
(* same moment all get connected and answered, the ones whose own server   *)
(* lost the race for the lock included.                                    *)
NobodyTurnedAway ==
  calm => \A c \in Clients : cpc[c] \notin {"failed", "dropped"}

(* The setup of a client ends, with an answer or without one, whichever    *)
(* servers stop or die under it.                                           *)
SetupEnds ==
  \A c \in Clients : cpc[c] = "connect" ~> cpc[c] \in {"running", "failed", "dropped"}

(* A server left alone for good goes away and leaves no mount behind.      *)
IdleServerLeaves ==
  <>[](\A c \in Clients : cpc[c] = "idle")
    => <>[](\A s \in Servers : spc[s] = "off" /\ s \notin mounted)
=============================================================================
