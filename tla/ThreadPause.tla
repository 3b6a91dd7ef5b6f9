---------------------------- MODULE ThreadPause ----------------------------
(***************************************************************************)
(* Pausing and stopping guest threads from the GDB server's thread.        *)
(*                                                                         *)
(* The server stores an event in each tracked thread's SignalReason, sends *)
(* it SIGNAL_FOR_PAUSE and waits on IdleWaitCV until IdleWaitRefCount, the *)
(* number of threads that are not asleep, is 0.  A thread that takes the   *)
(* signal with Pause goes to sleep in SleepThread; with Stop it leaves the *)
(* guest and is destroyed.  A thread that clones counts its child before   *)
(* the child is tracked, and a tracked thread can be signalled anywhere:   *)
(* in guest code, half way through a clone, or asleep.                     *)
(*                                                                         *)
(* IdleWaitCV is notified without IdleWaitMutex.  Nothing in the program   *)
(* calls UnpauseThread, so a sleeping thread leaves its sleep only through *)
(* another signal.                                                         *)
(***************************************************************************)
EXTENDS Integers, FiniteSets, Sequences

CONSTANTS
  GuestThreads,
  Main,              \* the thread the program starts with
  Commands,          \* the GDB commands used, a subset of CommandNames
  MaxCommands,       \* bound on the commands
  RefCountModulus,   \* the range of IdleWaitRefCount, 2^32 in the code
  None               \* no thread

CommandNames == {"pause", "detach", "kill"}

ASSUME PauseAssumption ==
  /\ Main \in GuestThreads /\ IsFiniteSet(GuestThreads)
  /\ Commands \subseteq CommandNames /\ MaxCommands \in Nat
  /\ None \notin GuestThreads
  /\ RefCountModulus \in Nat /\ RefCountModulus > Cardinality(GuestThreads)

VARIABLES
  pc,                \* where each guest thread is
  stored,            \* the places interrupted by a pause, StoreThreadState
  Threads,           \* the tracked threads
  SignalReason,
  signals,           \* SIGNAL_FOR_PAUSEs queued for each thread
  handled,           \* SIGNAL_FOR_PAUSE still has FEX's handler, in the process
  ThreadSleeping,
  IdleWaitRefCount,
  clone,             \* the child a thread is creating
  gdb,               \* where the server's thread is
  todo,              \* the threads it has still to signal, ThreadCreationMutex held
  command,           \* the command under way, or the last one
  commands           \* number of commands so far, up to MaxCommands

threadVars == <<pc, stored, ThreadSleeping, clone>>
signalVars == <<SignalReason, signals, handled>>
gdbVars == <<gdb, todo, command, commands>>
vars == <<threadVars, signalVars, gdbVars, Threads, IdleWaitRefCount>>

(* "started": created, waiting for its parent; "dec", "notify", "mark" and *)
(* "sleep": the steps of SleepThread; "stopped": ExecuteThread returned;   *)
(* "delete", "bye": the end of HandleThreadDeletion.                       *)
Sleeping == {"notify", "mark", "sleep"}
Interruptible == {"run", "cloning", "dec"} \union Sleeping
Places == Interruptible \union {"unborn", "started", "stopped", "delete", "bye", "gone"}
Events == {"Nothing", "Pause", "Stop", "Return"}

(* "idle": waiting for a command; "signal_...": NotifyPause or Stop;       *)
(* "idle_...": WaitForIdle; "run_...": WaitForThreadsToRun; "dead": a      *)
(* signal without a handler has ended the process.                         *)
Waiting == {"idle_wait", "run_wait"}
ServerPlaces ==
  {"idle", "signal_pause", "signal_stop", "idle_check", "idle_block",
   "run_count", "run_check", "run_block", "dead"} \union Waiting

(* The type of every variable.                                             *)
TypeOK ==
  /\ pc \in [GuestThreads -> Places]
  /\ stored \in [GuestThreads -> Seq(Interruptible)]
  /\ Threads \subseteq GuestThreads
  /\ SignalReason \in [GuestThreads -> Events]
  /\ signals \in [GuestThreads -> Nat]
  /\ handled \in BOOLEAN
  /\ ThreadSleeping \in [GuestThreads -> BOOLEAN]
  /\ IdleWaitRefCount \in 0..(RefCountModulus - 1)
  /\ clone \in [GuestThreads -> GuestThreads \union {None}]
  /\ gdb \in ServerPlaces /\ todo \subseteq GuestThreads /\ command \in Commands \union {"none"} /\ commands \in Nat

Init ==
  /\ pc = [t \in GuestThreads |-> IF t = Main THEN "run" ELSE "unborn"]
  /\ stored = [t \in GuestThreads |-> <<>>]
  /\ Threads = {Main}
  /\ SignalReason = [t \in GuestThreads |-> "Nothing"]
  /\ signals = [t \in GuestThreads |-> 0]
  /\ handled = TRUE
  /\ ThreadSleeping = [t \in GuestThreads |-> FALSE]
  /\ IdleWaitRefCount = 1
  /\ clone = [t \in GuestThreads |-> None]
  /\ gdb = "idle" /\ todo = {} /\ command = "none" /\ commands = 0

Goto(t, place) == pc' = [pc EXCEPT ![t] = place]

Count(n) == IdleWaitRefCount' = (IdleWaitRefCount + n) % RefCountModulus

(* ThreadCreationMutex is held while the server signals the threads.       *)
CreationLockFree == gdb \notin {"signal_pause", "signal_stop"}

(* notify_all reaches the server only when it already waits.               *)
NotifyAll ==
  gdb' = CASE gdb = "idle_wait" -> "idle_check" [] gdb = "run_wait" -> "run_check" [] OTHER -> gdb

----------------------------------------------------------------------------
(* Guest threads *)

(* Mutant: a new thread is not counted yet when it is created.             *)
CreatedUncounted == 0

CreatedCount == 1

(* CreateThread, and the start of the host thread.                         *)
CreateThread(t, child) ==
  /\ pc[t] = "run" /\ pc[child] = "unborn"
  /\ pc' = [pc EXCEPT ![t] = "cloning", ![child] = "started"]
  /\ clone' = [clone EXCEPT ![t] = child]
  /\ Count(CreatedCount)
  /\ UNCHANGED <<stored, ThreadSleeping, signalVars, gdbVars, Threads>>

(* TrackThread, then StartRunningCV; the child takes signals from here on. *)
TrackThread(t) ==
  /\ pc[t] = "cloning" /\ CreationLockFree
  /\ Threads' = Threads \union {clone[t]}
  /\ pc' = [pc EXCEPT ![t] = "run", ![clone[t]] = "run"]
  /\ clone' = [clone EXCEPT ![t] = None]
  /\ UNCHANGED <<stored, ThreadSleeping, signalVars, gdbVars, IdleWaitRefCount>>

(* The guest exits: UninstallTLSState removes the alternate stack, without *)
(* which the thread's signals no longer reach FEX.                         *)
Exit(t) ==
  /\ pc[t] = "run" /\ Goto(t, "stopped")
  /\ UNCHANGED <<stored, ThreadSleeping, clone, signalVars, gdbVars, Threads, IdleWaitRefCount>>

(* DestroyThread, then the decrement and the notification of               *)
(* HandleThreadDeletion.                                                   *)
DestroyThread(t) ==
  /\ pc[t] = "stopped" /\ CreationLockFree
  /\ Threads' = Threads \ {t}
  /\ Goto(t, "delete")
  /\ UNCHANGED <<stored, ThreadSleeping, clone, signalVars, gdbVars, IdleWaitRefCount>>

HandleThreadDeletion(t) ==
  \/ /\ pc[t] = "delete" /\ Goto(t, "bye")
     /\ Count(-1)
     /\ UNCHANGED <<stored, ThreadSleeping, clone, signalVars, gdbVars, Threads>>
  \/ /\ pc[t] = "bye" /\ Goto(t, "gone")
     /\ NotifyAll
     /\ UNCHANGED <<stored, ThreadSleeping, clone, signalVars, todo, command, commands, Threads, IdleWaitRefCount>>

SleepThread(t) ==
  \/ /\ pc[t] = "dec" /\ Goto(t, "notify")
     /\ Count(-1)
     /\ UNCHANGED <<stored, ThreadSleeping, clone, signalVars, gdbVars, Threads>>
  \/ /\ pc[t] = "notify" /\ Goto(t, "mark")
     /\ NotifyAll
     /\ UNCHANGED <<stored, ThreadSleeping, clone, signalVars, todo, command, commands, Threads, IdleWaitRefCount>>
  \/ /\ pc[t] = "mark" /\ Goto(t, "sleep")
     /\ ThreadSleeping' = [ThreadSleeping EXCEPT ![t] = TRUE]
     /\ UNCHANGED <<stored, clone, signalVars, gdbVars, Threads, IdleWaitRefCount>>

(* A thread that slept when it is stopped is counted again.                *)
Recounted(t) == IF ThreadSleeping[t] THEN 1 ELSE 0

(* SIGNAL_FOR_PAUSE finds FEX's handler.  A reason that is already Nothing *)
(* is no event of FEX's; the signal goes on to the guest.                  *)
HandleSignalPause(t) ==
  /\ signals[t] > 0 /\ pc[t] \in Interruptible /\ handled
  /\ signals' = [signals EXCEPT ![t] = @ - 1]
  /\ SignalReason' = [SignalReason EXCEPT ![t] = "Nothing"]
  /\ \/ /\ SignalReason[t] = "Pause"
        /\ stored' = [stored EXCEPT ![t] = Append(@, pc[t])]
        /\ Goto(t, "dec")
        /\ UNCHANGED IdleWaitRefCount
     \/ /\ SignalReason[t] = "Stop"
        /\ Goto(t, "stopped")
        /\ Count(Recounted(t))
        /\ UNCHANGED stored
     \/ /\ SignalReason[t] = "Nothing"
        /\ UNCHANGED <<pc, stored, IdleWaitRefCount>>
  /\ UNCHANGED <<handled, ThreadSleeping, clone, gdbVars, Threads>>

(* SignalHandlerThunk on a thread without an alternate stack: the default  *)
(* disposition, which is the whole process's, is restored.                 *)
RestoreDefault(t) ==
  /\ signals[t] > 0 /\ pc[t] \in {"stopped", "delete", "bye"} /\ handled
  /\ signals' = [signals EXCEPT ![t] = @ - 1]
  /\ handled' = FALSE
  /\ UNCHANGED <<threadVars, SignalReason, gdbVars, Threads, IdleWaitRefCount>>

(* The default action of the signal ends the process.                      *)
Terminate(t) ==
  /\ signals[t] > 0 /\ pc[t] \notin {"unborn", "gone"} /\ ~handled
  /\ signals' = [u \in GuestThreads |-> 0]
  /\ pc' = [u \in GuestThreads |-> "gone"]
  /\ gdb' = "dead"
  /\ UNCHANGED <<stored, ThreadSleeping, clone, SignalReason, handled, todo, command, commands, Threads, IdleWaitRefCount>>

----------------------------------------------------------------------------
(* The GDB server *)

(* SignalThread: store the event, then tgkill.                             *)
SignalThread(t, event) ==
  /\ SignalReason' = [SignalReason EXCEPT ![t] = event]
  /\ signals' = [signals EXCEPT ![t] = IF pc[t] = "gone" THEN @ ELSE @ + 1]
  /\ UNCHANGED handled

Server(from, to) ==
  /\ gdb = from /\ gdb' = to
  /\ UNCHANGED <<threadVars, Threads, IdleWaitRefCount>>

Command(name, to) ==
  /\ name \in Commands /\ commands < MaxCommands
  /\ commands' = commands + 1 /\ command' = name
  /\ Server("idle", to)

Pause == Command("pause", "signal_pause") /\ todo' = Threads /\ UNCHANGED signalVars
Stop == Command("kill", "signal_stop") /\ todo' = Threads /\ UNCHANGED signalVars

(* Run, in CommandDetach.  A detach while a pause signal is pending is     *)
(* left out: the handler would look for a guest signal frame where there   *)
(* is none.                                                                *)
Run ==
  /\ \A t \in GuestThreads : signals[t] = 0
  /\ Command("detach", "run_count")
  /\ SignalReason' = [t \in GuestThreads |-> IF t \in Threads THEN "Return" ELSE SignalReason[t]]
  /\ UNCHANGED <<signals, handled, todo>>

(* NotifyPause and Stop walk the tracked threads under the lock.           *)
Notify(from, event) ==
  \/ /\ todo # {} /\ Server(from, from)
     /\ \E t \in todo : SignalThread(t, event) /\ todo' = todo \ {t}
     /\ UNCHANGED <<command, commands>>
  \/ /\ todo = {} /\ Server(from, "idle_check")
     /\ UNCHANGED <<signalVars, todo, command, commands>>

NotifyPause == Notify("signal_pause", "Pause")
NotifyStop == Notify("signal_stop", "Stop")

(* Mutant: the server does not wait for the last thread.                   *)
IdleButOne == IdleWaitRefCount \in {0, 1}

Idle == IdleWaitRefCount = 0

(* The predicate is tested under IdleWaitMutex, which the threads do not   *)
(* take: one that changes the count and notifies between the test and the  *)
(* wait is missed.                                                         *)
Await(check, ready, block, wait) ==
  /\ \/ Server(check, IF ready THEN "idle" ELSE block)
     \/ Server(block, wait)
  /\ UNCHANGED <<signalVars, todo, command, commands>>

WaitForIdle == Await("idle_check", Idle, "idle_block", "idle_wait")

(* NumThreads is read first, under ThreadCreationMutex.                    *)
WaitForThreadsToRun ==
  \/ /\ Server("run_count", "run_check")
     /\ todo' = Threads
     /\ UNCHANGED <<signalVars, command, commands>>
  \/ Await("run_check", IdleWaitRefCount >= Cardinality(todo), "run_block", "run_wait")

ServerStep == NotifyPause \/ NotifyStop \/ WaitForIdle \/ WaitForThreadsToRun

HostStep(t) ==
  \/ TrackThread(t) \/ DestroyThread(t) \/ HandleThreadDeletion(t) \/ SleepThread(t)
  \/ HandleSignalPause(t) \/ RestoreDefault(t) \/ Terminate(t)

Next ==
  \/ Pause \/ Stop \/ Run \/ ServerStep
  \/ \E t \in GuestThreads :
       HostStep(t) \/ Exit(t) \/ (\E child \in GuestThreads : CreateThread(t, child))

Spec == Init /\ [][Next]_vars

(* The server and the host code of every thread are scheduled.             *)
FairSpec == Spec /\ WF_vars(ServerStep) /\ \A t \in GuestThreads : WF_vars(HostStep(t))

----------------------------------------------------------------------------
(* A thread that is out of guest code: asleep, if need be in a pause that  *)
(* interrupted a sleep, or on its way out.                                 *)
Quiescent(t) ==
  \/ pc[t] \in Sleeping \union {"unborn", "stopped", "delete", "bye", "gone"}
  \/ \E i \in DOMAIN stored[t] : stored[t][i] \in Sleeping

(* When WaitForIdle has returned, no thread is in guest code or in a clone *)
(* until the next command, the ones created while the server was           *)
(* signalling included.                                                    *)
PausedIsQuiescent ==
  gdb = "idle" /\ command \in {"pause", "kill"} => \A t \in GuestThreads : Quiescent(t)

(* The threads that were created and have neither gone to sleep nor been   *)
(* deleted.                                                                *)
Awake == {t \in GuestThreads : pc[t] \notin Sleeping \union {"unborn", "bye", "gone"}}

(* Until a second command IdleWaitRefCount is the number of threads that   *)
(* were created and have neither gone to sleep nor been deleted, whatever  *)
(* was interrupted and whoever was being created.                          *)
CountsAwake ==
  commands <= 1 /\ gdb # "dead" => IdleWaitRefCount = Cardinality(Awake)

----------------------------------------------------------------------------
(* Promises of the code's comments that this model refutes; the README     *)
(* gives the instances and the traces.                                     *)

(* "We need to ensure we don't double decrement our idle thread counter":  *)
(* a kill of paused threads does not take the counter below 0.             *)
StopCountsOnce == command = "kill" => IdleWaitRefCount <= Cardinality(GuestThreads)

(* "Block until exit": when a kill returns every thread has left the guest *)
(* for good.                                                               *)
KillBlocksUntilExit ==
  [][gdb = "idle_check" /\ gdb' = "idle" /\ command = "kill"
       => \A t \in GuestThreads : pc[t] \in {"unborn", "stopped", "delete", "bye", "gone"}]_vars

(* "Ensure the threads are back in running state on detach": a thread that *)
(* is asleep when the server detaches does not stay asleep.                *)
DetachResumes ==
  \A t \in GuestThreads : (gdb = "run_count" /\ pc[t] = "sleep") ~> pc[t] # "sleep"
=============================================================================
