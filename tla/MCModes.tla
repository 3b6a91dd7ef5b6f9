------------------------------ MODULE MCModes ------------------------------
(***************************************************************************)
(* Five small machines side by side; the initial state chooses one, and    *)
(* the variables that it has no use for rest.                              *)
(*   self:  lazy invalidation, one thread on the two pages of the cfg;     *)
(*   poke:  lazy invalidation with the cross-poke, a compiling thread and  *)
(*          a writing one on one page;                                     *)
(*   hard:  hard invalidation, two compiling threads and a writing one;    *)
(*   queue: DeferredSignals with nesting futex waits and enough signals to *)
(*          queue several;                                                 *)
(*   masks: DeferredSignals with every system call that changes masks and  *)
(*          handlers, and fewer signals.                                   *)
(***************************************************************************)
EXTENDS MCSMCLazy, DeferredSignalsState

CONSTANTS m1, m2, x1, alrm, usr

VARIABLE machine

Poke == INSTANCE SMCLazy WITH
  Threads <- {x1, m1}, Mutators <- {m1}, Writers <- {x1}, Words <- {w1}, Pages <- {p1},
  Blocks <- {b1}, PageOf <- MCPageOf1, Extent <- MCExtent1, SMCLazyCrossPoke <- TRUE

Hard == INSTANCE SMCTracking WITH
  Threads <- {m1, m2, x1}, Mutators <- {m1, m2}, Writers <- {x1}, Words <- {w1}, Pages <- {p1},
  Blocks <- {b1}, PageOf <- MCPageOf1, Extent <- MCExtent1, SMCSoftInvalidate <- FALSE

Signals == {alrm, usr}

(* The handler of alrm blocks every signal.                                *)
SaMask == [s \in Signals |-> IF s = alrm THEN Signals ELSE {}]

Queue == INSTANCE DeferredSignals WITH
  Syscalls <- {"futex"}, MaxSends <- 5, MaxSections <- 2

Masks == INSTANCE DeferredSignals WITH
  Syscalls <- Queue!SyscallNames, MaxSends <- 2, MaxSections <- 2

ASSUME SignalModesAssumption == Queue!SignalAssumption /\ Masks!SignalAssumption

signalVars ==
  <<at, DeferredSignalRefCount, hostmask, sigpending, FaultPageArmed, DeferredSignalFrames,
    CurrentSignalMask, PendingSignals, ignored, backups, PreviousSuspendMask, suspends, altered, owed,
    sent>>
smcVars == allVars
modesVars == <<machine, smcVars, signalVars>>

SMCMachines == {"self", "poke", "hard"}

NoLazy == SMCLazyDirtyPages = {} /\ LazySMCDrainPending = {} /\ InterruptFaultPage = {}
          /\ batch = <<>> /\ after = <<>> /\ victim = <<>>

MCInit ==
  /\ Queue!Init
  /\ \/ machine = "self" /\ LazyInit
     \/ machine = "poke" /\ Poke!LazyInit
     \/ machine = "hard" /\ Hard!Init /\ NoLazy
     \/ machine \in {"queue", "masks"} /\ LazyInit /\ mem = [w \in Words |-> 0]

(* With masks the guest may block every signal and stop; without, it never *)
(* is stuck.                                                               *)
MCNext ==
  /\ \/ machine = "self" /\ LazyNext /\ UNCHANGED signalVars
     \/ machine = "poke" /\ Poke!LazyNext /\ UNCHANGED signalVars
     \/ machine = "hard" /\ Hard!Next /\ UNCHANGED <<lazyVars, signalVars>>
     \/ machine = "queue" /\ Queue!Next /\ UNCHANGED smcVars
     \/ machine = "masks" /\ Masks!Next /\ UNCHANGED smcVars
     \/ machine = "masks" /\ UNCHANGED <<smcVars, signalVars>>
  /\ UNCHANGED machine

InHard(A) == machine = "hard" /\ A /\ UNCHANGED <<machine, lazyVars, signalVars>>
InQueue(A) == machine = "queue" /\ A

(* The host steps of SMCTracking under hard invalidation, and Fairness of  *)
(* DeferredSignals for the queue.                                          *)
MCFairness ==
  /\ \A t \in {m1, m2, x1} : WF_modesVars(InHard(Hard!HostStep(t)))
  /\ WF_signalVars(InQueue(Queue!StoreFaultPage))
  /\ WF_signalVars(InQueue(Queue!DrainFrame))
  /\ WF_signalVars(InQueue(Queue!ReturnHost))
  /\ WF_signalVars(InQueue(Queue!FutexSleep \/ Queue!FutexInterrupted \/ Queue!FutexWake))
  /\ WF_signalVars(InQueue(at = "futex_intr" /\ Queue!ObservedFutexSyscall))
  /\ SF_signalVars(InQueue(Queue!BlockEntry)) /\ SF_signalVars(InQueue(Queue!SigReturn))
  /\ \A n \in {1, 2} : SF_signalVars(InQueue(Queue!LeaveSection /\ DeferredSignalRefCount = n))
  /\ \A s \in Signals : WF_signalVars(InQueue(Queue!AsyncSignal(s)))

MCSpec == MCInit /\ [][MCNext]_modesVars /\ MCFairness

(* SelfCoherent of SMCTracking: the scrub and the drain before the slow    *)
(* lookup keep a thread's own stores coherent with the code it dispatches. *)
ModesSelfCoherent == machine = "self" => SelfCoherent

HardAt(place) == machine = "hard" /\ pc[x1] = place

(* FaultServed of SMCTracking: a store that faulted gets its page          *)
(* unprotected while two threads keep compiling.                           *)
ModesFaultServed == HardAt("fault") ~> HardAt("retry")

(* Drains of DeferredSignals: deferral is temporary.                       *)
ModesDrains == machine = "queue" => Queue!Drains

(* No live translation of a page is out of reach of detection.  One thread *)
(* with lazy invalidation: no page is writable, unrecorded and carrying    *)
(* live code (NoOrphanedCode).  With the cross-poke: every thread that     *)
(* could run a dirty block traps at its next block entry (EveryoneOwes).   *)
(* Hard invalidation, two threads compiling the same block: live code is   *)
(* guarded and caches follow the shared map.                               *)
ModesCodeCovered ==
  /\ machine = "self" => NoOrphanedCode
  /\ machine = "poke" => Poke!EveryoneOwes
  /\ machine = "hard" => Hard!LiveCodeGuarded /\ Hard!CachesFollow
=============================================================================
