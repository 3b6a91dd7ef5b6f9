-------------------------- MODULE DeferredSignals --------------------------
(***************************************************************************)
(* Delivery of asynchronous guest signals to one guest thread.             *)
(*                                                                         *)
(* The thread alternates between JIT code and host code.  Host code that   *)
(* must not be interrupted (a syscall body, the block compiler, anything   *)
(* under a lock) runs in a deferring section: DeferredSignalRefCount is    *)
(* positive.  A signal that arrives in a section, or while the host PC is  *)
(* in JIT code, is queued in DeferredSignalFrames and the thread's         *)
(* InterruptFaultPage is made inaccessible.  The thread stores to that     *)
(* page at every block entry and at the end of every section; the store    *)
(* then faults and the SIGSEGV handler drains one frame: it delivers the   *)
(* signal, or parks it in PendingSignals when the guest masks it.  The     *)
(* guest handler's sigreturn re-arms the page when frames are left.        *)
(*                                                                         *)
(* A host signal handler is one step: the model does not interrupt FEX's   *)
(* own handlers.  Synchronous faults and default dispositions that end the *)
(* process are left out, and so are handlers left by longjmp.  The         *)
(* variables and the invariants are in DeferredSignalsState.               *)
(***************************************************************************)
EXTENDS SequencesExt, DeferredSignalsState

CONSTANTS
  Signals,
  SaMask,        \* sa_mask of each signal's guest action
  Syscalls,      \* the syscalls the guest makes, a subset of SyscallNames
  MaxSends,      \* bound on the signals sent to the thread
  MaxSections    \* bound on nested deferring sections

SyscallNames == {"procmask", "sigaction", "sigsuspend", "futex"}

(* What the constants must satisfy.                                       *)
SignalAssumption ==
  /\ SaMask \in [Signals -> SUBSET Signals]
  /\ Syscalls \subseteq SyscallNames
  /\ MaxSends \in Nat /\ MaxSections \in Nat \ {0}

threadVars == <<at, DeferredSignalRefCount>>
queueVars == <<DeferredSignalFrames, FaultPageArmed, PendingSignals>>
maskVars == <<hostmask, CurrentSignalMask>>
suspendVars == <<PreviousSuspendMask, suspends>>
vars == <<threadVars, queueVars, maskVars, suspendVars, sigpending, ignored, altered, backups,
          owed, sent>>

(* "jit": JIT code or the dispatcher; "entry": the store to the fault page *)
(* at a block entry; "host": host code that defers nothing (a thunk's      *)
(* library); "body", "tail": inside a section, before and after its        *)
(* syscall; "exit": the store at a section's end; the rest are points of   *)
(* the futex and sigsuspend bodies.                                        *)
Sleeps == {"futex_wait", "suspended"}
Places ==
  {"jit", "host", "body", "tail", "futex_trap", "futex_intr", "suspend_woken", "suspend_done"}
    \union Sleeps \union Stores
InJIT == at \in {"jit", "entry"}

(* The kernel's blocked set: sigsuspend replaces it until a signal comes.  *)
Blocked == IF at = "suspended" THEN CurrentSignalMask ELSE hostmask

(* The kernel delivers a signal that is not blocked before the thread      *)
(* takes another step, the ones the thread sends itself included.          *)
Running == sigpending \subseteq Blocked

Frames == [Signal : Signals, SigMask : SUBSET Signals]
Backups ==
  [Signal : Signals, at : Places, RefCount : 0..MaxSections,
   sa_mask : SUBSET Signals, GuestSignalMask : SUBSET Signals]

(* The type of every variable.                                             *)
TypeOK ==
  /\ at \in Places
  /\ DeferredSignalRefCount \in 0..MaxSections
  /\ hostmask \subseteq Signals /\ sigpending \subseteq Signals
  /\ FaultPageArmed \in BOOLEAN
  /\ DeferredSignalFrames \in Seq(Frames)
  /\ CurrentSignalMask \subseteq Signals /\ PendingSignals \subseteq Signals
  /\ ignored \subseteq Signals /\ altered \in BOOLEAN
  /\ backups \in Seq(Backups)
  /\ PreviousSuspendMask \subseteq Signals
  /\ suspends \in Seq(SUBSET Signals)
  /\ owed \subseteq Signals /\ sent \in Nat

Init ==
  /\ at = "jit" /\ DeferredSignalRefCount = 0
  /\ hostmask = {} /\ sigpending = {} /\ FaultPageArmed = FALSE
  /\ DeferredSignalFrames = <<>>
  /\ CurrentSignalMask = {} /\ PendingSignals = {} /\ ignored = {} /\ altered = FALSE
  /\ backups = <<>>
  /\ PreviousSuspendMask = {} /\ suspends = <<>>
  /\ owed = {} /\ sent = 0

----------------------------------------------------------------------------
(* HandleGuestSignal *)

(* The mask the host keeps while s is deferred or handled.                 *)
GetNewSigMask(s) == SaMask[s] \union {s}

(* The frame is queued with the mask it interrupted.                       *)
Defer(s) ==
  /\ DeferredSignalFrames' = Append(DeferredSignalFrames, [Signal |-> s, SigMask |-> hostmask])
  /\ hostmask' = GetNewSigMask(s)
  /\ FaultPageArmed' = TRUE

(* A backup of the interrupted context is pushed and the guest handler is  *)
(* entered: in JIT code, outside any section.                              *)
HandleDispatcherGuestSignal(s, uc_sigmask) ==
  /\ backups' = Append(backups, [Signal |-> s, at |-> at, RefCount |-> DeferredSignalRefCount,
                                 sa_mask |-> uc_sigmask, GuestSignalMask |-> CurrentSignalMask])
  /\ CurrentSignalMask' = CurrentSignalMask \union GetNewSigMask(s)
  /\ hostmask' = GetNewSigMask(s) \union CurrentSignalMask
  /\ at' = "jit"
  /\ owed' = owed \ {s}

(* Mutant: a masked signal is dropped instead of parked.                   *)
NotParked(s) == PendingSignals

Parked(s) == PendingSignals \union {s}

(* What becomes of a signal that is not deferred, when the interrupted     *)
(* context's mask is uc_sigmask.                                           *)
Deliver(s, uc_sigmask) ==
  \/ /\ s \in CurrentSignalMask
     /\ PendingSignals' = Parked(s)
     /\ hostmask' = uc_sigmask
     /\ UNCHANGED <<at, CurrentSignalMask, backups, owed>>
  \/ /\ s \notin CurrentSignalMask
     /\ PendingSignals' = PendingSignals \ {s}
     /\ \/ /\ s \in ignored
           /\ hostmask' = uc_sigmask
           /\ owed' = owed \ {s}
           /\ UNCHANGED <<at, CurrentSignalMask, backups>>
        \/ /\ s \notin ignored
           /\ HandleDispatcherGuestSignal(s, uc_sigmask)

(* Mutants: only one of the two reasons to defer is tested.                *)
DeferInJITOnly == InJIT
DeferInSectionOnly == DeferredSignalRefCount # 0

(* The kernel delivers a signal.  A sleeping syscall is interrupted: the   *)
(* host action never has SA_RESTART.                                       *)
MustDeferAsync == DeferredSignalRefCount # 0 \/ InJIT

AsyncSignal(s) ==
  /\ s \in sigpending \ Blocked
  /\ sigpending' = sigpending \ {s}
  /\ \/ /\ MustDeferAsync
        /\ Defer(s)
        /\ at' = CASE at = "futex_wait" -> "futex_intr" [] at = "suspended" -> "suspend_woken" [] OTHER -> at
        /\ UNCHANGED <<CurrentSignalMask, PendingSignals, backups, owed>>
     \/ /\ ~MustDeferAsync
        /\ Deliver(s, hostmask)
        /\ UNCHANGED <<DeferredSignalFrames, FaultPageArmed>>
  /\ UNCHANGED <<DeferredSignalRefCount, suspendVars, ignored, altered, sent>>

(* The store to InterruptFaultPage.  Where it goes on when it succeeds, or *)
(* is skipped because it faulted in a nested section:                      *)
AfterStore ==
  CASE at = "entry" -> "jit"
    [] at = "exit" -> IF DeferredSignalRefCount = 0 THEN "jit" ELSE "tail"
    [] at = "suspend_drain" -> "suspend_done"

StoreFaultPage ==
  /\ Running /\ at \in Stores
  /\ ~FaultPageArmed \/ DeferredSignalRefCount # 0
  /\ at' = AfterStore
  /\ DeferredSignalRefCount' = IF at = "suspend_drain" THEN DeferredSignalRefCount + 1
                                                       ELSE DeferredSignalRefCount
  /\ UNCHANGED <<queueVars, maskVars, suspendVars, sigpending, ignored, altered, backups, owed, sent>>

(* Mutant: the drain clears the queue instead of popping one frame.        *)
FramesCleared == <<>>

FramesLeft == Front(DeferredSignalFrames)

(* The store faults: drain the newest frame, if any, with the mask it was  *)
(* queued with.  When no handler is entered the store is executed again.   *)
DrainFrame ==
  /\ Running /\ at \in Stores
  /\ FaultPageArmed /\ DeferredSignalRefCount = 0
  /\ FaultPageArmed' = FALSE
  /\ \/ /\ DeferredSignalFrames = <<>>
        /\ UNCHANGED <<at, DeferredSignalFrames, PendingSignals, maskVars, backups, owed>>
     \/ /\ DeferredSignalFrames # <<>>
        /\ DeferredSignalFrames' = FramesLeft
        /\ Deliver(Last(DeferredSignalFrames).Signal, Last(DeferredSignalFrames).SigMask)
  /\ UNCHANGED <<DeferredSignalRefCount, suspendVars, sigpending, ignored, altered, sent>>

----------------------------------------------------------------------------
(* JIT and host code *)

Goto(from, to) ==
  /\ Running
  /\ at = from /\ at' = to
  /\ UNCHANGED <<queueVars, suspendVars, ignored, backups, owed, sent>>

Move(from, to) ==
  /\ Goto(from, to)
  /\ UNCHANGED <<DeferredSignalRefCount, maskVars, altered, sigpending>>

BlockEntry == Move("jit", "entry")

(* A thunk calls a host library and returns.                               *)
CallHost == Move("jit", "host")
ReturnHost == Move("host", "jit")

(* DeferredSignalRefCountGuard.                                            *)
EnterSection ==
  /\ DeferredSignalRefCount < MaxSections
  /\ \/ Goto("jit", "body")
     \/ Goto("body", "body")
  /\ DeferredSignalRefCount' = DeferredSignalRefCount + 1
  /\ UNCHANGED <<maskVars, altered, sigpending>>

(* Mutant: the guard's destructor decrements twice.                        *)
DecrementTwice == DeferredSignalRefCount - 2

Decrement == DeferredSignalRefCount - 1

LeaveSection ==
  /\ Goto("body", "exit") \/ Goto("tail", "exit")
  /\ DeferredSignalRefCount' = Decrement
  /\ UNCHANGED <<maskVars, altered, sigpending>>

(* The thread sends itself the parked signals that mask lets through.      *)
CheckForPendingSignals(mask) == sigpending' = sigpending \union (PendingSignals \ (mask \union ignored))

(* Mutant: sigreturn does not arm the page for the frames that are left.   *)
NotRearmed == FaultPageArmed

Rearmed == FaultPageArmed \/ DeferredSignalFrames # <<>>

(* rt_sigreturn of the newest handler.                                     *)
SigReturn ==
  /\ Running /\ at = "jit" /\ backups # <<>>
  /\ LET Context == Last(backups)
     IN  /\ at' = Context.at
         /\ DeferredSignalRefCount' = Context.RefCount
         /\ hostmask' = Context.sa_mask
         /\ CurrentSignalMask' = Context.GuestSignalMask
         /\ CheckForPendingSignals(Context.GuestSignalMask)
  /\ backups' = Front(backups)
  /\ FaultPageArmed' = Rearmed
  /\ UNCHANGED <<DeferredSignalFrames, PendingSignals, suspendVars, ignored, altered, owed, sent>>

----------------------------------------------------------------------------
(* Syscall bodies *)

GuestSigProcMask(mask) ==
  /\ "procmask" \in Syscalls
  /\ Goto("body", "tail")
  /\ CurrentSignalMask' = mask
  /\ hostmask' = mask /\ altered' = TRUE
  /\ CheckForPendingSignals(mask)
  /\ UNCHANGED DeferredSignalRefCount

(* Ignoring a signal makes the kernel discard it when it is pending.       *)
RegisterGuestSignalHandler(s) ==
  /\ "sigaction" \in Syscalls
  /\ Running /\ at = "body" /\ at' = "tail" /\ altered' = TRUE
  /\ \/ /\ s \notin ignored
        /\ ignored' = ignored \union {s}
        /\ sigpending' = sigpending \ {s}
        /\ owed' = IF s \in sigpending THEN owed \ {s} ELSE owed
     \/ /\ s \in ignored
        /\ ignored' = ignored \ {s}
        /\ UNCHANGED <<sigpending, owed>>
  /\ UNCHANGED <<DeferredSignalRefCount, queueVars, maskVars, suspendVars, backups, sent>>

(* An untimed futex wait, which refuses to sleep on a signal that can be   *)
(* delivered, sleeps again when it was interrupted for nothing, and wakes  *)
(* after its rescue interval.                                              *)
ThreadHasDeliverableGuestSignal ==
  \E s \in Queued \union PendingSignals : s \notin CurrentSignalMask \union ignored

ObservedFutexSyscall ==
  /\ "futex" \in Syscalls
  /\ ~ThreadHasDeliverableGuestSignal
  /\ Move("body", "futex_trap") \/ Move("futex_intr", "futex_trap")

FutexSleep == Move("futex_trap", "futex_wait")
FutexInterrupted == ThreadHasDeliverableGuestSignal /\ Move("futex_intr", "tail")
FutexWake == Move("futex_wait", "tail")

GuestSigSuspend(mask) ==
  /\ "sigsuspend" \in Syscalls
  /\ Running /\ at = "body" /\ at' = "suspended" /\ altered' = TRUE
  /\ PreviousSuspendMask' = CurrentSignalMask
  /\ CurrentSignalMask' = mask
  /\ suspends' = Append(suspends, CurrentSignalMask)
  /\ UNCHANGED <<DeferredSignalRefCount, queueVars, hostmask, sigpending, ignored, backups, owed, sent>>

(* It drains the queue itself, with the suspend mask, in an outermost      *)
(* section.                                                                *)
SuspendDrain ==
  /\ IF DeferredSignalFrames # <<>> /\ DeferredSignalRefCount = 1
     THEN /\ Goto("suspend_woken", "suspend_drain")
          /\ DeferredSignalRefCount' = Decrement
     ELSE /\ Goto("suspend_woken", "suspend_done")
          /\ UNCHANGED DeferredSignalRefCount
  /\ UNCHANGED <<maskVars, altered, sigpending>>

SuspendReturn ==
  /\ Running /\ at = "suspend_done" /\ at' = "tail"
  /\ CurrentSignalMask' = PreviousSuspendMask
  /\ suspends' = Front(suspends)
  /\ CheckForPendingSignals(PreviousSuspendMask)
  /\ UNCHANGED <<DeferredSignalRefCount, queueVars, hostmask, PreviousSuspendMask, ignored, altered,
                 backups, owed, sent>>

----------------------------------------------------------------------------
(* Another thread or process sends a signal; a pending one is not queued   *)
(* twice and an ignored one is dropped.                                    *)
SendSignal(s) ==
  /\ sent < MaxSends /\ sent' = sent + 1
  /\ s \notin sigpending \union ignored
  /\ sigpending' = sigpending \union {s}
  /\ owed' = owed \union {s}
  /\ UNCHANGED <<threadVars, queueVars, maskVars, suspendVars, ignored, altered, backups>>

Next ==
  \/ StoreFaultPage \/ DrainFrame
  \/ BlockEntry \/ CallHost \/ ReturnHost \/ EnterSection \/ LeaveSection \/ SigReturn
  \/ \E mask \in SUBSET Signals : GuestSigProcMask(mask) \/ GuestSigSuspend(mask)
  \/ \E s \in Signals : RegisterGuestSignalHandler(s)
  \/ ObservedFutexSyscall \/ FutexSleep \/ FutexInterrupted \/ FutexWake
  \/ SuspendDrain \/ SuspendReturn
  \/ \E s \in Signals : AsyncSignal(s) \/ SendSignal(s)

Spec == Init /\ [][Next]_vars

(* The scheduler runs the thread, every path of JIT code comes to a block  *)
(* entry, a section ends, and the kernel delivers what is not blocked.     *)
(* The guest's own part is that a signal handler returns.                  *)
Fairness ==
  /\ WF_vars(StoreFaultPage) /\ WF_vars(DrainFrame) /\ WF_vars(ReturnHost)
  /\ WF_vars(FutexSleep \/ FutexInterrupted \/ FutexWake)
  /\ WF_vars(at = "futex_intr" /\ ObservedFutexSyscall)
  /\ SF_vars(BlockEntry) /\ SF_vars(SigReturn)
  /\ \A n \in 1..MaxSections : SF_vars(LeaveSection /\ DeferredSignalRefCount = n)
  /\ \A s \in Signals : WF_vars(AsyncSignal(s))

FairSpec == Spec /\ Fairness

----------------------------------------------------------------------------
(* Deferral is temporary: the queue empties again and again, whatever      *)
(* nests, sleeps in a futex or is sent meanwhile.                          *)
Drains == []<>(DeferredSignalFrames = <<>>)

----------------------------------------------------------------------------
(* Promises of the code's comments that this model refutes; the README     *)
(* gives the instances and the traces.                                     *)

(* Once nothing is queued the host blocks nothing that the guest does not, *)
(* so that a signal the guest accepts reaches FEX.                         *)
HostMaskFollows ==
  at = "jit" /\ DeferredSignalFrames = <<>> => hostmask \subseteq CurrentSignalMask

(* sigsuspend returns with the mask it was called with.                    *)
SuspendRestoresMask ==
  [][at = "suspend_done" /\ at' = "tail" => CurrentSignalMask' = Last(suspends)]_vars

(* The queue keeps within the capacity reserved for it, so that it never   *)
(* reallocates in a signal handler.                                        *)
FrameCapacity == 8
QueueFits == Len(DeferredSignalFrames) <= FrameCapacity
============================================================================
