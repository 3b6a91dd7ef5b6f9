----------------------- MODULE DeferredSignalsState -----------------------
(***************************************************************************)
(* The state of the delivery of asynchronous signals to one guest thread,  *)
(* and what must hold of it.  The steps are in DeferredSignals.            *)
(***************************************************************************)
EXTENDS Naturals

VARIABLES
  at,                      \* where the thread's host PC is
  DeferredSignalRefCount,
  hostmask,                \* the kernel's blocked set, uc_sigmask in a handler
  sigpending,              \* signals the kernel has not delivered yet
  FaultPageArmed,          \* InterruptFaultPage is PROT_NONE
  DeferredSignalFrames,
  CurrentSignalMask,       \* the guest's signal mask
  PendingSignals,          \* signals parked because the guest masks them
  ignored,                 \* signals whose guest action is SIG_IGN
  backups,                 \* ContextBackups of the guest handlers, oldest first
  PreviousSuspendMask,
  suspends,                \* history: masks at the entry of unfinished sigsuspends
  altered,                 \* history: the guest has changed its mask or an action, or
                           \* waited with another mask
  owed,                    \* history: signals sent and not handled since
  sent                     \* number of signals sent, up to MaxSends

(* The places where the thread stores to its InterruptFaultPage;           *)
(* DeferredSignals names the others.                                       *)
Stores == {"entry", "exit", "suspend_drain"}

(* The signals of the queued frames.                                       *)
Queued == {DeferredSignalFrames[i].Signal : i \in DOMAIN DeferredSignalFrames}

----------------------------------------------------------------------------
(* A guest handler starts only where the interrupted context is coherent:  *)
(* at a store to the fault page or in host code that defers nothing.  No   *)
(* section is open below it, however signals, nested sections and handlers *)
(* interleave (the deferral test of HandleGuestSignal).                    *)
Uninterruptible ==
  \A i \in DOMAIN backups :
    /\ backups[i].at \in Stores \union {"host"}
    /\ backups[i].RefCount = 0

(* A signal that was sent and whose handler has not been entered since is  *)
(* still pending in the kernel, queued as a frame, or parked until the     *)
(* guest unmasks it: none is dropped by the drain or by the mask updates.  *)
NothingLost == owed \subseteq sigpending \union Queued \union PendingSignals

(* The page stays armed for queued frames, unless a handler is running,    *)
(* whose sigreturn arms it again: "Once FEX gets back to the page store,   *)
(* it will trampoline back to the SIGSEGV handler if it has more signals   *)
(* to handle."                                                             *)
DeferredSettles == DeferredSignalFrames # <<>> => FaultPageArmed \/ backups # <<>>

(* No signal is dropped, and until the guest first changes its mask or an  *)
(* action none is left in the queue with the page open either.             *)
NothingStranded == NothingLost /\ (~altered => DeferredSettles)
============================================================================
