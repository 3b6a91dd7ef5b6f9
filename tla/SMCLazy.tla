------------------------------ MODULE SMCLazy ------------------------------
(***************************************************************************)
(* Lazy invalidation (FEX_SMCLAZYINVAL) on top of the tracking of           *)
(* SMCTracking.  A store fault records the page as dirty and unprotects it  *)
(* without invalidating anything; the page's blocks stay live until a      *)
(* drain point soft-invalidates the recorded pages: a system call, the     *)
(* delivery of a guest signal, CompileBlock, and the slow lookup of a      *)
(* thread that owes a drain.  The faulting thread owes one because its L1   *)
(* is scrubbed (FEX_SMCLAZYSCRUB); the others owe one when the option       *)
(* SMCLazyCrossPoke arms their interrupt fault pages.                      *)
(*                                                                         *)
(* Blocks are not linked to each other here: the backend turns linking off  *)
(* when FEX_SMCLAZYINVAL is on without FEX_SMCLAZYLINK.                     *)
(***************************************************************************)
EXTENDS SMCTracking

CONSTANT SMCLazyCrossPoke

(* The lazy mode implies soft invalidation.                                *)
LazyAssumption == SMCLazyCrossPoke \in BOOLEAN /\ SMCSoftInvalidate

VARIABLES
  SMCLazyDirtyPages,    \* pages whose invalidation is deferred
  LazySMCDrainPending,  \* threads that drain before their next slow lookup
  InterruptFaultPage,   \* threads whose fault page is protected: block entry traps
  batch,                \* the pages a drain took and has yet to invalidate
  after,                \* where a thread goes on when its drain is done
  victim                \* the thread whose fault page is about to be protected

lazyVars == <<SMCLazyDirtyPages, LazySMCDrainPending, InterruptFaultPage, batch, after, victim>>
allVars == <<vars, lazyVars>>

DrainPC == {"settle", "count", "swap", "next", "drain_lock", "drain_erase", "drain_walk", "drain_done"}
DeferPC == {"open", "poke", "poke_page", "scrub"}

LazyTypeOK ==
  /\ StateOK
  /\ pc \in [Threads -> CompilePC \union InvalidatePC \union OutsidePC \union DrainPC \union DeferPC]
  /\ SMCLazyDirtyPages \subseteq Pages
  /\ LazySMCDrainPending \subseteq Threads /\ InterruptFaultPage \subseteq Threads
  /\ batch \in [Threads -> SUBSET Pages]
  /\ after \in [Threads -> {"guest", "lookup", "enter", "scrub", "hard_lock"}]
  /\ victim \in [Threads -> Threads \union {None}]

LazyInit ==
  /\ Init
  /\ SMCLazyDirtyPages = {} /\ LazySMCDrainPending = {} /\ InterruptFaultPage = {}
  /\ batch = [t \in Threads |-> {}]
  /\ after = [t \in Threads |-> "guest"]
  /\ victim = [t \in Threads |-> None]

-----------------------------------------------------------------------------
(* Draining.                                                               *)

(* TakeLazySMCDrainPending, in ExitFunctionLink and on the fault page.     *)
TakeLazySMCDrainPending(t) ==
  /\ pc[t] = "settle"
  /\ LazySMCDrainPending' = LazySMCDrainPending \ {t}
  /\ Goto(t, IF t \in LazySMCDrainPending THEN "count" ELSE after[t])
  /\ UNCHANGED <<mode, guestVars, cacheVars, localVars>>
  /\ UNCHANGED <<SMCLazyDirtyPages, InterruptFaultPage, batch, after, victim>>

(* The load of SMCLazyDirtyCount that decides whether to drain at all.     *)
DirtyCount(t) ==
  /\ pc[t] = "count"
  /\ Goto(t, IF SMCLazyDirtyPages = {} THEN after[t] ELSE "swap")
  /\ UNCHANGED <<mode, guestVars, cacheVars, localVars, lazyVars>>

(* DrainSMCLazyDirtyPages takes the whole set.                             *)
DrainSMCLazyDirtyPages(t) ==
  /\ pc[t] = "swap"
  /\ batch' = Set(batch, t, SMCLazyDirtyPages)
  /\ SMCLazyDirtyPages' = {}
  /\ Goto(t, "next")
  /\ UNCHANGED <<mode, guestVars, cacheVars, localVars>>
  /\ UNCHANGED <<LazySMCDrainPending, InterruptFaultPage, after, victim>>

(* SoftInvalidateLazyPages, one page of the batch at a time.               *)
NextLazyPage(t) ==
  /\ pc[t] = "next"
  /\ \/ \E p \in batch[t] :
          /\ page' = Set(page, t, p)
          /\ batch' = Set(batch, t, batch[t] \ {p})
          /\ Goto(t, "drain_lock")
     \/ /\ batch[t] = {}
        /\ page' = Set(page, t, IF after[t] = "hard_lock" THEN page[t] ELSE None)
        /\ Goto(t, after[t])
        /\ UNCHANGED batch
  /\ UNCHANGED <<mode, guestVars, cacheVars, blk, entry, todo, store>>
  /\ UNCHANGED <<SMCLazyDirtyPages, LazySMCDrainPending, InterruptFaultPage, after, victim>>

DrainDone(t) ==
  /\ pc[t] = "drain_done"
  /\ ReleaseLock(t)
  /\ Goto(t, "next")
  /\ UNCHANGED <<guestVars, cacheVars, localVars, lazyVars>>

(* SoftInvalidateGuestCodeRange with an empty after_callback: the page is   *)
(* not touched, and the next compile or relink on it arms it.              *)
SoftInvalidateGuestCodeRange(t) ==
  \/ /\ \/ TakeCodeInvalidationWriteLock(t, "drain_lock", "drain_erase")
        \/ InvalidateCodeBuffers(t, "drain_erase", TRUE, "drain_walk")
        \/ InvalidateThreadCache(t, "drain_walk", "drain_done")
     /\ UNCHANGED lazyVars
  \/ DrainDone(t)

Drain(t) ==
  \/ TakeLazySMCDrainPending(t) \/ DirtyCount(t)
  \/ DrainSMCLazyDirtyPages(t) \/ NextLazyPage(t)
  \/ SoftInvalidateGuestCodeRange(t)

-----------------------------------------------------------------------------
(* Where drains start.                                                     *)

(* Syscall entry and guest signal delivery.                                *)
Syscall(t) ==
  /\ pc[t] = "guest"
  /\ SMCLazyDirtyPages # {}
  /\ Goto(t, "swap")
  /\ after' = Set(after, t, "guest")
  /\ UNCHANGED <<mode, guestVars, cacheVars, localVars>>
  /\ UNCHANGED <<SMCLazyDirtyPages, LazySMCDrainPending, InterruptFaultPage, batch, victim>>

(* ExitFunctionLink settles the thread's debt before it looks at L2 or L3. *)
ExitFunctionLink(t, b) ==
  /\ Dispatch(t, b, "settle")
  /\ after' = Set(after, t, "lookup")
  /\ UNCHANGED <<SMCLazyDirtyPages, LazySMCDrainPending, InterruptFaultPage, batch, victim>>

(* CompileBlock clears the flag and drains whatever the flag was.          *)
CompileBlock(t) ==
  /\ Lookup(t, "count")
  /\ after' = Set(after, t, "enter")
  /\ LazySMCDrainPending' =
       IF Found(t, blk[t]) = None THEN LazySMCDrainPending \ {t} ELSE LazySMCDrainPending
  /\ UNCHANGED <<SMCLazyDirtyPages, InterruptFaultPage, batch, victim>>

(* The first instruction of a block faults on a protected fault page: the   *)
(* handler unprotects it and settles the drain.                            *)
BlockEntry(t) ==
  /\ pc[t] = "guest" /\ t \in InterruptFaultPage
  /\ InterruptFaultPage' = InterruptFaultPage \ {t}
  /\ Goto(t, "settle")
  /\ after' = Set(after, t, "guest")
  /\ UNCHANGED <<mode, guestVars, cacheVars, localVars>>
  /\ UNCHANGED <<SMCLazyDirtyPages, LazySMCDrainPending, batch, victim>>

(* GuestMprotect: with PROT_EXEC it drains the dirty pages of its range,    *)
(* otherwise it forgets them; the invalidation of every mprotect follows.  *)
GuestMprotectLazy(t, p) ==
  /\ pc[t] = "guest" /\ t \in Writers
  /\ armed' = armed \ {p}
  /\ page' = Set(page, t, p)
  /\ SMCLazyDirtyPages' = SMCLazyDirtyPages \ {p}
  /\ \/ p \in SMCLazyDirtyPages /\ batch' = Set(batch, t, {p}) /\ Goto(t, "next")
     \/ UNCHANGED batch /\ Goto(t, "hard_lock")
  /\ after' = Set(after, t, "hard_lock")
  /\ UNCHANGED <<mode, mem, cacheVars, blk, entry, todo, store>>
  /\ UNCHANGED <<LazySMCDrainPending, InterruptFaultPage, victim>>

-----------------------------------------------------------------------------
(* The lazy branch of HandleSegfault.                                      *)

(* Mutant: the epoch is tested after the page was inserted.                *)
EpochTestedLate(t) ==
  /\ pc[t] = "fault"
  /\ SMCLazyDirtyPages' = SMCLazyDirtyPages \union {page[t]}
  /\ todo' = Set(todo, t, IF SMCLazyCrossPoke /\ SMCLazyDirtyPages' = {} THEN Threads \ {t} ELSE {})
  /\ Goto(t, "open")
  /\ UNCHANGED <<mode, guestVars, cacheVars, blk, entry, page, store>>
  /\ UNCHANGED <<LazySMCDrainPending, InterruptFaultPage, batch, after, victim>>

(* MarkSMCLazyDirtyPage comes before the unprotection.  todo is empty      *)
(* unless this page starts an epoch and the other threads are to be poked. *)
MarkSMCLazyDirtyPage(t) ==
  /\ pc[t] = "fault"
  /\ SMCLazyDirtyPages' = SMCLazyDirtyPages \union {page[t]}
  /\ todo' = Set(todo, t, IF SMCLazyCrossPoke /\ SMCLazyDirtyPages = {} THEN Threads \ {t} ELSE {})
  /\ Goto(t, "open")
  /\ UNCHANGED <<mode, guestVars, cacheVars, blk, entry, page, store>>
  /\ UNCHANGED <<LazySMCDrainPending, InterruptFaultPage, batch, after, victim>>

(* The page becomes writable.  If the other threads are to be poked and     *)
(* ThreadCreationMutex is contended, the handler drains at once instead.   *)
UnprotectRegion(t) ==
  /\ pc[t] = "open"
  /\ armed' = armed \ {page[t]}
  /\ after' = Set(after, t, "scrub")
  /\ \/ Goto(t, "poke")
     \/ todo[t] # {} /\ Goto(t, "count")
  /\ UNCHANGED <<mode, mem, cacheVars, localVars>>
  /\ UNCHANGED <<SMCLazyDirtyPages, LazySMCDrainPending, InterruptFaultPage, batch, victim>>

(* TryForEachThread: the flag of each other thread, then its fault page.   *)
ArmLazySMCDrainPending(t) ==
  /\ pc[t] = "poke"
  /\ \/ \E u \in todo[t] :
          /\ LazySMCDrainPending' = LazySMCDrainPending \union {u}
          /\ victim' = Set(victim, t, u)
          /\ Goto(t, "poke_page")
     \/ todo[t] = {} /\ Goto(t, "scrub") /\ UNCHANGED <<LazySMCDrainPending, victim>>
  /\ UNCHANGED <<mode, guestVars, cacheVars, localVars>>
  /\ UNCHANGED <<SMCLazyDirtyPages, InterruptFaultPage, batch, after>>

ProtectInterruptFaultPage(t) ==
  /\ pc[t] = "poke_page"
  /\ InterruptFaultPage' = InterruptFaultPage \union {victim[t]}
  /\ todo' = Set(todo, t, todo[t] \ {victim[t]})
  /\ victim' = Set(victim, t, None)
  /\ Goto(t, "poke")
  /\ UNCHANGED <<mode, guestVars, cacheVars, blk, entry, page, store>>
  /\ UNCHANGED <<SMCLazyDirtyPages, LazySMCDrainPending, batch, after>>

(* Mutant: L1 is emptied but no drain is owed.                             *)
ScrubWithoutDebt(t) ==
  /\ pc[t] = "scrub"
  /\ L1' = [L1 EXCEPT ![t] = [b \in Blocks |-> None]]
  /\ todo' = Set(todo, t, {})
  /\ Goto(t, "retry")
  /\ UNCHANGED <<mode, guestVars, BlockList, CodePages, RetainedBlocks, L2, blk, entry, page, store>>
  /\ UNCHANGED <<SMCLazyDirtyPages, LazySMCDrainPending, InterruptFaultPage, batch, after, victim>>

(* ScrubForLazySMC: empty the thread's own L1 and make it owe a drain.     *)
ScrubForLazySMC(t) ==
  /\ pc[t] = "scrub"
  /\ L1' = [L1 EXCEPT ![t] = [b \in Blocks |-> None]]
  /\ LazySMCDrainPending' = LazySMCDrainPending \union {t}
  /\ todo' = Set(todo, t, {})
  /\ Goto(t, "retry")
  /\ UNCHANGED <<mode, guestVars, BlockList, CodePages, RetainedBlocks, L2, blk, entry, page, store>>
  /\ UNCHANGED <<SMCLazyDirtyPages, InterruptFaultPage, batch, after, victim>>

HandleSegfaultLazy(t) ==
  \/ MarkSMCLazyDirtyPage(t) \/ UnprotectRegion(t)
  \/ ArmLazySMCDrainPending(t) \/ ProtectInterruptFaultPage(t)
  \/ ScrubForLazySMC(t)

LazyNext ==
  \E t \in Threads :
    \/ /\ \/ \E b \in Blocks : EvictL1(t, b)
          \/ ClearL2Cache(t)
          \/ Compile(t)
          \/ \E w \in Words, v \in Bytes : Store(t, w, v)
          \/ Retry(t)
          \/ InvalidateGuestCodeRange(t)
       /\ UNCHANGED lazyVars
    \/ \E b \in Blocks : ExitFunctionLink(t, b)
    \/ CompileBlock(t)
    \/ Syscall(t) \/ BlockEntry(t) \/ Drain(t)
    \/ \E p \in Pages : GuestMprotectLazy(t, p)
    \/ HandleSegfaultLazy(t)

LazySpec == LazyInit /\ [][LazyNext]_allVars

-----------------------------------------------------------------------------
(* Properties.                                                             *)

(* A drain has taken p from the set and has yet to erase the code on it.   *)
Draining(p) ==
  {t \in Threads : p \in batch[t] \/ (pc[t] \in {"drain_lock", "drain_erase"} /\ page[t] = p)}

(* Record-before-unprotect: a page a live block was decoded from is never   *)
(* both writable and forgotten, "permanently writable with live             *)
(* translations on it and nothing left to ever invalidate them".           *)
NoOrphanedCode ==
  \A b \in Blocks : BlockList[b] # None =>
    \A p \in PagesOf(b) :
      \/ p \in armed \/ p \in SMCLazyDirtyPages
      \/ Arming(p) # {} \/ Reprotecting(p) # {} \/ Draining(p) # {}

(* Cross-poke: a thread whose L1 holds a translation of a dirty page owes a *)
(* drain, traps at its next block entry, or the poke is on its way.        *)
EveryoneOwes ==
  SMCLazyCrossPoke =>
    \A t \in Threads, b \in Blocks :
      pc[t] = "guest" /\ L1[t][b] # None /\ PagesOf(b) \intersect SMCLazyDirtyPages # {} =>
        \/ t \in InterruptFaultPage
        \/ \E u \in Threads \ {t} : pc[u] \in DeferPC \/ (pc[u] \in DrainPC /\ after[u] = "scrub")

----------------------------------------------------------------------------
(* A promise of a comment of the code that this model refutes; the README  *)
(* gives the instance and the trace.                                       *)

(* SAME-THREAD SOUNDNESS: when the slow lookup of a thread that owed a      *)
(* drain goes on to L2 and L3, no page is left dirty by an earlier fault    *)
(* of that thread and not yet invalidated.                                 *)
OwnDebtSettled ==
  \A t \in Mutators \intersect Writers :
    pc[t] = "lookup" /\ Found(t, blk[t]) # None => Found(t, blk[t]) = Contents(blk[t])
=============================================================================
