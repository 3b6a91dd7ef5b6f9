---------------------------- MODULE SMCTracking ----------------------------
(***************************************************************************)
(* Detection of self-modifying guest code by write protection ("mtrack").  *)
(*                                                                         *)
(* Mutator threads dispatch guest blocks: a block missing from the lookup  *)
(* caches is compiled (CompileBlock), or relinked when a soft invalidation *)
(* retained its translation (TryRelinkSoftInvalidatedBlock).  Either way   *)
(* the pages the block was decoded from are registered in CodePages, and   *)
(* a page that had no code before is write-protected.  Writer threads      *)
(* store into guest memory: a store to a protected page faults, and the    *)
(* fault handler invalidates the page's blocks, unprotects the page and    *)
(* retries the store.  A guest mprotect replaces the protection of a page  *)
(* and then invalidates it.                                                *)
(*                                                                         *)
(* Guest memory is a set of Words, each on a page; a block covers the      *)
(* words of its extent.  A translation is represented by the contents it   *)
(* was decoded from and a content hash by the contents it was taken over.  *)
(* The CodeInvalidationMutex is an RWLock, which is what WritePriorityMutex *)
(* is shown to implement.                                                  *)
(***************************************************************************)
EXTENDS RWLock

CONSTANTS
  Mutators,            \* threads that dispatch guest blocks
  Writers,             \* threads that store into guest memory or mprotect it
  Words, Pages, Blocks,
  Bytes,               \* values a word can hold
  PageOf,              \* the guest page of a word
  Extent,              \* the words a block is decoded from
  SMCSoftInvalidate,   \* the option: retain the blocks a store invalidates
  None

ASSUME LayoutAssumption ==
  /\ Mutators \subseteq Threads /\ Writers \subseteq Threads
  /\ PageOf \in [Words -> Pages]
  /\ Extent \in [Blocks -> SUBSET Words]
  /\ SMCSoftInvalidate \in BOOLEAN

VARIABLES
  mem,             \* guest memory: the byte each word holds
  armed,           \* pages mprotect(PROT_READ) by MarkGuestExecutableRange
  BlockList,       \* the shared (L3) map: a block's entry, or None
  CodePages,       \* for each page the blocks registered on it
  RetainedBlocks,  \* soft-invalidated entries, or None
  L1, L2,          \* each thread's caches: a block's translation, or None
  pc,
  blk,             \* the block the thread is dispatching
  entry,           \* the entry it is about to publish: translation and hash
  todo,            \* pages it has still to register; or threads it has to walk
  page,            \* the page it is arming or invalidating
  store            \* the store that faulted, to be retried

guestVars == <<mem, armed>>
cacheVars == <<BlockList, CodePages, RetainedBlocks, L1, L2>>
localVars == <<blk, entry, todo, page, store>>
vars == <<mode, guestVars, cacheVars, pc, localVars>>

PagesOf(b) == {PageOf[w] : w \in Extent[b]}
BlocksOn(p) == {b \in Blocks : p \in PagesOf(b)}
Contents(b) == [w \in Extent[b] |-> mem[w]]

Images == UNION {[Extent[b] -> Bytes] : b \in Blocks}
Entries == [code : Images, hash : Images]

ASSUME NoneAssumption == None \notin Images /\ None \notin Entries

(* Threads that hold the CodeInvalidationMutex shared, inside CompileBlock. *)
RelinkPC == {"reregister", "rearm", "verify", "republish"}
CompilePC == {"find", "take", "decode", "recheck", "register", "arm", "hash", "publish"} \union RelinkPC

(* Threads that hold it exclusively, inside an invalidation.               *)
InvalidatePC == {"erase", "walk", "unprotect", "hard_erase", "hard_walk", "hard_done"}

OutsidePC == {"guest", "lookup", "enter", "retry", "fault", "hard_lock"}

StateOK ==
  /\ mode \in [Threads -> Modes]
  /\ mem \in [Words -> Bytes]
  /\ armed \subseteq Pages
  /\ BlockList \in [Blocks -> Entries \union {None}]
  /\ RetainedBlocks \in [Blocks -> Entries \union {None}]
  /\ CodePages \in [Pages -> SUBSET Blocks]
  /\ L1 \in [Threads -> [Blocks -> Images \union {None}]]
  /\ L2 \in [Threads -> [Blocks -> Images \union {None}]]
  /\ blk \in [Threads -> Blocks \union {None}]
  /\ entry \in [Threads -> Entries \union {None}]
  /\ todo \in [Threads -> SUBSET (Pages \union Threads)]
  /\ page \in [Threads -> Pages \union {None}]
  /\ store \in [Threads -> (Words \X Bytes) \union {None}]

TypeOK ==
  /\ StateOK
  /\ pc \in [Threads -> CompilePC \union InvalidatePC \union OutsidePC]

Init ==
  /\ LockInit
  /\ mem \in [Words -> Bytes]
  /\ armed = {}
  /\ BlockList = [b \in Blocks |-> None]
  /\ CodePages = [p \in Pages |-> {}]
  /\ RetainedBlocks = [b \in Blocks |-> None]
  /\ L1 = [t \in Threads |-> [b \in Blocks |-> None]]
  /\ L2 = [t \in Threads |-> [b \in Blocks |-> None]]
  /\ pc = [t \in Threads |-> "guest"]
  /\ blk = [t \in Threads |-> None]
  /\ entry = [t \in Threads |-> None]
  /\ todo = [t \in Threads |-> {}]
  /\ page = [t \in Threads |-> None]
  /\ store = [t \in Threads |-> None]

Goto(t, l) == pc' = [pc EXCEPT ![t] = l]
Set(f, t, v) == [f EXCEPT ![t] = v]

(* Back to guest code; the locals of the call are gone.                    *)
Return(t) ==
  /\ Goto(t, "guest")
  /\ blk' = Set(blk, t, None) /\ entry' = Set(entry, t, None) /\ todo' = Set(todo, t, {})
  /\ page' = Set(page, t, None) /\ store' = Set(store, t, None)

-----------------------------------------------------------------------------
(* Looking a block up.                                                     *)

(* LookupCache::FindBlock: L1 without a lock, then L2 and L3 under one.    *)
Found(t, b) ==
  IF L1[t][b] # None THEN L1[t][b]
  ELSE IF L2[t][b] # None THEN L2[t][b]
  ELSE IF BlockList[b] # None THEN BlockList[b].code
  ELSE None

(* A hit moves the translation to L1, and an L3 hit to L2 as well.         *)
FindBlock(t, b) ==
  /\ L1' = [L1 EXCEPT ![t][b] = Found(t, b)]
  /\ L2' = [L2 EXCEPT ![t][b] = IF L1[t][b] = None THEN Found(t, b) ELSE @]

(* A block exit misses in L1 and calls ExitFunctionLink.                   *)
Dispatch(t, b, next) ==
  /\ pc[t] = "guest" /\ t \in Mutators
  /\ L1[t][b] = None
  /\ blk' = Set(blk, t, b)
  /\ Goto(t, next)
  /\ UNCHANGED <<mode, guestVars, cacheVars, entry, todo, page, store>>

(* ExitFunctionLink: FindBlock inside a shared section of its own, which    *)
(* it leaves before it calls CompileBlock.                                 *)
Lookup(t, miss) ==
  /\ pc[t] = "lookup"
  /\ In("write") = {} /\ In("waiting") = {}
  /\ FindBlock(t, blk[t])
  /\ \/ Found(t, blk[t]) # None /\ Return(t)
     \/ Found(t, blk[t]) = None /\ Goto(t, miss) /\ UNCHANGED localVars
  /\ UNCHANGED <<mode, guestVars, BlockList, CodePages, RetainedBlocks>>

(* An entry leaves L1 when another block takes its slot, or L1 is resized. *)
EvictL1(t, b) ==
  /\ pc[t] = "guest" /\ L1[t][b] # None
  /\ L1' = [L1 EXCEPT ![t][b] = None]
  /\ UNCHANGED <<mode, guestVars, BlockList, CodePages, RetainedBlocks, L2, pc, localVars>>

(* L2 has run out of backing pages and is cleared as a whole.              *)
ClearL2Cache(t) ==
  /\ pc[t] = "guest" /\ \E b \in Blocks : L2[t][b] # None
  /\ L2' = [L2 EXCEPT ![t] = [b \in Blocks |-> None]]
  /\ UNCHANGED <<mode, guestVars, BlockList, CodePages, RetainedBlocks, L1, pc, localVars>>

-----------------------------------------------------------------------------
(* CompileBlock, under the shared CodeInvalidationMutex.                   *)

Enter(t) ==
  /\ pc[t] = "enter"
  /\ AcquireRead(t)
  /\ Goto(t, "find")
  /\ UNCHANGED <<guestVars, cacheVars, localVars>>

(* FindBlock again, before anything else; a hit ends the call.             *)
FindAgain(t) ==
  /\ pc[t] = "find"
  /\ FindBlock(t, blk[t])
  /\ \/ Found(t, blk[t]) # None /\ Return(t) /\ ReleaseLock(t)
     \/ /\ Found(t, blk[t]) = None
        /\ Goto(t, IF SMCSoftInvalidate THEN "take" ELSE "decode")
        /\ UNCHANGED <<mode, localVars>>
  /\ UNCHANGED <<guestVars, BlockList, CodePages, RetainedBlocks>>

(* TakeRetainedBlock, and the first hash: a block whose bytes have changed  *)
(* is dropped and compiled afresh.                                         *)
TakeRetained(t) ==
  LET b == blk[t]
      r == RetainedBlocks[b]
      unchanged == IF r = None THEN FALSE ELSE r.hash = Contents(b)
  IN  /\ pc[t] = "take"
      /\ RetainedBlocks' = [RetainedBlocks EXCEPT ![b] = None]
      /\ \/ /\ unchanged
            /\ entry' = Set(entry, t, r) /\ todo' = Set(todo, t, PagesOf(b))
            /\ Goto(t, "reregister")
         \/ /\ ~unchanged
            /\ Goto(t, "decode")
            /\ UNCHANGED <<entry, todo>>
      /\ UNCHANGED <<mode, guestVars, BlockList, CodePages, L1, L2, blk, page, store>>

(* AddBlockExecutableRange for one page of the block.  It reports a page    *)
(* that held no code before, and only such a page is armed.                *)
Register(t, from, arm, next) ==
  /\ pc[t] = from
  /\ \/ \E p \in todo[t] :
          /\ CodePages' = [CodePages EXCEPT ![p] = @ \union {blk[t]}]
          /\ todo' = Set(todo, t, todo[t] \ {p})
          /\ \/ CodePages[p] = {} /\ page' = Set(page, t, p) /\ Goto(t, arm)
             \/ CodePages[p] # {} /\ UNCHANGED <<page, pc>>
     \/ todo[t] = {} /\ Goto(t, next) /\ UNCHANGED <<CodePages, todo, page>>
  /\ UNCHANGED <<mode, guestVars, BlockList, RetainedBlocks, L1, L2, blk, entry, store>>

(* MarkGuestExecutableRange: mprotect(PROT_READ) of a writable page.       *)
MarkGuestExecutableRange(t, from, next) ==
  /\ pc[t] = from
  /\ armed' = armed \union {page[t]}
  /\ page' = Set(page, t, None)
  /\ Goto(t, next)
  /\ UNCHANGED <<mode, mem, cacheVars, blk, entry, todo, store>>

(* Mutant: the second hash is not compared.                                *)
SkipVerify(t) ==
  /\ pc[t] = "verify" /\ Goto(t, "republish")
  /\ UNCHANGED <<mode, guestVars, cacheVars, localVars>>

(* The second hash of a relink, taken after arming.                        *)
VerifyAfterArm(t) ==
  /\ pc[t] = "verify"
  /\ \/ entry[t].hash = Contents(blk[t]) /\ Goto(t, "republish") /\ UNCHANGED entry
     \/ entry[t].hash # Contents(blk[t]) /\ Goto(t, "decode") /\ entry' = Set(entry, t, None)
  /\ UNCHANGED <<mode, guestVars, cacheVars, blk, todo, page, store>>

(* CompileCode, frontend: decode the guest bytes.                          *)
Decode(t) ==
  /\ pc[t] = "decode"
  /\ entry' = Set(entry, t, [code |-> Contents(blk[t]), hash |-> Contents(blk[t])])
  /\ Goto(t, "recheck")
  /\ UNCHANGED <<mode, guestVars, cacheVars, blk, todo, page, store>>

(* CompileCode looks the block up once more before the backend runs: if    *)
(* another thread has compiled it meanwhile, that translation is used.     *)
Recheck(t) ==
  LET b == blk[t]
  IN  /\ pc[t] = "recheck"
      /\ FindBlock(t, b)
      /\ \/ Found(t, b) # None /\ Return(t) /\ ReleaseLock(t)
         \/ /\ Found(t, b) = None
            /\ todo' = Set(todo, t, PagesOf(b))
            /\ Goto(t, "register")
            /\ UNCHANGED <<mode, blk, entry, page, store>>
      /\ UNCHANGED <<guestVars, BlockList, CodePages, RetainedBlocks>>

(* The content hash of a fresh block, taken after arming.                  *)
HashGuestBlock(t) ==
  /\ pc[t] = "hash"
  /\ entry' = [entry EXCEPT ![t].hash = Contents(blk[t])]
  /\ Goto(t, "publish")
  /\ UNCHANGED <<mode, guestVars, cacheVars, blk, todo, page, store>>

(* AddBlockMapping: into the shared map and this thread's L1, replacing     *)
(* what is there.  CompileBlock then returns and drops the mutex.          *)
AddBlockMapping(t, from) ==
  LET b == blk[t]
  IN  /\ pc[t] = from
      /\ BlockList' = [BlockList EXCEPT ![b] = entry[t]]
      /\ L1' = [L1 EXCEPT ![t][b] = entry[t].code]
      /\ Return(t) /\ ReleaseLock(t)
      /\ UNCHANGED <<guestVars, CodePages, RetainedBlocks, L2>>

Compile(t) ==
  \/ Enter(t) \/ FindAgain(t) \/ TakeRetained(t)
  \/ Register(t, "reregister", "rearm", "verify")
  \/ MarkGuestExecutableRange(t, "rearm", "reregister")
  \/ VerifyAfterArm(t) \/ AddBlockMapping(t, "republish")
  \/ Decode(t) \/ Recheck(t)
  \/ Register(t, "register", "arm", IF SMCSoftInvalidate THEN "hash" ELSE "publish")
  \/ MarkGuestExecutableRange(t, "arm", "register")
  \/ HashGuestBlock(t) \/ AddBlockMapping(t, "publish")

-----------------------------------------------------------------------------
(* Stores and the invalidations they cause.                                *)

(* A guest store retires if its page is writable; otherwise it faults.     *)
Store(t, w, v) ==
  /\ pc[t] = "guest" /\ t \in Writers
  /\ \/ /\ PageOf[w] \notin armed
        /\ mem' = [mem EXCEPT ![w] = v]
        /\ UNCHANGED <<pc, page, store>>
     \/ /\ PageOf[w] \in armed
        /\ page' = Set(page, t, PageOf[w]) /\ store' = Set(store, t, <<w, v>>)
        /\ Goto(t, "fault")
        /\ UNCHANGED mem
  /\ UNCHANGED <<mode, armed, cacheVars, blk, entry, todo>>

(* sigreturn re-executes the store, which faults again if another thread   *)
(* has armed the page meanwhile.                                           *)
Retry(t) ==
  LET w == store[t][1]
  IN  /\ pc[t] = "retry"
      /\ \/ /\ PageOf[w] \notin armed
            /\ mem' = [mem EXCEPT ![w] = store[t][2]]
            /\ Return(t)
         \/ /\ PageOf[w] \in armed
            /\ page' = Set(page, t, PageOf[w])
            /\ Goto(t, "fault")
            /\ UNCHANGED <<mem, blk, entry, todo, store>>
      /\ UNCHANGED <<mode, armed, cacheVars>>

(* GuestMprotect, granting write and execute access: the host mprotect      *)
(* replaces our protection of the page, and an invalidation follows.       *)
GuestMprotect(t, p) ==
  /\ pc[t] = "guest" /\ t \in Writers
  /\ armed' = armed \ {p}
  /\ page' = Set(page, t, p)
  /\ Goto(t, "hard_lock")
  /\ UNCHANGED <<mode, mem, cacheVars, blk, entry, todo, store>>

(* Mutant: a writer whose wait times out deregisters and starts again.     *)
TakeWriteLockAnew(t, from, next) ==
  /\ pc[t] = from
  /\ \/ (Await(t) \/ GiveUp(t)) /\ UNCHANGED pc
     \/ AcquireWrite(t) /\ Goto(t, next)
  /\ UNCHANGED <<guestVars, cacheVars, localVars>>

(* The exclusive side of the mutex, as a registered writer if need be.     *)
TakeCodeInvalidationWriteLock(t, from, next) ==
  /\ pc[t] = from
  /\ \/ Await(t) /\ UNCHANGED pc
     \/ AcquireWrite(t) /\ Goto(t, next)
  /\ UNCHANGED <<guestVars, cacheVars, localVars>>

(* Mutant: the page stays registered, so the next compile does not arm it. *)
SoftInvalidateKeepsPage(p) ==
  LET hit == {b \in CodePages[p] : BlockList[b] # None}
  IN  /\ RetainedBlocks' = [b \in Blocks |-> IF b \in hit THEN BlockList[b] ELSE RetainedBlocks[b]]
      /\ BlockList' = [b \in Blocks |-> IF b \in hit THEN None ELSE BlockList[b]]
      /\ UNCHANGED CodePages

(* GuestToHostMap::SoftInvalidateRange: the page's blocks leave BlockList   *)
(* and become retained.                                                    *)
SoftInvalidateRange(p) ==
  LET hit == {b \in CodePages[p] : BlockList[b] # None}
  IN  /\ RetainedBlocks' = [b \in Blocks |-> IF b \in hit THEN BlockList[b] ELSE RetainedBlocks[b]]
      /\ BlockList' = [b \in Blocks |-> IF b \in hit THEN None ELSE BlockList[b]]
      /\ CodePages' = [CodePages EXCEPT ![p] = {}]

(* GuestToHostMap::InvalidateRange: the page's blocks are erased, and so   *)
(* are the retained entries of blocks that touch the page.                 *)
InvalidateRange(p) ==
  /\ BlockList' = [b \in Blocks |-> IF b \in CodePages[p] THEN None ELSE BlockList[b]]
  /\ RetainedBlocks' = [b \in Blocks |-> IF b \in BlocksOn(p) THEN None ELSE RetainedBlocks[b]]
  /\ CodePages' = [CodePages EXCEPT ![p] = {}]

(* The code buffers' share of an invalidation; every thread is walked next. *)
InvalidateCodeBuffers(t, from, soft, next) ==
  /\ pc[t] = from
  /\ IF soft THEN SoftInvalidateRange(page[t]) ELSE InvalidateRange(page[t])
  /\ todo' = Set(todo, t, Threads)
  /\ Goto(t, next)
  /\ UNCHANGED <<mode, guestVars, L1, L2, blk, entry, page, store>>

(* Mutant: only L1 is purged.                                              *)
PurgeL1Only(t, from, next) ==
  /\ pc[t] = from
  /\ \/ \E u \in todo[t] :
          /\ L1' = [L1 EXCEPT ![u] = [b \in Blocks |-> IF b \in BlocksOn(page[t]) THEN None ELSE @[b]]]
          /\ todo' = Set(todo, t, todo[t] \ {u})
          /\ UNCHANGED pc
     \/ todo[t] = {} /\ Goto(t, next) /\ UNCHANGED <<L1, todo>>
  /\ UNCHANGED <<mode, guestVars, BlockList, CodePages, RetainedBlocks, L2, blk, entry, page, store>>

(* InvalidateThreadCachedCodeRange, for one thread of the list.            *)
InvalidateThreadCache(t, from, next) ==
  LET Purged(c) == [b \in Blocks |-> IF b \in BlocksOn(page[t]) THEN None ELSE c[b]]
  IN  /\ pc[t] = from
      /\ \/ \E u \in todo[t] :
              /\ L1' = [L1 EXCEPT ![u] = Purged(@)]
              /\ L2' = [L2 EXCEPT ![u] = Purged(@)]
              /\ todo' = Set(todo, t, todo[t] \ {u})
              /\ UNCHANGED pc
         \/ todo[t] = {} /\ Goto(t, next) /\ UNCHANGED <<L1, L2, todo>>
      /\ UNCHANGED <<mode, guestVars, BlockList, CodePages, RetainedBlocks, blk, entry, page, store>>

(* The after_callback unprotects the page while the lock is still held.    *)
Unprotect(t) ==
  /\ pc[t] = "unprotect"
  /\ armed' = armed \ {page[t]}
  /\ ReleaseLock(t)
  /\ Goto(t, "retry")
  /\ UNCHANGED <<mem, cacheVars, localVars>>

Unlock(t) ==
  /\ pc[t] = "hard_done"
  /\ ReleaseLock(t)
  /\ Return(t)
  /\ UNCHANGED <<guestVars, cacheVars>>

(* HandleSegfault for a private mapping.                                   *)
HandleSegfault(t) ==
  \/ TakeCodeInvalidationWriteLock(t, "fault", "erase")
  \/ InvalidateCodeBuffers(t, "erase", SMCSoftInvalidate, "walk")
  \/ InvalidateThreadCache(t, "walk", "unprotect")
  \/ Unprotect(t)

(* InvalidateCodeRangeIfNecessary, after the guest changed the mapping.    *)
InvalidateGuestCodeRange(t) ==
  \/ TakeCodeInvalidationWriteLock(t, "hard_lock", "hard_erase")
  \/ InvalidateCodeBuffers(t, "hard_erase", FALSE, "hard_walk")
  \/ InvalidateThreadCache(t, "hard_walk", "hard_done")
  \/ Unlock(t)

Next ==
  \E t \in Threads :
    \/ \E b \in Blocks : Dispatch(t, b, "lookup") \/ EvictL1(t, b)
    \/ Lookup(t, "enter") \/ ClearL2Cache(t)
    \/ Compile(t)
    \/ \E w \in Words, v \in Bytes : Store(t, w, v)
    \/ Retry(t)
    \/ \E p \in Pages : GuestMprotect(t, p)
    \/ HandleSegfault(t)
    \/ InvalidateGuestCodeRange(t)

Spec == Init /\ [][Next]_vars

(* What a thread does in the emulator it goes on with; what it does in      *)
(* guest code is up to the guest.                                          *)
HostStep(t) ==
  Lookup(t, "enter") \/ Compile(t) \/ Retry(t) \/ HandleSegfault(t) \/ InvalidateGuestCodeRange(t)

LiveSpec == Spec /\ \A t \in Threads : WF_vars(HostStep(t))

-----------------------------------------------------------------------------
(* Properties.                                                             *)

(* Threads that are about to write-protect p, having found it new.         *)
Arming(p) == {t \in Threads : pc[t] \in {"arm", "rearm"} /\ page[t] = p}

(* Threads whose mprotect of p has yet to erase the code on it.            *)
Reprotecting(p) == {t \in Threads : pc[t] \in {"hard_lock", "hard_erase"} /\ page[t] = p}

(* The rule mtrack rests on: a page a live block was decoded from is        *)
(* write-protected, or a compiler is about to protect it, or the guest has  *)
(* just changed its protection and the invalidation is on its way.         *)
LiveCodeGuarded ==
  \A b \in Blocks : BlockList[b] # None =>
    \A p \in PagesOf(b) : p \in armed \/ Arming(p) # {} \/ Reprotecting(p) # {}

(* No thread keeps a translation in L1 or L2 that has left the shared map,  *)
(* except until the invalidation that removed it has walked that thread.   *)
CachesFollow ==
  \A t \in Threads, b \in Blocks :
    (L1[t][b] # None \/ L2[t][b] # None) /\ BlockList[b] = None =>
      \E u \in Threads : /\ pc[u] \in {"walk", "hard_walk"} /\ t \in todo[u]
                         /\ page[u] \in PagesOf(b)

(* VERIFY-AFTER-ARM: once a relink has passed its second hash, the bytes it  *)
(* is about to republish a translation of do not change under it (a store  *)
(* faults and waits for the mutex), unless an mprotect intervenes, whose   *)
(* invalidation will erase the block again.                                *)
RelinkIsCurrent ==
  \A t \in Threads : pc[t] = "republish" =>
    \/ entry[t].hash = Contents(blk[t])
    \/ \E p \in PagesOf(blk[t]) : Reprotecting(p) # {}

(* The content hash of a live block is the hash of the bytes in memory, so  *)
(* that a relink can trust it, unless an mprotect has yet to erase it.     *)
HashCurrent ==
  \A b \in Blocks : BlockList[b] # None =>
    \/ BlockList[b].hash = Contents(b)
    \/ \E p \in PagesOf(b) : Reprotecting(p) # {}

(* A thread that stores into code it runs itself never finds the old        *)
(* translation in its L1 again: at every point of guest code L1 agrees with *)
(* memory.  Checked where one thread does all the writing and dispatching,  *)
(* which is the case x86 promises coherence for.                           *)
SelfCoherent ==
  \A t \in Mutators \intersect Writers, b \in Blocks :
    pc[t] = "guest" /\ L1[t][b] # None => L1[t][b] = Contents(b)

(* A store that faulted gets its page unprotected, however many threads     *)
(* keep compiling: the waiting writer of the CodeInvalidationMutex holds    *)
(* new readers back, and those inside do not wait for anything.            *)
FaultServed ==
  \A t \in Writers : pc[t] = "fault" ~> pc[t] = "retry"
=============================================================================
