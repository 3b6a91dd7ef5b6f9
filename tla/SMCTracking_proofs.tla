------------------------- MODULE SMCTracking_proofs -------------------------
(***************************************************************************)
(* Proofs about SMCTracking, for any number of threads, blocks and pages   *)
(* and any layout, with soft or hard invalidation: a page that a live      *)
(* block was decoded from is guarded, and no thread-local cache keeps a    *)
(* translation that has left the shared map.  With one thread that         *)
(* compiles, content hashes can moreover be relied on (SoloInv, below).    *)
(* The last two parts are about SMCLazy: with the cross-poke everyone who  *)
(* could run a dirty block owes a drain (PokeInv), and a program of one    *)
(* thread sees its own stores (SelfInv).                                   *)
(*                                                                         *)
(* Neither property is inductive.  A live block is guarded because it is   *)
(* registered on its pages (Registered) and a page with registered blocks  *)
(* is armed (CodeArmed).  The latter survives the unprotection of a page   *)
(* because the invalidation has emptied the page (Swept), which holds as   *)
(* long as the exclusive lock keeps compilers out (Locks).                 *)
(***************************************************************************)
EXTENDS SMCLazy, TLAPS

(* Zenon is tried where a leaf does not name a prover.                     *)
USE Zenon

(* The places where a compiler holds an entry, has yet to register pages,  *)
(* has registered them all, and where a thread holds a page.               *)
HoldsEntry ==
  {"reregister", "rearm", "verify", "republish", "recheck", "register", "arm", "hash", "publish"}
Registering == {"register", "arm", "reregister", "rearm"}
Registration == {"verify", "republish", "hash", "publish"}
HasPage == {"arm", "rearm", "fault", "hard_lock"} \union InvalidatePC

(* The locals of a call are what the place of the thread says.             *)
Locals ==
  \A t \in Threads :
    /\ pc[t] \in CompilePC \union {"lookup", "enter"} => blk[t] \in Blocks
    /\ pc[t] \in HoldsEntry => entry[t] \in Entries
    /\ pc[t] \in Registering => todo[t] \subseteq PagesOf(blk[t])
    /\ pc[t] \in HasPage => page[t] \in Pages
    /\ pc[t] \in {"fault", "erase", "walk", "unprotect", "retry"} => store[t] \in Words \X Bytes
    /\ pc[t] \in {"walk", "hard_walk"} => todo[t] \subseteq Threads

(* The mode of the CodeInvalidationMutex is determined by the pc, and a    *)
(* writer is alone.                                                        *)
Locks ==
  /\ \A t \in Threads : /\ pc[t] \in CompilePC <=> mode[t] = "read"
                        /\ pc[t] \in InvalidatePC <=> mode[t] = "write"
                        /\ mode[t] = "waiting" => pc[t] \in {"fault", "hard_lock"}
  /\ \A t, u \in Threads : mode[t] = "write" /\ u # t => mode[u] \notin {"write", "read"}

(* A live block is registered on every page it was decoded from.           *)
Registered == \A b \in Blocks : BlockList[b] # None => \A p \in PagesOf(b) : b \in CodePages[p]

(* Only blocks of a page are registered on it.                             *)
OnPages == \A p \in Pages : CodePages[p] \subseteq BlocksOn(p)

(* What a compile has registered so far.                                   *)
Underway ==
  \A t \in Threads :
    /\ pc[t] \in Registering => \A p \in PagesOf(blk[t]) \ todo[t] : blk[t] \in CodePages[p]
    /\ pc[t] \in Registration => \A p \in PagesOf(blk[t]) : blk[t] \in CodePages[p]

(* A thread that accounts for p being writable: it is about to arm p, or   *)
(* to erase the code of a page that the guest has reprotected.             *)
GuardPC == {"arm", "rearm", "hard_lock", "hard_erase"}
Guards(t, p) == pc[t] \in GuardPC /\ page[t] = p

(* A page with code on it is armed, or a thread accounts for it.           *)
CodeArmed ==
  \A p \in Pages : CodePages[p] # {} => p \in armed \/ \E t \in Threads : Guards(t, p)

(* From the erasure to the end of an invalidation its page holds no code.  *)
SweptPC == {"walk", "unprotect", "hard_walk", "hard_done"}
Swept == \A t \in Threads : pc[t] \in SweptPC => CodePages[page[t]] = {}

(* What is known of the pages; and the inductive invariant.                *)
PageInv == Registered /\ OnPages /\ Underway /\ CodeArmed /\ Swept

IInv == TypeOK /\ Locals /\ Locks /\ PageInv /\ CachesFollow

-----------------------------------------------------------------------------
(* Facts about the operators the actions are built from.                   *)

(* The pages a block spans are pages.                                      *)
LEMMA PagesTyped == \A b \in Blocks : PagesOf(b) \subseteq Pages
  BY LayoutAssumption DEF PagesOf

(* What a decoder reads, or a hash is taken over, is an image.             *)
LEMMA ContentsTyped ==
  ASSUME mem \in [Words -> Bytes], NEW b \in Blocks
  PROVE  Contents(b) \in Images
<1>1. Contents(b) \in [Extent[b] -> Bytes]
  BY LayoutAssumption DEF Contents
<1> QED
  BY <1>1 DEF Images

(* FindBlock keeps the caches well typed and hits only what is cached.     *)
LEMMA FindBlockTyped ==
  ASSUME StateOK, NEW t \in Threads, NEW b \in Blocks, FindBlock(t, b)
  PROVE  /\ L1' \in [Threads -> [Blocks -> Images \union {None}]]
         /\ L2' \in [Threads -> [Blocks -> Images \union {None}]]
<1>1. Found(t, b) \in Images \union {None}
  BY SMT DEF StateOK, Found, Entries
<1>2. L1[t] \in [Blocks -> Images \union {None}] /\ L2[t] \in [Blocks -> Images \union {None}]
  BY DEF StateOK
<1>3. L1' \in [Threads -> [Blocks -> Images \union {None}]]
  BY <1>1, <1>2 DEF FindBlock, StateOK
<1>4. (IF L1[t][b] = None THEN Found(t, b) ELSE L2[t][b]) \in Images \union {None}
  BY <1>1, <1>2
<1>5. L2' \in [Threads -> [Blocks -> Images \union {None}]]
  BY <1>2, <1>4 DEF FindBlock, StateOK
<1> QED
  BY <1>3, <1>5

(* Every operation of the mutex keeps the modes well typed.                *)
LEMMA ModeTyped ==
  ASSUME mode \in [Threads -> Modes], NEW t \in Threads,
         Await(t) \/ AcquireWrite(t) \/ AcquireRead(t) \/ ReleaseLock(t)
  PROVE  mode' \in [Threads -> Modes]
  BY DEF Await, AcquireWrite, AcquireRead, ReleaseLock, Become, Modes

(* A thread that returns to the guest keeps its locals well typed.         *)
LEMMA ReturnTyped ==
  ASSUME TypeOK, NEW t \in Threads, Return(t)
  PROVE  /\ pc' \in [Threads -> CompilePC \union InvalidatePC \union OutsidePC]
         /\ blk' \in [Threads -> Blocks \union {None}]
         /\ entry' \in [Threads -> Entries \union {None}]
         /\ todo' \in [Threads -> SUBSET (Pages \union Threads)]
         /\ page' \in [Threads -> Pages \union {None}]
         /\ store' \in [Threads -> (Words \X Bytes) \union {None}]
<1> USE DEF TypeOK, StateOK, Return, Goto, Set
<1>1. "guest" \in OutsidePC
  BY DEF OutsidePC
<1>2. pc' \in [Threads -> CompilePC \union InvalidatePC \union OutsidePC]
  BY <1>1
<1>3. blk' \in [Threads -> Blocks \union {None}] /\ entry' \in [Threads -> Entries \union {None}]
  OBVIOUS
<1>4. /\ todo' \in [Threads -> SUBSET (Pages \union Threads)]
      /\ page' \in [Threads -> Pages \union {None}]
      /\ store' \in [Threads -> (Words \X Bytes) \union {None}]
  OBVIOUS
<1> QED
  BY <1>2, <1>3, <1>4

(* A move to a known label keeps pc well typed.                            *)
LEMMA GotoTyped ==
  ASSUME TypeOK, NEW t \in Threads, NEW l \in CompilePC \union InvalidatePC \union OutsidePC, Goto(t, l)
  PROVE  pc' \in [Threads -> CompilePC \union InvalidatePC \union OutsidePC]
  BY DEF TypeOK, Goto

-----------------------------------------------------------------------------
(* Type correctness.                                                       *)

(* Every action keeps every variable in its type.                          *)
LEMMA TypeStep == TypeOK /\ Locals /\ [Next]_vars => TypeOK'
<1> SUFFICES ASSUME TypeOK, Locals, [Next]_vars PROVE TypeOK'
  OBVIOUS
<1> USE DEF TypeOK, Set, guestVars, cacheVars, localVars
<1> DEFINE Labels == CompilePC \union InvalidatePC \union OutsidePC
<1>L. {"lookup", "enter", "find", "take", "decode", "recheck", "register", "arm", "hash", "publish",
       "reregister", "rearm", "verify", "republish", "fault", "retry", "hard_lock", "erase", "walk",
       "unprotect", "hard_erase", "hard_walk", "hard_done"} \subseteq Labels
  BY DEF CompilePC, RelinkPC, InvalidatePC, OutsidePC
<1>0. CASE UNCHANGED vars
  BY <1>0 DEF vars, StateOK
<1>1. ASSUME NEW t \in Threads, NEW b \in Blocks, Dispatch(t, b, "lookup") PROVE TypeOK'
  <2>1. pc' \in [Threads -> Labels]
    BY <1>1, <1>L, GotoTyped DEF Dispatch
  <2> QED
    BY <1>1, <2>1 DEF Dispatch, StateOK
<1>2. ASSUME NEW t \in Threads, NEW b \in Blocks, EvictL1(t, b) PROVE TypeOK'
  <2>1. L1[t] \in [Blocks -> Images \union {None}]
    BY DEF StateOK
  <2>2. L1' \in [Threads -> [Blocks -> Images \union {None}]]
    BY <1>2, <2>1 DEF EvictL1, StateOK
  <2> QED
    BY <1>2, <2>2 DEF EvictL1, StateOK
<1>3. ASSUME NEW t \in Threads, Lookup(t, "enter") PROVE TypeOK'
  <2>1. blk[t] \in Blocks
    BY <1>3 DEF Lookup, Locals
  <2>2. FindBlock(t, blk[t])
    BY <1>3 DEF Lookup
  <2>3. CASE Return(t)
    BY <1>3, <2>1, <2>2, <2>3, FindBlockTyped, ReturnTyped DEF Lookup, StateOK
  <2>4. CASE Goto(t, "enter") /\ UNCHANGED localVars
    <3>1. pc' \in [Threads -> Labels]
      BY <1>L, <2>4, GotoTyped
    <3> QED
      BY <1>3, <2>1, <2>2, <2>4, <3>1, FindBlockTyped DEF Lookup, StateOK
  <2> QED
    BY <1>3, <2>3, <2>4 DEF Lookup
<1>4. ASSUME NEW t \in Threads, ClearL2Cache(t) PROVE TypeOK'
  BY <1>4 DEF ClearL2Cache, StateOK
<1>5. ASSUME NEW t \in Threads, Enter(t) PROVE TypeOK'
  <2>1. pc' \in [Threads -> Labels] /\ mode' \in [Threads -> Modes]
    BY <1>5, <1>L, GotoTyped, ModeTyped DEF Enter, StateOK
  <2> QED
    BY <1>5, <2>1 DEF Enter, StateOK
<1>6. ASSUME NEW t \in Threads, FindAgain(t) PROVE TypeOK'
  <2>1. blk[t] \in Blocks
    BY <1>6 DEF FindAgain, Locals, CompilePC
  <2>2. FindBlock(t, blk[t])
    BY <1>6 DEF FindAgain
  <2>3. CASE Return(t) /\ ReleaseLock(t)
    BY <1>6, <2>1, <2>2, <2>3, FindBlockTyped, ReturnTyped, ModeTyped DEF FindAgain, StateOK
  <2>4. CASE /\ Goto(t, IF SMCSoftInvalidate THEN "take" ELSE "decode")
             /\ UNCHANGED <<mode, localVars>>
    <3>1. PICK l \in {"take", "decode"} : Goto(t, l)
      BY <2>4
    <3>2. pc' \in [Threads -> Labels]
      BY <1>L, <3>1, GotoTyped
    <3> QED
      BY <1>6, <2>1, <2>2, <2>4, <3>2, FindBlockTyped DEF FindAgain, StateOK
  <2> QED
    BY <1>6, <2>3, <2>4 DEF FindAgain
<1>7. ASSUME NEW t \in Threads, TakeRetained(t) PROVE TypeOK'
  <2>1. blk[t] \in Blocks
    BY <1>7 DEF TakeRetained, Locals, CompilePC
  <2>2. PagesOf(blk[t]) \subseteq Pages
    BY <2>1, PagesTyped
  <2>3. PICK l \in {"reregister", "decode"} : Goto(t, l)
    BY <1>7 DEF TakeRetained
  <2>4. pc' \in [Threads -> Labels]
    BY <1>L, <2>3, GotoTyped
  <2>5. /\ entry' \in [Threads -> Entries \union {None}]
        /\ todo' \in [Threads -> SUBSET (Pages \union Threads)]
    <3>1. RetainedBlocks[blk[t]] \in Entries \union {None}
      BY <2>1 DEF StateOK
    <3>2. CASE entry' = Set(entry, t, RetainedBlocks[blk[t]]) /\ todo' = Set(todo, t, PagesOf(blk[t]))
      BY <2>2, <3>1, <3>2 DEF StateOK
    <3>3. CASE UNCHANGED <<entry, todo>>
      BY <3>3 DEF StateOK
    <3> QED
      BY <1>7, <3>2, <3>3 DEF TakeRetained
  <2> QED
    BY <1>7, <2>1, <2>4, <2>5 DEF TakeRetained, StateOK
<1>8. ASSUME NEW t \in Threads, NEW from \in {"reregister", "register"},
             NEW arm \in {"rearm", "arm"}, NEW next \in {"verify", "hash", "publish"},
             Register(t, from, arm, next)
      PROVE  TypeOK'
  <2>1. blk[t] \in Blocks /\ todo[t] \subseteq Pages
    BY <1>8, LayoutAssumption, SMT DEF Register, Locals, CompilePC, RelinkPC, Registering, PagesOf
  <2>2. pc' \in [Threads -> Labels]
    BY <1>8, <1>L, GotoTyped DEF Register
  <2>3. /\ CodePages' \in [Pages -> SUBSET Blocks]
        /\ todo' \in [Threads -> SUBSET (Pages \union Threads)]
        /\ page' \in [Threads -> Pages \union {None}]
    <3>1. CASE UNCHANGED <<CodePages, todo, page>>
      BY <3>1 DEF StateOK
    <3>2. ASSUME NEW p \in todo[t],
                 CodePages' = [CodePages EXCEPT ![p] = @ \union {blk[t]}],
                 todo' = Set(todo, t, todo[t] \ {p}),
                 page' = Set(page, t, p) \/ UNCHANGED page
          PROVE  /\ CodePages' \in [Pages -> SUBSET Blocks]
                 /\ todo' \in [Threads -> SUBSET (Pages \union Threads)]
                 /\ page' \in [Threads -> Pages \union {None}]
      BY <2>1, <3>2 DEF StateOK
    <3> QED
      BY <1>8, <3>1, <3>2 DEF Register
  <2> QED
    BY <1>8, <2>2, <2>3 DEF Register, StateOK
<1>9. ASSUME NEW t \in Threads, NEW from \in {"rearm", "arm"}, NEW next \in {"reregister", "register"},
             MarkGuestExecutableRange(t, from, next)
      PROVE  TypeOK'
  <2>1. page[t] \in Pages
    BY <1>9 DEF MarkGuestExecutableRange, Locals, HasPage
  <2>2. pc' \in [Threads -> Labels]
    BY <1>9, <1>L, GotoTyped DEF MarkGuestExecutableRange
  <2> QED
    BY <1>9, <2>1, <2>2 DEF MarkGuestExecutableRange, StateOK
<1>10. ASSUME NEW t \in Threads, VerifyAfterArm(t) PROVE TypeOK'
  <2>1. PICK l \in {"republish", "decode"} : Goto(t, l)
    BY <1>10 DEF VerifyAfterArm
  <2>2. pc' \in [Threads -> Labels]
    BY <1>L, <2>1, GotoTyped
  <2> QED
    BY <1>10, <2>2 DEF VerifyAfterArm, StateOK
<1>11. ASSUME NEW t \in Threads, NEW from \in {"republish", "publish"}, AddBlockMapping(t, from)
       PROVE  TypeOK'
  <2>1. blk[t] \in Blocks /\ entry[t] \in Entries
    BY <1>11 DEF AddBlockMapping, Locals, CompilePC, RelinkPC, HoldsEntry
  <2>2. L1[t] \in [Blocks -> Images \union {None}] /\ entry[t].code \in Images
    BY <2>1 DEF StateOK, Entries
  <2>3. BlockList' \in [Blocks -> Entries \union {None}]
    BY <1>11, <2>1 DEF AddBlockMapping, StateOK
  <2>4. L1' \in [Threads -> [Blocks -> Images \union {None}]]
    BY <1>11, <2>1, <2>2 DEF AddBlockMapping, StateOK
  <2>5. mode' \in [Threads -> Modes]
    BY <1>11, ModeTyped DEF AddBlockMapping, StateOK
  <2> QED
    BY <1>11, <2>3, <2>4, <2>5, ReturnTyped DEF AddBlockMapping, StateOK
<1>12. ASSUME NEW t \in Threads, Decode(t) PROVE TypeOK'
  <2>1. blk[t] \in Blocks
    BY <1>12 DEF Decode, Locals, CompilePC
  <2>2. [code |-> Contents(blk[t]), hash |-> Contents(blk[t])] \in Entries
    BY <2>1, ContentsTyped DEF Entries, StateOK
  <2>3. pc' \in [Threads -> Labels]
    BY <1>12, <1>L, GotoTyped DEF Decode
  <2> QED
    BY <1>12, <2>2, <2>3 DEF Decode, StateOK
<1>13. ASSUME NEW t \in Threads, Recheck(t) PROVE TypeOK'
  <2>1. blk[t] \in Blocks
    BY <1>13 DEF Recheck, Locals, CompilePC
  <2>2. FindBlock(t, blk[t])
    BY <1>13 DEF Recheck
  <2>3. CASE Return(t) /\ ReleaseLock(t)
    BY <1>13, <2>1, <2>2, <2>3, FindBlockTyped, ReturnTyped, ModeTyped DEF Recheck, StateOK
  <2>4. CASE /\ todo' = Set(todo, t, PagesOf(blk[t]))
             /\ Goto(t, "register")
             /\ UNCHANGED <<mode, blk, entry, page, store>>
    <3>1. pc' \in [Threads -> Labels]
      BY <1>L, <2>4, GotoTyped
    <3>2. PagesOf(blk[t]) \subseteq Pages
      BY <2>1, PagesTyped
    <3>3. todo' \in [Threads -> SUBSET (Pages \union Threads)]
      BY <2>4, <3>2 DEF StateOK
    <3> QED
      BY <1>13, <2>1, <2>2, <2>4, <3>1, <3>3, FindBlockTyped DEF Recheck, StateOK
  <2> QED
    BY <1>13, <2>3, <2>4 DEF Recheck
<1>14. ASSUME NEW t \in Threads, HashGuestBlock(t) PROVE TypeOK'
  <2>1. blk[t] \in Blocks /\ entry[t] \in Entries
    BY <1>14 DEF HashGuestBlock, Locals, CompilePC, HoldsEntry
  <2>2. [entry[t] EXCEPT !.hash = Contents(blk[t])] \in Entries
    BY <2>1, ContentsTyped DEF Entries, StateOK
  <2>3. entry' \in [Threads -> Entries \union {None}]
    BY <1>14, <2>2 DEF HashGuestBlock, StateOK
  <2>4. pc' \in [Threads -> Labels]
    BY <1>14, <1>L, GotoTyped DEF HashGuestBlock
  <2> QED
    BY <1>14, <2>3, <2>4 DEF HashGuestBlock, StateOK
<1>15. ASSUME NEW t \in Threads, NEW w \in Words, NEW v \in Bytes, Store(t, w, v) PROVE TypeOK'
  <2>1. PageOf[w] \in Pages
    BY LayoutAssumption
  <2>2. CASE UNCHANGED <<pc, page, store>>
    BY <1>15, <2>2 DEF Store, StateOK
  <2>3. CASE /\ page' = Set(page, t, PageOf[w]) /\ store' = Set(store, t, <<w, v>>)
             /\ Goto(t, "fault")
             /\ UNCHANGED mem
    <3>1. pc' \in [Threads -> Labels]
      BY <1>L, <2>3, GotoTyped
    <3>2. store' \in [Threads -> (Words \X Bytes) \union {None}]
      BY <2>3 DEF StateOK
    <3> QED
      BY <1>15, <2>1, <2>3, <3>1, <3>2 DEF Store, StateOK
  <2> QED
    BY <1>15, <2>2, <2>3 DEF Store
<1>16. ASSUME NEW t \in Threads, Retry(t) PROVE TypeOK'
  <2>1. store[t] \in Words \X Bytes
    BY <1>16 DEF Retry, Locals
  <2>2. store[t][1] \in Words /\ store[t][2] \in Bytes
    BY <2>1
  <2>3. CASE mem' = [mem EXCEPT ![store[t][1]] = store[t][2]] /\ Return(t)
    <3>1. mem' \in [Words -> Bytes]
      BY <2>2, <2>3 DEF StateOK
    <3> QED
      BY <1>16, <2>3, <3>1, ReturnTyped DEF Retry, StateOK
  <2>4. CASE /\ page' = Set(page, t, PageOf[store[t][1]])
             /\ Goto(t, "fault")
             /\ UNCHANGED <<mem, blk, entry, todo, store>>
    <3>1. pc' \in [Threads -> Labels]
      BY <1>L, <2>4, GotoTyped
    <3>2. page' \in [Threads -> Pages \union {None}]
      BY <2>2, <2>4, LayoutAssumption DEF StateOK
    <3> QED
      BY <1>16, <2>4, <3>1, <3>2 DEF Retry, StateOK
  <2> QED
    BY <1>16, <2>3, <2>4 DEF Retry
<1>17. ASSUME NEW t \in Threads, NEW p \in Pages, GuestMprotect(t, p) PROVE TypeOK'
  <2>1. pc' \in [Threads -> Labels]
    BY <1>17, <1>L, GotoTyped DEF GuestMprotect
  <2> QED
    BY <1>17, <2>1 DEF GuestMprotect, StateOK
<1>18. ASSUME NEW t \in Threads, NEW from \in Labels, NEW next \in {"erase", "hard_erase"},
              TakeCodeInvalidationWriteLock(t, from, next)
       PROVE  TypeOK'
  <2>1. pc' \in [Threads -> Labels]
    BY <1>18, <1>L, GotoTyped DEF TakeCodeInvalidationWriteLock
  <2>2. mode' \in [Threads -> Modes]
    BY <1>18, ModeTyped DEF TakeCodeInvalidationWriteLock, StateOK
  <2> QED
    BY <1>18, <2>1, <2>2 DEF TakeCodeInvalidationWriteLock, StateOK
<1>19. ASSUME NEW t \in Threads, NEW from \in {"erase", "hard_erase"}, NEW soft,
              NEW next \in {"walk", "hard_walk"}, InvalidateCodeBuffers(t, from, soft, next)
       PROVE  TypeOK'
  <2>1. page[t] \in Pages
    BY <1>19 DEF InvalidateCodeBuffers, Locals, HasPage, InvalidatePC
  <2>2. pc' \in [Threads -> Labels]
    BY <1>19, <1>L, GotoTyped DEF InvalidateCodeBuffers
  <2>3. todo' \in [Threads -> SUBSET (Pages \union Threads)]
    BY <1>19 DEF InvalidateCodeBuffers, StateOK
  <2>4. /\ BlockList' \in [Blocks -> Entries \union {None}]
        /\ RetainedBlocks' \in [Blocks -> Entries \union {None}]
        /\ CodePages' \in [Pages -> SUBSET Blocks]
    <3>1. CASE SoftInvalidateRange(page[t])
      BY <2>1, <3>1 DEF SoftInvalidateRange, StateOK
    <3>2. CASE InvalidateRange(page[t])
      BY <2>1, <3>2 DEF InvalidateRange, StateOK
    <3> QED
      BY <1>19, <3>1, <3>2 DEF InvalidateCodeBuffers
  <2> QED
    BY <1>19, <2>2, <2>3, <2>4 DEF InvalidateCodeBuffers, StateOK
<1>20. ASSUME NEW t \in Threads, NEW from, NEW next \in {"unprotect", "hard_done"},
              InvalidateThreadCache(t, from, next)
       PROVE  TypeOK'
  <2> DEFINE Purged(c) == [b \in Blocks |-> IF b \in BlocksOn(page[t]) THEN None ELSE c[b]]
  <2>1. CASE todo[t] = {} /\ Goto(t, next) /\ UNCHANGED <<L1, L2, todo>>
    <3>1. pc' \in [Threads -> Labels]
      BY <1>20, <1>L, <2>1, GotoTyped
    <3> QED
      BY <1>20, <2>1, <3>1 DEF InvalidateThreadCache, StateOK
  <2>2. ASSUME NEW u \in todo[t],
               /\ L1' = [L1 EXCEPT ![u] = Purged(@)]
               /\ L2' = [L2 EXCEPT ![u] = Purged(@)]
               /\ todo' = Set(todo, t, todo[t] \ {u})
               /\ UNCHANGED pc
        PROVE  TypeOK'
    <3>1. \A c \in [Blocks -> Images \union {None}] : Purged(c) \in [Blocks -> Images \union {None}]
      OBVIOUS
    <3>2. /\ L1' \in [Threads -> [Blocks -> Images \union {None}]]
          /\ L2' \in [Threads -> [Blocks -> Images \union {None}]]
      BY <2>2, <3>1 DEF StateOK
    <3>3. todo' \in [Threads -> SUBSET (Pages \union Threads)]
      BY <2>2 DEF StateOK
    <3> QED
      BY <1>20, <2>2, <3>2, <3>3 DEF InvalidateThreadCache, StateOK
  <2> QED
    BY <1>20, <2>1, <2>2 DEF InvalidateThreadCache
<1>21. ASSUME NEW t \in Threads, Unprotect(t) PROVE TypeOK'
  <2>1. pc' \in [Threads -> Labels] /\ mode' \in [Threads -> Modes]
    BY <1>21, <1>L, GotoTyped, ModeTyped DEF Unprotect, StateOK
  <2> QED
    BY <1>21, <2>1 DEF Unprotect, StateOK
<1>22. ASSUME NEW t \in Threads, Unlock(t) PROVE TypeOK'
  <2>1. mode' \in [Threads -> Modes]
    BY <1>22, ModeTyped DEF Unlock, StateOK
  <2> QED
    BY <1>22, <2>1, ReturnTyped DEF Unlock, StateOK
<1>L2. {"fault", "hard_lock"} \subseteq Labels
  BY <1>L
<1> HIDE DEF Labels, TypeOK
<1> QED
  BY <1>0, <1>1, <1>2, <1>3, <1>4, <1>5, <1>6, <1>7, <1>8, <1>9, <1>10, <1>11, <1>12, <1>13, <1>14,
     <1>15, <1>16, <1>17, <1>18, <1>19, <1>20, <1>21, <1>22, <1>L2
     DEF Next, Compile, HandleSegfault, InvalidateGuestCodeRange

-----------------------------------------------------------------------------
(* The lock and the locals.                                                *)

(* A step keeps the locks held where the program counters say so.          *)
LEMMA LocksStep == IInv /\ [Next]_vars => Locks'
<1> SUFFICES ASSUME IInv, [Next]_vars PROVE Locks'
  OBVIOUS
<1>t. /\ mode \in [Threads -> Modes] /\ Locks
      /\ pc \in [Threads -> CompilePC \union InvalidatePC \union OutsidePC]
  BY DEF IInv, TypeOK, StateOK
<1> USE <1>t DEF Locks, Set, Goto, CompilePC, RelinkPC, InvalidatePC, OutsidePC,
           Modes, In, Become, Await, AcquireWrite, AcquireRead, ReleaseLock
<1>0. CASE UNCHANGED vars
  BY <1>0 DEF vars, guestVars, cacheVars, localVars
<1>1. ASSUME NEW t \in Threads, NEW b \in Blocks, Dispatch(t, b, "lookup") PROVE Locks'
  BY <1>1 DEF Dispatch, guestVars, cacheVars, localVars
<1>2. ASSUME NEW t \in Threads, NEW b \in Blocks, EvictL1(t, b) PROVE Locks'
  BY <1>2 DEF EvictL1, guestVars, cacheVars, localVars
<1>3. ASSUME NEW t \in Threads, Lookup(t, "enter") PROVE Locks'
  BY <1>3 DEF Lookup, Return, guestVars, cacheVars, localVars
<1>4. ASSUME NEW t \in Threads, ClearL2Cache(t) PROVE Locks'
  BY <1>4 DEF ClearL2Cache, guestVars, cacheVars, localVars
<1>5. ASSUME NEW t \in Threads, Enter(t) PROVE Locks'
  BY <1>5 DEF Enter, guestVars, cacheVars, localVars
<1>6. ASSUME NEW t \in Threads, FindAgain(t) PROVE Locks'
  <2>1. CASE Return(t) /\ ReleaseLock(t)
    BY <1>6, <2>1 DEF FindAgain, Return, guestVars, cacheVars, localVars
  <2>2. CASE Goto(t, IF SMCSoftInvalidate THEN "take" ELSE "decode") /\ UNCHANGED <<mode, localVars>>
    <3>1. PICK l \in {"take", "decode"} : Goto(t, l)
      BY <2>2
    <3> QED
      BY <1>6, <2>2, <3>1 DEF FindAgain, guestVars, cacheVars, localVars
  <2> QED
    BY <1>6, <2>1, <2>2 DEF FindAgain
<1>7. ASSUME NEW t \in Threads, TakeRetained(t) PROVE Locks'
  BY <1>7 DEF TakeRetained, guestVars, cacheVars, localVars
<1>8. ASSUME NEW t \in Threads, NEW from \in {"reregister", "register"},
             NEW arm \in {"rearm", "arm"}, NEW next \in {"verify", "hash", "publish"},
             Register(t, from, arm, next)
      PROVE  Locks'
  BY <1>8 DEF Register, guestVars, cacheVars, localVars
<1>9. ASSUME NEW t \in Threads, NEW from \in {"rearm", "arm"}, NEW next \in {"reregister", "register"},
             MarkGuestExecutableRange(t, from, next)
      PROVE  Locks'
  BY <1>9 DEF MarkGuestExecutableRange, guestVars, cacheVars, localVars
<1>10. ASSUME NEW t \in Threads, VerifyAfterArm(t) PROVE Locks'
  BY <1>10 DEF VerifyAfterArm, guestVars, cacheVars, localVars
<1>11. ASSUME NEW t \in Threads, NEW from \in {"republish", "publish"}, AddBlockMapping(t, from) PROVE Locks'
  BY <1>11 DEF AddBlockMapping, Return, guestVars, cacheVars, localVars
<1>12. ASSUME NEW t \in Threads, Decode(t) PROVE Locks'
  BY <1>12 DEF Decode, guestVars, cacheVars, localVars
<1>13. ASSUME NEW t \in Threads, Recheck(t) PROVE Locks'
  <2>1. CASE Return(t) /\ ReleaseLock(t)
    BY <1>13, <2>1 DEF Recheck, Return, guestVars, cacheVars, localVars
  <2>2. CASE /\ todo' = Set(todo, t, PagesOf(blk[t]))
             /\ Goto(t, "register")
             /\ UNCHANGED <<mode, blk, entry, page, store>>
    BY <1>13, <2>2 DEF Recheck, guestVars, cacheVars, localVars
  <2> QED
    BY <1>13, <2>1, <2>2 DEF Recheck
<1>14. ASSUME NEW t \in Threads, HashGuestBlock(t) PROVE Locks'
  BY <1>14 DEF HashGuestBlock, guestVars, cacheVars, localVars
<1>15. ASSUME NEW t \in Threads, NEW w \in Words, NEW v \in Bytes, Store(t, w, v) PROVE Locks'
  BY <1>15, SMT DEF Store, guestVars, cacheVars, localVars
<1>16. ASSUME NEW t \in Threads, Retry(t) PROVE Locks'
  <2>1. UNCHANGED mode /\ pc[t] = "retry" /\ (Goto(t, "guest") \/ Goto(t, "fault"))
    BY <1>16 DEF Retry, Return
  <2> QED
    BY <2>1
<1>17. ASSUME NEW t \in Threads, NEW p \in Pages, GuestMprotect(t, p) PROVE Locks'
  BY <1>17 DEF GuestMprotect, guestVars, cacheVars, localVars
<1>18. ASSUME NEW t \in Threads, TakeCodeInvalidationWriteLock(t, "fault", "erase") PROVE Locks'
  <2>1. CASE Await(t) /\ UNCHANGED pc
    BY <1>18, <2>1 DEF TakeCodeInvalidationWriteLock
  <2>2. CASE AcquireWrite(t) /\ pc[t] = "fault" /\ Goto(t, "erase")
    BY <2>2
  <2> QED
    BY <1>18, <2>1, <2>2 DEF TakeCodeInvalidationWriteLock
<1>19. ASSUME NEW t \in Threads, TakeCodeInvalidationWriteLock(t, "hard_lock", "hard_erase") PROVE Locks'
  <2>1. CASE Await(t) /\ UNCHANGED pc
    BY <1>19, <2>1 DEF TakeCodeInvalidationWriteLock
  <2>2. CASE AcquireWrite(t) /\ pc[t] = "hard_lock" /\ Goto(t, "hard_erase")
    BY <2>2
  <2> QED
    BY <1>19, <2>1, <2>2 DEF TakeCodeInvalidationWriteLock
<1>20. ASSUME NEW t \in Threads, InvalidateCodeBuffers(t, "erase", SMCSoftInvalidate, "walk") PROVE Locks'
  BY <1>20 DEF InvalidateCodeBuffers, guestVars, cacheVars, localVars
<1>21. ASSUME NEW t \in Threads, InvalidateCodeBuffers(t, "hard_erase", FALSE, "hard_walk") PROVE Locks'
  BY <1>21 DEF InvalidateCodeBuffers, guestVars, cacheVars, localVars
<1>22. ASSUME NEW t \in Threads, InvalidateThreadCache(t, "walk", "unprotect") PROVE Locks'
  <2>1. UNCHANGED mode /\ pc[t] = "walk" /\ (UNCHANGED pc \/ Goto(t, "unprotect"))
    BY <1>22 DEF InvalidateThreadCache
  <2> QED
    BY <2>1, SMT
<1>23. ASSUME NEW t \in Threads, InvalidateThreadCache(t, "hard_walk", "hard_done") PROVE Locks'
  <2>1. UNCHANGED mode /\ pc[t] = "hard_walk" /\ (UNCHANGED pc \/ Goto(t, "hard_done"))
    BY <1>23 DEF InvalidateThreadCache
  <2> QED
    BY <2>1
<1>24. ASSUME NEW t \in Threads, Unprotect(t) PROVE Locks'
  BY <1>24 DEF Unprotect, guestVars, cacheVars, localVars
<1>25. ASSUME NEW t \in Threads, Unlock(t) PROVE Locks'
  BY <1>25 DEF Unlock, Return, guestVars, cacheVars, localVars
<1> HIDE DEF IInv, Locks
<1> QED
  BY <1>0, <1>1, <1>2, <1>3, <1>4, <1>5, <1>6, <1>7, <1>8, <1>9, <1>10, <1>11, <1>12, <1>13,
     <1>14, <1>15, <1>16, <1>17, <1>18, <1>19, <1>20, <1>21, <1>22, <1>23, <1>24, <1>25
     DEF Next, Compile, HandleSegfault, InvalidateGuestCodeRange

(* A step keeps what the locals of each place must hold.                   *)
LEMMA LocalsStep == IInv /\ [Next]_vars => Locals'
<1> SUFFICES ASSUME IInv, [Next]_vars PROVE Locals'
  OBVIOUS
<1>t. /\ Locals
      /\ pc \in [Threads -> CompilePC \union InvalidatePC \union OutsidePC]
      /\ blk \in [Threads -> Blocks \union {None}]
      /\ entry \in [Threads -> Entries \union {None}]
      /\ todo \in [Threads -> SUBSET (Pages \union Threads)]
      /\ page \in [Threads -> Pages \union {None}]
      /\ store \in [Threads -> (Words \X Bytes) \union {None}]
  BY DEF IInv, TypeOK, StateOK
<1> USE <1>t DEF Locals, Set, Goto, CompilePC, RelinkPC, InvalidatePC, OutsidePC,
            HoldsEntry, Registering, HasPage
<1>r. ASSUME NEW t \in Threads, Return(t) PROVE Locals'
  <2>1. pc'[t] = "guest" /\ \A u \in Threads \ {t} : pc'[u] = pc[u]
    BY <1>r DEF Return
  <2>2. \A u \in Threads \ {t} : /\ blk'[u] = blk[u] /\ entry'[u] = entry[u] /\ todo'[u] = todo[u]
                                /\ page'[u] = page[u] /\ store'[u] = store[u]
    BY <1>r DEF Return
  <2> QED
    BY <2>1, <2>2 DEF PagesOf
<1>0. CASE UNCHANGED vars
  BY <1>0 DEF vars, guestVars, cacheVars, localVars
<1>1. ASSUME NEW t \in Threads, NEW b \in Blocks, Dispatch(t, b, "lookup") PROVE Locals'
  BY <1>1 DEF Dispatch, guestVars, cacheVars, localVars
<1>2. ASSUME NEW t \in Threads, NEW b \in Blocks, EvictL1(t, b) PROVE Locals'
  BY <1>2 DEF EvictL1, guestVars, cacheVars, localVars
<1>3. ASSUME NEW t \in Threads, Lookup(t, "enter") PROVE Locals'
  <2>1. CASE Return(t)
    BY <2>1 DEF Return
  <2>2. CASE Goto(t, "enter") /\ UNCHANGED localVars
    <3>1. pc[t] = "lookup" /\ UNCHANGED <<blk, entry, todo, page, store>>
      BY <1>3, <2>2 DEF Lookup, localVars
    <3> QED
      BY <2>2, <3>1
  <2> QED
    BY <1>3, <2>1, <2>2 DEF Lookup
<1>4. ASSUME NEW t \in Threads, ClearL2Cache(t) PROVE Locals'
  BY <1>4 DEF ClearL2Cache, guestVars, cacheVars, localVars
<1>5. ASSUME NEW t \in Threads, Enter(t) PROVE Locals'
  BY <1>5 DEF Enter, guestVars, cacheVars, localVars
<1>6. ASSUME NEW t \in Threads, FindAgain(t) PROVE Locals'
  <2>1. CASE Return(t) /\ ReleaseLock(t)
    BY <2>1, <1>r
  <2>2. CASE Goto(t, IF SMCSoftInvalidate THEN "take" ELSE "decode") /\ UNCHANGED <<mode, localVars>>
    <3>1. PICK l \in {"take", "decode"} : Goto(t, l)
      BY <2>2
    <3>2. pc[t] = "find" /\ UNCHANGED <<blk, entry, todo, page, store>>
      BY <1>6, <2>2 DEF FindAgain, localVars
    <3> QED
      BY <3>1, <3>2
  <2> QED
    BY <1>6, <2>1, <2>2 DEF FindAgain
<1>7. ASSUME NEW t \in Threads, TakeRetained(t) PROVE Locals'
  <2>1. pc[t] = "take" /\ blk[t] \in Blocks /\ UNCHANGED <<blk, page, store>>
    BY <1>7 DEF TakeRetained
  <2>2. CASE Goto(t, "decode") /\ UNCHANGED <<entry, todo>>
    BY <2>1, <2>2
  <2>3. CASE /\ RetainedBlocks[blk[t]] # None
             /\ entry' = Set(entry, t, RetainedBlocks[blk[t]]) /\ todo' = Set(todo, t, PagesOf(blk[t]))
             /\ Goto(t, "reregister")
    <3>1. RetainedBlocks[blk[t]] \in Entries
      BY <2>1, <2>3 DEF IInv, TypeOK, StateOK
    <3> QED
      BY <2>1, <2>3, <3>1
  <2> QED
    BY <1>7, <2>2, <2>3 DEF TakeRetained
<1>8. ASSUME NEW t \in Threads, NEW from \in {"reregister", "register"},
             NEW arm \in {"rearm", "arm"}, NEW next \in {"verify", "hash", "publish"},
             Register(t, from, arm, next)
      PROVE  Locals'
  <2>1. blk[t] \in Blocks /\ PagesOf(blk[t]) \subseteq Pages
    BY <1>8, PagesTyped DEF Register
  <2>2. CASE todo[t] = {} /\ Goto(t, next) /\ UNCHANGED <<CodePages, todo, page>>
    BY <1>8, <2>2 DEF Register
  <2>3. ASSUME NEW p \in todo[t], todo' = Set(todo, t, todo[t] \ {p}),
               (page' = Set(page, t, p) /\ Goto(t, arm)) \/ UNCHANGED <<page, pc>>
        PROVE  Locals'
    <3>1. /\ pc[t] = from /\ entry[t] \in Entries /\ UNCHANGED <<blk, entry, store>>
          /\ p \in Pages /\ todo[t] \ {p} \subseteq PagesOf(blk[t])
      BY <1>8, <2>1, <2>3 DEF Register
    <3>2. CASE page' = Set(page, t, p) /\ Goto(t, arm)
      BY <2>1, <2>3, <3>1, <3>2
    <3>3. CASE UNCHANGED <<page, pc>>
      BY <2>1, <2>3, <3>1, <3>3
    <3> QED
      BY <2>3, <3>2, <3>3
  <2> QED
    BY <1>8, <2>2, <2>3 DEF Register
<1>9. ASSUME NEW t \in Threads, NEW from \in {"rearm", "arm"}, NEW next \in {"reregister", "register"},
             MarkGuestExecutableRange(t, from, next)
      PROVE  Locals'
  <2>1. /\ pc[t] = from /\ Goto(t, next) /\ page' = Set(page, t, None)
        /\ UNCHANGED <<blk, entry, todo, store>>
    BY <1>9 DEF MarkGuestExecutableRange
  <2>2. blk[t] \in Blocks /\ entry[t] \in Entries /\ todo[t] \subseteq PagesOf(blk[t])
    BY <1>9, <2>1
  <2> QED
    BY <2>1, <2>2
<1>10. ASSUME NEW t \in Threads, VerifyAfterArm(t) PROVE Locals'
  <2>1. pc[t] = "verify" /\ blk[t] \in Blocks /\ UNCHANGED <<blk, todo, page, store>>
    BY <1>10 DEF VerifyAfterArm
  <2>2. CASE Goto(t, "republish") /\ UNCHANGED entry
    BY <2>1, <2>2
  <2>3. CASE Goto(t, "decode") /\ entry' = Set(entry, t, None)
    BY <2>1, <2>3
  <2> QED
    BY <1>10, <2>2, <2>3 DEF VerifyAfterArm
<1>11. ASSUME NEW t \in Threads, NEW from \in {"republish", "publish"}, AddBlockMapping(t, from) PROVE Locals'
  BY <1>11, <1>r DEF AddBlockMapping
<1>12. ASSUME NEW t \in Threads, Decode(t) PROVE Locals'
  <2>1. blk[t] \in Blocks
    BY <1>12 DEF Decode
  <2>2. [code |-> Contents(blk[t]), hash |-> Contents(blk[t])] \in Entries
    BY <2>1, ContentsTyped DEF Entries, IInv, TypeOK, StateOK
  <2> QED
    <3>1. /\ pc[t] = "decode" /\ Goto(t, "recheck") /\ UNCHANGED <<blk, todo, page, store>>
          /\ entry' = Set(entry, t, [code |-> Contents(blk[t]), hash |-> Contents(blk[t])])
      BY <1>12 DEF Decode
    <3> QED
      BY <2>1, <2>2, <3>1
<1>13. ASSUME NEW t \in Threads, Recheck(t) PROVE Locals'
  <2>1. CASE Return(t) /\ ReleaseLock(t)
    BY <2>1, <1>r
  <2>2. CASE /\ todo' = Set(todo, t, PagesOf(blk[t]))
             /\ Goto(t, "register")
             /\ UNCHANGED <<mode, blk, entry, page, store>>
    BY <1>13, <2>2 DEF Recheck, guestVars, cacheVars, localVars
  <2> QED
    BY <1>13, <2>1, <2>2 DEF Recheck
<1>14. ASSUME NEW t \in Threads, HashGuestBlock(t) PROVE Locals'
  <2>1. blk[t] \in Blocks /\ entry[t] \in Entries
    BY <1>14 DEF HashGuestBlock
  <2>2. [entry[t] EXCEPT !.hash = Contents(blk[t])] \in Entries
    BY <2>1, ContentsTyped DEF Entries, IInv, TypeOK, StateOK
  <2> QED
    <3>1. /\ pc[t] = "hash" /\ Goto(t, "publish") /\ UNCHANGED <<blk, todo, page, store>>
          /\ entry' = Set(entry, t, [entry[t] EXCEPT !.hash = Contents(blk[t])])
      BY <1>14 DEF HashGuestBlock
    <3> QED
      BY <2>1, <2>2, <3>1
<1>15. ASSUME NEW t \in Threads, NEW w \in Words, NEW v \in Bytes, Store(t, w, v) PROVE Locals'
  <2>1. PageOf[w] \in Pages /\ pc[t] = "guest" /\ UNCHANGED <<blk, entry, todo>>
    BY <1>15, LayoutAssumption DEF Store
  <2>2. CASE UNCHANGED <<pc, page, store>>
    BY <2>1, <2>2
  <2>3. CASE page' = Set(page, t, PageOf[w]) /\ store' = Set(store, t, <<w, v>>) /\ Goto(t, "fault")
    BY <2>1, <2>3
  <2> QED
    BY <1>15, <2>2, <2>3 DEF Store
<1>16. ASSUME NEW t \in Threads, Retry(t) PROVE Locals'
  <2>1. store[t] \in Words \X Bytes
    BY <1>16 DEF Retry
  <2>2. CASE Return(t)
    BY <2>2, <1>r
  <2>3. CASE /\ page' = Set(page, t, PageOf[store[t][1]])
             /\ Goto(t, "fault")
             /\ UNCHANGED <<mem, blk, entry, todo, store>>
    <3>1. PageOf[store[t][1]] \in Pages
      BY <2>1, LayoutAssumption
    <3> QED
      BY <2>1, <2>3, <3>1
  <2> QED
    BY <1>16, <2>2, <2>3 DEF Retry
<1>17. ASSUME NEW t \in Threads, NEW p \in Pages, GuestMprotect(t, p) PROVE Locals'
  BY <1>17 DEF GuestMprotect, guestVars, cacheVars, localVars
<1>18. ASSUME NEW t \in Threads, TakeCodeInvalidationWriteLock(t, "fault", "erase") PROVE Locals'
  BY <1>18, SMT DEF TakeCodeInvalidationWriteLock, guestVars, cacheVars, localVars
<1>19. ASSUME NEW t \in Threads, TakeCodeInvalidationWriteLock(t, "hard_lock", "hard_erase") PROVE Locals'
  BY <1>19 DEF TakeCodeInvalidationWriteLock, guestVars, cacheVars, localVars
<1>20. ASSUME NEW t \in Threads, InvalidateCodeBuffers(t, "erase", SMCSoftInvalidate, "walk") PROVE Locals'
  BY <1>20 DEF InvalidateCodeBuffers, guestVars, cacheVars, localVars
<1>21. ASSUME NEW t \in Threads, InvalidateCodeBuffers(t, "hard_erase", FALSE, "hard_walk") PROVE Locals'
  BY <1>21 DEF InvalidateCodeBuffers, guestVars, cacheVars, localVars
<1>22. ASSUME NEW t \in Threads, InvalidateThreadCache(t, "walk", "unprotect") PROVE Locals'
  <2>1. CASE todo[t] = {} /\ Goto(t, "unprotect") /\ UNCHANGED <<L1, L2, todo>>
    BY <1>22, <2>1 DEF InvalidateThreadCache
  <2>2. ASSUME NEW u \in todo[t], todo' = Set(todo, t, todo[t] \ {u}), UNCHANGED pc
        PROVE  Locals'
    BY <1>22, <2>2 DEF InvalidateThreadCache
  <2> QED
    BY <1>22, <2>1, <2>2 DEF InvalidateThreadCache
<1>23. ASSUME NEW t \in Threads, InvalidateThreadCache(t, "hard_walk", "hard_done") PROVE Locals'
  <2>1. CASE todo[t] = {} /\ Goto(t, "hard_done") /\ UNCHANGED <<L1, L2, todo>>
    BY <1>23, <2>1 DEF InvalidateThreadCache
  <2>2. ASSUME NEW u \in todo[t], todo' = Set(todo, t, todo[t] \ {u}), UNCHANGED pc
        PROVE  Locals'
    BY <1>23, <2>2 DEF InvalidateThreadCache
  <2> QED
    BY <1>23, <2>1, <2>2 DEF InvalidateThreadCache
<1>24. ASSUME NEW t \in Threads, Unprotect(t) PROVE Locals'
  BY <1>24 DEF Unprotect, guestVars, cacheVars, localVars
<1>25. ASSUME NEW t \in Threads, Unlock(t) PROVE Locals'
  BY <1>25 DEF Unlock, Return, guestVars, cacheVars, localVars
<1> HIDE DEF IInv, Locals
<1> QED
  BY <1>0, <1>1, <1>2, <1>3, <1>4, <1>5, <1>6, <1>7, <1>8, <1>9, <1>10, <1>11, <1>12, <1>13,
     <1>14, <1>15, <1>16, <1>17, <1>18, <1>19, <1>20, <1>21, <1>22, <1>23, <1>24, <1>25
     DEF Next, Compile, HandleSegfault, InvalidateGuestCodeRange

-----------------------------------------------------------------------------
(* The pages.  Most actions touch none of the shared tables; what they may  *)
(* do to the acting thread is collected in Quiet.                          *)

(* A step of t leaves the place and the locals of the others alone.        *)
Others(t) ==
  \A u \in Threads \ {t} :
    pc'[u] = pc[u] /\ blk'[u] = blk[u] /\ todo'[u] = todo[u] /\ page'[u] = page[u]

(* It leaves the tables alone, and t enters and leaves no duty.            *)
Quiet(t) ==
  /\ UNCHANGED <<CodePages, armed, BlockList>>
  /\ Others(t)
  /\ pc'[t] \in Registering => todo'[t] = PagesOf(blk'[t])
  /\ pc'[t] \in Registration => pc[t] \in Registration /\ blk'[t] = blk[t]
  /\ pc[t] \in GuardPC => pc'[t] \in GuardPC /\ page'[t] = page[t]
  /\ pc'[t] \in SweptPC => pc[t] \in SweptPC /\ page'[t] = page[t]

(* A step that leaves pages, code and duties alone keeps PageInv.          *)
LEMMA QuietPreserves ==
  ASSUME IInv, NEW t \in Threads, Quiet(t)
  PROVE  PageInv'
<1> USE DEF IInv, PageInv
<1>1. Registered' /\ OnPages'
  BY DEF Quiet, Registered, OnPages, PagesOf, BlocksOn
<1>2. Underway'
  <2> SUFFICES ASSUME NEW u \in Threads
               PROVE  /\ pc'[u] \in Registering => \A p \in PagesOf(blk'[u]) \ todo'[u] : blk'[u] \in CodePages'[p]
                      /\ pc'[u] \in Registration => \A p \in PagesOf(blk'[u]) : blk'[u] \in CodePages'[p]
    BY DEF Underway, PagesOf
  <2>1. CASE u = t
    BY <2>1 DEF Quiet, Underway
  <2>2. CASE u # t
    BY <2>2 DEF Quiet, Others, Underway
  <2> QED
    BY <2>1, <2>2
<1>3. CodeArmed'
  <2> SUFFICES ASSUME NEW p \in Pages, CodePages'[p] # {}
               PROVE  p \in armed' \/ \E u \in Threads : Guards(u, p)'
    BY DEF CodeArmed
  <2>1. CASE p \in armed
    BY <2>1 DEF Quiet
  <2>2. ASSUME NEW u \in Threads, Guards(u, p) PROVE Guards(u, p)'
    BY <2>2 DEF Quiet, Others, Guards
  <2> QED
    BY <2>1, <2>2 DEF Quiet, CodeArmed
<1>4. Swept'
  BY DEF Quiet, Others, Swept
<1> QED
  BY <1>1, <1>2, <1>3, <1>4

(* The actions that only move the acting thread on.                        *)
LEMMA QuietActions ==
  ASSUME IInv, NEW t \in Threads,
         \/ \E b \in Blocks : Dispatch(t, b, "lookup") \/ EvictL1(t, b)
         \/ Lookup(t, "enter") \/ ClearL2Cache(t) \/ Enter(t) \/ FindAgain(t) \/ TakeRetained(t)
         \/ VerifyAfterArm(t) \/ Decode(t) \/ Recheck(t) \/ HashGuestBlock(t)
         \/ \E w \in Words, v \in Bytes : Store(t, w, v)
         \/ Retry(t)
         \/ TakeCodeInvalidationWriteLock(t, "fault", "erase")
         \/ TakeCodeInvalidationWriteLock(t, "hard_lock", "hard_erase")
         \/ InvalidateThreadCache(t, "walk", "unprotect")
         \/ InvalidateThreadCache(t, "hard_walk", "hard_done")
         \/ Unlock(t)
  PROVE  Quiet(t)
<1>t. /\ pc \in [Threads -> CompilePC \union InvalidatePC \union OutsidePC]
      /\ blk \in [Threads -> Blocks \union {None}]
      /\ todo \in [Threads -> SUBSET (Pages \union Threads)]
      /\ page \in [Threads -> Pages \union {None}]
  BY DEF IInv, TypeOK, StateOK
<1> USE <1>t DEF Set, Goto, guestVars, cacheVars, localVars, Quiet, Others,
            CompilePC, RelinkPC, InvalidatePC, OutsidePC, Registering, Registration, GuardPC, SweptPC
<1>1. ASSUME NEW b \in Blocks, Dispatch(t, b, "lookup") PROVE Quiet(t)
  BY <1>1 DEF Dispatch
<1>2. ASSUME NEW b \in Blocks, EvictL1(t, b) PROVE Quiet(t)
  <2>1. UNCHANGED <<CodePages, armed, BlockList, pc, blk, todo, page>> /\ pc[t] = "guest"
    BY <1>2 DEF EvictL1
  <2> QED
    BY <2>1
<1>3. CASE Lookup(t, "enter")
  BY <1>3 DEF Lookup, Return
<1>4. CASE ClearL2Cache(t)
  <2>1. UNCHANGED <<CodePages, armed, BlockList, pc, blk, todo, page>> /\ pc[t] = "guest"
    BY <1>4 DEF ClearL2Cache
  <2> QED
    BY <2>1
<1>5. CASE Enter(t)
  BY <1>5 DEF Enter
<1>6. CASE FindAgain(t)
  <2>1. CASE Return(t)
    BY <1>6, <2>1 DEF FindAgain, Return
  <2>2. CASE Goto(t, IF SMCSoftInvalidate THEN "take" ELSE "decode") /\ UNCHANGED localVars
    <3>1. PICK l \in {"take", "decode"} : Goto(t, l)
      BY <2>2
    <3> QED
      BY <1>6, <2>2, <3>1 DEF FindAgain
  <2> QED
    BY <1>6, <2>1, <2>2 DEF FindAgain
<1>7. CASE TakeRetained(t)
  BY <1>7 DEF TakeRetained, PagesOf
<1>8. CASE VerifyAfterArm(t)
  BY <1>8 DEF VerifyAfterArm
<1>9. CASE Decode(t)
  BY <1>9 DEF Decode
<1>10. CASE Recheck(t)
  BY <1>10 DEF Recheck, Return, PagesOf
<1>11. CASE HashGuestBlock(t)
  BY <1>11 DEF HashGuestBlock
<1>12. ASSUME NEW w \in Words, NEW v \in Bytes, Store(t, w, v) PROVE Quiet(t)
  BY <1>12 DEF Store
<1>13. CASE Retry(t)
  BY <1>13 DEF Retry, Return
<1>14. CASE TakeCodeInvalidationWriteLock(t, "fault", "erase")
  BY <1>14 DEF TakeCodeInvalidationWriteLock
<1>15. CASE TakeCodeInvalidationWriteLock(t, "hard_lock", "hard_erase")
  BY <1>15 DEF TakeCodeInvalidationWriteLock
<1>16. CASE InvalidateThreadCache(t, "walk", "unprotect")
  BY <1>16 DEF InvalidateThreadCache
<1>17. CASE InvalidateThreadCache(t, "hard_walk", "hard_done")
  BY <1>17 DEF InvalidateThreadCache
<1>18. CASE Unlock(t)
  BY <1>18 DEF Unlock, Return
<1> HIDE DEF Quiet
<1> QED
  BY <1>1, <1>2, <1>3, <1>4, <1>5, <1>6, <1>7, <1>8, <1>9, <1>10, <1>11, <1>12, <1>13, <1>14, <1>15,
     <1>16, <1>17, <1>18

(* A step of registration: the block joins its page, and a page that was   *)
(* empty gets a thread that will arm it.                                   *)
LEMMA RegisterPreserves ==
  ASSUME IInv, NEW t \in Threads, NEW from \in {"reregister", "register"}, NEW arm \in {"rearm", "arm"},
         NEW next \in {"verify", "hash", "publish"}, Register(t, from, arm, next)
  PROVE  PageInv'
<1> USE DEF IInv, TypeOK, StateOK, PageInv, Set, Goto
<1>1. /\ blk[t] \in Blocks /\ todo[t] \subseteq PagesOf(blk[t]) /\ PagesOf(blk[t]) \subseteq Pages
      /\ UNCHANGED <<armed, BlockList, blk>>
      /\ \A u \in Threads \ {t} : pc'[u] = pc[u] /\ todo'[u] = todo[u] /\ page'[u] = page[u]
      /\ pc[t] = from
  <2>1. blk[t] \in Blocks /\ todo[t] \subseteq PagesOf(blk[t])
    BY DEF Register, Locals, CompilePC, RelinkPC, Registering
  <2>2. PagesOf(blk[t]) \subseteq Pages
    BY <2>1, PagesTyped
  <2> QED
    BY <2>1, <2>2 DEF Register, guestVars
<1>2. CASE todo[t] = {} /\ Goto(t, next) /\ UNCHANGED <<CodePages, todo, page>>
  <2>1. Registered' /\ OnPages'
    BY <1>1, <1>2 DEF Registered, OnPages, PagesOf, BlocksOn
  <2>2. Underway'
    BY <1>1, <1>2 DEF Underway, PagesOf, Registering, Registration
  <2>3. CodeArmed'
    <3> SUFFICES ASSUME NEW p \in Pages, CodePages[p] # {}
                 PROVE  p \in armed' \/ \E u \in Threads : Guards(u, p)'
      BY <1>2 DEF CodeArmed
    <3>1. ASSUME NEW u \in Threads, Guards(u, p) PROVE Guards(u, p)'
      BY <1>1, <1>2, <3>1 DEF Guards, GuardPC
    <3> QED
      BY <1>1, <3>1 DEF CodeArmed
  <2>4. Swept'
    BY <1>1, <1>2 DEF Swept, SweptPC
  <2> QED
    BY <2>1, <2>2, <2>3, <2>4
<1>3. ASSUME NEW p \in todo[t],
             CodePages' = [CodePages EXCEPT ![p] = @ \union {blk[t]}],
             todo' = Set(todo, t, todo[t] \ {p}),
             \/ CodePages[p] = {} /\ page' = Set(page, t, p) /\ Goto(t, arm)
             \/ CodePages[p] # {} /\ UNCHANGED <<page, pc>>
      PROVE  PageInv'
  <2>0. p \in Pages /\ p \in PagesOf(blk[t]) /\ pc'[t] \in {from, arm}
    BY <1>1, <1>3
  <2>1. Registered' /\ OnPages'
    <3>1. \A q \in Pages : CodePages'[q] = IF q = p THEN CodePages[q] \union {blk[t]} ELSE CodePages[q]
      BY <1>3
    <3>2. \A b \in Blocks : PagesOf(b) \subseteq Pages
      BY PagesTyped
    <3>3. Registered'
      <4> SUFFICES ASSUME NEW b \in Blocks, BlockList[b] # None, NEW q \in PagesOf(b)
                   PROVE  b \in CodePages'[q]
        BY <1>1 DEF Registered, PagesOf
      <4>1. q \in Pages /\ b \in CodePages[q]
        BY <3>2 DEF Registered
      <4> QED
        BY <3>1, <4>1
    <3>4. OnPages'
      <4> SUFFICES ASSUME NEW q \in Pages, NEW b \in CodePages'[q]
                   PROVE  b \in BlocksOn(q)
        BY DEF OnPages, PagesOf, BlocksOn
      <4>1. CASE b \in CodePages[q]
        BY <4>1 DEF OnPages
      <4>2. CASE b \notin CodePages[q]
        BY <1>1, <2>0, <3>1, <4>2 DEF BlocksOn
      <4> QED
        BY <4>1, <4>2
    <3> QED
      BY <3>3, <3>4
  <2>2. Underway'
    <3> SUFFICES ASSUME NEW u \in Threads
                 PROVE  /\ pc'[u] \in Registering => \A q \in PagesOf(blk[u]) \ todo'[u] : blk[u] \in CodePages'[q]
                        /\ pc'[u] \in Registration => \A q \in PagesOf(blk[u]) : blk[u] \in CodePages'[q]
      BY <1>1 DEF Underway, PagesOf
    <3>0. blk[u] \in Blocks \/ (pc[u] \notin Registering /\ pc[u] \notin Registration)
      BY DEF Locals, Registering, Registration, CompilePC, RelinkPC
    <3>1. \A q \in Pages : CodePages[q] \subseteq CodePages'[q]
      BY <1>3
    <3>2. CASE u = t
      <4>1. pc[t] \in Registering /\ pc'[t] \in Registering /\ pc'[t] \notin Registration
        BY <1>1, <2>0 DEF Registering, Registration
      <4>2. todo'[t] = todo[t] \ {p} /\ blk[t] \in CodePages'[p]
        BY <1>3, <2>0
      <4> QED
        BY <1>1, <3>1, <3>2, <4>1, <4>2 DEF Underway
    <3>3. CASE u # t
      <4>1. blk[u] \in Blocks => PagesOf(blk[u]) \subseteq Pages
        BY PagesTyped
      <4> QED
        BY <1>1, <3>0, <3>1, <3>3, <4>1 DEF Underway
    <3> QED
      BY <3>2, <3>3
  <2>3. CodeArmed'
    <3> SUFFICES ASSUME NEW q \in Pages, CodePages'[q] # {}
                 PROVE  q \in armed' \/ \E u \in Threads : Guards(u, q)'
      BY DEF CodeArmed
    <3>1. ASSUME NEW u \in Threads, Guards(u, q) PROVE Guards(u, q)'
      BY <1>1, <1>3, <3>1 DEF Guards, GuardPC
    <3>2. CASE q # p \/ CodePages[p] # {}
      BY <1>1, <1>3, <3>1, <3>2 DEF CodeArmed
    <3>3. CASE q = p /\ CodePages[p] = {}
      <4>1. Guards(t, p)'
        BY <1>3, <2>0, <3>3 DEF Guards, GuardPC
      <4> QED
        BY <3>3, <4>1
    <3> QED
      BY <3>2, <3>3
  <2>4. Swept'
    <3>1. mode[t] = "read"
      BY <1>1 DEF Locks, CompilePC, RelinkPC
    <3>2. \A u \in Threads : pc'[u] \notin SweptPC
      BY <1>1, <2>0, <3>1 DEF Locks, SweptPC, InvalidatePC
    <3> QED
      BY <3>2 DEF Swept
  <2> QED
    BY <2>1, <2>2, <2>3, <2>4
<1> QED
  BY <1>2, <1>3 DEF Register

(* The page that had to be armed is armed.                                 *)
LEMMA MarkPreserves ==
  ASSUME IInv, NEW t \in Threads, NEW from \in {"arm", "rearm"}, NEW next \in {"register", "reregister"},
         MarkGuestExecutableRange(t, from, next)
  PROVE  PageInv'
<1> USE DEF IInv, TypeOK, StateOK, PageInv, Set, Goto
<1>1. /\ UNCHANGED <<CodePages, BlockList, blk, todo>>
      /\ pc[t] = from /\ pc'[t] = next /\ page[t] \in Pages /\ armed' = armed \union {page[t]}
      /\ \A u \in Threads \ {t} : pc'[u] = pc[u] /\ page'[u] = page[u]
  BY DEF MarkGuestExecutableRange, Locals, HasPage, cacheVars
<1>2. Registered' /\ OnPages'
  BY <1>1 DEF Registered, OnPages, PagesOf, BlocksOn
<1>3. Underway'
  BY <1>1 DEF Underway, PagesOf, Registering, Registration
<1>4. CodeArmed'
  <2> SUFFICES ASSUME NEW p \in Pages, CodePages[p] # {}
               PROVE  p \in armed' \/ \E u \in Threads : Guards(u, p)'
    BY <1>1 DEF CodeArmed
  <2>1. ASSUME NEW u \in Threads, Guards(u, p) PROVE p \in armed' \/ Guards(u, p)'
    BY <1>1, <2>1 DEF Guards, GuardPC
  <2> QED
    BY <1>1, <2>1 DEF CodeArmed
<1>5. Swept'
  BY <1>1 DEF Swept, SweptPC
<1> QED
  BY <1>2, <1>3, <1>4, <1>5

(* A block enters the shared map only when it is registered everywhere.    *)
LEMMA PublishPreserves ==
  ASSUME IInv, NEW t \in Threads, NEW from \in {"publish", "republish"}, AddBlockMapping(t, from)
  PROVE  PageInv'
<1> USE DEF IInv, TypeOK, StateOK, PageInv, Set, Goto
<1>1. /\ UNCHANGED <<CodePages, armed>>
      /\ pc[t] = from /\ pc'[t] = "guest" /\ blk[t] \in Blocks
      /\ \A u \in Threads \ {t} : pc'[u] = pc[u] /\ page'[u] = page[u] /\ blk'[u] = blk[u] /\ todo'[u] = todo[u]
      /\ \A b \in Blocks \ {blk[t]} : BlockList'[b] = BlockList[b]
  BY DEF AddBlockMapping, Return, Locals, CompilePC, RelinkPC, guestVars
<1>2. OnPages'
  BY <1>1 DEF OnPages, PagesOf, BlocksOn
<1>3. Registered'
  <2>1. \A p \in PagesOf(blk[t]) : blk[t] \in CodePages[p]
    BY <1>1 DEF Underway, Registration
  <2> QED
    BY <1>1, <2>1 DEF Registered, PagesOf
<1>4. Underway'
  BY <1>1 DEF Underway, PagesOf, Registering, Registration
<1>5. CodeArmed'
  <2> SUFFICES ASSUME NEW p \in Pages, CodePages[p] # {}
               PROVE  p \in armed' \/ \E u \in Threads : Guards(u, p)'
    BY <1>1 DEF CodeArmed
  <2>1. ASSUME NEW u \in Threads, Guards(u, p) PROVE Guards(u, p)'
    BY <1>1, <2>1 DEF Guards, GuardPC
  <2> QED
    BY <1>1, <2>1 DEF CodeArmed
<1>6. Swept'
  BY <1>1 DEF Swept, SweptPC
<1> QED
  BY <1>2, <1>3, <1>4, <1>5, <1>6

(* The thread that took the protection away answers for the page.          *)
LEMMA MprotectPreserves ==
  ASSUME IInv, NEW t \in Threads, NEW p \in Pages, GuestMprotect(t, p)
  PROVE  PageInv'
<1> USE DEF IInv, TypeOK, StateOK, PageInv, Set, Goto
<1>1. /\ UNCHANGED <<CodePages, BlockList, blk, todo>>
      /\ pc[t] = "guest" /\ pc'[t] = "hard_lock" /\ page'[t] = p /\ armed' = armed \ {p}
      /\ \A u \in Threads \ {t} : pc'[u] = pc[u] /\ page'[u] = page[u]
  BY DEF GuestMprotect, cacheVars
<1>2. Registered' /\ OnPages'
  BY <1>1 DEF Registered, OnPages, PagesOf, BlocksOn
<1>3. Underway'
  BY <1>1 DEF Underway, PagesOf, Registering, Registration
<1>4. CodeArmed'
  <2> SUFFICES ASSUME NEW q \in Pages, CodePages[q] # {}
               PROVE  q \in armed' \/ \E u \in Threads : Guards(u, q)'
    BY <1>1 DEF CodeArmed
  <2>1. ASSUME NEW u \in Threads, Guards(u, q) PROVE Guards(u, q)'
    BY <1>1, <2>1 DEF Guards, GuardPC
  <2>2. Guards(t, p)'
    BY <1>1 DEF Guards, GuardPC
  <2> QED
    BY <1>1, <2>1, <2>2 DEF CodeArmed
<1>5. Swept'
  BY <1>1 DEF Swept, SweptPC
<1> QED
  BY <1>2, <1>3, <1>4, <1>5

(* The invalidation empties its page; no compile is under way meanwhile.   *)
LEMMA ErasePreserves ==
  ASSUME IInv, NEW t \in Threads, NEW from \in {"erase", "hard_erase"}, NEW soft \in BOOLEAN,
         NEW next \in {"walk", "hard_walk"}, InvalidateCodeBuffers(t, from, soft, next)
  PROVE  PageInv'
<1> USE DEF IInv, TypeOK, StateOK, PageInv, Set, Goto
<1>1. /\ UNCHANGED <<armed, blk, page>>
      /\ pc[t] = from /\ pc'[t] = next /\ page[t] \in Pages
      /\ \A u \in Threads \ {t} : pc'[u] = pc[u] /\ todo'[u] = todo[u]
      /\ CodePages' = [CodePages EXCEPT ![page[t]] = {}]
  BY DEF InvalidateCodeBuffers, SoftInvalidateRange, InvalidateRange, Locals, HasPage, InvalidatePC, guestVars
<1>2. \A b \in Blocks : BlockList'[b] # None => BlockList[b] # None /\ b \notin CodePages[page[t]]
  <2>1. CASE soft
    <3>1. SoftInvalidateRange(page[t])
      BY <2>1 DEF InvalidateCodeBuffers
    <3> QED
      BY <3>1 DEF SoftInvalidateRange
  <2>2. CASE ~soft
    <3>1. InvalidateRange(page[t])
      BY <2>2 DEF InvalidateCodeBuffers
    <3> QED
      BY <3>1 DEF InvalidateRange
  <2> QED
    BY <2>1, <2>2
<1>3. \A b \in Blocks : PagesOf(b) \subseteq Pages
  BY PagesTyped
<1>4. OnPages'
  <2>1. \A p \in Pages : CodePages'[p] \subseteq CodePages[p]
    BY <1>1
  <2> QED
    BY <2>1 DEF OnPages, PagesOf, BlocksOn
<1>5. Registered'
  <2> SUFFICES ASSUME NEW b \in Blocks, BlockList'[b] # None, NEW p \in PagesOf(b)
               PROVE  b \in CodePages'[p]
    BY DEF Registered, PagesOf
  <2>1. b \in CodePages[p] /\ p # page[t] /\ p \in Pages
    BY <1>2, <1>3 DEF Registered
  <2> QED
    BY <1>1, <2>1
<1>6. Underway'
  <2>1. mode[t] = "write"
    BY <1>1 DEF Locks, InvalidatePC
  <2>2. \A u \in Threads : pc'[u] \notin CompilePC
    <3>1. next \notin CompilePC
      BY DEF CompilePC, RelinkPC
    <3> QED
      BY <1>1, <2>1, <3>1 DEF Locks
  <2> QED
    BY <2>2 DEF Underway, CompilePC, RelinkPC, Registering, Registration
<1>7. CodeArmed'
  <2> SUFFICES ASSUME NEW p \in Pages, CodePages'[p] # {}
               PROVE  p \in armed' \/ \E u \in Threads : Guards(u, p)'
    BY DEF CodeArmed
  <2>1. p # page[t] /\ CodePages[p] # {}
    BY <1>1
  <2>2. ASSUME NEW u \in Threads, Guards(u, p) PROVE Guards(u, p)'
    BY <1>1, <2>1, <2>2 DEF Guards, GuardPC
  <2> QED
    BY <1>1, <2>1, <2>2 DEF CodeArmed
<1>8. Swept'
  <2>1. mode[t] = "write"
    BY <1>1 DEF Locks, InvalidatePC
  <2>2. \A u \in Threads \ {t} : pc'[u] \notin SweptPC
    BY <1>1, <2>1 DEF Locks, SweptPC, InvalidatePC
  <2> QED
    BY <1>1, <2>2 DEF Swept
<1> QED
  BY <1>4, <1>5, <1>6, <1>7, <1>8

(* The page that is unprotected holds no code.                             *)
LEMMA UnprotectPreserves ==
  ASSUME IInv, NEW t \in Threads, Unprotect(t)
  PROVE  PageInv'
<1> USE DEF IInv, TypeOK, StateOK, PageInv, Set, Goto
<1>1. /\ UNCHANGED <<CodePages, BlockList, blk, todo, page>>
      /\ pc[t] = "unprotect" /\ pc'[t] = "retry" /\ armed' = armed \ {page[t]}
      /\ \A u \in Threads \ {t} : pc'[u] = pc[u]
  BY DEF Unprotect, cacheVars, localVars
<1>2. Registered' /\ OnPages'
  BY <1>1 DEF Registered, OnPages, PagesOf, BlocksOn
<1>3. Underway'
  BY <1>1 DEF Underway, PagesOf, Registering, Registration
<1>4. CodeArmed'
  <2> SUFFICES ASSUME NEW p \in Pages, CodePages[p] # {}
               PROVE  p \in armed' \/ \E u \in Threads : Guards(u, p)'
    BY <1>1 DEF CodeArmed
  <2>1. ASSUME NEW u \in Threads, Guards(u, p) PROVE Guards(u, p)'
    BY <1>1, <2>1 DEF Guards, GuardPC
  <2>2. p # page[t]
    BY <1>1 DEF Swept, SweptPC
  <2> QED
    BY <1>1, <2>1, <2>2 DEF CodeArmed
<1>5. Swept'
  BY <1>1 DEF Swept, SweptPC
<1> QED
  BY <1>2, <1>3, <1>4, <1>5

(* A step keeps what is known of the pages, whichever action it is.        *)
LEMMA PagesStep == IInv /\ [Next]_vars => PageInv'
<1> SUFFICES ASSUME IInv, [Next]_vars PROVE PageInv'
  OBVIOUS
<1>1. CASE UNCHANGED vars
  <2>1. UNCHANGED <<armed, BlockList, CodePages, pc, blk, todo, page>>
    BY <1>1 DEF vars, guestVars, cacheVars, localVars
  <2> QED
    BY <2>1 DEF IInv, PageInv, Registered, OnPages, Underway, CodeArmed, Guards, Swept, PagesOf, BlocksOn
<1>2. ASSUME NEW t \in Threads,
             \/ \E b \in Blocks : Dispatch(t, b, "lookup") \/ EvictL1(t, b)
             \/ Lookup(t, "enter") \/ ClearL2Cache(t)
             \/ Compile(t)
             \/ \E w \in Words, v \in Bytes : Store(t, w, v)
             \/ Retry(t)
             \/ \E p \in Pages : GuestMprotect(t, p)
             \/ HandleSegfault(t)
             \/ InvalidateGuestCodeRange(t)
      PROVE  PageInv'
  <2>1. CASE \/ \E b \in Blocks : Dispatch(t, b, "lookup") \/ EvictL1(t, b)
             \/ Lookup(t, "enter") \/ ClearL2Cache(t)
             \/ \E w \in Words, v \in Bytes : Store(t, w, v)
             \/ Retry(t)
    BY <2>1, QuietActions, QuietPreserves
  <2>2. CASE Compile(t)
    <3>1. CASE \/ Enter(t) \/ FindAgain(t) \/ TakeRetained(t) \/ VerifyAfterArm(t) \/ Decode(t)
               \/ Recheck(t) \/ HashGuestBlock(t)
      BY <3>1, QuietActions, QuietPreserves
    <3>2. CASE Register(t, "reregister", "rearm", "verify")
      BY <3>2, RegisterPreserves
    <3>3. CASE Register(t, "register", "arm", IF SMCSoftInvalidate THEN "hash" ELSE "publish")
      <4>1. CASE SMCSoftInvalidate
        BY <3>3, <4>1, RegisterPreserves
      <4>2. CASE ~SMCSoftInvalidate
        BY <3>3, <4>2, RegisterPreserves
      <4> QED
        BY <4>1, <4>2
    <3>4. CASE MarkGuestExecutableRange(t, "rearm", "reregister") \/ MarkGuestExecutableRange(t, "arm", "register")
      BY <3>4, MarkPreserves
    <3>5. CASE AddBlockMapping(t, "republish") \/ AddBlockMapping(t, "publish")
      BY <3>5, PublishPreserves
    <3> QED
      BY <2>2, <3>1, <3>2, <3>3, <3>4, <3>5 DEF Compile
  <2>3. CASE \E p \in Pages : GuestMprotect(t, p)
    BY <2>3, MprotectPreserves
  <2>4. CASE HandleSegfault(t)
    <3>1. CASE TakeCodeInvalidationWriteLock(t, "fault", "erase") \/ InvalidateThreadCache(t, "walk", "unprotect")
      BY <3>1, QuietActions, QuietPreserves
    <3>2. CASE InvalidateCodeBuffers(t, "erase", SMCSoftInvalidate, "walk")
      BY <3>2, LayoutAssumption, ErasePreserves
    <3>3. CASE Unprotect(t)
      BY <3>3, UnprotectPreserves
    <3> QED
      BY <2>4, <3>1, <3>2, <3>3 DEF HandleSegfault
  <2>5. CASE InvalidateGuestCodeRange(t)
    <3>1. CASE \/ TakeCodeInvalidationWriteLock(t, "hard_lock", "hard_erase")
               \/ InvalidateThreadCache(t, "hard_walk", "hard_done") \/ Unlock(t)
      BY <3>1, QuietActions, QuietPreserves
    <3>2. CASE InvalidateCodeBuffers(t, "hard_erase", FALSE, "hard_walk")
      BY <3>2, ErasePreserves
    <3> QED
      BY <2>5, <3>1, <3>2 DEF InvalidateGuestCodeRange
  <2> QED
    BY <1>2, <2>1, <2>2, <2>3, <2>4, <2>5
<1> QED
  BY <1>1, <1>2 DEF Next

-----------------------------------------------------------------------------
(* The caches.  CacheQuiet collects what most actions do to them.          *)

(* Thread t has b cached; the invalidation of u has yet to walk it.        *)
Cached(t, b) == L1[t][b] # None \/ L2[t][b] # None
WalkPC == {"walk", "hard_walk"}
Covers(u, t, b) == pc[u] \in WalkPC /\ t \in todo[u] /\ page[u] \in PagesOf(b)

(* A step of t that erases and walks nothing.                              *)
CacheQuiet(t) ==
  /\ Others(t)
  /\ pc[t] \notin WalkPC
  /\ \A b \in Blocks : BlockList'[b] = None => BlockList[b] = None
  /\ \A u \in Threads, b \in Blocks : Cached(u, b)' /\ BlockList'[b] = None => Cached(u, b)

(* A step that erases and walks nothing keeps CachesFollow.                *)
LEMMA CacheQuietPreserves ==
  ASSUME IInv, NEW t \in Threads, CacheQuiet(t)
  PROVE  CachesFollow'
<1> SUFFICES ASSUME NEW u \in Threads, NEW b \in Blocks, Cached(u, b)', BlockList'[b] = None
             PROVE  \E w \in Threads : Covers(w, u, b)'
  BY DEF CachesFollow, Cached, Covers, WalkPC, PagesOf
<1>1. Cached(u, b) /\ BlockList[b] = None
  BY DEF CacheQuiet
<1>2. PICK w \in Threads : Covers(w, u, b)
  BY <1>1 DEF IInv, CachesFollow, Cached, Covers, WalkPC
<1>3. Covers(w, u, b)'
  BY <1>2 DEF CacheQuiet, Covers, Others, PagesOf
<1> QED
  BY <1>3

(* What a lookup moves into L1 and L2 was cached before or is in the map.  *)
LEMMA FindBlockCaches ==
  ASSUME IInv, NEW t \in Threads, blk[t] \in Blocks, FindBlock(t, blk[t]), UNCHANGED BlockList
  PROVE  \A u \in Threads, b \in Blocks : Cached(u, b)' /\ BlockList'[b] = None => Cached(u, b)
<1> SUFFICES ASSUME NEW u \in Threads, NEW b \in Blocks, Cached(u, b)', BlockList[b] = None, ~Cached(u, b)
             PROVE  FALSE
  OBVIOUS
<1>1. L1[u][b] = None /\ L2[u][b] = None
  BY DEF Cached
<1>2. CASE u = t /\ b = blk[t]
  <2>1. Found(t, b) = None
    BY <1>1, <1>2 DEF Found
  <2>2. L1'[t][b] = None /\ L2'[t][b] = None
    BY <1>1, <1>2, <2>1 DEF FindBlock, IInv, TypeOK, StateOK
  <2> QED
    BY <1>2, <2>2 DEF Cached
<1>3. CASE ~(u = t /\ b = blk[t])
  <2>1. L1'[u][b] = L1[u][b] /\ L2'[u][b] = L2[u][b]
    BY <1>3 DEF FindBlock, IInv, TypeOK, StateOK
  <2> QED
    BY <1>1, <2>1 DEF Cached
<1> QED
  BY <1>2, <1>3

(* Every action but the two of an invalidation is quiet about the caches.  *)
LEMMA CacheQuietActions ==
  ASSUME IInv, NEW t \in Threads,
         \/ \E b \in Blocks : Dispatch(t, b, "lookup") \/ EvictL1(t, b)
         \/ Lookup(t, "enter") \/ ClearL2Cache(t)
         \/ Compile(t)
         \/ \E w \in Words, v \in Bytes : Store(t, w, v)
         \/ Retry(t)
         \/ \E p \in Pages : GuestMprotect(t, p)
         \/ TakeCodeInvalidationWriteLock(t, "fault", "erase") \/ Unprotect(t)
         \/ TakeCodeInvalidationWriteLock(t, "hard_lock", "hard_erase") \/ Unlock(t)
  PROVE  CacheQuiet(t)
<1> USE DEF IInv, TypeOK, StateOK, Set, Goto, guestVars, cacheVars, localVars, CacheQuiet, Others, WalkPC, Cached
<1>1. ASSUME NEW b \in Blocks, Dispatch(t, b, "lookup") PROVE CacheQuiet(t)
  BY <1>1 DEF Dispatch
<1>2. ASSUME NEW b \in Blocks, EvictL1(t, b) PROVE CacheQuiet(t)
  <2>1. UNCHANGED <<BlockList, L2, pc, blk, todo, page>> /\ pc[t] = "guest"
    BY <1>2 DEF EvictL1
  <2>2. \A u \in Threads, c \in Blocks : L1'[u][c] = L1[u][c] \/ L1'[u][c] = None
    BY <1>2 DEF EvictL1
  <2> QED
    BY <2>1, <2>2
<1>3. CASE Lookup(t, "enter")
  <2>1. blk[t] \in Blocks /\ FindBlock(t, blk[t]) /\ UNCHANGED BlockList /\ pc[t] = "lookup" /\ Others(t)
    <3>1. blk[t] \in Blocks /\ pc[t] = "lookup"
      BY <1>3 DEF Lookup, Locals
    <3>2. CASE Return(t)
      BY <1>3, <3>1, <3>2 DEF Lookup, Return
    <3>3. CASE Goto(t, "enter") /\ UNCHANGED localVars
      BY <1>3, <3>1, <3>3 DEF Lookup
    <3> QED
      BY <1>3, <3>2, <3>3 DEF Lookup
  <2> HIDE DEF IInv, Cached
  <2> QED
    BY <2>1, FindBlockCaches
<1>4. CASE ClearL2Cache(t)
  <2>1. UNCHANGED <<BlockList, L1, pc, blk, todo, page>> /\ pc[t] = "guest"
    BY <1>4 DEF ClearL2Cache
  <2>2. \A u \in Threads, c \in Blocks : L2'[u][c] = L2[u][c] \/ L2'[u][c] = None
    BY <1>4 DEF ClearL2Cache
  <2> QED
    BY <2>1, <2>2
<1>5. CASE Compile(t)
  <2>1. CASE FindAgain(t)
    <3>1. blk[t] \in Blocks /\ FindBlock(t, blk[t]) /\ UNCHANGED BlockList /\ pc[t] = "find" /\ Others(t)
      <4>1. blk[t] \in Blocks /\ pc[t] = "find"
        BY <2>1 DEF FindAgain, Locals, CompilePC
      <4>2. CASE Return(t)
        BY <2>1, <4>1, <4>2 DEF FindAgain, Return
      <4>3. CASE Goto(t, IF SMCSoftInvalidate THEN "take" ELSE "decode") /\ UNCHANGED localVars
        BY <2>1, <4>1, <4>3 DEF FindAgain
      <4> QED
        BY <2>1, <4>2, <4>3 DEF FindAgain
    <3> HIDE DEF IInv, Cached
    <3> QED
      BY <3>1, FindBlockCaches
  <2>2. CASE Recheck(t)
    <3>1. blk[t] \in Blocks /\ FindBlock(t, blk[t]) /\ UNCHANGED BlockList /\ pc[t] = "recheck" /\ Others(t)
      <4>1. blk[t] \in Blocks /\ pc[t] = "recheck"
        BY <2>2 DEF Recheck, Locals, CompilePC
      <4>2. CASE Return(t)
        BY <2>2, <4>1, <4>2 DEF Recheck, Return
      <4>3. CASE Goto(t, "register") /\ UNCHANGED <<mode, blk, entry, page, store>>
        <5>1. FindBlock(t, blk[t]) /\ UNCHANGED BlockList /\ todo' = Set(todo, t, PagesOf(blk[t]))
          BY <2>2, <4>3 DEF Recheck, Return
        <5> QED
          BY <4>1, <4>3, <5>1
      <4> QED
        BY <2>2, <4>2, <4>3 DEF Recheck
    <3> HIDE DEF IInv, Cached
    <3> QED
      BY <3>1, FindBlockCaches
  <2>3. ASSUME NEW from \in {"republish", "publish"}, AddBlockMapping(t, from) PROVE CacheQuiet(t)
    <3>1. pc[t] = from /\ Others(t) /\ blk[t] \in Blocks /\ entry[t] # None /\ UNCHANGED L2
      BY <2>3, NoneAssumption DEF AddBlockMapping, Return, Locals, CompilePC, RelinkPC, HoldsEntry
    <3>2. \A b \in Blocks : BlockList'[b] = IF b = blk[t] THEN entry[t] ELSE BlockList[b]
      BY <2>3, <3>1 DEF AddBlockMapping
    <3>3. \A u \in Threads, b \in Blocks : b # blk[t] => L1'[u][b] = L1[u][b]
      BY <2>3, <3>1 DEF AddBlockMapping
    <3> QED
      BY <3>1, <3>2, <3>3
  <2>4. CASE Enter(t)
    BY <2>4 DEF Enter
  <2>5. CASE TakeRetained(t)
    BY <2>5 DEF TakeRetained
  <2>6. CASE VerifyAfterArm(t) \/ Decode(t) \/ HashGuestBlock(t)
    BY <2>6 DEF VerifyAfterArm, Decode, HashGuestBlock
  <2>7. ASSUME NEW from \in {"reregister", "register"}, NEW arm \in {"rearm", "arm"},
               NEW next \in {"verify", "hash", "publish"}, Register(t, from, arm, next)
        PROVE  CacheQuiet(t)
    BY <2>7 DEF Register
  <2>8. ASSUME NEW from \in {"arm", "rearm"}, NEW next \in {"register", "reregister"},
               MarkGuestExecutableRange(t, from, next)
        PROVE  CacheQuiet(t)
    BY <2>8 DEF MarkGuestExecutableRange
  <2>9. (IF SMCSoftInvalidate THEN "hash" ELSE "publish") \in {"verify", "hash", "publish"}
    OBVIOUS
  <2> HIDE DEF IInv, CacheQuiet
  <2> QED
    BY <1>5, <2>1, <2>2, <2>3, <2>4, <2>5, <2>6, <2>7, <2>8, <2>9 DEF Compile
<1>6. ASSUME NEW w \in Words, NEW v \in Bytes, Store(t, w, v) PROVE CacheQuiet(t)
  BY <1>6 DEF Store
<1>7. CASE Retry(t)
  BY <1>7 DEF Retry, Return
<1>8. ASSUME NEW p \in Pages, GuestMprotect(t, p) PROVE CacheQuiet(t)
  BY <1>8 DEF GuestMprotect
<1>9. ASSUME NEW from \in {"fault", "hard_lock"}, NEW next \in {"erase", "hard_erase"},
             TakeCodeInvalidationWriteLock(t, from, next)
      PROVE  CacheQuiet(t)
  BY <1>9 DEF TakeCodeInvalidationWriteLock
<1>10. CASE Unprotect(t)
  BY <1>10 DEF Unprotect
<1>11. CASE Unlock(t)
  BY <1>11 DEF Unlock, Return
<1> HIDE DEF IInv, CacheQuiet
<1> QED
  BY <1>1, <1>2, <1>3, <1>4, <1>5, <1>6, <1>7, <1>8, <1>9, <1>10, <1>11

(* An erased block may be cached by any thread, and every thread is walked. *)
LEMMA EraseCaches ==
  ASSUME IInv, NEW t \in Threads, NEW from \in {"erase", "hard_erase"}, NEW soft \in BOOLEAN,
         NEW next \in {"walk", "hard_walk"}, InvalidateCodeBuffers(t, from, soft, next)
  PROVE  CachesFollow'
<1> USE DEF IInv, TypeOK, StateOK, Set, Goto
<1> SUFFICES ASSUME NEW u \in Threads, NEW b \in Blocks, Cached(u, b)', BlockList'[b] = None
             PROVE  \E w \in Threads : Covers(w, u, b)'
  BY DEF CachesFollow, Cached, Covers, WalkPC, PagesOf
<1>1. /\ UNCHANGED <<L1, L2, page>>
      /\ pc[t] = from /\ pc'[t] = next /\ page[t] \in Pages /\ todo'[t] = Threads
      /\ \A w \in Threads \ {t} : pc'[w] = pc[w] /\ todo'[w] = todo[w]
  BY DEF InvalidateCodeBuffers, SoftInvalidateRange, InvalidateRange, Locals, HasPage, InvalidatePC
<1>2. BlockList[b] = None \/ b \in CodePages[page[t]]
  <2>1. CASE soft
    <3>1. SoftInvalidateRange(page[t])
      BY <2>1 DEF InvalidateCodeBuffers
    <3> QED
      BY <3>1 DEF SoftInvalidateRange
  <2>2. CASE ~soft
    <3>1. InvalidateRange(page[t])
      BY <2>2 DEF InvalidateCodeBuffers
    <3> QED
      BY <3>1 DEF InvalidateRange
  <2> QED
    BY <2>1, <2>2
<1>3. CASE BlockList[b] = None
  <2>1. PICK w \in Threads : Covers(w, u, b)
    BY <1>1, <1>3 DEF CachesFollow, Cached, Covers, WalkPC
  <2>2. w # t
    BY <1>1, <2>1 DEF Covers, WalkPC
  <2>3. Covers(w, u, b)'
    BY <1>1, <2>1, <2>2 DEF Covers, PagesOf
  <2> QED
    BY <2>3
<1>4. CASE b \in CodePages[page[t]]
  <2>1. page[t] \in PagesOf(b)
    BY <1>1, <1>4 DEF PageInv, OnPages, BlocksOn
  <2>2. Covers(t, u, b)'
    BY <1>1, <2>1 DEF Covers, WalkPC, PagesOf
  <2> QED
    BY <2>2
<1> QED
  BY <1>2, <1>3, <1>4

(* A walked thread no longer caches a block of the page; there is only one  *)
(* walk at a time.                                                         *)
LEMMA WalkCaches ==
  ASSUME IInv, NEW t \in Threads, NEW from \in WalkPC, NEW next \in {"unprotect", "hard_done"},
         InvalidateThreadCache(t, from, next)
  PROVE  CachesFollow'
<1> USE DEF IInv, TypeOK, StateOK, Set, Goto
<1> SUFFICES ASSUME NEW u \in Threads, NEW b \in Blocks, Cached(u, b)', BlockList'[b] = None
             PROVE  \E w \in Threads : Covers(w, u, b)'
  BY DEF CachesFollow, Cached, Covers, WalkPC, PagesOf
<1>1. /\ UNCHANGED <<page, BlockList>> /\ pc[t] = from /\ todo[t] \subseteq Threads
  BY DEF InvalidateThreadCache, WalkPC, Locals
<1>2. mode[t] = "write"
  BY <1>1 DEF Locks, InvalidatePC, WalkPC
<1>3. ASSUME NEW w \in Threads, Covers(w, u, b) PROVE w = t
  BY <1>2, <1>3 DEF Locks, Covers, WalkPC, InvalidatePC
<1>4. CASE todo[t] = {} /\ UNCHANGED <<L1, L2>>
  <2>1. ~Covers(t, u, b)
    BY <1>4 DEF Covers
  <2>2. Cached(u, b) /\ BlockList[b] = None
    BY <1>1, <1>4 DEF Cached
  <2> QED
    BY <1>3, <2>1, <2>2 DEF CachesFollow, Cached, Covers, WalkPC
<1>5. ASSUME NEW x \in todo[t],
             L1' = [L1 EXCEPT ![x] = [c \in Blocks |-> IF c \in BlocksOn(page[t]) THEN None ELSE @[c]]],
             L2' = [L2 EXCEPT ![x] = [c \in Blocks |-> IF c \in BlocksOn(page[t]) THEN None ELSE @[c]]],
             todo' = Set(todo, t, todo[t] \ {x}), UNCHANGED pc
      PROVE  \E w \in Threads : Covers(w, u, b)'
  <2>1. Cached(u, b)
    BY <1>1, <1>5 DEF Cached
  <2>2. Covers(t, u, b)
    BY <1>1, <1>3, <2>1 DEF CachesFollow, Cached, Covers, WalkPC
  <2>3. u # x
    <3>1. b \in BlocksOn(page[t])
      BY <2>2 DEF Covers, BlocksOn
    <3> QED
      BY <1>1, <1>5, <3>1 DEF Cached
  <2>4. Covers(t, u, b)'
    BY <1>1, <1>5, <2>2, <2>3 DEF Covers, PagesOf
  <2> QED
    BY <2>4
<1> QED
  BY <1>4, <1>5 DEF InvalidateThreadCache

(* A step keeps CachesFollow.                                              *)
LEMMA CachesStep == IInv /\ [Next]_vars => CachesFollow'
<1> SUFFICES ASSUME IInv, [Next]_vars PROVE CachesFollow'
  OBVIOUS
<1>1. CASE UNCHANGED vars
  BY <1>1 DEF vars, cacheVars, localVars, IInv, CachesFollow, PagesOf
<1>2. ASSUME NEW t \in Threads,
             \/ \E b \in Blocks : Dispatch(t, b, "lookup") \/ EvictL1(t, b)
             \/ Lookup(t, "enter") \/ ClearL2Cache(t)
             \/ Compile(t)
             \/ \E w \in Words, v \in Bytes : Store(t, w, v)
             \/ Retry(t)
             \/ \E p \in Pages : GuestMprotect(t, p)
             \/ HandleSegfault(t)
             \/ InvalidateGuestCodeRange(t)
      PROVE  CachesFollow'
  <2>1. CASE InvalidateCodeBuffers(t, "erase", SMCSoftInvalidate, "walk")
    BY <2>1, LayoutAssumption, EraseCaches
  <2>2. CASE InvalidateCodeBuffers(t, "hard_erase", FALSE, "hard_walk")
    BY <2>2, EraseCaches
  <2>3. CASE InvalidateThreadCache(t, "walk", "unprotect") \/ InvalidateThreadCache(t, "hard_walk", "hard_done")
    BY <2>3, WalkCaches DEF WalkPC
  <2>4. CASE ~(\/ InvalidateCodeBuffers(t, "erase", SMCSoftInvalidate, "walk")
               \/ InvalidateCodeBuffers(t, "hard_erase", FALSE, "hard_walk")
               \/ InvalidateThreadCache(t, "walk", "unprotect")
               \/ InvalidateThreadCache(t, "hard_walk", "hard_done"))
    BY <1>2, <2>4, CacheQuietActions, CacheQuietPreserves DEF HandleSegfault, InvalidateGuestCodeRange
  <2> QED
    BY <2>1, <2>2, <2>3, <2>4
<1> QED
  BY <1>1, <1>2 DEF Next

-----------------------------------------------------------------------------
(* The inductive invariant and what follows from it.                       *)

(* The inductive invariant holds initially.                                *)
LEMMA InitIInv == Init => IInv
<1> SUFFICES ASSUME Init PROVE IInv
  OBVIOUS
<1> USE DEF Init, LockInit
<1>1. TypeOK
  BY DEF TypeOK, StateOK, Modes, OutsidePC
<1>2. Locals
  BY DEF Locals, HoldsEntry, Registering, HasPage, InvalidatePC, CompilePC, RelinkPC
<1>3. Locks
  BY DEF Locks, CompilePC, RelinkPC, InvalidatePC
<1>4. PageInv
  <2>1. Registered /\ OnPages /\ CodeArmed
    BY DEF Registered, OnPages, CodeArmed
  <2>2. Underway /\ Swept
    BY DEF Underway, Registering, Registration, Swept, SweptPC
  <2> QED
    BY <2>1, <2>2 DEF PageInv
<1>5. CachesFollow
  BY DEF CachesFollow
<1> QED
  BY <1>1, <1>2, <1>3, <1>4, <1>5 DEF IInv

(* Every step keeps the inductive invariant.                               *)
LEMMA Inductive == IInv /\ [Next]_vars => IInv'
<1> SUFFICES ASSUME IInv, [Next]_vars PROVE IInv'
  OBVIOUS
<1>1. TypeOK'
  BY TypeStep DEF IInv
<1>2. Locals' /\ Locks'
  BY LocalsStep, LocksStep
<1>3. PageInv' /\ CachesFollow'
  BY PagesStep, CachesStep
<1> QED
  BY <1>1, <1>2, <1>3 DEF IInv

(* A guard of a page is a thread about to arm it, or one whose mprotect    *)
(* has yet to erase its code, so the invariant gives the mtrack rule.      *)
LEMMA IInvGuards == IInv => LiveCodeGuarded
<1> SUFFICES ASSUME IInv, NEW b \in Blocks, BlockList[b] # None, NEW p \in PagesOf(b), p \notin armed
             PROVE  Arming(p) # {} \/ Reprotecting(p) # {}
  BY DEF LiveCodeGuarded
<1>1. p \in Pages
  BY LayoutAssumption DEF PagesOf
<1>2. CodePages[p] # {}
  BY DEF IInv, PageInv, Registered
<1>3. PICK t \in Threads : Guards(t, p)
  BY <1>1, <1>2 DEF IInv, PageInv, CodeArmed
<1>4. t \in Arming(p) \/ t \in Reprotecting(p)
  BY <1>3 DEF Guards, GuardPC, Arming, Reprotecting
<1> QED
  BY <1>4

(* The inductive invariant holds throughout.                               *)
LEMMA Invariant == Spec => []IInv
<1> QED
  BY InitIInv, Inductive, PTL DEF Spec

(* Every variable keeps its type, for any layout of blocks on pages.       *)
THEOREM TypeCorrect == Spec => []TypeOK
<1>1. IInv => TypeOK
  BY DEF IInv
<1> QED
  BY Invariant, <1>1, PTL

(* The mtrack rule: no interleaving of compiles, relinks, faulting stores  *)
(* and guest mprotects leaves a page writable and unattended that a live   *)
(* block was decoded from.                                                 *)
THEOREM CodeGuarded == Spec => []LiveCodeGuarded
<1> QED
  BY Invariant, IInvGuards, PTL

(* No thread-local cache keeps a translation that has left the shared map,  *)
(* but for threads that the invalidation in progress has yet to walk.      *)
THEOREM CachesCoherent == Spec => []CachesFollow
<1>1. IInv => CachesFollow
  BY DEF IInv
<1> QED
  BY Invariant, <1>1, PTL

-----------------------------------------------------------------------------
(* One thread that compiles.  A second one may find a page registered that  *)
(* the first has not armed yet, and then trust bytes that a store can      *)
(* still change; with one, what is registered is armed by the time it is   *)
(* hashed, so the content hashes can be relied on.                         *)

(* The places where a block is looked up, is known to be absent, has a     *)
(* page to arm, is reprotected, and has its hash relied on.                *)
LookingPC == CompilePC \union {"lookup", "enter"}
AbsentPC == CompilePC \ {"find"}
ArmPC == {"arm", "rearm"}
ReprotectPC == {"hard_lock", "hard_erase"}
PublishPC == IF SMCSoftInvalidate THEN {"republish", "publish"} ELSE {"republish"}

(* An mprotect of a page of b has yet to erase b.                          *)
Exposed(b) == \E p \in PagesOf(b), u \in Threads : pc[u] \in ReprotectPC /\ page[u] = p

(* The hash h of b can be relied on, or b is about to be erased.           *)
Trusted(h, b) == h = Contents(b) \/ Exposed(b)

(* Mutators look blocks up.  What they compile is not in the map, a page   *)
(* to arm holds no other code, and hashes in flight and in the map can be  *)
(* relied on.                                                              *)
Looked == \A t \in Threads : pc[t] \in LookingPC => t \in Mutators
Absent == \A t \in Threads : pc[t] \in AbsentPC => BlockList[blk[t]] = None
NewPage == \A t \in Threads : pc[t] \in ArmPC => CodePages[page[t]] = {blk[t]}
Current == \A t \in Threads : pc[t] \in PublishPC => Trusted(entry[t].hash, blk[t])
LiveCurrent ==
  SMCSoftInvalidate => \A b \in Blocks : BlockList[b] # None => Trusted(BlockList[b].hash, b)

(* One thread compiles; others may store, fault and reprotect.             *)
OneCompiler == \A t, u \in Mutators : t = u

(* What is known with one compiler.                                        *)
SoloInv == Looked /\ Absent /\ NewPage /\ Current /\ LiveCurrent

(* What a step of t does to bytes, hashes and duties.                      *)
Tracked(t) ==
  /\ Others(t)
  /\ \A u \in Threads \ {t} : entry'[u] = entry[u]
  /\ \/ mem' = mem
     \/ pc[t] \notin PublishPC /\ \E w \in Words, v \in Bytes : PageOf[w] \notin armed /\ mem' = [mem EXCEPT ![w] = v]
  /\ pc[t] \in ReprotectPC =>
       \/ pc'[t] \in ReprotectPC /\ page'[t] = page[t]
       \/ pc[t] = "hard_erase" /\ \A b \in Blocks : page[t] \in PagesOf(b) => BlockList'[b] = None
  /\ pc'[t] \in LookingPC => pc[t] \in LookingPC \/ t \in Mutators
  /\ pc'[t] \in AbsentPC => BlockList'[blk'[t]] = None
  /\ \A b \in Blocks : BlockList'[b] # None =>
       \/ BlockList'[b] = BlockList[b]
       \/ pc[t] \in {"publish", "republish"} /\ b = blk[t] /\ BlockList'[b] = entry[t]
  /\ pc'[t] \in ArmPC => CodePages'[page'[t]] = {blk'[t]}
  /\ CodePages' = CodePages \/ pc[t] \in CompilePC \/ pc[t] \in InvalidatePC
  /\ pc'[t] \in PublishPC =>
       mem' = mem /\ blk'[t] = blk[t] /\ entry'[t].hash = Contents(blk[t])

(* The steps that leave the map and the registrations alone.               *)
LEMMA TrackedQuiet ==
  ASSUME IInv, SoloInv, NEW t \in Threads,
         \/ \E b \in Blocks : Dispatch(t, b, "lookup") \/ EvictL1(t, b)
         \/ Lookup(t, "enter") \/ ClearL2Cache(t) \/ Enter(t) \/ FindAgain(t) \/ TakeRetained(t)
         \/ VerifyAfterArm(t) \/ Decode(t) \/ Recheck(t) \/ HashGuestBlock(t)
         \/ MarkGuestExecutableRange(t, "rearm", "reregister")
         \/ MarkGuestExecutableRange(t, "arm", "register")
         \/ \E w \in Words, v \in Bytes : Store(t, w, v)
         \/ Retry(t)
         \/ \E p \in Pages : GuestMprotect(t, p)
         \/ TakeCodeInvalidationWriteLock(t, "fault", "erase")
         \/ TakeCodeInvalidationWriteLock(t, "hard_lock", "hard_erase")
         \/ InvalidateThreadCache(t, "walk", "unprotect")
         \/ InvalidateThreadCache(t, "hard_walk", "hard_done")
         \/ Unprotect(t) \/ Unlock(t)
  PROVE  Tracked(t)
<1>t. /\ pc \in [Threads -> CompilePC \union InvalidatePC \union OutsidePC]
      /\ blk \in [Threads -> Blocks \union {None}]
      /\ entry \in [Threads -> Entries \union {None}]
      /\ todo \in [Threads -> SUBSET (Pages \union Threads)]
      /\ page \in [Threads -> Pages \union {None}]
      /\ store \in [Threads -> (Words \X Bytes) \union {None}]
  BY DEF IInv, TypeOK, StateOK
<1>a. pc[t] \in AbsentPC => BlockList[blk[t]] = None
  BY DEF SoloInv, Absent
<1> USE <1>t, <1>a DEF Set, Goto, guestVars, cacheVars, localVars, Tracked, Others,
            CompilePC, RelinkPC, InvalidatePC, OutsidePC, LookingPC, AbsentPC, ArmPC, ReprotectPC, PublishPC
<1>1. ASSUME NEW b \in Blocks, Dispatch(t, b, "lookup") PROVE Tracked(t)
  BY <1>1 DEF Dispatch
<1>2. ASSUME NEW b \in Blocks, EvictL1(t, b) PROVE Tracked(t)
  <2>1. UNCHANGED <<CodePages, mem, armed, BlockList, pc, blk, entry, todo, page>> /\ pc[t] = "guest"
    BY <1>2 DEF EvictL1
  <2> QED
    BY <2>1
<1>3. CASE Lookup(t, "enter")
  BY <1>3 DEF Lookup, Return
<1>4. CASE ClearL2Cache(t)
  <2>1. UNCHANGED <<CodePages, mem, armed, BlockList, pc, blk, entry, todo, page>> /\ pc[t] = "guest"
    BY <1>4 DEF ClearL2Cache
  <2> QED
    BY <2>1
<1>5. CASE Enter(t)
  BY <1>5 DEF Enter
<1>6. CASE FindAgain(t)
  <2>1. CASE Return(t)
    BY <1>6, <2>1 DEF FindAgain, Return
  <2>2. CASE /\ Found(t, blk[t]) = None
             /\ Goto(t, IF SMCSoftInvalidate THEN "take" ELSE "decode") /\ UNCHANGED localVars
    <3>1. PICK l \in {"take", "decode"} : Goto(t, l)
      BY <2>2
    <3>2. blk[t] \in Blocks
      BY <1>6 DEF IInv, Locals, FindAgain
    <3>3. BlockList[blk[t]] = None
      <4>1. BlockList[blk[t]] # None => BlockList[blk[t]].code \in Images
        BY <3>2 DEF IInv, TypeOK, StateOK, Entries
      <4> QED
        BY <2>2, <4>1, NoneAssumption DEF Found
    <3> QED
      BY <1>6, <2>2, <3>1, <3>3 DEF FindAgain
  <2> QED
    BY <1>6, <2>1, <2>2 DEF FindAgain
<1>7. CASE TakeRetained(t)
  BY <1>7 DEF TakeRetained, PagesOf
<1>8. CASE VerifyAfterArm(t)
  BY <1>8 DEF VerifyAfterArm
<1>9. CASE Decode(t)
  BY <1>9 DEF Decode
<1>10. CASE Recheck(t)
  BY <1>10 DEF Recheck, Return, PagesOf
<1>11. CASE HashGuestBlock(t)
  <2>1. entry[t] \in Entries
    BY <1>11 DEF HashGuestBlock, IInv, Locals, HoldsEntry
  <2>2. entry'[t].hash = Contents(blk[t])
    BY <1>11, <2>1 DEF HashGuestBlock, Entries
  <2>3. \A u \in Threads \ {t} : entry'[u] = entry[u]
    BY <1>11 DEF HashGuestBlock
  <2>4. /\ pc[t] = "hash" /\ Goto(t, "publish")
        /\ UNCHANGED <<mem, armed, CodePages, BlockList, blk, todo, page>>
    BY <1>11 DEF HashGuestBlock
  <2> QED
    BY <2>2, <2>3, <2>4
<1>12. CASE MarkGuestExecutableRange(t, "rearm", "reregister")
  BY <1>12 DEF MarkGuestExecutableRange
<1>13. CASE MarkGuestExecutableRange(t, "arm", "register")
  BY <1>13 DEF MarkGuestExecutableRange
<1>14. ASSUME NEW w \in Words, NEW v \in Bytes, Store(t, w, v) PROVE Tracked(t)
  BY <1>14 DEF Store
<1>15. CASE Retry(t)
  <2>1. store[t] \in Words \X Bytes
    BY <1>15 DEF Retry, IInv, Locals
  <2>2. store[t][1] \in Words /\ store[t][2] \in Bytes
    BY <2>1
  <2> QED
    BY <1>15, <2>2, SMT DEF Retry, Return
<1>16. ASSUME NEW p \in Pages, GuestMprotect(t, p) PROVE Tracked(t)
  BY <1>16 DEF GuestMprotect
<1>17. CASE TakeCodeInvalidationWriteLock(t, "fault", "erase")
  BY <1>17 DEF TakeCodeInvalidationWriteLock
<1>18. CASE TakeCodeInvalidationWriteLock(t, "hard_lock", "hard_erase")
  BY <1>18 DEF TakeCodeInvalidationWriteLock
<1>19. CASE InvalidateThreadCache(t, "walk", "unprotect")
  BY <1>19 DEF InvalidateThreadCache
<1>20. CASE InvalidateThreadCache(t, "hard_walk", "hard_done")
  BY <1>20 DEF InvalidateThreadCache
<1>21. CASE Unprotect(t)
  BY <1>21 DEF Unprotect
<1>22. CASE Unlock(t)
  BY <1>22 DEF Unlock, Return
<1> HIDE DEF Tracked
<1> QED
  BY <1>1, <1>2, <1>3, <1>4, <1>5, <1>6, <1>7, <1>8, <1>9, <1>10, <1>11, <1>12, <1>13, <1>14, <1>15,
     <1>16, <1>17, <1>18, <1>19, <1>20, <1>21, <1>22

(* Registering a page of the block, and arming it if it was empty.         *)
LEMMA TrackedRegister ==
  ASSUME IInv, SoloInv, NEW t \in Threads,
         NEW from \in {"reregister", "register"}, NEW arm \in ArmPC, NEW next \in {"verify", "hash", "publish"},
         next = "publish" => ~SMCSoftInvalidate,
         Register(t, from, arm, next)
  PROVE  Tracked(t)
<1>t. /\ pc \in [Threads -> CompilePC \union InvalidatePC \union OutsidePC]
      /\ blk \in [Threads -> Blocks \union {None}]
      /\ todo \in [Threads -> SUBSET (Pages \union Threads)]
      /\ page \in [Threads -> Pages \union {None}]
      /\ CodePages \in [Pages -> SUBSET Blocks]
      /\ blk[t] \in Blocks
      /\ todo[t] \subseteq Pages
  BY PagesTyped DEF IInv, TypeOK, StateOK, Locals, Register, Registering, CompilePC, RelinkPC
<1>a. BlockList[blk[t]] = None
  BY DEF SoloInv, Absent, Register, AbsentPC, CompilePC, RelinkPC
<1> USE <1>t, <1>a DEF Set, Goto, guestVars, Tracked, Others,
            CompilePC, RelinkPC, InvalidatePC, OutsidePC, LookingPC, AbsentPC, ArmPC, ReprotectPC, PublishPC
<1>0. /\ pc[t] = from
      /\ UNCHANGED <<mem, BlockList, blk, entry>>
  BY DEF Register
<1>1. ASSUME NEW p \in todo[t], CodePages[p] = {},
             CodePages' = [CodePages EXCEPT ![p] = @ \union {blk[t]}], todo' = Set(todo, t, todo[t] \ {p}),
             page' = Set(page, t, p), Goto(t, arm)
      PROVE  Tracked(t)
  <2>1. CodePages'[p] = {blk[t]} /\ page'[t] = p /\ blk'[t] = blk[t] /\ pc'[t] = arm
    BY <1>0, <1>1
  <2>2. Others(t)
    BY <1>0, <1>1
  <2> QED
    BY <1>0, <2>1, <2>2
<1>2. ASSUME NEW p \in todo[t], todo' = Set(todo, t, todo[t] \ {p}), UNCHANGED <<page, pc>>
      PROVE  Tracked(t)
  BY <1>0, <1>2
<1>3. CASE Goto(t, next) /\ UNCHANGED <<CodePages, todo, page>>
  BY <1>0, <1>3
<1> HIDE DEF Tracked
<1> QED
  BY <1>1, <1>2, <1>3 DEF Register

(* Publishing the entry.                                                   *)
LEMMA TrackedPublish ==
  ASSUME IInv, SoloInv, NEW t \in Threads, NEW from \in {"republish", "publish"}, AddBlockMapping(t, from)
  PROVE  Tracked(t)
<1>t. /\ pc \in [Threads -> CompilePC \union InvalidatePC \union OutsidePC]
      /\ blk \in [Threads -> Blocks \union {None}]
      /\ entry \in [Threads -> Entries \union {None}]
      /\ todo \in [Threads -> SUBSET (Pages \union Threads)]
      /\ page \in [Threads -> Pages \union {None}]
      /\ BlockList \in [Blocks -> Entries \union {None}]
  BY DEF IInv, TypeOK, StateOK
<1>1. /\ pc[t] = from
      /\ BlockList' = [BlockList EXCEPT ![blk[t]] = entry[t]]
      /\ Return(t)
      /\ UNCHANGED <<mem, CodePages>>
  BY DEF AddBlockMapping, guestVars
<1> QED
  BY <1>t, <1>1 DEF Return, Set, Goto, Tracked, Others,
     CompilePC, RelinkPC, InvalidatePC, OutsidePC, LookingPC, AbsentPC, ArmPC, ReprotectPC, PublishPC

(* Erasing the code of a page: the blocks registered on it leave the map,  *)
(* and those are all the live blocks of the page.                          *)
LEMMA TrackedErase ==
  ASSUME IInv, SoloInv, NEW t \in Threads, NEW soft \in BOOLEAN,
         NEW from \in {"erase", "hard_erase"}, NEW next \in {"walk", "hard_walk"},
         InvalidateCodeBuffers(t, from, soft, next)
  PROVE  Tracked(t)
<1>t. /\ pc \in [Threads -> CompilePC \union InvalidatePC \union OutsidePC]
      /\ blk \in [Threads -> Blocks \union {None}]
      /\ todo \in [Threads -> SUBSET (Pages \union Threads)]
      /\ page \in [Threads -> Pages \union {None}]
      /\ BlockList \in [Blocks -> Entries \union {None}]
      /\ CodePages \in [Pages -> SUBSET Blocks]
  BY DEF IInv, TypeOK, StateOK
<1>1. /\ pc[t] = from /\ Goto(t, next) /\ todo' = Set(todo, t, Threads)
      /\ UNCHANGED <<mem, blk, entry, page>>
  BY DEF InvalidateCodeBuffers, guestVars
<1>2. page[t] \in Pages
  BY <1>1 DEF IInv, Locals, HasPage, InvalidatePC
<1>3. \A b \in Blocks : BlockList'[b] \in {None, BlockList[b]}
  BY <1>t DEF InvalidateCodeBuffers, SoftInvalidateRange, InvalidateRange
<1>4. \A b \in CodePages[page[t]] : BlockList'[b] = None
  BY <1>t, <1>2 DEF InvalidateCodeBuffers, SoftInvalidateRange, InvalidateRange
<1>5. \A b \in Blocks : page[t] \in PagesOf(b) => BlockList'[b] = None
  BY <1>3, <1>4 DEF IInv, PageInv, Registered
<1> QED
  BY <1>t, <1>1, <1>3, <1>5 DEF Set, Goto, Tracked, Others,
     CompilePC, RelinkPC, InvalidatePC, OutsidePC, LookingPC, AbsentPC, ArmPC, ReprotectPC, PublishPC

(* Every step of a thread is one of these.                                 *)
LEMMA TrackedStep ==
  ASSUME IInv, SoloInv, Next
  PROVE  \E t \in Threads : Tracked(t)
<1>1. PICK t \in Threads :
        \/ \E b \in Blocks : Dispatch(t, b, "lookup") \/ EvictL1(t, b)
        \/ Lookup(t, "enter") \/ ClearL2Cache(t)
        \/ Compile(t)
        \/ \E w \in Words, v \in Bytes : Store(t, w, v)
        \/ Retry(t)
        \/ \E p \in Pages : GuestMprotect(t, p)
        \/ HandleSegfault(t)
        \/ InvalidateGuestCodeRange(t)
  BY DEF Next
<1>2. CASE Register(t, "reregister", "rearm", "verify")
  BY <1>2, TrackedRegister DEF ArmPC
<1>3. CASE Register(t, "register", "arm", IF SMCSoftInvalidate THEN "hash" ELSE "publish")
  <2>1. CASE SMCSoftInvalidate
    BY <1>3, <2>1, TrackedRegister DEF ArmPC
  <2>2. CASE ~SMCSoftInvalidate
    BY <1>3, <2>2, TrackedRegister DEF ArmPC
  <2> QED
    BY <2>1, <2>2
<1>4. CASE AddBlockMapping(t, "republish") \/ AddBlockMapping(t, "publish")
  BY <1>4, TrackedPublish
<1>5. CASE InvalidateCodeBuffers(t, "erase", SMCSoftInvalidate, "walk")
  BY <1>5, LayoutAssumption, TrackedErase
<1>6. CASE InvalidateCodeBuffers(t, "hard_erase", FALSE, "hard_walk")
  BY <1>6, TrackedErase
<1> QED
  BY <1>1, <1>2, <1>3, <1>4, <1>5, <1>6, TrackedQuiet DEF Compile, HandleSegfault, InvalidateGuestCodeRange

(* A block whose pages are all armed or reprotected keeps a trusted hash,   *)
(* as long as the step does not erase it.                                  *)
LEMMA TrustedKept ==
  ASSUME IInv, NEW t \in Threads, Tracked(t), NEW b \in Blocks, NEW h, Trusted(h, b),
         \A p \in PagesOf(b) : p \in armed \/ \E u \in Threads : pc[u] \in ReprotectPC /\ page[u] = p,
         ~(pc[t] = "hard_erase" /\ page[t] \in PagesOf(b) /\ BlockList'[b] = None)
  PROVE  Trusted(h, b)'
<1>1. ASSUME Exposed(b) PROVE Exposed(b)'
  <2>1. PICK p \in PagesOf(b), u \in Threads : pc[u] \in ReprotectPC /\ page[u] = p
    BY <1>1 DEF Exposed
  <2>2. pc'[u] \in ReprotectPC /\ page'[u] = p
    BY <2>1 DEF Tracked, Others, ReprotectPC
  <2> QED
    BY <2>1, <2>2 DEF Exposed, PagesOf
<1>2. CASE mem' = mem
  <2>1. Contents(b)' = Contents(b)
    BY <1>2 DEF Contents
  <2> QED
    BY <1>1, <2>1 DEF Trusted
<1>3. ASSUME NEW w \in Words, NEW v \in Bytes, PageOf[w] \notin armed, mem' = [mem EXCEPT ![w] = v]
      PROVE  Trusted(h, b)'
  <2>1. CASE w \in Extent[b]
    <3>1. PageOf[w] \in PagesOf(b)
      BY <2>1 DEF PagesOf
    <3>2. Exposed(b)
      BY <1>3, <3>1 DEF Exposed
    <3> QED
      BY <1>1, <3>2 DEF Trusted
  <2>2. CASE w \notin Extent[b]
    <3>1. Extent[b] \subseteq Words
      BY LayoutAssumption
    <3>2. Contents(b)' = Contents(b)
      BY <1>3, <2>2, <3>1 DEF Contents, IInv, TypeOK, StateOK
    <3> QED
      BY <1>1, <3>2 DEF Trusted
  <2> QED
    BY <2>1, <2>2
<1> QED
  BY <1>2, <1>3 DEF Tracked

(* With one compiling thread a page with code on it is armed or            *)
(* reprotected, for a block that is live or about to be published.         *)
LEMMA SoloArmed ==
  ASSUME IInv, SoloInv, OneCompiler, NEW b \in Blocks, NEW p \in PagesOf(b),
         b \in CodePages[p],
         BlockList[b] # None \/ \E t \in Threads : pc[t] \in {"publish", "republish"}
  PROVE  p \in armed \/ \E u \in Threads : pc[u] \in ReprotectPC /\ page[u] = p
<1> SUFFICES ASSUME p \notin armed PROVE \E u \in Threads : pc[u] \in ReprotectPC /\ page[u] = p
  OBVIOUS
<1>1. p \in Pages
  BY PagesTyped
<1>2. PICK u \in Threads : Guards(u, p)
  BY <1>1 DEF IInv, PageInv, CodeArmed
<1>3. pc[u] \notin ArmPC
  <2> SUFFICES ASSUME pc[u] \in ArmPC PROVE FALSE
    OBVIOUS
  <2>1. b = blk[u]
    BY <1>2 DEF SoloInv, NewPage, Guards
  <2>2. BlockList[b] = None
    BY <2>1 DEF SoloInv, Absent, ArmPC, AbsentPC, CompilePC, RelinkPC
  <2>3. PICK v \in Threads : pc[v] \in {"publish", "republish"}
    BY <2>2
  <2>4. v \in Mutators /\ u \in Mutators
    BY <2>3 DEF SoloInv, Looked, ArmPC, LookingPC, CompilePC, RelinkPC
  <2> QED
    BY <2>3, <2>4 DEF ArmPC, OneCompiler
<1> QED
  BY <1>2, <1>3 DEF Guards, GuardPC, ArmPC, ReprotectPC

(* A compiling thread is a mutator throughout, and what it compiles is not  *)
(* in the map, since nobody else publishes.                                *)
LEMMA SoloLocals ==
  ASSUME IInv, SoloInv, OneCompiler, NEW t \in Threads, Tracked(t)
  PROVE  Looked' /\ Absent' /\ NewPage'
<1>1. Looked'
  <2> SUFFICES ASSUME NEW u \in Threads, pc'[u] \in LookingPC PROVE u \in Mutators
    BY DEF Looked
  <2>1. CASE u = t
    BY <2>1 DEF Tracked, SoloInv, Looked
  <2>2. CASE u # t
    BY <2>2 DEF Tracked, Others, SoloInv, Looked
  <2> QED
    BY <2>1, <2>2
<1>2. ASSUME NEW u \in Threads, u # t, pc[u] \in CompilePC PROVE pc[t] \notin CompilePC
  BY <1>2 DEF SoloInv, Looked, LookingPC, OneCompiler
<1>3. Absent'
  <2> SUFFICES ASSUME NEW u \in Threads, pc'[u] \in AbsentPC PROVE BlockList'[blk'[u]] = None
    BY DEF Absent
  <2>1. CASE u = t
    BY <2>1 DEF Tracked
  <2>2. CASE u # t
    <3>1. pc[u] \in AbsentPC /\ blk'[u] = blk[u]
      BY <2>2 DEF Tracked, Others
    <3>2. BlockList[blk[u]] = None /\ blk[u] \in Blocks /\ pc[u] \in CompilePC
      BY <3>1 DEF SoloInv, Absent, AbsentPC, IInv, Locals
    <3>3. pc[t] \notin {"publish", "republish"}
      BY <1>2, <2>2, <3>2 DEF CompilePC, RelinkPC
    <3> QED
      BY <3>1, <3>2, <3>3 DEF Tracked
  <2> QED
    BY <2>1, <2>2
<1>4. NewPage'
  <2> SUFFICES ASSUME NEW u \in Threads, pc'[u] \in ArmPC PROVE CodePages'[page'[u]] = {blk'[u]}
    BY DEF NewPage
  <2>1. CASE u = t
    BY <2>1 DEF Tracked
  <2>2. CASE u # t
    <3>1. pc[u] \in ArmPC /\ blk'[u] = blk[u] /\ page'[u] = page[u] /\ pc[u] \in CompilePC
      BY <2>2 DEF Tracked, Others, ArmPC, CompilePC, RelinkPC
    <3>2. pc[t] \notin InvalidatePC
      BY <2>2, <3>1 DEF IInv, Locks
    <3>3. CodePages' = CodePages
      BY <1>2, <2>2, <3>1, <3>2 DEF Tracked
    <3> QED
      BY <3>1, <3>3 DEF SoloInv, NewPage
  <2> QED
    BY <2>1, <2>2
<1> QED
  BY <1>1, <1>3, <1>4

(* An entry about to be published keeps a hash that can be relied on.      *)
LEMMA SoloCurrent ==
  ASSUME IInv, SoloInv, OneCompiler, NEW t \in Threads, Tracked(t)
  PROVE  Current'
<1> SUFFICES ASSUME NEW u \in Threads, pc'[u] \in PublishPC,
                    NEW b, b = blk'[u], NEW h, h = entry'[u].hash
             PROVE  Trusted(h, b)'
  BY SMT DEF Current, Trusted, Exposed, Contents, PagesOf, PublishPC
<1>1. CASE u = t
  <2>1. mem' = mem /\ b = blk[t] /\ h = Contents(b)
    BY <1>1 DEF Tracked
  <2>2. Contents(b)' = Contents(b)
    BY <2>1 DEF Contents
  <2> QED
    BY <2>1, <2>2 DEF Trusted
<1>2. CASE u # t
  <2>1. pc[u] \in PublishPC /\ b = blk[u] /\ h = entry[u].hash
    BY <1>2 DEF Tracked, Others
  <2>2. pc[u] \in {"publish", "republish"} /\ pc[u] \in CompilePC /\ pc[u] \in Registration
    BY <2>1 DEF PublishPC, CompilePC, RelinkPC, Registration
  <2>3. b \in Blocks /\ \A p \in PagesOf(b) : b \in CodePages[p]
    BY <2>1, <2>2 DEF IInv, Locals, PageInv, Underway
  <2>4. \A p \in PagesOf(b) : p \in armed \/ \E v \in Threads : pc[v] \in ReprotectPC /\ page[v] = p
    BY <2>2, <2>3, SoloArmed
  <2>5. pc[t] # "hard_erase"
    BY <1>2, <2>2 DEF IInv, Locks, InvalidatePC
  <2>6. Trusted(h, b)
    BY <2>1 DEF SoloInv, Current
  <2> QED
    BY <2>3, <2>4, <2>5, <2>6, TrustedKept
<1> QED
  BY <1>1, <1>2

(* So does a live block, until it is erased.                               *)
LEMMA SoloLive ==
  ASSUME IInv, SoloInv, OneCompiler, NEW t \in Threads, Tracked(t)
  PROVE  LiveCurrent'
<1> SUFFICES ASSUME SMCSoftInvalidate, NEW b \in Blocks, BlockList'[b] # None,
                    NEW h, h = BlockList'[b].hash
             PROVE  Trusted(h, b)'
  BY DEF LiveCurrent, Trusted, Exposed, Contents, PagesOf
<1>1. CASE BlockList'[b] = BlockList[b]
  <2>1. BlockList[b] # None /\ h = BlockList[b].hash
    BY <1>1
  <2>2. \A p \in PagesOf(b) : b \in CodePages[p]
    BY <2>1 DEF IInv, PageInv, Registered
  <2>3. \A p \in PagesOf(b) : p \in armed \/ \E v \in Threads : pc[v] \in ReprotectPC /\ page[v] = p
    BY <2>1, <2>2, SoloArmed
  <2>4. Trusted(h, b)
    BY <2>1 DEF SoloInv, LiveCurrent
  <2> QED
    BY <2>3, <2>4, TrustedKept
<1>2. CASE pc[t] \in {"publish", "republish"} /\ b = blk[t] /\ BlockList'[b] = entry[t]
  <2>1. pc[t] \in PublishPC /\ pc[t] \in Registration
    BY <1>2 DEF PublishPC, Registration
  <2>2. \A p \in PagesOf(b) : b \in CodePages[p]
    BY <1>2, <2>1 DEF IInv, PageInv, Underway
  <2>3. \A p \in PagesOf(b) : p \in armed \/ \E v \in Threads : pc[v] \in ReprotectPC /\ page[v] = p
    BY <1>2, <2>2, SoloArmed
  <2>4. Trusted(h, b)
    BY <1>2, <2>1 DEF SoloInv, Current
  <2> QED
    BY <1>2, <2>3, <2>4, TrustedKept
<1> QED
  BY <1>1, <1>2 DEF Tracked

(* Every step keeps SoloInv.                                               *)
LEMMA SoloStep == OneCompiler /\ IInv /\ SoloInv /\ [Next]_vars => SoloInv'
<1> SUFFICES ASSUME OneCompiler, IInv, SoloInv, [Next]_vars PROVE SoloInv'
  OBVIOUS
<1>1. CASE UNCHANGED vars
  <2>1. UNCHANGED <<mem, armed, BlockList, CodePages, pc, blk, entry, page>>
    BY <1>1 DEF vars, guestVars, cacheVars, localVars
  <2> QED
    BY <2>1, SMT DEF SoloInv, Looked, Absent, NewPage, Current, LiveCurrent, Trusted, Exposed, Contents, PagesOf
<1>2. CASE Next
  <2>1. PICK t \in Threads : Tracked(t)
    BY <1>2, TrackedStep
  <2> QED
    BY <2>1, SoloLocals, SoloCurrent, SoloLive DEF SoloInv
<1> QED
  BY <1>1, <1>2

(* Nothing is compiled or live initially.                                  *)
LEMMA InitSolo == Init => SoloInv
<1> SUFFICES ASSUME Init PROVE SoloInv
  OBVIOUS
<1>1. (\A t \in Threads : pc[t] = "guest") /\ (\A b \in Blocks : BlockList[b] = None)
  BY DEF Init
<1> QED
  BY <1>1 DEF SoloInv, Looked, Absent, NewPage, Current, LiveCurrent, LookingPC, AbsentPC, ArmPC, PublishPC,
     CompilePC, RelinkPC

(* A trusted hash is what the two properties ask for.                      *)
LEMMA TrustedReads ==
  ASSUME NEW h, NEW b, Trusted(h, b)
  PROVE  h = Contents(b) \/ \E p \in PagesOf(b) : Reprotecting(p) # {}
<1>1. ASSUME Exposed(b) PROVE \E p \in PagesOf(b) : Reprotecting(p) # {}
  <2>1. PICK p \in PagesOf(b), u \in Threads : pc[u] \in ReprotectPC /\ page[u] = p
    BY <1>1 DEF Exposed
  <2>2. u \in Reprotecting(p)
    BY <2>1 DEF Reprotecting, ReprotectPC
  <2> QED
    BY <2>1, <2>2
<1> QED
  BY <1>1 DEF Trusted

(* VERIFY-AFTER-ARM does what its comment says when one thread compiles,   *)
(* with any number of threads that store and reprotect: the bytes a relink *)
(* has hashed a second time stay the bytes it publishes a translation of.  *)
THEOREM RelinksCurrent ==
  ASSUME OneCompiler PROVE Spec => []RelinkIsCurrent
<1>1. SoloInv => RelinkIsCurrent
  <2> SUFFICES ASSUME SoloInv, NEW t \in Threads, pc[t] = "republish"
               PROVE  \/ entry[t].hash = Contents(blk[t])
                      \/ \E p \in PagesOf(blk[t]) : Reprotecting(p) # {}
    BY DEF RelinkIsCurrent
  <2>1. Trusted(entry[t].hash, blk[t])
    BY DEF SoloInv, Current, PublishPC
  <2> QED
    BY <2>1, TrustedReads
<1>2. IInv /\ SoloInv /\ [Next]_vars => IInv' /\ SoloInv'
  BY Inductive, SoloStep
<1> QED
  BY InitIInv, InitSolo, <1>1, <1>2, PTL DEF Spec

(* Under the same condition the content hash of every live block is that   *)
(* of the bytes in memory, so a soft invalidation retains entries that a    *)
(* relink may compare with.                                                *)
THEOREM HashesCurrent ==
  ASSUME OneCompiler, SMCSoftInvalidate PROVE Spec => []HashCurrent
<1>1. SoloInv => HashCurrent
  BY TrustedReads DEF SoloInv, LiveCurrent, HashCurrent
<1>2. IInv /\ SoloInv /\ [Next]_vars => IInv' /\ SoloInv'
  BY Inductive, SoloStep
<1> QED
  BY InitIInv, InitSolo, <1>1, <1>2, PTL DEF Spec
-----------------------------------------------------------------------------
(* Lazy invalidation, the cross-poke.  A dirty page means that every       *)
(* thread owes a drain; whose duty it is to make it drain changes from     *)
(* step to step, and Owes says how.                                        *)

(* Every thread has its place, its locals and its L1.                      *)
Domains ==
  /\ DOMAIN pc = Threads /\ DOMAIN todo = Threads /\ DOMAIN victim = Threads
  /\ after \in [Threads -> {"guest", "lookup", "enter", "scrub", "hard_lock"}]
  /\ DOMAIN L1 = Threads /\ \A t \in Threads : DOMAIN L1[t] = Blocks

(* The places from which a thread comes to a lookup only by way of a drain.*)
TakePC == {"count", "swap"}
PokePC == {"open", "poke"}
SweepPC == {"next", "drain_lock", "drain_erase", "drain_walk", "drain_done"}
HardPC == {"hard_lock", "hard_erase", "hard_walk", "hard_done"}
Away(t) ==
  \/ pc[t] \in {"guest", "retry", "fault"} \union HardPC
  \/ pc[t] \in SweepPC /\ after[t] \notin {"lookup", "enter"}

(* The thread has emptied its L1 itself, and drains before it fills it.    *)
Scrubbed(t) == t \in LazySMCDrainPending /\ Away(t) /\ \A b \in Blocks : L1[t][b] = None

(* Thread u is about to poke t, has set its flag and not yet protected its *)
(* page, or is about to end the epoch instead.                             *)
PokedBy(t, u) ==
  \/ pc[u] \in PokePC /\ t \in todo[u]
  \/ pc[u] = "poke_page" /\ t \in todo[u] /\ (victim[u] = t => t \in LazySMCDrainPending)
  \/ pc[u] \in TakePC /\ after[u] = "scrub"

(* A thread traps before it can run a block again, or has nothing to run,  *)
(* or is about to take the dirty pages itself.                             *)
Owes(t) ==
  \/ t \in LazySMCDrainPending /\ t \in InterruptFaultPage
  \/ \E u \in Threads \ {t} : PokedBy(t, u)
  \/ pc[t] \in TakePC \union DeferPC
  \/ pc[t] = "settle" /\ t \in LazySMCDrainPending
  \/ Scrubbed(t)

(* As long as a page is dirty, everyone owes.                              *)
PokeInv == Domains /\ (SMCLazyCrossPoke /\ SMCLazyDirtyPages # {} => \A t \in Threads : Owes(t))

(* The places that no lazy step leaves or enters.                          *)
LazyPC == TakePC \union DeferPC \union {"settle"}

(* Thread t takes a step that others do not rely on and that sets no flag. *)
Apart(t) ==
  /\ Domains'
  /\ \A u \in Threads \ {t} :
       /\ pc'[u] = pc[u] /\ todo'[u] = todo[u] /\ after'[u] = after[u] /\ victim'[u] = victim[u]
       /\ \A b \in Blocks : L1[u][b] = None => L1'[u][b] = None
  /\ \A u \in Threads \ {t} :
       /\ u \in LazySMCDrainPending => u \in LazySMCDrainPending'
       /\ u \in InterruptFaultPage => u \in InterruptFaultPage'

(* What the others owe survives such a step, unless they owe it because of *)
(* its actor.                                                              *)
LEMMA ApartOthers ==
  ASSUME NEW t \in Threads, Apart(t), NEW u \in Threads \ {t}, Owes(u),
         PokedBy(u, t) => Owes(u)'
  PROVE  Owes(u)'
<1>1. /\ pc'[u] = pc[u] /\ todo'[u] = todo[u] /\ after'[u] = after[u] /\ victim'[u] = victim[u]
      /\ u \in LazySMCDrainPending => u \in LazySMCDrainPending'
      /\ u \in InterruptFaultPage => u \in InterruptFaultPage'
  BY DEF Apart
<1>2. CASE u \in LazySMCDrainPending /\ u \in InterruptFaultPage
  BY <1>1, <1>2 DEF Owes
<1>3. ASSUME NEW v \in Threads \ {u}, PokedBy(u, v) PROVE Owes(u)'
  <2>1. CASE v = t
    BY <1>3, <2>1
  <2>2. CASE v # t
    <3>1. pc'[v] = pc[v] /\ todo'[v] = todo[v] /\ after'[v] = after[v] /\ victim'[v] = victim[v]
      BY <2>2 DEF Apart
    <3>2. PokedBy(u, v)'
      BY <1>1, <1>3, <3>1 DEF PokedBy
    <3> QED BY <3>2 DEF Owes
  <2> QED BY <2>1, <2>2
<1>4. CASE pc[u] \in TakePC \union DeferPC
  BY <1>1, <1>4 DEF Owes
<1>5. CASE pc[u] = "settle" /\ u \in LazySMCDrainPending
  BY <1>1, <1>5 DEF Owes
<1>6. CASE Scrubbed(u)
  <2>1. \A b \in Blocks : L1'[u][b] = None
    BY <1>6 DEF Apart, Scrubbed
  <2>2. Away(u)'
    BY <1>1, <1>6 DEF Scrubbed, Away
  <2> QED BY <1>1, <1>6, <2>1, <2>2 DEF Scrubbed, Owes
<1> QED BY <1>2, <1>3, <1>4, <1>5, <1>6 DEF Owes

(* A step outside of the lazy branch: nobody relies on it, and the thread  *)
(* itself keeps what it owes as long as it does not fill an empty L1.      *)
Plain(t) ==
  /\ Apart(t) /\ SMCLazyDirtyPages' \subseteq SMCLazyDirtyPages
  /\ pc[t] \notin LazyPC /\ pc'[t] \notin LazyPC \ {"settle"}
  /\ t \in LazySMCDrainPending => t \in LazySMCDrainPending'
  /\ t \in InterruptFaultPage => t \in InterruptFaultPage' \/ pc'[t] = "settle"
  /\ Scrubbed(t) => Scrubbed(t)' \/ pc'[t] = "settle"

(* Such a step keeps the invariant.                                        *)
LEMMA PlainStep ==
  ASSUME PokeInv, NEW t \in Threads, Plain(t)
  PROVE  PokeInv'
<1> SUFFICES ASSUME SMCLazyCrossPoke, SMCLazyDirtyPages' # {}, NEW u \in Threads PROVE Owes(u)'
  BY DEF PokeInv, Plain, Apart
<1>1. Owes(u)
  BY DEF PokeInv, Plain, Apart
<1>2. ~PokedBy(u, t)
  BY DEF Plain, PokedBy, LazyPC, DeferPC, PokePC, TakePC
<1>3. CASE u # t
  BY <1>1, <1>2, <1>3, ApartOthers DEF Plain
<1>4. CASE u = t
  <2>1. CASE t \in LazySMCDrainPending /\ t \in InterruptFaultPage
    BY <1>4, <2>1 DEF Plain, Owes
  <2>2. ASSUME NEW v \in Threads \ {t}, PokedBy(t, v) PROVE Owes(u)'
    <3>1. pc'[v] = pc[v] /\ todo'[v] = todo[v] /\ after'[v] = after[v] /\ victim'[v] = victim[v]
      BY <2>2 DEF Plain, Apart
    <3>2. PokedBy(t, v)'
      BY <2>2, <3>1 DEF PokedBy, Plain
    <3> QED BY <1>4, <2>2, <3>2 DEF Owes
  <2>3. pc[t] \notin TakePC \union DeferPC /\ pc[t] # "settle"
    BY DEF Plain, LazyPC
  <2>4. CASE Scrubbed(t)
    BY <1>4, <2>4 DEF Plain, Owes, Scrubbed
  <2> QED BY <1>1, <1>4, <2>1, <2>2, <2>3, <2>4 DEF Owes
<1> QED BY <1>3, <1>4

(* A step of the lazy branch: its actor says what it owes, and what becomes*)
(* of those it was to poke.                                                *)
LEMMA OwnStep ==
  ASSUME PokeInv, NEW t \in Threads, Apart(t), SMCLazyDirtyPages' \subseteq SMCLazyDirtyPages,
         SMCLazyDirtyPages' # {} => \A u \in Threads \ {t} : PokedBy(u, t) => Owes(u)',
         SMCLazyDirtyPages' # {} /\ Owes(t) => Owes(t)'
  PROVE  PokeInv'
<1> SUFFICES ASSUME SMCLazyCrossPoke, SMCLazyDirtyPages' # {}, NEW u \in Threads PROVE Owes(u)'
  BY DEF PokeInv, Apart
<1>1. Owes(u) /\ Owes(t)
  BY DEF PokeInv
<1>2. CASE u # t
  BY <1>1, <1>2, ApartOthers
<1> QED BY <1>1, <1>2

(* A thread moves and changes its list; nobody else does.                  *)
Moves(t) ==
  /\ DOMAIN pc' = Threads /\ DOMAIN todo' = Threads
  /\ \A u \in Threads \ {t} : pc'[u] = pc[u] /\ todo'[u] = todo[u]

(* Nothing enters the L1 of another thread.                                *)
FillsOwn(t) ==
  /\ DOMAIN L1' = Threads /\ \A u \in Threads : DOMAIN L1'[u] = Blocks
  /\ \A u \in Threads \ {t}, b \in Blocks : L1[u][b] = None => L1'[u][b] = None

(* The steps of SMCTracking that lazy invalidation keeps.                  *)
LEMMA OrdinaryStep ==
  ASSUME PokeInv, NEW t \in Threads, UNCHANGED lazyVars, Moves(t), FillsOwn(t),
         pc[t] \notin LazyPC, pc'[t] \notin LazyPC,
         Away(t) => Away(t)' /\ \A b \in Blocks : L1[t][b] = None => L1'[t][b] = None
  PROVE  PokeInv'
<1>1. Apart(t)
  BY DEF Apart, Domains, PokeInv, Moves, FillsOwn, lazyVars
<1>2. Scrubbed(t) => Scrubbed(t)'
  BY DEF Scrubbed, lazyVars
<1>3. Plain(t)
  BY <1>1, <1>2 DEF Plain, lazyVars
<1> QED BY <1>3, PlainStep

(* Goto and Set change the values of one thread.                           *)
LEMMA MovesFrom ==
  ASSUME Domains, NEW t \in Threads,
         pc' = pc \/ \E l : pc' = [pc EXCEPT ![t] = l],
         todo' = todo \/ \E x : todo' = [todo EXCEPT ![t] = x]
  PROVE  Moves(t)
<1>1. DOMAIN pc' = Threads /\ \A u \in Threads \ {t} : pc'[u] = pc[u]
  <2>1. ASSUME NEW l, pc' = [pc EXCEPT ![t] = l] PROVE DOMAIN pc' = Threads /\ \A u \in Threads \ {t} : pc'[u] = pc[u]
    BY <2>1 DEF Domains
  <2> QED BY <2>1 DEF Domains
<1>2. DOMAIN todo' = Threads /\ \A u \in Threads \ {t} : todo'[u] = todo[u]
  <2>1. ASSUME NEW x, todo' = [todo EXCEPT ![t] = x]
        PROVE  DOMAIN todo' = Threads /\ \A u \in Threads \ {t} : todo'[u] = todo[u]
    BY <2>1 DEF Domains
  <2> QED BY <2>1 DEF Domains
<1> QED BY <1>1, <1>2 DEF Moves

(* So does a change of one entry of its L1.                                *)
LEMMA FillsFrom ==
  ASSUME Domains, NEW t \in Threads, NEW b,
         L1' = L1 \/ \E x : L1' = [L1 EXCEPT ![t][b] = x]
  PROVE  FillsOwn(t)
<1>1. CASE L1' = L1
  BY <1>1 DEF Domains, FillsOwn
<1>2. ASSUME NEW x, L1' = [L1 EXCEPT ![t][b] = x] PROVE FillsOwn(t)
  <2>1. DOMAIN L1' = Threads /\ \A u \in Threads \ {t} : L1'[u] = L1[u]
    BY <1>2 DEF Domains
  <2>2. L1'[t] = [L1[t] EXCEPT ![b] = x]
    BY <1>2 DEF Domains
  <2>3. DOMAIN L1'[t] = Blocks
    BY <2>2 DEF Domains
  <2> QED BY <2>1, <2>3 DEF Domains, FillsOwn
<1> QED BY <1>1, <1>2

(* CompileBlock.                                                           *)
LEMMA CompileStep ==
  ASSUME PokeInv, NEW t \in Threads, Compile(t), UNCHANGED lazyVars
  PROVE  PokeInv'
<1>D. Domains
  BY DEF PokeInv
<1>G. ASSUME NEW l, Goto(t, l) PROVE pc'[t] = l
  BY <1>D, <1>G DEF Goto, Domains
<1>1. Moves(t)
  <2>1. ASSUME NEW from, NEW arm, NEW next, Register(t, from, arm, next) PROVE Moves(t)
    BY <2>1, <1>D, MovesFrom DEF Register, Goto, Set
  <2>2. ASSUME NEW from, NEW next, MarkGuestExecutableRange(t, from, next) PROVE Moves(t)
    BY <2>2, <1>D, MovesFrom DEF MarkGuestExecutableRange, Goto, Set
  <2>3. ASSUME NEW from, AddBlockMapping(t, from) PROVE Moves(t)
    BY <2>3, <1>D, MovesFrom DEF AddBlockMapping, Return, Goto, Set
  <2>4. Enter(t) \/ TakeRetained(t) \/ VerifyAfterArm(t) \/ Decode(t) \/ HashGuestBlock(t) => Moves(t)
    BY <1>D, MovesFrom DEF Enter, TakeRetained, VerifyAfterArm, Decode, HashGuestBlock, Goto, Set, localVars
  <2>5. FindAgain(t) \/ Recheck(t) => Moves(t)
    BY <1>D, MovesFrom DEF FindAgain, Recheck, Return, Goto, Set, localVars
  <2> QED BY <2>1, <2>2, <2>3, <2>4, <2>5 DEF Compile
<1>2. pc[t] \in CompilePC \union {"enter"} /\ (pc'[t] \in CompilePC \union {"guest"})
  <2> DEFINE To == pc[t] \in CompilePC \union {"enter"} /\ (pc'[t] \in CompilePC \union {"guest"})
  <2>L. {"find", "take", "decode", "recheck", "register", "arm", "hash", "publish", "reregister", "rearm", "verify",
         "republish"} \subseteq CompilePC
    BY DEF CompilePC, RelinkPC
  <2>1. ASSUME NEW from \in CompilePC, NEW arm \in CompilePC, NEW next \in CompilePC, Register(t, from, arm, next)
        PROVE  To
    BY <1>G, <2>1 DEF Register
  <2>2. ASSUME NEW from \in CompilePC, NEW next \in CompilePC, MarkGuestExecutableRange(t, from, next) PROVE To
    BY <1>G, <2>2 DEF MarkGuestExecutableRange
  <2>3. ASSUME NEW from \in CompilePC, AddBlockMapping(t, from) PROVE To
    BY <1>G, <2>3 DEF AddBlockMapping, Return
  <2>4. Enter(t) \/ TakeRetained(t) \/ VerifyAfterArm(t) \/ Decode(t) \/ HashGuestBlock(t) => To
    BY <1>G, <2>L DEF Enter, TakeRetained, VerifyAfterArm, Decode, HashGuestBlock
  <2>5. ASSUME FindAgain(t) PROVE To
    <3>1. PICK l \in {"take", "decode", "guest"} : Goto(t, l)
      BY <2>5 DEF FindAgain, Return
    <3>2. pc'[t] = l
      BY <1>G, <3>1
    <3> QED BY <2>5, <2>L, <3>2 DEF FindAgain
  <2>6. ASSUME Recheck(t) PROVE To
    BY <1>G, <2>6, <2>L DEF Recheck, Return
  <2>7. Register(t, "register", "arm", IF SMCSoftInvalidate THEN "hash" ELSE "publish") => To
    <3>1. (IF SMCSoftInvalidate THEN "hash" ELSE "publish") \in CompilePC
      BY <2>L
    <3> HIDE DEF To
    <3> QED BY <2>1, <2>L, <3>1
  <2> HIDE DEF To
  <2>8. Register(t, "reregister", "rearm", "verify") => To
    BY <2>1, <2>L
  <2>9. MarkGuestExecutableRange(t, "rearm", "reregister") \/ MarkGuestExecutableRange(t, "arm", "register")
        \/ AddBlockMapping(t, "republish") \/ AddBlockMapping(t, "publish") => To
    BY <2>2, <2>3, <2>L
  <2>10. To
    BY <2>4, <2>5, <2>6, <2>7, <2>8, <2>9 DEF Compile
  <2> QED BY <2>10 DEF To
<1>3. FillsOwn(t)
  <2>1. PICK b : L1' = L1 \/ \E x : L1' = [L1 EXCEPT ![t][b] = x]
    BY DEF Compile, Enter, FindAgain, TakeRetained, Register, MarkGuestExecutableRange, VerifyAfterArm, AddBlockMapping,
           Decode, Recheck, HashGuestBlock, FindBlock, cacheVars
  <2> QED BY <1>D, <2>1, FillsFrom
<1>4. pc[t] \notin LazyPC /\ ~Away(t)
  BY <1>2 DEF LazyPC, TakePC, DeferPC, Away, HardPC, SweepPC, CompilePC, RelinkPC
<1>5. pc'[t] \notin LazyPC
  BY <1>2 DEF LazyPC, TakePC, DeferPC, CompilePC, RelinkPC
<1> QED BY <1>1, <1>3, <1>4, <1>5, OrdinaryStep

(* Guest code that neither dispatches nor faults.                          *)
LEMMA GuestStep ==
  ASSUME PokeInv, NEW t \in Threads, UNCHANGED lazyVars,
         \/ \E b \in Blocks : EvictL1(t, b)
         \/ ClearL2Cache(t) \/ Retry(t)
         \/ \E w \in Words, v \in Bytes : Store(t, w, v)
  PROVE  PokeInv'
<1>D. Domains
  BY DEF PokeInv
<1>1. /\ pc[t] \in {"guest", "retry"}
      /\ pc' = pc \/ Goto(t, "fault") \/ Goto(t, "guest")
      /\ todo' = todo \/ todo' = [todo EXCEPT ![t] = {}]
  BY DEF EvictL1, ClearL2Cache, Retry, Store, Return, Set, localVars
<1>2. Moves(t)
  BY <1>D, <1>1, MovesFrom DEF Goto
<1>3. pc'[t] \in {"guest", "retry", "fault"}
  BY <1>D, <1>1 DEF Goto, Domains
<1>4. L1' = L1 \/ \E b \in Blocks : L1' = [L1 EXCEPT ![t][b] = None]
  BY DEF EvictL1, ClearL2Cache, Retry, Store, cacheVars
<1>5. FillsOwn(t)
  BY <1>D, <1>4, FillsFrom
<1>6. \A b \in Blocks : L1[t][b] = None => L1'[t][b] = None
  <2>1. ASSUME NEW b \in Blocks, L1' = [L1 EXCEPT ![t][b] = None], NEW c \in Blocks, L1[t][c] = None
        PROVE  L1'[t][c] = None
    <3>1. L1'[t] = [L1[t] EXCEPT ![b] = None]
      BY <1>D, <2>1 DEF Domains
    <3> QED BY <1>D, <2>1, <3>1 DEF Domains
  <2> QED BY <1>4, <2>1
<1>7. Away(t)' /\ pc[t] \notin LazyPC /\ pc'[t] \notin LazyPC
  BY <1>1, <1>3 DEF Away, LazyPC, TakePC, DeferPC
<1> QED BY <1>2, <1>5, <1>6, <1>7, OrdinaryStep

(* The walk over the caches empties them, and every other step of an       *)
(* invalidation leaves them alone.                                         *)
LEMMA WalkFills ==
  ASSUME Domains, NEW t \in Threads,
         \/ UNCHANGED L1
         \/ \E from, next : InvalidateThreadCache(t, from, next)
  PROVE  FillsOwn(t) /\ \A b \in Blocks : L1[t][b] = None => L1'[t][b] = None
<1>1. CASE UNCHANGED L1
  BY <1>1 DEF Domains, FillsOwn
<1>2. ASSUME NEW from, NEW next, InvalidateThreadCache(t, from, next), NEW u,
             L1' = [L1 EXCEPT ![u] = [b \in Blocks |-> IF b \in BlocksOn(page[t]) THEN None ELSE @[b]]]
      PROVE  FillsOwn(t) /\ \A b \in Blocks : L1[t][b] = None => L1'[t][b] = None
  <2>1. DOMAIN L1' = Threads /\ \A v \in Threads \ {u} : L1'[v] = L1[v]
    BY <1>2 DEF Domains
  <2>2. u \in Threads => L1'[u] = [b \in Blocks |-> IF b \in BlocksOn(page[t]) THEN None ELSE L1[u][b]]
    BY <1>2 DEF Domains
  <2>3. \A v \in Threads : DOMAIN L1'[v] = Blocks
    BY <2>1, <2>2 DEF Domains
  <2>4. \A v \in Threads, b \in Blocks : L1[v][b] = None => L1'[v][b] = None
    BY <2>1, <2>2
  <2> QED BY <2>1, <2>3, <2>4 DEF FillsOwn
<1> QED BY <1>1, <1>2 DEF InvalidateThreadCache

(* Every step of an invalidation.                                          *)
LEMMA InvalidationStep ==
  ASSUME PokeInv, NEW t \in Threads,
         \/ InvalidateGuestCodeRange(t) /\ UNCHANGED lazyVars
         \/ SoftInvalidateGuestCodeRange(t)
  PROVE  PokeInv'
<1>D. Domains
  BY DEF PokeInv
<1> DEFINE To(S, R) == Moves(t) /\ pc[t] \in S /\ (pc'[t] \in R)
<1>1. ASSUME NEW S, NEW R, S \subseteq R, NEW from \in S, NEW next \in R, TakeCodeInvalidationWriteLock(t, from, next)
      PROVE  To(S, R)
  <2>1. Moves(t)
    BY <1>D, <1>1, MovesFrom DEF TakeCodeInvalidationWriteLock, Goto, localVars
  <2>2. pc'[t] = pc[t] \/ pc'[t] = next
    BY <1>D, <1>1 DEF TakeCodeInvalidationWriteLock, Goto, Domains
  <2> QED BY <1>1, <2>1, <2>2 DEF TakeCodeInvalidationWriteLock
<1>2. ASSUME NEW S, NEW R, NEW from \in S, NEW soft, NEW next \in R, InvalidateCodeBuffers(t, from, soft, next)
      PROVE  To(S, R)
  <2>1. Moves(t)
    BY <1>D, <1>2, MovesFrom DEF InvalidateCodeBuffers, Goto, Set
  <2>2. pc'[t] = next
    BY <1>D, <1>2 DEF InvalidateCodeBuffers, Goto, Domains
  <2> QED BY <1>2, <2>1, <2>2 DEF InvalidateCodeBuffers
<1>3. ASSUME NEW S, NEW R, S \subseteq R, NEW from \in S, NEW next \in R, InvalidateThreadCache(t, from, next)
      PROVE  To(S, R)
  <2>1. Moves(t)
    BY <1>D, <1>3, MovesFrom DEF InvalidateThreadCache, Goto, Set
  <2>2. pc'[t] = pc[t] \/ pc'[t] = next
    BY <1>D, <1>3 DEF InvalidateThreadCache, Goto, Domains
  <2> QED BY <1>3, <2>1, <2>2 DEF InvalidateThreadCache
<1>4. Unlock(t) => To(HardPC, HardPC \union {"guest"})
  <2> SUFFICES ASSUME Unlock(t) PROVE To(HardPC, HardPC \union {"guest"})
    OBVIOUS
  <2>1. Moves(t)
    BY <1>D, MovesFrom DEF Unlock, Return, Goto, Set
  <2>2. pc'[t] = "guest"
    BY <1>D DEF Unlock, Return, Goto, Domains
  <2> QED BY <2>1, <2>2 DEF Unlock, HardPC
<1>5. DrainDone(t) => To(SweepPC, SweepPC)
  <2> SUFFICES ASSUME DrainDone(t) PROVE To(SweepPC, SweepPC)
    OBVIOUS
  <2>1. Moves(t)
    BY <1>D, MovesFrom DEF DrainDone, Goto, localVars
  <2>2. pc'[t] = "next"
    BY <1>D DEF DrainDone, Goto, Domains
  <2> QED BY <2>1, <2>2 DEF DrainDone, SweepPC
<1> HIDE DEF To
<1>6. InvalidateGuestCodeRange(t) => To(HardPC, HardPC \union {"guest"})
  <2>1. {"hard_lock", "hard_erase", "hard_walk", "hard_done"} \subseteq HardPC /\ HardPC \subseteq HardPC \union {"guest"}
    BY DEF HardPC
  <2> QED BY <1>1, <1>2, <1>3, <1>4, <2>1 DEF InvalidateGuestCodeRange
<1>7. SoftInvalidateGuestCodeRange(t) => To(SweepPC, SweepPC)
  <2>1. {"drain_lock", "drain_erase", "drain_walk", "drain_done"} \subseteq SweepPC /\ SweepPC \subseteq SweepPC
    BY DEF SweepPC
  <2> QED BY <1>1, <1>2, <1>3, <1>5, <2>1 DEF SoftInvalidateGuestCodeRange
<1>8. FillsOwn(t) /\ \A b \in Blocks : L1[t][b] = None => L1'[t][b] = None
  <2>1. \/ UNCHANGED L1
        \/ \E from, next : InvalidateThreadCache(t, from, next)
    BY DEF InvalidateGuestCodeRange, SoftInvalidateGuestCodeRange, TakeCodeInvalidationWriteLock, InvalidateCodeBuffers,
           Unlock, DrainDone, cacheVars
  <2> QED BY <1>D, <2>1, WalkFills
<1>9. UNCHANGED lazyVars
  BY DEF SoftInvalidateGuestCodeRange, DrainDone
<1>10. /\ Moves(t) /\ pc[t] \notin LazyPC /\ (pc'[t] \notin LazyPC)
       /\ Away(t) => Away(t)'
  <2>1. after' = after
    BY <1>9 DEF lazyVars
  <2>2. CASE To(HardPC, HardPC \union {"guest"})
    BY <2>2 DEF To, HardPC, LazyPC, TakePC, DeferPC, Away
  <2>3. CASE To(SweepPC, SweepPC)
    <3>1. pc[t] \notin {"guest", "retry", "fault"} \union HardPC
      BY <2>3 DEF To, SweepPC, HardPC
    <3> QED BY <2>1, <2>3, <3>1 DEF To, SweepPC, LazyPC, TakePC, DeferPC, Away
  <2> QED BY <1>6, <1>7, <2>2, <2>3
<1> QED BY <1>8, <1>9, <1>10, OrdinaryStep

(* What it takes for a step to be nobody else's.                           *)
LEMMA ApartFrom ==
  ASSUME Domains, NEW t \in Threads, Moves(t), FillsOwn(t),
         after' = after \/ \E l \in {"guest", "lookup", "enter", "scrub", "hard_lock"} : after' = [after EXCEPT ![t] = l],
         victim' = victim \/ \E x : victim' = [victim EXCEPT ![t] = x],
         \A u \in Threads \ {t} : u \in LazySMCDrainPending => u \in LazySMCDrainPending',
         \A u \in Threads \ {t} : u \in InterruptFaultPage => u \in InterruptFaultPage'
  PROVE  Apart(t)
<1> DEFINE Places == {"guest", "lookup", "enter", "scrub", "hard_lock"}
<1>1. (after' \in [Threads -> Places]) /\ \A u \in Threads \ {t} : after'[u] = after[u]
  <2>1. ASSUME NEW l \in Places, after' = [after EXCEPT ![t] = l]
        PROVE  (after' \in [Threads -> Places]) /\ \A u \in Threads \ {t} : after'[u] = after[u]
    BY <2>1 DEF Domains
  <2> QED BY <2>1 DEF Domains
<1>2. DOMAIN victim' = Threads /\ \A u \in Threads \ {t} : victim'[u] = victim[u]
  <2>1. ASSUME NEW x, victim' = [victim EXCEPT ![t] = x]
        PROVE  DOMAIN victim' = Threads /\ \A u \in Threads \ {t} : victim'[u] = victim[u]
    BY <2>1 DEF Domains
  <2> QED BY <2>1 DEF Domains
<1> QED BY <1>1, <1>2 DEF Apart, Domains, Moves, FillsOwn

(* An unchanged L1 is not filled.                                          *)
LEMMA FillsNothing ==
  ASSUME Domains, NEW t \in Threads, L1' = L1
  PROVE  FillsOwn(t)
BY DEF Domains, FillsOwn

(* What starts a drain, or runs into one at a block's entry.               *)
LEMMA SettleStep ==
  ASSUME PokeInv, NEW t \in Threads,
         BlockEntry(t) \/ \E b \in Blocks : ExitFunctionLink(t, b)
  PROVE  PokeInv'
<1>D. Domains
  BY DEF PokeInv
<1>1. /\ pc[t] = "guest" /\ Goto(t, "settle") /\ UNCHANGED <<L1, todo, victim, LazySMCDrainPending, SMCLazyDirtyPages>>
      /\ \E l \in {"guest", "lookup", "enter", "scrub", "hard_lock"} : after' = [after EXCEPT ![t] = l]
      /\ \A u \in Threads \ {t} : u \in InterruptFaultPage => u \in InterruptFaultPage'
  BY DEF BlockEntry, ExitFunctionLink, Dispatch, Set, cacheVars, localVars
<1>2. Moves(t) /\ FillsOwn(t)
  BY <1>D, <1>1, MovesFrom, FillsNothing DEF Goto
<1>3. Apart(t)
  BY <1>D, <1>1, <1>2, ApartFrom
<1>4. pc'[t] = "settle"
  BY <1>D, <1>1 DEF Goto, Domains
<1>5. Plain(t)
  BY <1>1, <1>3, <1>4 DEF Plain, LazyPC, TakePC, DeferPC
<1> QED BY <1>5, PlainStep

(* A hit of the slow lookup returns to guest code; a miss drains first.    *)
LEMMA LookupStep ==
  ASSUME PokeInv, NEW t \in Threads, CompileBlock(t)
  PROVE  PokeInv'
<1>D. Domains
  BY DEF PokeInv
<1>1. /\ pc[t] = "lookup" /\ UNCHANGED <<victim, SMCLazyDirtyPages, InterruptFaultPage>>
      /\ after' = [after EXCEPT ![t] = "enter"]
      /\ \A u \in Threads \ {t} : u \in LazySMCDrainPending => u \in LazySMCDrainPending'
  BY DEF CompileBlock, Lookup, Set
<1>2. PICK l : pc' = [pc EXCEPT ![t] = l]
  BY DEF CompileBlock, Lookup, Return, Goto
<1>3. Moves(t) /\ FillsOwn(t)
  <2>1. Moves(t)
    BY <1>D, <1>2, MovesFrom DEF CompileBlock, Lookup, Return, Set, localVars
  <2> QED BY <1>D, <2>1, FillsFrom DEF CompileBlock, Lookup, FindBlock
<1>4. Apart(t)
  BY <1>D, <1>1, <1>3, ApartFrom
<1>5. CASE Found(t, blk[t]) = None
  <2>1. pc'[t] = "count"
    BY <1>D, <1>5 DEF CompileBlock, Lookup, Goto, Domains
  <2>2. Owes(t)'
    BY <2>1 DEF Owes, TakePC
  <2>3. \A u \in Threads \ {t} : ~PokedBy(u, t)
    BY <1>1 DEF PokedBy, PokePC, TakePC
  <2> QED BY <1>1, <1>4, <2>2, <2>3, OwnStep
<1>6. CASE Found(t, blk[t]) # None
  <2>1. pc'[t] = "guest" /\ LazySMCDrainPending' = LazySMCDrainPending
    BY <1>D, <1>6 DEF CompileBlock, Lookup, Return, Goto, Domains
  <2>2. ~Scrubbed(t)
    BY <1>1 DEF Scrubbed, Away, HardPC, SweepPC
  <2>3. Plain(t)
    BY <1>1, <1>4, <2>1, <2>2 DEF Plain, LazyPC, TakePC, DeferPC
  <2> QED BY <2>3, PlainStep
<1> QED BY <1>5, <1>6

(* A system call takes the dirty pages.                                    *)
LEMMA SyscallStep ==
  ASSUME PokeInv, NEW t \in Threads, Syscall(t)
  PROVE  PokeInv'
<1>D. Domains
  BY DEF PokeInv
<1>1. Apart(t)
  <2>1. Moves(t) /\ FillsOwn(t)
    BY <1>D, MovesFrom, FillsNothing DEF Syscall, Goto, cacheVars, localVars
  <2> QED BY <1>D, <2>1, ApartFrom DEF Syscall, Set
<1>2. Owes(t)'
  <2>1. pc'[t] = "swap"
    BY <1>D DEF Syscall, Goto, Domains
  <2> QED BY <2>1 DEF Owes, TakePC
<1>3. \A u \in Threads \ {t} : ~PokedBy(u, t)
  BY DEF Syscall, PokedBy, PokePC, TakePC
<1> QED BY <1>1, <1>2, <1>3, OwnStep DEF Syscall

(* A guest mprotect only takes its page out of the set.                    *)
LEMMA MprotectStep ==
  ASSUME PokeInv, NEW t \in Threads, NEW p \in Pages, GuestMprotectLazy(t, p)
  PROVE  PokeInv'
<1>D. Domains
  BY DEF PokeInv
<1>1. Apart(t)
  <2>1. Moves(t) /\ FillsOwn(t)
    BY <1>D, MovesFrom, FillsNothing DEF GuestMprotectLazy, Goto, cacheVars
  <2> QED BY <1>D, <2>1, ApartFrom DEF GuestMprotectLazy, Set
<1>2. (pc'[t] \in {"next", "hard_lock"}) /\ after'[t] = "hard_lock"
  BY <1>D DEF GuestMprotectLazy, Goto, Set, Domains
<1>3. pc[t] = "guest" /\ UNCHANGED <<L1, LazySMCDrainPending, InterruptFaultPage>>
      /\ SMCLazyDirtyPages' \subseteq SMCLazyDirtyPages
  BY DEF GuestMprotectLazy, cacheVars
<1>4. Away(t)'
  BY <1>2 DEF Away, SweepPC, HardPC
<1>5. Scrubbed(t) => Scrubbed(t)'
  BY <1>3, <1>4 DEF Scrubbed
<1>6. Plain(t)
  BY <1>1, <1>2, <1>3, <1>5 DEF Plain, LazyPC, TakePC, DeferPC
<1> QED BY <1>6, PlainStep

(* The flag is taken: a thread that had it set drains, and one that had it *)
(* not set is still about to be poked.                                     *)
LEMMA TakeStep ==
  ASSUME PokeInv, NEW t \in Threads, TakeLazySMCDrainPending(t)
  PROVE  PokeInv'
<1>D. Domains
  BY DEF PokeInv
<1>1. Apart(t)
  <2>1. Moves(t) /\ FillsOwn(t)
    BY <1>D, MovesFrom, FillsNothing DEF TakeLazySMCDrainPending, Goto, cacheVars, localVars
  <2> QED BY <1>D, <2>1, ApartFrom DEF TakeLazySMCDrainPending
<1>2. \A u \in Threads \ {t} : ~PokedBy(u, t)
  BY DEF TakeLazySMCDrainPending, PokedBy, PokePC, TakePC
<1>3. CASE t \in LazySMCDrainPending
  <2>1. pc'[t] = "count"
    BY <1>D, <1>3 DEF TakeLazySMCDrainPending, Goto, Domains
  <2>2. Owes(t)'
    BY <2>1 DEF Owes, TakePC
  <2> QED BY <1>1, <1>2, <2>2, OwnStep DEF TakeLazySMCDrainPending
<1>4. CASE t \notin LazySMCDrainPending
  <2>1. pc[t] = "settle" /\ LazySMCDrainPending' = LazySMCDrainPending
    BY <1>4 DEF TakeLazySMCDrainPending
  <2>2. ASSUME Owes(t) PROVE Owes(t)'
    <3>1. PICK v \in Threads \ {t} : PokedBy(t, v)
      BY <1>4, <2>1, <2>2 DEF Owes, Scrubbed, TakePC, DeferPC
    <3>2. pc'[v] = pc[v] /\ todo'[v] = todo[v] /\ after'[v] = after[v] /\ victim'[v] = victim[v]
      BY <1>1 DEF Apart
    <3>3. PokedBy(t, v)'
      BY <2>1, <3>1, <3>2 DEF PokedBy
    <3> QED BY <3>3 DEF Owes
  <2> QED BY <1>1, <1>2, <2>2, OwnStep DEF TakeLazySMCDrainPending
<1> QED BY <1>3, <1>4

(* The load of the count and the exchange of the set.                      *)
LEMMA CountStep ==
  ASSUME PokeInv, NEW t \in Threads, DirtyCount(t) \/ DrainSMCLazyDirtyPages(t)
  PROVE  PokeInv'
<1>D. Domains
  BY DEF PokeInv
<1>1. Apart(t)
  <2>1. Moves(t) /\ FillsOwn(t)
    BY <1>D, MovesFrom, FillsNothing DEF DirtyCount, DrainSMCLazyDirtyPages, Goto, cacheVars, localVars
  <2> QED BY <1>D, <2>1, ApartFrom DEF DirtyCount, DrainSMCLazyDirtyPages, lazyVars
<1>2. ASSUME SMCLazyDirtyPages' # {} PROVE pc[t] = "count" /\ pc'[t] = "swap" /\ after' = after
  BY <1>D, <1>2 DEF DirtyCount, DrainSMCLazyDirtyPages, Goto, Domains, lazyVars
<1>3. ASSUME SMCLazyDirtyPages' # {}, NEW u \in Threads \ {t}, PokedBy(u, t) PROVE Owes(u)'
  <2>1. PokedBy(u, t)'
    BY <1>2, <1>3 DEF PokedBy, PokePC, TakePC
  <2> QED BY <2>1 DEF Owes
<1>4. SMCLazyDirtyPages' # {} => Owes(t)'
  BY <1>2 DEF Owes, TakePC
<1>5. SMCLazyDirtyPages' \subseteq SMCLazyDirtyPages
  BY DEF DirtyCount, DrainSMCLazyDirtyPages, lazyVars
<1> QED BY <1>1, <1>3, <1>4, <1>5, OwnStep

(* From one page of the batch to the next, and out of the drain.           *)
LEMMA NextPageStep ==
  ASSUME PokeInv, NEW t \in Threads, NextLazyPage(t)
  PROVE  PokeInv'
<1>D. Domains
  BY DEF PokeInv
<1>1. Apart(t)
  <2>1. Moves(t) /\ FillsOwn(t)
    BY <1>D, MovesFrom, FillsNothing DEF NextLazyPage, Goto, cacheVars
  <2> QED BY <1>D, <2>1, ApartFrom DEF NextLazyPage
<1>2. /\ pc[t] = "next"
      /\ UNCHANGED <<L1, after, LazySMCDrainPending, InterruptFaultPage, SMCLazyDirtyPages>>
  BY DEF NextLazyPage, cacheVars
<1>3. pc'[t] = "drain_lock" \/ pc'[t] = after[t]
  BY <1>D DEF NextLazyPage, Goto, Domains
<1>4. \A u \in Threads \ {t} : ~PokedBy(u, t)
  BY <1>2 DEF PokedBy, PokePC, TakePC
<1>5. CASE pc'[t] = "scrub"
  BY <1>1, <1>2, <1>4, <1>5, OwnStep DEF Owes, DeferPC
<1>6. CASE pc'[t] # "scrub"
  <2>1. after[t] \in {"guest", "lookup", "enter", "scrub", "hard_lock"}
    BY <1>D DEF Domains
  <2>2. Away(t) => Away(t)'
    BY <1>2, <1>3, <1>6, <2>1 DEF Away, SweepPC, HardPC
  <2>3. Scrubbed(t) => Scrubbed(t)'
    BY <1>2, <2>2 DEF Scrubbed
  <2>4. pc'[t] \notin LazyPC
    BY <1>3, <1>6, <2>1 DEF LazyPC, TakePC, DeferPC
  <2>5. Plain(t)
    BY <1>1, <1>2, <2>3, <2>4 DEF Plain, LazyPC, TakePC, DeferPC
  <2> QED BY <2>5, PlainStep
<1> QED BY <1>5, <1>6

(* A fault that starts an epoch is about to poke everyone else; one within *)
(* an epoch finds that everyone owes.                                      *)
LEMMA MarkStep ==
  ASSUME PokeInv, NEW t \in Threads, MarkSMCLazyDirtyPage(t)
  PROVE  PokeInv'
<1>D. Domains
  BY DEF PokeInv
<1>1. Apart(t)
  <2>1. Moves(t) /\ FillsOwn(t)
    BY <1>D, MovesFrom, FillsNothing DEF MarkSMCLazyDirtyPage, Goto, Set, cacheVars
  <2> QED BY <1>D, <2>1, ApartFrom DEF MarkSMCLazyDirtyPage
<1>2. pc[t] = "fault" /\ pc'[t] = "open"
  BY <1>D DEF MarkSMCLazyDirtyPage, Goto, Domains
<1> SUFFICES ASSUME SMCLazyCrossPoke, NEW u \in Threads PROVE Owes(u)'
  BY <1>1 DEF PokeInv, Apart
<1>3. CASE u = t
  BY <1>2, <1>3 DEF Owes, DeferPC
<1>4. CASE u # t /\ SMCLazyDirtyPages = {}
  <2>1. u \in todo'[t]
    BY <1>D, <1>4 DEF MarkSMCLazyDirtyPage, Set, Domains
  <2>2. PokedBy(u, t)'
    BY <1>2, <2>1 DEF PokedBy, PokePC
  <2> QED BY <1>4, <2>2 DEF Owes
<1>5. CASE u # t /\ SMCLazyDirtyPages # {}
  <2>1. Owes(u) /\ ~PokedBy(u, t)
    BY <1>2, <1>5 DEF PokeInv, PokedBy, PokePC, TakePC
  <2> QED BY <1>1, <1>5, <2>1, ApartOthers
<1> QED BY <1>3, <1>4, <1>5

(* The rest of the handler, up to the scrub.                               *)
LEMMA PokeStep ==
  ASSUME PokeInv, NEW t \in Threads,
         UnprotectRegion(t) \/ ArmLazySMCDrainPending(t) \/ ProtectInterruptFaultPage(t)
  PROVE  PokeInv'
<1>D. Domains
  BY DEF PokeInv
<1>1. Apart(t)
  <2>1. Moves(t) /\ FillsOwn(t)
    BY <1>D, MovesFrom, FillsNothing
       DEF UnprotectRegion, ArmLazySMCDrainPending, ProtectInterruptFaultPage, Goto, Set, cacheVars, localVars
  <2> QED BY <1>D, <2>1, ApartFrom DEF UnprotectRegion, ArmLazySMCDrainPending, ProtectInterruptFaultPage, Set
<1>2. UNCHANGED SMCLazyDirtyPages
  BY DEF UnprotectRegion, ArmLazySMCDrainPending, ProtectInterruptFaultPage
<1>3. Owes(t)'
  <2>1. pc'[t] \in {"poke", "count", "poke_page", "scrub"}
    BY <1>D DEF UnprotectRegion, ArmLazySMCDrainPending, ProtectInterruptFaultPage, Goto, Domains
  <2> QED BY <2>1 DEF Owes, TakePC, DeferPC
<1>4. ASSUME NEW u \in Threads \ {t}, PokedBy(u, t) PROVE Owes(u)'
  <2>1. CASE UnprotectRegion(t)
    <3>1. u \in todo[t] /\ todo' = todo /\ (pc'[t] \in {"poke", "count"}) /\ after'[t] = "scrub"
      BY <1>D, <1>4, <2>1 DEF UnprotectRegion, PokedBy, TakePC, Goto, Set, Domains, localVars
    <3>2. PokedBy(u, t)'
      BY <3>1 DEF PokedBy, PokePC, TakePC
    <3> QED BY <3>2 DEF Owes
  <2>2. CASE ArmLazySMCDrainPending(t)
    <3>1. u \in todo[t] /\ todo' = todo
      BY <1>4, <2>2 DEF ArmLazySMCDrainPending, PokedBy, TakePC, localVars
    <3>2. PICK v \in todo[t] : /\ LazySMCDrainPending' = LazySMCDrainPending \union {v}
                               /\ victim' = Set(victim, t, v) /\ Goto(t, "poke_page")
      BY <2>2, <3>1 DEF ArmLazySMCDrainPending
    <3>3. victim'[t] = v /\ pc'[t] = "poke_page"
      BY <1>D, <3>2 DEF Set, Goto, Domains
    <3>4. PokedBy(u, t)'
      BY <3>1, <3>2, <3>3 DEF PokedBy
    <3> QED BY <3>4 DEF Owes
  <2>3. CASE ProtectInterruptFaultPage(t)
    <3>1. pc[t] = "poke_page" /\ pc'[t] = "poke" /\ todo'[t] = todo[t] \ {victim[t]}
          /\ InterruptFaultPage' = InterruptFaultPage \union {victim[t]}
          /\ LazySMCDrainPending' = LazySMCDrainPending
      BY <1>D, <2>3 DEF ProtectInterruptFaultPage, Goto, Set, Domains
    <3>2. u \in todo[t] /\ (victim[t] = u => u \in LazySMCDrainPending)
      BY <1>4, <3>1 DEF PokedBy, PokePC, TakePC
    <3>3. CASE victim[t] = u
      BY <3>1, <3>2, <3>3 DEF Owes
    <3>4. CASE victim[t] # u
      <4>1. PokedBy(u, t)'
        BY <3>1, <3>2, <3>4 DEF PokedBy, PokePC
      <4> QED BY <4>1 DEF Owes
    <3> QED BY <3>3, <3>4
  <2> QED BY <2>1, <2>2, <2>3
<1> QED BY <1>1, <1>2, <1>3, <1>4, OwnStep

(* ScrubForLazySMC: the thread has nothing left to run.                    *)
LEMMA ScrubStep ==
  ASSUME PokeInv, NEW t \in Threads, ScrubForLazySMC(t)
  PROVE  PokeInv'
<1>D. Domains
  BY DEF PokeInv
<1>1. /\ DOMAIN L1' = Threads
      /\ L1'[t] = [b \in Blocks |-> None]
      /\ \A u \in Threads \ {t} : L1'[u] = L1[u]
  BY <1>D DEF ScrubForLazySMC, Domains
<1>2. Moves(t) /\ FillsOwn(t)
  <2>1. Moves(t)
    BY <1>D, MovesFrom DEF ScrubForLazySMC, Goto, Set
  <2>2. \A u \in Threads : DOMAIN L1'[u] = Blocks
    BY <1>D, <1>1 DEF Domains
  <2> QED BY <1>1, <2>1, <2>2 DEF FillsOwn
<1>3. Apart(t)
  BY <1>D, <1>2, ApartFrom DEF ScrubForLazySMC
<1>4. pc[t] = "scrub" /\ pc'[t] = "retry"
  BY <1>D DEF ScrubForLazySMC, Goto, Domains
<1>5. Owes(t)'
  BY <1>1, <1>4 DEF ScrubForLazySMC, Owes, Scrubbed, Away
<1>6. \A u \in Threads \ {t} : ~PokedBy(u, t)
  BY <1>4 DEF PokedBy, PokePC, TakePC
<1> QED BY <1>3, <1>5, <1>6, OwnStep DEF ScrubForLazySMC

(* The invariant holds of every step.                                      *)
LEMMA PokeNext ==
  ASSUME PokeInv, [LazyNext]_allVars
  PROVE  PokeInv'
<1>1. CASE UNCHANGED allVars
  <2>1. UNCHANGED <<pc, todo, after, victim, L1, SMCLazyDirtyPages, LazySMCDrainPending, InterruptFaultPage>>
    BY <1>1 DEF allVars, vars, cacheVars, localVars, lazyVars
  <2>2. \A t \in Threads : Owes(t) => Owes(t)'
    BY <2>1 DEF Owes, Scrubbed, Away, PokedBy
  <2> QED BY <2>1, <2>2 DEF PokeInv, Domains
<1>2. ASSUME NEW t \in Threads,
             \/ /\ \/ \E b \in Blocks : EvictL1(t, b)
                   \/ ClearL2Cache(t)
                   \/ Compile(t)
                   \/ \E w \in Words, v \in Bytes : Store(t, w, v)
                   \/ Retry(t)
                   \/ InvalidateGuestCodeRange(t)
                /\ UNCHANGED lazyVars
             \/ \E b \in Blocks : ExitFunctionLink(t, b)
             \/ CompileBlock(t)
             \/ Syscall(t) \/ BlockEntry(t) \/ Drain(t)
             \/ \E p \in Pages : GuestMprotectLazy(t, p)
             \/ HandleSegfaultLazy(t)
      PROVE  PokeInv'
  BY <1>2, GuestStep, CompileStep, InvalidationStep, SettleStep, LookupStep, SyscallStep, MprotectStep, TakeStep, CountStep,
     NextPageStep, MarkStep, PokeStep, ScrubStep DEF Drain, HandleSegfaultLazy
<1> QED BY <1>1, <1>2 DEF LazyNext

(* EveryoneOwes: with SMCLazyCrossPoke, whatever the threads, the blocks    *)
(* and the pages, a thread whose L1 holds a block of a dirty page traps at *)
(* its next block entry, or another thread is about to make it trap or to  *)
(* end the epoch.                                                          *)
THEOREM PokedBeforeRun == LazySpec => []EveryoneOwes
<1>1. LazyInit => PokeInv
  BY DEF LazyInit, Init, PokeInv, Domains
<1>2. PokeInv /\ [LazyNext]_allVars => PokeInv'
  BY PokeNext
<1>3. PokeInv => EveryoneOwes
  <2> SUFFICES ASSUME PokeInv, SMCLazyCrossPoke, NEW t \in Threads, NEW b \in Blocks, pc[t] = "guest", L1[t][b] # None,
                      PagesOf(b) \intersect SMCLazyDirtyPages # {}
               PROVE  \/ t \in InterruptFaultPage
                      \/ \E u \in Threads \ {t} : pc[u] \in DeferPC \/ (pc[u] \in DrainPC /\ after[u] = "scrub")
    BY DEF EveryoneOwes
  <2>1. Owes(t)
    BY DEF PokeInv
  <2>2. ASSUME NEW u \in Threads \ {t}, PokedBy(t, u) PROVE pc[u] \in DeferPC \/ (pc[u] \in DrainPC /\ after[u] = "scrub")
    BY <2>2 DEF PokedBy, PokePC, TakePC, DeferPC, DrainPC
  <2> QED BY <2>1, <2>2 DEF Owes, Scrubbed, TakePC, DeferPC
<1> QED BY <1>1, <1>2, <1>3, PTL DEF LazySpec

-----------------------------------------------------------------------------
(* Lazy invalidation, a program of one thread.  Between a fault and the    *)
(* drain, translations of the dirty pages are stale, and the thread has an *)
(* empty L1 and drains before it looks one up.                             *)

(* Every thread has its locals and caches, every block its entries and     *)
(* every page its list.                                                    *)
Shape ==
  /\ DOMAIN pc = Threads /\ DOMAIN blk = Threads /\ DOMAIN entry = Threads /\ DOMAIN todo = Threads
  /\ DOMAIN page = Threads /\ DOMAIN store = Threads /\ DOMAIN batch = Threads /\ DOMAIN after = Threads
  /\ DOMAIN L1 = Threads /\ \A t \in Threads : DOMAIN L1[t] = Blocks
  /\ DOMAIN L2 = Threads /\ \A t \in Threads : DOMAIN L2[t] = Blocks
  /\ DOMAIN BlockList = Blocks /\ DOMAIN RetainedBlocks = Blocks /\ DOMAIN CodePages = Pages

(* The page is dirty, in a batch, or being invalidated.                    *)
SweepingPC == {"drain_lock", "drain_erase", "hard_lock", "hard_erase"}
Deferred(t, p) ==
  p \in SMCLazyDirtyPages \/ p \in batch[t] \/ (pc[t] \in SweepingPC /\ page[t] = p)

(* While a page is dirty the thread has nothing to run, and it drains      *)
(* before it looks a block up.                                             *)
Idle(t) ==
  SMCLazyDirtyPages # {} =>
    \/ pc[t] \in TakePC \union DeferPC
    \/ t \in LazySMCDrainPending /\ (Away(t) \/ pc[t] = "settle") /\ \A b \in Blocks : L1[t][b] = None

(* What the thread's locals are where it uses them.                        *)
Batched(t) == (pc[t] \notin SweepPC => batch[t] = {}) /\ batch[t] \subseteq Pages /\ SMCLazyDirtyPages \subseteq Pages
Named(t) ==
  pc[t] \in CompilePC \union {"lookup", "enter"} \/ (pc[t] \in DrainPC /\ after[t] \in {"lookup", "enter"}) => blk[t] \in Blocks
Stored(t) ==
  pc[t] \in {"fault", "retry"} \union DeferPC \/ (pc[t] \in DrainPC /\ after[t] = "scrub") => store[t] \in Words \X Bytes
Placed(t) ==
  /\ pc[t] \in {"arm", "rearm", "fault"} \union HardPC \union (SweepPC \ {"next"}) => page[t] \in Pages
  /\ pc[t] = "next" /\ after[t] = "hard_lock" => page[t] \in Pages
  /\ pc[t] = "open" => page[t] \in SMCLazyDirtyPages
  /\ pc[t] \in TakePC \union {"settle"} => after[t] # "hard_lock"
(* The control state of the thread.                                        *)
Control(t) ==
  /\ after[t] \in {"guest", "lookup", "enter", "scrub", "hard_lock"}
  /\ Idle(t) /\ Batched(t) /\ Named(t) /\ Stored(t) /\ Placed(t)

(* The block being compiled is registered on the pages done with, decoded  *)
(* from the bytes in memory, and not in L2.                                *)
Enlisted(t) ==
  /\ pc[t] \in Registering => \A p \in PagesOf(blk[t]) : p \in todo[t] \/ blk[t] \in CodePages[p]
  /\ pc[t] \in Registering => todo[t] \subseteq PagesOf(blk[t])
  /\ pc[t] \in Registration => \A p \in PagesOf(blk[t]) : blk[t] \in CodePages[p]
Image(b) == [code |-> Contents(b), hash |-> Contents(b)]
DecodedPC == Registering \union Registration \union {"recheck"}
Decoded(t) == pc[t] \in DecodedPC => entry[t] = Image(blk[t])
NotInL2(t) == pc[t] \in DecodedPC \union {"take", "decode"} => L2[t][blk[t]] = None
Work(t) == Enlisted(t) /\ Decoded(t) /\ NotInL2(t)

(* An entry holds one image of the block's bytes, and the current one      *)
(* unless a page of the block awaits an invalidation.                      *)
OfOneImage(e) == \E c : e = [code |-> c, hash |-> c]
OneImage == \A b \in Blocks :
  (BlockList[b] # None => OfOneImage(BlockList[b])) /\ (RetainedBlocks[b] # None => OfOneImage(RetainedBlocks[b]))
UpToDate(t) ==
  \A b \in Blocks : BlockList[b] # None /\ (\A p \in PagesOf(b) : ~Deferred(t, p)) => BlockList[b] = Image(b)

(* A page with code on it is armed, about to be, or awaits an invalidation.*)
Covered(t) ==
  \A p \in Pages : CodePages[p] # {} => p \in armed \/ Deferred(t, p) \/ (pc[t] \in ArmPC /\ page[t] = p)

(* L1 and L2 hold what the shared map holds, except until an invalidation  *)
(* has walked them.                                                        *)
Unwalked(t, b) == pc[t] \in {"drain_walk", "hard_walk"} /\ t \in todo[t] /\ page[t] \in PagesOf(b)
Agrees(x, t, b) == x # None => (BlockList[b] # None /\ x = BlockList[b].code) \/ Unwalked(t, b)
Follow(t) == \A b \in Blocks : Agrees(L1[t][b], t, b) /\ Agrees(L2[t][b], t, b)

(* What is known of memory, protections, the shared map and the caches.    *)
Data(t) ==
  /\ mem \in [Words -> Bytes]
  /\ Registered /\ OnPages /\ OneImage /\ UpToDate(t) /\ Covered(t) /\ Follow(t)

(* The program has one thread; and the inductive invariant.                *)
OneThread == \A t, u \in Threads : t = u
SelfInv == Shape /\ \A t \in Threads : Control(t) /\ Work(t) /\ Data(t)

-----------------------------------------------------------------------------
(* The bytes of a block change with the memory it covers.                  *)
LEMMA ContentsKept ==
  ASSUME NEW b \in Blocks, \A w \in Extent[b] : mem'[w] = mem[w]
  PROVE  Contents(b)' = Contents(b) /\ Image(b)' = Image(b)
<1>1. Contents(b)' = Contents(b)
  BY SMT DEF Contents
<1> QED BY <1>1 DEF Image

(* A cached value x of b that was cached, or comes from the shared map.    *)
Kept(x, t, b) == x # None => x = L1[t][b] \/ x = L2[t][b] \/ (BlockList[b] # None /\ x = BlockList[b].code)

(* Every step but a compiler's registration and publication, a store that  *)
(* retires and an invalidation's sweep: the code on a page stays, and      *)
(* every page stays armed or deferred.                                     *)
Steady(t) ==
  /\ UNCHANGED <<mem, BlockList, CodePages>>
  /\ \A b \in Blocks : RetainedBlocks'[b] = RetainedBlocks[b] \/ RetainedBlocks'[b] = None
  /\ \A p \in Pages : Deferred(t, p) => Deferred(t, p)'
  /\ \A p \in Pages : p \in armed => p \in armed' \/ Deferred(t, p)'
  /\ pc[t] \in ArmPC => page[t] \in armed'
  /\ pc[t] \notin {"drain_walk", "hard_walk"} \/ todo[t] = {}
  /\ \A b \in Blocks : Kept(L1'[t][b], t, b) /\ Kept(L2'[t][b], t, b)

(* Such a step keeps the data.                                             *)
LEMMA SteadyKeeps ==
  ASSUME NEW t \in Threads, Data(t), Steady(t)
  PROVE  Data(t)'
<1>1. Registered' /\ OnPages'
  BY DEF Data, Steady, Registered, OnPages
<1>2. OneImage'
  BY DEF Data, Steady, OneImage
<1>3. UpToDate(t)'
  <2> SUFFICES ASSUME NEW b \in Blocks, BlockList'[b] # None, \A p \in PagesOf(b) : ~Deferred(t, p)'
               PROVE  BlockList'[b] = Image(b)'
    BY DEF UpToDate
  <2>1. \A p \in PagesOf(b) : ~Deferred(t, p)
    BY PagesTyped DEF Steady
  <2>2. BlockList[b] = Image(b)
    BY <2>1 DEF Data, UpToDate, Steady
  <2>3. Image(b)' = Image(b)
    BY ContentsKept DEF Steady
  <2> QED BY <2>2, <2>3 DEF Steady
<1>4. Covered(t)'
  BY DEF Data, Steady, Covered
<1>5. Follow(t)'
  <2> SUFFICES ASSUME NEW b \in Blocks PROVE Agrees(L1[t][b], t, b)' /\ Agrees(L2[t][b], t, b)'
    BY DEF Follow
  <2>1. ~Unwalked(t, b)
    BY DEF Steady, Unwalked
  <2>2. Agrees(L1[t][b], t, b) /\ Agrees(L2[t][b], t, b)
    BY DEF Data, Follow
  <2>3. ASSUME NEW x, Kept(x, t, b), x # None PROVE BlockList'[b] # None /\ x = BlockList'[b].code
    BY <2>1, <2>2, <2>3 DEF Kept, Agrees, Steady
  <2>4. Kept(L1'[t][b], t, b) /\ Kept(L2'[t][b], t, b)
    BY DEF Steady
  <2> QED BY <2>3, <2>4 DEF Agrees
<1>6. mem' \in [Words -> Bytes]
  BY DEF Data, Steady
<1> QED BY <1>1, <1>2, <1>3, <1>4, <1>5, <1>6 DEF Data

(* What a step may do to the variables' shapes.                            *)
Changes(t) ==
  /\ pc' = pc \/ \E v : pc' = [pc EXCEPT ![t] = v]
  /\ blk' = blk \/ \E v : blk' = [blk EXCEPT ![t] = v]
  /\ entry' = entry \/ \E v : entry' = [entry EXCEPT ![t] = v] \/ entry' = [entry EXCEPT ![t].hash = v]
  /\ todo' = todo \/ \E v : todo' = [todo EXCEPT ![t] = v]
  /\ page' = page \/ \E v : page' = [page EXCEPT ![t] = v]
  /\ store' = store \/ \E v : store' = [store EXCEPT ![t] = v]
  /\ batch' = batch \/ \E v : batch' = [batch EXCEPT ![t] = v]
  /\ after' = after \/ \E v : after' = [after EXCEPT ![t] = v]
  /\ BlockList' = BlockList \/ (\E b, v : BlockList' = [BlockList EXCEPT ![b] = v]) \/ DOMAIN BlockList' = Blocks
  /\ \/ RetainedBlocks' = RetainedBlocks \/ DOMAIN RetainedBlocks' = Blocks
     \/ \E b, v : RetainedBlocks' = [RetainedBlocks EXCEPT ![b] = v]
  /\ CodePages' = CodePages \/ \E p, v : CodePages' = [CodePages EXCEPT ![p] = v]

(* Such a step keeps them.                                                 *)
LEMMA ShapeKept ==
  ASSUME Shape, NEW t \in Threads, Changes(t),
         DOMAIN L1' = Threads /\ \A u \in Threads : DOMAIN L1'[u] = Blocks,
         DOMAIN L2' = Threads /\ \A u \in Threads : DOMAIN L2'[u] = Blocks
  PROVE  Shape'
<1>1. \A f, x, v : DOMAIN [f EXCEPT ![x] = v] = DOMAIN f
  OBVIOUS
<1>2. DOMAIN pc' = Threads /\ DOMAIN blk' = Threads /\ DOMAIN todo' = Threads /\ DOMAIN page' = Threads
  BY <1>1 DEF Changes, Shape
<1>3. DOMAIN store' = Threads /\ DOMAIN batch' = Threads /\ DOMAIN after' = Threads
  BY <1>1 DEF Changes, Shape
<1>4. DOMAIN entry' = Threads
  BY <1>1 DEF Changes, Shape
<1>5. DOMAIN BlockList' = Blocks
  BY <1>1 DEF Changes, Shape
<1>6. DOMAIN RetainedBlocks' = Blocks
  BY <1>1 DEF Changes, Shape
<1>7. DOMAIN CodePages' = Pages
  BY <1>1 DEF Changes, Shape
<1> QED BY <1>2, <1>3, <1>4, <1>5, <1>6, <1>7 DEF Shape

(* What holds before a step of thread t, and is to hold after it.          *)
Own(t) == Control(t) /\ Work(t) /\ Data(t)

(* Outside of CompileBlock there is no work.                               *)
LEMMA NoWork ==
  ASSUME NEW t \in Threads, pc'[t] \notin CompilePC
  PROVE  Work(t)'
<1>1. pc'[t] \notin DecodedPC \union {"take", "decode"} /\ pc'[t] \notin Registering \union Registration
  BY DEF CompilePC, RelinkPC, DecodedPC, Registering, Registration
<1> QED BY <1>1 DEF Work, Enlisted, Decoded, NotInL2

(* Steps that change no cache keep the caches' shape.                      *)
LEMMA CachesShape ==
  ASSUME Shape, UNCHANGED <<L1, L2>>
  PROVE  /\ DOMAIN L1' = Threads /\ \A u \in Threads : DOMAIN L1'[u] = Blocks
         /\ DOMAIN L2' = Threads /\ \A u \in Threads : DOMAIN L2'[u] = Blocks
BY DEF Shape

(* A step that keeps memory, protections and caches is steady if it drops  *)
(* no deferred page.                                                       *)
LEMMA SteadyFrom ==
  ASSUME NEW t \in Threads, UNCHANGED <<mem, armed, cacheVars>>, pc[t] \notin ArmPC,
         pc[t] \notin {"drain_walk", "hard_walk"} \/ todo[t] = {},
         \A p \in Pages : Deferred(t, p) => Deferred(t, p)'
  PROVE  Steady(t)
BY DEF Steady, Kept, cacheVars

(* A dispatch that misses in L1, a system call, a trapping block entry.    *)
LEMMA DrainEntryOwn ==
  ASSUME Shape, NEW t \in Threads, Own(t),
         BlockEntry(t) \/ Syscall(t) \/ \E b \in Blocks : ExitFunctionLink(t, b)
  PROVE  Shape' /\ Own(t)'
<1>1. Shape'
  <2>1. Changes(t) /\ UNCHANGED <<L1, L2>>
    BY DEF Changes, BlockEntry, Syscall, ExitFunctionLink, Dispatch, Goto, Set, localVars, cacheVars, guestVars
  <2> QED BY <2>1, ShapeKept, CachesShape
<1>2. /\ pc[t] = "guest" /\ (pc'[t] \in {"settle", "swap"})
      /\ UNCHANGED <<mem, armed, cacheVars, batch, SMCLazyDirtyPages, LazySMCDrainPending>>
  BY DEF Shape, BlockEntry, Syscall, ExitFunctionLink, Dispatch, Goto, guestVars
<1>3. /\ after'[t] \in {"guest", "lookup"}
      /\ after'[t] = "lookup" => blk'[t] \in Blocks
  BY DEF Shape, BlockEntry, Syscall, ExitFunctionLink, Dispatch, Set
<1>4. Control(t)'
  <2>1. Idle(t)'
    <3>1. L1' = L1
      BY <1>2 DEF cacheVars
    <3> QED BY <1>2, <3>1 DEF Own, Control, Idle, TakePC, DeferPC
  <2>2. Batched(t)'
    BY <1>2 DEF Own, Control, Batched, SweepPC
  <2>3. Named(t)' /\ Stored(t)' /\ Placed(t)'
    BY <1>2, <1>3 DEF Named, Stored, Placed, CompilePC, RelinkPC, DeferPC, HardPC, SweepPC
  <2> QED BY <1>3, <2>1, <2>2, <2>3 DEF Control
<1>5. Work(t)'
  BY <1>2, NoWork DEF CompilePC, RelinkPC
<1>6. Steady(t)
  <2>1. \A p \in Pages : Deferred(t, p) => Deferred(t, p)'
    BY <1>2 DEF Deferred, SweepingPC
  <2> QED BY <1>2, <2>1, SteadyFrom DEF ArmPC
<1> QED BY <1>1, <1>4, <1>5, <1>6, SteadyKeeps DEF Own

(* The flag and the count, before a drain.                                 *)
LEMMA CountOwn ==
  ASSUME Shape, NEW t \in Threads, Own(t), TakeLazySMCDrainPending(t) \/ DirtyCount(t)
  PROVE  Shape' /\ Own(t)'
<1>1. Shape'
  <2>1. Changes(t) /\ UNCHANGED <<L1, L2>>
    BY DEF Changes, TakeLazySMCDrainPending, DirtyCount, Goto, Set, localVars, cacheVars, guestVars, lazyVars
  <2> QED BY <2>1, ShapeKept, CachesShape
<1>2. /\ pc[t] \in {"settle", "count"}
      /\ UNCHANGED <<mem, armed, cacheVars, blk, store, page, batch, after, SMCLazyDirtyPages>>
  BY DEF TakeLazySMCDrainPending, DirtyCount, guestVars, localVars, lazyVars
<1>3. (pc'[t] \in {"count", "swap"}) \/ (pc'[t] = after[t] /\ SMCLazyDirtyPages = {})
  <2>1. CASE DirtyCount(t)
    BY <2>1 DEF Shape, DirtyCount, Goto
  <2>2. CASE TakeLazySMCDrainPending(t)
    <3>1. t \notin LazySMCDrainPending => SMCLazyDirtyPages = {}
      BY <2>2 DEF TakeLazySMCDrainPending, Own, Control, Idle, TakePC, DeferPC
    <3> QED BY <2>2, <3>1 DEF Shape, TakeLazySMCDrainPending, Goto
  <2> QED BY <2>1, <2>2
<1>A. after[t] \in {"guest", "lookup", "enter", "scrub"}
  BY <1>2 DEF Own, Control, Placed, TakePC
<1>4. Control(t)'
  <2>1. Idle(t)'
    BY <1>2, <1>3 DEF Idle, TakePC
  <2>2. Batched(t)'
    BY <1>2, <1>3, <1>A DEF Own, Control, Batched, SweepPC
  <2>3. Named(t)'
    BY <1>2, <1>3, <1>A DEF Own, Control, Named, CompilePC, RelinkPC, DrainPC
  <2>4. Stored(t)'
    BY <1>2, <1>3, <1>A DEF Own, Control, Stored, DeferPC, DrainPC
  <2>5. Placed(t)'
    BY <1>2, <1>3, <1>A DEF Placed, HardPC, SweepPC
  <2> QED BY <1>2, <1>A, <2>1, <2>2, <2>3, <2>4, <2>5 DEF Control
<1>5. Work(t)'
  BY <1>3, <1>A, NoWork DEF CompilePC, RelinkPC
<1>6. Steady(t)
  <2>1. \A p \in Pages : Deferred(t, p) => Deferred(t, p)'
    BY <1>2 DEF Deferred, SweepingPC
  <2> QED BY <1>2, <2>1, SteadyFrom DEF ArmPC
<1> QED BY <1>1, <1>4, <1>5, <1>6, SteadyKeeps DEF Own

(* A drain takes the dirty pages.                                          *)
LEMMA SwapOwn ==
  ASSUME Shape, NEW t \in Threads, Own(t), DrainSMCLazyDirtyPages(t)
  PROVE  Shape' /\ Own(t)'
<1>1. Shape'
  <2>1. Changes(t) /\ UNCHANGED <<L1, L2>>
    BY DEF Changes, DrainSMCLazyDirtyPages, Goto, Set, localVars, cacheVars, guestVars
  <2> QED BY <2>1, ShapeKept, CachesShape
<1>2. /\ pc[t] = "swap" /\ pc'[t] = "next" /\ batch'[t] = SMCLazyDirtyPages /\ SMCLazyDirtyPages' = {}
      /\ UNCHANGED <<mem, armed, cacheVars, blk, store, page, after>>
  BY DEF Shape, DrainSMCLazyDirtyPages, Goto, Set, guestVars, localVars
<1>A. after[t] \in {"guest", "lookup", "enter", "scrub"}
  BY <1>2 DEF Own, Control, Placed, TakePC
<1>4. Control(t)'
  <2>1. Idle(t)' /\ Batched(t)'
    BY <1>2 DEF Own, Control, Idle, Batched, SweepPC
  <2>3. Named(t)'
    BY <1>2 DEF Own, Control, Named, CompilePC, RelinkPC, DrainPC
  <2>4. Stored(t)'
    BY <1>2 DEF Own, Control, Stored, DeferPC, DrainPC
  <2>5. Placed(t)'
    BY <1>2, <1>A DEF Placed, HardPC, SweepPC, TakePC
  <2> QED BY <1>2, <1>A, <2>1, <2>3, <2>4, <2>5 DEF Control
<1>5. Work(t)'
  BY <1>2, NoWork DEF CompilePC, RelinkPC
<1>6. Steady(t)
  <2>1. batch[t] = {}
    BY <1>2 DEF Own, Control, Batched, SweepPC
  <2>2. \A p \in Pages : Deferred(t, p) => Deferred(t, p)'
    BY <1>2, <2>1 DEF Deferred, SweepingPC
  <2> QED BY <1>2, <2>2, SteadyFrom DEF ArmPC
<1> QED BY <1>1, <1>4, <1>5, <1>6, SteadyKeeps DEF Own

(* One page of the batch after another, and out of the drain.              *)
LEMMA NextPageOwn ==
  ASSUME Shape, NEW t \in Threads, Own(t), NextLazyPage(t)
  PROVE  Shape' /\ Own(t)'
<1>1. Shape'
  <2>1. Changes(t) /\ UNCHANGED <<L1, L2>>
    BY DEF Changes, NextLazyPage, Goto, Set, cacheVars, guestVars
  <2> QED BY <2>1, ShapeKept, CachesShape
<1>2. /\ pc[t] = "next"
      /\ UNCHANGED <<mem, armed, cacheVars, blk, store, after, SMCLazyDirtyPages, LazySMCDrainPending>>
  BY DEF NextLazyPage, guestVars
<1>A. after[t] \in {"guest", "lookup", "enter", "scrub", "hard_lock"} /\ after'[t] = after[t] /\ L1' = L1
  BY <1>2 DEF Own, Control, cacheVars
<1>3. \/ /\ pc'[t] = "drain_lock" /\ page'[t] \in batch[t]
         /\ batch'[t] = batch[t] \ {page'[t]}
      \/ /\ pc'[t] = after[t] /\ batch'[t] = {} /\ batch[t] = {}
         /\ after[t] = "hard_lock" => page'[t] = page[t]
  <2>1. ASSUME NEW p \in batch[t], page' = Set(page, t, p), batch' = Set(batch, t, batch[t] \ {p}), Goto(t, "drain_lock")
        PROVE  pc'[t] = "drain_lock" /\ page'[t] \in batch[t] /\ batch'[t] = batch[t] \ {page'[t]}
    <3>1. page'[t] = p /\ pc'[t] = "drain_lock" /\ batch'[t] = batch[t] \ {p}
      BY <2>1 DEF Shape, Goto, Set
    <3> QED BY <3>1
  <2>2. ASSUME batch[t] = {}, page' = Set(page, t, IF after[t] = "hard_lock" THEN page[t] ELSE None),
               Goto(t, after[t]), UNCHANGED batch
        PROVE  /\ pc'[t] = after[t] /\ batch'[t] = {} /\ batch[t] = {}
               /\ after[t] = "hard_lock" => page'[t] = page[t]
    BY <2>2 DEF Shape, Goto, Set
  <2> QED BY <2>1, <2>2 DEF NextLazyPage
<1>4. Control(t)'
  <2>1. Idle(t)'
    <3> SUFFICES ASSUME SMCLazyDirtyPages # {}
                 PROVE  \/ pc'[t] \in TakePC \union DeferPC
                        \/ /\ t \in LazySMCDrainPending' /\ (Away(t)' \/ pc'[t] = "settle")
                           /\ \A b \in Blocks : L1'[t][b] = None
      BY <1>2 DEF Idle
    <3>1. t \in LazySMCDrainPending /\ Away(t) /\ \A b \in Blocks : L1[t][b] = None
      BY <1>2 DEF Own, Control, Idle, TakePC, DeferPC
    <3>2. after[t] \in {"guest", "scrub", "hard_lock"}
      BY <1>2, <1>A, <3>1 DEF Away, HardPC
    <3>3. Away(t)' \/ (pc'[t] \in DeferPC)
      BY <1>3, <1>A, <3>2 DEF Away, HardPC, SweepPC, DeferPC
    <3> QED BY <1>2, <1>A, <3>1, <3>3
  <2>2. Batched(t)'
    BY <1>2, <1>3 DEF Own, Control, Batched, SweepPC
  <2>3. Named(t)'
    BY <1>2, <1>3, <1>A DEF Own, Control, Named, CompilePC, RelinkPC, DrainPC
  <2>4. Stored(t)'
    BY <1>2, <1>3, <1>A DEF Own, Control, Stored, DeferPC, DrainPC
  <2>5. Placed(t)'
    BY <1>2, <1>3, <1>A DEF Own, Control, Placed, Batched, HardPC, SweepPC, TakePC
  <2> QED BY <1>A, <2>1, <2>2, <2>3, <2>4, <2>5 DEF Control
<1>5. Work(t)'
  BY <1>3, <1>A, NoWork DEF CompilePC, RelinkPC
<1>6. Steady(t)
  <2>1. \A p \in Pages : Deferred(t, p) => Deferred(t, p)'
    BY <1>2, <1>3 DEF Deferred, SweepingPC
  <2> QED BY <1>2, <2>1, SteadyFrom DEF ArmPC
<1> QED BY <1>1, <1>4, <1>5, <1>6, SteadyKeeps DEF Own

(* An mprotect takes its page out of the set and is about to sweep it.     *)
LEMMA MprotectOwn ==
  ASSUME Shape, NEW t \in Threads, Own(t), NEW p \in Pages, GuestMprotectLazy(t, p)
  PROVE  Shape' /\ Own(t)'
<1>1. Shape'
  <2>1. Changes(t) /\ UNCHANGED <<L1, L2>>
    BY DEF Changes, GuestMprotectLazy, Goto, Set, cacheVars
  <2> QED BY <2>1, ShapeKept, CachesShape
<1>2. /\ pc[t] = "guest" /\ page'[t] = p /\ after'[t] = "hard_lock" /\ armed' = armed \ {p}
      /\ SMCLazyDirtyPages' = SMCLazyDirtyPages \ {p}
      /\ UNCHANGED <<mem, cacheVars, blk, store, LazySMCDrainPending>>
  BY DEF Shape, GuestMprotectLazy, Set
<1>3. (pc'[t] = "next" /\ batch'[t] = {p}) \/ (pc'[t] = "hard_lock" /\ batch'[t] = {})
  BY DEF Shape, GuestMprotectLazy, Goto, Set, Own, Control, Batched, SweepPC
<1>4. Control(t)'
  <2>1. Idle(t)'
    <3>1. L1' = L1 /\ Away(t)'
      BY <1>2, <1>3 DEF cacheVars, Away, HardPC, SweepPC
    <3> QED BY <1>2, <3>1 DEF Own, Control, Idle, TakePC, DeferPC
  <2>2. Batched(t)'
    BY <1>2, <1>3 DEF Own, Control, Batched, SweepPC
  <2>3. Named(t)' /\ Stored(t)' /\ Placed(t)'
    BY <1>2, <1>3 DEF Named, Stored, Placed, CompilePC, RelinkPC, DeferPC, TakePC
  <2> QED BY <1>2, <2>1, <2>2, <2>3 DEF Control
<1>5. Work(t)'
  BY <1>3, NoWork DEF CompilePC, RelinkPC
<1>6. Steady(t)
  <2>1. batch[t] = {}
    BY <1>2 DEF Own, Control, Batched, SweepPC
  <2>2. Deferred(t, p)'
    BY <1>2, <1>3 DEF Deferred, SweepingPC
  <2>3. \A q \in Pages : Deferred(t, q) => Deferred(t, q)'
    BY <1>2, <2>1, <2>2 DEF Deferred, SweepingPC
  <2> QED BY <1>2, <2>2, <2>3 DEF Steady, Kept, cacheVars, ArmPC
<1> QED BY <1>1, <1>4, <1>5, <1>6, SteadyKeeps DEF Own

(* A fault records its page before it opens it.                            *)
LEMMA FaultOwn ==
  ASSUME Shape, NEW t \in Threads, Own(t), HandleSegfaultLazy(t), ~ScrubForLazySMC(t)
  PROVE  Shape' /\ Own(t)'
<1> USE DEF HandleSegfaultLazy
<1>1. Shape'
  <2>1. Changes(t) /\ UNCHANGED <<L1, L2>>
    BY DEF Changes, MarkSMCLazyDirtyPage, UnprotectRegion, ArmLazySMCDrainPending, ProtectInterruptFaultPage, Goto, Set,
           cacheVars, guestVars, localVars
  <2> QED BY <2>1, ShapeKept, CachesShape
<1>2. /\ pc[t] \in {"fault", "open", "poke", "poke_page"}
      /\ (pc'[t] \in {"open", "poke", "poke_page", "scrub"}) \/ (pc'[t] = "count" /\ after'[t] = "scrub")
  BY DEF Shape, MarkSMCLazyDirtyPage, UnprotectRegion, ArmLazySMCDrainPending, ProtectInterruptFaultPage, Goto, Set
<1>3. UNCHANGED <<mem, cacheVars, blk, store, page, batch>> /\ SMCLazyDirtyPages \subseteq SMCLazyDirtyPages'
  BY DEF MarkSMCLazyDirtyPage, UnprotectRegion, ArmLazySMCDrainPending, ProtectInterruptFaultPage, guestVars, localVars
<1>4. /\ pc'[t] = "open" => (page[t] \in SMCLazyDirtyPages')
      /\ SMCLazyDirtyPages' \subseteq SMCLazyDirtyPages \union {page[t]}
      /\ pc[t] # "fault" => SMCLazyDirtyPages' = SMCLazyDirtyPages
  BY DEF Shape, MarkSMCLazyDirtyPage, UnprotectRegion, ArmLazySMCDrainPending, ProtectInterruptFaultPage, Goto
<1>5. armed' = armed \/ (pc[t] = "open" /\ armed' = armed \ {page[t]})
  BY DEF MarkSMCLazyDirtyPage, UnprotectRegion, ArmLazySMCDrainPending, ProtectInterruptFaultPage, guestVars
<1>6. after'[t] = after[t] \/ after'[t] = "scrub"
  BY DEF Shape, MarkSMCLazyDirtyPage, UnprotectRegion, ArmLazySMCDrainPending, ProtectInterruptFaultPage, Set
<1>7. Control(t)'
  <2>1. Idle(t)'
    BY <1>2 DEF Idle, TakePC, DeferPC
  <2>2. pc[t] = "fault" => page[t] \in Pages
    BY DEF Own, Control, Placed
  <2>3. SMCLazyDirtyPages' \subseteq Pages
    BY <1>4, <2>2 DEF Own, Control, Batched
  <2>4. Batched(t)'
    BY <1>2, <1>3, <2>3 DEF Own, Control, Batched, SweepPC
  <2>5. Named(t)'
    BY <1>2 DEF Named, CompilePC, RelinkPC, DrainPC
  <2>6. Stored(t)'
    <3>1. store[t] \in Words \X Bytes
      BY <1>2 DEF Own, Control, Stored, DeferPC
    <3> QED BY <1>3, <3>1 DEF Stored
  <2>7. Placed(t)'
    BY <1>2, <1>3, <1>4 DEF Placed, HardPC, SweepPC, TakePC
  <2> QED BY <1>6, <2>1, <2>4, <2>5, <2>6, <2>7 DEF Own, Control
<1>8. Work(t)'
  BY <1>2, NoWork DEF CompilePC, RelinkPC
<1>9. Steady(t)
  <2>1. \A p \in Pages : Deferred(t, p) => Deferred(t, p)'
    BY <1>2, <1>3 DEF Deferred, SweepingPC
  <2>2. \A p \in Pages : p \in armed => p \in armed' \/ Deferred(t, p)'
    <3>1. pc[t] = "open" => page[t] \in SMCLazyDirtyPages'
      BY <1>3 DEF Own, Control, Placed
    <3> QED BY <1>5, <3>1 DEF Deferred
  <2> QED BY <1>2, <1>3, <2>1, <2>2 DEF Steady, Kept, cacheVars, ArmPC
<1> QED BY <1>1, <1>7, <1>8, <1>9, SteadyKeeps DEF Own

(* The scrub empties L1.                                                   *)
LEMMA ScrubOwn ==
  ASSUME Shape, NEW t \in Threads, Own(t), ScrubForLazySMC(t)
  PROVE  Shape' /\ Own(t)'
<1>0. /\ DOMAIN L1' = Threads /\ L1'[t] = [b \in Blocks |-> None]
      /\ \A u \in Threads \ {t} : L1'[u] = L1[u]
  BY DEF Shape, ScrubForLazySMC
<1>1. Shape'
  <2>1. Changes(t)
    BY DEF Changes, ScrubForLazySMC, Goto, Set
  <2>2. \A u \in Threads : DOMAIN L1'[u] = Blocks
    BY <1>0 DEF Shape
  <2>3. DOMAIN L2' = Threads /\ \A u \in Threads : DOMAIN L2'[u] = Blocks
    BY DEF Shape, ScrubForLazySMC
  <2> QED BY <1>0, <2>1, <2>2, <2>3, ShapeKept
<1>2. /\ pc[t] = "scrub" /\ pc'[t] = "retry" /\ t \in LazySMCDrainPending'
      /\ UNCHANGED <<mem, armed, BlockList, CodePages, RetainedBlocks, L2, blk, store, page, batch, after, SMCLazyDirtyPages>>
  BY DEF Shape, ScrubForLazySMC, Goto, guestVars
<1>3. \A b \in Blocks : L1'[t][b] = None
  BY <1>0
<1>4. Control(t)'
  <2>1. Idle(t)'
    BY <1>2, <1>3 DEF Idle, Away
  <2>2. Batched(t)'
    BY <1>2 DEF Own, Control, Batched, SweepPC
  <2>3. Named(t)' /\ Placed(t)'
    BY <1>2 DEF Named, Placed, CompilePC, RelinkPC, DrainPC, HardPC, SweepPC, TakePC
  <2>4. Stored(t)'
    BY <1>2 DEF Own, Control, Stored, DeferPC
  <2> QED BY <1>2, <2>1, <2>2, <2>3, <2>4 DEF Own, Control
<1>5. Work(t)'
  BY <1>2, NoWork DEF CompilePC, RelinkPC
<1>6. Steady(t)
  <2>1. \A p \in Pages : Deferred(t, p) => Deferred(t, p)'
    BY <1>2 DEF Deferred, SweepingPC
  <2> QED BY <1>2, <1>3, <2>1 DEF Steady, Kept, ArmPC
<1> QED BY <1>1, <1>4, <1>5, <1>6, SteadyKeeps DEF Own

(* Guest code drops cached translations.                                   *)
LEMMA EvictOwn ==
  ASSUME Shape, NEW t \in Threads, Own(t), UNCHANGED lazyVars,
         ClearL2Cache(t) \/ \E b \in Blocks : EvictL1(t, b)
  PROVE  Shape' /\ Own(t)'
<1>1. /\ pc[t] = "guest"
      /\ UNCHANGED <<mem, armed, BlockList, CodePages, RetainedBlocks, pc, blk, entry, todo, page, store, batch, after,
                     SMCLazyDirtyPages, LazySMCDrainPending>>
  BY DEF ClearL2Cache, EvictL1, guestVars, localVars, lazyVars
<1>2. /\ DOMAIN L1' = Threads /\ \A u \in Threads : DOMAIN L1'[u] = Blocks
      /\ \A b \in Blocks : L1'[t][b] \in {None, L1[t][b]}
  <2>1. CASE L1' = L1
    BY <2>1 DEF Shape
  <2>2. ASSUME NEW b \in Blocks, L1' = [L1 EXCEPT ![t][b] = None]
        PROVE  /\ DOMAIN L1' = Threads /\ \A u \in Threads : DOMAIN L1'[u] = Blocks
               /\ \A c \in Blocks : L1'[t][c] \in {None, L1[t][c]}
    <3>1. DOMAIN L1' = Threads /\ L1'[t] = [L1[t] EXCEPT ![b] = None] /\ \A u \in Threads \ {t} : L1'[u] = L1[u]
      BY <2>2 DEF Shape
    <3>2. DOMAIN L1'[t] = Blocks /\ \A c \in Blocks : L1'[t][c] \in {None, L1[t][c]}
      BY <3>1 DEF Shape
    <3> QED BY <3>1, <3>2 DEF Shape
  <2> QED BY <2>1, <2>2 DEF ClearL2Cache, EvictL1
<1>3. /\ DOMAIN L2' = Threads /\ \A u \in Threads : DOMAIN L2'[u] = Blocks
      /\ \A b \in Blocks : L2'[t][b] \in {None, L2[t][b]}
  <2>1. CASE L2' = L2
    BY <2>1 DEF Shape
  <2>2. CASE L2' = [L2 EXCEPT ![t] = [b \in Blocks |-> None]]
    <3>1. DOMAIN L2' = Threads /\ L2'[t] = [b \in Blocks |-> None] /\ \A u \in Threads \ {t} : L2'[u] = L2[u]
      BY <2>2 DEF Shape
    <3> QED BY <3>1 DEF Shape
  <2> QED BY <2>1, <2>2 DEF ClearL2Cache, EvictL1
<1>4. Shape'
  BY <1>1, <1>2, <1>3, ShapeKept DEF Changes
<1>5. Control(t)'
  BY <1>1, <1>2 DEF Own, Control, Idle, Batched, Named, Stored, Placed, Away
<1>6. Work(t)'
  BY <1>1, NoWork DEF CompilePC, RelinkPC
<1>7. Steady(t)
  <2>1. \A p \in Pages : Deferred(t, p) => Deferred(t, p)'
    BY <1>1 DEF Deferred
  <2> QED BY <1>1, <1>2, <1>3, <2>1 DEF Steady, Kept, ArmPC
<1> QED BY <1>4, <1>5, <1>6, <1>7, SteadyKeeps DEF Own

(* FindBlock moves what is cached closer.                                  *)
LEMMA FindOwn ==
  ASSUME Shape, NEW t \in Threads, NEW b \in Blocks, FindBlock(t, b), Own(t)
  PROVE  /\ DOMAIN L1' = Threads /\ \A u \in Threads : DOMAIN L1'[u] = Blocks
         /\ DOMAIN L2' = Threads /\ \A u \in Threads : DOMAIN L2'[u] = Blocks
         /\ \A c \in Blocks : Kept(L1'[t][c], t, c) /\ Kept(L2'[t][c], t, c)
         /\ Found(t, b) = None => L2'[t][b] = None
<1>1. Kept(Found(t, b), t, b)
  BY DEF Kept, Found
<1>2. DOMAIN L1' = Threads /\ L1'[t] = [L1[t] EXCEPT ![b] = Found(t, b)] /\ \A u \in Threads \ {t} : L1'[u] = L1[u]
  BY DEF Shape, FindBlock
<1>3. DOMAIN L1'[t] = Blocks /\ \A c \in Blocks : Kept(L1'[t][c], t, c)
  BY <1>1, <1>2 DEF Shape, Kept
<1>4. PICK y : /\ y = Found(t, b) \/ y = L2[t][b]
               /\ Found(t, b) = None => y = None
               /\ L2' = [L2 EXCEPT ![t][b] = y]
  <2>1. Found(t, b) = None => L1[t][b] = None
    BY DEF Found
  <2>2. L2' = [L2 EXCEPT ![t][b] = IF L1[t][b] = None THEN Found(t, b) ELSE L2[t][b]]
    BY DEF FindBlock, Shape
  <2> QED BY <2>1, <2>2
<1>5. DOMAIN L2' = Threads /\ L2'[t] = [L2[t] EXCEPT ![b] = y] /\ \A u \in Threads \ {t} : L2'[u] = L2[u]
  BY <1>4 DEF Shape
<1>6. DOMAIN L2'[t] = Blocks /\ L2'[t][b] = y /\ \A c \in Blocks : Kept(L2'[t][c], t, c)
  BY <1>1, <1>4, <1>5 DEF Shape, Kept
<1>7. \A u \in Threads : DOMAIN L1'[u] = Blocks /\ DOMAIN L2'[u] = Blocks
  BY <1>2, <1>3, <1>5, <1>6 DEF Shape
<1> QED BY <1>2, <1>3, <1>4, <1>5, <1>6, <1>7

(* The slow lookup.                                                        *)
LEMMA LookupOwn ==
  ASSUME Shape, NEW t \in Threads, Own(t), CompileBlock(t)
  PROVE  Shape' /\ Own(t)'
<1>1. /\ pc[t] = "lookup" /\ FindBlock(t, blk[t])
      /\ UNCHANGED <<mem, armed, BlockList, CodePages, RetainedBlocks, batch, SMCLazyDirtyPages>>
  BY DEF CompileBlock, Lookup, guestVars
<1>2. blk[t] \in Blocks /\ SMCLazyDirtyPages = {}
  BY <1>1 DEF Own, Control, Named, Idle, TakePC, DeferPC, Away, HardPC, SweepPC
<1>3. /\ DOMAIN L1' = Threads /\ \A u \in Threads : DOMAIN L1'[u] = Blocks
      /\ DOMAIN L2' = Threads /\ \A u \in Threads : DOMAIN L2'[u] = Blocks
      /\ \A c \in Blocks : Kept(L1'[t][c], t, c) /\ Kept(L2'[t][c], t, c)
  BY <1>1, <1>2, FindOwn
<1>4. Shape'
  <2>1. Changes(t)
    BY DEF Changes, CompileBlock, Lookup, Return, Goto, Set, localVars
  <2> QED BY <1>3, <2>1, ShapeKept
<1>5. /\ pc'[t] = "guest" \/ (pc'[t] = "count" /\ blk' = blk)
      /\ after'[t] = "enter"
  BY DEF Shape, CompileBlock, Lookup, Return, Goto, Set, localVars
<1>6. Control(t)'
  <2>1. Idle(t)'
    BY <1>1, <1>2 DEF Idle
  <2>2. Batched(t)'
    BY <1>1, <1>5 DEF Own, Control, Batched, SweepPC
  <2>3. Named(t)' /\ Stored(t)' /\ Placed(t)'
    BY <1>2, <1>5 DEF Named, Stored, Placed, CompilePC, RelinkPC, DeferPC, DrainPC, HardPC, SweepPC
  <2> QED BY <1>5, <2>1, <2>2, <2>3 DEF Control
<1>7. Work(t)'
  BY <1>5, NoWork DEF CompilePC, RelinkPC
<1>8. Steady(t)
  <2>1. \A p \in Pages : Deferred(t, p) => Deferred(t, p)'
    BY <1>1 DEF Deferred, SweepingPC
  <2> QED BY <1>1, <1>3, <2>1 DEF Steady, ArmPC
<1> QED BY <1>4, <1>6, <1>7, <1>8, SteadyKeeps DEF Own

(* The locals of an invalidation stay what they are while it runs.         *)
LEMMA SweepControl ==
  ASSUME NEW t \in Threads, Control(t), UNCHANGED <<lazyVars, blk, store, page>>,
         \/ pc[t] \in SweepPC \ {"next"} /\ (pc'[t] \in SweepPC)
         \/ pc[t] \in HardPC /\ (pc'[t] \in HardPC),
         \A b \in Blocks : L1[t][b] = None => L1'[t][b] = None
  PROVE  Control(t)' /\ Work(t)'
<1>1. UNCHANGED <<SMCLazyDirtyPages, LazySMCDrainPending, batch, after>>
  BY DEF lazyVars
<1>2. Idle(t)'
  <2>1. Away(t) => Away(t)'
    BY <1>1 DEF Away, SweepPC, HardPC
  <2> QED BY <1>1, <2>1 DEF Control, Idle, TakePC, DeferPC, SweepPC, HardPC
<1>3. Batched(t)'
  BY <1>1 DEF Control, Batched, SweepPC, HardPC
<1>4. Named(t)'
  BY <1>1 DEF Control, Named, CompilePC, RelinkPC, DrainPC, SweepPC, HardPC
<1>5. Stored(t)'
  BY <1>1 DEF Control, Stored, DeferPC, DrainPC, SweepPC, HardPC
<1>6. Placed(t)'
  BY <1>1 DEF Control, Placed, TakePC, SweepPC, HardPC
<1>7. Work(t)'
  BY NoWork DEF CompilePC, RelinkPC, SweepPC, HardPC
<1> QED BY <1>1, <1>2, <1>3, <1>4, <1>5, <1>6, <1>7 DEF Control

(* The exclusive lock is taken and released around an invalidation.        *)
LEMMA LockOwn ==
  ASSUME Shape, NEW t \in Threads, Own(t), UNCHANGED lazyVars,
         \/ TakeCodeInvalidationWriteLock(t, "drain_lock", "drain_erase")
         \/ TakeCodeInvalidationWriteLock(t, "hard_lock", "hard_erase")
         \/ DrainDone(t)
  PROVE  Shape' /\ Own(t)'
<1>1. UNCHANGED <<mem, armed, cacheVars, blk, entry, todo, page, store, batch, after, SMCLazyDirtyPages>>
  BY DEF TakeCodeInvalidationWriteLock, DrainDone, guestVars, localVars, lazyVars
<1>2. \/ pc[t] = "drain_lock" /\ (pc'[t] \in {"drain_lock", "drain_erase"})
      \/ pc[t] = "hard_lock" /\ (pc'[t] \in {"hard_lock", "hard_erase"})
      \/ pc[t] = "drain_done" /\ pc'[t] = "next"
  BY DEF Shape, TakeCodeInvalidationWriteLock, DrainDone, Goto
<1>3. Shape'
  <2>1. Changes(t) /\ UNCHANGED <<L1, L2>>
    BY <1>1 DEF Changes, TakeCodeInvalidationWriteLock, DrainDone, Goto, cacheVars
  <2> QED BY <2>1, ShapeKept, CachesShape
<1>4. Control(t)' /\ Work(t)'
  BY <1>1, <1>2, SweepControl DEF Own, cacheVars, SweepPC, HardPC
<1>5. Steady(t)
  <2>1. \A p \in Pages : Deferred(t, p) => Deferred(t, p)'
    BY <1>1, <1>2 DEF Deferred, SweepingPC
  <2> QED BY <1>1, <1>2, <2>1, SteadyFrom DEF ArmPC
<1> QED BY <1>3, <1>4, <1>5, SteadyKeeps DEF Own

(* The lock of a hard invalidation is released on the way back to the      *)
(* guest.                                                                  *)
LEMMA UnlockOwn ==
  ASSUME Shape, NEW t \in Threads, Own(t), UNCHANGED lazyVars, Unlock(t)
  PROVE  Shape' /\ Own(t)'
<1>1. UNCHANGED <<mem, armed, cacheVars, batch, after, SMCLazyDirtyPages, LazySMCDrainPending>>
  BY DEF Unlock, guestVars, lazyVars
<1>2. pc[t] = "hard_done" /\ pc'[t] = "guest" /\ L1' = L1
  BY DEF Shape, Unlock, Return, Goto, cacheVars
<1>3. Shape'
  <2>1. Changes(t) /\ UNCHANGED <<L1, L2>>
    BY <1>1 DEF Changes, Unlock, Return, Goto, Set, cacheVars
  <2> QED BY <2>1, ShapeKept, CachesShape
<1>4. Control(t)'
  <2>1. Idle(t)'
    BY <1>1, <1>2 DEF Own, Control, Idle, Away, TakePC, DeferPC
  <2>2. Batched(t)'
    BY <1>1, <1>2 DEF Own, Control, Batched, SweepPC
  <2>3. Named(t)' /\ Stored(t)' /\ Placed(t)'
    BY <1>2 DEF Named, Stored, Placed, CompilePC, RelinkPC, DeferPC, DrainPC, HardPC, SweepPC, TakePC
  <2> QED BY <1>1, <2>1, <2>2, <2>3 DEF Own, Control
<1>5. Work(t)'
  BY <1>2, NoWork DEF CompilePC, RelinkPC
<1>6. Steady(t)
  <2>1. \A p \in Pages : Deferred(t, p) => Deferred(t, p)'
    BY <1>1, <1>2 DEF Deferred, SweepingPC
  <2> QED BY <1>1, <1>2, <2>1, SteadyFrom DEF ArmPC
<1> QED BY <1>3, <1>4, <1>5, <1>6, SteadyKeeps DEF Own

(* The walk purges the thread's caches.                                    *)
LEMMA WalkOwn ==
  ASSUME Shape, NEW t \in Threads, Own(t), UNCHANGED lazyVars,
         \/ InvalidateThreadCache(t, "drain_walk", "drain_done")
         \/ InvalidateThreadCache(t, "hard_walk", "hard_done")
  PROVE  Shape' /\ Own(t)'
<1>1. UNCHANGED <<mem, armed, BlockList, CodePages, RetainedBlocks, blk, entry, page, store, batch, after, SMCLazyDirtyPages>>
  BY DEF InvalidateThreadCache, guestVars, lazyVars
<1>2. \/ pc[t] = "drain_walk" /\ (pc'[t] \in {"drain_walk", "drain_done"})
      \/ pc[t] = "hard_walk" /\ (pc'[t] \in {"hard_walk", "hard_done"})
  BY DEF Shape, InvalidateThreadCache, Goto
<1>3. CASE todo[t] = {}
  <2>1. UNCHANGED <<L1, L2, todo>>
    BY <1>3 DEF InvalidateThreadCache
  <2>2. Shape'
    <3>1. Changes(t)
      BY <1>1, <2>1 DEF Changes, InvalidateThreadCache, Goto
    <3> QED BY <2>1, <3>1, ShapeKept, CachesShape
  <2>3. Control(t)' /\ Work(t)'
    BY <1>1, <1>2, <2>1, SweepControl DEF Own, SweepPC, HardPC
  <2>4. Steady(t)
    <3>1. \A p \in Pages : Deferred(t, p) => Deferred(t, p)'
      BY <1>1, <1>2 DEF Deferred, SweepingPC
    <3> QED BY <1>1, <1>2, <1>3, <2>1, <3>1, SteadyFrom DEF ArmPC, cacheVars
  <2> QED BY <2>2, <2>3, <2>4, SteadyKeeps DEF Own
<1>4. ASSUME NEW u \in todo[t],
             L1' = [L1 EXCEPT ![u] = [b \in Blocks |-> IF b \in BlocksOn(page[t]) THEN None ELSE @[b]]],
             L2' = [L2 EXCEPT ![u] = [b \in Blocks |-> IF b \in BlocksOn(page[t]) THEN None ELSE @[b]]],
             todo' = Set(todo, t, todo[t] \ {u}), UNCHANGED pc
      PROVE  Shape' /\ Own(t)'
  <2> DEFINE Purged(c) == [b \in Blocks |-> IF b \in BlocksOn(page[t]) THEN None ELSE c[b]]
  <2>1. DOMAIN L1' = Threads /\ \A v \in Threads : DOMAIN L1'[v] = Blocks
    <3>1. DOMAIN L1' = Threads /\ \A v \in Threads : L1'[v] = L1[v] \/ L1'[v] = Purged(L1[v])
      BY <1>4 DEF Shape
    <3> QED BY <3>1 DEF Shape
  <2>2. DOMAIN L2' = Threads /\ \A v \in Threads : DOMAIN L2'[v] = Blocks
    <3>1. DOMAIN L2' = Threads /\ \A v \in Threads : L2'[v] = L2[v] \/ L2'[v] = Purged(L2[v])
      BY <1>4 DEF Shape
    <3> QED BY <3>1 DEF Shape
  <2>3. Shape'
    <3>1. Changes(t)
      BY <1>1, <1>4 DEF Changes, Set
    <3> QED BY <2>1, <2>2, <3>1, ShapeKept
  <2>4. /\ L1'[t] = L1[t] \/ L1'[t] = Purged(L1[t])
        /\ L2'[t] = L2[t] \/ L2'[t] = Purged(L2[t])
        /\ u = t => L1'[t] = Purged(L1[t]) /\ L2'[t] = Purged(L2[t])
    BY <1>4 DEF Shape
  <2>5. \A b \in Blocks : L1[t][b] = None => L1'[t][b] = None
    BY <2>4
  <2>6. Control(t)' /\ Work(t)'
    BY <1>1, <1>2, <2>5, SweepControl DEF Own, SweepPC, HardPC
  <2>7. Follow(t)'
    <3>1. todo'[t] = todo[t] \ {u} /\ pc' = pc /\ page' = page /\ BlockList' = BlockList
      BY <1>1, <1>4 DEF Shape, Set
    <3> SUFFICES ASSUME NEW b \in Blocks PROVE Agrees(L1[t][b], t, b)' /\ Agrees(L2[t][b], t, b)'
      BY DEF Follow
    <3>2. Agrees(L1[t][b], t, b) /\ Agrees(L2[t][b], t, b)
      BY DEF Own, Data, Follow
    <3>3. CASE u = t
      <4>1. page[t] \in PagesOf(b) => L1'[t][b] = None /\ L2'[t][b] = None
        BY <2>4, <3>3 DEF BlocksOn
      <4>2. (L1'[t][b] \in {None, L1[t][b]}) /\ (L2'[t][b] \in {None, L2[t][b]})
        BY <2>4, <3>3
      <4> QED BY <3>1, <3>2, <4>1, <4>2 DEF Agrees, Unwalked
    <3>4. CASE u # t
      <4>1. (L1'[t][b] \in {None, L1[t][b]}) /\ (L2'[t][b] \in {None, L2[t][b]})
        BY <2>4
      <4> QED BY <3>1, <3>2, <3>4, <4>1 DEF Agrees, Unwalked
    <3> QED BY <3>3, <3>4
  <2>8. /\ Registered' /\ OnPages' /\ OneImage' /\ (mem' \in [Words -> Bytes])
    BY <1>1 DEF Own, Data, Registered, OnPages, OneImage
  <2>9. \A p : Deferred(t, p)' <=> Deferred(t, p)
    BY <1>1, <1>4 DEF Deferred
  <2>10. Covered(t)'
    BY <1>1, <1>4, <2>9 DEF Own, Data, Covered
  <2>11. UpToDate(t)'
    <3>1. \A b \in Blocks : Image(b)' = Image(b)
      BY <1>1, ContentsKept
    <3> QED BY <1>1, <2>9, <3>1 DEF Own, Data, UpToDate
  <2> QED BY <2>3, <2>6, <2>7, <2>8, <2>10, <2>11 DEF Own, Data
<1> QED BY <1>3, <1>4 DEF InvalidateThreadCache

(* The sweep takes the page's blocks out of the shared map.                *)
LEMMA SweepOwn ==
  ASSUME Shape, NEW t \in Threads, Own(t), UNCHANGED lazyVars,
         \/ InvalidateCodeBuffers(t, "drain_erase", TRUE, "drain_walk")
         \/ InvalidateCodeBuffers(t, "hard_erase", FALSE, "hard_walk")
  PROVE  Shape' /\ Own(t)'
<1>1. UNCHANGED <<mem, armed, L1, L2, blk, entry, page, store, batch, after, SMCLazyDirtyPages>>
  BY DEF InvalidateCodeBuffers, guestVars, lazyVars
<1>2. /\ \/ pc[t] = "drain_erase" /\ pc'[t] = "drain_walk"
         \/ pc[t] = "hard_erase" /\ pc'[t] = "hard_walk"
      /\ todo'[t] = Threads
  BY DEF Shape, InvalidateCodeBuffers, Goto, Set
<1>3. PICK p \in Pages : p = page[t]
  BY <1>2 DEF Own, Control, Placed, HardPC, SweepPC
<1>4. /\ DOMAIN BlockList' = Blocks /\ DOMAIN RetainedBlocks' = Blocks
      /\ CodePages' = [CodePages EXCEPT ![p] = {}]
      /\ \A b \in Blocks : BlockList'[b] = IF b \in CodePages[p] THEN None ELSE BlockList[b]
      /\ \A b \in Blocks : RetainedBlocks'[b] \in {None, RetainedBlocks[b], BlockList[b]}
  <2>1. CASE SoftInvalidateRange(p)
    BY <2>1 DEF SoftInvalidateRange
  <2>2. CASE InvalidateRange(p)
    BY <2>2 DEF InvalidateRange
  <2> QED BY <1>3, <2>1, <2>2 DEF InvalidateCodeBuffers
<1>5. CodePages'[p] = {} /\ \A q \in Pages \ {p} : CodePages'[q] = CodePages[q]
  BY <1>4 DEF Shape
<1>6. Shape'
  <2>1. Changes(t)
    BY <1>1, <1>4 DEF Changes, InvalidateCodeBuffers, Goto, Set
  <2> QED BY <1>1, <2>1, ShapeKept, CachesShape
<1>7. Control(t)' /\ Work(t)'
  BY <1>1, <1>2, SweepControl DEF Own, SweepPC, HardPC
<1>8. ASSUME NEW b \in Blocks, BlockList'[b] # None
      PROVE  /\ BlockList[b] # None /\ BlockList'[b] = BlockList[b]
             /\ p \notin PagesOf(b)
             /\ \A q \in PagesOf(b) : b \in CodePages'[q]
  <2>1. BlockList[b] # None /\ BlockList'[b] = BlockList[b] /\ b \notin CodePages[p]
    BY <1>4, <1>8
  <2>2. \A q \in PagesOf(b) : b \in CodePages[q]
    BY <2>1 DEF Own, Data, Registered
  <2> QED BY <1>5, <2>1, <2>2, PagesTyped
<1>9. Registered' /\ OnPages'
  <2>1. OnPages'
    BY <1>5 DEF Own, Data, OnPages
  <2> QED BY <1>8, <2>1 DEF Registered
<1>10. OneImage'
  BY <1>4 DEF Own, Data, OneImage
<1>11. \A q \in Pages \ {p} : Deferred(t, q) => Deferred(t, q)'
  BY <1>1, <1>3 DEF Deferred
<1>12. Covered(t)'
  BY <1>1, <1>2, <1>5, <1>11 DEF Own, Data, Covered, ArmPC
<1>13. UpToDate(t)'
  <2> SUFFICES ASSUME NEW b \in Blocks, BlockList'[b] # None, \A q \in PagesOf(b) : ~Deferred(t, q)'
               PROVE  BlockList'[b] = Image(b)'
    BY DEF UpToDate
  <2>1. \A q \in PagesOf(b) : ~Deferred(t, q)
    BY <1>8, <1>11, PagesTyped
  <2>2. BlockList[b] = Image(b)
    BY <1>8, <2>1 DEF Own, Data, UpToDate
  <2>3. Image(b)' = Image(b)
    BY <1>1, ContentsKept
  <2> QED BY <1>8, <2>2, <2>3
<1>14. Follow(t)'
  <2> SUFFICES ASSUME NEW b \in Blocks PROVE Agrees(L1[t][b], t, b)' /\ Agrees(L2[t][b], t, b)'
    BY DEF Follow
  <2>1. Agrees(L1[t][b], t, b) /\ Agrees(L2[t][b], t, b) /\ ~Unwalked(t, b)
    BY <1>2 DEF Own, Data, Follow, Unwalked
  <2>2. CASE b \in CodePages[p]
    <3>1. Unwalked(t, b)'
      BY <1>1, <1>2, <1>3, <2>2 DEF Own, Data, OnPages, BlocksOn, Unwalked
    <3> QED BY <3>1 DEF Agrees
  <2>3. CASE b \notin CodePages[p]
    <3>1. BlockList'[b] = BlockList[b] /\ L1' = L1 /\ L2' = L2
      BY <1>1, <1>4, <2>3
    <3> QED BY <2>1, <3>1 DEF Agrees
  <2> QED BY <2>2, <2>3
<1>15. mem' \in [Words -> Bytes]
  BY <1>1 DEF Own, Data
<1> QED BY <1>6, <1>7, <1>9, <1>10, <1>12, <1>13, <1>14, <1>15 DEF Own, Data

(* A store that retires finds no current translation of its page.          *)
LEMMA MemOwn ==
  ASSUME NEW t \in Threads, Own(t), UNCHANGED <<armed, cacheVars, lazyVars>>,
         pc[t] \in {"guest", "retry"}, pc'[t] = "guest",
         NEW w \in Words, NEW v \in Bytes, PageOf[w] \notin armed, mem' = [mem EXCEPT ![w] = v]
  PROVE  Own(t)'
<1>1. UNCHANGED <<BlockList, CodePages, RetainedBlocks, L1, L2, batch, after, SMCLazyDirtyPages, LazySMCDrainPending>>
  BY DEF cacheVars, lazyVars
<1>2. Control(t)'
  <2>1. Idle(t)'
    BY <1>1 DEF Own, Control, Idle, Away, TakePC, DeferPC
  <2>2. Batched(t)'
    BY <1>1 DEF Own, Control, Batched, SweepPC
  <2>3. Named(t)' /\ Stored(t)' /\ Placed(t)'
    BY DEF Named, Stored, Placed, CompilePC, RelinkPC, DeferPC, DrainPC, HardPC, SweepPC, TakePC
  <2> QED BY <1>1, <2>1, <2>2, <2>3 DEF Own, Control
<1>3. Work(t)'
  BY NoWork DEF CompilePC, RelinkPC
<1>4. (mem' \in [Words -> Bytes]) /\ \A x \in Words \ {w} : mem'[x] = mem[x]
  BY DEF Own, Data
<1>5. Registered' /\ OnPages' /\ OneImage'
  BY <1>1 DEF Own, Data, Registered, OnPages, OneImage
<1>6. \A p : Deferred(t, p)' <=> Deferred(t, p)
  BY <1>1 DEF Deferred, SweepingPC
<1>7. Covered(t)'
  BY <1>1, <1>6 DEF Own, Data, Covered, ArmPC
<1>8. UpToDate(t)'
  <2> SUFFICES ASSUME NEW b \in Blocks, BlockList[b] # None, \A q \in PagesOf(b) : ~Deferred(t, q)
               PROVE  BlockList[b] = Image(b)'
    BY <1>1, <1>6 DEF UpToDate
  <2>1. BlockList[b] = Image(b)
    BY DEF Own, Data, UpToDate
  <2>2. w \notin Extent[b]
    <3> SUFFICES ASSUME w \in Extent[b] PROVE FALSE
      OBVIOUS
    <3>1. PageOf[w] \in PagesOf(b)
      BY DEF PagesOf
    <3>2. CodePages[PageOf[w]] # {} /\ PageOf[w] \in Pages
      BY <3>1, PagesTyped DEF Own, Data, Registered
    <3> QED BY <3>1, <3>2 DEF Own, Data, Covered, ArmPC
  <2>3. \A x \in Extent[b] : mem'[x] = mem[x]
    BY <1>4, <2>2, LayoutAssumption
  <2>4. Image(b)' = Image(b)
    BY <2>3, ContentsKept
  <2> QED BY <2>1, <2>4
<1>9. Follow(t)'
  BY <1>1 DEF Own, Data, Follow, Agrees, Unwalked
<1> QED BY <1>2, <1>3, <1>4, <1>5, <1>7, <1>8, <1>9 DEF Own, Data

(* A store that faults, or faults again.                                   *)
LEMMA TrapOwn ==
  ASSUME NEW t \in Threads, Own(t), UNCHANGED <<mem, armed, cacheVars, lazyVars>>,
         pc[t] \in {"guest", "retry"}, pc'[t] = "fault", page'[t] \in Pages, store'[t] \in Words \X Bytes
  PROVE  Own(t)'
<1>1. UNCHANGED <<L1, batch, after, SMCLazyDirtyPages, LazySMCDrainPending>>
  BY DEF cacheVars, lazyVars
<1>2. Control(t)'
  <2>1. Idle(t)'
    BY <1>1 DEF Own, Control, Idle, Away, TakePC, DeferPC
  <2>2. Batched(t)'
    BY <1>1 DEF Own, Control, Batched, SweepPC
  <2>3. Named(t)' /\ Stored(t)' /\ Placed(t)'
    BY DEF Named, Stored, Placed, CompilePC, RelinkPC, DrainPC, HardPC, SweepPC, TakePC
  <2> QED BY <1>1, <2>1, <2>2, <2>3 DEF Own, Control
<1>3. Work(t)'
  BY NoWork DEF CompilePC, RelinkPC
<1>4. Steady(t)
  <2>1. \A p \in Pages : Deferred(t, p) => Deferred(t, p)'
    BY <1>1 DEF Deferred, SweepingPC
  <2> QED BY <2>1, SteadyFrom DEF ArmPC
<1> QED BY <1>2, <1>3, <1>4, SteadyKeeps DEF Own

(* Stores and their retries.                                               *)
LEMMA StoreOwn ==
  ASSUME Shape, NEW t \in Threads, Own(t), UNCHANGED lazyVars,
         Retry(t) \/ \E w \in Words, v \in Bytes : Store(t, w, v)
  PROVE  Shape' /\ Own(t)'
<1>1. Shape'
  <2>1. Changes(t) /\ UNCHANGED <<L1, L2>>
    BY DEF Changes, Retry, Store, Return, Goto, Set, cacheVars, localVars, lazyVars
  <2> QED BY <2>1, ShapeKept, CachesShape
<1>2. ASSUME NEW w \in Words, NEW v \in Bytes, Store(t, w, v) PROVE Own(t)'
  <2>0. pc[t] = "guest" /\ UNCHANGED <<armed, cacheVars>> /\ PageOf[w] \in Pages
    BY <1>2, LayoutAssumption DEF Store
  <2>1. CASE PageOf[w] \notin armed
    BY <1>2, <2>0, <2>1, MemOwn DEF Store
  <2>2. CASE PageOf[w] \in armed
    <3>1. pc'[t] = "fault" /\ page'[t] = PageOf[w] /\ store'[t] = <<w, v>> /\ mem' = mem
      BY <1>2, <2>2 DEF Shape, Store, Goto, Set
    <3>2. store'[t] \in Words \X Bytes
      BY <3>1, SMT
    <3> QED BY <2>0, <3>1, <3>2, TrapOwn
  <2> QED BY <2>1, <2>2
<1>3. ASSUME Retry(t) PROVE Own(t)'
  <2>1. PICK w \in Words, v \in Bytes : store[t] = <<w, v>>
    <3>1. store[t] \in Words \X Bytes
      BY <1>3 DEF Retry, Own, Control, Stored
    <3> QED BY <3>1, SMT
  <2>2. store[t][1] = w /\ store[t][2] = v
    BY <2>1, SMT
  <2>3. pc[t] = "retry" /\ UNCHANGED <<armed, cacheVars>> /\ PageOf[w] \in Pages
    BY <1>3, LayoutAssumption DEF Retry
  <2>4. CASE PageOf[w] \notin armed
    <3>1. mem' = [mem EXCEPT ![w] = v] /\ pc'[t] = "guest"
      BY <1>3, <2>2, <2>4 DEF Shape, Retry, Return, Goto
    <3> QED BY <2>3, <2>4, <3>1, MemOwn
  <2>5. CASE PageOf[w] \in armed
    <3>1. pc'[t] = "fault" /\ page'[t] = PageOf[w] /\ store'[t] = store[t] /\ mem' = mem
      BY <1>3, <2>2, <2>5 DEF Shape, Retry, Goto, Set
    <3>2. store'[t] \in Words \X Bytes
      BY <2>1, <3>1, SMT
    <3> QED BY <2>3, <3>1, <3>2, TrapOwn
  <2> QED BY <2>4, <2>5
<1> QED BY <1>1, <1>2, <1>3

(* CompileBlock runs with no page dirty or deferred.                       *)
LEMMA CompileControl ==
  ASSUME NEW t \in Threads, Own(t), UNCHANGED lazyVars, pc[t] \in CompilePC \union {"enter"},
         pc'[t] \in CompilePC \union {"guest"}, pc'[t] \in CompilePC => blk'[t] = blk[t],
         pc'[t] \in ArmPC => page'[t] \in Pages
  PROVE  Control(t)' /\ \A p : ~Deferred(t, p) /\ ~Deferred(t, p)'
<1>1. UNCHANGED <<batch, after, SMCLazyDirtyPages>>
  BY DEF lazyVars
<1>2. pc[t] \notin TakePC \union DeferPC \union {"settle"} /\ ~Away(t) /\ pc[t] \notin SweepPC
  BY DEF TakePC, DeferPC, Away, HardPC, SweepPC, CompilePC, RelinkPC
<1>3. SMCLazyDirtyPages = {} /\ batch[t] = {}
  BY <1>2 DEF Own, Control, Idle, Batched
<1>4. Idle(t)' /\ Batched(t)'
  BY <1>1, <1>3 DEF Idle, Batched
<1>5. Named(t)'
  BY <1>1 DEF Own, Control, Named, CompilePC, RelinkPC, DrainPC
<1>6. Stored(t)'
  BY DEF Stored, CompilePC, RelinkPC, DrainPC, DeferPC
<1>7. Placed(t)'
  BY DEF Placed, CompilePC, RelinkPC, ArmPC, HardPC, SweepPC, TakePC
<1>8. Control(t)'
  BY <1>1, <1>4, <1>5, <1>6, <1>7 DEF Own, Control
<1>9. pc[t] \notin SweepingPC /\ (pc'[t] \notin SweepingPC)
  BY DEF SweepingPC, CompilePC, RelinkPC
<1> QED BY <1>1, <1>3, <1>8, <1>9 DEF Deferred

(* The image a block would be decoded to does not change while the memory  *)
(* does not.                                                               *)
LEMMA ImageKept ==
  ASSUME NEW t \in Threads, UNCHANGED mem, blk'[t] = blk[t]
  PROVE  Image(blk[t])' = Image(blk[t])
BY SMT DEF Image, Contents

(* The translation of an image is of the bytes in memory.                  *)
LEMMA ImageCode == \A b : Image(b).code = Contents(b)
BY SMT DEF Image

(* CompileBlock up to the decoder: the block is in no cache.               *)
LEMMA FindStepOwn ==
  ASSUME Shape, NEW t \in Threads, Own(t), UNCHANGED lazyVars, Enter(t) \/ FindAgain(t) \/ Recheck(t)
  PROVE  Shape' /\ Own(t)'
<1>1. UNCHANGED <<mem, armed, BlockList, CodePages, RetainedBlocks>>
  BY DEF Enter, FindAgain, Recheck, guestVars, cacheVars
<1>2. /\ pc[t] \in {"enter", "find", "recheck"}
      /\ \/ pc'[t] = "guest"
         \/ pc'[t] = "find" /\ blk'[t] = blk[t]
         \/ (pc'[t] \in {"take", "decode"}) /\ blk'[t] = blk[t] /\ Found(t, blk[t]) = None
         \/ /\ pc[t] = "recheck" /\ pc'[t] = "register" /\ blk'[t] = blk[t] /\ Found(t, blk[t]) = None
            /\ todo'[t] = PagesOf(blk[t]) /\ entry'[t] = entry[t]
  BY DEF Shape, Enter, FindAgain, Recheck, Return, Goto, Set, localVars
<1>3. PICK b \in Blocks : b = blk[t]
  BY <1>2 DEF Own, Control, Named, CompilePC
<1>4. /\ DOMAIN L1' = Threads /\ \A u \in Threads : DOMAIN L1'[u] = Blocks
      /\ DOMAIN L2' = Threads /\ \A u \in Threads : DOMAIN L2'[u] = Blocks
      /\ \A c \in Blocks : Kept(L1'[t][c], t, c) /\ Kept(L2'[t][c], t, c)
      /\ pc[t] # "enter" /\ Found(t, b) = None => L2'[t][b] = None
  <2>1. CASE Enter(t)
    BY <2>1 DEF Shape, Enter, cacheVars, Kept
  <2>2. CASE FindBlock(t, b)
    BY <2>2, FindOwn
  <2> QED BY <1>3, <2>1, <2>2 DEF FindAgain, Recheck
<1>5. Shape'
  <2>1. Changes(t)
    BY DEF Changes, Enter, FindAgain, Recheck, Return, Goto, Set, localVars, cacheVars, lazyVars
  <2> QED BY <1>4, <2>1, ShapeKept
<1>6. Control(t)' /\ \A p : ~Deferred(t, p) /\ ~Deferred(t, p)'
  <2>1. pc[t] \in CompilePC \union {"enter"} /\ (pc'[t] \in CompilePC \union {"guest"}) /\ (pc'[t] \notin ArmPC)
    BY <1>2 DEF CompilePC, ArmPC
  <2>2. pc'[t] \in CompilePC => blk'[t] = blk[t]
    BY <1>2 DEF CompilePC, RelinkPC
  <2> QED BY <2>1, <2>2, CompileControl
<1>7. Steady(t)
  BY <1>1, <1>2, <1>4, <1>6 DEF Steady, ArmPC
<1>8. Work(t)'
  <2>1. CASE pc'[t] = "guest" \/ pc'[t] = "find"
    BY <2>1 DEF Work, Enlisted, Decoded, NotInL2, DecodedPC, Registering, Registration
  <2>2. CASE (pc'[t] \in {"take", "decode"}) /\ blk'[t] = b /\ Found(t, b) = None /\ pc[t] # "enter"
    BY <1>4, <2>2 DEF Work, Enlisted, Decoded, NotInL2, DecodedPC, Registering, Registration
  <2>3. CASE /\ pc[t] = "recheck" /\ pc'[t] = "register" /\ blk'[t] = b /\ Found(t, b) = None
             /\ todo'[t] = PagesOf(b) /\ entry'[t] = entry[t]
    <3>1. Enlisted(t)' /\ NotInL2(t)'
      BY <1>4, <2>3 DEF Enlisted, NotInL2, Registration
    <3>2. Decoded(t)'
      <4>1. entry[t] = Image(blk[t])
        BY <2>3 DEF Own, Work, Decoded, DecodedPC
      <4>2. Image(blk[t])' = Image(blk[t])
        BY <1>1, <1>3, <2>3, ImageKept
      <4> QED BY <2>3, <4>1, <4>2 DEF Decoded
    <3> QED BY <3>1, <3>2 DEF Work
  <2>4. Enter(t) => pc'[t] = "find"
    BY DEF Shape, Enter, Goto
  <2>5. pc[t] = "enter" => Enter(t)
    BY DEF Enter, FindAgain, Recheck
  <2> QED BY <1>2, <1>3, <2>1, <2>2, <2>3, <2>4, <2>5
<1> QED BY <1>5, <1>6, <1>7, <1>8, SteadyKeeps DEF Own

(* A relink, the decoder and the hashes: the entry is the image in memory. *)
LEMMA EntryOwn ==
  ASSUME Shape, NEW t \in Threads, Own(t), UNCHANGED lazyVars,
         TakeRetained(t) \/ VerifyAfterArm(t) \/ Decode(t) \/ HashGuestBlock(t)
  PROVE  Shape' /\ Own(t)'
<1>1. UNCHANGED <<mem, armed, BlockList, CodePages, L1, L2, blk, page>>
  BY DEF TakeRetained, VerifyAfterArm, Decode, HashGuestBlock, guestVars, cacheVars
<1>2. pc[t] \in {"take", "verify", "decode", "hash"}
      /\ (pc'[t] \in {"reregister", "decode", "republish", "recheck", "publish"})
  BY DEF Shape, TakeRetained, VerifyAfterArm, Decode, HashGuestBlock, Goto
<1>3. PICK b \in Blocks : b = blk[t] /\ b = blk'[t]
  BY <1>1, <1>2 DEF Own, Control, Named, CompilePC, RelinkPC
<1>4. Shape'
  <2>1. Changes(t)
    BY DEF Changes, TakeRetained, VerifyAfterArm, Decode, HashGuestBlock, Goto, Set, cacheVars, lazyVars
  <2> QED BY <1>1, <2>1, ShapeKept, CachesShape
<1>5. Control(t)' /\ \A p : ~Deferred(t, p) /\ ~Deferred(t, p)'
  BY <1>1, <1>2, CompileControl DEF CompilePC, RelinkPC, ArmPC
<1>6. Steady(t)
  <2>1. \A c \in Blocks : RetainedBlocks'[c] = RetainedBlocks[c] \/ RetainedBlocks'[c] = None
    <3>1. RetainedBlocks' = RetainedBlocks \/ RetainedBlocks' = [RetainedBlocks EXCEPT ![b] = None]
      BY <1>3 DEF TakeRetained, VerifyAfterArm, Decode, HashGuestBlock, cacheVars
    <3> QED BY <3>1 DEF Shape
  <2> QED BY <1>1, <1>2, <1>5, <2>1 DEF Steady, Kept, ArmPC
<1>7. L2[t][b] = None /\ NotInL2(t)'
  <2>1. L2[t][b] = None
    BY <1>2, <1>3 DEF Own, Work, NotInL2, DecodedPC, Registering, Registration
  <2> QED BY <1>1, <1>3, <2>1 DEF NotInL2
<1>8. Image(blk[t])' = Image(b)
  BY <1>1, <1>3, ImageKept
<1>9. Enlisted(t)'
  <2>1. CASE pc'[t] = "reregister"
    <3>0. TakeRetained(t)
      BY <2>1 DEF Shape, VerifyAfterArm, Decode, HashGuestBlock, Goto
    <3>1. todo'[t] = PagesOf(b)
      BY <1>3, <2>1, <3>0 DEF Shape, TakeRetained, Goto, Set
    <3> QED BY <1>3, <2>1, <3>1 DEF Enlisted, Registering, Registration
  <2>2. CASE pc'[t] \in {"republish", "publish"}
    <3>1. pc[t] \in {"verify", "hash"}
      BY <1>2, <2>2 DEF Shape, TakeRetained, VerifyAfterArm, Decode, HashGuestBlock, Goto
    <3>2. \A p \in PagesOf(b) : b \in CodePages[p]
      BY <1>3, <3>1 DEF Own, Work, Enlisted, Registration
    <3> QED BY <1>1, <1>3, <2>2, <3>2 DEF Enlisted, Registering
  <2>3. CASE pc'[t] \in {"decode", "recheck"}
    BY <2>3 DEF Enlisted, Registering, Registration
  <2> QED BY <1>2, <2>1, <2>2, <2>3
<1>10. pc'[t] # "decode" => entry'[t] = Image(b)
  <2>1. CASE TakeRetained(t)
    <3>1. SUFFICES ASSUME RetainedBlocks[b] # None, RetainedBlocks[b].hash = Contents(b), entry' = Set(entry, t, RetainedBlocks[b])
                   PROVE  entry'[t] = Image(b)
      BY <1>3, <2>1 DEF Shape, TakeRetained, Goto
    <3>2. PICK c : RetainedBlocks[b] = [code |-> c, hash |-> c]
      BY <3>1 DEF Own, Data, OneImage, OfOneImage
    <3>3. c = Contents(b)
      BY <3>1, <3>2, SMT
    <3>4. entry'[t] = RetainedBlocks[b]
      BY <3>1 DEF Shape, Set
    <3> QED BY <3>2, <3>3, <3>4 DEF Image
  <2>2. CASE VerifyAfterArm(t)
    <3>1. entry[t] = Image(b)
      BY <1>3, <2>2 DEF VerifyAfterArm, Own, Work, Decoded, DecodedPC, Registration
    <3>2. pc'[t] # "decode" => entry' = entry
      BY <2>2 DEF Shape, VerifyAfterArm, Goto
    <3> QED BY <3>1, <3>2
  <2>3. CASE Decode(t)
    BY <1>3, <2>3 DEF Shape, Decode, Set, Image
  <2>4. CASE HashGuestBlock(t)
    <3>1. entry[t] = [code |-> Contents(b), hash |-> Contents(b)]
      BY <1>3, <2>4 DEF HashGuestBlock, Own, Work, Decoded, DecodedPC, Registration, Image
    <3>2. entry'[t] = [entry[t] EXCEPT !.hash = Contents(b)]
      BY <1>3, <2>4 DEF Shape, HashGuestBlock
    <3>3. entry'[t] = [code |-> Contents(b), hash |-> Contents(b)]
      BY <3>1, <3>2, SMT
    <3> QED BY <3>3 DEF Image
  <2> QED BY <2>1, <2>2, <2>3, <2>4
<1>11. Decoded(t)'
  BY <1>8, <1>10 DEF Decoded, DecodedPC, Registering, Registration
<1> QED BY <1>4, <1>5, <1>6, <1>7, <1>9, <1>11, SteadyKeeps DEF Own, Work

(* AddBlockExecutableRange: a page with new code on it is about to be      *)
(* armed, and any other one is armed already.                              *)
LEMMA RegisterOwn ==
  ASSUME Shape, NEW t \in Threads, Own(t), UNCHANGED lazyVars,
         \/ Register(t, "reregister", "rearm", "verify")
         \/ \E next \in {"hash", "publish"} : Register(t, "register", "arm", next)
  PROVE  Shape' /\ Own(t)'
<1>1. UNCHANGED <<mem, armed, BlockList, RetainedBlocks, L1, L2, blk, entry>>
  BY DEF Register, guestVars
<1>2. pc[t] \in {"register", "reregister"}
      /\ (pc'[t] \in {"register", "reregister", "arm", "rearm", "verify", "hash", "publish"})
  BY DEF Shape, Register, Goto
<1>3. PICK b \in Blocks : b = blk[t] /\ b = blk'[t]
  BY <1>1, <1>2 DEF Own, Control, Named, CompilePC, RelinkPC
<1>4. Shape'
  <2>1. Changes(t)
    BY DEF Changes, Register, Goto, Set, lazyVars
  <2> QED BY <1>1, <2>1, ShapeKept, CachesShape
<1>5. /\ todo[t] \subseteq PagesOf(b) /\ \A p \in PagesOf(b) : p \in todo[t] \/ b \in CodePages[p]
      /\ L2[t][b] = None /\ entry[t] = Image(b)
  BY <1>2, <1>3 DEF Own, Work, Enlisted, NotInL2, Decoded, DecodedPC, Registering
<1>6. Image(blk[t])' = Image(b)
  BY <1>1, <1>3, ImageKept
<1>7. NotInL2(t)' /\ Decoded(t)'
  BY <1>1, <1>3, <1>5, <1>6 DEF NotInL2, Decoded
<1>8. CASE todo[t] = {}
  <2>1. UNCHANGED <<CodePages, todo, page>> /\ (pc'[t] \in {"verify", "hash", "publish"})
    BY <1>8 DEF Shape, Register, Goto
  <2>2. Control(t)' /\ \A p : ~Deferred(t, p) /\ ~Deferred(t, p)'
    BY <1>1, <1>2, <2>1, CompileControl DEF CompilePC, RelinkPC, ArmPC
  <2>3. Steady(t)
    BY <1>1, <1>2, <2>1, <2>2 DEF Steady, Kept, ArmPC
  <2>4. Enlisted(t)'
    BY <1>3, <1>5, <1>8, <2>1 DEF Enlisted, Registering
  <2> QED BY <1>4, <1>7, <2>2, <2>3, <2>4, SteadyKeeps DEF Own, Work
<1>9. ASSUME NEW p \in todo[t], CodePages' = [CodePages EXCEPT ![p] = @ \union {blk[t]}],
             todo' = Set(todo, t, todo[t] \ {p}),
             \/ CodePages[p] = {} /\ page' = Set(page, t, p) /\ (Goto(t, "arm") \/ Goto(t, "rearm"))
             \/ CodePages[p] # {} /\ UNCHANGED <<page, pc>>
      PROVE  Shape' /\ Own(t)'
  <2>1. p \in PagesOf(b) /\ p \in Pages
    BY <1>5, PagesTyped
  <2>2. /\ CodePages'[p] = CodePages[p] \union {b} /\ \A q \in Pages \ {p} : CodePages'[q] = CodePages[q]
        /\ todo'[t] = todo[t] \ {p}
    BY <1>3, <1>9, <2>1 DEF Shape, Set
  <2>3. \/ CodePages[p] = {} /\ page'[t] = p /\ (pc'[t] \in {"arm", "rearm"})
        \/ CodePages[p] # {} /\ (pc'[t] \in {"register", "reregister"})
    BY <1>2, <1>9 DEF Shape, Goto, Set
  <2>4. Control(t)' /\ \A q : ~Deferred(t, q) /\ ~Deferred(t, q)'
    <3>1. pc'[t] \in ArmPC => page'[t] \in Pages
      BY <2>1, <2>3 DEF ArmPC
    <3> QED BY <1>1, <1>2, <2>3, <3>1, CompileControl DEF CompilePC, RelinkPC
  <2>5. Enlisted(t)'
    <3>1. PagesOf(b) \subseteq Pages
      BY PagesTyped
    <3>2. \A q \in PagesOf(b) : (q \in todo'[t]) \/ (b \in CodePages'[q])
      BY <1>5, <2>2, <3>1
    <3>3. todo'[t] \subseteq PagesOf(b)
      BY <1>5, <2>2
    <3>4. pc'[t] \notin Registration
      BY <2>3 DEF Registration
    <3> QED BY <1>3, <3>2, <3>3, <3>4 DEF Enlisted
  <2>6. Registered' /\ OnPages' /\ OneImage' /\ (mem' \in [Words -> Bytes])
    <3>1. Registered'
      <4>1. \A q \in Pages : CodePages[q] \subseteq CodePages'[q]
        BY <2>2
      <4> QED BY <1>1, <4>1, PagesTyped DEF Own, Data, Registered
    <3>2. OnPages'
      <4>1. b \in BlocksOn(p)
        BY <2>1 DEF BlocksOn
      <4>2. CodePages[p] \subseteq BlocksOn(p)
        BY <2>1 DEF Own, Data, OnPages
      <4> QED BY <2>2, <4>1, <4>2 DEF Own, Data, OnPages
    <3> QED BY <1>1, <3>1, <3>2 DEF Own, Data, OneImage
  <2>7. Covered(t)'
    <3> SUFFICES ASSUME NEW q \in Pages, CodePages'[q] # {}
                 PROVE  q \in armed' \/ (pc'[t] \in ArmPC /\ page'[t] = q)
      BY DEF Covered
    <3>1. CASE CodePages[q] # {}
      BY <1>1, <1>2, <2>4, <3>1 DEF Own, Data, Covered, ArmPC
    <3>2. CASE CodePages[q] = {}
      <4>1. q = p
        BY <2>2, <3>2
      <4> QED BY <2>3, <3>2, <4>1 DEF ArmPC
    <3> QED BY <3>1, <3>2
  <2>8. UpToDate(t)'
    <3>1. \A c \in Blocks : Image(c)' = Image(c)
      BY <1>1, ContentsKept
    <3> QED BY <1>1, <2>4, <3>1 DEF Own, Data, UpToDate
  <2>9. Follow(t)'
    <3>1. \A c \in Blocks : ~Unwalked(t, c)
      BY <1>2 DEF Unwalked
    <3> QED BY <1>1, <3>1 DEF Own, Data, Follow, Agrees
  <2> QED BY <1>4, <1>7, <2>4, <2>5, <2>6, <2>7, <2>8, <2>9 DEF Own, Work, Data
<1> QED BY <1>8, <1>9 DEF Register

(* MarkGuestExecutableRange arms the page.                                 *)
LEMMA ArmOwn ==
  ASSUME Shape, NEW t \in Threads, Own(t), UNCHANGED lazyVars,
         \/ MarkGuestExecutableRange(t, "rearm", "reregister")
         \/ MarkGuestExecutableRange(t, "arm", "register")
  PROVE  Shape' /\ Own(t)'
<1>1. UNCHANGED <<mem, cacheVars, L1, L2, BlockList, CodePages, RetainedBlocks, blk, entry, todo>>
      /\ armed' = armed \union {page[t]}
  BY DEF MarkGuestExecutableRange, cacheVars
<1>2. pc[t] \in {"arm", "rearm"} /\ (pc'[t] \in {"register", "reregister"})
  BY DEF Shape, MarkGuestExecutableRange, Goto
<1>3. Shape'
  <2>1. Changes(t)
    BY <1>1 DEF Changes, MarkGuestExecutableRange, Goto, Set, lazyVars
  <2> QED BY <1>1, <2>1, ShapeKept, CachesShape
<1>4. Control(t)' /\ \A p : ~Deferred(t, p) /\ ~Deferred(t, p)'
  BY <1>1, <1>2, CompileControl DEF CompilePC, RelinkPC, ArmPC
<1>5. Steady(t)
  BY <1>1, <1>2, <1>4 DEF Steady, Kept
<1>6. Work(t)'
  <2>1. Image(blk[t])' = Image(blk[t])
    BY <1>1, ImageKept
  <2>2. Decoded(t)' /\ NotInL2(t)'
    BY <1>1, <1>2, <2>1 DEF Own, Work, Decoded, NotInL2, DecodedPC, Registering
  <2>3. Enlisted(t)'
    BY <1>1, <1>2 DEF Own, Work, Enlisted, Registering, Registration
  <2> QED BY <2>2, <2>3 DEF Work
<1> QED BY <1>3, <1>4, <1>5, <1>6, SteadyKeeps DEF Own

(* AddBlockMapping publishes the image in memory.                          *)
LEMMA PublishOwn ==
  ASSUME Shape, NEW t \in Threads, Own(t), UNCHANGED lazyVars,
         AddBlockMapping(t, "republish") \/ AddBlockMapping(t, "publish")
  PROVE  Shape' /\ Own(t)'
<1>1. UNCHANGED <<mem, armed, CodePages, RetainedBlocks, L2>>
  BY DEF AddBlockMapping, guestVars
<1>2. pc[t] \in {"republish", "publish"} /\ pc'[t] = "guest"
  BY DEF Shape, AddBlockMapping, Return, Goto
<1>3. PICK b \in Blocks : b = blk[t]
  BY <1>2 DEF Own, Control, Named, CompilePC, RelinkPC
<1>4. /\ entry[t] = Image(b) /\ L2[t][b] = None
      /\ \A p \in PagesOf(b) : b \in CodePages[p]
  BY <1>2, <1>3 DEF Own, Work, Enlisted, NotInL2, Decoded, DecodedPC, Registration
<1>5. /\ BlockList' = [BlockList EXCEPT ![b] = entry[t]]
      /\ L1' = [L1 EXCEPT ![t][b] = entry[t].code]
  BY <1>3 DEF AddBlockMapping
<1>6. BlockList'[b] = Image(b) /\ \A c \in Blocks \ {b} : BlockList'[c] = BlockList[c]
  BY <1>4, <1>5 DEF Shape
<1>7. DOMAIN L1' = Threads /\ L1'[t] = [L1[t] EXCEPT ![b] = entry[t].code] /\ \A u \in Threads \ {t} : L1'[u] = L1[u]
  BY <1>5 DEF Shape
<1>8. DOMAIN L1'[t] = Blocks /\ L1'[t][b] = Contents(b) /\ \A c \in Blocks \ {b} : L1'[t][c] = L1[t][c]
  <2>1. entry[t].code = Contents(b)
    BY <1>4, ImageCode
  <2> QED BY <1>7, <2>1 DEF Shape
<1>9. Shape'
  <2>1. Changes(t)
    BY <1>1, <1>5 DEF Changes, AddBlockMapping, Return, Goto, Set, lazyVars
  <2>2. \A u \in Threads : DOMAIN L1'[u] = Blocks
    BY <1>7, <1>8 DEF Shape
  <2>3. DOMAIN L2' = Threads /\ \A u \in Threads : DOMAIN L2'[u] = Blocks
    BY <1>1 DEF Shape
  <2> QED BY <1>7, <2>1, <2>2, <2>3, ShapeKept
<1>10. Control(t)' /\ \A p : ~Deferred(t, p) /\ ~Deferred(t, p)'
  BY <1>2, CompileControl DEF CompilePC, RelinkPC, ArmPC
<1>11. Work(t)'
  BY <1>2, NoWork DEF CompilePC, RelinkPC
<1>12. Image(b) # None
  <2>1. Contents(b) \in Images
    BY ContentsTyped DEF Own, Data
  <2>2. Image(b) \in Entries
    BY <2>1, SMT DEF Image, Entries
  <2> QED BY <2>2, NoneAssumption
<1>13. Registered' /\ OnPages'
  BY <1>1, <1>4, <1>6 DEF Own, Data, Registered, OnPages
<1>14. OneImage'
  BY <1>1, <1>6 DEF Own, Data, OneImage, OfOneImage, Image
<1>15. UpToDate(t)'
  <2>1. \A c \in Blocks : Image(c)' = Image(c)
    BY <1>1, ContentsKept
  <2> QED BY <1>6, <1>10, <2>1 DEF Own, Data, UpToDate
<1>16. Covered(t)'
  BY <1>1, <1>2, <1>10 DEF Own, Data, Covered, ArmPC
<1>17. Follow(t)'
  <2> SUFFICES ASSUME NEW c \in Blocks PROVE Agrees(L1[t][c], t, c)' /\ Agrees(L2[t][c], t, c)'
    BY DEF Follow
  <2>1. Agrees(L1[t][c], t, c) /\ Agrees(L2[t][c], t, c) /\ ~Unwalked(t, c)
    BY <1>2 DEF Own, Data, Follow, Unwalked
  <2>2. CASE c = b
    <3>1. BlockList'[b].code = Contents(b)
      BY <1>6, ImageCode
    <3> QED BY <1>1, <1>4, <1>6, <1>8, <1>12, <2>2, <3>1 DEF Agrees
  <2>3. CASE c # b
    BY <1>1, <1>6, <1>8, <2>1, <2>3 DEF Agrees
  <2> QED BY <2>2, <2>3
<1>18. mem' \in [Words -> Bytes]
  BY <1>1 DEF Own, Data
<1> QED BY <1>9, <1>10, <1>11, <1>13, <1>14, <1>15, <1>16, <1>17, <1>18 DEF Own, Data

(* Every step of the thread keeps what it relies on.                       *)
LEMMA OwnNext ==
  ASSUME Shape, NEW t \in Threads, Own(t),
         \/ /\ \/ \E b \in Blocks : EvictL1(t, b)
               \/ ClearL2Cache(t)
               \/ Compile(t)
               \/ \E w \in Words, v \in Bytes : Store(t, w, v)
               \/ Retry(t)
               \/ InvalidateGuestCodeRange(t)
            /\ UNCHANGED lazyVars
         \/ \E b \in Blocks : ExitFunctionLink(t, b)
         \/ CompileBlock(t)
         \/ Syscall(t) \/ BlockEntry(t) \/ Drain(t)
         \/ \E p \in Pages : GuestMprotectLazy(t, p)
         \/ HandleSegfaultLazy(t)
  PROVE  Shape' /\ Own(t)'
<1>1. CASE Compile(t) /\ UNCHANGED lazyVars
  <2>1. (IF SMCSoftInvalidate THEN "hash" ELSE "publish") \in {"hash", "publish"}
    OBVIOUS
  <2> QED BY <1>1, <2>1, FindStepOwn, EntryOwn, RegisterOwn, ArmOwn, PublishOwn DEF Compile
<1>2. CASE InvalidateGuestCodeRange(t) /\ UNCHANGED lazyVars
  BY <1>2, LockOwn, SweepOwn, WalkOwn, UnlockOwn DEF InvalidateGuestCodeRange
<1>3. CASE Drain(t)
  <2>1. CASE SoftInvalidateGuestCodeRange(t)
    <3>1. UNCHANGED lazyVars
      BY <2>1 DEF SoftInvalidateGuestCodeRange, DrainDone
    <3> QED BY <2>1, <3>1, LockOwn, SweepOwn, WalkOwn DEF SoftInvalidateGuestCodeRange
  <2> QED BY <1>3, <2>1, CountOwn, SwapOwn, NextPageOwn DEF Drain
<1>4. CASE HandleSegfaultLazy(t)
  BY <1>4, FaultOwn, ScrubOwn
<1> QED BY <1>1, <1>2, <1>3, <1>4, EvictOwn, StoreOwn, DrainEntryOwn, LookupOwn, MprotectOwn

(* With one thread, that is every step of the program.                     *)
LEMMA SelfNext ==
  ASSUME OneThread, SelfInv, [LazyNext]_allVars
  PROVE  SelfInv'
<1>1. CASE UNCHANGED allVars
  <2>1. UNCHANGED <<mem, armed, BlockList, CodePages, RetainedBlocks, L1, L2, pc, blk, entry, todo, page, store,
                    SMCLazyDirtyPages, LazySMCDrainPending, batch, after>>
    BY <1>1 DEF allVars, vars, guestVars, cacheVars, localVars, lazyVars
  <2>2. Shape'
    BY <2>1 DEF SelfInv, Shape
  <2> SUFFICES ASSUME NEW t \in Threads PROVE Control(t)' /\ Work(t)' /\ Data(t)'
    BY <2>2 DEF SelfInv
  <2>3. Control(t) /\ Work(t) /\ Data(t)
    BY DEF SelfInv
  <2>4. Control(t)'
    BY <2>1, <2>3 DEF Control, Idle, Away, Batched, Named, Stored, Placed
  <2>5. \A p : Deferred(t, p)' <=> Deferred(t, p)
    BY <2>1 DEF Deferred
  <2>6. Work(t)'
    <3>1. Image(blk[t])' = Image(blk[t])
      BY <2>1, ImageKept
    <3> QED BY <2>1, <2>3, <3>1 DEF Work, Enlisted, Decoded, NotInL2
  <2>7. Registered' /\ OnPages' /\ OneImage' /\ Follow(t)' /\ (mem' \in [Words -> Bytes])
    BY <2>1, <2>3 DEF Data, Registered, OnPages, OneImage, Follow, Agrees, Unwalked
  <2>8. Covered(t)'
    BY <2>1, <2>3, <2>5 DEF Data, Covered
  <2>9. UpToDate(t)'
    <3>1. \A b \in Blocks : Image(b)' = Image(b)
      BY <2>1, ContentsKept
    <3> QED BY <2>1, <2>3, <2>5, <3>1 DEF Data, UpToDate
  <2> QED BY <2>4, <2>6, <2>7, <2>8, <2>9 DEF Data
<1>2. CASE LazyNext
  <2>1. PICK t \in Threads :
          \/ /\ \/ \E b \in Blocks : EvictL1(t, b)
                \/ ClearL2Cache(t)
                \/ Compile(t)
                \/ \E w \in Words, v \in Bytes : Store(t, w, v)
                \/ Retry(t)
                \/ InvalidateGuestCodeRange(t)
             /\ UNCHANGED lazyVars
          \/ \E b \in Blocks : ExitFunctionLink(t, b)
          \/ CompileBlock(t)
          \/ Syscall(t) \/ BlockEntry(t) \/ Drain(t)
          \/ \E p \in Pages : GuestMprotectLazy(t, p)
          \/ HandleSegfaultLazy(t)
    BY <1>2 DEF LazyNext
  <2>2. Shape' /\ Own(t)'
    BY <2>1, OwnNext DEF SelfInv, Own
  <2>3. \A u \in Threads : u = t
    BY DEF OneThread
  <2> QED BY <2>2, <2>3 DEF SelfInv, Own
<1> QED BY <1>1, <1>2

(* At the start nothing is cached, compiled or dirty.                      *)
LEMMA SelfInit == LazyInit => SelfInv
<1> SUFFICES ASSUME LazyInit PROVE SelfInv
  OBVIOUS
<1> USE DEF LazyInit, Init
<1>1. Shape
  BY DEF Shape
<1> SUFFICES ASSUME NEW t \in Threads PROVE Control(t) /\ Work(t) /\ Data(t)
  BY <1>1 DEF SelfInv
<1>2. Control(t)
  BY DEF Control, Idle, Batched, Named, Stored, Placed, CompilePC, RelinkPC, DrainPC, DeferPC, HardPC, SweepPC, TakePC
<1>3. Work(t)
  BY DEF Work, Enlisted, Decoded, NotInL2, DecodedPC, Registering, Registration
<1>4. Data(t)
  BY DEF Data, Registered, OnPages, OneImage, UpToDate, Covered, Follow, Agrees
<1> QED BY <1>2, <1>3, <1>4

(* SelfCoherent of SMCTracking under lazy invalidation, for a program of    *)
(* one thread, whatever the layout of its code: the scrub after a fault     *)
(* and the drain before the slow lookup leave no translation in L1 that    *)
(* differs from memory when guest code runs.                               *)
THEOREM OwnStoresSeen ==
  ASSUME OneThread
  PROVE  LazySpec => []SelfCoherent
<1>1. LazyInit => SelfInv
  BY SelfInit
<1>2. SelfInv /\ [LazyNext]_allVars => SelfInv'
  BY SelfNext
<1>3. SelfInv => SelfCoherent
  <2> SUFFICES ASSUME SelfInv, NEW t \in Threads, NEW b \in Blocks, pc[t] = "guest", L1[t][b] # None
               PROVE  L1[t][b] = Contents(b)
    BY LayoutAssumption DEF SelfCoherent
  <2>1. Control(t) /\ Data(t)
    BY DEF SelfInv
  <2>2. SMCLazyDirtyPages = {} /\ batch[t] = {}
    BY <2>1 DEF Control, Idle, Batched, TakePC, DeferPC, SweepPC
  <2>3. \A p : ~Deferred(t, p)
    BY <2>2 DEF Deferred, SweepingPC
  <2>4. BlockList[b] # None /\ L1[t][b] = BlockList[b].code
    BY <2>1 DEF Data, Follow, Agrees, Unwalked
  <2>5. BlockList[b] = Image(b)
    BY <2>1, <2>3, <2>4 DEF Data, UpToDate
  <2> QED BY <2>4, <2>5, ImageCode
<1> QED BY <1>1, <1>2, <1>3, PTL DEF LazySpec

(* NoOrphanedCode for a program of one thread: no page carries a live       *)
(* block while it is writable and no fault, drain or mprotect has it       *)
(* recorded ("record-before-unprotect").                                   *)
THEOREM NothingOrphaned ==
  ASSUME OneThread, Threads # {}
  PROVE  LazySpec => []NoOrphanedCode
<1>1. LazyInit => SelfInv
  BY SelfInit
<1>2. SelfInv /\ [LazyNext]_allVars => SelfInv'
  BY SelfNext
<1>3. SelfInv => NoOrphanedCode
  <2> SUFFICES ASSUME SelfInv, NEW b \in Blocks, BlockList[b] # None, NEW p \in PagesOf(b)
               PROVE  \/ p \in armed \/ p \in SMCLazyDirtyPages
                      \/ Arming(p) # {} \/ Reprotecting(p) # {} \/ Draining(p) # {}
    BY DEF NoOrphanedCode
  <2>1. PICK t \in Threads : TRUE
    OBVIOUS
  <2>2. Data(t)
    BY DEF SelfInv
  <2>3. CodePages[p] # {} /\ p \in Pages
    BY <2>2, PagesTyped DEF Data, Registered
  <2>4. p \in armed \/ Deferred(t, p) \/ (pc[t] \in ArmPC /\ page[t] = p)
    BY <2>2, <2>3 DEF Data, Covered
  <2>5. p \in batch[t] => t \in Draining(p)
    BY DEF Draining
  <2>6. pc[t] \in SweepingPC /\ page[t] = p => t \in Draining(p) \/ t \in Reprotecting(p)
    BY DEF SweepingPC, Draining, Reprotecting
  <2>7. pc[t] \in ArmPC /\ page[t] = p => t \in Arming(p)
    BY DEF ArmPC, Arming
  <2> QED BY <2>4, <2>5, <2>6, <2>7 DEF Deferred
<1> QED BY <1>1, <1>2, <1>3, PTL DEF LazySpec
=============================================================================
