-------------------------- MODULE CodeBuffersState --------------------------
(***************************************************************************)
(* The state of the code buffers, their maps and the threads that compile  *)
(* into them and run from them, and what must hold of it.  The steps are   *)
(* in CodeBuffers.                                                         *)
(***************************************************************************)
EXTENDS Integers, Sequences

CONSTANTS
  CoreThreads,
  RIPs,          \* guest addresses where blocks begin
  Null

VARIABLES
  Latest, LatestOffset,
  size,                  \* UsableSize of each buffer
  code,                  \* the block emitted at each place
  BlockOffsets,          \* each buffer's index, in the order of the appends
  BlockLists, BlockLinks,  \* BlockList and BlockLinks of each buffer's LookupCache (L3)
  exits,                 \* where the patched exits of the block at a place lead
  CodeBufferWriteMutex,
  writing,               \* who holds a LookupCache's write lock over several steps
  at, call,              \* where a thread is in the emulator, and its locals there
  here, frames,          \* the block a thread runs, and those it will return to
  CurrentCodeBuffer, SignalHandlerCodeBuffers,
  cache,                 \* L1 and L2
  compiled,              \* history: the threads that have gone to compile a block
  died

(* A local shared_ptr keeps a buffer as well.                              *)
Holds(t) == {CurrentCodeBuffer[t], call[t].buffer, call[t].new} \cup SignalHandlerCodeBuffers[t]
Alive(b) == b = Latest \/ \E t \in CoreThreads : b \in Holds(t)

----------------------------------------------------------------------------
(* The code a thread is in, and the code it will return to.                *)
Stack(t) == ({here[t]} \ {Null}) \cup {frames[t][i] : i \in DOMAIN frames[t]}

(* A rotation by one thread never frees code that another is in, or will   *)
(* return to when its handlers are done: CurrentCodeBuffer and             *)
(* SignalHandlerCodeBuffers cover every thread's stack.                    *)
StackAlive == \A t \in CoreThreads : \A p \in Stack(t) : Alive(p[1])

(* FindBlockHeader finds the block of every host address on a thread's     *)
(* stack, in a buffer that the thread itself holds: a signal handler can   *)
(* always reconstruct the guest RIP.                                       *)
StackFound ==
  \A t \in CoreThreads : \A p \in Stack(t) :
    /\ p[1] \in {CurrentCodeBuffer[t]} \cup SignalHandlerCodeBuffers[t]
    /\ \E i \in DOMAIN BlockOffsets[p[1]] : BlockOffsets[p[1]][i] = p[2]

(* Both: the code that a thread is in or returns to is neither freed nor   *)
(* lost to the thread's own signal handlers.                               *)
StackCovered == StackAlive /\ StackFound

(* A lookup leads to the block of the address that was looked up, in the   *)
(* buffer of the map that was asked: nobody emits over it and no entry of  *)
(* a former buffer is left in the thread's caches.                         *)
LookupsLand ==
  /\ \A b \in DOMAIN BlockLists, r \in RIPs :
       LET p == BlockLists[b][r] IN Alive(b) /\ p # Null => p[1] = b /\ code[p] = r
  /\ \A t \in CoreThreads, r \in RIPs :
       LET p == cache[t][r] IN p # Null => p[1] = CurrentCodeBuffer[t] /\ code[p] = r

(* An exit that is patched can be unpatched: a living map has it           *)
(* registered, under the address that it leads to.                         *)
LinksUndoable ==
  \A p \in DOMAIN exits, r \in RIPs :
    Alive(p[1]) /\ exits[p][r] # Null =>
      /\ Alive(exits[p][r][1])
      /\ \E b \in DOMAIN BlockLists : Alive(b) /\ <<r, p>> \in BlockLinks[b]

(* No exit leads to an address that was invalidated: the linker checks the *)
(* map again under its write lock before it patches.                       *)
LinksCurrent ==
  \A p \in DOMAIN exits, r \in RIPs :
    Alive(p[1]) /\ exits[p][r] # Null => BlockLists[p[1]][r] # Null

(* A delinker that is still registered writes to a living buffer.          *)
DelinkersAlive ==
  \A b \in DOMAIN BlockLists : \A l \in BlockLinks[b] : Alive(b) => Alive(l[2][1])

(* The emulator does not give up: the index never goes backwards, and a    *)
(* block that fits an empty buffer finds room.                             *)
NeverDies == ~died

(* At most one thread has compiled.                                        *)
OneCompiler == \A t, u \in compiled : t = u

(* Until a second thread compiles, lookups lead where they should, because *)
(* nothing is emitted over, and the checks that would stop it never have   *)
(* to, whatever the other threads run, link and invalidate.                *)
LookupsSound == OneCompiler => LookupsLand /\ NeverDies

(* The patched exits and the delinkers agree: erasing a block unpatches    *)
(* whatever leads to it and writes nowhere else.                           *)
LinksSeverable == LinksUndoable /\ DelinkersAlive
============================================================================
