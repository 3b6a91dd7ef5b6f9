-------------------------- MODULE Threads_proofs --------------------------
(***************************************************************************)
(* The two components of the threads run, each for itself.                 *)
(*                                                                         *)
(* ThreadPause, for any number of threads and of commands, the counter     *)
(* wrapping included: when WaitForIdle has returned, no thread is in guest *)
(* code, and until a second command the counter is exact.  The counter is  *)
(* not exact for ever: a pause that interrupts a sleep decrements it once  *)
(* more.  The argument is that this can happen only when every thread is   *)
(* quiescent already, which nothing ends: the invariant says that the      *)
(* counter is exact until then, because in the first round of signals each *)
(* thread gets one, and not while it sleeps.                               *)
(*                                                                         *)
(* PooledAllocator, for any number of clients, buffers and sizes: a buffer *)
(* in use belongs to its user alone, no claimed buffer is lost, the        *)
(* reclaiming loop never reads the flag of a client that is gone, and a    *)
(* client gets the size it asked for.  None of the four is inductive: what *)
(* a client may do without the lock is decided by its flag, which the      *)
(* reclaiming loop changes behind its back, so the invariant ties flag,    *)
(* place and the buffer's pointer together for every client, and says what *)
(* the holder of the lock knows of the loop.                               *)
(***************************************************************************)
EXTENDS ThreadPause, PooledAllocatorState, FiniteSetTheorems, TLAPS

CONSTANT Sizes   \* the sizes that the pool's clients ask for

Pool == INSTANCE PooledAllocator

-----------------------------------------------------------------------------
(***************************************************************************)
(* The pooled allocator.                                                   *)
(***************************************************************************)

(* The client has its buffer, or is on the way to give it back.            *)
Holds(c) == flag[c] # "FREE" \/ at[c] = "unclaim"

(* The flag tells where a client can be.                                   *)
FlagInv ==
  \A c \in Clients :
    /\ at[c] \in Using => flag[c] = "OWNED"
    /\ at[c] \notin Using => flag[c] # "OWNED"
    /\ at[c] \notin Using \union {"idle", "disowned"} => flag[c] = "FREE"

(* What a client holds is claimed, and points back to the client.          *)
HeldInv ==
  \A c \in Clients : Holds(c) => Info[c] \in ClaimedBuffers /\ CurrentClientOwnedFlag[Info[c]] = c

(* A claimed buffer has a client that holds it, or has just been taken from*)
(* it by the loop.                                                         *)
ClaimedInv ==
  \A b \in ClaimedBuffers :
    /\ CurrentClientOwnedFlag[b] \in Clients /\ Info[CurrentClientOwnedFlag[b]] = b
    /\ Holds(CurrentClientOwnedFlag[b]) \/ (it = b /\ \E d \in Clients : at[d] = "take")

(* The loop belongs to the holder of the lock.                             *)
LoopInv ==
  /\ \A c \in Clients : at[c] \in Pool!Locked <=> mutex = c
  /\ \A c \in Clients : at[c] \in {"walk", "cas", "take"} => ahead \subseteq ClaimedBuffers
  /\ \A c \in Clients : at[c] \in {"cas", "take"} => it \in ClaimedBuffers \ ahead
  /\ \A c \in Clients : at[c] = "take" => ~Holds(CurrentClientOwnedFlag[it])

(* The two lists.                                                          *)
PoolApart == ClaimedBuffers \intersect UnclaimedBuffers = {}

(* The inductive invariant of the pool.                                    *)
PoolInv == Pool!TypeOK /\ FlagInv /\ HeldInv /\ ClaimedInv /\ LoopInv /\ PoolApart /\ EnoughSpace

----------------------------------------------------------------------------
(* At the start no client has a buffer.                                    *)
LEMMA PoolInitInv == ASSUME Pool!PoolAssumption, Pool!Init PROVE PoolInv
<1>1. Pool!TypeOK
  BY DEF Pool!Init, Pool!TypeOK, Pool!PoolAssumption, Pool!Places
<1> QED
  BY <1>1 DEF Pool!Init, Pool!PoolAssumption, PoolInv, FlagInv, HeldInv, ClaimedInv, LoopInv, PoolApart,
      EnoughSpace, Holds,
         Using, Pool!Using, Pool!Locked

(* The compare-exchange finds the client's buffer where it left it, or the *)
(* flag FREE: then the client has nothing and goes to the lock.            *)
LEMMA TryToReownBufferInv == ASSUME Pool!PoolAssumption, PoolInv, NEW c \in Clients,
      Pool!TryToReownBuffer(c) PROVE PoolInv'
<1> USE DEF Pool!TryToReownBuffer, Pool!Goto, Pool!SetFlag, Pool!clientVars, Pool!poolVars, Pool!loopVars,
      Pool!PoolAssumption, Using, Pool!Using, Pool!Locked, Pool!Places
<1>1. Pool!TypeOK'
  BY DEF PoolInv, Pool!TypeOK
<1>2. FlagInv'
  BY DEF PoolInv, Pool!TypeOK, FlagInv, HeldInv, ClaimedInv, LoopInv, Holds
<1>3. HeldInv'
  BY DEF PoolInv, Pool!TypeOK, FlagInv, HeldInv, ClaimedInv, LoopInv, Holds
<1>4. ClaimedInv'
  BY DEF PoolInv, Pool!TypeOK, FlagInv, HeldInv, ClaimedInv, LoopInv, Holds
<1>5. LoopInv'
  BY DEF PoolInv, Pool!TypeOK, FlagInv, HeldInv, ClaimedInv, LoopInv, Holds
<1>6. PoolApart' /\ EnoughSpace'
  BY DEF PoolInv, Pool!TypeOK, FlagInv, HeldInv, Holds, PoolApart, EnoughSpace
<1> QED BY <1>1, <1>2, <1>3, <1>4, <1>5, <1>6 DEF PoolInv

(* Storing LastUsed of its own buffer changes nothing that is claimed.     *)
LEMMA StampInv == ASSUME Pool!PoolAssumption, PoolInv, NEW c \in Clients, Pool!Stamp(c) PROVE PoolInv'
  BY DEF Pool!Stamp, Pool!Goto, Pool!clientVars, Pool!poolVars, Pool!loopVars, Pool!PoolAssumption, Using,
      Pool!Using, Pool!Locked, Pool!Places, PoolInv, Pool!TypeOK,
         FlagInv, HeldInv, ClaimedInv, LoopInv, Holds, PoolApart, EnoughSpace

(* A buffer that is too small is given back: the client holds it until it has*)
(* the lock.                                                               *)
LEMMA FitInv == ASSUME Pool!PoolAssumption, PoolInv, NEW c \in Clients, Pool!Fit(c) PROVE PoolInv'
<1> USE DEF Pool!Fit, Pool!Goto, Pool!SetFlag, Pool!UnclaimBuffer, Pool!clientVars, Pool!poolVars,
      Pool!loopVars, Pool!PoolAssumption, Using, Pool!Using, Pool!Locked, Pool!Places
<1>1. Pool!TypeOK'
  BY DEF PoolInv, Pool!TypeOK
<1>2. FlagInv'
  BY DEF PoolInv, Pool!TypeOK, FlagInv, HeldInv, ClaimedInv, LoopInv, Holds
<1>3. HeldInv'
  BY DEF PoolInv, Pool!TypeOK, FlagInv, HeldInv, ClaimedInv, LoopInv, Holds
<1>4. ClaimedInv'
  BY DEF PoolInv, Pool!TypeOK, FlagInv, HeldInv, ClaimedInv, LoopInv, Holds
<1>5. LoopInv'
  BY DEF PoolInv, Pool!TypeOK, FlagInv, HeldInv, ClaimedInv, LoopInv, Holds
<1>6. PoolApart' /\ EnoughSpace'
  BY DEF PoolInv, Pool!TypeOK, FlagInv, HeldInv, Holds, PoolApart, EnoughSpace
<1> QED BY <1>1, <1>2, <1>3, <1>4, <1>5, <1>6 DEF PoolInv

(* Asking for another size leaves the buffer with the client.              *)
LEMMA ResizeInv == ASSUME Pool!PoolAssumption, PoolInv, NEW c \in Clients, Pool!Resize(c) PROVE PoolInv'
  BY DEF Pool!Resize, Pool!Goto, Pool!clientVars, Pool!poolVars, Pool!loopVars, Pool!PoolAssumption, Using,
      Pool!Using, Pool!Locked, Pool!Places, PoolInv, Pool!TypeOK,
         FlagInv, HeldInv, ClaimedInv, LoopInv, Holds, PoolApart, EnoughSpace

(* The flag reached through the buffer is the client's own.                *)
LEMMA DisownBufferInv == ASSUME Pool!PoolAssumption, PoolInv, NEW c \in Clients,
      Pool!DisownBuffer(c) PROVE PoolInv'
<1> USE DEF Pool!DisownBuffer, Pool!Goto, Pool!SetFlag, Pool!clientVars, Pool!poolVars, Pool!loopVars,
      Pool!PoolAssumption, Using, Pool!Using, Pool!Locked, Pool!Places
<1>1. Pool!TypeOK'
  BY DEF PoolInv, Pool!TypeOK
<1>2. FlagInv'
  BY DEF PoolInv, Pool!TypeOK, FlagInv, HeldInv, ClaimedInv, LoopInv, Holds
<1>3. HeldInv'
  BY DEF PoolInv, Pool!TypeOK, FlagInv, HeldInv, ClaimedInv, LoopInv, Holds
<1>4. ClaimedInv'
  BY DEF PoolInv, Pool!TypeOK, FlagInv, HeldInv, ClaimedInv, LoopInv, Holds
<1>5. LoopInv'
  BY DEF PoolInv, Pool!TypeOK, FlagInv, HeldInv, ClaimedInv, LoopInv, Holds
<1>6. PoolApart' /\ EnoughSpace'
  BY DEF PoolInv, Pool!TypeOK, FlagInv, HeldInv, Holds, PoolApart, EnoughSpace
<1> QED BY <1>1, <1>2, <1>3, <1>4, <1>5, <1>6 DEF PoolInv

(* The exchange for FREE decides who gives the buffer back, the client or the*)
(* reclaiming loop.                                                        *)
LEMMA DelayedDisownBufferInv == ASSUME Pool!PoolAssumption, PoolInv, NEW c \in Clients,
      Pool!DelayedDisownBuffer(c) PROVE PoolInv'
<1> USE DEF Pool!DelayedDisownBuffer, Pool!Goto, Pool!SetFlag, Pool!UnclaimBuffer, Pool!clientVars,
      Pool!poolVars, Pool!loopVars, Pool!PoolAssumption, Using, Pool!Using, Pool!Locked, Pool!Places
<1>1. Pool!TypeOK'
  BY DEF PoolInv, Pool!TypeOK
<1>2. FlagInv'
  BY DEF PoolInv, Pool!TypeOK, FlagInv, HeldInv, ClaimedInv, LoopInv, Holds
<1>3. HeldInv'
  BY DEF PoolInv, Pool!TypeOK, FlagInv, HeldInv, ClaimedInv, LoopInv, Holds
<1>4. ClaimedInv'
  BY DEF PoolInv, Pool!TypeOK, FlagInv, HeldInv, ClaimedInv, LoopInv, Holds
<1>5. LoopInv'
  BY DEF PoolInv, Pool!TypeOK, FlagInv, HeldInv, ClaimedInv, LoopInv, Holds
<1>6. PoolApart' /\ EnoughSpace'
  BY DEF PoolInv, Pool!TypeOK, FlagInv, HeldInv, Holds, PoolApart, EnoughSpace
<1> QED BY <1>1, <1>2, <1>3, <1>4, <1>5, <1>6 DEF PoolInv

(* A client that is gone has nothing, unless it waits for the lock.        *)
LEMMA DestroyInv == ASSUME Pool!PoolAssumption, PoolInv, NEW c \in Clients, Pool!Destroy(c) PROVE PoolInv'
<1> USE DEF Pool!Destroy, Pool!Goto, Pool!SetFlag, Pool!UnclaimBuffer, Pool!clientVars, Pool!poolVars,
      Pool!loopVars, Pool!PoolAssumption, Using, Pool!Using, Pool!Locked, Pool!Places
<1>1. Pool!TypeOK'
  BY DEF PoolInv, Pool!TypeOK
<1>2. FlagInv'
  BY DEF PoolInv, Pool!TypeOK, FlagInv, HeldInv, ClaimedInv, LoopInv, Holds
<1>3. HeldInv'
  BY DEF PoolInv, Pool!TypeOK, FlagInv, HeldInv, ClaimedInv, LoopInv, Holds
<1>4. ClaimedInv'
  BY DEF PoolInv, Pool!TypeOK, FlagInv, HeldInv, ClaimedInv, LoopInv, Holds
<1>5. LoopInv'
  BY DEF PoolInv, Pool!TypeOK, FlagInv, HeldInv, ClaimedInv, LoopInv, Holds
<1>6. PoolApart' /\ EnoughSpace'
  BY DEF PoolInv, Pool!TypeOK, FlagInv, HeldInv, Holds, PoolApart, EnoughSpace
<1> QED BY <1>1, <1>2, <1>3, <1>4, <1>5, <1>6 DEF PoolInv

(* Giving a buffer back under the lock, nobody being in the reclaiming loop.*)
LEMMA UnclaimBufferImplInv == ASSUME Pool!PoolAssumption, PoolInv, NEW c \in Clients,
      Pool!UnclaimBufferImpl(c) PROVE PoolInv'
<1> USE DEF Pool!UnclaimBufferImpl, Pool!Goto, Pool!clientVars, Pool!poolVars, Pool!loopVars,
      Pool!PoolAssumption, Using, Pool!Using, Pool!Locked, Pool!Places
<1>0. Info[c] \in ClaimedBuffers /\ Info[c] \in Buffers
  BY DEF PoolInv, Pool!TypeOK, HeldInv, Holds
<1>1. Pool!TypeOK'
  BY <1>0 DEF PoolInv, Pool!TypeOK
<1>2. FlagInv'
  BY DEF PoolInv, Pool!TypeOK, FlagInv, HeldInv, ClaimedInv, LoopInv, Holds
<1>3. HeldInv'
  BY <1>0 DEF PoolInv, Pool!TypeOK, FlagInv, HeldInv, ClaimedInv, LoopInv, Holds
<1>4. ClaimedInv'
  BY DEF PoolInv, Pool!TypeOK, FlagInv, HeldInv, ClaimedInv, LoopInv, Holds
<1>5. LoopInv'
  BY DEF PoolInv, Pool!TypeOK, FlagInv, HeldInv, ClaimedInv, LoopInv, Holds
<1>6. PoolApart' /\ EnoughSpace'
  BY DEF PoolInv, Pool!TypeOK, FlagInv, HeldInv, Holds, PoolApart, EnoughSpace
<1> QED BY <1>1, <1>2, <1>3, <1>4, <1>5, <1>6 DEF PoolInv

(* The loop starts with the claimed buffers.                               *)
LEMMA ClaimBufferInv == ASSUME Pool!PoolAssumption, PoolInv, NEW c \in Clients,
      Pool!ClaimBuffer(c) PROVE PoolInv'
  BY DEF Pool!ClaimBuffer, Pool!Goto, Pool!clientVars, Pool!poolVars, Pool!loopVars, Pool!PoolAssumption,
      Using, Pool!Using, Pool!Locked, Pool!Places, PoolInv, Pool!TypeOK,
         FlagInv, HeldInv, ClaimedInv, LoopInv, Holds, PoolApart, EnoughSpace

(* The loop goes on with a buffer that is claimed and no longer ahead.     *)
LEMMA LoadInv == ASSUME Pool!PoolAssumption, PoolInv, NEW c \in Clients, Pool!Load(c) PROVE PoolInv'
<1> USE DEF Pool!Load, Pool!Goto, Pool!clientVars, Pool!poolVars, Pool!loopVars, Pool!PoolAssumption, Using,
      Pool!Using, Pool!Locked, Pool!Places
<1>1. Pool!TypeOK'
  BY DEF PoolInv, Pool!TypeOK
<1>2. FlagInv'
  BY DEF PoolInv, Pool!TypeOK, FlagInv, HeldInv, ClaimedInv, LoopInv, Holds
<1>3. HeldInv'
  BY DEF PoolInv, Pool!TypeOK, FlagInv, HeldInv, ClaimedInv, LoopInv, Holds
<1>4. ClaimedInv'
  BY DEF PoolInv, Pool!TypeOK, FlagInv, HeldInv, ClaimedInv, LoopInv, Holds
<1>5. LoopInv'
  BY DEF PoolInv, Pool!TypeOK, FlagInv, HeldInv, ClaimedInv, LoopInv, Holds
<1>6. PoolApart' /\ EnoughSpace'
  BY DEF PoolInv, Pool!TypeOK, FlagInv, HeldInv, Holds, PoolApart, EnoughSpace
<1> QED BY <1>1, <1>2, <1>3, <1>4, <1>5, <1>6 DEF PoolInv

(* The compare-exchange leaves a client that took its buffer back alone.   *)
LEMMA TakeAwayInv == ASSUME Pool!PoolAssumption, PoolInv, NEW c \in Clients, Pool!TakeAway(c) PROVE PoolInv'
<1> USE DEF Pool!TakeAway, Pool!Goto, Pool!SetFlag, Pool!clientVars, Pool!poolVars, Pool!loopVars,
      Pool!PoolAssumption, Using, Pool!Using, Pool!Locked, Pool!Places
<1>1. Pool!TypeOK'
  BY DEF PoolInv, Pool!TypeOK
<1>2. FlagInv'
  BY DEF PoolInv, Pool!TypeOK, FlagInv, HeldInv, ClaimedInv, LoopInv, Holds
<1>3. HeldInv'
  BY DEF PoolInv, Pool!TypeOK, FlagInv, HeldInv, ClaimedInv, LoopInv, Holds
<1>4. ClaimedInv'
  BY DEF PoolInv, Pool!TypeOK, FlagInv, HeldInv, ClaimedInv, LoopInv, Holds
<1>5. LoopInv'
  BY DEF PoolInv, Pool!TypeOK, FlagInv, HeldInv, ClaimedInv, LoopInv, Holds
<1>6. PoolApart' /\ EnoughSpace'
  BY DEF PoolInv, Pool!TypeOK, FlagInv, HeldInv, Holds, PoolApart, EnoughSpace
<1> QED BY <1>1, <1>2, <1>3, <1>4, <1>5, <1>6 DEF PoolInv

(* A buffer that was taken away has no client any more.                    *)
LEMMA TakeInv == ASSUME Pool!PoolAssumption, PoolInv, NEW c \in Clients, Pool!Take(c) PROVE PoolInv'
<1> USE DEF Pool!Take, Pool!Goto, Pool!clientVars, Pool!poolVars, Pool!loopVars, Pool!PoolAssumption, Using,
      Pool!Using, Pool!Locked, Pool!Places
<1>0. it \in ClaimedBuffers /\ it \in Buffers
  BY DEF PoolInv, Pool!TypeOK, LoopInv
<1>1. Pool!TypeOK'
  BY <1>0 DEF PoolInv, Pool!TypeOK
<1>2. FlagInv'
  BY DEF PoolInv, Pool!TypeOK, FlagInv, HeldInv, ClaimedInv, LoopInv, Holds
<1>3. HeldInv'
  BY <1>0 DEF PoolInv, Pool!TypeOK, FlagInv, HeldInv, ClaimedInv, LoopInv, Holds
<1>4. ClaimedInv'
  BY DEF PoolInv, Pool!TypeOK, FlagInv, HeldInv, ClaimedInv, LoopInv, Holds
<1>5. LoopInv'
  BY DEF PoolInv, Pool!TypeOK, FlagInv, HeldInv, ClaimedInv, LoopInv, Holds
<1>6. PoolApart' /\ EnoughSpace'
  BY DEF PoolInv, Pool!TypeOK, FlagInv, HeldInv, Holds, PoolApart, EnoughSpace
<1> QED BY <1>1, <1>2, <1>3, <1>4, <1>5, <1>6 DEF PoolInv

(* A claimed buffer was unclaimed or is new, and no other client's.        *)
LEMMA PickInv == ASSUME Pool!PoolAssumption, PoolInv, NEW c \in Clients, Pool!Pick(c) PROVE PoolInv'
<1> USE DEF Pool!PoolAssumption, Using, Pool!Using, Pool!Locked, Pool!Places
<1>0. Pool!TypeOK /\ PoolApart /\ at[c] = "pick" /\ mutex = c
  BY DEF PoolInv, Pool!Pick, LoopInv
<1>1. PICK b \in Buffers \ ClaimedBuffers :
        /\ Pool!Claimed(c, b)
        /\ UnclaimedBuffers' \subseteq UnclaimedBuffers \ {b}
        /\ Expired' \subseteq Buffers
        /\ size' \in [Buffers -> Sizes] /\ size'[b] >= Size[c]
        /\ \A x \in ClaimedBuffers : size'[x] = size[x]
  <2>1. CASE Pool!BestFit(Size[c]) # {}
    <3>1. PICK b \in Pool!BestFit(Size[c]) : \E f \in Pool!Freeable(b) :
             UnclaimedBuffers' = UnclaimedBuffers \ ({b} \union f) /\ Pool!Claimed(c, b)
      BY <2>1 DEF Pool!Pick
    <3>2. size' = size /\ Expired' = Expired
      BY <2>1 DEF Pool!Pick
    <3>3. b \in UnclaimedBuffers /\ b \in Buffers /\ (size[b] = Size[c] \/ size[b] > Size[c])
      BY <1>0, <3>1 DEF Pool!BestFit, Pool!TypeOK
    <3>4. size[b] \in Nat /\ Size[c] \in Nat
      BY <1>0, <3>3 DEF Pool!TypeOK
    <3>5. size[b] >= Size[c]
      BY <3>3, <3>4
    <3> QED BY <1>0, <3>1, <3>2, <3>3, <3>5 DEF Pool!TypeOK, PoolApart
  <2>2. CASE Pool!BestFit(Size[c]) = {}
    <3>1. PICK b \in Buffers \ Pool!Allocated : \E f \in Pool!Freeable(None) :
             /\ UnclaimedBuffers' = UnclaimedBuffers \ f
             /\ Expired' = Expired \ {b}
             /\ size' = [size EXCEPT ![b] = Pool!AllocatedSize(c)]
             /\ Pool!Claimed(c, b)
      BY <2>2 DEF Pool!Pick
    <3>2. Size[c] \in Sizes /\ Size[c] \in Nat /\ b \notin ClaimedBuffers /\ b \notin UnclaimedBuffers
      BY <1>0, <3>1 DEF Pool!TypeOK, Pool!Allocated
    <3>3. size' \in [Buffers -> Sizes] /\ size'[b] = Size[c] /\ \A x \in Buffers \ {b} : size'[x] = size[x]
      BY <1>0, <3>1, <3>2 DEF Pool!TypeOK, Pool!AllocatedSize
    <3> QED BY <1>0, <3>1, <3>2, <3>3 DEF Pool!TypeOK
  <2> QED BY <2>1, <2>2
<1>2. /\ ClaimedBuffers' = ClaimedBuffers \union {b}
      /\ CurrentClientOwnedFlag' = [CurrentClientOwnedFlag EXCEPT ![b] = c]
      /\ flag' = [flag EXCEPT ![c] = "OWNED"]
      /\ Info' = [Info EXCEPT ![c] = b]
      /\ mutex' = None /\ at' = [at EXCEPT ![c] = "use"]
      /\ UNCHANGED <<then, Size, Pool!loopVars>>
  BY <1>1 DEF Pool!Claimed, Pool!SetFlag, Pool!Goto
<1>3. flag[c] = "FREE" /\ ~Holds(c) /\ (\A d \in Clients : at[d] # "take")
  BY <1>0 DEF PoolInv, FlagInv, LoopInv, Holds
<1>4. Pool!TypeOK'
  BY <1>0, <1>1, <1>2 DEF Pool!TypeOK, Pool!loopVars
<1>5. FlagInv'
  BY <1>0, <1>2 DEF PoolInv, Pool!TypeOK, FlagInv
<1>6. HeldInv'
  BY <1>0, <1>1, <1>2, <1>3 DEF PoolInv, Pool!TypeOK, HeldInv, Holds
<1>7. ClaimedInv'
  BY <1>0, <1>1, <1>2, <1>3 DEF PoolInv, Pool!TypeOK, ClaimedInv, HeldInv, Holds, Pool!loopVars
<1>8. LoopInv'
  BY <1>0, <1>2 DEF PoolInv, Pool!TypeOK, LoopInv, Pool!loopVars
<1>9. PoolApart'
  BY <1>1, <1>2 DEF PoolInv, PoolApart
<1>10. EnoughSpace'
  BY <1>0, <1>1, <1>2 DEF PoolInv, Pool!TypeOK, FlagInv, HeldInv, Holds, EnoughSpace
<1> QED BY <1>4, <1>5, <1>6, <1>7, <1>8, <1>9, <1>10 DEF PoolInv

(* Every step preserves the invariant.                                     *)
LEMMA PoolNextInv == ASSUME Pool!PoolAssumption, PoolInv, [Pool!Next]_(Pool!vars) PROVE PoolInv'
<1>1. CASE UNCHANGED Pool!vars
  BY <1>1 DEF Pool!vars, Pool!clientVars, Pool!poolVars, Pool!loopVars, PoolInv, Pool!TypeOK, FlagInv,
      HeldInv, ClaimedInv, LoopInv, Holds,
              PoolApart, EnoughSpace
<1>2. CASE \E b \in Buffers : Pool!Expire(b)
  BY <1>2 DEF Pool!Expire, Pool!clientVars, Pool!poolVars, Pool!loopVars, PoolInv, Pool!TypeOK, FlagInv,
      HeldInv, ClaimedInv, LoopInv, Holds,
              PoolApart, EnoughSpace
<1>3. CASE \E c \in Clients :
        \/ Pool!TryToReownBuffer(c) \/ Pool!Stamp(c) \/ Pool!Fit(c) \/ Pool!Resize(c)
        \/ Pool!DisownBuffer(c) \/ Pool!DelayedDisownBuffer(c) \/ Pool!Destroy(c)
        \/ Pool!UnclaimBufferImpl(c) \/ Pool!ClaimBuffer(c) \/ Pool!Load(c) \/ Pool!TakeAway(c) \/ Pool!Take(c) \/ Pool!Pick(c)
  BY <1>3, TryToReownBufferInv, StampInv, FitInv, ResizeInv, DisownBufferInv, DelayedDisownBufferInv,
      DestroyInv,
     UnclaimBufferImplInv, ClaimBufferInv, LoadInv, TakeAwayInv, TakeInv, PickInv
<1> QED BY <1>1, <1>2, <1>3 DEF Pool!Next

(* The invariant of IntrusivePooledAllocator and its clients.              *)
THEOREM PoolInvariant == ASSUME Pool!PoolAssumption PROVE Pool!Spec => []PoolInv
<1>1. Pool!Init => PoolInv
  BY PoolInitInv
<1>2. PoolInv /\ [Pool!Next]_(Pool!vars) => PoolInv'
  BY PoolNextInv
<1> QED BY <1>1, <1>2, PTL DEF Pool!Spec

(* Disown, reown and reclaim: a buffer in use is claimed by its user alone *)
(* and large enough, and every claimed buffer has a client that will give  *)
(* it back or has just lost it.                                            *)
THEOREM BuffersClaimed == ASSUME Pool!PoolAssumption PROVE Pool!Spec => []ClaimsHold
<1>1. PoolInv => ClaimsHold
  BY DEF PoolInv, Pool!TypeOK, FlagInv, HeldInv, ClaimedInv, Holds, PoolApart, ClaimsHold, ExclusiveUse,
      ClaimedHasClient
<1> QED BY <1>1, PoolInvariant, PTL

(* The reclaiming loop dereferences only flags of clients that exist: a    *)
(* destructor with a claimed buffer waits for AllocationMutex.             *)
THEOREM FlagsOutlive == ASSUME Pool!PoolAssumption PROVE Pool!Spec => []FlagsAlive
<1>1. PoolInv => FlagsAlive
  BY DEF PoolInv, Pool!TypeOK, FlagInv, ClaimedInv, LoopInv, Holds, FlagsAlive, Using, Pool!Using, Pool!Locked
<1> QED BY <1>1, PoolInvariant, PTL
-----------------------------------------------------------------------------
(***************************************************************************)
(* The threads and their pause.                                            *)
(***************************************************************************)

(* Zenon is tried where a leaf does not name a prover.                     *)
USE Zenon

(* Every thread is at rest.                                                *)
Calm == \A t \in GuestThreads : Quiescent(t)

(* On the way to sleep, or asleep.                                         *)
Resting == Sleeping \union {"dec"}

(* The server is sending a round of signals.                               *)
Signalling == gdb \in {"signal_pause", "signal_stop"}

(* A thread that was never paused has no interrupted place, and a child is *)
(* started by one parent.                                                  *)
ThreadInv ==
  /\ \A t \in GuestThreads : pc[t] \in {"unborn", "started", "run", "cloning"} =>
       stored[t] = <<>> /\ ~ThreadSleeping[t]
  /\ \A t \in GuestThreads : pc[t] = "cloning" => clone[t] \in GuestThreads /\ pc[clone[t]] = "started"
  /\ \A t, u \in GuestThreads : pc[t] = "cloning" /\ pc[u] = "cloning" /\ clone[t] = clone[u] => t = u

(* The server waits for threads to run only in a detach, and a pause or a  *)
(* kill that has returned has left everyone quiescent.                     *)
ServerInv ==
  /\ gdb \in {"run_count", "run_check", "run_block", "run_wait"} => command = "detach"
  /\ gdb \in {"signal_pause", "signal_stop", "idle_check", "idle_block",
      "idle_wait"} => command \in {"pause", "kill"}
  /\ gdb = "idle" /\ command \in {"pause", "kill"} => Calm
  /\ gdb = "dead" => Calm
  /\ commands = 0 => command = "none"

(* The first round of signals.                                             *)
FirstRound ==
  /\ IdleWaitRefCount = Cardinality(Awake)
  /\ \A t \in GuestThreads : pc[t] \in Resting => signals[t] = 0 /\ ~(Signalling /\ t \in todo)
  /\ \A t \in GuestThreads : signals[t] = 0 \/ (signals[t] = 1 /\ ~(Signalling /\ t \in todo))
  /\ command \in {"none", "detach"} => \A t \in GuestThreads : signals[t] = 0 /\ pc[t] \notin Resting

(* Until a second command finds a thread on its way, the first round       *)
(* counts right.                                                           *)
CountInv == (~Calm \/ commands <= 1) /\ gdb # "dead" => FirstRound

(* The inductive invariant.                                                *)
IInv == TypeOK /\ ThreadInv /\ ServerInv /\ CountInv

----------------------------------------------------------------------------
(* Arithmetic modulo the range of the counter.                             *)
LEMMA ModSmall == \A a \in 0..(RefCountModulus - 1) : a % RefCountModulus = a
  BY PauseAssumption, SMT

(* What the counter holds after it wraps is in its range.                  *)
LEMMA ModRange == \A a \in Int : a % RefCountModulus \in 0..(RefCountModulus - 1)
  BY PauseAssumption, FS_CardinalityType, SMT

(* The counter keeps its type.                                             *)
LEMMA CountType == ASSUME TypeOK, NEW n \in Int, Count(n) PROVE IdleWaitRefCount' \in 0..(RefCountModulus - 1)
<1>1. IdleWaitRefCount + n \in Int
  BY PauseAssumption, SMT DEF TypeOK
<1> QED BY <1>1, ModRange DEF Count

(* A child that has not been tracked takes no signal.                      *)
LEMMA OnlyRunning == \A place \in Interruptible : place # "started"
  BY DEF Interruptible, Sleeping

(* The pending pause signals of a thread are a natural number.             *)
LEMMA SignalsNat == TypeOK => \A t \in GuestThreads : signals[t] \in Nat /\ signals[t] + 1 \in Nat
  BY SMT DEF TypeOK

(* There are fewer awake threads than counter values.                      *)
LEMMA AwakeFinite ==
  /\ IsFiniteSet(Awake) /\ Cardinality(Awake) \in Nat
  /\ Cardinality(Awake) <= Cardinality(GuestThreads) /\ Cardinality(GuestThreads) \in Nat
  BY PauseAssumption, FS_Subset, FS_CardinalityType DEF Awake

(* The same after a step.                                                  *)
LEMMA AwakeFiniteNext ==
  /\ IsFiniteSet(Awake') /\ Cardinality(Awake') \in Nat
  /\ Cardinality(Awake') <= Cardinality(GuestThreads) /\ Cardinality(GuestThreads) \in Nat
  BY PauseAssumption, FS_Subset, FS_CardinalityType DEF Awake

(* IdleWaitRefCount follows a thread that wakes up or is created.          *)
LEMMA OneMore ==
  ASSUME IdleWaitRefCount = Cardinality(Awake), NEW t, t \notin Awake, Awake' = Awake \union {t}, Count(1)
  PROVE  IdleWaitRefCount' = Cardinality(Awake')
<1>1. Cardinality(Awake') = Cardinality(Awake) + 1
  BY AwakeFinite, FS_AddElement
<1>2. Cardinality(Awake') \in 0..(RefCountModulus - 1)
  BY AwakeFiniteNext, PauseAssumption, SMT
<1> QED BY <1>1, <1>2, ModSmall DEF Count

(* IdleWaitRefCount follows a thread that goes to sleep or ends.           *)
LEMMA OneLess ==
  ASSUME IdleWaitRefCount = Cardinality(Awake), NEW t, t \in Awake, Awake' = Awake \ {t}, Count(-1)
  PROVE  IdleWaitRefCount' = Cardinality(Awake')
<1>1. Cardinality(Awake') = Cardinality(Awake) - 1
  BY AwakeFinite, FS_RemoveElement
<1>2. Cardinality(Awake') \in 0..(RefCountModulus - 1)
  BY AwakeFiniteNext, PauseAssumption, SMT
<1>3. Cardinality(Awake) + (-1) = Cardinality(Awake) - 1
  BY AwakeFinite
<1> QED BY <1>1, <1>2, <1>3, ModSmall DEF Count

----------------------------------------------------------------------------
(* One lemma per action of the guest threads and of the server.            *)

(* The child is counted when it is created, before it can be signalled.    *)
LEMMA CreateThreadInv == ASSUME IInv, NEW t \in GuestThreads, NEW child \in GuestThreads, CreateThread(t,
      child) PROVE IInv'
<1> USE PauseAssumption DEF CreateThread, CreatedCount, Goto, threadVars, signalVars, gdbVars
<1>1. TypeOK'
  <2>1. IdleWaitRefCount' \in 0..(RefCountModulus - 1)
    BY CountType, SMT DEF IInv
  <2> QED BY <2>1 DEF IInv, TypeOK, ThreadInv, Places, Interruptible, Sleeping, Events, ServerPlaces,
      Waiting, CommandNames
<1>2. ThreadInv'
  BY DEF IInv, TypeOK, ThreadInv, Interruptible, Sleeping
<1>3. Calm => Calm'
  BY DEF IInv, TypeOK, ThreadInv, Calm, Quiescent, Sleeping, Interruptible
<1>4. ServerInv'
  BY <1>3 DEF IInv, TypeOK, ServerInv
<1>5. CountInv'
  <2> SUFFICES ASSUME (~Calm \/ commands <= 1) /\ gdb # "dead", (~Calm' \/ commands' <= 1) /\ gdb' # "dead"
               PROVE  FirstRound'
    BY <1>3 DEF IInv, TypeOK, ServerInv, CountInv
  <2>0. FirstRound
    BY DEF IInv, CountInv
  <2>1. IdleWaitRefCount' = Cardinality(Awake')
    <3>1. child \notin Awake /\ Awake' = Awake \union {child}
      BY SMT DEF Awake, Sleeping, IInv, TypeOK
    <3> QED BY <2>0, <3>1, OneMore DEF FirstRound
  <2> QED
    BY <2>0, <2>1 DEF FirstRound, Resting, Sleeping, Signalling, IInv, TypeOK, ThreadInv, ServerInv,
        Interruptible
<1> QED BY <1>1, <1>2, <1>4, <1>5 DEF IInv

(* The child starts to run: it was awake and counted already.              *)
LEMMA TrackThreadInv == ASSUME IInv, NEW t \in GuestThreads, TrackThread(t) PROVE IInv'
<1> USE PauseAssumption DEF TrackThread, threadVars, signalVars, gdbVars
<1>1. TypeOK'
  BY DEF IInv, TypeOK, ThreadInv, Places, Interruptible, Sleeping, Events, ServerPlaces, Waiting, CommandNames
<1>2. ThreadInv'
  BY DEF IInv, TypeOK, ThreadInv, Interruptible, Sleeping
<1>3. Calm => Calm'
  BY DEF IInv, TypeOK, ThreadInv, Calm, Quiescent, Sleeping, Interruptible
<1>4. ServerInv'
  BY <1>3 DEF IInv, TypeOK, ServerInv
<1>5. CountInv'
  <2> SUFFICES ASSUME (~Calm \/ commands <= 1) /\ gdb # "dead", (~Calm' \/ commands' <= 1) /\ gdb' # "dead"
               PROVE  FirstRound'
    BY <1>3 DEF IInv, TypeOK, ServerInv, CountInv
  <2>0. FirstRound
    BY DEF IInv, CountInv
  <2>1. IdleWaitRefCount' = Cardinality(Awake')
    BY <2>0 DEF FirstRound, Awake, Sleeping, IInv, TypeOK, ThreadInv
  <2> QED
    BY <2>0, <2>1 DEF FirstRound, Resting, Sleeping, Signalling, IInv, TypeOK, ThreadInv, ServerInv,
        Interruptible
<1> QED BY <1>1, <1>2, <1>4, <1>5 DEF IInv

(* A thread on its way out is counted until it is deleted.                 *)
LEMMA ExitInv == ASSUME IInv, NEW t \in GuestThreads, Exit(t) PROVE IInv'
<1> USE PauseAssumption DEF Exit, Goto, threadVars, signalVars, gdbVars
<1>1. TypeOK'
  BY DEF IInv, TypeOK, ThreadInv, Places, Interruptible, Sleeping, Events, ServerPlaces, Waiting, CommandNames
<1>2. ThreadInv'
  BY DEF IInv, TypeOK, ThreadInv, Interruptible, Sleeping
<1>3. Calm => Calm'
  BY DEF IInv, TypeOK, ThreadInv, Calm, Quiescent, Sleeping, Interruptible
<1>4. ServerInv'
  BY <1>3 DEF IInv, TypeOK, ServerInv
<1>5. CountInv'
  <2> SUFFICES ASSUME (~Calm \/ commands <= 1) /\ gdb # "dead", (~Calm' \/ commands' <= 1) /\ gdb' # "dead"
               PROVE  FirstRound'
    BY <1>3 DEF IInv, TypeOK, ServerInv, CountInv
  <2>0. FirstRound
    BY DEF IInv, CountInv
  <2>1. IdleWaitRefCount' = Cardinality(Awake')
    BY <2>0 DEF FirstRound, Awake, Sleeping, IInv, TypeOK, ThreadInv
  <2> QED
    BY <2>0, <2>1 DEF FirstRound, Resting, Sleeping, Signalling, IInv, TypeOK, ThreadInv, ServerInv,
        Interruptible
<1> QED BY <1>1, <1>2, <1>4, <1>5 DEF IInv

(* A thread that leaves the list of threads is still counted.              *)
LEMMA DestroyThreadInv == ASSUME IInv, NEW t \in GuestThreads, DestroyThread(t) PROVE IInv'
<1> USE PauseAssumption DEF DestroyThread, Goto, threadVars, signalVars, gdbVars
<1>1. TypeOK'
  BY DEF IInv, TypeOK, ThreadInv, Places, Interruptible, Sleeping, Events, ServerPlaces, Waiting, CommandNames
<1>2. ThreadInv'
  BY DEF IInv, TypeOK, ThreadInv, Interruptible, Sleeping
<1>3. Calm => Calm'
  BY DEF IInv, TypeOK, ThreadInv, Calm, Quiescent, Sleeping, Interruptible
<1>4. ServerInv'
  BY <1>3 DEF IInv, TypeOK, ServerInv
<1>5. CountInv'
  <2> SUFFICES ASSUME (~Calm \/ commands <= 1) /\ gdb # "dead", (~Calm' \/ commands' <= 1) /\ gdb' # "dead"
               PROVE  FirstRound'
    BY <1>3 DEF IInv, TypeOK, ServerInv, CountInv
  <2>0. FirstRound
    BY DEF IInv, CountInv
  <2>1. IdleWaitRefCount' = Cardinality(Awake')
    BY <2>0 DEF FirstRound, Awake, Sleeping, IInv, TypeOK, ThreadInv
  <2> QED
    BY <2>0, <2>1 DEF FirstRound, Resting, Sleeping, Signalling, IInv, TypeOK, ThreadInv, ServerInv,
        Interruptible
<1> QED BY <1>1, <1>2, <1>4, <1>5 DEF IInv

(* The deletion counts the thread out and then wakes the server.           *)
LEMMA HandleThreadDeletionInv == ASSUME IInv, NEW t \in GuestThreads, HandleThreadDeletion(t) PROVE IInv'
<1> USE PauseAssumption DEF HandleThreadDeletion, Goto, NotifyAll, threadVars, signalVars, gdbVars
<1>1. TypeOK'
  <2>1. IdleWaitRefCount' \in 0..(RefCountModulus - 1)
    <3>1. CASE pc[t] = "delete"
      BY <3>1, CountType, SMT DEF IInv
    <3>2. CASE pc[t] # "delete"
      BY <3>2 DEF IInv, TypeOK
    <3> QED BY <3>1, <3>2
  <2> QED BY <2>1 DEF IInv, TypeOK, ThreadInv, Places, Interruptible, Sleeping, Events, ServerPlaces,
      Waiting, CommandNames
<1>2. ThreadInv'
  BY SMT DEF IInv, TypeOK, ThreadInv, Interruptible, Sleeping
<1>3. Calm => Calm'
  BY DEF IInv, TypeOK, ThreadInv, Calm, Quiescent, Sleeping, Interruptible
<1>4. ServerInv'
  BY <1>3 DEF IInv, TypeOK, ServerInv
<1>5. CountInv'
  <2> SUFFICES ASSUME (~Calm \/ commands <= 1) /\ gdb # "dead", (~Calm' \/ commands' <= 1) /\ gdb' # "dead"
               PROVE  FirstRound'
    BY <1>3 DEF IInv, TypeOK, ServerInv, CountInv
  <2>0. FirstRound
    BY DEF IInv, CountInv
  <2>1. IdleWaitRefCount' = Cardinality(Awake')
    <3>1. CASE pc[t] = "delete"
      <4>1. t \in Awake /\ Awake' = Awake \ {t} /\ Count(-1)
        BY <3>1 DEF Awake, Sleeping, IInv, TypeOK
      <4> QED BY <2>0, <4>1, OneLess DEF FirstRound
    <3>2. CASE pc[t] # "delete"
      <4>1. Awake' = Awake /\ IdleWaitRefCount' = IdleWaitRefCount
        BY <3>2 DEF Awake, Sleeping, IInv, TypeOK
      <4> QED BY <2>0, <4>1 DEF FirstRound
    <3> QED BY <3>1, <3>2
  <2> QED
    BY <2>0, <2>1, SMT DEF FirstRound, Resting, Sleeping, Signalling, IInv, TypeOK, ThreadInv, ServerInv,
        Interruptible
<1> QED BY <1>1, <1>2, <1>4, <1>5 DEF IInv

(* Going to sleep counts the thread out, wakes the server and then marks the*)
(* thread as sleeping.                                                     *)
LEMMA SleepThreadInv == ASSUME IInv, NEW t \in GuestThreads, SleepThread(t) PROVE IInv'
<1> USE PauseAssumption DEF SleepThread, Goto, NotifyAll, threadVars, signalVars, gdbVars
<1>1. TypeOK'
  <2>1. IdleWaitRefCount' \in 0..(RefCountModulus - 1)
    <3>1. CASE pc[t] = "dec"
      BY <3>1, CountType, SMT DEF IInv
    <3>2. CASE pc[t] # "dec"
      BY <3>2 DEF IInv, TypeOK
    <3> QED BY <3>1, <3>2
  <2> QED BY <2>1 DEF IInv, TypeOK, ThreadInv, Places, Interruptible, Sleeping, Events, ServerPlaces,
      Waiting, CommandNames
<1>2. ThreadInv'
  <2>1. \A u \in GuestThreads : u # t => pc'[u] = pc[u] /\ ThreadSleeping'[u] = ThreadSleeping[u]
    BY DEF IInv, TypeOK
  <2>2. pc[t] \in {"dec", "notify", "mark"} /\ pc'[t] \in {"notify", "mark", "sleep"}
    BY DEF IInv, TypeOK
  <2>3. clone' = clone /\ stored' = stored
    OBVIOUS
  <2> HIDE DEF SleepThread
  <2>5. \A u \in GuestThreads : pc'[u] \in {"unborn", "started", "run", "cloning"} => pc'[u] = pc[u]
    BY <2>1, <2>2, <2>3
  <2>6. \A u \in GuestThreads : pc[u] = "started" => pc'[u] = "started"
    BY <2>1, <2>2, <2>3
  <2>7. ThreadInv
    BY DEF IInv
  <2> QED BY <2>1, <2>2, <2>3, <2>5, <2>6, <2>7, SMT DEF ThreadInv
<1>3. Calm => Calm'
  BY DEF IInv, TypeOK, ThreadInv, Calm, Quiescent, Sleeping, Interruptible
<1>4. ServerInv'
  BY <1>3 DEF IInv, TypeOK, ServerInv
<1>5. CountInv'
  <2> SUFFICES ASSUME (~Calm \/ commands <= 1) /\ gdb # "dead", (~Calm' \/ commands' <= 1) /\ gdb' # "dead"
               PROVE  FirstRound'
    BY <1>3 DEF IInv, TypeOK, ServerInv, CountInv
  <2>0. FirstRound
    BY DEF IInv, CountInv
  <2>1. IdleWaitRefCount' = Cardinality(Awake')
    <3>1. CASE pc[t] = "dec"
      <4>1. t \in Awake /\ Awake' = Awake \ {t} /\ Count(-1)
        BY <3>1 DEF Awake, Sleeping, IInv, TypeOK
      <4> QED BY <2>0, <4>1, OneLess DEF FirstRound
    <3>2. CASE pc[t] # "dec"
      <4>1. Awake' = Awake /\ IdleWaitRefCount' = IdleWaitRefCount
        BY <3>2, SMT DEF Awake, Sleeping, IInv, TypeOK
      <4> QED BY <2>0, <4>1 DEF FirstRound
    <3> QED BY <3>1, <3>2
  <2> QED
    BY <2>0, <2>1 DEF FirstRound, Resting, Sleeping, Signalling, IInv, TypeOK, ThreadInv, ServerInv,
        Interruptible
<1> QED BY <1>1, <1>2, <1>4, <1>5 DEF IInv

(* A signal in the first round finds the thread in guest code or in a clone.*)
LEMMA HandleSignalPauseInv == ASSUME IInv, NEW t \in GuestThreads, HandleSignalPause(t) PROVE IInv'
<1> USE PauseAssumption DEF HandleSignalPause, Goto, Recounted, threadVars, signalVars, gdbVars
<1>1. TypeOK'
  <2>1. IdleWaitRefCount' \in 0..(RefCountModulus - 1)
    <3>1. Recounted(t) \in Int
      BY SMT
    <3> QED BY <3>1, CountType DEF IInv, TypeOK
  <2>2. stored' \in [GuestThreads -> Seq(Interruptible)]
    <3>1. stored[t] \in Seq(Interruptible) /\ pc[t] \in Interruptible
      BY DEF IInv, TypeOK
    <3>2. Append(stored[t], pc[t]) \in Seq(Interruptible)
      BY <3>1, SMT
    <3> QED BY <3>2 DEF IInv, TypeOK
  <2>3. signals' \in [GuestThreads -> Nat]
    BY SMT DEF IInv, TypeOK
  <2>4. SignalReason' \in [GuestThreads -> Events] /\ pc' \in [GuestThreads -> Places]
    BY DEF IInv, TypeOK, Events, Places, Interruptible
  <2> QED BY <2>1, <2>2, <2>3, <2>4 DEF IInv, TypeOK
<1>2. ThreadInv'
  <2>1. \A u \in GuestThreads : u # t => pc'[u] = pc[u] /\ stored'[u] = stored[u]
    BY DEF IInv, TypeOK
  <2>2. pc'[t] \in {"dec", "stopped"} \/ (pc'[t] = pc[t] /\ stored'[t] = stored[t])
    BY DEF IInv, TypeOK
  <2>3. pc[t] # "started"
    <3>1. pc[t] \in Interruptible
      OBVIOUS
    <3> QED BY <3>1, OnlyRunning
  <2>4. clone' = clone /\ ThreadSleeping' = ThreadSleeping
    OBVIOUS
  <2> HIDE DEF HandleSignalPause
  <2>5. \A u \in GuestThreads : pc'[u] \in {"unborn", "started", "run", "cloning"} => pc'[u] = pc[u]
    BY <2>1, <2>2, <2>3, <2>4
  <2>6. \A u \in GuestThreads : pc[u] = "started" => pc'[u] = "started"
    BY <2>1, <2>2, <2>3, <2>4
  <2>7. ThreadInv
    BY DEF IInv
  <2> QED BY <2>1, <2>2, <2>3, <2>4, <2>5, <2>6, <2>7, SMT DEF ThreadInv
<1>3. Calm => Calm'
  <2> SUFFICES ASSUME Calm PROVE Quiescent(t)'
    BY DEF IInv, TypeOK, Calm, Quiescent
  <2>1. CASE SignalReason[t] = "Pause"
    <3> DEFINE s == stored[t]
    <3>1. s \in Seq(Interruptible) /\ pc[t] \in Interruptible /\ stored'[t] = Append(s, pc[t])
      BY <2>1 DEF IInv, TypeOK
    <3>2. /\ DOMAIN stored'[t] = DOMAIN s \union {Len(s) + 1}
          /\ stored'[t][Len(s) + 1] = pc[t] /\ \A i \in DOMAIN s : stored'[t][i] = s[i]
      BY <3>1, SMT
    <3>3. pc[t] \in Sleeping \/ \E i \in DOMAIN s : s[i] \in Sleeping
      BY DEF Calm, Quiescent, Interruptible, Sleeping
    <3> QED BY <3>2, <3>3 DEF Quiescent
  <2>2. CASE SignalReason[t] # "Pause"
    BY <2>2 DEF IInv, TypeOK, Calm, Quiescent
  <2> QED BY <2>1, <2>2
<1>4. ServerInv'
  BY <1>3 DEF IInv, TypeOK, ServerInv
<1>5. CountInv'
  <2> SUFFICES ASSUME (~Calm \/ commands <= 1) /\ gdb # "dead", (~Calm' \/ commands' <= 1) /\ gdb' # "dead"
               PROVE  FirstRound'
    BY <1>3 DEF IInv, TypeOK, ServerInv, CountInv
  <2>0. FirstRound
    BY DEF IInv, CountInv
  <2>1. IdleWaitRefCount' = Cardinality(Awake')
    <3>1. signals[t] = 1 /\ pc[t] \in {"run", "cloning"}
      BY <2>0, SMT DEF FirstRound, Resting, Interruptible, IInv, TypeOK
    <3>2. Recounted(t) = 0 /\ IdleWaitRefCount + 0 = IdleWaitRefCount
      BY <3>1, SMT DEF IInv, TypeOK, ThreadInv
    <3>3. IdleWaitRefCount' = IdleWaitRefCount
      BY <3>2, ModSmall DEF Count, IInv, TypeOK
    <3>4. Awake' = Awake
      BY <3>1 DEF Awake, Sleeping, IInv, TypeOK
    <3> QED BY <2>0, <3>3, <3>4 DEF FirstRound
  <2> QED
    BY <2>0, <2>1, SMT DEF FirstRound, Resting, Sleeping, Signalling, IInv, TypeOK, ThreadInv, ServerInv,
        Interruptible
<1> QED BY <1>1, <1>2, <1>4, <1>5 DEF IInv

(* A signal that finds a thread on its way out takes the handler away.     *)
LEMMA RestoreDefaultInv == ASSUME IInv, NEW t \in GuestThreads, RestoreDefault(t) PROVE IInv'
<1> USE PauseAssumption DEF RestoreDefault, threadVars, signalVars, gdbVars
<1>1. TypeOK'
  <2>1. signals' \in [GuestThreads -> Nat]
    BY SMT DEF IInv, TypeOK
  <2> QED BY <2>1 DEF IInv, TypeOK
<1>2. ThreadInv'
  BY DEF IInv, TypeOK, ThreadInv, Interruptible, Sleeping
<1>3. Calm => Calm'
  BY DEF IInv, TypeOK, ThreadInv, Calm, Quiescent, Sleeping, Interruptible
<1>4. ServerInv'
  BY <1>3 DEF IInv, TypeOK, ServerInv
<1>5. CountInv'
  <2> SUFFICES ASSUME (~Calm \/ commands <= 1) /\ gdb # "dead", (~Calm' \/ commands' <= 1) /\ gdb' # "dead"
               PROVE  FirstRound'
    BY <1>3 DEF IInv, TypeOK, ServerInv, CountInv
  <2>0. FirstRound
    BY DEF IInv, CountInv
  <2>1. IdleWaitRefCount' = Cardinality(Awake')
    BY <2>0 DEF FirstRound, Awake, Sleeping, IInv, TypeOK, ThreadInv
  <2> QED
    BY <2>0, <2>1, SMT DEF FirstRound, Resting, Sleeping, Signalling, IInv, TypeOK, ThreadInv, ServerInv,
        Interruptible
<1> QED BY <1>1, <1>2, <1>4, <1>5 DEF IInv

(* The end of the process leaves no thread in guest code.                  *)
LEMMA TerminateInv == ASSUME IInv, NEW t \in GuestThreads, Terminate(t) PROVE IInv'
<1> USE PauseAssumption DEF Terminate, threadVars, signalVars, gdbVars
<1>1. TypeOK'
  BY DEF IInv, TypeOK, Places, ServerPlaces
<1>2. \A u \in GuestThreads : pc'[u] = "gone"
  OBVIOUS
<1>3. Calm'
  BY <1>2 DEF Calm, Quiescent
<1>4. ThreadInv'
  BY <1>2 DEF ThreadInv
<1>5. ServerInv'
  BY <1>3 DEF IInv, ServerInv
<1>6. CountInv'
  BY DEF CountInv
<1> QED BY <1>1, <1>4, <1>5, <1>6 DEF IInv

(* The first round starts while nobody sleeps.                             *)
LEMMA PauseInv == ASSUME IInv, Pause PROVE IInv'
<1> USE PauseAssumption DEF Pause, Command, Server, threadVars, signalVars, gdbVars
<1>1. TypeOK'
  BY SMT DEF IInv, TypeOK, ThreadInv, Places, Interruptible, Sleeping, Events, ServerPlaces, Waiting,
      CommandNames
<1>2. ThreadInv'
  BY DEF IInv, TypeOK, ThreadInv, Interruptible, Sleeping
<1>3. Calm => Calm'
  BY DEF IInv, TypeOK, ThreadInv, Calm, Quiescent, Sleeping, Interruptible
<1>4. ServerInv'
  BY <1>3, SMT DEF IInv, TypeOK, ServerInv
<1>5. CountInv'
  <2> SUFFICES ASSUME (~Calm \/ commands <= 1) /\ gdb # "dead", (~Calm' \/ commands' <= 1) /\ gdb' # "dead"
               PROVE  FirstRound'
    BY <1>3, SMT DEF IInv, TypeOK, ServerInv, CountInv
  <2>0. FirstRound
    BY DEF IInv, CountInv
  <2>1. IdleWaitRefCount' = Cardinality(Awake')
    BY <2>0 DEF FirstRound, Awake, Sleeping, IInv, TypeOK, ThreadInv
  <2>2. command \in {"none", "detach"}
    BY SMT DEF IInv, TypeOK, ServerInv, CommandNames, Calm, Quiescent
  <2> QED
    BY <2>0, <2>1, <2>2 DEF FirstRound, Resting, Sleeping, Signalling, IInv, TypeOK
<1> QED BY <1>1, <1>2, <1>4, <1>5 DEF IInv

(* The same for a kill.                                                    *)
LEMMA StopInv == ASSUME IInv, Stop PROVE IInv'
<1> USE PauseAssumption DEF Stop, Command, Server, threadVars, signalVars, gdbVars
<1>1. TypeOK'
  BY SMT DEF IInv, TypeOK, ThreadInv, Places, Interruptible, Sleeping, Events, ServerPlaces, Waiting,
      CommandNames
<1>2. ThreadInv'
  BY DEF IInv, TypeOK, ThreadInv, Interruptible, Sleeping
<1>3. Calm => Calm'
  BY DEF IInv, TypeOK, ThreadInv, Calm, Quiescent, Sleeping, Interruptible
<1>4. ServerInv'
  BY <1>3, SMT DEF IInv, TypeOK, ServerInv
<1>5. CountInv'
  <2> SUFFICES ASSUME (~Calm \/ commands <= 1) /\ gdb # "dead", (~Calm' \/ commands' <= 1) /\ gdb' # "dead"
               PROVE  FirstRound'
    BY <1>3, SMT DEF IInv, TypeOK, ServerInv, CountInv
  <2>0. FirstRound
    BY DEF IInv, CountInv
  <2>1. IdleWaitRefCount' = Cardinality(Awake')
    BY <2>0 DEF FirstRound, Awake, Sleeping, IInv, TypeOK, ThreadInv
  <2>2. command \in {"none", "detach"}
    BY SMT DEF IInv, TypeOK, ServerInv, CommandNames, Calm, Quiescent
  <2> QED
    BY <2>0, <2>1, <2>2 DEF FirstRound, Resting, Sleeping, Signalling, IInv, TypeOK
<1> QED BY <1>1, <1>2, <1>4, <1>5 DEF IInv

(* A detach sends no signal.                                               *)
LEMMA RunInv == ASSUME IInv, Run PROVE IInv'
<1> USE PauseAssumption DEF Run, Command, Server, threadVars, signalVars, gdbVars
<1>1. TypeOK'
  <2>1. SignalReason' \in [GuestThreads -> Events]
    BY DEF IInv, TypeOK, Events
  <2> QED BY <2>1, SMT DEF IInv, TypeOK, ServerPlaces
<1>2. ThreadInv'
  BY DEF IInv, TypeOK, ThreadInv, Interruptible, Sleeping
<1>3. Calm => Calm'
  BY DEF IInv, TypeOK, ThreadInv, Calm, Quiescent, Sleeping, Interruptible
<1>4. ServerInv'
  BY <1>3, SMT DEF IInv, TypeOK, ServerInv
<1>5. CountInv'
  <2> SUFFICES ASSUME (~Calm \/ commands <= 1) /\ gdb # "dead", (~Calm' \/ commands' <= 1) /\ gdb' # "dead"
               PROVE  FirstRound'
    BY <1>3, SMT DEF IInv, TypeOK, ServerInv, CountInv
  <2>0. FirstRound
    BY DEF IInv, CountInv
  <2>1. IdleWaitRefCount' = Cardinality(Awake')
    BY <2>0 DEF FirstRound, Awake, Sleeping, IInv, TypeOK, ThreadInv
  <2>2. command \in {"none", "detach"}
    BY SMT DEF IInv, TypeOK, ServerInv, CommandNames, Calm, Quiescent
  <2> QED
    BY <2>0, <2>1, <2>2 DEF FirstRound, Resting, Sleeping, Signalling, IInv, TypeOK
<1> QED BY <1>1, <1>2, <1>4, <1>5 DEF IInv

(* Each thread of the list is signalled once.                              *)
LEMMA NotifyPauseInv == ASSUME IInv, NotifyPause PROVE IInv'
<1> USE PauseAssumption DEF NotifyPause, Notify, Server, SignalThread, threadVars, signalVars, gdbVars
<1>1. TypeOK'
  <2>1. signals' \in [GuestThreads -> Nat]
    <3>1. \/ signals' = signals
          \/ \E t \in GuestThreads : signals' = [signals EXCEPT ![t] = IF pc[t] = "gone" THEN @ ELSE @ + 1]
      BY DEF IInv, TypeOK
    <3>2. signals \in [GuestThreads -> Nat] /\ \A t \in GuestThreads : signals[t] + 1 \in Nat
      BY SignalsNat DEF IInv, TypeOK
    <3> HIDE DEF NotifyPause
    <3> QED BY <3>1, <3>2
  <2>2. SignalReason' \in [GuestThreads -> Events]
    BY DEF IInv, TypeOK, Events
  <2> QED BY <2>1, <2>2 DEF IInv, TypeOK, ServerPlaces, Waiting
<1>2. ThreadInv'
  BY DEF IInv, TypeOK, ThreadInv, Interruptible, Sleeping
<1>3. Calm => Calm'
  BY DEF IInv, TypeOK, ThreadInv, Calm, Quiescent, Sleeping, Interruptible
<1>4. ServerInv'
  BY <1>3 DEF IInv, TypeOK, ServerInv
<1>5. CountInv'
  <2> SUFFICES ASSUME (~Calm \/ commands <= 1) /\ gdb # "dead", (~Calm' \/ commands' <= 1) /\ gdb' # "dead"
               PROVE  FirstRound'
    BY <1>3 DEF IInv, TypeOK, ServerInv, CountInv
  <2>0. FirstRound
    BY DEF IInv, CountInv
  <2>1. IdleWaitRefCount' = Cardinality(Awake')
    BY <2>0 DEF FirstRound, Awake, Sleeping, IInv, TypeOK, ThreadInv
  <2> QED
    BY <2>0, <2>1, SMT DEF FirstRound, Resting, Sleeping, Signalling, IInv, TypeOK, ThreadInv, ServerInv,
        Interruptible
<1> QED BY <1>1, <1>2, <1>4, <1>5 DEF IInv

(* The same for a kill.                                                    *)
LEMMA NotifyStopInv == ASSUME IInv, NotifyStop PROVE IInv'
<1> USE PauseAssumption DEF NotifyStop, Notify, Server, SignalThread, threadVars, signalVars, gdbVars
<1>1. TypeOK'
  <2>1. signals' \in [GuestThreads -> Nat]
    <3>1. \/ signals' = signals
          \/ \E t \in GuestThreads : signals' = [signals EXCEPT ![t] = IF pc[t] = "gone" THEN @ ELSE @ + 1]
      BY DEF IInv, TypeOK
    <3>2. signals \in [GuestThreads -> Nat] /\ \A t \in GuestThreads : signals[t] + 1 \in Nat
      BY SignalsNat DEF IInv, TypeOK
    <3> HIDE DEF NotifyStop
    <3> QED BY <3>1, <3>2
  <2>2. SignalReason' \in [GuestThreads -> Events]
    BY DEF IInv, TypeOK, Events
  <2> QED BY <2>1, <2>2 DEF IInv, TypeOK, ServerPlaces, Waiting
<1>2. ThreadInv'
  BY DEF IInv, TypeOK, ThreadInv, Interruptible, Sleeping
<1>3. Calm => Calm'
  BY DEF IInv, TypeOK, ThreadInv, Calm, Quiescent, Sleeping, Interruptible
<1>4. ServerInv'
  BY <1>3 DEF IInv, TypeOK, ServerInv
<1>5. CountInv'
  <2> SUFFICES ASSUME (~Calm \/ commands <= 1) /\ gdb # "dead", (~Calm' \/ commands' <= 1) /\ gdb' # "dead"
               PROVE  FirstRound'
    BY <1>3 DEF IInv, TypeOK, ServerInv, CountInv
  <2>0. FirstRound
    BY DEF IInv, CountInv
  <2>1. IdleWaitRefCount' = Cardinality(Awake')
    BY <2>0 DEF FirstRound, Awake, Sleeping, IInv, TypeOK, ThreadInv
  <2> QED
    BY <2>0, <2>1, SMT DEF FirstRound, Resting, Sleeping, Signalling, IInv, TypeOK, ThreadInv, ServerInv,
        Interruptible
<1> QED BY <1>1, <1>2, <1>4, <1>5 DEF IInv

(* The server goes on when nobody is awake, and then everybody is quiescent.*)
LEMMA WaitForIdleInv == ASSUME IInv, WaitForIdle PROVE IInv'
<1> USE PauseAssumption DEF WaitForIdle, Await, Server, threadVars, signalVars, gdbVars
<1>1. TypeOK'
  BY DEF IInv, TypeOK, ThreadInv, Places, Interruptible, Sleeping, Events, ServerPlaces, Waiting, CommandNames
<1>2. ThreadInv'
  BY DEF IInv, TypeOK, ThreadInv, Interruptible, Sleeping
<1>3. Calm => Calm'
  BY DEF IInv, TypeOK, ThreadInv, Calm, Quiescent, Sleeping, Interruptible
<1>4. ServerInv'
  <2>1. CASE gdb' = "idle"
    <3>1. IdleWaitRefCount = 0
      BY <2>1 DEF Idle
    <3>2. gdb # "dead"
      BY <2>1
    <3>3. ASSUME ~Calm PROVE Awake = {}
      BY <3>1, <3>2, <3>3, AwakeFinite, FS_EmptySet DEF IInv, CountInv, FirstRound
    <3>4. Awake = {} => Calm
      BY DEF Awake, Calm, Quiescent
    <3> QED BY <1>3, <2>1, <3>3, <3>4 DEF IInv, ServerInv
  <2>2. CASE gdb' # "idle"
    BY <1>3, <2>2 DEF IInv, ServerInv
  <2> QED BY <2>1, <2>2
<1>5. CountInv'
  <2> SUFFICES ASSUME (~Calm \/ commands <= 1) /\ gdb # "dead", (~Calm' \/ commands' <= 1) /\ gdb' # "dead"
               PROVE  FirstRound'
    BY <1>3 DEF IInv, TypeOK, ServerInv, CountInv
  <2>0. FirstRound
    BY DEF IInv, CountInv
  <2>1. IdleWaitRefCount' = Cardinality(Awake')
    BY <2>0 DEF FirstRound, Awake, Sleeping, IInv, TypeOK, ThreadInv
  <2> QED
    BY <2>0, <2>1 DEF FirstRound, Resting, Sleeping, Signalling, IInv, TypeOK, ThreadInv, ServerInv,
        Interruptible
<1> QED BY <1>1, <1>2, <1>4, <1>5 DEF IInv

(* The wait of a detach changes no thread.                                 *)
LEMMA WaitForThreadsToRunInv == ASSUME IInv, WaitForThreadsToRun PROVE IInv'
<1> USE PauseAssumption DEF WaitForThreadsToRun, Await, Server, threadVars, signalVars, gdbVars
<1>1. TypeOK'
  BY DEF IInv, TypeOK, ThreadInv, Places, Interruptible, Sleeping, Events, ServerPlaces, Waiting, CommandNames
<1>2. ThreadInv'
  BY DEF IInv, TypeOK, ThreadInv, Interruptible, Sleeping
<1>3. Calm => Calm'
  BY DEF IInv, TypeOK, ThreadInv, Calm, Quiescent, Sleeping, Interruptible
<1>4. ServerInv'
  BY <1>3 DEF IInv, TypeOK, ServerInv
<1>5. CountInv'
  <2> SUFFICES ASSUME (~Calm \/ commands <= 1) /\ gdb # "dead", (~Calm' \/ commands' <= 1) /\ gdb' # "dead"
               PROVE  FirstRound'
    BY <1>3 DEF IInv, TypeOK, ServerInv, CountInv
  <2>0. FirstRound
    BY DEF IInv, CountInv
  <2>1. IdleWaitRefCount' = Cardinality(Awake')
    BY <2>0 DEF FirstRound, Awake, Sleeping, IInv, TypeOK, ThreadInv
  <2> QED
    BY <2>0, <2>1 DEF FirstRound, Resting, Sleeping, Signalling, IInv, TypeOK, ThreadInv, ServerInv,
        Interruptible
<1> QED BY <1>1, <1>2, <1>4, <1>5 DEF IInv

(* At the start one thread runs, and it is counted.                        *)
LEMMA InitInv == Init => IInv
<1> SUFFICES ASSUME Init PROVE IInv
  OBVIOUS
<1> USE PauseAssumption DEF Init
<1>1. TypeOK
  <2>1. 1 \in 0..(RefCountModulus - 1)
    <3>1. Cardinality(GuestThreads) # 0 /\ Cardinality(GuestThreads) \in Nat
      BY FS_EmptySet, FS_CardinalityType
    <3> QED BY <3>1, SMT
  <2>2. <<>> \in Seq(Interruptible)
    BY SMT
  <2> QED BY <2>1, <2>2 DEF TypeOK, Places, Interruptible, Events, ServerPlaces
<1>2. ThreadInv
  BY DEF ThreadInv
<1>3. ServerInv
  BY DEF ServerInv
<1>4. Awake = {Main} /\ Cardinality({Main}) = 1
  BY FS_Singleton DEF Awake, Sleeping
<1>5. CountInv
  BY <1>4 DEF CountInv, FirstRound, Resting, Sleeping, Signalling
<1> QED BY <1>1, <1>2, <1>3, <1>5 DEF IInv

(* Every step preserves the invariant.                                     *)
LEMMA NextInv == IInv /\ [Next]_vars => IInv'
<1> SUFFICES ASSUME IInv, [Next]_vars PROVE IInv'
  OBVIOUS
<1>1. CASE UNCHANGED vars
  <2>1. Calm' = Calm /\ Awake' = Awake
    BY <1>1 DEF vars, threadVars, Calm, Quiescent, Awake
  <2> QED BY <1>1, <2>1 DEF vars, threadVars, signalVars, gdbVars, IInv, TypeOK, ThreadInv, ServerInv,
      CountInv,
                            FirstRound, Signalling
<1>2. CASE Pause \/ Stop \/ Run \/ ServerStep
  BY <1>2, PauseInv, StopInv, RunInv, NotifyPauseInv, NotifyStopInv, WaitForIdleInv, WaitForThreadsToRunInv
     DEF ServerStep
<1>3. CASE \E t \in GuestThreads : HostStep(t) \/ Exit(t) \/ (\E child \in GuestThreads : CreateThread(t,
      child))
  BY <1>3, TrackThreadInv, DestroyThreadInv, HandleThreadDeletionInv, SleepThreadInv, HandleSignalPauseInv,
     RestoreDefaultInv, TerminateInv, ExitInv, CreateThreadInv DEF HostStep
<1> QED BY <1>1, <1>2, <1>3 DEF Next

(* The counter is exact until everybody is quiescent.                      *)
THEOREM Invariant == Spec => []IInv
  BY InitInv, NextInv, PTL DEF Spec

(* WaitForIdle returns from a pause or a kill only when no thread is in    *)
(* guest code, whatever was being created, paused twice or wrapped.        *)
THEOREM PauseQuiesces == Spec => []PausedIsQuiescent
<1>1. IInv => PausedIsQuiescent
  BY DEF IInv, ServerInv, Calm, PausedIsQuiescent
<1> QED BY <1>1, Invariant, PTL

(* IdleWaitRefCount counts the threads that are awake.                     *)
THEOREM CountExact == Spec => []CountsAwake
<1>1. IInv => CountsAwake
  BY DEF IInv, CountInv, FirstRound, CountsAwake
<1> QED BY <1>1, Invariant, PTL
=============================================================================
