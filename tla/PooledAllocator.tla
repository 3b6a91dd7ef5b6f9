-------------------------- MODULE PooledAllocator --------------------------
(***************************************************************************)
(* IntrusivePooledAllocator and its clients, ThreadPoolAllocator.h.        *)
(*                                                                         *)
(* A client (a PoolBufferWithTimedRetirement, used by one thread) claims a *)
(* buffer, disowns it after each use and takes it back with one            *)
(* compare-exchange on its own flag.  Meanwhile another client that claims *)
(* a buffer may take disowned ones away, through the pointer to the        *)
(* client's flag that the buffer carries.  AllocationMutex covers the two  *)
(* lists; the flags change without it.                                     *)
(*                                                                         *)
(* Time is abstracted to the set of buffers whose last use is DURATION or  *)
(* more ago, and the order of the lists is left open.  The variables and   *)
(* the invariants are in PooledAllocatorState.                             *)
(***************************************************************************)
EXTENDS FiniteSets, PooledAllocatorState

CONSTANTS
  Sizes,       \* the sizes asked for
  None         \* the null pointer

PoolAssumption ==
  None \notin Clients /\ None \notin Buffers /\ Sizes \subseteq Nat /\ Sizes # {}

clientVars == <<then, Info, Size>>
poolVars == <<ClaimedBuffers, UnclaimedBuffers, CurrentClientOwnedFlag, size>>
loopVars == <<ahead, it>>
vars == <<at, clientVars, flag, poolVars, Expired, mutex, loopVars>>

(* "stamp": reowned, LastUsed not stored yet; "unclaim" and "claim": about *)
(* to lock; "walk", "cas", "take": the loop over ClaimedBuffers; "pick":   *)
(* the rest of ClaimBufferImpl; "disown": LastUsed stored, flag not yet.   *)
(* "fit": its size is compared with the one asked for.                     *)
Locked == {"walk", "cas", "take", "pick"}
Places == Using \union Locked \union {"idle", "disowned", "unclaim", "claim", "dead"}

(* The type of every variable.                                             *)
TypeOK ==
  /\ at \in [Clients -> Places]
  /\ then \in [Clients -> {"idle", "claim", "dead"}]
  /\ flag \in [Clients -> {"FREE", "OWNED", "DISOWNED"}]
  /\ Info \in [Clients -> Buffers \union {None}]
  /\ Size \in [Clients -> Sizes]
  /\ ClaimedBuffers \subseteq Buffers /\ UnclaimedBuffers \subseteq Buffers
  /\ CurrentClientOwnedFlag \in [Buffers -> Clients \union {None}]
  /\ size \in [Buffers -> Sizes]
  /\ Expired \subseteq Buffers
  /\ mutex \in Clients \union {None}
  /\ ahead \subseteq Buffers /\ it \in Buffers \union {None}

Init ==
  /\ at = [c \in Clients |-> "idle"]
  /\ then = [c \in Clients |-> "idle"]
  /\ flag = [c \in Clients |-> "FREE"]
  /\ Info = [c \in Clients |-> None]
  /\ Size \in [Clients -> Sizes]
  /\ ClaimedBuffers = {} /\ UnclaimedBuffers = {}
  /\ CurrentClientOwnedFlag = [b \in Buffers |-> None]
  /\ size \in [Buffers -> Sizes]
  /\ Expired = {}
  /\ mutex = None
  /\ ahead = {} /\ it = None

Goto(c, place) == at' = [at EXCEPT ![c] = place]
SetFlag(c, value) == flag' = [flag EXCEPT ![c] = value]
Allocated == ClaimedBuffers \union UnclaimedBuffers

----------------------------------------------------------------------------
(* The client *)

(* TryToReownBuffer: the compare-exchange.                                 *)
TryToReownBuffer(c) ==
  /\ at[c] = "idle"
  /\ IF flag[c] = "DISOWNED"
     THEN SetFlag(c, "OWNED") /\ Goto(c, "stamp")
     ELSE UNCHANGED flag /\ Goto(c, "claim")
  /\ \E s \in Sizes : Size' = [Size EXCEPT ![c] = s]
  /\ UNCHANGED <<then, Info, poolVars, Expired, mutex, loopVars>>

Stamp(c) ==
  /\ at[c] = "stamp" /\ Goto(c, "fit")
  /\ Expired' = Expired \ {Info[c]}
  /\ UNCHANGED <<clientVars, flag, poolVars, mutex, loopVars>>

(* UnclaimBuffer: exchange the flag for FREE, and go to the lock unless it *)
(* was FREE.                                                               *)
UnclaimBuffer(c, next) ==
  /\ SetFlag(c, "FREE")
  /\ IF flag[c] = "FREE"
     THEN Goto(c, next) /\ UNCHANGED then
     ELSE Goto(c, "unclaim") /\ then' = [then EXCEPT ![c] = next]
  /\ UNCHANGED <<Info, Size, poolVars, Expired, mutex, loopVars>>

(* ReownOrClaimBufferWithSize on a buffer it owns: use it if it is large   *)
(* enough.                                                                 *)
Fit(c) ==
  \/ /\ at[c] = "fit" /\ size[Info[c]] >= Size[c]
     /\ Goto(c, "use")
     /\ UNCHANGED <<clientVars, flag, poolVars, Expired, mutex, loopVars>>
  \/ /\ at[c] = "fit" /\ size[Info[c]] < Size[c]
     /\ UnclaimBuffer(c, "claim")

(* ReownOrClaimBufferWithSize again while the buffer is in use.            *)
Resize(c) ==
  /\ at[c] = "use" /\ Goto(c, "fit")
  /\ \E s \in Sizes : Size' = [Size EXCEPT ![c] = s]
  /\ UNCHANGED <<then, Info, flag, poolVars, Expired, mutex, loopVars>>

(* DisownBuffer: LastUsed, then the flag, through the buffer.              *)
DisownBuffer(c) ==
  \/ /\ at[c] = "use" /\ Goto(c, "disown")
     /\ Expired' = Expired \ {Info[c]}
     /\ UNCHANGED <<clientVars, flag, poolVars, mutex, loopVars>>
  \/ /\ at[c] = "disown" /\ Goto(c, "disowned")
     /\ SetFlag(CurrentClientOwnedFlag[Info[c]], "DISOWNED")
     /\ UNCHANGED <<clientVars, poolVars, Expired, mutex, loopVars>>

(* DelayedDisownBuffer keeps a buffer that is used often and unclaims one  *)
(* that is not.                                                            *)
DelayedDisownBuffer(c) ==
  \/ /\ at[c] = "disowned" /\ Goto(c, "idle")
     /\ UNCHANGED <<clientVars, flag, poolVars, Expired, mutex, loopVars>>
  \/ at[c] = "disowned" /\ UnclaimBuffer(c, "idle")

(* Mutant: the client goes without unclaiming its buffer.                  *)
DestroyQuietly(c) ==
  /\ at[c] = "idle" /\ Goto(c, "dead")
  /\ UNCHANGED <<clientVars, flag, poolVars, Expired, mutex, loopVars>>

(* The client's destructor, after which its flag is gone.                  *)
Destroy(c) == at[c] = "idle" /\ UnclaimBuffer(c, "dead")

----------------------------------------------------------------------------
(* The allocator *)

(* The rest of UnclaimBuffer: UnclaimBufferImpl under the lock.            *)
UnclaimBufferImpl(c) ==
  /\ at[c] = "unclaim" /\ mutex = None
  /\ CurrentClientOwnedFlag' = [CurrentClientOwnedFlag EXCEPT ![Info[c]] = None]
  /\ UnclaimedBuffers' = UnclaimedBuffers \union {Info[c]}
  /\ ClaimedBuffers' = ClaimedBuffers \ {Info[c]}
  /\ Goto(c, then[c])
  /\ UNCHANGED <<clientVars, flag, size, Expired, mutex, loopVars>>

ClaimBuffer(c) ==
  /\ at[c] = "claim" /\ mutex = None
  /\ mutex' = c /\ ahead' = ClaimedBuffers
  /\ Goto(c, "walk")
  /\ UNCHANGED <<clientVars, flag, poolVars, Expired, it>>

(* A buffer's flag and LastUsed are loaded.  One step stands for both: the *)
(* compare-exchange looks at the flag again.                               *)
Load(c) ==
  /\ at[c] = "walk"
  /\ \/ \E b \in ahead :
          /\ ahead' = ahead \ {b}
          /\ IF flag[CurrentClientOwnedFlag[b]] = "DISOWNED" /\ b \in Expired
             THEN it' = b /\ Goto(c, "cas")
             ELSE UNCHANGED <<it, at>>
     \/ ahead = {} /\ Goto(c, "pick") /\ UNCHANGED loopVars
  /\ UNCHANGED <<clientVars, flag, poolVars, Expired, mutex>>

(* Mutant: the flag is stored without a compare-exchange.                  *)
TakeAwayBlindly(c) ==
  /\ at[c] = "cas"
  /\ SetFlag(CurrentClientOwnedFlag[it], "FREE") /\ Goto(c, "take")
  /\ UNCHANGED <<clientVars, poolVars, Expired, mutex, loopVars>>

(* The compare-exchange from DISOWNED to FREE.                             *)
TakeAway(c) ==
  /\ at[c] = "cas"
  /\ IF flag[CurrentClientOwnedFlag[it]] = "DISOWNED"
     THEN SetFlag(CurrentClientOwnedFlag[it], "FREE") /\ Goto(c, "take")
     ELSE UNCHANGED flag /\ Goto(c, "walk")
  /\ UNCHANGED <<clientVars, poolVars, Expired, mutex, loopVars>>

Take(c) ==
  /\ at[c] = "take" /\ Goto(c, "walk")
  /\ CurrentClientOwnedFlag' = [CurrentClientOwnedFlag EXCEPT ![it] = None]
  /\ UnclaimedBuffers' = UnclaimedBuffers \union {it}
  /\ ClaimedBuffers' = ClaimedBuffers \ {it}
  /\ UNCHANGED <<clientVars, flag, size, Expired, mutex, loopVars>>

(* The buffers of the size asked for, or else the larger ones.             *)
BestFit(s) ==
  LET exact == {b \in UnclaimedBuffers : size[b] = s}
  IN  IF exact # {} THEN exact ELSE {b \in UnclaimedBuffers : size[b] > s}

(* At most one expired buffer is freed, and not the one to be claimed.     *)
Freeable(b) == LET old == (UnclaimedBuffers \intersect Expired) \ {b}
               IN  IF old = {} THEN {{}} ELSE {{f} : f \in old}

(* The size recorded for a new buffer.                                     *)
AllocatedSize(c) == Size[c]

(* The end of ClaimBuffer.                                                 *)
Claimed(c, b) ==
  /\ ClaimedBuffers' = ClaimedBuffers \union {b}
  /\ CurrentClientOwnedFlag' = [CurrentClientOwnedFlag EXCEPT ![b] = c]
  /\ SetFlag(c, "OWNED")
  /\ Info' = [Info EXCEPT ![c] = b]
  /\ mutex' = None
  /\ Goto(c, "use")
  /\ UNCHANGED <<then, Size, loopVars>>

(* ClaimBufferImpl takes an unclaimed buffer that fits or allocates one.   *)
Pick(c) ==
  /\ at[c] = "pick"
  /\ \/ /\ BestFit(Size[c]) # {}
        /\ \E b \in BestFit(Size[c]) : \E f \in Freeable(b) :
             /\ UnclaimedBuffers' = UnclaimedBuffers \ ({b} \union f)
             /\ Claimed(c, b)
        /\ UNCHANGED <<size, Expired>>
     \/ /\ BestFit(Size[c]) = {}
        /\ \E b \in Buffers \ Allocated : \E f \in Freeable(None) :
             /\ UnclaimedBuffers' = UnclaimedBuffers \ f
             /\ Expired' = Expired \ {b}
             /\ size' = [size EXCEPT ![b] = AllocatedSize(c)]
             /\ Claimed(c, b)

(* DURATION passes without a use of the buffer.                            *)
Expire(b) ==
  /\ b \in Allocated \ Expired
  /\ Expired' = Expired \union {b}
  /\ UNCHANGED <<at, clientVars, flag, poolVars, mutex, loopVars>>

Next ==
  \/ \E c \in Clients :
       \/ TryToReownBuffer(c) \/ Stamp(c) \/ Fit(c) \/ Resize(c)
       \/ DisownBuffer(c) \/ DelayedDisownBuffer(c) \/ Destroy(c)
       \/ UnclaimBufferImpl(c) \/ ClaimBuffer(c) \/ Load(c) \/ TakeAway(c) \/ Take(c) \/ Pick(c)
  \/ \E b \in Buffers : Expire(b)

Spec == Init /\ [][Next]_vars

----------------------------------------------------------------------------
(* A promise of a comment of the code that this model refutes; the README  *)
(* gives the instance and the trace.                                       *)

(* "The buffer getting claimed from a disowned client must have had its    *)
(* last use greater than the defined DURATION".                            *)
ReclaimsOnlyExpired == [][\A c \in Clients : at[c] = "cas" /\ at'[c] = "take" => it \in Expired]_vars
=============================================================================
