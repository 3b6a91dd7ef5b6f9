------------------------ MODULE PooledAllocatorState ------------------------
(***************************************************************************)
(* The state of IntrusivePooledAllocator and its clients, and what must    *)
(* hold of it.  The steps are in PooledAllocator.                          *)
(***************************************************************************)
EXTENDS Integers

CONSTANTS
  Clients,
  Buffers      \* the MemoryBuffers there can be; bounds what is allocated

VARIABLES
  at,          \* where each client is
  then,        \* where it goes on after UnclaimBuffer
  flag,        \* ClientOwnedFlag
  Info,        \* the buffer each client was given last
  Size,        \* the size it asked for last
  ClaimedBuffers, UnclaimedBuffers,
  CurrentClientOwnedFlag,  \* the client whose flag the buffer points to
  size,        \* size of each buffer
  Expired,     \* the buffers whose LastUsed is DURATION or more ago
  mutex,       \* the holder of AllocationMutex
  ahead, it    \* the reclaiming loop: buffers ahead, and the one loaded

(* Where a client uses a buffer; PooledAllocator names the places.         *)
Using == {"stamp", "fit", "use", "disown"}

(* A buffer in use is claimed, by its user alone: nobody else uses it, the *)
(* pool does not hand it out or free it, and its pointer leads back to the *)
(* user's flag.                                                            *)
ExclusiveUse ==
  \A c \in Clients : at[c] \in Using =>
    /\ Info[c] \in ClaimedBuffers \ UnclaimedBuffers
    /\ CurrentClientOwnedFlag[Info[c]] = c
    /\ flag[c] = "OWNED"
    /\ \A d \in Clients \ {c} : at[d] \in Using => Info[d] # Info[c]

(* No claimed buffer is lost: its client owns it, may take it back, is     *)
(* about to return it, or has just had it taken away.                      *)
ClaimedHasClient ==
  \A b \in ClaimedBuffers : \E c \in Clients :
    /\ CurrentClientOwnedFlag[b] = c /\ Info[c] = b
    /\ \/ flag[c] # "FREE" \/ at[c] = "unclaim"
       \/ it = b /\ \E d \in Clients : at[d] = "take"

(* The reclaiming loop never reads the flag of a client that is gone: the  *)
(* destructor waits for the lock, or finds its buffer taken away already.  *)
FlagsAlive ==
  /\ \A c \in Clients : at[c] = "walk" => \A b \in ahead : at[CurrentClientOwnedFlag[b]] # "dead"
  /\ \A c \in Clients : at[c] = "cas" => at[CurrentClientOwnedFlag[it]] # "dead"

(* "The buffer is guaranteed to have at least Size bytes of data."         *)
EnoughSpace == \A c \in Clients : at[c] = "use" => size[Info[c]] >= Size[c]

(* The three together: a buffer in use is its user's alone and as large as *)
(* was asked for, and no claimed buffer is lost, whoever reclaims, frees   *)
(* or allocates meanwhile.                                                 *)
ClaimsHold == ExclusiveUse /\ ClaimedHasClient /\ EnoughSpace
=============================================================================
