----------------------------- MODULE MCThreads -----------------------------
(***************************************************************************)
(* Two structures that threads share, side by side; the initial state      *)
(* chooses one, and the variables of the other rest.                       *)
(*   pause: ThreadPause, as the cfg has it;                                *)
(*   pool:  PooledAllocator, two clients and three buffers of two sizes.   *)
(***************************************************************************)
EXTENDS ThreadPause, PooledAllocatorState, TLC

CONSTANTS t1, t2, t3, c1, c2, b1, b2, b3

VARIABLE machine

Pool == INSTANCE PooledAllocator WITH Sizes <- {1, 2}

ASSUME Pool!PoolAssumption

poolVars ==
  <<at, then, flag, Info, Size, ClaimedBuffers, UnclaimedBuffers,
    CurrentClientOwnedFlag, size, Expired, mutex, ahead, it>>

(* A client asks for a size before the first use of Size, and allocates a  *)
(* buffer before the first use of its size: one initial value does.        *)
MCInit ==
  /\ machine \in {"pause", "pool"}
  /\ Init
  /\ Pool!Init /\ Size = [c \in Clients |-> 1] /\ size = [b \in Buffers |-> 1]

MCNext ==
  /\ \/ machine = "pause" /\ Next /\ UNCHANGED poolVars
     \/ machine = "pool" /\ Pool!Next /\ UNCHANGED vars
  /\ UNCHANGED machine

MCSpec == MCInit /\ [][MCNext]_<<vars, poolVars, machine>>

(* The threads that are not Main, and the buffers, are interchangeable.    *)
Interchangeable == Permutations({t2, t3}) \union Permutations(Buffers)
=============================================================================
