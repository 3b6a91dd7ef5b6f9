------------------------ MODULE MCWritePriorityMutex ------------------------
(* Three threads, two more than it takes to contend.                       *)
EXTENDS WritePriorityMutex

CONSTANTS t1, t2, t3
=============================================================================
