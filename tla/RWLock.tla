------------------------------- MODULE RWLock -------------------------------
(***************************************************************************)
(* What a WritePriorityMutex promises its callers, and all that the other  *)
(* modules of this project rely on when they hold one: a thread holds the  *)
(* lock exclusively, or shared, or not at all; a waiting writer keeps new  *)
(* readers out; a writer may give up waiting (try_lock_for) but never      *)
(* loses a lock it holds.                                                  *)
(***************************************************************************)
CONSTANT Threads

VARIABLE mode   \* mode[t]: "none", "waiting" (a registered writer), "write" or "read"

Modes == {"none", "waiting", "write", "read"}

LockInit == mode = [t \in Threads |-> "none"]

In(m) == {t \in Threads : mode[t] = m}
Become(t, m) == mode' = [mode EXCEPT ![t] = m]

(* A writer that could not take the lock at once registers.                *)
Await(t) == mode[t] = "none" /\ Become(t, "waiting")

AcquireWrite(t) ==
  /\ mode[t] \in {"none", "waiting"}
  /\ In("write") = {} /\ In("read") = {}
  /\ Become(t, "write")

AcquireRead(t) ==
  /\ mode[t] = "none"
  /\ In("write") = {} /\ In("waiting") = {}
  /\ Become(t, "read")

GiveUp(t) == mode[t] = "waiting" /\ Become(t, "none")

ReleaseLock(t) == mode[t] \in {"write", "read"} /\ Become(t, "none")

LockNext ==
  \E t \in Threads :
    Await(t) \/ AcquireWrite(t) \/ AcquireRead(t) \/ GiveUp(t) \/ ReleaseLock(t)

LockSpec == LockInit /\ [][LockNext]_mode
=============================================================================
