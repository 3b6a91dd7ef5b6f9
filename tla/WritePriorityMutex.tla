------------------------- MODULE WritePriorityMutex -------------------------
(***************************************************************************)
(* FEXCore::Utils::WritePriorityMutex::Mutex: a reader/writer lock in one  *)
(* 32-bit futex word that prefers writers.  Every compare-exchange, futex  *)
(* call and fetch_add/fetch_sub of the code is one step.                   *)
(*                                                                         *)
(* The word is kept as its four fields, so comparing the word is comparing *)
(* the record.  pc[t] is where thread t stands in the code:                *)
(*   "idle"    holds nothing, is in no call                                *)
(*   "w_try"   in lock() or try_lock_for(), before the first try_lock()    *)
(*   "w_reg"   try_lock() failed, not yet registered as a write waiter     *)
(*   "w_cas"   registered, about to compare-exchange exp[t] to take it     *)
(*   "w_wait"  registered, about to call FUTEX_WAIT with exp[t]            *)
(*   "w_sleep" registered, asleep on the writers' bit-set                  *)
(*   "w_load"  registered, back from FUTEX_WAIT, about to reload the word  *)
(*   "w_out"   its FUTEX_WAIT timed out, about to withdraw                 *)
(*   "writing" holds the lock exclusively                                  *)
(*   "r_cas", "r_wait", "r_sleep", "r_load"  the same for lock_shared()    *)
(*   "reading" holds the lock shared                                       *)
(*   "wake_w", "wake_r"  released or withdrew, still owes a FUTEX_WAKE     *)
(***************************************************************************)
EXTENDS Integers, FiniteSets

CONSTANTS
  Threads,          \* the threads that use the lock
  WriteWaiterMax,   \* WRITE_WAITER_COUNT_MASK >> 16: the largest waiter count the field holds
  ReadOwnerMax      \* READ_OWNER_COUNT_MASK: the largest reader count the field holds

(* The counts never leave their fields: fewer threads than either holds.   *)
ASSUME ThreadsAssumption ==
  /\ IsFiniteSet(Threads)
  /\ WriteWaiterMax \in Nat /\ Cardinality(Threads) <= WriteWaiterMax
  /\ ReadOwnerMax \in Nat /\ Cardinality(Threads) <= ReadOwnerMax

VARIABLES
  Futex,   \* the word: write-owned bit, read-waiter bit, write-waiter count, read-owner count
  pc,
  exp,     \* exp[t]: the local Expected (or, at FUTEX_WAIT, Desired) of thread t
  timed    \* timed[t]: thread t, when it asks for the lock exclusively, uses try_lock_for()

vars == <<Futex, pc, exp, timed>>

Word == [WriteOwned : BOOLEAN, ReadWaiter : BOOLEAN,
         WriteWaiters : 0..WriteWaiterMax, ReadOwners : 0..ReadOwnerMax]

Unlocked == [WriteOwned |-> FALSE, ReadWaiter |-> FALSE, WriteWaiters |-> 0, ReadOwners |-> 0]

WriterPC == {"w_cas", "w_wait", "w_sleep", "w_load", "w_out"}
ReaderPC == {"r_cas", "r_wait", "r_sleep", "r_load"}
PC == {"idle", "w_try", "w_reg", "writing", "reading", "wake_w", "wake_r"} \cup WriterPC \cup ReaderPC

At(f, L) == {t \in Threads : f[t] \in L}

(* What lock() and lock_shared() test before they try to take the word w.  *)
WriterIgnoresReaders(w) == ~w.WriteOwned   \* (mutant)
ReaderIgnoresWaiters(w) == ~w.WriteOwned   \* (mutant)
WriterMayTake(w) == ~w.WriteOwned /\ w.ReadOwners = 0
ReaderMayTake(w) == ~w.WriteOwned /\ w.WriteWaiters = 0

Init ==
  /\ Futex = Unlocked
  /\ pc = [t \in Threads |-> "idle"]
  /\ exp = [t \in Threads |-> Unlocked]
  /\ timed = [t \in Threads |-> FALSE]

Goto(t, l) == pc' = [pc EXCEPT ![t] = l]
Expect(t, w) == exp' = [exp EXCEPT ![t] = w]
Forget(t) == Expect(t, Unlocked)   \* the local is dead from here on

-----------------------------------------------------------------------------
(* lock() and try_lock_for(): try_lock(), register, then take or sleep.    *)

CallLock(t) ==
  /\ pc[t] = "idle"
  /\ Goto(t, "w_try")
  /\ \E b \in BOOLEAN : timed' = [timed EXCEPT ![t] = b]
  /\ UNCHANGED <<Futex, exp>>

(* try_lock(): a single compare-exchange from the all-zero word.           *)
TryLock(t) ==
  /\ pc[t] = "w_try"
  /\ IF Futex = Unlocked
     THEN /\ Futex' = [Unlocked EXCEPT !.WriteOwned = TRUE]
          /\ Goto(t, "writing")
     ELSE /\ Goto(t, "w_reg")
          /\ UNCHANGED Futex
  /\ UNCHANGED <<exp, timed>>

(* The inner loop's test of a freshly read word: go on to the exchange or  *)
(* break out to sleep on exactly this value.                               *)
WriterSaw(t, w) ==
  /\ Expect(t, w)
  /\ Goto(t, IF WriterMayTake(w) THEN "w_cas" ELSE "w_wait")

RegisterWriter(t) ==
  /\ pc[t] = "w_reg"
  /\ LET w == [Futex EXCEPT !.WriteWaiters = @ + 1]
     IN  Futex' = w /\ WriterSaw(t, w)
  /\ UNCHANGED timed

(* (mutant) takes the lock without giving up its place as a waiter.        *)
TakeWriteStaysRegistered(t) ==
  /\ pc[t] = "w_cas" /\ Futex = exp[t]
  /\ Futex' = [Futex EXCEPT !.WriteOwned = TRUE]
  /\ Goto(t, "writing")
  /\ Forget(t) /\ UNCHANGED timed

TakeWrite(t) ==
  /\ pc[t] = "w_cas"
  /\ IF Futex = exp[t]
     THEN /\ Futex' = [Futex EXCEPT !.WriteOwned = TRUE, !.WriteWaiters = @ - 1]
          /\ Goto(t, "writing")
          /\ Forget(t)
     ELSE WriterSaw(t, Futex) /\ UNCHANGED Futex
  /\ UNCHANGED timed

(* FUTEX_WAIT_BITSET: sleeps only if the word still has the expected value.*)
FutexWaitForWriteAvailable(t) ==
  /\ pc[t] = "w_wait"
  /\ Goto(t, IF Futex = exp[t] THEN "w_sleep" ELSE "w_load")
  /\ Forget(t)
  /\ UNCHANGED <<Futex, timed>>

ReloadWrite(t) ==
  /\ pc[t] = "w_load"
  /\ WriterSaw(t, Futex)
  /\ UNCHANGED <<Futex, timed>>

(* FUTEX_WAIT returned ETIMEDOUT: only a try_lock_for() has a deadline.    *)
WriteTimeout(t) ==
  /\ pc[t] = "w_sleep" /\ timed[t]
  /\ Goto(t, "w_out")
  /\ UNCHANGED <<Futex, exp, timed>>

(* (mutant) the timed-out writer just decrements its count.                *)
WithdrawSilently(t) ==
  /\ pc[t] = "w_out"
  /\ Futex' = [Futex EXCEPT !.WriteWaiters = @ - 1]
  /\ Goto(t, "idle") /\ UNCHANGED <<exp, timed>>

(* The timed-out writer withdraws and settles the handoff it owes.         *)
Withdraw(t) ==
  /\ pc[t] = "w_out"
  /\ LET w == [Futex EXCEPT !.WriteWaiters = @ - 1]
         WakeReaders == w.WriteWaiters = 0 /\ w.ReadWaiter /\ ~w.WriteOwned
     IN  /\ Futex' = IF WakeReaders THEN [w EXCEPT !.ReadWaiter = FALSE] ELSE w
         /\ Goto(t, IF WakeReaders THEN "wake_r"
                    ELSE IF w.WriteWaiters > 0 /\ WriterMayTake(w) THEN "wake_w"
                    ELSE "idle")
  /\ UNCHANGED <<exp, timed>>

Unlock(t) ==
  /\ pc[t] = "writing"
  /\ Futex' = [Futex EXCEPT !.WriteOwned = FALSE,
                            !.ReadWaiter = @ /\ Futex.WriteWaiters # 0]
  /\ Goto(t, IF Futex.WriteWaiters # 0 THEN "wake_w"
             ELSE IF Futex.ReadWaiter THEN "wake_r"
             ELSE "idle")
  /\ UNCHANGED <<exp, timed>>

-----------------------------------------------------------------------------
(* lock_shared() and unlock_shared().                                      *)

(* try_lock_shared() loads the word; lock_shared()'s loop does the same if *)
(* it fails, so both are the one exchange loop below.                      *)
CallLockShared(t) ==
  /\ pc[t] = "idle"
  /\ Expect(t, Futex)
  /\ Goto(t, "r_cas")
  /\ UNCHANGED <<Futex, timed>>

TakeRead(t) ==
  /\ pc[t] = "r_cas"
  /\ IF Futex # exp[t]
     THEN Expect(t, Futex) /\ UNCHANGED <<Futex, pc>>
     ELSE LET w == IF ReaderMayTake(Futex) THEN [Futex EXCEPT !.ReadOwners = @ + 1]
                                           ELSE [Futex EXCEPT !.ReadWaiter = TRUE]
          IN  /\ Futex' = w
              /\ Expect(t, IF ReaderMayTake(Futex) THEN Unlocked ELSE w)
              /\ Goto(t, IF ReaderMayTake(Futex) THEN "reading" ELSE "r_wait")
  /\ UNCHANGED timed

FutexWaitForReadAvailable(t) ==
  /\ pc[t] = "r_wait"
  /\ Goto(t, IF Futex = exp[t] THEN "r_sleep" ELSE "r_load")
  /\ Forget(t)
  /\ UNCHANGED <<Futex, timed>>

ReloadRead(t) ==
  /\ pc[t] = "r_load"
  /\ Expect(t, Futex)
  /\ Goto(t, "r_cas")
  /\ UNCHANGED <<Futex, timed>>

(* (mutant) the last reader out wakes nobody.                              *)
UnlockSharedSilently(t) ==
  /\ pc[t] = "reading"
  /\ Futex' = [Futex EXCEPT !.ReadOwners = @ - 1]
  /\ Goto(t, "idle") /\ UNCHANGED <<exp, timed>>

UnlockShared(t) ==
  /\ pc[t] = "reading"
  /\ Futex' = [Futex EXCEPT !.ReadOwners = @ - 1]
  /\ Goto(t, IF Futex.WriteWaiters # 0 /\ Futex.ReadOwners = 1 THEN "wake_w" ELSE "idle")
  /\ UNCHANGED <<exp, timed>>

-----------------------------------------------------------------------------
(* The kernel's side of the wake-ups.                                      *)

(* FUTEX_WAKE_BITSET of one writer; which one is up to the kernel.         *)
FutexWakeWriter(t) ==
  /\ pc[t] = "wake_w"
  /\ IF At(pc, {"w_sleep"}) = {}
     THEN Goto(t, "idle")
     ELSE \E s \in At(pc, {"w_sleep"}) : pc' = [pc EXCEPT ![t] = "idle", ![s] = "w_load"]
  /\ UNCHANGED <<Futex, exp, timed>>

(* FUTEX_WAKE_BITSET of every reader.                                      *)
FutexWakeReaders(t) ==
  /\ pc[t] = "wake_r"
  /\ pc' = [s \in Threads |-> IF s = t THEN "idle"
                              ELSE IF pc[s] = "r_sleep" THEN "r_load" ELSE pc[s]]
  /\ UNCHANGED <<Futex, exp, timed>>

(* FUTEX_WAIT returns early on a host signal (EINTR); the loops just retry.*)
Interrupted(t) ==
  /\ pc[t] \in {"w_sleep", "r_sleep"}
  /\ Goto(t, IF pc[t] = "w_sleep" THEN "w_load" ELSE "r_load")
  /\ UNCHANGED <<Futex, exp, timed>>

-----------------------------------------------------------------------------
(* The steps a thread takes by itself once it has entered a call.          *)
Step(t) ==
  \/ TryLock(t) \/ RegisterWriter(t) \/ TakeWrite(t)
  \/ FutexWaitForWriteAvailable(t) \/ ReloadWrite(t) \/ Withdraw(t)
  \/ TakeRead(t) \/ FutexWaitForReadAvailable(t) \/ ReloadRead(t)
  \/ FutexWakeWriter(t) \/ FutexWakeReaders(t)

Release(t) == Unlock(t) \/ UnlockShared(t)

Next ==
  \E t \in Threads :
    \/ CallLock(t) \/ CallLockShared(t)
    \/ Step(t) \/ Release(t)
    \/ WriteTimeout(t) \/ Interrupted(t)

Spec == Init /\ [][Next]_vars

(* Every thread inside a call keeps running, and whoever holds the lock    *)
(* lets go of it: the code never parks inside a critical section.  Nobody  *)
(* has to call lock(), and no deadline has to pass.                        *)
FairSpec == Spec /\ \A t \in Threads : WF_vars(Step(t)) /\ WF_vars(Release(t))

-----------------------------------------------------------------------------
(* Type invariant.                                                         *)
TypeOK ==
  /\ Futex \in Word
  /\ pc \in [Threads -> PC]
  /\ exp \in [Threads -> Word]
  /\ timed \in [Threads -> BOOLEAN]

(* lock()/unlock(), lock_shared()/unlock_shared(): a thread that holds the *)
(* lock exclusively is alone, whatever is sleeping, timing out or halfway  *)
(* through a compare-exchange.                                             *)
MutualExclusion ==
  \A t \in Threads : pc[t] = "writing" =>
    \A u \in Threads \ {t} : pc[u] \notin {"writing", "reading"}

(* The fields of the word account exactly for the threads behind them: a   *)
(* leaked reader slot or waiter count (the "phantom reader" of             *)
(* SignalScopeGuards.h) would hang every later writer.                     *)
WordAccounts ==
  /\ Futex.WriteOwned <=> \E t \in Threads : pc[t] = "writing"
  /\ Futex.ReadOwners = Cardinality(At(pc, {"reading"}))
  /\ Futex.WriteWaiters = Cardinality(At(pc, WriterPC))

SleepingWriterCovered ==
  (WriterMayTake(Futex) /\ \E t \in Threads : pc[t] = "w_sleep")
     => \E t \in Threads : pc[t] \in {"wake_w", "w_cas", "w_wait", "w_load", "w_out"}

(* No lost wake-up.  If a writer sleeps while the word lets a writer in,   *)
(* some registered writer is awake or a wake of one writer is on its way;  *)
(* if a reader sleeps while the word lets readers in, a wake of all        *)
(* readers is on its way.  unlock(): "Failure to send wake events can      *)
(* cause readers to infinitely hang"; try_lock_for(): "a lost one is a     *)
(* permanent hang".                                                        *)
NoLostWakeup ==
  /\ SleepingWriterCovered
  /\ (ReaderMayTake(Futex) /\ \E t \in Threads : pc[t] = "r_sleep")
       => \E t \in Threads : pc[t] = "wake_r"

(* Readers sleep only behind a writer: the read-waiter bit never outlives  *)
(* the writer that caused it, so try_lock()'s exchange from the zero word  *)
(* succeeds on every lock that nobody holds or waits for.                  *)
ReadWaiterBehindWriter ==
  Futex.ReadWaiter => Futex.WriteOwned \/ Futex.WriteWaiters > 0

(* The parts of the inductive invariant: what the locals remember, which   *)
(* owners exclude which, and who still owes a sleeper a wake.              *)
LocalsRemember ==
  \A t \in Threads :
    /\ pc[t] = "w_cas" => WriterMayTake(exp[t])
    /\ pc[t] = "w_wait" => ~WriterMayTake(exp[t])
    /\ pc[t] = "r_wait" => exp[t].ReadWaiter

OwnersExclude ==
  /\ Futex.WriteOwned => Futex.ReadOwners = 0
  /\ \A t, u \in Threads : pc[t] = "writing" /\ pc[u] = "writing" => t = u

SleepingReaderCovered ==
  (\E t \in Threads : pc[t] = "r_sleep")
     => Futex.ReadWaiter \/ \E t \in Threads : pc[t] = "wake_r"

IInv ==
  /\ TypeOK
  /\ WordAccounts
  /\ OwnersExclude
  /\ ReadWaiterBehindWriter
  /\ LocalsRemember
  /\ SleepingWriterCovered
  /\ SleepingReaderCovered

(* The lock refines its contract.                                          *)
ModeOf(l) ==
  CASE l \in WriterPC -> "waiting"
    [] l = "writing" -> "write"
    [] l = "reading" -> "read"
    [] OTHER -> "none"

Lock == INSTANCE RWLock WITH mode <- [t \in Threads |-> ModeOf(pc[t])]

(* Every step of the mutex is a step of the reader/writer lock with writer *)
(* priority, or changes nothing its callers can see.                       *)
RefinesRWLock == Lock!LockSpec

(* As long as a writer is registered, some writer gets the lock or the     *)
(* last registered one withdraws: no wake-up chain ends early.             *)
WriterProgress ==
  (\E t \in Threads : pc[t] \in WriterPC)
    ~> (\E t \in Threads : pc[t] = "writing") \/ (\A t \in Threads : pc[t] \notin WriterPC)

(* A reader that waits does not wait on a lock nobody uses: it gets in, or *)
(* somebody else holds the lock again and again.                           *)
ReaderProgress ==
  \A r \in Threads :
    pc[r] \in ReaderPC ~> \/ pc[r] = "reading"
                         \/ \E t \in Threads : pc[t] \in {"writing", "reading"}
=============================================================================
