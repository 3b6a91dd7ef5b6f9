---------------------- MODULE WritePriorityMutex_proofs ----------------------
(***************************************************************************)
(* TLAPS proofs about WritePriorityMutex, for any finite set of threads    *)
(* that fits the two count fields of the word.                             *)
(***************************************************************************)
EXTENDS WritePriorityMutex, FiniteSetTheorems, TLAPS

(* Zenon is tried where a leaf does not name a prover.                     *)
USE Zenon

-----------------------------------------------------------------------------
(* Counting threads by program counter.                                    *)

(* A thread that moves into L adds one to the threads in L.                *)
LEMMA CountEnter ==
  ASSUME NEW L, NEW f \in [Threads -> PC], NEW t \in Threads, NEW l \in PC,
         l \in L, f[t] \notin L
  PROVE  /\ Cardinality(At([f EXCEPT ![t] = l], L)) = Cardinality(At(f, L)) + 1
         /\ Cardinality(At(f, L)) \in Nat
         /\ Cardinality(At(f, L)) + 1 <= Cardinality(Threads)
<1> DEFINE g == [f EXCEPT ![t] = l]
<1>1. At(g, L) = At(f, L) \cup {t} /\ t \notin At(f, L)
  BY DEF At
<1>2. IsFiniteSet(Threads) /\ At(f, L) \subseteq Threads /\ At(g, L) \subseteq Threads
  BY ThreadsAssumption DEF At
<1>3. IsFiniteSet(At(f, L)) /\ IsFiniteSet(At(g, L))
  BY <1>2, FS_Subset
<1>4. Cardinality(At(g, L)) = Cardinality(At(f, L)) + 1
  BY <1>1, <1>3, FS_AddElement
<1>5. Cardinality(At(g, L)) <= Cardinality(Threads)
  BY <1>2, FS_Subset
<1>6. Cardinality(At(f, L)) \in Nat
  BY <1>3, FS_CardinalityType
<1> QED
  BY <1>4, <1>5, <1>6

(* A thread that moves out of L takes one away.                            *)
LEMMA CountLeave ==
  ASSUME NEW L, NEW f \in [Threads -> PC], NEW t \in Threads, NEW l \in PC,
         l \notin L, f[t] \in L
  PROVE  /\ Cardinality(At([f EXCEPT ![t] = l], L)) = Cardinality(At(f, L)) - 1
         /\ Cardinality(At(f, L)) \in Nat
         /\ Cardinality(At(f, L)) >= 1
<1> DEFINE g == [f EXCEPT ![t] = l]
<1>1. At(g, L) = At(f, L) \ {t} /\ t \in At(f, L)
  BY DEF At
<1>2. IsFiniteSet(At(f, L))
  BY ThreadsAssumption, FS_Subset DEF At
<1>3. Cardinality(At(g, L)) = Cardinality(At(f, L)) - 1
  BY <1>1, <1>2, FS_RemoveElement
<1>4. Cardinality(At(f, L)) \in Nat /\ Cardinality(At(g, L)) \in Nat
  BY <1>1, <1>2, FS_CardinalityType, FS_RemoveElement
<1> QED
  BY <1>3, <1>4, SMT

(* A move that neither enters nor leaves L changes nothing.                *)
LEMMA CountSame ==
  ASSUME NEW L, NEW f \in [Threads -> PC], NEW t \in Threads, NEW l \in PC,
         l \in L <=> f[t] \in L
  PROVE  At([f EXCEPT ![t] = l], L) = At(f, L)
BY DEF At

(* Counts of an empty and of a non-empty set of threads.                   *)
LEMMA CountZero ==
  ASSUME NEW L, NEW f
  PROVE  Cardinality(At(f, L)) = 0 <=> \A u \in Threads : f[u] \notin L
<1>1. IsFiniteSet(At(f, L))
  BY ThreadsAssumption, FS_Subset DEF At
<1> QED
  BY <1>1, FS_EmptySet DEF At

-----------------------------------------------------------------------------
(* What a move of one thread does to the two counted sets.                 *)
Moves(t, l) == pc' = [pc EXCEPT ![t] = l]

(* CountEnter for a thread that moves to a place of L.                     *)
LEMMA Enter ==
  ASSUME TypeOK, NEW t \in Threads, NEW l \in PC, NEW L, Moves(t, l), l \in L, pc[t] \notin L
  PROVE  /\ Cardinality(At(pc', L)) = Cardinality(At(pc, L)) + 1
         /\ Cardinality(At(pc, L)) \in Nat
         /\ Cardinality(At(pc, L)) + 1 <= Cardinality(Threads)
BY CountEnter DEF TypeOK, Moves

(* CountLeave for a thread that moves to a place outside L.                *)
LEMMA Leave ==
  ASSUME TypeOK, NEW t \in Threads, NEW l \in PC, NEW L, Moves(t, l), l \notin L, pc[t] \in L
  PROVE  /\ Cardinality(At(pc', L)) = Cardinality(At(pc, L)) - 1
         /\ Cardinality(At(pc, L)) \in Nat
         /\ Cardinality(At(pc, L)) >= 1
BY CountLeave DEF TypeOK, Moves

(* CountSame for a move within L or outside it.                            *)
LEMMA Stay ==
  ASSUME TypeOK, NEW t \in Threads, NEW l \in PC, NEW L, Moves(t, l), l \in L <=> pc[t] \in L
  PROVE  At(pc', L) = At(pc, L)
BY CountSame DEF TypeOK, Moves

-----------------------------------------------------------------------------
(* IInv holds initially.                                                   *)
LEMMA InitIInv == Init => IInv
<1> SUFFICES ASSUME Init PROVE IInv
  OBVIOUS
<1>1. TypeOK
  BY ThreadsAssumption, FS_CardinalityType, SMT DEF Init, TypeOK, Unlocked, Word, PC
<1>2. Cardinality(At(pc, {"reading"})) = 0 /\ Cardinality(At(pc, WriterPC)) = 0
  BY CountZero DEF Init, WriterPC
<1>3. WordAccounts
  BY <1>2 DEF Init, WordAccounts, Unlocked
<1>4. OwnersExclude /\ ReadWaiterBehindWriter /\ LocalsRemember
  BY DEF Init, OwnersExclude, ReadWaiterBehindWriter, LocalsRemember, Unlocked
<1>5. SleepingWriterCovered /\ SleepingReaderCovered
  BY DEF Init, SleepingWriterCovered, SleepingReaderCovered
<1> QED
  BY <1>1, <1>3, <1>4, <1>5 DEF IInv

(* A step that leaves the word alone and moves one thread between labels   *)
(* that neither hold the lock nor count as waiting keeps the accounts.     *)
LEMMA QuietMove ==
  ASSUME IInv, NEW t \in Threads, NEW l \in PC, Moves(t, l), UNCHANGED Futex,
         l \in WriterPC <=> pc[t] \in WriterPC,
         l # "reading", l # "writing", pc[t] # "reading", pc[t] # "writing"
  PROVE  WordAccounts' /\ OwnersExclude' /\ ReadWaiterBehindWriter'
<1>1. At(pc', {"reading"}) = At(pc, {"reading"}) /\ At(pc', WriterPC) = At(pc, WriterPC)
  BY Stay DEF IInv
<1>2. \A u \in Threads : pc'[u] = "writing" <=> pc[u] = "writing"
  BY DEF IInv, TypeOK, Moves
<1> QED
  BY <1>1, <1>2 DEF IInv, WordAccounts, OwnersExclude, ReadWaiterBehindWriter

(* The initial word is a word.                                             *)
LEMMA UnlockedWord == Unlocked \in Word
BY ThreadsAssumption, SMT DEF Unlocked, Word

(* A registered writer shows in the waiter count.                          *)
LEMMA Registered ==
  ASSUME IInv, NEW u \in Threads, pc[u] \in WriterPC
  PROVE  Futex.WriteWaiters # 0
BY CountZero DEF IInv, WordAccounts

(* A reader shows in the reader count.                                     *)
LEMMA Reading ==
  ASSUME IInv, NEW u \in Threads, pc[u] = "reading"
  PROVE  Futex.ReadOwners # 0
BY CountZero, SMT DEF IInv, WordAccounts

-----------------------------------------------------------------------------
(* Every step keeps IInv: one step per action.                             *)
LEMMA NextIInv == IInv /\ [Next]_vars => IInv'
<1> SUFFICES ASSUME IInv, [Next]_vars PROVE IInv'
  OBVIOUS
<1> USE DEF Goto, Moves
<1>1. ASSUME NEW t \in Threads, CallLock(t) PROVE IInv'
  <2> USE <1>1 DEF CallLock
  <2>1. TypeOK'
    BY DEF IInv, TypeOK, PC, WriterPC, ReaderPC
  <2>2. WordAccounts' /\ OwnersExclude' /\ ReadWaiterBehindWriter'
    BY QuietMove DEF IInv, TypeOK, PC, WriterPC, ReaderPC
  <2>3. LocalsRemember'
    BY DEF IInv, TypeOK, LocalsRemember
  <2>4. SleepingWriterCovered'
    BY DEF IInv, TypeOK, LocalsRemember, SleepingWriterCovered, WriterMayTake
  <2>5. SleepingReaderCovered'
    BY DEF IInv, TypeOK, LocalsRemember, SleepingReaderCovered
  <2> QED
    BY <2>1, <2>2, <2>3, <2>4, <2>5 DEF IInv
<1>2. ASSUME NEW t \in Threads, CallLockShared(t) PROVE IInv'
  <2> USE <1>2 DEF CallLockShared
  <2>1. TypeOK'
    BY DEF IInv, TypeOK, PC, WriterPC, ReaderPC, Expect
  <2>2. WordAccounts' /\ OwnersExclude' /\ ReadWaiterBehindWriter'
    BY QuietMove DEF IInv, TypeOK, PC, WriterPC, ReaderPC
  <2>3. LocalsRemember'
    BY DEF IInv, TypeOK, LocalsRemember, Expect
  <2>4. SleepingWriterCovered'
    BY DEF IInv, TypeOK, LocalsRemember, SleepingWriterCovered, WriterMayTake, Expect
  <2>5. SleepingReaderCovered'
    BY DEF IInv, TypeOK, LocalsRemember, SleepingReaderCovered, Expect
  <2> QED
    BY <2>1, <2>2, <2>3, <2>4, <2>5 DEF IInv
<1>3. ASSUME NEW t \in Threads, FutexWaitForWriteAvailable(t) PROVE IInv'
  <2> USE <1>3 DEF FutexWaitForWriteAvailable
  <2>1. TypeOK'
    BY UnlockedWord DEF IInv, TypeOK, PC, WriterPC, ReaderPC, Forget, Expect
  <2>2. WordAccounts' /\ OwnersExclude' /\ ReadWaiterBehindWriter'
    BY QuietMove DEF IInv, TypeOK, PC, WriterPC, ReaderPC
  <2>3. LocalsRemember'
    BY DEF IInv, TypeOK, LocalsRemember, Forget, Expect
  <2>4. SleepingWriterCovered'
    BY DEF IInv, TypeOK, LocalsRemember, SleepingWriterCovered, WriterMayTake, Forget, Expect
  <2>5. SleepingReaderCovered'
    BY DEF IInv, TypeOK, LocalsRemember, SleepingReaderCovered, Forget, Expect
  <2> QED
    BY <2>1, <2>2, <2>3, <2>4, <2>5 DEF IInv
<1>4. ASSUME NEW t \in Threads, ReloadWrite(t) PROVE IInv'
  <2> USE <1>4 DEF ReloadWrite
  <2>1. TypeOK'
    BY DEF IInv, TypeOK, PC, WriterPC, ReaderPC, WriterSaw, Expect
  <2>2. WordAccounts' /\ OwnersExclude' /\ ReadWaiterBehindWriter'
    BY QuietMove DEF IInv, TypeOK, PC, WriterPC, ReaderPC, WriterSaw
  <2>3. LocalsRemember'
    BY DEF IInv, TypeOK, LocalsRemember, WriterSaw, Expect
  <2>4. SleepingWriterCovered'
    BY DEF IInv, TypeOK, LocalsRemember, SleepingWriterCovered, WriterMayTake, WriterSaw, Expect
  <2>5. SleepingReaderCovered'
    BY DEF IInv, TypeOK, LocalsRemember, SleepingReaderCovered, WriterSaw, Expect
  <2> QED
    BY <2>1, <2>2, <2>3, <2>4, <2>5 DEF IInv
<1>5. ASSUME NEW t \in Threads, WriteTimeout(t) PROVE IInv'
  <2> USE <1>5 DEF WriteTimeout
  <2>1. TypeOK'
    BY DEF IInv, TypeOK, PC, WriterPC, ReaderPC
  <2>2. WordAccounts' /\ OwnersExclude' /\ ReadWaiterBehindWriter'
    BY QuietMove DEF IInv, TypeOK, PC, WriterPC, ReaderPC
  <2>3. LocalsRemember'
    BY DEF IInv, TypeOK, LocalsRemember
  <2>4. SleepingWriterCovered'
    BY DEF IInv, TypeOK, LocalsRemember, SleepingWriterCovered, WriterMayTake
  <2>5. SleepingReaderCovered'
    BY DEF IInv, TypeOK, LocalsRemember, SleepingReaderCovered
  <2> QED
    BY <2>1, <2>2, <2>3, <2>4, <2>5 DEF IInv
<1>6. ASSUME NEW t \in Threads, FutexWaitForReadAvailable(t) PROVE IInv'
  <2> USE <1>6 DEF FutexWaitForReadAvailable
  <2>1. TypeOK'
    BY UnlockedWord DEF IInv, TypeOK, PC, WriterPC, ReaderPC, Forget, Expect
  <2>2. WordAccounts' /\ OwnersExclude' /\ ReadWaiterBehindWriter'
    BY QuietMove DEF IInv, TypeOK, PC, WriterPC, ReaderPC
  <2>3. LocalsRemember'
    BY DEF IInv, TypeOK, LocalsRemember, Forget, Expect
  <2>4. SleepingWriterCovered'
    BY DEF IInv, TypeOK, LocalsRemember, SleepingWriterCovered, WriterMayTake, Forget, Expect
  <2>5. SleepingReaderCovered'
    BY DEF IInv, TypeOK, LocalsRemember, SleepingReaderCovered, Forget, Expect
  <2> QED
    BY <2>1, <2>2, <2>3, <2>4, <2>5 DEF IInv
<1>7. ASSUME NEW t \in Threads, ReloadRead(t) PROVE IInv'
  <2> USE <1>7 DEF ReloadRead
  <2>1. TypeOK'
    BY DEF IInv, TypeOK, PC, WriterPC, ReaderPC, Expect
  <2>2. WordAccounts' /\ OwnersExclude' /\ ReadWaiterBehindWriter'
    BY QuietMove DEF IInv, TypeOK, PC, WriterPC, ReaderPC
  <2>3. LocalsRemember'
    BY DEF IInv, TypeOK, LocalsRemember, Expect
  <2>4. SleepingWriterCovered'
    BY DEF IInv, TypeOK, LocalsRemember, SleepingWriterCovered, WriterMayTake, Expect
  <2>5. SleepingReaderCovered'
    BY DEF IInv, TypeOK, LocalsRemember, SleepingReaderCovered, Expect
  <2> QED
    BY <2>1, <2>2, <2>3, <2>4, <2>5 DEF IInv
<1>8. ASSUME NEW t \in Threads, Interrupted(t) PROVE IInv'
  <2> USE <1>8 DEF Interrupted
  <2>1. TypeOK'
    BY DEF IInv, TypeOK, PC, WriterPC, ReaderPC
  <2>2. WordAccounts' /\ OwnersExclude' /\ ReadWaiterBehindWriter'
    BY QuietMove DEF IInv, TypeOK, PC, WriterPC, ReaderPC
  <2>3. LocalsRemember'
    BY DEF IInv, TypeOK, LocalsRemember
  <2>4. SleepingWriterCovered'
    BY DEF IInv, TypeOK, LocalsRemember, SleepingWriterCovered, WriterMayTake
  <2>5. SleepingReaderCovered'
    BY DEF IInv, TypeOK, LocalsRemember, SleepingReaderCovered
  <2> QED
    BY <2>1, <2>2, <2>3, <2>4, <2>5 DEF IInv
<1>9. ASSUME NEW t \in Threads, TryLock(t) PROVE IInv'
  <2>1. CASE Futex # Unlocked
    <3> USE <1>9, <2>1 DEF TryLock
    <3>1. TypeOK'
      BY DEF IInv, TypeOK, PC
    <3>2. WordAccounts' /\ OwnersExclude' /\ ReadWaiterBehindWriter'
      BY QuietMove DEF IInv, TypeOK, PC, WriterPC
    <3>3. LocalsRemember' /\ SleepingWriterCovered' /\ SleepingReaderCovered'
      BY DEF IInv, TypeOK, LocalsRemember, SleepingWriterCovered, SleepingReaderCovered
    <3> QED
      BY <3>1, <3>2, <3>3 DEF IInv
  <2>2. CASE Futex = Unlocked
    <3> USE <1>9, <2>2 DEF TryLock
    <3>1. TypeOK'
      <4>1. [Unlocked EXCEPT !.WriteOwned = TRUE] \in Word
        BY UnlockedWord DEF Word
      <4> QED
        BY <4>1 DEF IInv, TypeOK, PC
    <3>2. At(pc', {"reading"}) = At(pc, {"reading"}) /\ At(pc', WriterPC) = At(pc, WriterPC)
      BY Stay, SMT DEF IInv, PC, WriterPC
    <3>3. WordAccounts' /\ OwnersExclude' /\ ReadWaiterBehindWriter'
      BY <3>2, SMT DEF IInv, TypeOK, WordAccounts, OwnersExclude, ReadWaiterBehindWriter, Unlocked
    <3>4. LocalsRemember' /\ SleepingWriterCovered' /\ SleepingReaderCovered'
      BY SMT DEF IInv, TypeOK, LocalsRemember, SleepingWriterCovered, SleepingReaderCovered,
             WriterMayTake, Unlocked
    <3> QED
      BY <3>1, <3>3, <3>4 DEF IInv
  <2> QED
    BY <2>1, <2>2
<1>10. ASSUME NEW t \in Threads, RegisterWriter(t) PROVE IInv'
  <2> USE <1>10 DEF RegisterWriter, WriterSaw
  <2>1. At(pc', {"reading"}) = At(pc, {"reading"})
    BY Stay DEF IInv, PC, WriterPC
  <2>2. /\ Cardinality(At(pc', WriterPC)) = Cardinality(At(pc, WriterPC)) + 1
        /\ Cardinality(At(pc, WriterPC)) + 1 <= Cardinality(Threads)
    <3>1. PICK l \in {"w_cas", "w_wait"} : pc' = [pc EXCEPT ![t] = l]
      OBVIOUS
    <3>2. pc[t] \notin WriterPC /\ l \in WriterPC /\ l \in PC
      BY DEF WriterPC, PC
    <3>3. TypeOK /\ Moves(t, l)
      BY <3>1 DEF IInv, Moves
    <3> HIDE <1>10 DEF RegisterWriter
    <3> QED
      BY <3>2, <3>3, Enter
  <2>3. Futex.WriteWaiters + 1 \in 0..WriteWaiterMax
    BY <2>2, ThreadsAssumption, FS_CardinalityType, SMT DEF IInv, TypeOK, Word, WordAccounts
  <2>4. Futex' \in Word
    BY <2>3 DEF IInv, TypeOK, Word
  <2>5. TypeOK'
    BY <2>4 DEF IInv, TypeOK, PC, WriterPC, Expect
  <2>6. WordAccounts' /\ OwnersExclude' /\ ReadWaiterBehindWriter'
    BY <2>1, <2>2, <2>3, SMT DEF IInv, TypeOK, Word, WordAccounts, OwnersExclude, ReadWaiterBehindWriter
  <2>7. LocalsRemember'
    BY DEF IInv, TypeOK, LocalsRemember, Expect
  <2>8. SleepingWriterCovered' /\ SleepingReaderCovered'
    BY DEF IInv, TypeOK, Word, SleepingWriterCovered, SleepingReaderCovered
  <2> QED
    BY <2>5, <2>6, <2>7, <2>8 DEF IInv
<1>11. ASSUME NEW t \in Threads, TakeWrite(t) PROVE IInv'
  <2>1. CASE Futex # exp[t]
    <3> USE <1>11, <2>1 DEF TakeWrite, WriterSaw
    <3>1. TypeOK'
      BY DEF IInv, TypeOK, PC, WriterPC, Expect
    <3>2. WordAccounts' /\ OwnersExclude' /\ ReadWaiterBehindWriter'
      BY QuietMove DEF IInv, TypeOK, PC, WriterPC
    <3>3. LocalsRemember' /\ SleepingWriterCovered' /\ SleepingReaderCovered'
      BY DEF IInv, TypeOK, LocalsRemember, SleepingWriterCovered, SleepingReaderCovered, Expect
    <3> QED
      BY <3>1, <3>2, <3>3 DEF IInv
  <2>2. CASE Futex = exp[t]
    <3> USE <1>11, <2>2 DEF TakeWrite
    <3>1. At(pc', {"reading"}) = At(pc, {"reading"})
      BY Stay DEF IInv, PC, WriterPC
    <3>2. /\ Cardinality(At(pc', WriterPC)) = Cardinality(At(pc, WriterPC)) - 1
          /\ Cardinality(At(pc, WriterPC)) >= 1
      BY Leave, SMT DEF IInv, PC, WriterPC
    <3>3. WriterMayTake(Futex)
      BY DEF IInv, LocalsRemember
    <3>4. Futex.WriteWaiters - 1 \in 0..WriteWaiterMax
      BY <3>2, ThreadsAssumption, SMT DEF IInv, TypeOK, Word, WordAccounts
    <3>5. TypeOK'
      BY <3>4, UnlockedWord DEF IInv, TypeOK, PC, Word, Forget, Expect
    <3>6. WordAccounts' /\ OwnersExclude' /\ ReadWaiterBehindWriter'
      <4>1. /\ Futex'.WriteOwned /\ Futex'.ReadOwners = Futex.ReadOwners
            /\ Futex'.WriteWaiters = Futex.WriteWaiters - 1
            /\ pc'[t] = "writing"
        BY DEF IInv, TypeOK, Word
      <4>2. WordAccounts'
        BY <3>1, <3>2, <4>1 DEF IInv, WordAccounts
      <4>3. \A u \in Threads : pc[u] # "writing"
        BY <3>3 DEF IInv, WordAccounts, WriterMayTake
      <4>4. OwnersExclude' /\ ReadWaiterBehindWriter'
        BY <3>3, <4>1, <4>3, SMT DEF IInv, TypeOK, OwnersExclude, ReadWaiterBehindWriter, WriterMayTake
      <4> QED
        BY <4>2, <4>4
    <3>7. LocalsRemember'
      BY DEF IInv, TypeOK, LocalsRemember, Forget, Expect
    <3>8. SleepingWriterCovered' /\ SleepingReaderCovered'
      BY DEF IInv, TypeOK, Word, SleepingWriterCovered, SleepingReaderCovered, WriterMayTake
    <3> QED
      BY <3>5, <3>6, <3>7, <3>8 DEF IInv
  <2> QED
    BY <2>1, <2>2
<1>12. ASSUME NEW t \in Threads, Withdraw(t) PROVE IInv'
  <2> USE <1>12 DEF Withdraw
  <2>1. At(pc', {"reading"}) = At(pc, {"reading"})
    BY Stay DEF IInv, PC, WriterPC
  <2>2. /\ Cardinality(At(pc', WriterPC)) = Cardinality(At(pc, WriterPC)) - 1
        /\ Cardinality(At(pc, WriterPC)) >= 1
    BY Leave DEF IInv, PC, WriterPC
  <2>3. Futex.WriteWaiters - 1 \in 0..WriteWaiterMax
    BY <2>2, ThreadsAssumption, SMT DEF IInv, TypeOK, Word, WordAccounts
  <2>4. Futex' \in Word
    BY <2>3 DEF IInv, TypeOK, Word
  <2>5. TypeOK'
    BY <2>4 DEF IInv, TypeOK, PC
  <2>6. WordAccounts' /\ OwnersExclude'
    BY <2>1, <2>2 DEF IInv, TypeOK, Word, WordAccounts, OwnersExclude
  <2>7. ReadWaiterBehindWriter'
    BY <2>3, SMT DEF IInv, TypeOK, Word, ReadWaiterBehindWriter
  <2>8. LocalsRemember'
    BY DEF IInv, TypeOK, LocalsRemember
  <2>9. ASSUME NEW u \in Threads, pc'[u] \in WriterPC PROVE Futex'.WriteWaiters # 0
    BY <2>5, <2>6, <2>9, CountZero DEF WordAccounts
  <2>10. SleepingWriterCovered'
    BY <2>3, <2>9, SMT DEF IInv, TypeOK, Word, SleepingWriterCovered, WriterMayTake, WriterPC
  <2>11. SleepingReaderCovered'
    BY DEF IInv, TypeOK, Word, SleepingReaderCovered
  <2> QED
    BY <2>5, <2>6, <2>7, <2>8, <2>10, <2>11 DEF IInv
<1>13. ASSUME NEW t \in Threads, Unlock(t) PROVE IInv'
  <2> USE <1>13 DEF Unlock
  <2>1. At(pc', {"reading"}) = At(pc, {"reading"}) /\ At(pc', WriterPC) = At(pc, WriterPC)
    BY Stay DEF IInv, PC, WriterPC
  <2>2. Futex' \in Word /\ TypeOK'
    BY DEF IInv, TypeOK, Word, PC
  <2>3. /\ ~Futex'.WriteOwned /\ Futex'.ReadOwners = Futex.ReadOwners
        /\ Futex'.WriteWaiters = Futex.WriteWaiters
        /\ Futex'.ReadWaiter <=> Futex.ReadWaiter /\ Futex.WriteWaiters # 0
    BY DEF IInv, TypeOK, Word
  <2>4. \A u \in Threads : pc'[u] # "writing"
    BY DEF IInv, TypeOK, OwnersExclude
  <2>5. WordAccounts' /\ OwnersExclude'
    BY <2>1, <2>3, <2>4 DEF IInv, WordAccounts, OwnersExclude
  <2>6. ReadWaiterBehindWriter'
    BY <2>3, ThreadsAssumption, SMT DEF IInv, TypeOK, ReadWaiterBehindWriter, Word
  <2>7. LocalsRemember'
    BY DEF IInv, TypeOK, LocalsRemember
  <2>8. SleepingWriterCovered'
    BY Registered DEF IInv, TypeOK, SleepingWriterCovered, WriterPC
  <2>9. SleepingReaderCovered'
    BY <2>3 DEF IInv, TypeOK, SleepingReaderCovered
  <2> QED
    BY <2>2, <2>5, <2>6, <2>7, <2>8, <2>9 DEF IInv
<1>14. ASSUME NEW t \in Threads, TakeRead(t) PROVE IInv'
  <2>1. CASE Futex # exp[t]
    <3> USE <1>14, <2>1 DEF TakeRead, Expect
    <3>1. TypeOK' /\ LocalsRemember'
      BY DEF IInv, TypeOK, LocalsRemember
    <3> QED
      BY <3>1, SMT DEF IInv, WordAccounts, OwnersExclude, ReadWaiterBehindWriter,
                  SleepingWriterCovered, SleepingReaderCovered
  <2>2. CASE Futex = exp[t] /\ ~ReaderMayTake(Futex)
    <3> USE <1>14, <2>2 DEF TakeRead
    <3>1. At(pc', {"reading"}) = At(pc, {"reading"}) /\ At(pc', WriterPC) = At(pc, WriterPC)
      BY Stay DEF IInv, PC, WriterPC, ReaderPC
    <3>2. Futex' \in Word /\ TypeOK'
      <4>1. Futex' \in Word
        BY DEF IInv, TypeOK, Word
      <4>2. exp' = [exp EXCEPT ![t] = Futex'] /\ pc' = [pc EXCEPT ![t] = "r_wait"]
        BY DEF Expect
      <4> QED
        BY <4>1, <4>2 DEF IInv, TypeOK, PC, ReaderPC
    <3>3. /\ Futex'.WriteOwned = Futex.WriteOwned /\ Futex'.ReadOwners = Futex.ReadOwners
          /\ Futex'.WriteWaiters = Futex.WriteWaiters /\ Futex'.ReadWaiter
      BY DEF IInv, TypeOK, Word
    <3>4. \A u \in Threads : pc'[u] = "writing" <=> pc[u] = "writing"
      BY DEF IInv, TypeOK
    <3>5. WordAccounts' /\ OwnersExclude'
      BY <3>1, <3>3, <3>4 DEF IInv, WordAccounts, OwnersExclude
    <3>6. ReadWaiterBehindWriter'
      BY <3>2, <3>3, SMT DEF ReadWaiterBehindWriter, ReaderMayTake, Word
    <3>7. LocalsRemember'
      BY <3>3 DEF IInv, TypeOK, LocalsRemember, Expect
    <3>8. SleepingWriterCovered' /\ SleepingReaderCovered'
      BY <3>3 DEF IInv, TypeOK, SleepingWriterCovered, SleepingReaderCovered, WriterMayTake
    <3> QED
      BY <3>2, <3>5, <3>6, <3>7, <3>8 DEF IInv
  <2>3. CASE Futex = exp[t] /\ ReaderMayTake(Futex)
    <3> USE <1>14, <2>3 DEF TakeRead
    <3>1. At(pc', WriterPC) = At(pc, WriterPC)
      BY Stay DEF IInv, PC, WriterPC
    <3>2. /\ Cardinality(At(pc', {"reading"})) = Cardinality(At(pc, {"reading"})) + 1
          /\ Cardinality(At(pc, {"reading"})) + 1 <= Cardinality(Threads)
      BY Enter DEF IInv, PC
    <3>3. Futex.ReadOwners + 1 \in 0..ReadOwnerMax
      BY <3>2, ThreadsAssumption, FS_CardinalityType, SMT DEF IInv, TypeOK, Word, WordAccounts
    <3>4. Futex' \in Word
      BY <3>3 DEF IInv, TypeOK, Word
    <3>5. TypeOK'
      BY <3>4, UnlockedWord DEF IInv, TypeOK, PC, Expect
    <3>6. /\ ~Futex'.WriteOwned /\ Futex'.ReadOwners = Futex.ReadOwners + 1
          /\ Futex'.WriteWaiters = Futex.WriteWaiters /\ Futex'.ReadWaiter = Futex.ReadWaiter
      BY DEF IInv, TypeOK, Word, ReaderMayTake
    <3>7. \A u \in Threads : pc'[u] # "writing" /\ pc[u] # "writing"
      BY DEF IInv, TypeOK, WordAccounts, ReaderMayTake
    <3>8. WordAccounts' /\ OwnersExclude'
      BY <3>1, <3>2, <3>6, <3>7 DEF IInv, WordAccounts, OwnersExclude
    <3>9. ReadWaiterBehindWriter'
      BY <3>6 DEF IInv, ReadWaiterBehindWriter, ReaderMayTake
    <3>10. LocalsRemember'
      BY DEF IInv, TypeOK, LocalsRemember, Expect
    <3>11. SleepingWriterCovered' /\ SleepingReaderCovered'
      BY <3>3, <3>6, SMT DEF IInv, TypeOK, Word, SleepingWriterCovered, SleepingReaderCovered, WriterMayTake
    <3> QED
      BY <3>5, <3>8, <3>9, <3>10, <3>11 DEF IInv
  <2> QED
    BY <2>1, <2>2, <2>3
<1>15. ASSUME NEW t \in Threads, UnlockShared(t) PROVE IInv'
  <2> USE <1>15 DEF UnlockShared
  <2>1. At(pc', WriterPC) = At(pc, WriterPC)
    BY Stay DEF IInv, PC, WriterPC
  <2>2. /\ Cardinality(At(pc', {"reading"})) = Cardinality(At(pc, {"reading"})) - 1
        /\ Cardinality(At(pc, {"reading"})) >= 1
    <3>1. PICK l \in {"wake_w", "idle"} : pc' = [pc EXCEPT ![t] = l]
      OBVIOUS
    <3>2. pc[t] \in {"reading"} /\ l \notin {"reading"} /\ l \in PC
      BY DEF PC
    <3>3. TypeOK /\ Moves(t, l)
      BY <3>1 DEF IInv, Moves
    <3> DEFINE R == {"reading"}
    <3>4. pc[t] \in R /\ l \notin R
      BY <3>2
    <3>5. Cardinality(At(pc', R)) = Cardinality(At(pc, R)) - 1 /\ Cardinality(At(pc, R)) >= 1
      <4> HIDE DEF R
      <4> QED
        BY <3>2, <3>3, <3>4, Leave
    <3> QED
      BY <3>5
  <2>3. Futex.ReadOwners >= 1 /\ Futex.ReadOwners - 1 \in 0..ReadOwnerMax
    BY <2>2, ThreadsAssumption, SMT DEF IInv, TypeOK, Word, WordAccounts
  <2>4. TypeOK'
    BY <2>3 DEF IInv, TypeOK, Word, PC
  <2>5. /\ Futex'.WriteOwned = Futex.WriteOwned /\ Futex'.ReadOwners = Futex.ReadOwners - 1
        /\ Futex'.WriteWaiters = Futex.WriteWaiters /\ Futex'.ReadWaiter = Futex.ReadWaiter
    BY DEF IInv, TypeOK, Word
  <2>6. \A u \in Threads : pc'[u] # "writing" /\ pc[u] # "writing"
    BY <2>3, SMT DEF IInv, TypeOK, WordAccounts, OwnersExclude
  <2>7. WordAccounts' /\ OwnersExclude'
    BY <2>1, <2>2, <2>5, <2>6 DEF IInv, WordAccounts, OwnersExclude
  <2>8. ReadWaiterBehindWriter' /\ LocalsRemember'
    BY <2>5 DEF IInv, TypeOK, ReadWaiterBehindWriter, LocalsRemember
  <2>9. SleepingWriterCovered'
    <3>1. CASE pc'[t] = "wake_w"
      BY <3>1 DEF SleepingWriterCovered
    <3>2. CASE Futex.WriteWaiters = 0
      BY <3>2, Registered DEF IInv, TypeOK, SleepingWriterCovered, WriterPC
    <3>3. CASE Futex.ReadOwners # 1
      BY <2>3, <2>5, <3>3, SMT DEF IInv, TypeOK, Word, SleepingWriterCovered, WriterMayTake
    <3> QED
      BY <3>1, <3>2, <3>3 DEF IInv, TypeOK
  <2>10. SleepingReaderCovered'
    BY <2>5 DEF IInv, TypeOK, SleepingReaderCovered
  <2> QED
    BY <2>4, <2>7, <2>8, <2>9, <2>10 DEF IInv
<1>16. ASSUME NEW t \in Threads, FutexWakeWriter(t) PROVE IInv'
  <2>1. CASE At(pc, {"w_sleep"}) = {}
    <3> USE <1>16, <2>1 DEF FutexWakeWriter
    <3>1. TypeOK'
      BY DEF IInv, TypeOK, PC
    <3>2. WordAccounts' /\ OwnersExclude' /\ ReadWaiterBehindWriter'
      BY QuietMove DEF IInv, TypeOK, PC, WriterPC
    <3>3. LocalsRemember' /\ SleepingWriterCovered' /\ SleepingReaderCovered'
      BY SMT DEF IInv, TypeOK, LocalsRemember, SleepingWriterCovered, SleepingReaderCovered, At
    <3> QED
      BY <3>1, <3>2, <3>3 DEF IInv
  <2>2. ASSUME NEW s \in Threads, pc[s] = "w_sleep",
               pc' = [pc EXCEPT ![t] = "idle", ![s] = "w_load"]
        PROVE  IInv'
    <3> USE <1>16, <2>2 DEF FutexWakeWriter
    <3>1. TypeOK'
      BY DEF IInv, TypeOK, PC, WriterPC
    <3>2. At(pc', {"reading"}) = At(pc, {"reading"}) /\ At(pc', WriterPC) = At(pc, WriterPC)
      BY DEF IInv, TypeOK, At, WriterPC
    <3>3. \A u \in Threads : pc'[u] = "writing" <=> pc[u] = "writing"
      BY DEF IInv, TypeOK
    <3>4. WordAccounts' /\ OwnersExclude' /\ ReadWaiterBehindWriter'
      BY <3>2, <3>3 DEF IInv, WordAccounts, OwnersExclude, ReadWaiterBehindWriter
    <3>5. LocalsRemember' /\ SleepingWriterCovered' /\ SleepingReaderCovered'
      BY DEF IInv, TypeOK, LocalsRemember, SleepingWriterCovered, SleepingReaderCovered
    <3> QED
      BY <3>1, <3>4, <3>5 DEF IInv
  <2> QED
    BY <1>16, <2>1, <2>2 DEF FutexWakeWriter, At
<1>17. ASSUME NEW t \in Threads, FutexWakeReaders(t) PROVE IInv'
  <2> USE <1>17 DEF FutexWakeReaders
  <2>1. TypeOK'
    BY DEF IInv, TypeOK, PC, ReaderPC
  <2>2. At(pc', {"reading"}) = At(pc, {"reading"}) /\ At(pc', WriterPC) = At(pc, WriterPC)
    BY DEF IInv, TypeOK, At, WriterPC
  <2>3. \A u \in Threads : pc'[u] = "writing" <=> pc[u] = "writing"
    BY DEF IInv, TypeOK
  <2>4. WordAccounts' /\ OwnersExclude' /\ ReadWaiterBehindWriter'
    BY <2>2, <2>3 DEF IInv, WordAccounts, OwnersExclude, ReadWaiterBehindWriter
  <2>5. LocalsRemember' /\ SleepingWriterCovered' /\ SleepingReaderCovered'
    BY DEF IInv, TypeOK, LocalsRemember, SleepingWriterCovered, SleepingReaderCovered
  <2> QED
    BY <2>1, <2>4, <2>5 DEF IInv
<1>18. ASSUME UNCHANGED vars PROVE IInv'
  BY <1>18 DEF vars, IInv, TypeOK, WordAccounts, OwnersExclude, ReadWaiterBehindWriter,
     LocalsRemember, SleepingWriterCovered, SleepingReaderCovered
<1> QED
  BY <1>1, <1>2, <1>3, <1>4, <1>5, <1>6, <1>7, <1>8, <1>9, <1>10, <1>11, <1>12, <1>13, <1>14,
     <1>15, <1>16, <1>17, <1>18 DEF Next, Step, Release

-----------------------------------------------------------------------------
(* IInv holds in every reachable state of the mutex, for any number of     *)
(* threads that its counters can hold.                                     *)
THEOREM Inductive == Spec => []IInv
BY InitIInv, NextIInv, PTL DEF Spec

(* Every variable keeps its type; in particular neither count ever leaves  *)
(* its bit-field.                                                          *)
THEOREM TypeCorrect == Spec => []TypeOK
<1>1. IInv => TypeOK
  BY DEF IInv
<1> QED
  BY <1>1, Inductive, PTL

(* A writer is alone: lock() and lock_shared() exclude each other and two  *)
(* lock() calls exclude each other.                                        *)
THEOREM Exclusion == Spec => []MutualExclusion
<1>1. IInv => MutualExclusion
  <2> SUFFICES ASSUME IInv, NEW t \in Threads, pc[t] = "writing",
                      NEW u \in Threads \ {t}
               PROVE  pc[u] # "writing" /\ pc[u] # "reading"
    BY DEF MutualExclusion
  <2>1. pc[u] # "writing"
    BY DEF IInv, OwnersExclude
  <2>2. Futex.ReadOwners = 0
    BY DEF IInv, WordAccounts, OwnersExclude
  <2>3. pc[u] # "reading"
    BY <2>2, Reading
  <2> QED
    BY <2>1, <2>3
<1> QED
  BY <1>1, Inductive, PTL

(* The word counts exactly the threads that hold or wait for the lock.     *)
THEOREM Accounting == Spec => []WordAccounts
<1>1. IInv => WordAccounts
  BY DEF IInv
<1> QED
  BY <1>1, Inductive, PTL

(* No sleeper is left behind without somebody on the way to wake it.       *)
THEOREM WakeupsArrive == Spec => []NoLostWakeup
<1>1. IInv => NoLostWakeup
  <2> SUFFICES ASSUME IInv PROVE NoLostWakeup
    OBVIOUS
  <2>1. ReaderMayTake(Futex) => ~Futex.ReadWaiter
    BY ThreadsAssumption, SMT DEF IInv, TypeOK, Word, ReadWaiterBehindWriter, ReaderMayTake
  <2> QED
    BY <2>1 DEF IInv, NoLostWakeup, SleepingWriterCovered, SleepingReaderCovered
<1> QED
  BY <1>1, Inductive, PTL

-----------------------------------------------------------------------------
(* The mutex implements the reader/writer lock its callers rely on.        *)
Mode == [t \in Threads |-> ModeOf(pc[t])]

(* A move of one thread changes its mode and no other.                     *)
LEMMA ModeMoves ==
  ASSUME TypeOK, NEW t \in Threads, NEW l \in PC, Moves(t, l)
  PROVE  Mode' = [Mode EXCEPT ![t] = ModeOf(l)]
BY DEF TypeOK, Moves, Mode

(* A move between two places of one mode changes no mode.                  *)
LEMMA ModeKept ==
  ASSUME TypeOK, NEW t \in Threads, NEW l \in PC, Moves(t, l), ModeOf(l) = ModeOf(pc[t])
  PROVE  Mode' = Mode
BY DEF TypeOK, Moves, Mode

(* What a word that lets a writer, or a reader, in says about the modes.   *)
LEMMA FreeForWriter ==
  ASSUME IInv, WriterMayTake(Futex)
  PROVE  Lock!In("write") = {} /\ Lock!In("read") = {}
<1>1. \A u \in Threads : pc[u] # "writing" /\ pc[u] # "reading"
  BY Reading DEF IInv, WordAccounts, WriterMayTake
<1> QED
  BY <1>1 DEF Lock!In, ModeOf, WriterPC

(* A word that admits a reader: nobody writes or waits to write.           *)
LEMMA FreeForReader ==
  ASSUME IInv, ReaderMayTake(Futex)
  PROVE  Lock!In("write") = {} /\ Lock!In("waiting") = {}
<1>1. \A u \in Threads : pc[u] # "writing" /\ pc[u] \notin WriterPC
  BY Registered DEF IInv, WordAccounts, ReaderMayTake
<1> QED
  BY <1>1 DEF Lock!In, ModeOf, WriterPC

(* Every step of the mutex is a step of the contract or keeps every mode.  *)
LEMMA StepRefines == IInv /\ [Next]_vars => [Lock!LockNext]_Mode
<1> SUFFICES ASSUME IInv, [Next]_vars PROVE Lock!LockNext \/ Mode' = Mode
  OBVIOUS
<1> USE DEF Goto, Moves
<1>1. ASSUME NEW t \in Threads,
             \/ CallLock(t) \/ CallLockShared(t) \/ FutexWaitForWriteAvailable(t) \/ ReloadWrite(t)
             \/ WriteTimeout(t) \/ FutexWaitForReadAvailable(t) \/ ReloadRead(t) \/ Interrupted(t)
      PROVE  Mode' = Mode
  <2>1. PICK l \in PC : pc' = [pc EXCEPT ![t] = l] /\ ModeOf(l) = ModeOf(pc[t])
    BY <1>1, SMT DEF CallLock, CallLockShared, FutexWaitForWriteAvailable, ReloadWrite, WriterSaw,
       WriteTimeout, FutexWaitForReadAvailable, ReloadRead, Interrupted, PC, ModeOf, WriterPC, ReaderPC
  <2> QED
    BY <2>1, ModeKept DEF IInv
<1>2. ASSUME NEW t \in Threads, TryLock(t) PROVE Lock!LockNext \/ Mode' = Mode
  <2>1. CASE Futex # Unlocked
    <3>1. ModeOf("w_reg") = ModeOf("w_try")
      BY DEF ModeOf, WriterPC
    <3> QED
      BY <1>2, <2>1, <3>1, ModeKept DEF TryLock, PC, IInv
  <2>2. CASE Futex = Unlocked
    <3>1. WriterMayTake(Futex)
      BY <2>2 DEF WriterMayTake, Unlocked
    <3>2. Mode' = [Mode EXCEPT ![t] = "write"] /\ Mode[t] = "none"
      BY <1>2, <2>2, ModeMoves DEF TryLock, PC, ModeOf, WriterPC, IInv, Mode
    <3>3. Lock!AcquireWrite(t)
      BY <3>1, <3>2, FreeForWriter DEF Lock!AcquireWrite, Lock!Become, Mode
    <3> QED
      BY <3>3 DEF Lock!LockNext
  <2> QED
    BY <2>1, <2>2
<1>3. ASSUME NEW t \in Threads, RegisterWriter(t) PROVE Lock!LockNext
  <2>1. PICK l \in {"w_cas", "w_wait"} : pc' = [pc EXCEPT ![t] = l]
    BY <1>3 DEF RegisterWriter, WriterSaw
  <2>2. Mode' = [Mode EXCEPT ![t] = "waiting"] /\ Mode[t] = "none"
    BY <1>3, <2>1, ModeMoves DEF RegisterWriter, PC, ModeOf, WriterPC, IInv, Mode
  <2>3. Lock!Await(t)
    BY <2>2 DEF Lock!Await, Lock!Become, Mode
  <2> QED
    BY <2>3 DEF Lock!LockNext
<1>4. ASSUME NEW t \in Threads, TakeWrite(t) PROVE Lock!LockNext \/ Mode' = Mode
  <2>1. CASE Futex # exp[t]
    <3>1. PICK l \in {"w_cas", "w_wait"} : pc' = [pc EXCEPT ![t] = l]
      BY <1>4, <2>1 DEF TakeWrite, WriterSaw
    <3> QED
      BY <1>4, <3>1, ModeKept DEF TakeWrite, PC, ModeOf, WriterPC, IInv
  <2>2. CASE Futex = exp[t]
    <3>1. WriterMayTake(Futex)
      BY <1>4, <2>2 DEF TakeWrite, IInv, LocalsRemember
    <3>2. Mode' = [Mode EXCEPT ![t] = "write"] /\ Mode[t] = "waiting"
      BY <1>4, <2>2, ModeMoves DEF TakeWrite, PC, ModeOf, WriterPC, IInv, Mode
    <3>3. Lock!AcquireWrite(t)
      BY <3>1, <3>2, FreeForWriter DEF Lock!AcquireWrite, Lock!Become, Mode
    <3> QED
      BY <3>3 DEF Lock!LockNext
  <2> QED
    BY <2>1, <2>2
<1>5. ASSUME NEW t \in Threads, Withdraw(t) PROVE Lock!LockNext
  <2>1. PICK l \in {"wake_r", "wake_w", "idle"} : pc' = [pc EXCEPT ![t] = l]
    BY <1>5 DEF Withdraw
  <2>2. Mode' = [Mode EXCEPT ![t] = "none"] /\ Mode[t] = "waiting"
    BY <1>5, <2>1, ModeMoves DEF Withdraw, PC, ModeOf, WriterPC, IInv, Mode
  <2>3. Lock!GiveUp(t)
    BY <2>2 DEF Lock!GiveUp, Lock!Become, Mode
  <2> QED
    BY <2>3 DEF Lock!LockNext
<1>6. ASSUME NEW t \in Threads, Unlock(t) \/ UnlockShared(t) PROVE Lock!LockNext
  <2>1. PICK l \in {"wake_r", "wake_w", "idle"} : pc' = [pc EXCEPT ![t] = l]
    BY <1>6 DEF Unlock, UnlockShared
  <2>2. Mode' = [Mode EXCEPT ![t] = "none"] /\ Mode[t] \in {"write", "read"}
    BY <1>6, <2>1, ModeMoves DEF Unlock, UnlockShared, PC, ModeOf, WriterPC, IInv, Mode
  <2>3. Lock!ReleaseLock(t)
    BY <2>2 DEF Lock!ReleaseLock, Lock!Become, Mode
  <2> QED
    BY <2>3 DEF Lock!LockNext
<1>7. ASSUME NEW t \in Threads, TakeRead(t) PROVE Lock!LockNext \/ Mode' = Mode
  <2>1. CASE Futex # exp[t]
    BY <1>7, <2>1 DEF TakeRead, Mode
  <2>2. CASE Futex = exp[t] /\ ~ReaderMayTake(Futex)
    <3>1. ModeOf("r_wait") = ModeOf("r_cas")
      BY DEF ModeOf, WriterPC
    <3> QED
      BY <1>7, <2>2, <3>1, ModeKept DEF TakeRead, PC, ReaderPC, IInv
  <2>3. CASE Futex = exp[t] /\ ReaderMayTake(Futex)
    <3>1. Mode' = [Mode EXCEPT ![t] = "read"] /\ Mode[t] = "none"
      BY <1>7, <2>3, ModeMoves DEF TakeRead, PC, ModeOf, WriterPC, IInv, Mode
    <3>2. Lock!AcquireRead(t)
      BY <2>3, <3>1, FreeForReader DEF Lock!AcquireRead, Lock!Become, Mode
    <3> QED
      BY <3>2 DEF Lock!LockNext
  <2> QED
    BY <2>1, <2>2, <2>3
<1>8. ASSUME NEW t \in Threads, FutexWakeWriter(t) \/ FutexWakeReaders(t) PROVE Mode' = Mode
  <2>1. \A u \in Threads : ModeOf(pc'[u]) = ModeOf(pc[u])
    BY <1>8, SMT DEF FutexWakeWriter, FutexWakeReaders, At, ModeOf, WriterPC, IInv, TypeOK
  <2> QED
    BY <2>1 DEF Mode
<1>9. ASSUME UNCHANGED vars PROVE Mode' = Mode
  BY <1>9 DEF vars, Mode
<1> QED
  BY <1>1, <1>2, <1>3, <1>4, <1>5, <1>6, <1>7, <1>8, <1>9 DEF Next, Step, Release

(* lock(), try_lock_for(), lock_shared() and their unlocks behave, for any *)
(* interleaving of their atomic steps, as the reader/writer lock with      *)
(* writer priority of module RWLock.                                       *)
THEOREM Refinement == Spec => RefinesRWLock
<1>1. Init => Lock!LockInit
  BY DEF Init, Lock!LockInit, ModeOf, WriterPC
<1>2. [Lock!LockNext]_Mode <=> [Lock!LockNext]_[t \in Threads |-> ModeOf(pc[t])]
  BY DEF Mode
<1> QED
  BY <1>1, <1>2, StepRefines, Inductive, PTL DEF Spec, RefinesRWLock, Lock!LockSpec
=============================================================================
