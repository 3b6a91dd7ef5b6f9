-------------------------- MODULE CodeMaps_proofs --------------------------
(***************************************************************************)
(* The writer of a code map, for any number of threads and files, any      *)
(* buffer and any size of the library records: exactly one thread flushes  *)
(* an exhausted buffer, the claims being copied lie inside it and never    *)
(* overlap, and the code map is whole.                                     *)
(*                                                                         *)
(* OneFlusher and ClaimsDisjoint are not inductive without each other: a   *)
(* flush may reset BufferOffset only because the lock keeps the copies     *)
(* out, so IInv also says who holds the lock.  WholeInv, on top of it,     *)
(* says where each finished record lies (Placed), that the copies under    *)
(* way end below the flush that is owed, that a record being appended is a *)
(* new one, and which thread owes which library record.                    *)
(*                                                                         *)
(* The server that merges the code maps, for any number of processes,      *)
(* libraries, blocks and crashes: it deletes none that is in use, loses no *)
(* block of one it deletes unless it was killed or two maps named the      *)
(* library, and ends only when it is killed.  UseInv says that a map in    *)
(* use has one user and is not queued; MergeInv where each block of a      *)
(* deleted map is until it is in a reference map.                          *)
(***************************************************************************)
EXTENDS CodeMapWriter, CodeMapsState, FiniteSetTheorems, TLAPS

(* Zenon is tried where a leaf does not name a prover.                     *)
USE Zenon

Responsible(t) == pc[t] = "flush" /\ Offset[t] <= Capacity

(* OneFlusher, thread by thread.                                           *)
FlusherInv ==
  /\ BufferOffset > Capacity =>
       \E t \in Threads : Responsible(t) /\ \A u \in Threads : Responsible(u) => u = t
  /\ BufferOffset <= Capacity => \A t \in Threads : ~Responsible(t)

(* The claim of t lies in the buffer and below the next one.               *)
InBounds(t) ==
  /\ Offset[t] + SizeOf(rec[t]) <= Capacity
  /\ Offset[t] + SizeOf(rec[t]) <= BufferOffset

Apart(t, u) ==
  \/ Offset[t] + SizeOf(rec[t]) <= Offset[u]
  \/ Offset[u] + SizeOf(rec[u]) <= Offset[t]

(* ClaimsDisjoint, and that nobody else holds the lock.                    *)
CopyInv ==
  /\ \A t \in Threads : pc[t] = "copy" <=> t \in shared
  /\ \A t \in Threads : pc[t] = "copy" => InBounds(t)
  /\ \A t, u \in Threads : t # u /\ pc[t] = "copy" /\ pc[u] = "copy" => Apart(t, u)

IInv == TypeOK /\ FlusherInv /\ CopyInv

(* A record's size, of AppendLibraryLoad and AppendBlock, is positive and  *)
(* at most that of a library record.                                       *)
LEMMA SizeType == \A r \in Records : SizeOf(r) \in Nat /\ SizeOf(r) >= 1 /\ SizeOf(r) <= LibrarySize
BY WriterAssumption, SMT DEF SizeOf

(* A library record and a block's record of one block are both records.    *)
LEMMA RecordType ==
  \A r \in Records : LibraryRecord(r) \in Records /\ BlockRecord(r) \in Records
BY DEF Records, LibraryRecord, BlockRecord

(* What Flush writes, up to n cells of the buffer, are cells.              *)
LEMMA WriteOutType ==
  ASSUME TypeOK, NEW n \in Nat, n <= Capacity, WriteOut(n)
  PROVE  file' \in Seq(Cells \union {NoCell})
<1> DEFINE S == Cells \union {NoCell}
<1> DEFINE tail == [i \in 1..n |-> Buffer[i - 1]]
<1>1. \A i \in 1..n : i - 1 \in 0..(Capacity - 1)
  BY WriterAssumption, SMT
<1>2. tail \in [1..n -> S]
  BY <1>1 DEF TypeOK
<1>3. tail \in Seq(S)
  BY <1>2, SMT
<1>4. file \in Seq(S)
  BY DEF TypeOK
<1> HIDE DEF tail, S
<1>5. file \o tail \in Seq(S)
  BY <1>3, <1>4, SMT
<1> QED
  BY <1>5 DEF WriteOut, tail, S

(* The two forms of OneFlusher agree.                                      *)
LEMMA FlusherForms == ASSUME TypeOK PROVE FlusherInv <=> OneFlusher
<1> DEFINE R == {t \in Holders("flush") : IsResponsibleForFlush(t)}
<1>1. \A t \in Threads : t \in R <=> Responsible(t)
  BY DEF Holders, IsResponsibleForFlush, Responsible
<1>2. R \subseteq Threads
  BY DEF Holders
<1>3. OneFlusher <=> /\ BufferOffset > Capacity => \E t \in Threads : R = {t}
                     /\ BufferOffset <= Capacity => R = {}
  BY DEF OneFlusher
<1> HIDE DEF R
<1>4. \A t \in Threads : R = {t} <=> t \in R /\ \A u \in Threads : u \in R => u = t
  BY <1>2
<1>5. R = {} <=> \A t \in Threads : t \notin R
  BY <1>2
<1> QED
  BY <1>1, <1>3, <1>4, <1>5 DEF FlusherInv

(* CopyInv is more than ClaimsDisjoint.                                    *)
LEMMA CopyGivesDisjoint == CopyInv => ClaimsDisjoint
BY DEF CopyInv, ClaimsDisjoint, Holders, InBounds, Apart

-----------------------------------------------------------------------------
(* A writer nobody has used satisfies the invariant.                       *)
LEMMA InitIInv == Init => IInv
<1> SUFFICES ASSUME Init PROVE IInv
  OBVIOUS
<1>1. TypeOK
  <2>1. rec \in [Threads -> Records]
    BY DEF Init
  <2>2. Buffer \in [0..(Capacity - 1) -> Cells \union {NoCell}]
    BY DEF Init
  <2>3. pc \in [Threads -> Places]
    BY DEF Init, Places
  <2>4. count \in [Threads -> 0..MaxBlocks] /\ forks \in 0..MaxForks
    BY WriterAssumption, SMT DEF Init
  <2>5. file \in Seq(Cells \union {NoCell})
    BY SMT DEF Init
  <2> QED
    BY <2>1, <2>2, <2>3, <2>4, <2>5 DEF Init, TypeOK
<1>2. FlusherInv
  BY WriterAssumption, SMT DEF Init, FlusherInv, Responsible
<1>3. CopyInv
  BY DEF Init, CopyInv
<1> QED
  BY <1>1, <1>2, <1>3 DEF IInv

(* A step that moves one thread, neither into nor out of its copy or its   *)
(* flush, and leaves the buffer's offset alone, keeps both invariants.     *)
LEMMA QuietStep ==
  ASSUME IInv, NEW t \in Threads, NEW place,
         pc[t] \notin {"copy", "flush"}, place \notin {"copy", "flush"},
         pc' = [pc EXCEPT ![t] = place],
         \A u \in Threads \ {t} : rec'[u] = rec[u],
         UNCHANGED <<Offset, shared, BufferOffset>>
  PROVE  FlusherInv' /\ CopyInv'
<1>1. \A u \in Threads : pc'[u] = IF u = t THEN place ELSE pc[u]
  BY DEF IInv, TypeOK
<1>2. \A u \in Threads : Responsible(u)' <=> Responsible(u)
  BY <1>1 DEF Responsible
<1>3. FlusherInv'
  BY <1>2 DEF IInv, FlusherInv
<1>4. \A u \in Threads : pc'[u] = "copy" <=> pc[u] = "copy"
  BY <1>1
<1>5. \A u \in Threads : pc[u] = "copy" => rec'[u] = rec[u]
  OBVIOUS
<1>6. \A u \in Threads : pc[u] = "copy" => (InBounds(u)' <=> InBounds(u))
  BY <1>5 DEF InBounds, SizeOf
<1>7. \A u, v \in Threads : pc[u] = "copy" /\ pc[v] = "copy" => (Apart(u, v)' <=> Apart(u, v))
  BY <1>5 DEF Apart, SizeOf
<1>8. CopyInv'
  BY <1>4, <1>6, <1>7 DEF IInv, CopyInv
<1> QED
  BY <1>3, <1>8

(* Every step keeps the types: only Flush needs more, the bound on what it *)
(* writes.                                                                 *)
LEMMA NextTypeOK == ASSUME IInv, [Next]_vars PROVE TypeOK'
<1>t. TypeOK
  BY DEF IInv
<1>1. ASSUME NEW t \in Threads, AppendBlock(t) PROVE TypeOK'
  <2>1. PICK f \in Files : rec' = [rec EXCEPT ![t] = [kind |-> "block", file |-> f, by |-> t, n |-> count[t]]]
    BY <1>1 DEF AppendBlock, SetRec
  <2>2. rec' \in [Threads -> Records]
    BY <1>t, <2>1 DEF TypeOK, Records
  <2>3. count' \in [Threads -> 0..MaxBlocks]
    BY <1>t, <1>1, WriterAssumption, SMT DEF TypeOK, AppendBlock
  <2>4. pc' \in [Threads -> Places]
    BY <1>t, <1>1 DEF TypeOK, AppendBlock, Goto, Places
  <2> QED
    BY <1>t, <1>1, <2>2, <2>3, <2>4 DEF TypeOK, AppendBlock, fileVars, bufferVars
<1>2. ASSUME NEW t \in Threads, IsWriteEnabled(t) PROVE TypeOK'
  <2>1. pc' \in [Threads -> Places]
    BY <1>t, <1>2 DEF TypeOK, IsWriteEnabled, Goto, Places
  <2>2. CodeMapFD' \in {"nullopt", "denied", "open", "closed"}
    BY <1>t, <1>2 DEF TypeOK, IsWriteEnabled
  <2> QED
    BY <1>t, <1>2, <2>1, <2>2 DEF TypeOK, IsWriteEnabled, bufferVars, bounds
<1>3. ASSUME NEW t \in Threads, CheckKnown(t) PROVE TypeOK'
  <2>1. pc' \in [Threads -> Places]
    BY <1>t, <1>3 DEF TypeOK, CheckKnown, Goto, Places
  <2> QED
    BY <1>t, <1>3, <2>1 DEF TypeOK, CheckKnown, fileVars, bufferVars, bounds
<1>4. ASSUME NEW t \in Threads, Register(t) PROVE TypeOK'
  <2>1. pc' \in [Threads -> Places]
    BY <1>t, <1>4 DEF TypeOK, Register, Goto, Places
  <2>2. rec[t] \in Records /\ LibraryRecord(rec[t]) \in Records
    BY <1>t, RecordType DEF TypeOK
  <2>3. rec' \in [Threads -> Records]
    BY <1>t, <1>4, <2>2 DEF TypeOK, Register, SetRec
  <2>4. rec[t].file \in Files
    BY <2>2 DEF Records
  <2> QED
    BY <1>t, <1>4, <2>1, <2>3, <2>4 DEF TypeOK, Register, fileVars, bufferVars, bounds
<1>5. ASSUME NEW t \in Threads, Claim(t) PROVE TypeOK'
  <2>1. pc' \in [Threads -> Places] /\ shared' \subseteq Threads
    BY <1>t, <1>5 DEF TypeOK, Claim, Goto, Places
  <2>2. BufferOffset' \in Nat /\ Offset' \in [Threads -> Nat]
    BY <1>t, <1>5, SizeType, SMT DEF TypeOK, Claim
  <2> QED
    BY <1>t, <1>5, <2>1, <2>2 DEF TypeOK, Claim, fileVars, bounds
<1>6. ASSUME NEW t \in Threads, Copy(t) PROVE TypeOK'
  <2>1. pc' \in [Threads -> Places] /\ shared' \subseteq Threads
    BY <1>t, <1>6 DEF TypeOK, Copy, Goto, Places
  <2>2. rec[t] \in Records /\ BlockRecord(rec[t]) \in Records
    BY <1>t, RecordType DEF TypeOK
  <2>3. rec' \in [Threads -> Records] /\ done' \subseteq Records
    BY <1>t, <1>6, <2>2 DEF TypeOK, Copy, SetRec
  <2>4. \A i \in Claimed(t) : PartAt(t, i) \in 1..LibrarySize
    BY <1>t, <2>2, SizeType, WriterAssumption, SMT DEF TypeOK, Claimed, PartAt
  <2>5. \A i \in Claimed(t) : [rec |-> rec[t], part |-> PartAt(t, i)] \in Cells
    BY <2>2, <2>4 DEF Cells
  <2>6. Buffer' \in [0..(Capacity - 1) -> Cells \union {NoCell}]
    BY <1>t, <1>6, <2>5 DEF TypeOK, Copy
  <2> QED
    BY <1>t, <1>6, <2>1, <2>3, <2>6 DEF TypeOK, Copy, fileVars, bounds
<1>7. ASSUME NEW t \in Threads, FlushBelow(t) PROVE TypeOK'
  <2>1. pc' \in [Threads -> Places]
    BY <1>t, <1>7 DEF TypeOK, FlushBelow, Goto, Places
  <2>2. Offset[t] \in Nat
    BY <1>t DEF TypeOK
  <2>3. CASE IsResponsibleForFlush(t)
    <3>1. file' \in Seq(Cells \union {NoCell})
      BY <1>t, <1>7, <2>2, <2>3, WriteOutType DEF FlushBelow, IsResponsibleForFlush
    <3> QED
      BY <1>t, <1>7, <2>1, <2>3, <3>1, SMT DEF TypeOK, FlushBelow, bounds
  <2>4. CASE ~IsResponsibleForFlush(t)
    BY <1>t, <1>7, <2>1, <2>4 DEF TypeOK, FlushBelow, bounds
  <2> QED
    BY <2>3, <2>4
<1>8. ASSUME NEW t \in Threads, SpinWait(t) PROVE TypeOK'
  <2>1. pc' \in [Threads -> Places]
    BY <1>t, <1>8 DEF TypeOK, SpinWait, Goto, Places
  <2> QED
    BY <1>t, <1>8, <2>1 DEF TypeOK, SpinWait, fileVars, bufferVars, bounds
<1>9. CASE Close
  <2>1. BufferOffset \in Nat /\ Capacity \in Nat
    BY <1>t, WriterAssumption DEF TypeOK
  <2>4. \A t \in Threads : ~Responsible(t)
    BY <1>9 DEF Close, Responsible
  <2>5. BufferOffset <= Capacity
    BY <2>1, <2>4, SMT DEF IInv, FlusherInv
  <2>2. CASE CodeMapFD = "open"
    <3>1. file' \in Seq(Cells \union {NoCell})
      BY <1>t, <1>9, <2>1, <2>2, <2>5, WriteOutType DEF Close
    <3> QED
      BY <1>t, <1>9, <2>2, <3>1, SMT DEF TypeOK, Close, bounds
  <2>3. CASE CodeMapFD # "open"
    BY <1>t, <1>9, <2>3 DEF TypeOK, Close, bounds
  <2> QED
    BY <2>2, <2>3
<1>10. ASSUME NEW t \in Threads, ResetAfterFork(t) PROVE TypeOK'
  <2>1. pc' \in [Threads -> Places]
    BY <1>t, <1>10 DEF TypeOK, ResetAfterFork, Places
  <2>2. CodeMapFD' \in {"nullopt", "denied", "open", "closed"}
    BY <1>t, <1>10 DEF TypeOK, ResetAfterFork
  <2>3. forks' \in 0..MaxForks
    BY <1>t, <1>10, WriterAssumption, SMT DEF TypeOK, ResetAfterFork
  <2>4. file' \in Seq(Cells \union {NoCell}) /\ KnownFileIds' \subseteq Files
    BY <1>10, SMT DEF ResetAfterFork, KnownInChild
  <2> QED
    BY <1>t, <1>10, <2>1, <2>2, <2>3, <2>4 DEF TypeOK, ResetAfterFork
<1>11. CASE UNCHANGED vars
  BY <1>t, <1>11 DEF TypeOK, vars, fileVars, bufferVars, bounds
<1> QED
  BY <1>1, <1>2, <1>3, <1>4, <1>5, <1>6, <1>7, <1>8, <1>9, <1>10, <1>11 DEF Next, Step

-----------------------------------------------------------------------------
(* AppendData's claim.  One that fits lies above every claim being copied; *)
(* the first that does not makes its thread the flusher, a later one       *)
(* starts out of bounds.                                                   *)
LEMMA ClaimKeeps == ASSUME IInv, NEW t \in Threads, Claim(t) PROVE FlusherInv' /\ CopyInv'
<1> DEFINE size == SizeOf(rec[t])
<1> DEFINE fits == BufferOffset + size <= Capacity
<1>t. TypeOK
  BY DEF IInv
<1>1. size \in Nat /\ size >= 1 /\ BufferOffset \in Nat /\ Capacity \in Nat
  BY <1>t, SizeType, WriterAssumption DEF TypeOK
<1>2. pc[t] = "claim" /\ rec' = rec /\ BufferOffset' = BufferOffset + size
  BY DEF Claim
<1>3. \A u \in Threads : Offset[u] \in Nat /\ SizeOf(rec[u]) \in Nat
  BY <1>t, SizeType DEF TypeOK
<1>4. \A u \in Threads : Offset'[u] = IF u = t THEN BufferOffset ELSE Offset[u]
  BY <1>t DEF TypeOK, Claim
<1>5. \A u \in Threads : SizeOf(rec[u])' = SizeOf(rec[u])
  BY <1>2 DEF SizeOf
<1>6. \A u \in Threads \ {t} : pc'[u] = pc[u]
  BY <1>t DEF TypeOK, Claim, Goto
<1>7. pc'[t] = IF fits THEN "copy" ELSE "flush"
  BY <1>t, <1>1, SMT DEF TypeOK, Claim, Goto
<1>8. shared' = IF fits THEN shared \union {t} ELSE shared
  BY <1>1, SMT DEF Claim
<1> HIDE DEF size, fits
<1>9. \A u \in Threads \ {t} : Responsible(u)' <=> Responsible(u)
  BY <1>4, <1>6 DEF Responsible
<1>10. ~Responsible(t)
  BY <1>2 DEF Responsible
<1>11. Responsible(t)' <=> ~fits /\ BufferOffset <= Capacity
  BY <1>4, <1>7 DEF Responsible
<1>12. FlusherInv'
  <2>1. CASE fits
    <3>1. BufferOffset <= Capacity /\ BufferOffset' <= Capacity
      BY <1>1, <1>2, <2>1, SMT DEF fits
    <3>2. \A u \in Threads : ~Responsible(u)'
      BY <1>9, <1>11, <2>1, <3>1 DEF IInv, FlusherInv
    <3> QED
      BY <1>1, <1>2, <3>1, <3>2, SMT DEF FlusherInv
  <2>2. CASE ~fits /\ BufferOffset <= Capacity
    <3>1. BufferOffset' > Capacity
      BY <1>1, <1>2, <2>2, SMT DEF fits
    <3>2. \A u \in Threads \ {t} : ~Responsible(u)'
      BY <1>9, <2>2 DEF IInv, FlusherInv
    <3>3. Responsible(t)'
      BY <1>11, <2>2
    <3> QED
      BY <1>1, <1>2, <3>1, <3>2, <3>3, SMT DEF FlusherInv
  <2>3. CASE ~fits /\ BufferOffset > Capacity
    <3>1. BufferOffset' > Capacity
      BY <1>1, <1>2, <2>3, SMT
    <3>2. PICK v \in Threads : Responsible(v) /\ \A u \in Threads : Responsible(u) => u = v
      BY <2>3 DEF IInv, FlusherInv
    <3>3. v # t /\ ~Responsible(t)'
      BY <1>1, <1>10, <1>11, <2>3, <3>2, SMT
    <3>4. Responsible(v)' /\ \A u \in Threads : Responsible(u)' => u = v
      BY <1>9, <3>2, <3>3
    <3> QED
      BY <1>1, <1>2, <3>1, <3>4, SMT DEF FlusherInv
  <2> QED
    BY <1>1, <2>1, <2>2, <2>3, SMT
<1>13. \A u \in Threads \ {t} : pc'[u] = "copy" => InBounds(u) /\ InBounds(u)'
  <2>1. \A u \in Threads \ {t} : pc'[u] = "copy" => InBounds(u)
    BY <1>6 DEF IInv, CopyInv
  <2> QED
    BY <1>1, <1>2, <1>3, <1>4, <1>5, <2>1, SMT DEF InBounds
<1>14. fits => InBounds(t)'
  BY <1>1, <1>2, <1>4, <1>5, SMT DEF InBounds, fits, size
<1>15. \A u \in Threads \ {t} : pc'[u] = "copy" => Apart(t, u)' /\ Apart(u, t)'
  BY <1>1, <1>3, <1>4, <1>5, <1>13 DEF InBounds, Apart
<1>16. \A u, v \in Threads \ {t} : u # v /\ pc'[u] = "copy" /\ pc'[v] = "copy" => Apart(u, v)'
  <2>1. \A u, v \in Threads \ {t} : u # v /\ pc'[u] = "copy" /\ pc'[v] = "copy" => Apart(u, v)
    BY <1>6 DEF IInv, CopyInv
  <2> QED
    BY <1>4, <1>5, <2>1 DEF Apart
<1>17. \A u \in Threads : pc'[u] = "copy" <=> u \in shared'
  BY <1>2, <1>6, <1>7, <1>8 DEF IInv, CopyInv
<1>18. CopyInv'
  BY <1>7, <1>13, <1>14, <1>15, <1>16, <1>17 DEF CopyInv
<1> QED
  BY <1>12, <1>18

(* The end of a copy frees its part of the buffer for the flush and        *)
(* changes nobody else's claim.                                            *)
LEMMA CopyKeeps == ASSUME IInv, NEW t \in Threads, Copy(t) PROVE FlusherInv' /\ CopyInv'
<1>t. TypeOK
  BY DEF IInv
<1>1. pc[t] = "copy" /\ UNCHANGED <<Offset, BufferOffset>> /\ shared' = shared \ {t}
  BY DEF Copy
<1>2. \A u \in Threads \ {t} : pc'[u] = pc[u] /\ rec'[u] = rec[u]
  BY <1>t DEF TypeOK, Copy, Goto, SetRec
<1>3. pc'[t] \in {"claim", "idle"}
  BY <1>t DEF TypeOK, Copy, Goto
<1>4. \A u \in Threads : Responsible(u)' <=> Responsible(u)
  BY <1>1, <1>2, <1>3 DEF Responsible
<1>5. FlusherInv'
  BY <1>1, <1>4 DEF IInv, FlusherInv
<1>6. \A u \in Threads : pc'[u] = "copy" => u # t /\ pc[u] = "copy"
  BY <1>2, <1>3
<1>7. \A u \in Threads \ {t} : InBounds(u)' <=> InBounds(u)
  BY <1>1, <1>2 DEF InBounds, SizeOf
<1>8. \A u, v \in Threads \ {t} : Apart(u, v)' <=> Apart(u, v)
  BY <1>1, <1>2 DEF Apart, SizeOf
<1>9. \A u \in Threads : pc'[u] = "copy" <=> u \in shared'
  BY <1>1, <1>2, <1>3 DEF IInv, CopyInv
<1>10. CopyInv'
  BY <1>6, <1>7, <1>8, <1>9 DEF IInv, CopyInv
<1> QED
  BY <1>5, <1>10

(* The flusher empties the buffer when nobody copies, and it was the only  *)
(* one responsible; the others only go on to spin.                         *)
LEMMA FlushKeeps == ASSUME IInv, NEW t \in Threads, FlushBelow(t) PROVE FlusherInv' /\ CopyInv'
<1>t. TypeOK
  BY DEF IInv
<1>1. pc[t] = "flush" /\ shared = {} /\ UNCHANGED <<Offset, shared, rec>>
  BY DEF FlushBelow
<1>2. \A u \in Threads \ {t} : pc'[u] = pc[u]
  BY <1>t DEF TypeOK, FlushBelow, Goto
<1>3. pc'[t] \in {"claim", "spin"}
  BY <1>t DEF TypeOK, FlushBelow, Goto
<1>4. \A u \in Threads : pc[u] # "copy"
  BY <1>1 DEF IInv, CopyInv
<1>5. CopyInv'
  BY <1>1, <1>2, <1>3, <1>4 DEF CopyInv
<1>6. ~Responsible(t)' /\ \A u \in Threads \ {t} : Responsible(u)' <=> Responsible(u)
  BY <1>1, <1>2, <1>3 DEF Responsible
<1>7. CASE IsResponsibleForFlush(t)
  <2>1. Responsible(t)
    BY <1>1, <1>7 DEF Responsible, IsResponsibleForFlush
  <2>2. BufferOffset > Capacity
    BY <1>t, <2>1, WriterAssumption, SMT DEF IInv, FlusherInv, TypeOK
  <2>3. \A u \in Threads : ~Responsible(u)'
    BY <1>6, <2>1, <2>2 DEF IInv, FlusherInv
  <2>4. BufferOffset' = 0
    BY <1>7 DEF FlushBelow
  <2>5. FlusherInv'
    BY <2>3, <2>4, WriterAssumption, SMT DEF FlusherInv
  <2> QED
    BY <1>5, <2>5
<1>8. CASE ~IsResponsibleForFlush(t)
  <2>1. ~Responsible(t) /\ BufferOffset' = BufferOffset
    BY <1>8 DEF Responsible, IsResponsibleForFlush, FlushBelow
  <2>2. \A u \in Threads : Responsible(u)' <=> Responsible(u)
    BY <1>6, <2>1
  <2>3. FlusherInv'
    BY <2>1, <2>2 DEF IInv, FlusherInv
  <2> QED
    BY <1>5, <2>3
<1> QED
  BY <1>7, <1>8

-----------------------------------------------------------------------------
(* Every step of the writer keeps the invariant.                           *)
LEMMA NextIInv == IInv /\ [Next]_vars => IInv'
<1> SUFFICES ASSUME IInv, [Next]_vars PROVE FlusherInv' /\ CopyInv'
  BY NextTypeOK DEF IInv
<1>t. TypeOK
  BY DEF IInv
<1>r. \A t, u \in Threads : u # t => \A r : [rec EXCEPT ![t] = r][u] = rec[u]
  BY <1>t DEF TypeOK
<1>1. ASSUME NEW t \in Threads, AppendBlock(t) PROVE FlusherInv' /\ CopyInv'
  <2>1. \A u \in Threads \ {t} : rec'[u] = rec[u]
    BY <1>1, <1>r, SMT DEF AppendBlock, SetRec
  <2>2. PICK place \in {"known", "open"} : pc' = [pc EXCEPT ![t] = place]
    BY <1>1 DEF AppendBlock, Goto
  <2> QED
    BY <1>1, <2>1, <2>2, QuietStep DEF AppendBlock, bufferVars
<1>2. ASSUME NEW t \in Threads, IsWriteEnabled(t) PROVE FlusherInv' /\ CopyInv'
  <2>1. PICK place \in {"known", "idle"} : pc' = [pc EXCEPT ![t] = place]
    BY <1>2 DEF IsWriteEnabled, Goto
  <2> QED
    BY <1>2, <2>1, QuietStep DEF IsWriteEnabled, bufferVars
<1>3. ASSUME NEW t \in Threads, CheckKnown(t) PROVE FlusherInv' /\ CopyInv'
  <2>1. PICK place \in {"claim", "register"} : pc' = [pc EXCEPT ![t] = place]
    BY <1>3 DEF CheckKnown, Goto
  <2> QED
    BY <1>3, <2>1, QuietStep DEF CheckKnown, bufferVars
<1>4. ASSUME NEW t \in Threads, Register(t) PROVE FlusherInv' /\ CopyInv'
  <2>1. \A u \in Threads \ {t} : rec'[u] = rec[u]
    BY <1>4, <1>r, SMT DEF Register, SetRec
  <2> QED
    BY <1>4, <2>1, QuietStep DEF Register, Goto, bufferVars
<1>8. ASSUME NEW t \in Threads, SpinWait(t) PROVE FlusherInv' /\ CopyInv'
  BY <1>8, QuietStep DEF SpinWait, Goto, bufferVars
<1>9. CASE Close
  <2>1. \A t \in Threads : pc[t] \notin {"copy", "flush"} /\ ~Responsible(t)
    BY <1>9 DEF Close, Responsible
  <2>2. BufferOffset <= Capacity /\ BufferOffset' \in {0, BufferOffset}
    BY <1>t, <1>9, <2>1, WriterAssumption, SMT DEF Close, IInv, FlusherInv, TypeOK
  <2>3. UNCHANGED <<pc, Offset, shared>>
    BY <1>9 DEF Close
  <2>4. FlusherInv'
    BY <1>t, <2>1, <2>2, <2>3, WriterAssumption, SMT DEF FlusherInv, Responsible, TypeOK
  <2>5. CopyInv'
    BY <2>1, <2>3 DEF IInv, CopyInv
  <2> QED
    BY <2>4, <2>5
<1>10. ASSUME NEW t \in Threads, ResetAfterFork(t) PROVE FlusherInv' /\ CopyInv'
  <2>1. \A u \in Threads : pc[u] # "copy" /\ pc'[u] \notin {"copy", "flush"}
    BY <1>10 DEF ResetAfterFork
  <2>2. BufferOffset' = 0 /\ shared' = shared
    BY <1>10 DEF ResetAfterFork
  <2>3. FlusherInv'
    BY <2>1, <2>2, WriterAssumption, SMT DEF FlusherInv, Responsible
  <2>4. CopyInv'
    BY <2>1, <2>2 DEF IInv, CopyInv
  <2> QED
    BY <2>3, <2>4
<1>11. CASE UNCHANGED vars
  <2>1. UNCHANGED <<pc, rec, Offset, shared, BufferOffset>>
    BY <1>11 DEF vars, bufferVars
  <2>2. FlusherInv'
    BY <2>1 DEF IInv, FlusherInv, Responsible
  <2>3. CopyInv'
    BY <2>1 DEF IInv, CopyInv, InBounds, Apart, SizeOf
  <2> QED
    BY <2>2, <2>3
<1> QED
  BY <1>1, <1>2, <1>3, <1>4, ClaimKeeps, CopyKeeps, FlushKeeps, <1>8, <1>9, <1>10, <1>11
  DEF Next, Step

(* IInv holds throughout.                                                  *)
LEMMA Inductive == Spec => []IInv
BY InitIInv, NextIInv, PTL DEF Spec

(* Every variable of CodeMapWriter keeps its type.                         *)
THEOREM TypeCorrect == Spec => []TypeOK
<1>1. IInv => TypeOK
  BY DEF IInv
<1> QED
  BY Inductive, <1>1, PTL

(* When the buffer is exhausted exactly one thread is responsible for the  *)
(* flush of AppendData, and otherwise none.                                *)
THEOREM FlushedOnce == Spec => []OneFlusher
<1>1. IInv => OneFlusher
  BY FlusherForms DEF IInv
<1> QED
  BY Inductive, <1>1, PTL

(* The records being copied by AppendData lie in the buffer, are kept from *)
(* a flush by the lock, and do not overlap.                                *)
THEOREM CopiesApart == Spec => []ClaimsDisjoint
<1>1. IInv => ClaimsDisjoint
  BY CopyGivesDisjoint DEF IInv
<1> QED
  BY Inductive, <1>1, PTL

-----------------------------------------------------------------------------
(* Cell i of the buffer is one that the next flush will write.             *)
Below(i) ==
  /\ i \in Nat
  /\ BufferOffset <= Capacity => i < BufferOffset
  /\ BufferOffset > Capacity => \E t \in Threads : Responsible(t) /\ i < Offset[t]

(* Nobody is still copying into it.                                        *)
Free(i) == \A t \in Threads : pc[t] = "copy" => i \notin Claimed(t)

(* The record r occupies SizeOf(r) consecutive cells from k on, in order.  *)
InFile(r, k) ==
  /\ \A i \in DOMAIN file : file[i].rec = r <=> i \in k..(k + SizeOf(r) - 1)
  /\ \A i \in k..(k + SizeOf(r) - 1) : i \in DOMAIN file /\ file[i].part = i - k + 1

InBuffer(r, k) ==
  /\ \A i \in Settled : Buffer[i].rec = r <=> i \in k..(k + SizeOf(r) - 1)
  /\ \A i \in k..(k + SizeOf(r) - 1) : i \in Settled /\ Buffer[i].part = i - k + 1

NotInFile(r) == \A i \in DOMAIN file : file[i].rec # r
NotInBuffer(r) == \A i \in Settled : Buffer[i].rec # r

(* A finished record is in one place and in one piece; any other nowhere.  *)
Placed(r) ==
  IF r \in done
  THEN \/ NotInBuffer(r) /\ \E k \in DOMAIN file : InFile(r, k)
       \/ NotInFile(r) /\ \E k \in Settled : InBuffer(r, k)
  ELSE NotInFile(r) /\ NotInBuffer(r)

(* Copies end where the flush that is owed begins.                         *)
BelowFlush ==
  \A t, u \in Threads :
    pc[t] = "copy" /\ Responsible(u) => Offset[t] + SizeOf(rec[t]) <= Offset[u]

StoreInv ==
  /\ BelowFlush
  /\ \A i \in DOMAIN file : file[i] \in Cells
  /\ \A i \in Settled : Buffer[i] \in Cells
  /\ \A r \in Records : Placed(r)

(* A thread in AppendBlock is at its latest block, whose record it has yet *)
(* to finish, and the library's before it if it owes that.                 *)
Appending(t) == pc[t] \notin {"idle", "gone"}
Owing(t) == pc[t] \in {"claim", "copy", "flush", "spin"} /\ rec[t].kind = "library"

NameInv ==
  /\ \A t \in Threads : rec[t].by = t
  /\ \A t \in Threads : Appending(t) => rec[t].n = count[t] - 1
  /\ \A t \in Threads : ~Owing(t) => rec[t].kind = "block"
  /\ \A r \in done : r.n < count[r.by]
  /\ \A t \in Threads : Appending(t) =>
       \A r \in done : r.by = t /\ r.n = rec[t].n =>
         rec[t].kind = "block" /\ r.kind = "library" /\ r.file = rec[t].file

(* LibraryOnce, without counting.                                          *)
Named(f) == \E r \in done : r.kind = "library" /\ r.file = f
LibraryInv ==
  /\ \A r \in done : r.kind = "library" => r.file \in KnownFileIds
  /\ \A r, q \in done : r.kind = "library" /\ q.kind = "library" /\ r.file = q.file => r = q
  /\ \A t \in Threads : Owing(t) => rec[t].file \in KnownFileIds /\ ~Named(rec[t].file)
  /\ \A t, u \in Threads : Owing(t) /\ Owing(u) /\ rec[t].file = rec[u].file => t = u
  /\ \A f \in KnownFileIds : Named(f) \/ \E t \in Threads : Owing(t) /\ rec[t].file = f

WholeInv == StoreInv /\ NameInv /\ LibraryInv

(* The cells a flush would write and nobody is copying into, without the   *)
(* CHOOSE of Filled: there is one flusher to choose.                       *)
LEMMA SettledForm == IInv => \A i : i \in Settled <=> Below(i) /\ Free(i)
<1> SUFFICES ASSUME IInv, NEW i PROVE i \in Settled <=> Below(i) /\ Free(i)
  OBVIOUS
<1>t. BufferOffset \in Nat /\ Capacity \in Nat /\ \A t \in Threads : Offset[t] \in Nat
  BY WriterAssumption DEF IInv, TypeOK
<1>1. i \in Settled <=> i \in 0..(Filled - 1) /\ Free(i)
  BY DEF Settled, Free, Holders
<1>2. CASE BufferOffset <= Capacity
  <2>1. Filled = BufferOffset
    BY <1>2 DEF Filled
  <2> QED
    BY <1>t, <1>1, <1>2, <2>1, SMT DEF Below
<1>3. CASE BufferOffset > Capacity
  <2>1. PICK t \in Threads : Responsible(t) /\ \A u \in Threads : Responsible(u) => u = t
    BY <1>3 DEF IInv, FlusherInv
  <2>2. \A u : u \in Holders("flush") /\ IsResponsibleForFlush(u) <=> u \in Threads /\ Responsible(u)
    BY DEF Holders, IsResponsibleForFlush, Responsible
  <2>3. (CHOOSE u \in Holders("flush") : IsResponsibleForFlush(u)) = t
    BY <2>1, <2>2
  <2>4. Filled = Offset[t]
    <3>1. ~(BufferOffset <= Capacity)
      BY <1>t, <1>3, SMT
    <3> QED
      BY <2>3, <3>1 DEF Filled
  <2>5. Below(i) <=> i \in Nat /\ i < Offset[t]
    BY <1>t, <1>3, <2>1, SMT DEF Below
  <2> QED
    BY <1>t, <1>1, <2>4, <2>5, SMT
<1> QED
  BY <1>t, <1>2, <1>3, SMT

(* A step that leaves the claims, the flusher and the offset alone leaves  *)
(* the same cells to be flushed.                                           *)
LEMMA SettledKept ==
  ASSUME IInv, IInv', BelowFlush, UNCHANGED <<Offset, BufferOffset>>,
         \A u \in Threads : Responsible(u)' <=> Responsible(u),
         \A u \in Threads : pc'[u] = "copy" <=> pc[u] = "copy",
         \A u \in Threads : pc[u] = "copy" => rec'[u] = rec[u]
  PROVE  Settled' = Settled /\ BelowFlush'
<1>1. \A i : i \in Settled <=> Below(i) /\ Free(i)
  BY SettledForm
<1>2. \A i : (i \in Settled)' <=> Below(i)' /\ Free(i)'
  <2>1. (\A i : i \in Settled <=> Below(i) /\ Free(i))'
    BY SettledForm, PTL
  <2> QED
    BY <2>1
<1>3. \A i : Below(i)' <=> Below(i)
  BY DEF Below
<1>4. \A u \in Threads : pc[u] = "copy" => Claimed(u)' = Claimed(u) /\ SizeOf(rec[u])' = SizeOf(rec[u])
  BY DEF Claimed, SizeOf
<1>5. \A i : Free(i)' <=> Free(i)
  BY <1>4 DEF Free
<1>6. Settled' = Settled
  BY <1>1, <1>2, <1>3, <1>5
<1>7. BelowFlush'
  BY <1>4 DEF BelowFlush
<1> QED
  BY <1>6, <1>7

(* A step that also leaves the file, the buffer and the finished records   *)
(* alone keeps every record in its place.                                  *)
LEMMA StoreKept ==
  ASSUME StoreInv, Settled' = Settled, BelowFlush', UNCHANGED <<file, Buffer, done>>
  PROVE  StoreInv'
<1>1. \A r \in Records : Placed(r)'
  BY DEF StoreInv, Placed, InFile, InBuffer, NotInFile, NotInBuffer
<1> QED
  BY <1>1 DEF StoreInv

(* The claim of AppendData moves the end of the buffer, not what is filled *)
(* below it.                                                               *)
LEMMA ClaimStores ==
  ASSUME IInv, IInv', StoreInv, NEW t \in Threads, Claim(t)
  PROVE  StoreInv'
<1> DEFINE size == SizeOf(rec[t])
<1>t. TypeOK
  BY DEF IInv
<1>1. size \in Nat /\ size >= 1 /\ BufferOffset \in Nat /\ Capacity \in Nat
  BY <1>t, SizeType, WriterAssumption DEF TypeOK
<1>2. pc[t] = "claim" /\ rec' = rec /\ BufferOffset' = BufferOffset + size
  BY DEF Claim
<1>3. \A u \in Threads : Offset[u] \in Nat /\ SizeOf(rec[u]) \in Nat
  BY <1>t, SizeType DEF TypeOK
<1>4. \A u \in Threads : Offset'[u] = IF u = t THEN BufferOffset ELSE Offset[u]
  BY <1>t DEF TypeOK, Claim
<1>5. \A u \in Threads : SizeOf(rec[u])' = SizeOf(rec[u])
  BY <1>2 DEF SizeOf
<1>6. \A u \in Threads \ {t} : pc'[u] = pc[u]
  BY <1>t DEF TypeOK, Claim, Goto
<1>7. pc'[t] = IF BufferOffset + size <= Capacity THEN "copy" ELSE "flush"
  BY <1>t, <1>1, SMT DEF TypeOK, Claim, Goto
<1>8. \A i : i \in Settled <=> Below(i) /\ Free(i)
  BY SettledForm
<1>9. \A i : (i \in Settled)' <=> Below(i)' /\ Free(i)'
  <2>1. (\A i : i \in Settled <=> Below(i) /\ Free(i))'
    BY SettledForm, PTL
  <2> QED
    BY <2>1
<1>10. \A u \in Threads \ {t} : Claimed(u)' = Claimed(u)
  BY <1>4, <1>5 DEF Claimed
<1>11. \A u \in Threads \ {t} : Responsible(u)' <=> Responsible(u)
  BY <1>4, <1>6 DEF Responsible
<1>12. \A u \in Threads : pc[u] = "copy" => Offset[u] + SizeOf(rec[u]) <= BufferOffset
  BY DEF IInv, CopyInv, InBounds
<1>13. Claimed(t)' = BufferOffset..(BufferOffset + size - 1)
  BY <1>4, <1>5 DEF Claimed
<1> HIDE DEF size
<1>14. CASE BufferOffset + size <= Capacity
  <2>1. BufferOffset <= Capacity /\ BufferOffset' <= Capacity /\ ~(BufferOffset > Capacity) /\ ~(BufferOffset' > Capacity)
    BY <1>1, <1>2, <1>14, SMT
  <2>2. \A i : Below(i)' <=> i \in Nat /\ i < BufferOffset + size
    BY <1>2, <2>1 DEF Below
  <2>3. \A i : Below(i) <=> i \in Nat /\ i < BufferOffset
    BY <2>1 DEF Below
  <2>4. \A i : Free(i)' <=> Free(i) /\ i \notin Claimed(t)'
    <3>1. pc'[t] = "copy" /\ pc[t] # "copy"
      BY <1>2, <1>7, <1>14
    <3> QED
      BY <1>6, <1>10, <3>1 DEF Free
  <2>5. \A i : Below(i)' /\ i \notin Claimed(t)' <=> Below(i)
    BY <1>1, <1>13, <2>2, <2>3, SMT
  <2>6. Settled' = Settled
    BY <1>8, <1>9, <2>4, <2>5
  <2>7. \A u \in Threads : ~Responsible(u)'
    BY <2>1 DEF IInv, FlusherInv
  <2>8. BelowFlush'
    BY <2>7 DEF BelowFlush
  <2> QED
    BY <2>6, <2>8, StoreKept DEF Claim, fileVars
<1>15. CASE ~(BufferOffset + size <= Capacity)
  <2>1. BufferOffset' > Capacity /\ ~(BufferOffset' <= Capacity)
    BY <1>1, <1>2, <1>15, SMT
  <2>2. pc'[t] = "flush" /\ pc[t] # "copy"
    BY <1>2, <1>7, <1>15
  <2>3. \A i : Free(i)' <=> Free(i)
    BY <1>6, <1>10, <2>2, SMT DEF Free
  <2>4. Responsible(t)' <=> BufferOffset <= Capacity
    BY <1>4, <2>2 DEF Responsible
  <2>5. PICK v \in Threads : Responsible(v)' /\ \A u \in Threads : Responsible(u)' => u = v
    BY <2>1 DEF IInv, FlusherInv
  <2>6. \A i : Below(i)' <=> i \in Nat /\ i < Offset'[v]
    BY <2>1, <2>5 DEF Below
  <2>7. CASE BufferOffset <= Capacity
    <3>1. v = t /\ Offset'[v] = BufferOffset
      BY <1>4, <2>4, <2>5, <2>7
    <3>2. \A i : Below(i) <=> i \in Nat /\ i < BufferOffset
      BY <1>1, <2>7, SMT DEF Below
    <3>3. Settled' = Settled
      BY <1>8, <1>9, <2>3, <2>6, <3>1, <3>2
    <3>4. BelowFlush'
      BY <1>5, <1>6, <1>4, <1>12, <2>2, <2>5, <3>1 DEF BelowFlush
    <3> QED
      BY <3>3, <3>4, StoreKept DEF Claim, fileVars
  <2>8. CASE ~(BufferOffset <= Capacity)
    <3>1. v # t /\ Offset'[v] = Offset[v] /\ Responsible(v)
      BY <1>4, <1>11, <2>4, <2>5, <2>8
    <3>2. BufferOffset > Capacity
      BY <1>1, <2>8, SMT
    <3>3. \A u \in Threads : Responsible(u) => u = v
      BY <3>1, <3>2 DEF IInv, FlusherInv
    <3>4. \A i : Below(i) <=> i \in Nat /\ i < Offset[v]
      BY <2>8, <3>1, <3>2, <3>3 DEF Below
    <3>5. Settled' = Settled
      BY <1>8, <1>9, <2>3, <2>6, <3>1, <3>4
    <3>6. \A u \in Threads : pc[u] = "copy" => Offset[u] + SizeOf(rec[u]) <= Offset[v]
      BY <3>1 DEF StoreInv, BelowFlush
    <3>7. BelowFlush'
      BY <1>4, <1>5, <1>6, <2>2, <2>5, <3>1, <3>6 DEF BelowFlush
    <3> QED
      BY <3>5, <3>7, StoreKept DEF Claim, fileVars
  <2> QED
    BY <2>7, <2>8
<1> QED
  BY <1>14, <1>15

(* A copy turns the cells it claimed into settled ones that hold its       *)
(* record, in order.                                                       *)
LEMMA CopyStores ==
  ASSUME IInv, IInv', StoreInv, NEW t \in Threads, Copy(t),
         NEW q, q = rec[t], q \notin done, NEW o, o = Offset[t]
  PROVE  StoreInv'
<1>t. TypeOK
  BY DEF IInv
<1>1. q \in Records /\ SizeOf(q) \in Nat /\ SizeOf(q) >= 1 /\ SizeOf(q) <= LibrarySize /\ o \in Nat
  BY <1>t, SizeType DEF TypeOK
<1>2. BufferOffset \in Nat /\ Capacity \in Nat /\ LibrarySize \in Nat
        /\ \A u \in Threads : Offset[u] \in Nat /\ SizeOf(rec[u]) \in Nat /\ SizeOf(rec[u]) >= 1
  BY <1>t, SizeType, WriterAssumption DEF TypeOK
<1>3. pc[t] = "copy" /\ UNCHANGED <<Offset, BufferOffset, file>> /\ done' = done \union {q}
  BY DEF Copy, fileVars
<1>4. Claimed(t) = o..(o + SizeOf(q) - 1)
  BY DEF Claimed
<1>5. o + SizeOf(q) <= Capacity /\ o + SizeOf(q) <= BufferOffset
  BY <1>3 DEF IInv, CopyInv, InBounds
<1>6. \A u \in Threads \ {t} : pc'[u] = pc[u] /\ rec'[u] = rec[u]
  BY <1>t DEF TypeOK, Copy, Goto, SetRec
<1>7. pc'[t] \in {"claim", "idle"}
  BY <1>t DEF TypeOK, Copy, Goto
<1>8. \A u \in Threads : Responsible(u)' <=> Responsible(u)
  BY <1>3, <1>6, <1>7 DEF Responsible
<1>9. \A i : Below(i)' <=> Below(i)
  BY <1>3, <1>8 DEF Below
<1>10. \A i \in Claimed(t) : Below(i) /\ i \in 0..(Capacity - 1)
  <2>1. \A u \in Threads : Responsible(u) => o + SizeOf(q) <= Offset[u]
    BY <1>3 DEF StoreInv, BelowFlush
  <2>2. BufferOffset > Capacity => \E u \in Threads : Responsible(u)
    BY DEF IInv, FlusherInv
  <2> SUFFICES ASSUME NEW i \in Claimed(t) PROVE Below(i) /\ i \in 0..(Capacity - 1)
    OBVIOUS
  <2>3. i \in Nat /\ i < o + SizeOf(q) /\ i < BufferOffset /\ i < Capacity
    BY <1>1, <1>2, <1>4, <1>5, SMT
  <2>4. \A u \in Threads : Responsible(u) => i < Offset[u]
    BY <1>1, <1>2, <2>1, <2>3, SMT
  <2> QED
    BY <1>2, <2>2, <2>3, <2>4, SMT DEF Below
<1>11. \A u \in Threads \ {t} : pc[u] = "copy" => Claimed(u)' = Claimed(u) /\ Claimed(u) \cap Claimed(t) = {}
  <2> SUFFICES ASSUME NEW u \in Threads \ {t}, pc[u] = "copy"
               PROVE  Claimed(u)' = Claimed(u) /\ Claimed(u) \cap Claimed(t) = {}
    OBVIOUS
  <2>1. Claimed(u)' = Claimed(u)
    BY <1>3, <1>6 DEF Claimed, SizeOf
  <2>2. Apart(t, u)
    BY <1>3 DEF IInv, CopyInv
  <2>3. Claimed(u) \cap Claimed(t) = {}
    BY <1>2, <2>2, SMT DEF Apart, Claimed
  <2> QED
    BY <2>1, <2>3
<1>12. \A i : Free(i) => i \notin Claimed(t)
  BY <1>3 DEF Free
<1>13. \A i : Free(i)' <=> Free(i) \/ i \in Claimed(t)
  <2>1. \A u \in Threads : pc'[u] = "copy" <=> u # t /\ pc[u] = "copy"
    BY <1>6, <1>7
  <2> QED
    BY <1>11, <2>1 DEF Free
<1>14. \A i : i \in Settled <=> Below(i) /\ Free(i)
  BY SettledForm
<1>15. \A i : (i \in Settled)' <=> Below(i)' /\ Free(i)'
  <2>1. (\A i : i \in Settled <=> Below(i) /\ Free(i))'
    BY SettledForm, PTL
  <2> QED
    BY <2>1
<1>16. Settled' = Settled \union Claimed(t) /\ Settled \cap Claimed(t) = {}
  BY <1>9, <1>10, <1>12, <1>13, <1>14, <1>15
<1>17. \A i \in Settled : i \in 0..(Capacity - 1)
  <2>1. \A i \in Settled : Below(i)
    BY <1>14
  <2>2. \A u \in Threads : Responsible(u) => Offset[u] <= Capacity
    BY DEF Responsible
  <2> SUFFICES ASSUME NEW i \in Settled PROVE i \in Nat /\ i < Capacity
    BY <1>2, SMT
  <2>3. CASE BufferOffset <= Capacity
    BY <1>2, <2>1, <2>3, SMT DEF Below
  <2>4. CASE BufferOffset > Capacity
    <3>1. PICK u \in Threads : Responsible(u) /\ i < Offset[u] /\ i \in Nat
      BY <2>1, <2>4 DEF Below
    <3> QED
      BY <1>2, <2>2, <3>1, SMT
  <2> QED
    BY <1>2, <2>3, <2>4, SMT
<1>18. \A i \in Settled : Buffer'[i] = Buffer[i]
  BY <1>t, <1>16, <1>17 DEF TypeOK, Copy
<1>19. \A i \in Claimed(t) : Buffer'[i] = [rec |-> q, part |-> i - o + 1]
  BY <1>t, <1>10 DEF TypeOK, Copy, PartAt
<1>20. BelowFlush'
  <2>1. \A u \in Threads : pc'[u] = "copy" => pc[u] = "copy" /\ SizeOf(rec[u])' = SizeOf(rec[u])
    BY <1>6, <1>7 DEF SizeOf
  <2> QED
    BY <1>3, <1>8, <2>1 DEF StoreInv, BelowFlush
<1>f. \A i \in Claimed(t) : Buffer'[i].rec = q /\ Buffer'[i].part = i - o + 1
  <2>1. \A x : [rec |-> q, part |-> x].rec = q /\ [rec |-> q, part |-> x].part = x
    OBVIOUS
  <2> QED
    BY <1>19, <2>1
<1>21. \A i \in Settled' : Buffer'[i] \in Cells
  <2>1. \A i \in Claimed(t) : i - o + 1 \in 1..LibrarySize
    BY <1>1, <1>2, <1>4, SMT
  <2>2. \A p \in 1..LibrarySize : [rec |-> q, part |-> p] \in Cells
    BY <1>1 DEF Cells
  <2>3. \A i \in Claimed(t) : Buffer'[i] \in Cells
    BY <1>19, <2>1, <2>2
  <2> QED
    BY <1>16, <1>18, <2>3 DEF StoreInv
<1>22. \A r : NotInFile(r)' <=> NotInFile(r)
  BY <1>3 DEF NotInFile
<1>23. \A r : r # q => (NotInBuffer(r)' <=> NotInBuffer(r))
  BY <1>16, <1>18, <1>f DEF NotInBuffer
<1>24. \A r \in Records \ {q} : Placed(r)'
  <2> SUFFICES ASSUME NEW r \in Records \ {q} PROVE Placed(r)'
    OBVIOUS
  <2>1. r \in done' <=> r \in done
    BY <1>3
  <2>2. \A k : InFile(r, k)' <=> InFile(r, k)
    BY <1>3 DEF InFile, SizeOf
  <2>3. \A k : InBuffer(r, k) => InBuffer(r, k)'
    <3> SUFFICES ASSUME NEW k, InBuffer(r, k) PROVE InBuffer(r, k)'
      OBVIOUS
    <3>1. \A i \in k..(k + SizeOf(r) - 1) : i \in Settled /\ i \notin Claimed(t) /\ Buffer[i].part = i - k + 1
      BY <1>16 DEF InBuffer
    <3>2. \A i \in Settled : Buffer[i].rec = r <=> i \in k..(k + SizeOf(r) - 1)
      BY DEF InBuffer
    <3>3. \A i \in Settled' : Buffer'[i].rec = r <=> i \in k..(k + SizeOf(r) - 1)
      BY <1>16, <1>18, <1>f, <3>1, <3>2
    <3>4. SizeOf(r)' = SizeOf(r)
      BY DEF SizeOf
    <3>5. \A i \in k..(k + SizeOf(r) - 1) : i \in Settled' /\ Buffer'[i].part = i - k + 1
      BY <1>16, <1>18, <3>1
    <3> QED
      BY <3>3, <3>4, <3>5 DEF InBuffer
  <2>4. Placed(r)
    BY DEF StoreInv
  <2>5. UNCHANGED DOMAIN file
    BY <1>3
  <2> QED
    BY <1>16, <1>22, <1>23, <2>1, <2>2, <2>3, <2>4, <2>5 DEF Placed
<1>25. Placed(q)'
  <2>1. NotInFile(q) /\ NotInBuffer(q)
    BY <1>1 DEF StoreInv, Placed
  <2>2. InBuffer(q, o)'
    <3>1. \A i \in o..(o + SizeOf(q) - 1) : i \in Settled' /\ Buffer'[i].part = i - o + 1
      BY <1>4, <1>16, <1>f
    <3>2. \A i \in Settled' : Buffer'[i].rec = q <=> i \in o..(o + SizeOf(q) - 1)
      BY <1>4, <1>16, <1>18, <1>f, <2>1 DEF NotInBuffer
    <3> QED
      BY <3>1, <3>2 DEF InBuffer, SizeOf
  <2>3. o \in Settled'
    BY <1>1, <1>4, <1>16, SMT
  <2>4. NotInFile(q)' /\ q \in done'
    BY <1>3, <1>22, <2>1
  <2> QED
    BY <2>2, <2>3, <2>4 DEF Placed
<1> QED
  BY <1>20, <1>21, <1>24, <1>25, <1>3 DEF StoreInv

(* A flush while nobody copies takes every record of the buffer to the end *)
(* of the file.                                                            *)
LEMMA FlushStores ==
  ASSUME IInv, StoreInv, NEW n \in Nat, n <= Capacity, Settled = 0..(n - 1), WriteOut(n),
         Settled' = {}, BelowFlush', done' = done
  PROVE  StoreInv'
<1> DEFINE S == Cells \union {NoCell}
<1> DEFINE tail == [i \in 1..n |-> Buffer[i - 1]]
<1>1. file \in Seq(S) /\ Buffer \in [0..(Capacity - 1) -> S] /\ Capacity \in Nat
  BY WriterAssumption DEF IInv, TypeOK
<1>2. tail \in [1..n -> S]
  <2>1. \A i \in 1..n : i - 1 \in 0..(Capacity - 1)
    BY <1>1, SMT
  <2> QED
    BY <1>1, <2>1
<1>3. tail \in Seq(S) /\ Len(tail) = n
  BY <1>2, SMT
<1>4. \A i \in 1..n : tail[i] = Buffer[i - 1]
  OBVIOUS
<1>5. file' = file \o tail
  BY DEF WriteOut
<1> HIDE DEF tail, S
<1>6. PICK l \in Nat : l = Len(file) /\ DOMAIN file = 1..l
  BY <1>1, SMT
<1>7. DOMAIN file' = 1..(l + n)
  <2>1. file \o tail \in Seq(S) /\ Len(file \o tail) = l + n
    BY <1>1, <1>3, <1>6, SMT
  <2> QED
    BY <1>5, <2>1, SMT
<1>8. \A i \in 1..l : file'[i] = file[i]
  BY <1>1, <1>3, <1>5, <1>6, SMT
<1>9. \A i \in 1..n : file'[l + i] = Buffer[i - 1]
  BY <1>1, <1>3, <1>4, <1>5, <1>6, SMT
<1>10. \A j \in 0..(n - 1) : file'[l + 1 + j] = Buffer[j]
  <2> SUFFICES ASSUME NEW j \in 0..(n - 1) PROVE file'[l + 1 + j] = Buffer[j]
    OBVIOUS
  <2>1. j + 1 \in 1..n /\ l + (j + 1) = l + 1 + j /\ (j + 1) - 1 = j
    BY SMT
  <2> QED
    BY <1>9, <2>1
<1>11. \A i \in 1..(l + n) : i \in 1..l \/ \E j \in 0..(n - 1) : i = l + 1 + j
  <2> SUFFICES ASSUME NEW i \in 1..(l + n), i \notin 1..l PROVE \E j \in 0..(n - 1) : i = l + 1 + j
    OBVIOUS
  <2>1. i - l - 1 \in 0..(n - 1) /\ i = l + 1 + (i - l - 1)
    BY SMT
  <2> QED
    BY <2>1
<1>12. \A i \in DOMAIN file' : file'[i] \in Cells
  <2>1. \A i \in 1..l : file'[i] \in Cells
    BY <1>6, <1>8 DEF StoreInv
  <2>2. \A j \in 0..(n - 1) : file'[l + 1 + j] \in Cells
    BY <1>10 DEF StoreInv
  <2> QED
    BY <1>7, <1>11, <2>1, <2>2
<1>13. \A r : NotInBuffer(r)'
  BY DEF NotInBuffer
<1>14. ASSUME NEW r \in Records PROVE Placed(r)'
  <2>1. SizeOf(r) \in Nat /\ SizeOf(r) >= 1 /\ SizeOf(r)' = SizeOf(r)
    BY SizeType DEF SizeOf
  <2>2. Placed(r)
    BY DEF StoreInv
  <2>3. CASE r \notin done
    <3>1. NotInFile(r) /\ NotInBuffer(r)
      BY <2>2, <2>3 DEF Placed
    <3>2. \A i \in 1..l : file'[i].rec # r
      BY <1>6, <1>8, <3>1 DEF NotInFile
    <3>3. \A j \in 0..(n - 1) : file'[l + 1 + j].rec # r
      BY <1>10, <3>1 DEF NotInBuffer
    <3>4. NotInFile(r)'
      BY <1>7, <1>11, <3>2, <3>3 DEF NotInFile
    <3> QED
      BY <1>13, <2>3, <3>4 DEF Placed
  <2>4. CASE r \in done /\ NotInBuffer(r) /\ \E k \in DOMAIN file : InFile(r, k)
    <3>1. PICK k \in 1..l : InFile(r, k)
      BY <1>6, <2>4
    <3>2. \A i \in k..(k + SizeOf(r) - 1) : i \in 1..l /\ file[i].part = i - k + 1
      BY <1>6, <3>1 DEF InFile
    <3>3. \A i \in 1..l : file[i].rec = r <=> i \in k..(k + SizeOf(r) - 1)
      BY <1>6, <3>1 DEF InFile
    <3>4. \A j \in 0..(n - 1) : file'[l + 1 + j].rec # r
      BY <1>10, <2>4 DEF NotInBuffer
    <3>5. \A j \in 0..(n - 1) : l + 1 + j \notin 1..l
      BY SMT
    <3>6. \A i \in 1..(l + n) : file'[i].rec = r <=> i \in k..(k + SizeOf(r) - 1)
      BY <1>8, <1>11, <3>2, <3>3, <3>4, <3>5
    <3>7. \A i \in 1..l : i \in 1..(l + n)
      BY SMT
    <3>8. \A i \in k..(k + SizeOf(r) - 1) : i \in 1..(l + n) /\ file'[i].part = i - k + 1
      BY <1>8, <3>2, <3>7
    <3>9. InFile(r, k)' /\ k \in DOMAIN file'
      BY <1>7, <2>1, <3>6, <3>7, <3>8 DEF InFile
    <3> QED
      BY <1>13, <2>4, <3>9 DEF Placed
  <2>5. CASE r \in done /\ NotInFile(r) /\ \E k \in Settled : InBuffer(r, k)
    <3>1. PICK k \in 0..(n - 1) : InBuffer(r, k)
      BY <2>5
    <3>2. PICK m \in Nat : m = l + 1 + k
      BY SMT
    <3>3. \A j \in k..(k + SizeOf(r) - 1) : j \in 0..(n - 1) /\ Buffer[j].part = j - k + 1
      BY <3>1 DEF InBuffer
    <3>4. \A j \in 0..(n - 1) : Buffer[j].rec = r <=> j \in k..(k + SizeOf(r) - 1)
      BY <3>1 DEF InBuffer
    <3>5. \A i \in 1..l : file'[i].rec # r
      BY <1>6, <1>8, <2>5 DEF NotInFile
    <3>6. \A i \in m..(m + SizeOf(r) - 1) :
            i - l - 1 \in k..(k + SizeOf(r) - 1) /\ i = l + 1 + (i - l - 1)
      BY <2>1, <3>2, SMT
    <3>7. \A i \in m..(m + SizeOf(r) - 1) : i \in 1..(l + n) /\ i \notin 1..l
      BY <2>1, <3>2, <3>3, <3>6, SMT
    <3>8. \A i \in m..(m + SizeOf(r) - 1) : file'[i].part = i - m + 1
      <4> SUFFICES ASSUME NEW i \in m..(m + SizeOf(r) - 1) PROVE file'[i].part = i - m + 1
        OBVIOUS
      <4>1. PICK j \in k..(k + SizeOf(r) - 1) : i = l + 1 + j
        BY <3>6
      <4>2. file'[i] = Buffer[j] /\ Buffer[j].part = j - k + 1
        BY <1>10, <3>3, <4>1
      <4>3. j - k + 1 = i - m + 1
        BY <2>1, <3>2, <4>1, SMT
      <4> QED
        BY <4>2, <4>3
    <3>9. \A j \in 0..(n - 1) : j \in k..(k + SizeOf(r) - 1) <=> l + 1 + j \in m..(m + SizeOf(r) - 1)
      BY <2>1, <3>2, SMT
    <3>10. \A j \in 0..(n - 1) : file'[l + 1 + j].rec = r <=> l + 1 + j \in m..(m + SizeOf(r) - 1)
      BY <1>10, <3>4, <3>9
    <3>11. \A i \in 1..(l + n) : file'[i].rec = r <=> i \in m..(m + SizeOf(r) - 1)
      BY <1>11, <3>5, <3>7, <3>10
    <3>12. m \in 1..(l + n)
      BY <3>2, SMT
    <3>13. InFile(r, m)' /\ m \in DOMAIN file'
      BY <1>7, <2>1, <3>7, <3>8, <3>11, <3>12 DEF InFile
    <3> QED
      BY <1>13, <2>5, <3>13 DEF Placed
  <2> QED
    BY <2>2, <2>3, <2>4, <2>5 DEF Placed
<1> QED
  BY <1>12, <1>14 DEF StoreInv

(* Every record being appended is a new one, and the thread that owes a    *)
(* library record is the one that registered the file.                     *)
LEMMA NamesKept ==
  ASSUME IInv, NameInv, LibraryInv, [Next]_vars
  PROVE  NameInv' /\ LibraryInv'
<1>t. TypeOK
  BY DEF IInv
<1>p. /\ pc \in [Threads -> Places] /\ rec \in [Threads -> Records] /\ done \subseteq Records
      /\ count \in [Threads -> 0..MaxBlocks] /\ KnownFileIds \subseteq Files /\ MaxBlocks \in Nat
  BY <1>t, WriterAssumption DEF TypeOK
<1>r. \A r \in Records : r.by \in Threads /\ r.file \in Files /\ r.n \in 0..MaxBlocks
        /\ r.kind \in {"library", "block"}
  BY DEF Records
<1>c. \A t \in Threads : count[t] \in Nat
  BY <1>p, SMT
<1>1. ASSUME NEW t \in Threads, AppendBlock(t) PROVE NameInv' /\ LibraryInv'
  <2>1. PICK f \in Files : rec' = [rec EXCEPT ![t] = [kind |-> "block", file |-> f, by |-> t, n |-> count[t]]]
    BY <1>1 DEF AppendBlock, SetRec
  <2>2. \A u \in Threads \ {t} : rec'[u] = rec[u] /\ pc'[u] = pc[u] /\ count'[u] = count[u]
    BY <1>p, <1>1, <2>1 DEF AppendBlock, Goto
  <2>3. rec'[t] = [kind |-> "block", file |-> f, by |-> t, n |-> count[t]]
    BY <1>p, <2>1
  <2>4. rec'[t].kind = "block" /\ rec'[t].by = t /\ rec'[t].n = count[t]
    BY <2>3, SMT
  <2>5. count'[t] = count[t] + 1 /\ pc[t] = "idle" /\ pc'[t] \in {"known", "open"}
    BY <1>p, <1>1 DEF AppendBlock, Goto
  <2>6. UNCHANGED <<done, KnownFileIds>>
    BY <1>1 DEF AppendBlock
  <2>7. \A u \in Threads : Owing(u)' <=> Owing(u)
    BY <2>2, <2>4, <2>5 DEF Owing
  <2>8. \A u \in Threads : Owing(u) => rec'[u] = rec[u]
    BY <2>2, <2>5 DEF Owing
  <2>9. LibraryInv'
    BY <2>6, <2>7, <2>8, SMT DEF LibraryInv, Named
  <2>10. \A r \in done : r.n < count'[r.by] /\ r.n < count[r.by]
    <3> SUFFICES ASSUME NEW r \in done PROVE r.n < count'[r.by] /\ r.n < count[r.by]
      OBVIOUS
    <3>1. r.n < count[r.by] /\ r.by \in Threads /\ r.n \in 0..MaxBlocks
      BY <1>p, <1>r DEF NameInv
    <3> QED
      BY <1>c, <1>p, <2>2, <2>5, <3>1, SMT
  <2>11. \A r \in done : ~(r.by = t /\ r.n = count[t])
    <3> SUFFICES ASSUME NEW r \in done, r.by = t, r.n = count[t] PROVE FALSE
      OBVIOUS
    <3> QED
      BY <1>c, <2>10, SMT
  <2>12. \A u \in Threads \ {t} : Appending(u)' <=> Appending(u)
    BY <2>2 DEF Appending
  <2>13. \A u \in Threads : rec'[u].by = u
    BY <2>2, <2>4 DEF NameInv
  <2>14. \A u \in Threads : Appending(u)' => rec'[u].n = count'[u] - 1
    <3>1. count'[t] - 1 = count[t]
      BY <1>c, <2>5, SMT
    <3> QED
      BY <2>2, <2>4, <2>12, <3>1, SMT DEF NameInv
  <2>15. \A u \in Threads : ~Owing(u)' => rec'[u].kind = "block"
    BY <2>2, <2>4, <2>7 DEF NameInv
  <2>16. \A u \in Threads : Appending(u)' =>
           \A r \in done' : r.by = u /\ r.n = rec'[u].n =>
             rec'[u].kind = "block" /\ r.kind = "library" /\ r.file = rec'[u].file
    <3> SUFFICES ASSUME NEW u \in Threads, Appending(u)', NEW r \in done, r.by = u, r.n = rec'[u].n
                 PROVE  rec'[u].kind = "block" /\ r.kind = "library" /\ r.file = rec'[u].file
      BY <2>6
    <3>1. u # t
      BY <2>4, <2>11
    <3> QED
      BY <2>2, <2>12, <3>1, SMT DEF NameInv
  <2> QED
    BY <2>6, <2>9, <2>10, <2>13, <2>14, <2>15, <2>16 DEF NameInv
<1>2. ASSUME NEW t \in Threads, NEW place, pc' = [pc EXCEPT ![t] = place],
             UNCHANGED <<rec, done, KnownFileIds, count>>,
             place \in {"idle"} \/ Appending(t),
             Owing(t)' <=> Owing(t)
      PROVE  NameInv' /\ LibraryInv'
  <2>1. \A u \in Threads : pc'[u] = IF u = t THEN place ELSE pc[u]
    BY <1>p, <1>2
  <2>2. \A u \in Threads : Owing(u)' <=> Owing(u)
    BY <1>2, <2>1 DEF Owing
  <2>3. \A u \in Threads : Appending(u)' => Appending(u)
    BY <1>2, <2>1 DEF Appending
  <2>4. LibraryInv'
    BY <1>2, <2>2 DEF LibraryInv, Named
  <2> QED
    BY <1>2, <2>2, <2>3, <2>4, SMT DEF NameInv
<1>3. ASSUME NEW t \in Threads, IsWriteEnabled(t) PROVE NameInv' /\ LibraryInv'
  <2>1. PICK place \in {"known", "idle"} : pc' = [pc EXCEPT ![t] = place]
    BY <1>3 DEF IsWriteEnabled, Goto
  <2>2. pc[t] = "open" /\ pc'[t] = place /\ Appending(t)
    BY <1>p, <1>3, <2>1 DEF IsWriteEnabled, Appending
  <2>3. ~Owing(t) /\ ~Owing(t)'
    BY <2>2 DEF Owing
  <2> QED
    BY <1>2, <1>3, <2>1, <2>2, <2>3 DEF IsWriteEnabled, bounds
<1>4. ASSUME NEW t \in Threads, CheckKnown(t) PROVE NameInv' /\ LibraryInv'
  <2>1. PICK place \in {"claim", "register"} : pc' = [pc EXCEPT ![t] = place]
    BY <1>4 DEF CheckKnown, Goto
  <2>2. pc[t] = "known" /\ pc'[t] = place /\ Appending(t) /\ rec' = rec
    BY <1>p, <1>4, <2>1 DEF CheckKnown, Appending
  <2>3. ~Owing(t) /\ ~Owing(t)'
    BY <2>2 DEF Owing, NameInv
  <2> QED
    BY <1>2, <1>4, <2>1, <2>2, <2>3 DEF CheckKnown, bounds
<1>5. ASSUME NEW t \in Threads, Claim(t) PROVE NameInv' /\ LibraryInv'
  <2>1. PICK place \in {"flush", "copy"} : pc' = [pc EXCEPT ![t] = place]
    BY <1>5 DEF Claim, Goto
  <2>2. pc[t] = "claim" /\ pc'[t] = place /\ Appending(t) /\ rec' = rec
    BY <1>p, <1>5, <2>1 DEF Claim, Appending
  <2>3. Owing(t)' <=> Owing(t)
    BY <2>2 DEF Owing
  <2> QED
    BY <1>2, <1>5, <2>1, <2>2, <2>3 DEF Claim, bounds
<1>6. ASSUME NEW t \in Threads, FlushBelow(t) PROVE NameInv' /\ LibraryInv'
  <2>1. PICK place \in {"claim", "spin"} : pc' = [pc EXCEPT ![t] = place]
    BY <1>6 DEF FlushBelow, Goto
  <2>2. pc[t] = "flush" /\ pc'[t] = place /\ Appending(t) /\ rec' = rec
    BY <1>p, <1>6, <2>1 DEF FlushBelow, Appending
  <2>3. Owing(t)' <=> Owing(t)
    BY <2>2 DEF Owing
  <2> QED
    BY <1>2, <1>6, <2>1, <2>2, <2>3 DEF FlushBelow, bounds
<1>7. ASSUME NEW t \in Threads, SpinWait(t) PROVE NameInv' /\ LibraryInv'
  <2>1. pc[t] = "spin" /\ pc' = [pc EXCEPT ![t] = "claim"] /\ pc'[t] = "claim" /\ Appending(t) /\ rec' = rec
    BY <1>p, <1>7 DEF SpinWait, Appending, Goto
  <2>2. Owing(t)' <=> Owing(t)
    BY <2>1 DEF Owing
  <2> QED
    BY <1>2, <1>7, <2>1, <2>2 DEF SpinWait, bounds
<1>8. ASSUME NEW t \in Threads, Register(t) PROVE NameInv' /\ LibraryInv'
  <2> DEFINE new == rec[t].file \notin KnownFileIds
  <2>1. pc[t] = "register" /\ UNCHANGED <<done, count>> /\ KnownFileIds' = KnownFileIds \union {rec[t].file}
    BY <1>8 DEF Register, bounds
  <2>2. \A u \in Threads \ {t} : rec'[u] = rec[u] /\ pc'[u] = pc[u]
    BY <1>p, <1>8 DEF Register, SetRec, Goto
  <2>3. pc'[t] = "claim" /\ rec'[t] = IF new THEN LibraryRecord(rec[t]) ELSE rec[t]
    BY <1>p, <1>8 DEF Register, SetRec, Goto
  <2>4. rec[t].kind = "block" /\ rec[t] \in Records /\ ~Owing(t) /\ Appending(t)
    BY <1>p, <2>1 DEF NameInv, Owing, Appending
  <2>5. /\ LibraryRecord(rec[t]).file = rec[t].file /\ LibraryRecord(rec[t]).by = rec[t].by
        /\ LibraryRecord(rec[t]).n = rec[t].n /\ LibraryRecord(rec[t]).kind = "library"
    BY <2>4 DEF LibraryRecord, Records
  <2>6. /\ rec'[t].file = rec[t].file /\ rec'[t].by = rec[t].by /\ rec'[t].n = rec[t].n
        /\ rec'[t].kind = IF new THEN "library" ELSE "block"
    BY <2>3, <2>4, <2>5
  <2>7. \A u \in Threads \ {t} : (Owing(u)' <=> Owing(u)) /\ (Appending(u)' <=> Appending(u))
    BY <2>2 DEF Owing, Appending
  <2>8. Owing(t)' <=> new
    BY <2>3, <2>6 DEF Owing
  <2> HIDE DEF new
  <2>9. \A f : Named(f)' <=> Named(f)
    BY <2>1 DEF Named
  <2>10. new => ~Named(rec[t].file) /\ \A u \in Threads : Owing(u) => rec[u].file # rec[t].file
    BY <1>p DEF new, LibraryInv, Named
  <2>11. LibraryInv'
    <3>1. \A r \in done' : r.kind = "library" => r.file \in KnownFileIds'
      BY <2>1 DEF LibraryInv
    <3>2. \A r, q \in done' : r.kind = "library" /\ q.kind = "library" /\ r.file = q.file => r = q
      BY <2>1 DEF LibraryInv
    <3>3. \A u \in Threads : Owing(u)' => rec'[u].file \in KnownFileIds' /\ ~Named(rec[u].file)'
      <4> SUFFICES ASSUME NEW u \in Threads, Owing(u)'
                   PROVE  rec'[u].file \in KnownFileIds' /\ ~Named(rec'[u].file)
        BY <2>1 DEF Named
      <4>1. CASE u = t
        BY <2>1, <2>6, <2>8, <2>10, <4>1
      <4>2. CASE u # t
        BY <2>1, <2>2, <2>7, <4>2 DEF LibraryInv
      <4> QED
        BY <4>1, <4>2
    <3>4. \A u, v \in Threads : Owing(u)' /\ Owing(v)' /\ rec'[u].file = rec'[v].file => u = v
      BY <2>2, <2>6, <2>7, <2>8, <2>10, SMT DEF LibraryInv
    <3>5. \A f \in KnownFileIds' : Named(f)' \/ \E u \in Threads : Owing(u)' /\ rec'[u].file = f
      <4> SUFFICES ASSUME NEW f \in KnownFileIds'
                   PROVE  Named(f) \/ \E u \in Threads : Owing(u)' /\ rec'[u].file = f
        BY <2>9
      <4>1. CASE f \in KnownFileIds
        <5>1. Named(f) \/ \E u \in Threads : Owing(u) /\ rec[u].file = f
          BY <4>1 DEF LibraryInv
        <5> QED
          BY <2>2, <2>4, <2>7, <5>1
      <4>2. CASE f \notin KnownFileIds
        BY <2>1, <2>6, <2>8, <4>2 DEF new
      <4> QED
        BY <4>1, <4>2
    <3> QED
      BY <3>1, <3>2, <3>3, <3>4, <3>5 DEF LibraryInv
  <2>12. \A r \in done : r.by = t /\ r.n = rec[t].n => r.kind = "library" /\ r.file = rec[t].file /\ ~new
    BY <1>p, <2>4, SMT DEF NameInv, LibraryInv, new
  <2>13. NameInv'
    <3>1. \A u \in Threads : Appending(u)' =>
            \A r \in done' : r.by = u /\ r.n = rec'[u].n =>
             rec'[u].kind = "block" /\ r.kind = "library" /\ r.file = rec'[u].file
      BY <2>1, <2>2, <2>6, <2>7, <2>12, SMT DEF NameInv
    <3>2. \A u \in Threads : rec'[u].by = u
      BY <2>2, <2>6, SMT DEF NameInv
    <3>3. \A u \in Threads : Appending(u)' => rec'[u].n = count'[u] - 1
      BY <2>1, <2>2, <2>4, <2>6, <2>7 DEF NameInv
    <3>4. \A u \in Threads : ~Owing(u)' => rec'[u].kind = "block"
      BY <2>2, <2>6, <2>7, <2>8, SMT DEF NameInv
    <3>5. \A r \in done' : r.n < count'[r.by]
      BY <2>1 DEF NameInv
    <3> QED
      BY <3>1, <3>2, <3>3, <3>4, <3>5 DEF NameInv
  <2> QED
    BY <2>11, <2>13
<1>9. ASSUME NEW t \in Threads, Copy(t) PROVE NameInv' /\ LibraryInv'
  <2>1. pc[t] = "copy" /\ UNCHANGED <<count, KnownFileIds>> /\ done' = done \union {rec[t]}
    BY <1>9 DEF Copy, bounds
  <2>2. \A u \in Threads \ {t} : rec'[u] = rec[u] /\ pc'[u] = pc[u]
    BY <1>p, <1>9 DEF Copy, SetRec, Goto
  <2>3. rec'[t] = BlockRecord(rec[t]) /\ pc'[t] = IF rec[t].kind = "library" THEN "claim" ELSE "idle"
    BY <1>p, <1>9 DEF Copy, SetRec, Goto
  <2>4. rec[t] \in Records /\ Appending(t) /\ (Owing(t) <=> rec[t].kind = "library")
    BY <1>p, <2>1 DEF Owing, Appending
  <2>5. /\ rec'[t].file = rec[t].file /\ rec'[t].by = rec[t].by
        /\ rec'[t].n = rec[t].n /\ rec'[t].kind = "block"
    BY <2>3, <2>4 DEF BlockRecord, Records
  <2>6. \A u \in Threads \ {t} : (Owing(u)' <=> Owing(u)) /\ (Appending(u)' <=> Appending(u))
    BY <2>2 DEF Owing, Appending
  <2>7. ~Owing(t)' /\ (Appending(t)' <=> rec[t].kind = "library")
    BY <1>r, <2>3, <2>4, <2>5 DEF Owing, Appending
  <2>8. rec[t].by = t /\ rec[t].n = count[t] - 1
    BY <2>4 DEF NameInv
  <2>9. NameInv'
    <3>1. \A u \in Threads : rec'[u].by = u
      BY <2>2, <2>5, SMT DEF NameInv
    <3>2. \A u \in Threads : Appending(u)' => rec'[u].n = count'[u] - 1
      BY <2>1, <2>2, <2>5, <2>6, <2>8, SMT DEF NameInv
    <3>3. \A u \in Threads : ~Owing(u)' => rec'[u].kind = "block"
      BY <2>2, <2>5, <2>6 DEF NameInv
    <3>4. \A r \in done' : r.n < count'[r.by]
      <4>1. rec[t].n < count[t]
        BY <1>c, <2>8, SMT
      <4> QED
        BY <2>1, <2>8, <4>1 DEF NameInv
    <3>5. ASSUME NEW u \in Threads, Appending(u)', NEW r \in done', r.by = u, r.n = rec'[u].n
          PROVE  rec'[u].kind = "block" /\ r.kind = "library" /\ r.file = rec'[u].file
      <4>1. CASE r \in done /\ u # t
        BY <2>2, <2>6, <3>5, <4>1, SMT DEF NameInv
      <4>2. CASE r \in done /\ u = t
        BY <2>4, <2>5, <3>5, <4>2, SMT DEF NameInv
      <4>3. CASE r = rec[t]
        BY <2>5, <2>7, <2>8, <3>5, <4>3
      <4> QED
        BY <2>1, <4>1, <4>2, <4>3
    <3> QED
      BY <3>1, <3>2, <3>3, <3>4, <3>5 DEF NameInv
  <2>10. CASE rec[t].kind = "library"
    <3>1. \A f : Named(f)' <=> Named(f) \/ f = rec[t].file
      BY <2>1, <2>10 DEF Named
    <3>2. Owing(t) /\ rec[t].file \in KnownFileIds /\ ~Named(rec[t].file)
      BY <2>4, <2>10 DEF LibraryInv
    <3>3. \A u \in Threads \ {t} : Owing(u) => rec[u].file # rec[t].file
      BY <3>2 DEF LibraryInv
    <3>4. \A r \in done' : r.kind = "library" => r.file \in KnownFileIds'
      BY <2>1, <3>2 DEF LibraryInv
    <3>5. \A r, q \in done' : r.kind = "library" /\ q.kind = "library" /\ r.file = q.file => r = q
      BY <2>1, <3>2 DEF LibraryInv, Named
    <3>6. ASSUME NEW u \in Threads, Owing(u)' PROVE rec'[u].file \in KnownFileIds' /\ ~Named(rec[u].file)'
      <4>1. u # t
        BY <2>7, <3>6
      <4>2. rec'[u] = rec[u] /\ rec[u].file # rec[t].file /\ rec[u].file \in KnownFileIds /\ ~Named(rec[u].file)
        BY <2>2, <2>6, <3>3, <3>6, <4>1 DEF LibraryInv
      <4>3. ~(\E r \in done' : r.kind = "library" /\ r.file = rec[u].file)
        BY <2>1, <4>2 DEF Named
      <4> QED
        BY <2>1, <4>2, <4>3 DEF Named
    <3>7. \A u, v \in Threads : Owing(u)' /\ Owing(v)' /\ rec'[u].file = rec'[v].file => u = v
      BY <2>2, <2>6, <2>7 DEF LibraryInv
    <3>8. ASSUME NEW f \in KnownFileIds' PROVE Named(f)' \/ \E u \in Threads : Owing(u)' /\ rec'[u].file = f
      <4>1. Named(f) \/ \E u \in Threads : Owing(u) /\ rec[u].file = f
        BY <2>1, <3>8 DEF LibraryInv
      <4> QED
        BY <2>2, <2>6, <3>1, <4>1
    <3>9. LibraryInv'
      BY <3>4, <3>5, <3>6, <3>7, <3>8 DEF LibraryInv
    <3> QED
      BY <2>9, <3>9
  <2>11. CASE rec[t].kind # "library"
    <3>1. \A f : Named(f)' <=> Named(f)
      BY <2>1, <2>11 DEF Named
    <3>2. \A u \in Threads : (Owing(u)' <=> Owing(u)) /\ (Owing(u) => rec'[u] = rec[u])
      BY <2>2, <2>4, <2>6, <2>7, <2>11
    <3>3. \A r \in done' : r.kind = "library" => r \in done
      BY <2>1, <2>11
    <3>4. ASSUME NEW u \in Threads, Owing(u)' PROVE rec'[u].file \in KnownFileIds' /\ ~Named(rec[u].file)'
      <4>1. rec'[u] = rec[u] /\ rec[u].file \in KnownFileIds /\ ~Named(rec[u].file)
        BY <3>2, <3>4 DEF LibraryInv
      <4>2. ~(\E r \in done' : r.kind = "library" /\ r.file = rec[u].file)
        BY <3>3, <4>1 DEF Named
      <4> QED
        BY <2>1, <4>1, <4>2 DEF Named
    <3>5. LibraryInv'
      BY <2>1, <3>1, <3>2, <3>3, <3>4, SMT DEF LibraryInv
    <3> QED
      BY <2>9, <3>5
  <2> QED
    BY <2>10, <2>11
<1>10. CASE Close
  <2>1. UNCHANGED <<pc, rec, done, count, KnownFileIds>>
    BY <1>10 DEF Close, bounds
  <2> QED
    BY <2>1, SMT DEF NameInv, LibraryInv, Owing, Appending, Named
<1>11. ASSUME NEW t \in Threads, ResetAfterFork(t) PROVE NameInv' /\ LibraryInv'
  <2>1. \A u \in Threads : pc[u] \in {"idle", "gone"} /\ pc'[u] \in {"idle", "gone"}
    BY <1>11 DEF ResetAfterFork
  <2>2. \A u \in Threads : ~Owing(u) /\ ~Owing(u)' /\ ~Appending(u)'
    BY <2>1 DEF Owing, Appending
  <2>3. rec' = rec /\ count' = count /\ done' = {} /\ KnownFileIds' = {}
    BY <1>11 DEF ResetAfterFork, KnownInChild
  <2> QED
    BY <2>2, <2>3 DEF NameInv, LibraryInv
<1>12. CASE UNCHANGED vars
  <2>1. UNCHANGED <<pc, rec, done, count, KnownFileIds>>
    BY <1>12 DEF vars, bounds
  <2> QED
    BY <2>1, SMT DEF NameInv, LibraryInv, Owing, Appending, Named
<1> QED
  BY <1>1, <1>3, <1>4, <1>5, <1>6, <1>7, <1>8, <1>9, <1>10, <1>11, <1>12 DEF Next, Step

(* Every step of the writer keeps every finished record where it can be    *)
(* found.                                                                  *)
LEMMA StoresKept ==
  ASSUME IInv, IInv', StoreInv, NameInv, [Next]_vars
  PROVE  StoreInv'
<1>t. TypeOK /\ BelowFlush
  BY DEF IInv, StoreInv
<1>p. pc \in [Threads -> Places] /\ rec \in [Threads -> Records]
  BY <1>t DEF TypeOK
<1>1. ASSUME NEW t \in Threads, NEW place, pc' = [pc EXCEPT ![t] = place],
             place \notin {"copy", "flush"}, pc[t] # "copy", ~Responsible(t),
             \A u \in Threads \ {t} : rec'[u] = rec[u],
             UNCHANGED <<Offset, BufferOffset, file, Buffer, done>>
      PROVE  StoreInv'
  <2>1. \A u \in Threads : pc'[u] = IF u = t THEN place ELSE pc[u]
    BY <1>p, <1>1
  <2>2. \A u \in Threads : Responsible(u)' <=> Responsible(u)
    BY <1>1, <2>1 DEF Responsible
  <2>3. \A u \in Threads : pc'[u] = "copy" <=> pc[u] = "copy"
    BY <1>1, <2>1
  <2>4. \A u \in Threads : pc[u] = "copy" => rec'[u] = rec[u]
    BY <1>1
  <2>5. Settled' = Settled /\ BelowFlush'
    BY <1>t, <1>1, <2>2, <2>3, <2>4, SettledKept
  <2> QED
    BY <1>1, <2>5, StoreKept
<1>r. \A t, u \in Threads : u # t => \A r : [rec EXCEPT ![t] = r][u] = rec[u]
  BY <1>p
<1>2. ASSUME NEW t \in Threads, AppendBlock(t) PROVE StoreInv'
  <2>1. \A u \in Threads \ {t} : rec'[u] = rec[u]
    BY <1>2, <1>r, SMT DEF AppendBlock, SetRec
  <2>2. PICK place \in {"known", "open"} : pc' = [pc EXCEPT ![t] = place]
    BY <1>2 DEF AppendBlock, Goto
  <2> QED
    BY <1>1, <1>2, <2>1, <2>2 DEF AppendBlock, Responsible, bufferVars, fileVars
<1>3. ASSUME NEW t \in Threads, IsWriteEnabled(t) PROVE StoreInv'
  <2>1. PICK place \in {"known", "idle"} : pc' = [pc EXCEPT ![t] = place]
    BY <1>3 DEF IsWriteEnabled, Goto
  <2> QED
    BY <1>1, <1>3, <2>1 DEF IsWriteEnabled, Responsible, bufferVars
<1>4. ASSUME NEW t \in Threads, CheckKnown(t) PROVE StoreInv'
  <2>1. PICK place \in {"claim", "register"} : pc' = [pc EXCEPT ![t] = place]
    BY <1>4 DEF CheckKnown, Goto
  <2> QED
    BY <1>1, <1>4, <2>1 DEF CheckKnown, Responsible, bufferVars, fileVars
<1>5. ASSUME NEW t \in Threads, Register(t) PROVE StoreInv'
  <2>1. \A u \in Threads \ {t} : rec'[u] = rec[u]
    BY <1>5, <1>r, SMT DEF Register, SetRec
  <2>2. PICK place \in {"claim"} : pc' = [pc EXCEPT ![t] = place]
    BY <1>5 DEF Register, Goto
  <2> QED
    BY <1>1, <1>5, <2>1, <2>2 DEF Register, Responsible, bufferVars, fileVars
<1>6. ASSUME NEW t \in Threads, SpinWait(t) PROVE StoreInv'
  <2>1. PICK place \in {"claim"} : pc' = [pc EXCEPT ![t] = place]
    BY <1>6 DEF SpinWait, Goto
  <2> QED
    BY <1>1, <1>6, <2>1 DEF SpinWait, Responsible, bufferVars, fileVars
<1>7. ASSUME NEW t \in Threads, Copy(t) PROVE StoreInv'
  <2>1. rec[t] \notin done
    <3>1. pc[t] = "copy" /\ Appending(t) /\ rec[t].by = t
      BY <1>7 DEF Copy, Appending, NameInv
    <3> QED
      BY <3>1 DEF NameInv
  <2> QED
    BY <1>7, <2>1, CopyStores
<1>f. \A i : (i \in Settled <=> Below(i) /\ Free(i)) /\ ((i \in Settled)' <=> Below(i)' /\ Free(i)')
  <2>1. (\A i : i \in Settled <=> Below(i) /\ Free(i))'
    BY SettledForm, PTL
  <2> QED
    BY <2>1, SettledForm
<1>n. BufferOffset \in Nat /\ Capacity \in Nat /\ \A u \in Threads : Offset[u] \in Nat
  BY <1>t, WriterAssumption DEF TypeOK
<1>z. BufferOffset' = 0 => Settled' = {} /\ BelowFlush'
  <2> SUFFICES ASSUME BufferOffset' = 0 PROVE Settled' = {} /\ BelowFlush'
    OBVIOUS
  <2>1. \A i : ~Below(i)'
    BY <1>n, SMT DEF Below
  <2>2. \A u \in Threads : ~Responsible(u)'
    BY <1>n, SMT DEF IInv, FlusherInv
  <2> QED
    BY <1>f, <2>1, <2>2 DEF BelowFlush
<1>8. ASSUME NEW t \in Threads, FlushBelow(t) PROVE StoreInv'
  <2>1. pc[t] = "flush" /\ shared = {} /\ UNCHANGED <<Offset, rec, Buffer, done>>
    BY <1>8 DEF FlushBelow
  <2>2. CASE IsResponsibleForFlush(t)
    <3>1. Responsible(t) /\ Offset[t] <= Capacity
      BY <2>1, <2>2 DEF Responsible, IsResponsibleForFlush
    <3>2. BufferOffset > Capacity
      BY <1>n, <3>1, SMT DEF IInv, FlusherInv
    <3>3. \A u \in Threads : Responsible(u) => u = t
      BY <3>1, <3>2 DEF IInv, FlusherInv
    <3>4. \A i : Below(i) <=> i \in Nat /\ i < Offset[t]
      BY <1>n, <3>1, <3>2, <3>3, SMT DEF Below
    <3>5. \A i : Free(i)
      BY <2>1 DEF Free, IInv, CopyInv
    <3>6. Settled = 0..(Offset[t] - 1)
      <4>1. \A i : i \in 0..(Offset[t] - 1) <=> i \in Nat /\ i < Offset[t]
        BY <1>n, SMT
      <4>2. \A i : i \in Settled <=> i \in 0..(Offset[t] - 1)
        BY <1>f, <3>4, <3>5, <4>1
      <4> QED
        BY <4>2
    <3>7. WriteOut(Offset[t]) /\ BufferOffset' = 0
      BY <1>8, <2>2 DEF FlushBelow
    <3> QED
      BY <1>n, <1>z, <2>1, <3>1, <3>6, <3>7, FlushStores
  <2>3. CASE ~IsResponsibleForFlush(t)
    <3>1. ~Responsible(t)
      BY <2>3 DEF Responsible, IsResponsibleForFlush
    <3>2. PICK place \in {"spin"} : pc' = [pc EXCEPT ![t] = place]
      BY <1>8, <2>3 DEF FlushBelow, Goto
    <3>3. UNCHANGED <<file, BufferOffset>>
      BY <1>8, <2>3 DEF FlushBelow
    <3> QED
      BY <1>1, <2>1, <3>1, <3>2, <3>3
  <2> QED
    BY <2>2, <2>3
<1>9. CASE Close
  <2>1. \A u \in Threads : pc[u] \notin {"copy", "flush"}
    BY <1>9 DEF Close
  <2>2. UNCHANGED <<pc, rec, Offset, Buffer, done>>
    BY <1>9 DEF Close
  <2>3. \A u \in Threads : ~Responsible(u) /\ ~Responsible(u)'
    BY <2>1, <2>2 DEF Responsible
  <2>4. BufferOffset <= Capacity
    BY <1>n, <2>3, SMT DEF IInv, FlusherInv
  <2>5. CASE CodeMapFD = "open"
    <3>1. \A i : Below(i) <=> i \in Nat /\ i < BufferOffset
      BY <1>n, <2>4, SMT DEF Below
    <3>2. \A i : Free(i)
      BY <2>1 DEF Free
    <3>3. Settled = 0..(BufferOffset - 1)
      <4>1. \A i : i \in 0..(BufferOffset - 1) <=> i \in Nat /\ i < BufferOffset
        BY <1>n, SMT
      <4>2. \A i : i \in Settled <=> i \in 0..(BufferOffset - 1)
        BY <1>f, <3>1, <3>2, <4>1
      <4> QED
        BY <4>2
    <3>4. WriteOut(BufferOffset) /\ BufferOffset' = 0
      BY <1>9, <2>5 DEF Close
    <3> QED
      BY <1>n, <1>z, <2>2, <2>4, <3>3, <3>4, FlushStores
  <2>6. CASE CodeMapFD # "open"
    <3>1. UNCHANGED <<file, BufferOffset>>
      BY <1>9, <2>6 DEF Close
    <3>2. Settled' = Settled /\ BelowFlush'
      BY <1>t, <2>2, <2>3, <3>1, SettledKept
    <3> QED
      BY <2>2, <3>1, <3>2, StoreKept
  <2> QED
    BY <2>5, <2>6
<1>10. ASSUME NEW t \in Threads, ResetAfterFork(t) PROVE StoreInv'
  <2>1. BufferOffset' = 0 /\ file' = <<>> /\ done' = {}
    BY <1>10 DEF ResetAfterFork
  <2>2. Settled' = {} /\ BelowFlush' /\ DOMAIN file' = {}
    BY <1>z, <2>1, SMT
  <2>3. \A r : NotInFile(r)' /\ NotInBuffer(r)'
    BY <2>2 DEF NotInFile, NotInBuffer
  <2>4. \A r : Placed(r)'
    BY <2>1, <2>3 DEF Placed
  <2> QED
    BY <2>2, <2>4 DEF StoreInv
<1>11. CASE UNCHANGED vars
  <2>1. UNCHANGED <<pc, rec, Offset, BufferOffset, file, Buffer, done>>
    BY <1>11 DEF vars, bufferVars, fileVars
  <2>2. \A u \in Threads : Responsible(u)' <=> Responsible(u)
    BY <2>1 DEF Responsible
  <2>3. Settled' = Settled /\ BelowFlush'
    BY <1>t, <2>1, <2>2, SettledKept
  <2> QED
    BY <2>1, <2>3, StoreKept
<1> QED
  BY <1>2, <1>3, <1>4, <1>5, <1>6, <1>7, <1>8, <1>9, <1>10, <1>11, ClaimStores DEF Next, Step

(* An empty writer satisfies the invariant: nothing is finished and        *)
(* nothing is stored.                                                      *)
LEMMA InitWhole == Init => WholeInv
<1> SUFFICES ASSUME Init PROVE WholeInv
  OBVIOUS
<1>1. BufferOffset = 0 /\ file = <<>> /\ done = {} /\ KnownFileIds = {} /\ Capacity \in Nat
  BY WriterAssumption DEF Init
<1>2. \A t \in Threads : pc[t] = "idle" /\ rec[t].by = t /\ rec[t].kind = "block"
  BY DEF Init
<1>3. IInv
  BY InitIInv
<1>4. Settled = {} /\ DOMAIN file = {}
  <2>1. \A i : ~Below(i)
    BY <1>1, SMT DEF Below
  <2>2. \A i : i \notin Settled
    BY <1>3, <2>1, SettledForm
  <2> QED
    BY <1>1, <2>2, SMT
<1>5. BelowFlush
  BY <1>2 DEF BelowFlush
<1>6. StoreInv
  BY <1>1, <1>4, <1>5 DEF StoreInv, Placed, NotInFile, NotInBuffer
<1>7. NameInv /\ LibraryInv
  BY <1>1, <1>2 DEF NameInv, LibraryInv, Appending, Owing
<1> QED
  BY <1>6, <1>7 DEF WholeInv

(* Every step of the writer keeps it.                                      *)
LEMMA NextWhole == IInv /\ IInv' /\ WholeInv /\ [Next]_vars => WholeInv'
BY NamesKept, StoresKept DEF WholeInv

(* A record in one place and in one piece has as many cells as it should.  *)
LEMMA WholeStored == IInv /\ StoreInv => NothingLost
<1> SUFFICES ASSUME IInv, StoreInv, NEW r \in Records
             PROVE  Stored(r) = IF r \in done THEN SizeOf(r) ELSE 0
  BY DEF NothingLost
<1> DEFINE F == {i \in DOMAIN file : file[i].rec = r}
<1> DEFINE B == {i \in Settled : Buffer[i].rec = r}
<1>1. Stored(r) = Cardinality(F) + Cardinality(B)
  BY DEF Stored
<1>2. SizeOf(r) \in Nat /\ SizeOf(r) >= 1
  BY SizeType
<1>3. NotInFile(r) => F = {}
  BY DEF NotInFile
<1>4. NotInBuffer(r) => B = {}
  BY DEF NotInBuffer
<1>5. \A k \in DOMAIN file : InFile(r, k) => F = k..(k + SizeOf(r) - 1)
  BY DEF InFile
<1>6. \A k \in Settled : InBuffer(r, k) => B = k..(k + SizeOf(r) - 1)
  BY DEF InBuffer
<1>7. Cardinality({}) = 0
  BY FS_EmptySet
<1>8. \A k \in Nat : Cardinality(k..(k + SizeOf(r) - 1)) = SizeOf(r)
  <2> SUFFICES ASSUME NEW k \in Nat PROVE Cardinality(k..(k + SizeOf(r) - 1)) = SizeOf(r)
    OBVIOUS
  <2>1. k \in Int /\ k + SizeOf(r) - 1 \in Int /\ ~(k > k + SizeOf(r) - 1)
          /\ (k + SizeOf(r) - 1) - k + 1 = SizeOf(r)
    BY <1>2, SMT
  <2> QED
    BY <2>1, FS_Interval
<1>9. (\A k \in DOMAIN file : k \in Nat) /\ (\A k \in Settled : k \in Nat)
  <2>1. file \in Seq(Cells \union {NoCell})
    BY DEF IInv, TypeOK
  <2>2. \A k \in DOMAIN file : k \in Nat
    BY <2>1, SMT
  <2>3. \A k \in Settled : k \in Nat
    BY SettledForm DEF Below
  <2> QED
    BY <2>2, <2>3
<1>10. Placed(r)
  BY DEF StoreInv
<1> HIDE DEF F, B
<1>11. CASE r \notin done
  BY <1>1, <1>3, <1>4, <1>7, <1>10, <1>11, SMT DEF Placed
<1>12. CASE r \in done /\ NotInBuffer(r) /\ \E k \in DOMAIN file : InFile(r, k)
  <2>1. Cardinality(F) = SizeOf(r)
    BY <1>5, <1>8, <1>9, <1>12
  <2> QED
    BY <1>1, <1>2, <1>4, <1>7, <1>12, <2>1, SMT
<1>13. CASE r \in done /\ NotInFile(r) /\ \E k \in Settled : InBuffer(r, k)
  <2>1. Cardinality(B) = SizeOf(r)
    BY <1>6, <1>8, <1>9, <1>13
  <2> QED
    BY <1>1, <1>2, <1>3, <1>7, <1>13, <2>1, SMT
<1> QED
  BY <1>10, <1>11, <1>12, <1>13 DEF Placed

(* The file holds whole records in the order of their cells.               *)
LEMMA WholeFile == IInv /\ StoreInv => FileWhole
<1> SUFFICES ASSUME IInv, StoreInv, NEW i \in DOMAIN file
             PROVE  /\ file[i].part \in 1..SizeOf(file[i].rec)
                    /\ file[i].part > 1 => i > 1 /\ file[i - 1] = [file[i] EXCEPT !.part = @ - 1]
                    /\ file[i].part < SizeOf(file[i].rec) => i < Len(file)
  BY DEF FileWhole
<1>1. file \in Seq(Cells \union {NoCell})
  BY DEF IInv, TypeOK
<1>2. PICK l \in Nat : l = Len(file) /\ DOMAIN file = 1..l
  BY <1>1, SMT
<1>3. file[i] \in Cells
  BY DEF StoreInv
<1>4. PICK r \in Records : r = file[i].rec
  BY <1>3 DEF Cells
<1>5. ~NotInFile(r)
  BY <1>4 DEF NotInFile
<1>6. PICK k \in 1..l : InFile(r, k)
  BY <1>2, <1>5 DEF StoreInv, Placed
<1>7. SizeOf(r) \in Nat
  BY SizeType
<1>8. i \in k..(k + SizeOf(r) - 1)
  BY <1>4, <1>6 DEF InFile
<1>9. \A j \in k..(k + SizeOf(r) - 1) : j \in 1..l /\ file[j].rec = r /\ file[j].part = j - k + 1
  BY <1>2, <1>6 DEF InFile
<1>10. file[i].part = i - k + 1
  BY <1>8, <1>9
<1>11. file[i].part \in 1..SizeOf(r)
  BY <1>7, <1>8, <1>10, SMT
<1>12. ASSUME file[i].part > 1 PROVE i > 1 /\ file[i - 1] = [file[i] EXCEPT !.part = @ - 1]
  <2>1. i - 1 \in k..(k + SizeOf(r) - 1) /\ i > 1
    BY <1>7, <1>8, <1>10, <1>12, SMT
  <2>2. i - 1 \in DOMAIN file /\ file[i - 1].rec = r /\ file[i - 1].part = (i - 1) - k + 1
    BY <1>2, <1>9, <2>1
  <2>3. file[i - 1].part = file[i].part - 1
    BY <1>7, <1>8, <1>10, <2>2, SMT
  <2>4. file[i - 1] \in Cells
    BY <2>2 DEF StoreInv
  <2>5. \A c, d \in Cells : d.rec = c.rec /\ d.part = c.part - 1 => d = [c EXCEPT !.part = @ - 1]
    BY DEF Cells
  <2> QED
    BY <1>3, <1>4, <2>1, <2>2, <2>3, <2>4, <2>5
<1>13. ASSUME file[i].part < SizeOf(r) PROVE i < Len(file)
  <2>1. i + 1 \in k..(k + SizeOf(r) - 1)
    BY <1>7, <1>8, <1>10, <1>13, SMT
  <2>2. i + 1 \in 1..l
    BY <1>9, <2>1
  <2> QED
    BY <1>2, <2>2, SMT
<1> QED
  BY <1>4, <1>11, <1>12, <1>13

(* Each known file has one library record, stored or owed.                 *)
LEMMA WholeLibraries == IInv /\ LibraryInv => LibraryOnce
<1> SUFFICES ASSUME IInv, LibraryInv, NEW f \in Files
             PROVE  Cardinality({r \in done : r.kind = "library" /\ r.file = f})
                      + Cardinality({t \in Threads : /\ pc[t] \in {"claim", "copy", "flush", "spin"}
                                                     /\ rec[t].kind = "library" /\ rec[t].file = f})
                    = IF f \in KnownFileIds THEN 1 ELSE 0
  BY DEF LibraryOnce
<1> DEFINE D == {r \in done : r.kind = "library" /\ r.file = f}
<1> DEFINE O == {t \in Threads : /\ pc[t] \in {"claim", "copy", "flush", "spin"}
                                 /\ rec[t].kind = "library" /\ rec[t].file = f}
<1>1. \A t : t \in O <=> t \in Threads /\ Owing(t) /\ rec[t].file = f
  BY DEF Owing
<1>2. Named(f) <=> \E r : r \in D
  BY DEF Named
<1>3. \A r, q \in D : r = q
  BY DEF LibraryInv
<1>4. \A r \in D : f \in KnownFileIds
  BY SMT DEF LibraryInv
<1> HIDE DEF D, O
<1>5. \A t \in O : f \in KnownFileIds /\ ~Named(f)
  BY <1>1, SMT DEF LibraryInv
<1>6. \A t, u \in O : t = u
  BY <1>1 DEF LibraryInv
<1>7. Cardinality({}) = 0 /\ \A x : Cardinality({x}) = 1
  BY FS_EmptySet, FS_Singleton
<1>8. CASE f \notin KnownFileIds
  <2>1. D = {} /\ O = {}
    BY <1>4, <1>5, <1>8
  <2>2. Cardinality(D) = 0 /\ Cardinality(O) = 0
    BY <1>7, <2>1
  <2> QED
    BY <1>8, <2>2, SMT DEF D, O
<1>9. CASE f \in KnownFileIds /\ Named(f)
  <2>1. O = {}
    BY <1>5, <1>9
  <2>2. PICK x : D = {x}
    BY <1>2, <1>3, <1>9, SMT
  <2>3. Cardinality(D) = 1 /\ Cardinality(O) = 0
    BY <1>7, <2>1, <2>2
  <2> QED
    BY <1>9, <2>3, SMT DEF D, O
<1>10. CASE f \in KnownFileIds /\ ~Named(f)
  <2>1. D = {}
    BY <1>2, <1>10
  <2>2. PICK x : x \in O
    BY <1>1, <1>10 DEF LibraryInv
  <2>3. O = {x}
    BY <1>6, <2>2
  <2>4. Cardinality(D) = 0 /\ Cardinality(O) = 1
    BY <1>7, <2>1, <2>3
  <2> QED
    BY <1>10, <2>4, SMT DEF D, O
<1> QED
  BY <1>8, <1>9, <1>10

(* Whatever the threads, the buffer and the flushes: every record that     *)
(* AppendBlock and AppendLibraryLoad finished is in the file or in the     *)
(* part of the buffer a flush will write, once and in one piece, the file  *)
(* is a sequence of whole records, and each known file has one library     *)
(* record, written or owed by one thread.                                  *)
THEOREM MapWhole == Spec => []CodeMapWhole
<1>1. Init => IInv /\ WholeInv
  BY InitIInv, InitWhole
<1>2. IInv /\ WholeInv /\ [Next]_vars => (IInv /\ WholeInv)'
  BY NextIInv, NextWhole
<1>3. IInv /\ WholeInv => CodeMapWhole
  BY WholeStored, WholeFile, WholeLibraries DEF WholeInv, CodeMapWhole
<1> QED
  BY <1>1, <1>2, <1>3, PTL DEF Spec

-----------------------------------------------------------------------------
(* The server, CodeMaps.                                                   *)

Maps == INSTANCE CodeMaps

(* A process that was given a code map and has not ended.                  *)
Using(p) == cpc[p] \in {"opened", "locked"}

(* A code map in use is there and has one user; it is empty until its user *)
(* has locked it; and none that is queued for the merge has a user.        *)
UseInv ==
  /\ cpc \in [Processes -> {"start", "populate", "running", "opened", "locked", "ended"}]
  /\ index \in [Processes -> Int]
  /\ crashes \in Nat
  /\ DOMAIN New \subseteq Int /\ \A i \in DOMAIN New : DOMAIN New[i] \subseteq Libraries
  /\ \A p \in Processes : Using(p) => index[p] \in DOMAIN New
  /\ \A p, q \in Processes : Using(p) /\ Using(q) /\ index[p] = index[q] => p = q
  /\ \A p \in Processes : cpc[p] = "opened" => New[index[p]] = Maps!Empty
  /\ queued \subseteq DOMAIN New
  /\ \A i \in queued : \A p \in Processes : Using(p) => index[p] # i

(* What the server has imported and not merged yet.                        *)
Pending(b) == spc \in {"delete", "write"} /\ b[1] \in DOMAIN imported /\ b[2] \in imported[b[1]]

(* What a reference map holds.                                             *)
Merged(b) == b[1] \in DOMAIN Ready /\ b[2] \in Ready[b[1]]

(* Unless the server was killed: a reference map that does not name its    *)
(* library is the one being written; every block of a deleted file is      *)
(* merged or pending; and so will be those of the files still to delete.   *)
MergeInv ==
  /\ spc # "down"
  /\ named \subseteq DOMAIN Ready
  /\ DOMAIN Ready \ named \subseteq writing
  /\ writing # {} => spc = "write"
  /\ spc = "write" => writing \subseteq DOMAIN Ready \cap DOMAIN imported /\ queued = {}
  /\ \A l \in writing : \A x \in writing : x = l
  /\ \A b \in processed : b = <<b[1], b[2]>>
  /\ \A b \in processed : Merged(b) \/ Pending(b) \/ b[1] \in shadowed
  /\ spc = "delete" =>
       \A i \in queued : \A l \in DOMAIN New[i] :
         l \in shadowed \/ (l \in DOMAIN imported /\ New[i][l] \subseteq imported[l])

(* The inductive invariant: users of files always, the merge while the     *)
(* server was not killed.                                                  *)
MapsInv == UseInv /\ (crashes = 0 => MergeInv)

(* Nobody has asked for anything yet.                                      *)
LEMMA InitMaps == Maps!Init => MapsInv
<1> SUFFICES ASSUME Maps!Init PROVE UseInv /\ MergeInv
  BY DEF MapsInv
<1>1. \A p \in Processes : ~Using(p)
  BY DEF Maps!Init, Using
<1>2. DOMAIN Ready = {}
  BY DEF Maps!Init, Maps!Empty
<1>3. UseInv
  BY <1>1, SMT DEF Maps!Init, UseInv, Maps!Empty
<1>4. MergeInv
  BY <1>2 DEF Maps!Init, MergeInv
<1> QED
  BY <1>3, <1>4

(* A step that moves one process, not into a code map, and leaves the      *)
(* files and the queue alone.                                              *)
LEMMA UseMove ==
  ASSUME UseInv, NEW p \in Processes, NEW place \in {"populate", "running", "locked", "ended"},
         Maps!Goto(p, place), place = "locked" => cpc[p] = "opened",
         UNCHANGED <<index, New, crashes>>, queued' \subseteq queued
  PROVE  UseInv'
<1>1. cpc' \in [Processes -> {"start", "populate", "running", "opened", "locked", "ended"}]
        /\ \A q \in Processes : cpc'[q] = IF q = p THEN place ELSE cpc[q]
  BY DEF UseInv, Maps!Goto
<1>2. \A q \in Processes : Using(q)' => Using(q)
  BY <1>1 DEF Using
<1>3. \A q \in Processes : cpc'[q] = "opened" => cpc[q] = "opened"
  BY <1>1
<1> QED
  BY <1>1, <1>2, <1>3 DEF UseInv

(* A step of the server that deletes nothing and queues nothing.           *)
LEMMA UseServer ==
  ASSUME UseInv, UNCHANGED <<index, New>>, crashes' \in Nat, queued' \subseteq queued,
         cpc' = cpc \/ cpc' = Maps!Answered
  PROVE  UseInv'
<1>1. cpc' \in [Processes -> {"start", "populate", "running", "opened", "locked", "ended"}]
  BY DEF UseInv, Maps!Answered
<1>2. \A q \in Processes : Using(q)' => Using(q)
  BY DEF Using, Maps!Answered
<1>3. \A q \in Processes : cpc'[q] = "opened" => cpc[q] = "opened"
  BY DEF Maps!Answered
<1> QED
  BY <1>1, <1>2, <1>3 DEF UseInv

(* Every step keeps the code maps in use.                                  *)
LEMMA NextUse == ASSUME UseInv, [Maps!Next]_(Maps!vars) PROVE UseInv'
<1>1. ASSUME NEW p \in Processes,
             Maps!PopulateCodeCache(p) \/ Maps!NoPopulate(p) \/ Maps!LockCodeMap(p)
                 \/ Maps!EndProcess(p)
      PROVE  UseInv'
  <2>1. CASE Maps!PopulateCodeCache(p)
    BY <2>1, UseMove DEF Maps!PopulateCodeCache
  <2>2. CASE Maps!NoPopulate(p)
    BY <2>2, UseMove DEF Maps!NoPopulate, Maps!serverVars
  <2>3. CASE Maps!LockCodeMap(p)
    BY <2>3, UseMove DEF Maps!LockCodeMap, Maps!serverVars
  <2>4. CASE Maps!EndProcess(p)
    BY <2>4, UseMove DEF Maps!EndProcess, Maps!serverVars
  <2> QED
    BY <1>1, <2>1, <2>2, <2>3, <2>4
<1>2. ASSUME NEW p \in Processes, Maps!QueryCodeMap(p) PROVE UseInv'
  <2>1. PICK i \in Maps!Indices : i \notin DOMAIN New
            /\ New' = Maps!With(New, i, Maps!Empty) /\ index' = [index EXCEPT ![p] = i]
    BY <1>2 DEF Maps!QueryCodeMap, Maps!FirstFree
  <2>2. i \in Int
    BY SMT DEF Maps!Indices
  <2>3. DOMAIN New' = DOMAIN New \union {i}
            /\ New'[i] = Maps!Empty /\ \A j \in DOMAIN New : New'[j] = New[j]
    BY <2>1 DEF Maps!With
  <2>4. index' \in [Processes -> Int]
            /\ \A q \in Processes : index'[q] = IF q = p THEN i ELSE index[q]
    BY <2>1, <2>2 DEF UseInv
  <2>5. cpc' \in [Processes -> {"start", "populate", "running", "opened", "locked", "ended"}]
          /\ \A q \in Processes : cpc'[q] = IF q = p THEN "opened" ELSE cpc[q]
    BY <1>2 DEF UseInv, Maps!QueryCodeMap, Maps!Goto
  <2>6. queued' = queued
    BY <1>2 DEF Maps!QueryCodeMap, Maps!serverVars
  <2>7. \A q \in Processes \ {p} : Using(q)' => Using(q) /\ index[q] \in DOMAIN New /\ index[q] # i
    BY <2>1, <2>5 DEF Using, UseInv
  <2>8. \A q \in Processes : Using(q)' => index'[q] \in DOMAIN New'
    BY <2>3, <2>4, <2>7
  <2>9. \A q, r \in Processes : Using(q)' /\ Using(r)' /\ index'[q] = index'[r] => q = r
    BY <2>4, <2>7 DEF UseInv
  <2>10. \A q \in Processes : cpc'[q] = "opened" => New'[index'[q]] = Maps!Empty
    BY <2>3, <2>4, <2>5 DEF UseInv, Using
  <2>11. \A j \in queued' : \A q \in Processes : Using(q)' => index'[q] # j
    BY <2>1, <2>4, <2>6, <2>7 DEF UseInv
  <2>12. queued' \subseteq DOMAIN New'
    BY <2>3, <2>6 DEF UseInv
  <2>13. DOMAIN New' \subseteq Int /\ \A j \in DOMAIN New' : DOMAIN New'[j] \subseteq Libraries
    BY <2>2, <2>3 DEF UseInv, Maps!Empty
  <2>14. crashes' = crashes
    BY <1>2 DEF Maps!QueryCodeMap
  <2> QED
    BY <2>4, <2>5, <2>8, <2>9, <2>10, <2>11, <2>12, <2>13, <2>14 DEF UseInv
<1>3. ASSUME NEW p \in Processes, Maps!WriteCodeMap(p) PROVE UseInv'
  <2>1. PICK content \in Maps!Contents :
          New' = IF Maps!Holds(p) THEN [New EXCEPT ![index[p]] = Maps!Join(@, content)] ELSE New
    BY <1>3 DEF Maps!WriteCodeMap
  <2>2. DOMAIN New' = DOMAIN New
    BY <2>1
  <2>6. DOMAIN content \subseteq Libraries
    BY DEF Maps!Contents
  <2>7. Maps!Holds(p) => New'[index[p]] = Maps!Join(New[index[p]], content)
    BY <2>1 DEF Maps!Holds
  <2>8. index[p] \in DOMAIN New => DOMAIN New'[index[p]] \subseteq Libraries
    BY <2>6, <2>7 DEF Maps!Join, Maps!Holds, UseInv
  <2>3. \A i \in DOMAIN New : i # index[p] => New'[i] = New[i]
    BY <2>1
  <2>4. cpc[p] = "locked" /\ UNCHANGED <<cpc, index, queued, crashes>>
    BY <1>3 DEF Maps!WriteCodeMap, Maps!processVars, Maps!serverVars
  <2>5. \A q \in Processes : cpc[q] = "opened" => index[q] # index[p] /\ index[q] \in DOMAIN New
    BY <2>4 DEF UseInv, Using
  <2> QED
    BY <2>2, <2>3, <2>4, <2>5, <2>8 DEF UseInv, Using
<1>4. CASE Maps!ScanIndex
  <2>1. at \in DOMAIN New /\ UNCHANGED <<cpc, index, New, crashes>>
          /\ queued' = IF Maps!StillInUse(at) THEN queued ELSE queued \union {at}
    BY <1>4 DEF Maps!ScanIndex, Maps!processVars
  <2>2. ~Maps!StillInUse(at) => \A p \in Processes : Using(p) => index[p] # at
    BY DEF Maps!StillInUse, Maps!StillLocked, Using, UseInv
  <2> QED
    BY <2>1, <2>2 DEF UseInv, Using
<1>5. CASE Maps!DeleteImported
  <2>1. PICK i \in queued : New' = Maps!Without(New, {i}) /\ queued' = queued \ {i}
    BY <1>5 DEF Maps!DeleteImported
  <2>2. DOMAIN New' = DOMAIN New \ {i} /\ \A j \in DOMAIN New \ {i} : New'[j] = New[j]
    BY <2>1 DEF Maps!Without
  <2>3. UNCHANGED <<cpc, index, crashes>>
    BY <1>5 DEF Maps!DeleteImported, Maps!processVars
  <2>4. \A p \in Processes : Using(p) => index[p] # i
    BY DEF UseInv
  <2> QED
    BY <2>1, <2>2, <2>3, <2>4 DEF UseInv, Using
<1>6. CASE Maps!ImportCodeMaps \/ Maps!MergeLibrary \/ Maps!WriteNewCodeMap
          \/ Maps!Answer \/ Maps!Restart \/ Maps!ServerCrash
  <2>1. crashes' \in Nat
    <3>1. crashes \in Nat
      BY DEF UseInv
    <3>2. crashes' = crashes \/ crashes' = crashes + 1
      BY <1>6
      DEF Maps!ImportCodeMaps, Maps!MergeLibrary, Maps!WriteNewCodeMap, Maps!Answer, Maps!Restart,
          Maps!ServerCrash
    <3> QED
      BY <3>1, <3>2, SMT
  <2> QED
    BY <1>6, <2>1, UseServer
    DEF Maps!ImportCodeMaps, Maps!MergeLibrary, Maps!WriteNewCodeMap, Maps!Answer, Maps!Restart,
        Maps!ServerCrash, Maps!processVars
<1>7. CASE UNCHANGED Maps!vars
  BY <1>7 DEF Maps!vars, Maps!processVars, Maps!serverVars, UseInv, Using
<1> QED
  BY <1>1, <1>2, <1>3, <1>4, <1>5, <1>6, <1>7 DEF Maps!Next, Maps!ServerStep

(* Until the server is killed, every step keeps what was deleted merged or *)
(* pending.                                                                *)
LEMMA NextMerge == ASSUME UseInv, MergeInv, [Maps!Next]_(Maps!vars), crashes' = crashes
    PROVE MergeInv'
<1>q. ASSUME UNCHANGED <<spc, queued, imported, writing, Ready, named, processed, shadowed>>,
             spc = "delete" => \A i \in queued : New'[i] = New[i]
      PROVE  MergeInv'
  BY <1>q DEF MergeInv, Merged, Pending
<1>1. ASSUME NEW p \in Processes, Maps!NoPopulate(p) \/ Maps!LockCodeMap(p) \/ Maps!EndProcess(p)
          PROVE MergeInv'
  BY <1>q, <1>1
  DEF Maps!NoPopulate, Maps!LockCodeMap, Maps!EndProcess, Maps!serverVars, Maps!reference,
      Maps!history
<1>2. ASSUME NEW p \in Processes, Maps!QueryCodeMap(p) PROVE MergeInv'
  BY <1>q, <1>2 DEF Maps!QueryCodeMap, Maps!serverVars, Maps!reference, Maps!history
<1>3. ASSUME NEW p \in Processes, Maps!WriteCodeMap(p) PROVE MergeInv'
  <2>1. PICK content :
          New' = IF Maps!Holds(p) THEN [New EXCEPT ![index[p]] = Maps!Join(@, content)] ELSE New
    BY <1>3 DEF Maps!WriteCodeMap
  <2>2. Using(p)
    BY <1>3 DEF Maps!WriteCodeMap, Using
  <2>3. \A i \in queued : i # index[p] /\ i \in DOMAIN New
    BY <2>2 DEF UseInv
  <2>4. \A i \in queued : New'[i] = New[i]
    BY <2>1, <2>3
  <2> QED
    BY <1>q, <1>3, <2>4 DEF Maps!WriteCodeMap, Maps!serverVars, Maps!reference, Maps!history
<1>4. ASSUME NEW p \in Processes, Maps!PopulateCodeCache(p) PROVE MergeInv'
  <2>1. spc = "idle" /\ spc' = "scan" /\ UNCHANGED <<writing, Ready, named, processed, shadowed>>
    BY <1>4 DEF Maps!PopulateCodeCache, Maps!reference, Maps!history
  <2>2. writing = {}
    BY <2>1 DEF MergeInv
  <2>3. \A b \in processed : Merged(b) \/ b[1] \in shadowed
    BY <2>1 DEF MergeInv, Pending
  <2> QED
    BY <2>1, <2>2, <2>3 DEF MergeInv, Merged, Pending
<1>5. CASE Maps!ScanIndex
  <2>1. spc = "scan" /\ UNCHANGED <<spc, imported, writing, Ready, named, processed, shadowed>>
    BY <1>5 DEF Maps!ScanIndex, Maps!reference, Maps!history
  <2> QED
    BY <2>1 DEF MergeInv, Merged, Pending
<1>6. CASE Maps!ImportCodeMaps
  <2>1. spc = "scan" /\ spc' = "delete"
            /\ UNCHANGED <<New, queued, writing, Ready, named, processed>>
    BY <1>6 DEF Maps!ImportCodeMaps, Maps!reference
  <2>2. imported' = [l \in UNION {Maps!Names(i) : i \in queued} |-> New[Maps!First(l)][l]]
    BY <1>6 DEF Maps!ImportCodeMaps
  <2>3. shadowed \subseteq shadowed'
    BY <1>6 DEF Maps!ImportCodeMaps
  <2>4. \A b \in processed : Merged(b) \/ b[1] \in shadowed
    BY <2>1 DEF MergeInv, Pending
  <2>5. ASSUME NEW i \in queued, NEW l \in DOMAIN New[i], l \notin shadowed'
        PROVE  l \in DOMAIN imported' /\ New[i][l] \subseteq imported'[l]
    <3>1. l \in UNION {Maps!Names(j) : j \in queued}
      BY DEF Maps!Names
    <3>2. \A j \in queued : l \in Maps!Names(j) => j = i
      <4>1. l \in Libraries
        BY DEF UseInv
      <4> QED
        BY <1>6, <2>5, <4>1 DEF Maps!ImportCodeMaps, Maps!Names
    <3>3. Maps!First(l) = i
      <4>1. i \in queued /\ l \in Maps!Names(i) /\ \A j \in queued : l \in Maps!Names(j) => i <= j
        <5>1. i \in Int
          BY DEF UseInv
        <5>2. i <= i
          BY <5>1, SMT
        <5> QED
          BY <3>2, <5>2 DEF Maps!Names
      <4>2. \A k \in queued : l \in Maps!Names(k)
                /\ (\A j \in queued : l \in Maps!Names(j) => k <= j) => k = i
        BY <3>2
      <4> QED
        BY <4>1, <4>2 DEF Maps!First
    <3> QED
      BY <2>2, <3>1, <3>3
  <2>6. writing = {}
    BY <2>1 DEF MergeInv
  <2> QED
    BY <2>1, <2>3, <2>4, <2>5, <2>6 DEF MergeInv, Merged
<1>7. CASE Maps!DeleteImported
  <2>1. PICK i \in queued :
          /\ New' = Maps!Without(New, {i})
          /\ processed' = processed \union Maps!BlocksOf(New[i])
          /\ queued' = queued \ {i}
    BY <1>7 DEF Maps!DeleteImported
  <2>2. spc = "delete" /\ UNCHANGED <<spc, imported, writing, Ready, named, shadowed>>
    BY <1>7 DEF Maps!DeleteImported, Maps!reference
  <2>3. \A b \in Maps!BlocksOf(New[i]) : b = <<b[1], b[2]>>
            /\ b[1] \in DOMAIN New[i] /\ b[2] \in New[i][b[1]]
    BY SMT DEF Maps!BlocksOf
  <2>4. \A b \in Maps!BlocksOf(New[i]) : Pending(b) \/ b[1] \in shadowed
    BY <2>2, <2>3 DEF MergeInv, Pending
  <2>5. \A j \in queued' : New'[j] = New[j]
    BY <2>1 DEF Maps!Without, UseInv
  <2> QED
    BY <2>1, <2>2, <2>3, <2>4, <2>5 DEF MergeInv, Merged, Pending
<1>8. CASE Maps!MergeLibrary
  <2>1. spc = "delete" /\ queued = {} /\ UNCHANGED <<queued, processed, shadowed>> /\ writing = {}
    BY <1>8 DEF Maps!MergeLibrary, Maps!history, MergeInv
  <2>2. DOMAIN Ready = named
    BY <2>1 DEF MergeInv
  <2>3. PICK l \in DOMAIN imported :
          \/ /\ l \in named /\ Maps!MergedBlocks(l) = Ready[l]
             /\ imported' = Maps!Without(imported, {l})
                 /\ UNCHANGED <<spc, writing, Maps!reference>>
          \/ /\ imported' = Maps!With(imported, l, Maps!MergedBlocks(l))
             /\ Ready' = Maps!With(Ready, l, {}) /\ named' = named \ {l}
             /\ writing' = {l} /\ spc' = "write"
    BY <1>8, <2>2 DEF Maps!MergeLibrary
  <2>4. CASE /\ l \in named /\ Maps!MergedBlocks(l) = Ready[l]
             /\ imported' = Maps!Without(imported, {l})
                 /\ UNCHANGED <<spc, writing, Maps!reference>>
    <3>1. DOMAIN imported' = DOMAIN imported \ {l}
              /\ \A x \in DOMAIN imported \ {l} : imported'[x] = imported[x]
      BY <2>4 DEF Maps!Without
    <3>2. imported[l] \subseteq Ready[l] /\ l \in DOMAIN Ready
      BY <2>2, <2>4 DEF Maps!MergedBlocks
    <3>3. UNCHANGED <<spc, writing, Ready, named>>
      BY <2>4 DEF Maps!reference
    <3>4. \A b \in processed : Pending(b) => Merged(b) \/ Pending(b)'
      BY <2>1, <3>1, <3>2, <3>3 DEF Pending, Merged
    <3> QED
      BY <2>1, <3>3, <3>4 DEF MergeInv, Merged
  <2>5. CASE /\ imported' = Maps!With(imported, l, Maps!MergedBlocks(l))
             /\ Ready' = Maps!With(Ready, l, {}) /\ named' = named \ {l}
             /\ writing' = {l} /\ spc' = "write"
    <3>1. DOMAIN imported' = DOMAIN imported /\ imported'[l] = Maps!MergedBlocks(l)
            /\ \A x \in DOMAIN imported \ {l} : imported'[x] = imported[x]
      BY <2>5 DEF Maps!With
    <3>2. DOMAIN Ready' = DOMAIN Ready \union {l}
              /\ \A x \in DOMAIN Ready \ {l} : Ready'[x] = Ready[x]
      BY <2>5 DEF Maps!With
    <3>3. imported[l] \subseteq imported'[l]
              /\ (l \in DOMAIN Ready => Ready[l] \subseteq imported'[l])
      BY <3>1 DEF Maps!MergedBlocks, Maps!Get
    <3>4. ASSUME NEW b \in processed, Merged(b) \/ Pending(b) PROVE Merged(b)' \/ Pending(b)'
      BY <2>5, <3>1, <3>2, <3>3, <3>4 DEF Pending, Merged
    <3>5. named' \subseteq DOMAIN Ready' /\ DOMAIN Ready' \ named' \subseteq writing'
      BY <2>2, <2>5, <3>2
    <3>6. writing' \subseteq DOMAIN Ready' \cap DOMAIN imported'
      BY <2>5, <3>1, <3>2
    <3> QED
      BY <2>1, <2>5, <3>4, <3>5, <3>6 DEF MergeInv
  <2> QED
    BY <2>3, <2>4, <2>5
<1>9. CASE Maps!WriteNewCodeMap
  <2>1. PICK l \in writing, B \in SUBSET Offsets :
          /\ B \subseteq imported[l]
          /\ Ready' = Maps!With(Ready, l, B) /\ named' = named \union Maps!RecordsIn(l, B)
          /\ Ready[l] \subseteq B
          /\ \/ UNCHANGED <<spc, imported, writing>>
             \/ B = imported[l]
                 /\ imported' = Maps!Without(imported, {l}) /\ writing' = {} /\ spc' = "delete"
    BY <1>9 DEF Maps!WriteNewCodeMap
  <2>2. spc = "write" /\ queued = {} /\ UNCHANGED <<queued, processed, shadowed>>
          /\ l \in DOMAIN Ready /\ l \in DOMAIN imported
    BY <1>9 DEF Maps!WriteNewCodeMap, Maps!history, MergeInv
  <2>3. writing = {l}
    BY DEF MergeInv
  <2>4. DOMAIN Ready' = DOMAIN Ready /\ Ready'[l] = B
            /\ \A x \in DOMAIN Ready \ {l} : Ready'[x] = Ready[x]
    BY <2>1, <2>2 DEF Maps!With
  <2>5. \A b : Merged(b) => Merged(b)'
    BY <2>1, <2>4 DEF Merged
  <2>6. named' \subseteq DOMAIN Ready' /\ DOMAIN Ready' \ named' = {}
    BY <2>1, <2>2, <2>3, <2>4 DEF MergeInv, Maps!RecordsIn
  <2>7. CASE UNCHANGED <<spc, imported, writing>>
    BY <2>2, <2>4, <2>5, <2>6, <2>7 DEF MergeInv, Pending
  <2>8. CASE B = imported[l]
            /\ imported' = Maps!Without(imported, {l}) /\ writing' = {} /\ spc' = "delete"
    <3>1. DOMAIN imported' = DOMAIN imported \ {l}
              /\ \A x \in DOMAIN imported \ {l} : imported'[x] = imported[x]
      BY <2>8 DEF Maps!Without
    <3>2. \A b \in processed : Pending(b) => Merged(b)' \/ Pending(b)'
      BY <2>2, <2>4, <2>8, <3>1 DEF Pending, Merged
    <3> QED
      BY <2>2, <2>5, <2>6, <2>8, <3>2 DEF MergeInv
  <2> QED
    BY <2>1, <2>7, <2>8
<1>10. CASE Maps!Answer
  <2>1. spc = "delete" /\ spc' = "idle" /\ imported = Maps!Empty
          /\ UNCHANGED <<queued, imported, writing, Ready, named, processed, shadowed>>
    BY <1>10 DEF Maps!Answer, Maps!reference, Maps!history
  <2>2. \A b : ~Pending(b)
    BY <2>1 DEF Pending, Maps!Empty
  <2> QED
    BY <2>1, <2>2 DEF MergeInv, Merged
<1>11. CASE Maps!Restart
  BY <1>11 DEF Maps!Restart, MergeInv
<1>12. CASE Maps!ServerCrash
  <2>1. crashes' = crashes + 1
    BY <1>12 DEF Maps!ServerCrash
  <2>2. crashes \in Nat
    BY DEF UseInv
  <2> QED
    BY <2>1, <2>2, SMT
<1>13. CASE UNCHANGED Maps!vars
  BY <1>q, <1>13 DEF Maps!vars, Maps!serverVars, Maps!reference, Maps!history
<1> QED
  BY <1>1, <1>2, <1>3, <1>4, <1>5, <1>6, <1>7, <1>8, <1>9, <1>10, <1>11, <1>12, <1>13
  DEF Maps!Next, Maps!ServerStep

(* The inductive invariant of the server's half holds.                     *)
THEOREM MapsInvariant == Maps!Spec => []MapsInv
<1>1. MapsInv /\ [Maps!Next]_(Maps!vars) => MapsInv'
  <2> SUFFICES ASSUME MapsInv, [Maps!Next]_(Maps!vars) PROVE MapsInv'
    OBVIOUS
  <2>1. UseInv'
    BY NextUse DEF MapsInv
  <2>2. ASSUME crashes' = 0 PROVE crashes = 0 /\ crashes' = crashes
    <3>1. crashes \in Nat
      BY DEF MapsInv, UseInv
    <3>2. crashes' = crashes \/ crashes' = crashes + 1
      BY DEF Maps!Next, Maps!ServerStep, Maps!vars, Maps!PopulateCodeCache, Maps!NoPopulate,
             Maps!QueryCodeMap, Maps!LockCodeMap,
             Maps!WriteCodeMap, Maps!EndProcess, Maps!ScanIndex, Maps!ImportCodeMaps,
             Maps!DeleteImported, Maps!MergeLibrary,
             Maps!WriteNewCodeMap, Maps!Answer, Maps!Restart, Maps!ServerCrash
    <3> QED
      BY <2>2, <3>1, <3>2, SMT
  <2> QED
    BY <2>1, <2>2, NextMerge DEF MapsInv
<1> QED
  BY <1>1, InitMaps, PTL DEF Maps!Spec

(* The server never deletes a code map its process may still write to, for *)
(* any processes, libraries and crashes: ImportPendingCodeMaps queues only *)
(* files that have no user.                                                *)
THEOREM InUseKept == Maps!Spec => []InUseStays
<1>1. MapsInv => InUseStays
  BY DEF MapsInv, UseInv, InUseStays, Using, Holds
<1> QED
  BY <1>1, MapsInvariant, PTL

(* Between requests of a server nobody killed, every block of a code map   *)
(* AggregateCodeMaps deleted is in a reference map, unless two of the maps *)
(* it merged at once named the library.                                    *)
THEOREM DeletedMerged == Maps!Spec => []MergedUnlessShadowed
<1>1. MapsInv => MergedUnlessShadowed
  <2> SUFFICES ASSUME MapsInv, spc = "idle", crashes = 0, NEW b \in processed
               PROVE  b \in BlocksOf(Ready) \/ b[1] \in shadowed
    BY DEF MergedUnlessShadowed
  <2>1. b = <<b[1], b[2]>> /\ (Merged(b) \/ b[1] \in shadowed)
    BY DEF MapsInv, MergeInv, Pending
  <2>2. Merged(b) => b \in BlocksOf(Ready)
    BY <2>1, SMT DEF Merged, BlocksOf
  <2> QED
    BY <2>1, <2>2
<1> QED
  BY <1>1, MapsInvariant, PTL

(* Only a kill ends the server: every reference map AggregateCodeMaps      *)
(* reads back names its library, so its at() does not throw.               *)
THEOREM OnlyKilled == Maps!Spec => []NeverThrows
<1>1. MapsInv => NeverThrows
  <2> SUFFICES ASSUME MapsInv, spc = "down" PROVE crashes > 0
    BY DEF NeverThrows
  <2>1. crashes \in Nat /\ crashes # 0
    BY DEF MapsInv, UseInv, MergeInv
  <2> QED
    BY <2>1, SMT
<1> QED
  BY <1>1, MapsInvariant, PTL
=============================================================================
