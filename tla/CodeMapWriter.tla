--------------------------- MODULE CodeMapWriter ---------------------------
(***************************************************************************)
(* CodeMapWriter, CodeCache.cpp: the threads of one process record the     *)
(* blocks they compile in one buffer without excluding each other.         *)
(*                                                                         *)
(* A record is claimed by a fetch_add on BufferOffset and copied under the *)
(* shared lock.  The thread whose claim first leaves the buffer flushes    *)
(* what lies below its claim under the exclusive lock and resets           *)
(* BufferOffset; every other thread that came too late spins until then.   *)
(*                                                                         *)
(* Nothing interleaves with a section under the exclusive lock but the     *)
(* spinning loads, so such a section is one step, enabled while nobody     *)
(* holds the lock shared.  A record is a tuple of cells; its bytes and the *)
(* path in a library record are left out.                                  *)
(***************************************************************************)
EXTENDS Integers, Sequences, FiniteSets

CONSTANTS
  Threads,
  Files,       \* CodeMapFileIds
  Capacity,    \* cells in Buffer
  LibrarySize, \* cells of a library record; a block's record is one cell
  MaxBlocks,   \* bound: blocks each thread appends
  MaxForks     \* bound: forks followed into the child

(* A library record fits in the empty buffer: a longer path would make     *)
(* AppendData flush and start over forever.                                *)
ASSUME WriterAssumption ==
  /\ LibrarySize \in Nat \ {0} /\ Capacity \in Nat /\ LibrarySize <= Capacity
  /\ MaxBlocks \in Nat /\ MaxForks \in Nat

VARIABLES
  pc,           \* where each thread is in AppendBlock
  rec,          \* the record it is appending
  Offset,       \* the offset its last fetch_add returned
  shared,       \* the threads that hold Mutex shared
  CodeMapFD,    \* "nullopt", "denied" (-1), "open", or "closed" with the writer gone
  KnownFileIds,
  Buffer, BufferOffset,
  file,         \* the cells written to the code map
  done,         \* the records appended since the file was opened
  count,        \* blocks each thread has appended
  forks

fileVars == <<CodeMapFD, file>>
bufferVars == <<Buffer, BufferOffset>>
bounds == <<count, forks>>
vars == <<pc, rec, Offset, shared, fileVars, KnownFileIds, bufferVars, done, bounds>>

(* A record names the block it is about (by its thread and number) and its *)
(* file; a library record is written for the first block of the file.      *)
Records == [kind : {"library", "block"}, file : Files, by : Threads, n : 0..MaxBlocks]
SizeOf(r) == IF r.kind = "library" THEN LibrarySize ELSE 1
Cells == [rec : Records, part : 1..LibrarySize]
NoCell == [rec |-> [kind |-> "stale"], part |-> 0]

(* "open": about to take the lock in IsWriteEnabled; "known", "register":  *)
(* the two looks at KnownFileIds; "claim", "copy", "flush", "spin": in     *)
(* AppendData.                                                             *)
Places == {"idle", "open", "known", "register", "claim", "copy", "flush", "spin", "gone"}

(* The type of every variable.                                             *)
TypeOK ==
  /\ pc \in [Threads -> Places]
  /\ rec \in [Threads -> Records]
  /\ Offset \in [Threads -> Nat]
  /\ shared \subseteq Threads
  /\ CodeMapFD \in {"nullopt", "denied", "open", "closed"}
  /\ KnownFileIds \subseteq Files
  /\ Buffer \in [0..(Capacity - 1) -> Cells \union {NoCell}]
  /\ BufferOffset \in Nat
  /\ file \in Seq(Cells \union {NoCell})
  /\ done \subseteq Records
  /\ count \in [Threads -> 0..MaxBlocks]
  /\ forks \in 0..MaxForks

Init ==
  /\ pc = [t \in Threads |-> "idle"]
  /\ rec \in [Threads -> {r \in Records : r.kind = "block" /\ r.n = 0}]
  /\ \A t \in Threads : rec[t].by = t
  /\ \A t, u \in Threads : rec[t].file = rec[u].file
  /\ Offset = [t \in Threads |-> 0]
  /\ shared = {}
  /\ CodeMapFD = "nullopt"
  /\ KnownFileIds = {}
  /\ Buffer = [i \in 0..(Capacity - 1) |-> NoCell]
  /\ BufferOffset = 0
  /\ file = <<>>
  /\ done = {}
  /\ count = [t \in Threads |-> 0]
  /\ forks = 0

Goto(t, place) == pc' = [pc EXCEPT ![t] = place]
SetRec(t, r) == rec' = [rec EXCEPT ![t] = r]
LibraryRecord(r) == [r EXCEPT !.kind = "library"]
BlockRecord(r) == [r EXCEPT !.kind = "block"]

(* AppendBlock, and IsWriteEnabled up to its lock.  A block outside the    *)
(* 4 GiB window and a pressure-vessel library return at once and change    *)
(* nothing, like a denied map.                                             *)
AppendBlock(t) ==
  /\ pc[t] = "idle" /\ count[t] < MaxBlocks
  /\ CodeMapFD \in {"nullopt", "open"}
  /\ \E f \in Files : SetRec(t, [kind |-> "block", file |-> f, by |-> t, n |-> count[t]])
  /\ count' = [count EXCEPT ![t] = @ + 1]
  /\ Goto(t, IF CodeMapFD = "open" THEN "known" ELSE "open")
  /\ UNCHANGED <<Offset, shared, fileVars, KnownFileIds, bufferVars, done, forks>>

(* The second look of IsWriteEnabled, under the lock; OpenCodeMapFile asks *)
(* FEXServer for the file, which may refuse.                               *)
IsWriteEnabled(t) ==
  /\ pc[t] = "open" /\ shared = {}
  /\ IF CodeMapFD = "nullopt" THEN CodeMapFD' \in {"open", "denied"}
                              ELSE UNCHANGED CodeMapFD
  /\ Goto(t, IF CodeMapFD' = "denied" THEN "idle" ELSE "known")
  /\ UNCHANGED <<rec, Offset, shared, KnownFileIds, bufferVars, file, done, bounds>>

(* Check prior registration with the shared lock.                          *)
CheckKnown(t) ==
  /\ pc[t] = "known"
  /\ Goto(t, IF rec[t].file \in KnownFileIds THEN "claim" ELSE "register")
  /\ UNCHANGED <<rec, Offset, shared, fileVars, KnownFileIds, bufferVars, done, bounds>>

(* Register with the exclusive lock; only the thread that inserted the id  *)
(* goes on to AppendLibraryLoad, the others to their block's record.       *)
Register(t) ==
  /\ pc[t] = "register" /\ shared = {}
  /\ KnownFileIds' = KnownFileIds \union {rec[t].file}
  /\ SetRec(t, IF rec[t].file \in KnownFileIds THEN rec[t] ELSE LibraryRecord(rec[t]))
  /\ Goto(t, "claim")
  /\ UNCHANGED <<Offset, shared, fileVars, bufferVars, done, bounds>>

(* AppendData up to its test: the claim, and the lock kept if it fits.     *)
Claim(t) ==
  /\ pc[t] = "claim"
  /\ Offset' = [Offset EXCEPT ![t] = BufferOffset]
  /\ BufferOffset' = BufferOffset + SizeOf(rec[t])
  /\ IF BufferOffset + SizeOf(rec[t]) > Capacity
     THEN Goto(t, "flush") /\ UNCHANGED shared
     ELSE Goto(t, "copy") /\ shared' = shared \union {t}
  /\ UNCHANGED <<rec, fileVars, KnownFileIds, Buffer, done, bounds>>

Claimed(t) == Offset[t]..(Offset[t] + SizeOf(rec[t]) - 1)

(* The memcpy, and the return of AppendData: after a library record the    *)
(* block's own record is next.                                             *)
PartAt(t, i) == i - Offset[t] + 1
Copy(t) ==
  /\ pc[t] = "copy"
  /\ Buffer' = [i \in DOMAIN Buffer |->
                  IF i \in Claimed(t) THEN [rec |-> rec[t], part |-> PartAt(t, i)] ELSE Buffer[i]]
  /\ shared' = shared \ {t}
  /\ done' = done \union {rec[t]}
  /\ SetRec(t, BlockRecord(rec[t]))
  /\ Goto(t, IF rec[t].kind = "library" THEN "claim" ELSE "idle")
  /\ UNCHANGED <<Offset, fileVars, KnownFileIds, BufferOffset, bounds>>

(* Mutant of WriteOut: the whole buffer is written.                        *)
WriteOutBuffer(n) == file' = file \o [i \in 1..Capacity |-> Buffer[i - 1]]

(* Flush, up to the reset of BufferOffset.                                 *)
WriteOut(n) == file' = file \o [i \in 1..n |-> Buffer[i - 1]]

(* The exhausted branch of AppendData: the thread with the last in-bounds  *)
(* offset flushes what is below it, under the exclusive lock.              *)
IsResponsibleForFlush(t) == Offset[t] <= Capacity

(* Mutant of FlushBelow: it does not wait for the copies in progress.      *)
FlushUnlocked(t) ==
  /\ pc[t] = "flush"
  /\ IF IsResponsibleForFlush(t)
     THEN WriteOut(Offset[t]) /\ BufferOffset' = 0 /\ Goto(t, "claim")
     ELSE Goto(t, "spin") /\ UNCHANGED <<file, BufferOffset>>
  /\ UNCHANGED <<rec, Offset, shared, CodeMapFD, KnownFileIds, Buffer, done, bounds>>

FlushBelow(t) ==
  /\ pc[t] = "flush" /\ shared = {}
  /\ IF IsResponsibleForFlush(t)
     THEN WriteOut(Offset[t]) /\ BufferOffset' = 0 /\ Goto(t, "claim")
     ELSE Goto(t, "spin") /\ UNCHANGED <<file, BufferOffset>>
  /\ UNCHANGED <<rec, Offset, shared, CodeMapFD, KnownFileIds, Buffer, done, bounds>>

(* Mutant of SpinWait: it waits for room, not for the flush.               *)
SpinUntilRoom(t) ==
  /\ pc[t] = "spin" /\ BufferOffset < Capacity
  /\ Goto(t, "claim")
  /\ UNCHANGED <<rec, Offset, shared, fileVars, KnownFileIds, bufferVars, done, bounds>>

(* WaitPred, then AppendData starts over.                                  *)
SpinWait(t) ==
  /\ pc[t] = "spin" /\ BufferOffset <= Capacity
  /\ Goto(t, "claim")
  /\ UNCHANGED <<rec, Offset, shared, fileVars, KnownFileIds, bufferVars, done, bounds>>

(* ~CodeMapWriter, by the last thread of the process.                      *)
Close ==
  /\ \A t \in Threads : pc[t] \in {"idle", "gone"}
  /\ CodeMapFD # "closed"
  /\ IF CodeMapFD = "open" THEN WriteOut(BufferOffset) /\ BufferOffset' = 0
                           ELSE UNCHANGED <<file, BufferOffset>>
  /\ CodeMapFD' = "closed"
  /\ UNCHANGED <<pc, rec, Offset, shared, KnownFileIds, Buffer, done, bounds>>

KnownInChild == {}

(* ResetAfterFork, followed into the child: only the forking thread is     *)
(* left.  The fork excludes compilation (LockBeforeFork), and with it      *)
(* every thread inside AppendBlock.                                        *)
ResetAfterFork(t) ==
  /\ forks < MaxForks /\ forks' = forks + 1
  /\ pc[t] = "idle" /\ \A u \in Threads : pc[u] \in {"idle", "gone"}
  /\ pc' = [u \in Threads |-> IF u = t THEN "idle" ELSE "gone"]
  /\ CodeMapFD' = IF CodeMapFD = "open" THEN "nullopt" ELSE CodeMapFD
  /\ CodeMapFD # "closed"
  /\ BufferOffset' = 0
  /\ KnownFileIds' = KnownInChild
  /\ file' = <<>> /\ done' = {}
  /\ UNCHANGED <<rec, Offset, shared, Buffer, count>>

Step(t) ==
  \/ IsWriteEnabled(t) \/ CheckKnown(t) \/ Register(t) \/ Claim(t)
  \/ Copy(t) \/ FlushBelow(t) \/ SpinWait(t)

Next == Close \/ \E t \in Threads : AppendBlock(t) \/ Step(t) \/ ResetAfterFork(t)

Spec == Init /\ [][Next]_vars

(* Every runnable thread keeps running, and a lock that is free is given   *)
(* to a waiter: compilations pause often enough.                           *)
FairSpec == Spec /\ \A t \in Threads : WF_vars(Step(t))

-----------------------------------------------------------------------------
Holders(place) == {t \in Threads : pc[t] = place}

(* When the buffer is exhausted exactly one thread takes itself to be      *)
(* responsible for the flush, and otherwise none does: two would write the *)
(* buffer twice, none would leave the others spinning.                     *)
OneFlusher ==
  LET Responsible == {t \in Holders("flush") : IsResponsibleForFlush(t)}
  IN /\ BufferOffset > Capacity => \E t \in Threads : Responsible = {t}
     /\ BufferOffset <= Capacity => Responsible = {}

(* Claims being copied lie in the buffer, below what any flush may write,  *)
(* and do not overlap.                                                     *)
ClaimsDisjoint ==
  \A t \in Holders("copy") :
    /\ t \in shared
    /\ Offset[t] + SizeOf(rec[t]) <= Capacity /\ Offset[t] + SizeOf(rec[t]) <= BufferOffset
    /\ \A u \in Holders("copy") \ {t} :
         \/ Offset[t] + SizeOf(rec[t]) <= Offset[u]
         \/ Offset[u] + SizeOf(rec[u]) <= Offset[t]

(* The filled part of the buffer ends where the next claim, or the flush   *)
(* that is owed, begins.                                                   *)
Filled == IF BufferOffset <= Capacity THEN BufferOffset
          ELSE Offset[CHOOSE t \in Holders("flush") : IsResponsibleForFlush(t)]

Settled == 0..(Filled - 1) \ UNION {Claimed(t) : t \in Holders("copy")}

Stored(r) ==
  Cardinality({i \in DOMAIN file : file[i].rec = r})
    + Cardinality({i \in Settled : Buffer[i].rec = r})

(* Every record whose append returned is stored exactly once, in the file  *)
(* or in the part of the buffer a flush will write, whichever threads      *)
(* filled and flushed it meanwhile; in a child, nothing of the parent is.  *)
NothingLost ==
  \A r \in Records : Stored(r) = IF r \in done THEN SizeOf(r) ELSE 0

(* The file always holds whole records: a process that is killed leaves a  *)
(* code map ParseCodeMap can read to its end.                              *)
FileWhole ==
  \A i \in DOMAIN file :
    /\ file[i].part \in 1..SizeOf(file[i].rec)
    /\ file[i].part > 1 => i > 1 /\ file[i - 1] = [file[i] EXCEPT !.part = @ - 1]
    /\ file[i].part < SizeOf(file[i].rec) => i < Len(file)

(* Each file the process names in a block's record gets one library record *)
(* and no more: the one thread that registered it stores it, in the child  *)
(* of a fork again.                                                        *)
LibraryOnce ==
  \A f \in Files :
    LET Stores == {r \in done : r.kind = "library" /\ r.file = f}
        Owes == {t \in Threads : /\ pc[t] \in {"claim", "copy", "flush", "spin"}
                                 /\ rec[t].kind = "library" /\ rec[t].file = f}
    IN Cardinality(Stores) + Cardinality(Owes) = IF f \in KnownFileIds THEN 1 ELSE 0

(* The code map is whole: every record that AppendBlock and                *)
(* AppendLibraryLoad finished is in the file or in the buffer, once and in *)
(* one piece, and a process names a library once.                          *)
CodeMapWhole == NothingLost /\ FileWhole /\ LibraryOnce

(* No append waits for ever, neither for the lock nor for another thread's *)
(* flush.                                                                  *)
AppendEnds == \A t \in Threads : pc[t] # "idle" ~> pc[t] \in {"idle", "gone"}
=============================================================================
