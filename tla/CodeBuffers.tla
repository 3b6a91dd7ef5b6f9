---------------------------- MODULE CodeBuffers ----------------------------
(***************************************************************************)
(* The code buffers that all threads compile into, and the links between   *)
(* the blocks in them.  One buffer is the latest; a thread that finds it   *)
(* full starts a larger one and takes it for its own, and the others pick  *)
(* it up when they compile.  A buffer lives as long as somebody has a      *)
(* shared_ptr to it.  Offsets and sizes are counted in blocks.             *)
(*                                                                         *)
(* A place is a buffer and an offset in it.  The exits of a block are told *)
(* apart by their guest destinations.  CompileBlock holds                  *)
(* CodeInvalidationMutex shared from "mutex" to "publish".  The variables   *)
(* and the invariants are in CodeBuffersState.                             *)
(***************************************************************************)
EXTENDS CodeBuffersState

CONSTANTS
  Compilers,     \* the threads that ever meet code without a translation
  ConfiguredInitialSize, ConfiguredMaxSize,
  BlockLinkingEnabled,
  MaxBuffers,    \* bound: buffers allocated
  MaxFrames      \* bound: guest handlers and callbacks that nest

shared == <<Latest, LatestOffset, size>>
contents == <<code, BlockOffsets>>
maps == <<BlockLists, BlockLinks>>
locks == <<CodeBufferWriteMutex, writing>>
held == <<CurrentCodeBuffer, SignalHandlerCodeBuffers>>
running == <<here, frames>>
vars == <<shared, contents, maps, exits, locks, at, call, running, held, cache, compiled, died>>

Buffers == 0 .. MaxBuffers - 1
Offsets == 0 .. ConfiguredMaxSize - 1
Places == Buffers \X Offsets
(* What the constants must satisfy.                                       *)
CodeBuffersAssumption ==
  /\ Compilers \subseteq CoreThreads
  /\ ConfiguredInitialSize \in Nat \ {0} /\ ConfiguredMaxSize \in Nat
  /\ ConfiguredInitialSize <= ConfiguredMaxSize
  /\ MaxBuffers \in Nat \ {0} /\ MaxFrames \in Nat
  /\ BlockLinkingEnabled \in BOOLEAN
  /\ Null \notin Places \cup Buffers

Labels == {"run", "find", "compile", "mutex", "check", "fit", "emit", "clear", "swap", "zero",
           "adopt", "relock", "publish", "link"}
NoCall == [want |-> Null, record |-> Null, buffer |-> Null, place |-> Null, PrevUsable |-> 0, new |-> Null]

Init ==
  /\ Latest = 0 /\ LatestOffset = 0
  /\ size = [b \in Buffers |-> ConfiguredInitialSize]
  /\ code = [p \in Places |-> Null]
  /\ BlockOffsets = [b \in Buffers |-> <<>>]
  /\ BlockLists = [b \in Buffers |-> [r \in RIPs |-> Null]]
  /\ BlockLinks = [b \in Buffers |-> {}]
  /\ exits = [p \in Places |-> [r \in RIPs |-> Null]]
  /\ CodeBufferWriteMutex = Null
  /\ writing = [b \in Buffers |-> Null]
  /\ at = [t \in CoreThreads |-> "run"]
  /\ call = [t \in CoreThreads |-> NoCall]
  /\ here = [t \in CoreThreads |-> Null]
  /\ frames = [t \in CoreThreads |-> <<>>]
  /\ CurrentCodeBuffer = [t \in CoreThreads |-> 0]
  /\ SignalHandlerCodeBuffers = [t \in CoreThreads |-> {}]
  /\ cache = [t \in CoreThreads |-> [r \in RIPs |-> Null]]
  /\ compiled = {} /\ died = FALSE

At(t, label) == ~died /\ at[t] = label
Goto(t, label) == at' = [at EXCEPT ![t] = label]
Free(b) == writing[b] = Null

----------------------------------------------------------------------------
(* Running translated code.                                                *)

(* Code at a place goes on to guest address r: over a patched exit, by the *)
(* inlined probe of the L1, or through the linker with the exit's record.  *)
ExitFunction(t, r) ==
  LET linked == IF here[t] = Null THEN Null ELSE exits[here[t]][r]
      next == IF linked # Null THEN linked ELSE cache[t][r]
  IN /\ At(t, "run")
     /\ IF next # Null
          THEN /\ here' = [here EXCEPT ![t] = next]
               /\ UNCHANGED <<at, call>>
          ELSE /\ Goto(t, "find")
               /\ call' = [call EXCEPT ![t] =
                    IF BlockLinkingEnabled /\ here[t] # Null
                      THEN [NoCall EXCEPT !.want = r, !.record = here[t], !.buffer = CurrentCodeBuffer[t]]
                      ELSE [NoCall EXCEPT !.want = r]]
               /\ here' = [here EXCEPT ![t] = Null]
     /\ UNCHANGED <<shared, contents, maps, exits, locks, frames, held, cache, compiled, died>>

(* A guest signal handler, or a callback from host code, starts at r.      *)
HandleDispatcherGuestSignal(t, r) ==
  /\ At(t, "run") /\ here[t] # Null /\ Len(frames[t]) < MaxFrames
  /\ frames' = [frames EXCEPT ![t] = Append(@, here[t])]
  /\ here' = [here EXCEPT ![t] = Null]
  /\ Goto(t, "find")
  /\ call' = [call EXCEPT ![t] = [NoCall EXCEPT !.want = r]]
  /\ UNCHANGED <<shared, contents, maps, exits, locks, held, cache, compiled, died>>

SignalHandlerRefCounter(t) == Len(frames[t])

(* sigreturn, or the end of the callback.                                  *)
RestoreThreadState(t) ==
  /\ At(t, "run") /\ frames[t] # <<>>
  /\ here' = [here EXCEPT ![t] = frames[t][Len(frames[t])]]
  /\ frames' = [frames EXCEPT ![t] = SubSeq(@, 1, Len(@) - 1)]
  /\ UNCHANGED <<shared, contents, maps, exits, locks, at, call, held, cache, compiled, died>>

----------------------------------------------------------------------------
(* Finding or compiling the block at call.want.                            *)

FindBlock(t) ==
  IF cache[t][call[t].want] # Null THEN cache[t][call[t].want]
                                   ELSE BlockLists[CurrentCodeBuffer[t]][call[t].want]

Dispatch(t, place) ==
  /\ here' = [here EXCEPT ![t] = place]
  /\ call' = [call EXCEPT ![t] = NoCall]
  /\ Goto(t, "run")

(* With a record, what was found is linked next; otherwise it is run.      *)
Found(t, place) ==
  IF call[t].record # Null /\ call[t].buffer = CurrentCodeBuffer[t]
    THEN /\ Goto(t, "link")
         /\ call' = [call EXCEPT ![t].place = place]
         /\ UNCHANGED here
    ELSE Dispatch(t, place)

ExitFunctionLink(t) ==
  LET place == FindBlock(t)
  IN /\ At(t, "find") /\ Free(CurrentCodeBuffer[t])
     /\ IF place # Null
          THEN /\ cache' = [cache EXCEPT ![t][call[t].want] = place]
               /\ Found(t, place)
          ELSE Goto(t, "compile") /\ UNCHANGED <<cache, here, call>>
     /\ UNCHANGED <<shared, contents, maps, exits, locks, frames, held, compiled, died>>

(* Another thread may have compiled it meanwhile.                          *)
CompileBlock(t) ==
  LET place == FindBlock(t)
  IN /\ At(t, "compile") /\ t \in Compilers /\ Free(CurrentCodeBuffer[t])
     /\ IF place # Null
          THEN /\ cache' = [cache EXCEPT ![t][call[t].want] = place]
               /\ Found(t, place) /\ UNCHANGED compiled
          ELSE /\ Goto(t, "mutex") /\ compiled' = compiled \cup {t}
               /\ UNCHANGED <<cache, here, call>>
     /\ UNCHANGED <<shared, contents, maps, exits, locks, frames, held, died>>

KeepLast(t, b) == IF SignalHandlerRefCounter(t) # 0 THEN {b} ELSE {}   \* (mutant)

(* The buffers that a thread keeps once it has left one for another.       *)
RegisterForSignalHandler(t, b) ==
  IF SignalHandlerRefCounter(t) # 0 THEN SignalHandlerCodeBuffers[t] \cup {b} ELSE {}

(* CompileCode.                                                            *)
LockCodeBuffers(t) ==
  /\ At(t, "mutex") \/ At(t, "relock")
  /\ CodeBufferWriteMutex = Null
  /\ CodeBufferWriteMutex' = t
  /\ Goto(t, IF at[t] = "mutex" THEN "check" ELSE "fit")
  /\ UNCHANGED <<shared, contents, maps, exits, writing, call, running, held, cache, compiled, died>>

CheckCodeBufferUpdate(t) ==
  /\ At(t, "check") /\ Goto(t, "fit")
  /\ IF CurrentCodeBuffer[t] = Latest
       THEN UNCHANGED <<held, cache>>
       ELSE /\ Free(CurrentCodeBuffer[t])
            /\ SignalHandlerCodeBuffers' =
                 [SignalHandlerCodeBuffers EXCEPT ![t] = RegisterForSignalHandler(t, CurrentCodeBuffer[t])]
            /\ CurrentCodeBuffer' = [CurrentCodeBuffer EXCEPT ![t] = Latest]
            /\ cache' = [cache EXCEPT ![t] = [r \in RIPs |-> Null]]
  /\ UNCHANGED <<shared, contents, maps, exits, locks, call, running, compiled, died>>

Fits(t) == LatestOffset < size[CurrentCodeBuffer[t]]

(* The capacity guard.  Back from a rotation that did not enlarge the      *)
(* buffer, a block that still does not fit is fatal; otherwise the mutex   *)
(* is dropped for ClearCache.                                              *)
CheckHeadroom(t) ==
  /\ At(t, "fit")
  /\ IF Fits(t)
       THEN /\ call' = [call EXCEPT ![t].place = <<CurrentCodeBuffer[t], LatestOffset>>]
            /\ Goto(t, "emit")
            /\ UNCHANGED <<CodeBufferWriteMutex, died>>
       ELSE /\ died' = (size[CurrentCodeBuffer[t]] <= call[t].PrevUsable)
            /\ CodeBufferWriteMutex' = Null
            /\ call' = [call EXCEPT ![t].PrevUsable = size[CurrentCodeBuffer[t]]]
            /\ Goto(t, "clear")
  /\ UNCHANGED <<shared, contents, maps, exits, writing, running, held, cache, compiled>>

(* The block is written and LatestOffset advanced; AppendBlock refuses an  *)
(* offset that is not above the last.                                      *)
EmitBlock(t) ==
  LET b == call[t].place[1]
      o == call[t].place[2]
  IN /\ At(t, "emit")
     /\ code' = [code EXCEPT ![call[t].place] = call[t].want]
     /\ exits' = [exits EXCEPT ![call[t].place] = [r \in RIPs |-> Null]]
     /\ LatestOffset' = LatestOffset + 1
     /\ IF BlockOffsets[b] # <<>> /\ o <= BlockOffsets[b][Len(BlockOffsets[b])]
          THEN died' = TRUE /\ UNCHANGED BlockOffsets
          ELSE BlockOffsets' = [BlockOffsets EXCEPT ![b] = Append(@, o)] /\ UNCHANGED died
     /\ CodeBufferWriteMutex' = Null
     /\ Goto(t, "publish")
     /\ UNCHANGED <<Latest, size, maps, writing, call, running, held, cache, compiled>>

AddBlockMapping(t) ==
  LET b == CurrentCodeBuffer[t]
      place == call[t].place
  IN /\ At(t, "publish") /\ Free(b)
     /\ BlockLists' = [BlockLists EXCEPT ![b][call[t].want] = place]
     /\ cache' = [cache EXCEPT ![t][call[t].want] = place]
     /\ Found(t, place)
     /\ UNCHANGED <<shared, contents, BlockLinks, exits, locks, frames, held, compiled, died>>

----------------------------------------------------------------------------
(* ClearCache, without CodeBufferWriteMutex.                               *)

ClearCache(t) ==
  LET prev == CurrentCodeBuffer[t]
  IN /\ At(t, "clear") /\ Free(prev)
     /\ writing' = [writing EXCEPT ![prev] = t]
     /\ Goto(t, "swap")
     /\ UNCHANGED <<shared, contents, maps, exits, CodeBufferWriteMutex, call, running, held, cache, compiled, died>>

Larger(n) == IF 2 * n < ConfiguredMaxSize THEN 2 * n
             ELSE IF n < ConfiguredMaxSize THEN ConfiguredMaxSize ELSE n

(* AllocateNew assigns Latest, then LatestOffset.                          *)
StartLargerCodeBuffer(t) ==
  LET new == Latest + 1
  IN /\ At(t, "swap") /\ new \in Buffers
     /\ Latest' = new
     /\ size' = [size EXCEPT ![new] = Larger(size[Latest])]
     /\ call' = [call EXCEPT ![t].new = new]
     /\ Goto(t, "zero")
     /\ UNCHANGED <<LatestOffset, contents, maps, exits, locks, running, held, cache, compiled, died>>

ResetLatestOffset(t) ==
  /\ At(t, "zero")
  /\ LatestOffset' = 0
  /\ Goto(t, "adopt")
  /\ UNCHANGED <<Latest, size, contents, maps, exits, locks, call, running, held, cache, compiled, died>>

(* (mutant)                                                                *)
GetEmptyCodeBufferKeepsCache(t) ==
  LET prev == CurrentCodeBuffer[t]
  IN /\ At(t, "adopt") /\ Goto(t, "relock")
     /\ CurrentCodeBuffer' = [CurrentCodeBuffer EXCEPT ![t] = call[t].new]
     /\ SignalHandlerCodeBuffers' =
          [SignalHandlerCodeBuffers EXCEPT ![t] = RegisterForSignalHandler(t, prev)]
     /\ writing' = [writing EXCEPT ![prev] = Null]
     /\ call' = [call EXCEPT ![t].new = Null]
     /\ UNCHANGED <<shared, contents, maps, exits, CodeBufferWriteMutex, running, cache, compiled, died>>

(* The thread takes the new buffer, keeps the old one where handlers may   *)
(* return to it, and lets go of the old map's lock.                        *)
GetEmptyCodeBuffer(t) ==
  LET prev == CurrentCodeBuffer[t]
  IN /\ At(t, "adopt")
     /\ CurrentCodeBuffer' = [CurrentCodeBuffer EXCEPT ![t] = call[t].new]
     /\ SignalHandlerCodeBuffers' =
          [SignalHandlerCodeBuffers EXCEPT ![t] = RegisterForSignalHandler(t, prev)]
     /\ cache' = [cache EXCEPT ![t] = [r \in RIPs |-> Null]]
     /\ writing' = [writing EXCEPT ![prev] = Null]
     /\ call' = [call EXCEPT ![t].new = Null]
     /\ Goto(t, "relock")
     /\ UNCHANGED <<shared, contents, maps, exits, CodeBufferWriteMutex, running, compiled, died>>

----------------------------------------------------------------------------
(* Links.                                                                  *)

(* (mutant)                                                                *)
LinkUnregistered(t) ==
  LET place == call[t].place
  IN /\ At(t, "link") /\ Free(CurrentCodeBuffer[t])
     /\ exits' = IF BlockLists[CurrentCodeBuffer[t]][call[t].want] = place
                   THEN [exits EXCEPT ![call[t].record][call[t].want] = place] ELSE exits
     /\ Dispatch(t, place)
     /\ UNCHANGED <<shared, contents, maps, locks, frames, held, cache, compiled, died>>

(* (mutant)                                                                *)
LinkUnchecked(t) ==
  LET b == CurrentCodeBuffer[t]
  IN /\ At(t, "link") /\ Free(b)
     /\ BlockLinks' = [BlockLinks EXCEPT ![b] = @ \cup {<<call[t].want, call[t].record>>}]
     /\ exits' = [exits EXCEPT ![call[t].record][call[t].want] = call[t].place]
     /\ Dispatch(t, call[t].place)
     /\ UNCHANGED <<shared, contents, BlockLists, locks, frames, held, cache, compiled, died>>

(* ExitFunctionLinkWithRecord under CodeInvalidationMutex and the map's    *)
(* write lock: what was found is still what the map says, so the exit is   *)
(* registered with the map and patched.                                    *)
ExitFunctionLinkWithRecord(t) ==
  LET b == CurrentCodeBuffer[t]
      r == call[t].want
      place == call[t].place
  IN /\ At(t, "link") /\ Free(b)
     /\ IF BlockLists[b][r] = place
          THEN /\ BlockLinks' = [BlockLinks EXCEPT ![b] = @ \cup {<<r, call[t].record>>}]
               /\ exits' = [exits EXCEPT ![call[t].record][r] = place]
          ELSE UNCHANGED <<BlockLinks, exits>>
     /\ Dispatch(t, place)
     /\ UNCHANGED <<shared, contents, BlockLists, locks, frames, held, cache, compiled, died>>

(* The delinkers that erasing r from the maps of the living buffers runs.  *)
Severed(r) == {p \in Places : \E b \in Buffers : Alive(b) /\ <<r, p>> \in BlockLinks[b]}

CompilingLabels == {"mutex", "check", "fit", "emit", "clear", "swap", "zero", "adopt", "relock", "publish"}

(* InvalidateCodeBuffersCodeRange and InvalidateThreadCachedCodeRange, with *)
(* CodeInvalidationMutex exclusive.                                        *)
InvalidateCodeRange(r) ==
  /\ ~died /\ \A t \in CoreThreads : at[t] \notin CompilingLabels
  /\ BlockLists' = [b \in Buffers |-> IF Alive(b) THEN [BlockLists[b] EXCEPT ![r] = Null] ELSE BlockLists[b]]
  /\ BlockLinks' = [b \in Buffers |-> IF Alive(b) THEN {l \in BlockLinks[b] : l[1] # r} ELSE BlockLinks[b]]
  /\ exits' = [p \in Places |-> IF p \in Severed(r) THEN [exits[p] EXCEPT ![r] = Null] ELSE exits[p]]
  /\ cache' = [t \in CoreThreads |-> [cache[t] EXCEPT ![r] = Null]]
  /\ UNCHANGED <<shared, contents, locks, at, call, running, held, compiled, died>>

Next ==
  \/ \E t \in CoreThreads :
       \/ \E r \in RIPs : ExitFunction(t, r) \/ HandleDispatcherGuestSignal(t, r)
       \/ RestoreThreadState(t)
       \/ ExitFunctionLink(t) \/ CompileBlock(t) \/ LockCodeBuffers(t) \/ CheckCodeBufferUpdate(t)
       \/ CheckHeadroom(t) \/ EmitBlock(t) \/ AddBlockMapping(t)
       \/ ClearCache(t) \/ StartLargerCodeBuffer(t) \/ ResetLatestOffset(t) \/ GetEmptyCodeBuffer(t)
       \/ ExitFunctionLinkWithRecord(t)
  \/ \E r \in RIPs : InvalidateCodeRange(r)

Spec == Init /\ [][Next]_vars

----------------------------------------------------------------------------
(* Every variable has its type; an offset beyond the largest buffer would  *)
(* be an emission into the guard page.                                     *)
TypeOK ==
  /\ Latest \in Buffers /\ LatestOffset \in 0 .. 2 * ConfiguredMaxSize
  /\ size \in [Buffers -> 1 .. ConfiguredMaxSize]
  /\ code \in [Places -> RIPs \cup {Null}]
  /\ \A b \in Buffers : BlockOffsets[b] \in Seq(Offsets)
  /\ BlockLists \in [Buffers -> [RIPs -> Places \cup {Null}]]
  /\ BlockLinks \in [Buffers -> SUBSET (RIPs \X Places)]
  /\ exits \in [Places -> [RIPs -> Places \cup {Null}]]
  /\ CodeBufferWriteMutex \in CoreThreads \cup {Null}
  /\ writing \in [Buffers -> CoreThreads \cup {Null}]
  /\ at \in [CoreThreads -> Labels]
  /\ here \in [CoreThreads -> Places \cup {Null}]
  /\ \A t \in CoreThreads : frames[t] \in Seq(Places)
  /\ CurrentCodeBuffer \in [CoreThreads -> Buffers]
  /\ SignalHandlerCodeBuffers \in [CoreThreads -> SUBSET Buffers]
  /\ cache \in [CoreThreads -> [RIPs -> Places \cup {Null}]]
  /\ compiled \subseteq Compilers /\ died \in BOOLEAN
============================================================================
