--------------------------- MODULE MCTranslations ---------------------------
(***************************************************************************)
(* Where translations are registered and where they lie, side by side; the *)
(* initial state chooses one machine, and the variables of the others      *)
(* rest.                                                                   *)
(*   soft:     SMCTracking, as the cfg has it;                             *)
(*   alone:    CodeBuffers with one thread that compiles and another that  *)
(*             runs what it finds, buffers of one block and then of two,   *)
(*             and a handler that interrupts each;                         *)
(*   handlers: CodeBuffers with two threads that compile, each with a      *)
(*             handler, and buffers of one block;                          *)
(*   links:    CodeBuffers with two threads that compile and link, buffers *)
(*             of one block and then of two, and no handlers.              *)
(***************************************************************************)
EXTENDS MCSMCTracking, CodeBuffersState, TLC

CONSTANTS c1, c2, r1, r2

VARIABLE machine

bufferVars ==
  <<Latest, LatestOffset, size, code, BlockOffsets, BlockLists, BlockLinks, exits,
    CodeBufferWriteMutex, writing, at, call, here, frames,
    CurrentCodeBuffer, SignalHandlerCodeBuffers, cache, compiled, died>>

Alone == INSTANCE CodeBuffers WITH
  Compilers <- {c1}, ConfiguredInitialSize <- 1, ConfiguredMaxSize <- 2,
  BlockLinkingEnabled <- FALSE, MaxBuffers <- 3, MaxFrames <- 1

Handlers == INSTANCE CodeBuffers WITH
  Compilers <- {c1, c2}, ConfiguredInitialSize <- 1, ConfiguredMaxSize <- 1,
  BlockLinkingEnabled <- FALSE, MaxBuffers <- 3, MaxFrames <- 1

Links == INSTANCE CodeBuffers WITH
  Compilers <- {c1, c2}, ConfiguredInitialSize <- 1, ConfiguredMaxSize <- 2,
  BlockLinkingEnabled <- TRUE, MaxBuffers <- 3, MaxFrames <- 0

ASSUME BuffersAssumption ==
  Alone!CodeBuffersAssumption /\ Handlers!CodeBuffersAssumption /\ Links!CodeBuffersAssumption

(* Only the buffers know guest addresses, and treat them alike.            *)
RIPSymmetry == Permutations(RIPs)

Resting == Init /\ mem = [w \in Words |-> 0]

MCInit ==
  \/ machine = "soft" /\ Init /\ Alone!Init
  \/ machine = "alone" /\ Resting /\ Alone!Init
  \/ machine = "handlers" /\ Resting /\ Handlers!Init
  \/ machine = "links" /\ Resting /\ Links!Init

(* A thread that does not compile waits for code that never comes, and the *)
(* bound on buffers stops everyone.                                        *)
MCNext ==
  /\ \/ machine = "soft" /\ Next /\ UNCHANGED bufferVars
     \/ machine = "alone" /\ Alone!Next /\ UNCHANGED vars
     \/ machine = "handlers" /\ Handlers!Next /\ UNCHANGED vars
     \/ machine = "links" /\ Links!Next /\ UNCHANGED vars
     \/ machine # "soft" /\ UNCHANGED <<vars, bufferVars>>
  /\ UNCHANGED machine

MCSpec == MCInit /\ [][MCNext]_<<machine, vars, bufferVars>>
=============================================================================
