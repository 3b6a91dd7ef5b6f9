---------------------------- MODULE MCCodeMaps ----------------------------
(***************************************************************************)
(* The two halves of the code maps side by side; the initial state chooses *)
(* one.                                                                    *)
(*   writer: the threads of one process, CodeMapWriter as the cfg has it;  *)
(*   server: the processes of one program and the server, CodeMaps.        *)
(***************************************************************************)
EXTENDS CodeMapWriter, CodeMapsState

VARIABLE machine

Maps == INSTANCE CodeMaps

mapsVars ==
  <<cpc, index, New, spc, at, queued, imported, Ready, writing, named, processed, shadowed, crashes>>

(* The half that is not chosen rests in its first state.                   *)
MCInit ==
  /\ machine \in {"writer", "server"}
  /\ Init /\ Maps!Init

MCNext ==
  /\ \/ machine = "writer" /\ Next /\ UNCHANGED mapsVars
     \/ machine = "server" /\ Maps!Next /\ UNCHANGED vars
  /\ UNCHANGED machine

all == <<vars, mapsVars, machine>>

(* The fairness of CodeMapWriter and of CodeMaps.                          *)
MCSpec ==
  /\ MCInit /\ [][MCNext]_all
  /\ \A t \in Threads : WF_all(machine = "writer" /\ Step(t) /\ UNCHANGED <<mapsVars, machine>>)
  /\ WF_all(machine = "server" /\ Maps!ServerStep /\ UNCHANGED <<vars, machine>>)

(* AppendEnds of CodeMapWriter and PopulateEnds of CodeMaps: no thread     *)
(* spins on a full buffer for ever, and every process that waits for the   *)
(* server gets to run.                                                     *)
CodeMapsEnd == AppendEnds /\ Maps!PopulateEnds
=============================================================================
