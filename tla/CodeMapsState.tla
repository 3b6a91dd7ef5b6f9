--------------------------- MODULE CodeMapsState ---------------------------
(***************************************************************************)
(* The state of the code maps of one program, in its processes, in the     *)
(* files and in FEXServer, and what must hold of it.  The steps are in     *)
(* CodeMaps.                                                               *)
(***************************************************************************)
EXTENDS Integers

CONSTANTS
  Processes,
  Libraries,   \* CodeMapFileIds
  Offsets,     \* block offsets
  MaxIndex,    \* bound: indices of new code maps
  MaxCrashes   \* bound: crashes of the server

VARIABLES
  cpc,         \* where each process is
  index,       \* the index of its file, -1 before it has one
  New,         \* new code maps: [index -> content], for the files there are
  spc,         \* where the server is
  at,          \* Index of the scan
  queued,      \* CodeMaps: the indices of the files to merge
  imported,    \* ImportedCodeMaps: [library -> offsets]
  Ready,       \* reference code maps: [library -> offsets], for the files there are
  writing,     \* the library whose reference map is being written
  named,       \* the libraries whose reference map names them: a truncated file does not
  processed,   \* every block of every file the server deleted
  shadowed,    \* the libraries two merged files named
  crashes

(* The blocks a code map holds.                                            *)
BlocksOf(content) == UNION {{l} \X content[l] : l \in DOMAIN content}

(* The file of process p is there.                                         *)
Holds(p) == index[p] \in DOMAIN New

-----------------------------------------------------------------------------
(* The server never deletes a code map its process may still write to: not *)
(* between the creation of the file and the lock, when the file is empty,  *)
(* and not under the lock.                                                 *)
InUseStays == \A p \in Processes : cpc[p] \in {"opened", "locked"} => Holds(p)

(* Between requests, and as long as the server was not killed, every block *)
(* of every code map the server deleted is in a reference map, unless two  *)
(* of the maps it merged at once named its library.                        *)
MergedUnlessShadowed ==
  spc = "idle" /\ crashes = 0 =>
    \A b \in processed : b \in BlocksOf(Ready) \/ b[1] \in shadowed

(* Processed code maps are merged into the reference code map and deleted  *)
(* afterwards: nothing of a deleted code map is lost.                      *)
ProcessedAreMerged == spc = "idle" /\ crashes = 0 => processed \subseteq BlocksOf(Ready)

(* A server that is not killed does not end by itself: every reference map *)
(* it reads names its library.                                             *)
NeverThrows == spc = "down" => crashes > 0
=============================================================================
