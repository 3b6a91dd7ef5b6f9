------------------------------ MODULE CodeMaps ------------------------------
(***************************************************************************)
(* Code maps between the processes that write them and FEXServer, which    *)
(* merges them: ProcessPipe.cpp (TYPE_QUERY_CODE_MAP,                      *)
(* TYPE_POPULATE_CODE_CACHE) and OpenCodeMapFile.                          *)
(*                                                                         *)
(* A process of one program asks for a new file, which the server creates  *)
(* empty under the first free index, and locks it before it writes.  A     *)
(* later process of the program asks the server to merge what was written: *)
(* the server takes every file that is neither empty nor locked, deletes   *)
(* it, and rewrites the reference map of each library it names.            *)
(*                                                                         *)
(* The server handles one request at a time.  The content of a map is what *)
(* ParseCodeMap reads from it: the libraries it names, with the blocks of  *)
(* each.  CodeMapWriter shows that it is written in whole records.  The    *)
(* caches compiled from the reference maps are left out.  The variables    *)
(* and the invariants are in CodeMapsState.                                *)
(***************************************************************************)
EXTENDS FiniteSets, CodeMapsState

Blocks == Libraries \X Offsets
Indices == 0..MaxIndex
Contents == UNION {[L -> SUBSET Offsets] : L \in SUBSET Libraries}

processVars == <<cpc, index>>
serverVars == <<spc, at, queued, imported, writing>>
reference == <<Ready, named>>
history == <<processed, shadowed>>
vars == <<processVars, New, serverVars, reference, history, crashes>>

(* The type of every variable.                                             *)
TypeOK ==
  /\ cpc \in [Processes -> {"start", "populate", "running", "opened", "locked", "ended"}]
  /\ index \in [Processes -> Indices \union {-1}]
  /\ DOMAIN New \subseteq Indices /\ \A i \in DOMAIN New : New[i] \in Contents
  /\ spc \in {"idle", "scan", "delete", "merge", "write", "down"}
  /\ at \in Nat
  /\ queued \subseteq Indices
  /\ imported \in Contents /\ Ready \in Contents
  /\ writing \subseteq Libraries /\ named \subseteq DOMAIN Ready
  /\ processed \subseteq Blocks /\ shadowed \subseteq Libraries
  /\ crashes \in 0..MaxCrashes

Empty == [x \in {} |-> {}]

Init ==
  /\ cpc = [p \in Processes |-> "start"]
  /\ index = [p \in Processes |-> -1]
  /\ New = Empty
  /\ spc = "idle" /\ at = 0 /\ queued = {} /\ imported = Empty /\ writing = {}
  /\ Ready = Empty /\ named = {}
  /\ processed = {} /\ shadowed = {}
  /\ crashes = 0

Goto(p, place) == cpc' = [cpc EXCEPT ![p] = place]
With(f, x, v) == [y \in DOMAIN f \union {x} |-> IF y = x THEN v ELSE f[y]]
Without(f, S) == [y \in DOMAIN f \ S |-> f[y]]
Get(f, x) == IF x \in DOMAIN f THEN f[x] ELSE {}
Join(f, g) == [x \in DOMAIN f \union DOMAIN g |-> Get(f, x) \union Get(g, x)]

-----------------------------------------------------------------------------
(* A process.                                                              *)

(* With ServerCodeCache, the process waits in PopulateCodeCache for the    *)
(* answer, or for the server to go away.                                   *)
PopulateCodeCache(p) ==
  /\ cpc[p] = "start" /\ spc = "idle"
  /\ Goto(p, "populate")
  /\ spc' = "scan" /\ at' = 0 /\ queued' = {} /\ imported' = Empty
  /\ UNCHANGED <<index, New, writing, reference, history, crashes>>

NoPopulate(p) ==
  /\ cpc[p] = "start"
  /\ Goto(p, "running")
  /\ UNCHANGED <<index, New, serverVars, reference, history, crashes>>

(* RequestCodeMapFD, and the server's answer: the first code map that does *)
(* not exist yet, created empty.                                           *)
FirstFree(i) == i \notin DOMAIN New /\ \A j \in 0..(i - 1) : j \in DOMAIN New
QueryCodeMap(p) ==
  /\ cpc[p] = "running" /\ spc = "idle"
  /\ \E i \in Indices :
       /\ FirstFree(i)
       /\ New' = With(New, i, Empty)
       /\ index' = [index EXCEPT ![p] = i]
  /\ Goto(p, "opened")
  /\ UNCHANGED <<serverVars, reference, history, crashes>>

(* The flock in OpenCodeMapFile.                                           *)
LockCodeMap(p) ==
  /\ cpc[p] = "opened"
  /\ Goto(p, "locked")
  /\ UNCHANGED <<index, New, serverVars, reference, history, crashes>>

(* A flush of the CodeMapWriter, through the descriptor: what a file that  *)
(* was deleted gets is lost.                                               *)
WriteCodeMap(p) ==
  /\ cpc[p] = "locked"
  /\ \E content \in Contents \ {Empty} :
       New' = IF Holds(p) THEN [New EXCEPT ![index[p]] = Join(@, content)] ELSE New
  /\ UNCHANGED <<processVars, serverVars, reference, history, crashes>>

(* The process ends or is killed, and its lock with it.                    *)
EndProcess(p) ==
  /\ cpc[p] \in {"running", "opened", "locked"}
  /\ Goto(p, "ended")
  /\ UNCHANGED <<index, New, serverVars, reference, history, crashes>>

-----------------------------------------------------------------------------
(* The server: AggregateCodeMaps.                                          *)

StillLocked(i) == \E p \in Processes : cpc[p] = "locked" /\ index[p] = i

(* Mutant of StillInUse: the size of the file is not looked at.            *)
OnlyLocked(i) == StillLocked(i)

StillInUse(i) == New[i] = Empty \/ StillLocked(i)

(* One turn of the loop of ImportPendingCodeMaps: it ends at the first     *)
(* index there is no file for, and skips a file in use.                    *)
ScanIndex ==
  /\ spc = "scan" /\ at \in DOMAIN New
  /\ queued' = IF StillInUse(at) THEN queued ELSE queued \union {at}
  /\ at' = at + 1
  /\ UNCHANGED <<processVars, New, spc, imported, writing, reference, history, crashes>>

(* The second loop: the queued files are parsed in the order of their      *)
(* indices, and a library that is in the map already is not emplaced.      *)
Names(i) == DOMAIN New[i]
First(l) == CHOOSE i \in queued : l \in Names(i) /\ \A j \in queued : l \in Names(j) => i <= j
ImportCodeMaps ==
  /\ spc = "scan" /\ at \notin DOMAIN New
  /\ imported' = [l \in UNION {Names(i) : i \in queued} |-> New[First(l)][l]]
  /\ shadowed' = shadowed \union
       {l \in Libraries : \E i, j \in queued : i # j /\ l \in Names(i) /\ l \in Names(j)}
  /\ spc' = "delete"
  /\ UNCHANGED <<processVars, New, at, queued, writing, reference, processed, crashes>>

(* Delete all imported code maps.                                          *)
DeleteImported ==
  /\ spc = "delete"
  /\ \E i \in queued :
       /\ \A j \in queued : i <= j
       /\ New' = Without(New, {i})
       /\ processed' = processed \union BlocksOf(New[i])
       /\ queued' = queued \ {i}
  /\ UNCHANGED <<processVars, spc, at, imported, writing, reference, shadowed, crashes>>

(* Mutant of MergedBlocks: the reference map is replaced.                  *)
ImportedBlocks(l) == imported[l]

MergedBlocks(l) == imported[l] \union Get(Ready, l)

(* One turn of the last loop of AggregateCodeMaps, up to the creat in      *)
(* WriteNewCodeMap: merge with what the reference map holds, and truncate  *)
(* it unless nothing is new.  A reference map that does not name its       *)
(* library makes at() throw, and nobody catches that.                      *)
MergeLibrary ==
  /\ spc = "delete" /\ queued = {}
  /\ \E l \in DOMAIN imported :
       LET merged == MergedBlocks(l)
       IN \/ /\ l \in DOMAIN Ready \ named
             /\ spc' = "down" /\ UNCHANGED <<imported, writing, reference>>
          \/ /\ l \in named /\ merged = Ready[l]
             /\ imported' = Without(imported, {l}) /\ UNCHANGED <<spc, writing, reference>>
          \/ /\ l \in named => merged # Ready[l]
             /\ l \in DOMAIN Ready => l \in named
             /\ imported' = With(imported, l, merged)
             /\ Ready' = With(Ready, l, {}) /\ named' = named \ {l}
             /\ writing' = {l} /\ spc' = "write"
  /\ UNCHANGED <<processVars, New, at, queued, history, crashes>>

(* Mutant of RecordsIn: the library is named by the first block only.      *)
RecordsWithBlocks(l, B) == IF B = {} THEN {} ELSE {l}

(* AppendSetMainExecutable comes before the blocks.                        *)
RecordsIn(l, B) == {l}

(* A flush of the writer in WriteNewCodeMap; the last one is the one of    *)
(* its destructor.                                                         *)
WriteNewCodeMap ==
  /\ spc = "write"
  /\ \E l \in writing, B \in SUBSET Offsets :
       /\ Ready[l] \subseteq B /\ B \subseteq imported[l]
       /\ B = imported[l] \/ B # Ready[l]
       /\ Ready' = With(Ready, l, B) /\ named' = named \union RecordsIn(l, B)
       /\ \/ B # imported[l] /\ UNCHANGED <<spc, imported, writing>>
          \/ /\ B = imported[l]
             /\ imported' = Without(imported, {l})
             /\ writing' = {} /\ spc' = "delete"
  /\ UNCHANGED <<processVars, New, at, queued, history, crashes>>

(* The answer to the client.                                               *)
Answered == [p \in Processes |-> IF cpc[p] = "populate" THEN "running" ELSE cpc[p]]
Answer ==
  /\ spc = "delete" /\ queued = {} /\ imported = Empty
  /\ spc' = "idle" /\ cpc' = Answered
  /\ UNCHANGED <<index, New, at, queued, imported, writing, reference, history, crashes>>

(* The server is killed; a process that waits for it sees its socket close *)
(* and goes on.                                                            *)
ServerCrash ==
  /\ spc # "down" /\ crashes < MaxCrashes /\ crashes' = crashes + 1
  /\ spc' = "down"
  /\ UNCHANGED <<processVars, New, at, queued, imported, writing, reference, history>>

Restart ==
  /\ spc = "down"
  /\ spc' = "idle" /\ cpc' = Answered
  /\ at' = 0 /\ queued' = {} /\ imported' = Empty /\ writing' = {}
  /\ UNCHANGED <<index, New, reference, history, crashes>>

ServerStep ==
  \/ ScanIndex \/ ImportCodeMaps \/ DeleteImported \/ MergeLibrary \/ WriteNewCodeMap
  \/ Answer \/ Restart

Next ==
  \/ \E p \in Processes :
       \/ PopulateCodeCache(p) \/ NoPopulate(p) \/ QueryCodeMap(p) \/ LockCodeMap(p)
       \/ WriteCodeMap(p) \/ EndProcess(p)
  \/ ServerStep \/ ServerCrash

Spec == Init /\ [][Next]_vars

(* The server goes through its requests, and is started again.             *)
FairSpec == Spec /\ WF_vars(ServerStep)

-----------------------------------------------------------------------------
(* Every process that waits for the server gets to run.                    *)
PopulateEnds == \A p \in Processes : cpc[p] = "populate" ~> cpc[p] # "populate"
=============================================================================
