------------------------ MODULE CodeBuffers_proofs ------------------------
(***************************************************************************)
(* For any number of threads, addresses, buffers and nested handlers.      *)
(*                                                                         *)
(* Base holds in every configuration: the types, what a thread in the      *)
(* emulator knows of its call, and that maps and caches lead into their    *)
(* own buffer.  On top of it are two further inductive invariants.         *)
(*                                                                         *)
(* CoverInv, with linking off or without handlers, is about the stacks and *)
(* the links: a thread comes by places from its caches, from the map of    *)
(* its own buffer and from patched exits, and all of them stay in the      *)
(* buffer that they start from and lead to indexed blocks.  With linking   *)
(* and handlers it is false: an exit of a former buffer is patched to lead *)
(* to the current one.                                                     *)
(*                                                                         *)
(* LookInv, with one thread that compiles, is about LatestOffset: every    *)
(* entry of the newest buffer lies below it, so nothing is emitted over.   *)
(* With two it is false: a rotation resets LatestOffset under the other.   *)
(***************************************************************************)
EXTENDS CodeBuffers, TLAPS

(* Zenon is tried where a leaf does not name a prover.                     *)
USE Zenon

(* What a thread in the emulator carries from label to label.              *)
Calls == [want : RIPs \cup {Null}, record : Places \cup {Null}, buffer : Buffers \cup {Null},
          place : Places \cup {Null}, PrevUsable : Nat, new : Buffers \cup {Null}]

(* The type of the state.                                                  *)
Types ==
  /\ Latest \in Buffers /\ LatestOffset \in Nat
  /\ size \in [Buffers -> 1 .. ConfiguredMaxSize]
  /\ code \in [Places -> RIPs \cup {Null}]
  /\ BlockOffsets \in [Buffers -> Seq(Offsets)]
  /\ BlockLists \in [Buffers -> [RIPs -> Places \cup {Null}]]
  /\ BlockLinks \in [Buffers -> SUBSET (RIPs \X Places)]
  /\ exits \in [Places -> [RIPs -> Places \cup {Null}]]
  /\ at \in [CoreThreads -> Labels]
  /\ call \in [CoreThreads -> Calls]
  /\ here \in [CoreThreads -> Places \cup {Null}]
  /\ frames \in [CoreThreads -> Seq(Places)]
  /\ CurrentCodeBuffer \in [CoreThreads -> Buffers]
  /\ SignalHandlerCodeBuffers \in [CoreThreads -> SUBSET Buffers]
  /\ cache \in [CoreThreads -> [RIPs -> Places \cup {Null}]]
  /\ died \in BOOLEAN

(* What a thread in the emulator knows of its call.                        *)
CallInv(t) ==
  /\ at[t] # "run" => call[t].want \in RIPs /\ here[t] = Null
  /\ at[t] \in {"emit", "publish", "link"} => call[t].place \in Places /\ call[t].place[1] = CurrentCodeBuffer[t]
  /\ at[t] \in {"zero", "adopt"} => call[t].new \in Buffers
  /\ at[t] = "link" => call[t].record \in Places /\ call[t].buffer = CurrentCodeBuffer[t]

(* The map of a buffer, and a thread's caches, lead into that buffer.      *)
HomeInv ==
  /\ \A b \in Buffers, r \in RIPs : BlockLists[b][r] # Null => BlockLists[b][r][1] = b
  /\ \A t \in CoreThreads, r \in RIPs : cache[t][r] # Null => cache[t][r][1] = CurrentCodeBuffer[t]

(* No thread holds a buffer that has yet to be allocated.                  *)
Known(t) == \A b \in Buffers : b \in Holds(t) => b <= Latest

(* The part of the invariant that needs no assumption.                     *)
Base == Types /\ HomeInv /\ \A t \in CoreThreads : CallInv(t) /\ Known(t)

----------------------------------------------------------------------------
(* Facts about sequences, tables and records.                              *)

(* The offsets in an index, its last entry and the entries before.         *)
Range(s) == {s[i] : i \in DOMAIN s}
Last(s) == s[Len(s)]
Front(s) == SubSeq(s, 1, Len(s) - 1)

(* AppendBlock adds its offset to the index and takes none away.           *)
LEMMA AppendRange ==
  ASSUME NEW S, NEW s \in Seq(S), NEW e \in S
  PROVE  Range(Append(s, e)) = Range(s) \cup {e}
<1>1. DOMAIN Append(s, e) = DOMAIN s \cup {Len(s) + 1} /\ DOMAIN s = 1 .. Len(s) /\ Len(s) \in Nat
  BY SMT
<1>2. Append(s, e)[Len(s) + 1] = e /\ \A i \in DOMAIN s : Append(s, e)[i] = s[i]
  BY <1>1, SMT
<1> QED BY <1>1, <1>2 DEF Range

(* One entry of a table of tables is written: a thread's caches, or the     *)
(* map of a buffer.                                                        *)
LEMMA EntryWritten ==
  ASSUME NEW A, NEW B, NEW C, NEW f \in [A -> [B -> C]], NEW a \in A, NEW b \in B, NEW v \in C,
         NEW g, g = [f EXCEPT ![a][b] = v]
  PROVE  /\ g \in [A -> [B -> C]]
         /\ \A x \in A, y \in B : g[x][y] = IF x = a /\ y = b THEN v ELSE f[x][y]
<1>1. g = [f EXCEPT ![a] = [f[a] EXCEPT ![b] = v]]
  OBVIOUS
<1>2. [f[a] EXCEPT ![b] = v] \in [B -> C]
  OBVIOUS
<1>3. g \in [A -> [B -> C]]
  BY <1>1, <1>2
<1>4. \A x \in A, y \in B : g[x][y] = IF x = a /\ y = b THEN v ELSE f[x][y]
  BY <1>1
<1> QED BY <1>3, <1>4

(* sigreturn goes to the newest frame and keeps the others.                *)
LEMMA FrontLast ==
  ASSUME NEW S, NEW s \in Seq(S), s # <<>>
  PROVE  /\ Last(s) \in S /\ Front(s) \in Seq(S)
         /\ \E i \in DOMAIN s : Last(s) = s[i]
         /\ \A i \in DOMAIN Front(s) : i \in DOMAIN s /\ Front(s)[i] = s[i]
<1>1. Len(s) \in Nat \ {0} /\ DOMAIN s = 1 .. Len(s)
  BY SMT
<1>2. Len(s) \in DOMAIN s /\ s[Len(s)] \in S
  BY <1>1, SMT
<1>3. /\ SubSeq(s, 1, Len(s) - 1) \in Seq(S)
      /\ DOMAIN SubSeq(s, 1, Len(s) - 1) = 1 .. (Len(s) - 1)
      /\ \A i \in 1 .. (Len(s) - 1) : SubSeq(s, 1, Len(s) - 1)[i] = s[i]
  BY <1>1, SMT
<1> QED BY <1>1, <1>2, <1>3, SMT DEF Front, Last

(* The new buffer's size is again one that the configuration allows.       *)
LEMMA LargerAllowed ==
  ASSUME CodeBuffersAssumption, NEW n \in 1 .. ConfiguredMaxSize
  PROVE  Larger(n) \in 1 .. ConfiguredMaxSize
BY SMT DEF CodeBuffersAssumption, Larger

(* The fields of a call are written one at a time.                         *)
LEMMA CallWritten ==
  ASSUME NEW c \in Calls
  PROVE  /\ \A v \in Places \cup {Null} :
              /\ [c EXCEPT !.place = v] \in Calls /\ [c EXCEPT !.place = v].place = v
              /\ [c EXCEPT !.place = v].want = c.want /\ [c EXCEPT !.place = v].record = c.record
              /\ [c EXCEPT !.place = v].buffer = c.buffer /\ [c EXCEPT !.place = v].new = c.new
              /\ [c EXCEPT !.place = v].PrevUsable = c.PrevUsable
         /\ \A v \in Buffers \cup {Null} :
              /\ [c EXCEPT !.new = v] \in Calls /\ [c EXCEPT !.new = v].new = v
              /\ [c EXCEPT !.new = v].want = c.want /\ [c EXCEPT !.new = v].record = c.record
              /\ [c EXCEPT !.new = v].buffer = c.buffer /\ [c EXCEPT !.new = v].place = c.place
              /\ [c EXCEPT !.new = v].PrevUsable = c.PrevUsable
         /\ \A v \in Nat :
              /\ [c EXCEPT !.PrevUsable = v] \in Calls /\ [c EXCEPT !.PrevUsable = v].PrevUsable = v
              /\ [c EXCEPT !.PrevUsable = v].want = c.want /\ [c EXCEPT !.PrevUsable = v].record = c.record
              /\ [c EXCEPT !.PrevUsable = v].buffer = c.buffer /\ [c EXCEPT !.PrevUsable = v].place = c.place
              /\ [c EXCEPT !.PrevUsable = v].new = c.new
  BY DEF Calls

(* A call begins empty.                                                    *)
LEMMA NoCallTyped ==
  /\ NoCall \in Calls
  /\ NoCall.record = Null /\ NoCall.buffer = Null /\ NoCall.new = Null /\ NoCall.PrevUsable = 0
  BY DEF NoCall, Calls

----------------------------------------------------------------------------
(* Stacks and links.                                                       *)

(* The index of its buffer has the block at p; and that buffer is one the  *)
(* thread t holds.                                                         *)
Indexed(p) == p[2] \in Range(BlockOffsets[p[1]])
Mine(t, p) == p[1] \in {CurrentCodeBuffer[t]} \cup SignalHandlerCodeBuffers[t] /\ Indexed(p)

(* Every block that a map or a cache leads to is indexed.                  *)
IndexInv ==
  /\ \A b \in Buffers, r \in RIPs : BlockLists[b][r] # Null => Indexed(BlockLists[b][r])
  /\ \A t \in CoreThreads, r \in RIPs : cache[t][r] # Null => Indexed(cache[t][r])

(* The block a thread runs and those its frames return to are in buffers   *)
(* it holds.                                                               *)
StackInv(t) ==
  /\ at[t] \in {"publish", "link"} /\ ~died => Indexed(call[t].place)
  /\ here[t] # Null => Mine(t, here[t])
  /\ \A i \in DOMAIN frames[t] : Mine(t, frames[t][i])
  /\ MaxFrames = 0 => frames[t] = <<>>
  /\ BlockLinkingEnabled /\ here[t] # Null => here[t][1] = CurrentCodeBuffer[t]
  /\ call[t].record # Null => BlockLinkingEnabled /\ call[t].record[1] = call[t].buffer

(* A patched exit leads to an indexed block of its own buffer and is       *)
(* registered there.                                                       *)
LinkInv ==
  /\ \A p \in Places, r \in RIPs : exits[p][r] # Null =>
       /\ p[1] <= Latest /\ exits[p][r][1] = p[1] /\ Indexed(exits[p][r])
       /\ Alive(p[1]) => <<r, p>> \in BlockLinks[p[1]] /\ BlockLists[p[1]][r] # Null
  /\ \A b \in Buffers : \A l \in BlockLinks[b] : l[2][1] = b

(* Stacks and links together.                                              *)
CoverInv == IndexInv /\ LinkInv /\ \A t \in CoreThreads : StackInv(t)

(* Where no exit can be linked to a buffer other than its own.             *)
NoCrossLinks == ~BlockLinkingEnabled \/ MaxFrames = 0

----------------------------------------------------------------------------
(* Lookups.                                                                *)

(* The block of r is at p, and p is not where the next block goes.         *)
Land(p, r) == code[p] = r /\ (p[1] = Latest => p[2] < LatestOffset)

(* A map or a cache leads to the block of the address it is for.           *)
LandInv ==
  /\ \A b \in Buffers, r \in RIPs : BlockLists[b][r] # Null => Land(BlockLists[b][r], r)
  /\ \A t \in CoreThreads, r \in RIPs : cache[t][r] # Null => Land(cache[t][r], r)

(* Nothing is in buffer b.                                                 *)
Empty(b) == BlockOffsets[b] = <<>> /\ \A r \in RIPs : BlockLists[b][r] = Null

(* The newest buffer is used below LatestOffset and the next ones not at   *)
(* all.                                                                    *)
FreshInv ==
  /\ \A i \in DOMAIN BlockOffsets[Latest] : BlockOffsets[Latest][i] < LatestOffset
  /\ \A b \in Buffers : b > Latest => Empty(b)

(* The compiling thread is in the newest buffer, or about to take it; back *)
(* from a rotation it finds LatestOffset zero.                             *)
SoloInv(t) ==
  /\ at[t] \in CompilingLabels => t \in compiled
  /\ t \in compiled \/ compiled = {} => at[t] \in {"zero", "adopt"} \/ CurrentCodeBuffer[t] = Latest
  /\ at[t] \in {"zero", "adopt"} => call[t].new = Latest
  /\ at[t] = "zero" => Empty(Latest) /\ \A u \in CoreThreads : CurrentCodeBuffer[u] # Latest
  /\ at[t] = "emit" => call[t].place = <<Latest, LatestOffset>>
  /\ at[t] = "publish" => Land(call[t].place, call[t].want)
  /\ at[t] \in {"find", "compile", "mutex", "check"} => call[t].PrevUsable = 0
  /\ at[t] \in {"adopt", "relock"} => LatestOffset = 0
  /\ at[t] = "fit" => call[t].PrevUsable = 0 \/ LatestOffset = 0

(* Lookups and the compiling thread together.                              *)
LookInv == ~died /\ LandInv /\ FreshInv /\ \A t \in CoreThreads : SoloInv(t)

(* What every step is shown to keep.                                       *)
Kept == Base' /\ (NoCrossLinks /\ CoverInv => CoverInv') /\ (OneCompiler /\ OneCompiler' /\ LookInv => LookInv')

----------------------------------------------------------------------------
(* A step of one thread inside the emulator that changes its call only.    *)
LEMMA CallStepKept ==
  ASSUME Base, NEW t \in CoreThreads, ~died,
         Types', CallInv(t)', call'[t].record = call[t].record, call'[t].buffer = call[t].buffer,
         call'[t].new = call[t].new,
         \A u \in CoreThreads : u # t => at'[u] = at[u] /\ call'[u] = call[u],
         UNCHANGED <<shared, contents, maps, exits, running, held, cache>>,
         at'[t] \notin {"publish", "link"},
         compiled' \in {compiled, compiled \cup {t}},
         OneCompiler /\ OneCompiler' /\ LookInv => SoloInv(t)' /\ ~died'
  PROVE  Kept
<1> USE DEF shared, contents, maps, running, held
<1>1. HomeInv'
  BY DEF Base, HomeInv
<1>2. ASSUME NEW u \in CoreThreads PROVE CallInv(u)' /\ Known(u)' /\ Holds(u)' = Holds(u)
  BY <1>2 DEF Base, CallInv, Known, Holds
<1>3. Base'
  BY <1>1, <1>2 DEF Base
<1>4. \A b : Alive(b)' <=> Alive(b)
  BY <1>2 DEF Alive
<1>5. ASSUME CoverInv PROVE CoverInv'
  <2>1. IndexInv' /\ LinkInv'
    BY <1>4, <1>5 DEF CoverInv, IndexInv, LinkInv, Indexed
  <2>2. ASSUME NEW u \in CoreThreads PROVE StackInv(u)'
    BY <1>5, <2>2, SMT DEF CoverInv, StackInv, Mine, Indexed
  <2> QED BY <2>1, <2>2 DEF CoverInv
<1>6. ASSUME OneCompiler, OneCompiler', LookInv PROVE LookInv'
  <2>1. LandInv' /\ FreshInv'
    BY <1>6 DEF LookInv, LandInv, FreshInv, Land, Empty
  <2>2. ASSUME NEW u \in CoreThreads, u # t PROVE SoloInv(u)'
    BY <1>6, <2>2 DEF LookInv, SoloInv, Land, Empty
  <2> QED BY <1>6, <2>1, <2>2 DEF LookInv
<1> QED BY <1>3, <1>5, <1>6 DEF Kept

(* Taking CodeBufferWriteMutex, at first or after ClearCache.              *)
LEMMA LockCodeBuffersKept == ASSUME Base, NEW t \in CoreThreads, LockCodeBuffers(t) PROVE Kept
<1> USE DEF LockCodeBuffers, At, Goto
<1>1. Types'
  BY DEF Base, Types, Labels, shared, contents, maps, running, held
<1>2. CallInv(t)' /\ at'[t] \in {"check", "fit"} /\ \A u \in CoreThreads : u # t => at'[u] = at[u]
  BY DEF Base, Types, CallInv, running
<1>3. LookInv => SoloInv(t)' /\ ~died'
  BY <1>2 DEF LookInv, Base, Types, SoloInv, CompilingLabels, shared, held
<1> QED BY <1>1, <1>2, <1>3, CallStepKept

(* ClearCache takes the old map's lock and nothing else.                   *)
LEMMA ClearCacheKept == ASSUME Base, NEW t \in CoreThreads, ClearCache(t) PROVE Kept
<1> USE DEF ClearCache, At, Goto
<1>1. Types'
  BY DEF Base, Types, Labels, shared, contents, maps, running, held
<1>2. CallInv(t)' /\ at'[t] = "swap" /\ \A u \in CoreThreads : u # t => at'[u] = at[u]
  BY DEF Base, Types, CallInv, running
<1>3. LookInv => SoloInv(t)' /\ ~died'
  BY <1>2 DEF LookInv, Base, Types, SoloInv, CompilingLabels, shared, held
<1> QED BY <1>1, <1>2, <1>3, CallStepKept

(* The block gets a place within the thread's own buffer, or none.  With    *)
(* one compiler it is fatal only if a rotation left LatestOffset where it  *)
(* was.                                                                    *)
LEMMA CheckHeadroomKept ==
  ASSUME CodeBuffersAssumption, Base, NEW t \in CoreThreads, CheckHeadroom(t)
  PROVE  Kept
<1> DEFINE b == CurrentCodeBuffer[t]
<1>0. /\ b \in Buffers /\ size[b] \in 1 .. ConfiguredMaxSize /\ LatestOffset \in Nat
      /\ call[t] \in Calls /\ call[t].want \in RIPs /\ here[t] = Null /\ call \in [CoreThreads -> Calls]
      /\ at \in [CoreThreads -> Labels] /\ at[t] = "fit" /\ ~died
  BY DEF Base, Types, CallInv, CheckHeadroom, At
<1>u. UNCHANGED <<shared, contents, maps, exits, running, held, cache, compiled>>
  BY DEF CheckHeadroom
<1>a. UNCHANGED <<Latest, LatestOffset, size, code, BlockOffsets, BlockLists, BlockLinks, exits, here, frames,
                  CurrentCodeBuffer, SignalHandlerCodeBuffers, cache, compiled>>
  BY <1>u DEF shared, contents, maps, running, held
<1>s. LookInv => /\ t \in compiled /\ b = Latest /\ (call[t].PrevUsable = 0 \/ LatestOffset = 0)
  BY <1>0 DEF LookInv, SoloInv, CompilingLabels
<1>1. CASE Fits(t)
  <2>1. <<b, LatestOffset>> \in Places
    BY <1>0, <1>1, SMT DEF Fits, Places, Offsets, CodeBuffersAssumption
  <2>2. /\ call' = [call EXCEPT ![t] = [call[t] EXCEPT !.place = <<b, LatestOffset>>]]
        /\ at' = [at EXCEPT ![t] = "emit"]
        /\ UNCHANGED died
    BY <1>0, <1>1 DEF CheckHeadroom, Goto
  <2> DEFINE c == [call[t] EXCEPT !.place = <<b, LatestOffset>>]
  <2>3. /\ c \in Calls /\ c.place = <<b, LatestOffset>> /\ c.want = call[t].want
        /\ c.record = call[t].record /\ c.buffer = call[t].buffer /\ c.new = call[t].new
    BY <1>0, <2>1, CallWritten, SMT
  <2>4. call' = [call EXCEPT ![t] = c]
    BY <2>2
  <2> HIDE DEF c
  <2>5. Types'
    BY <1>a, <2>2, <2>3, <2>4 DEF Base, Types, Labels
  <2>6. call'[t] = c /\ at'[t] = "emit" /\ \A u \in CoreThreads : u # t => at'[u] = at[u] /\ call'[u] = call[u]
    BY <1>0, <2>2, <2>4
  <2>7. CallInv(t)'
    BY <1>0, <1>a, <2>1, <2>3, <2>6, SMT DEF CallInv
  <2>8. LookInv => SoloInv(t)' /\ ~died'
    BY <1>0, <1>a, <1>s, <2>2, <2>3, <2>6 DEF SoloInv, CompilingLabels
  <2> QED BY <1>0, <1>u, <2>3, <2>5, <2>6, <2>7, <2>8, CallStepKept
<1>2. CASE ~Fits(t)
  <2>1. /\ call' = [call EXCEPT ![t] = [call[t] EXCEPT !.PrevUsable = size[b]]]
        /\ at' = [at EXCEPT ![t] = "clear"]
        /\ died' = (size[b] <= call[t].PrevUsable)
    BY <1>0, <1>2 DEF CheckHeadroom, Goto
  <2> DEFINE c == [call[t] EXCEPT !.PrevUsable = size[b]]
  <2>2. size[b] \in Nat /\ ~(LatestOffset < size[b]) /\ size[b] > 0
    BY <1>0, <1>2, SMT DEF CodeBuffersAssumption, Fits
  <2>3. /\ c \in Calls /\ c.want = call[t].want
        /\ c.record = call[t].record /\ c.buffer = call[t].buffer /\ c.new = call[t].new
    BY <1>0, <2>2, CallWritten
  <2>4. call' = [call EXCEPT ![t] = c]
    BY <2>1
  <2> HIDE DEF c
  <2>d. died' \in BOOLEAN
    BY <2>1, SMT
  <2>5. Types'
    BY <1>a, <2>1, <2>3, <2>4, <2>d DEF Base, Types, Labels
  <2>6. call'[t] = c /\ at'[t] = "clear" /\ \A u \in CoreThreads : u # t => at'[u] = at[u] /\ call'[u] = call[u]
    BY <1>0, <2>1, <2>4
  <2>7. CallInv(t)'
    BY <1>0, <1>a, <2>3, <2>6 DEF CallInv
  <2>8. LookInv => ~died'
    <3>1. LookInv => call[t].PrevUsable = 0
      BY <1>s, <2>2
    <3>2. ~(size[b] <= 0)
      BY <2>2, SMT
    <3> QED BY <2>1, <3>1, <3>2, Zenon
  <2>9. LookInv => SoloInv(t)'
    BY <1>0, <1>a, <1>s, <2>6 DEF SoloInv, CompilingLabels
  <2> QED BY <1>0, <1>u, <2>3, <2>5, <2>6, <2>7, <2>8, <2>9, CallStepKept
<1> QED BY <1>1, <1>2

(* A thread has found, or published, the block it wants in its own buffer: *)
(* the block goes to its caches, and is run or linked.                     *)
LEMMA FoundKept ==
  ASSUME CodeBuffersAssumption, Base, NEW t \in CoreThreads, ~died, at[t] \in {"find", "compile", "publish"},
         NEW place \in Places, place[1] = CurrentCodeBuffer[t], Found(t, place),
         cache' = [cache EXCEPT ![t][call[t].want] = place],
         BlockLists' \in [Buffers -> [RIPs -> Places \cup {Null}]],
         \A c \in Buffers, q \in RIPs :
           \/ BlockLists'[c][q] = BlockLists[c][q]
           \/ c = CurrentCodeBuffer[t] /\ q = call[t].want /\ BlockLists'[c][q] = place,
         UNCHANGED <<shared, contents, BlockLinks, exits, frames, held, compiled, died>>,
         CoverInv => Indexed(place),
         LookInv => Land(place, call[t].want)
  PROVE  Kept
<1> USE DEF shared, contents, held
<1> DEFINE r == call[t].want
           b == CurrentCodeBuffer[t]
<1>0. /\ r \in RIPs /\ here[t] = Null /\ b \in Buffers /\ call[t] \in Calls /\ Types
      /\ place \in Places \cup {Null} /\ Null \notin Buffers /\ Null \notin Places
      /\ BlockLists \in [Buffers -> [RIPs -> Places \cup {Null}]] /\ cache \in [CoreThreads -> [RIPs -> Places \cup {Null}]]
  BY DEF Base, Types, CallInv, CodeBuffersAssumption
<1> HIDE DEF r, b
<1>1. /\ cache' \in [CoreThreads -> [RIPs -> Places \cup {Null}]]
      /\ \A u \in CoreThreads, q \in RIPs : cache'[u][q] = IF u = t /\ q = r THEN place ELSE cache[u][q]
  <2> DEFINE new == [cache EXCEPT ![t][r] = place]
  <2>1. /\ new \in [CoreThreads -> [RIPs -> Places \cup {Null}]]
        /\ \A u \in CoreThreads, q \in RIPs : new[u][q] = IF u = t /\ q = r THEN place ELSE cache[u][q]
    BY <1>0, EntryWritten, ZenonT(30)
  <2> QED BY <2>1 DEF r
<1>2. /\ BlockLists' \in [Buffers -> [RIPs -> Places \cup {Null}]]
      /\ \A c \in Buffers, q \in RIPs : BlockLists'[c][q] = BlockLists[c][q] \/ (c = b /\ q = r /\ BlockLists'[c][q] = place)
  BY DEF b, r
<1>3. /\ call' \in [CoreThreads -> Calls] /\ at' \in [CoreThreads -> Labels] /\ here' \in [CoreThreads -> Places \cup {Null}]
      /\ \A u \in CoreThreads : u # t => at'[u] = at[u] /\ call'[u] = call[u] /\ here'[u] = here[u]
      /\ \/ /\ at'[t] = "link" /\ here'[t] = Null /\ call'[t].place = place /\ call'[t].want = r
            /\ call'[t].record = call[t].record /\ call[t].record # Null
            /\ call'[t].buffer = call[t].buffer /\ call[t].buffer = b /\ call'[t].new = call[t].new
         \/ at'[t] = "run" /\ here'[t] = place /\ call'[t] = NoCall
  <2>1. CASE call[t].record # Null /\ call[t].buffer = b
    <3>1. /\ at' = [at EXCEPT ![t] = "link"] /\ here' = here
          /\ call' = [call EXCEPT ![t] = [call[t] EXCEPT !.place = place]]
      BY <1>0, <2>1 DEF Found, Goto, b, Types
    <3> DEFINE c == [call[t] EXCEPT !.place = place]
    <3>2. /\ c \in Calls /\ c.place = place /\ c.want = r
          /\ c.record = call[t].record /\ c.buffer = call[t].buffer /\ c.new = call[t].new
      BY <1>0, CallWritten, SMT DEF r
    <3>3. call' = [call EXCEPT ![t] = c]
      BY <3>1
    <3> HIDE DEF c
    <3>4. at \in [CoreThreads -> Labels] /\ call \in [CoreThreads -> Calls] /\ here \in [CoreThreads -> Places \cup {Null}]
      BY <1>0 DEF Types
    <3>5. at' \in [CoreThreads -> Labels] /\ at'[t] = "link" /\ \A u \in CoreThreads : u # t => at'[u] = at[u]
      BY <3>1, <3>4 DEF Labels
    <3>6. call' \in [CoreThreads -> Calls] /\ call'[t] = c /\ \A u \in CoreThreads : u # t => call'[u] = call[u]
      BY <3>2, <3>3, <3>4
    <3> QED BY <1>0, <2>1, <3>1, <3>2, <3>4, <3>5, <3>6
  <2>2. CASE ~(call[t].record # Null /\ call[t].buffer = b)
    <3>1. /\ at' = [at EXCEPT ![t] = "run"] /\ here' = [here EXCEPT ![t] = place]
          /\ call' = [call EXCEPT ![t] = NoCall]
      BY <2>2 DEF Found, Dispatch, Goto, b
    <3>2. at \in [CoreThreads -> Labels] /\ call \in [CoreThreads -> Calls] /\ here \in [CoreThreads -> Places \cup {Null}]
      BY <1>0 DEF Types
    <3>3. at' \in [CoreThreads -> Labels] /\ at'[t] = "run" /\ \A u \in CoreThreads : u # t => at'[u] = at[u]
      BY <3>1, <3>2 DEF Labels
    <3>4. call' \in [CoreThreads -> Calls] /\ call'[t] = NoCall /\ \A u \in CoreThreads : u # t => call'[u] = call[u]
      BY <3>1, <3>2, NoCallTyped
    <3>5. here' \in [CoreThreads -> Places \cup {Null}] /\ here'[t] = place /\ \A u \in CoreThreads : u # t => here'[u] = here[u]
      BY <3>1, <3>2
    <3> QED BY <3>3, <3>4, <3>5
  <2> QED BY <2>1, <2>2
<1>4. Types'
  BY <1>0, <1>1, <1>2, <1>3 DEF Types
<1>5. HomeInv'
  BY <1>0, <1>1, <1>2, SMT DEF Base, HomeInv, b
<1>6. ASSUME NEW u \in CoreThreads PROVE CallInv(u)'
  <2>1. CASE u = t
    BY <1>0, <1>3, <2>1 DEF CallInv, b, Types, Calls
  <2>2. CASE u # t
    BY <1>3, <1>6, <2>2 DEF Base, CallInv
  <2> QED BY <2>1, <2>2
<1>7. ASSUME NEW u \in CoreThreads PROVE \A c \in Buffers : c \in Holds(u)' => c \in Holds(u)
  <2>1. CASE u = t
    BY <1>0, <1>3, <2>1, NoCallTyped, SMT DEF Holds
  <2>2. CASE u # t
    BY <1>3, <1>7, <2>2 DEF Holds
  <2> QED BY <2>1, <2>2
<1>8. ASSUME NEW u \in CoreThreads PROVE Known(u)'
  BY <1>7, <1>8 DEF Base, Known
<1>9. Base'
  BY <1>4, <1>5, <1>6, <1>8 DEF Base
<1>10. \A c \in Buffers : Alive(c)' => Alive(c)
  BY <1>7 DEF Alive
<1>11. ASSUME NoCrossLinks, CoverInv PROVE CoverInv'
  <2>1. IndexInv'
    BY <1>1, <1>2, <1>11, SMT DEF CoverInv, IndexInv, Indexed
  <2>2. LinkInv'
    <3>1. \A p \in Places : p[1] \in Buffers
      BY DEF Places
    <3> QED BY <1>0, <1>2, <1>10, <1>11, <3>1, SMT DEF CoverInv, LinkInv, Indexed
  <2>3. ASSUME NEW u \in CoreThreads PROVE StackInv(u)'
    <3>0. StackInv(u)
      BY <1>11, <2>3 DEF CoverInv
    <3>1. CASE u = t
      BY <1>0, <1>3, <1>11, <3>0, <3>1, NoCallTyped DEF StackInv, Mine, Indexed, b
    <3>2. CASE u # t
      BY <1>3, <2>3, <3>0, <3>2 DEF StackInv, Mine, Indexed
    <3> QED BY <3>1, <3>2
  <2> QED BY <2>1, <2>2, <2>3 DEF CoverInv
<1>12. ASSUME OneCompiler, LookInv PROVE LookInv'
  <2>0. Land(place, r)
    BY <1>12 DEF r
  <2>1. LandInv'
    BY <1>1, <1>2, <1>12, <2>0, SMT DEF LookInv, LandInv, Land
  <2>2. b <= Latest /\ b \in Nat /\ Latest \in Nat
    BY <1>0, SMT DEF Base, Known, Holds, b, Types, Buffers
  <2>3. FreshInv'
    <3>1. \A c \in Buffers : c > Latest => c # b
      BY <2>2, SMT
    <3>2. \A c \in Buffers : c > Latest => Empty(c)'
      BY <1>2, <1>12, <3>1, SMT DEF LookInv, FreshInv, Empty
    <3> QED BY <1>12, <3>2 DEF LookInv, FreshInv
  <2>4. ASSUME NEW u \in CoreThreads PROVE SoloInv(u)'
    <3>0. SoloInv(u)
      BY <1>12, <2>4 DEF LookInv
    <3>1. CASE u = t
      BY <1>3, <3>0, <3>1 DEF SoloInv, CompilingLabels
    <3>2. CASE u # t
      <4>1. at[u] = "zero" => b # Latest
        BY <2>4, <3>0 DEF SoloInv, b
      <4>2. Latest \in Buffers
        BY <1>0 DEF Types
      <4>3. at[u] = "zero" => Empty(Latest)'
        BY <1>2, <3>0, <4>1, <4>2 DEF SoloInv, Empty
      <4> QED BY <1>3, <2>4, <3>0, <3>2, <4>3 DEF SoloInv, Land
    <3> QED BY <3>1, <3>2
  <2> QED BY <1>12, <2>1, <2>3, <2>4 DEF LookInv
<1> QED BY <1>9, <1>11, <1>12 DEF Kept

(* The part that ExitFunctionLink and CompileBlock share.                  *)
LEMMA LookupKept ==
  ASSUME CodeBuffersAssumption, Base, NEW t \in CoreThreads, ~died,
         NEW next \in {"compile", "mutex"}, at[t] = IF next = "compile" THEN "find" ELSE "compile",
         IF FindBlock(t) # Null
           THEN cache' = [cache EXCEPT ![t][call[t].want] = FindBlock(t)] /\ Found(t, FindBlock(t))
                /\ UNCHANGED compiled
           ELSE /\ Goto(t, next) /\ UNCHANGED <<cache, here, call>>
                /\ compiled' = IF next = "mutex" THEN compiled \cup {t} ELSE compiled,
         UNCHANGED <<shared, contents, maps, exits, frames, held, died>>
  PROVE  Kept
<1>0. Types /\ call[t].want \in RIPs /\ here[t] = Null
  BY DEF Base, CallInv
<1>1. CASE FindBlock(t) # Null
  <2> DEFINE place == FindBlock(t)
  <2>1. place \in Places /\ place[1] = CurrentCodeBuffer[t]
    BY <1>0, <1>1, SMT DEF Base, Types, HomeInv, FindBlock
  <2>2. CoverInv => Indexed(place)
    BY <1>0, <1>1 DEF CoverInv, IndexInv, FindBlock, Types
  <2>3. LookInv => Land(place, call[t].want)
    BY <1>0, <1>1 DEF LookInv, LandInv, FindBlock, Types
  <2>4. cache' = [cache EXCEPT ![t][call[t].want] = place] /\ Found(t, place) /\ UNCHANGED compiled
    BY <1>1
  <2> HIDE DEF place
  <2>5. /\ BlockLists' \in [Buffers -> [RIPs -> Places \cup {Null}]]
        /\ \A c \in Buffers, q \in RIPs : BlockLists'[c][q] = BlockLists[c][q]
    BY <1>0 DEF Types, maps
  <2> QED BY <2>1, <2>2, <2>3, <2>4, <2>5, FoundKept DEF maps
<1>2. CASE FindBlock(t) = Null
  <2>1. /\ at' = [at EXCEPT ![t] = next] /\ UNCHANGED <<cache, here, call>>
        /\ compiled' = IF next = "mutex" THEN compiled \cup {t} ELSE compiled
    BY <1>2 DEF Goto
  <2>2. Types' /\ at'[t] = next /\ \A u \in CoreThreads : u # t => at'[u] = at[u]
    BY <1>0, <2>1 DEF Types, Labels, shared, contents, maps, held
  <2>3. CallInv(t)'
    BY <1>0, <2>1, <2>2 DEF CallInv
  <2>4. OneCompiler' /\ LookInv => SoloInv(t)' /\ ~died'
    BY <2>1, <2>2 DEF LookInv, SoloInv, CompilingLabels, OneCompiler, shared, held
  <2> QED BY <1>0, <2>1, <2>2, <2>3, <2>4, CallStepKept DEF running
<1> QED BY <1>1, <1>2

(* The first lookup, before the compiler is asked.                         *)
LEMMA ExitFunctionLinkKept ==
  ASSUME CodeBuffersAssumption, Base, NEW t \in CoreThreads, ExitFunctionLink(t)
  PROVE  Kept
  BY LookupKept DEF ExitFunctionLink, At

(* The second lookup, with CodeInvalidationMutex shared.                   *)
LEMMA CompileBlockKept ==
  ASSUME CodeBuffersAssumption, Base, NEW t \in CoreThreads, CompileBlock(t)
  PROVE  Kept
  BY LookupKept DEF CompileBlock, At

(* The block that was emitted is published, and run or linked.             *)
LEMMA AddBlockMappingKept ==
  ASSUME CodeBuffersAssumption, Base, NEW t \in CoreThreads, AddBlockMapping(t)
  PROVE  Kept
<1>1. at[t] = "publish" /\ ~died /\ call[t].place \in Places /\ call[t].place[1] = CurrentCodeBuffer[t]
  BY DEF AddBlockMapping, At, Base, CallInv
<1>2. CoverInv => Indexed(call[t].place)
  BY <1>1 DEF CoverInv, StackInv
<1>3. LookInv => Land(call[t].place, call[t].want)
  BY <1>1 DEF LookInv, SoloInv
<1> DEFINE b == CurrentCodeBuffer[t]  place == call[t].place  r == call[t].want
<1>a. BlockLists' = [BlockLists EXCEPT ![b][r] = place]
  BY DEF AddBlockMapping
<1>4. /\ cache' = [cache EXCEPT ![t][r] = place] /\ Found(t, place)
      /\ UNCHANGED <<shared, contents, BlockLinks, exits, frames, held, compiled, died>>
  BY DEF AddBlockMapping
<1>5. /\ b \in Buffers /\ r \in RIPs /\ place \in Places \cup {Null}
      /\ BlockLists \in [Buffers -> [RIPs -> Places \cup {Null}]]
  BY <1>1 DEF Base, Types, CallInv
<1> HIDE DEF b, place, r
<1>6. /\ BlockLists' \in [Buffers -> [RIPs -> Places \cup {Null}]]
      /\ \A c \in Buffers, q \in RIPs : BlockLists'[c][q] = IF c = b /\ q = r THEN place ELSE BlockLists[c][q]
  <2> DEFINE new == [BlockLists EXCEPT ![b][r] = place]
  <2>1. /\ new \in [Buffers -> [RIPs -> Places \cup {Null}]]
        /\ \A c \in Buffers, q \in RIPs : new[c][q] = IF c = b /\ q = r THEN place ELSE BlockLists[c][q]
    BY <1>5, EntryWritten, ZenonT(30)
  <2> QED BY <1>a, <2>1, Zenon
<1> QED BY <1>1, <1>2, <1>3, <1>4, <1>6, FoundKept DEF b, place, r

----------------------------------------------------------------------------
(* Running translated code.                                                *)

(* A step that changes what one thread runs and calls, and no table.       *)
LEMMA RunKept ==
  ASSUME Base, NEW t \in CoreThreads, ~died, Types', CallInv(t)',
         \A u \in CoreThreads : u # t => at'[u] = at[u] /\ call'[u] = call[u] /\ here'[u] = here[u] /\ frames'[u] = frames[u],
         UNCHANGED <<shared, contents, maps, exits, held, cache, compiled, died>>,
         \A c \in Buffers : c \in Holds(t)' => c \in Holds(t),
         NoCrossLinks /\ CoverInv => StackInv(t)',
         LookInv => SoloInv(t)'
  PROVE  Kept
<1> USE DEF shared, contents, maps, held
<1>1. HomeInv'
  BY DEF Base, HomeInv
<1>2. ASSUME NEW u \in CoreThreads PROVE \A c \in Buffers : c \in Holds(u)' => c \in Holds(u)
  BY <1>2 DEF Holds
<1>3. ASSUME NEW u \in CoreThreads PROVE CallInv(u)' /\ Known(u)'
  BY <1>2, <1>3 DEF Base, CallInv, Known
<1>4. Base'
  BY <1>1, <1>3 DEF Base
<1>5. \A c \in Buffers : Alive(c)' => Alive(c)
  BY <1>2 DEF Alive
<1>6. ASSUME NoCrossLinks, CoverInv PROVE CoverInv'
  <2>0. \A p \in Places : p[1] \in Buffers
    BY DEF Places
  <2>1. IndexInv' /\ LinkInv'
    BY <1>5, <1>6, <2>0 DEF CoverInv, IndexInv, LinkInv, Indexed
  <2>2. ASSUME NEW u \in CoreThreads, u # t PROVE StackInv(u)'
    BY <1>6, <2>2, SMT DEF CoverInv, StackInv, Mine, Indexed
  <2> QED BY <1>6, <2>1, <2>2 DEF CoverInv
<1>7. ASSUME LookInv PROVE LookInv'
  <2>1. LandInv' /\ FreshInv'
    BY <1>7 DEF LookInv, LandInv, FreshInv, Land, Empty
  <2>2. ASSUME NEW u \in CoreThreads, u # t PROVE SoloInv(u)'
    BY <1>7, <2>2 DEF LookInv, SoloInv, Land, Empty
  <2> QED BY <1>7, <2>1, <2>2 DEF LookInv
<1> QED BY <1>4, <1>6, <1>7 DEF Kept

(* Code goes on over a patched exit or by the L1, or asks for a block, with *)
(* a record of the exit if there is one to link.                           *)
LEMMA ExitFunctionKept ==
  ASSUME CodeBuffersAssumption, Base, NEW t \in CoreThreads, NEW r \in RIPs, ExitFunction(t, r)
  PROVE  Kept
<1> USE DEF shared, contents, maps, held
<1> DEFINE linked == IF here[t] = Null THEN Null ELSE exits[here[t]][r]
           next == IF linked # Null THEN linked ELSE cache[t][r]
<1>0. /\ at[t] = "run" /\ ~died /\ Types /\ Null \notin Places /\ Null \notin Buffers
      /\ UNCHANGED <<shared, contents, maps, exits, frames, held, cache, compiled, died>>
  BY DEF ExitFunction, At, Base, CodeBuffersAssumption
<1>n. next \in Places \cup {Null} /\ linked \in Places \cup {Null}
  BY <1>0, SMT DEF Types
<1>1. CASE next # Null
  <2>1. here' = [here EXCEPT ![t] = next] /\ UNCHANGED <<at, call>>
    BY <1>1 DEF ExitFunction
  <2>2. CoverInv => Mine(t, next) /\ (BlockLinkingEnabled => next[1] = CurrentCodeBuffer[t])
    <3>1. CASE linked # Null
      <4>1. here[t] \in Places /\ next = exits[here[t]][r]
        BY <1>0, <3>1 DEF Types
      <4> HIDE DEF next, linked
      <4>2. CoverInv => next[1] = here[t][1] /\ Indexed(next)
        BY <1>1, <4>1 DEF CoverInv, LinkInv
      <4>3. here[t] # Null
        BY <1>0, <4>1
      <4>4. CoverInv => Mine(t, here[t]) /\ (BlockLinkingEnabled => here[t][1] = CurrentCodeBuffer[t])
        BY <4>3 DEF CoverInv, StackInv
      <4> QED BY <4>2, <4>4 DEF Mine
    <3>2. CASE linked = Null
      BY <1>0, <1>1, <3>2 DEF CoverInv, IndexInv, Base, HomeInv, Mine
    <3> QED BY <3>1, <3>2
  <2> HIDE DEF next, linked
  <2>3. Types' /\ here'[t] = next /\ \A u \in CoreThreads : u # t => here'[u] = here[u]
    BY <1>0, <1>n, <2>1 DEF Types
  <2>4. CallInv(t)' /\ Holds(t)' = Holds(t)
    BY <1>0, <2>1 DEF Base, CallInv, Holds
  <2>5. CoverInv => StackInv(t)'
    BY <1>0, <2>1, <2>2, <2>3 DEF CoverInv, StackInv, Mine, Indexed
  <2>6. LookInv => SoloInv(t)'
    BY <1>0, <2>1 DEF LookInv, SoloInv, CompilingLabels
  <2> QED BY <1>0, <2>1, <2>3, <2>4, <2>5, <2>6, RunKept
<1>2. CASE next = Null
  <2> DEFINE c == IF BlockLinkingEnabled /\ here[t] # Null
                    THEN [NoCall EXCEPT !.want = r, !.record = here[t], !.buffer = CurrentCodeBuffer[t]]
                    ELSE [NoCall EXCEPT !.want = r]
  <2>1. at' = [at EXCEPT ![t] = "find"] /\ call' = [call EXCEPT ![t] = c] /\ here' = [here EXCEPT ![t] = Null]
    BY <1>2 DEF ExitFunction, Goto
  <2>2. /\ c \in Calls /\ c.want = r /\ c.new = Null /\ c.PrevUsable = 0
        /\ \/ c.record = Null /\ c.buffer = Null
           \/ BlockLinkingEnabled /\ here[t] # Null /\ c.record = here[t] /\ c.buffer = CurrentCodeBuffer[t]
    BY <1>0 DEF Types, NoCall, Calls
  <2> HIDE DEF next, linked, c
  <2>3. /\ Types' /\ here'[t] = Null /\ at'[t] = "find" /\ call'[t] = c
        /\ \A u \in CoreThreads : u # t => here'[u] = here[u] /\ at'[u] = at[u] /\ call'[u] = call[u]
    <3>1. at' \in [CoreThreads -> Labels] /\ at'[t] = "find" /\ \A u \in CoreThreads : u # t => at'[u] = at[u]
      BY <1>0, <2>1 DEF Types, Labels
    <3>2. call' \in [CoreThreads -> Calls] /\ call'[t] = c /\ \A u \in CoreThreads : u # t => call'[u] = call[u]
      BY <1>0, <2>1, <2>2 DEF Types
    <3>3. here' \in [CoreThreads -> Places \cup {Null}] /\ here'[t] = Null /\ \A u \in CoreThreads : u # t => here'[u] = here[u]
      BY <1>0, <2>1 DEF Types
    <3> QED BY <1>0, <3>1, <3>2, <3>3 DEF Types
  <2>4. CallInv(t)'
    BY <2>2, <2>3 DEF CallInv
  <2>h. \A b \in Buffers : b \in Holds(t)' => b \in Holds(t)
    BY <1>0, <2>2, <2>3 DEF Holds
  <2>5. CoverInv => StackInv(t)'
    BY <1>0, <2>2, <2>3, SMT DEF CoverInv, StackInv, Mine, Indexed
  <2>6. LookInv => SoloInv(t)'
    BY <1>0, <2>2, <2>3 DEF LookInv, SoloInv, CompilingLabels
  <2> QED BY <1>0, <2>3, <2>4, <2>h, <2>5, <2>6, RunKept
<1> QED BY <1>1, <1>2

(* A handler pushes the block that it interrupts, which was covered.       *)
LEMMA HandleDispatcherGuestSignalKept ==
  ASSUME CodeBuffersAssumption, Base, NEW t \in CoreThreads, NEW r \in RIPs, HandleDispatcherGuestSignal(t, r)
  PROVE  Kept
<1> USE DEF shared, contents, maps, held
<1> DEFINE c == [NoCall EXCEPT !.want = r]
<1>0. /\ at[t] = "run" /\ ~died /\ here[t] # Null /\ Types /\ Null \notin Buffers
      /\ at' = [at EXCEPT ![t] = "find"] /\ call' = [call EXCEPT ![t] = c] /\ here' = [here EXCEPT ![t] = Null]
      /\ UNCHANGED <<shared, contents, maps, exits, held, cache, compiled, died>>
  BY DEF HandleDispatcherGuestSignal, At, Goto, Base, CodeBuffersAssumption
<1>a. here[t] \in Places /\ frames[t] \in Seq(Places) /\ frames' = [frames EXCEPT ![t] = Append(frames[t], here[t])]
  BY <1>0 DEF Types, HandleDispatcherGuestSignal
<1>1. c \in Calls /\ c.want = r /\ c.new = Null /\ c.PrevUsable = 0 /\ c.record = Null /\ c.buffer = Null
  BY DEF NoCall, Calls
<1> HIDE DEF c
<1>f. MaxFrames # 0
  <2>1. Len(frames[t]) \in Nat /\ Len(frames[t]) < MaxFrames
    BY <1>a, SMT DEF HandleDispatcherGuestSignal
  <2> QED BY <2>1, SMT DEF CodeBuffersAssumption
<1>2. /\ Append(frames[t], here[t]) \in Seq(Places)
      /\ \A i \in DOMAIN Append(frames[t], here[t]) :
           \/ Append(frames[t], here[t])[i] = here[t]
           \/ i \in DOMAIN frames[t] /\ Append(frames[t], here[t])[i] = frames[t][i]
  BY <1>a, SMT
<1>3. /\ Types' /\ here'[t] = Null /\ at'[t] = "find" /\ call'[t] = c /\ frames'[t] = Append(frames[t], here[t])
      /\ \A u \in CoreThreads : u # t =>
           here'[u] = here[u] /\ at'[u] = at[u] /\ call'[u] = call[u] /\ frames'[u] = frames[u]
  <2>1. at' \in [CoreThreads -> Labels] /\ at'[t] = "find" /\ \A u \in CoreThreads : u # t => at'[u] = at[u]
    BY <1>0 DEF Types, Labels
  <2>2. call' \in [CoreThreads -> Calls] /\ call'[t] = c /\ \A u \in CoreThreads : u # t => call'[u] = call[u]
    BY <1>0, <1>1 DEF Types
  <2>3. here' \in [CoreThreads -> Places \cup {Null}] /\ here'[t] = Null /\ \A u \in CoreThreads : u # t => here'[u] = here[u]
    BY <1>0 DEF Types
  <2>4. /\ frames' \in [CoreThreads -> Seq(Places)] /\ frames'[t] = Append(frames[t], here[t])
        /\ \A u \in CoreThreads : u # t => frames'[u] = frames[u]
    BY <1>0, <1>a, <1>2 DEF Types
  <2> QED BY <1>0, <2>1, <2>2, <2>3, <2>4 DEF Types
<1>4. CallInv(t)'
  BY <1>1, <1>3 DEF CallInv
<1>5. \A b \in Buffers : b \in Holds(t)' => b \in Holds(t)
  BY <1>0, <1>1, <1>3 DEF Holds
<1>6. CoverInv => StackInv(t)'
  BY <1>0, <1>1, <1>2, <1>3, <1>f, SMT DEF CoverInv, StackInv, Mine, Indexed
<1>7. LookInv => SoloInv(t)'
  BY <1>0, <1>1, <1>3 DEF LookInv, SoloInv, CompilingLabels
<1> QED BY <1>0, <1>3, <1>4, <1>5, <1>6, <1>7, RunKept

(* sigreturn runs again what the newest frame had.                         *)
LEMMA RestoreThreadStateKept ==
  ASSUME Base, NEW t \in CoreThreads, RestoreThreadState(t)
  PROVE  Kept
<1> USE DEF shared, contents, maps, held
<1>0. /\ at[t] = "run" /\ ~died /\ Types /\ frames[t] # <<>> /\ frames[t] \in Seq(Places)
      /\ here' = [here EXCEPT ![t] = Last(frames[t])] /\ frames' = [frames EXCEPT ![t] = Front(frames[t])]
      /\ UNCHANGED <<shared, contents, maps, exits, at, call, held, cache, compiled, died>>
  BY DEF RestoreThreadState, At, Base, Types, Last, Front
<1>1. /\ Last(frames[t]) \in Places /\ Front(frames[t]) \in Seq(Places)
      /\ \E i \in DOMAIN frames[t] : Last(frames[t]) = frames[t][i]
      /\ \A i \in DOMAIN Front(frames[t]) : i \in DOMAIN frames[t] /\ Front(frames[t])[i] = frames[t][i]
  BY <1>0, FrontLast
<1>2. /\ Types' /\ here'[t] = Last(frames[t]) /\ frames'[t] = Front(frames[t])
      /\ \A u \in CoreThreads : u # t => here'[u] = here[u] /\ frames'[u] = frames[u]
  BY <1>0, <1>1 DEF Types
<1>3. CallInv(t)' /\ Holds(t)' = Holds(t)
  BY <1>0 DEF CallInv, Holds, Base
<1>4. ASSUME NoCrossLinks, CoverInv PROVE StackInv(t)'
  <2>1. StackInv(t) /\ MaxFrames # 0 /\ ~BlockLinkingEnabled
    BY <1>0, <1>4 DEF CoverInv, StackInv, NoCrossLinks
  <2>2. Mine(t, Last(frames[t])) /\ \A i \in DOMAIN Front(frames[t]) : Mine(t, Front(frames[t])[i])
    BY <1>1, <2>1 DEF StackInv
  <2> QED BY <1>0, <1>2, <2>1, <2>2 DEF StackInv, Mine, Indexed
<1>5. LookInv => SoloInv(t)'
  BY <1>0 DEF LookInv, SoloInv, CompilingLabels
<1> QED BY <1>0, <1>2, <1>3, <1>4, <1>5, RunKept

----------------------------------------------------------------------------
(* Rotating buffers.                                                       *)

(* A thread that leaves its buffer for another has everything it will      *)
(* return to in buffers that it keeps.  With one compiler it is the newest *)
(* buffer that it takes.                                                   *)
LEMMA BufferTakenKept ==
  ASSUME CodeBuffersAssumption, Base, NEW t \in CoreThreads, ~died, at[t] \in {"check", "adopt"},
         NEW b \in Buffers, b = Latest \/ b = call[t].new,
         CurrentCodeBuffer' = [CurrentCodeBuffer EXCEPT ![t] = b],
         SignalHandlerCodeBuffers' =
           [SignalHandlerCodeBuffers EXCEPT ![t] = RegisterForSignalHandler(t, CurrentCodeBuffer[t])],
         cache' = [cache EXCEPT ![t] = [r \in RIPs |-> Null]],
         NEW next \in {"fit", "relock"}, Goto(t, next),
         call' \in [CoreThreads -> Calls], call'[t].want = call[t].want, call'[t].record = call[t].record,
         call'[t].buffer = call[t].buffer, call'[t].new \in {call[t].new, Null},
         \A u \in CoreThreads : u # t => call'[u] = call[u],
         UNCHANGED <<shared, contents, maps, exits, running, compiled, died>>,
         LookInv => at[t] = "adopt" /\ next = "relock" /\ call[t].new = b
  PROVE  Kept
<1> USE DEF shared, contents, maps, running
<1> DEFINE keep == RegisterForSignalHandler(t, CurrentCodeBuffer[t])
<1>0. /\ Types /\ here[t] = Null /\ call[t].want \in RIPs /\ CurrentCodeBuffer[t] \in Buffers
      /\ Null \notin Buffers /\ call[t] \in Calls
  BY DEF Base, Types, CallInv, CodeBuffersAssumption
<1>k. /\ keep \in SUBSET Buffers /\ keep \subseteq SignalHandlerCodeBuffers[t] \cup {CurrentCodeBuffer[t]}
      /\ frames[t] # <<>> => keep = SignalHandlerCodeBuffers[t] \cup {CurrentCodeBuffer[t]}
  <2>1. frames[t] # <<>> => Len(frames[t]) # 0
    BY <1>0, SMT DEF Types
  <2> QED BY <1>0, <2>1 DEF Types, RegisterForSignalHandler, SignalHandlerRefCounter
<1> HIDE DEF keep
<1>1. /\ Types'
      /\ at'[t] = next /\ CurrentCodeBuffer'[t] = b /\ SignalHandlerCodeBuffers'[t] = keep
      /\ \A r \in RIPs : cache'[t][r] = Null
      /\ \A u \in CoreThreads : u # t =>
           /\ at'[u] = at[u] /\ call'[u] = call[u] /\ cache'[u] = cache[u]
           /\ CurrentCodeBuffer'[u] = CurrentCodeBuffer[u] /\ SignalHandlerCodeBuffers'[u] = SignalHandlerCodeBuffers[u]
  <2>1. at' \in [CoreThreads -> Labels] /\ at'[t] = next /\ \A u \in CoreThreads : u # t => at'[u] = at[u]
    BY <1>0 DEF Types, Goto, Labels
  <2>2. /\ CurrentCodeBuffer' \in [CoreThreads -> Buffers] /\ CurrentCodeBuffer'[t] = b
        /\ \A u \in CoreThreads : u # t => CurrentCodeBuffer'[u] = CurrentCodeBuffer[u]
    BY <1>0 DEF Types
  <2>3. /\ SignalHandlerCodeBuffers' \in [CoreThreads -> SUBSET Buffers] /\ SignalHandlerCodeBuffers'[t] = keep
        /\ \A u \in CoreThreads : u # t => SignalHandlerCodeBuffers'[u] = SignalHandlerCodeBuffers[u]
    BY <1>0, <1>k DEF Types, keep
  <2>4. /\ cache' \in [CoreThreads -> [RIPs -> Places \cup {Null}]]
        /\ \A r \in RIPs : cache'[t][r] = Null
        /\ \A u \in CoreThreads : u # t => cache'[u] = cache[u]
    BY <1>0 DEF Types
  <2> QED BY <1>0, <2>1, <2>2, <2>3, <2>4 DEF Types
<1>2. HomeInv'
  BY <1>1, SMT DEF Base, HomeInv
<1>3. ASSUME NEW u \in CoreThreads PROVE CallInv(u)'
  BY <1>0, <1>1, <1>3, SMT DEF Base, CallInv
<1>4. ASSUME NEW u \in CoreThreads PROVE \A c \in Buffers : c \in Holds(u)' => c \in Holds(u) \/ c = Latest
  <2>1. CASE u = t
    BY <1>0, <1>1, <1>k, <2>1, SMT DEF Holds
  <2>2. CASE u # t
    BY <1>1, <1>4, <2>2 DEF Holds
  <2> QED BY <2>1, <2>2
<1>5. ASSUME NEW u \in CoreThreads PROVE Known(u)'
  BY <1>0, <1>4, <1>5, SMT DEF Base, Known, Types, Buffers
<1>6. Base'
  BY <1>1, <1>2, <1>3, <1>5 DEF Base
<1>7. \A c \in Buffers : Alive(c)' => Alive(c)
  BY <1>4 DEF Alive
<1>8. ASSUME CoverInv PROVE CoverInv'
  <2>0. \A p \in Places : p[1] \in Buffers
    BY DEF Places
  <2>1. IndexInv' /\ LinkInv'
    BY <1>1, <1>7, <1>8, <2>0, SMT DEF CoverInv, IndexInv, LinkInv, Indexed
  <2>2. ASSUME NEW u \in CoreThreads, u # t PROVE StackInv(u)'
    BY <1>1, <1>8, <2>2 DEF CoverInv, StackInv, Mine, Indexed
  <2>3. StackInv(t)'
    <3>1. StackInv(t)
      BY <1>8 DEF CoverInv
    <3>2. CASE frames[t] = <<>>
      BY <1>0, <1>1, <3>1, <3>2, SMT DEF StackInv
    <3>3. CASE frames[t] # <<>>
      BY <1>0, <1>1, <1>k, <3>1, <3>3 DEF StackInv, Mine, Indexed
    <3> QED BY <3>2, <3>3
  <2> QED BY <2>1, <2>2, <2>3 DEF CoverInv
<1>9. ASSUME OneCompiler, LookInv PROVE LookInv'
  <2>0. at[t] = "adopt" /\ next = "relock" /\ b = Latest /\ t \in compiled /\ LatestOffset = 0
    BY <1>9 DEF LookInv, SoloInv, CompilingLabels
  <2>1. LandInv' /\ FreshInv'
    BY <1>1, <1>9, SMT DEF LookInv, LandInv, FreshInv, Land, Empty
  <2>2. SoloInv(t)'
    BY <1>1, <2>0 DEF SoloInv, CompilingLabels
  <2>3. ASSUME NEW u \in CoreThreads, u # t PROVE SoloInv(u)'
    <3>1. at[u] # "zero"
      BY <1>9, <2>0, <2>3 DEF LookInv, SoloInv, CompilingLabels, OneCompiler
    <3> QED BY <1>1, <1>9, <2>3, <3>1, SMT DEF LookInv, SoloInv, Land
  <2> QED BY <1>9, <2>1, <2>2, <2>3 DEF LookInv
<1> QED BY <1>6, <1>8, <1>9 DEF Kept

(* A thread picks up the buffer that another has started.                  *)
LEMMA CheckCodeBufferUpdateKept ==
  ASSUME CodeBuffersAssumption, Base, NEW t \in CoreThreads, CheckCodeBufferUpdate(t)
  PROVE  Kept
<1>0. at[t] = "check" /\ ~died /\ Types /\ Latest \in Buffers /\ call \in [CoreThreads -> Calls]
  BY DEF CheckCodeBufferUpdate, At, Base, Types
<1>1. CASE CurrentCodeBuffer[t] = Latest
  <2> USE <1>1 DEF CheckCodeBufferUpdate, At, Goto
  <2>1. Types'
    BY DEF Base, Types, Labels, shared, contents, maps, running, held
  <2>2. CallInv(t)' /\ at'[t] = "fit" /\ \A u \in CoreThreads : u # t => at'[u] = at[u]
    BY DEF Base, Types, CallInv, running
  <2>3. LookInv => SoloInv(t)' /\ ~died'
    BY <2>2 DEF LookInv, Base, Types, SoloInv, CompilingLabels, shared, held
  <2> QED BY <2>1, <2>2, <2>3, CallStepKept
<1>2. CASE CurrentCodeBuffer[t] # Latest
  <2>1. ~LookInv
    BY <1>0, <1>2 DEF LookInv, SoloInv, CompilingLabels
  <2> QED BY <1>0, <1>2, <2>1, BufferTakenKept DEF CheckCodeBufferUpdate
<1> QED BY <1>1, <1>2

(* A thread takes the buffer that it has started itself.                   *)
LEMMA GetEmptyCodeBufferKept ==
  ASSUME CodeBuffersAssumption, Base, NEW t \in CoreThreads, GetEmptyCodeBuffer(t)
  PROVE  Kept
<1>0. /\ at[t] = "adopt" /\ ~died /\ call[t].new \in Buffers /\ call[t] \in Calls /\ call \in [CoreThreads -> Calls]
      /\ call' = [call EXCEPT ![t] = [call[t] EXCEPT !.new = Null]]
  BY DEF GetEmptyCodeBuffer, At, Base, Types, CallInv
<1> DEFINE c == [call[t] EXCEPT !.new = Null]
<1>1. /\ c \in Calls /\ c.want = call[t].want /\ c.record = call[t].record /\ c.buffer = call[t].buffer /\ c.new = Null
  BY <1>0, CallWritten, SMT
<1>2. call' = [call EXCEPT ![t] = c]
  BY <1>0
<1> HIDE DEF c
<1>3. call' \in [CoreThreads -> Calls] /\ call'[t] = c /\ \A u \in CoreThreads : u # t => call'[u] = call[u]
  BY <1>0, <1>1, <1>2
<1>4. Goto(t, "relock") /\ UNCHANGED <<shared, contents, maps, exits, running, compiled, died>>
  BY DEF GetEmptyCodeBuffer
<1> QED BY <1>0, <1>1, <1>3, <1>4, BufferTakenKept DEF GetEmptyCodeBuffer

(* AllocateNew makes the next buffer the latest, and gives it to the       *)
(* caller as a local.                                                      *)
LEMMA StartLargerCodeBufferKept ==
  ASSUME CodeBuffersAssumption, Base, NEW t \in CoreThreads, StartLargerCodeBuffer(t)
  PROVE  Kept
<1> USE DEF contents, maps, running, held
<1> DEFINE new == Latest + 1
           c == [call[t] EXCEPT !.new = new]
<1>0. /\ at[t] = "swap" /\ ~died /\ Types /\ call[t] \in Calls /\ Null \notin Buffers /\ Latest \in Nat
      /\ new \in Buffers /\ Latest' = new /\ call' = [call EXCEPT ![t] = c] /\ at' = [at EXCEPT ![t] = "zero"]
      /\ size' = [size EXCEPT ![new] = Larger(size[Latest])]
      /\ UNCHANGED <<LatestOffset, contents, maps, exits, running, held, cache, compiled, died>>
      /\ call[t].want \in RIPs /\ here[t] = Null
  <2>1. Types /\ at[t] = "swap" /\ CallInv(t) /\ ~died
    BY DEF StartLargerCodeBuffer, At, Base
  <2>2. call[t] \in Calls /\ Latest \in Nat /\ Null \notin Buffers
    BY <2>1, SMT DEF Types, CodeBuffersAssumption, Buffers
  <2>3. call[t].want \in RIPs /\ here[t] = Null
    BY <2>1 DEF CallInv
  <2>4. call' = [call EXCEPT ![t] = c]
    BY DEF StartLargerCodeBuffer
  <2>5. /\ new \in Buffers /\ Latest' = new /\ at' = [at EXCEPT ![t] = "zero"]
        /\ size' = [size EXCEPT ![new] = Larger(size[Latest])]
    BY DEF StartLargerCodeBuffer, Goto
  <2>6. UNCHANGED <<LatestOffset, contents, maps, exits, running, held, cache, compiled, died>>
    BY DEF StartLargerCodeBuffer
  <2> QED BY <2>1, <2>2, <2>3, <2>4, <2>5, <2>6
<1>1. /\ c \in Calls /\ c.want = call[t].want /\ c.record = call[t].record /\ c.buffer = call[t].buffer /\ c.new = new
      /\ c.PrevUsable = call[t].PrevUsable
  BY <1>0, CallWritten, SMT
<1>n. new > Latest /\ \A b \in Buffers : b <= Latest => b <= new /\ b # new
  BY <1>0, SMT DEF Buffers
<1> HIDE DEF new, c
<1>2. /\ Types' /\ call'[t] = c /\ at'[t] = "zero"
      /\ \A u \in CoreThreads : u # t => at'[u] = at[u] /\ call'[u] = call[u]
  <2>1. call' \in [CoreThreads -> Calls] /\ call'[t] = c /\ \A u \in CoreThreads : u # t => call'[u] = call[u]
    BY <1>0, <1>1 DEF Types
  <2>2. at' \in [CoreThreads -> Labels] /\ at'[t] = "zero" /\ \A u \in CoreThreads : u # t => at'[u] = at[u]
    BY <1>0 DEF Types, Labels
  <2>3. Larger(size[Latest]) \in 1 .. ConfiguredMaxSize
    BY <1>0, LargerAllowed DEF Types
  <2>4. size' \in [Buffers -> 1 .. ConfiguredMaxSize] /\ Latest' \in Buffers
    BY <1>0, <2>3 DEF Types
  <2> QED BY <1>0, <2>1, <2>2, <2>4 DEF Types
<1>3. HomeInv'
  BY <1>0 DEF Base, HomeInv
<1>4. ASSUME NEW u \in CoreThreads PROVE CallInv(u)'
  BY <1>0, <1>1, <1>2, <1>4, SMT DEF Base, CallInv
<1>5. ASSUME NEW u \in CoreThreads PROVE \A b \in Buffers : b \in Holds(u)' => b \in Holds(u) \/ b = new
  BY <1>0, <1>1, <1>2, <1>5 DEF Holds
<1>6. ASSUME NEW u \in CoreThreads PROVE Known(u)'
  <2>1. \A b \in Buffers : b \in Holds(u) => b <= new
    BY <1>6, <1>n DEF Base, Known
  <2>2. new <= new
    BY <1>0, SMT DEF Buffers
  <2> QED BY <1>0, <1>5, <1>6, <2>1, <2>2 DEF Known
<1>7. Base'
  BY <1>2, <1>3, <1>4, <1>6 DEF Base
<1>8. ASSUME CoverInv PROVE CoverInv'
  <2>0. \A p \in Places : p[1] \in Buffers
    BY DEF Places
  <2>1. \A b \in Buffers : b <= Latest /\ Alive(b)' => Alive(b)
    BY <1>0, <1>5, <1>n DEF Alive
  <2>2. IndexInv'
    BY <1>0, <1>8 DEF CoverInv, IndexInv, Indexed
  <2>3. LinkInv'
    BY <1>0, <1>8, <1>n, <2>0, <2>1 DEF CoverInv, LinkInv, Indexed
  <2>4. ASSUME NEW u \in CoreThreads PROVE StackInv(u)'
    BY <1>0, <1>1, <1>2, <1>8, <2>4, SMT DEF CoverInv, StackInv, Mine, Indexed
  <2> QED BY <2>2, <2>3, <2>4 DEF CoverInv
<1>9. ASSUME OneCompiler, LookInv PROVE LookInv'
  <2>0. t \in compiled /\ Empty(new) /\ \A u \in CoreThreads : CurrentCodeBuffer[u] # new
    <3>1. t \in compiled /\ Empty(new)
      BY <1>0, <1>9, <1>n DEF LookInv, SoloInv, CompilingLabels, FreshInv
    <3>2. ASSUME NEW u \in CoreThreads PROVE CurrentCodeBuffer[u] # new
      <4>1. CurrentCodeBuffer[u] \in Buffers /\ CurrentCodeBuffer[u] <= Latest
        BY <1>0, <3>2 DEF Base, Known, Holds, Types
      <4> QED BY <1>n, <4>1
    <3> QED BY <3>1, <3>2
  <2>1. LandInv'
    <3>1. \A b \in Buffers, r \in RIPs : BlockLists[b][r] # Null => BlockLists[b][r][1] # new
      BY <2>0 DEF Base, HomeInv, Empty
    <3>2. \A u \in CoreThreads, r \in RIPs : cache[u][r] # Null => cache[u][r][1] # new
      BY <2>0 DEF Base, HomeInv
    <3> QED BY <1>0, <1>9, <3>1, <3>2, SMT DEF LookInv, LandInv, Land
  <2>2. FreshInv'
    <3>1. \A b \in Buffers : b > new => b > Latest
      BY <1>0, <1>n, SMT DEF Buffers
    <3>2. DOMAIN BlockOffsets[new] = {}
      BY <2>0, SMT DEF Empty
    <3> QED BY <1>0, <1>9, <3>1, <3>2 DEF LookInv, FreshInv, Empty
  <2>3. ASSUME NEW u \in CoreThreads, u # t PROVE SoloInv(u)'
    <3>1. u \notin compiled /\ compiled # {} /\ at[u] \notin CompilingLabels
      BY <1>9, <2>0, <2>3 DEF LookInv, SoloInv, OneCompiler
    <3> QED BY <1>0, <1>2, <2>3, <3>1, <1>9 DEF LookInv, SoloInv, CompilingLabels
  <2>4. SoloInv(t)'
    BY <1>0, <1>1, <1>2, <2>0 DEF SoloInv, CompilingLabels, Empty
  <2> QED BY <1>0, <1>9, <2>1, <2>2, <2>3, <2>4 DEF LookInv
<1> QED BY <1>7, <1>8, <1>9 DEF Kept

(* LatestOffset starts again.  With one compiler no block is in the newest *)
(* buffer yet.                                                             *)
LEMMA ResetLatestOffsetKept ==
  ASSUME Base, NEW t \in CoreThreads, ResetLatestOffset(t)
  PROVE  Kept
<1> USE DEF contents, maps, running, held
<1>0. /\ at[t] = "zero" /\ ~died /\ Types /\ at' = [at EXCEPT ![t] = "adopt"] /\ LatestOffset' = 0
      /\ UNCHANGED <<Latest, size, contents, maps, exits, call, running, held, cache, compiled, died>>
  BY DEF ResetLatestOffset, At, Goto, Base
<1>1. Types' /\ at'[t] = "adopt" /\ \A u \in CoreThreads : u # t => at'[u] = at[u]
  BY <1>0 DEF Types, Labels
<1>2. HomeInv'
  BY <1>0 DEF Base, HomeInv
<1>3. ASSUME NEW u \in CoreThreads PROVE CallInv(u)' /\ Known(u)' /\ Holds(u)' = Holds(u)
  BY <1>0, <1>1, <1>3 DEF Base, CallInv, Known, Holds
<1>4. Base'
  BY <1>1, <1>2, <1>3 DEF Base
<1>5. \A b : Alive(b)' <=> Alive(b)
  BY <1>0, <1>3 DEF Alive
<1>6. ASSUME CoverInv PROVE CoverInv'
  <2>1. IndexInv' /\ LinkInv'
    BY <1>0, <1>5, <1>6 DEF CoverInv, IndexInv, LinkInv, Indexed
  <2>2. ASSUME NEW u \in CoreThreads PROVE StackInv(u)'
    BY <1>0, <1>1, <1>6, <2>2 DEF CoverInv, StackInv, Mine, Indexed
  <2> QED BY <2>1, <2>2 DEF CoverInv
<1>7. ASSUME OneCompiler, LookInv PROVE LookInv'
  <2>0. /\ t \in compiled /\ Empty(Latest) /\ call[t].new = Latest
        /\ \A u \in CoreThreads : CurrentCodeBuffer[u] # Latest
    BY <1>0, <1>7 DEF LookInv, SoloInv, CompilingLabels
  <2>1. LandInv'
    <3>1. \A b \in Buffers, r \in RIPs : BlockLists[b][r] # Null => BlockLists[b][r][1] # Latest
      BY <2>0 DEF Base, HomeInv, Empty
    <3>2. \A u \in CoreThreads, r \in RIPs : cache[u][r] # Null => cache[u][r][1] # Latest
      BY <2>0 DEF Base, HomeInv
    <3> QED BY <1>0, <1>7, <3>1, <3>2 DEF LookInv, LandInv, Land
  <2>2. FreshInv'
    <3>1. DOMAIN BlockOffsets[Latest] = {}
      BY <2>0, SMT DEF Empty
    <3> QED BY <1>0, <1>7, <3>1 DEF LookInv, FreshInv, Empty
  <2>3. ASSUME NEW u \in CoreThreads, u # t PROVE SoloInv(u)'
    <3>1. u \notin compiled /\ compiled # {} /\ at[u] \notin CompilingLabels
      BY <1>7, <2>0, <2>3 DEF LookInv, SoloInv, OneCompiler
    <3> QED BY <1>0, <1>1, <1>7, <2>3, <3>1 DEF LookInv, SoloInv, CompilingLabels
  <2>4. SoloInv(t)'
    BY <1>0, <1>1, <2>0 DEF SoloInv, CompilingLabels
  <2> QED BY <1>0, <1>7, <2>1, <2>2, <2>3, <2>4 DEF LookInv
<1> QED BY <1>4, <1>6, <1>7 DEF Kept

----------------------------------------------------------------------------
(* Emission, linking and invalidation.                                     *)

(* A block is emitted: the index grows and the place has no patched exits. *)
(* With one compiler the place is above every block of the newest buffer.  *)
LEMMA EmitBlockKept ==
  ASSUME Base, NEW t \in CoreThreads, EmitBlock(t)
  PROVE  Kept
<1> DEFINE place == call[t].place  b == place[1]  o == place[2]  r == call[t].want
<1>0. /\ place \in Places /\ b = CurrentCodeBuffer[t] /\ b \in Buffers /\ o \in Offsets /\ ~died
      /\ r \in RIPs /\ Types /\ at[t] = "emit" /\ LatestOffset \in Nat
  BY DEF EmitBlock, Base, CallInv, At, Places, Types
<1>a. \/ died' = TRUE /\ UNCHANGED BlockOffsets /\ BlockOffsets[b] # <<>> /\ o <= Last(BlockOffsets[b])
      \/ BlockOffsets' = [BlockOffsets EXCEPT ![b] = Append(@, o)] /\ UNCHANGED died
  BY DEF EmitBlock, Last
<1>b. /\ exits' = [exits EXCEPT ![place] = [q \in RIPs |-> Null]]
      /\ code' = [code EXCEPT ![place] = r]
      /\ LatestOffset' = LatestOffset + 1
      /\ at' = [at EXCEPT ![t] = "publish"]
  BY DEF EmitBlock, At, Goto
<1>c. UNCHANGED <<Latest, size, BlockLists, BlockLinks, call, here, frames, CurrentCodeBuffer, SignalHandlerCodeBuffers, cache, compiled>>
  BY DEF EmitBlock, maps, running, held
<1>p. place = <<b, o>>
  BY <1>0, SMT DEF Places
<1> HIDE DEF place, b, o, r
<1>1. BlockOffsets \in [Buffers -> Seq(Offsets)] /\ died \in BOOLEAN
  BY <1>0 DEF Types
<1>2. /\ BlockOffsets' \in [Buffers -> Seq(Offsets)] /\ died' \in BOOLEAN
      /\ \A c \in Buffers : Range(BlockOffsets[c]) \subseteq Range(BlockOffsets'[c])
      /\ \A c \in Buffers : c # b => BlockOffsets'[c] = BlockOffsets[c]
      /\ ~died' => o \in Range(BlockOffsets'[b]) /\ BlockOffsets'[b] = Append(BlockOffsets[b], o)
  <2>1. CASE died' = TRUE /\ UNCHANGED BlockOffsets
    BY <1>1, <2>1
  <2>2. CASE BlockOffsets' = [BlockOffsets EXCEPT ![b] = Append(@, o)] /\ UNCHANGED died
    <3> DEFINE new == Append(BlockOffsets[b], o)
    <3>1. BlockOffsets[b] \in Seq(Offsets)
      BY <1>0, <1>1
    <3>2. new \in Seq(Offsets) /\ Range(new) = Range(BlockOffsets[b]) \cup {o}
      BY <1>0, <3>1, AppendRange, SMT
    <3>3. BlockOffsets' = [BlockOffsets EXCEPT ![b] = new]
      BY <2>2
    <3>6. died' \in BOOLEAN
      BY <1>1, <2>2
    <3>e. new = Append(BlockOffsets[b], o)
      OBVIOUS
    <3> HIDE DEF new
    <3>4. BlockOffsets'[b] = new /\ \A c \in Buffers : c # b => BlockOffsets'[c] = BlockOffsets[c]
      BY <1>0, <1>1, <3>3
    <3>5. BlockOffsets' \in [Buffers -> Seq(Offsets)]
      BY <1>1, <3>2, <3>3
    <3> QED BY <3>2, <3>4, <3>5, <3>6, <3>e
  <2> QED BY <1>a, <2>1, <2>2
<1>3. \A p \in Places : Indexed(p) => Indexed(p)'
  BY <1>2 DEF Indexed, Places
<1>4. /\ exits' \in [Places -> [RIPs -> Places \cup {Null}]]
      /\ \A p \in Places, q \in RIPs : exits'[p][q] # Null => exits'[p][q] = exits[p][q]
  <2>1. [q \in RIPs |-> Null] \in [RIPs -> Places \cup {Null}]
    OBVIOUS
  <2>2. exits \in [Places -> [RIPs -> Places \cup {Null}]]
    BY <1>0 DEF Types
  <2>3. exits' \in [Places -> [RIPs -> Places \cup {Null}]]
    BY <1>0, <1>b, <2>1, <2>2
  <2>4. \A q \in RIPs : exits'[place][q] = Null
    BY <1>0, <1>b, <2>2
  <2>5. \A p \in Places : p # place => exits'[p] = exits[p]
    BY <1>0, <1>b, <2>2
  <2> QED BY <2>3, <2>4, <2>5
<1>5. at'[t] = "publish" /\ \A u \in CoreThreads : u # t => at'[u] = at[u]
  BY <1>0, <1>b DEF Types
<1>6. code'[place] = r /\ \A p \in Places : p # place => code'[p] = code[p]
  BY <1>0, <1>b DEF Types
<1>7. Types'
  <2>1. code' \in [Places -> RIPs \cup {Null}] /\ at' \in [CoreThreads -> Labels] /\ LatestOffset' \in Nat
    BY <1>0, <1>b, SMT DEF Types, Labels
  <2> QED BY <1>0, <1>2, <1>4, <1>c, <2>1 DEF Types
<1>8. HomeInv'
  BY <1>c DEF Base, HomeInv
<1>9. ASSUME NEW u \in CoreThreads PROVE CallInv(u)' /\ Known(u)' /\ Holds(u)' = Holds(u)
  BY <1>0, <1>5, <1>9, <1>c DEF Base, CallInv, Known, Holds, place, b
<1>10. Base'
  BY <1>7, <1>8, <1>9 DEF Base
<1>11. \A c : Alive(c)' <=> Alive(c)
  BY <1>9, <1>c DEF Alive
<1>12. ASSUME CoverInv PROVE CoverInv'
  <2>1. IndexInv'
    <3>1. /\ \A c \in Buffers, q \in RIPs : BlockLists[c][q] # Null => BlockLists[c][q] \in Places
          /\ \A u \in CoreThreads, q \in RIPs : cache[u][q] # Null => cache[u][q] \in Places
      BY <1>0, SMT DEF Types
    <3> QED BY <1>3, <1>12, <1>c, <3>1 DEF CoverInv, IndexInv
  <2>2. LinkInv'
    <3>1. \A p \in Places, q \in RIPs : exits[p][q] # Null => exits[p][q] \in Places
      BY <1>0, SMT DEF Types
    <3>2. LinkInv
      BY <1>12 DEF CoverInv
    <3>3. ASSUME NEW p \in Places, NEW q \in RIPs, exits'[p][q] # Null
          PROVE  /\ p[1] <= Latest' /\ exits'[p][q][1] = p[1] /\ Indexed(exits[p][q])' /\ exits'[p][q] = exits[p][q]
                 /\ Alive(p[1])' => <<q, p>> \in BlockLinks'[p[1]] /\ BlockLists'[p[1]][q] # Null
      <4>1. exits'[p][q] = exits[p][q] /\ exits[p][q] # Null /\ exits[p][q] \in Places
        BY <1>4, <3>1, <3>3
      <4>2. p[1] <= Latest /\ exits[p][q][1] = p[1] /\ Indexed(exits[p][q])
        BY <3>2, <4>1 DEF LinkInv
      <4>3. Alive(p[1]) => <<q, p>> \in BlockLinks[p[1]] /\ BlockLists[p[1]][q] # Null
        BY <3>2, <4>1 DEF LinkInv
      <4>4. Indexed(exits[p][q]')
        BY <4>1, <4>2
      <4>5. Indexed(exits[p][q])'
        BY <1>2, <4>1, <4>2 DEF Indexed, Places
      <4> QED BY <1>11, <1>c, <4>1, <4>2, <4>3, <4>5
    <3>4. \A c \in Buffers : \A l \in BlockLinks'[c] : l[2][1] = c
      BY <1>c, <3>2 DEF LinkInv
    <3> QED BY <3>3, <3>4 DEF LinkInv
  <2>3. ASSUME NEW u \in CoreThreads PROVE StackInv(u)'
    <3>1. frames[u] \in Seq(Places) /\ (here[u] # Null => here[u] \in Places) /\ StackInv(u) /\ CallInv(u)
      BY <1>0, <1>12, <2>3 DEF CoverInv, Types, Base
    <3>2. \A i \in DOMAIN frames[u] : frames[u][i] \in Places
      BY <3>1, SMT
    <3>3. at'[u] \in {"publish", "link"} /\ ~died' => Indexed(call[u].place)'
      <4>1. CASE u = t
        BY <1>2, <1>c, <4>1 DEF Indexed, b, o, place
      <4>2. CASE u # t
        BY <1>0, <1>3, <1>5, <1>c, <2>3, <3>1, <4>2 DEF StackInv, CallInv
      <4> QED BY <4>1, <4>2
    <3> QED BY <1>3, <1>c, <3>1, <3>2, <3>3 DEF StackInv, Mine
  <2> QED BY <2>1, <2>2, <2>3 DEF CoverInv
<1>13. ASSUME OneCompiler, LookInv PROVE LookInv'
  <2>0. /\ t \in compiled /\ b = Latest /\ o = LatestOffset /\ CurrentCodeBuffer[t] = Latest /\ r = call[t].want
        /\ place = call[t].place /\ \A u \in CoreThreads : u # t => u \notin compiled /\ compiled # {} /\ at[u] \notin CompilingLabels
    BY <1>0, <1>13, SMT DEF LookInv, SoloInv, CompilingLabels, OneCompiler, b, o, place, r
  <2>1. \A i \in DOMAIN BlockOffsets[b] : BlockOffsets[b][i] < o
    BY <1>13, <2>0 DEF LookInv, FreshInv
  <2>2. BlockOffsets[b] \in Seq(Offsets) /\ o \in Nat /\ \A i \in DOMAIN BlockOffsets[b] : BlockOffsets[b][i] \in Nat
    <3>1. BlockOffsets[b] \in Seq(Offsets) /\ \A x \in Offsets : x \in Nat
      BY <1>0, <1>1, SMT DEF Offsets
    <3> QED BY <1>0, <3>1, SMT
  <2>3. ~died'
    <3>1. SUFFICES ASSUME BlockOffsets[b] # <<>>, o <= Last(BlockOffsets[b]) PROVE FALSE
      BY <1>0, <1>a
    <3>2. PICK i \in DOMAIN BlockOffsets[b] : Last(BlockOffsets[b]) = BlockOffsets[b][i]
      BY <2>2, <3>1, FrontLast
    <3> QED BY <2>1, <2>2, <3>1, <3>2, SMT
  <2>4. \A p \in Places : \A q : Land(p, q) => Land(p, q)'
    BY <1>0, <1>6, <1>b, <1>c, <1>p, <2>0, SMT DEF Land, Places, Offsets
  <2>5. LandInv'
    <3>1. /\ \A c \in Buffers, q \in RIPs : BlockLists[c][q] # Null => BlockLists[c][q] \in Places
          /\ \A u \in CoreThreads, q \in RIPs : cache[u][q] # Null => cache[u][q] \in Places
      BY <1>0, SMT DEF Types
    <3> QED BY <1>13, <1>c, <2>4, <3>1 DEF LookInv, LandInv
  <2>6. FreshInv'
    <3>1. BlockOffsets'[b] = Append(BlockOffsets[b], o)
      BY <1>2, <2>3
    <3>2. \A i \in DOMAIN Append(BlockOffsets[b], o) :
            Append(BlockOffsets[b], o)[i] = o \/ (i \in DOMAIN BlockOffsets[b] /\ Append(BlockOffsets[b], o)[i] = BlockOffsets[b][i])
      BY <2>2, SMT
    <3>3. \A i \in DOMAIN BlockOffsets'[b] : BlockOffsets'[b][i] < LatestOffset'
      BY <1>b, <2>0, <2>1, <2>2, <3>1, <3>2, SMT
    <3>4. \A c \in Buffers : c > Latest => c # b
      BY <1>0, <2>0, SMT DEF Buffers
    <3>5. \A c \in Buffers : c > Latest => Empty(c)'
      BY <1>2, <1>13, <1>c, <3>4 DEF LookInv, FreshInv, Empty
    <3> QED BY <1>c, <2>0, <3>3, <3>5 DEF FreshInv
  <2>7. ASSUME NEW u \in CoreThreads, u # t PROVE SoloInv(u)'
    BY <1>5, <1>13, <1>c, <2>0, <2>7 DEF LookInv, SoloInv, CompilingLabels
  <2>8. SoloInv(t)'
    <3>1. code'[place] = r /\ o < LatestOffset'
      BY <1>0, <1>6, <1>b, <2>0, SMT
    <3>2. Land(call[t].place, call[t].want)'
      BY <1>c, <3>1 DEF Land, place, o, r
    <3> QED BY <1>5, <1>c, <2>0, <3>2 DEF SoloInv, CompilingLabels
  <2> QED BY <2>3, <2>5, <2>6, <2>7, <2>8 DEF LookInv
<1> QED BY <1>10, <1>12, <1>13 DEF Kept

(* An exit is registered with the map of its own buffer and then patched.  *)
LEMMA ExitFunctionLinkWithRecordKept ==
  ASSUME CodeBuffersAssumption, Base, NEW t \in CoreThreads, ExitFunctionLinkWithRecord(t)
  PROVE  Kept
<1> DEFINE b == CurrentCodeBuffer[t]  r == call[t].want  place == call[t].place  from == call[t].record
<1>0. /\ Types /\ at[t] = "link" /\ ~died /\ b \in Buffers /\ r \in RIPs /\ here[t] = Null
      /\ place \in Places /\ place[1] = b /\ from \in Places /\ call[t].buffer = b
      /\ Null \notin Places /\ Null \notin Buffers
  BY DEF ExitFunctionLinkWithRecord, At, Base, Types, CallInv, CodeBuffersAssumption
<1>1. \/ /\ BlockLists[b][r] = place
         /\ BlockLinks' = [BlockLinks EXCEPT ![b] = BlockLinks[b] \cup {<<r, from>>}]
         /\ exits' = [exits EXCEPT ![from][r] = place]
      \/ UNCHANGED <<BlockLinks, exits>>
  BY DEF ExitFunctionLinkWithRecord
<1>2. /\ here' = [here EXCEPT ![t] = place] /\ call' = [call EXCEPT ![t] = NoCall] /\ at' = [at EXCEPT ![t] = "run"]
  BY DEF ExitFunctionLinkWithRecord, Dispatch, Goto
<1>c. UNCHANGED <<Latest, LatestOffset, size, code, BlockOffsets, BlockLists, frames, CurrentCodeBuffer,
                  SignalHandlerCodeBuffers, cache, compiled, died>>
  BY DEF ExitFunctionLinkWithRecord, shared, contents, held
<1>h. b <= Latest
  BY <1>0 DEF Base, Known, Holds
<1>s. StackInv(t) => from[1] = b /\ Indexed(place)
  BY <1>0 DEF StackInv
<1>l. LookInv /\ (t \in compiled \/ compiled = {}) => b = Latest
  BY <1>0 DEF LookInv, SoloInv
<1> HIDE DEF b, r, place, from
<1>3. /\ here' \in [CoreThreads -> Places \cup {Null}] /\ here'[t] = place /\ \A u \in CoreThreads : u # t => here'[u] = here[u]
      /\ call' \in [CoreThreads -> Calls] /\ call'[t] = NoCall /\ \A u \in CoreThreads : u # t => call'[u] = call[u]
      /\ at' \in [CoreThreads -> Labels] /\ at'[t] = "run" /\ \A u \in CoreThreads : u # t => at'[u] = at[u]
  BY <1>0, <1>2, NoCallTyped DEF Types, Labels
<1>4. /\ exits' \in [Places -> [RIPs -> Places \cup {Null}]]
      /\ \A p \in Places, q \in RIPs :
           \/ exits'[p][q] = exits[p][q]
           \/ p = from /\ q = r /\ exits'[p][q] = place /\ BlockLists[b][r] = place /\ <<r, from>> \in BlockLinks'[b]
      /\ BlockLinks' \in [Buffers -> SUBSET (RIPs \X Places)]
      /\ \A c \in Buffers : BlockLinks[c] \subseteq BlockLinks'[c]
      /\ \A c \in Buffers : \A l \in BlockLinks'[c] : l \in BlockLinks[c] \/ (c = b /\ l = <<r, from>>)
  <2>0. /\ exits \in [Places -> [RIPs -> Places \cup {Null}]] /\ BlockLinks \in [Buffers -> SUBSET (RIPs \X Places)]
        /\ place \in Places \cup {Null} /\ <<r, from>> \in RIPs \X Places
    BY <1>0 DEF Types
  <2>1. CASE UNCHANGED <<BlockLinks, exits>>
    BY <2>0, <2>1
  <2>2. CASE /\ BlockLists[b][r] = place
             /\ BlockLinks' = [BlockLinks EXCEPT ![b] = BlockLinks[b] \cup {<<r, from>>}]
             /\ exits' = [exits EXCEPT ![from][r] = place]
    <3> DEFINE new == [exits EXCEPT ![from][r] = place]
    <3>1. /\ new \in [Places -> [RIPs -> Places \cup {Null}]]
          /\ \A p \in Places, q \in RIPs : new[p][q] = IF p = from /\ q = r THEN place ELSE exits[p][q]
      <4>1. /\ from \in Places /\ r \in RIPs /\ place \in Places \cup {Null}
            /\ exits \in [Places -> [RIPs -> Places \cup {Null}]]
        BY <1>0, <2>0
      <4> QED BY <4>1, EntryWritten, ZenonT(30)
    <3>2. BlockLinks'[b] = BlockLinks[b] \cup {<<r, from>>} /\ \A c \in Buffers : c # b => BlockLinks'[c] = BlockLinks[c]
      BY <1>0, <2>0, <2>2
    <3>3. BlockLinks[b] \cup {<<r, from>>} \in SUBSET (RIPs \X Places)
      BY <1>0, <2>0
    <3>4. BlockLinks' \in [Buffers -> SUBSET (RIPs \X Places)]
      BY <2>0, <2>2, <3>3
    <3>5. exits' = new
      BY <2>2
    <3> HIDE DEF new
    <3>6. \A p \in Places, q \in RIPs : exits'[p][q] = exits[p][q] \/ (p = from /\ q = r /\ exits'[p][q] = place)
      BY <3>1, <3>5
    <3>7. <<r, from>> \in BlockLinks'[b]
      BY <3>2
    <3>8. exits' \in [Places -> [RIPs -> Places \cup {Null}]]
      BY <3>1, <3>5
    <3>9. /\ \A c \in Buffers : BlockLinks[c] \subseteq BlockLinks'[c]
          /\ \A c \in Buffers : \A l \in BlockLinks'[c] : l \in BlockLinks[c] \/ (c = b /\ l = <<r, from>>)
      BY <3>2
    <3> QED BY <2>2, <3>4, <3>6, <3>7, <3>8, <3>9
  <2> QED BY <1>1, <2>1, <2>2
<1>5. Types'
  BY <1>0, <1>3, <1>4, <1>c DEF Types
<1>6. HomeInv'
  BY <1>c DEF Base, HomeInv
<1>7. ASSUME NEW u \in CoreThreads PROVE CallInv(u)'
  BY <1>3, <1>7, <1>c DEF Base, CallInv
<1>8. ASSUME NEW u \in CoreThreads PROVE \A c \in Buffers : c \in Holds(u)' => c \in Holds(u)
  BY <1>0, <1>3, <1>8, <1>c, NoCallTyped, SMT DEF Holds
<1>9. ASSUME NEW u \in CoreThreads PROVE Known(u)'
  BY <1>8, <1>9, <1>c DEF Base, Known
<1>10. Base'
  BY <1>5, <1>6, <1>7, <1>9 DEF Base
<1>11. \A c \in Buffers : Alive(c)' => Alive(c)
  BY <1>8, <1>c DEF Alive
<1>12. ASSUME CoverInv PROVE CoverInv'
  <2>0. from[1] = b /\ Indexed(place) /\ LinkInv
    BY <1>12, <1>s DEF CoverInv
  <2>1. IndexInv'
    BY <1>12, <1>c DEF CoverInv, IndexInv, Indexed
  <2>2. LinkInv'
    <3>1. ASSUME NEW p \in Places, NEW q \in RIPs, exits'[p][q] # Null
          PROVE  /\ p[1] <= Latest' /\ exits'[p][q][1] = p[1] /\ Indexed(exits'[p][q])
                 /\ Alive(p[1])' => <<q, p>> \in BlockLinks'[p[1]] /\ BlockLists'[p[1]][q] # Null
      <4>0. p[1] \in Buffers
        BY DEF Places
      <4>1. CASE exits'[p][q] = exits[p][q]
        <5>1. p[1] <= Latest /\ exits[p][q][1] = p[1] /\ Indexed(exits[p][q])
          BY <2>0, <3>1, <4>1 DEF LinkInv
        <5>2. Alive(p[1]) => <<q, p>> \in BlockLinks[p[1]] /\ BlockLists[p[1]][q] # Null
          BY <2>0, <3>1, <4>1 DEF LinkInv
        <5> QED BY <1>4, <1>11, <1>c, <4>0, <4>1, <5>1, <5>2
      <4>2. CASE p = from /\ q = r /\ exits'[p][q] = place /\ BlockLists[b][r] = place /\ <<r, from>> \in BlockLinks'[b]
        BY <1>0, <1>c, <1>h, <2>0, <4>2
      <4> QED BY <1>4, <4>1, <4>2
    <3>2. \A c \in Buffers : \A l \in BlockLinks'[c] : l[2][1] = c
      BY <1>4, <2>0, SMT DEF LinkInv
    <3> QED BY <1>c, <3>1, <3>2 DEF LinkInv, Indexed
  <2>3. ASSUME NEW u \in CoreThreads PROVE StackInv(u)'
    <3>1. StackInv(u)
      BY <1>12, <2>3 DEF CoverInv
    <3>2. CASE u = t
      BY <1>0, <1>3, <1>c, <2>0, <3>1, <3>2, NoCallTyped, SMT DEF StackInv, Mine, Indexed, b
    <3>3. CASE u # t
      BY <1>3, <1>c, <2>3, <3>1, <3>3 DEF StackInv, Mine, Indexed
    <3> QED BY <3>2, <3>3
  <2> QED BY <2>1, <2>2, <2>3 DEF CoverInv
<1>13. ASSUME LookInv PROVE LookInv'
  <2>1. LandInv' /\ FreshInv'
    BY <1>13, <1>c, SMT DEF LookInv, LandInv, FreshInv, Land, Empty
  <2>2. ASSUME NEW u \in CoreThreads PROVE SoloInv(u)'
    <3>1. CASE u = t
      BY <1>13, <1>3, <1>c, <1>l, <3>1 DEF SoloInv, CompilingLabels, b
    <3>2. CASE u # t
      BY <1>13, <1>3, <1>c, <2>2, <3>2, SMT DEF LookInv, SoloInv, Land, Empty
    <3> QED BY <3>1, <3>2
  <2> QED BY <1>13, <1>c, <2>1, <2>2 DEF LookInv
<1> QED BY <1>10, <1>12, <1>13 DEF Kept

(* Invalidation takes entries out of the maps and caches, and unpatches    *)
(* every exit of a living buffer that led to the address.                  *)
LEMMA InvalidateCodeRangeKept ==
  ASSUME Base, NEW r \in RIPs, InvalidateCodeRange(r)
  PROVE  Kept
<1>0. Types /\ ~died /\ \A t \in CoreThreads : at[t] \notin CompilingLabels
  BY DEF InvalidateCodeRange, Base
<1>c. UNCHANGED <<Latest, LatestOffset, size, code, BlockOffsets, at, call, here, frames, CurrentCodeBuffer,
                  SignalHandlerCodeBuffers, compiled, died>>
  BY DEF InvalidateCodeRange, shared, contents, running, held
<1>1. /\ BlockLists' \in [Buffers -> [RIPs -> Places \cup {Null}]]
      /\ \A b \in Buffers, q \in RIPs : BlockLists'[b][q] \in {Null, BlockLists[b][q]}
      /\ \A b \in Buffers, q \in RIPs : q # r => BlockLists'[b][q] = BlockLists[b][q]
  <2>1. ASSUME NEW b \in Buffers
        PROVE  /\ BlockLists'[b] \in [RIPs -> Places \cup {Null}]
               /\ \A q \in RIPs : BlockLists'[b][q] \in {Null, BlockLists[b][q]}
               /\ \A q \in RIPs : q # r => BlockLists'[b][q] = BlockLists[b][q]
    <3>1. BlockLists[b] \in [RIPs -> Places \cup {Null}]
      BY <1>0, <2>1 DEF Types
    <3>2. BlockLists'[b] = [BlockLists[b] EXCEPT ![r] = Null] \/ BlockLists'[b] = BlockLists[b]
      BY <2>1 DEF InvalidateCodeRange
    <3> QED BY <3>1, <3>2
  <2>2. BlockLists' = [b \in Buffers |-> BlockLists'[b]]
    BY DEF InvalidateCodeRange
  <2> QED BY <2>1, <2>2
<1>2. /\ cache' \in [CoreThreads -> [RIPs -> Places \cup {Null}]]
      /\ \A u \in CoreThreads, q \in RIPs : cache'[u][q] \in {Null, cache[u][q]}
  BY <1>0 DEF Types, InvalidateCodeRange
<1>3. /\ BlockLinks' \in [Buffers -> SUBSET (RIPs \X Places)]
      /\ \A b \in Buffers : BlockLinks'[b] \subseteq BlockLinks[b]
      /\ \A b \in Buffers : \A l \in BlockLinks[b] : l[1] # r => l \in BlockLinks'[b]
  <2>1. ASSUME NEW b \in Buffers
        PROVE  /\ BlockLinks'[b] \in SUBSET (RIPs \X Places) /\ BlockLinks'[b] \subseteq BlockLinks[b]
               /\ \A l \in BlockLinks[b] : l[1] # r => l \in BlockLinks'[b]
    <3>1. BlockLinks[b] \in SUBSET (RIPs \X Places)
      BY <1>0, <2>1 DEF Types
    <3>2. BlockLinks'[b] = {l \in BlockLinks[b] : l[1] # r} \/ BlockLinks'[b] = BlockLinks[b]
      BY <2>1 DEF InvalidateCodeRange
    <3> QED BY <3>1, <3>2
  <2>2. BlockLinks' = [b \in Buffers |-> BlockLinks'[b]]
    BY DEF InvalidateCodeRange
  <2> QED BY <2>1, <2>2
<1>4. /\ exits' \in [Places -> [RIPs -> Places \cup {Null}]]
      /\ \A p \in Places, q \in RIPs : exits'[p][q] # Null =>
           exits'[p][q] = exits[p][q] /\ (q = r => p \notin Severed(r))
  <2>1. ASSUME NEW p \in Places
        PROVE  /\ exits'[p] \in [RIPs -> Places \cup {Null}]
               /\ \A q \in RIPs : exits'[p][q] # Null => exits'[p][q] = exits[p][q] /\ (q = r => p \notin Severed(r))
    <3>1. exits[p] \in [RIPs -> Places \cup {Null}]
      BY <1>0, <2>1 DEF Types
    <3>2. exits'[p] = IF p \in Severed(r) THEN [exits[p] EXCEPT ![r] = Null] ELSE exits[p]
      BY <2>1 DEF InvalidateCodeRange
    <3> QED BY <3>1, <3>2
  <2>2. exits' = [p \in Places |-> exits'[p]]
    BY DEF InvalidateCodeRange
  <2> QED BY <2>1, <2>2
<1>5. Types'
  BY <1>0, <1>1, <1>2, <1>3, <1>4, <1>c DEF Types
<1>6. HomeInv'
  <2>1. \A b \in Buffers, q \in RIPs : BlockLists'[b][q] # Null => BlockLists'[b][q][1] = b
    <3>1. \A b \in Buffers, q \in RIPs : BlockLists[b][q] # Null => BlockLists[b][q][1] = b
      BY DEF Base, HomeInv
    <3> QED BY <1>1, <3>1, SMT
  <2>2. \A u \in CoreThreads, q \in RIPs : cache'[u][q] # Null => cache'[u][q][1] = CurrentCodeBuffer'[u]
    <3>1. \A u \in CoreThreads, q \in RIPs : cache[u][q] # Null => cache[u][q][1] = CurrentCodeBuffer[u]
      BY DEF Base, HomeInv
    <3> QED BY <1>2, <1>c, <3>1
  <2> QED BY <2>1, <2>2 DEF HomeInv
<1>7. ASSUME NEW u \in CoreThreads PROVE CallInv(u)' /\ Known(u)' /\ Holds(u)' = Holds(u)
  BY <1>7, <1>c DEF Base, CallInv, Known, Holds
<1>8. Base'
  BY <1>5, <1>6, <1>7 DEF Base
<1>9. \A b : Alive(b)' <=> Alive(b)
  BY <1>7, <1>c DEF Alive
<1>10. ASSUME CoverInv PROVE CoverInv'
  <2>1. IndexInv'
    <3>1. ASSUME NEW b \in Buffers, NEW q \in RIPs, BlockLists'[b][q] # Null
          PROVE  Indexed(BlockLists[b][q])'
      <4>1. BlockLists'[b][q] = BlockLists[b][q]
        BY <1>1, <3>1
      <4> QED BY <1>10, <1>c, <3>1, <4>1 DEF CoverInv, IndexInv, Indexed
    <3>2. ASSUME NEW u \in CoreThreads, NEW q \in RIPs, cache'[u][q] # Null
          PROVE  Indexed(cache[u][q])'
      <4>1. cache'[u][q] = cache[u][q]
        BY <1>2, <3>2
      <4> QED BY <1>10, <1>c, <3>2, <4>1 DEF CoverInv, IndexInv, Indexed
    <3> QED BY <3>1, <3>2 DEF IndexInv
  <2>2. LinkInv'
    <3>0. LinkInv
      BY <1>10 DEF CoverInv
    <3>1. ASSUME NEW p \in Places, NEW q \in RIPs, exits'[p][q] # Null
          PROVE  /\ p[1] <= Latest' /\ exits'[p][q][1] = p[1] /\ Indexed(exits'[p][q])
                 /\ Alive(p[1])' => <<q, p>> \in BlockLinks'[p[1]] /\ BlockLists'[p[1]][q] # Null
      <4>0. p[1] \in Buffers
        BY DEF Places
      <4>1. exits'[p][q] = exits[p][q] /\ exits[p][q] # Null /\ (q = r => p \notin Severed(r))
        BY <1>4, <3>1
      <4>2. p[1] <= Latest /\ exits[p][q][1] = p[1] /\ Indexed(exits[p][q])
        BY <3>0, <4>1 DEF LinkInv
      <4>3. Alive(p[1]) => <<q, p>> \in BlockLinks[p[1]] /\ BlockLists[p[1]][q] # Null
        BY <3>0, <4>1 DEF LinkInv
      <4>4. CASE q = r
        BY <1>9, <1>c, <4>0, <4>1, <4>2, <4>3, <4>4 DEF Severed
      <4>5. CASE q # r
        <5>1. <<q, p>>[1] # r
          BY <4>5
        <5> QED BY <1>1, <1>3, <1>9, <1>c, <4>0, <4>1, <4>2, <4>3, <4>5, <5>1
      <4> QED BY <4>4, <4>5
    <3>2. \A c \in Buffers : \A l \in BlockLinks'[c] : l[2][1] = c
      BY <1>3, <3>0 DEF LinkInv
    <3> QED BY <1>c, <3>1, <3>2 DEF LinkInv, Indexed
  <2>3. ASSUME NEW u \in CoreThreads PROVE StackInv(u)'
    BY <1>10, <1>c, <2>3 DEF CoverInv, StackInv, Mine, Indexed
  <2> QED BY <2>1, <2>2, <2>3 DEF CoverInv
<1>11. ASSUME LookInv PROVE LookInv'
  <2>1. LandInv'
    BY <1>1, <1>2, <1>11, <1>c, SMT DEF LookInv, LandInv, Land
  <2>2. FreshInv'
    BY <1>1, <1>11, <1>c, SMT DEF LookInv, FreshInv, Empty
  <2>3. ASSUME NEW u \in CoreThreads PROVE SoloInv(u)'
    BY <1>0, <1>11, <1>c, <2>3 DEF LookInv, SoloInv, CompilingLabels
  <2> QED BY <1>11, <1>c, <2>1, <2>2, <2>3 DEF LookInv
<1> QED BY <1>8, <1>10, <1>11 DEF Kept

----------------------------------------------------------------------------
(* The invariants hold at first: no block, no call, no handler.            *)
LEMMA InitKept == ASSUME CodeBuffersAssumption, Init PROVE Base /\ CoverInv /\ LookInv
<1> USE DEF Init
<1>1. Types
  <2>1. \A S : <<>> \in Seq(S)
    BY SMT
  <2>3. 0 \in Buffers /\ ConfiguredInitialSize \in 1 .. ConfiguredMaxSize
    BY SMT DEF CodeBuffersAssumption, Buffers
  <2>4. call \in [CoreThreads -> Calls] /\ at \in [CoreThreads -> Labels]
    BY NoCallTyped DEF Labels
  <2>5. frames \in [CoreThreads -> Seq(Places)] /\ BlockOffsets \in [Buffers -> Seq(Offsets)]
    BY <2>1
  <2> QED BY <2>3, <2>4, <2>5 DEF Types
<1>2. HomeInv
  BY DEF HomeInv
<1>3. ASSUME NEW t \in CoreThreads PROVE CallInv(t) /\ Known(t)
  <2>1. Null \notin Buffers
    BY DEF CodeBuffersAssumption
  <2>2. Holds(t) = {0, Null}
    BY <1>3, NoCallTyped DEF Holds
  <2> QED BY <1>3, <2>1, <2>2, SMT DEF CallInv, Known
<1>4. CoverInv
  <2>1. IndexInv /\ LinkInv
    BY DEF IndexInv, LinkInv
  <2>2. ASSUME NEW t \in CoreThreads PROVE StackInv(t)
    BY <2>2, NoCallTyped, SMT DEF StackInv
  <2> QED BY <2>1, <2>2 DEF CoverInv
<1>5. LookInv
  <2>1. LandInv /\ FreshInv
    <3>1. Latest \in Buffers
      BY <1>1 DEF Types
    <3> QED BY <3>1, SMT DEF LandInv, FreshInv, Empty
  <2>2. ASSUME NEW t \in CoreThreads PROVE SoloInv(t)
    BY <2>2 DEF SoloInv, CompilingLabels
  <2> QED BY <2>1, <2>2 DEF LookInv
<1> QED BY <1>1, <1>2, <1>3, <1>4, <1>5 DEF Base

(* A step that changes nothing.                                            *)
LEMMA StutterKept == ASSUME Base, UNCHANGED vars PROVE Kept
<1> USE DEF vars, shared, contents, maps, locks, running, held
<1>1. Base'
  <2>1. Types' /\ HomeInv'
    BY DEF Base, Types, HomeInv
  <2>2. ASSUME NEW t \in CoreThreads PROVE CallInv(t)' /\ Known(t)'
    BY <2>2 DEF Base, CallInv, Known, Holds
  <2> QED BY <2>1, <2>2 DEF Base
<1>2. CoverInv => CoverInv'
  BY DEF CoverInv, IndexInv, LinkInv, StackInv, Mine, Indexed, Alive, Holds
<1>3. LookInv => LookInv'
  BY DEF LookInv, LandInv, FreshInv, SoloInv, Land, Empty
<1> QED BY <1>1, <1>2, <1>3 DEF Kept

(* Every step keeps what Kept says.                                        *)
LEMMA NextKept == ASSUME CodeBuffersAssumption, Base, [Next]_vars PROVE Kept
<1>1. ASSUME NEW t \in CoreThreads, NEW r \in RIPs, ExitFunction(t, r) \/ HandleDispatcherGuestSignal(t, r) PROVE Kept
  BY <1>1, ExitFunctionKept, HandleDispatcherGuestSignalKept
<1>2. ASSUME NEW t \in CoreThreads, RestoreThreadState(t) \/ ExitFunctionLinkWithRecord(t) PROVE Kept
  BY <1>2, RestoreThreadStateKept, ExitFunctionLinkWithRecordKept
<1>3. ASSUME NEW t \in CoreThreads, ExitFunctionLink(t) \/ CompileBlock(t) \/ AddBlockMapping(t) PROVE Kept
  BY <1>3, ExitFunctionLinkKept, CompileBlockKept, AddBlockMappingKept
<1>4. ASSUME NEW t \in CoreThreads, LockCodeBuffers(t) \/ CheckCodeBufferUpdate(t) \/ CheckHeadroom(t) \/ EmitBlock(t)
      PROVE Kept
  BY <1>4, LockCodeBuffersKept, CheckCodeBufferUpdateKept, CheckHeadroomKept, EmitBlockKept
<1>5. ASSUME NEW t \in CoreThreads,
             ClearCache(t) \/ StartLargerCodeBuffer(t) \/ ResetLatestOffset(t) \/ GetEmptyCodeBuffer(t)
      PROVE Kept
  BY <1>5, ClearCacheKept, StartLargerCodeBufferKept, ResetLatestOffsetKept, GetEmptyCodeBufferKept
<1>6. ASSUME NEW r \in RIPs, InvalidateCodeRange(r) PROVE Kept
  BY <1>6, InvalidateCodeRangeKept
<1> QED BY <1>1, <1>2, <1>3, <1>4, <1>5, <1>6, StutterKept DEF Next

(* With linking off or without handlers, Base and CoverInv hold together.  *)
LEMMA Covered ==
  ASSUME CodeBuffersAssumption, NoCrossLinks
  PROVE  Spec => [](Base /\ CoverInv)
<1>1. Init => Base /\ CoverInv
  BY InitKept
<1>2. Base /\ CoverInv /\ [Next]_vars => (Base /\ CoverInv)'
  BY NextKept DEF Kept
<1> QED BY <1>1, <1>2, PTL DEF Spec

(* With linking off or without handlers, no rotation by any thread frees   *)
(* code that a thread runs or will return to from its handlers, and        *)
(* FindBlockHeader finds the block of every host address on a thread's     *)
(* stack in a buffer that the thread itself holds.                         *)
THEOREM StacksCovered ==
  ASSUME CodeBuffersAssumption, NoCrossLinks
  PROVE  Spec => []StackCovered
<1>1. Base /\ CoverInv => StackCovered
  <2>1. SUFFICES ASSUME Base, CoverInv, NEW t \in CoreThreads, NEW p \in Stack(t) PROVE Mine(t, p)
    <3>1. \A u \in CoreThreads : \A q : Mine(u, q) => Alive(q[1])
      BY DEF Mine, Alive, Holds
    <3>2. \A q : Indexed(q) => \E i \in DOMAIN BlockOffsets[q[1]] : BlockOffsets[q[1]][i] = q[2]
      BY DEF Indexed, Range
    <3> QED BY <3>1, <3>2 DEF StackCovered, StackAlive, StackFound, Mine
  <2>2. StackInv(t)
    BY <2>1 DEF CoverInv
  <2>3. CASE p = here[t] /\ here[t] # Null
    BY <2>2, <2>3 DEF StackInv
  <2>4. CASE \E i \in DOMAIN frames[t] : p = frames[t][i]
    BY <2>2, <2>4 DEF StackInv
  <2> QED BY <2>1, <2>3, <2>4 DEF Stack
<1> QED BY <1>1, Covered, PTL

(* With linking off or without handlers, a patched exit of a living buffer *)
(* leads into a living buffer and is registered with a living map, and a   *)
(* delinker that is still registered writes to a living buffer: erasing a  *)
(* block unpatches every exit that leads to it.                            *)
THEOREM ExitsSeverable ==
  ASSUME CodeBuffersAssumption, NoCrossLinks
  PROVE  Spec => []LinksSeverable
<1>1. Base /\ CoverInv => LinksSeverable
  <2> SUFFICES ASSUME Base, CoverInv PROVE LinksUndoable /\ DelinkersAlive
    BY DEF LinksSeverable
  <2>0. /\ LinkInv /\ DOMAIN exits = Places /\ DOMAIN BlockLists = Buffers
        /\ \A p \in Places : p[1] \in Buffers
    BY DEF CoverInv, Base, Types, Places
  <2>1. LinksUndoable
    BY <2>0 DEF LinkInv, LinksUndoable
  <2>2. DelinkersAlive
    BY <2>0 DEF LinkInv, DelinkersAlive
  <2> QED BY <2>1, <2>2
<1> QED BY <1>1, Covered, PTL

(* With linking off or without handlers, no exit of a living buffer leads  *)
(* to an address that was invalidated: ExitFunctionLinkWithRecord asks the *)
(* map again before it patches.                                            *)
THEOREM ExitsCurrent ==
  ASSUME CodeBuffersAssumption, NoCrossLinks
  PROVE  Spec => []LinksCurrent
<1>1. Base /\ CoverInv => LinksCurrent
  <2>1. Base => DOMAIN exits = Places
    BY DEF Base, Types
  <2> QED BY <2>1 DEF CoverInv, LinkInv, LinksCurrent
<1> QED BY <1>1, Covered, PTL

(* Until a second thread compiles, whatever the others look up, run, link  *)
(* or invalidate, a lookup leads to the block of the address that was      *)
(* looked up, in the buffer of the map that was asked, and neither         *)
(* AppendBlock nor the capacity guard of CompileCode gives up.             *)
THEOREM LookupsHit ==
  ASSUME CodeBuffersAssumption
  PROVE  Spec => []LookupsSound
<1> DEFINE Inv == Base /\ (OneCompiler => LookInv)
<1>1. Init => Inv
  BY InitKept
<1>2. Inv /\ [Next]_vars => Inv'
  <2>1. [Next]_vars => compiled \subseteq compiled'
    BY DEF Next, vars, ExitFunction, HandleDispatcherGuestSignal, RestoreThreadState, ExitFunctionLink,
           CompileBlock, LockCodeBuffers, CheckCodeBufferUpdate, CheckHeadroom, EmitBlock, AddBlockMapping,
           ClearCache, StartLargerCodeBuffer, ResetLatestOffset, GetEmptyCodeBuffer,
           ExitFunctionLinkWithRecord, InvalidateCodeRange
  <2>2. [Next]_vars /\ OneCompiler' => OneCompiler
    BY <2>1 DEF OneCompiler
  <2> QED BY <2>2, NextKept DEF Kept
<1>3. Inv => LookupsSound
  <2>1. Base => DOMAIN BlockLists = Buffers
    BY DEF Base, Types
  <2> QED BY <2>1, SMT DEF Base, HomeInv, LookInv, LandInv, Land, LookupsSound, LookupsLand, NeverDies
<1> QED BY <1>1, <1>2, <1>3, PTL DEF Spec
============================================================================
