------------------------ MODULE HostGranules_proofs ------------------------
(***************************************************************************)
(* For any number of granules, pages, threads and protections, under both  *)
(* policies: a block without guards is live only while a store to its page *)
(* faults or its end is under way, and none outlives the fault that demotes*)
(* its granule.                                                            *)
(*                                                                         *)
(* Nothing of this is inductive by itself, because a granule is opened and *)
(* closed for the sake of other pages than the one with the block.  Kept   *)
(* ties a live block to the mask of its granule: as long as the mask has   *)
(* the page, RematerialiseIfNeeded leaves the granule closed (Wanted), and *)
(* what takes the page out of the mask also takes on its invalidation.     *)
(* The rest says why no other call comes between: what the lock excludes   *)
(* (OneLock, Apart), and that the tail of a mapping that takes a whole     *)
(* granule holds nothing (TailFree), for which a granule that the kernel does  *)
(* not have must be free in VMATracking too (Mapped).                      *)
(***************************************************************************)
EXTENDS HostGranules, TLAPS

(* Zenon is tried where a leaf does not name a prover.                     *)
USE Zenon

(* What a thread in a call, in the compiler and in the handler carries.    *)
CallJobs == [at : Calls, op : {"mmap", "munmap", "mprotect"}, base : Pages, len : Nat \ {0}, prot : Protection,
             shared : BOOLEAN, g : AllGranules, want : Protection \cup {None}]
CodeJobs == [at : {"compiling", "marking", "marked"}, page : Pages, guard : BOOLEAN]
HandlerJobs == {"idle", "fault", "noted"}

CodePlaces == {"compiling", "marking", "marked"}
LockedPlaces == {"emulate", "fill", "protect", "wedged"}
WholePlaces == {"pass", "retire", "sharedmap", "sharedtrack"}

(* The type of the state.                                                  *)
Types ==
  /\ vma \in [Pages -> Mapping \cup {None}]
  /\ Granules \in [AllGranules -> Entry \cup {None}]
  /\ intended \in [Pages -> Protection \cup {None}]
  /\ mapped \in [AllGranules -> Mapping \cup {None}]
  /\ tracked \in [AllGranules -> (SUBSET Pages) \cup {None}]
  /\ demoted \subseteq AllGranules /\ \A g \in demoted : Known(g)
  /\ blocks \in [Pages -> {"none", "bare", "guarded"}]
  /\ halfway \in BOOLEAN

(* The type of a thread's job.                                             *)
JobType(t) ==
  /\ job[t].at \in Calls \cup CodePlaces \cup HandlerJobs
  /\ Calling(t) => job[t] \in CallJobs /\ Span(job[t]) \subseteq Pages /\ job[t].g \in Covers(job[t])
  /\ job[t].at \in CodePlaces => job[t] \in CodeJobs
  /\ job[t].at \in {"fault", "noted"} => job[t].page \in Pages
  /\ job[t].at = "noted" =>
       /\ job[t].dead \subseteq PagesOf(GranuleOf(job[t].page))
       /\ SiblingPolicy # "Rearm" => job[t].dead = PagesOf(GranuleOf(job[t].page))
  /\ Calling(t) /\ job[t].at # "invalidate" /\ job[t].op = "mprotect" => \A p \in Span(job[t]) : vma[p] # None
  /\ job[t].at = "fill" => job[t].op = "mmap"
Jobs == DOMAIN job = Threads /\ \A t \in Threads : JobType(t)

(* One writer of VMATracking::Mutex at a time, and no marking meanwhile.   *)
OneLock ==
  \A t, u \in Threads : job[t].at \in LockedPlaces =>
    /\ job[u].at \in LockedPlaces => t = u
    /\ job[u].at # "marking"

(* Calls have different pages, and one that goes through to the kernel has *)
(* its granules to itself.                                                 *)
Apart ==
  \A t, u \in Threads : t # u /\ Calling(t) /\ Calling(u) =>
    /\ Span(job[t]) \cap Span(job[u]) = {}
    /\ job[t].at \in WholePlaces /\ job[u].at # "invalidate" => Covers(job[t]) \cap Covers(job[u]) = {}

(* Nobody remaps a page that is being compiled from.                       *)
CodeHere ==
  \A u \in Threads : job[u].at \in CodePlaces =>
    /\ vma[job[u].page] # None /\ "r" \in vma[job[u].page].prot
    /\ \A t \in Threads : Calling(t) => job[u].page \notin Span(job[t])

(* From the kernel's write protection to the mask nobody opens the granule.*)
Marking ==
  \A u \in Threads : job[u].at = "marking" => Writable(job[u].page) /\ ~Open(GranuleOf(job[u].page))

(* What a call maps beyond its range holds nothing that can be written.    *)
TailFree ==
  \A t \in Threads : job[t].at \in WholePlaces =>
    \A p \in Pages \ Span(job[t]) : GranuleOf(p) \in Covers(job[t]) => ~Writable(p)

(* The kernel has every granule of a tracked page, but for a munmap that   *)
(* has yet to be tracked.                                                  *)
Mapped ==
  \A p \in Pages : vma[p] # None =>
    \/ mapped[GranuleOf(p)] # None
    \/ \E t \in Threads : job[t].at \in {"emulate", "protect"} /\ job[t].op = "munmap" /\ p \in Span(job[t])

(* The granules that an mmap has been through are mapped, and the granule  *)
(* that is about to be protected has its entry.                            *)
Passed(c, has, entries) ==
  /\ c.at \in LockedPlaces /\ c.op = "mmap" => \A h \in Covers(c) :
       h < c.g \/ (h = c.g /\ c.at \in {"fill", "protect"}) => has[h] # None
  /\ c.at = "sharedtrack" => \A h \in Covers(c) : has[h] # None
  /\ c.at = "protect" => entries[c.g] # None
Through == \A t \in Threads : Passed(job[t], mapped, Granules)

(* A granule of the emulator's own memory is mapped; a munmap that goes    *)
(* through to the kernel is of whole granules, and finds none of those.    *)
Backed ==
  /\ \A g \in AllGranules : Granules[g] # None => (Granules[g].FEXBacked => mapped[g] # None)
  /\ \A t \in Threads : job[t].at = "pass" /\ job[t].op = "munmap" =>
       \A h \in Covers(job[t]) : Granules[h] = None /\ PagesOf(h) \subseteq Span(job[t])

(* What RematerialiseIfNeeded is about to give the granule has no write    *)
(* permission while the granule is armed.                                  *)
Wanted ==
  \A t \in Threads : job[t].at = "protect" =>
    (job[t].want = None \/ "w" \in job[t].want => ~Armed(job[t].g))

(* An unguarded block, or one that is about to be published or that is     *)
(* still being compiled.                                                   *)
Coming(p) == \E u \in Threads : job[u].at \in CodePlaces /\ job[u].page = p /\ ~job[u].guard
Live(p) == blocks[p] = "bare" \/ \E u \in Threads : job[u].at = "marked" /\ job[u].page = p /\ ~job[u].guard

(* The fault that demotes a granule ends every unguarded block on it.      *)
Demoted == \A p \in Pages : GranuleOf(p) \in demoted /\ (blocks[p] = "bare" \/ Coming(p)) => Doomed(p)

(* A call has got to the page, and can no longer fail before its granule.  *)
Reaches(c, p) ==
  /\ c.at \in Calls /\ p \in Span(c)
  /\ c.at \in LockedPlaces => GranuleOf(p) < c.g \/ (c.at = "protect" /\ GranuleOf(p) = c.g)
Remapping(p) == \E t \in Threads : Reaches(job[t], p)

(* The page is in the mask, and its granule closed but for a call that     *)
(* will close it again.                                                    *)
Masked(p) ==
  Known(GranuleOf(p)) /\ p \in tracked[GranuleOf(p)] /\ (Open(GranuleOf(p)) => Converted(GranuleOf(p)))

(* A live block on a page that can be written is in the mask of a granule  *)
(* that is closed, or about to go.                                         *)
Kept ==
  SiblingPolicy = "Invalidate" /\ ~halfway =>
    \A p \in Pages : Live(p) /\ Writable(p) =>
      Doomed(p) \/ Remapping(p) \/ Masked(p)

(* The inductive invariant.                                                *)
Still == Types /\ Jobs /\ OneLock /\ Apart /\ CodeHere /\ Marking /\ TailFree /\ Mapped /\ Through /\ Backed /\ Wanted
IInv == Still /\ Demoted /\ Kept

----------------------------------------------------------------------------
(* Every page is in one granule.                                           *)
LEMMA PageFacts ==
  ASSUME NEW p \in Pages
  PROVE  GranuleOf(p) \in AllGranules /\ p \in PagesOf(GranuleOf(p)) /\ \A g : p \in PagesOf(g) => g = GranuleOf(p)
  BY DEF AllGranules, PagesOf

(* Granules are numbered, in the order of their pages.                     *)
LEMMA GranuleOrder ==
  ASSUME GranuleAssumption
  PROVE  /\ Pages \subseteq Nat /\ AllGranules \subseteq Int
         /\ \A p, q \in Pages : p <= q => GranuleOf(p) <= GranuleOf(q)
<1>1. Pages \subseteq Nat
  BY SMT DEF Pages, GranuleAssumption
<1>2. \A p \in Nat : p \div PagesPerGranule \in Int
  BY SMT DEF GranuleAssumption
<1>3. \A p, q \in Nat : p <= q => p \div PagesPerGranule <= q \div PagesPerGranule
  BY SMT DEF GranuleAssumption
<1> QED BY <1>1, <1>2, <1>3 DEF AllGranules, GranuleOf

(* The place of a call changes and its range does not.                     *)
LEMMA ProceedFacts ==
  ASSUME NEW c \in CallJobs, NEW a \in Calls
  PROVE  LET c2 == [c EXCEPT !.at = a]
         IN /\ c2 \in CallJobs /\ c2.at = a /\ c2.op = c.op /\ c2.base = c.base /\ c2.len = c.len
            /\ c2.prot = c.prot /\ c2.shared = c.shared /\ c2.g = c.g /\ c2.want = c.want
  BY SMT DEF CallJobs

(* The place, the granule and the protection to come change.               *)
LEMMA GranuleFacts ==
  ASSUME NEW c \in CallJobs, NEW a \in Calls, NEW g \in AllGranules, NEW w \in Protection \cup {None}
  PROVE  LET c2 == On(c, a, g, w)
         IN /\ c2 \in CallJobs /\ c2.at = a /\ c2.op = c.op /\ c2.base = c.base /\ c2.len = c.len
            /\ c2.g = g /\ c2.want = w
<1> DEFINE c1 == [c EXCEPT !.at = a]
<1> DEFINE cg == [c1 EXCEPT !.g = g]
<1>1. c1 \in CallJobs /\ c1.at = a /\ c1.op = c.op /\ c1.base = c.base /\ c1.len = c.len
  BY ProceedFacts
<1>2. On(c, a, g, w) = [cg EXCEPT !.want = w]
  BY SMT DEF CallJobs, On
<1> HIDE DEF c1
<1>3. cg \in CallJobs /\ cg.at = c1.at /\ cg.op = c1.op /\ cg.base = c1.base /\ cg.len = c1.len /\ cg.g = g
  BY <1>1, SMT DEF CallJobs
<1> HIDE DEF cg
<1>4. LET c2 == [cg EXCEPT !.want = w]
      IN /\ c2 \in CallJobs /\ c2.at = cg.at /\ c2.op = cg.op /\ c2.base = cg.base /\ c2.len = cg.len
         /\ c2.g = cg.g /\ c2.want = w
  BY <1>3, SMT DEF CallJobs
<1> QED BY <1>1, <1>2, <1>3, <1>4

(* The range of a call and its granules.                                   *)
LEMMA SpanFacts ==
  ASSUME NEW c, NEW d, d.base = c.base, d.len = c.len
  PROVE  Span(d) = Span(c) /\ Covers(d) = Covers(c)
  BY DEF Span, Covers

----------------------------------------------------------------------------
(* A call goes on with c2.  What it changes lies in its own granules.      *)
Move(t, c2) ==
  /\ Calling(t) /\ job[t].at # "invalidate"
  /\ job' = [job EXCEPT ![t] = c2]
  /\ c2 \in CallJobs /\ c2.op = job[t].op /\ c2.base = job[t].base /\ c2.len = job[t].len
  /\ c2.g \in Covers(c2)
  /\ c2.at # "pass" /\ (c2.at = "fill" => c2.op = "mmap")
  /\ c2.at \in WholePlaces => job[t].at \in WholePlaces
  /\ c2.at \in LockedPlaces => job[t].at \in LockedPlaces
Frame(t) ==
  /\ \A p \in Pages \ Span(job[t]) : vma'[p] = vma[p]
  /\ \A g \in AllGranules \ Covers(job[t]) : mapped'[g] = mapped[g] /\ Granules'[g] = Granules[g]
  /\ demoted' \subseteq demoted /\ blocks' = blocks /\ SiblingPolicy' = SiblingPolicy /\ (halfway => halfway')

(* The threads after such a step.                                          *)
LEMMA MoveJob ==
  ASSUME Jobs, NEW t \in Threads, NEW c2, Move(t, c2)
  PROVE  /\ DOMAIN job' = Threads /\ job'[t] = c2 /\ \A u \in Threads \ {t} : job'[u] = job[u]
         /\ Span(c2) = Span(job[t]) /\ Covers(c2) = Covers(job[t])
         /\ Span(job[t]) \subseteq Pages /\ job[t] \in CallJobs
         /\ c2.at \in Calls
  <1>1. DOMAIN job' = Threads /\ job'[t] = c2 /\ \A u \in Threads \ {t} : job'[u] = job[u]
    BY DEF Jobs, Move
  <1>2. c2.base = job[t].base /\ c2.len = job[t].len /\ c2.at \in Calls
    BY SMT DEF Move, CallJobs
  <1> QED BY <1>1, <1>2, SpanFacts DEF Jobs, JobType, Move

(* A call that goes on keeps what the lock and the guest's synchronisation *)
(* exclude.                                                                *)
LEMMA MoveJobs ==
  ASSUME Still, NEW t \in Threads, NEW c2, Move(t, c2), Frame(t),
         c2.at # "invalidate" /\ c2.op = "mprotect" => \A p \in Span(job[t]) : vma'[p] # None
  PROVE  Jobs' /\ OneLock' /\ Apart' /\ CodeHere' /\ TailFree' /\ Marking'
<1> USE DEF Still
<1>1. /\ DOMAIN job' = Threads /\ job'[t] = c2 /\ \A u \in Threads \ {t} : job'[u] = job[u]
      /\ Span(c2) = Span(job[t]) /\ Covers(c2) = Covers(job[t])
      /\ Span(job[t]) \subseteq Pages /\ job[t] \in CallJobs /\ c2.at \in Calls
  BY MoveJob
<1>2. c2.at \notin CodePlaces \cup HandlerJobs
  BY <1>1 DEF Calls, CodePlaces, HandlerJobs
<1>3. Apart'
  <2> SUFFICES ASSUME NEW v \in Threads, NEW w \in Threads, v # w, Calling(v)', Calling(w)'
               PROVE  /\ Span(job'[v]) \cap Span(job'[w]) = {}
                      /\ job'[v].at \in WholePlaces /\ job'[w].at # "invalidate"
                           => Covers(job'[v]) \cap Covers(job'[w]) = {}
    BY DEF Apart
  <2>1. Calling(v) /\ Calling(w)
    BY <1>1 DEF Calling, Move
  <2>2. Span(job'[v]) = Span(job[v]) /\ Span(job'[w]) = Span(job[w])
        /\ Covers(job'[v]) = Covers(job[v]) /\ Covers(job'[w]) = Covers(job[w])
    BY <1>1
  <2>3. job'[v].at \in WholePlaces => job[v].at \in WholePlaces
    BY <1>1 DEF Move
  <2>4. job'[w].at # "invalidate" => job[w].at # "invalidate"
    BY <1>1 DEF Move
  <2> QED BY <2>1, <2>2, <2>3, <2>4 DEF Apart
<1>4. OneLock'
  <2> SUFFICES ASSUME NEW v \in Threads, NEW w \in Threads, job'[v].at \in LockedPlaces
               PROVE  (job'[w].at \in LockedPlaces => v = w) /\ job'[w].at # "marking"
    BY DEF OneLock
  <2>1. job[v].at \in LockedPlaces
    BY <1>1 DEF Move
  <2>2. job'[w].at \in LockedPlaces => job[w].at \in LockedPlaces
    BY <1>1 DEF Move
  <2>3. job'[w].at = "marking" => job[w].at = "marking"
    BY <1>1, <1>2 DEF CodePlaces
  <2> QED BY <2>1, <2>2, <2>3 DEF OneLock
<1>5. \A u \in Threads : job'[u].at \in CodePlaces => u # t /\ job'[u] = job[u]
  BY <1>1, <1>2
<1>6. \A u \in Threads : job[u].at \in CodePlaces => job[u].page \in Pages \ Span(job[t])
  BY SMT DEF Jobs, JobType, CodeJobs, CodeHere, Move
<1>7. CodeHere'
  <2> SUFFICES ASSUME NEW u \in Threads, job'[u].at \in CodePlaces
               PROVE  /\ vma'[job'[u].page] # None /\ "r" \in vma'[job'[u].page].prot
                      /\ \A v \in Threads : Calling(v)' => job'[u].page \notin Span(job'[v])
    BY DEF CodeHere
  <2>1. u # t /\ job'[u] = job[u] /\ job[u].at \in CodePlaces
    BY <1>5
  <2>2. vma'[job[u].page] = vma[job[u].page]
    BY <1>6, <2>1 DEF Frame
  <2>3. \A v \in Threads : Calling(v)' => Calling(v) /\ Span(job'[v]) = Span(job[v])
    BY <1>1 DEF Calling, Move
  <2> QED BY <2>1, <2>2, <2>3 DEF CodeHere
<1>8. TailFree'
  <2> SUFFICES ASSUME NEW v \in Threads, job'[v].at \in WholePlaces,
                      NEW p \in Pages \ Span(job'[v]), GranuleOf(p) \in Covers(job'[v])
               PROVE  ~Writable(p)'
    BY DEF TailFree
  <2>1. job[v].at \in WholePlaces /\ p \notin Span(job[v]) /\ GranuleOf(p) \in Covers(job[v])
    BY <1>1 DEF Move
  <2>2. v # t => p \notin Span(job[t])
    <3> SUFFICES ASSUME v # t, p \in Span(job[t]) PROVE FALSE
      OBVIOUS
    <3>1. GranuleOf(p) \in Covers(job[t])
      BY DEF Covers
    <3>2. Calling(v) /\ Calling(t) /\ job[t].at # "invalidate"
      BY <2>1 DEF Calling, WholePlaces, Calls, Move
    <3> QED BY <2>1, <3>1, <3>2 DEF Apart
  <2>3. vma'[p] = vma[p]
    BY <2>1, <2>2 DEF Frame
  <2> QED BY <2>1, <2>3 DEF TailFree, Writable
<1>9. Marking'
  <2> SUFFICES ASSUME NEW u \in Threads, job[u].at = "marking", u # t
               PROVE  Writable(job[u].page)' /\ ~Open(GranuleOf(job[u].page))'
    BY <1>1, <1>2 DEF Marking, CodePlaces
  <2>1. job[u].page \in Pages /\ job[u].page \notin Span(job[t]) /\ GranuleOf(job[u].page) \in AllGranules
    BY <1>6, PageFacts DEF CodePlaces
  <2>2. Writable(job[u].page) /\ ~Open(GranuleOf(job[u].page))
    BY DEF Marking
  <2>3. job[t].at \notin LockedPlaces
    BY DEF OneLock
  <2>4. job[t].at \in WholePlaces
    BY <2>3 DEF Move, Calling, Calls, LockedPlaces, WholePlaces
  <2>5. GranuleOf(job[u].page) \notin Covers(job[t])
    BY <2>1, <2>2, <2>4 DEF TailFree
  <2>6. vma'[job[u].page] = vma[job[u].page]
    BY <2>1 DEF Frame
  <2>7. mapped'[GranuleOf(job[u].page)] = mapped[GranuleOf(job[u].page)]
    BY <2>1, <2>5 DEF Frame
  <2>8. job'[u] = job[u]
    BY <1>1
  <2> QED BY <2>2, <2>6, <2>7, <2>8 DEF Writable, Open
<1>10. Jobs'
  <2>1. \A u \in Threads \ {t} : JobType(u)'
    <3> SUFFICES ASSUME NEW u \in Threads \ {t} PROVE JobType(u)'
      OBVIOUS
    <3>1. JobType(u) /\ job'[u] = job[u] /\ SiblingPolicy' = SiblingPolicy
      BY <1>1 DEF Jobs, Frame
    <3>2. Calling(u) => \A p \in Span(job[u]) : p \in Pages /\ p \notin Span(job[t])
      BY <3>1 DEF Apart, Move, JobType
    <3>3. Calling(u) => \A p \in Span(job[u]) : vma'[p] = vma[p]
      BY <3>2 DEF Frame
    <3> QED BY <3>1, <3>3 DEF JobType, Calling
  <2>2. JobType(t)'
    BY <1>1, <1>2 DEF JobType, Move, Calling, CodePlaces, HandlerJobs
  <2> QED BY <1>1, <2>1, <2>2 DEF Jobs
<1> QED BY <1>3, <1>4, <1>7, <1>8, <1>9, <1>10

(* A call that goes on keeps what is mapped, if it unmaps under the lock   *)
(* only what it then drops from VMATracking.                               *)
LEMMA MoveMaps ==
  ASSUME Still, NEW t \in Threads, NEW c2, Move(t, c2), Frame(t),
         \A g \in Covers(job[t]) : mapped[g] # None /\ mapped'[g] = None =>
           /\ job[t].at \in LockedPlaces \/ Lockable
           /\ \A p \in PagesOf(g) \ Span(job[t]) : vma[p] = None,
         \A p \in Span(job[t]) : vma'[p] # None =>
           mapped'[GranuleOf(p)] # None \/ (c2.at \in {"emulate", "protect"} /\ c2.op = "munmap"),
         c2.at \in LockedPlaces /\ c2.op = "mmap" => \A h \in Covers(job[t]) :
           h < c2.g \/ (h = c2.g /\ c2.at \in {"fill", "protect"}) => mapped'[h] # None,
         c2.at = "sharedtrack" => \A h \in Covers(job[t]) : mapped'[h] # None,
         c2.at = "protect" => Granules'[c2.g] # None,
         \A g \in Covers(job[t]) : Granules'[g] # None => (Granules'[g].FEXBacked => mapped'[g] # None)
  PROVE  Mapped' /\ Through' /\ Backed'
<1> USE DEF Still
<1>1. /\ DOMAIN job' = Threads /\ job'[t] = c2 /\ \A u \in Threads \ {t} : job'[u] = job[u]
      /\ Span(c2) = Span(job[t]) /\ Covers(c2) = Covers(job[t])
      /\ Span(job[t]) \subseteq Pages /\ job[t] \in CallJobs /\ c2.at \in Calls
  BY MoveJob
<1>2. \A p \in Pages : p \in Span(job[t]) => GranuleOf(p) \in Covers(job[t])
  BY DEF Covers
<1>3. \A u \in Threads \ {t} : job[u].at \in WholePlaces => Covers(job[t]) \cap Covers(job[u]) = {}
  BY DEF Apart, Move, Calling, WholePlaces, Calls
<1>4. \A u \in Threads \ {t} : Calling(u) => \A h \in Covers(job[u]) : h \in AllGranules
  <2> SUFFICES ASSUME NEW u \in Threads, Calling(u), NEW h \in Covers(job[u]) PROVE h \in AllGranules
    OBVIOUS
  <2>1. PICK p \in Span(job[u]) : h = GranuleOf(p)
    BY DEF Covers
  <2>2. p \in Pages
    BY DEF Jobs, JobType
  <2> QED BY <2>1, <2>2, PageFacts
<1>5. Mapped'
  <2> SUFFICES ASSUME NEW p \in Pages, vma'[p] # None
               PROVE  \/ mapped'[GranuleOf(p)] # None
                      \/ \E u \in Threads : /\ job'[u].at \in {"emulate", "protect"}
                                           /\ job'[u].op = "munmap" /\ p \in Span(job'[u])
    BY DEF Mapped
  <2>1. CASE p \in Span(job[t])
    BY <1>1, <2>1
  <2>2. CASE p \notin Span(job[t])
    <3>1. vma[p] # None
      BY <2>2 DEF Frame
    <3>2. CASE mapped[GranuleOf(p)] # None
      <4>1. CASE GranuleOf(p) \in Covers(job[t])
        BY <2>2, <3>1, <3>2, <4>1, PageFacts
      <4>2. CASE GranuleOf(p) \notin Covers(job[t])
        BY <3>2, <4>2, PageFacts DEF Frame
      <4> QED BY <4>1, <4>2
    <3>3. CASE mapped[GranuleOf(p)] = None
      <4>1. PICK u \in Threads : /\ job[u].at \in {"emulate", "protect"}
                                 /\ job[u].op = "munmap" /\ p \in Span(job[u])
        BY <3>1, <3>3 DEF Mapped
      <4>2. u # t
        BY <2>2, <4>1
      <4> QED BY <1>1, <4>1, <4>2
    <3> QED BY <3>2, <3>3
  <2> QED BY <2>1, <2>2
<1>6. Through'
  <2>t. Passed(c2, mapped', Granules')
    BY <1>1 DEF Passed
  <2> SUFFICES ASSUME NEW u \in Threads \ {t} PROVE Passed(job[u], mapped', Granules')
    BY <1>1, <2>t DEF Through
  <2>1. CASE job[u].at \in LockedPlaces
    <3>1. job[t].at \notin LockedPlaces /\ ~Lockable /\ job[u].at # "sharedtrack"
      BY <2>1 DEF OneLock, Lockable, Locked, LockedPlaces
    <3>2. Calling(u)
      BY <2>1 DEF Calling, LockedPlaces, Calls
    <3>3. \A h \in Covers(job[u]) : mapped[h] # None => mapped'[h] # None
      BY <1>4, <3>1, <3>2 DEF Frame
    <3>4. job[u].at = "protect" => Granules'[job[u].g] # None
      <4>1. job[t].at \in WholePlaces
        BY <3>1 DEF Move, Calling, Calls, LockedPlaces, WholePlaces
      <4>2. job[u].g \in Covers(job[u]) /\ job[u].at # "invalidate"
        BY <2>1, <3>2 DEF Jobs, JobType, LockedPlaces
      <4>3. job[u].g \in AllGranules \ Covers(job[t])
        BY <1>4, <3>2, <4>1, <4>2 DEF Apart, Move
      <4> QED BY <4>3 DEF Frame, Through, Passed
    <3> QED BY <3>1, <3>3, <3>4 DEF Through, Passed
  <2>2. CASE job[u].at = "sharedtrack"
    <3>1. job[u].at \in WholePlaces /\ job[u].at \notin LockedPlaces /\ Calling(u)
      BY <2>2 DEF WholePlaces, LockedPlaces, Calling, Calls
    <3>2. \A h \in Covers(job[u]) : h \in AllGranules \ Covers(job[t])
      BY <1>3, <1>4, <3>1
    <3>3. \A h \in Covers(job[u]) : mapped'[h] = mapped[h]
      BY <3>2 DEF Frame
    <3> QED BY <2>2, <3>1, <3>3 DEF Through, Passed, LockedPlaces
  <2>3. CASE job[u].at \notin LockedPlaces /\ job[u].at # "sharedtrack"
    BY <2>3 DEF Passed, LockedPlaces
  <2> QED BY <2>1, <2>2, <2>3
<1>7. Backed'
  <2>1. \A g \in AllGranules : Granules'[g] # None => (Granules'[g].FEXBacked => mapped'[g] # None)
    <3> SUFFICES ASSUME NEW g \in AllGranules, g \notin Covers(job[t])
                 PROVE  Granules'[g] # None => (Granules'[g].FEXBacked => mapped'[g] # None)
      OBVIOUS
    <3> QED BY DEF Frame, Backed
  <2>2. ASSUME NEW u \in Threads, job'[u].at = "pass", job'[u].op = "munmap", NEW h \in Covers(job'[u])
        PROVE  Granules'[h] = None /\ PagesOf(h) \subseteq Span(job'[u])
    <3>1. u # t /\ job'[u] = job[u]
      BY <1>1, <2>2 DEF Move
    <3>2. job[u].at \in WholePlaces /\ Calling(u)
      BY <2>2, <3>1 DEF WholePlaces, Calling, Calls
    <3>3. h \in AllGranules /\ h \notin Covers(job[t])
      BY <1>3, <1>4, <2>2, <3>1, <3>2
    <3>4. Granules'[h] = Granules[h]
      BY <3>3 DEF Frame
    <3> QED BY <2>2, <3>1, <3>4 DEF Backed
  <2> QED BY <2>1, <2>2 DEF Backed
<1> QED BY <1>5, <1>6, <1>7

(* A call that goes on keeps the blocks behind a closed granule, if it     *)
(* opens only what it has reached, or will close again.                    *)
LEMMA MoveKept ==
  ASSUME Still, Demoted, Kept, NEW t \in Threads, NEW c2, Move(t, c2), Frame(t),
         \A g \in AllGranules : Armed(g)' => Armed(g),
         c2.at = "protect" => (c2.want = None \/ "w" \in c2.want => ~Armed(c2.g)'),
         \A p \in Span(job[t]) : vma'[p] = vma[p] \/ Reaches(c2, p),
         \A p \in Pages : Reaches(job[t], p) => Reaches(c2, p),
         \A p \in Pages : Masked(p) /\ Writable(p) => Masked(p)' \/ Reaches(c2, p)
  PROVE  Wanted' /\ Demoted' /\ Kept'
<1> USE DEF Still
<1>1. /\ DOMAIN job' = Threads /\ job'[t] = c2 /\ \A u \in Threads \ {t} : job'[u] = job[u]
      /\ Span(c2) = Span(job[t]) /\ Covers(c2) = Covers(job[t])
      /\ Span(job[t]) \subseteq Pages /\ job[t] \in CallJobs /\ c2.at \in Calls
  BY MoveJob
<1>2. c2.at \notin CodePlaces \cup HandlerJobs /\ job[t].at \notin CodePlaces \cup HandlerJobs
  BY <1>1 DEF Calls, CodePlaces, HandlerJobs, Move, Calling
<1>3. \A u \in Threads : job'[u].at \in CodePlaces \cup HandlerJobs => u # t /\ job'[u] = job[u]
  BY <1>1, <1>2
<1>4. \A u \in Threads : job[u].at \in CodePlaces \cup HandlerJobs => job'[u] = job[u]
  BY <1>1, <1>2
<1>5. \A p \in Pages : Doomed(p) => Doomed(p)'
  BY <1>1, <1>4 DEF Doomed, HandlerJobs, Jobs
<1>6. \A p \in Pages : (Live(p)' => Live(p)) /\ (Coming(p)' => Coming(p))
  BY <1>3 DEF Live, Coming, CodePlaces, Frame
<1>7. Wanted'
  <2> SUFFICES ASSUME NEW u \in Threads \ {t}, job[u].at = "protect", job[u].want = None \/ "w" \in job[u].want
               PROVE  ~Armed(job[u].g)'
    BY <1>1 DEF Wanted
  <2>1. job[u].g \in AllGranules
    BY SMT DEF Jobs, JobType, Calling, Calls, CallJobs
  <2>2. job'[u] = job[u] /\ ~Armed(job[u].g)
    BY <1>1 DEF Wanted
  <2>3. Armed(job[u].g)' => Armed(job[u].g)
    BY <2>1, <2>2
  <2> QED BY <2>2, <2>3
<1>8. Demoted'
  BY <1>5, <1>6 DEF Demoted, Frame
<1>9. Kept'
  <2> SUFFICES ASSUME SiblingPolicy = "Invalidate", ~halfway, NEW p \in Pages, Live(p), Writable(p)'
               PROVE  Doomed(p)' \/ Remapping(p)' \/ Masked(p)'
    BY <1>6 DEF Kept, Frame
  <2>1. Reaches(c2, p) => Remapping(p)'
    BY <1>1 DEF Remapping, Reaches
  <2>2. CASE ~Reaches(c2, p)
    <3>1. vma'[p] = vma[p]
      BY <2>2 DEF Frame
    <3>2. Writable(p)
      BY <3>1 DEF Writable
    <3>3. Doomed(p) \/ Remapping(p) \/ Masked(p)
      BY <3>2 DEF Kept
    <3>4. Remapping(p) => Remapping(p)'
      BY <1>1, <2>2 DEF Remapping, Reaches
    <3> QED BY <1>5, <2>2, <3>2, <3>3, <3>4
  <2> QED BY <2>1, <2>2
<1> QED BY <1>7, <1>8, <1>9

----------------------------------------------------------------------------
(* The granule table.                                                      *)
Tables == [entry : [AllGranules -> Entry \cup {None}], intended : [Pages -> Protection \cup {None}]]

(* tab2 has an entry for g, of FEX's own memory only if tab has it so, and *)
(* the other entries of tab.                                               *)
Kin(tab, tab2, g) ==
  /\ tab2 \in Tables /\ tab2.entry[g] # None
  /\ tab2.entry[g].FEXBacked => tab.entry[g] # None /\ tab.entry[g].FEXBacked
  /\ \A h \in AllGranules \ {g} : tab2.entry[h] = tab.entry[h]

(* FindOrCreate makes an entry that is not FEX's own memory.               *)
LEMMA FindOrCreateFacts ==
  ASSUME GranuleAssumption, NEW tab \in Tables, NEW g \in AllGranules
  PROVE  Kin(tab, FindOrCreate(tab, g), g) /\ FindOrCreate(tab, g).intended = tab.intended
<1>1. NewEntry \in Entry /\ NewEntry # None /\ ~NewEntry.FEXBacked
  <2>1. NewEntry \in Entry /\ NewEntry.FEXBacked = FALSE
    BY SMT DEF NewEntry, Entry, Protection
  <2> QED BY <2>1 DEF GranuleAssumption
<1>2. CASE tab.entry[g] # None
  BY <1>2 DEF FindOrCreate, Kin
<1>3. CASE tab.entry[g] = None
  <2>1. FindOrCreate(tab, g) = [tab EXCEPT !.entry[g] = NewEntry]
    BY <1>3 DEF FindOrCreate
  <2>2. [tab EXCEPT !.entry[g] = NewEntry] \in Tables
    BY <1>1, SMT DEF Tables
  <2>3. /\ [tab EXCEPT !.entry[g] = NewEntry].entry[g] = NewEntry
        /\ [tab EXCEPT !.entry[g] = NewEntry].intended = tab.intended
        /\ \A h \in AllGranules \ {g} : [tab EXCEPT !.entry[g] = NewEntry].entry[h] = tab.entry[h]
    BY SMT DEF Tables
  <2> QED BY <1>1, <2>1, <2>2, <2>3 DEF Kin
<1> QED BY <1>2, <1>3

(* SetIntended changes protections and at most creates the entry.          *)
LEMMA SetIntendedFacts ==
  ASSUME GranuleAssumption, NEW tab \in Tables, NEW g \in AllGranules, NEW pages, NEW prot \in Protection
  PROVE  Kin(tab, SetIntended(tab, g, pages, prot), g)
<1>1. Kin(tab, FindOrCreate(tab, g), g)
  BY FindOrCreateFacts
<1> DEFINE f == FindOrCreate(tab, g)
<1> DEFINE i == [p \in Pages |-> IF p \in pages THEN prot ELSE f.intended[p]]
<1>2. f \in Tables
  BY <1>1 DEF Kin
<1>3. SetIntended(tab, g, pages, prot) = [f EXCEPT !.intended = i]
  BY DEF SetIntended
<1>4. i \in [Pages -> Protection \cup {None}]
  BY <1>2, SMT DEF Tables
<1> HIDE DEF f, i
<1>5. [f EXCEPT !.intended = i] \in Tables /\ [f EXCEPT !.intended = i].entry = f.entry
  BY <1>2, <1>4, SMT DEF Tables
<1>6. Kin(tab, f, g)
  BY <1>1 DEF f
<1> QED BY <1>3, <1>5, <1>6 DEF Kin

(* NoteHostProt of an entry that is there.                                 *)
LEMMA NoteHostProtFacts ==
  ASSUME GranuleAssumption, NEW tab, NEW f, NEW g \in AllGranules, Kin(tab, f, g), NEW prot \in Protection
  PROVE  Kin(tab, NoteHostProt(f, g, prot), g)
<1>1. f \in Tables /\ f.entry[g] \in Entry
  BY SMT DEF Kin, Tables
<1>2. [f.entry[g] EXCEPT !.HostProt = prot] \in Entry
      /\ [f.entry[g] EXCEPT !.HostProt = prot].FEXBacked = f.entry[g].FEXBacked
  BY <1>1, SMT DEF Entry
<1> DEFINE e == [f.entry[g] EXCEPT !.HostProt = prot]
<1>3. NoteHostProt(f, g, prot) = [f EXCEPT !.entry[g] = e]
  BY <1>1, SMT DEF NoteHostProt, Tables
<1>4. e \in Entry /\ e.FEXBacked = f.entry[g].FEXBacked
  BY <1>2
<1> HIDE DEF e
<1>5. [f EXCEPT !.entry[g] = e] \in Tables
  BY <1>1, <1>4, SMT DEF Tables
<1>6. [f EXCEPT !.entry[g] = e].entry[g] = e
      /\ \A h \in AllGranules \ {g} : [f EXCEPT !.entry[g] = e].entry[h] = f.entry[h]
  BY <1>1, SMT DEF Tables
<1>7. e # None
  BY <1>4 DEF GranuleAssumption
<1> QED BY <1>3, <1>4, <1>5, <1>6, <1>7 DEF Kin

(* SeedGranuleFromVMAs takes protections over from VMATracking.            *)
LEMMA SeedFacts ==
  ASSUME GranuleAssumption, Types, NEW tab \in Tables, NEW g \in AllGranules
  PROVE  /\ Kin(tab, SeedGranuleFromVMAs(tab, g), g)
         /\ \A p \in PagesOf(g) : vma[p] # None => SeedGranuleFromVMAs(tab, g).intended[p] # None
<1> DEFINE f == FindOrCreate(tab, g)
<1> DEFINE new == {p \in PagesOf(g) : tab.intended[p] = None /\ vma[p] # None}
<1> DEFINE i == [p \in Pages |-> IF p \in new THEN vma[p].prot ELSE f.intended[p]]
<1> DEFINE hp == f.entry[g].HostProt \cup UNION {vma[p].prot : p \in new}
<1>1. Kin(tab, f, g) /\ f \in Tables /\ f.entry[g] # None
  BY FindOrCreateFacts DEF Kin
<1>2. f.entry[g] \in Entry
  BY <1>1, SMT DEF Tables
<1>3. \A p \in new : p \in Pages /\ vma[p] \in Mapping /\ vma[p].prot \in Protection
  BY SMT DEF Types, PagesOf, Mapping
<1>4. i \in [Pages -> Protection \cup {None}]
  BY <1>1, <1>3, SMT DEF Tables
<1>5. hp \in Protection
  BY <1>2, <1>3, SMT DEF Entry, Protection
<1>6. SeedGranuleFromVMAs(tab, g) = [f EXCEPT !.intended = i, !.entry[g].HostProt = hp]
  BY <1>1, SMT DEF SeedGranuleFromVMAs, Tables
<1>10. \A p \in PagesOf(g) : vma[p] # None => i[p] # None
  <2> SUFFICES ASSUME NEW p \in PagesOf(g), vma[p] # None PROVE i[p] # None
    OBVIOUS
  <2>1. p \in Pages
    BY DEF PagesOf
  <2>2. CASE p \in new
    <3>1. vma[p].prot \in Protection /\ i[p] = vma[p].prot
      BY <1>3, <2>1, <2>2
    <3> QED BY <3>1 DEF GranuleAssumption
  <2>3. CASE p \notin new
    <3>1. tab.intended[p] # None /\ f.intended = tab.intended
      BY <2>3, FindOrCreateFacts
    <3> QED BY <2>1, <2>3, <3>1
  <2> QED BY <2>2, <2>3
<1> HIDE DEF f, i, hp, new
<1>11. [f EXCEPT !.intended = i, !.entry[g].HostProt = hp].intended = i
  BY <1>1, SMT DEF Tables
<1>7. [f EXCEPT !.intended = i, !.entry[g].HostProt = hp] = NoteHostProt([f EXCEPT !.intended = i], g, hp)
  BY <1>1, SMT DEF NoteHostProt, Tables
<1>8. Kin(tab, [f EXCEPT !.intended = i], g)
  <2>1. [f EXCEPT !.intended = i] \in Tables /\ [f EXCEPT !.intended = i].entry = f.entry
    BY <1>1, <1>4, SMT DEF Tables
  <2> QED BY <1>1, <2>1 DEF Kin
<1>9. ASSUME NEW fi, fi = [f EXCEPT !.intended = i] PROVE Kin(tab, NoteHostProt(fi, g, hp), g)
  BY <1>5, <1>8, <1>9, NoteHostProtFacts
<1> QED BY <1>6, <1>7, <1>9, <1>10, <1>11

(* ClearIntended changes no entry.                                         *)
LEMMA ClearIntendedFacts ==
  ASSUME NEW tab, NEW f, NEW g, NEW pages, Kin(tab, f, g)
  PROVE  Kin(tab, ClearIntended(f, pages), g)
<1> DEFINE i == [p \in Pages |-> IF p \in pages THEN None ELSE f.intended[p]]
<1>1. f \in Tables
  BY DEF Kin
<1>2. i \in [Pages -> Protection \cup {None}]
  BY <1>1, SMT DEF Tables
<1>3. ClearIntended(f, pages) = [f EXCEPT !.intended = i]
  BY DEF ClearIntended
<1> HIDE DEF i
<1>4. [f EXCEPT !.intended = i] \in Tables /\ [f EXCEPT !.intended = i].entry = f.entry
  BY <1>1, <1>2, SMT DEF Tables
<1> QED BY <1>3, <1>4 DEF Kin

(* Forget drops the entries of the granules and keeps the others.          *)
LEMMA ForgetFacts ==
  ASSUME NEW tab \in Tables, NEW gs
  PROVE  /\ Forget(tab, gs) \in Tables
         /\ \A h \in AllGranules : Forget(tab, gs).entry[h] = IF h \in gs THEN None ELSE tab.entry[h]
<1> DEFINE e == [g \in AllGranules |-> IF g \in gs THEN None ELSE tab.entry[g]]
<1> DEFINE i == [p \in Pages |-> IF GranuleOf(p) \in gs THEN None ELSE tab.intended[p]]
<1>1. e \in [AllGranules -> Entry \cup {None}] /\ i \in [Pages -> Protection \cup {None}]
  BY SMT DEF Tables
<1>2. Forget(tab, gs) = [entry |-> e, intended |-> i]
  BY DEF Forget
<1>3. \A h \in AllGranules : e[h] = IF h \in gs THEN None ELSE tab.entry[h]
  OBVIOUS
<1> HIDE DEF e, i
<1> QED BY <1>1, <1>2, <1>3, SMT DEF Tables

(* The table of a state, and what a step makes of it.                      *)
LEMMA TableFacts ==
  ASSUME Types
  PROVE  /\ Table \in Tables /\ Table.entry = Granules /\ Table.intended = intended
         /\ \A tab \in Tables : TableBecomes(tab) => 
              /\ Granules' \in [AllGranules -> Entry \cup {None}] /\ Granules' = tab.entry
              /\ intended' \in [Pages -> Protection \cup {None}]
  BY SMT DEF Types, Table, Tables, TableBecomes

----------------------------------------------------------------------------
(* What every step does besides.                                           *)
History == SiblingPolicy' = SiblingPolicy /\ halfway' = (halfway \/ \E u \in Threads : GivesUp(u))

(* What Track makes of VMATracking.                                        *)
LEMMA TrackFacts ==
  ASSUME Types, NEW c \in CallJobs, c.op = "mprotect" => \A p \in Span(c) : vma[p] # None, Track(c)
  PROVE  /\ vma' \in [Pages -> Mapping \cup {None}]
         /\ \A p \in Pages \ Span(c) : vma'[p] = vma[p]
         /\ \A p \in Pages \cap Span(c) : c.op = "munmap" => vma'[p] = None
<1>1. c.op \in {"mmap", "munmap", "mprotect"} /\ c.prot \in Protection /\ c.shared \in BOOLEAN
  BY SMT DEF CallJobs
<1>2. [prot |-> c.prot, shared |-> c.shared] \in Mapping
  BY <1>1, SMT DEF Mapping
<1>3. ASSUME NEW p \in Pages
      PROVE  /\ vma'[p] \in Mapping \cup {None}
             /\ p \notin Span(c) => vma'[p] = vma[p]
             /\ p \in Span(c) /\ c.op = "munmap" => vma'[p] = None
  <2>1. vma[p] \in Mapping \cup {None}
    BY DEF Types
  <2>2. vma'[p] = IF p \notin Span(c) THEN vma[p] ELSE
                    CASE c.op = "mmap" -> [prot |-> c.prot, shared |-> c.shared]
                      [] c.op = "munmap" -> None
                      [] c.op = "mprotect" -> [vma[p] EXCEPT !.prot = c.prot]
    BY DEF Track
  <2>3. CASE p \notin Span(c)
    BY <2>1, <2>2, <2>3, SMT
  <2>4. CASE p \in Span(c) /\ c.op = "mmap"
    BY <1>2, <2>2, <2>4, SMT
  <2>5. CASE p \in Span(c) /\ c.op = "munmap"
    BY <2>2, <2>5, SMT
  <2>6. CASE p \in Span(c) /\ c.op = "mprotect"
    <3>1. vma[p] \in Mapping
      BY <2>1, <2>6
    <3>2. [vma[p] EXCEPT !.prot = c.prot] \in Mapping
      BY <1>1, <3>1, SMT DEF Mapping
    <3>3. vma'[p] = [vma[p] EXCEPT !.prot = c.prot]
      BY <2>2, <2>6, SMT
    <3> QED BY <2>6, <3>2, <3>3
  <2> QED BY <1>1, <2>3, <2>4, <2>5, <2>6
<1>4. vma' = [p \in Pages |-> vma'[p]]
  <2> DEFINE F(p) == IF p \notin Span(c) THEN vma[p] ELSE
                       CASE c.op = "mmap" -> [prot |-> c.prot, shared |-> c.shared]
                         [] c.op = "munmap" -> None
                         [] c.op = "mprotect" -> [vma[p] EXCEPT !.prot = c.prot]
  <2>1. vma' = [p \in Pages |-> F(p)]
    BY DEF Track
  <2> HIDE DEF F
  <2> QED BY <2>1
<1> QED BY <1>3, <1>4

(* mprotect(2) changes nothing but the protection of what is mapped.       *)
LEMMA ReprotectedFacts ==
  ASSUME GranuleAssumption, Types, NEW g \in AllGranules, NEW prot \in Protection
  PROVE  /\ Reprotected(g, prot) \in Mapping \cup {None}
         /\ (Reprotected(g, prot) = None) <=> (mapped[g] = None)
         /\ mapped[g] # None => Reprotected(g, prot).prot = prot
<1>1. CASE mapped[g] = None
  BY <1>1 DEF Reprotected
<1>2. CASE mapped[g] # None
  <2>1. mapped[g] \in Mapping
    BY <1>2 DEF Types
  <2>2. [mapped[g] EXCEPT !.prot = prot] \in Mapping /\ [mapped[g] EXCEPT !.prot = prot].prot = prot
    BY <2>1, SMT DEF Mapping
  <2>3. [mapped[g] EXCEPT !.prot = prot] # None
    BY <2>2 DEF GranuleAssumption
  <2> QED BY <1>2, <2>2, <2>3 DEF Reprotected
<1> QED BY <1>1, <1>2

(* The granules of a call.                                                 *)
LEMMA CoversFacts ==
  ASSUME Jobs, NEW t \in Threads, Calling(t)
  PROVE  /\ job[t] \in CallJobs /\ Span(job[t]) \subseteq Pages /\ Covers(job[t]) \subseteq AllGranules
         /\ job[t].g \in Covers(job[t]) /\ job[t].at \in Calls
         /\ \A p \in Span(job[t]) : GranuleOf(p) \in Covers(job[t])
         /\ job[t].op \in {"mmap", "munmap", "mprotect"} /\ job[t].prot \in Protection /\ job[t].shared \in BOOLEAN
         /\ job[t].want \in Protection \cup {None}
<1>1. job[t] \in CallJobs /\ Span(job[t]) \subseteq Pages /\ job[t].g \in Covers(job[t]) /\ job[t].at \in Calls
  BY DEF Jobs, JobType, Calling
<1>2. Covers(job[t]) \subseteq AllGranules
  BY <1>1 DEF Covers, AllGranules
<1>3. /\ job[t].op \in {"mmap", "munmap", "mprotect"} /\ job[t].prot \in Protection /\ job[t].shared \in BOOLEAN
      /\ job[t].want \in Protection \cup {None}
  BY <1>1, SMT DEF CallJobs
<1> QED BY <1>1, <1>2, <1>3 DEF Covers

(* A mask stays with its granule.                                          *)
LEMMA MoveMasked ==
  ASSUME Jobs, NEW t \in Threads, NEW c2, Move(t, c2), NEW p \in Pages, Masked(p),
         tracked'[GranuleOf(p)] = tracked[GranuleOf(p)], mapped'[GranuleOf(p)] = mapped[GranuleOf(p)],
         job[t].at \in {"fill", "protect"} => job[t].g # GranuleOf(p)
  PROVE  Masked(p)'
<1>1. DOMAIN job' = Threads /\ DOMAIN job = Threads /\ \A u \in Threads \ {t} : job'[u] = job[u]
  BY MoveJob DEF Jobs
<1>2. Converted(GranuleOf(p)) => Converted(GranuleOf(p))'
  BY <1>1 DEF Converted
<1>3. Open(GranuleOf(p))' => Open(GranuleOf(p))
  BY DEF Open
<1> QED BY <1>2, <1>3 DEF Masked, Known

(* A call goes on at another place.                                        *)
LEMMA MovePlace ==
  ASSUME Jobs, NEW t \in Threads, Calling(t), job[t].at # "invalidate", NEW a \in Calls \ {"pass"}, Proceed(t, a),
         a \in WholePlaces => job[t].at \in WholePlaces,
         a \in LockedPlaces => job[t].at \in LockedPlaces,
         a = "fill" => job[t].op = "mmap"
  PROVE  \E c2 : Move(t, c2) /\ c2.at = a /\ c2.g = job[t].g /\ c2.want = job[t].want
<1>1. job[t] \in CallJobs /\ job[t].g \in Covers(job[t])
  BY CoversFacts
<1> DEFINE c2 == [job[t] EXCEPT !.at = a]
<1>2. /\ c2 \in CallJobs /\ c2.at = a /\ c2.op = job[t].op /\ c2.base = job[t].base /\ c2.len = job[t].len
      /\ c2.g = job[t].g /\ c2.want = job[t].want
  BY <1>1, ProceedFacts
<1>3. job' = [job EXCEPT ![t] = c2]
  BY DEF Proceed, Goto
<1> HIDE DEF c2
<1>4. c2.g \in Covers(c2)
  BY <1>1, <1>2, SpanFacts
<1> QED BY <1>2, <1>3, <1>4 DEF Move

(* A page beyond the range of a call that maps whole granules is not       *)
(* writable.                                                               *)
LEMMA WholeTail ==
  ASSUME TailFree, NEW t \in Threads, job[t].at \in WholePlaces, NEW p \in Pages, Writable(p), p \notin Span(job[t])
  PROVE  GranuleOf(p) \notin Covers(job[t])
  BY DEF TailFree

(* GuestMmap, GuestMunmap and GuestMprotect.                               *)
LEMMA PassThroughKept ==
  ASSUME GranuleAssumption, IInv, NEW t \in Threads, PassThrough(t), History
  PROVE  IInv'
<1> USE DEF IInv, Still
<1> DEFINE c == job[t]
<1> DEFINE a == IF c.op = "mprotect" THEN "invalidate" ELSE "retire"
<1>1. Calling(t) /\ c.at = "pass" /\ c.at # "invalidate" /\ c.at \in WholePlaces /\ c.at \notin LockedPlaces /\ Lockable
  BY DEF PassThrough, Calling, Calls, WholePlaces, LockedPlaces
<1>2. /\ c \in CallJobs /\ Span(c) \subseteq Pages /\ Covers(c) \subseteq AllGranules
      /\ \A p \in Span(c) : GranuleOf(p) \in Covers(c)
      /\ c.op \in {"mmap", "munmap", "mprotect"} /\ c.prot \in Protection /\ c.shared \in BOOLEAN
  BY <1>1, CoversFacts
<1>3. a \in Calls \ {"pass"} /\ a \notin LockedPlaces /\ (a = "invalidate" <=> c.op = "mprotect") /\ a # "sharedtrack"
      /\ a # "protect" /\ a # "fill"
  BY DEF Calls, LockedPlaces
<1>4. PICK c2 : Move(t, c2) /\ c2.at = a
  <2>1. Proceed(t, a)
    BY DEF PassThrough
  <2> HIDE DEF a
  <2> QED BY <1>1, <1>3, <2>1, MovePlace
<1>5. c2.op = c.op /\ Span(c2) = Span(c) /\ c2.at \in Calls
  BY <1>4, MoveJob DEF Move
<1>6. c.op = "mprotect" => \A p \in Span(c) : vma[p] # None
  BY <1>1 DEF Jobs, JobType
<1>7. /\ vma' \in [Pages -> Mapping \cup {None}]
      /\ \A p \in Pages \ Span(c) : vma'[p] = vma[p]
      /\ \A p \in Pages \cap Span(c) : c.op = "munmap" => vma'[p] = None
  BY <1>2, <1>6, TrackFacts DEF PassThrough
<1>8. [prot |-> c.prot, shared |-> c.shared] \in Mapping
  BY <1>2, SMT DEF Mapping
<1>9. ASSUME NEW g \in AllGranules
      PROVE  /\ mapped'[g] \in Mapping \cup {None}
             /\ g \notin Covers(c) => mapped'[g] = mapped[g]
             /\ g \in Covers(c) /\ c.op = "mmap" => mapped'[g] # None
             /\ g \in Covers(c) /\ c.op = "mprotect" => (mapped'[g] = None <=> mapped[g] = None)
  <2>1. mapped'[g] = IF g \notin Covers(c) THEN mapped[g] ELSE
                       CASE c.op = "mmap" -> [prot |-> c.prot, shared |-> c.shared]
                         [] c.op = "munmap" -> None
                         [] c.op = "mprotect" -> Reprotected(g, c.prot)
    BY DEF PassThrough
  <2>2. CASE g \notin Covers(c)
    BY <2>1, <2>2 DEF Types
  <2>3. CASE g \in Covers(c) /\ c.op = "mmap"
    <3>1. mapped'[g] = [prot |-> c.prot, shared |-> c.shared]
      BY <2>1, <2>3, SMT
    <3> QED BY <1>8, <2>3, <3>1 DEF GranuleAssumption
  <2>4. CASE g \in Covers(c) /\ c.op = "munmap"
    <3>1. mapped'[g] = None
      BY <2>1, <2>4, SMT
    <3> QED BY <2>4, <3>1
  <2>5. CASE g \in Covers(c) /\ c.op = "mprotect"
    <3>1. mapped'[g] = Reprotected(g, c.prot)
      BY <2>1, <2>5, SMT
    <3> QED BY <1>2, <2>5, <3>1, ReprotectedFacts
  <2> QED BY <1>2, <2>2, <2>3, <2>4, <2>5
<1>10. mapped' \in [AllGranules -> Mapping \cup {None}]
  <2> DEFINE F(g) == IF g \notin Covers(c) THEN mapped[g] ELSE
                       CASE c.op = "mmap" -> [prot |-> c.prot, shared |-> c.shared]
                         [] c.op = "munmap" -> None
                         [] c.op = "mprotect" -> Reprotected(g, c.prot)
  <2>1. mapped' = [g \in AllGranules |-> F(g)]
    BY DEF PassThrough
  <2> HIDE DEF F
  <2> QED BY <1>9, <2>1
<1>11. Granules' = Granules /\ intended' = intended /\ tracked' = tracked /\ demoted' = demoted /\ blocks' = blocks
       /\ SiblingPolicy' = SiblingPolicy /\ (halfway => halfway') /\ halfway' \in BOOLEAN
  BY DEF PassThrough, table, smc, History
<1>12. Types'
  BY <1>7, <1>10, <1>11 DEF Types, Known
<1>13. Frame(t)
  BY <1>7, <1>9, <1>11 DEF Frame
<1>14. Jobs' /\ OneLock' /\ Apart' /\ CodeHere' /\ TailFree' /\ Marking'
  BY <1>3, <1>4, <1>5, <1>13, MoveJobs
<1>15. Mapped' /\ Through' /\ Backed'
  <2>1. ASSUME NEW g \in Covers(c), mapped[g] # None, mapped'[g] = None
        PROVE  \A p \in PagesOf(g) \ Span(c) : vma[p] = None
    <3>1. c.op = "munmap"
      BY <1>2, <1>9, <2>1
    <3> QED BY <1>1, <3>1 DEF Backed
  <2>2. ASSUME NEW p \in Span(c), vma'[p] # None
        PROVE  mapped'[GranuleOf(p)] # None
    <3>1. p \in Pages /\ GranuleOf(p) \in Covers(c) /\ GranuleOf(p) \in AllGranules
      BY <1>2
    <3>2. CASE c.op = "mmap"
      BY <1>9, <3>1, <3>2
    <3>3. CASE c.op = "mprotect"
      <4>1. vma[p] # None
        BY <1>6, <3>3
      <4>2. \A u \in Threads : job[u].at \notin {"emulate", "protect"}
        BY <1>1 DEF Lockable, Locked
      <4>3. mapped[GranuleOf(p)] # None
        BY <3>1, <4>1, <4>2 DEF Mapped
      <4> QED BY <1>9, <3>1, <3>3, <4>3
    <3>4. c.op # "munmap"
      BY <1>7, <2>2, <3>1
    <3> QED BY <1>2, <3>2, <3>3, <3>4
  <2>3. ASSUME NEW g \in Covers(c), Granules'[g] # None, Granules'[g].FEXBacked
        PROVE  mapped'[g] # None
    <3>1. g \in AllGranules /\ Granules[g] # None /\ mapped[g] # None
      BY <1>2, <1>11, <2>3 DEF Backed
    <3>2. c.op # "munmap"
      BY <1>1, <3>1 DEF Backed
    <3> QED BY <1>2, <1>9, <3>1, <3>2
  <2> QED BY <1>1, <1>3, <1>4, <1>13, <2>1, <2>2, <2>3, MoveMaps
<1>16. Wanted' /\ Demoted' /\ Kept'
  <2>1. \A p \in Span(c) : Reaches(c2, p)
    BY <1>3, <1>4, <1>5 DEF Reaches
  <2>2. \A p \in Pages : Reaches(c, p) => Reaches(c2, p)
    BY <2>1 DEF Reaches
  <2>3. ASSUME NEW p \in Pages, Masked(p), Writable(p), ~Reaches(c2, p) PROVE Masked(p)'
    <3>1. GranuleOf(p) \notin Covers(c) /\ GranuleOf(p) \in AllGranules
      BY <1>1, <2>1, <2>3, WholeTail, PageFacts
    <3>2. mapped'[GranuleOf(p)] = mapped[GranuleOf(p)]
      BY <1>9, <3>1
    <3>3. job[t].at \notin {"fill", "protect"}
      BY <1>1
    <3> QED BY <1>4, <1>11, <2>3, <3>2, <3>3, MoveMasked
  <2>4. \A g \in AllGranules : Armed(g)' => Armed(g)
    BY <1>11 DEF Armed, Known
  <2> QED BY <1>3, <1>4, <1>13, <2>1, <2>2, <2>3, <2>4, MoveKept
<1> QED BY <1>12, <1>14, <1>15, <1>16

(* NoteGranuleRangeGone.                                                   *)
LEMMA RangeGoneKept ==
  ASSUME GranuleAssumption, IInv, NEW t \in Threads, NoteGranuleRangeGone(t), History
  PROVE  IInv'
<1> USE DEF IInv, Still
<1> DEFINE c == job[t]
<1> DEFINE partly == {g \in Covers(c) \cap demoted : ~(PagesOf(g) \subseteq Span(c))}
<1>1. Calling(t) /\ c.at = "retire" /\ c.at # "invalidate" /\ c.at \in WholePlaces /\ c.at \notin LockedPlaces
  BY DEF NoteGranuleRangeGone, Calling, Calls, WholePlaces, LockedPlaces
<1>2. /\ c \in CallJobs /\ Span(c) \subseteq Pages /\ Covers(c) \subseteq AllGranules
      /\ \A p \in Span(c) : GranuleOf(p) \in Covers(c)
  BY <1>1, CoversFacts
<1>3. PICK c2 : Move(t, c2) /\ c2.at = "invalidate"
  <2>1. Proceed(t, "invalidate")
    BY DEF NoteGranuleRangeGone
  <2>2. "invalidate" \in Calls \ {"pass"} /\ "invalidate" \notin LockedPlaces
    BY DEF Calls, LockedPlaces
  <2> QED BY <1>1, <2>1, <2>2, MovePlace
<1>4. c2.op = c.op /\ Span(c2) = Span(c) /\ c2.at \in Calls /\ c2.at \notin LockedPlaces
  BY <1>3, MoveJob DEF Move, LockedPlaces
<1>5. /\ vma' = vma /\ Granules' = Granules /\ intended' = intended /\ mapped' = mapped /\ blocks' = blocks
      /\ demoted' = demoted \ (Covers(c) \ partly)
      /\ SiblingPolicy' = SiblingPolicy /\ (halfway => halfway') /\ halfway' \in BOOLEAN
  BY DEF NoteGranuleRangeGone, table, History
<1>6. tracked' = [g \in AllGranules |->
          IF g \in partly THEN tracked[g] \ Span(c) ELSE IF g \in Covers(c) THEN None ELSE tracked[g]]
  BY DEF NoteGranuleRangeGone
<1>p. \A g \in partly : g \in Covers(c) /\ g \in demoted
  OBVIOUS
<1> HIDE DEF partly
<1>7. ASSUME NEW g \in AllGranules
      PROVE  /\ tracked'[g] \in (SUBSET Pages) \cup {None}
             /\ g \notin Covers(c) => tracked'[g] = tracked[g]
             /\ g \in demoted' => tracked'[g] # None
             /\ Armed(g)' => Armed(g)
  <2>1. tracked[g] \in (SUBSET Pages) \cup {None} /\ (g \in demoted => tracked[g] # None)
    BY DEF Types, Known
  <2>0. tracked'[g] = IF g \in partly THEN tracked[g] \ Span(c) ELSE IF g \in Covers(c) THEN None ELSE tracked[g]
    BY <1>6
  <2>2. CASE g \in partly
    <3>1. tracked'[g] = tracked[g] \ Span(c) /\ tracked[g] \in SUBSET Pages
      BY <1>p, <2>0, <2>1, <2>2
    <3>2. tracked'[g] \in SUBSET Pages /\ (tracked'[g] # {} => tracked[g] # {})
      BY <3>1
    <3>3. tracked'[g] # None
      BY <3>2 DEF GranuleAssumption
    <3> QED BY <1>p, <2>1, <2>2, <3>1, <3>2, <3>3 DEF Armed, Known
  <2>3. CASE g \in Covers(c) /\ g \notin partly
    <3>1. tracked'[g] = None /\ g \notin demoted'
      BY <1>5, <2>0, <2>3
    <3> QED BY <2>3, <3>1, SMT DEF Armed, Known
  <2>4. CASE g \notin Covers(c)
    <3>1. tracked'[g] = tracked[g] /\ (g \in demoted' => g \in demoted)
      BY <1>5, <1>p, <2>0, <2>4
    <3> QED BY <2>1, <3>1 DEF Armed, Known
  <2> QED BY <2>2, <2>3, <2>4
<1>8. tracked' \in [AllGranules -> (SUBSET Pages) \cup {None}]
  BY <1>6, <1>7
<1>9. demoted' \subseteq AllGranules /\ \A g \in demoted' : Known(g)'
  BY <1>5, <1>7 DEF Types, Known
<1>10. Types'
  BY <1>5, <1>8, <1>9 DEF Types
<1>11. Frame(t)
  BY <1>5 DEF Frame
<1>12. Jobs' /\ OneLock' /\ Apart' /\ CodeHere' /\ TailFree' /\ Marking'
  BY <1>3, <1>11, MoveJobs
<1>13. Mapped' /\ Through' /\ Backed'
  <2>1. \A p \in Span(c) : vma'[p] # None =>
          mapped'[GranuleOf(p)] # None \/ (c2.at \in {"emulate", "protect"} /\ c2.op = "munmap")
    <3> SUFFICES ASSUME NEW p \in Span(c), vma[p] # None PROVE mapped[GranuleOf(p)] # None
      BY <1>5
    <3>1. ASSUME NEW u \in Threads, job[u].at \in {"emulate", "protect"}, p \in Span(job[u]) PROVE FALSE
      <4>1. u # t /\ Calling(u)
        BY <1>1, <3>1 DEF Calling, Calls
      <4> QED BY <1>1, <3>1, <4>1 DEF Apart
    <3> QED BY <1>2, <3>1 DEF Mapped
  <2>2. \A g \in Covers(c) : Granules'[g] # None => (Granules'[g].FEXBacked => mapped'[g] # None)
    BY <1>2, <1>5 DEF Backed
  <2>3. c2.at # "sharedtrack" /\ c2.at # "protect"
    BY <1>3
  <2> QED BY <1>3, <1>4, <1>5, <1>11, <2>1, <2>2, <2>3, MoveMaps
<1>14. Wanted' /\ Demoted' /\ Kept'
  <2>1. \A p \in Span(c) : Reaches(c2, p)
    BY <1>4 DEF Reaches
  <2>2. \A p \in Pages : Reaches(c, p) => Reaches(c2, p)
    BY <2>1 DEF Reaches
  <2>3. ASSUME NEW p \in Pages, Masked(p), Writable(p), ~Reaches(c2, p) PROVE Masked(p)'
    <3>1. GranuleOf(p) \notin Covers(c) /\ GranuleOf(p) \in AllGranules
      BY <1>1, <2>1, <2>3, WholeTail, PageFacts
    <3>2. tracked'[GranuleOf(p)] = tracked[GranuleOf(p)]
      BY <1>7, <3>1
    <3>3. job[t].at \notin {"fill", "protect"}
      BY <1>1
    <3> QED BY <1>3, <1>5, <2>3, <3>2, <3>3, MoveMasked
  <2>4. c2.at # "protect"
    BY <1>3
  <2> QED BY <1>3, <1>7, <1>11, <2>1, <2>2, <2>3, <2>4, MoveKept
<1> QED BY <1>10, <1>12, <1>13, <1>14

(* A page that a call has, and that is tracked, is mapped: no other call   *)
(* can be about to untrack it.                                             *)
LEMMA SpanMapped ==
  ASSUME Jobs, Apart, Mapped, NEW t \in Threads, Calling(t), NEW p \in Span(job[t]), vma[p] # None,
         job[t].op # "munmap" \/ job[t].at \notin LockedPlaces
  PROVE  mapped[GranuleOf(p)] # None
<1>1. ASSUME NEW u \in Threads, job[u].at \in {"emulate", "protect"}, job[u].op = "munmap", p \in Span(job[u]) PROVE FALSE
  <2>1. u # t /\ Calling(u)
    BY <1>1 DEF Calling, Calls, LockedPlaces
  <2> QED BY <1>1, <2>1 DEF Apart
<1> QED BY <1>1, CoversFacts DEF Mapped

(* The kernel's part of a short shared mapping.                            *)
LEMMA SharedMapKept ==
  ASSUME GranuleAssumption, IInv, NEW t \in Threads, SharedMap(t), History
  PROVE  IInv'
<1> USE DEF IInv, Still
<1> DEFINE c == job[t]
<1>1. Calling(t) /\ c.at = "sharedmap" /\ c.at # "invalidate" /\ c.at \in WholePlaces /\ c.at \notin LockedPlaces
  BY DEF SharedMap, Calling, Calls, WholePlaces, LockedPlaces
<1>2. /\ c \in CallJobs /\ Span(c) \subseteq Pages /\ Covers(c) \subseteq AllGranules
      /\ \A p \in Span(c) : GranuleOf(p) \in Covers(c)
      /\ c.prot \in Protection
  BY <1>1, CoversFacts
<1>3. PICK c2 : Move(t, c2) /\ c2.at = "sharedtrack"
  <2>1. Proceed(t, "sharedtrack")
    BY DEF SharedMap
  <2>2. "sharedtrack" \in Calls \ {"pass"} /\ "sharedtrack" \notin LockedPlaces
    BY DEF Calls, LockedPlaces
  <2> QED BY <1>1, <2>1, <2>2, MovePlace
<1>4. c2.op = c.op /\ Span(c2) = Span(c) /\ c2.at \in Calls /\ c2.at \notin LockedPlaces
  BY <1>3, MoveJob DEF Move, LockedPlaces
<1>5. /\ vma' = vma /\ Granules' = Granules /\ intended' = intended /\ tracked' = tracked /\ demoted' = demoted
      /\ blocks' = blocks /\ SiblingPolicy' = SiblingPolicy /\ (halfway => halfway') /\ halfway' \in BOOLEAN
  BY DEF SharedMap, table, smc, History
<1>6. [prot |-> c.prot, shared |-> TRUE] \in Mapping
  BY <1>2, SMT DEF Mapping
<1>7. mapped' = [g \in AllGranules |-> IF g \in Covers(c) THEN [prot |-> c.prot, shared |-> TRUE] ELSE mapped[g]]
  BY DEF SharedMap
<1>8. \A g \in AllGranules : /\ mapped'[g] \in Mapping \cup {None}
                             /\ g \notin Covers(c) => mapped'[g] = mapped[g]
                             /\ g \in Covers(c) => mapped'[g] # None
  BY <1>6, <1>7 DEF Types, GranuleAssumption
<1>9. mapped' \in [AllGranules -> Mapping \cup {None}]
  BY <1>7, <1>8
<1>10. Types'
  BY <1>5, <1>9 DEF Types, Known
<1>11. Frame(t)
  BY <1>5, <1>8 DEF Frame
<1>12. Jobs' /\ OneLock' /\ Apart' /\ CodeHere' /\ TailFree' /\ Marking'
  <2>1. c.op = "mprotect" => \A p \in Span(c) : vma[p] # None
    BY <1>1 DEF Jobs, JobType
  <2> QED BY <1>3, <1>4, <1>5, <1>11, <2>1, MoveJobs
<1>13. Mapped' /\ Through' /\ Backed'
  <2>1. \A g \in Covers(c) : mapped'[g] # None
    BY <1>2, <1>8
  <2>2. c2.at # "protect"
    BY <1>3
  <2> QED BY <1>2, <1>3, <1>4, <1>11, <2>1, <2>2, MoveMaps
<1>14. Wanted' /\ Demoted' /\ Kept'
  <2>1. \A p \in Span(c) : Reaches(c2, p)
    BY <1>4 DEF Reaches
  <2>2. \A p \in Pages : Reaches(c, p) => Reaches(c2, p)
    BY <2>1 DEF Reaches
  <2>3. ASSUME NEW p \in Pages, Masked(p), Writable(p), ~Reaches(c2, p) PROVE Masked(p)'
    <3>1. GranuleOf(p) \notin Covers(c) /\ GranuleOf(p) \in AllGranules
      BY <1>1, <2>1, <2>3, WholeTail, PageFacts
    <3>2. mapped'[GranuleOf(p)] = mapped[GranuleOf(p)]
      BY <1>8, <3>1
    <3>3. job[t].at \notin {"fill", "protect"}
      BY <1>1
    <3> QED BY <1>3, <1>5, <2>3, <3>2, <3>3, MoveMasked
  <2>4. \A g \in AllGranules : Armed(g)' => Armed(g)
    BY <1>5 DEF Armed, Known
  <2>5. c2.at # "protect"
    BY <1>3
  <2> QED BY <1>3, <1>11, <2>1, <2>2, <2>3, <2>4, <2>5, MoveKept
<1> QED BY <1>10, <1>12, <1>13, <1>14

(* An entry that is made not to be FEX's own memory.                       *)
LEMMA DisownFacts ==
  ASSUME GranuleAssumption, NEW tab, NEW f, NEW g \in AllGranules, Kin(tab, f, g), NEW fd \in BOOLEAN
  PROVE  /\ Kin(tab, [f EXCEPT !.entry[g].FEXBacked = FALSE], g)
         /\ Kin(tab, [f EXCEPT !.entry[g] = [HostProt |-> @.HostProt, FEXBacked |-> FALSE, SharedFd |-> fd]], g)
<1>1. f \in Tables /\ f.entry[g] \in Entry
  BY SMT DEF Kin, Tables
<1>2. ASSUME NEW e \in Entry, ~e.FEXBacked, NEW f2, f2 = [f EXCEPT !.entry[g] = e]
      PROVE  Kin(tab, f2, g)
  <2>1. f2 \in Tables
    BY <1>1, <1>2, SMT DEF Tables
  <2>2. f2.entry[g] = e /\ \A h \in AllGranules \ {g} : f2.entry[h] = f.entry[h]
    BY <1>1, <1>2, SMT DEF Tables
  <2> QED BY <1>2, <2>1, <2>2 DEF Kin, GranuleAssumption
<1>3. ASSUME NEW b \in BOOLEAN, ~b
      PROVE  /\ Kin(tab, [f EXCEPT !.entry[g].FEXBacked = b], g)
             /\ Kin(tab, [f EXCEPT !.entry[g] = [HostProt |-> @.HostProt, FEXBacked |-> b, SharedFd |-> fd]], g)
  <2>1. ASSUME NEW e \in Entry
        PROVE  /\ [e EXCEPT !.FEXBacked = b] \in Entry /\ [e EXCEPT !.FEXBacked = b].FEXBacked = b
               /\ [HostProt |-> e.HostProt, FEXBacked |-> b, SharedFd |-> fd] \in Entry
               /\ [HostProt |-> e.HostProt, FEXBacked |-> b, SharedFd |-> fd].FEXBacked = b
    BY <2>1, SMT DEF Entry
  <2> DEFINE e1 == [f.entry[g] EXCEPT !.FEXBacked = b]
  <2> DEFINE e2 == [HostProt |-> f.entry[g].HostProt, FEXBacked |-> b, SharedFd |-> fd]
  <2>2. e1 \in Entry /\ e2 \in Entry /\ ~e1.FEXBacked /\ ~e2.FEXBacked
    BY <1>1, <1>3, <2>1
  <2>3. [f EXCEPT !.entry[g].FEXBacked = b] = [f EXCEPT !.entry[g] = e1]
    BY <1>1, SMT DEF Tables
  <2>4. [f EXCEPT !.entry[g] = [HostProt |-> @.HostProt, FEXBacked |-> b, SharedFd |-> fd]] = [f EXCEPT !.entry[g] = e2]
    OBVIOUS
  <2> HIDE DEF e1, e2
  <2> QED BY <1>2, <2>2, <2>3, <2>4
<1> QED BY <1>3

(* Two changes to one entry.                                               *)
LEMMA KinTrans ==
  ASSUME NEW a, NEW b, NEW d, NEW g, Kin(a, b, g), Kin(b, d, g)
  PROVE  Kin(a, d, g)
  BY DEF Kin

(* A step that changes one entry.                                          *)
LEMMA KinBecomes ==
  ASSUME Types, NEW tab, NEW g \in AllGranules, Kin(Table, tab, g), TableBecomes(tab)
  PROVE  /\ Granules' \in [AllGranules -> Entry \cup {None}] /\ intended' \in [Pages -> Protection \cup {None}]
         /\ Granules'[g] # None
         /\ \A h \in AllGranules \ {g} : Granules'[h] = Granules[h]
         /\ Granules'[g].FEXBacked => Granules[g] # None /\ Granules[g].FEXBacked
<1>1. tab \in Tables
  BY DEF Kin
<1>2. /\ Granules' \in [AllGranules -> Entry \cup {None}] /\ Granules' = tab.entry
      /\ intended' \in [Pages -> Protection \cup {None}]
  BY <1>1, TableFacts
<1>3. Table.entry = Granules
  BY TableFacts
<1> QED BY <1>2, <1>3 DEF Kin

(* The tracking of a short shared mapping.                                 *)
LEMMA SharedTrackKept ==
  ASSUME GranuleAssumption, IInv, NEW t \in Threads, SharedTrack(t), History
  PROVE  IInv'
<1> USE DEF IInv, Still
<1> DEFINE c == job[t]
<1>1. Calling(t) /\ c.at = "sharedtrack" /\ c.at # "invalidate" /\ c.at \in WholePlaces /\ c.at \notin LockedPlaces
  BY DEF SharedTrack, Calling, Calls, WholePlaces, LockedPlaces
<1>2. /\ c \in CallJobs /\ Span(c) \subseteq Pages /\ Covers(c) \subseteq AllGranules /\ c.g \in Covers(c)
      /\ \A p \in Span(c) : GranuleOf(p) \in Covers(c)
      /\ c.prot \in Protection
  BY <1>1, CoversFacts
<1>3. PICK c2 : Move(t, c2) /\ c2.at = "invalidate"
  <2>1. Proceed(t, "invalidate")
    BY DEF SharedTrack
  <2>2. "invalidate" \in Calls \ {"pass"} /\ "invalidate" \notin LockedPlaces
    BY DEF Calls, LockedPlaces
  <2> QED BY <1>1, <2>1, <2>2, MovePlace
<1>4. c2.op = c.op /\ Span(c2) = Span(c) /\ c2.at \in Calls /\ c2.at \notin LockedPlaces
  BY <1>3, MoveJob DEF Move, LockedPlaces
<1>5. /\ mapped' = mapped /\ tracked' = tracked /\ demoted' = demoted
      /\ blocks' = blocks /\ SiblingPolicy' = SiblingPolicy /\ (halfway => halfway') /\ halfway' \in BOOLEAN
  BY DEF SharedTrack, smc, History
<1>6. c.op = "mprotect" => \A p \in Span(c) : vma[p] # None
  BY <1>1 DEF Jobs, JobType
<1>7. /\ vma' \in [Pages -> Mapping \cup {None}]
      /\ \A p \in Pages \ Span(c) : vma'[p] = vma[p]
  BY <1>2, <1>6, TrackFacts DEF SharedTrack
<1>8. PICK tab : Kin(Table, tab, c.g) /\ TableBecomes(tab)
  <2>1. PICK fd \in BOOLEAN :
          LET own == [FindOrCreate(Table, c.g) EXCEPT
                        !.entry[c.g] = [HostProt |-> @.HostProt, FEXBacked |-> FALSE, SharedFd |-> fd]]
          IN TableBecomes(NoteHostProt(SetIntended(own, c.g, Span(c), c.prot), c.g, c.prot))
    BY DEF SharedTrack
  <2> DEFINE own == [FindOrCreate(Table, c.g) EXCEPT
                       !.entry[c.g] = [HostProt |-> @.HostProt, FEXBacked |-> FALSE, SharedFd |-> fd]]
  <2>2. Kin(Table, FindOrCreate(Table, c.g), c.g)
    BY <1>2, TableFacts, FindOrCreateFacts
  <2>3. Kin(Table, own, c.g)
    BY <1>2, <2>2, DisownFacts
  <2>4. TableBecomes(NoteHostProt(SetIntended(own, c.g, Span(c), c.prot), c.g, c.prot))
    BY <2>1
  <2> HIDE DEF own
  <2>5. Kin(own, SetIntended(own, c.g, Span(c), c.prot), c.g)
    <3>1. own \in Tables
      BY <2>3 DEF Kin
    <3> QED BY <1>2, <3>1, SetIntendedFacts
  <2>6. Kin(Table, SetIntended(own, c.g, Span(c), c.prot), c.g)
    BY <2>3, <2>5, KinTrans
  <2>7. Kin(Table, NoteHostProt(SetIntended(own, c.g, Span(c), c.prot), c.g, c.prot), c.g)
    BY <1>2, <2>6, NoteHostProtFacts
  <2> QED BY <2>4, <2>7
<1>9. /\ Granules' \in [AllGranules -> Entry \cup {None}] /\ intended' \in [Pages -> Protection \cup {None}]
      /\ \A h \in AllGranules \ {c.g} : Granules'[h] = Granules[h]
  BY <1>2, <1>8, KinBecomes
<1>10. Types'
  BY <1>5, <1>7, <1>9 DEF Types, Known
<1>11. Frame(t)
  BY <1>2, <1>5, <1>7, <1>9 DEF Frame
<1>12. Jobs' /\ OneLock' /\ Apart' /\ CodeHere' /\ TailFree' /\ Marking'
  BY <1>3, <1>11, MoveJobs
<1>13. Mapped' /\ Through' /\ Backed'
  <2>1. \A g \in Covers(c) : mapped'[g] # None
    BY <1>1, <1>5 DEF Through, Passed
  <2>2. c2.at # "protect"
    BY <1>3
  <2> QED BY <1>2, <1>3, <1>4, <1>11, <2>1, <2>2, MoveMaps
<1>14. Wanted' /\ Demoted' /\ Kept'
  <2>1. \A p \in Span(c) : Reaches(c2, p)
    BY <1>4 DEF Reaches
  <2>2. \A p \in Pages : Reaches(c, p) => Reaches(c2, p)
    BY <2>1 DEF Reaches
  <2>3. job[t].at \notin {"fill", "protect"} /\ c2.at # "protect"
    BY <1>1, <1>3
  <2>4. \A p \in Pages : Masked(p) => Masked(p)'
    BY <1>3, <1>5, <2>3, MoveMasked
  <2>5. \A g \in AllGranules : Armed(g)' => Armed(g)
    BY <1>5 DEF Armed, Known
  <2> QED BY <1>3, <1>11, <2>1, <2>2, <2>3, <2>4, <2>5, MoveKept
<1> QED BY <1>10, <1>12, <1>13, <1>14

(* On to the next granule, or to the tracking.                             *)
LEMMA NextGranuleFacts ==
  ASSUME GranuleAssumption, Types, Jobs, NEW t \in Threads, job[t].at \in LockedPlaces, NextGranule(t, job[t])
  PROVE  \E c2 :
    /\ Move(t, c2) /\ c2.at \in {"emulate", "invalidate"}
    /\ vma' \in [Pages -> Mapping \cup {None}]
    /\ \A p \in Pages \ Span(job[t]) : vma'[p] = vma[p]
    /\ c2.at = "emulate" => vma' = vma /\ \A h \in Covers(job[t]) : h < c2.g => h <= job[t].g
    /\ c2.at = "invalidate" => \A h \in Covers(job[t]) : h <= job[t].g
    /\ \A p \in Span(job[t]) : vma'[p] = vma[p] \/ Reaches(c2, p)
    /\ \A p \in Pages : Reaches(job[t], p) => Reaches(c2, p)
    /\ \A p \in Span(job[t]) : GranuleOf(p) <= job[t].g => Reaches(c2, p)
    /\ c2.at = "invalidate" /\ c2.op = "munmap" => \A p \in Span(job[t]) : vma'[p] = None
<1> DEFINE c == job[t]
<1> DEFINE later == {h \in Covers(c) : h > c.g}
<1>1. Calling(t) /\ c.at # "invalidate" /\ c.at \notin WholePlaces
  BY DEF LockedPlaces, WholePlaces, Calling, Calls
<1>2. /\ c \in CallJobs /\ Span(c) \subseteq Pages /\ Covers(c) \subseteq AllGranules /\ c.g \in Covers(c)
      /\ \A p \in Span(c) : GranuleOf(p) \in Covers(c)
  BY <1>1, CoversFacts
<1>3. AllGranules \subseteq Int
  BY GranuleOrder
<1>4. CASE later # {}
  <2>1. PICK g \in later : (\A h \in later : g <= h) /\ job' = [job EXCEPT ![t] = On(c, "emulate", g, None)]
    BY <1>4 DEF NextGranule, Goto
  <2>2. vma' = vma
    BY <1>4 DEF NextGranule
  <2>3. g \in Covers(c) /\ g \in AllGranules /\ g > c.g
    BY <1>2
  <2> DEFINE c2 == On(c, "emulate", g, None)
  <2>4. /\ c2 \in CallJobs /\ c2.at = "emulate" /\ c2.op = c.op /\ c2.base = c.base /\ c2.len = c.len /\ c2.g = g
    <3>1. "emulate" \in Calls /\ None \in Protection \cup {None}
      BY DEF Calls
    <3>2. ASSUME NEW d \in CallJobs, NEW h \in AllGranules, NEW a \in Calls, NEW w \in Protection \cup {None}
          PROVE  LET e == On(d, a, h, w)
                 IN e \in CallJobs /\ e.at = a /\ e.op = d.op /\ e.base = d.base /\ e.len = d.len /\ e.g = h
      BY GranuleFacts, SMT
    <3> HIDE DEF later
    <3> QED BY <1>2, <2>3, <3>1, <3>2
  <2>5. job' = [job EXCEPT ![t] = c2]
    BY <2>1
  <2>6. \A h \in Covers(c) : h < g => h <= c.g
    <3> SUFFICES ASSUME NEW h \in Covers(c), h < g, ~(h <= c.g) PROVE FALSE
      OBVIOUS
    <3>1. h \in Int /\ g \in Int /\ c.g \in Int
      BY <1>2, <1>3, <2>3
    <3>2. h > c.g
      BY <3>1, SMT
    <3>3. g <= h
      BY <2>1, <3>2
    <3> QED BY <3>1, <3>3, SMT
  <2> HIDE DEF c2
  <2>7. Span(c2) = Span(c) /\ Covers(c2) = Covers(c)
    BY <2>4, SpanFacts
  <2>8. "emulate" \in LockedPlaces /\ "emulate" \notin WholePlaces /\ "emulate" \in Calls
    BY DEF LockedPlaces, WholePlaces, Calls
  <2>9. Move(t, c2)
    BY <1>1, <2>3, <2>4, <2>5, <2>7, <2>8 DEF Move
  <2>10. \A p \in Span(c) : GranuleOf(p) <= c.g => Reaches(c2, p)
    <3> SUFFICES ASSUME NEW p \in Span(c), GranuleOf(p) <= c.g PROVE GranuleOf(p) < g
      BY <2>4, <2>7, <2>8 DEF Reaches
    <3>1. GranuleOf(p) \in Int /\ c.g \in Int /\ g \in Int
      BY <1>2, <1>3, <2>3
    <3> QED BY <2>3, <3>1, SMT
  <2>11. \A p \in Pages : Reaches(c, p) => Reaches(c2, p)
    <3> SUFFICES ASSUME NEW p \in Pages, Reaches(c, p) PROVE GranuleOf(p) <= c.g /\ p \in Span(c)
      BY <2>10
    <3>1. p \in Span(c) /\ (GranuleOf(p) < c.g \/ GranuleOf(p) = c.g)
      BY DEF Reaches
    <3>2. GranuleOf(p) \in Int /\ c.g \in Int
      BY <1>2, <1>3, <3>1
    <3> QED BY <3>1, <3>2, SMT
  <2> QED BY <2>2, <2>4, <2>6, <2>9, <2>10, <2>11 DEF Types
<1>5. CASE later = {}
  <2> DEFINE c2 == [c EXCEPT !.at = "invalidate"]
  <2>1. job' = [job EXCEPT ![t] = c2] /\ Track(c)
    BY <1>5 DEF NextGranule, Goto
  <2>2. "invalidate" \in Calls /\ "invalidate" \notin LockedPlaces /\ "invalidate" \notin WholePlaces
    BY DEF LockedPlaces, WholePlaces, Calls
  <2>3. c2 \in CallJobs /\ c2.at = "invalidate" /\ c2.op = c.op /\ c2.base = c.base /\ c2.len = c.len /\ c2.g = c.g
    BY <1>2, <2>2, ProceedFacts
  <2> HIDE DEF c2
  <2>4. Span(c2) = Span(c) /\ Covers(c2) = Covers(c)
    BY <2>3, SpanFacts
  <2>5. Move(t, c2)
    BY <1>1, <1>2, <2>1, <2>2, <2>3, <2>4 DEF Move
  <2>6. \A p \in Span(c) : Reaches(c2, p)
    BY <2>2, <2>3, <2>4 DEF Reaches
  <2>7. c.op = "mprotect" => \A p \in Span(c) : vma[p] # None
    BY <1>1 DEF Jobs, JobType
  <2>8. /\ vma' \in [Pages -> Mapping \cup {None}]
        /\ \A p \in Pages \ Span(c) : vma'[p] = vma[p]
        /\ \A p \in Pages \cap Span(c) : c.op = "munmap" => vma'[p] = None
    BY <1>2, <2>1, <2>7, TrackFacts
  <2>9. \A h \in Covers(c) : h <= c.g
    <3> SUFFICES ASSUME NEW h \in Covers(c) PROVE h <= c.g
      OBVIOUS
    <3>1. h \in Int /\ c.g \in Int /\ ~(h > c.g)
      BY <1>2, <1>3, <1>5
    <3> QED BY <3>1, SMT
  <2>10. \A p \in Pages : Reaches(c, p) => Reaches(c2, p)
    BY <2>6 DEF Reaches
  <2> QED BY <1>2, <2>3, <2>5, <2>6, <2>8, <2>9, <2>10
<1> QED BY <1>4, <1>5

(* What of a granule's pages and masks a call on one granule leaves.       *)
LEMMA OneGranule ==
  ASSUME Jobs, NEW t \in Threads, Calling(t), NEW g, g = job[t].g,
         \A h \in AllGranules \ {g} : mapped'[h] = mapped[h] /\ Granules'[h] = Granules[h],
         \A p \in Pages \ Span(job[t]) : vma'[p] = vma[p],
         tracked' = tracked, demoted' = demoted, blocks' = blocks, History
  PROVE  /\ g \in AllGranules /\ Frame(t)
         /\ \A h \in AllGranules : Armed(h)' => Armed(h)
<1>1. g \in AllGranules /\ g \in Covers(job[t])
  BY CoversFacts
<1>2. Frame(t)
  BY <1>1 DEF Frame, History
<1> QED BY <1>1, <1>2 DEF Armed, Known

(* mmap hands a granule that it covers to the kernel.                      *)
LEMMA MapWholeKept ==
  ASSUME GranuleAssumption, IInv, NEW t \in Threads, MapWholeGranule(t), History
  PROVE  IInv'
<1> USE DEF IInv, Still
<1> DEFINE c == job[t]
<1>1. Calling(t) /\ c.at = "emulate" /\ c.op = "mmap" /\ c.at \in LockedPlaces /\ PagesOf(c.g) \subseteq Span(c)
  BY DEF MapWholeGranule, Calling, Calls, LockedPlaces
<1>2. /\ c \in CallJobs /\ Span(c) \subseteq Pages /\ Covers(c) \subseteq AllGranules /\ c.g \in Covers(c)
      /\ \A p \in Span(c) : GranuleOf(p) \in Covers(c)
      /\ c.prot \in Protection
  BY <1>1, CoversFacts
<1>3. PICK c2 :
    /\ Move(t, c2) /\ c2.at \in {"emulate", "invalidate"}
    /\ vma' \in [Pages -> Mapping \cup {None}]
    /\ \A p \in Pages \ Span(c) : vma'[p] = vma[p]
    /\ c2.at = "emulate" => vma' = vma /\ \A h \in Covers(c) : h < c2.g => h <= c.g
    /\ c2.at = "invalidate" => \A h \in Covers(c) : h <= c.g
    /\ \A p \in Span(c) : vma'[p] = vma[p] \/ Reaches(c2, p)
    /\ \A p \in Pages : Reaches(c, p) => Reaches(c2, p)
    /\ \A p \in Span(c) : GranuleOf(p) <= c.g => Reaches(c2, p)
    /\ c2.at = "invalidate" /\ c2.op = "munmap" => \A p \in Span(c) : vma'[p] = None
  BY <1>1, NextGranuleFacts DEF MapWholeGranule
<1>4. c2.op = "mmap"
  BY <1>1, <1>3 DEF Move
<1>5. /\ tracked' = tracked /\ demoted' = demoted /\ blocks' = blocks /\ halfway' \in BOOLEAN
  BY DEF MapWholeGranule, smc, History
<1>6. [prot |-> c.prot, shared |-> FALSE] \in Mapping
  BY <1>2, SMT DEF Mapping
<1>7. mapped' = [mapped EXCEPT ![c.g] = [prot |-> c.prot, shared |-> FALSE]]
  BY DEF MapWholeGranule
<1>8. /\ mapped' \in [AllGranules -> Mapping \cup {None}] /\ mapped'[c.g] # None
      /\ \A h \in AllGranules \ {c.g} : mapped'[h] = mapped[h]
  BY <1>2, <1>6, <1>7 DEF Types, GranuleAssumption
<1>9. PICK tab : Kin(Table, tab, c.g) /\ TableBecomes(tab)
  <2> DEFINE set == NoteHostProt(SetIntended(Table, c.g, PagesOf(c.g), c.prot), c.g, c.prot)
  <2>1. Kin(Table, SetIntended(Table, c.g, PagesOf(c.g), c.prot), c.g)
    BY <1>2, TableFacts, SetIntendedFacts
  <2>2. Kin(Table, set, c.g)
    BY <1>2, <2>1, NoteHostProtFacts
  <2>3. TableBecomes([set EXCEPT !.entry[c.g].FEXBacked = FALSE])
    BY DEF MapWholeGranule
  <2> HIDE DEF set
  <2>4. Kin(Table, [set EXCEPT !.entry[c.g].FEXBacked = FALSE], c.g)
    BY <1>2, <2>2, DisownFacts
  <2> QED BY <2>3, <2>4
<1>10. /\ Granules' \in [AllGranules -> Entry \cup {None}] /\ intended' \in [Pages -> Protection \cup {None}]
       /\ \A h \in AllGranules \ {c.g} : Granules'[h] = Granules[h]
  BY <1>2, <1>9, KinBecomes
<1>11. Types'
  BY <1>3, <1>5, <1>8, <1>10 DEF Types, Known
<1>12. Frame(t) /\ \A h \in AllGranules : Armed(h)' => Armed(h)
  BY <1>1, <1>3, <1>5, <1>8, <1>10, OneGranule
<1>13. Jobs' /\ OneLock' /\ Apart' /\ CodeHere' /\ TailFree' /\ Marking'
  BY <1>3, <1>4, <1>12, MoveJobs
<1>14. \A h \in Covers(c) : h <= c.g => mapped'[h] # None
  <2> SUFFICES ASSUME NEW h \in Covers(c), h <= c.g, h # c.g PROVE mapped'[h] # None
    BY <1>8
  <2>1. h < c.g
    BY <1>2, GranuleOrder, SMT
  <2> QED BY <1>1, <1>2, <1>8, <2>1 DEF Through, Passed
<1>15. Mapped' /\ Through' /\ Backed'
  <2>1. \A g \in Covers(c) : mapped[g] # None => mapped'[g] # None
    BY <1>2, <1>8
  <2>2. ASSUME NEW p \in Span(c), vma'[p] # None PROVE mapped'[GranuleOf(p)] # None
    <3>1. CASE c2.at = "emulate"
      <4>1. vma[p] # None
        BY <1>3, <2>2, <3>1
      <4>2. mapped[GranuleOf(p)] # None
        BY <1>1, <4>1, SpanMapped
      <4> QED BY <1>2, <2>1, <4>2
    <3>2. CASE c2.at = "invalidate"
      BY <1>2, <1>3, <1>14, <3>2
    <3> QED BY <1>3, <3>1, <3>2
  <2>3. c2.at \in LockedPlaces => \A h \in Covers(c) : h < c2.g => mapped'[h] # None
    BY <1>3, <1>14 DEF LockedPlaces
  <2>4. \A g \in Covers(c) : Granules'[g] # None => (Granules'[g].FEXBacked => mapped'[g] # None)
    BY <1>2, <1>8, <1>10 DEF Backed
  <2>5. c2.at \notin {"fill", "protect"} /\ c2.at # "sharedtrack"
    BY <1>3
  <2> QED BY <1>3, <1>12, <2>1, <2>2, <2>3, <2>4, <2>5, MoveMaps
<1>16. Wanted' /\ Demoted' /\ Kept'
  <2>1. ASSUME NEW p \in Pages, Masked(p), Writable(p), ~Reaches(c2, p) PROVE Masked(p)'
    <3>1. GranuleOf(p) # c.g
      <4> SUFFICES ASSUME GranuleOf(p) = c.g PROVE FALSE
        OBVIOUS
      <4>1. p \in Span(c)
        BY <1>1, PageFacts
      <4>2. GranuleOf(p) <= c.g
        BY <1>2, GranuleOrder, SMT
      <4> QED BY <1>3, <2>1, <4>1, <4>2
    <3>2. mapped'[GranuleOf(p)] = mapped[GranuleOf(p)]
      BY <1>8, <3>1, PageFacts
    <3> QED BY <1>3, <1>5, <2>1, <3>1, <3>2, MoveMasked
  <2>2. c2.at # "protect"
    BY <1>3
  <2> QED BY <1>3, <1>12, <2>1, <2>2, MoveKept
<1> QED BY <1>11, <1>13, <1>15, <1>16

----------------------------------------------------------------------------
(* A call ends, and leaves the memory as it is.                            *)
Ends(t) ==
  /\ Calling(t) /\ Goto(t, Idle)
  /\ vma' = vma /\ Granules' = Granules /\ intended' = intended /\ mapped' = mapped
  /\ tracked' = tracked /\ demoted' = demoted
  /\ blocks' \in [Pages -> {"none", "bare", "guarded"}] /\ \A p \in Pages : blocks'[p] \in {"none", blocks[p]}
  /\ job[t].op # "munmap" \/ job[t].at \notin LockedPlaces

(* The threads after that.                                                 *)
LEMMA EndsJob ==
  ASSUME Jobs, NEW t \in Threads, Ends(t)
  PROVE  /\ DOMAIN job' = Threads /\ job'[t].at = "idle" /\ \A u \in Threads \ {t} : job'[u] = job[u]
         /\ "idle" \notin Calls \cup CodePlaces \cup LockedPlaces \cup WholePlaces
         /\ \A u \in Threads : job'[u].at # "idle" => u # t /\ job'[u] = job[u]
         /\ \A u \in Threads : job[u].at \notin Calls => u # t
<1>1. Idle.at = "idle"
  BY DEF Idle
<1>2. DOMAIN job' = Threads /\ job'[t] = Idle /\ \A u \in Threads \ {t} : job'[u] = job[u]
  BY DEF Jobs, Ends, Goto
<1>3. "idle" \notin Calls \cup CodePlaces \cup LockedPlaces \cup WholePlaces
  BY DEF Calls, CodePlaces, LockedPlaces, WholePlaces
<1> QED BY <1>1, <1>2, <1>3 DEF Ends, Calling

(* The end of a call leaves the invariant but for Demoted and Kept.        *)
LEMMA EndsStill ==
  ASSUME Still, NEW t \in Threads, Ends(t), History
  PROVE  Still'
<1> USE DEF Still
<1>1. /\ DOMAIN job' = Threads /\ job'[t].at = "idle" /\ \A u \in Threads \ {t} : job'[u] = job[u]
      /\ "idle" \notin Calls \cup CodePlaces \cup LockedPlaces \cup WholePlaces
      /\ \A u \in Threads : job'[u].at # "idle" => u # t /\ job'[u] = job[u]
  BY EndsJob
<1>2. /\ vma' = vma /\ Granules' = Granules /\ intended' = intended /\ mapped' = mapped
      /\ tracked' = tracked /\ demoted' = demoted /\ SiblingPolicy' = SiblingPolicy /\ halfway' \in BOOLEAN
  BY DEF Ends, History
<1>3. Types'
  BY <1>2 DEF Types, Ends, Known
<1>4. Jobs'
  <2>1. JobType(t)'
    BY <1>1 DEF JobType, HandlerJobs, Calling, CodePlaces
  <2>2. \A u \in Threads \ {t} : JobType(u)'
    <3> SUFFICES ASSUME NEW u \in Threads \ {t} PROVE JobType(u)'
      OBVIOUS
    <3>1. JobType(u) /\ job'[u] = job[u]
      BY <1>1 DEF Jobs
    <3> QED BY <1>2, <3>1 DEF JobType, Calling
  <2> QED BY <1>1, <2>1, <2>2 DEF Jobs
<1>5. OneLock'
  BY <1>1 DEF OneLock
<1>6. Apart'
  BY <1>1 DEF Apart, Calling
<1>7. CodeHere'
  <2>1. \A u \in Threads : Calling(u)' => Calling(u) /\ job'[u] = job[u]
    BY <1>1 DEF Calling
  <2> QED BY <1>1, <1>2, <2>1 DEF CodeHere
<1>8. Marking'
  <2> SUFFICES ASSUME NEW u \in Threads, job[u].at = "marking", job'[u] = job[u]
               PROVE  Writable(job[u].page)' /\ ~Open(GranuleOf(job[u].page))'
    BY <1>1 DEF Marking
  <2> QED BY <1>2 DEF Marking, Writable, Open
<1>9. TailFree'
  BY <1>1, <1>2 DEF TailFree, Writable
<1>10. Mapped'
  <2> SUFFICES ASSUME NEW p \in Pages, vma[p] # None, mapped[GranuleOf(p)] = None
               PROVE  \E u \in Threads : /\ job'[u].at \in {"emulate", "protect"}
                                        /\ job'[u].op = "munmap" /\ p \in Span(job'[u])
    BY <1>2 DEF Mapped
  <2>1. PICK u \in Threads : job[u].at \in {"emulate", "protect"} /\ job[u].op = "munmap" /\ p \in Span(job[u])
    BY DEF Mapped
  <2>2. u # t
    BY <2>1 DEF Ends, LockedPlaces
  <2> QED BY <1>1, <2>1, <2>2
<1>11. Through'
  <2>1. Passed(job'[t], mapped, Granules)
    BY <1>1 DEF Passed
  <2>2. \A u \in Threads \ {t} : Passed(job'[u], mapped, Granules)
    BY <1>1 DEF Through
  <2> QED BY <1>2, <2>1, <2>2 DEF Through
<1>12. Backed'
  BY <1>1, <1>2 DEF Backed
<1>13. Wanted'
  <2> SUFFICES ASSUME NEW u \in Threads, job[u].at = "protect", job'[u] = job[u],
                      job[u].want = None \/ "w" \in job[u].want
               PROVE  ~Armed(job[u].g)'
    BY <1>1 DEF Wanted
  <2> QED BY <1>2 DEF Wanted, Armed, Known
<1> QED BY <1>3, <1>4, <1>5, <1>6, <1>7, <1>8, <1>9, <1>10, <1>11, <1>12, <1>13

(* mmap fails on a granule that it has not opened.                         *)
LEMMA FailKept ==
  ASSUME IInv, NEW t \in Threads, Ends(t), History, blocks' = blocks, job[t].at \in {"emulate", "fill"},
         job[t].at = "fill" => ~Open(job[t].g)
  PROVE  IInv'
<1> USE DEF IInv
<1>1. /\ DOMAIN job' = Threads /\ job'[t].at = "idle" /\ \A u \in Threads \ {t} : job'[u] = job[u]
      /\ "idle" \notin Calls \cup CodePlaces \cup LockedPlaces \cup WholePlaces
      /\ \A u \in Threads : job'[u].at # "idle" => u # t /\ job'[u] = job[u]
      /\ \A u \in Threads : job[u].at \notin Calls => u # t
  BY EndsJob DEF Still
<1>2. /\ vma' = vma /\ mapped' = mapped /\ tracked' = tracked /\ demoted' = demoted
      /\ SiblingPolicy' = SiblingPolicy /\ halfway' = (halfway \/ \E u \in Threads : GivesUp(u))
  BY DEF Ends, History
<1>3. DOMAIN job = Threads
  BY DEF Still, Jobs
<1>4. \A p \in Pages : (Live(p)' => Live(p)) /\ (Coming(p)' => Coming(p))
  BY <1>1 DEF Live, Coming, CodePlaces
<1>5. \A p \in Pages : Doomed(p) => Doomed(p)'
  <2>1. "noted" \notin Calls
    BY DEF Calls
  <2> QED BY <1>1, <1>3, <2>1 DEF Doomed
<1>6. Still'
  BY EndsStill
<1>7. Demoted'
  BY <1>2, <1>4, <1>5 DEF Demoted
<1>8. Kept'
  <2> SUFFICES ASSUME SiblingPolicy = "Invalidate", ~halfway', NEW p \in Pages, Live(p), Writable(p)
               PROVE  Doomed(p)' \/ Remapping(p)' \/ Masked(p)'
    BY <1>2, <1>4 DEF Kept, Writable
  <2>1. ~halfway /\ ~GivesUp(t)
    BY <1>2
  <2>2. \A h \in Covers(job[t]) : ~(h < job[t].g)
    <3>1. job'[t] = Idle
      BY <1>3 DEF Ends, Goto
    <3> QED BY <2>1, <3>1 DEF GivesUp
  <2>3. ~Reaches(job[t], p)
    <3>1. job[t].at \in LockedPlaces /\ job[t].at # "protect"
      BY DEF LockedPlaces
    <3>2. p \in Span(job[t]) => GranuleOf(p) \in Covers(job[t])
      BY DEF Covers
    <3> QED BY <2>2, <3>1, <3>2 DEF Reaches
  <2>4. Remapping(p) => Remapping(p)'
    BY <1>1, <2>3 DEF Remapping
  <2>5. Masked(p) => Masked(p)'
    <3>1. Converted(GranuleOf(p)) /\ Open(GranuleOf(p)) => Converted(GranuleOf(p))'
      BY <1>1, <1>3 DEF Converted
    <3> QED BY <1>2, <3>1 DEF Masked, Known, Open
  <2>6. Doomed(p) \/ Remapping(p) \/ Masked(p)
    BY <2>1 DEF Kept
  <2> QED BY <1>5, <2>4, <2>5, <2>6
<1> QED BY <1>6, <1>7, <1>8

(* InvalidateCodeRangeIfNecessary ends a call.                             *)
LEMMA InvalidateKept ==
  ASSUME IInv, NEW t \in Threads, InvalidateCodeRange(t), History
  PROVE  IInv'
<1> USE DEF IInv
<1>b. blocks' = [p \in Pages |-> IF p \in Span(job[t]) THEN "none" ELSE blocks[p]]
  BY DEF InvalidateCodeRange, Invalidate
<1>0. Ends(t)
  <2>1. job[t].at \notin LockedPlaces /\ Calling(t)
    BY DEF InvalidateCodeRange, LockedPlaces, Calling, Calls
  <2>2. blocks' \in [Pages -> {"none", "bare", "guarded"}] /\ \A p \in Pages : blocks'[p] \in {"none", blocks[p]}
    BY <1>b DEF Still, Types
  <2> QED BY <2>1, <2>2 DEF Ends, InvalidateCodeRange, table, smc
<1>1. /\ DOMAIN job' = Threads /\ job'[t].at = "idle" /\ \A u \in Threads \ {t} : job'[u] = job[u]
      /\ "idle" \notin Calls \cup CodePlaces \cup LockedPlaces \cup WholePlaces
      /\ \A u \in Threads : job'[u].at # "idle" => u # t /\ job'[u] = job[u]
      /\ \A u \in Threads : job[u].at \notin Calls => u # t
  BY <1>0, EndsJob DEF Still
<1>2. /\ vma' = vma /\ mapped' = mapped /\ tracked' = tracked /\ demoted' = demoted
      /\ SiblingPolicy' = SiblingPolicy /\ (halfway => halfway')
  BY <1>0 DEF Ends, History
<1>3. DOMAIN job = Threads
  BY DEF Still, Jobs
<1>4. \A u \in Threads : job[u].at \notin CodePlaces
  BY DEF InvalidateCodeRange, Compiling, CodePlaces
<1>5. \A p \in Pages : (Live(p)' => Live(p) /\ p \notin Span(job[t])) /\ (Coming(p)' => Coming(p))
                       /\ (blocks'[p] = "bare" => blocks[p] = "bare")
  <2> SUFFICES ASSUME NEW p \in Pages
               PROVE  (Live(p)' => Live(p) /\ p \notin Span(job[t])) /\ ~Coming(p)'
                       /\ (blocks'[p] = "bare" => blocks[p] = "bare")
    OBVIOUS
  <2>1. \A u \in Threads : job'[u].at \notin CodePlaces
    BY <1>1, <1>4
  <2>2. blocks'[p] = "bare" => blocks[p] = "bare" /\ p \notin Span(job[t])
    BY <1>b
  <2> QED BY <2>1, <2>2 DEF Live, Coming, CodePlaces
<1>6. \A p \in Pages : Doomed(p) => Doomed(p)'
  <2>1. "noted" \notin Calls
    BY DEF Calls
  <2> QED BY <1>1, <1>3, <2>1 DEF Doomed
<1>7. Still'
  BY <1>0, EndsStill
<1>8. Demoted'
  BY <1>2, <1>5, <1>6 DEF Demoted
<1>9. Kept'
  <2> SUFFICES ASSUME SiblingPolicy = "Invalidate", ~halfway, NEW p \in Pages, Live(p), Writable(p), p \notin Span(job[t])
               PROVE  Doomed(p)' \/ Remapping(p)' \/ Masked(p)'
    BY <1>2, <1>5 DEF Kept, Writable
  <2>1. ~Reaches(job[t], p)
    BY DEF Reaches
  <2>2. Remapping(p) => Remapping(p)'
    BY <1>1, <2>1 DEF Remapping
  <2>3. Masked(p) => Masked(p)'
    <3>1. job[t].at \notin {"fill", "protect"}
      BY DEF InvalidateCodeRange
    <3>2. Converted(GranuleOf(p)) => Converted(GranuleOf(p))'
      BY <1>1, <1>3, <3>1 DEF Converted
    <3> QED BY <1>2, <3>2 DEF Masked, Known, Open
  <2>4. Doomed(p) \/ Remapping(p) \/ Masked(p)
    BY DEF Kept
  <2> QED BY <1>6, <2>2, <2>3, <2>4
<1> QED BY <1>7, <1>8, <1>9

----------------------------------------------------------------------------
(* A call goes on with its granule under the lock.                         *)
LEMMA SameGranuleKept ==
  ASSUME GranuleAssumption, IInv, NEW t \in Threads, NEW c2, Move(t, c2), History, Types',
         job[t].at \in {"emulate", "fill"}, c2.at \in LockedPlaces, c2.g = job[t].g,
         vma' = vma, tracked' = tracked, demoted' = demoted, blocks' = blocks,
         \A h \in AllGranules \ {c2.g} : mapped'[h] = mapped[h] /\ Granules'[h] = Granules[h],
         mapped[c2.g] # None => mapped'[c2.g] # None,
         c2.at \in {"fill", "protect"} /\ c2.op = "mmap" => mapped'[c2.g] # None,
         Granules'[c2.g] # None => (Granules'[c2.g].FEXBacked => mapped'[c2.g] # None),
         c2.op = "munmap" => c2.at = "protect", c2.at = "protect" => Granules'[c2.g] # None,
         c2.at = "protect" => (c2.want = None \/ "w" \in c2.want => ~Armed(c2.g)),
         \/ c2.at \in {"fill", "protect"} /\ c2.op = "mmap"
         \/ ~Open(c2.g)'
         \/ mapped'[c2.g] = mapped[c2.g] /\ job[t].at = "emulate"
  PROVE  IInv'
<1> USE DEF IInv, Still
<1> DEFINE c == job[t]
<1>1. Calling(t) /\ c.at \in LockedPlaces /\ c.at # "protect" /\ c.op = c2.op
  BY DEF LockedPlaces, Move
<1>2. /\ Span(c) \subseteq Pages /\ Covers(c) \subseteq AllGranules /\ c.g \in Covers(c)
      /\ \A p \in Span(c) : GranuleOf(p) \in Covers(c)
  BY <1>1, CoversFacts
<1>3. /\ DOMAIN job' = Threads /\ job'[t] = c2 /\ \A u \in Threads \ {t} : job'[u] = job[u]
      /\ Span(c2) = Span(c) /\ Covers(c2) = Covers(c) /\ c2.at \in Calls
  BY MoveJob
<1>4. Frame(t) /\ \A h \in AllGranules : Armed(h)' => Armed(h)
  BY <1>1, OneGranule
<1>5. Jobs' /\ OneLock' /\ Apart' /\ CodeHere' /\ TailFree' /\ Marking'
  <2>1. c.op = "mprotect" => \A p \in Span(c) : vma[p] # None
    BY <1>1 DEF Jobs, JobType, LockedPlaces
  <2> QED BY <1>1, <1>4, <2>1, MoveJobs
<1>6. \A g \in Covers(c) : mapped[g] # None => mapped'[g] # None
  BY <1>2
<1>7. Mapped' /\ Through' /\ Backed'
  <2>1. ASSUME NEW p \in Span(c), vma[p] # None, c2.op # "munmap" PROVE mapped'[GranuleOf(p)] # None
    <3>1. mapped[GranuleOf(p)] # None
      BY <1>1, <2>1, SpanMapped
    <3> QED BY <1>2, <1>6, <3>1
  <2>2. ASSUME c2.op = "mmap", NEW h \in Covers(c), h < c2.g \/ (h = c2.g /\ c2.at \in {"fill", "protect"})
        PROVE  mapped'[h] # None
    <3>1. CASE h = c2.g /\ c2.at \in {"fill", "protect"}
      BY <2>2, <3>1
    <3>2. CASE h < c2.g
      BY <1>1, <1>6, <2>2, <3>2 DEF Through, Passed
    <3> QED BY <2>2, <3>1, <3>2
  <2>3. \A g \in Covers(c) : Granules'[g] # None => (Granules'[g].FEXBacked => mapped'[g] # None)
    BY <1>2 DEF Backed
  <2>4. c2.at # "sharedtrack"
    BY DEF LockedPlaces
  <2>5. \A p \in Span(c) : vma'[p] # None =>
           mapped'[GranuleOf(p)] # None \/ (c2.at \in {"emulate", "protect"} /\ c2.op = "munmap")
    BY <2>1
  <2> QED BY <1>4, <1>6, <2>2, <2>3, <2>4, <2>5, MoveMaps
<1>8. Wanted' /\ Demoted' /\ Kept'
  <2>1. \A p \in Pages : Reaches(c, p) => Reaches(c2, p)
    BY <1>1, <1>3 DEF Reaches
  <2>2. ASSUME NEW p \in Pages, Masked(p) PROVE Masked(p)'
    <3>1. CASE GranuleOf(p) # c2.g
      <4>1. mapped'[GranuleOf(p)] = mapped[GranuleOf(p)]
        BY <3>1, PageFacts
      <4> QED BY <2>2, <3>1, <4>1, MoveMasked
    <3>2. CASE GranuleOf(p) = c2.g /\ c2.at \in {"fill", "protect"} /\ c2.op = "mmap"
      <4>1. Converted(GranuleOf(p))'
        BY <1>3, <3>2 DEF Converted
      <4> QED BY <2>2, <4>1 DEF Masked, Known
    <3>3. CASE GranuleOf(p) = c2.g /\ ~Open(c2.g)'
      <4>1. ~Open(GranuleOf(p))'
        BY <3>3 DEF Open
      <4> QED BY <2>2, <4>1 DEF Masked, Known
    <3>4. CASE GranuleOf(p) = c2.g /\ mapped'[c2.g] = mapped[c2.g] /\ job[t].at = "emulate"
      BY <2>2, <3>4, MoveMasked
    <3> QED BY <3>1, <3>2, <3>3, <3>4
  <2>3. \A h \in AllGranules : Armed(h)' => Armed(h)
    BY <1>4
  <2>4. ~Armed(c2.g) => ~Armed(c2.g)'
    BY DEF Armed, Known
  <2> QED BY <1>4, <2>1, <2>2, <2>3, <2>4, MoveKept
<1> QED BY <1>5, <1>7, <1>8

(* RematerialiseIfNeeded up to its mprotect: what it is about to give the  *)
(* granule has no write permission while the granule is armed.             *)
LEMMA RematerialiseKept ==
  ASSUME GranuleAssumption, IInv, NEW t \in Threads, History,
         job[t].at \in {"emulate", "fill"}, job[t].at = "fill" => job[t].op = "mmap" /\ mapped[job[t].g] # None,
         job[t].at = "emulate" => job[t].op # "mmap",
         NEW tab, Kin(Table, tab, job[t].g), Rematerialise(t, tab, job[t].g),
         UNCHANGED <<vma, mapped, smc, blocks>>
  PROVE  IInv'
<1> USE DEF IInv, Still
<1> DEFINE c == job[t]
<1> DEFINE g == job[t].g
<1> DEFINE want == WantedProt(tab, g)
<1> DEFINE w == IF want = tab.entry[g].HostProt /\ ~Known(g) THEN None ELSE want
<1>1. Calling(t) /\ c.at \in LockedPlaces /\ c.at # "invalidate"
  BY DEF LockedPlaces, Calling, Calls
<1>2. c \in CallJobs /\ g \in Covers(c) /\ g \in AllGranules
  BY <1>1, CoversFacts
<1>3. want \in Protection /\ (Armed(g) => "w" \notin want)
  <2>1. \A p \in PagesOf(g) : tab.intended[p] # None => tab.intended[p] \in Protection
    BY SMT DEF Kin, Tables, PagesOf
  <2>2. UnionProtOf(tab, g) \in Protection
    BY <2>1 DEF UnionProtOf, Protection
  <2> QED BY <2>2 DEF WantedProt, Protection
<1>4. w \in Protection \cup {None} /\ (w = None \/ "w" \in w => ~Armed(g))
  BY <1>3 DEF Armed, GranuleAssumption
<1>5. job' = [job EXCEPT ![t] = On(c, "protect", g, w)] /\ TableBecomes(tab)
  BY DEF Rematerialise, Goto
<1> DEFINE c2 == On(c, "protect", g, w)
<1>6. c2 \in CallJobs /\ c2.at = "protect" /\ c2.op = c.op /\ c2.base = c.base /\ c2.len = c.len /\ c2.g = g /\ c2.want = w
  <2>1. "protect" \in Calls
    BY DEF Calls
  <2> HIDE DEF w
  <2> QED BY <1>2, <1>4, <2>1, GranuleFacts, SMT
<1> HIDE DEF c2, w, want
<1>7. Span(c2) = Span(c) /\ Covers(c2) = Covers(c)
  BY <1>6, SpanFacts
<1>8. "protect" \in LockedPlaces /\ "protect" \notin WholePlaces
  BY DEF LockedPlaces, WholePlaces
<1>9. Move(t, c2)
  <2>1. job' = [job EXCEPT ![t] = c2]
    BY <1>5 DEF c2
  <2> QED BY <1>1, <1>2, <1>6, <1>7, <1>8, <2>1 DEF Move
<1>10. /\ Granules' \in [AllGranules -> Entry \cup {None}] /\ intended' \in [Pages -> Protection \cup {None}]
       /\ \A h \in AllGranules \ {g} : Granules'[h] = Granules[h]
       /\ Granules'[g] # None
       /\ Granules'[g].FEXBacked => Granules[g] # None /\ Granules[g].FEXBacked
  BY <1>2, <1>5, KinBecomes
<1>11. /\ vma' = vma /\ mapped' = mapped /\ tracked' = tracked /\ demoted' = demoted /\ blocks' = blocks
       /\ halfway' \in BOOLEAN
  BY DEF smc, History
<1>12. Types'
  BY <1>10, <1>11 DEF Types, Known
<1>13. Granules'[g] # None => (Granules'[g].FEXBacked => mapped'[g] # None)
  BY <1>2, <1>10, <1>11 DEF Backed
<1> QED BY <1>4, <1>6, <1>8, <1>9, <1>10, <1>11, <1>12, <1>13, SameGranuleKept

(* An entry of FEX's own memory replaces another.                          *)
LEMMA OwnFacts ==
  ASSUME NEW tab \in Tables, NEW g \in AllGranules, NEW e \in Entry, NEW tab2, tab2 = [tab EXCEPT !.entry[g] = e]
  PROVE  /\ tab2 \in Tables
         /\ \A h \in AllGranules \ {g} : tab2.entry[h] = tab.entry[h]
<1>1. tab2 \in Tables
  BY SMT DEF Tables
<1>2. \A h \in AllGranules \ {g} : tab2.entry[h] = tab.entry[h]
  BY SMT DEF Tables
<1> QED BY <1>1, <1>2

(* MakeGranuleFEXBacked.                                                   *)
LEMMA MakeBackedKept ==
  ASSUME GranuleAssumption, IInv, NEW t \in Threads, MakeGranuleFEXBacked(t), History
  PROVE  IInv'
<1> USE DEF IInv, Still
<1> DEFINE c == job[t]
<1> DEFINE g == job[t].g
<1> DEFINE entry == Granules[g]
<1> DEFINE preserve == HasLiveSiblings(Table, g, Span(c))
<1> DEFINE seeded == IF preserve THEN SeedGranuleFromVMAs(Table, g) ELSE FindOrCreate(Table, g)
<1> DEFINE foreign == IF entry = None THEN TRUE ELSE ~entry.FEXBacked
<1> DEFINE ours == [HostProt |-> RW, FEXBacked |-> TRUE, SharedFd |-> entry # None /\ entry.SharedFd]
<1> DEFINE private == [prot |-> RW, shared |-> FALSE]
<1>1. Calling(t) /\ c.at = "emulate" /\ c.op = "mmap" /\ c.at \in LockedPlaces /\ c.at # "invalidate"
  BY DEF MakeGranuleFEXBacked, LockedPlaces, Calling, Calls
<1>2. c \in CallJobs /\ g \in Covers(c) /\ g \in AllGranules
  BY <1>1, CoversFacts
<1>3. /\ vma' = vma /\ tracked' = tracked /\ demoted' = demoted /\ blocks' = blocks /\ halfway' \in BOOLEAN
  BY DEF MakeGranuleFEXBacked, smc, History
<1>4. ASSUME NEW tab \in Tables, TableBecomes(tab), \A h \in AllGranules \ {g} : tab.entry[h] = Granules[h],
             mapped' \in [AllGranules -> Mapping \cup {None}], mapped'[g] # None,
             \A h \in AllGranules \ {g} : mapped'[h] = mapped[h], Proceed(t, "fill")
      PROVE  IInv'
  <2>1. "fill" \in Calls \ {"pass"} /\ "fill" \notin WholePlaces /\ "fill" \in LockedPlaces
    BY DEF Calls, WholePlaces, LockedPlaces
  <2>2. PICK c2 : Move(t, c2) /\ c2.at = "fill" /\ c2.g = job[t].g /\ c2.want = job[t].want
    <3>1. Proceed(t, "fill")
      BY <1>4
    <3> QED BY <1>1, <2>1, <3>1, MovePlace
  <2>3. Granules' \in [AllGranules -> Entry \cup {None}] /\ Granules' = tab.entry
        /\ intended' \in [Pages -> Protection \cup {None}]
    BY <1>4, TableFacts
  <2>4. Types'
    BY <1>3, <1>4, <2>3 DEF Types, Known
  <2>5. c2.op = "mmap"
    BY <1>1, <2>2 DEF Move
  <2>6. \A h \in AllGranules \ {g} : Granules'[h] = Granules[h]
    BY <1>4, <2>3
  <2> QED BY <1>1, <1>3, <1>4, <2>1, <2>2, <2>4, <2>5, <2>6, SameGranuleKept
<1>5. Table \in Tables /\ Table.entry = Granules
  BY TableFacts
<1>6. RW \in Protection
  BY DEF Protection
<1>7. private \in Mapping
  BY <1>6, SMT DEF Mapping
<1>8. ours \in Entry /\ [ours EXCEPT !.SharedFd = FALSE] \in Entry
  <2>1. ASSUME NEW fd \in BOOLEAN
        PROVE  [HostProt |-> RW, FEXBacked |-> TRUE, SharedFd |-> fd] \in Entry
    BY <1>6, SMT DEF Entry
  <2>3. ASSUME NEW e \in Entry, NEW b \in BOOLEAN PROVE [e EXCEPT !.SharedFd = b] \in Entry
    BY SMT DEF Entry
  <2>2. (entry # None /\ entry.SharedFd) \in BOOLEAN
    <3>1. entry # None => entry \in Entry
      BY <1>2 DEF Types
    <3>2. \A e \in Entry : e.SharedFd \in BOOLEAN
      BY SMT DEF Entry
    <3> QED BY <3>1, <3>2
  <2>4. ours \in Entry
    BY <2>1, <2>2
  <2> HIDE DEF ours
  <2> QED BY <2>3, <2>4
<1>9. ASSUME mapped' = [mapped EXCEPT ![g] = private]
      PROVE  /\ mapped' \in [AllGranules -> Mapping \cup {None}] /\ mapped'[g] # None
             /\ \A h \in AllGranules \ {g} : mapped'[h] = mapped[h]
  BY <1>2, <1>7, <1>9 DEF Types, GranuleAssumption
<1>10. CASE /\ TableBecomes([Table EXCEPT !.entry[g] = [ours EXCEPT !.SharedFd = FALSE]])
            /\ mapped' = [mapped EXCEPT ![g] = private] /\ Proceed(t, "fill")
  <2> HIDE DEF private, ours
  <2>1. ASSUME NEW e \in Entry, NEW tab, tab = [Table EXCEPT !.entry[g] = e], TableBecomes(tab) PROVE IInv'
    <3>1. tab \in Tables /\ \A h \in AllGranules \ {g} : tab.entry[h] = Granules[h]
      BY <1>2, <1>5, <2>1, OwnFacts, SMT
    <3> QED BY <1>4, <1>9, <1>10, <2>1, <3>1
  <2> QED BY <1>8, <1>10, <2>1
<1>11. CASE ~foreign /\ Proceed(t, "fill")
            /\ IF "w" \in entry.HostProt
                THEN UNCHANGED <<table, mapped>>
                ELSE /\ TableBecomes(NoteHostProt(Table, g, RW))
                     /\ mapped' = [mapped EXCEPT ![g] = Reprotected(g, RW)]
  <2>1. entry # None /\ entry.FEXBacked /\ mapped[g] # None
    BY <1>2, <1>11 DEF Backed
  <2>2. CASE UNCHANGED <<table, mapped>>
    <3>1. TableBecomes(Table) /\ mapped' = mapped
      BY <1>5, <2>2, TableFacts DEF TableBecomes, table
    <3> QED BY <1>4, <1>5, <1>11, <2>1, <3>1 DEF Types
  <2>3. CASE TableBecomes(NoteHostProt(Table, g, RW)) /\ mapped' = [mapped EXCEPT ![g] = Reprotected(g, RW)]
    <3>1. Kin(Table, Table, g)
      BY <1>5, <2>1 DEF Kin
    <3>2. Kin(Table, NoteHostProt(Table, g, RW), g)
      BY <1>2, <1>6, <3>1, NoteHostProtFacts
    <3>3. Reprotected(g, RW) \in Mapping \cup {None} /\ Reprotected(g, RW) # None
      BY <1>2, <1>6, <2>1, ReprotectedFacts
    <3>4. /\ mapped' \in [AllGranules -> Mapping \cup {None}] /\ mapped'[g] # None
          /\ \A h \in AllGranules \ {g} : mapped'[h] = mapped[h]
      BY <1>2, <2>3, <3>3 DEF Types
    <3>5. NoteHostProt(Table, g, RW) \in Tables
          /\ \A h \in AllGranules \ {g} : NoteHostProt(Table, g, RW).entry[h] = Granules[h]
      BY <1>5, <3>2 DEF Kin
    <3> QED BY <1>4, <1>11, <2>3, <3>4, <3>5
  <2> QED BY <1>11, <2>2, <2>3
<1>12. CASE Goto(t, Idle) /\ UNCHANGED <<table, mapped>>
  <2>1. Ends(t)
    BY <1>1, <1>3, <1>12 DEF Ends, table, Types
  <2> QED BY <1>1, <1>3, <2>1, FailKept
<1>13. CASE /\ TableBecomes([seeded EXCEPT !.entry[g] = ours])
            /\ mapped' = [mapped EXCEPT ![g] = private] /\ Proceed(t, "fill")
  <2>1. Kin(Table, FindOrCreate(Table, g), g) /\ Kin(Table, SeedGranuleFromVMAs(Table, g), g)
    BY <1>2, <1>5, FindOrCreateFacts, SeedFacts
  <2>2. seeded \in Tables /\ \A h \in AllGranules \ {g} : seeded.entry[h] = Granules[h]
    BY <1>5, <2>1 DEF Kin
  <2> HIDE DEF private, ours, seeded
  <2>3. ASSUME NEW tab, tab = [seeded EXCEPT !.entry[g] = ours]
        PROVE  tab \in Tables /\ \A h \in AllGranules \ {g} : tab.entry[h] = Granules[h]
    BY <1>2, <1>8, <2>2, <2>3, OwnFacts, SMT
  <2> QED BY <1>4, <1>9, <1>13, <2>3
<1> QED BY <1>10, <1>11, <1>12, <1>13 DEF MakeGranuleFEXBacked

(* Filling the new pages: on to the mprotect, or the end of the thread's   *)
(* progress, or an error.                                                  *)
LEMMA FillKept ==
  ASSUME GranuleAssumption, IInv, NEW t \in Threads, Fill(t), History
  PROVE  IInv'
<1> USE DEF IInv, Still
<1> DEFINE c == job[t]
<1>1. Calling(t) /\ c.at = "fill" /\ c.op = "mmap" /\ c.at \in LockedPlaces /\ c.at # "invalidate"
  BY DEF Fill, LockedPlaces, Calling, Calls, Jobs, JobType
<1>2. c \in CallJobs /\ c.g \in Covers(c) /\ c.g \in AllGranules /\ c.prot \in Protection
  BY <1>1, CoversFacts
<1>3. /\ vma' = vma /\ mapped' = mapped /\ tracked' = tracked /\ demoted' = demoted /\ blocks' = blocks
      /\ halfway' \in BOOLEAN
  BY DEF Fill, smc, History
<1>4. mapped[c.g] # None
  BY <1>1, <1>2 DEF Through, Passed
<1>5. CASE "w" \in mapped[c.g].prot
  <2> DEFINE tab == SetIntended(Table, c.g, Sub(c, c.g), c.prot)
  <2>1. Kin(Table, tab, c.g)
    BY <1>2, TableFacts, SetIntendedFacts
  <2>2. Rematerialise(t, tab, c.g) /\ UNCHANGED <<vma, mapped, smc, blocks>>
    BY <1>5 DEF Fill
  <2> HIDE DEF tab
  <2> QED BY <1>1, <1>4, <2>1, <2>2, RematerialiseKept
<1>6. CASE "w" \notin mapped[c.g].prot
  <2>1. ~Open(c.g)
    BY <1>6 DEF Open
  <2>2. Granules' = Granules /\ intended' = intended
    BY <1>6 DEF Fill, table
  <2>3. CASE Proceed(t, "wedged")
    <3>1. "wedged" \in Calls \ {"pass"} /\ "wedged" \notin WholePlaces /\ "wedged" \in LockedPlaces
      BY DEF Calls, WholePlaces, LockedPlaces
    <3>2. PICK c2 : Move(t, c2) /\ c2.at = "wedged" /\ c2.g = job[t].g /\ c2.want = job[t].want
      BY <1>1, <2>3, <3>1, MovePlace
    <3>3. c2.op = "mmap"
      BY <1>1, <3>2 DEF Move
    <3>4. Types'
      BY <1>3, <2>2 DEF Types, Known
    <3>5. ~Open(c2.g)'
      BY <1>3, <2>1, <3>2 DEF Open
    <3>6. Granules'[c2.g] # None => (Granules'[c2.g].FEXBacked => mapped'[c2.g] # None)
      BY <1>3, <1>4, <3>2
    <3> QED BY <1>1, <1>3, <2>2, <3>1, <3>2, <3>3, <3>4, <3>5, <3>6, SameGranuleKept
  <2>4. CASE Goto(t, Idle)
    <3>1. Ends(t)
      BY <1>1, <1>3, <2>2, <2>4 DEF Ends, Types
    <3> QED BY <1>1, <1>3, <2>1, <3>1, FailKept
  <2> QED BY <1>6, <2>3, <2>4 DEF Fill
<1> QED BY <1>5, <1>6

(* munmap of a part of a granule: the granule goes when nothing is left.   *)
LEMMA MunmapGranuleKept ==
  ASSUME GranuleAssumption, IInv, NEW t \in Threads, MunmapGranule(t), History
  PROVE  IInv'
<1> USE DEF IInv, Still
<1> DEFINE c == job[t]
<1> DEFINE g == job[t].g
<1> DEFINE seed == SeedGranuleFromVMAs(Table, g)
<1> DEFINE cleared == ClearIntended(seed, Sub(c, g))
<1> DEFINE empty == \A p \in PagesOf(g) : cleared.intended[p] = None
<1>1. Calling(t) /\ c.at = "emulate" /\ c.op = "munmap" /\ c.at \in LockedPlaces /\ c.at # "invalidate"
  BY DEF MunmapGranule, LockedPlaces, Calling, Calls
<1>2. /\ c \in CallJobs /\ g \in Covers(c) /\ g \in AllGranules /\ Span(c) \subseteq Pages
      /\ Covers(c) \subseteq AllGranules /\ \A p \in Span(c) : GranuleOf(p) \in Covers(c)
  BY <1>1, CoversFacts
<1>s. Table \in Tables /\ Table.entry = Granules /\ Kin(Table, seed, g)
      /\ \A p \in PagesOf(g) : vma[p] # None => seed.intended[p] # None
  BY <1>2, TableFacts, SeedFacts
<1>3. /\ Kin(Table, cleared, g)
      /\ \A p \in Pages \ Sub(c, g) : cleared.intended[p] = seed.intended[p]
  <2> HIDE DEF seed
  <2>1. Kin(Table, seed, g) /\ seed \in Tables
    BY <1>s DEF Kin
  <2>2. Kin(Table, cleared, g)
    BY <2>1, ClearIntendedFacts
  <2>3. \A pages : \A p \in Pages \ pages : ClearIntended(seed, pages).intended[p] = seed.intended[p]
    BY <2>1, SMT DEF ClearIntended, Tables
  <2> QED BY <2>2, <2>3
<1>4. CASE ~empty
  <2>1. Rematerialise(t, cleared, g) /\ UNCHANGED <<vma, mapped, smc, blocks>>
    BY <1>4 DEF MunmapGranule, smc
  <2> HIDE DEF cleared
  <2> QED BY <1>1, <1>3, <2>1, RematerialiseKept
<1>5. CASE empty
  <2>1. /\ mapped' = [mapped EXCEPT ![g] = None] /\ TableBecomes(Forget(cleared, {g})) /\ NextGranule(t, c)
        /\ tracked' = tracked /\ demoted' = demoted /\ blocks' = blocks /\ halfway' \in BOOLEAN
    BY <1>5 DEF MunmapGranule, smc, History
  <2>2. \A p \in PagesOf(g) \ Span(c) : vma[p] = None
    <3> SUFFICES ASSUME NEW p \in PagesOf(g), p \notin Span(c), vma[p] # None PROVE FALSE
      OBVIOUS
    <3>1. p \in Pages \ Sub(c, g)
      BY DEF Sub, PagesOf
    <3>2. cleared.intended[p] = seed.intended[p]
      BY <1>3, <3>1
    <3>3. seed.intended[p] # None
      BY <1>s
    <3> QED BY <1>5, <3>2, <3>3
  <2> HIDE DEF empty
  <2>3. cleared \in Tables /\ \A h \in AllGranules \ {g} : cleared.entry[h] = Granules[h]
    BY <1>s, <1>3 DEF Kin
  <2> HIDE DEF cleared, seed
  <2>4. /\ Forget(cleared, {g}) \in Tables
        /\ \A h \in AllGranules : Forget(cleared, {g}).entry[h] = IF h \in {g} THEN None ELSE cleared.entry[h]
    BY <2>3, ForgetFacts, SMT
  <2>5. /\ Granules' \in [AllGranules -> Entry \cup {None}] /\ intended' \in [Pages -> Protection \cup {None}]
        /\ Granules' = Forget(cleared, {g}).entry
    BY <2>1, <2>4, TableFacts
  <2>6. Granules'[g] = None /\ \A h \in AllGranules \ {g} : Granules'[h] = Granules[h]
    BY <1>2, <2>3, <2>4, <2>5
  <2>7. /\ mapped' \in [AllGranules -> Mapping \cup {None}]
        /\ \A h \in AllGranules \ {g} : mapped'[h] = mapped[h]
    BY <1>2, <2>1 DEF Types
  <2>8. PICK c2 :
    /\ Move(t, c2) /\ c2.at \in {"emulate", "invalidate"}
    /\ vma' \in [Pages -> Mapping \cup {None}]
    /\ \A p \in Pages \ Span(c) : vma'[p] = vma[p]
    /\ c2.at = "emulate" => vma' = vma /\ \A h \in Covers(c) : h < c2.g => h <= c.g
    /\ c2.at = "invalidate" => \A h \in Covers(c) : h <= c.g
    /\ \A p \in Span(c) : vma'[p] = vma[p] \/ Reaches(c2, p)
    /\ \A p \in Pages : Reaches(c, p) => Reaches(c2, p)
    /\ \A p \in Span(c) : GranuleOf(p) <= c.g => Reaches(c2, p)
    /\ c2.at = "invalidate" /\ c2.op = "munmap" => \A p \in Span(c) : vma'[p] = None
    BY <1>1, <2>1, NextGranuleFacts
  <2>9. c2.op = "munmap"
    BY <1>1, <2>8 DEF Move
  <2>10. Types'
    BY <2>1, <2>5, <2>7, <2>8 DEF Types, Known
  <2>11. Frame(t) /\ \A h \in AllGranules : Armed(h)' => Armed(h)
    BY <1>1, <2>1, <2>6, <2>7, <2>8, OneGranule
  <2>12. Jobs' /\ OneLock' /\ Apart' /\ CodeHere' /\ TailFree' /\ Marking'
    BY <2>8, <2>9, <2>11, MoveJobs
  <2>13. Mapped' /\ Through' /\ Backed'
    <3>1. \A h \in Covers(c) : mapped[h] # None /\ mapped'[h] = None => h = g
      BY <1>2, <2>7
    <3>2. \A p \in Span(c) : vma'[p] # None => c2.at = "emulate"
      BY <2>8, <2>9
    <3>3. \A h \in Covers(c) : Granules'[h] # None => (Granules'[h].FEXBacked => mapped'[h] # None)
      BY <1>2, <2>6, <2>7 DEF Backed
    <3>4. c2.at # "sharedtrack" /\ c2.at # "protect" /\ c2.op # "mmap"
      BY <2>8, <2>9
    <3> QED BY <1>1, <2>2, <2>8, <2>9, <2>11, <3>1, <3>2, <3>3, <3>4, MoveMaps
  <2>14. Wanted' /\ Demoted' /\ Kept'
    <3>1. ASSUME NEW p \in Pages, Masked(p), Writable(p), ~Reaches(c2, p) PROVE Masked(p)'
      <4>1. GranuleOf(p) # g
        <5> SUFFICES ASSUME GranuleOf(p) = g PROVE FALSE
          OBVIOUS
        <5>1. p \in Span(c)
          BY <2>2, <3>1, PageFacts DEF Writable
        <5>2. GranuleOf(p) <= g
          BY <1>2, GranuleOrder, SMT
        <5> QED BY <2>8, <3>1, <5>1, <5>2
      <4>2. mapped'[GranuleOf(p)] = mapped[GranuleOf(p)]
        BY <2>7, <4>1, PageFacts
      <4> QED BY <2>1, <2>8, <3>1, <4>1, <4>2, MoveMasked
    <3>2. c2.at # "protect"
      BY <2>8
    <3> QED BY <2>8, <2>11, <3>1, <3>2, MoveKept
  <2> QED BY <2>10, <2>12, <2>13, <2>14
<1> QED BY <1>4, <1>5

(* mprotect of a part of a granule.                                        *)
LEMMA MprotectGranuleKept ==
  ASSUME GranuleAssumption, IInv, NEW t \in Threads, MprotectGranule(t), History
  PROVE  IInv'
<1> USE DEF IInv, Still
<1> DEFINE c == job[t]
<1>1. Calling(t) /\ c.at = "emulate" /\ c.op = "mprotect"
  BY DEF MprotectGranule, Calling, Calls
<1>2. c.g \in AllGranules /\ c.prot \in Protection
  BY <1>1, CoversFacts
<1> DEFINE seed == SeedGranuleFromVMAs(Table, c.g)
<1> DEFINE tab == SetIntended(seed, c.g, Sub(c, c.g), c.prot)
<1>3. Kin(Table, seed, c.g)
  BY <1>2, TableFacts, SeedFacts
<1>4. Rematerialise(t, tab, c.g) /\ UNCHANGED <<vma, mapped, smc, blocks>>
  BY DEF MprotectGranule
<1> HIDE DEF seed
<1>5. seed \in Tables
  BY <1>3 DEF Kin
<1>6. Kin(seed, tab, c.g)
  BY <1>2, <1>5, SetIntendedFacts
<1> HIDE DEF tab
<1>7. Kin(Table, tab, c.g)
  BY <1>3, <1>6, KinTrans
<1> QED BY <1>1, <1>4, <1>7, RematerialiseKept

(* The mprotect of RematerialiseIfNeeded.                                  *)
LEMMA MaterialiseKept ==
  ASSUME GranuleAssumption, IInv, NEW t \in Threads, Materialise(t), History
  PROVE  IInv'
<1> USE DEF IInv, Still
<1> DEFINE c == job[t]
<1>g. PICK g : g = c.g
  OBVIOUS
<1>1. Calling(t) /\ c.at = "protect" /\ c.at \in LockedPlaces /\ c.at # "invalidate"
  BY DEF Materialise, LockedPlaces, Calling, Calls
<1>2. /\ c \in CallJobs /\ g \in Covers(c) /\ g \in AllGranules /\ Span(c) \subseteq Pages
      /\ Covers(c) \subseteq AllGranules /\ \A p \in Span(c) : GranuleOf(p) \in Covers(c)
      /\ c.want \in Protection \cup {None} /\ c.op \in {"mmap", "munmap", "mprotect"} /\ c.g = g
  BY <1>1, <1>g, CoversFacts
<1>3. /\ NextGranule(t, c) /\ tracked' = tracked /\ demoted' = demoted /\ blocks' = blocks /\ halfway' \in BOOLEAN
      /\ intended' = intended
  BY DEF Materialise, smc, History
<1>4. /\ mapped' \in [AllGranules -> Mapping \cup {None}]
      /\ mapped'[g] = None <=> mapped[g] = None
      /\ \A h \in AllGranules \ {g} : mapped'[h] = mapped[h]
      /\ Granules' \in [AllGranules -> Entry \cup {None}]
      /\ \A h \in AllGranules \ {g} : Granules'[h] = Granules[h]
      /\ Granules'[g] # None => (Granules'[g].FEXBacked => mapped'[g] # None)
      /\ c.want = None \/ "w" \in c.want \/ ~Open(g)'
  <2>1. CASE c.want = None
    <3>1. Granules' = Granules /\ mapped' = mapped
      BY <2>1 DEF Materialise
    <3> QED BY <1>2, <2>1, <3>1 DEF Types, Backed
  <2>2. CASE c.want # None
    <3>1. /\ mapped' = [mapped EXCEPT ![g] = Reprotected(g, c.want)]
          /\ Granules' = [Granules EXCEPT ![g].HostProt = c.want]
      BY <1>2, <2>2 DEF Materialise
    <3>2. c.want \in Protection
      BY <1>2, <2>2
    <3>3. /\ Reprotected(g, c.want) \in Mapping \cup {None}
          /\ (Reprotected(g, c.want) = None) <=> (mapped[g] = None)
          /\ mapped[g] # None => Reprotected(g, c.want).prot = c.want
      BY <1>2, <3>2, ReprotectedFacts
    <3>4. Granules[g] # None /\ Granules[g] \in Entry
      BY <1>1, <1>2 DEF Through, Passed, Types
    <3> DEFINE e == [Granules[g] EXCEPT !.HostProt = c.want]
    <3>5. e \in Entry /\ e.FEXBacked = Granules[g].FEXBacked
      BY <3>2, <3>4, SMT DEF Entry
    <3>6. Granules' = [Granules EXCEPT ![g] = e]
      BY <3>1
    <3> HIDE DEF e
    <3>7. /\ mapped' \in [AllGranules -> Mapping \cup {None}] /\ mapped'[g] = Reprotected(g, c.want)
          /\ \A h \in AllGranules \ {g} : mapped'[h] = mapped[h]
      BY <1>2, <3>1, <3>3 DEF Types
    <3>8. /\ Granules' \in [AllGranules -> Entry \cup {None}] /\ Granules'[g] = e
          /\ \A h \in AllGranules \ {g} : Granules'[h] = Granules[h]
      BY <1>2, <3>5, <3>6 DEF Types
    <3>9. Granules'[g].FEXBacked => mapped'[g] # None
      BY <1>2, <3>3, <3>4, <3>5, <3>7, <3>8 DEF Backed
    <3>10. "w" \in c.want \/ ~Open(g)'
      <4> SUFFICES ASSUME Open(g)' PROVE "w" \in c.want
        OBVIOUS
      <4>1. mapped'[g] # None /\ "w" \in mapped'[g].prot
        BY <1>2, <3>7 DEF Open
      <4> QED BY <3>3, <3>7, <4>1
    <3> QED BY <3>3, <3>7, <3>8, <3>9, <3>10
  <2> QED BY <2>1, <2>2
<1>5. PICK c2 :
    /\ Move(t, c2) /\ c2.at \in {"emulate", "invalidate"}
    /\ vma' \in [Pages -> Mapping \cup {None}]
    /\ \A p \in Pages \ Span(c) : vma'[p] = vma[p]
    /\ c2.at = "emulate" => vma' = vma /\ \A h \in Covers(c) : h < c2.g => h <= c.g
    /\ c2.at = "invalidate" => \A h \in Covers(c) : h <= c.g
    /\ \A p \in Span(c) : vma'[p] = vma[p] \/ Reaches(c2, p)
    /\ \A p \in Pages : Reaches(c, p) => Reaches(c2, p)
    /\ \A p \in Span(c) : GranuleOf(p) <= c.g => Reaches(c2, p)
    /\ c2.at = "invalidate" /\ c2.op = "munmap" => \A p \in Span(c) : vma'[p] = None
  BY <1>1, <1>3, NextGranuleFacts
<1>6. c2.op = c.op
  BY <1>5 DEF Move
<1>7. Types'
  BY <1>3, <1>4, <1>5 DEF Types, Known
<1>8. Frame(t) /\ \A h \in AllGranules : Armed(h)' => Armed(h)
  BY <1>1, <1>2, <1>3, <1>4, <1>5, OneGranule
<1>9. c.op = "mprotect" => \A p \in Span(c) : vma[p] # None
  BY <1>1 DEF Jobs, JobType
<1>10. Jobs' /\ OneLock' /\ Apart' /\ CodeHere' /\ TailFree' /\ Marking'
  BY <1>5, <1>6, <1>8, <1>9, MoveJobs
<1>11. \A h \in AllGranules : mapped[h] # None => mapped'[h] # None
  BY <1>4
<1>12. c.op = "mmap" => \A h \in Covers(c) : h <= c.g => mapped'[h] # None
  <2> SUFFICES ASSUME c.op = "mmap", NEW h \in Covers(c), h <= c.g PROVE mapped[h] # None
    BY <1>2, <1>11
  <2>1. h < c.g \/ h = c.g
    BY <1>2, GranuleOrder, SMT
  <2> QED BY <1>1, <2>1 DEF Through, Passed
<1>13. Mapped' /\ Through' /\ Backed'
  <2>1. ASSUME NEW p \in Span(c), vma'[p] # None, c2.op # "munmap" PROVE mapped'[GranuleOf(p)] # None
    <3>1. CASE vma[p] # None
      <4>1. mapped[GranuleOf(p)] # None
        BY <1>1, <1>6, <2>1, <3>1, SpanMapped
      <4> QED BY <1>2, <1>11, <4>1
    <3>2. CASE vma[p] = None
      <4>1. c2.at = "invalidate" /\ c.op = "mmap"
        BY <1>2, <1>5, <1>6, <1>9, <2>1, <3>2
      <4> QED BY <1>2, <1>5, <1>12, <4>1
    <3> QED BY <3>1, <3>2
  <2>2. \A p \in Span(c) : vma'[p] # None => mapped'[GranuleOf(p)] # None \/ (c2.at = "emulate" /\ c2.op = "munmap")
    BY <1>5, <2>1
  <2>3. c2.op = "mmap" /\ c2.at = "emulate" => \A h \in Covers(c) : h < c2.g => mapped'[h] # None
    BY <1>5, <1>6, <1>12
  <2>4. c2.at \notin {"fill", "protect"} /\ c2.at # "sharedtrack" /\ (c2.at \in LockedPlaces => c2.at = "emulate")
    BY <1>5 DEF LockedPlaces
  <2>5. \A h \in Covers(c) : Granules'[h] # None => (Granules'[h].FEXBacked => mapped'[h] # None)
    BY <1>2, <1>4 DEF Backed
  <2>6. \A h \in Covers(c) : mapped[h] # None => mapped'[h] # None
    BY <1>2, <1>11
  <2> QED BY <1>5, <1>8, <2>2, <2>3, <2>4, <2>5, <2>6, MoveMaps
<1>14. Wanted' /\ Demoted' /\ Kept'
  <2>1. ASSUME NEW p \in Pages, Masked(p), Writable(p) PROVE Masked(p)' \/ Reaches(c2, p)
    <3>1. CASE GranuleOf(p) = g
      <4>1. Armed(g)
        BY <2>1, <3>1 DEF Masked, Armed
      <4>2. c.want # None /\ "w" \notin c.want
        BY <1>1, <1>2, <4>1 DEF Wanted
      <4>3. ~Open(g)'
        BY <1>4, <4>2
      <4>4. ~Open(GranuleOf(p))'
        BY <3>1, <4>3 DEF Open
      <4> QED BY <1>3, <2>1, <4>4 DEF Masked, Known
    <3>2. CASE GranuleOf(p) # g
      <4>1. mapped'[GranuleOf(p)] = mapped[GranuleOf(p)]
        BY <1>4, <3>2, PageFacts
      <4> QED BY <1>2, <1>3, <1>5, <2>1, <3>2, <4>1, MoveMasked
    <3> QED BY <3>1, <3>2
  <2>2. c2.at # "protect"
    BY <1>5
  <2> QED BY <1>5, <1>8, <2>1, <2>2, MoveKept
<1> QED BY <1>7, <1>10, <1>13, <1>14

----------------------------------------------------------------------------
(* A thread starts a call.                                                 *)
Starts(t, c2) ==
  /\ job[t].at = "idle" /\ Lockable
  /\ job' = [job EXCEPT ![t] = c2]
  /\ c2 \in CallJobs /\ c2.g \in Covers(c2) /\ \A h \in Covers(c2) : ~(h < c2.g)
  /\ Span(c2) \subseteq Pages \ (Busy \cup Used)
  /\ c2.at \in {"pass", "sharedmap", "emulate"}
  /\ vma' = vma /\ mapped' = mapped /\ tracked' = tracked /\ demoted' = demoted /\ blocks' = blocks
  /\ \A g \in AllGranules : Granules'[g] # None =>
       Granules[g] # None /\ (Granules'[g].FEXBacked => Granules[g].FEXBacked)

(* The guest has given a call's pages over to it, and with ~SplitCalls the *)
(* granules too, until the call is at its last step.                       *)
LEMMA BusyFacts ==
  ASSUME Jobs, ~SplitCalls, Lockable, NEW u \in Threads, Calling(u), NEW p \in Pages, p \notin Busy
  PROVE  p \notin Span(job[u]) /\ (job[u].at # "invalidate" => job[u].at \in WholePlaces /\ GranuleOf(p) \notin Covers(job[u]))
<1>1. p \notin Taken(job[u])
  BY DEF Busy
<1>2. Span(job[u]) \subseteq Pages /\ \A q \in Span(job[u]) : GranuleOf(q) \in Covers(job[u])
  BY CoversFacts
<1>3. job[u].at # "invalidate" => job[u].at \in WholePlaces
  BY DEF Lockable, Locked, Calling, Calls, WholePlaces
<1>4. CASE job[u].at \in WholePlaces
  <2>1. Taken(job[u]) = UNION {PagesOf(g) : g \in Covers(job[u])}
    BY <1>4 DEF Taken, WholePlaces
  <2>2. GranuleOf(p) \notin Covers(job[u])
    BY <1>1, <2>1, PageFacts
  <2> QED BY <1>2, <1>4, <2>2
<1>5. CASE job[u].at \notin WholePlaces
  BY <1>1, <1>3, <1>5 DEF Taken, WholePlaces
<1> QED BY <1>4, <1>5

(* The first step of a call.                                               *)
LEMMA StartKept ==
  ASSUME ~SplitCalls, IInv, NEW t \in Threads, NEW c2, Starts(t, c2), History, Types',
         c2.op = "mprotect" => \A p \in Span(c2) : vma[p] # None,
         c2.at # "emulate" => \A p \in Pages \ Span(c2) : GranuleOf(p) \in Covers(c2) => ~Writable(p),
         c2.at = "pass" /\ c2.op = "munmap" => \A h \in Covers(c2) : Granules'[h] = None /\ PagesOf(h) \subseteq Span(c2)
  PROVE  IInv'
<1> USE DEF IInv, Still
<1>1. /\ DOMAIN job' = Threads /\ DOMAIN job = Threads /\ job'[t] = c2 /\ \A u \in Threads \ {t} : job'[u] = job[u]
  BY DEF Jobs, Starts
<1>2. c2.at \in Calls /\ c2.at \notin CodePlaces \cup HandlerJobs \cup {"fill", "protect", "invalidate", "sharedtrack"}
      /\ (c2.at \in LockedPlaces <=> c2.at = "emulate") /\ (c2.at \in WholePlaces <=> c2.at # "emulate")
  BY DEF Starts, Calls, CodePlaces, HandlerJobs, LockedPlaces, WholePlaces
<1>3. job[t].at \notin Calls \cup CodePlaces \cup LockedPlaces \cup WholePlaces /\ job[t].at # "noted"
  BY DEF Starts, Calls, CodePlaces, LockedPlaces, WholePlaces
<1>4. /\ vma' = vma /\ mapped' = mapped /\ tracked' = tracked /\ demoted' = demoted /\ blocks' = blocks
      /\ SiblingPolicy' = SiblingPolicy /\ (halfway => halfway')
  BY DEF Starts, History
<1>5. \A u \in Threads : job[u].at \notin LockedPlaces /\ job[u].at # "marking"
  BY DEF Starts, Lockable, Locked, LockedPlaces
<1>6. \A u \in Threads : Calling(u)' => u = t \/ (Calling(u) /\ job'[u] = job[u])
  BY <1>1 DEF Calling
<1>7. Jobs'
  <2>1. \A u \in Threads \ {t} : JobType(u)'
    <3> SUFFICES ASSUME NEW u \in Threads \ {t} PROVE JobType(u)'
      OBVIOUS
    <3>1. JobType(u) /\ job'[u] = job[u]
      BY <1>1 DEF Jobs
    <3> QED BY <1>4, <3>1 DEF JobType, Calling
  <2>2. JobType(t)'
    BY <1>1, <1>2, <1>4 DEF JobType, Starts, Calling, CodePlaces, HandlerJobs
  <2> QED BY <1>1, <2>1, <2>2 DEF Jobs
<1>8. OneLock'
  <2>1. \A u \in Threads : job'[u].at \in LockedPlaces => u = t
    BY <1>1, <1>5
  <2>2. \A u \in Threads : job'[u].at # "marking"
    BY <1>1, <1>2, <1>5 DEF CodePlaces
  <2> QED BY <2>1, <2>2 DEF OneLock
<1>9. ASSUME NEW u \in Threads, u # t, Calling(u)
      PROVE  Span(c2) \cap Span(job[u]) = {} /\ (job[u].at # "invalidate" => Covers(c2) \cap Covers(job[u]) = {})
  <2>1. \A p \in Span(c2) : p \in Pages /\ p \notin Busy
    BY DEF Starts
  <2>2. \A p \in Span(c2) : p \notin Span(job[u]) /\ (job[u].at # "invalidate" => GranuleOf(p) \notin Covers(job[u]))
    BY <1>9, <2>1, BusyFacts DEF Starts
  <2>3. \A h \in Covers(c2) : \E p \in Span(c2) : h = GranuleOf(p)
    BY DEF Covers
  <2> QED BY <2>2, <2>3
<1>10. Apart'
  <2> SUFFICES ASSUME NEW v \in Threads, NEW w \in Threads, v # w, Calling(v)', Calling(w)'
               PROVE  /\ Span(job'[v]) \cap Span(job'[w]) = {}
                      /\ job'[v].at \in WholePlaces /\ job'[w].at # "invalidate"
                           => Covers(job'[v]) \cap Covers(job'[w]) = {}
    BY DEF Apart
  <2>1. CASE v = t
    <3>1. w # t /\ Calling(w) /\ job'[w] = job[w] /\ job'[v] = c2
      BY <1>1, <1>6, <2>1
    <3> QED BY <1>9, <3>1
  <2>2. CASE w = t
    <3>1. v # t /\ Calling(v) /\ job'[v] = job[v] /\ job'[w] = c2
      BY <1>1, <1>6, <2>2
    <3>2. job[v].at \in WholePlaces => job[v].at # "invalidate"
      BY DEF WholePlaces
    <3>3. Span(c2) \cap Span(job[v]) = {} /\ (job[v].at # "invalidate" => Covers(c2) \cap Covers(job[v]) = {})
      BY <1>9, <3>1
    <3> QED BY <3>1, <3>2, <3>3
  <2>3. CASE v # t /\ w # t
    <3>1. Calling(v) /\ Calling(w) /\ job'[v] = job[v] /\ job'[w] = job[w]
      BY <1>6, <2>3
    <3> QED BY <3>1 DEF Apart
  <2> QED BY <2>1, <2>2, <2>3
<1>11. CodeHere'
  <2> SUFFICES ASSUME NEW u \in Threads, job[u].at \in CodePlaces
               PROVE  /\ vma[job[u].page] # None /\ "r" \in vma[job[u].page].prot
                      /\ \A v \in Threads : Calling(v)' => job[u].page \notin Span(job'[v])
    <3>1. \A u \in Threads : job'[u].at \in CodePlaces => job'[u] = job[u]
      BY <1>1, <1>2
    <3> QED BY <1>4, <3>1 DEF CodeHere
  <2>1. job[u].page \in Used
    BY DEF Used, CodePlaces
  <2>2. job[u].page \notin Span(c2)
    BY <2>1 DEF Starts
  <2> QED BY <1>1, <1>6, <2>2 DEF CodeHere
<1>12. Marking'
  BY <1>1, <1>2, <1>5 DEF Marking, CodePlaces
<1>13. TailFree'
  <2> SUFFICES ASSUME NEW v \in Threads, job'[v].at \in WholePlaces, NEW p \in Pages \ Span(job'[v]), GranuleOf(p) \in Covers(job'[v])
               PROVE  ~Writable(p)
    BY <1>4 DEF TailFree, Writable
  <2>1. CASE v = t
    BY <1>1, <1>2, <2>1
  <2>2. CASE v # t
    BY <1>1, <2>2 DEF TailFree
  <2> QED BY <2>1, <2>2
<1>14. Mapped'
  <2>1. \A u \in Threads : job[u].at \notin {"emulate", "protect"}
    BY <1>5 DEF LockedPlaces
  <2> QED BY <1>4, <2>1 DEF Mapped
<1>15. Through'
  <2>1. Passed(job'[t], mapped', Granules')
    BY <1>1, <1>2 DEF Passed, Starts
  <2>2. \A u \in Threads \ {t} : Passed(job'[u], mapped', Granules')
    BY <1>1, <1>4, <1>5 DEF Through, Passed, LockedPlaces
  <2> QED BY <2>1, <2>2 DEF Through
<1>16. Backed'
  <2>1. \A g \in AllGranules : Granules'[g] # None => (Granules'[g].FEXBacked => mapped'[g] # None)
    BY <1>4 DEF Backed, Starts
  <2>2. ASSUME NEW u \in Threads, job'[u].at = "pass", job'[u].op = "munmap", NEW h \in Covers(job'[u])
        PROVE  Granules'[h] = None /\ PagesOf(h) \subseteq Span(job'[u])
    <3>1. CASE u = t
      BY <1>1, <2>2, <3>1
    <3>2. CASE u # t
      <4>1. job'[u] = job[u] /\ Calling(u)
        BY <1>1, <2>2, <3>2 DEF Calling, Calls
      <4>2. h \in AllGranules
        BY <2>2, <4>1, CoversFacts
      <4> QED BY <2>2, <4>1, <4>2 DEF Backed, Starts
    <3> QED BY <3>1, <3>2
  <2> QED BY <2>1, <2>2 DEF Backed
<1>17. Wanted'
  BY <1>1, <1>2, <1>5 DEF Wanted, LockedPlaces
<1>18. \A p \in Pages : (Live(p)' <=> Live(p)) /\ (Coming(p)' <=> Coming(p))
  BY <1>1, <1>2, <1>3, <1>4 DEF Live, Coming, CodePlaces
<1>19. \A p \in Pages : Doomed(p) => Doomed(p)'
  BY <1>1, <1>3 DEF Doomed
<1>20. Demoted'
  BY <1>4, <1>18, <1>19 DEF Demoted
<1>21. Kept'
  <2> SUFFICES ASSUME SiblingPolicy = "Invalidate", ~halfway, NEW p \in Pages, Live(p), Writable(p)
               PROVE  Doomed(p)' \/ Remapping(p)' \/ Masked(p)'
    BY <1>4, <1>18 DEF Kept, Writable
  <2>1. Remapping(p) => Remapping(p)'
    BY <1>1, <1>3 DEF Remapping, Reaches
  <2>2. Masked(p) => Masked(p)'
    <3>1. ~Converted(GranuleOf(p))
      BY <1>1, <1>5 DEF Converted, LockedPlaces
    <3> QED BY <1>4, <3>1 DEF Masked, Known, Open
  <2> QED BY <1>19, <2>1, <2>2 DEF Kept
<1> QED BY <1>7, <1>8, <1>10, <1>11, <1>12, <1>13, <1>14, <1>15, <1>16, <1>17, <1>20, <1>21

(* What a call starts with.                                                *)
LEMMA BeginFacts ==
  ASSUME GranuleAssumption, Jobs, NEW t \in Threads, NEW base \in Pages, NEW len \in Nat \ {0}, NEW prot \in Protection,
         NEW shared \in BOOLEAN, NEW op \in {"mmap", "munmap", "mprotect"}, NEW at \in {"pass", "sharedmap", "emulate"},
         NEW c, c = [base |-> base, len |-> len],
         MayCall(t, base, len), Begin(t, op, base, len, prot, shared, at),
         UNCHANGED <<vma, mapped, smc, blocks>>,
         \A g \in AllGranules : Granules'[g] # None =>
           Granules[g] # None /\ (Granules'[g].FEXBacked => Granules[g].FEXBacked)
  PROVE  \E c2 : Starts(t, c2) /\ c2.at = at /\ c2.op = op /\ Span(c2) = Span(c) /\ Covers(c2) = Covers(c)
<1> DEFINE c2 == [at |-> at, op |-> op, base |-> base, len |-> len, prot |-> prot, shared |-> shared,
                  g |-> GranuleOf(base), want |-> None]
<1>1. c2.at = at /\ c2.op = op /\ c2.base = base /\ c2.len = len /\ c2.g = GranuleOf(base)
  OBVIOUS
<1>2. GranuleOf(base) \in AllGranules /\ at \in Calls
  BY PageFacts DEF Calls
<1>3. c2 \in CallJobs
  BY <1>2 DEF CallJobs
<1>4. c.base = base /\ c.len = len
  OBVIOUS
<1>5. Span(c2) = Span(c) /\ Covers(c2) = Covers(c)
  BY <1>1, <1>4, SpanFacts
<1>6. Span(c2) = base .. base + len - 1
  BY <1>1 DEF Span
<1>7. Span(c2) \subseteq Pages \ (Busy \cup Used)
  BY <1>6 DEF MayCall
<1>8. base \in Span(c2) /\ \A p \in Span(c2) : base <= p
  BY <1>6, GranuleOrder, SMT
<1>9. c2.g \in Covers(c2)
  BY <1>1, <1>8 DEF Covers
<1>10. \A h \in Covers(c2) : ~(h < c2.g)
  <2> TAKE h \in Covers(c2)
  <2>1. PICK p \in Span(c2) : h = GranuleOf(p)
    BY DEF Covers
  <2>2. p \in Pages /\ base <= p
    BY <1>7, <1>8
  <2>3. GranuleOf(base) <= h /\ h \in Int /\ GranuleOf(base) \in Int
    BY <1>2, <2>1, <2>2, GranuleOrder, PageFacts
  <2>4. ~(h < GranuleOf(base))
    BY <2>3, SMT
  <2> QED BY <1>1, <2>4
<1>11. job' = [job EXCEPT ![t] = c2]
  BY DEF Begin, Goto
<1>12. vma' = vma /\ mapped' = mapped /\ tracked' = tracked /\ demoted' = demoted /\ blocks' = blocks
  BY DEF smc
<1>13. job[t].at = "idle" /\ Lockable
  BY DEF MayCall
<1> HIDE DEF c2
<1>14. Starts(t, c2)
  BY <1>1, <1>3, <1>7, <1>9, <1>10, <1>11, <1>12, <1>13 DEF Starts
<1> QED BY <1>1, <1>5, <1>14

(* The table forgets granules, or is left alone.                           *)
LEMMA ForgottenFacts ==
  ASSUME GranuleAssumption, Types, NEW gs, TableBecomes(Forget(Table, gs)) \/ UNCHANGED table
  PROVE  /\ Granules' \in [AllGranules -> Entry \cup {None}] /\ intended' \in [Pages -> Protection \cup {None}]
         /\ \A g \in AllGranules : Granules'[g] # None =>
              Granules[g] # None /\ (Granules'[g].FEXBacked => Granules[g].FEXBacked)
         /\ TableBecomes(Forget(Table, gs)) => \A g \in AllGranules : g \in gs => Granules'[g] = None
<1>1. CASE UNCHANGED table /\ ~TableBecomes(Forget(Table, gs))
  BY <1>1 DEF table, Types
<1>2. CASE TableBecomes(Forget(Table, gs))
  <2>1. Table \in Tables /\ Table.entry = Granules
    BY TableFacts
  <2>2. /\ Forget(Table, gs) \in Tables
        /\ \A h \in AllGranules : Forget(Table, gs).entry[h] = IF h \in gs THEN None ELSE Table.entry[h]
    BY <2>1, ForgetFacts, SMT
  <2>3. /\ Granules' \in [AllGranules -> Entry \cup {None}] /\ Granules' = Forget(Table, gs).entry
        /\ intended' \in [Pages -> Protection \cup {None}]
    BY <1>2, <2>2, TableFacts
  <2>4. \A h \in AllGranules : Granules'[h] = IF h \in gs THEN None ELSE Granules[h]
    BY <2>1, <2>2, <2>3
  <2>5. \A h \in AllGranules : (h \in gs => Granules'[h] = None) /\ (h \notin gs => Granules'[h] = Granules[h])
    BY <2>4
  <2> QED BY <2>3, <2>5
<1> QED BY <1>1, <1>2

(* The type of the state across the first step of a call.                  *)
LEMMA StartTypes ==
  ASSUME Types, UNCHANGED <<vma, mapped, smc, blocks>>, History,
         Granules' \in [AllGranules -> Entry \cup {None}], intended' \in [Pages -> Protection \cup {None}]
  PROVE  Types'
<1>1. vma' = vma /\ mapped' = mapped /\ tracked' = tracked /\ demoted' = demoted /\ blocks' = blocks
  BY DEF smc
<1>2. halfway' \in BOOLEAN
  BY DEF History
<1> QED BY <1>1, <1>2 DEF Types, Known

(* What is made of whole granules has no tail.                             *)
LEMMA WholeNoTail ==
  ASSUME NEW c, IsWhole(c), NEW p \in Pages, GranuleOf(p) \in Covers(c)
  PROVE  p \in Span(c)
  BY PageFacts DEF IsWhole

(* mmap without MAP_FIXED: the granules are the kernel's to give.          *)
LEMMA MmapAnywhereKept ==
  ASSUME GranuleAssumption, ~SplitCalls, IInv, NEW t \in Threads, NEW base \in Pages, NEW len \in Nat \ {0},
         NEW prot \in Protection, NEW shared \in BOOLEAN, MmapAnywhere(t, base, len, prot, shared), History
  PROVE  IInv'
<1> DEFINE c == [base |-> base, len |-> len]
<1>1. Types /\ Jobs /\ Mapped
  BY DEF IInv, Still
<1>2. /\ MayCall(t, base, len) /\ Begin(t, "mmap", base, len, prot, shared, "pass")
      /\ UNCHANGED <<vma, mapped, smc, blocks>> /\ UNCHANGED table
  BY DEF MmapAnywhere
<1>3. Types'
  BY <1>1, <1>2, StartTypes DEF table, Types
<1>4. PICK c2 : Starts(t, c2) /\ c2.at = "pass" /\ c2.op = "mmap" /\ Span(c2) = Span(c) /\ Covers(c2) = Covers(c)
  BY <1>1, <1>2, BeginFacts, SMT DEF table
<1>5. \A g \in Covers(c) : mapped[g] = None
  BY DEF MmapAnywhere, Covers, Span
<1>6. \A p \in Pages : GranuleOf(p) \in Covers(c) => ~Writable(p)
  <2>1. \A u \in Threads : job[u].at \notin {"emulate", "protect"}
    BY <1>2 DEF MayCall, Lockable, Locked
  <2> QED BY <1>1, <1>5, <2>1 DEF Mapped, Writable
<1> QED BY <1>3, <1>4, <1>6, StartKept

(* mmap with MAP_FIXED.                                                    *)
LEMMA MmapKept ==
  ASSUME GranuleAssumption, ~SplitCalls, IInv, NEW t \in Threads, NEW base \in Pages, NEW len \in Nat \ {0},
         NEW prot \in Protection, NEW shared \in BOOLEAN, Mmap(t, base, len, prot, shared), History
  PROVE  IInv'
<1>1. PICK c : c = [base |-> base, len |-> len]
  OBVIOUS
<1>2. Types /\ Jobs
  BY DEF IInv, Still
<1>3. /\ MayCall(t, base, len) /\ UNCHANGED <<vma, mapped, smc, blocks>>
      /\ TableBecomes(Forget(Table, Covers(c))) \/ UNCHANGED table
      /\ \E at \in {"pass", "sharedmap", "emulate"} :
           /\ Begin(t, "mmap", base, len, prot, shared, at)
           /\ at = "pass" => IsWhole(c)
           /\ at = "sharedmap" => \A p \in (UNION {PagesOf(g) : g \in Covers(c)}) \ Span(c) : ~Holds(p)
  BY <1>1 DEF Mmap
<1>4. PICK at \in {"pass", "sharedmap", "emulate"} :
        /\ Begin(t, "mmap", base, len, prot, shared, at)
        /\ at = "pass" => IsWhole(c)
        /\ at = "sharedmap" => \A p \in (UNION {PagesOf(g) : g \in Covers(c)}) \ Span(c) : ~Holds(p)
  BY <1>3
<1>5. /\ Granules' \in [AllGranules -> Entry \cup {None}] /\ intended' \in [Pages -> Protection \cup {None}]
      /\ \A g \in AllGranules : Granules'[g] # None =>
           Granules[g] # None /\ (Granules'[g].FEXBacked => Granules[g].FEXBacked)
  BY <1>2, <1>3, ForgottenFacts
<1>6. Types'
  BY <1>2, <1>3, <1>5, StartTypes
<1>7. PICK c2 : Starts(t, c2) /\ c2.at = at /\ c2.op = "mmap" /\ Span(c2) = Span(c) /\ Covers(c2) = Covers(c)
  BY <1>1, <1>2, <1>3, <1>4, <1>5, BeginFacts, SMT
<1>8. at # "emulate" => \A p \in Pages \ Span(c) : GranuleOf(p) \in Covers(c) => ~Writable(p)
  <2> SUFFICES ASSUME at # "emulate", NEW p \in Pages \ Span(c), GranuleOf(p) \in Covers(c) PROVE ~Writable(p)
    OBVIOUS
  <2>1. CASE at = "pass"
    BY <1>4, <2>1, WholeNoTail
  <2>2. CASE at = "sharedmap"
    <3>1. p \in (UNION {PagesOf(g) : g \in Covers(c)}) \ Span(c)
      <4>1. p \in Pages
        OBVIOUS
      <4>2. p \in PagesOf(GranuleOf(p))
        BY <4>1, PageFacts
      <4> QED BY <4>2
    <3>2. ~Holds(p)
      BY <1>4, <2>2, <3>1
    <3> QED BY <3>2 DEF Holds, Writable
  <2> QED BY <2>1, <2>2
<1> QED BY <1>6, <1>7, <1>8, StartKept

(* munmap.                                                                 *)
LEMMA MunmapKept ==
  ASSUME GranuleAssumption, ~SplitCalls, IInv, NEW t \in Threads, NEW base \in Pages, NEW len \in Nat \ {0},
         Munmap(t, base, len), History
  PROVE  IInv'
<1>0. PICK no \in BOOLEAN : no = FALSE
  OBVIOUS
<1>1. PICK c : c = [base |-> base, len |-> len]
  OBVIOUS
<1>2. Types /\ Jobs /\ {} \in Protection
  BY DEF IInv, Still, Protection
<1>3. /\ MayCall(t, base, len) /\ UNCHANGED <<vma, mapped, smc, blocks>>
      /\ TableBecomes(Forget(Table, Covers(c))) \/ UNCHANGED table
      /\ \E at \in {"pass", "emulate"} :
           /\ Begin(t, "munmap", base, len, {}, no, at)
           /\ at = "pass" => IsWhole(c) /\ TableBecomes(Forget(Table, Covers(c)))
  BY <1>0, <1>1 DEF Munmap
<1>4. PICK at \in {"pass", "emulate"} :
        /\ Begin(t, "munmap", base, len, {}, no, at)
        /\ at = "pass" => IsWhole(c) /\ TableBecomes(Forget(Table, Covers(c)))
  BY <1>3
<1>5. /\ Granules' \in [AllGranules -> Entry \cup {None}] /\ intended' \in [Pages -> Protection \cup {None}]
      /\ \A g \in AllGranules : Granules'[g] # None =>
           Granules[g] # None /\ (Granules'[g].FEXBacked => Granules[g].FEXBacked)
      /\ TableBecomes(Forget(Table, Covers(c))) => \A g \in AllGranules : g \in Covers(c) => Granules'[g] = None
  BY <1>2, <1>3, ForgottenFacts
<1>6. Types'
  BY <1>2, <1>3, <1>5, StartTypes
<1>7. PICK c2 : Starts(t, c2) /\ c2.at = at /\ c2.op = "munmap" /\ Span(c2) = Span(c) /\ Covers(c2) = Covers(c)
  BY <1>1, <1>2, <1>3, <1>4, <1>5, BeginFacts, SMT
<1>8. at # "emulate" => \A p \in Pages \ Span(c) : GranuleOf(p) \in Covers(c) => ~Writable(p)
  BY <1>4, WholeNoTail
<1>9. \A h \in Covers(c) : h \in AllGranules
  BY <1>7, PageFacts DEF Covers, Starts
<1>10. at = "pass" => \A h \in Covers(c) : Granules'[h] = None /\ PagesOf(h) \subseteq Span(c)
  BY <1>4, <1>5, <1>9 DEF IsWhole
<1> QED BY <1>6, <1>7, <1>8, <1>10, StartKept

(* mprotect.                                                               *)
LEMMA MprotectKept ==
  ASSUME GranuleAssumption, ~SplitCalls, IInv, NEW t \in Threads, NEW base \in Pages, NEW len \in Nat \ {0},
         NEW prot \in Protection, Mprotect(t, base, len, prot), History
  PROVE  IInv'
<1>0. PICK no \in BOOLEAN : no = FALSE
  OBVIOUS
<1>1. PICK c : c = [base |-> base, len |-> len]
  OBVIOUS
<1>2. Types /\ Jobs
  BY DEF IInv, Still
<1> DEFINE entries == [g \in AllGranules |-> IF g \in Covers(c) /\ Granules[g] # None
                                               THEN [Granules[g] EXCEPT !.HostProt = prot] ELSE Granules[g]]
           nibbles == [p \in Pages |-> IF p \in Span(c) /\ Granules[GranuleOf(p)] # None THEN prot ELSE intended[p]]
<1>3. /\ MayCall(t, base, len) /\ UNCHANGED <<vma, mapped, smc, blocks>>
      /\ \A p \in Span(c) : vma[p] # None
      /\ (Granules' = entries /\ intended' = nibbles) \/ UNCHANGED table
      /\ \E at \in {"pass", "emulate"} :
           Begin(t, "mprotect", base, len, prot, no, at) /\ (at = "pass" => IsWhole(c))
  BY <1>0, <1>1 DEF Mprotect, TableBecomes
<1>4. PICK at \in {"pass", "emulate"} : Begin(t, "mprotect", base, len, prot, no, at) /\ (at = "pass" => IsWhole(c))
  BY <1>3
<1>5. /\ Granules' \in [AllGranules -> Entry \cup {None}] /\ intended' \in [Pages -> Protection \cup {None}]
      /\ \A g \in AllGranules : Granules'[g] # None =>
           Granules[g] # None /\ (Granules'[g].FEXBacked => Granules[g].FEXBacked)
  <2>1. CASE UNCHANGED table
    BY <1>2, <2>1 DEF table, Types
  <2>2. CASE Granules' = entries /\ intended' = nibbles
    <3>1. \A e \in Entry : [e EXCEPT !.HostProt = prot] \in Entry /\ [e EXCEPT !.HostProt = prot].FEXBacked = e.FEXBacked
      BY DEF Entry
    <3>2. \A g \in AllGranules : Granules[g] \in Entry \cup {None}
      BY <1>2 DEF Types
    <3>3. \A g \in AllGranules : /\ entries[g] \in Entry \cup {None}
                                 /\ entries[g] # None => Granules[g] # None /\ (entries[g].FEXBacked => Granules[g].FEXBacked)
      <4> TAKE g \in AllGranules
      <4>1. CASE g \in Covers(c) /\ Granules[g] # None
        <5>1. Granules[g] \in Entry /\ entries[g] = [Granules[g] EXCEPT !.HostProt = prot]
          BY <3>2, <4>1
        <5>2. entries[g] \in Entry /\ entries[g].FEXBacked = Granules[g].FEXBacked
          BY <3>1, <5>1
        <5> QED BY <4>1, <5>2
      <4>2. CASE ~(g \in Covers(c) /\ Granules[g] # None)
        <5>1. entries[g] = Granules[g]
          BY <4>2
        <5> QED BY <3>2, <5>1
      <4> QED BY <4>1, <4>2
    <3>4. \A p \in Pages : nibbles[p] \in Protection \cup {None}
      BY <1>2 DEF Types
    <3> QED BY <2>2, <3>3, <3>4
  <2> QED BY <1>3, <2>1, <2>2
<1>6. Types'
  BY <1>2, <1>3, <1>5, StartTypes
<1>7. PICK c2 : Starts(t, c2) /\ c2.at = at /\ c2.op = "mprotect" /\ Span(c2) = Span(c) /\ Covers(c2) = Covers(c)
  BY <1>1, <1>2, <1>3, <1>4, <1>5, BeginFacts, SMT
<1>8. at # "emulate" => \A p \in Pages \ Span(c) : GranuleOf(p) \in Covers(c) => ~Writable(p)
  BY <1>4, WholeNoTail
<1> QED BY <1>3, <1>6, <1>7, <1>8, StartKept

----------------------------------------------------------------------------
(* The compiler and the handler of a fault: a step of a thread that makes  *)
(* no call.                                                                *)
Aside(t) ==
  /\ DOMAIN job' = Threads /\ \A u \in Threads \ {t} : job'[u] = job[u]
  /\ job[t].at \notin Calls /\ job'[t].at \notin Calls
  /\ vma' = vma /\ Granules' = Granules
  /\ \A g \in AllGranules : mapped'[g] = None <=> mapped[g] = None

(* What such a step leaves to the calls.                                   *)
LEMMA AsideFacts ==
  ASSUME Jobs, NEW t \in Threads, Aside(t)
  PROVE  /\ \A u \in Threads : job'[u].at \in Calls => u # t /\ job'[u] = job[u]
         /\ \A u \in Threads : job[u].at \in Calls => u # t /\ job'[u] = job[u]
         /\ LockedPlaces \subseteq Calls /\ WholePlaces \subseteq Calls
         /\ \A p \in Pages : Writable(p)' <=> Writable(p)
         /\ \A p \in Pages : Remapping(p)' <=> Remapping(p)
         /\ \A g : Converted(g)' <=> Converted(g)
<1>1. DOMAIN job = Threads /\ DOMAIN job' = Threads
  BY DEF Jobs, Aside
<1>2. \A u \in Threads : job'[u].at \in Calls \/ job[u].at \in Calls => u # t /\ job'[u] = job[u]
  BY DEF Aside
<1>3. LockedPlaces \subseteq Calls /\ WholePlaces \subseteq Calls /\ {"fill", "protect"} \subseteq Calls
  BY DEF LockedPlaces, WholePlaces, Calls
<1>4. \A p \in Pages : Writable(p)' <=> Writable(p)
  BY DEF Aside, Writable
<1>5. \A p \in Pages : Remapping(p)' <=> Remapping(p)
  <2> TAKE p \in Pages
  <2>1. Remapping(p) => Remapping(p)'
    BY <1>2 DEF Remapping, Reaches
  <2>2. Remapping(p)' => Remapping(p)
    BY <1>2 DEF Remapping, Reaches
  <2> QED BY <2>1, <2>2
<1>6. \A g : Converted(g)' <=> Converted(g)
  <2> TAKE g
  <2>1. Converted(g) => Converted(g)'
    BY <1>1, <1>2, <1>3 DEF Converted
  <2>2. Converted(g)' => Converted(g)
    BY <1>1, <1>2, <1>3 DEF Converted
  <2> QED BY <2>1, <2>2
<1> QED BY <1>2, <1>3, <1>4, <1>5, <1>6

(* What the guest gives over to a call includes the call's pages.          *)
LEMMA SpanTaken ==
  ASSUME Jobs, NEW u \in Threads, Calling(u), NEW p \in Span(job[u])
  PROVE  p \in Busy
<1>1. p \in Pages /\ GranuleOf(p) \in Covers(job[u])
  BY CoversFacts
<1>2. p \in PagesOf(GranuleOf(p))
  BY <1>1, PageFacts
<1>3. p \in Taken(job[u])
  BY <1>1, <1>2 DEF Taken
<1> QED BY <1>3 DEF Busy

(* Such a step keeps what the lock and the guest's synchronisation exclude.*)
LEMMA AsideStill ==
  ASSUME Still, NEW t \in Threads, Aside(t), Types', JobType(t)', Marking', History,
         job'[t].at \in CodePlaces =>
           \/ job[t].at \in CodePlaces /\ job'[t].page = job[t].page
           \/ vma[job'[t].page] # None /\ "r" \in vma[job'[t].page].prot /\ job'[t].page \notin Busy,
         job'[t].at = "marking" => ~Locked,
         ~Locked \/ \A g \in AllGranules : Armed(g)' => Armed(g)
  PROVE  Still'
<1> USE DEF Still
<1>1. /\ DOMAIN job' = Threads /\ \A u \in Threads \ {t} : job'[u] = job[u]
      /\ vma' = vma /\ Granules' = Granules
      /\ \A g \in AllGranules : mapped'[g] = None <=> mapped[g] = None
      /\ SiblingPolicy' = SiblingPolicy
  BY DEF Aside, History
<1>2. /\ \A u \in Threads : job'[u].at \in Calls => u # t /\ job'[u] = job[u]
      /\ \A u \in Threads : job[u].at \in Calls => u # t /\ job'[u] = job[u]
      /\ LockedPlaces \subseteq Calls /\ WholePlaces \subseteq Calls
  BY AsideFacts
<1>3. Jobs'
  <2>1. \A u \in Threads \ {t} : JobType(u)'
    <3> SUFFICES ASSUME NEW u \in Threads \ {t} PROVE JobType(u)'
      OBVIOUS
    <3>1. JobType(u) /\ job'[u] = job[u]
      BY <1>1 DEF Jobs
    <3> QED BY <1>1, <3>1 DEF JobType, Calling
  <2> QED BY <1>1, <2>1 DEF Jobs
<1>4. OneLock'
  <2> SUFFICES ASSUME NEW v \in Threads, NEW w \in Threads, job'[v].at \in LockedPlaces
               PROVE  (job'[w].at \in LockedPlaces => v = w) /\ job'[w].at # "marking"
    BY DEF OneLock
  <2>1. job'[v] = job[v] /\ job[v].at \in LockedPlaces
    BY <1>2
  <2>2. Locked
    BY <2>1 DEF Locked, LockedPlaces
  <2>3. job'[w].at \in LockedPlaces => job'[w] = job[w]
    BY <1>2
  <2>4. job'[w].at = "marking" => job'[w] = job[w]
    BY <1>1, <2>2
  <2> QED BY <2>1, <2>3, <2>4 DEF OneLock
<1>5. Apart'
  <2>1. \A u \in Threads : Calling(u)' => Calling(u) /\ job'[u] = job[u]
    BY <1>2 DEF Calling
  <2> QED BY <2>1 DEF Apart
<1>6. CodeHere'
  <2> SUFFICES ASSUME NEW u \in Threads, job'[u].at \in CodePlaces
               PROVE  /\ vma[job'[u].page] # None /\ "r" \in vma[job'[u].page].prot
                      /\ \A v \in Threads : Calling(v) => job'[u].page \notin Span(job[v])
    <3>1. \A v \in Threads : Calling(v)' => Calling(v) /\ job'[v] = job[v]
      BY <1>2 DEF Calling
    <3> QED BY <1>1, <3>1 DEF CodeHere
  <2>1. CASE job[u].at \in CodePlaces /\ job'[u].page = job[u].page
    BY <2>1 DEF CodeHere
  <2>2. CASE ~(job[u].at \in CodePlaces /\ job'[u].page = job[u].page)
    <3>1. u = t
      BY <1>1, <2>2
    <3>2. vma[job'[u].page] # None /\ "r" \in vma[job'[u].page].prot /\ job'[u].page \notin Busy
      BY <2>2, <3>1
    <3> QED BY <3>2, SpanTaken
  <2> QED BY <2>1, <2>2
<1>7. TailFree'
  BY <1>1, <1>2 DEF TailFree, Writable
<1>8. Mapped'
  <2> SUFFICES ASSUME NEW p \in Pages, vma[p] # None
               PROVE  \/ mapped'[GranuleOf(p)] # None
                      \/ \E u \in Threads : job'[u].at \in {"emulate", "protect"} /\ job'[u].op = "munmap" /\ p \in Span(job'[u])
    BY <1>1 DEF Mapped
  <2>1. GranuleOf(p) \in AllGranules /\ {"emulate", "protect"} \subseteq Calls
    BY PageFacts DEF Calls
  <2>2. CASE mapped[GranuleOf(p)] # None
    BY <1>1, <2>1, <2>2
  <2>3. CASE mapped[GranuleOf(p)] = None
    <3>1. PICK u \in Threads : job[u].at \in {"emulate", "protect"} /\ job[u].op = "munmap" /\ p \in Span(job[u])
      BY <2>3 DEF Mapped
    <3>2. job'[u] = job[u]
      BY <1>2, <2>1, <3>1
    <3> QED BY <3>1, <3>2
  <2> QED BY <2>2, <2>3
<1>9. Through'
  <2> SUFFICES ASSUME NEW u \in Threads PROVE Passed(job'[u], mapped', Granules')
    BY DEF Through
  <2>1. CASE job'[u].at \in Calls
    <3>1. job'[u] = job[u] /\ Passed(job[u], mapped, Granules) /\ Calling(u)
      BY <1>2, <2>1 DEF Through, Calling
    <3>2. Covers(job[u]) \subseteq AllGranules
      BY <3>1, CoversFacts
    <3> QED BY <1>1, <3>1, <3>2 DEF Passed
  <2>2. CASE job'[u].at \notin Calls
    <3>1. job'[u].at \notin LockedPlaces /\ job'[u].at \notin {"sharedtrack", "protect"}
      BY <1>2, <2>2 DEF Calls
    <3> QED BY <3>1 DEF Passed
  <2> QED BY <2>1, <2>2
<1>10. Backed'
  <2>1. \A u \in Threads : job'[u].at = "pass" => job'[u] = job[u]
    BY <1>2 DEF Calls
  <2> QED BY <1>1, <2>1 DEF Backed
<1>11. Wanted'
  <2> SUFFICES ASSUME NEW u \in Threads, job'[u].at = "protect"
               PROVE  (job'[u].want = None \/ "w" \in job'[u].want => ~Armed(job[u].g)') /\ job'[u] = job[u]
    BY DEF Wanted, Armed, Known
  <2>1. job'[u] = job[u] /\ Calling(u)
    BY <1>2 DEF Calls, Calling
  <2>2. job[u].g \in AllGranules /\ Locked
    BY <2>1, CoversFacts DEF Locked
  <2>3. Armed(job[u].g)' => Armed(job[u].g)
    <3>1. PICK g \in AllGranules : g = job[u].g
      BY <2>2
    <3>2. job'[u].g = g
      BY <2>1, <3>1
    <3>3. Armed(g)' => Armed(g)
      BY <2>2
    <3> QED BY <2>1, <3>1, <3>2, <3>3 DEF Armed, Known
  <2> QED BY <2>1, <2>3 DEF Wanted
<1> QED BY <1>3, <1>4, <1>5, <1>6, <1>7, <1>8, <1>9, <1>10, <1>11

(* The pages of code under way, and those about to die, after such a step. *)
LEMMA AsideCode ==
  ASSUME Jobs, NEW t \in Threads, Aside(t)
  PROVE  \A p \in Pages :
         /\ Coming(p)' => Coming(p) \/ (job'[t].at \in CodePlaces /\ job'[t].page = p /\ ~job'[t].guard)
         /\ Live(p)' => \/ blocks'[p] = "bare" \/ Live(p)
                        \/ job'[t].at = "marked" /\ job'[t].page = p /\ ~job'[t].guard
         /\ Doomed(p) => Doomed(p)' \/ (job[t].at = "noted" /\ p \in job[t].dead)
<1>1. DOMAIN job = Threads /\ DOMAIN job' = Threads /\ \A u \in Threads \ {t} : job'[u] = job[u]
  BY DEF Jobs, Aside
<1> TAKE p \in Pages
<1>2. Coming(p)' => Coming(p) \/ (job'[t].at \in CodePlaces /\ job'[t].page = p /\ ~job'[t].guard)
  BY <1>1 DEF Coming
<1>3. Live(p)' => \/ blocks'[p] = "bare" \/ Live(p)
                  \/ job'[t].at = "marked" /\ job'[t].page = p /\ ~job'[t].guard
  BY <1>1 DEF Live
<1>4. Doomed(p) => Doomed(p)' \/ (job[t].at = "noted" /\ p \in job[t].dead)
  BY <1>1 DEF Doomed
<1> QED BY <1>2, <1>3, <1>4

(* Nothing but the thread's place changes, or fewer blocks are live.       *)
LEMMA AsideKept ==
  ASSUME Demoted, Kept, Jobs, NEW t \in Threads, Aside(t), History,
         tracked' = tracked, demoted' = demoted, mapped' = mapped,
         \A p \in Pages : blocks'[p] = "bare" => blocks[p] = "bare" \/ Coming(p),
         \A p \in Pages : Live(p)' => Live(p),
         \A p \in Pages : Coming(p)' => Coming(p) \/ GranuleOf(p) \notin demoted,
         job[t].at # "noted"
  PROVE  Demoted' /\ Kept'
<1>1. \A p \in Pages : (Writable(p)' <=> Writable(p)) /\ (Remapping(p)' <=> Remapping(p)) /\ (Doomed(p) => Doomed(p)')
  BY AsideFacts, AsideCode
<1>2. \A g : Converted(g)' <=> Converted(g)
  BY AsideFacts
<1>3. \A p \in Pages : Masked(p) => Masked(p)'
  BY <1>2 DEF Masked, Known, Open
<1>4. SiblingPolicy' = SiblingPolicy /\ (halfway => halfway')
  BY DEF History
<1>5. Demoted'
  BY <1>1 DEF Demoted
<1>6. Kept'
  BY <1>1, <1>3, <1>4 DEF Kept
<1> QED BY <1>5, <1>6

(* A record of the compiler.                                               *)
LEMMA NewCodeJob ==
  ASSUME NEW p \in Pages, NEW b \in BOOLEAN
  PROVE  LET c == [at |-> "compiling", page |-> p, guard |-> b]
         IN c \in CodeJobs /\ c.at = "compiling" /\ c.page = p /\ c.guard = b
  BY DEF CodeJobs

(* The same record with another place.                                     *)
LEMMA CodeJobFacts ==
  ASSUME NEW c \in CodeJobs, NEW a \in CodePlaces
  PROVE  LET c2 == [c EXCEPT !.at = a]
         IN c2 \in CodeJobs /\ c2.at = a /\ c2.page = c.page /\ c2.guard = c.guard
  BY DEF CodeJobs, CodePlaces

(* CompileBlock asks whether the granule is demoted.                       *)
LEMMA CompileKept ==
  ASSUME GranuleAssumption, IInv, NEW t \in Threads, NEW p \in Pages, CompileBlock(t, p), History
  PROVE  IInv'
<1> USE DEF IInv
<1>1. PICK b \in BOOLEAN : b <=> GranuleOf(p) \in demoted
  OBVIOUS
<1>2. /\ job[t].at = "idle" /\ job' = [job EXCEPT ![t] = [at |-> "compiling", page |-> p, guard |-> b]]
      /\ p \notin Busy /\ vma[p] # None /\ "r" \in vma[p].prot
  <2>1. b = (GranuleOf(p) \in demoted)
    BY <1>1
  <2> QED BY <2>1 DEF CompileBlock, Goto
<1>3. vma' = vma /\ Granules' = Granules /\ intended' = intended /\ mapped' = mapped
      /\ tracked' = tracked /\ demoted' = demoted /\ blocks' = blocks
  BY DEF CompileBlock, table, smc
<1>4. /\ DOMAIN job' = Threads /\ \A u \in Threads \ {t} : job'[u] = job[u]
      /\ job'[t] = [at |-> "compiling", page |-> p, guard |-> b]
  BY <1>2 DEF Still, Jobs
<1>5. /\ job'[t].at = "compiling" /\ job'[t].page = p /\ job'[t].guard = b /\ job'[t] \in CodeJobs
      /\ "compiling" \in CodePlaces /\ "compiling" \notin Calls \cup HandlerJobs /\ "idle" \notin Calls
  <2>1. job'[t].at = "compiling" /\ job'[t].page = p /\ job'[t].guard = b /\ job'[t] \in CodeJobs
    <3>1. PICK c : /\ c = [at |-> "compiling", page |-> p, guard |-> b]
                   /\ c \in CodeJobs /\ c.at = "compiling" /\ c.page = p /\ c.guard = b
      BY NewCodeJob
    <3> QED BY <1>4, <3>1
  <2>2. "compiling" \in CodePlaces /\ "compiling" \notin Calls \cup HandlerJobs /\ "idle" \notin Calls
    BY DEF CodePlaces, Calls, HandlerJobs
  <2> QED BY <2>1, <2>2
<1>6. Aside(t)
  BY <1>2, <1>3, <1>4, <1>5 DEF Aside
<1>7. Types'
  BY <1>3 DEF Still, Types, Known, History
<1>8. JobType(t)'
  BY <1>5 DEF JobType, Calling, Calls, HandlerJobs, CodePlaces
<1>9. Marking'
  BY <1>3, <1>4, <1>5 DEF Still, Marking, Writable, Open
<1>10. \A g \in AllGranules : Armed(g)' => Armed(g)
  BY <1>3 DEF Armed, Known
<1>11. Still'
  BY <1>2, <1>5, <1>6, <1>7, <1>8, <1>9, <1>10, AsideStill
<1>12. Jobs
  BY DEF Still
<1>13. \A q \in Pages : (Live(q)' => Live(q)) /\ (Coming(q)' => Coming(q) \/ GranuleOf(q) \notin demoted)
  <2> TAKE q \in Pages
  <2>1. Coming(q)' => Coming(q) \/ (job'[t].page = q /\ ~job'[t].guard)
    BY <1>6, <1>12, AsideCode
  <2>2. Live(q)' => Live(q)
    <3>1. job'[t].at # "marked" /\ (blocks'[q] = "bare" => Live(q))
      BY <1>3, <1>5 DEF Live
    <3> QED BY <1>6, <1>12, <3>1, AsideCode
  <2> QED BY <1>1, <1>5, <2>1, <2>2
<1>14. Demoted' /\ Kept'
  BY <1>2, <1>3, <1>6, <1>12, <1>13, AsideKept
<1> QED BY <1>11, <1>14

(* The place that a compiler goes to, with its page and its guard.         *)
LEMMA CodeProceed ==
  ASSUME Jobs, NEW t \in Threads, job[t].at \in CodePlaces, NEW a \in CodePlaces, Proceed(t, a)
  PROVE  /\ DOMAIN job' = Threads /\ \A u \in Threads \ {t} : job'[u] = job[u]
         /\ job'[t].at = a /\ job'[t].page = job[t].page /\ job'[t].guard = job[t].guard
         /\ job[t].page \in Pages /\ job[t].at \notin Calls /\ a \notin Calls /\ JobType(t)'
<1>1. PICK c \in CodeJobs : c = job[t]
  BY DEF Jobs, JobType
<1>2. DOMAIN job' = Threads /\ (\A u \in Threads \ {t} : job'[u] = job[u]) /\ job'[t] = [c EXCEPT !.at = a]
  BY <1>1 DEF Jobs, Proceed, Goto
<1>3. PICK c2 : c2 = [c EXCEPT !.at = a] /\ c2 \in CodeJobs /\ c2.at = a /\ c2.page = c.page /\ c2.guard = c.guard
  BY CodeJobFacts
<1>4. c.page \in Pages
  BY <1>1, SMT DEF CodeJobs
<1>5. \A b \in CodePlaces : b \notin Calls /\ b \notin {"fault", "noted", "fill"}
  BY DEF CodePlaces, Calls
<1>6. JobType(t)'
  BY <1>2, <1>3, <1>5 DEF JobType, Calling
<1> QED BY <1>1, <1>2, <1>3, <1>4, <1>5, <1>6

(* MarkGuestExecutableRange: the kernel's protection, where the page can   *)
(* be written and its granule is not demoted.                              *)
LEMMA MarkKept ==
  ASSUME GranuleAssumption, IInv, NEW t \in Threads, MarkGuestExecutableRange(t), History
  PROVE  IInv'
<1> USE DEF IInv
<1>1. /\ job[t].at = "compiling" /\ ~Locked /\ Jobs /\ Types /\ "compiling" \in CodePlaces
      /\ vma' = vma /\ Granules' = Granules /\ intended' = intended
      /\ tracked' = tracked /\ demoted' = demoted /\ blocks' = blocks
      /\ SiblingPolicy' = SiblingPolicy /\ (halfway => halfway') /\ halfway' \in BOOLEAN
  BY DEF MarkGuestExecutableRange, table, smc, Still, CodePlaces, History
<1>2. PICK p \in Pages, g \in AllGranules : p = job[t].page /\ g = GranuleOf(p) /\ p \in PagesOf(g)
  <2>1. job[t] \in CodeJobs
    BY <1>1 DEF Jobs, JobType
  <2>2. job[t].page \in Pages
    BY <2>1, SMT DEF CodeJobs
  <2> QED BY <2>2, PageFacts
<1>3. ASSUME NEW a \in {"marking", "marked"}, Proceed(t, a)
      PROVE  /\ DOMAIN job' = Threads /\ \A u \in Threads \ {t} : job'[u] = job[u]
             /\ job'[t].at = a /\ job'[t].page = p /\ job'[t].guard = job[t].guard
             /\ a \in CodePlaces /\ job[t].at \notin Calls /\ a \notin Calls /\ JobType(t)'
  <2>1. a \in CodePlaces
    BY DEF CodePlaces
  <2> QED BY <1>1, <1>2, <1>3, <2>1, CodeProceed
<1>4. \A q \in AllGranules : Armed(q)' => Armed(q)
  BY <1>1 DEF Armed, Known
<1>5. CASE Proceed(t, "marking") /\ mapped' = [mapped EXCEPT ![g] = Reprotected(g, {"r"})] /\ "w" \in vma[p].prot
  <2>1. /\ DOMAIN job' = Threads /\ \A u \in Threads \ {t} : job'[u] = job[u]
        /\ job'[t].at = "marking" /\ job'[t].page = p /\ job'[t].guard = job[t].guard
        /\ "marking" \in CodePlaces /\ job[t].at \notin Calls /\ "marking" \notin Calls /\ JobType(t)'
    BY <1>3, <1>5
  <2>2. /\ Reprotected(g, {"r"}) \in Mapping \cup {None}
        /\ (Reprotected(g, {"r"}) = None) <=> (mapped[g] = None)
        /\ mapped[g] # None => Reprotected(g, {"r"}).prot = {"r"}
    <3>1. {"r"} \in Protection
      BY DEF Protection, RW
    <3> QED BY <1>1, <3>1, ReprotectedFacts
  <2>3. /\ mapped' \in [AllGranules -> Mapping \cup {None}] /\ mapped'[g] = Reprotected(g, {"r"})
        /\ \A h \in AllGranules \ {g} : mapped'[h] = mapped[h]
    BY <1>1, <1>5, <2>2 DEF Types
  <2>4. ~Open(g)' /\ \A h \in AllGranules : Open(h)' => Open(h)
    <3>1. mapped'[g] # None => mapped'[g].prot = {"r"}
      BY <2>2, <2>3
    <3>2. "w" \notin {"r"}
      OBVIOUS
    <3>3. ~Open(g)'
      BY <3>1, <3>2 DEF Open
    <3> QED BY <2>3, <3>3 DEF Open
  <2>5. Aside(t)
    BY <1>1, <2>1, <2>2, <2>3 DEF Aside
  <2>6. Types'
    BY <1>1, <2>3 DEF Types, Known
  <2>7. Marking'
    <3> SUFFICES ASSUME NEW u \in Threads, job'[u].at = "marking", NEW q, q = job'[u].page PROVE Writable(q) /\ ~Open(GranuleOf(q))'
      BY <1>1 DEF Marking, Writable, Open
    <3>1. CASE u = t
      <4>1. q = p /\ vma[p] # None
        BY <1>1, <1>2, <2>1, <3>1 DEF Still, CodeHere
      <4> QED BY <1>2, <1>5, <2>4, <4>1 DEF Writable
    <3>2. CASE u # t
      <4>1. Writable(q) /\ ~Open(GranuleOf(q)) /\ job[u].at = "marking" /\ q = job[u].page
        BY <2>1, <3>2 DEF Still, Marking
      <4>2. q \in Pages
        <5>1. job[u] \in CodeJobs
          BY <1>1, <4>1 DEF Jobs, JobType, CodePlaces
        <5>2. job[u].page \in Pages
          BY <5>1, SMT DEF CodeJobs
        <5> QED BY <4>1, <5>2
      <4> QED BY <2>4, <4>1, <4>2, PageFacts
    <3> QED BY <3>1, <3>2
  <2>8. Still'
    BY <1>1, <1>2, <1>4, <2>1, <2>5, <2>6, <2>7, AsideStill
  <2>9. \A q \in Pages : (Live(q)' => Live(q)) /\ (Coming(q)' => Coming(q)) /\ (Doomed(q) => Doomed(q)')
    <3> TAKE q \in Pages
    <3>1. Coming(q)' => Coming(q) \/ (job'[t].page = q /\ ~job'[t].guard)
      BY <1>1, <2>5, AsideCode
    <3>2. job'[t].page = q /\ ~job'[t].guard => Coming(q)
      BY <1>1, <1>2, <2>1 DEF Coming
    <3>3. job'[t].at # "marked" /\ (blocks'[q] = "bare" => Live(q)) /\ job[t].at # "noted"
      BY <1>1, <2>1 DEF Live
    <3> QED BY <1>1, <2>5, <3>1, <3>2, <3>3, AsideCode
  <2>10. Demoted'
    BY <1>1, <2>9 DEF Demoted
  <2>11. Kept'
    <3>1. \A q \in Pages : Masked(q) => Masked(q)'
      <4> SUFFICES ASSUME NEW q \in Pages, Masked(q) PROVE Masked(q)'
        OBVIOUS
      <4>1. GranuleOf(q) \in AllGranules /\ (Converted(GranuleOf(q))' <=> Converted(GranuleOf(q)))
        BY <1>1, <2>5, PageFacts, AsideFacts
      <4> QED BY <1>1, <2>4, <4>1 DEF Masked, Known
    <3>2. \A q \in Pages : (Writable(q)' <=> Writable(q)) /\ (Remapping(q)' <=> Remapping(q))
      BY <1>1, <2>5, AsideFacts
    <3> QED BY <1>1, <2>9, <3>1, <3>2 DEF Kept
  <2> QED BY <2>8, <2>10, <2>11
<1>6. CASE Proceed(t, "marked") /\ mapped' = mapped /\ ~("w" \in vma[p].prot /\ g \notin demoted)
  <2>1. /\ DOMAIN job' = Threads /\ \A u \in Threads \ {t} : job'[u] = job[u]
        /\ job'[t].at = "marked" /\ job'[t].page = p /\ job'[t].guard = job[t].guard
        /\ "marked" \in CodePlaces /\ job[t].at \notin Calls /\ "marked" \notin Calls /\ JobType(t)'
    BY <1>3, <1>6
  <2>2. Aside(t)
    BY <1>1, <1>6, <2>1 DEF Aside
  <2>3. Types'
    BY <1>1, <1>6 DEF Types, Known
  <2>4. Marking'
    BY <1>1, <1>6, <2>1 DEF Still, Marking, Writable, Open
  <2>5. Still'
    BY <1>1, <1>2, <1>4, <2>1, <2>2, <2>3, <2>4, AsideStill
  <2>6. \A q \in Pages : /\ Live(q)' => Live(q) \/ (q = p /\ Coming(q))
                         /\ Coming(q)' => Coming(q)
                         /\ Doomed(q) => Doomed(q)'
    <3> TAKE q \in Pages
    <3>1. Coming(q)' => Coming(q) \/ (job'[t].page = q /\ ~job'[t].guard)
      BY <1>1, <2>2, AsideCode
    <3>2. job'[t].page = q /\ ~job'[t].guard => q = p /\ Coming(q)
      BY <1>1, <1>2, <2>1 DEF Coming
    <3>3. (blocks'[q] = "bare" => Live(q)) /\ job[t].at # "noted"
      BY <1>1 DEF Live
    <3> QED BY <1>1, <2>2, <3>1, <3>2, <3>3, AsideCode
  <2>7. Demoted'
    BY <1>1, <2>6 DEF Demoted
  <2>8. Kept'
    <3>1. \A q \in Pages : Masked(q) => Masked(q)'
      <4> SUFFICES ASSUME NEW q \in Pages, Masked(q) PROVE Masked(q)'
        OBVIOUS
      <4>1. Converted(GranuleOf(q))' <=> Converted(GranuleOf(q))
        BY <1>1, <2>2, AsideFacts
      <4> QED BY <1>1, <1>6, <4>1 DEF Masked, Known, Open
    <3>2. \A q \in Pages : (Writable(q)' <=> Writable(q)) /\ (Remapping(q)' <=> Remapping(q))
      BY <1>1, <2>2, AsideFacts
    <3>3. Coming(p) /\ Writable(p) => Doomed(p)
      BY <1>2, <1>6 DEF Demoted, Writable
    <3> QED BY <1>1, <2>6, <3>1, <3>2, <3>3 DEF Kept
  <2> QED BY <2>5, <2>7, <2>8
<1> QED BY <1>2, <1>5, <1>6 DEF MarkGuestExecutableRange

(* NoteArmed puts the page into the mask.                                  *)
LEMMA NoteArmedKept ==
  ASSUME GranuleAssumption, IInv, NEW t \in Threads, NoteArmed(t), History
  PROVE  IInv'
<1> USE DEF IInv
<1>1. /\ job[t].at = "marking" /\ Jobs /\ Types /\ "marking" \in CodePlaces /\ "marked" \in CodePlaces
      /\ vma' = vma /\ Granules' = Granules /\ intended' = intended /\ mapped' = mapped
      /\ demoted' = demoted /\ blocks' = blocks
      /\ SiblingPolicy' = SiblingPolicy /\ (halfway => halfway') /\ halfway' \in BOOLEAN
      /\ Proceed(t, "marked")
  BY DEF NoteArmed, table, Still, CodePlaces, History
<1>2. /\ DOMAIN job' = Threads /\ \A u \in Threads \ {t} : job'[u] = job[u]
      /\ job'[t].at = "marked" /\ job'[t].page = job[t].page /\ job'[t].guard = job[t].guard
      /\ job[t].page \in Pages /\ job[t].at \notin Calls /\ "marked" \notin Calls /\ JobType(t)'
  BY <1>1, CodeProceed
<1>3. PICK p \in Pages, g \in AllGranules : p = job[t].page /\ g = GranuleOf(p) /\ p \in PagesOf(g)
  BY <1>2, PageFacts
<1> DEFINE mask == IF Known(g) THEN tracked[g] ELSE {}
<1>4. tracked' = [tracked EXCEPT ![g] = IF g \in demoted THEN mask ELSE mask \cup {p}]
  BY <1>3 DEF NoteArmed
<1>5. mask \subseteq Pages
  BY <1>1 DEF Types, Known
<1>6. /\ tracked' \in [AllGranules -> (SUBSET Pages) \cup {None}]
      /\ \A h \in AllGranules \ {g} : tracked'[h] = tracked[h]
      /\ mask \subseteq tracked'[g] /\ (g \notin demoted => p \in tracked'[g]) /\ Known(g)'
  <2>1. PICK m \in SUBSET Pages : m = IF g \in demoted THEN mask ELSE mask \cup {p}
    BY <1>5
  <2>2. tracked' = [tracked EXCEPT ![g] = m]
    BY <1>4, <2>1
  <2>3. m # None
    BY DEF GranuleAssumption
  <2>4. tracked'[g] = m /\ \A h \in AllGranules \ {g} : tracked'[h] = tracked[h]
    BY <1>1, <2>2 DEF Types
  <2>5. tracked' \in [AllGranules -> (SUBSET Pages) \cup {None}]
    BY <1>1, <2>2 DEF Types
  <2> QED BY <2>1, <2>3, <2>4, <2>5 DEF Known
<1>7. \A h \in AllGranules : Known(h) => Known(h)' /\ tracked[h] \subseteq tracked'[h]
  BY <1>6 DEF Known
<1>8. Aside(t)
  BY <1>1, <1>2 DEF Aside
<1>9. Types'
  <2>1. \A h \in demoted : Known(h)'
    BY <1>1, <1>7 DEF Types
  <2> QED BY <1>1, <1>6, <2>1 DEF Types
<1>10. Marking'
  BY <1>1, <1>2 DEF Still, Marking, Writable, Open
<1>11. ~Locked
  BY <1>1 DEF Still, OneLock, Locked, LockedPlaces
<1>12. Still'
  BY <1>1, <1>2, <1>8, <1>9, <1>10, <1>11, AsideStill
<1>13. \A q \in Pages : /\ Live(q)' => Live(q) \/ (q = p /\ Coming(q))
                        /\ Coming(q)' => Coming(q)
                        /\ Doomed(q) => Doomed(q)'
  <2> TAKE q \in Pages
  <2>1. Coming(q)' => Coming(q) \/ (job'[t].page = q /\ ~job'[t].guard)
    BY <1>1, <1>8, AsideCode
  <2>2. job'[t].page = q /\ ~job'[t].guard => q = p /\ Coming(q)
    BY <1>1, <1>2, <1>3 DEF Coming
  <2>3. (blocks'[q] = "bare" => Live(q)) /\ job[t].at # "noted"
    BY <1>1 DEF Live
  <2> QED BY <1>1, <1>8, <2>1, <2>2, <2>3, AsideCode
<1>14. Demoted'
  BY <1>1, <1>13 DEF Demoted
<1>15. Kept'
  <2>1. \A q \in Pages : Masked(q) => Masked(q)'
    <3> SUFFICES ASSUME NEW q \in Pages, Masked(q) PROVE Masked(q)'
      OBVIOUS
    <3>1. GranuleOf(q) \in AllGranules /\ (Converted(GranuleOf(q))' <=> Converted(GranuleOf(q)))
      BY <1>1, <1>8, PageFacts, AsideFacts
    <3>2. Known(GranuleOf(q))' /\ q \in tracked'[GranuleOf(q)]
      BY <1>7, <3>1 DEF Masked
    <3> QED BY <1>1, <3>1, <3>2 DEF Masked, Open
  <2>2. \A q \in Pages : (Writable(q)' <=> Writable(q)) /\ (Remapping(q)' <=> Remapping(q))
    BY <1>1, <1>8, AsideFacts
  <2>3. Coming(p) => Doomed(p) \/ Masked(p)'
    <3>1. CASE g \in demoted
      BY <1>3, <3>1 DEF Demoted
    <3>2. CASE g \notin demoted
      <4>1. ~Open(g)
        BY <1>1, <1>3 DEF Still, Marking
      <4> QED BY <1>1, <1>3, <1>6, <3>2, <4>1 DEF Masked, Open
    <3> QED BY <3>1, <3>2
  <2> QED BY <1>1, <1>13, <2>1, <2>2, <2>3 DEF Kept
<1> QED BY <1>12, <1>14, <1>15

(* A thread that is idle again has let go of everything.                   *)
LEMMA IdleType ==
  ASSUME NEW t \in Threads, job'[t] = Idle
  PROVE  JobType(t)' /\ job'[t].at = "idle" /\ "idle" \notin Calls \cup CodePlaces
<1>0. Idle.at = "idle"
  BY DEF Idle
<1>1. job'[t].at = "idle"
  BY <1>0
<1>2. "idle" \notin Calls \cup CodePlaces /\ "idle" \in HandlerJobs
  BY DEF Calls, CodePlaces, HandlerJobs
<1> QED BY <1>1, <1>2 DEF JobType, Calling

(* The block is published.                                                 *)
LEMMA PublishKept ==
  ASSUME GranuleAssumption, IInv, NEW t \in Threads, Publish(t), History
  PROVE  IInv'
<1> USE DEF IInv
<1>1. /\ job[t].at = "marked" /\ Jobs /\ Types /\ "marked" \in CodePlaces /\ "marked" \notin Calls
      /\ vma' = vma /\ Granules' = Granules /\ intended' = intended /\ mapped' = mapped
      /\ tracked' = tracked /\ demoted' = demoted
      /\ blocks' = [blocks EXCEPT ![job[t].page] = IF job[t].guard THEN "guarded" ELSE "bare"]
      /\ halfway' \in BOOLEAN /\ Goto(t, Idle)
  BY DEF Publish, table, smc, Still, CodePlaces, Calls, History
<1>2. DOMAIN job' = Threads /\ (\A u \in Threads \ {t} : job'[u] = job[u]) /\ job'[t] = Idle
  BY <1>1 DEF Jobs, Goto
<1>3. JobType(t)' /\ job'[t].at = "idle" /\ "idle" \notin Calls \cup CodePlaces
  BY <1>2, IdleType
<1>4. PICK p \in Pages : p = job[t].page
  <2>1. job[t] \in CodeJobs
    BY <1>1 DEF Jobs, JobType
  <2>2. job[t].page \in Pages
    BY <2>1, SMT DEF CodeJobs
  <2> QED BY <2>2
<1>5. /\ blocks' \in [Pages -> {"none", "bare", "guarded"}]
      /\ \A q \in Pages : blocks'[q] = "bare" => blocks[q] = "bare" \/ (q = p /\ ~job[t].guard)
  <2>1. PICK b \in {"bare", "guarded"} : b = IF job[t].guard THEN "guarded" ELSE "bare"
    OBVIOUS
  <2>2. blocks' = [blocks EXCEPT ![p] = b]
    BY <1>1, <1>4, <2>1
  <2>3. b = "bare" => ~job[t].guard
    BY <2>1
  <2> QED BY <1>1, <2>2, <2>3 DEF Types
<1>6. Aside(t)
  BY <1>1, <1>2, <1>3 DEF Aside
<1>7. Types'
  BY <1>1, <1>5 DEF Types, Known
<1>8. Marking'
  BY <1>1, <1>2, <1>3 DEF Still, Marking, Writable, Open, CodePlaces
<1>9. \A g \in AllGranules : Armed(g)' => Armed(g)
  BY <1>1 DEF Armed, Known
<1>10. Still'
  <2>1. job'[t].at \notin CodePlaces /\ job'[t].at # "marking"
    BY <1>3
  <2> QED BY <1>3, <1>6, <1>7, <1>8, <1>9, <2>1, AsideStill
<1>11. \A q \in Pages : q = p /\ ~job[t].guard => Coming(q) /\ Live(q)
  BY <1>1, <1>4 DEF Coming, Live
<1>12. \A q \in Pages : (Live(q)' => Live(q)) /\ (Coming(q)' => Coming(q))
  <2> TAKE q \in Pages
  <2>1. job'[t].at \notin CodePlaces /\ job'[t].at # "marked" /\ (blocks'[q] = "bare" => Live(q))
    BY <1>1, <1>3, <1>5, <1>11 DEF Live
  <2> QED BY <1>1, <1>6, <2>1, AsideCode
<1>13. Demoted' /\ Kept'
  BY <1>1, <1>5, <1>6, <1>11, <1>12, AsideKept
<1> QED BY <1>10, <1>13

(* HandleSegfault looks the page up.                                       *)
LEMMA HandleKept ==
  ASSUME GranuleAssumption, IInv, NEW t \in Threads, NEW p \in Pages, HandleSegfault(t, p), History
  PROVE  IInv'
<1> USE DEF IInv
<1>1. /\ job[t].at = "idle" /\ Jobs /\ Types /\ "idle" \notin Calls
      /\ vma' = vma /\ Granules' = Granules /\ intended' = intended /\ mapped' = mapped
      /\ tracked' = tracked /\ demoted' = demoted /\ blocks' = blocks
      /\ halfway' \in BOOLEAN /\ Goto(t, [at |-> "fault", page |-> p])
  BY DEF HandleSegfault, table, smc, Still, Calls, History
<1>2. DOMAIN job' = Threads /\ (\A u \in Threads \ {t} : job'[u] = job[u]) /\ job'[t].at = "fault" /\ job'[t].page = p
  BY <1>1 DEF Jobs, Goto
<1>3. "fault" \notin Calls \cup CodePlaces /\ "fault" \in HandlerJobs
  BY DEF Calls, CodePlaces, HandlerJobs
<1>4. JobType(t)'
  BY <1>2, <1>3 DEF JobType, Calling
<1>5. Aside(t)
  BY <1>1, <1>2, <1>3 DEF Aside
<1>6. Types'
  BY <1>1 DEF Types, Known
<1>7. Marking'
  BY <1>1, <1>2 DEF Still, Marking, Writable, Open
<1>8. \A g \in AllGranules : Armed(g)' => Armed(g)
  BY <1>1 DEF Armed, Known
<1>9. Still'
  BY <1>2, <1>3, <1>4, <1>5, <1>6, <1>7, <1>8, AsideStill
<1>10. \A q \in Pages : (Live(q)' => Live(q)) /\ (Coming(q)' => Coming(q))
  <2> TAKE q \in Pages
  <2>1. job'[t].at \notin CodePlaces /\ job'[t].at # "marked" /\ (blocks'[q] = "bare" => Live(q))
    BY <1>1, <1>2, <1>3 DEF Live
  <2> QED BY <1>1, <1>5, <2>1, AsideCode
<1>11. Demoted' /\ Kept'
  BY <1>1, <1>5, <1>10, AsideKept
<1> QED BY <1>9, <1>11

(* NoteFault empties the mask and takes on the invalidation of the pages.  *)
LEMMA NoteFaultKept ==
  ASSUME GranuleAssumption, IInv, NEW t \in Threads, NoteFault(t), History
  PROVE  IInv'
<1> USE DEF IInv
<1>1. /\ job[t].at = "fault" /\ Jobs /\ Types /\ "fault" \notin Calls \cup CodePlaces
      /\ "noted" \notin Calls \cup CodePlaces /\ "noted" \in HandlerJobs
      /\ vma' = vma /\ Granules' = Granules /\ intended' = intended /\ mapped' = mapped /\ blocks' = blocks
      /\ SiblingPolicy' = SiblingPolicy /\ (halfway => halfway') /\ halfway' \in BOOLEAN
  BY DEF NoteFault, table, Still, Calls, CodePlaces, HandlerJobs, History
<1>2. PICK p \in Pages, g \in AllGranules : p = job[t].page /\ g = GranuleOf(p) /\ p \in PagesOf(g)
  <2>1. job[t].page \in Pages
    BY <1>1 DEF Jobs, JobType
  <2> QED BY <2>1, PageFacts
<1>3. PICK demote \in BOOLEAN :
        /\ demote => Known(g)
        /\ demoted' = IF demote THEN demoted \cup {g} ELSE demoted
        /\ Goto(t, [at |-> "noted", page |-> p, dead |-> WideInvalidate(p, demote)])
  BY <1>2 DEF NoteFault
<1>4. tracked' = [tracked EXCEPT ![g] = IF tracked[g] = None THEN None ELSE {}]
  BY <1>2 DEF NoteFault
<1>5. PICK dead : dead = WideInvalidate(p, demote)
  OBVIOUS
<1>6. dead \subseteq PagesOf(g) /\ (SiblingPolicy # "Rearm" \/ demote => dead = PagesOf(g))
  BY <1>2, <1>5 DEF WideInvalidate
<1>7. /\ DOMAIN job' = Threads /\ \A u \in Threads \ {t} : job'[u] = job[u]
      /\ job'[t].at = "noted" /\ job'[t].page = p /\ job'[t].dead = dead
  BY <1>1, <1>3, <1>5 DEF Jobs, Goto
<1>8. JobType(t)'
  BY <1>1, <1>2, <1>6, <1>7 DEF JobType, Calling
<1>9. Aside(t)
  BY <1>1, <1>7 DEF Aside
<1>10. /\ tracked' \in [AllGranules -> (SUBSET Pages) \cup {None}]
       /\ \A h \in AllGranules \ {g} : tracked'[h] = tracked[h]
       /\ \A h \in AllGranules : (Known(h) => Known(h)') /\ (Armed(h)' => Armed(h))
  <2>1. {} # None /\ {} \in SUBSET Pages
    BY DEF GranuleAssumption
  <2>2. PICK m : m = IF tracked[g] = None THEN None ELSE {}
    OBVIOUS
  <2>3. m \in (SUBSET Pages) \cup {None} /\ (tracked[g] # None => m # None) /\ (m # None => m = {})
    BY <2>1, <2>2
  <2>4. tracked' = [tracked EXCEPT ![g] = m]
    BY <1>4, <2>2
  <2>5. /\ tracked' \in [AllGranules -> (SUBSET Pages) \cup {None}]
        /\ tracked'[g] = m /\ \A h \in AllGranules \ {g} : tracked'[h] = tracked[h]
    BY <1>1, <2>3, <2>4 DEF Types
  <2> QED BY <2>3, <2>5 DEF Armed, Known
<1>11. Types'
  <2>1. demoted' \subseteq AllGranules /\ \A h \in demoted' : Known(h)'
    <3>1. \A h \in demoted' : h \in demoted \/ (h = g /\ Known(g))
      BY <1>3
    <3> QED BY <1>1, <1>10, <3>1 DEF Types
  <2> QED BY <1>1, <1>10, <2>1 DEF Types
<1>12. Marking'
  BY <1>1, <1>7 DEF Still, Marking, Writable, Open
<1>13. Still'
  BY <1>1, <1>7, <1>8, <1>9, <1>10, <1>11, <1>12, AsideStill
<1>14. \A q \in Pages : /\ (Live(q)' => Live(q)) /\ (Coming(q)' => Coming(q)) /\ (Doomed(q) => Doomed(q)')
                        /\ (q \in dead => Doomed(q)')
  <2> TAKE q \in Pages
  <2>1. job'[t].at \notin CodePlaces /\ job'[t].at # "marked" /\ (blocks'[q] = "bare" => Live(q)) /\ job[t].at # "noted"
    BY <1>1, <1>7 DEF Live
  <2>2. q \in dead => Doomed(q)'
    BY <1>7 DEF Doomed
  <2> QED BY <1>1, <1>9, <2>1, <2>2, AsideCode
<1>15. \A q \in Pages : GranuleOf(q) = g => q \in PagesOf(g)
  BY PageFacts
<1>16. Demoted'
  <2> SUFFICES ASSUME NEW q \in Pages, GranuleOf(q) \in demoted', blocks[q] = "bare" \/ Coming(q)
               PROVE  Doomed(q)'
    BY <1>1, <1>14 DEF Demoted
  <2>1. CASE GranuleOf(q) \in demoted
    BY <1>14, <2>1 DEF Demoted
  <2>2. CASE GranuleOf(q) \notin demoted
    <3>1. demote /\ GranuleOf(q) = g
      BY <1>3, <2>2
    <3> QED BY <1>6, <1>14, <1>15, <3>1
  <2> QED BY <2>1, <2>2
<1>17. Kept'
  <2>1. \A q \in Pages : (Writable(q)' <=> Writable(q)) /\ (Remapping(q)' <=> Remapping(q))
    BY <1>1, <1>9, AsideFacts
  <2>2. ASSUME SiblingPolicy = "Invalidate", NEW q \in Pages, Masked(q) PROVE Masked(q)' \/ Doomed(q)'
    <3>1. CASE GranuleOf(q) = g
      BY <1>6, <1>14, <1>15, <2>2, <3>1
    <3>2. CASE GranuleOf(q) # g
      <4>1. GranuleOf(q) \in AllGranules /\ (Converted(GranuleOf(q))' <=> Converted(GranuleOf(q)))
        BY <1>1, <1>9, PageFacts, AsideFacts
      <4> QED BY <1>1, <1>10, <2>2, <3>2, <4>1 DEF Masked, Known, Open
    <3> QED BY <3>1, <3>2
  <2> QED BY <1>1, <1>14, <2>1, <2>2 DEF Kept
<1> QED BY <1>13, <1>16, <1>17

(* Without a compiler at work only published blocks are live.              *)
LEMMA NotCompiling ==
  ASSUME ~Compiling
  PROVE  /\ \A u \in Threads : job[u].at \notin CodePlaces
         /\ \A p \in Pages : ~Coming(p) /\ (Live(p) <=> blocks[p] = "bare")
<1>1. \A u \in Threads : job[u].at \notin CodePlaces
  BY DEF Compiling, CodePlaces
<1>2. \A u \in Threads : job[u].at # "marked"
  BY <1>1 DEF CodePlaces
<1> QED BY <1>1, <1>2 DEF Coming, Live

(* UnprotectRegionCallback opens the granule once the code is gone.        *)
LEMMA UnprotectKept ==
  ASSUME GranuleAssumption, IInv, NEW t \in Threads, UnprotectRegionCallback(t), History
  PROVE  IInv'
<1> USE DEF IInv
<1>1. /\ job[t].at = "noted" /\ Jobs /\ Types /\ "noted" \notin Calls /\ ~Compiling
      /\ vma' = vma /\ Granules' = Granules /\ intended' = intended
      /\ tracked' = tracked /\ demoted' = demoted
      /\ SiblingPolicy' = SiblingPolicy /\ (halfway => halfway') /\ halfway' \in BOOLEAN
      /\ Invalidate(job[t].dead) /\ Goto(t, Idle)
  BY DEF UnprotectRegionCallback, table, smc, Still, Calls, History
<1>2. PICK p \in Pages, g \in AllGranules : p = job[t].page /\ g = GranuleOf(p) /\ p \in PagesOf(g)
  <2>1. job[t].page \in Pages
    BY <1>1 DEF Jobs, JobType
  <2> QED BY <2>1, PageFacts
<1>3. SiblingPolicy = "Invalidate" => job[t].dead = PagesOf(g)
  BY <1>1, <1>2 DEF Jobs, JobType
<1>4. DOMAIN job' = Threads /\ (\A u \in Threads \ {t} : job'[u] = job[u]) /\ job'[t] = Idle
  BY <1>1 DEF Jobs, Goto
<1>5. JobType(t)' /\ job'[t].at = "idle" /\ "idle" \notin Calls \cup CodePlaces
  BY <1>4, IdleType
<1>6. /\ blocks' \in [Pages -> {"none", "bare", "guarded"}]
      /\ \A q \in Pages : blocks'[q] = "bare" => blocks[q] = "bare" /\ q \notin job[t].dead
  BY <1>1 DEF Invalidate, Types
<1>7. /\ mapped' \in [AllGranules -> Mapping \cup {None}] /\ (mapped'[g] = None <=> mapped[g] = None)
      /\ \A h \in AllGranules \ {g} : mapped'[h] = mapped[h]
  <2>1. PICK m \in Mapping \cup {None} : m = Reprotected(g, RW) /\ (m = None <=> mapped[g] = None)
    BY <1>1, ReprotectedFacts DEF Protection
  <2>2. mapped' = [mapped EXCEPT ![g] = m]
    BY <1>2, <2>1 DEF UnprotectRegionCallback
  <2> QED BY <1>1, <2>1, <2>2 DEF Types
<1>8. Aside(t)
  BY <1>1, <1>4, <1>5, <1>7 DEF Aside
<1>9. Types'
  BY <1>1, <1>6, <1>7 DEF Types, Known
<1>10. \A u \in Threads : job'[u].at \notin CodePlaces
  BY <1>1, <1>4, <1>5, NotCompiling
<1>11. Marking'
  BY <1>10 DEF Marking, CodePlaces
<1>12. \A h \in AllGranules : Armed(h)' => Armed(h)
  BY <1>1 DEF Armed, Known
<1>13. Still'
  <2>1. job'[t].at \notin CodePlaces /\ job'[t].at # "marking"
    BY <1>5
  <2> QED BY <1>5, <1>8, <1>9, <1>11, <1>12, <2>1, AsideStill
<1>14. \A q \in Pages : ~Coming(q)' /\ (Live(q)' => blocks'[q] = "bare")
  <2>1. \A u \in Threads : job'[u].at # "marked"
    BY <1>10 DEF CodePlaces
  <2> QED BY <1>10, <2>1 DEF Coming, Live
<1>15. \A q \in Pages : Doomed(q) => Doomed(q)' \/ q \in job[t].dead
  BY <1>1, <1>8, AsideCode
<1>16. Demoted'
  BY <1>1, <1>6, <1>14, <1>15 DEF Demoted
<1>17. Kept'
  <2> SUFFICES ASSUME SiblingPolicy = "Invalidate", ~halfway, NEW q \in Pages, blocks'[q] = "bare", Writable(q)
               PROVE  Doomed(q)' \/ Remapping(q)' \/ Masked(q)'
    BY <1>1, <1>14 DEF Kept, Writable
  <2>1. Live(q) /\ q \notin PagesOf(g)
    BY <1>3, <1>6 DEF Live
  <2>2. GranuleOf(q) # g /\ GranuleOf(q) \in AllGranules
    BY <2>1, PageFacts
  <2>3. Masked(q) => Masked(q)'
    <3>1. Converted(GranuleOf(q))' <=> Converted(GranuleOf(q))
      BY <1>1, <1>8, AsideFacts
    <3> QED BY <1>1, <1>7, <2>2, <3>1 DEF Masked, Known, Open
  <2>4. Remapping(q)' <=> Remapping(q)
    BY <1>1, <1>8, AsideFacts
  <2> QED BY <1>3, <1>15, <2>1, <2>3, <2>4 DEF Kept
<1> QED BY <1>13, <1>16, <1>17

(* The drain of the granules to arm again.                                 *)
LEMMA DrainKept ==
  ASSUME GranuleAssumption, IInv, NEW t \in Threads, DrainSMCGranuleRearms(t), History
  PROVE  IInv'
<1> USE DEF IInv
<1>1. /\ job[t].at = "idle" /\ Jobs /\ Types /\ "idle" \notin Calls \cup CodePlaces /\ ~Compiling
      /\ vma' = vma /\ Granules' = Granules /\ intended' = intended /\ mapped' = mapped
      /\ tracked' = tracked /\ demoted' = demoted /\ job' = job
      /\ halfway' \in BOOLEAN /\ SiblingPolicy' = SiblingPolicy
      /\ Invalidate(UNION {PagesOf(g) : g \in Rearms})
  BY DEF DrainSMCGranuleRearms, table, Still, Calls, CodePlaces, History
<1>2. /\ blocks' \in [Pages -> {"none", "bare", "guarded"}]
      /\ \A q \in Pages : blocks'[q] = "bare" => blocks[q] = "bare"
  BY <1>1 DEF Invalidate, Types
<1>3. Aside(t)
  BY <1>1 DEF Aside, Jobs
<1>4. Types'
  BY <1>1, <1>2 DEF Types, Known
<1>5. Marking' /\ JobType(t)'
  BY <1>1 DEF Still, Marking, Writable, Open, Jobs, JobType, Calling
<1>6. \A h \in AllGranules : Armed(h)' => Armed(h)
  BY <1>1 DEF Armed, Known
<1>7. Still'
  <2>1. job'[t].at \notin CodePlaces /\ job'[t].at # "marking"
    BY <1>1 
  <2> QED BY <1>3, <1>4, <1>5, <1>6, <2>1, AsideStill
<1>8. \A q \in Pages : (Live(q)' => Live(q)) /\ (Coming(q)' => Coming(q))
  BY <1>1, <1>2 DEF Live, Coming
<1>9. Demoted' /\ Kept'
  BY <1>1, <1>2, <1>3, <1>8, AsideKept
<1> QED BY <1>7, <1>9

----------------------------------------------------------------------------
(* Nothing is mapped and nothing compiled at the start.                    *)
LEMMA InitKept ==
  ASSUME GranuleAssumption, Init
  PROVE  IInv
<1>1. \A t \in Threads : job[t] = Idle /\ job[t].at = "idle"
  <2>1. Idle.at = "idle"
    BY DEF Idle
  <2> QED BY <2>1 DEF Init
<1>2. /\ "idle" \notin Calls \cup CodePlaces \cup LockedPlaces \cup WholePlaces /\ "idle" \in HandlerJobs
      /\ "idle" \notin {"fault", "noted", "fill", "protect", "pass", "sharedtrack", "emulate", "marking", "marked"}
  BY DEF Calls, CodePlaces, LockedPlaces, WholePlaces, HandlerJobs
<1>3. Types
  BY DEF Init, Types
<1>4. Jobs
  BY <1>1, <1>2 DEF Init, Jobs, JobType, Calling
<1>5. \A p \in Pages : vma[p] = None /\ blocks[p] = "none" /\ ~Live(p) /\ ~Coming(p)
  BY <1>1, <1>2 DEF Init, Live, Coming
<1>6. OneLock /\ Apart /\ CodeHere /\ Marking /\ TailFree /\ Through /\ Wanted
  BY <1>1, <1>2 DEF OneLock, Apart, CodeHere, Marking, TailFree, Through, Passed, Wanted, Calling
<1>7. Mapped /\ Backed
  BY <1>1, <1>2, <1>5 DEF Init, Mapped, Backed
<1>8. Demoted /\ Kept
  BY <1>5 DEF Demoted, Kept
<1> QED BY <1>3, <1>4, <1>6, <1>7, <1>8 DEF IInv, Still

(* Every step keeps the invariant.                                         *)
LEMMA NextKept ==
  ASSUME GranuleAssumption, ~SplitCalls, IInv, Next
  PROVE  IInv'
<1>1. History
  BY DEF Next, History
<1>2. \A len \in 1 .. NumGranules * PagesPerGranule : len \in Nat \ {0}
  BY SMT DEF GranuleAssumption
<1>3. Prots \subseteq Protection /\ Sharing \subseteq BOOLEAN
  BY DEF GranuleAssumption
<1>4. ASSUME NEW t \in Threads, NEW base \in Pages, NEW len \in 1 .. NumGranules * PagesPerGranule,
             \/ \E prot \in Prots, shared \in Sharing :
                  MmapAnywhere(t, base, len, prot, shared) \/ Mmap(t, base, len, prot, shared)
             \/ \E prot \in Prots : Mprotect(t, base, len, prot)
             \/ Munmap(t, base, len)
      PROVE  IInv'
  <2>1. len \in Nat \ {0}
    BY <1>2
  <2>2. ASSUME NEW prot \in Prots, NEW shared \in Sharing, MmapAnywhere(t, base, len, prot, shared) PROVE IInv'
    BY <1>1, <1>3, <2>1, <2>2, MmapAnywhereKept
  <2>3. ASSUME NEW prot \in Prots, NEW shared \in Sharing, Mmap(t, base, len, prot, shared) PROVE IInv'
    BY <1>1, <1>3, <2>1, <2>3, MmapKept
  <2>4. ASSUME NEW prot \in Prots, Mprotect(t, base, len, prot) PROVE IInv'
    BY <1>1, <1>3, <2>1, <2>4, MprotectKept
  <2>5. CASE Munmap(t, base, len)
    BY <1>1, <2>1, <2>5, MunmapKept
  <2> QED BY <1>4, <2>2, <2>3, <2>4, <2>5
<1>5. ASSUME NEW t \in Threads, NEW p \in Pages, CompileBlock(t, p) \/ HandleSegfault(t, p) PROVE IInv'
  BY <1>1, <1>5, CompileKept, HandleKept
<1>6. ASSUME NEW t \in Threads, Step(t) PROVE IInv'
  <2>1. CASE \/ PassThrough(t) \/ NoteGranuleRangeGone(t) \/ InvalidateCodeRange(t) \/ SharedMap(t) \/ SharedTrack(t)
    BY <1>1, <2>1, PassThroughKept, RangeGoneKept, InvalidateKept, SharedMapKept, SharedTrackKept
  <2>2. CASE \/ MapWholeGranule(t) \/ MakeGranuleFEXBacked(t) \/ Fill(t)
             \/ MunmapGranule(t) \/ MprotectGranule(t) \/ Materialise(t)
    BY <1>1, <2>2, MapWholeKept, MakeBackedKept, FillKept, MunmapGranuleKept, MprotectGranuleKept, MaterialiseKept
  <2>3. CASE \/ MarkGuestExecutableRange(t) \/ NoteArmed(t) \/ Publish(t) \/ NoteFault(t) \/ UnprotectRegionCallback(t)
    BY <1>1, <2>3, MarkKept, NoteArmedKept, PublishKept, NoteFaultKept, UnprotectKept
  <2> QED BY <1>6, <2>1, <2>2, <2>3 DEF Step
<1>7. ASSUME NEW t \in Threads, DrainSMCGranuleRearms(t) PROVE IInv'
  BY <1>1, <1>7, DrainKept
<1> QED BY <1>4, <1>5, <1>6, <1>7 DEF Next

(* A step of something else changes nothing here.                          *)
LEMMA StutterKept ==
  ASSUME IInv, UNCHANGED vars
  PROVE  IInv'
<1>1. /\ vma' = vma /\ Granules' = Granules /\ intended' = intended /\ mapped' = mapped /\ tracked' = tracked
      /\ demoted' = demoted /\ blocks' = blocks /\ job' = job /\ SiblingPolicy' = SiblingPolicy /\ halfway' = halfway
  BY DEF vars, table, smc
<1>2. Types'
  BY <1>1 DEF IInv, Still, Types, Known
<1>3. Jobs' /\ OneLock' /\ Apart' /\ CodeHere' /\ Marking' /\ TailFree'
  <2>1. Jobs'
    BY <1>1 DEF IInv, Still, Jobs, JobType, Calling
  <2>2. OneLock' /\ Apart'
    BY <1>1 DEF IInv, Still, OneLock, Apart, Calling
  <2>3. CodeHere' /\ Marking'
    BY <1>1 DEF IInv, Still, CodeHere, Marking, Writable, Open, Calling
  <2>4. TailFree'
    BY <1>1 DEF IInv, Still, TailFree, Writable
  <2> QED BY <2>1, <2>2, <2>3, <2>4
<1>4. Mapped' /\ Through' /\ Backed' /\ Wanted'
  BY <1>1 DEF IInv, Still, Mapped, Through, Backed, Wanted, Armed, Known
<1>5. \A p \in Pages : /\ (Live(p)' <=> Live(p)) /\ (Coming(p)' <=> Coming(p)) /\ (Doomed(p)' <=> Doomed(p))
                       /\ (Remapping(p)' <=> Remapping(p)) /\ (Masked(p)' <=> Masked(p)) /\ (Writable(p)' <=> Writable(p))
  BY <1>1 DEF Live, Coming, Doomed, Remapping, Masked, Writable, Known, Open, Converted
<1>6. Demoted' /\ Kept'
  BY <1>1, <1>5 DEF IInv, Demoted, Kept
<1> QED BY <1>2, <1>3, <1>4, <1>6 DEF IInv, Still

(* The invariant says what it is for.                                      *)
LEMMA KeptSound ==
  ASSUME IInv
  PROVE  BareWhileProtected
<1>1. DOMAIN blocks = Pages /\ DOMAIN job = Threads
  BY DEF IInv, Still, Types, Jobs
<1>2. DemotedNeverBare
  BY <1>1 DEF IInv, Demoted, DemotedNeverBare
<1>3. SiblingPolicy = "Invalidate" /\ ~halfway => BareOnlyWhileProtected
  <2> SUFFICES ASSUME SiblingPolicy = "Invalidate", ~halfway, NEW p \in Pages, Unguarded(p)
               PROVE  Doomed(p) \/ Remapped(p) \/ Converted(GranuleOf(p))
    BY <1>1 DEF BareOnlyWhileProtected
  <2>1. Doomed(p) \/ Remapping(p) \/ Masked(p)
    BY DEF IInv, Kept, Live, Unguarded
  <2>2. Remapping(p) => Remapped(p)
    BY <1>1 DEF Remapping, Reaches, Remapped, Calling
  <2>3. Masked(p) => Converted(GranuleOf(p))
    BY DEF Masked, Unguarded
  <2> QED BY <2>1, <2>2, <2>3
<1> QED BY <1>2, <1>3 DEF BareWhileProtected

(* Self-modifying code stays sound on large host pages, for any number of  *)
(* granules, pages in a granule, threads and protections, as long as a     *)
(* call that goes through to the kernel has its granules to itself: no     *)
(* unguarded block outlives the fault that demotes its granule (NoteFault),*)
(* and under the default policy none is live on a page that can be stored  *)
(* to without a fault, but for the fault or the call that ends it          *)
(* (UnprotectRegionCallback, InvalidateCodeRangeIfNecessary) and for       *)
(* MakeGranuleFEXBacked, which closes the granule again.                   *)
THEOREM BareBlocksProtected ==
  ASSUME GranuleAssumption, ~SplitCalls
  PROVE  Spec => []BareWhileProtected
<1>1. Init => IInv
  BY InitKept
<1>2. IInv /\ [Next]_vars => IInv'
  BY NextKept, StutterKept
<1>3. IInv => BareWhileProtected
  BY KeptSound
<1> QED BY <1>1, <1>2, <1>3, PTL DEF Spec
=============================================================================
