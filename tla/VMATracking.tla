---------------------------- MODULE VMATracking ----------------------------
(***************************************************************************)
(* The emulator's picture of the guest's address space: the map of VMAs,   *)
(* the list that links the VMAs of one resource, and the six system calls  *)
(* that change them (SyscallsVMATracking.cpp, and the Track functions of   *)
(* SyscallsSMCTracking.cpp), next to the mappings the kernel really has.   *)
(* A call holds VMATracking::Mutex for writing around both the kernel's    *)
(* change and the bookkeeping, so each is one step.  Two users of the      *)
(* picture run beside them: MarkGuestExecutableRange, whose memo of pages  *)
(* that need no work is read without the lock, and the SIGSEGV handler,    *)
(* which lets go of the lock between collecting the mirrors of a shared    *)
(* page and unprotecting them.                                             *)
(*                                                                         *)
(* Addresses count pages of a host whose pages are the guest's (4K).  Code *)
(* caching is off, so a file is one resource wherever it is mapped.        *)
(***************************************************************************)
EXTENDS Integers, FiniteSets, Sequences, SequencesExt

CONSTANTS
  NumPages,         \* the size of the guest's address space
  Files,            \* files the guest maps
  AnonShared,       \* AnonSharedId: identities of shared anonymous mappings
  Segments,         \* SysV segments, by shmid
  SegmentLength,    \* shm_segsz of each, in pages
  FileLength,       \* bound: mremap does not reach beyond this offset
  Kinds,            \* what the guest maps: pairs of a resource, or None, and sharing
  MmapOffsets,      \* the offsets at which it maps files
  Threads,          \* threads that compile and store
  MarkNoOpEntries,  \* slots of the memo
  Calls,            \* what the guest does: system calls, and "store"
  QuietFaults,      \* no call while the SIGSEGV handler is between its steps
  None

VARIABLES
  VMAs,             \* base -> VMAEntry
  FirstVMA,         \* MappedResource::FirstVMA of each resource
  MappedResources,  \* the resources in the container
  Generation,       \* the stamp of the current map
  MarkNoOpCache,    \* slot -> the page and stamp it holds, or None
  kernel,           \* page -> the guest's mapping in the kernel, or None
  host,             \* page -> the protection the kernel enforces
  at, page,         \* where each thread is, and the page it works on
  sample,           \* the Generation MarkGuestExecutableRange has sampled
  noop,             \* whether the page has needed no work at some moment since
  Mirrors,          \* the batch of the SIGSEGV handler
  died              \* ERROR_AND_DIE_FMT

tracking == <<VMAs, FirstVMA, MappedResources, Generation, MarkNoOpCache>>
locals == <<at, page, sample, noop, Mirrors>>
vars == <<tracking, kernel, host, locals, died>>

Pages == 0 .. NumPages - 1
Resources == Files \cup AnonShared \cup Segments
Slots == 0 .. MarkNoOpEntries - 1
Ranges == {r \in Pages \X (1 .. NumPages) : r[1] + r[2] <= NumPages}
PagesOf(base, length) == base .. base + length - 1

(***************************************************************************)
(* The VMA map as a value, so that one call can change it several times:   *)
(* st.vmas, st.first and st.live are VMAs, FirstVMA and MappedResources.   *)
(***************************************************************************)
MapState == [vmas |-> VMAs, first |-> FirstVMA, live |-> MappedResources]

\* A VMA without a resource has an offset too, but nothing ever reads it: 0.
VMAEntry(res, prev, next, off, len, shared, w) ==
  [res |-> res, prev |-> prev, next |-> next, off |-> IF res = None THEN 0 ELSE off,
   len |-> len, shared |-> shared, w |-> w]

Bases(st) == DOMAIN st.vmas
TopOf(st, b) == b + st.vmas[b].len
Emplace(st, b, v) == [st EXCEPT !.vmas = [x \in Bases(st) \cup {b} |-> IF x = b THEN v ELSE @[x]]]
Erase(st, b) == [st EXCEPT !.vmas = Restrict(@, Bases(st) \ {b})]
Trim(st, b, len) == [st EXCEPT !.vmas[b].len = len]

\* The VMA over an address, or None.
FindVMAEntry(st, addr) ==
  LET over == {b \in Bases(st) : b <= addr /\ addr < TopOf(st, b)}
  IN IF over = {} THEN None ELSE Max(over)

Downwards(bases) == SetToSortSeq(bases, >)

\* List operations.  A null neighbour is None; its half of the link is absent.
SetNext(st, b, to) == IF b = None THEN st ELSE [st EXCEPT !.vmas[b].next = to]
SetPrev(st, b, to) == IF b = None THEN st ELSE [st EXCEPT !.vmas[b].prev = to]

ListRemove(st, b) ==
  LET v == st.vmas[b]
      unlinked == SetPrev(SetNext(st, v.prev, v.next), v.next, v.prev)
  IN IF st.first[v.res] = b THEN [unlinked EXCEPT !.first[v.res] = v.next] ELSE unlinked

ListReplace(st, b, new) ==
  LET v == st.vmas[b]
      after == SetPrev(st, v.next, new)
  IN IF v.prev # None THEN SetNext(after, v.prev, new) ELSE [after EXCEPT !.first[v.res] = new]

ListInsertAfter(st, b, new) == SetNext(SetPrev(st, st.vmas[b].next, new), b, new)

ListPrepend(st, res, new) == [SetPrev(st, st.first[res], new) EXCEPT !.first[res] = new]

\* Splits off the part of b from `from` on, with length len and protection w,
\* and links it right after b.
SplitAfter(st, b, from, len, w) ==
  LET v == st.vmas[b]
      new == VMAEntry(v.res, b, v.next, v.off + from - b, len, v.shared, w)
      put == Emplace(st, from, new)
  IN IF v.res = None THEN put ELSE ListInsertAfter(put, b, from)

\* Takes a VMA out of its list; an empty resource goes unless it is preserved.
Unlink(st, b, preserved) ==
  LET res == st.vmas[b].res
      unlinked == ListRemove(st, b)
  IN IF res = None THEN st
     ELSE IF unlinked.first[res] = None /\ res # preserved
            THEN [unlinked EXCEPT !.live = @ \ {res}]
            ELSE unlinked

\* Mutant: what lies beyond the range goes with its beginning.
CutVMAHead(st, b, base, top, preserved) ==
  IF b < base THEN Trim(st, b, base - b) ELSE Erase(Unlink(st, b, preserved), b)

\* One VMA of DeleteVMARange's loop; the four cases are the code's.
CutVMA(st, b, base, top, preserved) ==
  LET v == st.vmas[b]
      mapTop == TopOf(st, b)
      trailing == VMAEntry(v.res, v.prev, v.next, v.off + top - b, mapTop - top, v.shared, v.w)
      put == Emplace(st, top, trailing)
  IN CASE b < base /\ mapTop <= top -> Trim(st, b, base - b)
       [] b < base /\ mapTop > top  -> SplitAfter(Trim(st, b, base - b), b, top, mapTop - top, v.w)
       [] b >= base /\ mapTop <= top -> Erase(Unlink(st, b, preserved), b)
       [] b >= base /\ mapTop > top ->
            Erase(IF v.res = None THEN put ELSE ListReplace(put, b, top), b)

DeleteVMARange(st, base, length, preserved) ==
  LET top == base + length
      Cut(s, b) == CutVMA(s, b, base, top, preserved)
  IN FoldLeft(Cut, st, Downwards({b \in Bases(st) : b < top /\ TopOf(st, b) > base}))

\* The VMA of the resource after which one at base is linked, or None: the walk
\* stops at the first neighbour that is not below base.
PrevResVMA(st, res, base) ==
  LET first == st.first[res]
      Walk[b \in Bases(st)] ==
        LET next == st.vmas[b].next IN IF next # None /\ next < base THEN Walk[next] ELSE b
  IN IF first = None \/ first > base THEN None ELSE Walk[first]

TrackVMARange(st, res, base, off, length, shared, w) ==
  LET cut == DeleteVMARange(st, base, length, res)
      prev == IF res = None THEN None ELSE PrevResVMA(cut, res, base)
      next == IF res = None THEN None
              ELSE IF prev = None THEN cut.first[res] ELSE cut.vmas[prev].next
      put == Emplace(cut, base, VMAEntry(res, prev, next, off, length, shared, w))
  IN IF res = None THEN put
     ELSE IF prev = None THEN ListPrepend(put, res, base) ELSE ListInsertAfter(put, prev, base)

(***************************************************************************)
(* ChangeProtectionFlags.  The loop walks down over the VMAs that begin    *)
(* inside the range; a.top is what is left of the range and a.stop the VMA *)
(* at which it broke off early.  The tail of a VMA that reaches beyond the *)
(* range is given the offset OffsetDiff + CurrentBase, which is that of    *)
(* the VMA's own beginning.  After the loop, the tail of a VMA that the    *)
(* range lies inside is linked after its head, before its middle.  The     *)
(* result is None where the process dies.                                  *)
(***************************************************************************)

MergePartial(a, b, w) ==
  LET s == a.st
      v == s.vmas[b]
      tail == VMAEntry(v.res, b, v.next, v.off, TopOf(s, b) - a.top, v.shared, v.w)
      put == Emplace(s, a.top, tail)
      split == IF TopOf(s, b) = a.top THEN s
               ELSE IF v.res = None THEN put ELSE ListInsertAfter(put, b, a.top)
  IN IF a.stop # None THEN a
     ELSE IF TopOf(s, b) < a.top THEN [a EXCEPT !.stop = b]
     ELSE [st |-> [split EXCEPT !.vmas[b].w = w, !.vmas[b].len = a.top - b], top |-> b, stop |-> None]

\* What is left of the range after the loop lies in the VMA at cur.
ProtectRest(s, top, cur, base, w) ==
  LET v == s.vmas[cur]
      curTop == TopOf(s, cur)
      middle == SplitAfter(Trim(s, cur, base - cur), cur, base, top - base, w)
  IN CASE curTop <= base -> s
       [] cur = base /\ curTop = top -> [s EXCEPT !.vmas[cur].w = w]
       [] cur = base /\ curTop > top ->
            SplitAfter([Trim(s, cur, top - cur) EXCEPT !.vmas[cur].w = w], cur, top, curTop - top, v.w)
       [] cur < base /\ curTop >= top ->
            IF curTop = top THEN middle ELSE SplitAfter(middle, cur, top, curTop - top, v.w)
       [] OTHER -> None

ChangeProtectionFlags(st, base, length, w) ==
  LET Merge(a, b) == MergePartial(a, b, w)
      inside == {b \in Bases(st) : base < b /\ b < base + length}
      After(a) ==
        LET atOrBelow == {b \in Bases(a.st) : b <= base}
            cur == IF a.stop # None THEN a.stop
                   ELSE IF atOrBelow # {} THEN Max(atOrBelow) ELSE Min(Bases(a.st))
        IN ProtectRest(a.st, a.top, cur, base, w)
  IN After(FoldLeft(Merge, [st |-> st, top |-> base + length, stop |-> None], Downwards(inside)))

\* DeleteSHMRegion: the first VMA at or after base that has its place in a
\* segment attached at base, then every later VMA of that segment in reach.
DeleteSHMRegion(st, base) ==
  LET match == {b \in Bases(st) : /\ b >= base /\ st.vmas[b].res \in Segments
                                  /\ b - base = st.vmas[b].off}
      entry == Min(match)
      res == st.vmas[entry].res
      gone == {b \in Bases(st) : /\ b >= entry /\ st.vmas[b].res = res
                                 /\ b = entry \/ TopOf(st, b) - base <= SegmentLength}
      Drop(s, b) == Erase(Unlink(s, b, None), b)
  IN IF match = {} THEN st ELSE FoldLeft(Drop, st, SetToSortSeq(gone, <))

(***************************************************************************)
(* What every change of the map does besides: BumpGeneration retires every *)
(* entry of the memo.  Only the equality of stamps matters, so the new one *)
(* is the least that no slot and no thread holds; the wrap of the counter  *)
(* after 2^32 changes is left out.                                         *)
(***************************************************************************)
Stamps == 1 .. MarkNoOpEntries + Cardinality(Threads) + 2
StampsHeld ==
  {Generation} \cup {sample[t] : t \in Threads}
    \cup {MarkNoOpCache[i][2] : i \in {i \in Slots : MarkNoOpCache[i] # None}}

\* Mutant: a change of the map leaves the memo valid.
KeepGeneration == Generation' = Generation

BumpGeneration == Generation' = Min(Stamps \ StampsHeld)

Becomes(st) ==
  /\ VMAs' = st.vmas /\ FirstVMA' = st.first /\ MappedResources' = st.live
  /\ BumpGeneration
  /\ UNCHANGED <<MarkNoOpCache, died>>

(***************************************************************************)
(* The kernel (external): the guest's mapping of each page, and the        *)
(* protection it enforces, which the emulator tightens and loosens.        *)
(***************************************************************************)
Mapping(res, off, shared, w) ==
  [res |-> res, off |-> IF res = None THEN 0 ELSE off, shared |-> shared, w |-> w]
HostProt(w) == IF w THEN "rw" ELSE "r"
KernelMap(base, length, m, prot) ==
  /\ kernel' = [p \in Pages |-> IF p \in PagesOf(base, length)
                               THEN [m EXCEPT !.off = IF m.res = None THEN 0 ELSE @ + p - base]
                               ELSE kernel[p]]
  /\ host' = [p \in Pages |-> IF p \in PagesOf(base, length) THEN prot ELSE host[p]]
KernelUnmap(pages) ==
  /\ kernel' = [p \in Pages |-> IF p \in pages THEN None ELSE kernel[p]]
  /\ host' = [p \in Pages |-> IF p \in pages THEN "none" ELSE host[p]]
Free(pages) == \A p \in pages : kernel[p] = None

\* The range lies in one VMA of the kernel, as mremap demands.
OneKernelVMA(base, length) ==
  /\ kernel[base] # None
  /\ \A p \in PagesOf(base, length) :
       /\ kernel[p] # None /\ host[p] = host[base]
       /\ kernel[p] = [kernel[base] EXCEPT !.off = IF kernel[base].res = None THEN 0 ELSE @ + p - base]

\* A page for which MarkGuestExecutableRange has nothing to do.
NoActionNeeded(map, p) == map[p] = None \/ (~map[p].shared /\ ~map[p].w)

\* noop is a history variable; it only watches.
Observe ==
  /\ LET marking(t) == at[t] \in {"sampled", "missed"} /\ NoActionNeeded(kernel', page[t])
     IN noop' = [t \in Threads |-> noop[t] \/ marking(t)]
  /\ UNCHANGED <<at, page, sample, Mirrors>>

(***************************************************************************)
(* The guest's calls.  A call the kernel refuses returns before the        *)
(* tracking and changes nothing; only those that succeed are steps.        *)
(***************************************************************************)
MayCall(call) ==
  /\ call \in Calls /\ ~died
  /\ QuietFaults => \A t \in Threads : at[t] # "fault"

\* A new resource of the container has no VMA yet.
FindOrInsert(st, res) ==
  IF res = None \/ res \in st.live THEN st ELSE [st EXCEPT !.live = @ \cup {res}, !.first[res] = None]

GuestMmap(base, length, res, off, shared, w) ==
  /\ MayCall("mmap")
  /\ res \in Files \/ off = 0
  /\ res \in AnonShared => res \notin MappedResources   \* AnonSharedId++
  /\ Becomes(TrackVMARange(FindOrInsert(MapState, res), res, base, off, length, shared, w))
  /\ KernelMap(base, length, Mapping(res, off, shared, w), HostProt(w))
  /\ Observe

GuestMunmap(base, length) ==
  /\ MayCall("munmap")
  /\ Becomes(DeleteVMARange(MapState, base, length, None))
  /\ KernelUnmap(PagesOf(base, length))
  /\ Observe

\* The kernel changes a range without gaps, or answers ENOMEM.
GuestMprotect(base, length, w) ==
  /\ MayCall("mprotect")
  /\ \A p \in PagesOf(base, length) : kernel[p] # None
  /\ \E st \in {ChangeProtectionFlags(MapState, base, length, w)} :
       IF st = None THEN died' = TRUE /\ UNCHANGED tracking ELSE Becomes(st)
  /\ kernel' = [p \in Pages |-> IF p \in PagesOf(base, length) THEN [kernel[p] EXCEPT !.w = w] ELSE kernel[p]]
  /\ host' = [p \in Pages |-> IF p \in PagesOf(base, length) THEN HostProt(w) ELSE host[p]]
  /\ Observe

\* old_size 0: another mapping of the pages of a shared one.
MirrorMremap(old, new, length) ==
  LET b == FindVMAEntry(MapState, old)
      v == VMAs[b]
      off == v.off + old - b
  IN /\ MayCall("mremap")
     /\ kernel[old] # None /\ kernel[old].shared /\ kernel[old].res \notin Segments
     /\ old \notin PagesOf(new, length) /\ kernel[old].off + length <= FileLength
     /\ Becomes(TrackVMARange(MapState, v.res, new, off, length, v.shared, v.w))
     /\ KernelMap(new, length, kernel[old], host[old])
     /\ Observe

\* Growing and shrinking in place, moving, and moving onto another mapping.
\* DONTUNMAP keeps the old range, and takes private anonymous memory only.
GuestMremap(old, oldLength, new, length, dontUnmap) ==
  LET b == FindVMAEntry(MapState, old)
      v == VMAs[b]
      off == v.off + old - b
      cut == IF dontUnmap THEN MapState ELSE DeleteVMARange(MapState, old, oldLength, v.res)
      source == PagesOf(old, oldLength)
      target == PagesOf(new, length)
      left == IF dontUnmap THEN {} ELSE source \ target
  IN /\ MayCall("mremap")
     /\ OneKernelVMA(old, oldLength)
     /\ dontUnmap => new # old /\ length = oldLength /\ v.res = None
     /\ IF new = old THEN Free(target \ source) ELSE source \cap target = {}
     /\ kernel[old].res \in Segments => length <= oldLength
     /\ kernel[old].res # None => kernel[old].off + length <= FileLength
     /\ Becomes(TrackVMARange(cut, v.res, new, off, length, v.shared, v.w))
     /\ kernel' = [p \in Pages |->
          CASE p \in target -> [kernel[old] EXCEPT !.off = IF kernel[old].res = None THEN 0 ELSE @ + p - new]
            [] p \in left -> None
            [] OTHER -> kernel[p]]
     /\ host' = [p \in Pages |->
          CASE p \in target -> host[old] [] p \in left -> "none" [] OTHER -> host[p]]
     /\ Observe

\* Every segment is attached at most once at a time (bound).
GuestShmat(seg, base, w) ==
  /\ MayCall("shmat")
  /\ \A p \in Pages : kernel[p] # None => kernel[p].res # seg
  /\ Becomes(TrackVMARange(FindOrInsert(MapState, seg), seg, base, 0, SegmentLength, TRUE, w))
  /\ KernelMap(base, SegmentLength, Mapping(seg, 0, TRUE, w), HostProt(w))
  /\ Observe

\* ksys_shmdt: the pages that lie where an attachment at base would put them.
GuestShmdt(base) ==
  LET placed == {p \in Pages : /\ p >= base /\ kernel[p] # None
                               /\ kernel[p].res \in Segments /\ kernel[p].off = p - base}
      seg == kernel[Min(placed)].res
  IN /\ MayCall("shmdt")
     /\ placed # {}
     /\ Becomes(DeleteSHMRegion(MapState, base))
     /\ KernelUnmap({p \in placed : kernel[p].res = seg})
     /\ Observe

(***************************************************************************)
(* MarkGuestExecutableRange for one page.  The stamp is sampled first; the *)
(* memo is read without the lock; the walk holds the lock for reading, so  *)
(* no call comes between it and the entry it records.                      *)
(***************************************************************************)
LoadGeneration(t, p) ==
  /\ ~died /\ at[t] = "idle"
  /\ at' = [at EXCEPT ![t] = "sampled"] /\ page' = [page EXCEPT ![t] = p]
  /\ sample' = [sample EXCEPT ![t] = Generation] /\ noop' = [noop EXCEPT ![t] = NoActionNeeded(kernel, p)]
  /\ UNCHANGED <<tracking, kernel, host, Mirrors, died>>

MarkNoOpIndex(p) == p % MarkNoOpEntries

\* Back to rest: what the thread holds is forgotten.
Return(t) ==
  /\ at' = [at EXCEPT ![t] = "idle"] /\ page' = [page EXCEPT ![t] = 0]
  /\ sample' = [sample EXCEPT ![t] = 0] /\ noop' = [noop EXCEPT ![t] = FALSE]
  /\ Mirrors' = [Mirrors EXCEPT ![t] = {}]

IsMarkNoOp(t) ==
  /\ ~died /\ at[t] = "sampled"
  /\ IF MarkNoOpCache[MarkNoOpIndex(page[t])] = <<page[t], sample[t]>>
       THEN Return(t)
       ELSE at' = [at EXCEPT ![t] = "missed"] /\ UNCHANGED <<page, sample, noop, Mirrors>>
  /\ UNCHANGED <<tracking, kernel, host, died>>

\* The VMAs of a resource, as its list gives them.
Linked(st, res) ==
  LET Walk[b \in Bases(st)] ==
        IF st.vmas[b].next = None THEN {b} ELSE {b} \cup Walk[st.vmas[b].next]
  IN IF st.first[res] = None THEN {} ELSE Walk[st.first[res]]

\* Mutant: a mirror that begins with the page is missed.
MirrorsBelow(b, p) ==
  LET off == VMAs[b].off + p - b
      holds == {m \in Linked(MapState, VMAs[b].res) : VMAs[m].off < off /\ off < VMAs[m].off + VMAs[m].len}
  IN {[page |-> m + off - VMAs[m].off, w |-> VMAs[m].w] : m \in holds \cup {b}}

\* The pages that mirror page p through the resource of its VMA b.
MirrorsOf(b, p) ==
  LET off == VMAs[b].off + p - b
      holds == {m \in Linked(MapState, VMAs[b].res) : VMAs[m].off <= off /\ off < VMAs[m].off + VMAs[m].len}
  IN {[page |-> m + off - VMAs[m].off, w |-> VMAs[m].w] : m \in holds}

MarkGuestExecutableRange(t) ==
  LET p == page[t]
      b == FindVMAEntry(MapState, p)
      armed == IF b = None THEN {}
               ELSE IF VMAs[b].shared THEN {m.page : m \in {m \in MirrorsOf(b, p) : m.w}}
               ELSE IF VMAs[b].w THEN {p} ELSE {}
      noAction == b = None \/ (~VMAs[b].shared /\ ~VMAs[b].w)
  IN /\ ~died /\ at[t] = "missed"
     /\ host' = [q \in Pages |-> IF q \in armed /\ host[q] # "none" THEN "r" ELSE host[q]]
     /\ MarkNoOpCache' = IF noAction THEN [MarkNoOpCache EXCEPT ![MarkNoOpIndex(p)] = <<p, sample[t]>>]
                        ELSE MarkNoOpCache
     /\ Return(t)
     /\ UNCHANGED <<VMAs, FirstVMA, MappedResources, Generation, kernel, died>>

(***************************************************************************)
(* HandleSegfault for a store to a page that the emulator has made read    *)
(* only.  What it needs is read out of the VMA under the lock, which is    *)
(* dropped before the invalidation and the unprotecting.                   *)
(***************************************************************************)
CollectMirrors(t, p) ==
  LET b == FindVMAEntry(MapState, p)
  IN /\ "store" \in Calls /\ ~died /\ at[t] = "idle"
     /\ kernel[p] # None /\ kernel[p].w /\ host[p] = "r"
     /\ b # None /\ VMAs[b].w   \* otherwise the fault is the guest's
     /\ at' = [at EXCEPT ![t] = "fault"] /\ page' = [page EXCEPT ![t] = p]
     /\ Mirrors' = [Mirrors EXCEPT ![t] = IF VMAs[b].shared THEN MirrorsOf(b, p) ELSE {[page |-> p, w |-> TRUE]}]
     /\ UNCHANGED <<tracking, kernel, host, sample, noop, died>>

\* UnprotectRegionCallback over the batch; mprotect of a page that is no longer
\* mapped fails, and a failure is fatal.
UnprotectRegionCallback(t) ==
  LET open == {m.page : m \in {m \in Mirrors[t] : m.w}}
  IN /\ ~died /\ at[t] = "fault"
     /\ IF \E q \in open : host[q] = "none"
          THEN died' = TRUE /\ UNCHANGED <<host, locals>>
          ELSE /\ host' = [q \in Pages |-> IF q \in open THEN "rw" ELSE host[q]]
               /\ Return(t)
               /\ UNCHANGED died
     /\ UNCHANGED <<tracking, kernel>>

Init ==
  /\ VMAs = << >> /\ FirstVMA = [r \in Resources |-> None] /\ MappedResources = {}
  /\ Generation = 1 /\ MarkNoOpCache = [i \in Slots |-> None]
  /\ kernel = [p \in Pages |-> None] /\ host = [p \in Pages |-> "none"]
  /\ at = [t \in Threads |-> "idle"] /\ page = [t \in Threads |-> 0]
  /\ sample = [t \in Threads |-> 0] /\ noop = [t \in Threads |-> FALSE]
  /\ Mirrors = [t \in Threads |-> {}] /\ died = FALSE

Next ==
  \/ \E r \in Ranges, w \in BOOLEAN :
       \/ \E k \in Kinds, off \in MmapOffsets : GuestMmap(r[1], r[2], k[1], off, k[2], w)
       \/ GuestMprotect(r[1], r[2], w)
  \/ \E r \in Ranges : GuestMunmap(r[1], r[2])
  \/ \E old \in Pages, r \in Ranges : MirrorMremap(old, r[1], r[2])
  \/ \E o, r \in Ranges, d \in BOOLEAN : GuestMremap(o[1], o[2], r[1], r[2], d)
  \/ \E seg \in Segments, base \in 0 .. NumPages - SegmentLength, w \in BOOLEAN : GuestShmat(seg, base, w)
  \/ \E base \in Pages : GuestShmdt(base)
  \/ \E t \in Threads, p \in Pages : LoadGeneration(t, p) \/ CollectMirrors(t, p)
  \/ \E t \in Threads : IsMarkNoOp(t) \/ MarkGuestExecutableRange(t) \/ UnprotectRegionCallback(t)

Spec == Init /\ [][Next]_vars
-----------------------------------------------------------------------------
\* The variables have their types: the VMA map is a partial map from bases to
\* entries, the memo holds stamped pages, a thread is at one of four places.
TypeOK ==
  /\ DOMAIN VMAs \subseteq Pages
  /\ \A b \in DOMAIN VMAs : VMAs[b].res \in Resources \cup {None} /\ VMAs[b].len \in 1 .. NumPages
  /\ FirstVMA \in [Resources -> Pages \cup {None}] /\ MappedResources \subseteq Resources
  /\ Generation \in Stamps /\ sample \in [Threads -> Stamps \cup {0}]
  /\ \A i \in Slots : MarkNoOpCache[i] \in {None} \cup (Pages \X Stamps)
  /\ host \in [Pages -> {"none", "r", "rw"}]
  /\ at \in [Threads -> {"idle", "sampled", "missed", "fault"}]
  /\ died \in BOOLEAN

\* After any sequence of mmap, munmap, mprotect, mremap, shmat and shmdt every
\* page is tracked with the resource, the sharing and the protection that the
\* kernel has for it, by one VMA, and an unmapped page by none.
TrackedAsMapped ==
  \A p \in Pages :
    LET over == {b \in DOMAIN VMAs : b <= p /\ p < b + VMAs[b].len}
    IN IF kernel[p] = None THEN over = {}
       ELSE \E b \in over :
              /\ over = {b}
              /\ VMAs[b].res = kernel[p].res /\ VMAs[b].shared = kernel[p].shared /\ VMAs[b].w = kernel[p].w

\* The list of a resource is made of exactly its VMAs, with neighbours that
\* agree about each other, through every split, trim and removal.
ListsWhole ==
  \A r \in Resources :
    LET mine == {b \in DOMAIN VMAs : VMAs[b].res = r}
    IN /\ r \in MappedResources <=> mine # {}
       /\ FirstVMA[r] # None <=> mine # {}
       /\ \A b \in mine :
            /\ VMAs[b].prev = None <=> FirstVMA[r] = b
            /\ VMAs[b].prev # None => VMAs[b].prev \in mine /\ VMAs[VMAs[b].prev].next = b
            /\ VMAs[b].next # None => VMAs[b].next \in mine /\ VMAs[VMAs[b].next].prev = b

\* Neither ChangeProtectionFlags nor the SIGSEGV handler ever meets a map that it
\* did not expect, which would be the end of the process.
NeverDies == ~died

\* A mark that the memo answers could have found nothing to do: at some moment
\* since it sampled Generation its page was private and read only, or unmapped,
\* whatever the guest and the other compiling threads did in between.
SkipsOnlyNoOps ==
  \A t \in Threads :
    at[t] = "sampled" /\ MarkNoOpCache[MarkNoOpIndex(page[t])] = <<page[t], sample[t]>> => noop[t]

SamePage(p, q) ==
  kernel[p] # None /\ kernel[q] # None /\ kernel[p].shared
    /\ kernel[p].res = kernel[q].res /\ kernel[p].off = kernel[q].off

\* A call that changes protections changes nothing else: every page of a
\* resource is tracked at the offset at which the kernel maps it.
OffsetsAsMapped ==
  \A p \in Pages :
    LET b == FindVMAEntry(MapState, p)
    IN kernel[p] # None => VMAs[b].off + (IF VMAs[b].res = None THEN 0 ELSE p - b) = kernel[p].off

\* As long as the tracked offsets are the kernel's, the walk of
\* MarkGuestExecutableRange over a shared page leaves no page writable through
\* which the guest can change the same memory.
ArmsEveryMirror ==
  \A t \in Threads : OffsetsAsMapped /\ MarkGuestExecutableRange(t) =>
    \A q \in Pages : SamePage(page[t], q) => host'[q] # "rw"
MarkLeavesNoWritableMirror == [][ArmsEveryMirror]_vars

\* The SIGSEGV handler opens the page that was stored to, so that the store goes
\* through, and never opens one that the guest has made read only.
OpensWhatTheGuestMayWrite ==
  \A t \in Threads : UnprotectRegionCallback(t) =>
    /\ kernel[page[t]] # None /\ kernel[page[t]].w => host'[page[t]] = "rw"
    /\ \A q \in Pages : host'[q] = "rw" => host[q] = "rw" \/ kernel[q].w
FaultOpensWhatTheGuestMayWrite == [][OpensWhatTheGuestMayWrite]_vars

\* The header's promise for the list: "starting from Resource->FirstVMA and
\* ordered by address".
ListsByAddress == \A b \in DOMAIN VMAs : VMAs[b].next # None => b < VMAs[b].next

====
