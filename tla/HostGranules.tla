---------------------------- MODULE HostGranules ----------------------------
(***************************************************************************)
(* The guest's 4K pages on a host whose pages, the granules, are larger.   *)
(* Every granule has one protection in the kernel, and three parties       *)
(* change it: the guest's mmap, munmap and mprotect, which emulate what is *)
(* smaller than a granule (GranuleMemory.cpp, GranuleTable.cpp); the       *)
(* compiler, which write-protects the granule of a page that holds code;   *)
(* and the SIGSEGV handler, which opens it again and never takes the lock  *)
(* that the other two agree on (SMCHostGranule.h, SyscallsSMCTracking.cpp).*)
(*                                                                         *)
(* A call takes VMATracking::Mutex for writing from its first step under   *)
(* "emulate" to its last, but guest code on other threads and the SIGSEGV  *)
(* handler run on meanwhile.  The guest is taken to be synchronised: no    *)
(* thread runs, stores to or remaps a page that another one is remapping.  *)
(* It makes no mprotect over a hole.  Host-owned ranges, file offsets,     *)
(* mremap, madvise and calls that the kernel refuses are left out.         *)
(***************************************************************************)
EXTENDS FiniteSets, HostGranulesState

CONSTANTS
  NumGranules,
  Prots,            \* the protections the guest asks for, subsets of {"r", "w"}
  Sharing,          \* the values of MAP_SHARED in its requests
  Threads,
  SplitCalls,       \* other calls may come between the two parts of one that passes through
  Code,             \* whether the guest runs code, or only maps memory
  Policies,         \* the values of FEX_SMCGRANULEPOLICY
  Mixed,            \* FEX_SMCGRANULEMIXED is on
  MixedMaxTracked

table == <<Granules, intended>>
smc == <<tracked, demoted, Rearms>>
vars == <<vma, table, mapped, smc, blocks, job, SiblingPolicy, halfway>>

Pages == 0 .. NumGranules * PagesPerGranule - 1
AllGranules == {GranuleOf(p) : p \in Pages}
PagesOf(g) == {p \in Pages : GranuleOf(p) = g}

\* None is neither a protection, nor a mask, nor a mapping, nor an entry.
GranuleAssumption ==
  /\ NumGranules \in Nat /\ PagesPerGranule \in Nat \ {0}
  /\ Prots \subseteq Protection /\ Sharing \subseteq BOOLEAN /\ Policies \subseteq {"Invalidate", "Rearm"}
  /\ \A s \in Protection \cup SUBSET Pages : s # None
  /\ \A r \in Mapping : r # None
  /\ \A r \in Entry : r # None

Aligned(n) == n % PagesPerGranule = 0
Idle == [at |-> "idle"]

Covers(c) == {GranuleOf(p) : p \in Span(c)}
Sub(c, g) == Span(c) \cap PagesOf(g)
\* The request is made of whole granules.
IsWhole(c) == \A g \in Covers(c) : PagesOf(g) \subseteq Span(c)

\* VMATracking::Mutex is held for writing, or free for a writer.
Locked == \E t \in Threads : job[t].at \in {"emulate", "fill", "protect", "wedged"}
Lockable == ~Locked /\ \A t \in Threads : job[t].at # "marking"
\* CodeInvalidationMutex is held for reading.
Compiling == \E t \in Threads : job[t].at \in {"compiling", "marking", "marked"}
\* The pages that the guest has given over to a call.  A call that goes through to
\* the kernel has its granules to itself, unless SplitCalls: the code drops the
\* lock between such a call's parts.
Taken(c) ==
  IF c.at \in {"pass", "retire", "sharedmap", "sharedtrack"} /\ ~SplitCalls THEN UNION {PagesOf(g) : g \in Covers(c)} ELSE Span(c)
Busy == UNION {Taken(job[t]) : t \in {t \in Threads : Calling(t)}}
\* The pages that the guest runs or stores to right now.
Used == {job[t].page : t \in {t \in Threads : job[t].at \in {"compiling", "marking", "marked", "fault", "noted"}}}

Goto(t, j) == job' = [job EXCEPT ![t] = j]
Proceed(t, at) == Goto(t, [job[t] EXCEPT !.at = at])

(***************************************************************************)
(* GranuleTable.  A table is a value with the fields entry and intended,   *)
(* so that one step of a call can change it several times.                 *)
(***************************************************************************)
Table == [entry |-> Granules, intended |-> intended]
TableBecomes(tab) == Granules' = tab.entry /\ intended' = tab.intended

NewEntry == [HostProt |-> {}, FEXBacked |-> FALSE, SharedFd |-> FALSE]
FindOrCreate(tab, g) == IF tab.entry[g] = None THEN [tab EXCEPT !.entry[g] = NewEntry] ELSE tab

\* Every caller has one granule's pages in its range.
SetIntended(tab, g, pages, prot) ==
  [FindOrCreate(tab, g) EXCEPT !.intended = [p \in Pages |-> IF p \in pages THEN prot ELSE @[p]]]
ClearIntended(tab, pages) ==
  [tab EXCEPT !.intended = [p \in Pages |-> IF p \in pages THEN None ELSE @[p]]]
\* Mutant: the entries stay.
ForgetNothing(tab, gs) == tab

Forget(tab, gs) ==
  [entry |-> [g \in AllGranules |-> IF g \in gs THEN None ELSE tab.entry[g]],
   intended |-> [p \in Pages |-> IF GranuleOf(p) \in gs THEN None ELSE tab.intended[p]]]

NoteHostProt(tab, g, prot) == [tab EXCEPT !.entry[g].HostProt = prot]

UnionProtOf(tab, g) == UNION {tab.intended[p] : p \in {p \in PagesOf(g) : tab.intended[p] # None}}
Known(g) == tracked[g] # None
Armed(g) == Known(g) /\ tracked[g] # {}
\* Mutant: SMC tracking is not asked.
WantedUnion(tab, g) == UnionProtOf(tab, g)

WantedProt(tab, g) == UnionProtOf(tab, g) \ (IF Armed(g) THEN {"w"} ELSE {})

HasLiveSiblings(tab, g, pages) ==
  \E p \in PagesOf(g) \ pages : IF tab.entry[g] # None THEN tab.intended[p] # None ELSE vma[p] # None
GranuleHasSharedMapping(g) == \E p \in PagesOf(g) : vma[p] # None /\ vma[p].shared

\* Mutant: a granule seen for the first time starts empty.
SeedNothing(tab, g) == FindOrCreate(tab, g)

SeedGranuleFromVMAs(tab, g) ==
  LET new == {p \in PagesOf(g) : tab.intended[p] = None /\ vma[p] # None}
      with == FindOrCreate(tab, g)
  IN [with EXCEPT !.intended = [p \in Pages |-> IF p \in new THEN vma[p].prot ELSE @[p]],
                  !.entry[g].HostProt = @ \cup UNION {vma[p].prot : p \in new}]

\* The call is at a granule, and is about to give it the protection want.
On(c, at, g, want) == [c EXCEPT !.at = at, !.g = g, !.want = want]

\* RematerialiseIfNeeded up to its mprotect: the handler of a fault may come in
\* between, for it asks for no lock.
Rematerialise(t, tab, g) ==
  LET want == WantedProt(tab, g)
  IN /\ TableBecomes(tab)
     /\ Goto(t, On(job[t], "protect", g, IF want = tab.entry[g].HostProt /\ ~Known(g) THEN None ELSE want))

(***************************************************************************)
(* The calls.  What is made of whole granules goes through to GuestMmap,   *)
(* GuestMunmap or GuestMprotect once the table has been brought in step;   *)
(* the lock is dropped in between.                                         *)
(***************************************************************************)
Begin(t, op, base, len, prot, shared, at) ==
  Goto(t, [at |-> at, op |-> op, base |-> base, len |-> len, prot |-> prot, shared |-> shared,
           g |-> GranuleOf(base), want |-> None])

MayCall(t, base, len) ==
  /\ job[t].at = "idle" /\ Lockable
  /\ \A p \in base .. base + len - 1 : p \in Pages \ (Busy \cup Used)

\* Without MAP_FIXED the kernel finds free granules.
MmapAnywhere(t, base, len, prot, shared) ==
  /\ MayCall(t, base, len)
  /\ Aligned(base)
  /\ \A g \in {GranuleOf(p) : p \in base .. base + len - 1} :
       mapped[g] = None /\ \A o \in Threads : Calling(o) => g \notin Covers(job[o])
  /\ Begin(t, "mmap", base, len, prot, shared, "pass")
  /\ UNCHANGED <<vma, table, mapped, smc, blocks>>

\* A page of the tail holds something, reservations apart.
Holds(p) == (vma[p] # None /\ vma[p].prot # {}) \/ (intended[p] # None /\ intended[p] # {})

Mmap(t, base, len, prot, shared) ==
  LET c == [base |-> base, len |-> len]
      short == shared /\ Aligned(base) /\ len < PagesPerGranule
      tail == (UNION {PagesOf(g) : g \in Covers(c)}) \ Span(c)
  IN /\ MayCall(t, base, len)
     /\ \/ /\ IsWhole(c)
           /\ TableBecomes(Forget(Table, Covers(c)))
           /\ Begin(t, "mmap", base, len, prot, shared, "pass")
        \/ /\ ~IsWhole(c) /\ short /\ \A p \in tail : ~Holds(p)
           /\ TableBecomes(Forget(Table, Covers(c)))
           /\ Begin(t, "mmap", base, len, prot, shared, "sharedmap")
        \/ /\ ~IsWhole(c) /\ ~shared   \* any other shared request is refused
           /\ Begin(t, "mmap", base, len, prot, shared, "emulate")
           /\ UNCHANGED table
     /\ UNCHANGED <<vma, mapped, smc, blocks>>

Munmap(t, base, len) ==
  LET c == [base |-> base, len |-> len]
  IN /\ MayCall(t, base, len)
     /\ IF IsWhole(c)
          THEN TableBecomes(Forget(Table, Covers(c))) /\ Begin(t, "munmap", base, len, {}, FALSE, "pass")
          ELSE UNCHANGED table /\ Begin(t, "munmap", base, len, {}, FALSE, "emulate")
     /\ UNCHANGED <<vma, mapped, smc, blocks>>

Mprotect(t, base, len, prot) ==
  LET c == [base |-> base, len |-> len]
      InStep == [entry |-> [g \in AllGranules |->
                             IF g \in Covers(c) /\ Granules[g] # None
                               THEN [Granules[g] EXCEPT !.HostProt = prot] ELSE Granules[g]],
                 intended |-> [p \in Pages |->
                                IF p \in Span(c) /\ Granules[GranuleOf(p)] # None THEN prot ELSE intended[p]]]
  IN /\ MayCall(t, base, len)
     /\ \A p \in Span(c) : vma[p] # None
     /\ IF IsWhole(c)
          THEN /\ TableBecomes(InStep)
               /\ Begin(t, "mprotect", base, len, prot, FALSE, "pass")
          ELSE UNCHANGED table /\ Begin(t, "mprotect", base, len, prot, FALSE, "emulate")
     /\ UNCHANGED <<vma, mapped, smc, blocks>>

\* TrackMmap, TrackMunmap and TrackMprotect, page by page.
Track(c) ==
  vma' = [p \in Pages |->
    IF p \notin Span(c) THEN vma[p] ELSE
      CASE c.op = "mmap" -> [prot |-> c.prot, shared |-> c.shared]
        [] c.op = "munmap" -> None
        [] c.op = "mprotect" -> [vma[p] EXCEPT !.prot = c.prot]]

\* mprotect(2) of one granule, which changes nothing where nothing is mapped.
Reprotected(g, prot) == IF mapped[g] = None THEN None ELSE [mapped[g] EXCEPT !.prot = prot]

\* GuestMmap, GuestMunmap, GuestMprotect.  The kernel rounds up to its pages.
PassThrough(t) ==
  LET c == job[t]
  IN /\ c.at = "pass" /\ Lockable
     /\ mapped' = [g \in AllGranules |->
          IF g \notin Covers(c) THEN mapped[g] ELSE
            CASE c.op = "mmap" -> [prot |-> c.prot, shared |-> c.shared]
              [] c.op = "munmap" -> None
              [] c.op = "mprotect" -> Reprotected(g, c.prot)]
     /\ Track(c)
     /\ Proceed(t, IF c.op = "mprotect" THEN "invalidate" ELSE "retire")
     /\ UNCHANGED <<table, smc, blocks>>

\* NoteGranuleRangeGone: a demoted granule that goes only in part stays so.
NoteGranuleRangeGone(t) ==
  LET c == job[t]
      partly == {g \in Covers(c) \cap demoted : ~(PagesOf(g) \subseteq Span(c))}
  IN /\ c.at = "retire"
     /\ tracked' = [g \in AllGranules |->
          IF g \in partly THEN tracked[g] \ Span(c) ELSE IF g \in Covers(c) THEN None ELSE tracked[g]]
     /\ demoted' = demoted \ (Covers(c) \ partly)
     /\ Rearms' = Rearms \ Covers(c)
     /\ Proceed(t, "invalidate")
     /\ UNCHANGED <<vma, table, mapped, blocks>>

Invalidate(pages) == blocks' = [p \in Pages |-> IF p \in pages THEN "none" ELSE blocks[p]]

\* InvalidateCodeRangeIfNecessary, the last thing a call does.
InvalidateCodeRange(t) ==
  /\ job[t].at = "invalidate" /\ ~Compiling
  /\ Invalidate(Span(job[t]))
  /\ Goto(t, Idle)
  /\ UNCHANGED <<vma, table, mapped, smc>>

\* A short shared mapping takes its whole granule, and is tracked afterwards.
SharedMap(t) ==
  LET c == job[t]
  IN /\ c.at = "sharedmap"
     /\ mapped' = [g \in AllGranules |->
          IF g \in Covers(c) THEN [prot |-> c.prot, shared |-> TRUE] ELSE mapped[g]]
     /\ Proceed(t, "sharedtrack")
     /\ UNCHANGED <<vma, table, smc, blocks>>

SharedTrack(t) ==
  LET c == job[t]
      own(fd) == [FindOrCreate(Table, c.g) EXCEPT !.entry[c.g] = [HostProt |-> @.HostProt, FEXBacked |-> FALSE, SharedFd |-> fd]]
  IN /\ c.at = "sharedtrack" /\ Lockable
     /\ \E fd \in BOOLEAN :   \* a file, or shared anonymous memory
          TableBecomes(NoteHostProt(SetIntended(own(fd), c.g, Span(c), c.prot), c.g, c.prot))
     /\ Track(c)
     /\ Proceed(t, "invalidate")
     /\ UNCHANGED <<mapped, smc, blocks>>

\* On to the next granule of the range, or to the tracking that ends the loop.
NextGranule(t, c) ==
  LET later == {h \in Covers(c) : h > c.g}
  IN IF later # {}
       THEN /\ \E g \in later : /\ \A h \in later : g <= h
                               /\ Goto(t, On(c, "emulate", g, None))
            /\ UNCHANGED vma
       ELSE Goto(t, [c EXCEPT !.at = "invalidate"]) /\ Track(c)

\* A granule that the range covers goes to the kernel.
MapWholeGranule(t) ==
  LET c == job[t]
      set == NoteHostProt(SetIntended(Table, c.g, PagesOf(c.g), c.prot), c.g, c.prot)
  IN /\ c.at = "emulate" /\ c.op = "mmap"
     /\ PagesOf(c.g) \subseteq Span(c)
     /\ mapped' = [mapped EXCEPT ![c.g] = [prot |-> c.prot, shared |-> FALSE]]
     /\ TableBecomes([set EXCEPT !.entry[c.g].FEXBacked = FALSE])
     /\ NextGranule(t, c)
     /\ UNCHANGED <<smc, blocks>>

\* MakeGranuleFEXBacked.  A shared-file granule is first mapped privately from
\* its file, unless the file cannot be extended.
MakeGranuleFEXBacked(t) ==
  LET c == job[t]
      g == c.g
      entry == Granules[g]
      preserve == HasLiveSiblings(Table, g, Span(c))
      seeded == IF preserve THEN SeedGranuleFromVMAs(Table, g) ELSE FindOrCreate(Table, g)
      foreign == IF entry = None THEN TRUE ELSE ~entry.FEXBacked
      ours == [HostProt |-> RW, FEXBacked |-> TRUE, SharedFd |-> entry # None /\ entry.SharedFd]
      private == [prot |-> RW, shared |-> FALSE]
  IN /\ c.at = "emulate" /\ c.op = "mmap" /\ ~(PagesOf(g) \subseteq Span(c))
     /\ \/ /\ foreign /\ ours.SharedFd
           /\ TableBecomes([Table EXCEPT !.entry[g] = [ours EXCEPT !.SharedFd = FALSE]])
           /\ mapped' = [mapped EXCEPT ![g] = private]
           /\ Proceed(t, "fill")
        \/ /\ ~foreign
           /\ IF "w" \in entry.HostProt
                THEN UNCHANGED <<table, mapped>>
                ELSE /\ TableBecomes(NoteHostProt(Table, g, RW))
                     /\ mapped' = [mapped EXCEPT ![g] = Reprotected(g, RW)]
           /\ Proceed(t, "fill")
        \/ /\ foreign
           /\ preserve /\ GranuleHasSharedMapping(g)
           /\ Goto(t, Idle) /\ UNCHANGED <<table, mapped>>    \* -EINVAL
        \/ /\ foreign
           /\ ~(preserve /\ GranuleHasSharedMapping(g))
           /\ TableBecomes([seeded EXCEPT !.entry[g] = ours])
           /\ mapped' = [mapped EXCEPT ![g] = private]
           /\ Proceed(t, "fill")
     /\ UNCHANGED <<vma, smc, blocks>>

\* The new pages are zeroed, or read from the file, by the emulator itself.  When
\* it may not write there, the read fails; zeroing raises SIGSEGV, and the handler
\* waits for the lock that its own thread holds.
Fill(t) ==
  LET c == job[t]
  IN /\ c.at = "fill"
     /\ IF "w" \in mapped[c.g].prot
          THEN Rematerialise(t, SetIntended(Table, c.g, Sub(c, c.g), c.prot), c.g)
          ELSE (Proceed(t, "wedged") \/ Goto(t, Idle)) /\ UNCHANGED table
     /\ UNCHANGED <<vma, mapped, smc, blocks>>

MunmapGranule(t) ==
  LET c == job[t]
      g == c.g
      cleared == ClearIntended(SeedGranuleFromVMAs(Table, g), Sub(c, g))
      empty == \A p \in PagesOf(g) : cleared.intended[p] = None
  IN /\ c.at = "emulate" /\ c.op = "munmap"
     /\ IF empty
          THEN /\ mapped' = [mapped EXCEPT ![g] = None]
               /\ TableBecomes(Forget(cleared, {g}))
               /\ NextGranule(t, c)
          ELSE Rematerialise(t, cleared, g) /\ UNCHANGED <<vma, mapped>>
     /\ UNCHANGED <<smc, blocks>>

MprotectGranule(t) ==
  LET c == job[t]
  IN /\ c.at = "emulate" /\ c.op = "mprotect"
     /\ Rematerialise(t, SetIntended(SeedGranuleFromVMAs(Table, c.g), c.g, Sub(c, c.g), c.prot), c.g)
     /\ UNCHANGED <<vma, mapped, smc, blocks>>

\* The mprotect of RematerialiseIfNeeded.
Materialise(t) ==
  LET c == job[t]
  IN /\ c.at = "protect"
     /\ IF c.want = None
          THEN UNCHANGED <<Granules, mapped>>
          ELSE /\ mapped' = [mapped EXCEPT ![c.g] = Reprotected(c.g, c.want)]
               /\ Granules' = [Granules EXCEPT ![c.g].HostProt = c.want]
     /\ NextGranule(t, c)
     /\ UNCHANGED <<intended, smc, blocks>>

(***************************************************************************)
(* Code.  CompileBlock holds CodeInvalidationMutex for reading from the    *)
(* moment it asks whether the page is demoted to the moment it publishes;  *)
(* invalidations wait for it.  The page is marked under both locks.        *)
(***************************************************************************)
CompileBlock(t, p) ==
  /\ Code /\ job[t].at = "idle"
  /\ p \notin Busy /\ vma[p] # None /\ "r" \in vma[p].prot /\ blocks[p] = "none"
  /\ Goto(t, [at |-> "compiling", page |-> p, guard |-> GranuleOf(p) \in demoted])
  /\ UNCHANGED <<vma, table, mapped, smc, blocks>>

\* MarkGuestExecutableRange for the page's first block: the kernel first.
MarkGuestExecutableRange(t) ==
  LET p == job[t].page
      g == GranuleOf(p)
  IN /\ job[t].at = "compiling" /\ ~Locked
     /\ IF "w" \in vma[p].prot /\ g \notin demoted
          THEN Proceed(t, "marking") /\ mapped' = [mapped EXCEPT ![g] = Reprotected(g, {"r"})]
          ELSE Proceed(t, "marked") /\ UNCHANGED mapped
     /\ UNCHANGED <<vma, table, smc, blocks>>

NoteArmed(t) ==
  LET p == job[t].page
      g == GranuleOf(p)
      mask == IF Known(g) THEN tracked[g] ELSE {}
  IN /\ job[t].at = "marking"
     /\ tracked' = [tracked EXCEPT ![g] = IF g \in demoted THEN mask ELSE mask \cup {p}]
     /\ Proceed(t, "marked")
     /\ UNCHANGED <<vma, table, mapped, demoted, Rearms, blocks>>

Publish(t) ==
  /\ job[t].at = "marked"
  /\ blocks' = [blocks EXCEPT ![job[t].page] = IF job[t].guard THEN "guarded" ELSE "bare"]
  /\ Goto(t, Idle)
  /\ UNCHANGED <<vma, table, mapped, smc>>

(***************************************************************************)
(* HandleSegfault for a store that the guest may make and the kernel does  *)
(* not let through: the VMA is read under the lock, then the granule's     *)
(* mask is consumed, then the code goes and the granule is opened.         *)
(***************************************************************************)
HandleSegfault(t, p) ==
  /\ Code /\ job[t].at = "idle" /\ ~Locked
  /\ p \notin Busy /\ vma[p] # None /\ "w" \in vma[p].prot
  /\ mapped[GranuleOf(p)] # None /\ "w" \notin mapped[GranuleOf(p)].prot
  /\ Goto(t, [at |-> "fault", page |-> p])
  /\ UNCHANGED <<vma, table, mapped, smc, blocks>>

\* The pages whose code goes with the fault.
WideInvalidate(p, demote) ==
  IF SiblingPolicy = "Rearm" /\ ~demote THEN {p} ELSE PagesOf(GranuleOf(p))

NoteFault(t) ==
  LET p == job[t].page
      g == GranuleOf(p)
      mask == IF Known(g) THEN tracked[g] ELSE {}
      demotable == Mixed /\ g \notin demoted /\ mask # {} /\ Cardinality(mask) <= MixedMaxTracked
  IN /\ job[t].at = "fault"
     /\ \E demote \in {FALSE} \cup {demotable} :   \* as the clock and the flips have it
          /\ demoted' = IF demote THEN demoted \cup {g} ELSE demoted
          /\ Rearms' = IF SiblingPolicy = "Rearm" /\ ~demote /\ mask \ {p} # {} THEN Rearms \cup {g} ELSE Rearms
          /\ Goto(t, [at |-> "noted", page |-> p, dead |-> WideInvalidate(p, demote)])
     /\ tracked' = [tracked EXCEPT ![g] = IF @ = None THEN None ELSE {}]
     /\ UNCHANGED <<vma, table, mapped, blocks>>

\* InvalidateGuestCodeRange with UnprotectRegionCallback at its end.
UnprotectRegionCallback(t) ==
  LET g == GranuleOf(job[t].page)
  IN /\ job[t].at = "noted" /\ ~Compiling
     /\ Invalidate(job[t].dead)
     /\ mapped' = [mapped EXCEPT ![g] = Reprotected(g, RW)]
     /\ Goto(t, Idle)
     /\ UNCHANGED <<vma, table, smc>>

\* The drain at a system call, a signal or a compilation.
DrainSMCGranuleRearms(t) ==
  /\ job[t].at = "idle" /\ Rearms # {} /\ ~Compiling
  /\ Invalidate(UNION {PagesOf(g) : g \in Rearms})
  /\ Rearms' = {}
  /\ UNCHANGED <<vma, table, mapped, tracked, demoted, job>>

Init ==
  /\ vma = [p \in Pages |-> None]
  /\ Granules = [g \in AllGranules |-> None] /\ intended = [p \in Pages |-> None]
  /\ mapped = [g \in AllGranules |-> None]
  /\ tracked = [g \in AllGranules |-> None] /\ demoted = {} /\ Rearms = {}
  /\ blocks = [p \in Pages |-> "none"]
  /\ job = [t \in Threads |-> Idle]
  /\ SiblingPolicy \in Policies /\ halfway = FALSE

Step(t) ==
  \/ PassThrough(t) \/ NoteGranuleRangeGone(t) \/ InvalidateCodeRange(t)
  \/ SharedMap(t) \/ SharedTrack(t)
  \/ MapWholeGranule(t) \/ MakeGranuleFEXBacked(t) \/ Fill(t)
  \/ MunmapGranule(t) \/ MprotectGranule(t) \/ Materialise(t)
  \/ MarkGuestExecutableRange(t) \/ NoteArmed(t) \/ Publish(t)
  \/ NoteFault(t) \/ UnprotectRegionCallback(t)

\* The thread's mmap fails on a granule, with others before it done.
GivesUp(t) ==
  job[t].at \in {"emulate", "fill"} /\ job'[t] = Idle /\ \E h \in Covers(job[t]) : h < job[t].g

Next ==
  /\ \E t \in Threads :
       \/ \E base \in Pages, len \in 1 .. NumGranules * PagesPerGranule :
            \/ \E prot \in Prots, shared \in Sharing :
                 MmapAnywhere(t, base, len, prot, shared) \/ Mmap(t, base, len, prot, shared)
            \/ \E prot \in Prots : Mprotect(t, base, len, prot)
            \/ Munmap(t, base, len)
       \/ \E p \in Pages : CompileBlock(t, p) \/ HandleSegfault(t, p)
       \/ Step(t)
       \/ DrainSMCGranuleRearms(t)
  /\ halfway' = (halfway \/ \E t \in Threads : GivesUp(t))
  /\ UNCHANGED SiblingPolicy

Spec == Init /\ [][Next]_vars

(***************************************************************************)
(* Properties                                                              *)
(***************************************************************************)
\* Every variable has the shape that the code gives it; a mask names pages of its
\* own granule, and only a granule in SMC's table is demoted.
TypeOK ==
  /\ vma \in [Pages -> Mapping \cup {None}]
  /\ Granules \in [AllGranules -> Entry \cup {None}]
  /\ intended \in [Pages -> Protection \cup {None}]
  /\ mapped \in [AllGranules -> Mapping \cup {None}]
  /\ \A g \in AllGranules : Known(g) => tracked[g] \subseteq PagesOf(g)
  /\ \A g \in demoted : Known(g) /\ tracked[g] = {}
  /\ blocks \in [Pages -> {"none", "bare", "guarded"}]

\* No call is under way on the granule.
Quiet(g) == \A t \in Threads : Calling(t) => g \notin Covers(job[t])

\* SMC tracking has armed the granule, or is just doing so.
Touched(g) == Known(g) \/ \E t \in Threads : job[t].at = "marking" /\ GranuleOf(job[t].page) = g

\* The granule table and VMATracking describe the same memory, page for page, once
\* the calls on a granule are over: the table never makes a page up and never has
\* another protection for it.  It may have dropped a reservation, a page without
\* access (the tail that a short shared mapping runs over).
TableAsTracked ==
  \A g \in AllGranules : Quiet(g) /\ Granules[g] # None =>
    \A p \in PagesOf(g) :
      IF intended[p] # None THEN vma[p] # None /\ vma[p].prot = intended[p]
                            ELSE vma[p] # None => vma[p].prot = {}

\* "Nothing the guest believes writable may ever fault for granularity reasons":
\* outside of calls the kernel has a granule mapped exactly when the guest has a
\* page in it, allows what any of its pages allows, and refuses a store that the
\* guest may make only where SMC tracking has been.
KernelCoversGuest ==
  \A g \in AllGranules : Quiet(g) =>
    /\ mapped[g] # None <=> \E p \in PagesOf(g) : vma[p] # None
    /\ \A p \in PagesOf(g) : vma[p] # None /\ mapped[g] # None =>
         /\ vma[p].prot \ {"w"} \subseteq mapped[g].prot
         /\ "w" \in vma[p].prot => "w" \in mapped[g].prot \/ Touched(g)

\* AssertInvariant, and what it is for: HostProt is what the kernel has, and the
\* union of the pages, on every granule that SMC tracking has left alone.
HostProtIsKernels ==
  \A g \in AllGranules : Quiet(g) /\ Granules[g] # None /\ mapped[g] # None /\ ~Touched(g) =>
    Granules[g].HostProt = mapped[g].prot /\ Granules[g].HostProt = WantedProt(Table, g)

\* The rule as SMCHostGranule.h has it, mmap included: an unguarded block is live
\* only while its granule is armed.
BareOnlyWhileArmed == \A p \in Pages : Unguarded(p) => Doomed(p) \/ Remapped(p)

\* The emulator never faults on the guest's memory with the lock in its hands.
NeverWedged == \A t \in Threads : job[t].at # "wedged"

\* SharedFd is kept for granules that are one MAP_SHARED mapping of that file.
SharedFdIsShared ==
  \A g \in AllGranules : Quiet(g) /\ Granules[g] # None /\ Granules[g].SharedFd /\ ~Granules[g].FEXBacked =>
    mapped[g] # None /\ mapped[g].shared
=============================================================================
