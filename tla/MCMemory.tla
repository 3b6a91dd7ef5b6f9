----------------------------- MODULE MCMemory -----------------------------
(***************************************************************************)
(* What the emulator knows about memory, in seven machines side by side;   *)
(* the initial state chooses one, and the variables of the others rest.    *)
(*   calls:   VMATracking, mmap, munmap, mprotect and mremap of files,     *)
(*            shared and private anonymous memory;                         *)
(*   shm:     VMATracking, a SysV segment among private mappings;          *)
(*   memo:    VMATracking, two threads that compile while pages change;    *)
(*   mirrors: VMATracking, a thread that compiles from and stores to       *)
(*            mirrored pages of a file;                                    *)
(*   one:     HostGranules, two threads on one granule;                    *)
(*   two:     HostGranules, calls that straddle two granules;              *)
(*   rearm:   HostGranules, two threads under the Rearm policy.            *)
(***************************************************************************)
EXTENDS HostGranulesState, TLC

CONSTANTS file, anon, segment, t1, t2, t3

VARIABLES
  machine,
  VMAs, FirstVMA, MappedResources, Generation, MarkNoOpCache, kernel, host, at, page, sample, noop, Mirrors, died

private == <<None, FALSE>>
shared == <<file, TRUE>>

Tracking == INSTANCE VMATracking WITH
  NumPages <- 3, Files <- {file}, AnonShared <- {anon}, Segments <- {}, SegmentLength <- 1, FileLength <- 2,
  Kinds <- {shared, <<anon, TRUE>>, private}, MmapOffsets <- {0}, Threads <- {}, MarkNoOpEntries <- 1,
  Calls <- {"mmap", "munmap", "mprotect", "mremap"}, QuietFaults <- TRUE

Shm == INSTANCE VMATracking WITH
  NumPages <- 4, Files <- {}, AnonShared <- {}, Segments <- {segment}, SegmentLength <- 2, FileLength <- 3,
  Kinds <- {private}, MmapOffsets <- {0}, Threads <- {}, MarkNoOpEntries <- 1,
  Calls <- {"mmap", "munmap", "mremap", "shmat", "shmdt"}, QuietFaults <- TRUE

Memo == INSTANCE VMATracking WITH
  NumPages <- 2, Files <- {}, AnonShared <- {}, Segments <- {}, SegmentLength <- 1, FileLength <- 1,
  Kinds <- {private}, MmapOffsets <- {0}, Threads <- {t1, t2}, MarkNoOpEntries <- 1,
  Calls <- {"mmap"}, QuietFaults <- TRUE

Mirrored == INSTANCE VMATracking WITH
  NumPages <- 2, Files <- {file}, AnonShared <- {}, Segments <- {}, SegmentLength <- 1, FileLength <- 3,
  Kinds <- {shared, <<file, FALSE>>}, MmapOffsets <- {0}, Threads <- {t3}, MarkNoOpEntries <- 1,
  Calls <- {"mmap", "munmap", "mprotect", "store"}, QuietFaults <- TRUE

One == INSTANCE HostGranules WITH
  NumGranules <- 1, Prots <- {{}, {"r", "w"}}, Sharing <- BOOLEAN,
  Threads <- {t1, t2}, SplitCalls <- FALSE, Code <- TRUE, Policies <- {"Invalidate"},
  Mixed <- TRUE, MixedMaxTracked <- 1

Two == INSTANCE HostGranules WITH
  NumGranules <- 2, Prots <- {{"r"}, {"r", "w"}}, Sharing <- {FALSE},
  Threads <- {t3}, SplitCalls <- FALSE, Code <- FALSE, Policies <- {"Invalidate"},
  Mixed <- FALSE, MixedMaxTracked <- 1

Rearm == INSTANCE HostGranules WITH
  NumGranules <- 1, Prots <- {{"r"}, {"r", "w"}}, Sharing <- {FALSE},
  Threads <- {t1, t2}, SplitCalls <- FALSE, Code <- TRUE, Policies <- {"Rearm"},
  Mixed <- TRUE, MixedMaxTracked <- 1

ASSUME One!GranuleAssumption /\ Two!GranuleAssumption /\ Rearm!GranuleAssumption

vmaVars ==
  <<VMAs, FirstVMA, MappedResources, Generation, MarkNoOpCache, kernel, host, at, page, sample, noop, Mirrors, died>>
granuleVars == <<vma, Granules, intended, mapped, tracked, demoted, Rearms, blocks, job, SiblingPolicy, halfway>>

MCInit ==
  \/ machine = "shm" /\ Shm!Init /\ Two!Init
  \/ machine = "memo" /\ Memo!Init /\ Two!Init
  \/ machine = "mirrors" /\ Mirrored!Init /\ Two!Init
  \/ machine = "one" /\ Tracking!Init /\ One!Init
  \/ machine = "rearm" /\ Tracking!Init /\ Rearm!Init
  \/ machine \in {"calls", "two"} /\ Tracking!Init /\ Two!Init

VMANext ==
  \/ machine = "calls" /\ Tracking!Next
  \/ machine = "shm" /\ Shm!Next
  \/ machine = "memo" /\ Memo!Next
  \/ machine = "mirrors" /\ Mirrored!Next

GranuleNext ==
  \/ machine = "one" /\ One!Next
  \/ machine = "two" /\ Two!Next
  \/ machine = "rearm" /\ Rearm!Next

MCNext ==
  /\ \/ VMANext /\ UNCHANGED granuleVars
     \/ GranuleNext /\ UNCHANGED vmaVars
  /\ UNCHANGED machine

MCSpec == MCInit /\ [][MCNext]_<<vmaVars, granuleVars, machine>>

\* The threads are interchangeable.
MemorySymmetry == Permutations({t1, t2})

\* SkipsOnlyNoOps of VMATracking: a mark that the memo answers could have found
\* nothing to do.
MemoSkipsOnlyNoOps == machine = "memo" => Memo!SkipsOnlyNoOps

\* TableAsTracked of HostGranules: the granule table and VMATracking describe the
\* same memory once the calls on a granule are over.
GranuleTableAsTracked ==
  CASE machine = "one" -> One!TableAsTracked
    [] machine = "two" -> Two!TableAsTracked
    [] machine = "rearm" -> Rearm!TableAsTracked
    [] OTHER -> TRUE

\* TrackedAsMapped, ListsWhole and NeverDies of VMATracking: after any sequence of
\* the six calls every page is tracked by one VMA with what the kernel has for it,
\* the list of a resource is made of exactly its VMAs, and neither
\* ChangeProtectionFlags nor the SIGSEGV handler met a map it did not expect.
VMAsAsMapped ==
  CASE machine = "calls" -> Tracking!TrackedAsMapped /\ Tracking!ListsWhole /\ Tracking!NeverDies
    [] machine = "shm" -> Shm!TrackedAsMapped /\ Shm!ListsWhole /\ Shm!NeverDies
    [] machine = "memo" -> Memo!TrackedAsMapped /\ Memo!NeverDies
    [] machine = "mirrors" -> Mirrored!TrackedAsMapped /\ Mirrored!ListsWhole /\ Mirrored!NeverDies
    [] OTHER -> TRUE

\* ArmsEveryMirror and OpensWhatTheGuestMayWrite of VMATracking: arming a shared
\* page arms every page through which the guest can change the same memory, and the
\* SIGSEGV handler opens every mirror the guest may write and no other.
MirrorsFollow ==
  [][machine = "mirrors" => Mirrored!ArmsEveryMirror /\ Mirrored!OpensWhatTheGuestMayWrite]_vmaVars

\* KernelCoversGuest and HostProtIsKernels of HostGranules: nothing that the guest
\* may access faults for the granule's sake, and the cached protection is the
\* kernel's and the union of the pages' wherever SMC tracking has not been.
GranulesCoverGuest ==
  CASE machine = "one" -> One!KernelCoversGuest /\ One!HostProtIsKernels
    [] machine = "two" -> Two!KernelCoversGuest /\ Two!HostProtIsKernels
    [] machine = "rearm" -> Rearm!KernelCoversGuest /\ Rearm!HostProtIsKernels
    [] OTHER -> TRUE
=============================================================================
