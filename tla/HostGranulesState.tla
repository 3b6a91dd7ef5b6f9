------------------------- MODULE HostGranulesState -------------------------
(***************************************************************************)
(* The state of HostGranules, and what keeps code on large host pages      *)
(* sound.                                                                  *)
(***************************************************************************)
EXTENDS Integers

CONSTANTS
  PagesPerGranule,
  None

VARIABLES
  vma,            \* page -> its protection and sharing in VMATracking, or None
  Granules,       \* granule -> its GranuleEntry, or None
  intended,       \* the nibbles of the entries: page -> protection, or None
  mapped,         \* granule -> what the kernel has, or None
  tracked,        \* SMC's table: granule -> TrackedMask as a set of pages, or None
  demoted,        \* SMC's table: the granules with ValidateOnly
  Rearms,         \* RearmQueue
  blocks,         \* page -> the code compiled from it: "none", "bare" or "guarded"
  job,            \* what each thread is doing
  SiblingPolicy,  \* FEX_SMCGRANULEPOLICY: "Invalidate" or "Rearm"
  halfway         \* a call failed with some of its granules already mapped anew

RW == {"r", "w"}
Protection == SUBSET RW
Mapping == [prot : Protection, shared : BOOLEAN]
Entry == [HostProt : Protection, FEXBacked : BOOLEAN, SharedFd : BOOLEAN]

GranuleOf(p) == p \div PagesPerGranule

Calls == {"pass", "retire", "sharedmap", "sharedtrack", "emulate", "fill", "protect", "invalidate", "wedged"}
Calling(t) == job[t].at \in Calls
Span(c) == c.base .. c.base + c.len - 1

----------------------------------------------------------------------------
\* A store to the granule does not fault.
Open(g) == mapped[g] # None /\ "w" \in mapped[g].prot
Writable(p) == vma[p] # None /\ "w" \in vma[p].prot
\* A block without guards is live on a page that the guest may write, and no store
\* to the page would fault.
Unguarded(p) == blocks[p] = "bare" /\ Writable(p) /\ Open(GranuleOf(p))

\* A fault has consumed the granule's mask and is about to invalidate the page.
Doomed(p) == \E t \in DOMAIN job : job[t].at = "noted" /\ p \in job[t].dead
\* A call is remapping the page itself, and will invalidate it.
Remapped(p) == \E t \in DOMAIN job : Calling(t) /\ p \in Span(job[t])
\* MakeGranuleFEXBacked has opened the granule for the call to write to.
Converted(g) == \E t \in DOMAIN job : job[t].at \in {"fill", "protect"} /\ job[t].op = "mmap" /\ job[t].g = g

\* An unguarded block lives on a page only while a store to it faults, or the fault
\* or the call that will kill it is already under way; mmap alone opens its granule
\* to stores that nobody will notice, and closes it again before it lets go of the
\* lock.
BareOnlyWhileProtected ==
  \A p \in DOMAIN blocks : Unguarded(p) => Doomed(p) \/ Remapped(p) \/ Converted(GranuleOf(p))

\* The hand-over to validation: on a demoted granule no unguarded block outlives the
\* fault that demoted it, whatever was being compiled at that moment.
DemotedNeverBare ==
  \A p \in DOMAIN blocks : blocks[p] = "bare" /\ GranuleOf(p) \in demoted => Doomed(p)

\* What keeps self-modifying code sound: under both policies the hand-over to
\* validation, and under the default one unguarded blocks only behind a protected
\* granule, as long as no mmap has failed with some of its granules done, which it
\* leaves mapped anew and neither tracks nor invalidates.
BareWhileProtected ==
  DemotedNeverBare /\ (SiblingPolicy = "Invalidate" /\ ~halfway => BareOnlyWhileProtected)
=============================================================================
