---------------------- MODULE DeferredSignals_proofs ----------------------
(***************************************************************************)
(* For any signals, actions, masks and depth of sections: a guest handler  *)
(* starts only where nothing is half done, no signal is dropped on its way *)
(* from the kernel through the queue, the mask and the parked set, and     *)
(* until the guest first changes its mask or an action no frame is queued  *)
(* behind an open fault page.                                              *)
(*                                                                         *)
(* The counter is tied to the place of the host PC: handlers start and     *)
(* sigreturns end outside sections.  Until that first change the mask is   *)
(* empty outside handlers, because the oldest handler interrupted it empty.*)
(***************************************************************************)
EXTENDS DeferredSignals, TLAPS

(* Zenon is tried where a leaf does not name a prover.                     *)
USE Zenon

(* Where no deferred section is open.                                      *)
Outside == {"jit", "entry", "host", "suspend_drain"}

(* DeferredSignalRefCount agrees with the place of the host PC.            *)
CountInv ==
  /\ at \in Outside => DeferredSignalRefCount = 0
  /\ at \notin Outside \union {"exit"} => DeferredSignalRefCount > 0

(* Until it changes its mask or an action, the guest blocks and ignores no *)
(* signal outside its handlers.                                            *)
MaskInv ==
  ~altered =>
    /\ ignored = {}
    /\ at \notin {"suspended", "suspend_woken", "suspend_drain", "suspend_done"}
    /\ \A i \in DOMAIN backups : backups[i].at # "suspend_drain"
    /\ backups = <<>> => CurrentSignalMask = {}
    /\ backups # <<>> => backups[1].GuestSignalMask = {}
    /\ DeferredSettles

(* The inductive invariant.                                                *)
IInv == TypeOK /\ CountInv /\ Uninterruptible /\ NothingLost /\ MaskInv

----------------------------------------------------------------------------
(* Facts about the queue and the stack of handlers.                        *)
LEMMA AppendFacts ==
  ASSUME NEW S, NEW s \in Seq(S), NEW e \in S
  PROVE  /\ Append(s, e) \in Seq(S) /\ Append(s, e) # <<>>
         /\ DOMAIN Append(s, e) = DOMAIN s \union {Len(s) + 1}
         /\ Append(s, e)[Len(s) + 1] = e /\ \A i \in DOMAIN s : Append(s, e)[i] = s[i]
         /\ s # <<>> => 1 \in DOMAIN s
         /\ s = <<>> => Append(s, e)[1] = e
<1>1. /\ Append(s, e) \in Seq(S) /\ Append(s, e) # <<>>
      /\ DOMAIN Append(s, e) = DOMAIN s \union {Len(s) + 1}
      /\ Append(s, e)[Len(s) + 1] = e /\ \A i \in DOMAIN s : Append(s, e)[i] = s[i]
  BY SMT
<1>2. s # <<>> => 1 \in DOMAIN s
  BY SMT
<1>3. s = <<>> => Len(s) + 1 = 1
  BY SMT
<1> QED BY <1>1, <1>2, <1>3

(* The newest frame or handler, and the older ones under it.               *)
LEMMA FrontLast ==
  ASSUME NEW S, NEW s \in Seq(S), s # <<>>
  PROVE  /\ Last(s) \in S /\ Front(s) \in Seq(S)
         /\ Len(s) \in DOMAIN s /\ Last(s) = s[Len(s)]
         /\ DOMAIN s = DOMAIN Front(s) \union {Len(s)}
         /\ \A i \in DOMAIN Front(s) : Front(s)[i] = s[i]
         /\ Front(s) # <<>> => 1 \in DOMAIN Front(s)
         /\ Front(s) = <<>> => Last(s) = s[1]
<1>1. Len(s) \in Nat \ {0} /\ DOMAIN s = 1 .. Len(s)
  BY SMT
<1>2. Len(s) \in DOMAIN s /\ s[Len(s)] \in S
  BY <1>1, SMT
<1>3. /\ SubSeq(s, 1, Len(s) - 1) \in Seq(S)
      /\ Len(SubSeq(s, 1, Len(s) - 1)) = Len(s) - 1
      /\ DOMAIN SubSeq(s, 1, Len(s) - 1) = 1 .. (Len(s) - 1)
      /\ \A i \in 1 .. (Len(s) - 1) : SubSeq(s, 1, Len(s) - 1)[i] = s[i]
  BY <1>1, SMT
<1>4. SubSeq(s, 1, Len(s) - 1) = <<>> => Len(s) = 1
  BY <1>1, <1>3, SMT
<1>5. SubSeq(s, 1, Len(s) - 1) # <<>> => 1 \in 1 .. (Len(s) - 1)
  BY <1>1, <1>3, SMT
<1> QED BY <1>1, <1>2, <1>3, <1>4, <1>5, SMT DEF Front, Last

(* A signal joins the queue, or the newest one leaves it.                  *)
LEMMA QueuedFacts ==
  ASSUME TypeOK
  PROVE  /\ Queued \subseteq Signals
         /\ \A f \in Frames : DeferredSignalFrames' = Append(DeferredSignalFrames, f)
              => Queued' = Queued \union {f.Signal} /\ DeferredSignalFrames' \in Seq(Frames)
         /\ DeferredSignalFrames # <<>> /\ DeferredSignalFrames' = Front(DeferredSignalFrames)
              => /\ Queued \subseteq Queued' \union {Last(DeferredSignalFrames).Signal}
                 /\ DeferredSignalFrames' \in Seq(Frames) /\ Last(DeferredSignalFrames) \in Frames
<1>1. DeferredSignalFrames \in Seq(Frames)
  BY DEF TypeOK
<1>2. Queued \subseteq Signals
  <2>1. \A i \in DOMAIN DeferredSignalFrames : DeferredSignalFrames[i] \in Frames
    BY <1>1, SMT
  <2> QED BY <2>1 DEF Queued, Frames
<1>3. ASSUME NEW f \in Frames, DeferredSignalFrames' = Append(DeferredSignalFrames, f)
      PROVE  Queued' = Queued \union {f.Signal} /\ DeferredSignalFrames' \in Seq(Frames)
  BY <1>1, <1>3, AppendFacts, SMT DEF Queued
<1>4. ASSUME DeferredSignalFrames # <<>>, DeferredSignalFrames' = Front(DeferredSignalFrames)
      PROVE  /\ Queued \subseteq Queued' \union {Last(DeferredSignalFrames).Signal}
             /\ DeferredSignalFrames' \in Seq(Frames) /\ Last(DeferredSignalFrames) \in Frames
  <2>1. /\ Last(DeferredSignalFrames) \in Frames /\ DeferredSignalFrames' \in Seq(Frames)
        /\ Last(DeferredSignalFrames) = DeferredSignalFrames[Len(DeferredSignalFrames)]
        /\ DOMAIN DeferredSignalFrames = DOMAIN DeferredSignalFrames' \union {Len(DeferredSignalFrames)}
        /\ \A i \in DOMAIN DeferredSignalFrames' : DeferredSignalFrames'[i] = DeferredSignalFrames[i]
    BY <1>1, <1>4, FrontLast
  <2> QED BY <2>1 DEF Queued
<1> QED BY <1>2, <1>3, <1>4

(* A frame that was queued has the signal and the mask of its context.     *)
LEMMA FrameType == ASSUME NEW f \in Frames PROVE f.Signal \in Signals /\ f.SigMask \in SUBSET Signals
  BY DEF Frames

(* What Deliver does to a signal, where no section is open: it is parked,  *)
(* ignored or its handler is entered.                                      *)
LEMMA DeliverKeeps ==
  ASSUME SignalAssumption, IInv, NEW s \in Signals, NEW m \in SUBSET Signals, Deliver(s, m),
         DeferredSignalRefCount = 0, at \in Stores \union {"host"}
  PROVE  /\ at' \in {at, "jit"} /\ hostmask' \subseteq Signals /\ CurrentSignalMask' \subseteq Signals
         /\ PendingSignals' \subseteq Signals /\ owed' \subseteq owed
         /\ s \in owed' => s \in PendingSignals'
         /\ PendingSignals \subseteq PendingSignals' \union {s}
         /\ backups' \in Seq(Backups) /\ Uninterruptible'
         /\ backups # <<>> => backups' # <<>> /\ backups'[1] = backups[1]
         /\ backups = <<>> /\ backups' # <<>> => backups'[1].GuestSignalMask = CurrentSignalMask
         /\ backups = <<>> /\ backups' = <<>> => CurrentSignalMask' = CurrentSignalMask
         /\ s \notin CurrentSignalMask \union ignored => backups' # <<>>
         /\ at # "suspend_drain" => \A i \in DOMAIN backups' :
              (\A j \in DOMAIN backups : backups[j].at # "suspend_drain") => backups'[i].at # "suspend_drain"
<1>0. TypeOK /\ Uninterruptible
  BY DEF IInv
<1>1. CASE s \in CurrentSignalMask
  BY <1>0, <1>1 DEF Deliver, Parked, TypeOK, Uninterruptible
<1>2. CASE s \notin CurrentSignalMask /\ s \in ignored
  BY <1>0, <1>2 DEF Deliver, TypeOK, Uninterruptible
<1>3. CASE s \notin CurrentSignalMask /\ s \notin ignored
  <2> DEFINE e == [Signal |-> s, at |-> at, RefCount |-> DeferredSignalRefCount,
                   sa_mask |-> m, GuestSignalMask |-> CurrentSignalMask]
  <2>1. backups' = Append(backups, e) /\ at' = "jit" /\ owed' = owed \ {s} /\ PendingSignals' = PendingSignals \ {s}
    BY <1>3 DEF Deliver, HandleDispatcherGuestSignal
  <2>2. hostmask' \subseteq Signals /\ CurrentSignalMask' \subseteq Signals
    BY <1>0, <1>3 DEF Deliver, HandleDispatcherGuestSignal, GetNewSigMask, TypeOK, SignalAssumption
  <2>3. e \in Backups /\ backups \in Seq(Backups)
    BY <1>0 DEF Backups, TypeOK, Places
  <2>4. e.at = at /\ e.at \in Stores \union {"host"} /\ e.RefCount = 0 /\ e.GuestSignalMask = CurrentSignalMask
    OBVIOUS
  <2> HIDE DEF e
  <2>5. /\ backups' \in Seq(Backups) /\ backups' # <<>>
        /\ DOMAIN backups' = DOMAIN backups \union {Len(backups) + 1}
        /\ backups'[Len(backups) + 1] = e /\ \A i \in DOMAIN backups : backups'[i] = backups[i]
        /\ backups # <<>> => 1 \in DOMAIN backups
        /\ backups = <<>> => backups'[1] = e
    BY <2>1, <2>3, AppendFacts, SMT
  <2>6. Uninterruptible'
    BY <1>0, <2>4, <2>5 DEF Uninterruptible
  <2> QED BY <1>0, <2>1, <2>2, <2>4, <2>5, <2>6 DEF TypeOK
<1> QED BY <1>1, <1>2, <1>3

(* A store that succeeds takes the thread out of the section or back into the*)
(* one around it.                                                          *)
LEMMA StoreFaultPageInv == ASSUME SignalAssumption, IInv, StoreFaultPage PROVE IInv'
<1> USE DEF StoreFaultPage, AfterStore, threadVars, queueVars, maskVars, suspendVars
<1>1. TypeOK'
  BY SMT DEF IInv, TypeOK, Places, Stores, Sleeps, CountInv, Outside, SignalAssumption
<1>2. CountInv'
  BY SMT DEF IInv, TypeOK, CountInv, Outside, Stores
<1>3. Uninterruptible'
  BY DEF IInv, Uninterruptible
<1>4. NothingLost'
  BY DEF IInv, TypeOK, NothingLost, Queued
<1>5. MaskInv'
  BY DEF IInv, TypeOK, MaskInv, DeferredSettles, Stores
<1> QED BY <1>1, <1>2, <1>3, <1>4, <1>5 DEF IInv

(* Moves that change the place of the host PC only.                        *)
LEMMA BlockEntryInv == ASSUME SignalAssumption, IInv, BlockEntry PROVE IInv'
<1> USE DEF BlockEntry, Move, Goto, threadVars, queueVars, maskVars, suspendVars
<1>1. TypeOK'
  BY DEF IInv, TypeOK, Places, Stores, Sleeps, CountInv, Outside, SignalAssumption
<1>2. CountInv'
  BY DEF IInv, TypeOK, CountInv, Outside, Stores
<1>3. Uninterruptible'
  BY DEF IInv, Uninterruptible
<1>4. NothingLost'
  BY DEF IInv, TypeOK, NothingLost, Queued
<1>5. MaskInv'
  BY DEF IInv, TypeOK, MaskInv, DeferredSettles
<1> QED BY <1>1, <1>2, <1>3, <1>4, <1>5 DEF IInv

(* The same.                                                               *)
LEMMA CallHostInv == ASSUME SignalAssumption, IInv, CallHost PROVE IInv'
<1> USE DEF CallHost, Move, Goto, threadVars, queueVars, maskVars, suspendVars
<1>1. TypeOK'
  BY DEF IInv, TypeOK, Places, Stores, Sleeps, CountInv, Outside, SignalAssumption
<1>2. CountInv'
  BY DEF IInv, TypeOK, CountInv, Outside, Stores
<1>3. Uninterruptible'
  BY DEF IInv, Uninterruptible
<1>4. NothingLost'
  BY DEF IInv, TypeOK, NothingLost, Queued
<1>5. MaskInv'
  BY DEF IInv, TypeOK, MaskInv, DeferredSettles
<1> QED BY <1>1, <1>2, <1>3, <1>4, <1>5 DEF IInv

(* The same.                                                               *)
LEMMA ReturnHostInv == ASSUME SignalAssumption, IInv, ReturnHost PROVE IInv'
<1> USE DEF ReturnHost, Move, Goto, threadVars, queueVars, maskVars, suspendVars
<1>1. TypeOK'
  BY DEF IInv, TypeOK, Places, Stores, Sleeps, CountInv, Outside, SignalAssumption
<1>2. CountInv'
  BY DEF IInv, TypeOK, CountInv, Outside, Stores
<1>3. Uninterruptible'
  BY DEF IInv, Uninterruptible
<1>4. NothingLost'
  BY DEF IInv, TypeOK, NothingLost, Queued
<1>5. MaskInv'
  BY DEF IInv, TypeOK, MaskInv, DeferredSettles
<1> QED BY <1>1, <1>2, <1>3, <1>4, <1>5 DEF IInv

(* The same.                                                               *)
LEMMA FutexSleepInv == ASSUME SignalAssumption, IInv, FutexSleep PROVE IInv'
<1> USE DEF FutexSleep, Move, Goto, threadVars, queueVars, maskVars, suspendVars
<1>1. TypeOK'
  BY DEF IInv, TypeOK, Places, Stores, Sleeps, CountInv, Outside, SignalAssumption
<1>2. CountInv'
  BY DEF IInv, TypeOK, CountInv, Outside, Stores
<1>3. Uninterruptible'
  BY DEF IInv, Uninterruptible
<1>4. NothingLost'
  BY DEF IInv, TypeOK, NothingLost, Queued
<1>5. MaskInv'
  BY DEF IInv, TypeOK, MaskInv, DeferredSettles
<1> QED BY <1>1, <1>2, <1>3, <1>4, <1>5 DEF IInv

(* The same.                                                               *)
LEMMA FutexInterruptedInv == ASSUME SignalAssumption, IInv, FutexInterrupted PROVE IInv'
<1> USE DEF FutexInterrupted, Move, Goto, threadVars, queueVars, maskVars, suspendVars
<1>1. TypeOK'
  BY DEF IInv, TypeOK, Places, Stores, Sleeps, CountInv, Outside, SignalAssumption
<1>2. CountInv'
  BY DEF IInv, TypeOK, CountInv, Outside, Stores
<1>3. Uninterruptible'
  BY DEF IInv, Uninterruptible
<1>4. NothingLost'
  BY DEF IInv, TypeOK, NothingLost, Queued
<1>5. MaskInv'
  BY DEF IInv, TypeOK, MaskInv, DeferredSettles
<1> QED BY <1>1, <1>2, <1>3, <1>4, <1>5 DEF IInv

(* The same.                                                               *)
LEMMA FutexWakeInv == ASSUME SignalAssumption, IInv, FutexWake PROVE IInv'
<1> USE DEF FutexWake, Move, Goto, threadVars, queueVars, maskVars, suspendVars
<1>1. TypeOK'
  BY DEF IInv, TypeOK, Places, Stores, Sleeps, CountInv, Outside, SignalAssumption
<1>2. CountInv'
  BY DEF IInv, TypeOK, CountInv, Outside, Stores
<1>3. Uninterruptible'
  BY DEF IInv, Uninterruptible
<1>4. NothingLost'
  BY DEF IInv, TypeOK, NothingLost, Queued
<1>5. MaskInv'
  BY DEF IInv, TypeOK, MaskInv, DeferredSettles
<1> QED BY <1>1, <1>2, <1>3, <1>4, <1>5 DEF IInv

(* The same.                                                               *)
LEMMA ObservedFutexSyscallInv == ASSUME SignalAssumption, IInv, ObservedFutexSyscall PROVE IInv'
<1> USE DEF ObservedFutexSyscall, Move, Goto, threadVars, queueVars, maskVars, suspendVars
<1>1. TypeOK'
  BY DEF IInv, TypeOK, Places, Stores, Sleeps, CountInv, Outside, SignalAssumption
<1>2. CountInv'
  BY DEF IInv, TypeOK, CountInv, Outside, Stores
<1>3. Uninterruptible'
  BY DEF IInv, Uninterruptible
<1>4. NothingLost'
  BY DEF IInv, TypeOK, NothingLost, Queued
<1>5. MaskInv'
  BY SMT DEF IInv, TypeOK, MaskInv, DeferredSettles
<1> QED BY <1>1, <1>2, <1>3, <1>4, <1>5 DEF IInv

(* Sections nest up to the bound.                                          *)
LEMMA EnterSectionInv == ASSUME SignalAssumption, IInv, EnterSection PROVE IInv'
<1> USE DEF EnterSection, Goto, threadVars, queueVars, maskVars, suspendVars
<1>1. TypeOK'
  BY SMT DEF IInv, TypeOK, Places, Stores, Sleeps, CountInv, Outside, SignalAssumption
<1>2. CountInv'
  BY SMT DEF IInv, TypeOK, CountInv, Outside, Stores
<1>3. Uninterruptible'
  BY DEF IInv, Uninterruptible
<1>4. NothingLost'
  BY DEF IInv, TypeOK, NothingLost, Queued
<1>5. MaskInv'
  BY SMT DEF IInv, TypeOK, MaskInv, DeferredSettles
<1> QED BY <1>1, <1>2, <1>3, <1>4, <1>5 DEF IInv

(* A section that ends was open.                                           *)
LEMMA LeaveSectionInv == ASSUME SignalAssumption, IInv, LeaveSection PROVE IInv'
<1> USE DEF LeaveSection, Goto, Decrement, threadVars, queueVars, maskVars, suspendVars
<1>1. TypeOK'
  BY SMT DEF IInv, TypeOK, Places, Stores, Sleeps, CountInv, Outside, SignalAssumption
<1>2. CountInv'
  BY DEF IInv, TypeOK, CountInv, Outside, Stores
<1>3. Uninterruptible'
  BY DEF IInv, Uninterruptible
<1>4. NothingLost'
  BY DEF IInv, TypeOK, NothingLost, Queued
<1>5. MaskInv'
  BY DEF IInv, TypeOK, MaskInv, DeferredSettles
<1> QED BY <1>1, <1>2, <1>3, <1>4, <1>5 DEF IInv

(* sigsuspend drains the queue outside the outermost section.              *)
LEMMA SuspendDrainInv == ASSUME SignalAssumption, IInv, SuspendDrain PROVE IInv'
<1> USE DEF SuspendDrain, Goto, Decrement, threadVars, queueVars, maskVars, suspendVars
<1>1. TypeOK'
  BY SMT DEF IInv, TypeOK, Places, Stores, Sleeps, CountInv, Outside, SignalAssumption
<1>2. CountInv'
  BY SMT DEF IInv, TypeOK, CountInv, Outside, Stores
<1>3. Uninterruptible'
  BY DEF IInv, Uninterruptible
<1>4. NothingLost'
  BY DEF IInv, TypeOK, NothingLost, Queued
<1>5. MaskInv'
  BY DEF IInv, TypeOK, MaskInv, DeferredSettles
<1> QED BY <1>1, <1>2, <1>3, <1>4, <1>5 DEF IInv

(* A new mask sends the thread what it lets through and drops nothing.     *)
LEMMA GuestSigProcMaskInv == ASSUME SignalAssumption, IInv, NEW mask \in SUBSET Signals, GuestSigProcMask(mask) PROVE IInv'
<1> USE DEF GuestSigProcMask, Goto, CheckForPendingSignals, threadVars, queueVars, maskVars, suspendVars
<1>1. TypeOK'
  BY DEF IInv, TypeOK, Places, Stores, Sleeps, CountInv, Outside, SignalAssumption
<1>2. CountInv'
  BY DEF IInv, TypeOK, CountInv, Outside, Stores
<1>3. Uninterruptible'
  BY DEF IInv, Uninterruptible
<1>4. NothingLost'
  BY DEF IInv, TypeOK, NothingLost, Queued
<1>5. MaskInv'
  BY DEF IInv, TypeOK, MaskInv, DeferredSettles
<1> QED BY <1>1, <1>2, <1>3, <1>4, <1>5 DEF IInv

(* sigsuspend saves the mask and sleeps.                                   *)
LEMMA GuestSigSuspendInv == ASSUME SignalAssumption, IInv, NEW mask \in SUBSET Signals, GuestSigSuspend(mask) PROVE IInv'
<1> USE DEF GuestSigSuspend, threadVars, queueVars, maskVars, suspendVars
<1>1. TypeOK'
  <2>1. suspends' \in Seq(SUBSET Signals)
    BY SMT DEF IInv, TypeOK
  <2> QED BY <2>1 DEF IInv, TypeOK, Places, Sleeps
<1>2. CountInv'
  BY DEF IInv, TypeOK, CountInv, Outside, Stores
<1>3. Uninterruptible'
  BY DEF IInv, Uninterruptible
<1>4. NothingLost'
  BY DEF IInv, TypeOK, NothingLost, Queued
<1>5. MaskInv'
  BY DEF IInv, TypeOK, MaskInv, DeferredSettles
<1> QED BY <1>1, <1>2, <1>3, <1>4, <1>5 DEF IInv

(* sigsuspend puts the saved mask back.                                    *)
LEMMA SuspendReturnInv == ASSUME SignalAssumption, IInv, SuspendReturn PROVE IInv'
<1> USE DEF SuspendReturn, CheckForPendingSignals, threadVars, queueVars, maskVars, suspendVars
<1>1. TypeOK'
  <2>1. suspends' \in Seq(SUBSET Signals)
    <3>1. suspends \in Seq(SUBSET Signals) /\ suspends' = SubSeq(suspends, 1, Len(suspends) - 1)
      BY DEF IInv, TypeOK, Front
    <3> QED BY <3>1, SMT
  <2> QED BY <2>1 DEF IInv, TypeOK, Places
<1>2. CountInv'
  BY DEF IInv, TypeOK, CountInv, Outside, Stores
<1>3. Uninterruptible'
  BY DEF IInv, Uninterruptible
<1>4. NothingLost'
  BY DEF IInv, TypeOK, NothingLost, Queued
<1>5. MaskInv'
  BY DEF IInv, TypeOK, MaskInv, DeferredSettles
<1> QED BY <1>1, <1>2, <1>3, <1>4, <1>5 DEF IInv

(* Ignoring a signal discards it in the kernel; it is owed no more.        *)
LEMMA RegisterGuestSignalHandlerInv == ASSUME SignalAssumption, IInv, NEW s \in Signals, RegisterGuestSignalHandler(s) PROVE IInv'
<1> USE DEF RegisterGuestSignalHandler, threadVars, queueVars, maskVars, suspendVars
<1>1. TypeOK'
  BY DEF IInv, TypeOK, Places, Stores, Sleeps, CountInv, Outside, SignalAssumption
<1>2. CountInv'
  BY DEF IInv, TypeOK, CountInv, Outside, Stores
<1>3. Uninterruptible'
  BY DEF IInv, Uninterruptible
<1>4. NothingLost'
  BY DEF IInv, TypeOK, NothingLost, Queued
<1>5. MaskInv'
  BY DEF IInv, TypeOK, MaskInv, DeferredSettles
<1> QED BY <1>1, <1>2, <1>3, <1>4, <1>5 DEF IInv

(* A signal that is sent is pending in the kernel.                         *)
LEMMA SendSignalInv == ASSUME SignalAssumption, IInv, NEW s \in Signals, SendSignal(s) PROVE IInv'
<1> USE DEF SendSignal, threadVars, queueVars, maskVars, suspendVars
<1>1. TypeOK'
  BY SMT DEF IInv, TypeOK, Places, Stores, Sleeps, CountInv, Outside, SignalAssumption
<1>2. CountInv'
  BY DEF IInv, TypeOK, CountInv, Outside, Stores
<1>3. Uninterruptible'
  BY DEF IInv, Uninterruptible
<1>4. NothingLost'
  BY DEF IInv, TypeOK, NothingLost, Queued
<1>5. MaskInv'
  BY DEF IInv, TypeOK, MaskInv, DeferredSettles
<1> QED BY <1>1, <1>2, <1>3, <1>4, <1>5 DEF IInv

(* The interrupted place of a signal that is not deferred.                 *)
LEMMA NotDeferred == IInv /\ ~MustDeferAsync => DeferredSignalRefCount = 0 /\ at \in {"host", "exit", "suspend_drain"}
  BY SMT DEF IInv, TypeOK, MustDeferAsync, InJIT, CountInv, Outside, Places, Stores, Sleeps

(* The kernel delivers a signal: it is queued, or goes the way of Deliver. *)
LEMMA AsyncSignalInv == ASSUME SignalAssumption, IInv, NEW s \in Signals, AsyncSignal(s) PROVE IInv'
<1> USE DEF threadVars, queueVars, maskVars, suspendVars
<1>0. /\ TypeOK /\ CountInv /\ Uninterruptible /\ NothingLost /\ MaskInv
      /\ sigpending' = sigpending \ {s}
      /\ UNCHANGED <<DeferredSignalRefCount, suspendVars, ignored, altered, sent>>
  BY DEF IInv, AsyncSignal
<1>1. CASE MustDeferAsync
  <2>1. /\ DeferredSignalFrames' = Append(DeferredSignalFrames, [Signal |-> s, SigMask |-> hostmask])
        /\ hostmask' = GetNewSigMask(s) /\ FaultPageArmed' = TRUE
        /\ at' = CASE at = "futex_wait" -> "futex_intr" [] at = "suspended" -> "suspend_woken" [] OTHER -> at
        /\ UNCHANGED <<CurrentSignalMask, PendingSignals, backups, owed>>
    BY <1>1 DEF AsyncSignal, Defer
  <2>2. [Signal |-> s, SigMask |-> hostmask] \in Frames
    BY <1>0 DEF Frames, TypeOK
  <2>3. Queued' = Queued \union {s} /\ DeferredSignalFrames' \in Seq(Frames)
    BY <1>0, <2>1, <2>2, QueuedFacts
  <2>4. TypeOK'
    BY <1>0, <2>1, <2>3 DEF TypeOK, GetNewSigMask, SignalAssumption, Places
  <2>5. CountInv'
    BY <1>0, <2>1 DEF CountInv, Outside
  <2>6. NothingLost' /\ Uninterruptible'
    BY <1>0, <2>1, <2>3 DEF NothingLost, Uninterruptible
  <2>7. MaskInv'
    BY <1>0, <2>1 DEF MaskInv, DeferredSettles
  <2> QED BY <2>4, <2>5, <2>6, <2>7 DEF IInv
<1>2. CASE ~MustDeferAsync
  <2>1. Deliver(s, hostmask) /\ UNCHANGED <<DeferredSignalFrames, FaultPageArmed>>
    BY <1>2 DEF AsyncSignal
  <2>2. DeferredSignalRefCount = 0 /\ at \in {"host", "exit", "suspend_drain"} /\ at \in Stores \union {"host"}
    BY <1>2, NotDeferred DEF Stores
  <2>3. /\ at' \in {at, "jit"} /\ hostmask' \subseteq Signals /\ CurrentSignalMask' \subseteq Signals
        /\ PendingSignals' \subseteq Signals /\ owed' \subseteq owed
        /\ s \in owed' => s \in PendingSignals'
        /\ PendingSignals \subseteq PendingSignals' \union {s}
        /\ backups' \in Seq(Backups) /\ Uninterruptible'
        /\ backups # <<>> => backups' # <<>> /\ backups'[1] = backups[1]
        /\ backups = <<>> /\ backups' # <<>> => backups'[1].GuestSignalMask = CurrentSignalMask
        /\ backups = <<>> /\ backups' = <<>> => CurrentSignalMask' = CurrentSignalMask
        /\ at # "suspend_drain" => \A i \in DOMAIN backups' :
             (\A j \in DOMAIN backups : backups[j].at # "suspend_drain") => backups'[i].at # "suspend_drain"
    BY <1>0, <2>1, <2>2, DeliverKeeps DEF TypeOK
  <2>4. TypeOK'
    BY <1>0, <2>1, <2>3 DEF TypeOK, Places
  <2>5. CountInv'
    BY <1>0, <2>2, <2>3 DEF CountInv, Outside
  <2>6. NothingLost'
    BY <1>0, <2>1, <2>3 DEF NothingLost, Queued
  <2>7. MaskInv'
    BY <1>0, <2>1, <2>2, <2>3 DEF MaskInv, DeferredSettles
  <2> QED BY <2>3, <2>4, <2>5, <2>6, <2>7 DEF IInv
<1> QED BY <1>1, <1>2

(* A drain takes one frame from the queue: what it does not deliver it     *)
(* parks.  A guest that masks nothing has a handler entered, whose         *)
(* sigreturn arms the page again.                                          *)
LEMMA DrainFrameInv == ASSUME SignalAssumption, IInv, DrainFrame PROVE IInv'
<1> USE DEF threadVars, queueVars, maskVars, suspendVars
<1>0. /\ TypeOK /\ CountInv /\ Uninterruptible /\ NothingLost /\ MaskInv
      /\ DeferredSignalRefCount = 0 /\ at \in Stores /\ FaultPageArmed' = FALSE
      /\ UNCHANGED <<DeferredSignalRefCount, suspendVars, sigpending, ignored, altered, sent>>
  BY DEF IInv, DrainFrame
<1>1. CASE DeferredSignalFrames = <<>>
  <2>1. UNCHANGED <<at, DeferredSignalFrames, PendingSignals, maskVars, backups, owed>>
    BY <1>1 DEF DrainFrame
  <2> QED BY <1>0, <1>1, <2>1 DEF IInv, TypeOK, CountInv, Uninterruptible, NothingLost, Queued, MaskInv, DeferredSettles
<1>2. CASE DeferredSignalFrames # <<>>
  <2> DEFINE s == Last(DeferredSignalFrames).Signal
             m == Last(DeferredSignalFrames).SigMask
  <2>1. DeferredSignalFrames' = Front(DeferredSignalFrames) /\ Deliver(s, m)
    BY <1>2 DEF DrainFrame, FramesLeft
  <2>2. /\ Queued \subseteq Queued' \union {s}
        /\ DeferredSignalFrames' \in Seq(Frames) /\ Last(DeferredSignalFrames) \in Frames
    BY <1>0, <1>2, <2>1, QueuedFacts
  <2>3. s \in Signals /\ m \in SUBSET Signals
    BY <2>2, FrameType
  <2> HIDE DEF s, m
  <2>4. /\ at' \in {at, "jit"} /\ hostmask' \subseteq Signals /\ CurrentSignalMask' \subseteq Signals
        /\ PendingSignals' \subseteq Signals /\ owed' \subseteq owed
        /\ s \in owed' => s \in PendingSignals'
        /\ PendingSignals \subseteq PendingSignals' \union {s}
        /\ backups' \in Seq(Backups) /\ Uninterruptible'
        /\ backups # <<>> => backups' # <<>> /\ backups'[1] = backups[1]
        /\ backups = <<>> /\ backups' # <<>> => backups'[1].GuestSignalMask = CurrentSignalMask
        /\ backups = <<>> /\ backups' = <<>> => CurrentSignalMask' = CurrentSignalMask
        /\ s \notin CurrentSignalMask \union ignored => backups' # <<>>
        /\ at # "suspend_drain" => \A i \in DOMAIN backups' :
             (\A j \in DOMAIN backups : backups[j].at # "suspend_drain") => backups'[i].at # "suspend_drain"
    BY <1>0, <2>1, <2>3, DeliverKeeps
  <2>5. TypeOK'
    BY <1>0, <2>2, <2>4 DEF TypeOK, Places
  <2>6. CountInv'
    BY <1>0, <2>4 DEF CountInv, Outside
  <2>7. NothingLost'
    BY <1>0, <2>2, <2>4 DEF NothingLost
  <2>8. MaskInv'
    BY <1>0, <2>3, <2>4 DEF MaskInv, DeferredSettles
  <2> QED BY <2>4, <2>5, <2>6, <2>7, <2>8 DEF IInv
<1> QED BY <1>1, <1>2

(* sigreturn goes back to where the handler interrupted, with the page     *)
(* armed for the frames that are left.                                     *)
LEMMA SigReturnInv == ASSUME SignalAssumption, IInv, SigReturn PROVE IInv'
<1> USE DEF threadVars, queueVars, maskVars, suspendVars
<1> DEFINE Context == Last(backups)
<1>0. /\ TypeOK /\ CountInv /\ Uninterruptible /\ NothingLost /\ MaskInv
      /\ backups # <<>> /\ at' = Context.at /\ DeferredSignalRefCount' = Context.RefCount
      /\ hostmask' = Context.sa_mask /\ CurrentSignalMask' = Context.GuestSignalMask
      /\ sigpending' = sigpending \union (PendingSignals \ (Context.GuestSignalMask \union ignored))
      /\ backups' = Front(backups) /\ (FaultPageArmed' <=> (FaultPageArmed \/ DeferredSignalFrames # <<>>))
      /\ UNCHANGED <<DeferredSignalFrames, PendingSignals, suspendVars, ignored, altered, owed, sent>>
  BY DEF IInv, SigReturn, CheckForPendingSignals, Rearmed
<1>t. FaultPageArmed' \in BOOLEAN
  BY <1>0 DEF SigReturn, Rearmed, TypeOK
<1>1. /\ Context \in Backups /\ backups' \in Seq(Backups)
      /\ Len(backups) \in DOMAIN backups /\ Context = backups[Len(backups)]
      /\ DOMAIN backups = DOMAIN backups' \union {Len(backups)}
      /\ \A i \in DOMAIN backups' : backups'[i] = backups[i]
      /\ backups' # <<>> => 1 \in DOMAIN backups'
      /\ backups' = <<>> => Context = backups[1]
  BY <1>0, FrontLast DEF TypeOK
<1>2. Context.at \in Stores \union {"host"} /\ Context.RefCount = 0
  BY <1>0, <1>1 DEF Uninterruptible
<1>3. Context.sa_mask \subseteq Signals /\ Context.GuestSignalMask \subseteq Signals
  BY <1>1 DEF Backups
<1> HIDE DEF Context
<1>4. TypeOK'
  <2>1. at' \in Places /\ DeferredSignalRefCount' \in 0..MaxSections
    BY <1>0, <1>2, SMT DEF Places, SignalAssumption
  <2>2. hostmask' \subseteq Signals /\ CurrentSignalMask' \subseteq Signals /\ sigpending' \subseteq Signals
    BY <1>0, <1>3 DEF TypeOK
  <2> QED BY <1>0, <1>t, <1>1, <2>1, <2>2 DEF TypeOK
<1>5. CountInv'
  BY <1>0, <1>2 DEF CountInv, Outside, Stores
<1>6. Uninterruptible'
  BY <1>0, <1>1 DEF Uninterruptible
<1>7. NothingLost'
  BY <1>0 DEF NothingLost, Queued
<1>8. MaskInv'
  BY <1>0, <1>1, <1>2 DEF MaskInv, DeferredSettles, Stores
<1> QED BY <1>4, <1>5, <1>6, <1>7, <1>8 DEF IInv

(* At the start nothing was sent and no section is open.                   *)
LEMMA InitInv == ASSUME SignalAssumption, Init PROVE IInv
<1>1. <<>> \in Seq(Frames) /\ <<>> \in Seq(Backups) /\ <<>> \in Seq(SUBSET Signals)
  BY SMT
<1>2. TypeOK
  <2>1. at \in Places /\ DeferredSignalRefCount \in 0..MaxSections
    BY SMT DEF Init, Places, SignalAssumption
  <2> QED BY <1>1, <2>1 DEF Init, TypeOK
<1>3. CountInv /\ Uninterruptible /\ NothingLost /\ MaskInv
  BY SMT DEF Init, CountInv, Outside, Uninterruptible, NothingLost, MaskInv, DeferredSettles
<1> QED BY <1>2, <1>3 DEF IInv

(* Every step preserves the invariant.                                     *)
LEMMA NextInv == ASSUME SignalAssumption, IInv, [Next]_vars PROVE IInv'
<1>1. CASE UNCHANGED vars
  BY <1>1 DEF vars, threadVars, queueVars, maskVars, suspendVars, IInv, TypeOK, CountInv, Uninterruptible, NothingLost,
              Queued, MaskInv, DeferredSettles
<1>2. CASE StoreFaultPage \/ DrainFrame \/ BlockEntry \/ CallHost \/ ReturnHost \/ EnterSection \/ LeaveSection \/ SigReturn
  BY <1>2, StoreFaultPageInv, DrainFrameInv, BlockEntryInv, CallHostInv, ReturnHostInv, EnterSectionInv, LeaveSectionInv,
     SigReturnInv
<1>3. CASE \E mask \in SUBSET Signals : GuestSigProcMask(mask) \/ GuestSigSuspend(mask)
  BY <1>3, GuestSigProcMaskInv, GuestSigSuspendInv
<1>4. CASE \E s \in Signals : RegisterGuestSignalHandler(s) \/ AsyncSignal(s) \/ SendSignal(s)
  BY <1>4, RegisterGuestSignalHandlerInv, AsyncSignalInv, SendSignalInv
<1>5. CASE ObservedFutexSyscall \/ FutexSleep \/ FutexInterrupted \/ FutexWake \/ SuspendDrain \/ SuspendReturn
  BY <1>5, ObservedFutexSyscallInv, FutexSleepInv, FutexInterruptedInv, FutexWakeInv, SuspendDrainInv, SuspendReturnInv
<1> QED BY <1>1, <1>2, <1>3, <1>4, <1>5 DEF Next

(* The invariant of the deferral of signals.                               *)
THEOREM Invariant == ASSUME SignalAssumption PROVE Spec => []IInv
<1>1. Init => IInv
  BY InitInv
<1>2. IInv /\ [Next]_vars => IInv'
  BY NextInv
<1> QED BY <1>1, <1>2, PTL DEF Spec

(* The deferral test of HandleGuestSignal: no guest handler starts inside  *)
(* a deferring section or in the middle of JIT code.                       *)
THEOREM HandlersOutside == ASSUME SignalAssumption PROVE Spec => []Uninterruptible
<1>1. IInv => Uninterruptible
  BY DEF IInv
<1> QED BY <1>1, Invariant, PTL

(* No signal is lost between the kernel, the deferred queue and the parked *)
(* set, and a guest without mask calls has the page armed for its queue.   *)
THEOREM SignalsKept == ASSUME SignalAssumption PROVE Spec => []NothingStranded
<1>1. IInv => NothingStranded
  BY DEF IInv, MaskInv, NothingStranded
<1> QED BY <1>1, Invariant, PTL
=============================================================================
