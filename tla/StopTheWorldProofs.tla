------------------------- MODULE StopTheWorldProofs -------------------------
(***************************************************************************)
(* The safety of StopTheWorld for every number of threads: the inductive   *)
(* invariant IInv, the invariants and the action property it implies, and  *)
(* the refinement of HeapAccess.  One lemma per action shows that the      *)
(* action preserves IInv.                                                  *)
(***************************************************************************)
EXTENDS StopTheWorld, TLAPS

USE ThreadsAssumption, BoundsAssumption

\* The groups of variables and labels, and the helpers all actions share.
USE DEF flags, depths, locks, epoch,
        Labels, OffHeap, OnHeap, Parked, SafeRegion, Initiating, HoldsGcMutex,
        Goto, ParkIteration, Broadcast, BroadcastAndSleep, GcMutexFree, Awake

\* The parts of the inductive invariant.
USE DEF IInv, TypeOK, SubjectInv, RegistryInv, MutexInv, FlagsInv, RequestInv,
        StoppedInv, EpochInv, SingleInitiator, RequestsComplete, NoLostWakeup,
        NoStrandedThread, InMake, WillMake, Straggler

\* The state cl_thread_init leaves satisfies the invariant.
LEMMA InitIInv == Init => IInv
<1> SUFFICES ASSUME Init PROVE IInv
  OBVIOUS
<1>1. TypeOK
  <2>1. stw_in_progress \in BOOLEAN
    BY Zenon DEF Init
  <2>2. pc \in [Threads -> Labels] /\ 0 \in 0..MaxDepth
    BY DEF Init
  <2> QED BY <2>1, <2>2 DEF Init
<1>2. SubjectInv /\ RegistryInv /\ MutexInv /\ FlagsInv /\ RequestInv /\ StoppedInv
  BY DEF Init
<1>3. SingleInitiator /\ RequestsComplete /\ NoLostWakeup /\ NoStrandedThread
  BY DEF Init
<1>4. EpochInv
  BY DEF Init
<1> QED BY <1>1, <1>2, <1>3, <1>4

\* PollSafepoint preserves the invariant.
LEMMA PollSafepointStep ==
  ASSUME IInv, NEW t \in Threads, PollSafepoint(t) PROVE IInv'
  BY SMTT(60) DEF PollSafepoint

\* Safepoint preserves the invariant.
LEMMA SafepointStep ==
  ASSUME IInv, NEW t \in Threads, Safepoint(t) PROVE IInv'
  BY SMTT(60) DEF Safepoint, SafepointReturn

\* SafepointWake preserves the invariant.
LEMMA SafepointWakeStep ==
  ASSUME IInv, NEW t \in Threads, SafepointWake(t) PROVE IInv'
  BY SMTT(60) DEF SafepointWake, SafepointReturn

\* EnterSafeRegion preserves the invariant.
LEMMA EnterSafeRegionStep ==
  ASSUME IInv, NEW t \in Threads, EnterSafeRegion(t) PROVE IInv'
  BY SMTT(60) DEF EnterSafeRegion, EnterOuter

\* EnterSafeRegionLocked preserves the invariant.
LEMMA EnterSafeRegionLockedStep ==
  ASSUME IInv, NEW t \in Threads, EnterSafeRegionLocked(t) PROVE IInv'
  BY SMTT(60) DEF EnterSafeRegionLocked, SetInSafeRegion

\* EnterNested preserves the invariant.
LEMMA EnterNestedStep ==
  ASSUME IInv, NEW t \in Threads, EnterNested(t) PROVE IInv'
  BY SMTT(60) DEF EnterNested

\* LeaveSafeRegion preserves the invariant.
LEMMA LeaveSafeRegionStep ==
  ASSUME IInv, NEW t \in Threads, LeaveSafeRegion(t) PROVE IInv'
  BY SMTT(60) DEF LeaveSafeRegion, Leave

\* LeaveSafeRegionLocked preserves the invariant.
LEMMA LeaveSafeRegionLockedStep ==
  ASSUME IInv, NEW t \in Threads, LeaveSafeRegionLocked(t) PROVE IInv'
  BY SMTT(60) DEF LeaveSafeRegionLocked, LeaveRegion

\* SafeMutexLock preserves the invariant.
LEMMA SafeMutexLockStep ==
  ASSUME IInv, NEW t \in Threads, SafeMutexLock(t) PROVE IInv'
  BY SMTT(60) DEF SafeMutexLock, EnterOuter, CL_MT

\* SafeMutexBlocked preserves the invariant.
LEMMA SafeMutexBlockedStep ==
  ASSUME IInv, NEW t \in Threads, SafeMutexBlocked(t) PROVE IInv'
  BY SMTT(60) DEF SafeMutexBlocked, Leave

\* IoUnlock preserves the invariant.
LEMMA IoUnlockStep ==
  ASSUME IInv, NEW t \in Threads, IoUnlock(t) PROVE IInv'
  BY SMTT(60) DEF IoUnlock

\* StartCollection preserves the invariant.
LEMMA StartCollectionStep ==
  ASSUME IInv, NEW t \in Threads, StartCollection(t) PROVE IInv'
  BY SMTT(60) DEF StartCollection, CL_MT

\* GcSingle preserves the invariant.
LEMMA GcSingleStep ==
  ASSUME IInv, NEW t \in Threads, GcSingle(t) PROVE IInv'
  BY SMTT(60) DEF GcSingle, GcReturn

\* StwTry preserves the invariant.
LEMMA StwTryStep ==
  ASSUME IInv, NEW t \in Threads, StwTry(t) PROVE IInv'
<1>1. TypeOK'
  <2>1. stw_in_progress' \in BOOLEAN
    BY Zenon DEF StwTry
  <2> QED BY <2>1 DEF StwTry, MayInitiate
<1>2. SubjectInv'
  BY DEF StwTry, MayInitiate
<1>3. RegistryInv'
  BY DEF StwTry, MayInitiate
<1>4. MutexInv'
  BY DEF StwTry, MayInitiate
<1>5. FlagsInv'
  BY DEF StwTry, MayInitiate
<1>6. RequestInv'
  BY DEF StwTry, MayInitiate
<1>7. StoppedInv'
  BY DEF StwTry, MayInitiate
<1>8. SingleInitiator'
  BY DEF StwTry, MayInitiate
<1>9. RequestsComplete'
  BY DEF StwTry, MayInitiate
<1>10. NoLostWakeup'
  BY DEF StwTry, MayInitiate
<1>11. NoStrandedThread'
  BY DEF StwTry, MayInitiate
<1>12. EpochInv'
  BY DEF StwTry, MayInitiate
<1> QED BY <1>1, <1>2, <1>3, <1>4, <1>5, <1>6, <1>7, <1>8, <1>9, <1>10, <1>11, <1>12

\* StwPoll preserves the invariant.
LEMMA StwPollStep ==
  ASSUME IInv, NEW t \in Threads, StwPoll(t) PROVE IInv'
  BY SMTT(60) DEF StwPoll

\* StwRequest preserves the invariant.
LEMMA StwRequestStep ==
  ASSUME IInv, NEW t \in Threads, StwRequest(t) PROVE IInv'
  BY SMTT(60) DEF StwRequest

\* StwScan preserves the invariant.
LEMMA StwScanStep ==
  ASSUME IInv, NEW t \in Threads, StwScan(t) PROVE IInv'
  BY SMTT(60) DEF StwScan

\* StwWake preserves the invariant.
LEMMA StwWakeStep ==
  ASSUME IInv, NEW t \in Threads, StwWake(t) PROVE IInv'
  BY SMTT(60) DEF StwWake

\* StaleCheck preserves the invariant.
LEMMA StaleCheckStep ==
  ASSUME IInv, NEW t \in Threads, StaleCheck(t) PROVE IInv'
  BY SMTT(60) DEF StaleCheck, StillStale

\* Collect preserves the invariant.
LEMMA CollectStep ==
  ASSUME IInv, NEW t \in Threads, Collect(t) PROVE IInv'
  BY SMTT(60) DEF Collect

\* Resume preserves the invariant.
LEMMA ResumeStep ==
  ASSUME IInv, NEW t \in Threads, Resume(t) PROVE IInv'
<1>1. TypeOK'
  <2>1. stw_in_progress' \in BOOLEAN
    BY Zenon DEF Resume, GcReturn
  <2> QED BY <2>1 DEF Resume, GcReturn, Released, ResumeBroadcast
<1>2. SubjectInv'
  BY DEF Resume, GcReturn, Released, ResumeBroadcast
<1>3. RegistryInv'
  BY DEF Resume, GcReturn, Released, ResumeBroadcast
<1>4. MutexInv'
  BY DEF Resume, GcReturn, Released, ResumeBroadcast
<1>5. FlagsInv'
  BY DEF Resume, GcReturn, Released, ResumeBroadcast
<1>6. RequestInv'
  BY DEF Resume, GcReturn, Released, ResumeBroadcast
<1>7. StoppedInv'
  BY DEF Resume, GcReturn, Released, ResumeBroadcast
<1>8. SingleInitiator'
  BY DEF Resume, GcReturn, Released, ResumeBroadcast
<1>9. RequestsComplete'
  BY DEF Resume, GcReturn, Released, ResumeBroadcast
<1>10. NoLostWakeup'
  BY DEF Resume, GcReturn, Released, ResumeBroadcast
<1>11. NoStrandedThread'
  BY DEF Resume, GcReturn, Released, ResumeBroadcast
<1>12. EpochInv'
  BY DEF Resume, GcReturn, Released, ResumeBroadcast
<1> QED BY <1>1, <1>2, <1>3, <1>4, <1>5, <1>6, <1>7, <1>8, <1>9, <1>10, <1>11, <1>12

\* MakeThread preserves the invariant.
LEMMA MakeThreadStep ==
  ASSUME IInv, NEW t \in Threads, MakeThread(t) PROVE IInv'
<1>1. PICK c \in Threads \ Hosts :
        /\ pc[c] = "none"
        /\ pc' = [pc EXCEPT ![t] = "reg", ![c] = "newborn"]
        /\ subject' = [subject EXCEPT ![t] = c]
        /\ gc_requested' = gc_requested \ {c}
  BY DEF MakeThread
<1>2. c # t /\ c \notin cl_thread_list /\ \A u \in Threads : subject[u] # c
  BY <1>1 DEF MakeThread
<1>3. SubjectInv'
  BY <1>1, <1>2 DEF MakeThread
<1>4. TypeOK'
  BY <1>1, <1>2 DEF MakeThread
<1>5. RegistryInv'
  BY <1>1, <1>2 DEF MakeThread
<1>6. MutexInv'
  BY <1>1, <1>2 DEF MakeThread
<1>7. FlagsInv'
  BY <1>1, <1>2 DEF MakeThread
<1>8. RequestInv'
  BY <1>1, <1>2 DEF MakeThread
<1>9. StoppedInv'
  BY <1>1, <1>2 DEF MakeThread
<1>10. SingleInitiator'
  BY <1>1, <1>2 DEF MakeThread
<1>11. RequestsComplete'
  BY <1>1, <1>2 DEF MakeThread
<1>12. NoLostWakeup'
  BY <1>1, <1>2 DEF MakeThread
<1>13. NoStrandedThread'
  BY <1>1, <1>2 DEF MakeThread
<1>14. EpochInv'
  BY <1>1, <1>2 DEF MakeThread
<1> QED BY <1>3, <1>4, <1>5, <1>6, <1>7, <1>8, <1>9, <1>10, <1>11, <1>12, <1>13, <1>14

\* SelfRegister preserves the invariant.
LEMMA SelfRegisterStep ==
  ASSUME IInv, NEW t \in Threads, SelfRegister(t) PROVE IInv'
  BY SMTT(60) DEF SelfRegister

\* Register preserves the invariant.
LEMMA RegisterStep ==
  ASSUME IInv, NEW t \in Threads, Register(t) PROVE IInv'
  BY SMTT(60) DEF Register

\* LinkNewborn preserves the invariant.
LEMMA LinkNewbornStep ==
  ASSUME IInv, NEW t \in Threads, LinkNewborn(t) PROVE IInv'
  BY SMTT(60) DEF LinkNewborn

\* LinkSelf preserves the invariant.
LEMMA LinkSelfStep ==
  ASSUME IInv, NEW t \in Threads, LinkSelf(t) PROVE IInv'
  BY SMTT(60) DEF LinkSelf, RegisteredDuringStop

\* RegisterWake preserves the invariant.
LEMMA RegisterWakeStep ==
  ASSUME IInv, NEW t \in Threads, RegisterWake(t) PROVE IInv'
  BY SMTT(60) DEF RegisterWake

\* MakeThreadAlloc preserves the invariant.
LEMMA MakeThreadAllocStep ==
  ASSUME IInv, NEW t \in Threads, MakeThreadAlloc(t) PROVE IInv'
  BY SMTT(60) DEF MakeThreadAlloc

\* MakeThreadBody preserves the invariant.
LEMMA MakeThreadBodyStep ==
  ASSUME IInv, NEW t \in Threads, MakeThreadBody(t) PROVE IInv'
  BY SMTT(60) DEF MakeThreadBody

\* CreateOSThread preserves the invariant.
LEMMA CreateOSThreadStep ==
  ASSUME IInv, NEW t \in Threads, CreateOSThread(t) PROVE IInv'
  BY SMTT(60) DEF CreateOSThread

\* Online preserves the invariant.
LEMMA OnlineStep ==
  ASSUME IInv, NEW t \in Threads, Online(t) PROVE IInv'
<1>1. TypeOK'
  BY DEF Online, MustPark
<1>2. SubjectInv'
  BY DEF Online, MustPark
<1>3. RegistryInv'
  BY DEF Online, MustPark
<1>4. MutexInv'
  BY DEF Online, MustPark
<1>5. FlagsInv'
  BY DEF Online, MustPark
<1>6. RequestInv'
  BY DEF Online, MustPark
<1>7. StoppedInv'
  BY DEF Online, MustPark
<1>8. SingleInitiator'
  BY DEF Online, MustPark
<1>9. RequestsComplete'
  BY DEF Online, MustPark
<1>10. NoLostWakeup'
  BY DEF Online, MustPark
<1>11. NoStrandedThread'
  BY DEF Online, MustPark
<1>12. EpochInv'
  BY DEF Online, MustPark
<1> QED BY <1>1, <1>2, <1>3, <1>4, <1>5, <1>6, <1>7, <1>8, <1>9, <1>10, <1>11, <1>12

\* Exit preserves the invariant.
LEMMA ExitStep ==
  ASSUME IInv, NEW t \in Threads, Exit(t) PROVE IInv'
  BY SMTT(60) DEF Exit

\* UnregisterLock preserves the invariant.
LEMMA UnregisterLockStep ==
  ASSUME IInv, NEW t \in Threads, UnregisterLock(t) PROVE IInv'
  BY SMTT(60) DEF UnregisterLock

\* Unlink preserves the invariant.
LEMMA UnlinkStep ==
  ASSUME IInv, NEW t \in Threads, Unlink(t) PROVE IInv'
  BY SMTT(60) DEF Unlink

\* UnregisterWake preserves the invariant.
LEMMA UnregisterWakeStep ==
  ASSUME IInv, NEW t \in Threads, UnregisterWake(t) PROVE IInv'
  BY SMTT(60) DEF UnregisterWake, UnregisterBroadcast

\* SpuriousWake preserves the invariant.
LEMMA SpuriousWakeStep ==
  ASSUME IInv, NEW t \in Threads, SpuriousWake(t) PROVE IInv'
  BY SMTT(60) DEF SpuriousWake

\* Every step preserves the invariant.
LEMMA NextIInv == IInv /\ [Next]_vars => IInv'
<1> SUFFICES ASSUME IInv, [Next]_vars PROVE IInv'
  OBVIOUS
<1>1. CASE UNCHANGED vars
  BY <1>1 DEF vars
<1>2. ASSUME NEW t \in Threads,
             \/ PollSafepoint(t) \/ Safepoint(t) \/ SafepointWake(t)
             \/ EnterSafeRegion(t) \/ EnterSafeRegionLocked(t) \/ EnterNested(t)
             \/ LeaveSafeRegion(t) \/ LeaveSafeRegionLocked(t) \/ SafeMutexLock(t)
             \/ SafeMutexBlocked(t) \/ IoUnlock(t) \/ StartCollection(t)
             \/ GcSingle(t) \/ StwTry(t) \/ StwPoll(t)
             \/ StwRequest(t) \/ StwScan(t) \/ StwWake(t)
             \/ StaleCheck(t) \/ Collect(t) \/ Resume(t)
             \/ MakeThread(t) \/ SelfRegister(t) \/ Register(t)
             \/ LinkNewborn(t) \/ LinkSelf(t) \/ RegisterWake(t)
             \/ MakeThreadAlloc(t) \/ MakeThreadBody(t) \/ CreateOSThread(t)
             \/ Online(t) \/ Exit(t) \/ UnregisterLock(t)
             \/ Unlink(t) \/ UnregisterWake(t) \/ SpuriousWake(t)
      PROVE  IInv'
  BY <1>2, PollSafepointStep, SafepointStep, SafepointWakeStep,
     EnterSafeRegionStep, EnterSafeRegionLockedStep, EnterNestedStep,
     LeaveSafeRegionStep, LeaveSafeRegionLockedStep, SafeMutexLockStep,
     SafeMutexBlockedStep, IoUnlockStep, StartCollectionStep,
     GcSingleStep, StwTryStep, StwPollStep,
     StwRequestStep, StwScanStep, StwWakeStep,
     StaleCheckStep, CollectStep, ResumeStep,
     MakeThreadStep, SelfRegisterStep, RegisterStep,
     LinkNewbornStep, LinkSelfStep, RegisterWakeStep,
     MakeThreadAllocStep, MakeThreadBodyStep, CreateOSThreadStep,
     OnlineStep, ExitStep, UnregisterLockStep,
     UnlinkStep, UnregisterWakeStep, SpuriousWakeStep
<1> QED BY <1>1, <1>2 DEF Next

\* IInv holds in every reachable state.
THEOREM Invariance == Spec => []IInv
  BY InitIInv, NextIInv, PTL DEF Spec

\* TypeOK holds in every reachable state, for any set of threads.
THEOREM TypeCorrect == Spec => []TypeOK
<1>1. IInv => TypeOK
  OBVIOUS
<1> QED BY <1>1, Invariance, PTL

\* While a thread collects, no other one is on the heap: the stop of
\* cl_gc_stop_the_world really stops the world.
THEOREM WorldStoppedCorrect == Spec => []WorldStopped
<1>1. IInv => WorldStopped
  BY DEF WorldStopped
<1> QED BY <1>1, Invariance, PTL

\* There are never two initiators (stw_in_progress of thread.c).
THEOREM SingleInitiatorCorrect == Spec => []SingleInitiator
<1>1. IInv => SingleInitiator
  OBVIOUS
<1> QED BY <1>1, Invariance, PTL

\* From the first scan on, every live registered peer is requested.
THEOREM RequestsCompleteCorrect == Spec => []RequestsComplete
<1>1. IInv => RequestsComplete
  OBVIOUS
<1> QED BY <1>1, Invariance, PTL

\* The initiator never sleeps without a straggler or a pending broadcast.
THEOREM NoLostWakeupCorrect == Spec => []NoLostWakeup
<1>1. IInv => NoLostWakeup
  OBVIOUS
<1> QED BY <1>1, Invariance, PTL

\* No thread sleeps in a park loop for a stop that is over.
THEOREM NoStrandedThreadCorrect == Spec => []NoStrandedThread
<1>1. IInv => NoStrandedThread
  OBVIOUS
<1> QED BY <1>1, Invariance, PTL

-----------------------------------------------------------------------------
(* The step of one thread, as the action property and the refinement see   *)
(* it: it moves no other thread onto or off the heap, a collecting thread  *)
(* stays on the heap, and a thread returns from a stop only by Resume or   *)
(* from a single-threaded collection.                                      *)

Quiet(t) ==
  /\ \A u \in Threads \ {t} :
       /\ pc'[u] \in OnHeap <=> pc[u] \in OnHeap
       /\ Collecting(u)' <=> Collecting(u)
       /\ pc[u] \in Initiating <=> pc'[u] \in Initiating
       /\ pc[u] = "gc_single" => pc'[u] = "gc_single"
  /\ Collecting(t) => pc'[t] \in OnHeap
  /\ Collecting(t)' => pc[t] \in OnHeap
  /\ pc[t] \in Initiating \cup {"gc_single"} /\ pc'[t] \in {"run", "mk_body"}
       => gc_count' > seen[t]

\* Every action of thread t is of that shape.
LEMMA QuietStep ==
  ASSUME IInv, NEW t \in Threads,
         \/ PollSafepoint(t) \/ Safepoint(t) \/ SafepointWake(t)
         \/ EnterSafeRegion(t) \/ EnterSafeRegionLocked(t) \/ EnterNested(t)
         \/ LeaveSafeRegion(t) \/ LeaveSafeRegionLocked(t) \/ SafeMutexLock(t)
         \/ SafeMutexBlocked(t) \/ IoUnlock(t) \/ StartCollection(t)
         \/ GcSingle(t) \/ StwTry(t) \/ StwPoll(t)
         \/ StwRequest(t) \/ StwScan(t) \/ StwWake(t)
         \/ StaleCheck(t) \/ Collect(t) \/ Resume(t)
         \/ MakeThread(t) \/ SelfRegister(t) \/ Register(t)
         \/ LinkNewborn(t) \/ LinkSelf(t) \/ RegisterWake(t)
         \/ MakeThreadAlloc(t) \/ MakeThreadBody(t) \/ CreateOSThread(t)
         \/ Online(t) \/ Exit(t) \/ UnregisterLock(t)
         \/ Unlink(t) \/ UnregisterWake(t) \/ SpuriousWake(t)
  PROVE  Quiet(t)
<1> USE DEF Quiet, Collecting
<1>1. CASE PollSafepoint(t)
  BY <1>1 DEF PollSafepoint
<1>2. CASE Safepoint(t)
  BY <1>2 DEF Safepoint, SafepointReturn
<1>3. CASE SafepointWake(t)
  BY <1>3 DEF SafepointWake, SafepointReturn
<1>4. CASE EnterSafeRegion(t)
  BY <1>4 DEF EnterSafeRegion, EnterOuter
<1>5. CASE EnterSafeRegionLocked(t)
  BY <1>5 DEF EnterSafeRegionLocked, SetInSafeRegion
<1>6. CASE EnterNested(t)
  BY <1>6 DEF EnterNested
<1>7. CASE LeaveSafeRegion(t)
  BY <1>7 DEF LeaveSafeRegion, Leave
<1>8. CASE LeaveSafeRegionLocked(t)
  BY <1>8 DEF LeaveSafeRegionLocked, LeaveRegion
<1>9. CASE SafeMutexLock(t)
  BY <1>9 DEF SafeMutexLock, EnterOuter, CL_MT
<1>10. CASE SafeMutexBlocked(t)
  BY <1>10 DEF SafeMutexBlocked, Leave
<1>11. CASE IoUnlock(t)
  BY <1>11 DEF IoUnlock
<1>12. CASE StartCollection(t)
  BY <1>12 DEF StartCollection, CL_MT
<1>13. CASE GcSingle(t)
  BY <1>13 DEF GcSingle, GcReturn
<1>14. CASE StwTry(t)
  BY <1>14 DEF StwTry, MayInitiate
<1>15. CASE StwPoll(t)
  BY <1>15 DEF StwPoll
<1>16. CASE StwRequest(t)
  BY <1>16 DEF StwRequest
<1>17. CASE StwScan(t)
  BY <1>17 DEF StwScan
<1>18. CASE StwWake(t)
  BY <1>18 DEF StwWake
<1>19. CASE StaleCheck(t)
  BY <1>19 DEF StaleCheck, StillStale
<1>20. CASE Collect(t)
  BY <1>20 DEF Collect
<1>21. CASE Resume(t)
  BY <1>21 DEF Resume, GcReturn, Released, ResumeBroadcast
<1>22. CASE MakeThread(t)
  BY <1>22 DEF MakeThread
<1>23. CASE SelfRegister(t)
  BY <1>23 DEF SelfRegister
<1>24. CASE Register(t)
  BY <1>24 DEF Register
<1>25. CASE LinkNewborn(t)
  BY <1>25 DEF LinkNewborn
<1>26. CASE LinkSelf(t)
  BY <1>26 DEF LinkSelf, RegisteredDuringStop
<1>27. CASE RegisterWake(t)
  BY <1>27 DEF RegisterWake
<1>28. CASE MakeThreadAlloc(t)
  BY <1>28 DEF MakeThreadAlloc
<1>29. CASE MakeThreadBody(t)
  BY <1>29 DEF MakeThreadBody
<1>30. CASE CreateOSThread(t)
  BY <1>30 DEF CreateOSThread
<1>31. CASE Online(t)
  BY <1>31 DEF Online, MustPark
<1>32. CASE Exit(t)
  BY <1>32 DEF Exit
<1>33. CASE UnregisterLock(t)
  BY <1>33 DEF UnregisterLock
<1>34. CASE Unlink(t)
  BY <1>34 DEF Unlink
<1>35. CASE UnregisterWake(t)
  BY <1>35 DEF UnregisterWake, UnregisterBroadcast
<1>36. CASE SpuriousWake(t)
  BY <1>36 DEF SpuriousWake
<1> QED BY <1>1, <1>2, <1>3, <1>4, <1>5, <1>6, <1>7, <1>8, <1>9,
     <1>10, <1>11, <1>12, <1>13, <1>14, <1>15, <1>16, <1>17, <1>18,
     <1>19, <1>20, <1>21, <1>22, <1>23, <1>24, <1>25, <1>26, <1>27,
     <1>28, <1>29, <1>30, <1>31, <1>32, <1>33, <1>34, <1>35, <1>36

\* A thread that found the heap full retries only after a collection has run
\* since (cl_gc_if_stale's epoch test never skips the one that is needed).
THEOREM CollectedSinceSeenCorrect == Spec => CollectedSinceSeen
<1> DEFINE P == \A t \in Threads :
       pc[t] \in Initiating \cup {"gc_single"} /\ pc'[t] \in {"run", "mk_body"}
         => gc_count' > seen[t]
<1>1. ASSUME IInv, [Next]_vars PROVE P \/ UNCHANGED vars
  <2>1. ASSUME NEW t \in Threads, Quiet(t) PROVE P
    BY <2>1 DEF Quiet, Collecting
  <2> QED BY <1>1, <2>1, QuietStep DEF Next
<1> QED BY <1>1, Invariance, PTL DEF Spec, CollectedSinceSeen

\* The collector of the mapping is the thread that collects, if there is one.
LEMMA CollectorIs ==
  ASSUME IInv
  PROVE  /\ \A t \in Threads : Collecting(t) => collector = t
         /\ (\A t \in Threads : ~Collecting(t)) => collector = NoThread
<1>1. ASSUME NEW t \in Threads, Collecting(t) PROVE collector = t
  <2>1. \A u \in Threads : Collecting(u) => u = t
    BY <1>1 DEF Collecting
  <2>2. (CHOOSE u \in Threads : Collecting(u)) = t
    BY <1>1, <2>1
  <2> QED BY <1>1, <2>2 DEF collector
<1>2. ASSUME \A t \in Threads : ~Collecting(t) PROVE collector = NoThread
  BY <1>2 DEF collector
<1> QED BY <1>1, <1>2

\* The same after the step.
LEMMA CollectorIsNext ==
  ASSUME IInv'
  PROVE  /\ \A t \in Threads : Collecting(t)' => collector' = t
         /\ (\A t \in Threads : ~Collecting(t)') => collector' = NoThread
<1>1. ASSUME NEW t \in Threads, Collecting(t)' PROVE collector' = t
  <2>1. \A u \in Threads : Collecting(u)' => u = t
    BY <1>1 DEF Collecting
  <2>2. (CHOOSE u \in Threads : Collecting(u)') = t
    BY <1>1, <2>1
  <2> QED BY <1>1, <2>2 DEF collector
<1>2. ASSUME \A t \in Threads : ~Collecting(t)' PROVE collector' = NoThread
  BY <1>2 DEF collector
<1> QED BY <1>1, <1>2

\* A quiet step of t is a step of HeapAccess or leaves it unchanged.
LEMMA QuietRefines ==
  ASSUME IInv, IInv', NEW t \in Threads, Quiet(t)
  PROVE  HA!Next \/ UNCHANGED <<mutators, collector>>
<1>1. \A u \in Threads \ {t} : (u \in mutators' <=> u \in mutators)
                             /\ (Collecting(u)' <=> Collecting(u))
  BY DEF Quiet, mutators, Collecting
<1>2. \A u \in Threads : Collecting(u) => mutators = {u}
  BY DEF Collecting, mutators
<1>3. \A u \in Threads : Collecting(u)' => mutators' = {u}
  BY DEF Collecting, mutators
<1>4. mutators \subseteq Threads /\ mutators' \subseteq Threads
  BY DEF mutators
<1>5. CASE t \notin mutators /\ t \in mutators'
  <2>1. ASSUME NEW u \in Threads, Collecting(u)' PROVE FALSE
    <3>1. u = t
      BY <1>3, <1>5, <2>1
    <3>2. pc'[t] \in {"gc", "gc_single"} /\ pc[t] \notin OnHeap
      BY <1>5, <2>1, <3>1 DEF Collecting, mutators
    <3> QED BY <2>1, <3>1, <3>2 DEF Quiet
  <2>1a. \A u \in Threads : ~Collecting(u) /\ ~Collecting(u)'
    BY <1>1, <1>2, <1>5, <2>1
  <2>2. HA!Enter(t)
    BY <1>1, <1>4, <1>5, <2>1a, CollectorIs, CollectorIsNext DEF HA!Enter
  <2> QED BY <2>2 DEF HA!Next
<1>6. CASE t \in mutators /\ t \notin mutators'
  <2>1. ~Collecting(t) /\ ~Collecting(t)'
    BY <1>6 DEF Quiet, Collecting, mutators
  <2>2. collector' = collector /\ collector # t
    BY <1>1, <2>1, CollectorIs, CollectorIsNext
  <2>3. HA!Leave(t)
    BY <1>1, <1>4, <1>6, <2>2 DEF HA!Leave
  <2> QED BY <2>3 DEF HA!Next
<1>7. CASE t \in mutators <=> t \in mutators'
  <2>1. mutators' = mutators
    <3>1. \A u \in Threads : pc'[u] \in OnHeap <=> pc[u] \in OnHeap
      BY <1>1, <1>7 DEF mutators
    <3> HIDE DEF OnHeap
    <3> QED BY <3>1 DEF mutators
  <2>2. CASE Collecting(t)' /\ ~Collecting(t)
    <3>1. collector = NoThread
      BY <1>1, <1>3, <2>1, <2>2, CollectorIs, CollectorIsNext
         DEF Collecting, mutators
    <3>2. HA!BeginCollection(t)
      BY <1>3, <2>1, <2>2, <3>1, CollectorIsNext DEF HA!BeginCollection
    <3> QED BY <3>2 DEF HA!Next
  <2>3. CASE Collecting(t) /\ ~Collecting(t)'
    <3>1. collector' = NoThread
      BY <1>1, <1>2, <2>3, CollectorIs, CollectorIsNext DEF Collecting, mutators
    <3>2. HA!EndCollection(t)
      BY <2>1, <2>3, <3>1, CollectorIs DEF HA!EndCollection
    <3> QED BY <3>2 DEF HA!Next
  <2>4. CASE Collecting(t) <=> Collecting(t)'
    <3>1. collector' = collector
      BY <1>1, <2>4, CollectorIs, CollectorIsNext
    <3> QED BY <2>1, <3>1
  <2> QED BY <2>2, <2>3, <2>4
<1> QED BY <1>5, <1>6, <1>7

\* The protocol implements the collector's promise: exclusive use of the heap
\* during a collection, for any number of threads.
THEOREM Refinement == Spec => HeapAccessSpec
<1>1. Init => HA!Init
  <2> SUFFICES ASSUME Init PROVE HA!Init
    OBVIOUS
  <2>1. mutators = {Main}
    BY DEF Init, mutators
  <2>2. collector = NoThread
    BY InitIInv, CollectorIs DEF Init, Collecting
  <2> QED BY <2>1, <2>2 DEF HA!Init
<1>2. ASSUME IInv, IInv', [Next]_vars PROVE [HA!Next]_<<mutators, collector>>
  <2>1. CASE UNCHANGED vars
    BY <2>1 DEF vars, mutators, collector, Collecting
  <2>2. ASSUME NEW t \in Threads, Quiet(t)
        PROVE  [HA!Next]_<<mutators, collector>>
    BY <1>2, <2>2, QuietRefines
  <2> QED BY <1>2, <2>1, <2>2, QuietStep DEF Next
<1> QED BY <1>1, <1>2, Invariance, PTL DEF Spec, HeapAccessSpec, HA!Spec
=============================================================================
