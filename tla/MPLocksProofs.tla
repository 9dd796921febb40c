--------------------------- MODULE MPLocksProofs ---------------------------
(***************************************************************************)
(* The safety of MPLocks for every number of threads and every nesting     *)
(* depth: the inductive invariant IInv, what it implies, and the           *)
(* refinement of Monitor.  One lemma per action shows that the action      *)
(* preserves the invariant; the count of condition waiters is argued apart *)
(* because it is about cardinalities.                                      *)
(***************************************************************************)
EXTENDS MPLocks, FiniteSetTheorems, TLAPS

USE LockAssumption

\* The groups of variables and labels, and the helpers all actions share.
USE DEF lock, cv, flags, locals, Listed, SlowPath, CwHeld, CwGone, Labels,
        DeliverInterrupts, Goto, Resumed, Unpark, GaveUp, Nesting

\* The parts of the inductive invariant but the count.
USE DEF Core, TypeOK, WaitKinds, Where, Ownership, Tokens, NoLostLockWakeup, Responsible

-----------------------------------------------------------------------------
(* The count of condition waiters.                                         *)

\* The condition waiters are finitely many.
LEMMA CvFinite == IsFiniteSet(CvRegistered) /\ Cardinality(CvRegistered) \in Nat
  BY FS_Subset, FS_CardinalityType DEF CvRegistered

\* The count survives a step that leaves the condition waiters alone.
LEMMA CountKept ==
  ASSUME WaitersCounted, waiters' = waiters,
         \A u \in Threads : wait_kind'[u] \in {1, 2} <=> wait_kind[u] \in {1, 2}
  PROVE  WaitersCounted'
<1>1. CvRegistered' = CvRegistered
  BY DEF CvRegistered
<1> QED BY <1>1 DEF WaitersCounted

\* The count survives the registration of a wait.
LEMMA CountEnter ==
  ASSUME TypeOK, WaitersCounted, NEW t \in Threads, NEW k \in {1, 2},
         wait_kind[t] \notin {1, 2}, wait_kind' = [wait_kind EXCEPT ![t] = k],
         waiters' = waiters + 1
  PROVE  WaitersCounted'
<1>1. CvRegistered' = CvRegistered \cup {t} /\ t \notin CvRegistered
  BY DEF CvRegistered
<1>2. Cardinality(CvRegistered') = Cardinality(CvRegistered) + 1
  BY <1>1, CvFinite, FS_AddElement
<1> QED BY <1>2 DEF WaitersCounted

\* The count survives the end of a wait, and stays a natural number.
LEMMA CountLeave ==
  ASSUME Core, WaitersCounted, NEW t \in Threads, wait_kind[t] # 3, CwLeave(t)
  PROVE  WaitersCounted' /\ waiters' \in Nat
<1>1. IsFiniteSet(CvRegistered \ {t}) /\ Cardinality(CvRegistered \ {t}) \in Nat
  BY CvFinite, FS_RemoveElement, FS_CardinalityType
<1>2. CvRegistered' = CvRegistered \ {t}
  BY DEF CvRegistered, CwLeave
<1>3. t \in CvRegistered <=> wait_kind[t] # 0
  BY DEF CvRegistered
<1>4. /\ t \in CvRegistered => Cardinality(CvRegistered \ {t}) = Cardinality(CvRegistered) - 1
      /\ t \notin CvRegistered => Cardinality(CvRegistered \ {t}) = Cardinality(CvRegistered)
  <2> HIDE DEF WaitersCounted, Core
  <2> DEFINE S == CvRegistered
  <2>1. IsFiniteSet(S)
    BY CvFinite
  <2> HIDE DEF S
  <2>2. /\ t \in S => Cardinality(S \ {t}) = Cardinality(S) - 1
        /\ t \notin S => Cardinality(S \ {t}) = Cardinality(S)
    BY <2>1, FS_RemoveElement
  <2> QED BY <2>2 DEF S
<1>5. Cardinality(CvRegistered \ {t}) = waiters'
  BY <1>3, <1>4 DEF WaitersCounted, CwLeave
<1> QED BY <1>1, <1>2, <1>5 DEF WaitersCounted

\* The count survives a notify and a broadcast.
LEMMA CountWake ==
  ASSUME TypeOK, WaitersCounted, NEW S \in SUBSET CvRegistered, Wake(S)
  PROVE  WaitersCounted' /\ waiters' \in Nat
<1>1. CvRegistered' = CvRegistered \ S
  BY DEF CvRegistered, Wake
<1>2. CvRegistered \cap S = S
  OBVIOUS
<1>3. /\ IsFiniteSet(CvRegistered \ S)
      /\ Cardinality(CvRegistered \ S) = Cardinality(CvRegistered) - Cardinality(S)
  BY <1>2, CvFinite, FS_Difference
<1>4. Cardinality(CvRegistered \ S) \in Nat
  BY <1>3, FS_CardinalityType
<1> QED BY <1>1, <1>3, <1>4 DEF WaitersCounted, Wake

-----------------------------------------------------------------------------
(* The initial state and the steps.                                        *)

\* The initial state satisfies the invariant.
LEMMA InitIInv == Init => IInv
<1> SUFFICES ASSUME Init PROVE IInv
  OBVIOUS
<1>1. Core
  BY DEF Init
<1>2. CvRegistered = {}
  BY DEF Init, CvRegistered
<1>3. WaitersCounted
  BY <1>2, FS_EmptySet DEF Init, WaitersCounted
<1> QED BY <1>1, <1>3 DEF IInv

\* Safepoint preserves the invariant.
LEMMA SafepointStep ==
  ASSUME IInv, NEW t \in Threads, Safepoint(t) PROVE IInv'
<1>1. WaitersCounted'
  BY CountKept DEF IInv, Safepoint, Consume
<1>2. Core'
  BY <1>1, SMTT(60) DEF IInv, Safepoint, Consume
<1> QED BY <1>1, <1>2 DEF IInv

\* Unwind preserves the invariant.
LEMMA UnwindStep ==
  ASSUME IInv, NEW t \in Threads, Unwind(t) PROVE IInv'
<1>1. WaitersCounted'
  BY CountKept DEF IInv, Unwind
<1>2. Core'
  BY <1>1, SMTT(60) DEF IInv, Unwind
<1> QED BY <1>1, <1>2 DEF IInv

\* SpinTake preserves the invariant.
LEMMA SpinTakeStep ==
  ASSUME IInv, NEW t \in Threads, SpinTake(t) PROVE IInv'
<1>1. WaitersCounted'
  BY CountKept DEF IInv, SpinTake, Take
<1>2. Core'
  BY <1>1, SMTT(60) DEF IInv, SpinTake, Take
<1> QED BY <1>1, <1>2 DEF IInv

\* SpinInterrupted preserves the invariant.
LEMMA SpinInterruptedStep ==
  ASSUME IInv, NEW t \in Threads, SpinInterrupted(t) PROVE IInv'
<1>1. WaitersCounted'
  BY CountKept DEF IInv, SpinInterrupted, Consume
<1>2. Core'
  BY <1>1, SMTT(60) DEF IInv, SpinInterrupted, Consume
<1> QED BY <1>1, <1>2 DEF IInv

\* SpinEnds preserves the invariant.
LEMMA SpinEndsStep ==
  ASSUME IInv, NEW t \in Threads, SpinEnds(t) PROVE IInv'
<1>1. WaitersCounted'
  BY CountKept DEF IInv, SpinEnds
<1>2. Core'
  BY <1>1, SMTT(60) DEF IInv, SpinEnds
<1> QED BY <1>1, <1>2 DEF IInv

\* SlowTake preserves the invariant.
LEMMA SlowTakeStep ==
  ASSUME IInv, NEW t \in Threads, SlowTake(t) PROVE IInv'
<1>1. WaitersCounted'
  BY CountKept DEF IInv, SlowTake, Take
<1>2. Core'
  BY <1>1, SMTT(60) DEF IInv, SlowTake, Take
<1> QED BY <1>1, <1>2 DEF IInv

\* SlowRegister preserves the invariant.
LEMMA SlowRegisterStep ==
  ASSUME IInv, NEW t \in Threads, SlowRegister(t) PROVE IInv'
<1>1. WaitersCounted'
  BY CountKept DEF IInv, SlowRegister
<1>2. Core'
  BY <1>1, SMTT(60) DEF IInv, SlowRegister
<1> QED BY <1>1, <1>2 DEF IInv

\* SlowMark preserves the invariant.
LEMMA SlowMarkStep ==
  ASSUME IInv, NEW t \in Threads, SlowMark(t) PROVE IInv'
<1>1. WaitersCounted'
  BY CountKept DEF IInv, SlowMark
<1>2. Core'
  BY <1>1, SMTT(60) DEF IInv, SlowMark
<1> QED BY <1>1, <1>2 DEF IInv

\* SlowRetry preserves the invariant.
LEMMA SlowRetryStep ==
  ASSUME IInv, NEW t \in Threads, SlowRetry(t) PROVE IInv'
<1>1. WaitersCounted'
  BY CountKept DEF IInv, SlowRetry, Deregister
<1>2. Core'
  BY <1>1, SMTT(60) DEF IInv, SlowRetry, Deregister
<1> QED BY <1>1, <1>2 DEF IInv

\* SlowCheck preserves the invariant.
LEMMA SlowCheckStep ==
  ASSUME IInv, NEW t \in Threads, SlowCheck(t) PROVE IInv'
<1>1. WaitersCounted'
  BY CountKept DEF IInv, SlowCheck
<1>2. Core'
  BY <1>1, SMTT(60) DEF IInv, SlowCheck
<1> QED BY <1>1, <1>2 DEF IInv

\* SlowPark preserves the invariant.
LEMMA SlowParkStep ==
  ASSUME IInv, NEW t \in Threads, SlowPark(t) PROVE IInv'
<1>1. WaitersCounted'
  BY CountKept DEF IInv, SlowPark, Park
<1>2. Core'
  BY <1>1, SMTT(60) DEF IInv, SlowPark, Park
<1> QED BY <1>1, <1>2 DEF IInv

\* SlowWoken preserves the invariant.
LEMMA SlowWokenStep ==
  ASSUME IInv, NEW t \in Threads, SlowWoken(t) PROVE IInv'
<1>1. WaitersCounted'
  BY CountKept DEF IInv, SlowWoken, Deregister
<1>2. Core'
  BY <1>1, SMTT(60) DEF IInv, SlowWoken, Deregister
<1> QED BY <1>1, <1>2 DEF IInv

\* SlowGiveUp preserves the invariant.
LEMMA SlowGiveUpStep ==
  ASSUME IInv, NEW t \in Threads, SlowGiveUp(t) PROVE IInv'
<1>1. WaitersCounted'
  BY CountKept DEF IInv, SlowGiveUp, Deregister
<1>2. Core'
  BY <1>1, SMTT(60) DEF IInv, SlowGiveUp, Deregister
<1> QED BY <1>1, <1>2 DEF IInv

\* Abandon preserves the invariant.
LEMMA AbandonStep ==
  ASSUME IInv, NEW t \in Threads, Abandon(t) PROVE IInv'
<1>1. WaitersCounted'
  BY CountKept DEF IInv, Abandon, AbandonReturn
<1>2. Core'
  BY <1>1, SMTT(60) DEF IInv, Abandon, AbandonReturn
<1> QED BY <1>1, <1>2 DEF IInv

\* AbandonWake preserves the invariant.
LEMMA AbandonWakeStep ==
  ASSUME IInv, NEW t \in Threads, AbandonWake(t) PROVE IInv'
<1>1. WaitersCounted'
  BY CountKept DEF IInv, AbandonWake, AbandonReturn, LockWakeOne
<1>2. Core'
  BY <1>1, SMTT(60) DEF IInv, AbandonWake, AbandonReturn, LockWakeOne
<1> QED BY <1>1, <1>2 DEF IInv

\* SlowHandle preserves the invariant.
LEMMA SlowHandleStep ==
  ASSUME IInv, NEW t \in Threads, SlowHandle(t) PROVE IInv'
<1>1. WaitersCounted'
  BY CountKept DEF IInv, SlowHandle, Consume
<1>2. Core'
  BY <1>1, SMTT(60) DEF IInv, SlowHandle, Consume
<1> QED BY <1>1, <1>2 DEF IInv

\* ReleaseLock preserves the invariant.
LEMMA ReleaseLockStep ==
  ASSUME IInv, NEW t \in Threads, ReleaseLock(t) PROVE IInv'
<1>1. WaitersCounted'
  BY CountKept DEF IInv, ReleaseLock, ReleaseCore
<1>2. Core'
  BY <1>1, SMTT(60) DEF IInv, ReleaseLock, ReleaseCore
<1> QED BY <1>1, <1>2 DEF IInv

\* ReleaseScan preserves the invariant.
LEMMA ReleaseScanStep ==
  ASSUME IInv, NEW t \in Threads, ReleaseScan(t) PROVE IInv'
<1>1. WaitersCounted'
  BY CountKept DEF IInv, ReleaseScan, LockWakeOne
<1>2. Core'
  BY <1>1, SMTT(60) DEF IInv, ReleaseScan, LockWakeOne
<1> QED BY <1>1, <1>2 DEF IInv

\* CwCheck preserves the invariant.
LEMMA CwCheckStep ==
  ASSUME IInv, NEW t \in Threads, CwCheck(t) PROVE IInv'
<1>1. WaitersCounted' /\ waiters' \in Nat
  <2>1. wait_kind[t] # 3
    BY DEF IInv, CwCheck, CwLeave
  <2>2. CASE CwLeave(t)
    BY <2>1, <2>2, CountLeave DEF IInv
  <2>3. CASE UNCHANGED cv
    BY <2>3, CountKept DEF IInv
  <2> QED BY <2>2, <2>3 DEF CwCheck
<1>2. Core'
  BY <1>1, SMTT(60) DEF IInv, CwCheck, CwLeave
<1> QED BY <1>1, <1>2 DEF IInv

\* CwRelease preserves the invariant.
LEMMA CwReleaseStep ==
  ASSUME IInv, NEW t \in Threads, CwRelease(t) PROVE IInv'
<1>1. WaitersCounted'
  BY CountKept DEF IInv, CwRelease, ReleaseCore
<1>2. Core'
  BY <1>1, SMTT(60) DEF IInv, CwRelease, ReleaseCore
<1> QED BY <1>1, <1>2 DEF IInv

\* CwScan preserves the invariant.
LEMMA CwScanStep ==
  ASSUME IInv, NEW t \in Threads, CwScan(t) PROVE IInv'
<1>1. WaitersCounted'
  BY CountKept DEF IInv, CwScan, LockWakeOne
<1>2. Core'
  BY <1>1, SMTT(60) DEF IInv, CwScan, LockWakeOne
<1> QED BY <1>1, <1>2 DEF IInv

\* CwPark preserves the invariant.
LEMMA CwParkStep ==
  ASSUME IInv, NEW t \in Threads, CwPark(t) PROVE IInv'
<1>1. WaitersCounted'
  BY CountKept DEF IInv, CwPark, Park
<1>2. Core'
  BY <1>1, SMTT(60) DEF IInv, CwPark, Park
<1> QED BY <1>1, <1>2 DEF IInv

\* CwResolve preserves the invariant.
LEMMA CwResolveStep ==
  ASSUME IInv, NEW t \in Threads, CwResolve(t) PROVE IInv'
<1>1. WaitersCounted' /\ waiters' \in Nat
  <2>1. wait_kind[t] # 3
    BY DEF IInv, CwResolve, CwLeave
  <2>2. CASE CwLeave(t)
    BY <2>1, <2>2, CountLeave DEF IInv
  <2>3. CASE UNCHANGED cv
    BY <2>3, CountKept DEF IInv
  <2> QED BY <2>2, <2>3 DEF CwResolve
<1>2. Core'
  BY <1>1, SMTT(60) DEF IInv, CwResolve, CwLeave
<1> QED BY <1>1, <1>2 DEF IInv

\* Reacquire preserves the invariant.
LEMMA ReacquireStep ==
  ASSUME IInv, NEW t \in Threads, Reacquire(t) PROVE IInv'
<1>1. WaitersCounted'
  BY CountKept DEF IInv, Reacquire, Take
<1>2. Core'
  <2>1. CASE Take(t, 0)
    BY <2>1, SMTT(60) DEF IInv, Reacquire, Take
  <2>2. CASE Goto(t, "spin") /\ UNCHANGED <<lock, cv, permit, flags, locals, armed>>
    BY <2>2, SMTT(60) DEF IInv, Reacquire
  <2> QED BY <2>1, <2>2 DEF Reacquire
<1> QED BY <1>1, <1>2 DEF IInv

\* CwReturn preserves the invariant.
LEMMA CwReturnStep ==
  ASSUME IInv, NEW t \in Threads, CwReturn(t) PROVE IInv'
<1>1. WaitersCounted'
  BY CountKept DEF IInv, CwReturn, Consume
<1>2. Core'
  BY <1>1, SMTT(60) DEF IInv, CwReturn, Consume
<1> QED BY <1>1, <1>2 DEF IInv

\* CondvarWake preserves the invariant.
LEMMA CondvarWakeStep ==
  ASSUME IInv, NEW t \in Threads, CondvarWake(t) PROVE IInv'
<1>1. WaitersCounted' /\ waiters' \in Nat
  <2>1. CASE UNCHANGED <<cv, permit>>
    BY <2>1, CountKept DEF IInv
  <2>2. CASE \E S \in SUBSET CvRegistered : Wake(S)
    BY <2>2, CountWake DEF IInv
  <2>3. \A u \in CvRegistered : {u} \in SUBSET CvRegistered
    OBVIOUS
  <2> QED BY <2>1, <2>2, <2>3 DEF CondvarWake
<1>2. Core'
  <2>1. CASE UNCHANGED <<cv, permit>>
    BY <2>1, SMTT(60) DEF IInv, CondvarWake
  <2>2. ASSUME NEW S \in SUBSET CvRegistered, Wake(S) PROVE Core'
    <3> USE DEF IInv, CondvarWake, Wake, CvRegistered
    <3>1. TypeOK'
      BY <1>1, <2>2
    <3>2. \A u \in S : u # t /\ u \in permit' /\ wait_kind'[u] = 0
      BY <2>2
    <3>3. \A u \in Threads \ S : wait_kind'[u] = wait_kind[u] /\ (u \in permit <=> u \in permit')
      BY <2>2
    <3>4. WaitKinds' /\ Where' /\ Ownership'
      BY <2>2, <3>2, <3>3
    <3>5. Tokens'
      BY <2>2, <3>2, <3>3
    <3>6. NoLostLockWakeup'
      BY <2>2, <3>2, <3>3
    <3> QED BY <3>1, <3>4, <3>5, <3>6
  <2>3. \A u \in CvRegistered : {u} \in SUBSET CvRegistered
    OBVIOUS
  <2> QED BY <2>1, <2>2, <2>3 DEF CondvarWake
<1> QED BY <1>1, <1>2 DEF IInv

\* AcquireFast preserves the invariant.
LEMMA AcquireFastStep ==
  ASSUME IInv, NEW t \in Threads, AcquireFast(t) PROVE IInv'
<1>1. WaitersCounted'
  BY CountKept DEF IInv, AcquireFast, Take
<1>2. Core'
  BY <1>1, SMTT(60) DEF IInv, AcquireFast, Take
<1> QED BY <1>1, <1>2 DEF IInv

\* AcquireAgain preserves the invariant.
LEMMA AcquireAgainStep ==
  ASSUME IInv, NEW t \in Threads, AcquireAgain(t) PROVE IInv'
<1>1. WaitersCounted'
  BY CountKept DEF IInv, AcquireAgain
<1>2. Core'
  BY <1>1, SMTT(60) DEF IInv, AcquireAgain
<1> QED BY <1>1, <1>2 DEF IInv

\* AcquireHeld preserves the invariant.
LEMMA AcquireHeldStep ==
  ASSUME IInv, NEW t \in Threads, AcquireHeld(t) PROVE IInv'
<1>1. WaitersCounted'
  BY CountKept DEF IInv, AcquireHeld
<1>2. Core'
  BY <1>1, SMTT(60) DEF IInv, AcquireHeld
<1> QED BY <1>1, <1>2 DEF IInv

\* LeaveBody preserves the invariant.
LEMMA LeaveBodyStep ==
  ASSUME IInv, NEW t \in Threads, LeaveBody(t) PROVE IInv'
<1>1. WaitersCounted'
  BY CountKept DEF IInv, LeaveBody
<1>2. Core'
  BY <1>1, SMTT(60) DEF IInv, LeaveBody
<1> QED BY <1>1, <1>2 DEF IInv

\* ConditionWait preserves the invariant.
LEMMA ConditionWaitStep ==
  ASSUME IInv, NEW t \in Threads, ConditionWait(t) PROVE IInv'
<1>1. WaitersCounted'
  <2>1. PICK k \in {1, 2} : wait_kind' = [wait_kind EXCEPT ![t] = k]
    BY DEF ConditionWait
  <2>2. wait_kind[t] \notin {1, 2} /\ waiters' = waiters + 1
    BY DEF IInv, ConditionWait
  <2> QED BY <2>1, <2>2, CountEnter DEF IInv
<1>2. Core'
  BY <1>1, SMTT(60) DEF IInv, ConditionWait
<1> QED BY <1>1, <1>2 DEF IInv

\* ConditionNotify preserves the invariant.
LEMMA ConditionNotifyStep ==
  ASSUME IInv, NEW t \in Threads, ConditionNotify(t) PROVE IInv'
<1>1. WaitersCounted'
  BY CountKept DEF IInv, ConditionNotify
<1>2. Core'
  BY <1>1, SMTT(60) DEF IInv, ConditionNotify
<1> QED BY <1>1, <1>2 DEF IInv

\* DestroySelf preserves the invariant.
LEMMA DestroySelfStep ==
  ASSUME IInv, NEW t \in Threads, DestroySelf(t) PROVE IInv'
<1>1. WaitersCounted'
  BY CountKept DEF IInv, DestroySelf
<1>2. Core'
  BY <1>1, SMTT(60) DEF IInv, DestroySelf
<1> QED BY <1>1, <1>2 DEF IInv

\* InterruptThread preserves the invariant.
LEMMA InterruptThreadStep ==
  ASSUME IInv, NEW s \in Threads, NEW t \in Threads, InterruptThread(s, t) PROVE IInv'
<1>1. WaitersCounted'
  BY CountKept DEF IInv, InterruptThread, WakeInterruptedWaiter
<1>2. Core'
  BY <1>1, SMTT(60) DEF IInv, InterruptThread, WakeInterruptedWaiter
<1> QED BY <1>1, <1>2 DEF IInv

\* DestroyThread preserves the invariant.
LEMMA DestroyThreadStep ==
  ASSUME IInv, NEW s \in Threads, NEW t \in Threads, DestroyThread(s, t) PROVE IInv'
<1>1. WaitersCounted'
  BY CountKept DEF IInv, DestroyThread, WakeInterruptedWaiter
<1>2. Core'
  BY <1>1, SMTT(60) DEF IInv, DestroyThread, WakeInterruptedWaiter
<1> QED BY <1>1, <1>2 DEF IInv

\* Every step preserves the invariant.
LEMMA NextIInv == IInv /\ [Next]_vars => IInv'
<1> SUFFICES ASSUME IInv, [Next]_vars PROVE IInv'
  OBVIOUS
<1>1. CASE UNCHANGED vars
  <2>1. WaitersCounted'
    BY <1>1, CountKept DEF IInv, vars
  <2>2. Core'
    BY <1>1 DEF IInv, vars
  <2> QED BY <2>1, <2>2 DEF IInv
<1>2. ASSUME NEW t \in Threads, Internal(t) PROVE IInv'
  BY <1>2, SafepointStep, UnwindStep, SpinTakeStep, SpinInterruptedStep,
     SpinEndsStep, SlowTakeStep, SlowRegisterStep, SlowMarkStep,
     SlowRetryStep, SlowCheckStep, SlowParkStep, SlowWokenStep,
     SlowGiveUpStep, AbandonStep, AbandonWakeStep, SlowHandleStep,
     ReleaseLockStep, ReleaseScanStep, CwCheckStep, CwReleaseStep,
     CwScanStep, CwParkStep, CwResolveStep, ReacquireStep, CwReturnStep,
     CondvarWakeStep
     DEF Internal
<1>3. ASSUME NEW t \in Threads, Lisp(t) PROVE IInv'
  BY <1>3, AcquireFastStep, AcquireAgainStep, AcquireHeldStep, LeaveBodyStep,
     ConditionWaitStep, ConditionNotifyStep, DestroySelfStep,
     InterruptThreadStep, DestroyThreadStep DEF Lisp
<1> QED BY <1>1, <1>2, <1>3 DEF Next

-----------------------------------------------------------------------------
(* The invariants.                                                         *)

\* The inductive invariant holds in every reachable state.
THEOREM Invariance == Spec => []IInv
  BY InitIInv, NextIInv, PTL DEF Spec

\* The state is well typed: no count or depth runs out of its range, and a
\* destroy is never left behind without its pending flag.
THEOREM TypeCorrect == Spec => []TypeOK
<1>1. IInv => TypeOK
  BY DEF IInv
<1> QED BY <1>1, Invariance, PTL

\* The body and the cleanup form of with-lock-held run with the lock owned, at
\* the right depth, whatever waits, timeouts and interrupts happened in them.
THEOREM MutualExclusionCorrect == Spec => []MutualExclusion
<1>1. IInv => MutualExclusion
  BY DEF IInv, MutualExclusion
<1> QED BY <1>1, Invariance, PTL

\* The mutex loses no wakeup.
THEOREM NoLostLockWakeupCorrect == Spec => []NoLostLockWakeup
<1>1. IInv => NoLostLockWakeup
  BY DEF IInv
<1> QED BY <1>1, Invariance, PTL

\* Nobody parks past a notify or an interrupt.
THEOREM NoLostTokenCorrect == Spec => []NoLostToken
<1>1. IInv => NoLostToken
  BY DEF IInv, NoLostToken
<1> QED BY <1>1, Invariance, PTL

\* The waiter count that condition-notify reads without a lock is exact.
THEOREM WaitersCountedCorrect == Spec => []WaitersCounted
<1>1. IInv => WaitersCounted
  BY DEF IInv
<1> QED BY <1>1, Invariance, PTL

-----------------------------------------------------------------------------
(* The refinement of Monitor.                                              *)

\* What thread u has left behind in a condition-wait.
Left(u) == IF GaveUp(u) THEN saved_depth[u] ELSE 0

\* A step that moves nobody in or out of a given-up lock keeps kept.
LEMMA KeptSame == ASSUME \A u \in Threads : Left(u)' = Left(u) PROVE kept' = kept
  BY DEF kept, Left

\* A step that changes what t left behind and nothing else.
LEMMA KeptChanges ==
  ASSUME NEW t \in Threads, NEW n, Left(t)' = n, \A u \in Threads \ {t} : Left(u)' = Left(u)
  PROVE  kept' = [kept EXCEPT ![t] = n]
  BY DEF kept, Left

\* Taking the lock is the Acquire of Monitor, or the Return of a wait.
LEMMA TakeRefines ==
  ASSUME IInv, NEW t \in Threads, NEW b, Take(t, b),
         pc[t] \in {"run", "spin", "slow", "reacquire"}
  PROVE  M!Next
<1> USE DEF IInv, Take
<1>1. \A u \in Threads \ {t} : Left(u)' = Left(u)
  BY DEF Left
<1>2. CASE DeliverInterrupts(t)
  <2>1. Left(t) = 0 /\ Left(t)' = 0
    BY <1>2 DEF Left
  <2>2. kept' = kept /\ kept[t] = 0
    BY <1>1, <2>1, KeptSame DEF kept, Left
  <2>3. M!Acquire(t)
    BY <1>2, <2>2 DEF M!Acquire
  <2> QED BY <2>3 DEF M!Next
<1>3. CASE ~DeliverInterrupts(t)
  <2>1. Left(t) = saved_depth[t] /\ saved_depth[t] > 0 /\ Left(t)' = 0
    BY <1>3 DEF Left
  <2>2. kept' = [kept EXCEPT ![t] = 0]
    BY <1>1, <2>1, KeptChanges
  <2>3. kept[t] = saved_depth[t]
    BY <2>1 DEF kept, Left
  <2>4. M!Return(t)
    BY <1>3, <2>1, <2>2, <2>3 DEF M!Return
  <2> QED BY <2>4 DEF M!Next
<1> QED BY <1>2, <1>3

\* Steps that leave the lock and the given-up levels alone.
Quiet == owner' = owner /\ depth' = depth /\ \A u \in Threads : Left(u)' = Left(u)

\* Every step but these four kinds is quiet.
LEMMA QuietStep ==
  ASSUME IInv, NEW t \in Threads, Internal(t) \/ Lisp(t)
  PROVE  \/ Quiet
         \/ \E b \in {0, 1} : Take(t, b) /\ pc[t] \in {"run", "spin", "slow", "reacquire"}
         \/ AcquireAgain(t) \/ ReleaseLock(t) \/ CwRelease(t)
<1> USE DEF IInv, Quiet, Left
<1>1. CASE Internal(t)
  <2>1. CASE Safepoint(t) \/ Unwind(t) \/ SpinInterrupted(t) \/ SlowHandle(t)
    BY <2>1 DEF Safepoint, Unwind, SpinInterrupted, SlowHandle, Consume
  <2>2. CASE SpinTake(t) \/ SlowTake(t) \/ Reacquire(t)
    BY <2>2 DEF SpinTake, SlowTake, Reacquire
  <2>3. CASE SpinEnds(t) \/ SlowRegister(t) \/ SlowMark(t) \/ SlowCheck(t)
    BY <2>3 DEF SpinEnds, SlowRegister, SlowMark, SlowCheck
  <2>4. CASE SlowRetry(t) \/ SlowWoken(t) \/ SlowGiveUp(t) \/ SlowPark(t)
    BY <2>4 DEF SlowRetry, SlowWoken, SlowGiveUp, SlowPark, Deregister, Park
  <2>5. CASE Abandon(t) \/ AbandonWake(t) \/ ReleaseScan(t)
    BY <2>5 DEF Abandon, AbandonWake, AbandonReturn, ReleaseScan
  <2>6. CASE CwCheck(t) \/ CwScan(t) \/ CwPark(t) \/ CwResolve(t) \/ CwReturn(t)
    BY <2>6 DEF CwCheck, CwScan, CwPark, CwResolve, CwReturn, Park, Consume
  <2>7. CASE CondvarWake(t)
    BY <2>7 DEF CondvarWake
  <2> QED BY <1>1, <2>1, <2>2, <2>3, <2>4, <2>5, <2>6, <2>7 DEF Internal
<1>2. CASE Lisp(t)
  <2>1. CASE AcquireFast(t)
    BY <2>1 DEF AcquireFast
  <2>2. CASE AcquireHeld(t) \/ LeaveBody(t) \/ ConditionNotify(t) \/ DestroySelf(t)
    BY <2>2 DEF AcquireHeld, LeaveBody, ConditionNotify, DestroySelf
  <2>3. CASE ConditionWait(t)
    BY <2>3 DEF ConditionWait
  <2>4. ASSUME NEW u \in Threads, InterruptThread(t, u) \/ DestroyThread(t, u) PROVE Quiet
    BY <2>4 DEF InterruptThread, DestroyThread
  <2> QED BY <1>2, <2>1, <2>2, <2>3, <2>4 DEF Lisp
<1> QED BY <1>1, <1>2

\* The locks and condition variables implement Monitor, for any number of
\* threads and any nesting.
THEOREM Refinement == Spec => MonitorSpec
<1>1. Init => M!Init
  BY DEF Init, M!Init, kept
<1>2. ASSUME IInv, [Next]_vars PROVE [M!Next]_<<owner, depth, kept>>
  <2> USE <1>2
  <2>1. CASE UNCHANGED vars
    BY <2>1 DEF vars, kept
  <2>2. ASSUME NEW t \in Threads, Internal(t) \/ Lisp(t)
        PROVE  [M!Next]_<<owner, depth, kept>>
    <3>1. CASE Quiet
      BY <3>1, KeptSame DEF Quiet
    <3>2. ASSUME NEW b \in {0, 1}, Take(t, b), pc[t] \in {"run", "spin", "slow", "reacquire"}
          PROVE  M!Next
      BY <3>2, TakeRefines
    <3>3. CASE AcquireAgain(t)
      <4>1. \A u \in Threads : Left(u)' = Left(u)
        BY <3>3 DEF AcquireAgain, Left
      <4>2. M!Reenter(t)
        BY <3>3, <4>1, KeptSame DEF AcquireAgain, M!Reenter
      <4> QED BY <4>2 DEF M!Next
    <3>4. CASE ReleaseLock(t)
      <4>1. \A u \in Threads : Left(u)' = Left(u)
        BY <3>4 DEF IInv, ReleaseLock, ReleaseCore, Left
      <4>2. owner = t /\ depth \in Nat /\ depth > 0
        BY <3>4 DEF IInv, ReleaseLock
      <4>3. M!Release(t)
        BY <3>4, <4>1, <4>2, KeptSame DEF ReleaseLock, ReleaseCore, M!Release
      <4> QED BY <4>3 DEF M!Next
    <3>5. CASE CwRelease(t)
      <4> USE DEF IInv, CwRelease, ReleaseCore
      <4>1. \A u \in Threads \ {t} : Left(u)' = Left(u)
        BY <3>5 DEF Left
      <4>2. owner = t /\ saved_depth[t] = depth /\ Left(t) = 0 /\ Left(t)' = depth
        BY <3>5 DEF Left
      <4>3. kept' = [kept EXCEPT ![t] = depth] /\ kept[t] = 0
        BY <4>1, <4>2, KeptChanges DEF kept, Left
      <4>4. M!Wait(t)
        BY <3>5, <4>2, <4>3 DEF M!Wait
      <4> QED BY <4>4 DEF M!Next
    <3> QED BY <2>2, <3>1, <3>2, <3>3, <3>4, <3>5, QuietStep
  <2> QED BY <2>1, <2>2 DEF Next
<1> QED BY <1>1, <1>2, Invariance, PTL DEF Spec, MonitorSpec, M!Spec
=============================================================================
