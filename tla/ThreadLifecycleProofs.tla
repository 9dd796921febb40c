------------------------ MODULE ThreadLifecycleProofs ------------------------
(***************************************************************************)
(* The safety of ThreadLifecycle for every number of workers, callers and  *)
(* slots: the inductive invariant IInv and the invariants it implies.  One *)
(* lemma per action shows that the action preserves IInv.                  *)
(***************************************************************************)
EXTENDS ThreadLifecycle, TLAPS

USE LifecycleAssumption

\* The groups of variables and labels, and the helpers all actions share.
USE DEF table, memory, struct, wrapper, live, Making, Joining, BeforeSlot, Goto, Done, Free

\* The parts of the inductive invariant.
USE DEF IInv, TypeOK, Occupied, Generations, InSlot, InNoSlot, Makers, Progress, Joiners,
        OneOwner

\* The initial state satisfies the invariant.
LEMMA InitIInv == Init => IInv
  BY SMTT(60) DEF Init

\* The invariant survives cl_thread_alloc_worker_sized.
LEMMA MakeThreadIInv ==
  ASSUME IInv, NEW c \in Callers, NEW w \in Workers, MakeThread(c, w) PROVE IInv'
  BY SMTT(60) DEF MakeThread

\* The invariant survives a table allocation.
LEMMA TableAllocIInv ==
  ASSUME IInv, NEW c \in Callers, TableAlloc(c) PROVE IInv'
  BY SMTT(60) DEF TableAlloc, Claim

\* The invariant survives the "thread table full" error.
LEMMA MakeFailsIInv ==
  ASSUME IInv, NEW c \in Callers, MakeFails(c) PROVE IInv'
  BY SMTT(60) DEF MakeFails

\* The invariant survives the registration of the newborn.
LEMMA MakeRegisterIInv ==
  ASSUME IInv, NEW c \in Callers, MakeRegister(c) PROVE IInv'
  BY SMTT(60) DEF MakeRegister

\* The invariant survives the allocation of the wrapper.
LEMMA MakeWrapperIInv ==
  ASSUME IInv, NEW c \in Callers, MakeWrapper(c) PROVE IInv'
<1>1. CASE wrapped' = wrapped
  BY <1>1, SMTT(60) DEF MakeWrapper
<1>2. CASE wrapped' # wrapped
  <2> DEFINE w == subject[c]
  <2>1. /\ w \in live /\ InSlot(w) /\ w \notin thread_obj
        /\ table_gen' = [table_gen EXCEPT ![w] = cl_thread_table_gen[thread_id[w]]]
        /\ wrapped' = wrapped \cup {w} /\ thread_obj' = thread_obj \cup {w}
        /\ pc' = [pc EXCEPT ![c] = "create"]
    BY <1>2 DEF MakeWrapper
  <2>2. TypeOK'
    BY <2>1 DEF MakeWrapper
  <2>3. Generations'
    BY <2>1 DEF MakeWrapper
  <2>4. Makers'
    BY <2>1 DEF MakeWrapper
  <2> QED BY <2>1, <2>2, <2>3, <2>4, SMTT(60) DEF MakeWrapper
<1> QED BY <1>1, <1>2

\* The invariant survives the creation of the OS thread.
LEMMA MakeCreateIInv ==
  ASSUME IInv, NEW c \in Callers, MakeCreate(c) PROVE IInv'
  BY SMTT(60) DEF MakeCreate

\* The invariant survives the store of the handle.
LEMMA MakeReturnIInv ==
  ASSUME IInv, NEW c \in Callers, MakeReturn(c) PROVE IInv'
  BY SMTT(60) DEF MakeReturn

\* The invariant survives a failed platform_thread_create.
LEMMA MakeUndoIInv ==
  ASSUME IInv, NEW c \in Callers, MakeUndo(c) PROVE IInv'
  BY SMTT(60) DEF MakeUndo

\* The invariant survives the reaper.
LEMMA ReapIInv ==
  ASSUME IInv, NEW c \in Callers, Reap(c) PROVE IInv'
  BY SMTT(60) DEF Reap, Zombies

\* The invariant survives each step of the exit of a worker.
LEMMA WorkerStepIInv ==
  ASSUME IInv, NEW w \in Workers, WorkerStep(w) PROVE IInv'
<1>1. CASE os[w] = "run"
  BY <1>1, SMTT(60) DEF WorkerStep, AfterExit
<1>2. CASE os[w] = "publish"
  BY <1>2, SMTT(60) DEF WorkerStep, AfterExit
<1>3. CASE os[w] = "unregister"
  <2>1. /\ os' = [os EXCEPT ![w] = "park"] /\ cl_thread_list' = cl_thread_list \ {w}
        /\ w \in thread_obj \cap result /\ InSlot(w)
        /\ UNCHANGED <<pc, subject, table, memory, struct, wrapper>>
    BY <1>3 DEF WorkerStep, AfterExit
  <2>2. \A c \in Callers : pc[c] \in Making /\ subject[c] = w => pc[c] = "store_handle"
    BY <1>3
  <2>3. Makers'
    BY <1>3, <2>1, <2>2
  <2>4. Progress'
    BY <1>3, <2>1
  <2>5. Joiners'
    BY <1>3, <2>1
  <2> QED BY <2>1, <2>3, <2>4, <2>5
<1>4. CASE os[w] = "park"
  BY <1>4, SMTT(60) DEF WorkerStep, AfterExit
<1>5. CASE os[w] = "status"
  BY <1>5, SMTT(60) DEF WorkerStep, AfterExit
<1> QED BY <1>1, <1>2, <1>3, <1>4, <1>5 DEF WorkerStep

\* The invariant survives all-threads.
LEMMA AllThreadsIInv ==
  ASSUME IInv, NEW s \in Slots, AllThreads(s) PROVE IInv'
  BY SMTT(60) DEF AllThreads

\* The invariant survives a dropped reference.
LEMMA DropIInv ==
  ASSUME IInv, NEW w \in Workers, Drop(w) PROVE IInv'
  BY SMTT(60) DEF Drop

\* The invariant survives the claim of a join.
LEMMA JoinThreadIInv ==
  ASSUME IInv, NEW c \in Callers, NEW w \in Workers, JoinThread(c, w) PROVE IInv'
  BY SMTT(60) DEF JoinThread, Current

\* The invariant survives the OS-level join.
LEMMA OsJoinIInv ==
  ASSUME IInv, NEW c \in Callers, OsJoin(c) PROVE IInv'
  BY SMTT(60) DEF OsJoin

\* The invariant survives the release of the slot.
LEMMA JoinSlotIInv ==
  ASSUME IInv, NEW c \in Callers, JoinSlot(c) PROVE IInv'
  BY SMTT(60) DEF JoinSlot

\* The invariant survives the free of the joined worker.
LEMMA JoinFreeIInv ==
  ASSUME IInv, NEW c \in Callers, JoinFree(c) PROVE IInv'
  BY SMTT(60) DEF JoinFree

\* The invariant survives the stamp.
LEMMA JoinStampIInv ==
  ASSUME IInv, NEW c \in Callers, JoinStamp(c) PROVE IInv'
  BY SMTT(60) DEF JoinStamp

\* The invariant survives a later joiner.
LEMMA LateJoinIInv ==
  ASSUME IInv, NEW c \in Callers, LateJoin(c) PROVE IInv'
  BY SMTT(60) DEF LateJoin

\* The invariant survives a collection that finalizes unreachable wrappers.
LEMMA CollectIInv ==
  ASSUME IInv, NEW D \in SUBSET Unreachable, Collect(D), UNCHANGED <<pc, subject>> PROVE IInv'
  BY SMTT(60) DEF Unreachable, Finalized, Current, Collect

\* The invariant survives a collection that make-thread runs to free a slot.
LEMMA MakeGcIInv ==
  ASSUME IInv, NEW c \in Callers, MakeGc(c), NEW D \in SUBSET Unreachable, Collect(D)
  PROVE  IInv'
  BY SMTT(60) DEF MakeGc, Unreachable, Finalized, Current, Collect

\* Every step preserves the invariant.
LEMMA NextIInv == IInv /\ [Next]_vars => IInv'
<1> SUFFICES ASSUME IInv, [Next]_vars PROVE IInv'
  OBVIOUS
<1> HIDE DEF IInv
<1>1. CASE UNCHANGED vars
  BY <1>1 DEF vars, IInv
<1>2. CASE \E c \in Callers : Call(c)
  <2> PICK c \in Callers : Call(c)
    BY <1>2
  <2>1. CASE MakeGc(c)
    <3>1. PICK D \in SUBSET Unreachable : Collect(D)
      BY <2>1 DEF MakeGc
    <3> QED BY <2>1, <3>1, MakeGcIInv
  <2> QED BY <2>1, TableAllocIInv, ReapIInv, MakeFailsIInv, MakeRegisterIInv, MakeWrapperIInv,
             MakeCreateIInv, MakeReturnIInv, MakeUndoIInv, OsJoinIInv, JoinSlotIInv,
             JoinFreeIInv, JoinStampIInv, LateJoinIInv DEF Call
<1>3. CASE \E c \in Callers : Gc(c)
  BY <1>3, CollectIInv DEF Gc
<1>4. CASE \E c \in Callers, w \in Workers : MakeThread(c, w) \/ JoinThread(c, w)
  BY <1>4, MakeThreadIInv, JoinThreadIInv
<1>5. CASE \E w \in Workers : WorkerStep(w) \/ Drop(w)
  BY <1>5, WorkerStepIInv, DropIInv
<1>6. CASE \E s \in Slots : AllThreads(s)
  BY <1>6, AllThreadsIInv
<1> QED BY <1>1, <1>2, <1>3, <1>4, <1>5, <1>6 DEF Next

\* The inductive invariant holds in every reachable state.
THEOREM Invariance == Spec => []IInv
<1> HIDE DEF IInv
<1> QED BY InitIInv, NextIInv, PTL DEF Spec

-----------------------------------------------------------------------------

\* The variables keep their types.
THEOREM TypeCorrect == Spec => []TypeOK
<1>1. IInv => TypeOK
  OBVIOUS
<1> HIDE DEF IInv, TypeOK
<1> QED BY <1>1, Invariance, PTL

\* However many threads make, join, drop, reap and collect workers, the table, the
\* registry, the running workers and the joins lead to no freed structure, and none
\* is freed twice.
THEOREM MemorySafeCorrect == Spec => []MemorySafe
<1>1. IInv => MemorySafe
  BY DEF MemorySafe
<1> HIDE DEF IInv
<1> QED BY <1>1, Invariance, PTL

\* A wrapper never leads to another worker that has come to occupy its slot.
THEOREM SlotIdentityCorrect == Spec => []SlotIdentity
<1>1. IInv => SlotIdentity
  BY DEF SlotIdentity, Current
<1> HIDE DEF IInv
<1> QED BY <1>1, Invariance, PTL

\* The result is in the wrapper before it can be lost, and when a join returns it.
THEOREM ResultSurvivesCorrect == Spec => []ResultSurvives
<1>1. IInv => ResultSurvives
  BY DEF ResultSurvives
<1> HIDE DEF IInv
<1> QED BY <1>1, Invariance, PTL

\* A worker has one joiner at a time that owns it.
THEOREM OneOwnerCorrect == Spec => []OneOwner
<1>1. IInv => OneOwner
  OBVIOUS
<1> HIDE DEF IInv, OneOwner
<1> QED BY <1>1, Invariance, PTL
=============================================================================
