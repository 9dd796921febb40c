------------------------------ MODULE MPLocks ------------------------------
(***************************************************************************)
(* MP locks, condition variables and thread interruption                   *)
(* (src/core/builtins_thread.c), on the per-thread park token              *)
(* (src/platform/platform_thread_posix.c) and the interrupt hand-over of   *)
(* cl_thread_handle_interrupt (src/core/thread.c): one recursive lock, one *)
(* condition variable, and threads that run with-lock-held bodies          *)
(* (lib/boot.lisp).  A plain lock is the instance MaxDepth = 1, whose      *)
(* second acquire is refused with an error and no effect.                  *)
(*                                                                         *)
(* One step is one atomic access to the lock word, one critical section of *)
(* cl_thread_list_lock, or one unlocked test that another thread can make  *)
(* stale.  An elapsed timeout is a choice: the deadline may have passed    *)
(* whenever a timed wait looks at the clock.                               *)
(***************************************************************************)
EXTENDS Naturals, FiniteSets

CONSTANTS
  Threads,
  NoThread,   \* owner of a free lock
  Impatient,  \* threads that may give their waits a timeout
  Publishers, \* threads that may interrupt or destroy threads
  MaxDepth    \* bound: nesting of with-lock-held

ASSUME LockAssumption == /\ NoThread \notin Threads
                         /\ IsFiniteSet(Threads)
                         /\ Impatient \subseteq Threads /\ Publishers \subseteq Threads
                         /\ MaxDepth \in Nat \ {0}

VARIABLES
  pc,
  owner, contended, depth,   \* CL_Lock: the owner and the low bit of its
                             \* state word, and the recursion depth
  waiters,                   \* CL_CondVar.waiters
  wait_kind,                 \* 0 no wait, 1/2 (timed) condition-wait, 3 lock
  permit,                    \* threads whose park token is deposited
  interrupt_pending, destroy_requested,   \* threads with the flag set; a
                             \* pending one without a destroy has a function
  timed,                     \* threads whose current wait has a timeout
  saved_depth,               \* condition-wait's local, 0 outside it
  armed,                     \* with-lock-held UNWIND-PROTECTs not yet left
  dying                      \* threads unwinding from cl_abort_current_thread

lock == <<owner, contended, depth>>
cv == <<waiters, wait_kind>>
flags == <<interrupt_pending, destroy_requested, dying>>
locals == <<timed, saved_depth>>
vars == <<pc, lock, cv, permit, flags, locals, armed>>

-----------------------------------------------------------------------------
(* Labels.                                                                 *)

\* Registered as a lock waiter (wait_kind 3).
Listed == {"mark", "dereg_retry", "check", "dereg_int", "dereg_late", "parked", "woken"}

\* In the parking part of lock_acquire_slow.
SlowPath == Listed \cup {"slow", "abandon_int", "abandon_late", "wake_int", "wake_late",
                         "handle"}

\* In bi_condition_wait with the lock still held, and with it given up.
CwHeld == {"cw_check", "cw_int", "cw_release", "cw_post"}
CwGone == {"cw_scan", "cw_park", "cw_resolve", "reacquire"}

Labels == {"run", "cleanup", "unwind", "dead", "scan", "notify", "broadcast", "spin"}
            \cup SlowPath \cup CwHeld \cup CwGone

\* deliver_interrupts of lock_acquire_slow: not for condition-wait's re-acquire.
DeliverInterrupts(t) == saved_depth[t] = 0

TypeOK ==
  /\ pc \in [Threads -> Labels]
  /\ owner \in Threads \cup {NoThread} /\ contended \in {0, 1} /\ depth \in 0..MaxDepth
  /\ waiters \in Nat /\ wait_kind \in [Threads -> 0..3]
  /\ permit \subseteq Threads /\ timed \subseteq Threads
  /\ interrupt_pending \subseteq Threads
  /\ destroy_requested \subseteq interrupt_pending
  /\ dying \subseteq Threads
  /\ saved_depth \in [Threads -> 0..MaxDepth]
  /\ armed \in [Threads -> 0..MaxDepth]

Init ==
  /\ pc = [t \in Threads |-> "run"]
  /\ owner = NoThread /\ contended = 0 /\ depth = 0
  /\ waiters = 0 /\ wait_kind = [t \in Threads |-> 0]
  /\ permit = {} /\ interrupt_pending = {} /\ destroy_requested = {} /\ dying = {}
  /\ timed = {} /\ saved_depth = [t \in Threads |-> 0] /\ armed = [t \in Threads |-> 0]

Goto(t, l) == pc' = [pc EXCEPT ![t] = l]

\* Lisp code goes on after a builtin: the unwinding if there is one.
Resumed(t) == IF t \in dying THEN "unwind" ELSE "run"

-----------------------------------------------------------------------------
(* The park token and the scans of the thread list.                        *)

\* platform_unpark deposits the token, whether or not the thread is parked.
Unpark(S) == permit' = permit \cup S

\* lock_wake_one: unpark the first listed waiter there is.
LockWakeOne ==
  LET Waiting == {u \in Threads : wait_kind[u] = 3}
  IN IF Waiting = {} THEN UNCHANGED permit ELSE \E u \in Waiting : Unpark({u})

\* wait_deregister of a lock waiter, and where it goes on.
Deregister(t, l) ==
  /\ wait_kind' = [wait_kind EXCEPT ![t] = 0]
  /\ Goto(t, l)
  /\ UNCHANGED <<lock, waiters, permit, flags, locals, armed>>

\* platform_park: consume a token, or give up at the timeout.  A timed wait
\* whose deadline has passed does not look at the token at all.
Park(t, l) ==
  /\ \/ t \in permit /\ permit' = permit \ {t}
     \/ t \in timed /\ UNCHANGED permit
  /\ Goto(t, l)
  /\ UNCHANGED <<lock, cv, flags, locals, armed>>

-----------------------------------------------------------------------------
(* Interruption.                                                           *)

\* Mutant: the destroy flag survives its consumption.
ConsumeKeepsDestroy(t, l) ==
  /\ interrupt_pending' = interrupt_pending \ {t}
  /\ UNCHANGED destroy_requested
  /\ dying' = IF t \in destroy_requested THEN dying \cup {t} ELSE dying
  /\ Goto(t, IF t \in destroy_requested THEN "unwind" ELSE l)

\* The critical section of cl_thread_handle_interrupt and what it leads to: a
\* destroy unwinds the thread, an interrupt function runs and the thread goes
\* on at l.  Either ends any condition-wait.
Consume(t, l) ==
  /\ interrupt_pending' = interrupt_pending \ {t}
  /\ destroy_requested' = destroy_requested \ {t}
  /\ dying' = IF t \in destroy_requested THEN dying \cup {t} ELSE dying
  /\ Goto(t, IF t \in destroy_requested THEN "unwind" ELSE l)

\* VM_SAFEPOINT in Lisp code, and at the call of release-lock in the cleanup
\* form of with-lock-held, whose UNWIND-PROTECT has been popped by then.
Safepoint(t) ==
  /\ pc[t] \in {"run", "cleanup"} /\ t \in interrupt_pending
  /\ Consume(t, pc[t])
  /\ UNCHANGED <<lock, cv, permit, locals, armed>>

\* Mutant: only condition waits are woken.
WakeInterruptedCwOnly(t) ==
  IF wait_kind[t] \in {1, 2} THEN Unpark({t}) ELSE UNCHANGED permit

\* wake_interrupted_waiter
WakeInterruptedWaiter(t) == IF wait_kind[t] # 0 THEN Unpark({t}) ELSE UNCHANGED permit

\* MP:INTERRUPT-THREAD on a thread that has not finished.
InterruptThread(s, t) ==
  /\ s \in Publishers /\ pc[s] = "run" /\ s # t /\ pc[t] # "dead"
  /\ interrupt_pending' = interrupt_pending \cup {t}
  /\ WakeInterruptedWaiter(t)
  /\ UNCHANGED <<pc, lock, cv, destroy_requested, dying, locals, armed>>

\* MP:DESTROY-THREAD, and cl_thread_stop_workers for each worker.
DestroyThread(s, t) ==
  /\ s \in Publishers /\ pc[s] = "run" /\ s # t /\ pc[t] # "dead"
  /\ destroy_requested' = destroy_requested \cup {t}
  /\ interrupt_pending' = interrupt_pending \cup {t}
  /\ WakeInterruptedWaiter(t)
  /\ UNCHANGED <<pc, lock, cv, dying, locals, armed>>

\* MP:DESTROY-THREAD of the calling thread aborts it at once.
DestroySelf(t) ==
  /\ t \in Publishers /\ pc[t] = "run"
  /\ dying' = dying \cup {t} /\ Goto(t, "unwind")
  /\ UNCHANGED <<lock, cv, permit, interrupt_pending, destroy_requested, locals, armed>>

\* The unwinding runs the next armed cleanup form, and ends the thread when
\* none is left.
Unwind(t) ==
  /\ pc[t] = "unwind"
  /\ IF armed[t] > 0
     THEN armed' = [armed EXCEPT ![t] = @ - 1] /\ Goto(t, "cleanup")
     ELSE UNCHANGED armed /\ Goto(t, "dead")
  /\ UNCHANGED <<lock, cv, permit, flags, locals>>

-----------------------------------------------------------------------------
(* MP:ACQUIRE-LOCK.                                                        *)

\* Mutant: condition-wait comes back at depth 1.
TakeForgetsDepth(t, b) ==
  /\ owner = NoThread
  /\ owner' = t /\ contended' = b /\ depth' = 1
  /\ timed' = timed \ {t}
  /\ IF DeliverInterrupts(t)
     THEN armed' = [armed EXCEPT ![t] = @ + 1] /\ Goto(t, "run")
     ELSE UNCHANGED armed /\ Goto(t, "cw_post")
  /\ UNCHANGED <<cv, permit, flags, saved_depth>>

\* The state word goes from 0 to owner t with bit b, and what the caller does
\* next: acquire-lock sets depth 1 and returns into the protected body (there
\* is no safepoint before OP_UWPROT), condition-wait restores its depth.
Take(t, b) ==
  /\ owner = NoThread
  /\ owner' = t /\ contended' = b
  /\ timed' = timed \ {t}
  /\ IF DeliverInterrupts(t)
     THEN /\ depth' = 1 /\ armed' = [armed EXCEPT ![t] = @ + 1]
          /\ Goto(t, "run")
     ELSE /\ depth' = saved_depth[t] /\ UNCHANGED armed
          /\ Goto(t, "cw_post")
  /\ UNCHANGED <<cv, permit, flags, saved_depth>>

AcquireFast(t) == pc[t] = "run" /\ Take(t, 0)

AcquireAgain(t) ==
  /\ pc[t] = "run" /\ owner = t /\ depth < MaxDepth
  /\ depth' = depth + 1 /\ armed' = [armed EXCEPT ![t] = @ + 1]
  /\ UNCHANGED <<pc, owner, contended, cv, permit, flags, locals>>

\* wait-p NIL or a zero timeout returns NIL here, which changes nothing.
AcquireHeld(t) ==
  /\ pc[t] = "run" /\ owner \notin {t, NoThread}
  /\ \E T \in SUBSET ({t} \cap Impatient) : timed' = timed \cup T
  /\ Goto(t, "spin")
  /\ UNCHANGED <<lock, cv, permit, flags, saved_depth, armed>>

\* lock_acquire_slow, spin phase: not a listed waiter, takes the lock plain.
SpinTake(t) == pc[t] = "spin" /\ Take(t, 0)

SpinInterrupted(t) ==
  /\ pc[t] = "spin" /\ owner # NoThread /\ DeliverInterrupts(t) /\ t \in interrupt_pending
  /\ Consume(t, "spin")
  /\ timed' = IF t \in destroy_requested THEN timed \ {t} ELSE timed
  /\ UNCHANGED <<lock, cv, permit, saved_depth, armed>>

SpinEnds(t) ==
  /\ pc[t] = "spin" /\ owner # NoThread
  /\ Goto(t, "slow")
  /\ UNCHANGED <<lock, cv, permit, flags, locals, armed>>

\* Loop top past the spin phase: a free lock is taken CONTENDED, because other
\* waiters may be parked whose bit the release consumed.
SlowTake(t) == pc[t] = "slow" /\ Take(t, 1)

\* Register first ...
SlowRegister(t) ==
  /\ pc[t] = "slow" /\ owner # NoThread
  /\ wait_kind' = [wait_kind EXCEPT ![t] = 3]
  /\ Goto(t, "mark")
  /\ UNCHANGED <<lock, waiters, permit, flags, locals, armed>>

\* Mutant: the word is only looked at after registering.
SlowMarkRecheck(t) ==
  /\ pc[t] = "mark"
  /\ Goto(t, IF owner = NoThread THEN "dereg_retry" ELSE "check")
  /\ UNCHANGED <<lock, cv, permit, flags, locals, armed>>

\* ... then put CONTENDED on the word of whoever holds the lock now.
SlowMark(t) ==
  /\ pc[t] = "mark"
  /\ IF owner = NoThread
     THEN UNCHANGED contended /\ Goto(t, "dereg_retry")
     ELSE contended' = 1 /\ Goto(t, "check")
  /\ UNCHANGED <<owner, depth, cv, permit, flags, locals, armed>>

SlowRetry(t) == pc[t] = "dereg_retry" /\ Deregister(t, "slow")

\* Mutant: no look at the interrupt flag before parking.
SlowCheckClockOnly(t) ==
  /\ pc[t] = "check"
  /\ \E l \in {"parked"} \cup (IF t \in timed THEN {"dereg_late"} ELSE {}) : Goto(t, l)
  /\ UNCHANGED <<lock, cv, permit, flags, locals, armed>>

\* The checks before parking: a pending interrupt, then the deadline.
SlowCheck(t) ==
  /\ pc[t] = "check"
  /\ IF DeliverInterrupts(t) /\ t \in interrupt_pending
     THEN Goto(t, "dereg_int")
     ELSE \E l \in {"parked"} \cup (IF t \in timed THEN {"dereg_late"} ELSE {}) : Goto(t, l)
  /\ UNCHANGED <<lock, cv, permit, flags, locals, armed>>

SlowPark(t) == pc[t] = "parked" /\ Park(t, "woken")

\* After the park: deregister, and look for an interrupt once more.
SlowWoken(t) ==
  /\ pc[t] = "woken"
  /\ Deregister(t, IF DeliverInterrupts(t) /\ t \in interrupt_pending
                   THEN "abandon_int" ELSE "slow")

SlowGiveUp(t) ==
  \/ pc[t] = "dereg_int" /\ Deregister(t, "abandon_int")
  \/ pc[t] = "dereg_late" /\ Deregister(t, "abandon_late")

\* Where lock_abandon_wait returns to: the interrupt's handler, or
\* acquire-lock's NIL.
AbandonReturn(t) ==
  IF pc[t] \in {"abandon_int", "wake_int"}
  THEN Goto(t, "handle") /\ UNCHANGED timed
  ELSE Goto(t, "run") /\ timed' = timed \ {t}

\* lock_abandon_wait: a free lock needs another waiter woken, a plain one needs
\* the bit again.
Abandon(t) ==
  /\ pc[t] \in {"abandon_int", "abandon_late"}
  /\ IF owner = NoThread
     THEN /\ Goto(t, IF pc[t] = "abandon_int" THEN "wake_int" ELSE "wake_late")
          /\ UNCHANGED <<contended, timed>>
     ELSE contended' = 1 /\ AbandonReturn(t)
  /\ UNCHANGED <<owner, depth, cv, permit, flags, saved_depth, armed>>

AbandonWake(t) ==
  /\ pc[t] \in {"wake_int", "wake_late"}
  /\ LockWakeOne /\ AbandonReturn(t)
  /\ UNCHANGED <<lock, cv, flags, saved_depth, armed>>

\* The interrupt that ended the wait: a destroy unwinds, a function runs and
\* the acquire starts over past its spin phase.
SlowHandle(t) ==
  /\ pc[t] = "handle"
  /\ Consume(t, "slow")
  /\ timed' = IF t \in destroy_requested THEN timed \ {t} ELSE timed
  /\ UNCHANGED <<lock, cv, permit, saved_depth, armed>>

-----------------------------------------------------------------------------
(* MP:RELEASE-LOCK, called by the cleanup form of with-lock-held.          *)

\* lock_release_core: one CAS frees a plain word; a contended one is stored
\* free and the list scanned next.
ReleaseCore(t, plain, scan) ==
  /\ owner' = NoThread /\ contended' = 0 /\ depth' = 0
  /\ Goto(t, IF contended = 0 THEN plain ELSE scan)

\* The body ends normally: OP_UWPOP, then the cleanup form.
LeaveBody(t) ==
  /\ pc[t] = "run" /\ armed[t] > 0
  /\ armed' = [armed EXCEPT ![t] = @ - 1]
  /\ Goto(t, "cleanup")
  /\ UNCHANGED <<lock, cv, permit, flags, locals>>

\* Mutant: one release gives up every level.
ReleaseLockFully(t) ==
  /\ pc[t] = "cleanup" /\ owner = t
  /\ ReleaseCore(t, Resumed(t), "scan")
  /\ UNCHANGED <<cv, permit, flags, locals, armed>>

ReleaseLock(t) ==
  /\ pc[t] = "cleanup" /\ owner = t
  /\ IF depth > 1
     THEN depth' = depth - 1 /\ UNCHANGED <<owner, contended>> /\ Goto(t, Resumed(t))
     ELSE ReleaseCore(t, Resumed(t), "scan")
  /\ UNCHANGED <<cv, permit, flags, locals, armed>>

ReleaseScan(t) ==
  /\ pc[t] = "scan"
  /\ LockWakeOne /\ Goto(t, Resumed(t))
  /\ UNCHANGED <<lock, cv, flags, locals, armed>>

-----------------------------------------------------------------------------
(* MP:CONDITION-WAIT.                                                      *)

ConditionWait(t) ==
  /\ pc[t] = "run" /\ owner = t
  /\ saved_depth' = [saved_depth EXCEPT ![t] = depth]
  /\ \E k \in {1} \cup (IF t \in Impatient THEN {2} ELSE {}) :
                       /\ wait_kind' = [wait_kind EXCEPT ![t] = k]
                       /\ timed' = IF k = 2 THEN timed \cup {t} ELSE timed
  /\ waiters' = waiters + 1
  /\ Goto(t, "cw_check")
  /\ UNCHANGED <<lock, permit, flags, armed>>

\* Mutant: a wait a notifier has ended is counted off again.
CwLeaveTwice(t) ==
  /\ wait_kind' = [wait_kind EXCEPT ![t] = 0]
  /\ waiters' = waiters - 1

\* Leave the condition variable, unless a notifier has already seen to it.
CwLeave(t) ==
  /\ wait_kind' = [wait_kind EXCEPT ![t] = 0]
  /\ waiters' = IF wait_kind[t] # 0 THEN waiters - 1 ELSE waiters

\* Pre-park check, with the lock still held.
CwCheck(t) ==
  /\ pc[t] = "cw_check"
  /\ IF t \in interrupt_pending
     THEN CwLeave(t) /\ Goto(t, "cw_int")
     ELSE UNCHANGED cv /\ Goto(t, "cw_release")
  /\ UNCHANGED <<lock, permit, flags, locals, armed>>

\* Release the lock at any depth.
CwRelease(t) ==
  /\ pc[t] = "cw_release"
  /\ ReleaseCore(t, "cw_park", "cw_scan")
  /\ UNCHANGED <<cv, permit, flags, locals, armed>>

CwScan(t) ==
  /\ pc[t] = "cw_scan"
  /\ LockWakeOne /\ Goto(t, "cw_park")
  /\ UNCHANGED <<lock, cv, flags, locals, armed>>

CwPark(t) == pc[t] = "cw_park" /\ Park(t, "cw_resolve")

\* Decide the wake under the notifier's lock.
CwResolve(t) ==
  /\ pc[t] = "cw_resolve"
  /\ \/ /\ wait_kind[t] = 0 \/ t \in interrupt_pending \/ t \in timed
        /\ CwLeave(t)
        /\ timed' = timed \ {t}
        /\ Goto(t, "reacquire")
     \/ /\ wait_kind[t] # 0 /\ t \notin interrupt_pending
        /\ Goto(t, "cw_park")
        /\ UNCHANGED <<cv, timed>>
  /\ UNCHANGED <<lock, permit, flags, saved_depth, armed>>

\* Take the lock back: one CAS, else lock_acquire_slow without deliveries.
Reacquire(t) ==
  /\ pc[t] = "reacquire"
  /\ \/ Take(t, 0)
     \/ /\ owner # NoThread /\ Goto(t, "spin")
        /\ UNCHANGED <<lock, cv, permit, flags, locals, armed>>

\* Deliver an interrupt that ended the wait (or none), with the lock held.
CwReturn(t) ==
  /\ pc[t] \in {"cw_int", "cw_post"}
  /\ IF t \in interrupt_pending
     THEN Consume(t, "run")
     ELSE Goto(t, "run") /\ UNCHANGED flags
  /\ saved_depth' = [saved_depth EXCEPT ![t] = 0]
  /\ timed' = timed \ {t}
  /\ UNCHANGED <<lock, cv, permit, armed>>

-----------------------------------------------------------------------------
(* MP:CONDITION-NOTIFY and MP:CONDITION-BROADCAST (condvar_wake).          *)

\* The unlocked test of the waiter count; 0 returns at once.
ConditionNotify(t) ==
  /\ pc[t] = "run" /\ waiters # 0
  /\ \E l \in {"notify", "broadcast"} : Goto(t, l)
  /\ UNCHANGED <<lock, cv, permit, flags, locals, armed>>

CvRegistered == {u \in Threads : wait_kind[u] \in {1, 2}}

\* Take the threads of S off the condition variable and unpark them.
Wake(S) ==
  /\ wait_kind' = [u \in Threads |-> IF u \in S THEN 0 ELSE wait_kind[u]]
  /\ waiters' = waiters - Cardinality(S)
  /\ Unpark(S)

CondvarWake(t) ==
  /\ \/ /\ pc[t] = "notify"
        /\ IF CvRegistered = {} THEN UNCHANGED <<cv, permit>>
                                ELSE \E u \in CvRegistered : Wake({u})
     \/ pc[t] = "broadcast" /\ Wake(CvRegistered)
  /\ Goto(t, "run")
  /\ UNCHANGED <<lock, flags, locals, armed>>

-----------------------------------------------------------------------------

\* Steps a thread that has entered the runtime takes without being asked.
Internal(t) ==
  \/ Safepoint(t) \/ Unwind(t)
  \/ SpinTake(t) \/ SpinInterrupted(t) \/ SpinEnds(t)
  \/ SlowTake(t) \/ SlowRegister(t) \/ SlowMark(t) \/ SlowRetry(t) \/ SlowCheck(t)
  \/ SlowPark(t) \/ SlowWoken(t) \/ SlowGiveUp(t) \/ Abandon(t) \/ AbandonWake(t)
  \/ SlowHandle(t)
  \/ ReleaseLock(t) \/ ReleaseScan(t)
  \/ CwCheck(t) \/ CwRelease(t) \/ CwScan(t) \/ CwPark(t) \/ CwResolve(t)
  \/ Reacquire(t) \/ CwReturn(t)
  \/ CondvarWake(t)

\* What Lisp code chooses to do.
Lisp(t) ==
  \/ AcquireFast(t) \/ AcquireAgain(t) \/ AcquireHeld(t) \/ LeaveBody(t)
  \/ ConditionWait(t) \/ ConditionNotify(t) \/ DestroySelf(t)
  \/ \E u \in Threads : InterruptThread(t, u) \/ DestroyThread(t, u)

Next == \E t \in Threads : Internal(t) \/ Lisp(t)

Spec == Init /\ [][Next]_vars

\* The scheduler runs every thread that is inside the runtime.
FairSpec == Spec /\ \A t \in Threads : WF_vars(Internal(t))
-----------------------------------------------------------------------------
(* Properties.                                                             *)

\* t has given the lock up in a condition-wait and not got it back.
GaveUp(t) == saved_depth[t] > 0 /\ pc[t] \notin CwHeld

\* How many with-lock-held forms of t are between their acquire and the end of
\* their cleanup form.
Nesting(t) == armed[t] + (IF pc[t] = "cleanup" THEN 1 ELSE 0)

\* A thread in the body of with-lock-held, or in its cleanup form, owns the
\* lock: also when it is interrupted or destroyed there, and after any
\* condition-wait in it, which restores the recursion depth
\* (bi_acquire_lock, bi_condition_wait, bi_release_lock).
MutualExclusion ==
  \A t \in Threads :
    Nesting(t) > 0 /\ ~GaveUp(t) => owner = t /\ (t \notin dying => depth = Nesting(t))

\* A release or a waiter that will still see to the parked waiters: a scan of
\* the list to come, or an awake waiter of the slow path that has yet to take
\* the lock CONTENDED, to mark it, or to abandon its wait.
Responsible(u) ==
  \/ pc[u] \in {"scan", "cw_scan", "wake_int", "wake_late"}
  \/ pc[u] \in {"slow", "mark", "dereg_retry", "dereg_int", "dereg_late", "woken",
                "abandon_int", "abandon_late"}
  \/ pc[u] \in {"check", "parked"} /\ u \in permit

\* No lost wakeup: whenever a thread is parked for the lock (or about to park)
\* without a token, the lock is held by somebody whose release will scan, or
\* some other thread is responsible for it.  This is what the order of
\* registering and marking, the CONTENDED take and lock_abandon_wait are for.
NoLostLockWakeup ==
  (\E t \in Threads : pc[t] \in {"check", "parked"} /\ t \notin permit)
    => \/ owner # NoThread /\ contended = 1
       \/ \E u \in Threads : Responsible(u)

\* Nobody parks past a notify or an interrupt: a thread parked in a
\* condition-wait that a notifier has picked, or parked with an interrupt
\* pending that its wait may deliver, has a token (condvar_wake, wake_interrupted_waiter, the
\* pre-park checks).
NoLostToken ==
  \A t \in Threads :
    /\ pc[t] = "cw_park" /\ (wait_kind[t] = 0 \/ t \in interrupt_pending) => t \in permit
    /\ pc[t] = "parked" /\ t \in interrupt_pending /\ DeliverInterrupts(t) => t \in permit

\* CL_CondVar.waiters, which condition-notify reads without the list lock to
\* skip an idle condition variable, counts exactly the threads a scan would
\* find: a wait ended by a notify, a timeout or an interrupt is taken off once.
WaitersCounted == waiters = Cardinality(CvRegistered)

\* The levels each thread left behind in a condition-wait.
kept == [t \in Threads |-> IF GaveUp(t) THEN saved_depth[t] ELSE 0]

\* MPLocks implements Monitor: one holder, and condition-wait gives up and
\* gets back every level at once.
M == INSTANCE Monitor WITH holder <- owner, level <- depth
MonitorSpec == M!Spec

\* A free lock with a thread in the parking part of its acquire does not stay
\* free: somebody takes it, or that thread gives up (timeout, destroy).
FreeLockTaken ==
  \A t \in Threads :
    (owner = NoThread /\ pc[t] \in SlowPath) ~> (owner # NoThread \/ pc[t] \notin SlowPath)

\* An interrupt or destroy published to a parked thread is delivered, or, in a
\* condition-wait, at least ends the wait: the thread goes for its lock, where
\* interrupts are deferred until it has it.
InterruptReachesWaiter ==
  \A t \in Threads :
    (t \in interrupt_pending /\ pc[t] \in {"parked", "cw_park"} /\ (pc[t] = "parked" => DeliverInterrupts(t)))
      ~> (t \notin interrupt_pending \/ pc[t] = "reacquire")
-----------------------------------------------------------------------------
(* The inductive invariant.                                                *)

\* A wait is registered exactly where the code says so.
WaitKinds ==
  \A t \in Threads :
    /\ wait_kind[t] = 3 <=> pc[t] \in Listed
    /\ wait_kind[t] \in {1, 2} => pc[t] \in {"cw_check", "cw_release"} \cup (CwGone \ {"reacquire"})

\* What each thread's locals and unwinding say about where it is.
Where ==
  \A t \in Threads :
    /\ saved_depth[t] > 0 =>
         /\ t \notin dying /\ armed[t] = saved_depth[t]
         /\ pc[t] \in CwHeld \cup CwGone \cup
                      {"spin", "slow", "mark", "dereg_retry", "check", "parked", "woken"}
         /\ pc[t] \notin CwHeld \cup (CwGone \ {"reacquire"}) => t \notin timed
    /\ pc[t] \in CwHeld \cup CwGone => saved_depth[t] > 0
    /\ t \in dying => pc[t] \in {"cleanup", "unwind", "scan", "dead"}
    /\ pc[t] = "unwind" => t \in dying
    /\ pc[t] = "dead" => armed[t] = 0

\* Who holds the lock, and how deep; a leaked lock is deeper than its nesting.
Ownership ==
  /\ IF owner = NoThread THEN depth = 0 /\ contended = 0 ELSE depth > 0
  /\ \A t \in Threads :
       /\ Nesting(t) > 0 /\ ~GaveUp(t) => owner = t
       /\ owner = t => /\ ~GaveUp(t) /\ depth >= Nesting(t)
                       /\ t \notin dying => depth = Nesting(t)
                       /\ pc[t] \in CwHeld \cup {"run", "cleanup", "unwind", "dead", "notify",
                                                 "broadcast"}

\* Tokens, from the registration of a wait on.
Tokens ==
  \A t \in Threads :
    /\ pc[t] = "cw_check" /\ wait_kind[t] = 0 => t \in permit
    /\ /\ pc[t] \in {"cw_release", "cw_scan", "cw_park"}
       /\ wait_kind[t] = 0 \/ t \in interrupt_pending
       => t \in permit
    /\ pc[t] = "parked" /\ t \in interrupt_pending /\ DeliverInterrupts(t) => t \in permit

Core == TypeOK /\ WaitKinds /\ Where /\ Ownership /\ Tokens /\ NoLostLockWakeup

IInv == Core /\ WaitersCounted
=============================================================================
