---------------------------- MODULE StopTheWorld ----------------------------
(***************************************************************************)
(* Stop-the-world coordination between the collector and the Lisp threads  *)
(* (src/core/thread.c): the thread registry, safepoints, safe regions, the *)
(* newborn barrier, GC-cooperative mutexes and the initiator protocol,     *)
(* composed with the two users of it that create the hard interleavings:   *)
(* the allocation-triggered collection (cl_gc_if_stale, gc_classic.c) and  *)
(* MP:MAKE-THREAD / thread exit (builtins_thread.c).                       *)
(*                                                                         *)
(* One step of a thread is one critical section of gc_mutex or of          *)
(* cl_thread_list_lock, or one unlocked test that another thread can make  *)
(* stale.  The registry is a set: the order of the list matters only to    *)
(* how far a scan gets before it meets a straggler, and StwScan lets it    *)
(* get anywhere.                                                           *)
(***************************************************************************)
EXTENDS Naturals, FiniteSets

CONSTANTS
  Threads,    \* CL_Thread structures (a worker's structure is reused)
  Main,       \* cl_main_thread, registered at start and never unregistered
  Hosts,      \* threads of an embedding host (the C tests), which register
              \* themselves; the others are workers of MP:MAKE-THREAD
  IoUsers,    \* the threads that lock the shared stream
  NoThread,   \* "nobody": a free mutex, no subject
  MaxDepth,   \* bound: nesting of safe regions
  MaxGC       \* bound: heap.gc_count at which no thread starts a collection

ASSUME ThreadsAssumption == /\ Main \in Threads /\ NoThread \notin Threads
                            /\ Hosts \subseteq Threads \ {Main} /\ IoUsers \subseteq Threads
ASSUME BoundsAssumption == MaxDepth \in Nat \ {0} /\ MaxGC \in Nat

VARIABLES
  pc,                \* where each thread is (see the groups of labels below)
  sp_ret, gc_ret,    \* where it goes on after a safepoint, after a collection
                     \* ("run" again once it is there)
  subject,           \* the CL_Thread it is registering / unregistering
  cl_thread_list,    \* the registry
  gc_requested, gc_stopped, gc_live, in_safe_region,  \* CL_Thread flags: the
                     \* threads that have each one set
  safe_region_depth, \* owner-only nesting count
  want_io,           \* threads whose safe region is for a blocking io lock
  gc_mutex, list_lock, io_lock,   \* holders
  gc_condvar,        \* threads asleep on gc_condvar
  stw_in_progress,
  gc_count,          \* cl_heap.gc_count: collections run
  seen               \* the gc_count a thread saw when it found the heap full
                     \* (0 outside a collection)

flags == <<gc_requested, gc_stopped, gc_live, in_safe_region>>
depths == <<safe_region_depth, want_io>>
locks == <<gc_mutex, list_lock, io_lock>>
epoch == <<gc_count, seen>>
vars == <<pc, sp_ret, gc_ret, subject, cl_thread_list, flags, depths, locks, gc_condvar,
          stw_in_progress, epoch>>

-----------------------------------------------------------------------------
(* Labels.                                                                 *)

\* No OS thread of its own that could touch the heap: no structure in use, or
\* a newborn that has not passed cl_gc_thread_online, or a live
\* self-registration that has not finished, or an exit past the unlinking.
OffHeap == {"none", "newborn", "online", "online_wait", "reg_self",
            "link_self", "reg_wait", "wake"}

\* Asleep on gc_condvar on behalf of somebody else's collection.
Parked == {"online_wait", "reg_wait", "sp_wait", "safe_wait"}

\* Inside a safe region: between the outermost enter and its leave.
SafeRegion == {"safe", "safe_leave", "safe_wait"}

\* The initiator, from winning the trylock to cl_gc_resume_the_world.
Initiating == {"stw_request", "stw_scan", "stw_wait", "world_stopped", "gc",
               "resume"}

\* Labels at which gc_mutex is held by the thread.
HoldsGcMutex == (Initiating \ {"stw_wait"}) \cup {"link", "link_self"}

\* Everywhere else the thread owns Lisp references in C locals or may follow
\* one: a collection must not run beside it.
OnHeap == {"run", "safepoint", "stw_try", "stw_poll", "gc_single",
           "reg", "link", "mk_alloc", "mk_body", "mk_create", "unreg",
           "unlink", "wake_child", "safe_enter"} \cup Initiating

Labels == OffHeap \cup Parked \cup SafeRegion \cup OnHeap

TypeOK ==
  /\ pc \in [Threads -> Labels]
  /\ sp_ret \in [Threads -> {"run", "stw_try", "mk_body"}]
  /\ gc_ret \in [Threads -> {"run", "mk_body"}]
  /\ subject \in [Threads -> Threads \cup {NoThread}]
  /\ cl_thread_list \subseteq Threads
  /\ gc_requested \subseteq Threads
  /\ gc_stopped \subseteq Threads
  /\ gc_live \subseteq Threads
  /\ in_safe_region \subseteq Threads
  /\ safe_region_depth \in [Threads -> 0..MaxDepth]
  /\ want_io \subseteq Threads
  /\ gc_mutex \in Threads \cup {NoThread}
  /\ list_lock \in Threads \cup {NoThread}
  /\ io_lock \in Threads \cup {NoThread}
  /\ gc_condvar \subseteq Threads
  /\ stw_in_progress \in BOOLEAN
  /\ gc_count \in Nat
  /\ seen \in [Threads -> Nat]

\* cl_thread_init: the main thread registers itself, live, before anything runs.
Init ==
  /\ pc = [t \in Threads |-> IF t = Main THEN "run" ELSE "none"]
  /\ sp_ret = [t \in Threads |-> "run"]
  /\ gc_ret = [t \in Threads |-> "run"]
  /\ subject = [t \in Threads |-> NoThread]
  /\ cl_thread_list = {Main}
  /\ gc_requested = {}
  /\ gc_stopped = {}
  /\ gc_live = {Main}
  /\ in_safe_region = {}
  /\ safe_region_depth = [t \in Threads |-> 0]
  /\ want_io = {}
  /\ gc_mutex = NoThread /\ list_lock = NoThread /\ io_lock = NoThread
  /\ gc_condvar = {}
  /\ stw_in_progress = FALSE
  /\ gc_count = 0
  /\ seen = [t \in Threads |-> 0]

-----------------------------------------------------------------------------
(* Helpers.                                                                *)

CL_MT == \E t, u \in cl_thread_list : t # u

Goto(t, label) == pc' = [pc EXCEPT ![t] = label]

\* A step that needs gc_mutex takes it, works and releases it at once.
GcMutexFree == gc_mutex = NoThread

\* platform_condvar_broadcast, and broadcast-then-wait.
Broadcast == gc_condvar' = {}
BroadcastAndSleep(t) == gc_condvar' = {t}

\* The body of the "park while requested" loops of cl_gc_leave_safe_region,
\* cl_gc_thread_online and cl_thread_register_ex: each iteration sets
\* gc_stopped and broadcasts before it waits (the loop of cl_gc_safepoint does
\* so once, before the loop).  The test has been made by the caller.
ParkIteration(t, label) ==
  /\ Goto(t, label)
  /\ gc_stopped' = gc_stopped \cup {t}
  /\ BroadcastAndSleep(t)

\* A platform_condvar_wait that has been woken returns with gc_mutex.
Awake(t) == t \notin gc_condvar /\ GcMutexFree

-----------------------------------------------------------------------------
(* cl_gc_safepoint                                                         *)

\* CL_SAFEPOINT: the unlocked test a mutator makes at calls, backward jumps
\* and allocations.
PollSafepoint(t) ==
  /\ pc[t] = "run" /\ t \in gc_requested
  /\ Goto(t, "safepoint")
  /\ sp_ret' = [sp_ret EXCEPT ![t] = "run"]
  /\ UNCHANGED <<gc_ret, subject, cl_thread_list, flags, depths, locks, gc_condvar,
                 stw_in_progress, epoch>>

\* Mutant of SafepointReturn: gc_stopped is not reset.
SafepointReturnStale(t) ==
  /\ Goto(t, sp_ret[t]) /\ sp_ret' = [sp_ret EXCEPT ![t] = "run"]
  /\ UNCHANGED gc_stopped

SafepointReturn(t) ==
  /\ Goto(t, sp_ret[t]) /\ sp_ret' = [sp_ret EXCEPT ![t] = "run"]
  /\ gc_stopped' = gc_stopped \ {t}

\* Under gc_mutex; the request may be gone by now, and then it does not wait.
Safepoint(t) ==
  /\ pc[t] = "safepoint" /\ GcMutexFree
  /\ IF t \in gc_requested
     THEN ParkIteration(t, "sp_wait") /\ UNCHANGED sp_ret
     ELSE SafepointReturn(t) /\ Broadcast
  /\ UNCHANGED <<gc_ret, subject, cl_thread_list, gc_requested, gc_live,
                 in_safe_region, depths, locks, stw_in_progress, epoch>>

SafepointWake(t) ==
  /\ pc[t] = "sp_wait" /\ Awake(t)
  /\ IF t \in gc_requested
     THEN gc_condvar' = gc_condvar \cup {t} /\ UNCHANGED <<pc, sp_ret, gc_stopped>>
     ELSE SafepointReturn(t) /\ UNCHANGED gc_condvar
  /\ UNCHANGED <<gc_ret, subject, cl_thread_list, gc_requested, gc_live,
                 in_safe_region, depths, locks, stw_in_progress, epoch>>

-----------------------------------------------------------------------------
(* Safe regions and GC-cooperative mutexes                                 *)

\* cl_gc_enter_safe_region, up to its gc_mutex.
EnterOuter(t) ==
  /\ Goto(t, "safe_enter")
  /\ safe_region_depth' = [safe_region_depth EXCEPT ![t] = @ + 1]

EnterSafeRegion(t) ==
  /\ pc[t] = "run"
  /\ EnterOuter(t)
  /\ UNCHANGED <<sp_ret, gc_ret, subject, cl_thread_list, flags, want_io, locks, gc_condvar,
                 stw_in_progress, epoch>>

\* Mutant of SetInSafeRegion: no broadcast.
SetInSafeRegionQuietly(t) ==
  in_safe_region' = in_safe_region \cup {t} /\ UNCHANGED gc_condvar

SetInSafeRegion(t) ==
  in_safe_region' = in_safe_region \cup {t} /\ Broadcast

EnterSafeRegionLocked(t) ==
  /\ pc[t] = "safe_enter" /\ GcMutexFree
  /\ Goto(t, "safe")
  /\ SetInSafeRegion(t)
  /\ UNCHANGED <<sp_ret, gc_ret, subject, cl_thread_list, gc_requested, gc_stopped, gc_live,
                 depths, locks, stw_in_progress, epoch>>

\* A nested pair only counts.
EnterNested(t) ==
  /\ pc[t] = "safe" /\ t \notin want_io /\ safe_region_depth[t] < MaxDepth
  /\ safe_region_depth' = [safe_region_depth EXCEPT ![t] = @ + 1]
  /\ UNCHANGED <<pc, sp_ret, gc_ret, subject, cl_thread_list, flags, want_io, locks,
                 gc_condvar, stw_in_progress, epoch>>

\* Mutant of Leave: the test after the countdown is off by one.
LeaveOffByOne(t) ==
  /\ safe_region_depth' = [safe_region_depth EXCEPT ![t] = @ - 1]
  /\ IF safe_region_depth[t] > 0 THEN UNCHANGED pc ELSE Goto(t, "safe_leave")

\* cl_gc_leave_safe_region before gc_mutex: the outermost leave has already
\* counted down to 0 when it asks for the mutex.
Leave(t) ==
  /\ safe_region_depth' = [safe_region_depth EXCEPT ![t] = @ - 1]
  /\ IF safe_region_depth[t] > 1 THEN UNCHANGED pc ELSE Goto(t, "safe_leave")

LeaveSafeRegion(t) ==
  /\ pc[t] = "safe" /\ t \notin want_io
  /\ Leave(t)
  /\ UNCHANGED <<sp_ret, gc_ret, subject, cl_thread_list, flags, want_io, locks, gc_condvar,
                 stw_in_progress, epoch>>

\* Mutant of LeaveRegion: in_safe_region is not reset.
LeaveRegionStale(t) == Goto(t, "run") /\ UNCHANGED in_safe_region

LeaveRegion(t) ==
  /\ Goto(t, "run")
  /\ in_safe_region' = in_safe_region \ {t}

\* Under gc_mutex: park while a collection wants this thread.
LeaveSafeRegionLocked(t) ==
  /\ \/ pc[t] = "safe_leave" /\ GcMutexFree
     \/ pc[t] = "safe_wait" /\ Awake(t)
  /\ IF t \in gc_requested
     THEN ParkIteration(t, "safe_wait") /\ UNCHANGED in_safe_region
     ELSE /\ LeaveRegion(t)
          /\ gc_stopped' = gc_stopped \ {t}
          /\ UNCHANGED gc_condvar
  /\ UNCHANGED <<sp_ret, gc_ret, subject, cl_thread_list, gc_requested, gc_live, depths,
                 locks, stw_in_progress, epoch>>

\* cl_gc_safe_mutex_lock on a stream's io lock: trylock, else block inside a
\* safe region.  (With one thread registered it blocks outright; the lock is
\* then free, so that is the first disjunct.)
SafeMutexLock(t) ==
  /\ t \in IoUsers /\ pc[t] = "run" /\ io_lock # t
  /\ \/ /\ io_lock = NoThread
        /\ io_lock' = t
        /\ UNCHANGED <<pc, depths>>
     \/ /\ io_lock # NoThread /\ CL_MT
        /\ EnterOuter(t)
        /\ want_io' = want_io \cup {t}
        /\ UNCHANGED io_lock
  /\ UNCHANGED <<sp_ret, gc_ret, subject, cl_thread_list, flags, gc_mutex, list_lock,
                 gc_condvar, stw_in_progress, epoch>>

\* platform_mutex_lock inside the region, then cl_gc_leave_safe_region: the
\* lock is held while the thread parks on the way out.
SafeMutexBlocked(t) ==
  /\ pc[t] = "safe" /\ t \in want_io /\ io_lock = NoThread
  /\ io_lock' = t
  /\ Leave(t)
  /\ want_io' = want_io \ {t}
  /\ UNCHANGED <<sp_ret, gc_ret, subject, cl_thread_list, flags, gc_mutex, list_lock,
                 gc_condvar, stw_in_progress, epoch>>

IoUnlock(t) ==
  /\ pc[t] = "run" /\ io_lock = t
  /\ io_lock' = NoThread
  /\ UNCHANGED <<pc, sp_ret, gc_ret, subject, cl_thread_list, flags, depths, gc_mutex,
                 list_lock, gc_condvar, stw_in_progress, epoch>>

-----------------------------------------------------------------------------
(* The initiator                                                           *)

\* An allocation finds the heap full (from "run", or from MAKE-THREAD's wrapper
\* allocation, which it will retry) and calls cl_gc_if_stale with the epoch it
\* saw.  With one thread registered no world is stopped.
StartCollection(t) ==
  /\ pc[t] \in {"run", "mk_body"} /\ gc_count < MaxGC
  /\ seen' = [seen EXCEPT ![t] = gc_count]
  /\ gc_ret' = [gc_ret EXCEPT ![t] = pc[t]]
  /\ Goto(t, IF CL_MT THEN "stw_try" ELSE "gc_single")
  /\ UNCHANGED <<sp_ret, subject, cl_thread_list, flags, depths, locks, gc_condvar,
                 stw_in_progress, gc_count>>

\* Back in the allocation; the epoch was an argument and is gone.
GcReturn(t) ==
  /\ Goto(t, gc_ret[t]) /\ gc_ret' = [gc_ret EXCEPT ![t] = "run"]
  /\ seen' = [seen EXCEPT ![t] = 0]

GcSingle(t) ==
  /\ pc[t] = "gc_single"
  /\ gc_count' = gc_count + 1
  /\ GcReturn(t)
  /\ UNCHANGED <<sp_ret, subject, cl_thread_list, flags, depths, locks, gc_condvar,
                 stw_in_progress>>

\* Mutant of MayInitiate: winning the trylock is taken for initiator-ship.
MayInitiateTrylock(t) == TRUE

\* One turn of the trylock loop of cl_gc_stop_the_world.  The trylock may fail;
\* it may succeed while another initiator sleeps in its straggler wait.
MayInitiate(t) == ~stw_in_progress /\ t \notin gc_requested

StwTry(t) ==
  /\ pc[t] = "stw_try"
  /\ \/ /\ ~GcMutexFree
        /\ Goto(t, "stw_poll")
        /\ UNCHANGED <<gc_mutex, stw_in_progress, gc_requested>>
     \/ /\ GcMutexFree /\ MayInitiate(t)
        /\ Goto(t, "stw_request")
        /\ gc_mutex' = t
        /\ stw_in_progress' = TRUE
        /\ UNCHANGED gc_requested
     \/ /\ GcMutexFree /\ ~MayInitiate(t)
        /\ Goto(t, "stw_poll")
        /\ gc_requested' = gc_requested \cup {t}
        /\ UNCHANGED <<gc_mutex, stw_in_progress>>
  /\ UNCHANGED <<sp_ret, gc_ret, subject, cl_thread_list, gc_stopped, gc_live,
                 in_safe_region, depths, list_lock, io_lock, gc_condvar, epoch>>

\* The cl_gc_safepoint() at the end of a turn, then the next turn.
StwPoll(t) ==
  /\ pc[t] = "stw_poll"
  /\ Goto(t, IF t \in gc_requested THEN "safepoint" ELSE "stw_try")
  /\ sp_ret' = [sp_ret EXCEPT ![t] = IF t \in gc_requested THEN "stw_try" ELSE "run"]
  /\ UNCHANGED <<gc_ret, subject, cl_thread_list, flags, depths, locks,
                 gc_condvar, stw_in_progress, epoch>>

\* Request all other threads, under gc_mutex and the list lock.
StwRequest(t) ==
  /\ pc[t] = "stw_request" /\ list_lock = NoThread
  /\ gc_requested' = gc_requested \cup (cl_thread_list \ {t})
  /\ Goto(t, "stw_scan")
  /\ UNCHANGED <<sp_ret, gc_ret, subject, cl_thread_list, gc_stopped, gc_live,
                 in_safe_region, depths, locks, gc_condvar, stw_in_progress,
                 epoch>>

\* What the scan waits for once it has (re-)requested u.
Straggler(t, u) ==
  /\ u \in cl_thread_list \ {t}
  /\ u \in gc_live /\ u \notin gc_stopped /\ u \notin in_safe_region

\* One scan of the list: (re-)request the live threads it walks over and stop
\* at the first straggler; with none the world is stopped.  walked is the
\* part of the list before the straggler u.
StwScan(t) ==
  /\ pc[t] = "stw_scan" /\ list_lock = NoThread
  /\ \/ /\ \A u \in Threads : ~Straggler(t, u)
        /\ gc_requested' = gc_requested \cup ((cl_thread_list \ {t}) \cap gc_live)
        /\ Goto(t, "world_stopped")
        /\ UNCHANGED <<gc_mutex, gc_condvar>>
     \/ /\ \E u \in Threads, walked \in SUBSET cl_thread_list :
             /\ Straggler(t, u)
             /\ \A w \in walked : ~Straggler(t, w)
             /\ gc_requested' =
                  gc_requested \cup ((walked \ {t}) \cap gc_live) \cup {u}
        /\ Goto(t, "stw_wait")
        /\ gc_condvar' = gc_condvar \cup {t}     \* platform_condvar_wait
        /\ gc_mutex' = NoThread
  /\ UNCHANGED <<sp_ret, gc_ret, subject, cl_thread_list, gc_stopped, gc_live,
                 in_safe_region, depths, list_lock, io_lock, stw_in_progress,
                 epoch>>

StwWake(t) ==
  /\ pc[t] = "stw_wait" /\ Awake(t)
  /\ gc_mutex' = t
  /\ Goto(t, "stw_scan")
  /\ UNCHANGED <<sp_ret, gc_ret, subject, cl_thread_list, flags, depths,
                 list_lock, io_lock, gc_condvar, stw_in_progress, epoch>>

\* Mutant of StillStale: the comparison the wrong way round.
StillStaleInverted(t) == gc_count # seen[t]

\* cl_gc_if_stale after the stop: a peer may have collected since the heap was
\* found full, and then this collection is skipped.
StillStale(t) == gc_count = seen[t]

StaleCheck(t) ==
  /\ pc[t] = "world_stopped"
  /\ Goto(t, IF StillStale(t) THEN "gc" ELSE "resume")
  /\ UNCHANGED <<sp_ret, gc_ret, subject, cl_thread_list, flags, depths, locks,
                 gc_condvar, stw_in_progress, epoch>>

Collect(t) ==
  /\ pc[t] = "gc"
  /\ gc_count' = gc_count + 1
  /\ Goto(t, "resume")
  /\ UNCHANGED <<sp_ret, gc_ret, subject, cl_thread_list, flags, depths, locks,
                 gc_condvar, stw_in_progress, seen>>

\* Mutant of Released: newborns, which the wait loop skips, are skipped here too.
ReleasedLive == cl_thread_list \cap gc_live

\* The threads whose gc_requested cl_gc_resume_the_world clears.
Released == cl_thread_list

\* Mutant of ResumeBroadcast: the parked threads are not woken.
ResumeBroadcastLost == UNCHANGED gc_condvar

ResumeBroadcast == Broadcast

\* cl_gc_resume_the_world
Resume(t) ==
  /\ pc[t] = "resume" /\ list_lock = NoThread
  /\ gc_requested' = gc_requested \ Released
  /\ stw_in_progress' = FALSE
  /\ ResumeBroadcast
  /\ gc_mutex' = NoThread
  /\ GcReturn(t)
  /\ UNCHANGED <<sp_ret, subject, cl_thread_list, gc_stopped, gc_live,
                 in_safe_region, depths, list_lock, io_lock, gc_count>>

-----------------------------------------------------------------------------
(* Registration, start and exit of threads                                 *)

\* MP:MAKE-THREAD: a zeroed CL_Thread, to be registered as a newborn.
MakeThread(t) ==
  /\ pc[t] = "run"
  /\ \E c \in Threads \ Hosts :
       /\ pc[c] = "none"
       /\ pc' = [pc EXCEPT ![t] = "reg", ![c] = "newborn"]
       /\ subject' = [subject EXCEPT ![t] = c]
       /\ gc_requested' = gc_requested \ {c}
  /\ UNCHANGED <<sp_ret, gc_ret, cl_thread_list, gc_stopped, gc_live,
                 in_safe_region, depths, locks, gc_condvar, stw_in_progress,
                 epoch>>

\* An OS thread of the host (the tests' workers) registers itself, live.
SelfRegister(t) ==
  /\ t \in Hosts /\ pc[t] = "none"
  /\ Goto(t, "reg_self")
  /\ subject' = [subject EXCEPT ![t] = t]
  /\ gc_requested' = gc_requested \ {t}
  /\ UNCHANGED <<sp_ret, gc_ret, cl_thread_list, gc_stopped, gc_live,
                 in_safe_region, depths, locks, gc_condvar, stw_in_progress,
                 epoch>>

\* cl_thread_register_ex: gc_mutex, then the list lock.
Register(t) ==
  /\ pc[t] \in {"reg", "reg_self"} /\ GcMutexFree
  /\ gc_mutex' = t
  /\ Goto(t, IF pc[t] = "reg" THEN "link" ELSE "link_self")
  /\ UNCHANGED <<sp_ret, gc_ret, subject, cl_thread_list, flags, depths,
                 list_lock, io_lock, gc_condvar, stw_in_progress, epoch>>

\* A newborn is linked and left to its online barrier.
LinkNewborn(t) ==
  /\ pc[t] = "link" /\ list_lock = NoThread
  /\ cl_thread_list' = cl_thread_list \cup {subject[t]}
  /\ gc_live' = gc_live \ {subject[t]}
  /\ gc_mutex' = NoThread
  /\ Goto(t, "mk_alloc")
  /\ UNCHANGED <<sp_ret, gc_ret, subject, gc_requested, gc_stopped,
                 in_safe_region, depths, list_lock, io_lock, gc_condvar,
                 stw_in_progress, epoch>>

\* Mutant of RegisteredDuringStop: a registration ignores a stop in flight.
RegisteredBlindly == FALSE

RegisteredDuringStop == stw_in_progress

\* A live self-registration parks before it returns when a world is being
\* stopped.  Environment: the host does not register a thread beside a
\* single-threaded collection, which takes no lock at all.
LinkSelf(t) ==
  /\ pc[t] = "link_self" /\ list_lock = NoThread
  /\ \A u \in Threads : pc[u] # "gc_single"
  /\ cl_thread_list' = cl_thread_list \cup {t}
  /\ gc_live' = gc_live \cup {t}
  /\ gc_mutex' = NoThread
  /\ subject' = [subject EXCEPT ![t] = NoThread]
  /\ IF RegisteredDuringStop
     THEN /\ gc_requested' = gc_requested \cup {t}
          /\ ParkIteration(t, "reg_wait")
     ELSE Goto(t, "run") /\ UNCHANGED <<gc_requested, gc_stopped, gc_condvar>>
  /\ UNCHANGED <<sp_ret, gc_ret, in_safe_region, depths, list_lock, io_lock,
                 stw_in_progress, epoch>>

\* The wait loop of a live self-registration.
RegisterWake(t) ==
  /\ pc[t] = "reg_wait" /\ Awake(t)
  /\ IF t \in gc_requested
     THEN ParkIteration(t, "reg_wait")
     ELSE /\ Goto(t, "run")
          /\ gc_stopped' = gc_stopped \ {t}
          /\ UNCHANGED gc_condvar
  /\ UNCHANGED <<sp_ret, gc_ret, subject, cl_thread_list, gc_requested, gc_live,
                 in_safe_region, depths, locks, stw_in_progress, epoch>>

\* The wrapper's cl_alloc: one safepoint poll, then the allocation.
MakeThreadAlloc(t) ==
  /\ pc[t] = "mk_alloc"
  /\ Goto(t, IF t \in gc_requested THEN "safepoint" ELSE "mk_body")
  /\ sp_ret' = [sp_ret EXCEPT ![t] = IF t \in gc_requested THEN "mk_body" ELSE "run"]
  /\ UNCHANGED <<gc_ret, subject, cl_thread_list, flags, depths, locks,
                 gc_condvar, stw_in_progress, epoch>>

\* The allocation succeeds or, when no collection helps, signals a storage
\* error.  cl_alloc never returns NULL: the error longjmps past the clean-up
\* written after it, and the child stays registered, a newborn for ever.
MakeThreadBody(t) ==
  /\ pc[t] = "mk_body"
  /\ \/ Goto(t, "mk_create") /\ UNCHANGED subject
     \/ Goto(t, "run") /\ subject' = [subject EXCEPT ![t] = NoThread]
  /\ UNCHANGED <<sp_ret, gc_ret, cl_thread_list, flags, depths, locks,
                 gc_condvar, stw_in_progress, epoch>>

\* platform_thread_create: the child's OS thread starts, or it fails.
CreateOSThread(t) ==
  /\ pc[t] = "mk_create"
  /\ \/ /\ pc' = [pc EXCEPT ![t] = "run", ![subject[t]] = "online"]
        /\ subject' = [subject EXCEPT ![t] = NoThread]
     \/ Goto(t, "unreg") /\ UNCHANGED subject
  /\ UNCHANGED <<sp_ret, gc_ret, cl_thread_list, flags, depths, locks,
                 gc_condvar, stw_in_progress, epoch>>

\* cl_gc_thread_online.  An initiator asleep in its straggler wait has not
\* requested a thread that was a newborn: the thread requests itself.
MustPark(t) == t \in gc_requested \/ (pc[t] = "online" /\ stw_in_progress)

Online(t) ==
  /\ \/ pc[t] = "online" /\ GcMutexFree
     \/ pc[t] = "online_wait" /\ Awake(t)
  /\ IF MustPark(t)
     THEN /\ gc_requested' = gc_requested \cup {t}
          /\ ParkIteration(t, "online_wait")
          /\ UNCHANGED gc_live
     ELSE /\ Goto(t, "run")
          /\ gc_stopped' = gc_stopped \ {t}
          /\ gc_live' = gc_live \cup {t}
          /\ UNCHANGED <<gc_requested, gc_condvar>>
  /\ UNCHANGED <<sp_ret, gc_ret, subject, cl_thread_list, in_safe_region, depths,
                 locks, stw_in_progress, epoch>>

\* A worker returns from its function and unregisters itself; it may be past
\* its last safepoint with a request pending.
Exit(t) ==
  /\ pc[t] = "run" /\ t # Main /\ io_lock # t
  /\ Goto(t, "unreg")
  /\ subject' = [subject EXCEPT ![t] = t]
  /\ UNCHANGED <<sp_ret, gc_ret, cl_thread_list, flags, depths, locks,
                 gc_condvar, stw_in_progress, epoch>>

\* cl_thread_unregister: the list lock ...
UnregisterLock(t) ==
  /\ pc[t] = "unreg" /\ list_lock = NoThread
  /\ list_lock' = t
  /\ Goto(t, "unlink")
  /\ UNCHANGED <<sp_ret, gc_ret, subject, cl_thread_list, flags, depths,
                 gc_mutex, io_lock, gc_condvar, stw_in_progress, epoch>>

\* ... unlink and release it ...
Unlink(t) ==
  /\ pc[t] = "unlink"
  /\ cl_thread_list' = cl_thread_list \ {subject[t]}
  /\ list_lock' = NoThread
  /\ pc' = IF subject[t] = t THEN [pc EXCEPT ![t] = "wake"]
           ELSE [pc EXCEPT ![t] = "wake_child", ![subject[t]] = "none"]
  /\ subject' = [subject EXCEPT ![t] = NoThread]
  /\ UNCHANGED <<sp_ret, gc_ret, flags, depths, gc_mutex, io_lock,
                 gc_condvar, stw_in_progress, epoch>>

\* Mutant of UnregisterBroadcast: the exit is silent.
UnregisterBroadcastLost == UNCHANGED gc_condvar

UnregisterBroadcast == Broadcast

\* ... and only then gc_mutex, to wake an initiator that waits for it.
UnregisterWake(t) ==
  /\ pc[t] \in {"wake", "wake_child"} /\ GcMutexFree
  /\ UnregisterBroadcast
  /\ Goto(t, IF pc[t] = "wake" THEN "none" ELSE "run")
  /\ UNCHANGED <<sp_ret, gc_ret, subject, cl_thread_list, flags, depths, locks,
                 stw_in_progress, epoch>>

\* External: a condvar may return without a broadcast.
SpuriousWake(t) ==
  /\ t \in gc_condvar
  /\ gc_condvar' = gc_condvar \ {t}
  /\ UNCHANGED <<pc, sp_ret, gc_ret, subject, cl_thread_list, flags, depths,
                 locks, stw_in_progress, epoch>>

-----------------------------------------------------------------------------
Next ==
  \E t \in Threads :
    \/ PollSafepoint(t) \/ Safepoint(t) \/ SafepointWake(t)
    \/ EnterSafeRegion(t) \/ EnterSafeRegionLocked(t) \/ EnterNested(t)
    \/ LeaveSafeRegion(t) \/ LeaveSafeRegionLocked(t)
    \/ SafeMutexLock(t) \/ SafeMutexBlocked(t) \/ IoUnlock(t)
    \/ StartCollection(t) \/ GcSingle(t)
    \/ StwTry(t) \/ StwPoll(t) \/ StwRequest(t) \/ StwScan(t) \/ StwWake(t)
    \/ StaleCheck(t) \/ Collect(t) \/ Resume(t)
    \/ MakeThread(t) \/ SelfRegister(t) \/ Register(t)
    \/ LinkNewborn(t) \/ LinkSelf(t) \/ RegisterWake(t)
    \/ MakeThreadAlloc(t) \/ MakeThreadBody(t) \/ CreateOSThread(t)
    \/ Online(t) \/ Exit(t)
    \/ UnregisterLock(t) \/ Unlink(t) \/ UnregisterWake(t)
    \/ SpuriousWake(t)

Spec == Init /\ [][Next]_vars

\* A running thread keeps executing and so reaches its next poll (calls,
\* backward jumps and allocations all poll), and a thread that asks for
\* gc_mutex or the list lock is not overtaken for ever (strong fairness: a lock
\* is free again and again, not continuously).  Nothing is assumed of a thread
\* in a blocking call ("safe"), of an io lock's holder, of the trylock of
\* StwTry succeeding, or of a spurious wakeup.
Unlocked(t) ==
  \/ PollSafepoint(t) \/ StwTry(t) \/ StwPoll(t) \/ StaleCheck(t) \/ Collect(t)
  \/ GcSingle(t) \/ MakeThreadAlloc(t) \/ MakeThreadBody(t) \/ CreateOSThread(t)
  \/ Unlink(t)

Locked(t) ==
  \/ Safepoint(t) \/ SafepointWake(t) \/ EnterSafeRegionLocked(t)
  \/ LeaveSafeRegionLocked(t) \/ Register(t) \/ RegisterWake(t) \/ Online(t)
  \/ UnregisterWake(t) \/ StwWake(t) \/ StwRequest(t) \/ StwScan(t) \/ Resume(t)
  \/ LinkNewborn(t) \/ LinkSelf(t) \/ UnregisterLock(t)

Fairness == \A t \in Threads : WF_vars(Unlocked(t)) /\ SF_vars(Locked(t))

FairSpec == Spec /\ Fairness

-----------------------------------------------------------------------------
(* Properties                                                              *)

\* No thread is where it may hold or follow a Lisp reference while another one
\* marks, sweeps or moves objects: the purpose of cl_gc_stop_the_world, with
\* newborns, late registrations, safe regions and exits in every position.
WorldStopped ==
  \A t \in Threads : pc[t] \in {"gc", "gc_single"} =>
    \A u \in Threads \ {t} : pc[u] \notin OnHeap

\* Never two initiators, not even while the first sleeps in its straggler wait
\* without gc_mutex; stw_in_progress says exactly whether there is one
\* (the deadlock of two parked initiators, thread.c above stw_in_progress).
SingleInitiator ==
  /\ \A t, u \in Threads :
       pc[t] \in Initiating /\ pc[u] \in Initiating => t = u
  /\ stw_in_progress <=> \E t \in Threads : pc[t] \in Initiating

\* From its first scan to its resume the initiator has requested every live
\* thread of the registry: whoever came online or registered meanwhile has
\* requested itself, so the re-request of a rescan never finds anybody.
RequestsComplete ==
  \A t \in Threads : pc[t] \in Initiating \ {"stw_request"} =>
    \A u \in cl_thread_list \ {t} : u \in gc_live => u \in gc_requested

\* An initiator asleep in its straggler wait is waiting for somebody: a
\* straggler is still to stop, or an exit that removed one is about to
\* broadcast (the lost wakeup cl_thread_unregister's broadcast closes).
NoLostWakeup ==
  \A t \in gc_condvar : pc[t] = "stw_wait" =>
    \E u \in Threads : Straggler(t, u) \/ pc[u] \in {"wake", "wake_child"}

\* Nobody sleeps on behalf of a collection that is over: a thread asleep in a
\* park loop is requested by a stop that is still in progress.
NoStrandedThread ==
  \A t \in gc_condvar : pc[t] \in Parked => t \in gc_requested /\ stw_in_progress

\* A thread that found the heap full returns to retry its allocation only
\* after a whole collection has run since it looked, its own or a peer's
\* (the redundant-cycle skip of cl_gc_if_stale).
CollectedSinceSeen ==
  [][\A t \in Threads :
       pc[t] \in Initiating \cup {"gc_single"} /\ pc'[t] \in {"run", "mk_body"}
         => gc_count' > seen[t]]_vars

\* The collector's view of this state, for the promise of HeapAccess.
mutators == {t \in Threads : pc[t] \in OnHeap}
Collecting(t) == pc[t] \in {"gc", "gc_single"}
collector == IF \E t \in Threads : Collecting(t)
             THEN CHOOSE t \in Threads : Collecting(t) ELSE NoThread

HA == INSTANCE HeapAccess

\* The protocol implements exclusive access of the collector to the heap: every
\* step of thread.c is a step of HeapAccess or leaves it unchanged.
HeapAccessSpec == HA!Spec

\* Every stop ends: the world stops, the collection runs and the world is
\* resumed, whatever threads are started, exit or block meanwhile.
StopEnds == stw_in_progress ~> ~stw_in_progress

\* Every parked thread gets out of its park loop once collections cease (MaxGC
\* bounds them; with collections for ever the loop may be re-requested before
\* it wakes, each time).
ParkedResume == \A t \in Threads : pc[t] \in Parked ~> pc[t] \notin Parked

-----------------------------------------------------------------------------
(* The inductive invariant behind the safety properties                    *)

\* t is inside MP:MAKE-THREAD for a child it has not handed over yet.
InMake(t) == subject[t] \in Threads \ {t}

\* The labels of MAKE-THREAD itself, or of a safepoint or a collection that
\* will return into it.
WillMake(t) ==
  \/ pc[t] \in {"reg", "link", "mk_alloc", "mk_body", "mk_create"}
  \/ pc[t] \in {"safepoint", "sp_wait"}
       /\ (sp_ret[t] = "mk_body" \/ (sp_ret[t] = "stw_try" /\ gc_ret[t] = "mk_body"))
  \/ pc[t] \in Initiating \cup {"stw_try", "stw_poll", "gc_single"}
       /\ gc_ret[t] = "mk_body"

\* A child in the making is a newborn of exactly one parent, on the list once
\* it is linked.
SubjectInv ==
  \A t \in Threads :
    /\ WillMake(t) => InMake(t)
    /\ pc[t] \in {"unreg", "unlink"} => subject[t] \in Threads
    /\ pc[t] \in {"none", "newborn", "online", "online_wait", "wake"}
         => subject[t] = NoThread
    /\ InMake(t) =>
         /\ pc[subject[t]] = "newborn"
         /\ \A u \in Threads \ {t} : subject[u] # subject[t]
         /\ subject[t] \in cl_thread_list <=> pc[t] \notin {"reg", "link"}

\* Whoever can touch the heap, now or when it wakes, is on the list and live;
\* whoever waits at the online barrier is on the list.
RegistryInv ==
  \A t \in Threads :
    /\ pc[t] \in OnHeap \cup SafeRegion \cup {"sp_wait", "reg_wait"}
         => t \in cl_thread_list /\ t \in gc_live
    /\ pc[t] \in {"online", "online_wait"} => t \in cl_thread_list
    /\ pc[t] \in {"none", "wake", "reg_self", "link_self"}
         => t \notin cl_thread_list

MutexInv ==
  \A t \in Threads : gc_mutex = t <=> pc[t] \in HoldsGcMutex

\* A flag the initiator trusts is set only while the thread is really parked
\* or in its region.
FlagsInv ==
  \A t \in Threads :
    /\ t \in gc_stopped => pc[t] \in Parked
    /\ t \in in_safe_region => pc[t] \in SafeRegion
    /\ t \in gc_condvar => pc[t] \in Parked \cup {"stw_wait"}
    /\ safe_region_depth[t] > 0 <=> pc[t] \in {"safe_enter", "safe"}

\* A pending request of a registered thread belongs to a stop in progress, and
\* that stop has requested the threads waiting at the online barrier.
RequestInv ==
  \A t \in Threads :
    /\ t \in gc_requested \cap cl_thread_list => stw_in_progress
    /\ t \notin cl_thread_list /\ pc[t] \in {"newborn", "reg_self", "link_self"}
         => t \notin gc_requested
    /\ pc[t] = "online_wait" /\ t \notin gc_requested =>
         \A u \in Threads : pc[u] \notin Initiating \ {"stw_request"}

\* The world stays stopped from the scan that found it so.
StoppedInv ==
  \A t \in Threads :
    /\ pc[t] \in {"world_stopped", "gc", "gc_single"} =>
         \A u \in Threads \ {t} : pc[u] \notin OnHeap
    /\ pc[t] = "gc_single" => cl_thread_list = {t}

\* The epoch a thread saw is past when it resumes the world.
EpochInv ==
  \A t \in Threads :
    /\ seen[t] <= gc_count
    /\ pc[t] = "resume" => seen[t] < gc_count

IInv ==
  /\ TypeOK /\ SubjectInv /\ RegistryInv /\ MutexInv /\ FlagsInv /\ RequestInv
  /\ StoppedInv /\ SingleInitiator /\ RequestsComplete /\ NoLostWakeup
  /\ NoStrandedThread /\ EpochInv

=============================================================================
