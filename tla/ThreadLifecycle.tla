-------------------------- MODULE ThreadLifecycle --------------------------
(***************************************************************************)
(* The life of an MP worker from MAKE-THREAD to the release of its memory: *)
(* the thread table and its generations (src/core/thread.c), MAKE-THREAD,  *)
(* JOIN-THREAD and the exit of the worker (src/core/builtins_thread.c),    *)
(* and the finalizer of its Lisp wrapper (src/core/gc_trace.c).            *)
(*                                                                         *)
(* Each worker w is one CL_Thread structure with its CL_ThreadObj wrapper; *)
(* callers are the Lisp threads that make and join workers.  A step is one *)
(* critical section of cl_thread_list_lock, one access to a structure that *)
(* another thread may free, or one collection with the world stopped.      *)
(***************************************************************************)
EXTENDS Naturals, FiniteSets

CONSTANTS
  Workers,     \* the workers that will ever be made
  Callers,
  Slots,       \* cl_thread_table, without main's slot 0
  NoWorker,    \* an empty slot, no subject
  NoSlot       \* thread_id -1 of a joined wrapper

ASSUME LifecycleAssumption == NoWorker \notin Workers /\ NoSlot \notin Slots

VARIABLES
  pc, subject,               \* where each caller is, and the worker it is about
  cl_thread_table, cl_thread_table_gen,
  allocated, freed,          \* workers whose structure has been allocated, freed
  cl_thread_list,            \* registered workers
  os,                        \* where each worker's OS thread is
  finished,                  \* workers with status >= 2
  platform_handle,           \* workers with a handle to join or detach
  join_in_progress,
  thread_obj,                \* workers whose structure names a wrapper
  wrapped, thread_id, table_gen, result,   \* CL_ThreadObj: which exist, their
                             \* slot and generation, and which hold the result
  held                       \* wrappers Lisp code keeps a reference to

table == <<cl_thread_table, cl_thread_table_gen>>
memory == <<allocated, freed>>
struct == <<finished, platform_handle, join_in_progress, thread_obj>>
wrapper == <<wrapped, thread_id, table_gen, result, held>>
vars == <<pc, subject, table, memory, cl_thread_list, os, struct, wrapper>>

-----------------------------------------------------------------------------

\* Where a caller can be brought to a safepoint: Lisp code, a collection of its
\* own, the allocation of the wrapper, and the two waits of a join.
AtSafepoint == {"idle", "gc_young", "gc_full", "wrap", "os_join", "await_stamp"}

Making == {"try1", "gc_young", "try2", "gc_full", "try3", "reap", "try4", "full", "register",
           "wrap", "create", "store_handle", "undo_register", "undo_slot", "undo_free"}
Joining == {"os_join", "join_slot", "join_free", "join_stamp"}

TypeOK ==
  /\ pc \in [Callers -> {"idle", "await_stamp"} \cup Making \cup Joining]
  /\ subject \in [Callers -> Workers \cup {NoWorker}]
  /\ cl_thread_table \in [Slots -> Workers \cup {NoWorker}]
  /\ cl_thread_table_gen \in [Slots -> Nat]
  /\ allocated \subseteq Workers /\ freed \subseteq allocated
  /\ cl_thread_list \subseteq Workers /\ finished \subseteq Workers
  /\ os \in [Workers -> {"none", "run", "publish", "unregister", "park", "status", "exit"}]
  /\ platform_handle \subseteq Workers /\ join_in_progress \subseteq Workers
  /\ thread_obj \subseteq Workers /\ wrapped \subseteq thread_obj
  /\ result \subseteq thread_obj /\ held \subseteq thread_obj
  /\ thread_id \in [Workers -> Slots \cup {NoSlot}]
  /\ table_gen \in [Workers -> Nat]

Init ==
  /\ pc = [c \in Callers |-> "idle"] /\ subject = [c \in Callers |-> NoWorker]
  /\ cl_thread_table = [s \in Slots |-> NoWorker]
  /\ cl_thread_table_gen = [s \in Slots |-> 0]
  /\ allocated = {} /\ freed = {} /\ cl_thread_list = {} /\ finished = {}
  /\ os = [w \in Workers |-> "none"]
  /\ platform_handle = {} /\ join_in_progress = {}
  /\ thread_obj = {} /\ wrapped = {} /\ result = {} /\ held = {}
  /\ thread_id = [w \in Workers |-> NoSlot] /\ table_gen = [w \in Workers |-> 0]

Goto(c, l) == pc' = [pc EXCEPT ![c] = l]

\* The call is over: it returns or signals an error.
Done(c) == Goto(c, "idle") /\ subject' = [subject EXCEPT ![c] = NoWorker]

Free(S) == freed' = freed \cup S /\ UNCHANGED allocated

\* The wrapper's slot is still the one of its own worker: the test of JOIN,
\* THREAD-ALIVE-P, INTERRUPT, DESTROY and of the finalizer.
Current(w) ==
  /\ thread_id[w] # NoSlot
  /\ cl_thread_table[thread_id[w]] # NoWorker
  /\ cl_thread_table_gen[thread_id[w]] = table_gen[w]

-----------------------------------------------------------------------------
(* Collections.                                                            *)

\* The world can be stopped: nobody else is between two safepoints.  A worker
\* on its way out is waited for until it has unregistered, and not after.
WorldStops(c) ==
  /\ \A d \in Callers \ {c} : pc[d] \in AtSafepoint
  /\ \A w \in cl_thread_list : os[w] \in {"none", "run"}

\* Wrappers that only a finished call still refers to.
Unreachable ==
  {w \in wrapped \ (held \cup cl_thread_list) : \A c \in Callers : subject[c] # w}

\* gc_finalize_dead(TYPE_THREAD) on the dead wrappers D.
Finalized(D) ==
  {w \in D : Current(w) /\ cl_thread_table[thread_id[w]] \in finished}

Collect(D) ==
  LET S == {thread_id[w] : w \in Finalized(D)}
      F == {cl_thread_table[s] : s \in S}
  IN /\ cl_thread_table' = [s \in Slots |-> IF s \in S THEN NoWorker ELSE cl_thread_table[s]]
     /\ platform_handle' = platform_handle \ F
     /\ Free(F)
     /\ wrapped' = wrapped \ D
     /\ UNCHANGED <<cl_thread_table_gen, cl_thread_list, os, finished, join_in_progress,
                    thread_obj, thread_id, table_gen, result, held>>

\* An allocation collects: in Lisp code, or the one of a thread's wrapper.
Gc(c) ==
  /\ pc[c] \in {"idle", "wrap"} /\ WorldStops(c)
  /\ Unreachable # {} /\ Collect(Unreachable)
  /\ UNCHANGED <<pc, subject>>

-----------------------------------------------------------------------------
(* MP:MAKE-THREAD.                                                         *)

\* cl_thread_alloc_worker_sized
MakeThread(c, w) ==
  /\ pc[c] = "idle" /\ w \notin allocated
  /\ allocated' = allocated \cup {w}
  /\ subject' = [subject EXCEPT ![c] = w]
  /\ Goto(c, "try1")
  /\ UNCHANGED <<table, freed, cl_thread_list, os, struct, wrapper>>

\* Mutant: the slot keeps its generation.
ClaimSameGeneration(w, s) ==
  /\ cl_thread_table' = [cl_thread_table EXCEPT ![s] = w]
  /\ UNCHANGED cl_thread_table_gen

\* cl_thread_table_alloc: a new occupancy is a new generation.
Claim(w, s) ==
  /\ cl_thread_table' = [cl_thread_table EXCEPT ![s] = w]
  /\ cl_thread_table_gen' = [cl_thread_table_gen EXCEPT ![s] = @ + 1]

\* A free slot (the code takes the lowest; which one makes no difference here);
\* a full table leads to the next resort.  The slot is the worker's id, which
\* the wrapper will copy.
TableAlloc(c) ==
  /\ pc[c] \in {"try1", "try2", "try3", "try4"}
  /\ LET Empty == {s \in Slots : cl_thread_table[s] = NoWorker}
     IN IF Empty = {}
        THEN /\ Goto(c, CASE pc[c] = "try1" -> "gc_young" [] pc[c] = "try2" -> "gc_full"
                          [] pc[c] = "try3" -> "reap" [] pc[c] = "try4" -> "full")
             /\ UNCHANGED <<table, thread_id>>
        ELSE \E s \in Empty : /\ Claim(subject[c], s)
                              /\ thread_id' = [thread_id EXCEPT ![subject[c]] = s]
                              /\ Goto(c, "register")
  /\ UNCHANGED <<subject, memory, cl_thread_list, os, struct, wrapped, table_gen, result, held>>

\* cl_gc_reclaim_young may leave old garbage, cl_gc leaves none.
MakeGc(c) ==
  /\ pc[c] \in {"gc_young", "gc_full"} /\ WorldStops(c)
  /\ \E D \in SUBSET Unreachable : (pc[c] = "gc_full" => D = Unreachable) /\ Collect(D)
  /\ Goto(c, IF pc[c] = "gc_young" THEN "try2" ELSE "try3")
  /\ UNCHANGED subject

\* Mutant of Zombies: the join test dropped.
ZombiesBeingJoined == {s \in Slots : cl_thread_table[s] \in finished}

\* cl_thread_reap_zombies: finished workers nobody is joining.
Zombies == {s \in Slots : /\ cl_thread_table[s] \in finished
                          /\ cl_thread_table[s] \notin join_in_progress}

Reap(c) ==
  /\ pc[c] = "reap"
  /\ cl_thread_table' = [s \in Slots |-> IF s \in Zombies THEN NoWorker ELSE cl_thread_table[s]]
  /\ platform_handle' = platform_handle \ {cl_thread_table[s] : s \in Zombies}
  /\ Free({cl_thread_table[s] : s \in Zombies})
  /\ Goto(c, "try4")
  /\ UNCHANGED <<subject, cl_thread_table_gen, cl_thread_list, os, finished, join_in_progress,
                 thread_obj, wrapper>>

\* "thread table full": the child is freed again.
MakeFails(c) ==
  /\ pc[c] = "full"
  /\ Free({subject[c]}) /\ Done(c)
  /\ UNCHANGED <<table, cl_thread_list, os, struct, wrapper>>

\* cl_thread_register_newborn
MakeRegister(c) ==
  /\ pc[c] = "register"
  /\ cl_thread_list' = cl_thread_list \cup {subject[c]}
  /\ Goto(c, "wrap")
  /\ UNCHANGED <<subject, table, memory, os, struct, wrapper>>

\* The wrapper, or a storage error: cl_alloc never returns NULL, and its longjmp
\* passes the clean-up written after it, so that the worker stays in its slot and
\* in the registry for ever.
MakeWrapper(c) ==
  /\ pc[c] = "wrap"
  /\ \/ /\ wrapped' = wrapped \cup {subject[c]}
        /\ thread_obj' = thread_obj \cup {subject[c]}
        /\ table_gen' = [table_gen EXCEPT
                           ![subject[c]] = cl_thread_table_gen[thread_id[subject[c]]]]
        /\ Goto(c, "create") /\ UNCHANGED subject
     \/ UNCHANGED <<wrapped, thread_obj, table_gen>> /\ Done(c)
  /\ UNCHANGED <<table, memory, cl_thread_list, os, finished, platform_handle,
                 join_in_progress, thread_id, result, held>>

\* platform_thread_create starts the worker and, once pthread_create is back,
\* stores the handle in its structure; or it fails.
MakeCreate(c) ==
  /\ pc[c] = "create"
  /\ \/ os' = [os EXCEPT ![subject[c]] = "run"] /\ Goto(c, "store_handle")
     \/ UNCHANGED os /\ Goto(c, "undo_register")
  /\ UNCHANGED <<subject, table, memory, cl_thread_list, struct, wrapper>>

MakeReturn(c) ==
  /\ pc[c] = "store_handle"
  /\ platform_handle' = platform_handle \cup {subject[c]}
  /\ held' = held \cup {subject[c]}
  /\ Done(c)
  /\ UNCHANGED <<table, memory, cl_thread_list, os, finished, join_in_progress, thread_obj,
                 wrapped, thread_id, table_gen, result>>

\* A failed platform_thread_create: the worker is taken back.
MakeUndo(c) ==
  \/ /\ pc[c] = "undo_register"
     /\ cl_thread_list' = cl_thread_list \ {subject[c]}
     /\ Goto(c, "undo_slot")
     /\ UNCHANGED <<subject, table, memory, os, struct, wrapper>>
  \/ /\ pc[c] = "undo_slot"
     /\ cl_thread_table' = [cl_thread_table EXCEPT ![thread_id[subject[c]]] = NoWorker]
     /\ Goto(c, "undo_free")
     /\ UNCHANGED <<subject, cl_thread_table_gen, memory, cl_thread_list, os, struct, wrapper>>
  \/ /\ pc[c] = "undo_free"
     /\ Free({subject[c]}) /\ Done(c)
     /\ UNCHANGED <<table, cl_thread_list, os, struct, wrapper>>

-----------------------------------------------------------------------------
(* The worker's own exit (thread_entry).                                   *)

\* Mutant: unregister first, and publish the result when it is no root any more.
AfterExitLateResult(l) ==
  CASE l = "run" -> "unregister" [] l = "unregister" -> "publish" [] l = "publish" -> "park"
    [] l = "park" -> "status" [] l = "status" -> "exit"

\* The order of the last steps of the exit.
AfterExit(l) ==
  CASE l = "run" -> "publish" [] l = "publish" -> "unregister" [] l = "unregister" -> "park"
    [] l = "park" -> "status" [] l = "status" -> "exit"

\* The function returns, aborts or dies; the result goes into the wrapper; the
\* worker unregisters, frees its park handle, and only then publishes its
\* status, after which it does not touch its structure.
WorkerStep(w) ==
  /\ os[w] \notin {"none", "exit"}
  /\ os' = [os EXCEPT ![w] = AfterExit(os[w])]
  /\ result' = IF os[w] = "publish" THEN result \cup {w} ELSE result
  /\ cl_thread_list' = IF os[w] = "unregister" THEN cl_thread_list \ {w} ELSE cl_thread_list
  /\ finished' = IF os[w] = "status" THEN finished \cup {w} ELSE finished
  /\ UNCHANGED <<pc, subject, table, memory, platform_handle, join_in_progress, thread_obj,
                 wrapped, thread_id, table_gen, held>>

-----------------------------------------------------------------------------
(* Wrappers in Lisp code, and MP:JOIN-THREAD.                              *)

\* MP:ALL-THREADS hands out the wrapper that an unfinished worker names.
AllThreads(s) ==
  /\ cl_thread_table[s] \in thread_obj \ (held \cup finished)
  /\ held' = held \cup {cl_thread_table[s]}
  /\ UNCHANGED <<pc, subject, table, memory, cl_thread_list, os, struct, wrapped, thread_id,
                 table_gen, result>>

\* Lisp code drops its references to a wrapper.
Drop(w) ==
  /\ w \in held /\ held' = held \ {w}
  /\ UNCHANGED <<pc, subject, table, memory, cl_thread_list, os, struct, wrapped, thread_id,
                 table_gen, result>>

\* Mutant: every joiner joins the handle it finds.
JoinUnclaimed(c, w) ==
  /\ pc[c] = "idle" /\ w \in held \cap wrapped /\ Current(w)
  /\ cl_thread_table[thread_id[w]] \in platform_handle
  /\ subject' = [subject EXCEPT ![c] = w] /\ Goto(c, "os_join")
  /\ UNCHANGED <<table, memory, cl_thread_list, os, struct, wrapper>>

\* The critical section of JOIN-THREAD: a wrapper whose thread has exited is an
\* error, and so is a worker whose handle is not there (yet); the first joiner
\* claims the handle, a later one waits for the wrapper to be stamped.  What a
\* call makes of a wrapper that has been swept is not modelled.
JoinThread(c, w) ==
  /\ pc[c] = "idle" /\ w \in held \cap wrapped /\ Current(w)
  /\ subject' = [subject EXCEPT ![c] = w]
  /\ LET t == cl_thread_table[thread_id[w]]
     IN \/ /\ t \in join_in_progress
           /\ Goto(c, "await_stamp")
           /\ UNCHANGED <<join_in_progress, platform_handle>>
        \/ /\ t \in platform_handle \ join_in_progress
           /\ join_in_progress' = join_in_progress \cup {t}
           /\ platform_handle' = platform_handle \ {t}
           /\ Goto(c, "os_join")
  /\ UNCHANGED <<table, memory, cl_thread_list, os, finished, thread_obj, wrapper>>

\* platform_thread_join returns once the OS thread is gone.
OsJoin(c) ==
  /\ pc[c] = "os_join" /\ os[subject[c]] = "exit"
  /\ Goto(c, "join_slot")
  /\ UNCHANGED <<subject, table, memory, cl_thread_list, os, struct, wrapper>>

JoinSlot(c) ==
  /\ pc[c] = "join_slot"
  /\ cl_thread_table' = [cl_thread_table EXCEPT ![thread_id[subject[c]]] = NoWorker]
  /\ Goto(c, "join_free")
  /\ UNCHANGED <<subject, cl_thread_table_gen, memory, cl_thread_list, os, struct, wrapper>>

JoinFree(c) ==
  /\ pc[c] = "join_free"
  /\ Free({subject[c]})
  /\ Goto(c, "join_stamp")
  /\ UNCHANGED <<subject, table, cl_thread_list, os, struct, wrapper>>

\* Mutant: the wrapper keeps its slot.
JoinNoStamp(c) ==
  /\ pc[c] = "join_stamp" /\ Done(c)
  /\ UNCHANGED <<table, memory, cl_thread_list, os, struct, wrapper>>

\* The owner's last step lets the other joiners go on.
JoinStamp(c) ==
  /\ pc[c] = "join_stamp"
  /\ thread_id' = [thread_id EXCEPT ![subject[c]] = NoSlot]
  /\ Done(c)
  /\ UNCHANGED <<table, memory, cl_thread_list, os, struct, wrapped, table_gen, result, held>>

\* A later joiner sees the stamp and reads the result from the wrapper.
LateJoin(c) ==
  /\ pc[c] = "await_stamp" /\ thread_id[subject[c]] = NoSlot
  /\ Done(c)
  /\ UNCHANGED <<table, memory, cl_thread_list, os, struct, wrapper>>

-----------------------------------------------------------------------------

\* The steps of a call that has begun.
Call(c) ==
  \/ TableAlloc(c) \/ MakeGc(c) \/ Reap(c) \/ MakeFails(c) \/ MakeRegister(c)
  \/ MakeWrapper(c) \/ MakeCreate(c) \/ MakeReturn(c) \/ MakeUndo(c)
  \/ OsJoin(c) \/ JoinSlot(c) \/ JoinFree(c) \/ JoinStamp(c) \/ LateJoin(c)

Next ==
  \/ \E c \in Callers : \/ Call(c) \/ Gc(c)
                        \/ \E w \in Workers : MakeThread(c, w) \/ JoinThread(c, w)
  \/ \E w \in Workers : WorkerStep(w) \/ Drop(w)
  \/ \E s \in Slots : AllThreads(s)

Spec == Init /\ [][Next]_vars

\* Calls that have begun go on, and so do workers.
FairSpec == Spec /\ (\A c \in Callers : WF_vars(Call(c))) /\ (\A w \in Workers : WF_vars(WorkerStep(w)))

-----------------------------------------------------------------------------
(* Properties.                                                             *)

live == allocated \ freed

\* No use after free and no double free: whatever the table, the registry, a
\* running worker or a join still leads to is allocated, and what a caller is
\* about to free is not in the table for somebody else to free.
MemorySafe ==
  /\ \A s \in Slots : cl_thread_table[s] # NoWorker => cl_thread_table[s] \in live
  /\ cl_thread_list \subseteq live
  /\ \A w \in Workers : os[w] \notin {"none", "exit"} => w \in live
  /\ \A c \in Callers :
       /\ pc[c] \in {"os_join", "join_slot", "join_free", "full", "undo_free"} =>
            subject[c] \in live
       /\ pc[c] \in {"join_free", "full", "undo_free"} =>
            \A s \in Slots : cl_thread_table[s] # subject[c]

\* A wrapper whose generation is current leads to its own worker: a join, an
\* interrupt, a destroy or a finalizer never reaches the worker that reuses the
\* slot.
SlotIdentity ==
  \A w \in wrapped : Current(w) => cl_thread_table[thread_id[w]] = w

\* The result survives the worker: from the moment the worker is off the
\* registry, and so no longer a root, the wrapper has it; so has every join
\* that returns it.
ResultSurvives ==
  /\ \A w \in Workers \ cl_thread_list : os[w] # "none" => w \in result
  /\ \A c \in Callers :
       \/ pc[c] = "join_slot"
       \/ pc[c] = "await_stamp" /\ thread_id[subject[c]] = NoSlot
       => subject[c] \in result

\* One join owns a worker, however many threads join it: one OS-level join, one
\* free.
OneOwner ==
  \A c, d \in Callers :
    pc[c] \in Joining /\ pc[d] \in Joining /\ subject[c] = subject[d] => c = d

\* A join of a worker that has exited returns, for the first joiner and for
\* those that wait for it.
JoinReturns ==
  \A c \in Callers :
    (pc[c] \in {"os_join", "await_stamp"} /\ os[subject[c]] = "exit") ~> pc[c] = "idle"

\* A worker's structure is safe to free once its status says it is finished: also
\* from the thread that is still making it.
CreatorSafe == \A c \in Callers : pc[c] = "store_handle" => subject[c] \in live

-----------------------------------------------------------------------------
(* The inductive invariant.                                                *)

\* A slot's worker is allocated, and knows the slot.
Occupied ==
  \A s \in Slots : cl_thread_table[s] # NoWorker =>
    cl_thread_table[s] \in live /\ thread_id[cl_thread_table[s]] = s

\* A wrapper's generation is never ahead of its slot's, and equal only while the
\* slot is its worker's or empty.
Generations ==
  \A w \in thread_obj : thread_id[w] \in Slots =>
    /\ table_gen[w] <= cl_thread_table_gen[thread_id[w]]
    /\ table_gen[w] = cl_thread_table_gen[thread_id[w]] =>
         cl_thread_table[thread_id[w]] \in {w, NoWorker}

InSlot(w) == thread_id[w] \in Slots /\ cl_thread_table[thread_id[w]] = w
InNoSlot(w) == \A s \in Slots : cl_thread_table[s] # w

BeforeSlot == {"try1", "gc_young", "try2", "gc_full", "try3", "reap", "try4", "full"}

\* Until its OS thread runs, a worker is its maker's alone.
Makers ==
  /\ \A c \in Callers : pc[c] \in Making =>
       /\ subject[c] \in allocated
       /\ pc[c] # "store_handle" => subject[c] \notin freed /\ os[subject[c]] = "none"
       /\ pc[c] = "store_handle" => subject[c] \in thread_obj \ platform_handle
       /\ pc[c] = "store_handle" => subject[c] \notin join_in_progress /\ os[subject[c]] # "none"
       /\ pc[c] \in BeforeSlot \cup {"undo_free"} => InNoSlot(subject[c])
       /\ pc[c] \in {"register", "wrap", "create", "undo_register", "undo_slot"} => InSlot(subject[c])
       /\ pc[c] \in BeforeSlot \cup {"register", "wrap"} => subject[c] \notin thread_obj
       /\ pc[c] \in {"wrap", "create"} => subject[c] \in cl_thread_list
       /\ pc[c] = "create" => subject[c] \in wrapped
       /\ pc[c] \in BeforeSlot \cup {"register", "undo_slot", "undo_free"} =>
            subject[c] \notin cl_thread_list
  /\ \A c, d \in Callers :
       pc[c] \in Making /\ pc[d] \in Making /\ subject[c] = subject[d] => c = d

\* Where a worker stands by the progress of its OS thread.
Progress ==
  /\ thread_obj \subseteq allocated /\ cl_thread_list \subseteq live
  /\ \A w \in Workers :
       /\ os[w] # "none" => w \in thread_obj
       /\ w \in finished => os[w] = "exit"
       /\ w \in cl_thread_list => os[w] \in {"none", "run", "publish", "unregister"}
       /\ os[w] \in {"run", "publish", "unregister"} => w \in cl_thread_list
       /\ os[w] \in {"unregister", "park", "status", "exit"} => w \in result
       /\ os[w] \notin {"none", "exit"} => InSlot(w)
       /\ w \in platform_handle \cup join_in_progress => os[w] # "none"
       /\ w \in thread_obj /\ thread_id[w] = NoSlot => w \in result

\* A claimed worker is its joiner's alone.
Joiners ==
  /\ \A c \in Callers : pc[c] \in Joining =>
       /\ subject[c] \in wrapped \cap join_in_progress
       /\ pc[c] # "join_stamp" => subject[c] \in live
       /\ pc[c] # "os_join" => os[subject[c]] = "exit"
       /\ pc[c] \in {"os_join", "join_slot"} => InSlot(subject[c])
       /\ pc[c] \in {"join_free", "join_stamp"} => InNoSlot(subject[c])
  /\ \A c \in Callers : pc[c] = "await_stamp" => subject[c] \in thread_obj

IInv == TypeOK /\ Occupied /\ Generations /\ Makers /\ Progress /\ Joiners /\ OneOwner
=============================================================================
