# A verification project for AmiLisp

AmiLisp (`mdbergmann/cl-amiga`) is a Common Lisp in C for AmigaOS, POSIX and
Windows: a bytecode compiler and VM, three collectors, native threads, CLOS, two
JIT back ends. This directory holds TLA+ models of the parts whose correctness
depends on interleavings, orderings and long call sequences, the TLC
configurations that check them on small instances, and TLAPS proofs of their safety
for every instance.

## 1. The system

| Component | State | Operations | What is hard |
|---|---|---|---|
| Stop-the-world coordination (`thread.c`) | thread registry, `gc_requested/gc_stopped/gc_live/in_safe_region` per thread, `gc_mutex`, `gc_condvar`, `stw_in_progress` | register, unregister, safepoint, enter/leave safe region, come online, stop, resume | the initiator sleeps without `gc_mutex` while threads are born, register, block, exit or also run out of heap |
| MP locks and condition variables (`builtins_thread.c`) | a lock's heap words (owner, depth, CONTENDED bit), each thread's wait registration and park token, a condvar's waiter count | acquire, release, condition-wait/notify/broadcast, timeouts, interrupt-thread, destroy-thread | register-mark-park against release-scan-unpark; a timeout or an interrupt at the instant of a wakeup |
| Thread life cycle (`builtins_thread.c`, `thread.c`) | side table `cl_thread_table` with slot generations, the wrapper object, the worker's status and result | make, start, finish, join, reap, finalize, shutdown | who frees a worker; slot reuse; double join; a join of a reaped worker |
| Dynamic bindings (`thread.c` TLV table, `vm.c` dynbind stack) | open-addressing table per thread, binding stack | bind, unbind, set, lookup, rehash after compaction | tombstones, a full table, unwinding past bindings |
| Non-local exits and conditions (`error.c`, `runtime_nlx.c`, `vm.c`, `builtins_condition.c`) | NLX stack, saved-pending stack, handler and restart stacks | catch/throw, unwind-protect, signal, handler-bind, restarts | an exit out of a cleanup form; handlers disabled while one runs |
| Collectors (`mem.c`, `gc_*.c`) | arena, free list, mark bits, dirty pages, lines, allocation cursors | allocate, mark, sweep, compact, minor cycle, Immix cycle | moving objects under every root; mark-stack overflow; write barrier |
| Streams (`stream.c`, `builtins_stream.c`) | side table of output buffers, per-stream locks | open, write, flush, close | a slot reused while a dead stream still names it |
| Packages and symbols (`package.c`, `symbol.c`, `bindtab.c`, `builtins_package.c`) | symbol chains, export lists with two flags that cache them, use lists, binding tables, one reader/writer lock | intern, find, shadow, import, export, use, unintern, materialise | two threads create one name; an allocation between a probe and the stores; a stop of the world against the lock |
| Hash tables | chains, growth, address-keyed order | gethash, remhash, rehash | rehash after a moving collection |
| JIT (`jit_*.c`, `codeheap.c`) | code heap, call-site caches, `cl_call_gen` | compile, direct call, invalidate | a cached callee that a collection has moved |
| Reader, compiler, printer, FASL, image, numbers, FFI, platform layers | | | sequential; see *Not modelled* |

Interactions: every mutator polls `CL_SAFEPOINT`; an allocation may start a
collection; blocking calls are bracketed by safe regions; a lock's slow path parks
inside a safe region; `join-thread` and `make-thread` register, free and reap the
structures that the collector walks; an exit unwinds the binding, handler, restart
and saved-transfer stacks together; interning allocates, so a package operation can
stop the world; a collection closes the files and frees the output buffers of dead streams.

Correctness, component by component (section 2 says which are modelled):

- *Stop-the-world*: nobody touches the heap while a collector runs; one
  initiator; every live thread is asked; no wakeup is lost; every stop ends.
- *Locks and condition variables*: mutual exclusion with recursion; a released
  lock always has somebody responsible for waking a waiter; a notify or an
  interrupt is not lost; the waiter count does not drift.
- *Thread life cycle*: no structure is used after it is freed; a wrapper never
  leads to the next worker of its slot; one joiner; the result survives.
- *Dynamic bindings*: a variable reads as its innermost binding, in its own
  thread only; leaving a form removes exactly what it bound.
- *Non-local exits, conditions*: every cleanup form between an exit and its target
  runs once, in order; a handler does not see itself.
- *Collectors*: what is reachable survives with its contents; a moved object is
  reached by its new address from everywhere.
- *Streams, packages, tables*: a slot has one stream; one symbol per name and
  package; lookup finds what was stored last.

## 2. Modules

| Module | Role | Source |
|---|---|---|
| `HeapAccess` | abstract: mutators come and go, a collector is alone | |
| `StopTheWorld` | the protocol | `thread.c`, `mem.c`, `gc_classic.c` (entry), `builtins_thread.c` |
| `Monitor` | abstract: a recursive lock that a wait gives up and gets back | |
| `MPLocks` | the locks as they are built | `builtins_thread.c`, `thread.c`, `boot.lisp` |
| `ThreadLifecycle` | make, run, join, reap, finalize | `builtins_thread.c`, `thread.c`, `gc_trace.c` |
| `TlvTable` | the open-addressing table, as operators | `thread.c`, `thread.h` |
| `SpecialVariables` | abstract: a stack of bindings per thread over global values | |
| `DynamicBindings` | binding stack, tables, value cells, package cache | `thread.c`, `vm.c`, `gc_compact.c`, `package.c` |
| `ExitDiscipline` | abstract: what CATCH, BLOCK, TAGBODY, UNWIND-PROTECT, handlers and restarts promise | |
| `NonLocalExits` | the stacks behind them | `vm.c`, `error.c`, `builtins_condition.c`, `builtins_io.c` |
| `GenerationalHeap` | allocation, minor cycle, compaction, stream resources | `gc_classic.c`, `gc_trace.c`, `gc_compact.c`, `mem.c`, `stream.c` |
| `Packages` | symbols, exports, use lists, binding tables under the lock | `package.c`, `symbol.c`, `bindtab.c`, `builtins_package.c` |
| `MC*` | constants for TLC | |
| `SequenceLemmas` | what cutting, prepending and removing do to a sequence, and least and greatest elements, proved once | |
| `*Proofs` | theorems about the module they are named after | |

`PROJECT.json` maps each definition to its lines.  Definitions that stand beside
one another, such as `LeaveOffByOne` before `Leave`, are mutated forms: each is put
in place of the definition below it to see that a property notices.

### StopTheWorld

One step is one critical section of `gc_mutex` or of the thread-list lock, or one
test that the code makes without a lock.  `pc` says where a thread is; the labels
fall into groups (`OnHeap`, `OffHeap`, `Parked`, `SafeRegion`, `Initiating`,
`HoldsGcMutex`) on which the properties are stated.  The flags of `CL_Thread` are the
sets of the threads that have them set.

- `PollSafepoint`, `Safepoint`, `SafepointWake`: `CL_SAFEPOINT` and `cl_gc_safepoint`.
- `EnterSafeRegion`, `EnterSafeRegionLocked`, `EnterNested`, `LeaveSafeRegion`,
  `LeaveSafeRegionLocked`: safe regions with their nesting depth; the single-threaded
  shortcut is the branch on `CL_MT`.
- `SafeMutexLock`, `SafeMutexBlocked`, `IoUnlock`: a mutex taken with trylock first
  and then inside a safe region (stream and I/O locks).
- `StartCollection`, `GcSingle`, `StwTry`, `StwPoll`, `StwRequest`, `StwScan`, `StwWake`,
  `StaleCheck`, `Collect`, `Resume`: from the full heap to the end of the collection,
  with the wait for stragglers, which sleeps on `gc_condvar` without `gc_mutex`, and
  the test whether somebody else has collected in between.
- `MakeThread`, `Register`, `LinkNewborn`, `MakeThreadAlloc`, `MakeThreadBody`,
  `CreateOSThread`, `SelfRegister`, `LinkSelf`, `RegisterWake`, `Online`: a newborn that is
  registered before it runs, and a foreign thread that registers itself.
- `Exit`, `UnregisterLock`, `Unlink`, `UnregisterWake`; `SpuriousWake`.

What the model made visible: on the instance of `stw`, leaving out the
`stw_in_progress` test of the trylock loop alone, or the request that a thread coming
online makes to itself alone, violates nothing, because registration during a stop
already requests the new thread; and the second scan of the straggler wait never finds
a thread to ask again.  They are second lines of defence.
A `make-thread` whose wrapper cannot be allocated leaves by a storage error and its child stays
in the registry, a newborn that no stop waits for (`MakeThreadBody`).
A thread that registers itself beside a collection that began single-threaded is
excluded by the model, as the code assumes it is by the embedding program.

### MPLocks

One recursive lock and one condition variable used with it, in `with-lock-held`
forms.  The lock's state word is `owner` with the bit `contended`.  A thread that
waits is listed by its `wait_kind`, and `permit` holds the deposited park tokens.

- `AcquireFast`, `AcquireAgain`, `AcquireHeld`, `SpinTake`, `SpinInterrupted`, `SpinEnds`,
  `SlowTake`, `SlowRegister`, `SlowMark`, `SlowRetry`, `SlowCheck`, `SlowPark`, `SlowWoken`,
  `SlowGiveUp`, `AbandonWake`, `SlowHandle`: `bi_acquire_lock` from the compare-and-swap to
  the park, with the timeout and the interrupt on every way out, and the wakeup a
  thread passes on when it gives up.
- `LeaveBody`, `ReleaseLock`, `ReleaseScan`: the cleanup form, the release and the scan for a waiter.
- `ConditionWait`, `CwCheck`, `CwRelease`, `CwScan`, `CwPark`, `CwResolve`, `Reacquire`,
  `CwReturn`; `ConditionNotify`, `CondvarWake` (notify one or all).
- `InterruptThread`, `DestroyThread`, `DestroySelf`, `Safepoint`, `Unwind`: interrupts are
  published, wake a waiter, and are delivered at a safepoint or at the end of a wait.

Time is a choice: a thread whose wait is `timed` may find the deadline passed at
any test of the clock.

### ThreadLifecycle

A worker is one `CL_Thread` with its wrapper; callers make, join, drop and collect.
A step is one critical section of the list lock, one access to a structure that
another thread may free, or one collection.  `TableAlloc` takes any free slot where the code takes
the lowest one.  `MakeWrapper` has two outcomes: the wrapper, or the storage error of `cl_alloc`
(`mem.c:594-618`), which longjmps past the clean-up of `builtins_thread.c:617` and leaves the
worker in its slot and in the registry.  `MakeUndo` is the clean-up when the OS thread cannot be
created.  `Collect` finalizes any set of
unreachable wrappers, as a minor cycle may leave some for later.

### TlvTable, DynamicBindings

`TlvTable` defines `cl_tlv_get`, `cl_tlv_set` and `cl_tlv_remove` with probe chains,
tombstones, the entry count and its trivial cases.  `Size` is 256 in the code, where the
mask is a modulo.  `DynamicBindings` has one action for each opcode or call that
changes a binding or a value: `DynBind`, `ProgvBind`, `RestoreTo` with `RestorePop` and
`RestoreDone` (one popped binding a step), `Gload`, `Gstore`, `SetSymbolValue`, `CasLocal`
and the global compare-and-swap as its reads and its swap, and `Collect`, after which
every symbol may hash elsewhere and `Rehash` puts the entries back one at a time.
A collection happens only while no thread is inside an operation, since none of them
has a safepoint.
Every variable, `*PACKAGE*` too, may be bound and stored by every operation; `ProgvBind`,
`SetSymbolValue` (SET and MAKUNBOUND) and the compare-and-swap do not refresh the package cache
(section 5).  `ret` is what
an operation returned: it lets the refinement speak of what a program reads.

### ExitDiscipline, NonLocalExits

The program is arbitrary: `ctl` is the nest of constructs it is evaluating, and at any
moment it enters one, returns from the innermost, exits or signals.  `ExitDiscipline`
has only `ctl` and says what each of these does: an exit runs the cleanup forms
between it and its target, innermost first, each once; an exit out of a cleanup form
replaces the one that was going on; a handler runs with its own binding and those established after it
disabled; an error that nobody takes goes to the innermost LOAD.

`NonLocalExits` has the machine: `nlx` (`cl_nlx_stack`, each frame with the depths of the
other stacks that it saves), `pending` (`cl_pending_throw` and its tag), `saved`
(`cl_saved_pending_stack`), `handlers` and `active` (the handler stack and its mask),
`restarts`, `errs` (the C error frames) and `mvs` (the saved values of cleanup forms).
`ctl` is set only from the frame that the machine jumps to, so a wrong frame, a wrong mark
or a forgotten transfer shows as a program that goes on in the wrong place.  The `ctl` field of an entry of
a stack is no part of the machine: it says which construct pushed the entry, for the properties.

- `Catch`, `Block`, `Tagbody`, `UnwindProtect`, `HandlerBind`, `HandlerClause`, `HandlerCase`, `RestartCase`,
  `Load` push; `Return`, `ReturnProtected`, `ReturnHandlerBind`, `ReturnHandlerCase`,
  `ReturnRestartCase`, `ReturnLoad` pop.
- `Throw`, `ReturnFrom`, `Go`, `InvokeRestart` exit: `Transfer` lands on the innermost protection above
  the target, and `Land` restores the marks of the frame.
- A HANDLER-BIND has any number of clauses: `HandlerBind` pushes the one written last, `HandlerClause` the next
  one before it (the compiler pushes them in reverse), and `ReturnHandlerBind` pops them together.  Each is a construct of `ctl` that
  names the depth of its form's first one.  `cl_signal_condition` disables the bindings from the running one up, so the clauses written after it in the
  same form stay enabled while it runs; `EnabledHandlers` and `ExitDiscipline` say so, and section 5 does.  A HANDLER-CASE has one
  binding for all its clauses: they are pushed at once, popped at once, and taking any of them leaves the form.
- `ReturnCleanup` is `OP_UWRETHROW`: end the cleanup (`EndCleanup`), or resume the transfer in flight to a tag,
  a HANDLER-CASE clause or an error frame (`ResumeTag`, `ResumeClause`, `ResumeError`).
- `Warn`, `Raise`, `Offer`, `SignalReturns`, `WarnReturns`, `ErrorUnhandled`: the walk over the handlers
  (`cl_signal_condition`), the clause taken or the function called, and
  `cl_error_unwind` when none takes the error.

`Shapes` names four kinds of program that a run leaves out, because the code departs from
`ExitDiscipline` there (section 5); the sets of tags are disjoint for the same reason.

### GenerationalHeap

The classic collector with generations, on an arena of units; an object is one unit: a
cons, a file stream or a string stream.  The world is stopped while `gc.by` is a thread,
and a collection is several steps (roots and drain, each re-scan after an overflow, the
walk of the dirty pages, the end).

- `Alloc`, `Retry`, `Escalate`, `Exhausted`: chunk, bump front, minor cycle, compaction, failure.
- `StartMinor`, `WalkDirty`, `Rescan`, `RefuseMinor`, `FinishMinor`: the minor cycle; it slides the live nursery
  onto old space, whose pages are then watched again.
- `StartCompact`, `Collect`, `FinishCompact`: a full compaction.
- `Read`, `Share`, `Write`: the program; `Write` makes a page dirty through the write watch.
- `TakeBuffer`, `NoBuffer`, `Close`: output-buffer slots and OS handles.  `Alloc` of a file stream is OPEN, which opens the
  file first: `want` holds the handle while the allocation collects.

`missed` abstracts `gc_count`: the threads for which it has moved since they read it.
`Interference` = FALSE leaves out that another thread runs between a refused minor cycle and the
compaction that follows it, where the code is wrong (section 5).

### Packages

A section under the read lock is one step; one under the write lock is two, taking the lock and
the stores.  Between a lookup and the lock the operation allocates, and an
allocation may stop the world (`StopWorld`, `Collect`), which waits for every thread that
is not at a safepoint: a thread blocked on the lock is not.  A package is one hash chain.

- `Begin...`: the program calls INTERN, FIND-SYMBOL, SHADOW, IMPORT, EXPORT, UNEXPORT, USE-PACKAGE,
  UNUSE-PACKAGE, UNINTERN or enumerates a package.
- `Read`, `Proceed`, `Eager`, `Each`, `Built`, `Copy`, `Allocate`: the lookup, and the names of a
  binding table that become symbols on the way (one, or all of them before the table is dropped).
- `WriteLock`, `Commit...`: the second lookup under the lock and the stores.
- `Scan`, `Splice`: UNINTERN, which reads and relinks the chain in two steps because it does not take the lock.

`Spec` has every interleaving that the code allows.  `SerialSpec` is `Spec` for programs that run each UNINTERN and
UNEXPORT alone (`RemovalAlone`), which nothing in the code does for them: `pkg_overlap` checks `Spec` and `pkg_tables`
the other (section 5).

## 3. Runs

| Run | Checks | Shows |
|---|---|---|
| `stw` | `TypeOK`, `WorldStopped`, `SingleInitiator`, `RequestsComplete`, `NoLostWakeup`, `NoStrandedThread`, `CollectedSinceSeen`, refinement of `HeapAccess`, `StopEnds`, `ParkedResume` | the collector is alone whatever the others do, every stop ends and every parked thread goes on |
| `mp` | `TypeOK`, `MutualExclusion`, `NoLostToken`, `WaitersCounted`, `NoLostLockWakeup`, refinement of `Monitor`, `InterruptReachesWaiter`, `FreeLockTaken` | two threads with recursion and everything allowed: nothing is lost, and a released lock is taken |
| `tl_reuse` | `MemorySafe`, `SlotIdentity`, `ResultSurvives`, `OneOwner`, `JoinReturns` | slot reuse, double join, reaping |
| `db_safety` | `TypeOK`, `TableOK`, `NoResidue`, refinement of `SpecialVariables` | bindings behave as a stack |
| `nlx_exits` | `StacksMatchProgram`, `EnabledHandlers`, `NoStrayTransfer`, `RecordsMatchCleanups`, refinement of `ExitDiscipline` | every exit runs the cleanup forms it passes and arrives with all stacks right |
| `gh_heap` | `CleanPagesOld`, `StreamsOwn`, `CollectorInvisible` | a program cannot tell that a collection happened; no young object hides behind a clean page; a stream keeps its handle and buffer |
| `pkg_tables` | `PackageConsistent`, `LazyInvisible`, `CollectionEnds` | one symbol per name whoever creates it; lazy tables do not show; the lock never holds up a collection for ever; for programs that remove alone |
| `tl_creator`, `db_package`, `nlx_load`, `gh_refused`, `pkg_overlap` | one property each, violated | section 5 |

Bounds, and why they are enough for the cases of interest:

- *StopTheWorld*: the three roles (main, a `make-thread` worker, a thread that
  registers itself) once each.  `MaxGC` = 2 collections, so that a second one meets
  threads still leaving the first; `MaxDepth` bounds the nesting of safe regions, 2 so
  that an inner leave must not end the region.  An I/O lock is shared by two threads.
- *MPLocks*: two threads with recursion (`MaxDepth` = 2), timeouts, interrupts and destroys of
  everybody.  With three threads, an owner and two waiters, a wakeup can go to the wrong one: that case and all
  larger ones are covered by the theorem `NoLostLockWakeupCorrect`, for safety only.  No symmetry.
- *ThreadLifecycle*: one slot and three workers, so that a slot is reused twice and a
  stale wrapper meets both a live and a finished successor; two callers race.
- *DynamicBindings*: two variables in two slots, two bindings deep.  A tombstone in front of
  a live entry arises only after a rehash has changed the order of a chain, since
  removal is otherwise last-in first-out; `Collect` chooses new homes freely, so both
  orders occur.  The second thread has no bindings and races on the value cells.  In `db_safety` there is
  one package, and the other variable takes two interchangeable values (symmetry); `db_package` has two packages.

- *NonLocalExits*: all programs of up to five nested constructs with one tag of each kind.
  Five hold an exit whose cleanup form itself exits past a third construct, a handler that
  throws past the binding it runs in, a HANDLER-BIND of two clauses one of which signals again, and a restart invoked from a handler inside a cleanup.
- *GenerationalHeap*: three units, pages of two, chunks of two, so that old space ends in the
  middle of a page and a chunk is cut short; a mark stack of one entry overflows whenever an
  object has to wait; a headroom of one makes both the minor cycle that is enough and the one that is not.
  One thread mutates, the other takes memory and a handle; one slot runs out.
- *Packages*: two threads, two packages that may use each other, two names, one of which waits
  in a binding table, and four calls in all: two that race and two that prepare the
  state they meet (a use, an export).  One thread makes every call, the other those that add.

`CHECK_DEADLOCK FALSE` stands where a program may stop: all threads destroyed
or all waiting without a notify (`MPLocks`), every worker made and joined
(`ThreadLifecycle`), the heap exhausted (`GenerationalHeap`), the calls used up (`Packages`).
`StopTheWorld`, `DynamicBindings` and `NonLocalExits` are checked for deadlock.

Fairness.  `StopTheWorld!Fairness`: a thread that runs goes on running and polls
(`WF` of `Unlocked`); a thread that waits for `gc_mutex` or the list lock gets it when it is free again
and again (`SF` of `Locked`), as the operating systems' mutexes do in practice.  Nothing is assumed of a
thread inside a blocking call.  `MPLocks!FairSpec`: `WF` of each thread's steps inside the
runtime (`Internal`); a thread need never leave its critical section, and there is no fairness between
threads that compete for the lock: the code lets an acquirer barge in, so `FreeLockTaken`
says that some thread takes the lock and not which.  `ThreadLifecycle!FairSpec`: calls that have begun and
workers go on; no call need be made.  `Packages!FairSerialSpec`: `WF` of each thread's `Step`: a thread inside an
operation goes on, and takes the lock when it is free; no call need be made.

## 4. Proofs

Every safety property and refinement that a passing run checks of `StopTheWorld`, `MPLocks`,
`ThreadLifecycle`, `DynamicBindings`, `NonLocalExits`, `GenerationalHeap` and `Packages` is proved by TLAPS
for any set of threads, symbols, tags and values, any sizes and any bounds.  Constants have only the assumptions
named in the modules, plus the ones given here.

| Theorem (module `...Proofs`) | States |
|---|---|
| `StopTheWorldProofs`: `WorldStoppedCorrect`, `SingleInitiatorCorrect`, `RequestsCompleteCorrect`, `NoLostWakeupCorrect`, `NoStrandedThreadCorrect`, `CollectedSinceSeenCorrect`, `TypeCorrect` | the safety properties of `stw` |
| `StopTheWorldProofs!Refinement` | `Spec` implements `HeapAccess` |
| `MPLocksProofs`: `MutualExclusionCorrect`, `NoLostLockWakeupCorrect`, `NoLostTokenCorrect`, `WaitersCountedCorrect`, `TypeCorrect` | the safety properties of `mp` |
| `MPLocksProofs!Refinement` | `Spec` implements `Monitor` |
| `ThreadLifecycleProofs`: `MemorySafeCorrect`, `SlotIdentityCorrect`, `ResultSurvivesCorrect`, `OneOwnerCorrect`, `TypeCorrect` | the properties of `tl_reuse`, and types |
| `DynamicBindingsProofs`: `TablesSound`, `NothingLeft`, `Installed`, `TypeCorrect` | the properties of `db_safety`, and that a binding made is in the table |
| `DynamicBindingsProofs!CacheFallsBehindOnlyBy` | only the stores that `db_package` is about make the package cache fall behind a thread's own binding of `*PACKAGE*` |
| `DynamicBindingsProofs!Implementation` | `Spec` implements `SpecialVariables` |
| `NonLocalExitsProofs`: `StacksMatchAlways`, `EnabledHandlersAlways`, `NoStrayTransferAlways`, `RecordsMatchAlways` | the invariants of `nlx_exits`, for `Served` programs |
| `NonLocalExitsProofs!Implements` | `Spec` implements `ExitDiscipline`, for `Served` programs with `DistinctTags` |
| `NonLocalExitsProofs!ExitResumedAlways` | the same programs never lose an interrupted exit: the property that `nlx_load` violates with LOAD inside a protected form |
| `GenerationalHeapProofs`: `CleanPagesAlways`, `StreamsOwnAlways`, `TypeCorrect` | the invariants of `gh_heap`, and types, when `Undisturbed` |
| `GenerationalHeapProofs!CollectorInvisibleAlways` | no collection, minor or full, complete or given up, changes what the program sees, when `Undisturbed` |
| `GenerationalHeapProofs!NothingDanglesAlways` | the property that `gh_refused` violates, when `Undisturbed` |
| `PackagesProofs`: `ConsistentAlways`, `LazyInvisibleAlways` | the safety properties of `pkg_tables`, under `SerialSpec` |

None of the properties is inductive.  Each module states the invariant `IInv` that is,
as a conjunction of named parts:

- *StopTheWorld*: `SubjectInv` (who registers whom), `RegistryInv` (which labels are in the
  registry), `MutexInv` (holders and labels), `FlagsInv` (flags and labels), `RequestInv`
  and `StoppedInv` (during a stop: whom the initiator has asked, and who counts as
  stopped), `EpochInv` (the collection count a thread has seen), with the safety
  properties themselves.  The heart is that between the scan that finds no straggler and the resume
  `gc_mutex` is held, so that no thread can leave where it was counted.
- *MPLocks*: `WaitKinds`, `Where` (labels against registration and saved depth), `Ownership` (owner and
  depth against `with-lock-held` nesting), `Tokens` (a thread that was taken off a wait list
  has a token or is awake), and `NoLostLockWakeup`, preserved together as `Core`.
  `WaitersCounted` compares the counter with the cardinality of a set and is argued apart.
- *ThreadLifecycle*: `Occupied` and `Generations` (slots, structures, wrappers),
  `Makers`, `Progress` (the exit sequence of a worker), `Joiners`, `OneOwner`.
- *DynamicBindings*: the tables are good (one entry for each symbol, reachable
  from its home, counted); no entry awaits a rehash while a thread is inside an
  operation; for each thread a value is held for exactly the symbols on its stack, the
  outermost binding of a symbol and no other saved "absent", a restore is above
  its mark, and a thread that swaps a global cell has no binding of its own.  The proof
  assumes `Fits`: the symbols are finitely many and not more than the slots, which is what the code needs
  and does not check (section 5).  `CacheFallsBehindOnlyBy` has two halves:
  a thread that is `Fresh` reads and interns in the package of its binding, and no step ends that but one of its own
  `StoresUnsynced`.
- *NonLocalExits*: `Sound`, about a record `S` of all the stacks, so that one lemma serves the state before and after a
  step.  Each frame's marks cut each stack exactly at the frame's depth (`MarksOK`), its mask is the right one
  there (`MaskOK`), a clause's binding stands on those of its form (`ClauseOK`), a record names the transfer that its cleanup interrupts or the one parked below it
  (`RecordOK`, `Parked`), and such a transfer still finds its target from where the cleanup stands (`Resolves`): a tag
  by the innermost frame that has it, an error by the innermost LOAD, a clause by its frame.  The properties
  say that a stack is right now; the invariant says that it will be after the landing on any frame.  Two lemmas carry the
  steps: what holds below depth `e` survives every step that agrees with the old state
  below `e` (`EntriesStep`, `ProgramStep`), and a step either cuts back to a depth (`CutSound`) or enters one construct
  (`EnteredSound`).  `Served` leaves out the shapes "muffle", "protect" and
  "escape" (section 5), not "reenter"; `DistinctTags` is needed only to resume an exit by tag.
- *GenerationalHeap*: about the arena: references lead to objects (`RefsOK`), units past the front are empty, chunks are empty
  and apart (`ChunksOK`), a clean page of old space refers to old space (`CleanOK`), the watch is on and the shared page dirty
  (`EraOK`), the sticky marks are those of old space (`MarksOK`), no two streams, dead ones included, and no thread that is still
  to make its stream share a handle or buffer (`SlotsOK`, `WantsOK`).  About a collection in progress
  (`CollectionOK`): each marked object is scanned, waits on the stack, or the overflow flag is set (`Covered`).  That is what an
  overflow must not break, and with an empty stack and no overflow it makes the marked objects closed under
  references.  The argument: visiting marks and pushes an object once (`VisitStep`), so a drain ends within
  `ArenaSize` turns (`DrainedProperties`); a pass over the heap restores `Covered` after an overflow
  (`MarkedWalked`); the ranks of the survivors are a bijection onto the new old space (`ForwardProperties`, a counting argument),
  so the slide carries every reference (`MovingRelocates`), every path (`PathMoves`) and so what the program sees (`MovedView`).
  The recursive functions of the model exist by the lemma `Recursion`.  `Undisturbed`: `Interference` = FALSE, or
  there is one thread (section 5).
- *Packages*: `SpaceInv` (no symbol twice in a chain or on its home's export list, and a name that is still in a
  binding table though its symbol has been built is exported from its home) and `CallInv`: a thread that removes is alone and has
  read the chain as it is, a thread that materialises a table has built, or is still to build, each of its names
  (`Building`), and the stores of an operation find the table gone or the name built (`PastTables`).  The theorems are
  about `SerialSpec`, as the run is (section 5).

The refinement mappings: `mutators` are the threads at `OnHeap` labels and the collector is the one
at `Collecting`; `Monitor` sees owner, depth and the depths saved by waits; `SpecialVariables` sees
the value cells as the global values, and the binding stack with each value taken from
where it is kept: the table for the innermost binding of a symbol, what the next
binding of the same symbol saved for the others.
A restore has left the bindings above its mark as soon as it begins.  `ExitDiscipline` sees `ctl` without the locals of
a search for a handler; the proof shows of each landing that it is `ExitTo` the construct the program meant (`Goes`).

Only model-checked: `StopEnds`, `ParkedResume`, `FreeLockTaken`, `InterruptReachesWaiter`,
`JoinReturns` and `CollectionEnds`, which are liveness under fairness and out of this prover's reach.

## 5. Findings

Each of these has a run; `PROJECT.json` quotes the lines.

1. `tl_creator` (`CreatorSafe`): `platform_thread_create` stores the handle in the child's structure after the
   thread runs; a worker that is already finished can be reaped and freed by another
   `make-thread` that finds the table full.  `MemorySafe` leaves this one store out.
2. `nlx_load` (`ExitResumed`): an error inside a LOAD that has run one cleanup form is resumed by
   `OP_UWRETHROW` with a search that does not stop at LOAD's error frame, and
   goes on to an UNWIND-PROTECT around the LOAD.
3. `db_package` (`PackageFollows`): `PROGV` and `SET` of `*PACKAGE*` do not refresh the package that the reader and
   `INTERN` use, though `package.h:137` says that every change of the dynamic binding must (`vm.c:4486`,
   `builtins_mutation.c:118-130`).  Nothing else makes it stale (`CacheFallsBehindOnlyBy`).
4. `gh_refused` (`NothingDangles`): a minor cycle that gives up leaves its mark bits; the minor cycle of
   another thread before the compaction takes marked objects for visited and slides over them.
5. `pkg_overlap` (`PresentStays`): UNINTERN relinks the chain without the lock (`builtins_package.c:577-598`), and a symbol
   that another thread interns between its read and its store is lost.

Seen while modelling, and described by the models' constants or assumptions rather than by a run:

- A destroy that is pending when the cleanup form of `with-lock-held` calls `release-lock` ends the
  thread there, after `OP_UWPOP` has popped the frame: it dies with the lock held (`vm.c:3182`).
  `MPLocks` has the step.
- A worker unregisters before it stores its status; a collection in between sweeps a wrapper that
  `mp:all-threads` still lists (`builtins_thread.c:430`, `:879`).  `ThreadLifecycle` has the steps.
- The 257th variable bound at once has no place in the table, and `cl_tlv_set` drops the
  binding silently (`thread.c:779`): `Fits`.
- While the handler of one clause of a HANDLER-BIND runs, the clauses written after it in the same form stay enabled:
  they are pushed first, and the mask is cleared from the running one up (`builtins_condition.c:1541`).  The comment there
  (`:1520-1523`) says that a condition the handler signals "is handled by the *outer* handlers", and CLHS 9.1.4 that none of the form's own
  clauses is.  `EnabledHandlers` states what the mask does.
- A storage error in `make-thread`'s wrapper allocation leaks the worker, its slot and its place in the registry: the clean-up after
  `if (!tobj)` (`builtins_thread.c:617`) is never reached, since `cl_alloc` does not return NULL.  `StopTheWorld` and
  `ThreadLifecycle` have the step.
- `MUFFLE-WARNING` called by a cleanup form that interrupts an exit leaves the pending transfer
  set (`builtins_condition.c:1733-1768` against `vm.c:2436-2447`): shape "muffle".
- An error in a cleanup form inside a LOAD recovers at the LOAD, and the next UNWIND-PROTECT
  outside it takes up the abandoned exit again (`error.c:171-216`, `builtins_io.c:1003-1010`): shape "escape".
- A block's, tagbody's or restart-case's tag belongs to the form, so an exit from a closure of an outer
  activation goes to the innermost one: shape "reenter".
- A THROW and a BLOCK of the same tag with an UNWIND-PROTECT in between: the resumed
  throw stops at the block (`vm.c:5084-5088`): the tag sets are disjoint.
- UNEXPORT from the home package clears `CL_SYM_EXPORTED` though another package still exports the symbol
  (`package.c:643` against `types.h:299-300`): `PackageConsistent` speaks of the home's flag only.
- EXPORT of a symbol where another one of that name is present puts a symbol that is not present on the
  export list, and does not signal the conflict (`package.c:580-590`).
- OPEN opens the file before it allocates the stream; when the heap is exhausted the handle stays open
  (`builtins_stream.c:1141-1153`).  `GenerationalHeap` has the step (`Exhausted`).
- A name on its way out of a binding table can come back after another thread has uninterned or unexported
  it: `SerialSpec`.

## 6. Not modelled

In the modelled components: forced collections and the null guards of teardown
(`StopTheWorld`); `acquire-lock` outside `with-lock-held`, interrupt functions that themselves use
locks, the lock diagnostics, the deferral of interrupts while compiler tables are read-locked, and clock
arithmetic (`MPLocks`); `cl_thread_shutdown` and workers that join workers (`ThreadLifecycle`); the
compiler's own variables set by `cl_tlv_set`, the reader's and `COMPILE-FILE`'s saves of
`cl_current_package`, and image restore (`DynamicBindings`); the JIT's mirror of the exits, the floors of
callbacks, frames that tail calls leave behind, EXIT, the debugger, `:test` functions and the
values an exit carries (`NonLocalExits`); the mode without generations with its sweep and free list, the crossing map and objects
larger than a page, JIT pins, the rehash of address-keyed tables, and everything of streams but their handles and
buffers (`GenerationalHeap`); SHADOWING-IMPORT, the package registry, registering and shedding of
binding tables, field setters and keywords, and the extra lookup with which `bi_intern` begins, folded into
one read (`Packages`).  The Amiga and Windows versions of mutexes, condition
variables and park tokens are taken to behave as the POSIX ones.

Whole components: the reader, printer, compiler, numbers, CLOS, FASL, image, FFI and the
Lisp libraries are sequential code whose correctness is about the language or about
formats.  Instruction selection and encoding of the JIT are out of reach.
The remaining ones of section 1 are planned.

## 7. Plan

1. *MPLocks*: which function an interrupt runs when a second request overwrites the first.
2. *ThreadLifecycle*: `cl_thread_shutdown`, and workers that join workers.
3. *Hash tables*: chains, growth and the rehash after a collection, against a finite map.
4. *Immix*: lines, cursors and stale marks, against the interface that `GenerationalHeap` gives the program.
5. *JIT*: `cl_call_gen` and the call-site caches; the code heap's free list.
6. *Smaller pieces*: `ms_until` with 32-bit wraparound, the Amiga park and condition-variable emulation,
   bignum limbs and the peephole rules as operators against references.

The runs are to be folded together where they share an instance as new ones are added.
