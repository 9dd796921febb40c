-------------------------- MODULE GenerationalHeap --------------------------
(***************************************************************************)
(* The classic backend in generational mode (gc_classic.c, gc_trace.c,     *)
(* gc_compact.c): allocation from thread chunks and the bump front, minor  *)
(* collections that slide the live nursery onto the old space, full        *)
(* compactions, the bounded mark stack with its heap re-scan, the dirty    *)
(* pages behind the write watch, and the streams whose OS handles and      *)
(* output buffers a collection gives back.                                 *)
(*                                                                         *)
(* An object takes one unit of the arena.  The world is stopped while      *)
(* gc.by # NoThread (StopTheWorld); a collection takes several steps, so   *)
(* that the mark stack shows.                                              *)
(***************************************************************************)
EXTENDS Integers, Sequences, FiniteSets, SequencesExt

CONSTANTS
  Threads, NoThread,
  Writers,       \* the threads that do more than allocate
  ArenaSize,     \* units of the arena
  PageSize,      \* units of a page
  ChunkSize,     \* units of a thread's allocation chunk
  MarkLimit,     \* entries the mark stack can grow to
  Headroom,      \* nursery below this size: a minor collection is not enough
  Kinds,         \* what each thread allocates: "cons", and streams "file", "string"
  Slots,         \* OS handles, and slots of the output-buffer table at its limit
  Interference   \* FALSE leaves out that another thread runs between a
                 \* refused minor collection and the compaction after it

ASSUME HeapConstants ==
  /\ NoThread \notin Threads /\ IsFiniteSet(Threads)
  /\ {ArenaSize, PageSize, ChunkSize, MarkLimit} \subseteq Nat \ {0}
  /\ Writers \subseteq Threads /\ Kinds \in [Threads -> SUBSET {"cons", "file", "string"}]
  /\ Headroom \in Nat /\ Slots \subseteq Nat \ {0} /\ Interference \in BOOLEAN

VARIABLES
  heap,          \* the units of the arena
  bump,          \* cl_heap.bump: units 1..bump are in use
  marks,         \* the units whose header has the mark bit
  oldTop,        \* gen_old_top: units 1..oldTop are old space
  dirty,         \* gen_dirty: pages stored to since the last collection
  watched,       \* gen_protected
  chunk,         \* per thread [alloc_cur, alloc_lim)
  fin,           \* gen_fin: young finalizable objects
  reg, glob,     \* the roots: one register per thread, one shared variable
  bufs,          \* outbuf_dir: the slots in use
  open,          \* the OS handles that are open
  pc, want,      \* per thread: where it is in gcb_alloc_slow, for what object,
                 \* and the OS handle that waits for it
  missed,        \* threads for which gc_count has moved on since they read it
  gc             \* the collection in progress

vars == <<heap, bump, marks, oldTop, dirty, watched, chunk, fin, reg, glob,
          bufs, open, pc, want, missed, gc>>

Units == 1..ArenaSize
Multi == Cardinality(Threads) > 1
NoChunk == [cur |-> 0, lim |-> 0]
NoObject == [kind |-> "none", handle |-> 0]
Hole == [kind |-> "hole", next |-> 0, slot |-> 0]
NoCollection == [by |-> NoThread, kind |-> "none", phase |-> "none",
                 overflow |-> FALSE, live |-> {}, inuse |-> {}]

Page(a) == (a - 1) \div PageSize
Stopped == gc.by # NoThread
-----------------------------------------------------------------------------
(***************************************************************************)
(* Allocation.                                                             *)
(***************************************************************************)
\* The world runs, and thread t is at l.
At(t, l) ==
  /\ ~Stopped /\ pc[t] = l
  /\ Interference \/ pc[t] = "refused" \/ \A u \in Threads : pc[u] # "refused"

FirstFree(used) == CHOOSE s \in Slots \ used : \A r \in Slots \ used : s <= r

\* What an allocation is for: OPEN has opened the file before it makes the
\* stream.
Wanted(kind) == [kind |-> kind, handle |-> IF kind = "file" THEN FirstFree(open) ELSE 0]

\* cl_alloc at unit a: zero the block, write the header (born unmarked), note
\* a finalizable object.  A string output stream still lacks its buffer.
NewObject(t, w, a) ==
  /\ heap' = [heap EXCEPT ![a] = [kind |-> w.kind,
                                  next |-> IF w.kind = "cons" THEN reg[t] ELSE 0,
                                  slot |-> w.handle]]
  /\ marks' = marks \ {a}
  /\ fin' = IF w.kind = "cons" THEN fin ELSE fin \union {a}
  /\ reg' = [reg EXCEPT ![t] = a]
  /\ pc' = [pc EXCEPT ![t] = IF w.kind = "string" THEN "buffer" ELSE "run"]
  /\ want' = [want EXCEPT ![t] = NoObject]

CutChunk(c) == IF c.cur + 1 = c.lim THEN NoChunk ELSE [c EXCEPT !.cur = @ + 1]

\* gcb_alloc_fast, then the first half of gcb_alloc_slow: a cut from the chunk,
\* a new chunk, or the bump front; a minor collection when there is none.
Alloc(t, kind) ==
  /\ At(t, "run")
  /\ IF kind = "file" THEN open # Slots /\ open' = open \union {FirstFree(open)}
                       ELSE UNCHANGED open
  /\ \/ /\ chunk[t].cur # 0
        /\ NewObject(t, Wanted(kind), chunk[t].cur)
        /\ chunk' = [chunk EXCEPT ![t] = CutChunk(@)]
        /\ UNCHANGED bump
     \/ /\ chunk[t].cur = 0 /\ Multi /\ bump + ChunkSize <= ArenaSize
        /\ NewObject(t, Wanted(kind), bump + 1)
        /\ bump' = bump + ChunkSize
        /\ chunk' = [chunk EXCEPT ![t] = CutChunk([cur |-> bump + 1, lim |-> bump + ChunkSize + 1])]
     \/ /\ chunk[t].cur = 0 /\ ~(Multi /\ bump + ChunkSize <= ArenaSize) /\ bump < ArenaSize
        /\ NewObject(t, Wanted(kind), bump + 1)
        /\ bump' = bump + 1
        /\ UNCHANGED chunk
     \/ /\ chunk[t].cur = 0 /\ bump = ArenaSize
        /\ pc' = [pc EXCEPT ![t] = "minor"]
        /\ want' = [want EXCEPT ![t] = Wanted(kind)]
        /\ UNCHANGED <<heap, bump, marks, chunk, fin, reg>>
  /\ UNCHANGED <<oldTop, dirty, watched, glob, bufs, missed, gc>>

\* gcb_alloc_slow after the minor collection and after the compaction.
Retry(t) ==
  /\ \/ At(t, "minored") /\ ArenaSize - oldTop >= Headroom
     \/ At(t, "compacted")
  /\ bump < ArenaSize
  /\ NewObject(t, want[t], bump + 1)
  /\ bump' = bump + 1
  /\ UNCHANGED <<oldTop, dirty, watched, chunk, glob, bufs, open, missed, gc>>

Escalate(t) ==
  /\ At(t, "minored") /\ (ArenaSize - oldTop < Headroom \/ bump = ArenaSize)
  /\ pc' = [pc EXCEPT ![t] = "compact"]
  /\ UNCHANGED <<heap, bump, marks, oldTop, dirty, watched, chunk, fin, reg, glob, bufs,
                 open, want, missed, gc>>

\* cl_storage_error; the handle of a stream that was not made stays open.
Exhausted(t) ==
  /\ At(t, "compacted") /\ bump = ArenaSize
  /\ pc' = [pc EXCEPT ![t] = "run"]
  /\ want' = [want EXCEPT ![t] = NoObject]
  /\ UNCHANGED <<heap, bump, marks, oldTop, dirty, watched, chunk, fin, reg, glob, bufs,
                 open, missed, gc>>
-----------------------------------------------------------------------------
(***************************************************************************)
(* The mark phase.  m carries the mark bits, the mark stack, its overflow  *)
(* flag, the survivors noted by a minor cycle and the buffers in use.      *)
(***************************************************************************)
Marking == [marks |-> marks, stack |-> <<>>, overflow |-> gc.overflow,
            live |-> gc.live, inuse |-> gc.inuse]

\* Mutant of Visit: the dropped object is not remembered.
VisitForgets(m, a) ==
  IF a = 0 \/ a \in m.marks THEN m
  ELSE [m EXCEPT !.marks = @ \union {a},
                 !.live = IF a > oldTop THEN @ \union {a} ELSE @,
                 !.stack = IF Len(@) < MarkLimit THEN Append(@, a) ELSE @]

\* gc_mark_visit: an object is marked when a reference to it is seen; when the
\* stack is full it stays marked and its children wait for the re-scan.
Visit(m, a) ==
  IF a = 0 \/ a \in m.marks THEN m
  ELSE [m EXCEPT !.marks = @ \union {a},
                 !.live = IF a > oldTop THEN @ \union {a} ELSE @,
                 !.stack = IF Len(@) < MarkLimit THEN Append(@, a) ELSE @,
                 !.overflow = @ \/ Len(m.stack) >= MarkLimit]

\* Mutant of VisitChildren: the buffer of a live stream is not pinned.
VisitChildrenOnly(m, a) == Visit(m, heap[a].next)

\* gc_mark_children, with the buffer of an output stream.
VisitChildren(m, a) ==
  LET n == Visit(m, heap[a].next)
  IN [n EXCEPT !.inuse = IF heap[a].kind = "string" THEN @ \union {heap[a].slot} ELSE @]

\* Step for each unit of S, in the order of the addresses.
Walk(m, S, Step(_, _)) ==
  LET after[n \in 0..ArenaSize] ==
        IF n = 0 THEN m ELSE IF n \in S THEN Step(after[n - 1], n) ELSE after[n - 1]
  IN after[ArenaSize]

\* The children of an object that is marked when its turn comes.
VisitMarked(m, a) == IF a \in m.marks THEN VisitChildren(m, a) ELSE m

\* gc_visit_roots
VisitRoots(m) == Visit(Walk(m, {reg[t] : t \in Threads}, Visit), glob)

\* gc_mark_drain: scan the object on top of the stack until there is none.  An
\* object is pushed once, so ArenaSize scans are enough.
Drained(m) ==
  LET after[n \in 0..ArenaSize] ==
        IF n = 0 THEN m
        ELSE LET k == after[n - 1]
             IN IF k.stack = <<>> THEN k
                ELSE VisitChildren([k EXCEPT !.stack = Front(@)], Last(k.stack))
  IN after[ArenaSize]

\* A collection by t begins: every chunk is dropped, the roots are marked.
Begin(t, kind, bits) ==
  LET m == Drained(VisitRoots([marks |-> bits, stack |-> <<>>, overflow |-> FALSE,
                               live |-> {}, inuse |-> {}]))
  IN /\ chunk' = [u \in Threads |-> NoChunk]
     /\ watched' = FALSE
     /\ marks' = m.marks
     /\ gc' = [by |-> t, kind |-> kind, phase |-> "trace",
               overflow |-> m.overflow, live |-> m.live, inuse |-> m.inuse]

\* cl_gc_minor, unless a peer has collected meanwhile.
StartMinor(t) ==
  /\ At(t, "minor")
  /\ IF Multi /\ t \in missed
       THEN /\ pc' = [pc EXCEPT ![t] = "minored"]
            /\ UNCHANGED <<marks, watched, chunk, gc>>
       ELSE /\ Begin(t, "minor", marks)
            /\ UNCHANGED pc
  /\ missed' = missed \ {t}
  /\ UNCHANGED <<heap, bump, oldTop, dirty, fin, reg, glob, bufs, open, want>>

\* cl_gc_compact; gcb_compact_begin clears the sticky marks.
Compact(t) ==
  /\ Begin(t, "compact", {})
  /\ UNCHANGED <<heap, bump, oldTop, dirty, fin, reg, glob, bufs, open, pc, want, missed>>

\* After a refused minor collection or one that freed too little, and when the
\* output-buffer table is full.
StartCompact(t) == (\E l \in {"refused", "compact", "buffer_gc"} : At(t, l)) /\ Compact(t)

\* (ext:gc)
Collect(t) == At(t, "run") /\ Compact(t)

\* The mark phase has come to phase p, with m.
Traced(m, p) ==
  /\ marks' = m.marks
  /\ gc' = [gc EXCEPT !.phase = p, !.overflow = m.overflow, !.live = m.live, !.inuse = m.inuse]
  /\ UNCHANGED <<heap, bump, oldTop, dirty, watched, chunk, fin, reg, glob, bufs, open,
                 pc, want, missed>>

\* One pass of gc_mark's overflow loop over the arena.
Rescan ==
  /\ Stopped /\ gc.overflow /\ gc.phase = "trace"
  /\ Traced(Drained(Walk([Marking EXCEPT !.overflow = FALSE], 1..bump, VisitMarked)), "trace")

\* gen_walk_dirty_objects(0): the old objects on dirty pages.
DirtyObjects == {a \in 1..oldTop : Page(a) \in dirty}

WalkDirty ==
  /\ Stopped /\ ~gc.overflow /\ gc.phase = "trace" /\ gc.kind = "minor"
  /\ Traced(Drained(Walk(Marking, DirtyObjects, VisitChildren)), "dirty")
-----------------------------------------------------------------------------
(***************************************************************************)
(* The end of a collection.                                                *)
(***************************************************************************)
\* The survivors S slide down onto unit base, in order.
Forward(a, base, S) ==
  IF a \in S THEN base + Cardinality({b \in S : b <= a}) ELSE a

\* gc_update_children
Updated(cell, base, S) ==
  [cell EXCEPT !.next = Forward(@, base, S)]

\* The arena with the survivors S moved to base + 1, base + 2, ... and the
\* references of the old objects in D updated.
Slid(base, S, D) ==
  LET At1(b) == CHOOSE a \in S : Forward(a, base, S) = b
  IN [b \in Units |->
        CASE b <= base -> IF b \in D THEN Updated(heap[b], base, S) ELSE heap[b]
          [] b > base /\ b <= base + Cardinality(S) -> Updated(heap[At1(b)], base, S)
          [] OTHER -> Hole]

UpdateRoots(base, S) ==
  /\ reg' = [t \in Threads |-> Forward(reg[t], base, S)]
  /\ glob' = Forward(glob, base, S)

\* Mutant of FreshEra: the shared page counts as clean.
FreshEraClean(top) == watched' = TRUE /\ dirty' = {}

\* gen_protect_old over a fresh dirty era: the page that old space shares with
\* the nursery cannot be protected and counts as dirty.
FreshEra(top) ==
  /\ watched' = TRUE
  /\ dirty' = IF top % PageSize = 0 THEN {} ELSE {top \div PageSize}

\* Units 1..top are old space now, and there is no young object.
Promoted(top) ==
  oldTop' = top /\ bump' = top /\ FreshEra(top) /\ fin' = {}

\* gc_finalize_dead: the OS handles of the streams in the units of D.
Finalized(D) == open \ {heap[a].slot : a \in {b \in D : heap[b].kind = "file"}}

\* The world runs again and gc_count has moved.
Resume(l) ==
  /\ gc' = NoCollection
  /\ pc' = [pc EXCEPT ![gc.by] = l]

Count == missed' = missed \union {u \in Threads \ {gc.by} : pc[u] = "minor"}

\* A minor cycle gives up when its dirty walk overflowed the mark stack, or
\* when the list of survivors could not grow (gen_live_oom).
RefuseMinor ==
  /\ Stopped /\ gc.phase = "dirty"
  /\ gc.overflow \/ gc.live # {}
  /\ Resume("refused")
  /\ UNCHANGED <<heap, bump, marks, oldTop, dirty, watched, chunk, fin, reg, glob, bufs,
                 open, want, missed>>

FinishMinor ==
  LET S == gc.live
      top == oldTop + Cardinality(S)
  IN /\ Stopped /\ gc.phase = "dirty" /\ ~gc.overflow
     /\ UpdateRoots(oldTop, S)
     /\ open' = Finalized(fin \ marks)
     /\ heap' = Slid(oldTop, S, DirtyObjects)
     /\ marks' = (marks \intersect 1..oldTop) \union (oldTop + 1)..top
     /\ Promoted(top)
     /\ Count /\ Resume("minored")
     /\ UNCHANGED <<chunk, bufs, want>>

\* cl_stream_outbuf_gc_reclaim, then forwarding, update and slide of the whole
\* arena; gcb_compact_done makes it old space.
FinishCompact ==
  LET S == marks
      top == Cardinality(S)
  IN /\ Stopped /\ gc.kind = "compact" /\ ~gc.overflow
     /\ bufs' = bufs \intersect gc.inuse
     /\ UpdateRoots(0, S)
     /\ open' = Finalized((1..bump) \ S)
     /\ heap' = Slid(0, S, {})
     /\ marks' = 1..top
     /\ Promoted(top)
     /\ Count
     /\ Resume(CASE pc[gc.by] \in {"refused", "compact"} -> "compacted"
                 [] pc[gc.by] = "buffer_gc" -> "buffer_retry"
                 [] OTHER -> "run")
     /\ UNCHANGED <<chunk, want>>
-----------------------------------------------------------------------------
(***************************************************************************)
(* The program.                                                            *)
(***************************************************************************)
\* A store into unit a: the write watch notes the first one on a protected
\* page (ww_handler), that is one which old space fills.
Touch(a) ==
  dirty' = IF watched /\ (Page(a) + 1) * PageSize <= oldTop
             THEN dirty \union {Page(a)} ELSE dirty

Keeps == UNCHANGED <<bump, marks, oldTop, watched, chunk, fin, want, missed, gc>>

Read(t, a) ==
  /\ At(t, "run")
  /\ reg' = [reg EXCEPT ![t] = a]
  /\ Keeps /\ UNCHANGED <<heap, dirty, glob, bufs, open, pc>>

Share(t) ==
  /\ At(t, "run")
  /\ glob' = reg[t]
  /\ Keeps /\ UNCHANGED <<heap, dirty, reg, bufs, open, pc>>

\* (setf (cdr g) r)
Write(t) ==
  /\ At(t, "run") /\ glob # 0 /\ heap[glob].kind = "cons"
  /\ heap' = [heap EXCEPT ![glob].next = reg[t]]
  /\ Touch(glob)
  /\ Keeps /\ UNCHANGED <<reg, glob, bufs, open, pc>>

\* cl_stream_alloc_outbuf and the rest of cl_make_string_output_stream; a full
\* table is collected once.
TakeBuffer(t) ==
  /\ At(t, "buffer") \/ At(t, "buffer_retry")
  /\ bufs # Slots
  /\ bufs' = bufs \union {FirstFree(bufs)}
  /\ heap' = [heap EXCEPT ![reg[t]].slot = FirstFree(bufs)]
  /\ Touch(reg[t])
  /\ pc' = [pc EXCEPT ![t] = "run"]
  /\ Keeps /\ UNCHANGED <<reg, glob, open>>

\* The table is full: a collection, and after it an error.
NoBuffer(t) ==
  /\ bufs = Slots
  /\ \/ /\ At(t, "buffer")
        /\ pc' = [pc EXCEPT ![t] = "buffer_gc"]
        /\ UNCHANGED reg
     \/ /\ At(t, "buffer_retry")
        /\ pc' = [pc EXCEPT ![t] = "run"]
        /\ reg' = [reg EXCEPT ![t] = 0]
  /\ Keeps /\ UNCHANGED <<heap, dirty, glob, bufs, open>>

\* cl_stream_close
Close(t) ==
  /\ At(t, "run") /\ reg[t] # 0 /\ heap[reg[t]].slot # 0
  /\ LET cell == heap[reg[t]]
     IN /\ open' = IF cell.kind = "file" THEN open \ {cell.slot} ELSE open
        /\ bufs' = IF cell.kind = "string" THEN bufs \ {cell.slot} ELSE bufs
  /\ heap' = [heap EXCEPT ![reg[t]].slot = 0]
  /\ Touch(reg[t])
  /\ Keeps /\ UNCHANGED <<reg, glob, pc>>

-----------------------------------------------------------------------------
Init ==
  /\ heap = [a \in Units |-> Hole] /\ bump = 0 /\ marks = {} /\ oldTop = 0
  /\ dirty = {} /\ watched = FALSE /\ chunk = [t \in Threads |-> NoChunk] /\ fin = {}
  /\ reg = [t \in Threads |-> 0] /\ glob = 0
  /\ bufs = {} /\ open = {}
  /\ pc = [t \in Threads |-> "run"] /\ want = [t \in Threads |-> NoObject]
  /\ missed = {} /\ gc = NoCollection

Program(t) ==
  \/ Read(t, glob)
  \/ reg[t] # 0 /\ Read(t, heap[reg[t]].next)
  \/ Share(t)
  \/ Write(t)
  \/ Close(t)
  \/ Collect(t)

Runtime(t) ==
  \/ Retry(t)
  \/ Escalate(t)
  \/ Exhausted(t)
  \/ TakeBuffer(t)
  \/ NoBuffer(t)
  \/ StartMinor(t)
  \/ StartCompact(t)

CollectStep == Rescan \/ WalkDirty \/ RefuseMinor \/ FinishMinor \/ FinishCompact

Next ==
  \/ \E t \in Threads : \E kind \in Kinds[t] : Alloc(t, kind)
  \/ \E t \in Writers : Program(t)
  \/ \E t \in Threads : Runtime(t)
  \/ CollectStep

Spec == Init /\ [][Next]_vars
-----------------------------------------------------------------------------
(***************************************************************************)
(* Properties.                                                             *)
(***************************************************************************)
\* The program's variables: the register of each thread and the shared one.
Variable(v) == IF v = NoThread THEN glob ELSE reg[v]

\* The units on the path from a variable, after 0, 1, 2, ... reads.
Path(v) ==
  LET at[n \in 0..ArenaSize] ==
        IF n = 0 THEN Variable(v) ELSE IF at[n - 1] = 0 THEN 0 ELSE heap[at[n - 1]].next
  IN at

Paths == [v \in Threads \union {NoThread} |-> Path(v)]

\* The units the program can reach.
Reach == (UNION {Range(Path(v)) : v \in Threads \union {NoThread}}) \ {0}

\* What the program can see: each object with the paths that lead to it.
View ==
  LET paths == Paths
      places == (DOMAIN paths) \X (0..ArenaSize)
  IN {[kind |-> heap[a].kind, slot |-> heap[a].slot,
       places |-> {p \in places : paths[p[1]][p[2]] = a}] :
      a \in {paths[p[1]][p[2]] : p \in places} \ {0}}

\* Type correctness: old space is below the bump front, the mark bits and the
\* list of young finalizable objects name units in use.
TypeOK ==
  /\ bump \in 0..ArenaSize /\ oldTop \in 0..bump /\ marks \subseteq 1..bump
  /\ \A a \in Units : heap[a].next \in 0..ArenaSize /\ heap[a].slot \in Slots \union {0}
  /\ fin \subseteq 1..bump

\* Every reference the program can follow leads to an object: what cl_gc_minor
\* says of a refused collection, "The world stays consistent: compaction clears
\* all marks up front" (gc_classic.c).
NothingDangles == \A a \in Reach : a <= bump /\ heap[a].kind # "hole"

\* The collector is invisible: at the end of a collection every path from a
\* variable of the program leads to the object that it led to before, and two
\* paths meet where they met.  It takes the sticky marks, the dirty pages, the
\* re-scan after an overflow of the mark stack and the slide to get it right.
CollectorInvisible == [][Stopped /\ ~Stopped' => View' = View]_vars

\* The invariant behind a minor collection: an object of old space on a page
\* that is clean refers to nothing in the nursery (gc_classic.c, "A page that is
\* clean at the next minor GC cannot reference any object allocated after the
\* previous one").
CleanPagesOld ==
  ~Stopped => \A a \in 1..oldTop : Page(a) \notin dirty => heap[a].next <= oldTop

\* A stream the program can reach still has its own OS handle or its own
\* buffer, whatever the collections between closed, reclaimed and gave to
\* others (stream.c, CL_OutBuf).
StreamsOwn ==
  LET streams == {a \in Reach : heap[a].slot # 0}
  IN \A a \in streams :
       /\ heap[a].slot \in (IF heap[a].kind = "file" THEN open ELSE bufs)
       /\ \A b \in streams \ {a} : heap[b].kind = heap[a].kind => heap[b].slot # heap[a].slot
=============================================================================
