-------------------------- MODULE DynamicBindings --------------------------
(***************************************************************************)
(* Dynamic binding of special variables: each thread's stack of saved      *)
(* values (dyn_stack) over its thread-local value table (TlvTable), the    *)
(* symbols' shared global value cells, the per-thread cache of *PACKAGE*   *)
(* (current_package), and the rehash of every table after a collection     *)
(* that moves symbols.  thread.c, vm.c, package.c, gc_compact.c and the    *)
(* JIT runtime's mirrors in jit/runtime.c.                                 *)
(*                                                                         *)
(* A table, a stack and a package cache are touched by their own thread    *)
(* only, and none of the operations holds a safepoint, so an operation is  *)
(* one step except where it loops: cl_dynbind_restore_to pops one binding  *)
(* per step, and cl_cas_cell reads and swaps in two steps between which    *)
(* other threads store.  PROGV_BIND's loop is one ProgvBind per variable.  *)
(***************************************************************************)
EXTENDS TlvTable, Sequences

CONSTANTS Threads,
          Binders,    \* the threads whose programs have binding forms
          Unbound,    \* CL_UNBOUND as a value
          Packages,   \* the values that are packages
          Package,    \* *PACKAGE*
          Stored,     \* Stored[s]: the values programs bind or assign to s
          MaxDyn,     \* CL_MAX_DYN_BINDINGS
          NoAnswer    \* the last step returned no value

ASSUME ValueAssumption   == Unbound \in Values /\ Packages \subseteq Values \ {Unbound}
ASSUME PackageAssumption == Package \in Symbols
ASSUME MaxDynAssumption  == MaxDyn \in Nat
ASSUME StoredAssumption  == Stored \in [Symbols -> SUBSET (Values \ {Unbound})]
ASSUME BinderAssumption  == Binders \subseteq Threads

VARIABLES hash,             \* the home slot of each symbol: it moves with the symbol
          tlv,              \* t->tlv_table with t->tlv_entry_count
          dyn_stack,        \* t->dyn_stack[0 .. t->dyn_top - 1]
          value,            \* the value cell of each symbol
          current_package,  \* t->current_package
          ret,              \* what the last step returned to its caller
          op,               \* the loop a thread is in
          live              \* entries of t that cl_tlv_rehash has yet to put back

vars == <<hash, tlv, dyn_stack, value, current_package, ret, op, live>>
-----------------------------------------------------------------------------
DynBinding == [symbol : Symbols, old_value : Values \cup {Absent}]

\* What a read returned, and the value that the caller takes to be stored: a
\* caller of compare-and-swap tests the result with EQ against old.
Returned(t, v, new) == [thread |-> t, value |-> v, stored |-> new]
Answer(t, v, old, new) == Returned(t, v, IF v = old THEN new ELSE NoAnswer)

Run == [pc |-> "run"]
Restore(mark, touched) == [pc |-> "restore", mark |-> mark, touched |-> touched]
Cas(pc, s, old, new) == [pc |-> pc, symbol |-> s, old |-> old, new |-> new]

Op == {Run}
      \cup [pc : {"restore"}, mark : 0 .. MaxDyn, touched : BOOLEAN]
      \cup [pc : {"reread", "swap"}, symbol : Symbols, old : Values, new : Values]

TypeOK ==
  /\ hash \in [Symbols -> Slots]
  /\ tlv \in [Threads -> Table]
  /\ dyn_stack \in [Threads -> Seq(DynBinding)]
  /\ \A t \in Threads : Len(dyn_stack[t]) <= MaxDyn
  /\ value \in [Symbols -> Values]
  /\ current_package \in [Threads -> Packages]
  /\ ret \in [thread : Threads, value : Values, stored : Values \cup {NoAnswer}]
            \cup {NoAnswer}
  /\ op \in [Threads -> Op]
  /\ live \in [Threads -> SUBSET [symbol : Symbols, value : Values]]

Init ==
  /\ hash \in [Symbols -> Slots]
  /\ tlv = [t \in Threads |-> EmptyTable]
  /\ dyn_stack = [t \in Threads |-> <<>>]
  /\ value \in [Symbols -> Values] /\ value[Package] \in Packages
  /\ \A s \in Symbols : value[s] \in Stored[s] \cup {Unbound}
  /\ current_package = [t \in Threads |-> value[Package]]
  /\ ret = NoAnswer
  /\ op = [t \in Threads |-> Run]
  /\ live = [t \in Threads |-> {}]
-----------------------------------------------------------------------------
\* The thread executes its program: no loop is under way, nor a collection.
Running(t) == op[t] = Run /\ \A u \in Threads : live[u] = {}

Get(t, s) == cl_tlv_get(tlv[t], hash[s], s)

\* The read of a variable, given a table and the value cells.
cl_symbol_value_on(tab, cells, s) ==
  LET v == cl_tlv_get(tab, hash[s], s)
  IN  IF tab.count > 0 /\ v # Absent THEN v ELSE cells[s]

\* Refresh t's package cache from what t now sees as *PACKAGE*.
cl_sync_current_package_from_dynamic(t) ==
  LET v == cl_symbol_value_on(tlv'[t], value', Package)
  IN  current_package' = [current_package EXCEPT ![t] = IF v \in Packages THEN v ELSE @]

SyncIf(cond, t) == IF cond THEN cl_sync_current_package_from_dynamic(t)
                   ELSE UNCHANGED current_package

\* Mutant of Push: no overflow check.
PushUnchecked(t, s, v) ==
  /\ t \in Binders /\ Len(dyn_stack[t]) <= MaxDyn
  /\ dyn_stack' = [dyn_stack EXCEPT ![t] = Append(@, [symbol |-> s, old_value |-> Get(t, s)])]
  /\ tlv' = [tlv EXCEPT ![t] = cl_tlv_set(@, hash[s], s, v)]
  /\ ret' = NoAnswer
  /\ UNCHANGED <<hash, value, op, live>>

\* Save t's entry for s on the stack, then install v.
Push(t, s, v) ==
  /\ t \in Binders
  /\ Len(dyn_stack[t]) < MaxDyn
  /\ dyn_stack' = [dyn_stack EXCEPT ![t] = Append(@, [symbol |-> s, old_value |-> Get(t, s)])]
  /\ tlv' = [tlv EXCEPT ![t] = cl_tlv_set(@, hash[s], s, v)]
  /\ ret' = NoAnswer
  /\ UNCHANGED <<hash, value, op, live>>

\* OP_DYNBIND, cl_dynbind_c, cl_jit_runtime_dynbind.
DynBind(t, s, v) ==
  /\ Running(t)
  /\ Push(t, s, v)
  /\ SyncIf(s = Package, t)

\* One iteration of OP_PROGV_BIND's loop: the same without the sync; a
\* variable without a value is bound to CL_UNBOUND.
ProgvBind(t, s, v) ==
  /\ Running(t)
  /\ Push(t, s, v)
  /\ UNCHANGED current_package

\* cl_dynbind_restore_to(mark): from OP_DYNUNBIND, OP_PROGV_UNBIND, a C
\* builtin's return, or a non-local exit or error caught at an outer frame.
RestoreTo(t, mark) ==
  /\ Running(t)
  /\ mark < Len(dyn_stack[t])
  /\ op' = [op EXCEPT ![t] = Restore(mark, FALSE)]
  /\ ret' = NoAnswer
  /\ UNCHANGED <<hash, tlv, dyn_stack, value, current_package, live>>

\* Mutant of Restored: an absent old value is put back as CL_UNBOUND.
RestoredUnbound(tab, b) ==
  cl_tlv_set(tab, hash[b.symbol], b.symbol, IF b.old_value = Absent THEN Unbound ELSE b.old_value)

\* The table with the saved value of b back.
Restored(tab, b) ==
  IF b.old_value = Absent
  THEN cl_tlv_remove(tab, hash[b.symbol], b.symbol)
  ELSE cl_tlv_set(tab, hash[b.symbol], b.symbol, b.old_value)

TouchedPackage(touched, b) == touched \/ b.symbol = Package

RestorePop(t) ==
  LET top == Len(dyn_stack[t])
      b   == dyn_stack[t][top]
  IN  /\ op[t].pc = "restore" /\ top > op[t].mark
      /\ dyn_stack' = [dyn_stack EXCEPT ![t] = SubSeq(@, 1, top - 1)]
      /\ tlv' = [tlv EXCEPT ![t] = Restored(@, b)]
      /\ op' = [op EXCEPT ![t] = Restore(op[t].mark, TouchedPackage(op[t].touched, b))]
      /\ ret' = NoAnswer
      /\ UNCHANGED <<hash, value, current_package, live>>

RestoreDone(t) ==
  /\ op[t].pc = "restore" /\ Len(dyn_stack[t]) = op[t].mark
  /\ op' = [op EXCEPT ![t] = Run]
  /\ ret' = NoAnswer
  /\ UNCHANGED <<hash, tlv, dyn_stack, value, live>>
  /\ SyncIf(op[t].touched, t)
-----------------------------------------------------------------------------
\* OP_GLOAD; BOUNDP tests the same value against CL_UNBOUND.
Gload(t, s) ==
  /\ Running(t)
  /\ ret' = Returned(t, cl_symbol_value_on(tlv[t], value, s), NoAnswer)
  /\ UNCHANGED <<hash, tlv, dyn_stack, value, current_package, op, live>>

\* t's own entry if it has one, else the global cell.
cl_set_symbol_value(t, s, v) ==
  IF tlv[t].count > 0 /\ Get(t, s) # Absent
  THEN tlv' = [tlv EXCEPT ![t] = cl_tlv_set(@, hash[s], s, v)] /\ UNCHANGED value
  ELSE value' = [value EXCEPT ![s] = v] /\ UNCHANGED tlv

\* OP_GSTORE, cl_jit_runtime_gstore.
Gstore(t, s, v) ==
  /\ Running(t)
  /\ cl_set_symbol_value(t, s, v)
  /\ ret' = NoAnswer
  /\ UNCHANGED <<hash, dyn_stack, op, live>>
  /\ SyncIf(s = Package, t)

\* SET, (SETF SYMBOL-VALUE) and MAKUNBOUND.
SetSymbolValue(t, s, v) ==
  /\ Running(t)
  /\ cl_set_symbol_value(t, s, v)
  /\ ret' = NoAnswer
  /\ UNCHANGED <<hash, dyn_stack, current_package, op, live>>

\* cl_symbol_value_cas where t has an entry of its own: compare, then store.
CasLocal(t, s, old, new) ==
  /\ Running(t)
  /\ tlv[t].count > 0 /\ Get(t, s) # Absent
  /\ ret' = Answer(t, Get(t, s), old, new)
  /\ tlv' = [tlv EXCEPT ![t] = IF Get(t, s) = old THEN cl_tlv_set(@, hash[s], s, new) ELSE @]
  /\ UNCHANGED <<hash, dyn_stack, value, current_package, op, live>>

\* The read that opens an iteration of cl_cas_cell: another value than old is
\* the answer.
CasRead(t, s, old, new) ==
  /\ IF value[s] = old
     THEN op' = [op EXCEPT ![t] = Cas("swap", s, old, new)] /\ ret' = NoAnswer
     ELSE op' = [op EXCEPT ![t] = Run] /\ ret' = Answer(t, value[s], old, new)
  /\ UNCHANGED <<hash, tlv, dyn_stack, value, current_package, live>>

CasGlobal(t, s, old, new) ==
  /\ Running(t)
  /\ ~(tlv[t].count > 0 /\ Get(t, s) # Absent)
  /\ CasRead(t, s, old, new)

\* Mutant of CasReread: after a failed swap whatever the cell now holds is the
\* answer, though it may hold old again.
CasRereadReturns(t) ==
  /\ op[t].pc = "reread"
  /\ op' = [op EXCEPT ![t] = Run]
  /\ ret' = Answer(t, value[op[t].symbol], op[t].old, op[t].new)
  /\ UNCHANGED <<hash, tlv, dyn_stack, value, current_package, live>>

CasReread(t) ==
  /\ op[t].pc = "reread"
  /\ CasRead(t, op[t].symbol, op[t].old, op[t].new)

\* platform_atomic_cas: swap and return old, or go round again.
CasSwap(t) ==
  /\ op[t].pc = "swap"
  /\ IF value[op[t].symbol] = op[t].old
     THEN /\ value' = [value EXCEPT ![op[t].symbol] = op[t].new]
          /\ ret' = Answer(t, op[t].old, op[t].old, op[t].new)
          /\ op' = [op EXCEPT ![t] = Run]
     ELSE /\ op' = [op EXCEPT ![t] = Cas("reread", op[t].symbol, op[t].old, op[t].new)]
          /\ ret' = NoAnswer
          /\ UNCHANGED value
  /\ UNCHANGED <<hash, tlv, dyn_stack, current_package, live>>
-----------------------------------------------------------------------------
\* A collection with the world stopped moves symbols, then cl_tlv_rehash saves
\* the live entries of every thread that has any and clears its table.
Collect ==
  /\ \A t \in Threads : Running(t)
  /\ hash' \in [Symbols -> Slots]
  /\ live' = [t \in Threads |-> IF tlv[t].count = 0 THEN {} ELSE Entries(tlv[t])]
  /\ tlv' = [t \in Threads |-> IF tlv[t].count = 0 THEN tlv[t] ELSE EmptyTable]
  /\ ret' = NoAnswer
  /\ UNCHANGED <<dyn_stack, value, current_package, op>>

\* It puts the saved entries back one by one under their new homes.
Rehash(t, e) ==
  /\ e \in live[t]
  /\ live' = [live EXCEPT ![t] = @ \ {e}]
  /\ tlv' = [tlv EXCEPT ![t] = cl_tlv_set(@, hash[e.symbol], e.symbol, e.value)]
  /\ ret' = NoAnswer
  /\ UNCHANGED <<hash, dyn_stack, value, current_package, op>>

ThreadNext(t) ==
  \/ \E s \in Symbols :
       \/ \E v \in Stored[s] : DynBind(t, s, v)
       \/ \E v \in Stored[s] \cup {Unbound} : ProgvBind(t, s, v)
       \/ \E v \in Stored[s] : Gstore(t, s, v)
       \/ \E v \in Stored[s] \cup {Unbound} : SetSymbolValue(t, s, v)
       \/ Gload(t, s)
       \/ \E old, new \in Stored[s] : CasLocal(t, s, old, new)
       \/ \E old, new \in Stored[s] : CasGlobal(t, s, old, new)
  \/ \E mark \in 0 .. MaxDyn : RestoreTo(t, mark)
  \/ RestorePop(t)
  \/ RestoreDone(t)
  \/ CasReread(t)
  \/ CasSwap(t)

Next ==
  \/ \E t \in Threads : ThreadNext(t)
  \/ Collect
  \/ \E t \in Threads : \E e \in live[t] : Rehash(t, e)

Spec == Init /\ [][Next]_vars
-----------------------------------------------------------------------------
\* No symbol has two entries, no probe for an entry's symbol meets an empty
\* slot before the entry, and tlv_entry_count counts the entries: what makes
\* the probe loops and the fast path that skips them right, through removals
\* that leave tombstones and collections that move the symbols.
Unique(tab) == \A i, j \in Live(tab) : tab.slot[i].symbol = tab.slot[j].symbol => i = j
Reachable(tab, h) ==
  \A i \in Live(tab), j \in Slots :
    Dist(h[tab.slot[i].symbol], j) < Dist(h[tab.slot[i].symbol], i) => tab.slot[j].symbol # Empty
Counted(tab) == tab.count = Cardinality(Live(tab))

TableOK == \A t \in Threads : Unique(tlv[t]) /\ Reachable(tlv[t], hash) /\ Counted(tlv[t])

\* A thread that runs no binding form has no entry left, so that its reads take
\* the fast path again: restoring an absent old value removes the entry
\* (cl_dynbind_c's comment).
NoResidue ==
  \A t \in Threads : dyn_stack[t] = <<>> => tlv[t].count = 0 /\ Live(tlv[t]) = {} /\ live[t] = {}

\* A binding form installs a thread-local override: while the binding is on
\* the stack and the thread runs, its table has an entry for the variable
\* (cl_dynbind_c's comment).
BindingInstalled ==
  \A t \in Threads : Running(t) =>
    \A i \in 1 .. Len(dyn_stack[t]) : Get(t, dyn_stack[t][i].symbol) # Absent

\* Where a thread has bound *PACKAGE*, the package its reader and INTERN use
\* is the one it sees as *PACKAGE* (package.h: the sync must be called
\* whenever the dynamic binding of *PACKAGE* changes at runtime).
CacheFollows(t) ==
  Running(t) /\ (\E i \in 1 .. Len(dyn_stack[t]) : dyn_stack[t][i].symbol = Package)
    => LET v == cl_symbol_value_on(tlv[t], value, Package)
       IN  v \in Packages => current_package[t] = v

PackageFollows == \A t \in Threads : CacheFollows(t)
-----------------------------------------------------------------------------
\* What t's table, or the entries awaiting rehash, hold; and the value that a
\* set of entries has for s.
Held(t) == Entries(tlv[t]) \cup live[t]
Content(H, s) == IF \E e \in H : e.symbol = s
                 THEN (CHOOSE e \in H : e.symbol = s).value
                 ELSE Absent

\* The value of binding i of a stack d is what the next binding of the same
\* variable saved, or what is held for the variable if there is none.
Lowest(S) == CHOOSE j \in S : \A k \in S : j <= k
Above(d, i) == {j \in i + 1 .. Len(d) : d[j].symbol = d[i].symbol}
BoundValue(d, H, i) ==
  IF Above(d, i) = {} THEN Content(H, d[i].symbol)
  ELSE d[Lowest(Above(d, i))].old_value

BindingsOf(d, H, n) == [i \in 1 .. n |-> [symbol |-> d[i].symbol, value |-> BoundValue(d, H, i)]]

\* A restore has discarded the bindings above its mark as soon as it begins.
Depth(t) == IF op[t].pc = "restore" THEN op[t].mark ELSE Len(dyn_stack[t])

Bindings == [t \in Threads |-> BindingsOf(dyn_stack[t], Held(t), Depth(t))]

SV == INSTANCE SpecialVariables
        WITH global <- value, bindings <- Bindings, MaxBindings <- MaxDyn

\* Tables, saved values, restores and rehashes implement the binding stacks of
\* special variables: every read and every compare-and-swap returns the value
\* of the thread's innermost binding or the global one, and an exit brings
\* back the bindings it should.
SpecialVariablesSpec == SV!Spec
=============================================================================
