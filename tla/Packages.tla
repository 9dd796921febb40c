------------------------------ MODULE Packages ------------------------------
(***************************************************************************)
(* Packages and symbols (package.c, symbol.c, bindtab.c, the builtins of   *)
(* builtins_package.c) shared by several threads: the symbols present in a *)
(* package, its export list with the two flags that cache it in a symbol,  *)
(* its use list, and the binding table whose names become symbols only     *)
(* when somebody asks for them.                                            *)
(*                                                                         *)
(* cl_package_rwlock guards all of it.  A section under the read lock is   *)
(* one step; a section under the write lock is two, taking the lock and    *)
(* the stores.  Allocation happens between the steps and may stop the      *)
(* world: the collector waits until every other thread is at a safepoint,  *)
(* where a thread that is blocked on the lock is not.                      *)
(*                                                                         *)
(* A package's table is one hash chain, newest symbol first.               *)
(***************************************************************************)
EXTENDS Integers, Sequences, SequencesExt, FiniteSets

CONSTANTS
  Threads, NoThread,
  Packages, NoPackage,
  Names,          \* symbol names: positive integers
  Tables,         \* the names each package's binding table starts with
  Ops,            \* what each thread does, a set of AllOps
  MaxCalls        \* bound on the calls that all threads make

AllOps == {"intern", "find", "shadow", "import", "export", "use", "unuse",
           "enumerate", "unintern", "unexport"}

ASSUME PackageConstants ==
  /\ NoThread \notin Threads /\ NoPackage \notin Packages
  /\ IsFiniteSet(Threads) /\ IsFiniteSet(Packages) /\ IsFiniteSet(Names)
  /\ Names \subseteq Nat \ {0}
  /\ Tables \in [Packages -> SUBSET Names] /\ Ops \in [Threads -> SUBSET AllOps]
  /\ MaxCalls \in Nat

VARIABLES
  sname, home,    \* name and home package of the symbols 1, 2, ...
  hint,           \* symbols with CL_SYM_EXPORTED
  homeFlag,       \* symbols with CL_SYM_EXPORTED_HOME
  symbols,        \* per package: the chain of present symbols
  exported,       \* per package: exported_symbols
  uses,           \* per package: use_list
  bindings,       \* per package: the names of its binding table
  writer,         \* who holds cl_package_rwlock for writing
  collector,      \* who is stopping the world
  pc, call,       \* per thread: where it is, in which operation
  job, todo,      \* what the next allocation and lock are for; the names that
                  \* cl_bindtab_materialize_all has not got to
  chain,          \* local of UNINTERN: the chain it has read
  calls

vars == <<sname, home, hint, homeFlag, symbols, exported, uses, bindings, writer,
          collector, pc, call, job, todo, chain, calls>>
space == <<sname, home, hint, homeFlag, symbols, exported, uses, bindings>>

Symbols == DOMAIN sname
NoCall == [op |-> "none", name |-> 0, pkg |-> NoPackage, sym |-> 0, used |-> NoPackage]

\* The operation's own stores; the symbol of a table's name; the end of a table.
Main == [kind |-> "main", pkg |-> NoPackage, name |-> 0]
Build(p, n) == [kind |-> "build", pkg |-> p, name |-> n]
Drop == [kind |-> "drop", pkg |-> NoPackage, name |-> 0]
-----------------------------------------------------------------------------
(***************************************************************************)
(* Lookup.  0 stands for CL_UNBOUND.                                       *)
(***************************************************************************)
find_own_symbol(n, p) ==
  LET hits == {i \in DOMAIN symbols[p] : sname[symbols[p][i]] = n}
  IN IF hits = {} THEN 0 ELSE symbols[p][Min(hits)]

\* exported_p_nolock
exported_p(s, p) ==
  IF home[s] = p THEN s \in homeFlag
  ELSE s \in hint /\ s \in Range(exported[p])

find_external(n, p) ==
  LET s == find_own_symbol(n, p)
  IN IF s # 0 /\ exported_p(s, p) THEN s ELSE 0

\* lookup_nolock: the symbol and its status, or the package whose table has it.
lookup(n, p) ==
  LET own == find_own_symbol(n, p)
      hits == {i \in DOMAIN uses[p] : find_external(n, uses[p][i]) # 0 \/ n \in bindings[uses[p][i]]}
      u == uses[p][Min(hits)]
      Found(s, status) == [sym |-> s, status |-> status, lazy |-> NoPackage]
      Lazy(q, status) == [sym |-> 0, status |-> status, lazy |-> q]
  IN CASE own # 0 -> Found(own, IF exported_p(own, p) THEN 2 ELSE 1)
       [] own = 0 /\ n \in bindings[p] -> Lazy(p, 2)
       [] own = 0 /\ n \notin bindings[p] /\ hits # {} ->
            IF find_external(n, u) # 0 THEN Found(find_external(n, u), 3) ELSE Lazy(u, 3)
       [] OTHER -> Found(0, 0)
-----------------------------------------------------------------------------
(***************************************************************************)
(* Beginning an operation.                                                 *)
(***************************************************************************)
\* The thread is running Lisp code and nobody has asked it to stop.
Free(t, op) ==
  /\ pc[t] = "idle" /\ collector = NoThread /\ op \in Ops[t]
  /\ calls < MaxCalls

Begin(t, c, label) ==
  /\ Free(t, c.op)
  /\ pc' = [pc EXCEPT ![t] = label]
  /\ call' = [call EXCEPT ![t] = c]
  /\ calls' = calls + 1
  /\ UNCHANGED <<space, writer, collector, job, todo, chain>>

\* INTERN, FIND-SYMBOL, SHADOW: the fast path comes first.
BeginByName(t, op, n, p) ==
  /\ Begin(t, [NoCall EXCEPT !.op = op, !.name = n, !.pkg = p], "read")

\* IMPORT and EXPORT of a symbol the program has got hold of.
BeginBySymbol(t, op, s, p) ==
  /\ Begin(t, [NoCall EXCEPT !.op = op, !.sym = s, !.name = sname[s], !.pkg = p], "eager")

\* %PACKAGE-SYMBOLS, the enumeration behind DO-SYMBOLS.
BeginEnumerate(t, p) ==
  /\ Begin(t, [NoCall EXCEPT !.op = "enumerate", !.pkg = p], "eager")

BeginUse(t, op, u, p) ==
  /\ u # p
  /\ Begin(t, [NoCall EXCEPT !.op = op, !.used = u, !.pkg = p],
           IF op = "use" THEN "cons" ELSE "wait")

BeginRemoval(t, op, s, p) ==
  /\ Begin(t, [NoCall EXCEPT !.op = op, !.sym = s, !.name = sname[s], !.pkg = p], "eager")
-----------------------------------------------------------------------------
(***************************************************************************)
(* Steps of an operation.                                                  *)
(***************************************************************************)
Goto(t, label, j) ==
  /\ pc' = [pc EXCEPT ![t] = label]
  /\ job' = [job EXCEPT ![t] = j]

Return(t) ==
  /\ Goto(t, "idle", Main)
  /\ call' = [call EXCEPT ![t] = NoCall]

\* Under the read lock: INTERN and FIND-SYMBOL look everywhere, SHADOW in the
\* package itself.  A lazy hit is materialised afterwards.
Read(t) ==
  LET c == call[t]
      s == IF c.op = "shadow" THEN find_own_symbol(c.name, c.pkg) ELSE lookup(c.name, c.pkg).sym
      q == CASE c.op # "shadow" -> lookup(c.name, c.pkg).lazy
             [] c.op = "shadow" /\ c.name \in bindings[c.pkg] -> c.pkg
             [] OTHER -> NoPackage
  IN /\ pc[t] = "read" /\ writer = NoThread
     /\ CASE s # 0 \/ (q = NoPackage /\ c.op = "find") -> Return(t)
          [] s = 0 /\ q # NoPackage -> Goto(t, "copy", Build(q, c.name)) /\ UNCHANGED call
          [] OTHER -> Goto(t, "cons", Main) /\ UNCHANGED call
     /\ UNCHANGED <<space, writer, collector, todo, chain, calls>>

\* The part of an operation that follows the table's end.
Proceed(t) ==
  CASE call[t].op = "enumerate" -> Return(t)
    [] call[t].op \in {"import", "export"} -> Goto(t, "cons", Main) /\ UNCHANGED call
    [] call[t].op = "unexport" -> Goto(t, "wait", Main) /\ UNCHANGED call
    [] call[t].op = "unintern" -> Goto(t, "scan", Main) /\ UNCHANGED call

\* These operations materialise a whole table first; EXPORT only when it is
\* going to import the symbol.
Eager(t) ==
  LET c == call[t]
      lazy == bindings[c.pkg] # {}
  IN /\ pc[t] = "eager" /\ (lazy /\ c.op = "export" => writer = NoThread)
     /\ IF lazy /\ (c.op = "export" => find_own_symbol(c.name, c.pkg) = 0)
          THEN /\ Goto(t, "each", Main)
               /\ todo' = [todo EXCEPT ![t] = bindings[c.pkg]]
               /\ UNCHANGED call
          ELSE Proceed(t) /\ UNCHANGED todo
     /\ UNCHANGED <<space, writer, collector, chain, calls>>

\* cl_bindtab_materialize_all: the names of the table in order, those that are
\* not present; then, or when a peer has dropped the table, the table goes.
Each(t) ==
  LET p == call[t].pkg
      n == CHOOSE m \in todo[t] : \A k \in todo[t] : m <= k
  IN /\ pc[t] = "each" /\ writer = NoThread
     /\ IF todo[t] = {} \/ bindings[p] = {}
          THEN /\ Goto(t, "wait", Drop)
               /\ todo' = [todo EXCEPT ![t] = {}]
          ELSE /\ IF find_own_symbol(n, p) = 0 THEN Goto(t, "copy", Build(p, n))
                  ELSE UNCHANGED <<pc, job>>
               /\ todo' = [todo EXCEPT ![t] = @ \ {n}]
     /\ UNCHANGED <<space, writer, collector, call, chain, calls>>

\* Back from cl_bindtab_materialize.
Built(t) == IF call[t].op \in {"intern", "find", "shadow"} THEN Return(t)
            ELSE Goto(t, "each", Main) /\ UNCHANGED call

\* cl_bindtab_materialize copies the entry, unless a peer has dropped the table:
\* then the symbol is present, and it is looked up under the read lock.
Copy(t) ==
  /\ pc[t] = "copy"
  /\ IF bindings[job[t].pkg] = {} THEN writer = NoThread /\ Built(t)
     ELSE Goto(t, "cons", job[t]) /\ UNCHANGED call
  /\ UNCHANGED <<space, writer, collector, todo, chain, calls>>

\* The new symbol and cells.
Allocate(t) ==
  /\ pc[t] = "cons" /\ collector = NoThread
  /\ Goto(t, "wait", job[t])
  /\ UNCHANGED <<space, writer, collector, call, todo, chain, calls>>

\* The allocation stops the world ...
StopWorld(t) ==
  /\ pc[t] = "cons" /\ collector = NoThread
  /\ collector' = t
  /\ Goto(t, "collect", job[t])
  /\ UNCHANGED <<space, writer, call, todo, chain, calls>>

AtSafepoint(t) == pc[t] \in {"idle", "cons"}

\* ... and goes on when everybody else is at a safepoint.
Collect(t) ==
  /\ pc[t] = "collect" /\ \A u \in Threads \ {t} : AtSafepoint(u)
  /\ collector' = NoThread
  /\ Goto(t, "wait", job[t])
  /\ UNCHANGED <<space, writer, call, todo, chain, calls>>

WriteLock(t) ==
  /\ pc[t] = "wait" /\ writer = NoThread
  /\ writer' = t
  /\ Goto(t, "commit", job[t])
  /\ UNCHANGED <<space, collector, call, todo, chain, calls>>
-----------------------------------------------------------------------------
(***************************************************************************)
(* The stores under the write lock.  They allocate nothing.                *)
(***************************************************************************)
Unlock == writer' = NoThread

\* cl_package_add_symbol_cell, for the fresh symbol of this name; exp says
\* whether cl_package_push_export_cell_nolock follows.
AddFresh(n, p, exp) ==
  LET s == Len(sname) + 1
  IN /\ sname' = Append(sname, n) /\ home' = Append(home, p)
     /\ symbols' = [symbols EXCEPT ![p] = <<s>> \o @]
     /\ exported' = IF exp THEN [exported EXCEPT ![p] = <<s>> \o @] ELSE exported
     /\ hint' = IF exp THEN hint \union {s} ELSE hint
     /\ homeFlag' = IF exp THEN homeFlag \union {s} ELSE homeFlag
     /\ UNCHANGED <<uses, bindings>>

\* The export flags of s, on the list of p.
Flag(s, p) ==
  /\ hint' = hint \union {s}
  /\ homeFlag' = IF home[s] = p THEN homeFlag \union {s} ELSE homeFlag

PushExport(s, p) ==
  exported' = IF exported_p(s, p) THEN exported ELSE [exported EXCEPT ![p] = <<s>> \o @]

\* Mutant of CommitIntern: no second look under the write lock.
CommitInternBlind(t) ==
  AddFresh(call[t].name, call[t].pkg, FALSE) /\ Return(t) /\ Unlock

\* cl_intern_in looks again: a peer's symbol wins, and so does a table that has
\* come into sight since.
CommitIntern(t) ==
  LET c == call[t]
      r == lookup(c.name, c.pkg)
  IN /\ CASE r.sym # 0 -> Return(t) /\ UNCHANGED space
          [] r.sym = 0 /\ r.lazy # NoPackage ->
               Goto(t, "copy", Build(r.lazy, c.name)) /\ UNCHANGED <<call, space>>
          [] OTHER -> AddFresh(c.name, c.pkg, FALSE) /\ Return(t)
     /\ Unlock

CommitShadow(t) ==
  /\ IF find_own_symbol(call[t].name, call[t].pkg) = 0
       THEN AddFresh(call[t].name, call[t].pkg, FALSE)
       ELSE UNCHANGED space
  /\ Return(t) /\ Unlock

\* Mutant of CommitBuild: the materialised symbol is not exported.
CommitBuildInternal(t) ==
  /\ IF find_own_symbol(job[t].name, job[t].pkg) = 0
       THEN AddFresh(job[t].name, job[t].pkg, FALSE)
       ELSE UNCHANGED space
  /\ Built(t) /\ Unlock

\* The end of cl_bindtab_materialize.
CommitBuild(t) ==
  LET p == job[t].pkg
      s == find_own_symbol(job[t].name, p)
  IN /\ CASE s = 0 -> AddFresh(job[t].name, p, TRUE)
          [] s # 0 /\ exported_p(s, p) -> UNCHANGED space
          [] OTHER -> /\ PushExport(s, p) /\ Flag(s, p)
                      /\ UNCHANGED <<sname, home, symbols, uses, bindings>>
     /\ Built(t) /\ Unlock

CommitDrop(t) ==
  /\ bindings' = [bindings EXCEPT ![call[t].pkg] = {}]
  /\ Proceed(t) /\ Unlock
  /\ UNCHANGED <<sname, home, hint, homeFlag, symbols, exported, uses>>

\* Mutant of Conflict: the error leaves from under the lock.
ConflictLocked(t) == UNCHANGED <<space, writer>> /\ Return(t)

\* An import conflict is signalled after the unlock.
Conflict(t) == UNCHANGED space /\ Unlock /\ Return(t)

CommitImport(t) ==
  LET s == call[t].sym
      p == call[t].pkg
      own == find_own_symbol(sname[s], p)
  IN CASE own = s -> UNCHANGED space /\ Return(t) /\ Unlock
       [] own \notin {0, s} -> Conflict(t)
       [] own = 0 -> /\ symbols' = [symbols EXCEPT ![p] = <<s>> \o @]
                     /\ UNCHANGED <<sname, home, hint, homeFlag, exported, uses, bindings>>
                     /\ Return(t) /\ Unlock

\* cl_export_symbol imports only where no symbol of this name is present, so it
\* meets no conflict.
CommitExport(t) ==
  LET s == call[t].sym
      p == call[t].pkg
  IN /\ symbols' = IF find_own_symbol(sname[s], p) = 0
                     THEN [symbols EXCEPT ![p] = <<s>> \o @] ELSE symbols
     /\ PushExport(s, p) /\ Flag(s, p)
     /\ Return(t) /\ Unlock
     /\ UNCHANGED <<sname, home, uses, bindings>>

CommitUse(t) ==
  LET u == call[t].used
      p == call[t].pkg
  IN /\ uses' = IF u \in Range(uses[p]) THEN uses ELSE [uses EXCEPT ![p] = <<u>> \o @]
     /\ Return(t) /\ Unlock
     /\ UNCHANGED <<sname, home, hint, homeFlag, symbols, exported, bindings>>

CommitUnuse(t) ==
  /\ uses' = [uses EXCEPT ![call[t].pkg] = RemoveFirst(@, call[t].used)]
  /\ Return(t) /\ Unlock
  /\ UNCHANGED <<sname, home, hint, homeFlag, symbols, exported, bindings>>

\* pkg_list_remove_eq takes the first occurrence off the list.
CommitUnexport(t) ==
  LET s == call[t].sym
      p == call[t].pkg
      ours == IF home[s] = p THEN {s} ELSE {}
  IN /\ exported' = [exported EXCEPT ![p] = RemoveFirst(@, s)]
     /\ hint' = hint \ ours /\ homeFlag' = homeFlag \ ours
     /\ Return(t) /\ Unlock
     /\ UNCHANGED <<sname, home, symbols, uses, bindings>>

Commit(t) ==
  LET op == call[t].op
      main == job[t].kind = "main"
  IN /\ pc[t] = "commit"
     /\ \/ main /\ op = "intern" /\ CommitIntern(t)
        \/ main /\ op = "shadow" /\ CommitShadow(t)
        \/ main /\ op = "import" /\ CommitImport(t)
        \/ main /\ op = "export" /\ CommitExport(t)
        \/ main /\ op = "use" /\ CommitUse(t)
        \/ main /\ op = "unuse" /\ CommitUnuse(t)
        \/ main /\ op = "unexport" /\ CommitUnexport(t)
        \/ job[t].kind = "build" /\ CommitBuild(t)
        \/ job[t].kind = "drop" /\ CommitDrop(t)
     /\ UNCHANGED <<collector, todo, chain, calls>>
-----------------------------------------------------------------------------
(***************************************************************************)
(* UNINTERN changes the chain without the lock: it reads, then stores.     *)
(***************************************************************************)
Scan(t) ==
  LET c == call[t]
  IN /\ pc[t] = "scan"
     /\ IF c.sym \in Range(symbols[c.pkg])
          THEN Goto(t, "splice", Main) /\ UNCHANGED call
          ELSE Return(t)
     /\ chain' = [chain EXCEPT ![t] = symbols[c.pkg]]
     /\ UNCHANGED <<space, writer, collector, todo, calls>>

\* The head of the chain is overwritten; further down the symbol's cell is
\* unlinked from the cell before it.
Spliced(t, s, p) == IF chain[t][1] = s THEN Tail(chain[t]) ELSE RemoveFirst(symbols[p], s)

Splice(t) ==
  LET s == call[t].sym
      p == call[t].pkg
  IN /\ pc[t] = "splice"
     /\ symbols' = [symbols EXCEPT ![p] = Spliced(t, s, p)]
     /\ home' = IF home[s] = p THEN [home EXCEPT ![s] = NoPackage] ELSE home
     /\ homeFlag' = IF home[s] = p THEN homeFlag \ {s} ELSE homeFlag
     /\ chain' = [chain EXCEPT ![t] = <<>>]
     /\ Return(t)
     /\ UNCHANGED <<sname, hint, exported, uses, bindings, writer, collector, todo, calls>>
-----------------------------------------------------------------------------
Init ==
  /\ sname = <<>> /\ home = <<>> /\ hint = {} /\ homeFlag = {}
  /\ symbols = [p \in Packages |-> <<>>] /\ exported = [p \in Packages |-> <<>>]
  /\ uses = [p \in Packages |-> <<>>] /\ bindings = Tables
  /\ writer = NoThread /\ collector = NoThread
  /\ pc = [t \in Threads |-> "idle"] /\ call = [t \in Threads |-> NoCall]
  /\ job = [t \in Threads |-> Main] /\ todo = [t \in Threads |-> {}]
  /\ chain = [t \in Threads |-> <<>>] /\ calls = 0

Call(t) ==
  \E p \in Packages :
    \/ \E op \in {"intern", "find", "shadow"}, n \in Names : BeginByName(t, op, n, p)
    \/ \E op \in {"import", "export"}, s \in Symbols : BeginBySymbol(t, op, s, p)
    \/ \E op \in {"use", "unuse"}, u \in Packages : BeginUse(t, op, u, p)
    \/ BeginEnumerate(t, p)
    \/ \E op \in {"unintern", "unexport"}, s \in Symbols : BeginRemoval(t, op, s, p)

Step(t) ==
  \/ Read(t) \/ Eager(t) \/ Each(t) \/ Copy(t)
  \/ Allocate(t) \/ StopWorld(t) \/ Collect(t)
  \/ WriteLock(t) \/ Commit(t)
  \/ Scan(t) \/ Splice(t)

Next == \E t \in Threads : Call(t) \/ Step(t)

Spec == Init /\ [][Next]_vars

\* Programs that keep an UNINTERN or UNEXPORT apart from every other package
\* operation.  Nothing in the code does that for them.
Removing(t) == call[t].op \in {"unintern", "unexport"}
RemovalAlone == \A t, u \in Threads : Removing(t) /\ u # t => pc[u] = "idle"

SerialNext == \E t \in Threads : \/ Call(t) /\ RemovalAlone'
                                \/ Step(t)

SerialSpec == Init /\ [][SerialNext]_vars

\* A thread inside an operation goes on, and gets the lock when it is free.
FairSerialSpec == SerialSpec /\ \A t \in Threads : WF_vars(Step(t))
-----------------------------------------------------------------------------
(***************************************************************************)
(* Properties.                                                             *)
(***************************************************************************)
\* A name has at most one symbol in a package, whatever threads intern it at
\* the same time (cl_intern_in, cl_bindtab_materialize, cl_import_symbol).
OneSymbolPerName ==
  \A p \in Packages : \A s, r \in Range(symbols[p]) : sname[s] = sname[r] => s = r

\* A symbol is present in its home package, and CL_SYM_EXPORTED_HOME is the
\* membership in the home's export list that it stands for (types.h, "Exact").
HomeFlagExact ==
  \A s \in Symbols : home[s] # NoPackage =>
    /\ s \in Range(symbols[home[s]])
    /\ s \in homeFlag <=> s \in Range(exported[home[s]])

\* Names and flags agree with the tables they stand for, through every
\* sequence of package operations of several threads.
PackageConsistent == OneSymbolPerName /\ HomeFlagExact

\* A symbol leaves a package only when it is uninterned from it: a chain that
\* is relinked by one thread does not lose the symbol that another one has
\* just interned.
PresentStays ==
  [][\A p \in Packages : \A s \in Range(symbols[p]) \ Range(symbols'[p]) :
       \E t \in Threads : pc[t] = "splice" /\ call[t].sym = s /\ call[t].pkg = p]_vars

Statuses == [p \in Packages |-> [n \in Names |-> lookup(n, p).status]]

\* Laziness cannot be observed: what FIND-SYMBOL says of any name in any
\* package changes only when an operation of the program takes effect, never
\* when a table's name is materialised or a whole table is (bindtab.c, "a table
\* entry IS a present symbol of the package that has not been built yet").
LazyInvisible ==
  [][Statuses' # Statuses =>
       \E t \in Threads : pc[t] = "splice" \/ (pc[t] = "commit" /\ job[t].kind = "main")]_vars

\* A stop of the world ends, though a thread blocked on cl_package_rwlock is
\* not at a safepoint: nobody allocates, or leaves with an error, while it
\* holds the lock (package_link_symbol_cell, "a circular STW-vs-rwlock hang").
CollectionEnds == (collector # NoThread) ~> (collector = NoThread)
=============================================================================
