--------------------------- MODULE PackagesProofs ---------------------------
(***************************************************************************)
(* Packages for every number of threads, packages, names and calls, of     *)
(* programs that keep UNINTERN and UNEXPORT apart from other package       *)
(* operations (SerialSpec): the invariant behind PackageConsistent, and    *)
(* that a binding table cannot be told from the symbols it stands for.     *)
(***************************************************************************)
EXTENDS Packages, SequenceLemmas

-----------------------------------------------------------------------------
(***************************************************************************)
(* The inductive invariant.                                                *)
(***************************************************************************)
ByName == {"intern", "find", "shadow"}
EagerOps == {"import", "export", "enumerate", "unintern", "unexport"}

SpaceOK ==
  /\ sname \in Seq(Names) /\ home \in Seq(Packages \union {NoPackage}) /\ Len(home) = Len(sname)
  /\ symbols \in [Packages -> Seq(Nat)] /\ \A p \in Packages : Range(symbols[p]) \subseteq Symbols
  /\ exported \in [Packages -> Seq(Nat)] /\ \A p \in Packages : Range(exported[p]) \subseteq Symbols
  /\ uses \in [Packages -> Seq(Packages)] /\ bindings \in [Packages -> SUBSET Names]
  /\ \A p \in Packages : bindings[p] \in {{}, Tables[p]}
  /\ hint \subseteq Symbols /\ homeFlag \subseteq Symbols

\* The arguments of a call of each kind.
Arguments(c) ==
  CASE c.op \in ByName -> c.name \in Names /\ c.pkg \in Packages
    [] c.op = "enumerate" -> c.pkg \in Packages
    [] c.op \in EagerOps \ {"enumerate"} ->
         c.sym \in Symbols /\ c.name = sname[c.sym] /\ c.pkg \in Packages
    [] c.op \in {"use", "unuse"} -> c.used \in Packages /\ c.pkg \in Packages
    [] OTHER -> FALSE

\* Where thread t is in its operation, and for what.
Progress(t) ==
  \/ pc[t] = "idle" /\ call[t] = NoCall /\ job[t] = Main
  \/ pc[t] = "read" /\ call[t].op \in ByName /\ job[t] = Main
  \/ pc[t] \in {"eager", "each"} /\ call[t].op \in EagerOps /\ job[t] = Main
  \/ pc[t] = "copy" /\ job[t].kind = "build"
  \/ /\ pc[t] \in {"cons", "collect", "wait", "commit"}
     /\ job[t] = Main => call[t].op \notin {"find", "enumerate"}
     /\ job[t].kind = "drop" => pc[t] \in {"wait", "commit"}
  \/ pc[t] \in {"scan", "splice"} /\ call[t].op = "unintern" /\ job[t] = Main

Jobs(t) ==
  \/ job[t] = Main
  \/ job[t] = Drop /\ call[t].op \in EagerOps
  \/ /\ job[t].kind = "build" /\ job[t].pkg \in Packages /\ job[t].name \in Names
     /\ job[t] = Build(job[t].pkg, job[t].name)
     /\ \/ call[t].op \in ByName
        \/ call[t].op \in EagerOps /\ job[t].pkg = call[t].pkg

CallTypes ==
  /\ pc = [t \in Threads |-> pc[t]] /\ call = [t \in Threads |-> call[t]]
  /\ job = [t \in Threads |-> job[t]]
  /\ todo \in [Threads -> SUBSET Names] /\ chain \in [Threads -> Seq(Nat)]

ChainRead ==
  \A t \in Threads : pc[t] = "splice" =>
    chain[t] = symbols[call[t].pkg] /\ call[t].sym \in Range(symbols[call[t].pkg])

\* An element occurs once in a sequence.
Once(seq, x) == \A i, j \in 1..Len(seq) : seq[i] = x /\ seq[j] = x => i = j

\* No symbol is twice in a chain, nor on the export list of its home.
NoDuplicates ==
  /\ \A p \in Packages : \A s \in Symbols : Once(symbols[p], s)
  /\ \A p \in Packages : \A s \in Symbols : home[s] = p => Once(exported[p], s)

Homed(s, p) == home[s] = p /\ s \in homeFlag
Present(n, p) == \E s \in Range(symbols[p]) : sname[s] = n

\* A name of a binding table that has been built is exported from its home.
TablesHomed ==
  \A p \in Packages : \A s \in Range(symbols[p]) : sname[s] \in bindings[p] => Homed(s, p)

\* What a thread that builds symbols of a table relies on.
Building(t) ==
  /\ job[t].kind = "build" =>
       \/ job[t].name \in bindings[job[t].pkg]
       \/ \E s \in Range(symbols[job[t].pkg]) : sname[s] = job[t].name /\ Homed(s, job[t].pkg)
  /\ (call[t].op \in EagerOps /\ (pc[t] = "each" \/ job[t].kind # "main")) =>
       \A n \in bindings[call[t].pkg] :
         n \in todo[t] \/ (job[t].kind = "build" /\ job[t].name = n) \/ Present(n, call[t].pkg)
  /\ job[t].kind = "drop" => todo[t] = {}
  /\ todo[t] # {} =>
       /\ call[t].op \in EagerOps /\ todo[t] \subseteq Tables[call[t].pkg]
       /\ pc[t] = "each" \/ job[t].kind # "main"

\* What the stores of an operation rely on.
PastTables(t) ==
  job[t] = Main /\ pc[t] \in {"cons", "collect", "wait", "commit", "scan", "splice"} =>
    /\ call[t].op \in {"import", "unintern", "unexport"} => bindings[call[t].pkg] = {}
    /\ call[t].op = "export" => bindings[call[t].pkg] = {} \/ Present(call[t].name, call[t].pkg)
    /\ call[t].op = "shadow" => call[t].name \notin bindings[call[t].pkg]

ThreadOK(t) ==
  /\ Progress(t) /\ Jobs(t) /\ (pc[t] # "idle" => Arguments(call[t]))
  /\ Building(t) /\ PastTables(t)

\* The packages, and the threads.
SpaceInv ==
  SpaceOK /\ OneSymbolPerName /\ HomeFlagExact /\ NoDuplicates /\ TablesHomed
CallInv ==
  CallTypes /\ RemovalAlone /\ ChainRead /\ \A t \in Threads : ThreadOK(t)

IInv == SpaceInv /\ CallInv

-----------------------------------------------------------------------------
(***************************************************************************)
(* Lookup in a chain without duplicates.                                   *)
(***************************************************************************)
\* find_own_symbol returns the symbol of this name that is present, or 0.
LEMMA OwnSymbol ==
  ASSUME SpaceOK, NEW n, NEW p \in Packages
  PROVE  /\ find_own_symbol(n, p) # 0 <=> Present(n, p)
         /\ find_own_symbol(n, p) # 0 =>
              /\ find_own_symbol(n, p) \in Range(symbols[p])
              /\ find_own_symbol(n, p) \in Symbols
              /\ sname[find_own_symbol(n, p)] = n
<1> DEFINE hits == {i \in DOMAIN symbols[p] : sname[symbols[p][i]] = n}
<1>1. symbols[p] \in Seq(Nat) /\ DOMAIN symbols[p] = 1..Len(symbols[p]) /\ Range(symbols[p]) \subseteq Symbols
  BY DEF SpaceOK
<1>2. \A x : x \in Range(symbols[p]) <=> \E i \in 1..Len(symbols[p]) : symbols[p][i] = x
  BY <1>1, RangeIs
<1>3. 0 \notin Symbols
  BY DEF SpaceOK, Symbols
<1>4. hits # {} <=> Present(n, p)
  BY <1>1, <1>2 DEF Present
<1>5. CASE hits = {}
  BY <1>4, <1>5 DEF find_own_symbol
<1>6. CASE hits # {}
  <2>1. hits \in SUBSET Nat
    BY <1>1
  <2>2. Min(hits) \in hits
    BY <1>6, <2>1, MinProperties
  <2>3. find_own_symbol(n, p) = symbols[p][Min(hits)]
    BY <1>6 DEF find_own_symbol
  <2>4. symbols[p][Min(hits)] \in Range(symbols[p]) /\ sname[symbols[p][Min(hits)]] = n
    BY <1>1, <1>2, <2>2
  <2>5. symbols[p][Min(hits)] \in Symbols /\ symbols[p][Min(hits)] # 0
    BY <1>1, <1>3, <2>4
  <2> QED BY <1>4, <1>6, <2>3, <2>4, <2>5
<1> QED BY <1>5, <1>6

\* What FIND-SYMBOL says of a name in package p itself: its table is as good
\* as an exported symbol.
Here(n, p) ==
  IF \E s \in Range(symbols[p]) : sname[s] = n
    THEN IF \E s \in Range(symbols[p]) : sname[s] = n /\ exported_p(s, p) THEN 2 ELSE 1
    ELSE IF n \in bindings[p] THEN 2 ELSE 0

\* The status that lookup gives, without the order of the use list.
StatusByHere ==
  \A n \in Names, p \in Packages :
    lookup(n, p).status =
      IF Here(n, p) # 0 THEN Here(n, p)
      ELSE IF \E u \in Range(uses[p]) : Here(n, u) = 2 THEN 3 ELSE 0

\* The status of lookup_nolock does not depend on the order of the use list.
LEMMA StatusIs == SpaceInv => StatusByHere
<1> SUFFICES ASSUME SpaceInv, NEW n \in Names, NEW p \in Packages
             PROVE  lookup(n, p).status =
                      IF Here(n, p) # 0 THEN Here(n, p)
                      ELSE IF \E u \in Range(uses[p]) : Here(n, u) = 2 THEN 3 ELSE 0
  BY DEF StatusByHere
<1> USE DEF SpaceInv
<1>1. ASSUME NEW q \in Packages
      PROVE  /\ Here(n, q) \in {0, 1, 2}
             /\ find_own_symbol(n, q) # 0 =>
                  Here(n, q) = IF exported_p(find_own_symbol(n, q), q) THEN 2 ELSE 1
             /\ find_own_symbol(n, q) = 0 => Here(n, q) = IF n \in bindings[q] THEN 2 ELSE 0
             /\ (find_external(n, q) # 0 \/ n \in bindings[q]) <=> Here(n, q) = 2
  <2>1. CASE find_own_symbol(n, q) = 0
    <3>1. ~Present(n, q)
      BY <2>1, OwnSymbol
    <3> QED BY <2>1, <3>1 DEF Here, Present, find_external
  <2>2. CASE find_own_symbol(n, q) # 0
    <3> DEFINE s == find_own_symbol(n, q)
    <3>1. s \in Range(symbols[q]) /\ sname[s] = n /\ s \in Symbols
      BY <2>2, OwnSymbol
    <3>2. \A r \in Range(symbols[q]) : sname[r] = n => r = s
      BY <3>1 DEF OneSymbolPerName
    <3>3. n \in bindings[q] => exported_p(s, q)
      BY <3>1 DEF TablesHomed, Homed, exported_p
    <3> HIDE DEF s
    <3>4. Here(n, q) = IF exported_p(s, q) THEN 2 ELSE 1
      BY <3>1, <3>2 DEF Here
    <3>5. find_external(n, q) = IF exported_p(s, q) THEN s ELSE 0
      BY <2>2 DEF find_external, s
    <3>6. s # 0
      BY <2>2 DEF s
    <3> QED BY <3>3, <3>4, <3>5, <3>6 DEF s
  <2> QED BY <2>1, <2>2
<1>2. CASE find_own_symbol(n, p) # 0
  BY <1>1, <1>2 DEF lookup
<1>3. CASE find_own_symbol(n, p) = 0 /\ n \in bindings[p]
  BY <1>1, <1>3 DEF lookup
<1>4. CASE find_own_symbol(n, p) = 0 /\ n \notin bindings[p]
  <2> DEFINE hits == {i \in DOMAIN uses[p] : find_external(n, uses[p][i]) # 0 \/ n \in bindings[uses[p][i]]}
  <2>1. uses[p] \in Seq(Packages) /\ DOMAIN uses[p] = 1..Len(uses[p])
    BY DEF SpaceOK
  <2>2. hits = {} <=> ~\E u \in Range(uses[p]) : Here(n, u) = 2
    BY <1>1, <2>1, RangeIs
  <2>3. hits = {} => lookup(n, p).status = 0
    BY <1>4 DEF lookup
  <2>4. hits # {} => lookup(n, p).status = 3
    BY <1>4 DEF lookup
  <2> QED BY <1>1, <1>4, <2>2, <2>3, <2>4
<1> QED BY <1>2, <1>3, <1>4

\* The same after a step.
LEMMA StatusNext == SpaceInv' => StatusByHere'
  BY StatusIs, PTL

-----------------------------------------------------------------------------
(***************************************************************************)
(* What a step of one thread leaves to the others.                         *)
(***************************************************************************)
\* The packages only grow, and a name that leaves a table stays as a symbol.
Grows ==
  /\ \A s \in Symbols : s \in Symbols' /\ sname'[s] = sname[s]
  /\ \A p \in Packages : Range(symbols[p]) \subseteq Range(symbols'[p])
  /\ \A p \in Packages : \A s \in Range(symbols[p]) : Homed(s, p) => Homed(s, p)'
  /\ \A p \in Packages : bindings'[p] \subseteq bindings[p]
  /\ \A p \in Packages : \A n \in bindings[p] \ bindings'[p] :
       \E s \in Range(symbols'[p]) : sname'[s] = n /\ Homed(s, p)'

\* A step that leaves the packages alone loses nothing.
LEMMA SameSpaceGrows ==
  ASSUME SpaceOK, UNCHANGED space
  PROVE  Grows
  BY DEF Grows, space, Homed, Symbols

\* A thread that does not move keeps its part of the invariant.
LEMMA ThreadStays ==
  ASSUME SpaceOK, NEW t \in Threads, ThreadOK(t), Grows,
         pc'[t] = pc[t], call'[t] = call[t], job'[t] = job[t], todo'[t] = todo[t]
  PROVE  ThreadOK(t)'
<1> USE DEF ThreadOK
<1>1. Progress(t)' /\ Jobs(t)'
  BY DEF Progress, Jobs
<1>2. (pc[t] # "idle" => Arguments(call[t]))'
  <2>1. \A s \in Symbols : s \in Symbols' /\ sname'[s] = sname[s]
    BY DEF Grows
  <2> QED BY <2>1 DEF Arguments
<1>3. \A p \in Packages, n \in Names : Present(n, p) => Present(n, p)'
  BY DEF Grows, Present, SpaceOK
<1>4. pc[t] # "idle" => call[t].pkg \in Packages
  BY DEF Arguments
<1>5. call[t].op # "none" => pc[t] # "idle"
  BY DEF Progress, NoCall
<1>6. Building(t)'
  <2>1. ASSUME job[t].kind = "build"
        PROVE  \/ job[t].name \in bindings'[job[t].pkg]
               \/ \E s \in Range(symbols'[job[t].pkg]) : sname'[s] = job[t].name /\ Homed(s, job[t].pkg)'
    <3>1. job[t].pkg \in Packages /\ job[t].name \in Names
      BY <2>1 DEF Jobs, Main, Drop
    <3>2. CASE job[t].name \in bindings[job[t].pkg]
      BY <3>1, <3>2 DEF Grows
    <3>3. CASE \E s \in Range(symbols[job[t].pkg]) : sname[s] = job[t].name /\ Homed(s, job[t].pkg)
      BY <3>1, <3>3 DEF Grows, SpaceOK
    <3> QED BY <2>1, <3>2, <3>3 DEF Building
  <2>2. ASSUME call[t].op \in EagerOps, pc[t] = "each" \/ job[t].kind # "main",
               NEW n \in bindings'[call[t].pkg]
        PROVE  \/ n \in todo[t] \/ (job[t].kind = "build" /\ job[t].name = n)
               \/ Present(n, call[t].pkg)'
    <3>1. call[t].pkg \in Packages
      BY <1>4, <1>5, <2>2 DEF EagerOps
    <3>2. n \in bindings[call[t].pkg] /\ n \in Names
      BY <2>2, <3>1 DEF Grows, SpaceOK
    <3> QED BY <1>3, <2>2, <3>1, <3>2 DEF Building
  <2> QED BY <2>1, <2>2 DEF Building
<1>7. PastTables(t)'
  <2> SUFFICES ASSUME job[t] = Main, pc[t] \in {"cons", "collect", "wait", "commit", "scan", "splice"}
               PROVE  /\ call[t].op \in {"import", "unintern", "unexport"} => bindings'[call[t].pkg] = {}
                      /\ call[t].op = "export" =>
                           bindings'[call[t].pkg] = {} \/ Present(call[t].name, call[t].pkg)'
                      /\ call[t].op = "shadow" => call[t].name \notin bindings'[call[t].pkg]
    BY DEF PastTables, Main
  <2>1. call[t].pkg \in Packages /\ bindings'[call[t].pkg] \subseteq bindings[call[t].pkg]
    BY <1>4 DEF Grows
  <2>2. call[t].op = "export" => call[t].name \in Names
    BY DEF Arguments, EagerOps, ByName, SpaceOK, Symbols
  <2> QED BY <1>3, <2>1, <2>2 DEF PastTables
<1> QED BY <1>1, <1>2, <1>6, <1>7

\* The part of the invariant about threads, after a step of t.
LEMMA ThreadMoves ==
  ASSUME SpaceOK, CallInv, NEW t \in Threads, Grows \/ \A u \in Threads \ {t} : pc[u] = "idle",
         CallTypes',
         \A u \in Threads \ {t} :
           /\ pc'[u] = pc[u] /\ call'[u] = call[u] /\ job'[u] = job[u] /\ todo'[u] = todo[u]
           /\ ~Removing(u),
         ThreadOK(t)',
         Removing(t)' => \A u \in Threads \ {t} : pc[u] = "idle",
         pc'[t] = "splice" =>
           (chain'[t] = symbols'[call'[t].pkg] /\ call'[t].sym \in Range(symbols'[call'[t].pkg]))
  PROVE  CallInv'
<1> USE DEF CallInv
<1>1. ASSUME NEW u \in Threads PROVE ThreadOK(u)'
  <2>1. CASE u = t
    BY <2>1
  <2>2. CASE u # t /\ Grows
    BY <2>2, ThreadStays
  <2>3. CASE u # t /\ pc[u] = "idle"
    <3>1. call[u] = NoCall /\ job[u] = Main
      BY <2>3 DEF ThreadOK, Progress
    <3> QED BY <2>3, <3>1 DEF ThreadOK, Progress, Jobs, Building, PastTables, NoCall, Main, EagerOps
  <2> QED BY <2>1, <2>2, <2>3
<1>2. RemovalAlone'
  BY DEF RemovalAlone, Removing
<1>3. ChainRead'
  <2> SUFFICES ASSUME NEW u \in Threads, pc'[u] = "splice"
               PROVE  (chain[u] = symbols[call[u].pkg] /\ call[u].sym \in Range(symbols[call[u].pkg]))'
    BY DEF ChainRead
  <2>1. u = t
    BY <1>1 DEF ThreadOK, Progress, Removing
  <2> QED BY <2>1
<1> QED BY <1>1, <1>2, <1>3

\* A thread inside an operation: nobody else removes.
LEMMA Alone ==
  ASSUME CallInv, NEW t \in Threads, pc[t] # "idle"
  PROVE  \A u \in Threads \ {t} : ~Removing(u)
  BY DEF CallInv, RemovalAlone

\* The packages stay as they are when no variable of theirs changes.
LEMMA SpaceStays ==
  ASSUME SpaceInv, UNCHANGED space
  PROVE  SpaceInv'
<1>1. /\ sname' = sname /\ home' = home /\ hint' = hint /\ homeFlag' = homeFlag
      /\ symbols' = symbols /\ exported' = exported /\ uses' = uses /\ bindings' = bindings
  BY DEF space
<1>2. Symbols' = Symbols
  BY <1>1 DEF Symbols
<1>3. SpaceOK' = SpaceOK
  BY <1>1, <1>2 DEF SpaceOK
<1>4. OneSymbolPerName' = OneSymbolPerName
  BY <1>1 DEF OneSymbolPerName
<1>5. HomeFlagExact' = HomeFlagExact
  BY <1>1, <1>2 DEF HomeFlagExact
<1>6. NoDuplicates' = NoDuplicates
  BY <1>1, <1>2 DEF NoDuplicates
<1>7. TablesHomed' = TablesHomed
  BY <1>1, <1>2 DEF TablesHomed, Homed
<1> QED BY <1>3, <1>4, <1>5, <1>6, <1>7 DEF SpaceInv

\* A step of a thread that keeps its call.
LEMMA MoveStep ==
  ASSUME IInv, NEW t \in Threads, pc[t] # "idle", SpaceInv',
         Grows \/ \A u \in Threads \ {t} : pc[u] = "idle",
         UNCHANGED call, NEW label, NEW j, Goto(t, label, j),
         todo' \in [Threads -> SUBSET Names], \A u \in Threads \ {t} : todo'[u] = todo[u],
         chain' \in [Threads -> Seq(Nat)],
         label = "splice" =>
           (chain'[t] = symbols'[call[t].pkg] /\ call[t].sym \in Range(symbols'[call[t].pkg])),
         pc'[t] = label /\ job'[t] = j => ThreadOK(t)'
  PROVE  IInv'
<1> USE DEF IInv
<1>2. CallTypes'
  BY DEF CallInv, CallTypes, Goto
<1>4. \A u \in Threads \ {t} :
        /\ pc'[u] = pc[u] /\ call'[u] = call[u] /\ job'[u] = job[u] /\ todo'[u] = todo[u]
        /\ ~Removing(u)
  BY Alone DEF CallInv, CallTypes, Goto
<1>5. Removing(t)' => \A u \in Threads \ {t} : pc[u] = "idle"
  BY DEF CallInv, RemovalAlone, Removing
<1>6. pc'[t] = label /\ job'[t] = j /\ call'[t] = call[t]
  BY DEF CallInv, CallTypes, Goto
<1> QED BY <1>2, <1>4, <1>5, <1>6, ThreadMoves DEF SpaceInv

\* The operation returns.
LEMMA ReturnStep ==
  ASSUME IInv, NEW t \in Threads, pc[t] # "idle", SpaceInv',
         Grows \/ \A u \in Threads \ {t} : pc[u] = "idle",
         Return(t), UNCHANGED todo, todo[t] = {}, chain' \in [Threads -> Seq(Nat)]
  PROVE  IInv'
<1> USE DEF IInv
<1>1. CallTypes'
  BY DEF CallInv, CallTypes, Return, Goto
<1>2. pc'[t] = "idle" /\ call'[t] = NoCall /\ job'[t] = Main
  BY DEF CallInv, CallTypes, Return, Goto
<1>3. ThreadOK(t)'
  BY <1>2 DEF ThreadOK, Progress, Jobs, Building, PastTables, NoCall, Main, EagerOps
<1>4. \A u \in Threads \ {t} :
        /\ pc'[u] = pc[u] /\ call'[u] = call[u] /\ job'[u] = job[u] /\ todo'[u] = todo[u]
        /\ ~Removing(u)
  BY Alone DEF CallInv, CallTypes, Return, Goto
<1>5. ~Removing(t)'
  BY <1>2 DEF Removing, NoCall
<1> QED BY <1>1, <1>2, <1>3, <1>4, <1>5, ThreadMoves DEF SpaceInv

-----------------------------------------------------------------------------
(***************************************************************************)
(* The steps that leave the packages alone.                                *)
(***************************************************************************)
\* The beginning of an operation, with arguments the program has.
LEMMA BeginStep ==
  ASSUME IInv, RemovalAlone', NEW t \in Threads, NEW c, NEW label \in {"read", "eager", "cons", "wait"},
         Arguments(c), Begin(t, c, label),
         label = "read" <=> c.op \in ByName,
         label = "eager" <=> c.op \in EagerOps
  PROVE  IInv'
<1> USE DEF IInv
<1>1. pc[t] = "idle" /\ job[t] = Main /\ todo[t] = {}
  BY DEF Begin, Free, CallInv, ThreadOK, Progress, Building, Main, NoCall, EagerOps
<1>2. UNCHANGED space /\ SpaceInv' /\ Grows
  BY SpaceStays, SameSpaceGrows DEF Begin, SpaceInv
<1>4. CallTypes'
  BY DEF CallInv, CallTypes, Begin
<1>5. pc'[t] = label /\ call'[t] = c /\ job'[t] = Main /\ todo'[t] = todo[t]
  BY <1>1 DEF CallInv, CallTypes, Begin
<1>6. ThreadOK(t)'
  <2>1. Arguments(call[t])'
    BY <1>2, <1>5 DEF Arguments, space, Symbols
  <2>2. Progress(t)' /\ Jobs(t)'
    BY <1>5 DEF Progress, Jobs, Main, AllOps, ByName, EagerOps
  <2>3. Building(t)' /\ PastTables(t)'
    BY <1>1, <1>5 DEF Building, PastTables, Main, EagerOps, ByName
  <2> QED BY <2>1, <2>2, <2>3 DEF ThreadOK
<1>7. \A u \in Threads \ {t} :
        /\ pc'[u] = pc[u] /\ call'[u] = call[u] /\ job'[u] = job[u] /\ todo'[u] = todo[u]
        /\ ~Removing(u)
  <2>1. \A u \in Threads \ {t} :
          pc'[u] = pc[u] /\ call'[u] = call[u] /\ job'[u] = job[u] /\ todo'[u] = todo[u]
    BY DEF CallInv, CallTypes, Begin
  <2> QED BY <1>5, <2>1 DEF RemovalAlone, Removing
<1>8. Removing(t)' => \A u \in Threads \ {t} : pc[u] = "idle"
  BY <1>7 DEF RemovalAlone
<1> QED BY <1>2, <1>4, <1>5, <1>6, <1>7, <1>8, ThreadMoves DEF SpaceInv

\* Every operation begins with arguments the program has.
LEMMA CallPreserves ==
  ASSUME IInv, RemovalAlone', NEW t \in Threads, Call(t)
  PROVE  IInv'
<1> USE DEF ByName, EagerOps, AllOps
<1> PICK p \in Packages :
      \/ \E op \in {"intern", "find", "shadow"}, n \in Names : BeginByName(t, op, n, p)
      \/ \E op \in {"import", "export"}, s \in Symbols : BeginBySymbol(t, op, s, p)
      \/ \E op \in {"use", "unuse"}, u \in Packages : BeginUse(t, op, u, p)
      \/ BeginEnumerate(t, p)
      \/ \E op \in {"unintern", "unexport"}, s \in Symbols : BeginRemoval(t, op, s, p)
  BY DEF Call
<1>a. \A s \in Symbols : sname[s] \in Names
  BY DEF IInv, SpaceInv, SpaceOK, Symbols
<1>1. ASSUME NEW op \in {"intern", "find", "shadow"}, NEW n \in Names, BeginByName(t, op, n, p)
      PROVE  IInv'
  <2> DEFINE c == [NoCall EXCEPT !.op = op, !.name = n, !.pkg = p]
  <2>1. c.op = op /\ c.name = n /\ c.pkg = p
    BY DEF NoCall
  <2>2. Begin(t, c, "read")
    BY <1>1 DEF BeginByName
  <2> HIDE DEF c
  <2>3. Arguments(c)
    BY <2>1 DEF Arguments
  <2> QED BY <1>a, <2>1, <2>2, <2>3, BeginStep
<1>2. ASSUME NEW op \in {"import", "export"}, NEW s \in Symbols, BeginBySymbol(t, op, s, p)
      PROVE  IInv'
  <2> DEFINE c == [NoCall EXCEPT !.op = op, !.sym = s, !.name = sname[s], !.pkg = p]
  <2>1. c.op = op /\ c.name = sname[s] /\ c.pkg = p /\ c.sym = s
    BY DEF NoCall
  <2>2. Begin(t, c, "eager")
    BY <1>2 DEF BeginBySymbol
  <2> HIDE DEF c
  <2>3. Arguments(c)
    BY <2>1 DEF Arguments
  <2> QED BY <1>a, <2>1, <2>2, <2>3, BeginStep
<1>3. ASSUME NEW op \in {"use", "unuse"}, NEW u \in Packages, BeginUse(t, op, u, p)
      PROVE  IInv'
  <2> DEFINE c == [NoCall EXCEPT !.op = op, !.used = u, !.pkg = p]
             label == IF op = "use" THEN "cons" ELSE "wait"
  <2>1. c.op = op /\ c.pkg = p /\ c.used = u
    BY DEF NoCall
  <2>2. Begin(t, c, label)
    BY <1>3 DEF BeginUse
  <2>4. label \in {"cons", "wait"}
    OBVIOUS
  <2> HIDE DEF c, label
  <2>3. Arguments(c)
    BY <2>1 DEF Arguments
  <2> QED BY <1>a, <2>1, <2>2, <2>3, <2>4, BeginStep
<1>4. ASSUME BeginEnumerate(t, p)
      PROVE  IInv'
  <2> DEFINE c == [NoCall EXCEPT !.op = "enumerate", !.pkg = p]
  <2>1. c.op = "enumerate" /\ c.pkg = p
    BY DEF NoCall
  <2>2. Begin(t, c, "eager")
    BY <1>4 DEF BeginEnumerate
  <2> HIDE DEF c
  <2>3. Arguments(c)
    BY <2>1 DEF Arguments
  <2> QED BY <1>a, <2>1, <2>2, <2>3, BeginStep
<1>5. ASSUME NEW op \in {"unintern", "unexport"}, NEW s \in Symbols, BeginRemoval(t, op, s, p)
      PROVE  IInv'
  <2> DEFINE c == [NoCall EXCEPT !.op = op, !.sym = s, !.name = sname[s], !.pkg = p]
  <2>1. c.op = op /\ c.name = sname[s] /\ c.pkg = p /\ c.sym = s
    BY DEF NoCall
  <2>2. Begin(t, c, "eager")
    BY <1>5 DEF BeginRemoval
  <2> HIDE DEF c
  <2>3. Arguments(c)
    BY <2>1 DEF Arguments
  <2> QED BY <1>a, <2>1, <2>2, <2>3, BeginStep
<1> QED BY <1>1, <1>2, <1>3, <1>4, <1>5

\* A lazy hit is a name of the table of the package that lookup gives.
LEMMA LazyHit ==
  ASSUME SpaceOK, NEW n \in Names, NEW p \in Packages, lookup(n, p).lazy # NoPackage
  PROVE  lookup(n, p).lazy \in Packages /\ n \in bindings[lookup(n, p).lazy]
<1> DEFINE hits == {i \in DOMAIN uses[p] : find_external(n, uses[p][i]) # 0 \/ n \in bindings[uses[p][i]]}
           u == uses[p][Min(hits)]
<1>1. CASE find_own_symbol(n, p) # 0
  BY <1>1 DEF lookup
<1>2. CASE find_own_symbol(n, p) = 0 /\ n \in bindings[p]
  BY <1>2 DEF lookup
<1>3. CASE find_own_symbol(n, p) = 0 /\ n \notin bindings[p] /\ hits = {}
  BY <1>3 DEF lookup
<1>4. CASE find_own_symbol(n, p) = 0 /\ n \notin bindings[p] /\ hits # {}
  <2>1. uses[p] \in Seq(Packages) /\ DOMAIN uses[p] = 1..Len(uses[p])
    BY DEF SpaceOK
  <2>2. hits \in SUBSET Nat
    BY <2>1
  <2>3. Min(hits) \in hits
    BY <1>4, <2>2, MinProperties
  <2>4. Min(hits) \in DOMAIN uses[p] /\ (find_external(n, u) # 0 \/ n \in bindings[u])
    BY <2>3, Zenon
  <2>5. lookup(n, p).lazy = IF find_external(n, u) # 0 THEN NoPackage ELSE u
    BY <1>4 DEF lookup
  <2> HIDE DEF hits
  <2>6. u \in Packages
    BY <2>1, <2>4
  <2> QED BY <2>4, <2>5, <2>6
<1> QED BY <1>1, <1>2, <1>3, <1>4

\* A thread that reads or waits.
LEMMA InvFacts ==
  ASSUME IInv, NEW t \in Threads
  PROVE  /\ SpaceInv /\ SpaceOK /\ CallInv /\ CallTypes /\ ThreadOK(t) /\ Progress(t) /\ Jobs(t)
         /\ Building(t) /\ PastTables(t) /\ (pc[t] # "idle" => Arguments(call[t]))
         /\ todo \in [Threads -> SUBSET Names] /\ chain \in [Threads -> Seq(Nat)]
  BY DEF IInv, SpaceInv, CallInv, CallTypes, ThreadOK

\* The packages stay, and with them what the other threads rely on.
LEMMA SameSpace ==
  ASSUME IInv, UNCHANGED space
  PROVE  SpaceInv' /\ Grows
  BY SpaceStays, SameSpaceGrows DEF IInv, SpaceInv

\* The arguments of a call stay valid when the packages only grow.
LEMMA ArgumentsStay ==
  ASSUME NEW t \in Threads, Arguments(call[t]), Grows, call'[t] = call[t]
  PROVE  Arguments(call[t])'
<1>1. \A s \in Symbols : s \in Symbols' /\ sname'[s] = sname[s]
  BY DEF Grows
<1> QED BY <1>1 DEF Arguments

\* The fast path under the read lock: what it found, or the table it found the
\* name in, is still so when the lock is gone.
LEMMA ReadPreserves ==
  ASSUME IInv, NEW t \in Threads, Read(t)
  PROVE  IInv'
<1> DEFINE c == call[t]
           s == IF c.op = "shadow" THEN find_own_symbol(c.name, c.pkg) ELSE lookup(c.name, c.pkg).sym
           q == CASE c.op # "shadow" -> lookup(c.name, c.pkg).lazy
                  [] c.op = "shadow" /\ c.name \in bindings[c.pkg] -> c.pkg
                  [] OTHER -> NoPackage
<1>1. pc[t] = "read" /\ job[t] = Main /\ c.op \in ByName /\ c.name \in Names /\ c.pkg \in Packages
  <2>1. pc[t] = "read" /\ job[t] = Main /\ c.op \in ByName
    BY InvFacts DEF Read, Progress
  <2>2. Arguments(c)
    BY <2>1, InvFacts
  <2> QED BY <2>1, <2>2 DEF Arguments, ByName, EagerOps
<1>2. SpaceInv' /\ Grows /\ UNCHANGED <<todo, chain>> /\ todo[t] = {}
  BY <1>1, SameSpace, InvFacts DEF Read, Building, ByName, EagerOps, Main
<1>3. q # NoPackage => q \in Packages /\ c.name \in bindings[q]
  BY <1>1, LazyHit, InvFacts
<1>4. \/ Return(t)
      \/ q # NoPackage /\ Goto(t, "copy", Build(q, c.name)) /\ UNCHANGED call
      \/ q = NoPackage /\ c.op # "find" /\ Goto(t, "cons", Main) /\ UNCHANGED call
  BY DEF Read
<1>a. c.op = "shadow" /\ q = NoPackage => c.name \notin bindings[c.pkg]
  BY <1>1, PackageConstants
<1> HIDE DEF s, q
<1>5. CASE Return(t)
  BY <1>1, <1>2, <1>5, ReturnStep, InvFacts
<1>6. CASE q # NoPackage /\ Goto(t, "copy", Build(q, c.name)) /\ UNCHANGED call
  <2> SUFFICES ASSUME pc'[t] = "copy", job'[t] = Build(q, c.name) PROVE ThreadOK(t)'
    BY <1>1, <1>2, <1>6, MoveStep, InvFacts
  <2>1. Arguments(call[t])'
    BY <1>1, <1>2, <1>6, ArgumentsStay, InvFacts
  <2>2. Progress(t)' /\ Jobs(t)'
    BY <1>1, <1>3, <1>6 DEF Progress, Jobs, Build
  <2>3. c.name \in bindings'[q]
    BY <1>3, <1>6 DEF Read, space
  <2>4. Building(t)' /\ PastTables(t)'
    BY <1>1, <1>2, <1>6, <2>3 DEF Building, PastTables, Build, Main, ByName, EagerOps
  <2> QED BY <2>1, <2>2, <2>4 DEF ThreadOK
<1>7. CASE q = NoPackage /\ c.op # "find" /\ Goto(t, "cons", Main) /\ UNCHANGED call
  <2> SUFFICES ASSUME pc'[t] = "cons", job'[t] = Main PROVE ThreadOK(t)'
    BY <1>1, <1>2, <1>7, MoveStep, InvFacts
  <2>1. Arguments(call[t])'
    BY <1>1, <1>2, <1>7, ArgumentsStay, InvFacts
  <2>2. Progress(t)' /\ Jobs(t)'
    BY <1>1, <1>7 DEF Progress, Jobs, Main, ByName
  <2>3. c.op = "shadow" => c.name \notin bindings'[c.pkg]
    BY <1>7, <1>a DEF Read, space
  <2>4. Building(t)' /\ PastTables(t)'
    BY <1>1, <1>2, <1>7, <2>3 DEF Building, PastTables, Main, ByName, EagerOps
  <2> QED BY <2>1, <2>2, <2>4 DEF ThreadOK
<1> QED BY <1>4, <1>5, <1>6, <1>7

\* The part after a table's end, from a state in which the table has gone or,
\* for EXPORT, the name is present.
LEMMA ProceedStep ==
  ASSUME IInv, NEW t \in Threads, pc[t] # "idle", call[t].op \in EagerOps, SpaceInv', Grows, Proceed(t),
         UNCHANGED <<todo, chain>>, todo[t] = {},
         \/ bindings'[call[t].pkg] = {}
         \/ call[t].op = "export" /\ \E s \in Range(symbols'[call[t].pkg]) : sname'[s] = call[t].name
  PROVE  IInv'
<1>1. CASE Return(t)
  BY <1>1, ReturnStep, InvFacts
<1>2. ASSUME NEW label \in {"cons", "wait", "scan"}, Goto(t, label, Main), UNCHANGED call,
             call[t].op # "enumerate", label = "scan" => call[t].op = "unintern"
      PROVE  IInv'
  <2> SUFFICES ASSUME pc'[t] = label, job'[t] = Main PROVE ThreadOK(t)'
    BY <1>2, MoveStep, InvFacts
  <2>1. Arguments(call[t])'
    BY <1>2, ArgumentsStay, InvFacts
  <2>2. Progress(t)' /\ Jobs(t)'
    BY <1>2 DEF Progress, Jobs, Main, EagerOps
  <2>3. Building(t)'
    BY <1>2 DEF Building, Main
  <2>4. PastTables(t)'
    BY <1>2 DEF PastTables, EagerOps, Present
  <2> QED BY <2>1, <2>2, <2>3, <2>4 DEF ThreadOK
<1>3. \/ Return(t)
      \/ \E label \in {"cons", "wait", "scan"} :
           /\ Goto(t, label, Main) /\ UNCHANGED call /\ call[t].op # "enumerate"
           /\ label = "scan" => call[t].op = "unintern"
  BY DEF Proceed, EagerOps
<1> QED BY <1>1, <1>2, <1>3

\* Before its stores an operation ends the table, unless there is none to end.
LEMMA EagerPreserves ==
  ASSUME IInv, NEW t \in Threads, Eager(t)
  PROVE  IInv'
<1> DEFINE c == call[t]
<1>1. pc[t] = "eager" /\ job[t] = Main /\ c.op \in EagerOps
  BY InvFacts DEF Eager, Progress
<1>2. c.pkg \in Packages /\ (c.op = "export" => c.name \in Names)
  <2>1. Arguments(c)
    BY <1>1, InvFacts
  <2> QED BY <1>1, <2>1, InvFacts DEF Arguments, ByName, EagerOps, SpaceOK, Symbols
<1>3. UNCHANGED space /\ SpaceInv' /\ Grows /\ UNCHANGED chain /\ todo[t] = {}
  BY <1>1, SameSpace, InvFacts DEF Eager, Building, Main
<1>4. CASE Goto(t, "each", Main) /\ todo' = [todo EXCEPT ![t] = bindings[c.pkg]] /\ UNCHANGED call
  <2>1. todo'[t] = bindings[c.pkg] /\ todo' \in [Threads -> SUBSET Names]
        /\ \A u \in Threads \ {t} : todo'[u] = todo[u]
    BY <1>2, <1>4, InvFacts DEF SpaceOK
  <2> SUFFICES ASSUME pc'[t] = "each", job'[t] = Main PROVE ThreadOK(t)'
    BY <1>1, <1>3, <1>4, <2>1, MoveStep, InvFacts
  <2>2. Arguments(call[t])'
    BY <1>1, <1>3, <1>4, ArgumentsStay, InvFacts
  <2>3. Progress(t)' /\ Jobs(t)'
    BY <1>1, <1>4 DEF Progress, Jobs, Main
  <2>4. bindings'[c.pkg] = bindings[c.pkg] /\ bindings[c.pkg] \subseteq Tables[c.pkg]
    BY <1>2, <1>3, InvFacts DEF SpaceOK, space
  <2>5. Building(t)' /\ PastTables(t)'
    BY <1>1, <1>4, <2>1, <2>4 DEF Building, PastTables, Main
  <2> QED BY <2>2, <2>3, <2>5 DEF ThreadOK
<1>5. CASE /\ ~(bindings[c.pkg] # {} /\ (c.op = "export" => find_own_symbol(c.name, c.pkg) = 0))
           /\ Proceed(t) /\ UNCHANGED todo
  <2>1. bindings'[c.pkg] = bindings[c.pkg]
    BY <1>3 DEF space
  <2>2. bindings[c.pkg] # {} => c.op = "export" /\ Present(c.name, c.pkg)
    BY <1>2, <1>5, OwnSymbol, InvFacts
  <2>3. Present(c.name, c.pkg) => (\E s \in Range(symbols'[c.pkg]) : sname'[s] = c.name)
    BY <1>3 DEF Present, space
  <2> QED BY <1>1, <1>3, <1>5, <2>1, <2>2, <2>3, ProceedStep
<1> QED BY <1>4, <1>5 DEF Eager

\* cl_bindtab_materialize_all leaves no name behind.
LEMMA EachPreserves ==
  ASSUME IInv, NEW t \in Threads, Each(t)
  PROVE  IInv'
<1> DEFINE p == call[t].pkg
           n == CHOOSE m \in todo[t] : \A k \in todo[t] : m <= k
<1>1. pc[t] = "each" /\ job[t] = Main /\ call[t].op \in EagerOps
  BY InvFacts DEF Each, Progress
<1>2. p \in Packages
  <2>1. Arguments(call[t])
    BY <1>1, InvFacts
  <2> QED BY <1>1, <2>1 DEF Arguments, ByName, EagerOps
<1>3. UNCHANGED space /\ SpaceInv' /\ Grows /\ UNCHANGED <<call, chain>>
  BY SameSpace DEF Each
<1>4. /\ \A m \in bindings[p] : m \in todo[t] \/ Present(m, p)
      /\ todo[t] \subseteq Tables[p] /\ todo[t] \subseteq Names
  <2>1. Building(t) /\ todo[t] \subseteq Names
    BY InvFacts
  <2> QED BY <1>1, <2>1 DEF Building, Main
<1>5. bindings'[p] = bindings[p] /\ (\A m : Present(m, p) => Present(m, p)') /\ bindings[p] \in {{}, Tables[p]}
      /\ call'[t] = call[t]
  BY <1>2, <1>3, InvFacts DEF Present, space, SpaceOK
<1>6. Arguments(call[t])'
  BY <1>1, <1>3, ArgumentsStay, InvFacts
<1>7. CASE todo[t] = {} \/ bindings[p] = {}
  <2>1. Goto(t, "wait", Drop) /\ todo' = [todo EXCEPT ![t] = {}]
    BY <1>7 DEF Each
  <2>2. todo'[t] = {} /\ todo' \in [Threads -> SUBSET Names] /\ \A u \in Threads \ {t} : todo'[u] = todo[u]
    BY <2>1, InvFacts
  <2> SUFFICES ASSUME pc'[t] = "wait", job'[t] = Drop PROVE ThreadOK(t)'
    BY <1>1, <1>3, <2>1, <2>2, MoveStep, InvFacts
  <2>3. Progress(t)' /\ Jobs(t)'
    BY <1>1, <1>3 DEF Progress, Jobs, Main, Drop
  <2>4. Building(t)' /\ PastTables(t)'
    BY <1>1, <1>4, <1>5, <1>7, <2>2 DEF Building, PastTables, Main, Drop
  <2> QED BY <1>6, <2>3, <2>4 DEF ThreadOK
<1>8. CASE ~(todo[t] = {} \/ bindings[p] = {})
  <2>1. n \in todo[t] /\ n \in Names
    <3>1. todo[t] \in SUBSET Nat
      BY <1>4, PackageConstants
    <3>2. \E m \in todo[t] : \A k \in todo[t] : m <= k
      BY <1>8, <3>1, LeastElement
    <3> QED BY <1>4, <3>2
  <2>2. /\ IF find_own_symbol(n, p) = 0 THEN Goto(t, "copy", Build(p, n)) ELSE UNCHANGED <<pc, job>>
        /\ todo' = [todo EXCEPT ![t] = @ \ {n}]
    BY <1>8 DEF Each
  <2> HIDE DEF n
  <2>3. todo'[t] = todo[t] \ {n} /\ todo' \in [Threads -> SUBSET Names]
        /\ \A u \in Threads \ {t} : todo'[u] = todo[u]
    BY <2>2, InvFacts
  <2>4. CASE find_own_symbol(n, p) = 0
    <3>1. Goto(t, "copy", Build(p, n))
      BY <2>2, <2>4
    <3> SUFFICES ASSUME pc'[t] = "copy", job'[t] = Build(p, n) PROVE ThreadOK(t)'
      BY <1>1, <1>3, <2>3, <3>1, MoveStep, InvFacts
    <3>2. Progress(t)' /\ Jobs(t)'
      BY <1>1, <1>2, <1>3, <2>1 DEF Progress, Jobs, Build
    <3>3. n \in bindings'[p]
      BY <1>4, <1>5, <1>8, <2>1
    <3>4. Building(t)' /\ PastTables(t)'
      BY <1>1, <1>4, <1>5, <2>3, <3>3 DEF Building, PastTables, Build, Main
    <3> QED BY <1>6, <3>2, <3>4 DEF ThreadOK
  <2>5. CASE find_own_symbol(n, p) # 0
    <3>1. Present(n, p)
      BY <1>2, <2>5, OwnSymbol, InvFacts
    <3>2. Goto(t, "each", Main)
      BY <1>1, <2>2, <2>5, InvFacts DEF Goto, CallTypes
    <3> SUFFICES ASSUME pc'[t] = "each", job'[t] = Main PROVE ThreadOK(t)'
      BY <1>1, <1>3, <2>3, <3>2, MoveStep, InvFacts
    <3>3. Progress(t)' /\ Jobs(t)'
      BY <1>1, <1>3 DEF Progress, Jobs, Main
    <3>4. Building(t)' /\ PastTables(t)'
      BY <1>1, <1>4, <1>5, <2>3, <3>1 DEF Building, PastTables, Main
    <3> QED BY <1>6, <3>3, <3>4 DEF ThreadOK
  <2> QED BY <2>4, <2>5
<1> QED BY <1>7, <1>8

\* Back from cl_bindtab_materialize, when the table has gone or the name it was
\* asked for is present.
LEMMA BuiltStep ==
  ASSUME IInv, NEW t \in Threads, pc[t] # "idle", job[t].kind = "build", SpaceInv', Grows, Built(t),
         UNCHANGED <<todo, chain>>,
         \/ bindings'[job[t].pkg] = {}
         \/ \E s \in Range(symbols'[job[t].pkg]) : sname'[s] = job[t].name
  PROVE  IInv'
<1>1. Building(t) /\ (call[t].op \in ByName \/ (call[t].op \in EagerOps /\ job[t].pkg = call[t].pkg))
  BY InvFacts DEF Jobs, Main, Drop
<1>2. CASE call[t].op \in ByName
  <2>1. todo[t] = {} /\ Return(t)
    BY <1>1, <1>2 DEF Building, Built, ByName, EagerOps
  <2> QED BY <2>1, ReturnStep, InvFacts
<1>3. CASE call[t].op \in EagerOps /\ job[t].pkg = call[t].pkg
  <2>1. Goto(t, "each", Main) /\ UNCHANGED call
    BY <1>3 DEF Built, EagerOps
  <2> SUFFICES ASSUME pc'[t] = "each", job'[t] = Main PROVE ThreadOK(t)'
    BY <2>1, MoveStep, InvFacts
  <2>2. Arguments(call[t])'
    BY <2>1, ArgumentsStay, InvFacts
  <2>3. Progress(t)' /\ Jobs(t)'
    BY <1>3, <2>1 DEF Progress, Jobs, Main
  <2>4. call[t].pkg \in Packages /\ job[t].name \in Names
    BY <1>3, InvFacts DEF Jobs, Main, Drop
  <2>5. /\ bindings'[call[t].pkg] \subseteq bindings[call[t].pkg]
        /\ \A m \in Names : Present(m, call[t].pkg) =>
             \E s \in Range(symbols'[call[t].pkg]) : sname'[s] = m
    BY <2>4, InvFacts DEF Grows, Present, SpaceOK
  <2>6. bindings[call[t].pkg] \subseteq Names
    BY <2>4, InvFacts DEF SpaceOK
  <2>7. \A m \in bindings'[call[t].pkg] :
          m \in todo[t] \/ \E s \in Range(symbols'[call[t].pkg]) : sname'[s] = m
    BY <1>1, <1>3, <2>5, <2>6 DEF Building
  <2>8. Building(t)' /\ PastTables(t)'
    BY <1>1, <1>3, <2>1, <2>7 DEF Building, PastTables, Main, Present
  <2> QED BY <2>2, <2>3, <2>8 DEF ThreadOK
<1> QED BY <1>1, <1>2, <1>3

\* cl_bindtab_materialize before its allocation.
LEMMA CopyPreserves ==
  ASSUME IInv, NEW t \in Threads, Copy(t)
  PROVE  IInv'
<1>1. pc[t] = "copy" /\ job[t].kind = "build"
  BY InvFacts DEF Copy, Progress
<1>2. UNCHANGED space /\ SpaceInv' /\ Grows /\ UNCHANGED <<todo, chain>>
  BY SameSpace DEF Copy
<1>3. CASE bindings[job[t].pkg] = {}
  <2>1. bindings'[job[t].pkg] = {} /\ Built(t)
    BY <1>2, <1>3 DEF Copy, space
  <2> QED BY <1>1, <1>2, <2>1, BuiltStep
<1>4. CASE bindings[job[t].pkg] # {}
  <2>1. Goto(t, "cons", job[t]) /\ UNCHANGED call
    BY <1>4 DEF Copy
  <2> SUFFICES ASSUME pc'[t] = "cons", job'[t] = job[t] PROVE ThreadOK(t)'
    BY <1>1, <1>2, <2>1, MoveStep, InvFacts
  <2>2. Arguments(call[t])'
    BY <1>1, <1>2, <2>1, ArgumentsStay, InvFacts
  <2>3. Progress(t)' /\ Jobs(t)' /\ PastTables(t)'
    BY <1>1, <2>1, InvFacts DEF Progress, Jobs, PastTables, Main
  <2>4. Building(t)'
    BY <1>1, <1>2, <2>1, InvFacts DEF Building, Present, Homed, space
  <2> QED BY <2>2, <2>3, <2>4 DEF ThreadOK
<1> QED BY <1>3, <1>4

\* The allocation, with or without a stop of the world, and the lock.
LEMMA WaitPreserves ==
  ASSUME IInv, NEW t \in Threads, Allocate(t) \/ StopWorld(t) \/ Collect(t) \/ WriteLock(t)
  PROVE  IInv'
<1>1. PICK label \in {"wait", "collect", "commit"} :
        /\ Goto(t, label, job[t]) /\ pc[t] \in {"cons", "collect", "wait"}
        /\ label = "collect" => pc[t] = "cons"
  BY DEF Allocate, StopWorld, Collect, WriteLock
<1>2. UNCHANGED space /\ SpaceInv' /\ Grows /\ UNCHANGED <<call, todo, chain>>
  BY SameSpace DEF Allocate, StopWorld, Collect, WriteLock
<1> SUFFICES ASSUME pc'[t] = label, job'[t] = job[t] PROVE ThreadOK(t)'
  BY <1>1, <1>2, MoveStep, InvFacts
<1>3. Arguments(call[t])'
  BY <1>1, <1>2, ArgumentsStay, InvFacts
<1>4. Progress(t)' /\ Jobs(t)'
  BY <1>1, <1>2, InvFacts DEF Progress, Jobs, Main
<1>5. PastTables(t)'
  BY <1>1, <1>2, InvFacts DEF PastTables, Main, Present, space
<1>6. Building(t)'
  BY <1>1, <1>2, InvFacts DEF Building, Present, Homed, space
<1> QED BY <1>3, <1>4, <1>5, <1>6 DEF ThreadOK

\* UNINTERN reads the chain.
LEMMA ScanPreserves ==
  ASSUME IInv, NEW t \in Threads, Scan(t)
  PROVE  IInv'
<1>1. pc[t] = "scan" /\ call[t].op = "unintern" /\ job[t] = Main
  BY InvFacts DEF Scan, Progress
<1>2. call[t].pkg \in Packages
  <2>1. Arguments(call[t])
    BY <1>1, InvFacts
  <2> QED BY <1>1, <2>1 DEF Arguments, ByName, EagerOps
<1>3. UNCHANGED space /\ SpaceInv' /\ Grows /\ UNCHANGED todo /\ todo[t] = {}
  BY <1>1, SameSpace, InvFacts DEF Scan, Building, Main
<1>4. chain' \in [Threads -> Seq(Nat)] /\ chain'[t] = symbols'[call[t].pkg]
  BY <1>2, <1>3, InvFacts DEF Scan, SpaceOK, space
<1>5. CASE Return(t)
  BY <1>1, <1>3, <1>4, <1>5, ReturnStep
<1>6. CASE call[t].sym \in Range(symbols[call[t].pkg]) /\ Goto(t, "splice", Main) /\ UNCHANGED call
  <2>1. call[t].sym \in Range(symbols'[call[t].pkg])
    BY <1>3, <1>6 DEF space
  <2> SUFFICES ASSUME pc'[t] = "splice", job'[t] = Main PROVE ThreadOK(t)'
    BY <1>1, <1>3, <1>4, <1>6, <2>1, MoveStep, InvFacts
  <2>2. Arguments(call[t])'
    BY <1>1, <1>3, <1>6, ArgumentsStay, InvFacts
  <2>3. Progress(t)' /\ Jobs(t)' /\ Building(t)'
    BY <1>1, <1>3, <1>6 DEF Progress, Jobs, Building, Main
  <2>4. PastTables(t)'
    BY <1>1, <1>3, <1>6, InvFacts DEF PastTables, Main, space
  <2> QED BY <2>2, <2>3, <2>4 DEF ThreadOK
<1> QED BY <1>5, <1>6 DEF Scan

-----------------------------------------------------------------------------
(***************************************************************************)
(* The stores under the write lock.                                        *)
(***************************************************************************)
\* A new head occurs once if it was not in the list.
LEMMA ConsOnce ==
  ASSUME NEW l \in Seq(Nat), NEW e \in Nat, NEW x, Once(l, x), x = e => e \notin Range(l)
  PROVE  Once(<<e>> \o l, x)
<1> DEFINE k == <<e>> \o l
<1>1. /\ k \in Seq(Nat) /\ Len(k) = Len(l) + 1 /\ Len(l) \in Nat
      /\ \A i \in 1..(Len(l) + 1) : k[i] = IF i = 1 THEN e ELSE l[i - 1]
  BY ConsProperties
<1>2. \A y : y \in Range(l) <=> \E i \in 1..Len(l) : l[i] = y
  BY RangeIs
<1> HIDE DEF k
<1>3. ASSUME NEW i \in 1..Len(k), NEW j \in 1..Len(k), k[i] = x, k[j] = x
      PROVE  i = j
  <2>1. CASE i = 1 /\ j = 1
    BY <2>1
  <2>2. CASE i = 1 /\ j # 1
    <3>1. k[i] = e /\ k[j] = l[j - 1] /\ j - 1 \in 1..Len(l)
      BY <1>1, <2>2
    <3> QED BY <1>2, <1>3, <3>1
  <2>3. CASE i # 1 /\ j = 1
    <3>1. k[j] = e /\ k[i] = l[i - 1] /\ i - 1 \in 1..Len(l)
      BY <1>1, <2>3
    <3> QED BY <1>2, <1>3, <3>1
  <2>4. CASE i # 1 /\ j # 1
    <3>1. k[j] = l[j - 1] /\ k[i] = l[i - 1] /\ i - 1 \in 1..Len(l) /\ j - 1 \in 1..Len(l)
      BY <1>1, <2>4
    <3> QED BY <1>3, <3>1 DEF Once
  <2> QED BY <2>1, <2>2, <2>3, <2>4
<1>4. Once(k, x)
  BY <1>3 DEF Once
<1> QED BY <1>4 DEF k

\* A fresh symbol, exported if its name is in the package's table.
LEMMA FreshSymbol ==
  ASSUME SpaceInv, NEW n \in Names, NEW p \in Packages, NEW exp \in BOOLEAN, AddFresh(n, p, exp),
         ~Present(n, p), n \in bindings[p] => exp
  PROVE  /\ SpaceInv' /\ Grows
         /\ \E s \in Range(symbols'[p]) : sname'[s] = n
<1> USE DEF SpaceInv
<1> DEFINE s == Len(sname) + 1
<1>1. /\ Len(sname) \in Nat /\ Symbols = 1..Len(sname) /\ s \in Nat /\ s \notin Symbols
      /\ DOMAIN home = Symbols /\ Len(home) = Len(sname)
  BY DEF SpaceOK, Symbols
<1>2. /\ sname' \in Seq(Names) /\ Len(sname') = s /\ sname'[s] = n
      /\ \A i \in Symbols : sname'[i] = sname[i]
  BY <1>1 DEF AddFresh, SpaceOK
<1>3. /\ home' \in Seq(Packages \union {NoPackage}) /\ Len(home') = s /\ home'[s] = p
      /\ \A i \in Symbols : home'[i] = home[i]
  BY <1>1 DEF AddFresh, SpaceOK
<1>4. Symbols' = Symbols \union {s}
  BY <1>1, <1>2 DEF Symbols
<1>5. /\ symbols' \in [Packages -> Seq(Nat)] /\ symbols'[p] = <<s>> \o symbols[p]
      /\ Range(symbols'[p]) = {s} \union Range(symbols[p])
      /\ \A r \in Packages \ {p} : symbols'[r] = symbols[r]
  <2>1. symbols[p] \in Seq(Nat) /\ symbols' = [symbols EXCEPT ![p] = <<s>> \o symbols[p]]
    BY DEF AddFresh, SpaceOK
  <2>2. <<s>> \o symbols[p] \in Seq(Nat) /\ Range(<<s>> \o symbols[p]) = {s} \union Range(symbols[p])
    BY <1>1, <2>1, ConsProperties
  <2> QED BY <2>1, <2>2 DEF SpaceOK
<1>6. /\ exported' \in [Packages -> Seq(Nat)] /\ exported'[p] = IF exp THEN <<s>> \o exported[p] ELSE exported[p]
      /\ Range(exported'[p]) = Range(exported[p]) \union (IF exp THEN {s} ELSE {})
      /\ \A r \in Packages \ {p} : exported'[r] = exported[r]
  <2>1. exported[p] \in Seq(Nat)
        /\ exported' = IF exp THEN [exported EXCEPT ![p] = <<s>> \o exported[p]] ELSE exported
    BY DEF AddFresh, SpaceOK
  <2>2. <<s>> \o exported[p] \in Seq(Nat) /\ Range(<<s>> \o exported[p]) = {s} \union Range(exported[p])
    BY <1>1, <2>1, ConsProperties
  <2> QED BY <2>1, <2>2 DEF SpaceOK
<1>7. hint' = hint \union (IF exp THEN {s} ELSE {}) /\ homeFlag' = homeFlag \union (IF exp THEN {s} ELSE {})
      /\ uses' = uses /\ bindings' = bindings
  BY DEF AddFresh
<1>8. \A r \in Packages : Range(symbols[r]) \subseteq Symbols /\ Range(exported[r]) \subseteq Symbols
  BY DEF SpaceOK
<1>b. hint \subseteq Symbols /\ homeFlag \subseteq Symbols
  BY DEF SpaceOK
<1> HIDE DEF s
<1>9. SpaceOK'
  <2>1. \A r \in Packages : (Range(symbols[r]) \subseteq Symbols)' /\ (Range(exported[r]) \subseteq Symbols)'
    BY <1>4, <1>5, <1>6, <1>8
  <2>2. uses' \in [Packages -> Seq(Packages)] /\ bindings' \in [Packages -> SUBSET Names]
        /\ \A r \in Packages : bindings'[r] \in {{}, Tables[r]}
    BY <1>7 DEF SpaceOK
  <2>3. hint' \subseteq Symbols' /\ homeFlag' \subseteq Symbols'
    BY <1>4, <1>7, <1>b
  <2> QED BY <1>2, <1>3, <1>5, <1>6, <2>1, <2>2, <2>3 DEF SpaceOK
<1>10. OneSymbolPerName'
  <2> SUFFICES ASSUME NEW r \in Packages, NEW x \in Range(symbols'[r]), NEW y \in Range(symbols'[r]),
                      sname'[x] = sname'[y]
               PROVE  x = y
    BY DEF OneSymbolPerName
  <2>1. CASE x \in Range(symbols[r]) /\ y \in Range(symbols[r])
    BY <1>2, <1>8, <2>1 DEF OneSymbolPerName
  <2>2. CASE r = p /\ x = s /\ y \in Range(symbols[p])
    BY <1>2, <1>8, <2>2 DEF Present
  <2>3. CASE r = p /\ y = s /\ x \in Range(symbols[p])
    BY <1>2, <1>8, <2>3 DEF Present
  <2> QED BY <1>5, <2>1, <2>2, <2>3
<1>11. HomeFlagExact'
  <2> SUFFICES ASSUME NEW x \in Symbols', home'[x] # NoPackage
               PROVE  /\ x \in Range(symbols'[home'[x]])
                      /\ x \in homeFlag' <=> x \in Range(exported'[home'[x]])
    BY DEF HomeFlagExact
  <2>1. CASE x = s
    BY <1>1, <1>3, <1>5, <1>6, <1>7, <1>8, <1>b, <2>1
  <2>2. CASE x \in Symbols
    <3>1. home'[x] = home[x] /\ home[x] \in Packages /\ x # s
      BY <1>1, <1>3, <2>2 DEF SpaceOK
    <3>2. x \in Range(symbols[home[x]]) /\ (x \in homeFlag <=> x \in Range(exported[home[x]]))
      BY <2>2, <3>1 DEF HomeFlagExact
    <3> QED BY <1>5, <1>6, <1>7, <3>1, <3>2
  <2> QED BY <1>4, <2>1, <2>2
<1>12. NoDuplicates'
  <2>1. ASSUME NEW r \in Packages, NEW x \in Symbols' PROVE Once(symbols'[r], x)
    <3>1. Once(symbols[r], x) /\ symbols[r] \in Seq(Nat)
      <4>1. symbols[r] \in Seq(Nat)
        BY DEF SpaceOK
      <4>2. CASE x \in Symbols
        BY <4>1, <4>2 DEF NoDuplicates
      <4>3. CASE x = s
        BY <1>1, <1>8, <4>1, <4>3, RangeIs DEF Once
      <4> QED BY <1>4, <4>1, <4>2, <4>3
    <3>2. CASE r = p
      <4>1. s \notin Range(symbols[p])
        BY <1>1, <1>8
      <4>2. Once(<<s>> \o symbols[p], x)
        BY <1>1, <3>1, <3>2, <4>1, ConsOnce
      <4> QED BY <1>5, <3>1, <3>2, <4>2
    <3> QED BY <1>5, <3>1, <3>2
  <2>2. ASSUME NEW r \in Packages, NEW x \in Symbols', home'[x] = r PROVE Once(exported'[r], x)
    <3>1. Once(exported[r], x) /\ exported[r] \in Seq(Nat)
      <4>1. exported[r] \in Seq(Nat)
        BY DEF SpaceOK
      <4>2. CASE x \in Symbols
        BY <1>3, <2>2, <4>1, <4>2 DEF NoDuplicates
      <4>3. CASE x = s
        BY <1>1, <1>8, <4>1, <4>3, RangeIs DEF Once
      <4> QED BY <1>4, <4>1, <4>2, <4>3
    <3>2. CASE r = p
      <4>1. s \notin Range(exported[p])
        BY <1>1, <1>8
      <4>2. Once(<<s>> \o exported[p], x)
        BY <1>1, <3>1, <3>2, <4>1, ConsOnce
      <4> QED BY <1>6, <3>1, <3>2, <4>2
    <3> QED BY <1>6, <3>1, <3>2
  <2> QED BY <2>1, <2>2 DEF NoDuplicates
<1>13. \A r \in Packages : \A x \in Range(symbols[r]) : Homed(x, r) => Homed(x, r)'
  BY <1>3, <1>7, <1>8 DEF Homed
<1>14. TablesHomed'
  <2> SUFFICES ASSUME NEW r \in Packages, NEW x \in Range(symbols'[r]), sname'[x] \in bindings'[r]
               PROVE  Homed(x, r)'
    BY DEF TablesHomed
  <2>1. CASE x \in Range(symbols[r])
    BY <1>2, <1>7, <1>8, <1>13, <2>1 DEF TablesHomed
  <2>2. CASE x = s /\ r = p
    BY <1>2, <1>3, <1>7, <2>2 DEF Homed
  <2> QED BY <1>5, <2>1, <2>2
<1>15. Grows
  BY <1>2, <1>4, <1>5, <1>7, <1>13 DEF Grows
<1> QED BY <1>2, <1>5, <1>9, <1>10, <1>11, <1>12, <1>14, <1>15

\* The packages after a store that adds no symbol: one lemma for IMPORT, EXPORT
\* and the use list.  A package gets s at the head of its chain, or not; then
\* the export list of p gets s, or not.
LEMMA AddPresent ==
  ASSUME SpaceInv, NEW s \in Symbols, NEW p \in Packages,
         UNCHANGED <<sname, home>>, bindings' = bindings, uses' \in [Packages -> Seq(Packages)],
         \/ UNCHANGED symbols
         \/ /\ symbols' = [symbols EXCEPT ![p] = <<s>> \o @]
            /\ ~Present(sname[s], p) /\ sname[s] \notin bindings[p],
         \/ UNCHANGED <<exported, hint, homeFlag>>
         \/ PushExport(s, p) /\ Flag(s, p)
  PROVE  SpaceInv' /\ Grows
<1> USE DEF SpaceInv
<1>1. /\ symbols \in [Packages -> Seq(Nat)] /\ exported \in [Packages -> Seq(Nat)]
      /\ hint \subseteq Symbols /\ homeFlag \subseteq Symbols /\ Symbols' = Symbols
      /\ \A r \in Packages : Range(symbols[r]) \subseteq Symbols /\ Range(exported[r]) \subseteq Symbols
      /\ s \in Nat
  BY DEF SpaceOK, Symbols
<1>8. \A l \in Seq(Nat) : <<s>> \o l \in Seq(Nat) /\ Range(<<s>> \o l) = {s} \union Range(l)
  BY <1>1, ConsProperties
<1>2. /\ symbols' \in [Packages -> Seq(Nat)]
      /\ \A r \in Packages \ {p} : symbols'[r] = symbols[r]
      /\ \/ symbols'[p] = symbols[p]
         \/ /\ symbols'[p] = <<s>> \o symbols[p] /\ Range(symbols'[p]) = {s} \union Range(symbols[p])
            /\ ~Present(sname[s], p) /\ sname[s] \notin bindings[p]
  <2>1. symbols[p] \in Seq(Nat)
    BY <1>1
  <2>2. <<s>> \o symbols[p] \in Seq(Nat) /\ Range(<<s>> \o symbols[p]) = {s} \union Range(symbols[p])
    BY <1>8, <2>1
  <2> QED BY <1>1, <2>2
<1>3. /\ exported' \in [Packages -> Seq(Nat)]
      /\ \A r \in Packages \ {p} : exported'[r] = exported[r]
      /\ hint' \subseteq Symbols /\ homeFlag \subseteq homeFlag'
      /\ \/ exported'[p] = exported[p] /\ homeFlag' = homeFlag
         \/ exported_p(s, p) /\ exported'[p] = exported[p]
            /\ homeFlag' = IF home[s] = p THEN homeFlag \union {s} ELSE homeFlag
         \/ /\ ~exported_p(s, p) /\ exported'[p] = <<s>> \o exported[p]
            /\ Range(exported'[p]) = {s} \union Range(exported[p])
            /\ homeFlag' = IF home[s] = p THEN homeFlag \union {s} ELSE homeFlag
  <2>1. exported[p] \in Seq(Nat) /\ s \in Nat
    BY <1>1
  <2>2. <<s>> \o exported[p] \in Seq(Nat) /\ Range(<<s>> \o exported[p]) = {s} \union Range(exported[p])
    BY <1>8, <2>1
  <2>3. CASE UNCHANGED <<exported, hint, homeFlag>>
    BY <1>1, <2>3
  <2>4. CASE PushExport(s, p) /\ Flag(s, p) /\ exported_p(s, p)
    BY <1>1, <2>4 DEF PushExport, Flag
  <2>5. CASE PushExport(s, p) /\ Flag(s, p) /\ ~exported_p(s, p)
    BY <1>1, <2>2, <2>5 DEF PushExport, Flag
  <2> QED BY <2>3, <2>4, <2>5
<1>4. homeFlag' \subseteq Symbols
  BY <1>1, <1>3
<1>7. /\ \A x, r : r \in Packages /\ x # s => (x \in Range(exported'[r]) <=> x \in Range(exported[r]))
      /\ \A x : x # s => (x \in homeFlag' <=> x \in homeFlag)
      /\ home[s] # p => homeFlag' = homeFlag
  BY <1>3
<1>5. home[s] = p => /\ exported_p(s, p) <=> s \in homeFlag
                     /\ s \in homeFlag <=> s \in Range(exported[p])
                     /\ s \in Range(symbols[p])
  BY PackageConstants DEF exported_p, HomeFlagExact
<1>6. home[s] = p => symbols'[p] = symbols[p]
  BY <1>2, <1>5 DEF Present
<1>9. SpaceOK'
  <2>1. \A r \in Packages : (Range(symbols[r]) \subseteq Symbols)' /\ (Range(exported[r]) \subseteq Symbols)'
    BY <1>1, <1>2, <1>3
  <2> QED BY <1>1, <1>2, <1>3, <1>4, <2>1 DEF SpaceOK
<1>10. OneSymbolPerName'
  BY <1>2 DEF OneSymbolPerName, Present
<1>11. HomeFlagExact'
  <2> SUFFICES ASSUME NEW x \in Symbols, home[x] # NoPackage
               PROVE  /\ x \in Range(symbols'[home[x]])
                      /\ x \in homeFlag' <=> x \in Range(exported'[home[x]])
    BY <1>1 DEF HomeFlagExact
  <2>1. /\ x \in Range(symbols[home[x]]) /\ (x \in homeFlag <=> x \in Range(exported[home[x]]))
        /\ home[x] \in Packages
    BY DEF HomeFlagExact, SpaceOK, Symbols
  <2>2. x \in Range(symbols'[home[x]])
    BY <1>2, <2>1
  <2>3. CASE x # s
    BY <2>2, <1>7, <2>1, <2>3
  <2>4. CASE x = s /\ home[s] # p
    BY <2>2, <1>3, <1>7, <2>1, <2>4
  <2>5. CASE x = s /\ home[s] = p
    <3>1. CASE exported'[p] = exported[p] /\ homeFlag' = homeFlag
      BY <2>2, <2>1, <2>5, <3>1
    <3>2. CASE exported_p(s, p) /\ exported'[p] = exported[p] /\ homeFlag' = homeFlag \union {s}
      BY <2>2, <1>5, <2>5, <3>2
    <3>3. CASE Range(exported'[p]) = {s} \union Range(exported[p]) /\ homeFlag' = homeFlag \union {s}
      BY <2>2, <2>5, <3>3
    <3> QED BY <1>3, <2>5, <3>1, <3>2, <3>3
  <2> QED BY <2>2, <2>3, <2>4, <2>5
<1>12. NoDuplicates'
  <2>1. ASSUME NEW r \in Packages, NEW x \in Symbols PROVE Once(symbols'[r], x)
    <3>1. Once(symbols[r], x) /\ symbols[r] \in Seq(Nat)
      BY <1>1 DEF NoDuplicates
    <3>2. CASE r = p /\ symbols'[p] = <<s>> \o symbols[p] /\ ~Present(sname[s], p)
      <4>1. s \notin Range(symbols[p])
        BY <3>2 DEF Present
      <4> QED BY <1>1, <3>1, <3>2, <4>1, ConsOnce
    <3> QED BY <1>2, <3>1, <3>2
  <2>2. ASSUME NEW r \in Packages, NEW x \in Symbols, home[x] = r PROVE Once(exported'[r], x)
    <3>1. Once(exported[r], x) /\ exported[r] \in Seq(Nat)
      BY <1>1, <2>2 DEF NoDuplicates
    <3>2. CASE r = p /\ exported'[p] = <<s>> \o exported[p] /\ ~exported_p(s, p)
      <4>1. x = s => s \notin Range(exported[p])
        BY <1>5, <2>2, <3>2
      <4> QED BY <1>1, <3>1, <3>2, <4>1, ConsOnce
    <3> QED BY <1>3, <3>1, <3>2
  <2> QED BY <1>1, <2>1, <2>2 DEF NoDuplicates
<1>13. \A r \in Packages : \A x \in Range(symbols[r]) : Homed(x, r) => Homed(x, r)'
  BY <1>3 DEF Homed
<1>14. TablesHomed'
  BY <1>2, <1>13 DEF TablesHomed
<1>15. Grows
  BY <1>1, <1>2, <1>13 DEF Grows
<1> QED BY <1>9, <1>10, <1>11, <1>12, <1>14, <1>15

\* A thread that stores for its own operation.
LEMMA MainCommit ==
  ASSUME IInv, NEW t \in Threads, pc[t] = "commit", job[t].kind = "main"
  PROVE  job[t] = Main /\ todo[t] = {} /\ Arguments(call[t]) /\ PastTables(t)
  BY InvFacts DEF Jobs, Main, Drop, Building

\* cl_intern_in under the write lock: a symbol, a table that has come into sight,
\* or a fresh symbol.
LEMMA CommitInternPreserves ==
  ASSUME IInv, NEW t \in Threads, pc[t] = "commit", job[t].kind = "main", call[t].op = "intern",
         CommitIntern(t), UNCHANGED <<todo, chain>>
  PROVE  IInv'
<1> DEFINE c == call[t]
           r == lookup(c.name, c.pkg)
<1>1. job[t] = Main /\ todo[t] = {} /\ c.name \in Names /\ c.pkg \in Packages
  BY MainCommit DEF Arguments, ByName, EagerOps
<1>2. r.lazy # NoPackage => r.lazy \in Packages /\ c.name \in bindings[r.lazy]
  BY <1>1, LazyHit, InvFacts
<1>3. r.sym = 0 /\ r.lazy = NoPackage => ~Present(c.name, c.pkg) /\ c.name \notin bindings[c.pkg]
  <2>1. find_own_symbol(c.name, c.pkg) # 0 => r.sym = find_own_symbol(c.name, c.pkg)
    BY DEF lookup
  <2>2. find_own_symbol(c.name, c.pkg) = 0 /\ c.name \in bindings[c.pkg] => r.lazy = c.pkg
    BY DEF lookup
  <2> QED BY <1>1, <2>1, <2>2, OwnSymbol, InvFacts, PackageConstants
<1>4. \/ Return(t) /\ UNCHANGED space
      \/ r.lazy # NoPackage /\ Goto(t, "copy", Build(r.lazy, c.name)) /\ UNCHANGED <<call, space>>
      \/ r.sym = 0 /\ r.lazy = NoPackage /\ AddFresh(c.name, c.pkg, FALSE) /\ Return(t)
  BY DEF CommitIntern
<1> HIDE DEF r
<1>5. CASE Return(t) /\ UNCHANGED space
  BY <1>1, <1>5, SameSpace, ReturnStep, InvFacts
<1>6. CASE r.lazy # NoPackage /\ Goto(t, "copy", Build(r.lazy, c.name)) /\ UNCHANGED <<call, space>>
  <2>1. SpaceInv' /\ Grows
    BY <1>6, SameSpace
  <2> SUFFICES ASSUME pc'[t] = "copy", job'[t] = Build(r.lazy, c.name) PROVE ThreadOK(t)'
    BY <1>6, <2>1, MoveStep, InvFacts
  <2>2. Arguments(call[t])'
    BY <1>6, <2>1, ArgumentsStay, InvFacts
  <2>3. Progress(t)' /\ Jobs(t)'
    BY <1>1, <1>2, <1>6 DEF Progress, Jobs, Build, ByName
  <2>4. c.name \in bindings'[r.lazy]
    BY <1>2, <1>6 DEF space
  <2>5. Building(t)' /\ PastTables(t)'
    BY <1>1, <1>6, <2>4 DEF Building, PastTables, Build, Main, EagerOps
  <2> QED BY <2>2, <2>3, <2>5 DEF ThreadOK
<1>7. CASE r.sym = 0 /\ r.lazy = NoPackage /\ AddFresh(c.name, c.pkg, FALSE) /\ Return(t)
  <2>1. SpaceInv' /\ Grows
    BY <1>1, <1>3, <1>7, FreshSymbol, InvFacts
  <2> QED BY <1>1, <1>7, <2>1, ReturnStep, InvFacts
<1> QED BY <1>4, <1>5, <1>6, <1>7

\* SHADOW under the write lock: the name is in no table by now.
LEMMA CommitShadowPreserves ==
  ASSUME IInv, NEW t \in Threads, pc[t] = "commit", job[t].kind = "main", call[t].op = "shadow",
         CommitShadow(t), UNCHANGED <<todo, chain>>
  PROVE  IInv'
<1> DEFINE c == call[t]
<1>1. /\ job[t] = Main /\ todo[t] = {} /\ c.name \in Names /\ c.pkg \in Packages
      /\ c.name \notin bindings[c.pkg]
  BY MainCommit DEF Arguments, ByName, EagerOps, PastTables
<1>2. CASE find_own_symbol(c.name, c.pkg) = 0
  <2>1. AddFresh(c.name, c.pkg, FALSE) /\ Return(t)
    BY <1>2 DEF CommitShadow
  <2>2. ~Present(c.name, c.pkg)
    BY <1>1, <1>2, OwnSymbol, InvFacts
  <2>3. SpaceInv' /\ Grows
    BY <1>1, <2>1, <2>2, FreshSymbol, InvFacts
  <2> QED BY <1>1, <2>1, <2>3, ReturnStep, InvFacts
<1>3. CASE find_own_symbol(c.name, c.pkg) # 0
  <2>1. UNCHANGED space /\ Return(t)
    BY <1>3 DEF CommitShadow
  <2> QED BY <1>1, <2>1, SameSpace, ReturnStep, InvFacts
<1> QED BY <1>2, <1>3

\* IMPORT under the write lock: the table has gone, so no name of it can come
\* to stand beside the imported symbol.
LEMMA CommitImportPreserves ==
  ASSUME IInv, NEW t \in Threads, pc[t] = "commit", job[t].kind = "main", call[t].op = "import",
         CommitImport(t), UNCHANGED <<todo, chain>>
  PROVE  IInv'
<1> DEFINE s == call[t].sym
           p == call[t].pkg
<1>1. job[t] = Main /\ todo[t] = {} /\ s \in Symbols /\ p \in Packages /\ bindings[p] = {}
  BY MainCommit DEF Arguments, ByName, EagerOps, PastTables
<1>2. Return(t)
  BY DEF CommitImport, Conflict
<1>3. CASE UNCHANGED space
  BY <1>1, <1>2, <1>3, SameSpace, ReturnStep, InvFacts
<1>4. CASE find_own_symbol(sname[s], p) = 0 /\ ~UNCHANGED space
  <2>1. /\ symbols' = [symbols EXCEPT ![p] = <<s>> \o @]
        /\ UNCHANGED <<sname, home, hint, homeFlag, exported, uses, bindings>>
    BY <1>4 DEF CommitImport, Conflict
  <2>2. ~Present(sname[s], p)
    BY <1>1, <1>4, OwnSymbol, InvFacts
  <2>3. uses' \in [Packages -> Seq(Packages)]
    BY <2>1, InvFacts DEF SpaceOK
  <2>4. SpaceInv' /\ Grows
    BY <1>1, <2>1, <2>2, <2>3, AddPresent, InvFacts
  <2> QED BY <1>1, <1>2, <2>4, ReturnStep, InvFacts
<1> QED BY <1>3, <1>4 DEF CommitImport, Conflict

\* EXPORT under the write lock: an import comes with it only where no symbol and
\* no table has the name.
LEMMA CommitExportPreserves ==
  ASSUME IInv, NEW t \in Threads, pc[t] = "commit", job[t].kind = "main", call[t].op = "export",
         CommitExport(t), UNCHANGED <<todo, chain>>
  PROVE  IInv'
<1> DEFINE s == call[t].sym
           p == call[t].pkg
<1>1. /\ job[t] = Main /\ todo[t] = {} /\ s \in Symbols /\ p \in Packages
      /\ bindings[p] = {} \/ Present(sname[s], p)
  BY MainCommit DEF Arguments, ByName, EagerOps, PastTables
<1>2. /\ Return(t) /\ PushExport(s, p) /\ Flag(s, p) /\ UNCHANGED <<sname, home, uses, bindings>>
      /\ symbols' = IF find_own_symbol(sname[s], p) = 0
                      THEN [symbols EXCEPT ![p] = <<s>> \o @] ELSE symbols
  BY DEF CommitExport
<1>3. find_own_symbol(sname[s], p) = 0 => ~Present(sname[s], p) /\ bindings[p] = {}
  BY <1>1, OwnSymbol, InvFacts
<1>4. uses' \in [Packages -> Seq(Packages)]
  BY <1>2, InvFacts DEF SpaceOK
<1>5. SpaceInv' /\ Grows
  BY <1>1, <1>2, <1>3, <1>4, AddPresent, InvFacts
<1> QED BY <1>1, <1>2, <1>5, ReturnStep, InvFacts

\* USE-PACKAGE and UNUSE-PACKAGE: only the use list changes.
LEMMA CommitUsePreserves ==
  ASSUME IInv, NEW t \in Threads, pc[t] = "commit", job[t].kind = "main", call[t].op \in {"use", "unuse"},
         CommitUse(t) \/ CommitUnuse(t), UNCHANGED <<todo, chain>>
  PROVE  IInv'
<1> DEFINE u == call[t].used
           p == call[t].pkg
<1>1. job[t] = Main /\ todo[t] = {} /\ u \in Packages /\ p \in Packages
  BY MainCommit DEF Arguments, ByName, EagerOps
<1>2. Return(t) /\ UNCHANGED <<sname, home, hint, homeFlag, symbols, exported, bindings>>
  BY DEF CommitUse, CommitUnuse
<1>3. uses' \in [Packages -> Seq(Packages)]
  <2>1. uses \in [Packages -> Seq(Packages)] /\ uses[p] \in Seq(Packages)
    BY <1>1, InvFacts DEF SpaceOK
  <2>2. <<u>> \o uses[p] \in Seq(Packages)
    BY <1>1, <2>1, ConsProperties
  <2>3. RemoveFirst(uses[p], u) \in Seq(Packages)
    BY <2>1, RemoveFirstProperties
  <2> QED BY <2>1, <2>2, <2>3 DEF CommitUse, CommitUnuse
<1>4. SpaceInv'
  BY <1>2, <1>3, InvFacts DEF SpaceInv, SpaceOK, OneSymbolPerName, HomeFlagExact, NoDuplicates, TablesHomed,
     Once, Homed, Symbols
<1>5. Grows
  BY <1>2, InvFacts DEF Grows, SpaceOK, Homed, Symbols
<1> QED BY <1>1, <1>2, <1>4, <1>5, ReturnStep, InvFacts

\* The end of cl_bindtab_materialize: a symbol that is there is exported
\* already, so the third branch is never taken.
LEMMA CommitBuildPreserves ==
  ASSUME IInv, NEW t \in Threads, pc[t] = "commit", job[t].kind = "build",
         CommitBuild(t), UNCHANGED <<todo, chain>>
  PROVE  /\ IInv'
         /\ \/ UNCHANGED space
            \/ /\ AddFresh(job[t].name, job[t].pkg, TRUE) /\ job[t].pkg \in Packages
               /\ ~Present(job[t].name, job[t].pkg) /\ job[t].name \in bindings[job[t].pkg]
<1> DEFINE n == job[t].name
           p == job[t].pkg
           s == find_own_symbol(n, p)
<1>1. p \in Packages /\ n \in Names
  BY InvFacts DEF Jobs, Main, Drop
<1>2. CASE s = 0
  <2>1. AddFresh(n, p, TRUE) /\ Built(t)
    BY <1>2 DEF CommitBuild
  <2>2. ~Present(n, p)
    BY <1>1, <1>2, OwnSymbol, InvFacts
  <2>3. SpaceInv' /\ Grows /\ \E x \in Range(symbols'[p]) : sname'[x] = n
    BY <1>1, <2>1, <2>2, FreshSymbol, InvFacts
  <2>4. n \in bindings[p]
    BY <2>2, InvFacts DEF Building, Present
  <2> QED BY <1>1, <2>1, <2>2, <2>3, <2>4, BuiltStep
<1>3. CASE s # 0
  <2>1. s \in Range(symbols[p]) /\ sname[s] = n
    BY <1>1, <1>3, OwnSymbol, InvFacts
  <2>2. Homed(s, p)
    <3>1. CASE n \in bindings[p]
      BY <1>1, <2>1, <3>1, InvFacts DEF SpaceInv, TablesHomed
    <3>2. CASE \E x \in Range(symbols[p]) : sname[x] = n /\ Homed(x, p)
      BY <1>1, <2>1, <3>2, InvFacts DEF SpaceInv, OneSymbolPerName
    <3> QED BY <3>1, <3>2, InvFacts DEF Building
  <2>3. exported_p(s, p)
    BY <2>2 DEF Homed, exported_p
  <2>4. UNCHANGED space /\ Built(t)
    BY <1>3, <2>3 DEF CommitBuild
  <2>5. \E x \in Range(symbols'[p]) : sname'[x] = n
    BY <2>1, <2>4 DEF space
  <2> QED BY <2>4, <2>5, SameSpace, BuiltStep
<1> QED BY <1>2, <1>3

\* The end of cl_bindtab_materialize_all: every name of the table is present.
LEMMA CommitDropPreserves ==
  ASSUME IInv, NEW t \in Threads, pc[t] = "commit", job[t].kind = "drop",
         CommitDrop(t), UNCHANGED <<todo, chain>>
  PROVE  /\ IInv' /\ call[t].pkg \in Packages
         /\ bindings' = [bindings EXCEPT ![call[t].pkg] = {}]
         /\ UNCHANGED <<sname, home, hint, homeFlag, symbols, exported, uses>>
         /\ \A n \in bindings[call[t].pkg] : Present(n, call[t].pkg)
<1> DEFINE p == call[t].pkg
<1>1. call[t].op \in EagerOps /\ todo[t] = {}
  BY InvFacts DEF Jobs, Main, Building
<1>2. p \in Packages
  <2>1. Arguments(call[t])
    BY InvFacts
  <2> QED BY <1>1, <2>1 DEF Arguments, ByName, EagerOps
<1>3. \A n \in bindings[p] : Present(n, p)
  BY <1>1, InvFacts DEF Building
<1>4. /\ bindings' = [bindings EXCEPT ![p] = {}] /\ Proceed(t)
      /\ UNCHANGED <<sname, home, hint, homeFlag, symbols, exported, uses>>
  BY DEF CommitDrop
<1>5. /\ bindings' \in [Packages -> SUBSET Names] /\ bindings'[p] = {}
      /\ \A r \in Packages \ {p} : bindings'[r] = bindings[r]
      /\ \A r \in Packages : bindings'[r] \in {{}, Tables[r]} /\ bindings'[r] \subseteq bindings[r]
  BY <1>2, <1>4, InvFacts DEF SpaceOK
<1>6. SpaceInv'
  <2>1. SpaceOK'
    BY <1>4, <1>5, InvFacts DEF SpaceOK, Symbols
  <2>2. OneSymbolPerName' /\ HomeFlagExact' /\ NoDuplicates'
    BY <1>4, InvFacts DEF SpaceInv, OneSymbolPerName, HomeFlagExact, NoDuplicates, Once, Symbols
  <2>3. TablesHomed'
    BY <1>4, <1>5, InvFacts DEF SpaceInv, TablesHomed, Homed
  <2> QED BY <2>1, <2>2, <2>3 DEF SpaceInv
<1>7. \A n \in bindings[p] : \E x \in Range(symbols[p]) : sname[x] = n /\ Homed(x, p)
  BY <1>2, <1>3, InvFacts DEF Present, SpaceInv, TablesHomed
<1>8. Grows
  <2>1. \A r \in Packages : \A n \in bindings[r] \ bindings'[r] :
          \E x \in Range(symbols'[r]) : sname'[x] = n /\ Homed(x, r)'
    BY <1>4, <1>5, <1>7 DEF Homed
  <2> QED BY <1>4, <1>5, <2>1, InvFacts DEF Grows, Homed, Symbols
<1>9. IInv'
  BY <1>1, <1>4, <1>5, <1>6, <1>8, ProceedStep
<1> QED BY <1>2, <1>3, <1>4, <1>9

\* pkg_list_remove_eq takes an element that occurs once off the list.
LEMMA RemoveOnce ==
  ASSUME NEW l \in Seq(Nat), NEW e
  PROVE  /\ RemoveFirst(l, e) \in Seq(Nat)
         /\ Range(RemoveFirst(l, e)) \subseteq Range(l) /\ Range(l) \ {e} \subseteq Range(RemoveFirst(l, e))
         /\ Once(l, e) => e \notin Range(RemoveFirst(l, e))
         /\ \A x : Once(l, x) => Once(RemoveFirst(l, e), x)
<1> DEFINE k == RemoveFirst(l, e)
<1>1. /\ k \in Seq(Nat) /\ Range(k) \subseteq Range(l) /\ Range(l) \ {e} \subseteq Range(k)
      /\ (\A i, j \in 1..Len(l) : l[i] = e /\ l[j] = e => i = j) => e \notin Range(k)
      /\ \A x : (\A i, j \in 1..Len(l) : l[i] = x /\ l[j] = x => i = j)
                  => \A i, j \in 1..Len(k) : k[i] = x /\ k[j] = x => i = j
  BY RemoveFirstProperties
<1> HIDE DEF k
<1>2. \A x : Once(l, x) => Once(k, x)
  BY <1>1 DEF Once
<1>3. Once(l, e) => e \notin Range(k)
  BY <1>1 DEF Once
<1> QED BY <1>1, <1>2, <1>3 DEF k

\* Nobody else is inside an operation during a removal.
LEMMA OthersIdle ==
  ASSUME IInv, NEW t \in Threads, call[t].op \in {"unintern", "unexport"}
  PROVE  \A u \in Threads \ {t} : pc[u] = "idle"
  BY DEF IInv, CallInv, RemovalAlone, Removing

\* UNEXPORT takes the symbol off the list and the flag off the symbol.
LEMMA CommitUnexportPreserves ==
  ASSUME IInv, NEW t \in Threads, pc[t] = "commit", job[t].kind = "main", call[t].op = "unexport",
         CommitUnexport(t), UNCHANGED <<todo, chain>>
  PROVE  IInv'
<1> DEFINE s == call[t].sym
           p == call[t].pkg
<1>1. job[t] = Main /\ todo[t] = {} /\ s \in Symbols /\ p \in Packages /\ bindings[p] = {}
  BY MainCommit DEF Arguments, ByName, EagerOps, PastTables
<1>2. /\ Return(t) /\ UNCHANGED <<sname, home, symbols, uses, bindings>>
      /\ exported' = [exported EXCEPT ![p] = RemoveFirst(@, s)]
      /\ hint' \subseteq hint /\ homeFlag' = IF home[s] = p THEN homeFlag \ {s} ELSE homeFlag
  BY DEF CommitUnexport
<1>3. exported[p] \in Seq(Nat) /\ exported \in [Packages -> Seq(Nat)]
  BY <1>1, InvFacts DEF SpaceOK
<1>4. /\ RemoveFirst(exported[p], s) \in Seq(Nat)
      /\ Range(RemoveFirst(exported[p], s)) \subseteq Range(exported[p])
      /\ Range(exported[p]) \ {s} \subseteq Range(RemoveFirst(exported[p], s))
      /\ Once(exported[p], s) => s \notin Range(RemoveFirst(exported[p], s))
      /\ \A x : Once(exported[p], x) => Once(RemoveFirst(exported[p], s), x)
  BY <1>3, RemoveOnce
<1>5. /\ exported' \in [Packages -> Seq(Nat)] /\ exported'[p] = RemoveFirst(exported[p], s)
      /\ \A r \in Packages \ {p} : exported'[r] = exported[r]
  BY <1>1, <1>2, <1>3, <1>4
<1>6. SpaceOK'
  <2>1. hint' \subseteq Symbols' /\ homeFlag' \subseteq Symbols'
    BY <1>2, InvFacts DEF SpaceOK, Symbols
  <2>2. \A r \in Packages : Range(exported'[r]) \subseteq Symbols'
    BY <1>2, <1>4, <1>5, InvFacts DEF SpaceOK, Symbols
  <2> QED BY <1>2, <1>5, <2>1, <2>2, InvFacts DEF SpaceOK, Symbols
<1>7. OneSymbolPerName'
  BY <1>2, InvFacts DEF SpaceInv, OneSymbolPerName
<1>8. HomeFlagExact'
  <2> SUFFICES ASSUME NEW x \in Symbols, home[x] # NoPackage
               PROVE  /\ x \in Range(symbols[home[x]])
                      /\ x \in homeFlag' <=> x \in Range(exported'[home[x]])
    BY <1>2 DEF HomeFlagExact, Symbols
  <2>1. /\ x \in Range(symbols[home[x]]) /\ (x \in homeFlag <=> x \in Range(exported[home[x]]))
        /\ home[x] \in Packages
    BY InvFacts DEF SpaceInv, HomeFlagExact, SpaceOK, Symbols
  <2>2. CASE home[x] # p
    BY <1>2, <1>5, <2>1, <2>2
  <2>3. CASE home[x] = p /\ x # s
    BY <1>2, <1>4, <1>5, <2>1, <2>3
  <2>4. CASE home[x] = p /\ x = s
    <3>1. Once(exported[p], s)
      BY <1>1, <2>4, InvFacts DEF SpaceInv, NoDuplicates
    <3> QED BY <1>2, <1>4, <1>5, <2>1, <2>4, <3>1
  <2> QED BY <2>2, <2>3, <2>4
<1>9. NoDuplicates'
  <2>1. \A r \in Packages : \A x \in Symbols : home[x] = r => Once(exported'[r], x)
    BY <1>4, <1>5, InvFacts DEF SpaceInv, NoDuplicates
  <2> QED BY <1>2, <2>1, InvFacts DEF SpaceInv, NoDuplicates, Symbols, Once
<1>10. TablesHomed'
  BY <1>1, <1>2, InvFacts DEF SpaceInv, TablesHomed, Homed
<1>11. SpaceInv'
  BY <1>6, <1>7, <1>8, <1>9, <1>10 DEF SpaceInv
<1> QED BY <1>1, <1>2, <1>11, OthersIdle, ReturnStep, InvFacts

\* What UNINTERN leaves of the chain.
LEMMA SplicedChain ==
  ASSUME NEW l \in Seq(Nat), NEW s, Once(l, s), s \in Range(l)
  PROVE  LET k == IF l[1] = s THEN Tail(l) ELSE RemoveFirst(l, s)
         IN /\ k \in Seq(Nat) /\ Range(k) = Range(l) \ {s}
            /\ \A x : Once(l, x) => Once(k, x)
<1>1. \A x : x \in Range(l) <=> \E i \in 1..Len(l) : l[i] = x
  BY RangeIs
<1>2. CASE l[1] = s
  <2> DEFINE k == Tail(l)
  <2>1. /\ k \in Seq(Nat) /\ Len(l) \in Nat /\ Len(l) >= 1 /\ Len(k) = Len(l) - 1
        /\ \A i \in 1..(Len(l) - 1) : k[i] = l[i + 1]
    BY <1>1, <1>2
  <2> HIDE DEF k
  <2>2. \A x : x \in Range(k) <=> \E i \in 1..Len(k) : k[i] = x
    BY <2>1, RangeIs
  <2>3. \A i \in 1..Len(k) : i + 1 \in 1..Len(l) /\ k[i] = l[i + 1]
    BY <2>1
  <2>4. ASSUME NEW x PROVE x \in Range(k) <=> x \in Range(l) \ {s}
    <3>1. ASSUME x \in Range(k) PROVE x \in Range(l) \ {s}
      <4>1. PICK i \in 1..Len(k) : k[i] = x
        BY <2>2, <3>1
      <4>2. i + 1 \in 1..Len(l) /\ l[i + 1] = x /\ i + 1 # 1 /\ 1 \in 1..Len(l)
        BY <2>1, <2>3, <4>1
      <4> QED BY <1>1, <1>2, <4>2 DEF Once
    <3>2. ASSUME x \in Range(l) \ {s} PROVE x \in Range(k)
      <4>1. PICK i \in 1..Len(l) : l[i] = x
        BY <1>1, <3>2
      <4>2. i # 1
        BY <1>2, <3>2, <4>1
      <4>3. i - 1 \in 1..Len(k) /\ k[i - 1] = x
        BY <2>1, <4>1, <4>2
      <4> QED BY <2>2, <4>3
    <3> QED BY <3>1, <3>2
  <2>5. ASSUME NEW x, Once(l, x) PROVE Once(k, x)
    <3> SUFFICES ASSUME NEW i \in 1..Len(k), NEW j \in 1..Len(k), k[i] = x, k[j] = x
                 PROVE  i = j
      BY DEF Once
    <3>1. i + 1 = j + 1
      BY <2>3, <2>5 DEF Once
    <3> QED BY <2>1, <3>1
  <2>6. Range(k) = Range(l) \ {s}
    BY <2>4
  <2> QED BY <1>2, <2>1, <2>5, <2>6 DEF k
<1>3. CASE l[1] # s
  <2> DEFINE k == RemoveFirst(l, s)
  <2>1. /\ k \in Seq(Nat) /\ Range(k) \subseteq Range(l) /\ Range(l) \ {s} \subseteq Range(k)
        /\ s \notin Range(k) /\ \A x : Once(l, x) => Once(k, x)
    BY RemoveOnce
  <2> HIDE DEF k
  <2>2. Range(k) = Range(l) \ {s}
    BY <2>1
  <2> QED BY <1>3, <2>1, <2>2 DEF k
<1> QED BY <1>2, <1>3

\* UNINTERN stores into the chain it has read, takes out its own symbol and no
\* other.
LEMMA SplicePreserves ==
  ASSUME IInv, NEW t \in Threads, Splice(t)
  PROVE  IInv' /\ \A r \in Packages : Range(symbols[r]) \ Range(symbols'[r]) \subseteq
                    (IF r = call[t].pkg THEN {call[t].sym} ELSE {})
<1> DEFINE s == call[t].sym
           p == call[t].pkg
<1>1. pc[t] = "splice" /\ job[t] = Main /\ call[t].op = "unintern"
  BY InvFacts DEF Splice, Progress
<1>2. s \in Symbols /\ p \in Packages /\ bindings[p] = {} /\ todo[t] = {}
  <2>1. Arguments(call[t])
    BY <1>1, InvFacts
  <2>2. s \in Symbols /\ p \in Packages
    BY <1>1, <2>1 DEF Arguments, ByName, EagerOps
  <2>3. bindings[p] = {}
    BY <1>1, InvFacts DEF PastTables
  <2> QED BY <1>1, <2>2, <2>3, InvFacts DEF Building, Main
<1>3. chain[t] = symbols[p] /\ s \in Range(symbols[p])
  BY <1>1, InvFacts DEF CallInv, ChainRead
<1>4. symbols \in [Packages -> Seq(Nat)] /\ symbols[p] \in Seq(Nat)
  BY <1>2, InvFacts DEF SpaceOK
<1>5. /\ Return(t) /\ UNCHANGED <<sname, hint, exported, uses, bindings, todo>>
      /\ symbols' = [symbols EXCEPT ![p] = Spliced(t, s, p)]
      /\ home' = IF home[s] = p THEN [home EXCEPT ![s] = NoPackage] ELSE home
      /\ homeFlag' = IF home[s] = p THEN homeFlag \ {s} ELSE homeFlag
      /\ chain' = [chain EXCEPT ![t] = <<>>]
  BY DEF Splice
<1>6. /\ Spliced(t, s, p) \in Seq(Nat) /\ Range(Spliced(t, s, p)) = Range(symbols[p]) \ {s}
      /\ \A x : Once(symbols[p], x) => Once(Spliced(t, s, p), x)
  <2>1. Once(symbols[p], s)
    BY <1>2, InvFacts DEF SpaceInv, NoDuplicates
  <2>2. Spliced(t, s, p) = IF symbols[p][1] = s THEN Tail(symbols[p]) ELSE RemoveFirst(symbols[p], s)
    BY <1>3 DEF Spliced
  <2> QED BY <1>3, <1>4, <2>1, <2>2, SplicedChain
<1>7. /\ symbols' \in [Packages -> Seq(Nat)] /\ symbols'[p] = Spliced(t, s, p)
      /\ \A r \in Packages \ {p} : symbols'[r] = symbols[r]
      /\ \A r \in Packages : Range(symbols'[r]) \subseteq Range(symbols[r])
  BY <1>2, <1>4, <1>5, <1>6
<1>8. chain' \in [Threads -> Seq(Nat)]
  BY <1>5, InvFacts
<1>9. /\ home' \in Seq(Packages \union {NoPackage}) /\ Len(home') = Len(home)
      /\ \A x \in Symbols : home'[x] = IF x = s /\ home[s] = p THEN NoPackage ELSE home[x]
  <2>1. home \in Seq(Packages \union {NoPackage}) /\ Len(home) = Len(sname) /\ Symbols = 1..Len(home)
    BY InvFacts DEF SpaceOK, Symbols
  <2> QED BY <1>2, <1>5, <2>1
<1>10. SpaceOK'
  <2>1. \A r \in Packages : Range(symbols'[r]) \subseteq Symbols'
    BY <1>5, <1>7, InvFacts DEF SpaceOK, Symbols
  <2>2. hint' \subseteq Symbols' /\ homeFlag' \subseteq Symbols'
    BY <1>5, InvFacts DEF SpaceOK, Symbols
  <2> QED BY <1>5, <1>7, <1>9, <2>1, <2>2, InvFacts DEF SpaceOK, Symbols
<1>11. OneSymbolPerName'
  BY <1>5, <1>7, InvFacts DEF SpaceInv, OneSymbolPerName
<1>12. HomeFlagExact'
  <2> SUFFICES ASSUME NEW x \in Symbols, home'[x] # NoPackage
               PROVE  /\ x \in Range(symbols'[home'[x]])
                      /\ x \in homeFlag' <=> x \in Range(exported[home'[x]])
    BY <1>5 DEF HomeFlagExact, Symbols
  <2>1. home'[x] = home[x] /\ ~(x = s /\ home[s] = p)
    BY <1>9
  <2>2. /\ x \in Range(symbols[home[x]]) /\ (x \in homeFlag <=> x \in Range(exported[home[x]]))
        /\ home[x] \in Packages
    BY <2>1, InvFacts DEF SpaceInv, HomeFlagExact, SpaceOK, Symbols
  <2>3. x \in homeFlag' <=> x \in homeFlag
    BY <1>5, <2>1
  <2>4. x \in Range(symbols'[home[x]])
    BY <1>6, <1>7, <2>1, <2>2
  <2> QED BY <2>1, <2>2, <2>3, <2>4
<1>13. NoDuplicates'
  <2>1. \A r \in Packages : \A x \in Symbols : Once(symbols'[r], x)
    BY <1>6, <1>7, InvFacts DEF SpaceInv, NoDuplicates
  <2>2. \A r \in Packages : \A x \in Symbols : home'[x] = r => home[x] = r
    BY <1>9, PackageConstants
  <2>3. \A r \in Packages : \A x \in Symbols : home'[x] = r => Once(exported[r], x)
    BY <2>2, InvFacts DEF SpaceInv, NoDuplicates
  <2> QED BY <1>5, <2>1, <2>3 DEF NoDuplicates, Symbols, Once
<1>14. TablesHomed'
  <2> SUFFICES ASSUME NEW r \in Packages, NEW x \in Range(symbols'[r]), sname[x] \in bindings[r]
               PROVE  home'[x] = r /\ x \in homeFlag'
    BY <1>5 DEF TablesHomed, Homed
  <2>1. r # p /\ x \in Range(symbols[r]) /\ x \in Symbols
    BY <1>2, <1>7, InvFacts DEF SpaceOK
  <2>2. home[x] = r /\ x \in homeFlag
    BY <2>1, InvFacts DEF SpaceInv, TablesHomed, Homed
  <2> QED BY <1>5, <1>9, <2>1, <2>2
<1>15. SpaceInv'
  BY <1>10, <1>11, <1>12, <1>13, <1>14 DEF SpaceInv
<1>16. IInv'
  BY <1>1, <1>2, <1>5, <1>8, <1>15, OthersIdle, ReturnStep, InvFacts
<1> QED BY <1>6, <1>7, <1>16

-----------------------------------------------------------------------------
(***************************************************************************)
(* The theorems.                                                           *)
(***************************************************************************)
\* Every store under the write lock.
LEMMA CommitPreserves ==
  ASSUME IInv, NEW t \in Threads, Commit(t)
  PROVE  IInv'
<1> DEFINE op == call[t].op
           main == job[t].kind = "main"
<1>1. pc[t] = "commit" /\ UNCHANGED <<todo, chain>>
  BY DEF Commit
<1>2. CASE main /\ op = "intern" /\ CommitIntern(t)
  BY <1>1, <1>2, CommitInternPreserves
<1>3. CASE main /\ op = "shadow" /\ CommitShadow(t)
  BY <1>1, <1>3, CommitShadowPreserves
<1>4. CASE main /\ op = "import" /\ CommitImport(t)
  BY <1>1, <1>4, CommitImportPreserves
<1>5. CASE main /\ op = "export" /\ CommitExport(t)
  BY <1>1, <1>5, CommitExportPreserves
<1>6. CASE main /\ op \in {"use", "unuse"} /\ (CommitUse(t) \/ CommitUnuse(t))
  BY <1>1, <1>6, CommitUsePreserves
<1>7. CASE main /\ op = "unexport" /\ CommitUnexport(t)
  BY <1>1, <1>7, CommitUnexportPreserves
<1>8. CASE job[t].kind = "build" /\ CommitBuild(t)
  BY <1>1, <1>8, CommitBuildPreserves
<1>9. CASE job[t].kind = "drop" /\ CommitDrop(t)
  BY <1>1, <1>9, CommitDropPreserves
<1> QED BY <1>2, <1>3, <1>4, <1>5, <1>6, <1>7, <1>8, <1>9 DEF Commit

\* Before any call the packages are empty and the tables whole.
LEMMA InitInv == Init => IInv
<1> SUFFICES ASSUME Init PROVE IInv
  OBVIOUS
<1>1. /\ sname = <<>> /\ home = <<>> /\ hint = {} /\ homeFlag = {} /\ Symbols = {}
      /\ \A p \in Packages : Range(symbols[p]) = {} /\ Range(exported[p]) = {}
  <2>1. Range(<<>>) = {}
    <3>1. DOMAIN <<>> = {}
      OBVIOUS
    <3> QED BY <3>1 DEF Range
  <2> QED BY <2>1 DEF Init, Symbols
<1>2. SpaceOK
  BY <1>1, PackageConstants DEF Init, SpaceOK
<1>3. OneSymbolPerName /\ HomeFlagExact /\ NoDuplicates /\ TablesHomed
  BY <1>1 DEF OneSymbolPerName, HomeFlagExact, NoDuplicates, TablesHomed
<1>4. \A t \in Threads : pc[t] = "idle" /\ call[t] = NoCall /\ job[t] = Main /\ todo[t] = {}
  BY DEF Init
<1>5. CallTypes
  BY DEF Init, CallTypes
<1>6. RemovalAlone /\ ChainRead
  BY <1>4 DEF RemovalAlone, ChainRead
<1>7. \A t \in Threads : ThreadOK(t)
  BY <1>4 DEF ThreadOK, Progress, Jobs, Building, PastTables, NoCall, Main, EagerOps
<1> QED BY <1>2, <1>3, <1>5, <1>6, <1>7 DEF IInv, SpaceInv, CallInv

\* Every step of an operation.
LEMMA StepPreserves ==
  ASSUME IInv, NEW t \in Threads, Step(t)
  PROVE  IInv'
<1>1. CASE Splice(t)
  BY <1>1, SplicePreserves
<1> QED BY <1>1, ReadPreserves, EagerPreserves, EachPreserves, CopyPreserves, WaitPreserves, CommitPreserves,
        ScanPreserves DEF Step

\* The invariant is inductive.
LEMMA NextPreserves == IInv /\ [SerialNext]_vars => IInv'
<1> SUFFICES ASSUME IInv, [SerialNext]_vars PROVE IInv'
  OBVIOUS
<1>1. CASE SerialNext
  BY <1>1, CallPreserves, StepPreserves DEF SerialNext
<1>2. CASE UNCHANGED vars
  <2>1. SpaceInv'
    BY <1>2, SpaceStays DEF vars, space, IInv
  <2>2. CallInv'
    BY <1>2 DEF vars, IInv, CallInv, CallTypes, RemovalAlone, Removing, ChainRead, ThreadOK, Progress, Jobs,
       Arguments, Symbols, Building, Homed, Present, PastTables
  <2> QED BY <2>1, <2>2 DEF IInv
<1> QED BY <1>1, <1>2

\* The invariant holds in every state.
LEMMA InvAlways == SerialSpec => []IInv
  BY NextPreserves, InitInv, PTL DEF SerialSpec

\* Whatever threads intern, import, export and materialise, and remove one at a
\* time: a name has at most one symbol in a package, a symbol is present in its home, and
\* CL_SYM_EXPORTED_HOME is the membership in the home's export list.
THEOREM ConsistentAlways == SerialSpec => []PackageConsistent
<1>1. IInv => PackageConsistent
  BY DEF IInv, SpaceInv, PackageConsistent
<1> QED BY <1>1, InvAlways, PTL

\* The statuses depend on what is said of a name in each package itself.
LEMMA SameStatuses ==
  ASSUME SpaceInv, SpaceInv', uses' = uses, \A n \in Names, p \in Packages : Here(n, p)' = Here(n, p)
  PROVE  Statuses' = Statuses
<1>1. StatusByHere /\ StatusByHere'
  BY StatusIs, StatusNext
<1>2. \A p \in Packages : Range(uses[p]) \subseteq Packages
  <2>1. \A p \in Packages : uses[p] \in Seq(Packages)
    BY DEF SpaceInv, SpaceOK
  <2> QED BY <2>1, RangeIs
<1>3. \A n \in Names, p \in Packages : lookup(n, p).status' = lookup(n, p).status
  <2> TAKE n \in Names, p \in Packages
  <2>1. lookup(n, p).status =
          IF Here(n, p) # 0 THEN Here(n, p) ELSE IF \E u \in Range(uses[p]) : Here(n, u) = 2 THEN 3 ELSE 0
    BY <1>1 DEF StatusByHere
  <2>2. lookup(n, p).status' =
          IF Here(n, p)' # 0 THEN Here(n, p)' ELSE IF \E u \in Range(uses'[p]) : Here(n, u)' = 2 THEN 3 ELSE 0
    BY <1>1 DEF StatusByHere
  <2>3. Here(n, p)' = Here(n, p) /\ \A u \in Range(uses[p]) : Here(n, u)' = Here(n, u)
    BY <1>2
  <2> QED BY <2>1, <2>2, <2>3
<1> QED BY <1>3 DEF Statuses

\* A step that is not the stores of an operation changes no status.
LEMMA StatusStep ==
  ASSUME IInv, IInv', NEW t \in Threads, Call(t) \/ Step(t),
         pc[t] # "splice", ~(pc[t] = "commit" /\ job[t].kind = "main")
  PROVE  Statuses' = Statuses
<1> USE DEF IInv
<1>1. CASE UNCHANGED space
  <2>1. \A n \in Names, p \in Packages : Here(n, p)' = Here(n, p)
    BY <1>1 DEF Here, exported_p, space
  <2> QED BY <1>1, <2>1, SameStatuses DEF space
<1>2. CASE Commit(t) /\ job[t].kind = "build" /\ ~UNCHANGED space
  <2>1. PICK m, q : AddFresh(m, q, TRUE) /\ ~Present(m, q) /\ m \in bindings[q] /\ q \in Packages
    BY <1>2, CommitBuildPreserves DEF Commit
  <2>2. /\ symbols \in [Packages -> Seq(Nat)] /\ sname \in Seq(Names) /\ Symbols = 1..Len(sname)
        /\ home \in Seq(Packages \union {NoPackage}) /\ Len(home) = Len(sname)
        /\ exported \in [Packages -> Seq(Nat)] /\ hint \subseteq Symbols /\ homeFlag \subseteq Symbols
        /\ \A p \in Packages : Range(symbols[p]) \subseteq Symbols /\ Range(exported[p]) \subseteq Symbols
    BY InvFacts DEF SpaceOK, Symbols
  <2>3. PICK x \in Nat : x = Len(sname) + 1 /\ x \notin Symbols
    BY <2>2
  <2>4. /\ sname'[x] = m /\ home'[x] = q /\ homeFlag' = homeFlag \union {x} /\ hint' = hint \union {x}
        /\ \A i \in Symbols : sname'[i] = sname[i] /\ home'[i] = home[i]
        /\ uses' = uses /\ bindings' = bindings
    <3>1. /\ sname' = Append(sname, m) /\ home' = Append(home, q)
          /\ homeFlag' = homeFlag \union {x} /\ hint' = hint \union {x}
          /\ uses' = uses /\ bindings' = bindings
      BY <2>1, <2>3 DEF AddFresh
    <3>2. sname'[x] = m /\ \A i \in 1..Len(sname) : sname'[i] = sname[i]
      BY ONLY <2>2, <2>3, <3>1
    <3>3. home'[x] = q /\ \A i \in 1..Len(sname) : home'[i] = home[i]
      BY ONLY <2>2, <2>3, <3>1
    <3> QED BY ONLY <2>2, <3>1, <3>2, <3>3
  <2>5. /\ Range(symbols'[q]) = {x} \union Range(symbols[q])
        /\ \A p \in Packages \ {q} : symbols'[p] = symbols[p] /\ exported'[p] = exported[p]
        /\ Range(exported'[q]) = {x} \union Range(exported[q])
    <3>1. \A l \in Seq(Nat) : Range(<<x>> \o l) = {x} \union Range(l)
      BY ConsProperties
    <3> QED BY <2>1, <2>2, <2>3, <3>1 DEF AddFresh
  <2>6. \A p \in Packages : \A s \in Range(symbols[p]) : exported_p(s, p)' <=> exported_p(s, p)
    BY <2>2, <2>3, <2>4, <2>5 DEF exported_p
  <2>7. exported_p(x, q)'
    BY <2>4 DEF exported_p
  <2>8. ASSUME NEW n \in Names, NEW p \in Packages PROVE Here(n, p)' = Here(n, p)
    <3>1. CASE p # q
      BY <2>2, <2>4, <2>5, <2>6, <3>1 DEF Here
    <3>2. CASE p = q /\ n # m
      <4>1. \A s \in Range(symbols'[q]) : sname'[s] = n => s \in Range(symbols[q]) /\ sname[s] = n
        BY <2>2, <2>4, <2>5, <3>2
      <4>2. \A s \in Range(symbols[q]) : s \in Range(symbols'[q]) /\ sname'[s] = sname[s]
        BY <2>1, <2>2, <2>4, <2>5
      <4>3. (\E s \in Range(symbols'[q]) : sname'[s] = n) <=> (\E s \in Range(symbols[q]) : sname[s] = n)
        BY <4>1, <4>2
      <4>4. (\E s \in Range(symbols'[q]) : sname'[s] = n /\ exported_p(s, q)')
              <=> (\E s \in Range(symbols[q]) : sname[s] = n /\ exported_p(s, q))
        BY <2>1, <2>6, <4>1, <4>2
      <4> QED BY <2>4, <3>2, <4>3, <4>4 DEF Here
    <3>3. CASE p = q /\ n = m
      <4>1. Here(m, q) = 2
        BY <2>1 DEF Here, Present
      <4>2. Here(m, q)' = 2
        BY <2>4, <2>5, <2>7 DEF Here
      <4> QED BY <3>3, <4>1, <4>2
    <3> QED BY <3>1, <3>2, <3>3
  <2> QED BY <2>4, <2>8, SameStatuses
<1>3. CASE Commit(t) /\ job[t].kind = "drop"
  <2> DEFINE q == call[t].pkg
  <2>1. /\ q \in Packages /\ bindings' = [bindings EXCEPT ![q] = {}]
        /\ UNCHANGED <<sname, home, hint, homeFlag, symbols, exported, uses>>
        /\ \A n \in bindings[q] : Present(n, q)
    BY <1>3, CommitDropPreserves DEF Commit
  <2>2. \A p \in Packages \ {q} : bindings'[p] = bindings[p]
    BY <2>1, InvFacts DEF SpaceOK
  <2>3. bindings'[q] = {}
    BY <2>1, InvFacts DEF SpaceOK
  <2>4. \A n \in Names, p \in Packages : Here(n, p)' = Here(n, p)
    BY <2>1, <2>2, <2>3 DEF Here, exported_p, Present
  <2> QED BY <2>1, <2>4, SameStatuses
<1>4. Call(t) => UNCHANGED space
  BY DEF Call, BeginByName, BeginBySymbol, BeginUse, BeginEnumerate, BeginRemoval, Begin
<1>5. Step(t) /\ ~Splice(t) /\ ~Commit(t) => UNCHANGED space
  BY DEF Step, Read, Eager, Each, Copy, Allocate, StopWorld, Collect, WriteLock, Scan
<1>6. ~Splice(t) /\ (Commit(t) => job[t].kind \in {"build", "drop"})
  BY DEF Splice, Commit
<1> QED BY <1>1, <1>2, <1>3, <1>4, <1>5, <1>6

\* Laziness cannot be observed: materialising a name, or a whole table, changes
\* nothing that FIND-SYMBOL says of any name in any package.
THEOREM LazyInvisibleAlways == SerialSpec => LazyInvisible
<1> DEFINE A == Statuses' # Statuses =>
                  \E t \in Threads : pc[t] = "splice" \/ (pc[t] = "commit" /\ job[t].kind = "main")
<1>1. IInv /\ [SerialNext]_vars => [A]_vars
  <2> SUFFICES ASSUME IInv, SerialNext PROVE A
    OBVIOUS
  <2>1. IInv'
    BY NextPreserves
  <2> QED BY <2>1, StatusStep DEF SerialNext
<1> QED BY <1>1, InvAlways, PTL DEF SerialSpec, LazyInvisible
=============================================================================
