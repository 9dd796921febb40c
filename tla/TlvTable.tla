---------------------------- MODULE TlvTable ----------------------------
(***************************************************************************)
(* The thread-local value table of a thread: an open-addressing hash table *)
(* with linear probing and tombstones, keyed by the arena offset of the    *)
(* symbol (thread.c, "TLV table operations").                              *)
(*                                                                         *)
(* A table is a record [slot, count]: slot maps every slot number to its   *)
(* entry, count is tlv_entry_count.  The slot a symbol hashes to, its      *)
(* home, depends on where the collector last put the symbol, so it is an   *)
(* argument of every operation.  A probe loop is stated by what it finds:  *)
(* the nearest slot, going up and around from the home, that ends it.      *)
(***************************************************************************)
EXTENDS Naturals, FiniteSets

CONSTANTS Symbols,    \* symbols that programs bind dynamically
          Values,     \* values of variables, CL_UNBOUND included
          Size,       \* CL_TLV_TABLE_SIZE
          Empty,      \* CL_NIL as the key of a slot never used
          Tombstone,  \* CL_UNBOUND as the key of a slot whose entry was removed
          Absent      \* CL_TLV_ABSENT: the table has no entry

ASSUME SizeAssumption == Size \in Nat \ {0}
ASSUME KeyAssumption  == Empty \notin Symbols /\ Tombstone \notin Symbols /\ Empty # Tombstone
ASSUME AbsentAssumption == Absent \notin Values
-----------------------------------------------------------------------------
Slots == 0 .. Size - 1

Entry == [symbol : Symbols \cup {Empty, Tombstone}, value : Values \cup {Empty}]

Table == [slot : [Slots -> Entry], count : Nat]

Vacant == [symbol |-> Empty, value |-> Empty]

EmptyTable == [slot |-> [i \in Slots |-> Vacant], count |-> 0]

\* How many slots a probe that starts at home has passed when it reaches i.
Dist(home, i) == IF i >= home THEN i - home ELSE i + Size - home

Nearest(home, S) == CHOOSE i \in S : \A j \in S : Dist(home, i) <= Dist(home, j)

\* The slots at which a probe for s stops.
Stops(tab, s) == {i \in Slots : tab.slot[i].symbol \in {Empty, s}}

\* The slot that holds s, as the probe finds it: {} or a singleton.
Found(tab, home, s) ==
  {i \in Stops(tab, s) : i = Nearest(home, Stops(tab, s)) /\ tab.slot[i].symbol = s}

\* The tombstones that a probe for s passes before it stops.
Passed(tab, home, s) ==
  {i \in Slots : /\ tab.slot[i].symbol = Tombstone
                 /\ \A j \in Stops(tab, s) : Dist(home, i) < Dist(home, j)}
-----------------------------------------------------------------------------
cl_tlv_get(tab, home, s) ==
  IF Found(tab, home, s) = {} THEN Absent
  ELSE tab.slot[CHOOSE i \in Found(tab, home, s) : TRUE].value

\* Put [s, v] into slot i, which held no live entry.
Insert(tab, i, s, v) ==
  [slot  |-> [tab.slot EXCEPT ![i] = [symbol |-> s, value |-> v]],
   count |-> tab.count + 1]

\* Mutant of cl_tlv_set: the tombstone seen is forgotten when the probe goes all
\* the way round.
SetNoReuse(tab, home, s, v) ==
  IF Found(tab, home, s) # {}
  THEN [tab EXCEPT !.slot[Nearest(home, Stops(tab, s))].value = v]
  ELSE IF Stops(tab, s) = {} THEN tab
  ELSE IF Passed(tab, home, s) # {}
  THEN Insert(tab, Nearest(home, Passed(tab, home, s)), s, v)
  ELSE Insert(tab, Nearest(home, Stops(tab, s)), s, v)

\* Replace the value where s is found; else reuse the first tombstone passed;
\* else take the empty slot that ended the probe; else the table is full and
\* the call changes nothing.
cl_tlv_set(tab, home, s, v) ==
  IF Found(tab, home, s) # {}
  THEN [tab EXCEPT !.slot[Nearest(home, Stops(tab, s))].value = v]
  ELSE IF Passed(tab, home, s) # {}
  THEN Insert(tab, Nearest(home, Passed(tab, home, s)), s, v)
  ELSE IF Stops(tab, s) # {}
  THEN Insert(tab, Nearest(home, Stops(tab, s)), s, v)
  ELSE tab

\* Mutant of cl_tlv_remove: the slot becomes empty.
RemoveToEmpty(tab, home, s) ==
  IF Found(tab, home, s) = {} THEN tab
  ELSE [slot  |-> [tab.slot EXCEPT ![Nearest(home, Stops(tab, s))] = Vacant],
        count |-> IF tab.count > 0 THEN tab.count - 1 ELSE 0]

cl_tlv_remove(tab, home, s) ==
  IF Found(tab, home, s) = {} THEN tab
  ELSE [slot  |-> [tab.slot EXCEPT ![Nearest(home, Stops(tab, s))] =
                                      [symbol |-> Tombstone, value |-> Empty]],
        count |-> IF tab.count > 0 THEN tab.count - 1 ELSE 0]

\* The entries cl_tlv_rehash saves before it clears the table.
Live(tab) == {i \in Slots : tab.slot[i].symbol \in Symbols}
Entries(tab) == {tab.slot[i] : i \in Live(tab)}
=============================================================================
