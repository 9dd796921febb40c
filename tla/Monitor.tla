------------------------------ MODULE Monitor ------------------------------
(***************************************************************************)
(* What MP locks and condition variables promise to Lisp code, with none   *)
(* of the machinery: a re-entrant lock with at most one holder, and a wait *)
(* that gives up every level of the lock in one step and comes back with   *)
(* all of them.  The machinery is MPLocks.                                 *)
(***************************************************************************)
EXTENDS Naturals

CONSTANTS Threads, NoThread

VARIABLES
  holder,    \* the thread that holds the lock, or NoThread
  level,     \* how many times it holds it
  kept       \* the levels each thread left behind in a condition-wait, 0 if none

Init == /\ holder = NoThread
        /\ level = 0
        /\ kept = [t \in Threads |-> 0]

\* Only a free lock is taken, and only by a thread that left nothing behind.
Acquire(t) == /\ holder = NoThread /\ kept[t] = 0
              /\ holder' = t /\ level' = 1
              /\ UNCHANGED kept

Reenter(t) == /\ holder = t
              /\ level' = level + 1
              /\ UNCHANGED <<holder, kept>>

\* Only the holder gives a level back.
Release(t) == /\ holder = t
              /\ level' = level - 1
              /\ holder' = IF level = 1 THEN NoThread ELSE t
              /\ UNCHANGED kept

\* A wait gives the lock up entirely, at any depth ...
Wait(t) == /\ holder = t /\ kept[t] = 0
           /\ kept' = [kept EXCEPT ![t] = level]
           /\ holder' = NoThread /\ level' = 0

\* ... and ends with it held again, at the depth it was given up at.
Return(t) == /\ holder = NoThread /\ kept[t] > 0
             /\ holder' = t /\ level' = kept[t]
             /\ kept' = [kept EXCEPT ![t] = 0]

Next == \E t \in Threads : Acquire(t) \/ Reenter(t) \/ Release(t) \/ Wait(t) \/ Return(t)

Spec == Init /\ [][Next]_<<holder, level, kept>>
=============================================================================
