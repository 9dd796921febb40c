----------------------------- MODULE HeapAccess -----------------------------
(***************************************************************************)
(* What the collector is promised: any number of threads use the heap, and *)
(* a thread collects only while it is the sole user.  It says nothing of   *)
(* how: no requests, no safepoints, no registry.  StopTheWorld implements  *)
(* it (StopTheWorldRefinement).                                            *)
(***************************************************************************)
CONSTANTS Threads, Main, NoThread

VARIABLES
  mutators,   \* the threads that may hold or follow Lisp references
  collector   \* the thread that is collecting, or NoThread

Init == mutators = {Main} /\ collector = NoThread

\* A thread comes to the heap: it starts, or returns from where it was parked.
Enter(t) ==
  /\ t \notin mutators /\ collector = NoThread
  /\ mutators' = mutators \cup {t}
  /\ UNCHANGED collector

\* A thread leaves the heap: it parks, blocks in a safe region or exits.
Leave(t) ==
  /\ t \in mutators /\ t # collector
  /\ mutators' = mutators \ {t}
  /\ UNCHANGED collector

BeginCollection(t) ==
  /\ collector = NoThread /\ mutators = {t}
  /\ collector' = t
  /\ UNCHANGED mutators

EndCollection(t) ==
  /\ collector = t
  /\ collector' = NoThread
  /\ UNCHANGED mutators

Next == \E t \in Threads :
  Enter(t) \/ Leave(t) \/ BeginCollection(t) \/ EndCollection(t)

Spec == Init /\ [][Next]_<<mutators, collector>>
=============================================================================
