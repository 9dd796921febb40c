-------------------------- MODULE MCGenerationalHeap --------------------------
(* Small instances of GenerationalHeap for TLC.                            *)
EXTENDS GenerationalHeap, TLC

CONSTANTS t1, t2

\* The first thread works with lists and string streams, the second one opens
\* files and forgets them.
ListsAndFiles == t1 :> {"cons", "string"} @@ t2 :> {"file"}

Lists == [t \in Threads |-> {"cons"}]
=============================================================================
