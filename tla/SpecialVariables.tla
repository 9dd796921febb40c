------------------------- MODULE SpecialVariables -------------------------
(***************************************************************************)
(* What dynamic binding promises: each thread has a stack of bindings, the *)
(* value of a special variable is that of the thread's innermost binding   *)
(* of it, or else the global value that all threads share.  An exit        *)
(* discards every binding made since the mark in one step.  A read and a   *)
(* compare-and-swap report in ret what they saw.                           *)
(***************************************************************************)
EXTENDS Naturals, Sequences

CONSTANTS Threads, Symbols, Values, MaxBindings, NoAnswer

VARIABLES global,    \* global[s]: the global value of s
          bindings,  \* bindings[t]: the bindings of t, outermost first
          ret        \* what the last step returned to its caller

vars == <<global, bindings, ret>>

\* The bindings of s, and the innermost one.
Of(t, s) == {i \in 1 .. Len(bindings[t]) : bindings[t][i].symbol = s}
Inner(t, s) == CHOOSE i \in Of(t, s) : \A j \in Of(t, s) : j <= i

Value(t, s) == IF Of(t, s) = {} THEN global[s] ELSE bindings[t][Inner(t, s)].value

\* To whom, the value found, and the value that the caller takes to be stored.
Returned(t, v, new) == [thread |-> t, value |-> v, stored |-> new]

Init == /\ global \in [Symbols -> Values]
        /\ bindings = [t \in Threads |-> <<>>]
        /\ ret = NoAnswer

Bind(t, s, v) ==
  /\ ret' = NoAnswer /\ UNCHANGED global
  /\ Len(bindings[t]) < MaxBindings
  /\ bindings' = [bindings EXCEPT ![t] = Append(@, [symbol |-> s, value |-> v])]

Exit(t, mark) ==
  /\ ret' = NoAnswer /\ UNCHANGED global
  /\ bindings' = [bindings EXCEPT ![t] = SubSeq(@, 1, mark)]

Store(t, s, v) ==
  IF Of(t, s) = {}
  THEN global' = [global EXCEPT ![s] = v] /\ UNCHANGED bindings
  ELSE bindings' = [bindings EXCEPT ![t][Inner(t, s)].value = v] /\ UNCHANGED global

Assign(t, s, v) == ret' = NoAnswer /\ Store(t, s, v)

\* A read, or a compare-and-swap that found another value than the expected one.
Read(t, s) == /\ UNCHANGED global
              /\ ret' = Returned(t, Value(t, s), NoAnswer)
              /\ UNCHANGED bindings

\* A compare-and-swap that found the expected value: it stores, and only it may
\* report success.
Swap(t, s, new) == /\ ret' = Returned(t, Value(t, s), new)
                   /\ Store(t, s, new)

\* A step that shows in none of the bindings.
Silent == ret' = NoAnswer /\ UNCHANGED <<global, bindings>>

Next == \/ Silent
        \/ \E t \in Threads :
             \/ \E s \in Symbols :
                  \/ \E v \in Values : Bind(t, s, v) \/ Assign(t, s, v) \/ Swap(t, s, v)
                  \/ Read(t, s)
             \/ \E mark \in 0 .. Len(bindings[t]) : Exit(t, mark)

Spec == Init /\ [][Next]_vars
=============================================================================
