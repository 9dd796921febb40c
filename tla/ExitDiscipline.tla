--------------------------- MODULE ExitDiscipline ---------------------------
(***************************************************************************)
(* What a program of one thread is promised about leaving its constructs:  *)
(* the constructs it is inside of, as a stack, and nothing of the machine  *)
(* that keeps track of them.                                               *)
(*                                                                         *)
(* An exit to the construct at depth t leaves everything above t.  An      *)
(* UNWIND-PROTECT on the way stops it: its cleanup forms run, and when     *)
(* they return the exit goes on, to the same t.  A cleanup that exits by   *)
(* itself abandons the exit it interrupts.  A condition is offered to the  *)
(* handlers that are visible where it is signalled, innermost first; while *)
(* a handler runs, it and everything established since are invisible.  The *)
(* clauses of a HANDLER-BIND are established one after the other, the last *)
(* written first, so those written after the running one remain visible.   *)
(***************************************************************************)
EXTENDS Integers, Sequences, FiniteSetsExt

CONSTANTS
  Tags,       \* tags and names of catches, blocks, tagbodies and restarts
  MaxDepth    \* bound on the nesting of constructs

VARIABLE ctl        \* the constructs being evaluated, outermost first
-----------------------------------------------------------------------------
(***************************************************************************)
(* kind     the construct: "load" catches errors (the REPL is the one at   *)
(*          the bottom), "protected" and "cleanup" are the two parts of an *)
(*          UNWIND-PROTECT, "signal" is a condition being offered          *)
(* tag      the tag or name of a catch, block, tagbody or restart          *)
(* exit     of a cleanup: the depth the exit it interrupts goes to, or 0   *)
(* of       of a signal: the depth of the binding it has got to; of a      *)
(*          clause of HANDLER-BIND: the depth of the form's first clause   *)
(* running  of a signal: the handler of that binding is running            *)
(* what     of a signal: what happens when no handler takes it             *)
(***************************************************************************)
Context(kind, tag) == [kind |-> kind, tag |-> tag, exit |-> 0, of |-> 0,
                       running |-> FALSE, what |-> "none"]
Cleanup(t) == [Context("cleanup", 0) EXCEPT !.exit = t]
Binding(f) == [Context("hbind", 0) EXCEPT !.of = f]
Signal(what) == [Context("signal", 0) EXCEPT !.of = MaxDepth + 1, !.what = what]

Toplevel == Context("load", 0)

Depth == Len(ctl)
Top == ctl[Depth]

\* The program itself has control: no search for a handler is under way.
Executing == ~(Top.kind = "signal" /\ ~Top.running)

\* How many constructs are left when an exit arrives at the one at depth t:
\* GO resumes its tagbody and an error the next form of its LOAD, every other
\* target is left.
Remaining(t) == IF ctl[t].kind \in {"tagbody", "load"} THEN t ELSE t - 1

\* Leave for the construct at depth t, or for the first cleanup on the way.
ExitTo(t) ==
  LET stops == {k \in (t + 1)..Depth : ctl[k].kind = "protected"}
  IN ctl' = IF stops = {}
              THEN SubSeq(ctl, 1, Remaining(t))
              ELSE Append(SubSeq(ctl, 1, Max(stops) - 1), Cleanup(t))

\* The bindings a condition signalled at depth n is still to be offered to.
Visible(n) ==
  {k \in 1..(n - 1) :
     /\ ctl[k].kind \in {"hbind", "hcase"}
     /\ k < ctl[n].of
     /\ \A m \in (k + 1)..(n - 1) :
          ctl[m].kind = "signal" /\ ctl[m].running => ctl[m].of > k}

ErrorTarget == Max({k \in 1..Depth : ctl[k].kind = "load"})
-----------------------------------------------------------------------------
Enter ==
  /\ Executing /\ Depth < MaxDepth
  /\ \E kind \in {"catch", "block", "tagbody", "hcase", "rcase", "protected", "load"}, tag \in Tags :
       ctl' = Append(ctl, Context(kind, tag))

\* A HANDLER-BIND establishes its first clause, or one more.
Establish ==
  /\ Executing /\ Depth < MaxDepth
  /\ \E f \in {Depth + 1} \union (IF Top.kind = "hbind" THEN {Top.of} ELSE {}) :
       ctl' = Append(ctl, Binding(f))

Raise ==
  /\ Executing /\ Depth < MaxDepth
  /\ \E what \in {"signal", "error"} : ctl' = Append(ctl, Signal(what))

Warn ==
  /\ Executing /\ Depth + 1 < MaxDepth
  /\ \E tag \in Tags : ctl' = ctl \o <<Context("warn", tag), Signal("warn")>>

\* A construct's last form has returned.
Return ==
  /\ Executing /\ Depth > 1
  /\ CASE Top.kind = "protected" -> ctl' = [ctl EXCEPT ![Depth] = Cleanup(0)]
       [] Top.kind = "signal" -> ctl' = [ctl EXCEPT ![Depth].running = FALSE]
       [] Top.kind = "cleanup" /\ Top.exit # 0 -> ExitTo(Top.exit)
       [] Top.kind = "hbind" -> ctl' = SubSeq(ctl, 1, Top.of - 1)
       [] OTHER -> ctl' = SubSeq(ctl, 1, Depth - 1)

\* THROW goes to the innermost catch of its tag; RETURN-FROM, GO and
\* INVOKE-RESTART to a construct the program names.
Exit ==
  /\ Executing
  /\ \E t \in 2..Depth :
       /\ ctl[t].kind \in {"catch", "block", "tagbody", "rcase", "warn"}
       /\ ctl[t].kind = "catch" =>
            ~\E k \in (t + 1)..Depth : ctl[k].kind = "catch" /\ ctl[k].tag = ctl[t].tag
       /\ ExitTo(t)

\* The next handler is run, or the HANDLER-CASE takes the condition.
Offer ==
  /\ ~Executing
  /\ \E k \in Visible(Depth) :
       IF ctl[k].kind = "hcase"
         THEN ExitTo(k)
         ELSE ctl' = [ctl EXCEPT ![Depth] = [@ EXCEPT !.of = k, !.running = TRUE]]

\* No handler took it: SIGNAL and WARN return, ERROR leaves.
Untaken ==
  /\ ~Executing
  /\ CASE Top.what = "signal" -> ctl' = SubSeq(ctl, 1, Depth - 1)
       [] Top.what = "warn" -> ctl' = SubSeq(ctl, 1, Depth - 2)
       [] Top.what = "error" -> ExitTo(ErrorTarget)
-----------------------------------------------------------------------------
Init == ctl = <<Toplevel>>

Next == Enter \/ Establish \/ Raise \/ Warn \/ Return \/ Exit \/ Offer \/ Untaken

Spec == Init /\ [][Next]_ctl
=============================================================================
