--------------------------- MODULE NonLocalExits ---------------------------
(***************************************************************************)
(* Non-local exits, UNWIND-PROTECT, handlers and restarts of one thread:   *)
(* the NLX stack of vm.c, the pending transfer and the stack of saved      *)
(* ones, the handler stack with its mask of enabled bindings, the restart  *)
(* stack and the C error frames of error.c.                                *)
(*                                                                         *)
(* The program is arbitrary: at any moment it enters a construct, returns  *)
(* from the innermost one, exits or signals.  ctl says where it is; every  *)
(* jump of the machine sets ctl from the frame it jumps to, so a wrong     *)
(* frame, mark or pending transfer shows as a program that continues in    *)
(* the wrong place.                                                        *)
(***************************************************************************)
EXTENDS Integers, Sequences, FiniteSetsExt

CONSTANTS
  CatchTags, BlockNames, TagbodyIds, RestartTags,   \* sets of positive integers
  Shapes,     \* which of AllShapes the programs may have
  MaxDepth    \* bound on the nesting of constructs

\* Program shapes that a run lets in or leaves out.
\*   "reenter"   a block, tagbody or restart-case inside another activation of
\*               the same form (their tags belong to the form, not to the entry)
\*   "muffle"    MUFFLE-WARNING called by a cleanup that interrupts an exit
\*   "protect"   LOAD called inside a protected form
\*   "escape"    an error in a cleanup form reaches a LOAD around the cleanup
AllShapes == {"reenter", "muffle", "protect", "escape"}

ASSUME ExitConstants ==
  /\ CatchTags \union BlockNames \union TagbodyIds \union RestartTags \subseteq Nat \ {0}
  /\ Shapes \subseteq AllShapes
  /\ MaxDepth \in Nat \ {0}

VARIABLES
  ctl,        \* the constructs the program is evaluating, outermost first
  nlx,        \* cl_nlx_stack[0 .. cl_nlx_top)
  pending,    \* cl_pending_throw, cl_pending_tag: the transfer in flight
  saved,      \* cl_saved_pending_stack
  handlers,   \* cl_handler_stack
  active,     \* cl_handler_active_mask
  restarts,   \* cl_restart_stack: the tag and construct of each binding
  errs,       \* cl_error_frames
  mvs         \* records of the value-save stack
              \* the ctl of an entry is the depth of the construct that owns it

vars == <<ctl, nlx, pending, saved, handlers, active, restarts, errs, mvs>>

Tags == CatchTags \union BlockNames \union TagbodyIds \union RestartTags
          \union {0} \union {-d : d \in 1..MaxDepth}

\* The program as the abstract specification sees it.
Program == [k \in DOMAIN ctl |->
              [kind |-> ctl[k].kind, tag |-> ctl[k].tag, exit |-> ctl[k].exit,
               of |-> ctl[k].of, running |-> ctl[k].running, what |-> ctl[k].what]]

ED == INSTANCE ExitDiscipline WITH ctl <- Program

Depth == Len(ctl)
Top == ctl[Depth]
Executing == ~(Top.kind = "signal" /\ ~Top.running)

\* A construct; at and mask are the locals i and saved_mask of a
\* cl_signal_condition in progress.
Context(kind, tag) == [kind |-> kind, tag |-> tag, exit |-> 0, of |-> 0, running |-> FALSE,
                       what |-> "none", at |-> 0, mask |-> {}]
Cleanup(t) == [Context("cleanup", 0) EXCEPT !.exit = t]
Binding(f) == [Context("hbind", 0) EXCEPT !.of = f]
-----------------------------------------------------------------------------
(***************************************************************************)
(* Frames, records and bindings.                                           *)
(***************************************************************************)
NoThrow == [kind |-> 0, tag |-> 0]
Throw1(tag) == [kind |-> 1, tag |-> tag]
ErrorThrow == [kind |-> 2, tag |-> 0]
ClauseThrow(i) == [kind |-> 3, tag |-> i]   \* the tag field carries the frame's index

\* A frame with the marks every landing restores.  d is the depth of the
\* construct it belongs to; owner is "C" for the frame of WARN.
Frame(type, tag, d, owner) ==
  [type |-> type, tag |-> tag, ctl |-> d, owner |-> owner,
   handler |-> Len(handlers), mask |-> active, restart |-> Len(restarts),
   err |-> Len(errs), pend |-> Len(saved), mv |-> Len(mvs)]

ErrorFrame(d) ==
  [ctl |-> d, handler |-> Len(handlers), mask |-> active, restart |-> Len(restarts),
   nlx |-> Len(nlx), mv |-> Len(mvs)]

FramesOf(types) == {j \in DOMAIN nlx : nlx[j].type \in types}

\* OP_UNCATCH, OP_UWPOP, OP_BLOCK_POP, ...: drop everything down to the
\* innermost frame of that type.
PopFrame(type) ==
  nlx' = SubSeq(nlx, 1, IF FramesOf({type}) = {} THEN Len(nlx) - 1
                        ELSE Max(FramesOf({type})) - 1)
-----------------------------------------------------------------------------
(***************************************************************************)
(* Landing on frame j: everything established since the frame is dropped.  *)
(* p is cl_pending_throw as the jump leaves it and t the depth of the      *)
(* construct the transfer ends at.                                         *)
(***************************************************************************)
\* Mutant of FramesAfter: a tagbody is left when GO arrives at it.
FramesAfterGo(j) == SubSeq(nlx, 1, j - 1)

\* The frame is popped, but a tagbody stays for the next GO.
FramesAfter(j) == SubSeq(nlx, 1, IF nlx[j].type = "TAGBODY" THEN j ELSE j - 1)

\* Mutant of PendingAfter: a completed transfer is not forgotten.
PendingAfterAll(f, p) == p

\* An UWPROT frame keeps the transfer pending; a target forgets it, except the
\* landing in WARN, which leaves cl_pending_throw alone.
PendingAfter(f, p) == IF f.type = "UWPROT" \/ f.owner = "C" THEN p ELSE NoThrow

\* Mutant of RecordsAfter: the cleanup does not note what it interrupts.
RecordsAfterBlind(f, p) == SubSeq(saved, 1, f.pend)

\* The cleanup of an UWPROT frame notes the transfer in its own record.
RecordsAfter(f, p) ==
  IF f.type = "UWPROT" /\ f.pend \in DOMAIN saved
    THEN [SubSeq(saved, 1, f.pend) EXCEPT ![f.pend].pend = p, ![f.pend].entered = TRUE]
    ELSE SubSeq(saved, 1, f.pend)

Land(j, p, t) ==
  LET f == nlx[j]
      passing == f.type = "UWPROT"
  IN /\ nlx' = FramesAfter(j)
     /\ handlers' = SubSeq(handlers, 1, f.handler)
     /\ active' = f.mask
     /\ restarts' = SubSeq(restarts, 1, f.restart)
     /\ errs' = SubSeq(errs, 1, f.err)
     /\ pending' = PendingAfter(f, p)
     /\ saved' = RecordsAfter(f, p)
     /\ mvs' = SubSeq(mvs, 1, f.mv) \o (IF passing THEN <<[ctl |-> f.ctl]>> ELSE <<>>)
     /\ ctl' = CASE passing -> Append(SubSeq(ctl, 1, f.ctl - 1), Cleanup(t))
                 [] f.type = "TAGBODY" -> SubSeq(ctl, 1, f.ctl)
                 [] OTHER -> SubSeq(ctl, 1, f.ctl - 1)

\* Transfer to frame i: to the innermost UWPROT above it, with the transfer p
\* pending, or to the frame itself, with cl_pending_throw as it was (rest).
Transfer(i, p, rest) ==
  LET stops == {j \in FramesOf({"UWPROT"}) : j > i}
  IN IF stops # {} THEN Land(Max(stops), p, nlx[i].ctl)
     ELSE Land(i, rest, nlx[i].ctl)

\* cl_error_frame_longjmp.  A nested frame restores what it saved, and its
\* catch site the NLX top; LOAD goes on with its next form.  The outermost
\* frame resets the thread.
ErrorFrameJump(records) ==
  LET e == errs[Len(errs)]
  IN /\ IF Len(errs) > 1
          THEN /\ nlx' = SubSeq(nlx, 1, e.nlx)
               /\ handlers' = SubSeq(handlers, 1, Min({Len(handlers), e.handler}))
               /\ active' = e.mask
               /\ restarts' = SubSeq(restarts, 1, Min({Len(restarts), e.restart}))
               /\ mvs' = SubSeq(mvs, 1, e.mv)
               /\ saved' = records
          ELSE /\ nlx' = <<>> /\ handlers' = <<>> /\ restarts' = <<>> /\ mvs' = <<>>
               /\ saved' = <<>>
               /\ UNCHANGED active
     /\ ctl' = SubSeq(ctl, 1, e.ctl)
     /\ UNCHANGED errs

\* The error frame e was pushed below frame j.
Inside(e, j) == j > e.nlx

\* cl_error_unwind: the cleanups established inside the innermost error frame
\* come first.
ErrorUnwind ==
  LET e == errs[Len(errs)]
      stops == {j \in FramesOf({"UWPROT"}) : Inside(e, j)}
  IN IF stops # {}
       THEN Land(Max(stops), ErrorThrow, e.ctl)
       ELSE /\ ErrorFrameJump(saved)
            /\ pending' = IF Len(errs) > 1 THEN pending ELSE NoThrow
-----------------------------------------------------------------------------
(***************************************************************************)
(* Entering a construct.                                                   *)
(***************************************************************************)
Room == Executing /\ Depth < MaxDepth

\* The form of this tag is not being evaluated already.
Fresh(tag) == "reenter" \in Shapes \/ \A k \in DOMAIN ctl : ctl[k].tag # tag

Push(kind, type, tag) ==
  /\ nlx' = Append(nlx, Frame(type, tag, Depth + 1, "VM"))
  /\ ctl' = Append(ctl, Context(kind, tag))

Catch(tag) ==
  /\ Room /\ Push("catch", "CATCH", tag)
  /\ UNCHANGED <<pending, saved, handlers, active, restarts, errs, mvs>>

Block(name) ==
  /\ Room /\ Fresh(name) /\ Push("block", "BLOCK", name)
  /\ UNCHANGED <<pending, saved, handlers, active, restarts, errs, mvs>>

Tagbody(id) ==
  /\ Room /\ Fresh(id) /\ Push("tagbody", "TAGBODY", id)
  /\ UNCHANGED <<pending, saved, handlers, active, restarts, errs, mvs>>

\* OP_UWPROT parks the pending transfer in a new record and clears it.
UnwindProtect ==
  /\ Room
  /\ nlx' = Append(nlx, [Frame("UWPROT", 0, Depth + 1, "VM") EXCEPT !.pend = @ + 1])
  /\ saved' = Append(saved, [pend |-> pending, entered |-> FALSE, ctl |-> Depth + 1])
  /\ pending' = NoThrow
  /\ ctl' = Append(ctl, Context("protected", 0))
  /\ UNCHANGED <<handlers, active, restarts, errs, mvs>>

\* A new binding is enabled.
PushHandler(frame) ==
  /\ handlers' = Append(handlers, [frame |-> frame, ctl |-> Depth + 1])
  /\ active' = active \union {Len(handlers) + 1}

\* OP_HANDLER_PUSH: one clause of the HANDLER-BIND whose first binding is at
\* depth f.  The clause that is written last is pushed first, and between two
\* pushes the program evaluates the next handler expression.
PushClause(f) ==
  /\ Room /\ PushHandler(0)
  /\ ctl' = Append(ctl, Binding(f))
  /\ UNCHANGED <<nlx, pending, saved, restarts, errs, mvs>>

HandlerBind == PushClause(Depth + 1)
HandlerClause == Top.kind = "hbind" /\ PushClause(Top.of)

\* A HANDLER-CASE.  OP_HANDLER_CASE_PUSH establishes its clauses in one step and
\* every clause transfers to the frame of the form: one binding stands for them.
HandlerCase ==
  /\ Room /\ Push("hcase", "HANDLER_CASE", 0) /\ PushHandler(Len(nlx) + 1)
  /\ UNCHANGED <<pending, saved, restarts, errs, mvs>>

\* A RESTART-CASE with one clause: a catch whose tag the restart carries.
RestartCase(tag) ==
  /\ Room /\ Fresh(tag) /\ Push("rcase", "CATCH", tag)
  /\ restarts' = Append(restarts, [tag |-> tag, ctl |-> Depth + 1])
  /\ UNCHANGED <<pending, saved, handlers, active, errs, mvs>>

Protected(k) == ctl[k].kind = "protected"

\* LOAD evaluates each form of a file under a CL_CATCH of its own.
Load ==
  /\ Room
  /\ "protect" \in Shapes \/ ~\E k \in DOMAIN ctl : Protected(k)
  /\ errs' = Append(errs, ErrorFrame(Depth + 1))
  /\ ctl' = Append(ctl, Context("load", 0))
  /\ UNCHANGED <<nlx, pending, saved, handlers, active, restarts, mvs>>

Searching(what, n) == [Context("signal", 0) EXCEPT !.what = what, !.of = MaxDepth + 1, !.at = n + 1]

\* bi_warn: a C-owned catch with a fresh tag and the MUFFLE-WARNING restart,
\* then cl_signal_condition.
Warn ==
  LET tag == -(Depth + 1)
  IN /\ Executing /\ Depth + 1 < MaxDepth
     /\ nlx' = Append(nlx, Frame("CATCH", tag, Depth + 1, "C"))
     /\ restarts' = Append(restarts, [tag |-> tag, ctl |-> Depth + 1])
     /\ ctl' = ctl \o <<Context("warn", tag), Searching("warn", Len(handlers))>>
     /\ UNCHANGED <<pending, saved, handlers, active, errs, mvs>>

\* A cleanup is being evaluated inside the innermost LOAD.
CleaningUp == \E k \in errs[Len(errs)].ctl..Depth : ctl[k].kind = "cleanup"

\* SIGNAL, and ERROR or an error of the runtime.
Raise(what) ==
  /\ Room
  /\ what = "error" /\ Len(errs) > 1 => "escape" \in Shapes \/ ~CleaningUp
  /\ ctl' = Append(ctl, Searching(what, Len(handlers)))
  /\ UNCHANGED <<nlx, pending, saved, handlers, active, restarts, errs, mvs>>
-----------------------------------------------------------------------------
(***************************************************************************)
(* Returning from the innermost construct.                                 *)
(***************************************************************************)
LeaveCtl == ctl' = SubSeq(ctl, 1, Depth - 1)

\* OP_UNCATCH, OP_BLOCK_POP, OP_TAGBODY_POP
Return(kind, type) ==
  /\ Top.kind = kind
  /\ PopFrame(type) /\ LeaveCtl
  /\ UNCHANGED <<pending, saved, handlers, active, restarts, errs, mvs>>

ReturnRestartCase ==
  /\ Top.kind = "rcase"
  /\ PopFrame("CATCH") /\ LeaveCtl
  /\ restarts' = SubSeq(restarts, 1, Len(restarts) - 1)
  /\ UNCHANGED <<pending, saved, handlers, active, errs, mvs>>

\* Drop the bindings above n and their bits of the mask.
PopHandlers(n) ==
  /\ handlers' = SubSeq(handlers, 1, n)
  /\ active' = active \ ((n + 1)..Len(handlers))

\* OP_HANDLER_POP with the number of clauses of the form.
ReturnHandlerBind ==
  /\ Top.kind = "hbind"
  /\ PopHandlers(Len(handlers) - (Depth - Top.of + 1))
  /\ ctl' = SubSeq(ctl, 1, Top.of - 1)
  /\ UNCHANGED <<nlx, pending, saved, restarts, errs, mvs>>

ReturnHandlerCase ==
  /\ Top.kind = "hcase"
  /\ PopFrame("HANDLER_CASE") /\ PopHandlers(nlx[Max(FramesOf({"HANDLER_CASE"}))].handler)
  /\ LeaveCtl
  /\ UNCHANGED <<pending, saved, restarts, errs, mvs>>

ReturnLoad ==
  /\ Top.kind = "load" /\ Depth > 1
  /\ errs' = SubSeq(errs, 1, Len(errs) - 1) /\ LeaveCtl
  /\ UNCHANGED <<nlx, pending, saved, handlers, active, restarts, mvs>>

\* OP_MV_SAVE, OP_UWPOP: the cleanup forms run with the record still there.
ReturnProtected ==
  /\ Top.kind = "protected"
  /\ PopFrame("UWPROT")
  /\ mvs' = Append(mvs, [ctl |-> Depth])
  /\ ctl' = [ctl EXCEPT ![Depth] = Cleanup(0)]
  /\ UNCHANGED <<pending, saved, handlers, active, restarts, errs>>

\* Mutant of Resumes: only a transfer that is still pending is resumed.
ResumesPending(record) == pending.kind # 0

\* A transfer is pending, or the record says that the cleanup interrupts one.
Resumes(record) == pending.kind # 0 \/ (record.entered /\ record.pend.kind # 0)

\* The record of this UNWIND-PROTECT, those below it, and the transfer that
\* OP_UWRETHROW considers: a pending one first.
Record == IF saved = <<>> THEN [pend |-> NoThrow, entered |-> FALSE, ctl |-> 0]
          ELSE saved[Len(saved)]
RecordsBelow == IF saved = <<>> THEN saved ELSE SubSeq(saved, 1, Len(saved) - 1)
InFlight == IF pending.kind # 0 THEN pending ELSE Record.pend

\* The target is gone: an error.
Vanished ==
  /\ pending' = NoThrow /\ saved' = RecordsBelow
  /\ ctl' = Append(ctl, Searching("error", Len(handlers)))
  /\ UNCHANGED <<nlx, handlers, active, restarts, errs, mvs>>

\* OP_UWRETHROW without a transfer to go on with, and OP_MV_RESTORE.
EndCleanup ==
  /\ ~Resumes(Record)
  /\ pending' = InFlight /\ saved' = RecordsBelow
  /\ mvs' = SubSeq(mvs, 1, Len(mvs) - 1)
  /\ LeaveCtl
  /\ UNCHANGED <<nlx, handlers, active, restarts, errs>>

ResumeTag(p) ==
  LET targets == {i \in FramesOf({"CATCH", "BLOCK", "TAGBODY"}) : nlx[i].tag = p.tag}
  IN IF targets = {} THEN Vanished ELSE Transfer(Max(targets), p, NoThrow)

ResumeClause(p) ==
  IF p.tag \notin FramesOf({"HANDLER_CASE"}) THEN Vanished ELSE Transfer(p.tag, p, NoThrow)

ResumeError(p) ==
  LET stops == FramesOf({"UWPROT"})
  IN IF stops # {} THEN Land(Max(stops), p, errs[nlx[Max(stops)].err].ctl)
     ELSE ErrorFrameJump(RecordsBelow) /\ pending' = NoThrow

Rethrow ==
  \/ EndCleanup
  \/ /\ Resumes(Record)
     /\ \/ InFlight.kind = 1 /\ ResumeTag(InFlight)
        \/ InFlight.kind = 3 /\ ResumeClause(InFlight)
        \/ InFlight.kind = 2 /\ ResumeError(InFlight)

ReturnCleanup == Top.kind = "cleanup" /\ Rethrow

\* The handler has declined: the band it had disabled is enabled again.
ReturnHandler ==
  /\ Top.kind = "signal"
  /\ active' = Top.mask
  /\ ctl' = [ctl EXCEPT ![Depth].running = FALSE]
  /\ UNCHANGED <<nlx, pending, saved, handlers, restarts, errs, mvs>>
-----------------------------------------------------------------------------
(***************************************************************************)
(* Exits the program asks for.                                             *)
(***************************************************************************)
InnermostFrame(type, tag) == {i \in FramesOf({type}) : nlx[i].tag = tag}

\* THROW, RETURN-FROM and GO look for the innermost frame of their own type.
ExitByTag(type, tag) ==
  /\ Executing
  /\ InnermostFrame(type, tag) # {}
  /\ Transfer(Max(InnermostFrame(type, tag)), Throw1(tag), pending)

Throw(tag) == ExitByTag("CATCH", tag)
ReturnFrom(name) == ExitByTag("BLOCK", name)
Go(id) == ExitByTag("TAGBODY", id)

\* A cleanup above depth d interrupts an exit.
Interrupting(d) == \E k \in d..Depth : ctl[k].kind = "cleanup" /\ ctl[k].exit # 0

\* INVOKE-RESTART throws to the tag of the binding; MUFFLE-WARNING to WARN's.
InvokeRestart(r) ==
  /\ "muffle" \in Shapes \/ restarts[r].tag > 0 \/ ~Interrupting(restarts[r].ctl)
  /\ ExitByTag("CATCH", restarts[r].tag)
-----------------------------------------------------------------------------
(***************************************************************************)
(* cl_signal_condition: the handler stack from the top down.  Whether the  *)
(* type of a binding matches the condition is the program's choice.        *)
(***************************************************************************)
Candidates == {i \in DOMAIN handlers : i < Top.at /\ i \in active}

\* Mutant of Band: only the handler that runs is disabled.
BandOne(i) == {i}

\* The bindings disabled while handler i runs.
Band(i) == i..Len(handlers)

CallHandler(i) ==
  /\ handlers[i].frame = 0
  /\ active' = active \ Band(i)
  /\ ctl' = [ctl EXCEPT ![Depth] = [@ EXCEPT !.at = i, !.of = handlers[i].ctl,
                                              !.running = TRUE, !.mask = active]]
  /\ UNCHANGED <<nlx, pending, saved, handlers, restarts, errs, mvs>>

\* cl_handler_case_transfer
TakeClause(i) ==
  /\ handlers[i].frame # 0
  /\ Transfer(handlers[i].frame, ClauseThrow(handlers[i].frame), pending)

Offer(i) == ~Executing /\ i \in Candidates /\ (CallHandler(i) \/ TakeClause(i))

SignalReturns ==
  /\ ~Executing /\ Top.what = "signal"
  /\ LeaveCtl
  /\ UNCHANGED <<nlx, pending, saved, handlers, active, restarts, errs, mvs>>

\* WARN has printed its message.
WarnReturns ==
  /\ ~Executing /\ Top.what = "warn"
  /\ LET w == Depth - 1
         f == nlx[Len(nlx)]
     IN /\ restarts' = SubSeq(restarts, 1, Len(restarts) - 1)
        /\ nlx' = IF f.tag = ctl[w].tag THEN SubSeq(nlx, 1, Len(nlx) - 1) ELSE nlx
        /\ ctl' = SubSeq(ctl, 1, w - 1)
  /\ UNCHANGED <<pending, saved, handlers, active, errs, mvs>>

ErrorUnhandled == ~Executing /\ Top.what = "error" /\ ErrorUnwind
-----------------------------------------------------------------------------
Init ==
  /\ ctl = <<Context("load", 0)>>
  /\ nlx = <<>> /\ pending = NoThrow /\ saved = <<>>
  /\ handlers = <<>> /\ active = {} /\ restarts = <<>> /\ mvs = <<>>
  /\ errs = <<[ctl |-> 1, handler |-> 0, mask |-> {}, restart |-> 0, nlx |-> 0, mv |-> 0]>>

Enter ==
  \/ \E tag \in CatchTags : Catch(tag)
  \/ \E name \in BlockNames : Block(name)
  \/ \E id \in TagbodyIds : Tagbody(id)
  \/ \E tag \in RestartTags : RestartCase(tag)
  \/ UnwindProtect
  \/ HandlerBind
  \/ HandlerClause
  \/ HandlerCase
  \/ Load
  \/ Warn

Leave ==
  /\ Executing
  /\ \/ Return("catch", "CATCH")
     \/ Return("block", "BLOCK")
     \/ Return("tagbody", "TAGBODY")
     \/ ReturnRestartCase
     \/ ReturnHandlerBind
     \/ ReturnHandlerCase
     \/ ReturnLoad
     \/ ReturnProtected
     \/ ReturnCleanup
     \/ ReturnHandler

Next ==
  \/ Enter
  \/ Leave
  \/ \E tag \in CatchTags : Throw(tag)
  \/ \E name \in BlockNames : ReturnFrom(name)
  \/ \E id \in TagbodyIds : Go(id)
  \/ \E r \in DOMAIN restarts : InvokeRestart(r)
  \/ \E what \in {"signal", "error"} : Raise(what)
  \/ \E i \in DOMAIN handlers : Offer(i)
  \/ SignalReturns
  \/ WarnReturns
  \/ ErrorUnhandled

Spec == Init /\ [][Next]_vars
-----------------------------------------------------------------------------
(***************************************************************************)
(* Properties.                                                             *)
(***************************************************************************)
Transfers == [kind : 0..3, tag : Tags \union 0..MaxDepth]
Marks == [handler : 0..MaxDepth, mask : SUBSET (1..MaxDepth), restart : 0..MaxDepth,
          err : 0..MaxDepth, pend : 0..MaxDepth, mv : 0..MaxDepth]

\* The stacks of the thread have the shapes vm.h and error.h declare, and no
\* stack is deeper than the program.
TypeOK ==
  /\ pending \in Transfers
  /\ \A i \in DOMAIN saved : saved[i].pend \in Transfers /\ saved[i].entered \in BOOLEAN
  /\ \A j \in DOMAIN nlx :
       /\ nlx[j].type \in {"CATCH", "BLOCK", "TAGBODY", "UWPROT", "HANDLER_CASE"}
       /\ nlx[j].ctl \in 1..MaxDepth
       /\ [m \in DOMAIN nlx[j] \ {"type", "tag", "ctl", "owner"} |-> nlx[j][m]] \in Marks
  /\ active \subseteq 1..MaxDepth
  /\ \A k \in DOMAIN ctl : ctl[k].exit \in 0..(k - 1)
  /\ Len(nlx) < MaxDepth /\ Len(handlers) < MaxDepth /\ Len(restarts) < MaxDepth
  /\ Len(errs) \in 1..MaxDepth /\ Len(mvs) < MaxDepth

\* The depths of the constructs of these kinds, and a stack of entries that
\* name one each, in order.
Constructs(kinds) == {k \in DOMAIN ctl : ctl[k].kind \in kinds}
InOrder(owners, kinds) ==
  /\ {owners[i] : i \in DOMAIN owners} = Constructs(kinds)
  /\ \A i, j \in DOMAIN owners : i < j => owners[i] < owners[j]
Owners(stack) == [i \in DOMAIN stack |-> stack[i].ctl]

\* After any exit, error or return each stack holds exactly the entries of the
\* constructs the program is inside of, in order: the marks saved in NLX frames
\* (VM_NLX_FRAME_INIT) and error frames (cl_error_frame_push) neither strand an
\* entry nor drop one that is still needed.
StacksMatchProgram ==
  /\ InOrder(Owners(nlx), {"catch", "block", "tagbody", "hcase", "rcase", "warn", "protected"})
  /\ InOrder(Owners(handlers), {"hbind", "hcase"})
  /\ InOrder(Owners(restarts), {"rcase", "warn"})
  /\ InOrder(Owners(errs), {"load"})
  /\ InOrder(Owners(mvs), {"cleanup"})

\* The enabled bindings are those pushed before the binding of every handler that
\* is running, however the program left the handlers that ran before: the mask of
\* cl_signal_condition survives exits through its C frame.  "Before" counts the
\* clauses of one HANDLER-BIND too: while the handler of a clause runs, the
\* clauses written after it stay enabled, although the comment of
\* cl_signal_condition speaks of "the *outer* handlers" only.
EnabledHandlers ==
  {handlers[i].ctl : i \in DOMAIN handlers \intersect active} =
    {k \in Constructs({"hbind", "hcase"}) :
       \A m \in (k + 1)..Depth : ctl[m].kind = "signal" /\ ctl[m].running => ctl[m].of > k}

\* The innermost UNWIND-PROTECT, in its protected form or in its cleanup.
Protections == Constructs({"protected", "cleanup"})

\* A transfer is pending only while the cleanup that interrupts it is the
\* innermost one (the comment in the CATCH case of nlx_landing: a completed
\* transfer must "drop any pending NLX state").
NoStrayTransfer ==
  pending.kind # 0 =>
    /\ Protections # {}
    /\ ctl[Max(Protections)].kind = "cleanup"
    /\ ctl[Max(Protections)].exit # 0

\* Each UNWIND-PROTECT being evaluated has its saved record, and the record of
\* a cleanup that interrupts an exit says so, whatever the cleanup does
\* (OP_UWPROT, nlx_landing).
RecordsMatchCleanups ==
  /\ InOrder(Owners(saved), {"protected", "cleanup"})
  /\ \A i \in DOMAIN saved :
       LET record == saved[i]
       IN record.entered = (ctl[record.ctl].exit # 0) /\ (record.entered => record.pend.kind # 0)

\* A cleanup that ends while it interrupts an exit resumes that exit: the next
\* step arrives at its target, or at the next cleanup on the way to it
\* (OP_UWRETHROW).
ExitResumed ==
  [][(Executing /\ ReturnCleanup /\ Top.exit # 0) =>
       \/ Len(ctl') = ED!Remaining(Top.exit)
       \/ /\ Len(ctl') > Top.exit
          /\ ctl'[Len(ctl')] = Cleanup(Top.exit)]_vars

\* The whole machine does what the abstract specification promises: no exit
\* leaves a protected form without running its cleanup, an interrupted exit
\* goes on to its own target, an abandoned one never comes back, a condition
\* is offered to the visible handlers, innermost first, and an error leaves
\* for the innermost LOAD.
ExitDisciplineSpec == ED!Spec
=============================================================================
