------------------------ MODULE NonLocalExitsProofs ------------------------
(***************************************************************************)
(* NonLocalExits for every nesting of constructs and every set of tags:    *)
(* the marks that frames carry are the right ones, so that the stacks      *)
(* follow the program through every exit, and the machine implements       *)
(* ExitDiscipline.                                                         *)
(***************************************************************************)
EXTENDS NonLocalExits, SequenceLemmas

\* The programs the code serves: no LOAD inside a protected form, no error that
\* leaves a cleanup form for a LOAD around it, no MUFFLE-WARNING out of a
\* cleanup that interrupts an exit.
Served == {"muffle", "protect", "escape"} \intersect Shapes = {}

\* OP_UWRETHROW looks for a tag among catches, blocks and tagbodies alike.
DistinctTags ==
  /\ (CatchTags \union RestartTags) \intersect (BlockNames \union TagbodyIds) = {}
  /\ BlockNames \intersect TagbodyIds = {}
-----------------------------------------------------------------------------
(***************************************************************************)
(* The inductive invariant.                                                *)
(***************************************************************************)
IsStack(s) == Len(s) \in Nat /\ s = [i \in 1..Len(s) |-> s[i]]

\* The first n entries of s belong to constructs below depth d, the others do
\* not.
At(s, d, n) == n \in 0..Len(s) /\ \A i \in 1..Len(s) : i <= n <=> s[i].ctl < d

\* The entries of s belong to the constructs of these kinds, in order.
Matches(s, c, kinds) ==
  /\ IsStack(s)
  /\ \A i \in 1..Len(s) : s[i].ctl \in 1..Len(c) /\ c[s[i].ctl].kind \in kinds
  /\ \A i, j \in 1..Len(s) : i < j => s[i].ctl < s[j].ctl
  /\ \A k \in 1..Len(c) : c[k].kind \in kinds => \E i \in 1..Len(s) : s[i].ctl = k

FrameKinds == {"catch", "block", "tagbody", "hcase", "rcase", "warn", "protected"}
TaggedTypes == {"CATCH", "BLOCK", "TAGBODY"}

\* A state of the machine.
Machine == [ctl |-> ctl, nlx |-> nlx, pending |-> pending, saved |-> saved, handlers |-> handlers,
            active |-> active, restarts |-> restarts, errs |-> errs, mvs |-> mvs]

StacksMatch(S) ==
  /\ Matches(S.nlx, S.ctl, FrameKinds) /\ Matches(S.handlers, S.ctl, {"hbind", "hcase"})
  /\ Matches(S.restarts, S.ctl, {"rcase", "warn"}) /\ Matches(S.errs, S.ctl, {"load"})
  /\ Matches(S.mvs, S.ctl, {"cleanup"}) /\ Matches(S.saved, S.ctl, {"protected", "cleanup"})

\* The binding of the construct at depth k is enabled below depth d.
Enabled(S, k, d) ==
  \A m \in (k + 1)..(d - 1) : S.ctl[m].kind = "signal" /\ S.ctl[m].running => S.ctl[m].of > k

\* The bits of the bindings below depth d are right.
MaskOK(S, mask, d) ==
  \A i \in 1..Len(S.handlers) :
    S.handlers[i].ctl < d => (i \in mask <=> Enabled(S, S.handlers[i].ctl, d))

\* The marks of a frame at depth d.
MarksOK(S, f, d) ==
  /\ At(S.handlers, d, f.handler) /\ At(S.restarts, d, f.restart) /\ At(S.errs, d, f.err)
  /\ At(S.mvs, d, f.mv) /\ MaskOK(S, f.mask, d)
  /\ IF f.type = "UWPROT" THEN f.pend \in Nat \ {0} /\ At(S.saved, d, f.pend - 1) ELSE At(S.saved, d, f.pend)

\* A frame has the type and tag of its construct.
LabelOK(f, c) ==
  /\ f.tag = c.tag
  /\ f.type = "UWPROT" <=> c.kind = "protected"
  /\ f.type = "TAGBODY" <=> c.kind = "tagbody"
  /\ f.type = "BLOCK" <=> c.kind = "block"
  /\ f.type = "HANDLER_CASE" <=> c.kind = "hcase"
  /\ f.type = "CATCH" <=> c.kind \in {"catch", "rcase", "warn"}
  /\ f.owner = "C" <=> c.kind = "warn"

FrameOK(S, f) == LabelOK(f, S.ctl[f.ctl]) /\ MarksOK(S, f, f.ctl)

ErrorFrameOK(S, f) ==
  /\ At(S.handlers, f.ctl, f.handler) /\ At(S.restarts, f.ctl, f.restart) /\ At(S.nlx, f.ctl, f.nlx)
  /\ At(S.mvs, f.ctl, f.mv) /\ MaskOK(S, f.mask, f.ctl)

HandlerOK(S, h) ==
  IF S.ctl[h.ctl].kind = "hcase" THEN h.frame \in 1..Len(S.nlx) /\ S.nlx[h.frame].ctl = h.ctl
  ELSE h.frame = 0

\* Transfer p, interrupted by the cleanup at depth k, goes to the construct at
\* depth t: by tag, to a LOAD or to a HANDLER-CASE.
ByTag(S, p, k, t) ==
  \E i \in 1..Len(S.nlx) :
    /\ S.nlx[i].ctl = t /\ S.nlx[i].type \in TaggedTypes /\ S.nlx[i].tag = p.tag
    /\ DistinctTags =>
         \A j \in 1..Len(S.nlx) :
           i < j /\ S.nlx[j].ctl < k /\ S.nlx[j].type \in TaggedTypes => S.nlx[j].tag # p.tag
ByError(S, k, t) ==
  /\ S.ctl[t].kind = "load"
  /\ \A m \in (t + 1)..(k - 1) : S.ctl[m].kind # "load" /\ (t > 1 => S.ctl[m].kind # "cleanup")
ByClause(S, p, t) == p.tag \in 1..Len(S.nlx) /\ S.nlx[p.tag].ctl = t /\ S.nlx[p.tag].type = "HANDLER_CASE"

Resolves(S, p, k, t) ==
  /\ t \in 1..(k - 1) /\ p.kind \in 1..3
  /\ p.kind = 1 => ByTag(S, p, k, t)
  /\ p.kind = 2 => ByError(S, k, t)
  /\ p.kind = 3 => ByClause(S, p, t)

\* p is no transfer, or the one that the innermost UNWIND-PROTECT below depth k
\* interrupts.
Parked(S, p, k) ==
  p.kind # 0 =>
    \E m \in 1..(k - 1) :
      /\ S.ctl[m].kind = "cleanup" /\ S.ctl[m].exit # 0 /\ Resolves(S, p, m, S.ctl[m].exit)
      /\ \A x \in (m + 1)..(k - 1) : S.ctl[x].kind \notin {"protected", "cleanup"}

RecordOK(S, r) ==
  /\ r = [pend |-> r.pend, entered |-> r.entered, ctl |-> r.ctl]
  /\ r.entered = (S.ctl[r.ctl].exit # 0)
  /\ IF r.entered THEN Resolves(S, r.pend, r.ctl, S.ctl[r.ctl].exit) ELSE Parked(S, r.pend, r.ctl)

\* No cleanup form separates depth k from the innermost LOAD below it, unless
\* that is the outermost one.
NoCleanup(S, k) ==
  \A t \in 2..(k - 1) :
    S.ctl[t].kind = "load" /\ (\A m \in (t + 1)..(k - 1) : S.ctl[m].kind # "load") =>
      \A m \in (t + 1)..(k - 1) : S.ctl[m].kind # "cleanup"

\* A condition being offered has got to the binding at and the depth of.
SignalOK(S, k) ==
  LET c == S.ctl[k]
  IN /\ c.what \in {"signal", "warn", "error"} /\ c.running \in BOOLEAN
     /\ c.what = "warn" => k > 1 /\ S.ctl[k - 1].kind = "warn"
     /\ c.what = "error" => NoCleanup(S, k)
     /\ c.running => MaskOK(S, c.mask, k)
     /\ \A i \in 1..Len(S.handlers) : S.handlers[i].ctl < k => (i < c.at <=> S.handlers[i].ctl < c.of)

\* A clause of HANDLER-BIND stands on the clauses of its form pushed before it,
\* and so does its binding.
ClauseOK(S, k) ==
  LET f == S.ctl[k].of
  IN /\ f \in 2..k /\ \A m \in f..k : S.ctl[m].kind = "hbind"
     /\ \A i \in 1..Len(S.handlers) : S.handlers[i].ctl = k => At(S.handlers, f, i - (k - f + 1))

ConstructOK(S, k) ==
  LET c == S.ctl[k]
  IN /\ c = [kind |-> c.kind, tag |-> c.tag, exit |-> c.exit, of |-> c.of, running |-> c.running,
             what |-> c.what, at |-> c.at, mask |-> c.mask]
     /\ c.kind \in FrameKinds \union {"load", "hbind", "cleanup", "signal"}
     /\ c.kind = "catch" => c.tag \in CatchTags
     /\ c.kind = "block" => c.tag \in BlockNames
     /\ c.kind = "tagbody" => c.tag \in TagbodyIds
     /\ c.kind = "rcase" => c.tag \in RestartTags
     /\ c.kind = "warn" => c.tag = -k
     /\ IF c.kind = "cleanup" THEN c.exit \in 0..(k - 1) ELSE c.exit = 0
     /\ c.kind = "load" => \A m \in 1..(k - 1) : S.ctl[m].kind # "protected"
     /\ c.kind = "signal" => SignalOK(S, k)
     /\ c.kind = "hbind" => ClauseOK(S, k)

EntriesOK(S) ==
  /\ \A i \in 1..Len(S.nlx) : FrameOK(S, S.nlx[i])
  /\ \A i \in 1..Len(S.errs) : ErrorFrameOK(S, S.errs[i])
  /\ \A i \in 1..Len(S.handlers) : HandlerOK(S, S.handlers[i])
  /\ \A i \in 1..Len(S.restarts) : S.restarts[i].tag = S.ctl[S.restarts[i].ctl].tag
  /\ \A i \in 1..Len(S.saved) : RecordOK(S, S.saved[i])

ProgramOK(S) ==
  /\ IsStack(S.ctl) /\ Len(S.ctl) \in 1..MaxDepth /\ S.ctl[1].kind = "load"
  /\ \A k \in 1..Len(S.ctl) : ConstructOK(S, k)
  /\ \A k \in 1..(Len(S.ctl) - 1) : S.ctl[k].kind = "signal" => S.ctl[k].running

Sound(S) ==
  /\ ProgramOK(S) /\ StacksMatch(S) /\ EntriesOK(S)
  /\ MaskOK(S, S.active, Len(S.ctl) + 1) /\ Parked(S, S.pending, Len(S.ctl) + 1)

IInv == Sound(Machine)
-----------------------------------------------------------------------------
(***************************************************************************)
(* Stacks.                                                                 *)
(***************************************************************************)
\* A stack is a sequence of its entries.
LEMMA StackSeq ==
  ASSUME NEW s, IsStack(s)
  PROVE  s \in Seq({s[i] : i \in 1..Len(s)}) /\ DOMAIN s = 1..Len(s)
  BY DEF IsStack

\* Every sequence is a stack.
LEMMA SeqStack ==
  ASSUME NEW S, NEW s \in Seq(S)
  PROVE  IsStack(s)
  BY DEF IsStack

\* A new entry on top.
LEMMA StackPush ==
  ASSUME NEW s, IsStack(s), NEW x
  PROVE  /\ IsStack(Append(s, x)) /\ Len(Append(s, x)) = Len(s) + 1
         /\ \A i \in 1..Len(s) : Append(s, x)[i] = s[i]
         /\ Append(s, x)[Len(s) + 1] = x
<1> DEFINE S == {s[i] : i \in 1..Len(s)} \union {x}
<1>1. s \in Seq({s[i] : i \in 1..Len(s)})
  BY StackSeq
<1>2. s \in Seq(S)
  BY <1>1
<1>3. Append(s, x) \in Seq(S) /\ Len(Append(s, x)) = Len(s) + 1
  BY <1>2
<1>4. IsStack(Append(s, x))
  BY <1>3, SeqStack
<1> QED BY <1>2, <1>3, <1>4

\* The lowest n entries.
LEMMA StackCut ==
  ASSUME NEW s, IsStack(s), NEW n \in 0..Len(s)
  PROVE  /\ IsStack(SubSeq(s, 1, n)) /\ Len(SubSeq(s, 1, n)) = n
         /\ \A i \in 1..n : SubSeq(s, 1, n)[i] = s[i]
<1> DEFINE S == {s[i] : i \in 1..Len(s)}
<1>1. s \in Seq(S)
  BY StackSeq
<1>2. n \in Int /\ n <= Len(s)
  BY <1>1
<1>3. SubSeq(s, 1, n) \in Seq(S) /\ Len(SubSeq(s, 1, n)) = n
      /\ \A i \in 1..n : SubSeq(s, 1, n)[i] = s[i]
  BY <1>1, <1>2, SubSeqIs
<1>4. IsStack(SubSeq(s, 1, n))
  BY <1>3, SeqStack
<1> QED BY <1>3, <1>4

\* t is what is left of stack s below depth e, and x is on top of it.
Rest(s, t, e) == IsStack(t) /\ At(s, e, Len(t)) /\ \A i \in 1..Len(t) : t[i] = s[i]
Plus(s, t, e, x) ==
  /\ IsStack(t) /\ Len(t) >= 1 /\ At(s, e, Len(t) - 1)
  /\ \A i \in 1..(Len(t) - 1) : t[i] = s[i]
  /\ t[Len(t)] = x

\* The entries below depth e are the same.
Kept(s, t, e) ==
  /\ IsStack(t) /\ \A i \in 1..Len(t) : t[i].ctl \in Nat
  /\ \E n \in 0..Len(s) : At(s, e, n) /\ At(t, e, n) /\ \A i \in 1..n : t[i] = s[i]

\* A stack that matches the program is all below its top.
LEMMA RestSame ==
  ASSUME NEW c, Len(c) \in Nat, NEW K, NEW s, Matches(s, c, K)
  PROVE  Rest(s, s, Len(c) + 1)
  BY DEF Rest, Matches, At, IsStack

\* Cutting a stack at a mark leaves the entries below the mark's depth.
LEMMA RestCut ==
  ASSUME NEW s, IsStack(s), NEW e, NEW n, At(s, e, n)
  PROVE  Rest(s, SubSeq(s, 1, n), e)
<1>1. n \in 0..Len(s)
  BY DEF At
<1>2. IsStack(SubSeq(s, 1, n)) /\ Len(SubSeq(s, 1, n)) = n /\ \A i \in 1..n : SubSeq(s, 1, n)[i] = s[i]
  BY <1>1, StackCut
<1> QED BY <1>2 DEF Rest

\* What is left, with a new entry on top.
LEMMA PlusPush ==
  ASSUME NEW s, NEW t, NEW e, Rest(s, t, e), NEW x
  PROVE  Plus(s, Append(t, x), e, x)
<1>1. /\ IsStack(Append(t, x)) /\ Len(Append(t, x)) = Len(t) + 1
      /\ \A i \in 1..Len(t) : Append(t, x)[i] = t[i]
      /\ Append(t, x)[Len(t) + 1] = x
  BY StackPush DEF Rest
<1>2. Len(t) \in Nat
  BY DEF Rest, IsStack
<1> QED BY <1>1, <1>2 DEF Rest, Plus

\* What is left below depth e is kept, and all of it is below e.
LEMMA RestKept ==
  ASSUME NEW c, Len(c) \in Nat, NEW K, NEW s, Matches(s, c, K), NEW e \in Nat, NEW t, Rest(s, t, e)
  PROVE  Kept(s, t, e) /\ \A i \in 1..Len(t) : t[i].ctl < e
<1>1. IsStack(s) /\ IsStack(t) /\ Len(t) \in 0..Len(s) /\ Len(s) \in Nat
  BY DEF Rest, Matches, At, IsStack
<1>2. \A i \in 1..Len(t) : t[i] = s[i] /\ i \in 1..Len(s) /\ s[i].ctl \in Nat /\ t[i].ctl < e
  BY <1>1 DEF Rest, Matches, At
<1>3. At(t, e, Len(t))
  BY <1>1, <1>2 DEF At, IsStack
<1> QED BY <1>1, <1>2, <1>3 DEF Rest, Kept

\* The same with a new entry at depth e or above.
LEMMA PlusKept ==
  ASSUME NEW c, Len(c) \in Nat, NEW K, NEW s, Matches(s, c, K), NEW e \in Nat, NEW x, x.ctl \in Nat, x.ctl >= e,
         NEW t, Plus(s, t, e, x)
  PROVE  Kept(s, t, e) /\ \A i \in 1..(Len(t) - 1) : t[i].ctl < e
<1>1. IsStack(s) /\ IsStack(t) /\ Len(t) - 1 \in 0..Len(s) /\ Len(s) \in Nat /\ Len(t) \in Nat
  BY DEF Plus, Matches, At, IsStack
<1>2. \A i \in 1..(Len(t) - 1) : t[i] = s[i] /\ i \in 1..Len(s) /\ s[i].ctl \in Nat /\ t[i].ctl < e
  BY <1>1 DEF Plus, Matches, At
<1>3. t[Len(t)].ctl \in Nat /\ ~(t[Len(t)].ctl < e)
  BY DEF Plus
<1>4. \A i \in 1..Len(t) : i \in 1..(Len(t) - 1) \/ i = Len(t)
  BY <1>1
<1>5. At(t, e, Len(t) - 1)
  BY <1>1, <1>2, <1>3, <1>4 DEF At
<1>6. \A i \in 1..Len(t) : t[i].ctl \in Nat
  BY <1>2, <1>3, <1>4
<1> QED BY <1>1, <1>2, <1>5, <1>6 DEF Plus, Kept

\* The constructs c and b are the same below depth e.
SameBelow(c, b, e) == IsStack(b) /\ Len(b) >= e - 1 /\ \A k \in 1..(e - 1) : b[k] = c[k]

\* What is left of a stack matches the constructs that are left, when no new
\* construct owns an entry of it.
LEMMA RestMatches ==
  ASSUME NEW c, IsStack(c), NEW K, NEW s, Matches(s, c, K), NEW e \in 1..(Len(c) + 1), NEW t, Rest(s, t, e),
         NEW b, SameBelow(c, b, e), \A k \in e..Len(b) : b[k].kind \notin K
  PROVE  Matches(t, b, K)
<1>1. Len(c) \in Nat /\ Len(b) \in Nat /\ e \in Nat /\ Len(s) \in Nat /\ Len(t) \in 0..Len(s)
  BY DEF IsStack, SameBelow, Matches, Rest, At
<1>2. \A i \in 1..Len(t) : i \in 1..Len(s) /\ t[i] = s[i] /\ s[i].ctl \in 1..Len(c) /\ s[i].ctl < e
  BY <1>1 DEF Rest, At, Matches
<1>3. \A i \in 1..Len(t) : t[i].ctl \in 1..Len(b) /\ b[t[i].ctl].kind \in K
  BY <1>1, <1>2 DEF SameBelow, Matches
<1>4. \A i, j \in 1..Len(t) : i < j => t[i].ctl < t[j].ctl
  BY <1>2 DEF Matches
<1>5. ASSUME NEW k \in 1..Len(b), b[k].kind \in K PROVE \E i \in 1..Len(t) : t[i].ctl = k
  <2>1. k < e
    BY <1>1, <1>5
  <2>2. k \in 1..Len(c) /\ c[k].kind \in K
    BY <1>1, <1>5, <2>1 DEF SameBelow
  <2>3. PICK i \in 1..Len(s) : s[i].ctl = k
    BY <2>2 DEF Matches
  <2>4. i \in 1..Len(t)
    BY <1>1, <2>1, <2>3 DEF Rest, At
  <2> QED BY <1>2, <2>3, <2>4
<1> QED BY <1>3, <1>4, <1>5 DEF Matches, Rest

\* With a new entry it matches the constructs with the new one that owns it.
LEMMA PlusMatches ==
  ASSUME NEW c, IsStack(c), NEW K, NEW s, Matches(s, c, K), NEW e \in 1..(Len(c) + 1), NEW x, x.ctl = e,
         NEW t, Plus(s, t, e, x),
         NEW b, SameBelow(c, b, e), Len(b) >= e, b[e].kind \in K, \A k \in (e + 1)..Len(b) : b[k].kind \notin K
  PROVE  Matches(t, b, K)
<1>1. Len(c) \in Nat /\ Len(b) \in Nat /\ e \in Nat /\ Len(s) \in Nat /\ Len(t) - 1 \in 0..Len(s) /\ Len(t) \in Nat
  BY DEF IsStack, SameBelow, Matches, Plus, At
<1>2. ASSUME NEW i \in 1..(Len(t) - 1)
      PROVE  i \in 1..Len(s) /\ t[i] = s[i] /\ s[i].ctl \in 1..Len(c) /\ s[i].ctl < e
  <2>1. i \in 1..Len(s) /\ i <= Len(t) - 1
    BY <1>1
  <2>2. s[i].ctl < e /\ t[i] = s[i]
    BY <2>1 DEF Plus, At
  <2> QED BY <2>1, <2>2 DEF Matches
<1>6. \A i \in 1..Len(t) : i \in 1..(Len(t) - 1) \/ i = Len(t)
  BY <1>1
<1>7. t[Len(t)].ctl = e /\ Len(t) \in 1..Len(t)
  BY <1>1 DEF Plus
<1>3. ASSUME NEW i \in 1..Len(t) PROVE t[i].ctl \in 1..Len(b) /\ b[t[i].ctl].kind \in K
  <2>1. CASE i = Len(t)
    BY <1>1, <1>7, <2>1
  <2>2. CASE i \in 1..(Len(t) - 1)
    <3>1. t[i] = s[i] /\ s[i].ctl \in 1..(e - 1) /\ c[s[i].ctl].kind \in K
      BY <1>1, <1>2, <2>2 DEF Matches
    <3>2. b[s[i].ctl] = c[s[i].ctl] /\ e - 1 <= Len(b)
      BY <3>1 DEF SameBelow
    <3> QED BY <1>1, <3>1, <3>2
  <2> QED BY <1>6, <2>1, <2>2
<1>4. ASSUME NEW i \in 1..Len(t), NEW j \in 1..Len(t), i < j PROVE t[i].ctl < t[j].ctl
  <2>1. i \in 1..(Len(t) - 1)
    BY <1>1, <1>4
  <2>2. CASE j = Len(t)
    BY <1>2, <1>7, <2>1, <2>2
  <2>3. CASE j \in 1..(Len(t) - 1)
    BY <1>2, <1>4, <2>1, <2>3 DEF Matches
  <2> QED BY <1>6, <2>2, <2>3
<1>5. ASSUME NEW k \in 1..Len(b), b[k].kind \in K PROVE \E i \in 1..Len(t) : t[i].ctl = k
  <2>1. CASE k = e
    BY <1>7, <2>1
  <2>2. CASE k < e
    <3>2. k \in 1..Len(c) /\ c[k].kind \in K
      BY <1>1, <1>5, <2>2 DEF SameBelow
    <3>3. PICK i \in 1..Len(s) : s[i].ctl = k
      BY <3>2 DEF Matches
    <3>4. i \in 1..(Len(t) - 1)
      BY <1>1, <2>2, <3>3 DEF Plus, At
    <3>5. i \in 1..Len(t) /\ t[i] = s[i]
      BY <1>1, <1>2, <3>4
    <3> QED BY <3>3, <3>5
  <2> QED BY <1>1, <1>5, <2>1, <2>2
<1> QED BY <1>3, <1>4, <1>5 DEF Matches, Plus

\* Marks below depth e stay right.
LEMMA AtKept ==
  ASSUME NEW s, IsStack(s), \A i \in 1..Len(s) : s[i].ctl \in Nat, NEW t, NEW e \in Nat, Kept(s, t, e),
         NEW d \in Nat, d <= e, NEW n, At(s, d, n)
  PROVE  At(t, d, n)
<1>1. PICK m \in 0..Len(s) : At(s, e, m) /\ At(t, e, m) /\ \A i \in 1..m : t[i] = s[i]
  BY DEF Kept
<1>2. Len(s) \in Nat /\ Len(t) \in Nat /\ n \in 0..Len(s) /\ m \in 0..Len(t)
  BY <1>1 DEF IsStack, Kept, At
<1>3. n <= m
  <2> SUFFICES ASSUME n > m PROVE FALSE
    BY <1>2
  <2>1. n \in 1..Len(s) /\ s[n].ctl < d
    BY <1>1, <1>2 DEF At
  <2>2. ~(s[n].ctl < e) /\ s[n].ctl \in Nat
    BY <1>1, <1>2, <2>1 DEF At
  <2> QED BY <2>1, <2>2
<1>4. ASSUME NEW i \in 1..Len(t) PROVE i <= n <=> t[i].ctl < d
  <2>1. CASE i <= m
    BY <1>1, <1>2, <2>1 DEF At
  <2>2. CASE i > m
    BY <1>1, <1>2, <1>3, <2>2 DEF At, Kept
  <2> QED BY <1>2, <2>1, <2>2
<1> QED BY <1>2, <1>3, <1>4 DEF At

\* Entries below depth e are the same, in both directions.
LEMMA KeptEntries ==
  ASSUME NEW s, IsStack(s), NEW t, NEW e \in Nat, Kept(s, t, e)
  PROVE  /\ \A i \in 1..Len(t) : t[i].ctl < e => i \in 1..Len(s) /\ t[i] = s[i]
         /\ \A i \in 1..Len(s) : s[i].ctl < e => i \in 1..Len(t) /\ t[i] = s[i]
<1>1. PICK m \in 0..Len(s) : At(s, e, m) /\ At(t, e, m) /\ \A i \in 1..m : t[i] = s[i]
  BY DEF Kept
<1>2. Len(s) \in Nat /\ Len(t) \in Nat /\ m \in 0..Len(t)
  BY <1>1 DEF IsStack, Kept, At
<1> QED BY <1>1, <1>2 DEF At-----------------------------------------------------------------------------
(***************************************************************************)
(* What is right below depth e stays right when nothing below e changes.   *)
(***************************************************************************)
Agree(S, T, e) ==
  /\ SameBelow(S.ctl, T.ctl, e)
  /\ Kept(S.nlx, T.nlx, e) /\ Kept(S.handlers, T.handlers, e) /\ Kept(S.restarts, T.restarts, e)
  /\ Kept(S.errs, T.errs, e) /\ Kept(S.mvs, T.mvs, e) /\ Kept(S.saved, T.saved, e)

\* The entries of every stack name depths.
LEMMA Depths ==
  ASSUME NEW S, StacksMatch(S), IsStack(S.ctl)
  PROVE  /\ IsStack(S.nlx) /\ IsStack(S.handlers) /\ IsStack(S.restarts) /\ IsStack(S.errs)
         /\ IsStack(S.mvs) /\ IsStack(S.saved)
         /\ \A i \in 1..Len(S.nlx) : S.nlx[i].ctl \in Nat
         /\ \A i \in 1..Len(S.handlers) : S.handlers[i].ctl \in Nat
         /\ \A i \in 1..Len(S.restarts) : S.restarts[i].ctl \in Nat
         /\ \A i \in 1..Len(S.errs) : S.errs[i].ctl \in Nat
         /\ \A i \in 1..Len(S.mvs) : S.mvs[i].ctl \in Nat
         /\ \A i \in 1..Len(S.saved) : S.saved[i].ctl \in Nat
<1>1. ASSUME NEW s, NEW K, Matches(s, S.ctl, K)
      PROVE  IsStack(s) /\ \A i \in 1..Len(s) : s[i].ctl \in Nat
  BY <1>1 DEF Matches, IsStack
<1> QED BY <1>1 DEF StacksMatch

\* Whether a binding is enabled depends on the constructs below only.
LEMMA EnabledKept ==
  ASSUME NEW S, NEW T, NEW e \in Nat, SameBelow(S.ctl, T.ctl, e), NEW k \in Nat, NEW d \in Nat, d <= e
  PROVE  Enabled(S, k, d) <=> Enabled(T, k, d)
<1>1. \A m \in (k + 1)..(d - 1) : T.ctl[m] = S.ctl[m]
  BY DEF SameBelow
<1> QED BY <1>1 DEF Enabled

\* A mask that was right below depth d stays right.
LEMMA MaskKept ==
  ASSUME NEW S, StacksMatch(S), IsStack(S.ctl), NEW T, NEW e \in Nat, Agree(S, T, e),
         NEW d \in Nat, d <= e, NEW mask, MaskOK(S, mask, d)
  PROVE  MaskOK(T, mask, d)
<1>1. SUFFICES ASSUME NEW i \in 1..Len(T.handlers), T.handlers[i].ctl < d
               PROVE  i \in mask <=> Enabled(T, T.handlers[i].ctl, d)
  BY DEF MaskOK
<1>2. T.handlers[i].ctl \in Nat /\ T.handlers[i].ctl < e
  BY <1>1 DEF Agree, Kept
<1>3. i \in 1..Len(S.handlers) /\ T.handlers[i] = S.handlers[i]
  BY <1>2, Depths, KeptEntries DEF Agree
<1>4. Enabled(S, T.handlers[i].ctl, d) <=> Enabled(T, T.handlers[i].ctl, d)
  BY <1>2, EnabledKept DEF Agree
<1> QED BY <1>1, <1>3, <1>4 DEF MaskOK

\* A mark into each stack below depth e stays the right one.
LEMMA AllAtKept ==
  ASSUME NEW S, StacksMatch(S), IsStack(S.ctl), NEW T, NEW e \in Nat, Agree(S, T, e),
         NEW d \in Nat, d <= e, NEW n
  PROVE  /\ At(S.nlx, d, n) => At(T.nlx, d, n)
         /\ At(S.handlers, d, n) => At(T.handlers, d, n)
         /\ At(S.restarts, d, n) => At(T.restarts, d, n)
         /\ At(S.errs, d, n) => At(T.errs, d, n)
         /\ At(S.mvs, d, n) => At(T.mvs, d, n)
         /\ At(S.saved, d, n) => At(T.saved, d, n)
<1>1. ASSUME NEW s, IsStack(s), \A i \in 1..Len(s) : s[i].ctl \in Nat, NEW t, Kept(s, t, e), At(s, d, n)
      PROVE  At(t, d, n)
  BY <1>1, AtKept
<1> QED BY <1>1, Depths DEF Agree

\* The marks of a frame below depth e stay right.
LEMMA MarksKept ==
  ASSUME NEW S, StacksMatch(S), IsStack(S.ctl), NEW T, NEW e \in Nat, Agree(S, T, e),
         NEW d \in Nat, d <= e, NEW f, MarksOK(S, f, d)
  PROVE  MarksOK(T, f, d)
<1>1. MaskOK(T, f.mask, d)
  BY MaskKept DEF MarksOK
<1> QED BY <1>1, AllAtKept DEF MarksOK

\* A frame below depth e stays right.
LEMMA FrameKept ==
  ASSUME NEW S, StacksMatch(S), IsStack(S.ctl), NEW T, NEW e \in Nat, Agree(S, T, e),
         NEW f, f.ctl \in 1..(e - 1), FrameOK(S, f)
  PROVE  FrameOK(T, f)
<1>1. T.ctl[f.ctl] = S.ctl[f.ctl]
  BY DEF Agree, SameBelow
<1>2. MarksOK(T, f, f.ctl)
  BY MarksKept DEF FrameOK
<1> QED BY <1>1, <1>2 DEF FrameOK

\* An error frame below depth e stays right.
LEMMA ErrorFrameKept ==
  ASSUME NEW S, StacksMatch(S), IsStack(S.ctl), NEW T, NEW e \in Nat, Agree(S, T, e),
         NEW f, f.ctl \in 1..(e - 1), ErrorFrameOK(S, f)
  PROVE  ErrorFrameOK(T, f)
<1>1. f.ctl \in Nat /\ f.ctl <= e
  OBVIOUS
<1>2. MaskOK(T, f.mask, f.ctl)
  BY <1>1, MaskKept DEF ErrorFrameOK
<1> QED BY <1>1, <1>2, AllAtKept DEF ErrorFrameOK

\* A handler binding below depth e stays right.
LEMMA HandlerKept ==
  ASSUME NEW S, StacksMatch(S), IsStack(S.ctl), NEW T, NEW e \in Nat, Agree(S, T, e),
         NEW h, h.ctl \in 1..(e - 1), HandlerOK(S, h)
  PROVE  HandlerOK(T, h)
<1>1. T.ctl[h.ctl] = S.ctl[h.ctl]
  BY DEF Agree, SameBelow
<1>2. \A i \in 1..Len(S.nlx) : S.nlx[i].ctl < e => i \in 1..Len(T.nlx) /\ T.nlx[i] = S.nlx[i]
  BY Depths, KeptEntries DEF Agree
<1> QED BY <1>1, <1>2 DEF HandlerOK

\* A transfer that a cleanup below depth e interrupts keeps its target.
LEMMA ResolvesKept ==
  ASSUME NEW S, StacksMatch(S), IsStack(S.ctl), NEW T, NEW e \in Nat, Agree(S, T, e),
         NEW k \in Nat, k <= e, NEW t, NEW p, Resolves(S, p, k, t)
  PROVE  Resolves(T, p, k, t)
<1>1. t \in 1..(k - 1) /\ t < e /\ p.kind \in 1..3
  BY DEF Resolves
<1>2. /\ \A i \in 1..Len(S.nlx) : S.nlx[i].ctl < e => i \in 1..Len(T.nlx) /\ T.nlx[i] = S.nlx[i]
      /\ \A i \in 1..Len(T.nlx) : T.nlx[i].ctl < e => i \in 1..Len(S.nlx) /\ T.nlx[i] = S.nlx[i]
  BY Depths, KeptEntries DEF Agree
<1>3. \A m \in 1..(k - 1) : T.ctl[m] = S.ctl[m]
  BY DEF Agree, SameBelow
<1>4. ASSUME p.kind = 1 PROVE ByTag(T, p, k, t)
  <2>1. PICK i \in 1..Len(S.nlx) :
          /\ S.nlx[i].ctl = t /\ S.nlx[i].type \in TaggedTypes /\ S.nlx[i].tag = p.tag
          /\ DistinctTags =>
               \A j \in 1..Len(S.nlx) :
                 i < j /\ S.nlx[j].ctl < k /\ S.nlx[j].type \in TaggedTypes => S.nlx[j].tag # p.tag
    BY <1>4 DEF Resolves, ByTag
  <2>2. i \in 1..Len(T.nlx) /\ T.nlx[i] = S.nlx[i]
    BY <1>1, <1>2, <2>1
  <2>3. ASSUME DistinctTags, NEW j \in 1..Len(T.nlx), i < j, T.nlx[j].ctl < k, T.nlx[j].type \in TaggedTypes
        PROVE  T.nlx[j].tag # p.tag
    <3>1. T.nlx[j].ctl \in Nat
      BY DEF Agree, Kept
    <3>2. j \in 1..Len(S.nlx) /\ T.nlx[j] = S.nlx[j]
      BY <1>2, <2>3, <3>1
    <3> QED BY <2>1, <2>3, <3>2
  <2> QED BY <2>1, <2>2, <2>3 DEF ByTag
<1>5. ASSUME p.kind = 2 PROVE ByError(T, k, t)
  <2>1. ByError(S, k, t)
    BY <1>5 DEF Resolves
  <2>2. \A m \in (t + 1)..(k - 1) : m \in 1..(k - 1)
    BY <1>1
  <2> QED BY <1>1, <1>3, <2>1, <2>2 DEF ByError
<1>6. ASSUME p.kind = 3 PROVE ByClause(T, p, t)
  BY <1>1, <1>2, <1>6 DEF Resolves, ByClause
<1> QED BY <1>1, <1>4, <1>5, <1>6 DEF Resolves

\* A parked transfer below depth e stays parked.
LEMMA ParkedKept ==
  ASSUME NEW S, StacksMatch(S), IsStack(S.ctl), NEW T, NEW e \in Nat, Agree(S, T, e),
         NEW k \in Nat, k <= e, NEW p, Parked(S, p, k)
  PROVE  Parked(T, p, k)
<1>1. SUFFICES ASSUME p.kind # 0 PROVE Parked(T, p, k)
  BY DEF Parked
<1>2. PICK m \in 1..(k - 1) :
        /\ S.ctl[m].kind = "cleanup" /\ S.ctl[m].exit # 0 /\ Resolves(S, p, m, S.ctl[m].exit)
        /\ \A x \in (m + 1)..(k - 1) : S.ctl[x].kind \notin {"protected", "cleanup"}
  BY <1>1 DEF Parked
<1>3. \A x \in 1..(k - 1) : T.ctl[x] = S.ctl[x]
  BY DEF Agree, SameBelow
<1>4. Resolves(T, p, m, S.ctl[m].exit)
  BY <1>2, ResolvesKept
<1> QED BY <1>2, <1>3, <1>4 DEF Parked

\* A saved record below depth e stays right.
LEMMA RecordKept ==
  ASSUME NEW S, StacksMatch(S), IsStack(S.ctl), NEW T, NEW e \in Nat, Agree(S, T, e),
         NEW r, r.ctl \in 1..(e - 1), RecordOK(S, r)
  PROVE  RecordOK(T, r)
<1>1. T.ctl[r.ctl] = S.ctl[r.ctl]
  BY DEF Agree, SameBelow
<1>2. r.ctl \in Nat /\ r.ctl <= e
  OBVIOUS
<1>3. CASE r.entered
  <2>1. Resolves(T, r.pend, r.ctl, S.ctl[r.ctl].exit)
    BY <1>2, <1>3, ResolvesKept DEF RecordOK
  <2> QED BY <1>1, <1>3, <2>1 DEF RecordOK
<1>4. CASE ~r.entered
  <2>1. Parked(T, r.pend, r.ctl)
    BY <1>2, <1>4, ParkedKept DEF RecordOK
  <2> QED BY <1>1, <1>4, <2>1 DEF RecordOK
<1> QED BY <1>3, <1>4

\* A construct below depth e stays right.
LEMMA ConstructKept ==
  ASSUME NEW S, StacksMatch(S), IsStack(S.ctl), NEW T, NEW e \in Nat, Agree(S, T, e),
         NEW k \in 1..(e - 1), ConstructOK(S, k)
  PROVE  ConstructOK(T, k)
<1>1. \A m \in 1..k : T.ctl[m] = S.ctl[m]
  BY DEF Agree, SameBelow
<1>2. ASSUME S.ctl[k].kind = "signal" PROVE SignalOK(T, k)
  <2>1. SignalOK(S, k)
    BY <1>2 DEF ConstructOK
  <2>2. T.ctl[k] = S.ctl[k] /\ k \in Nat /\ k <= e
    BY <1>1
  <2>3. S.ctl[k].running => MaskOK(T, S.ctl[k].mask, k)
    BY <2>1, <2>2, MaskKept DEF SignalOK
  <2>4. NoCleanup(S, k) => NoCleanup(T, k)
    <3>1. \A m \in 1..(k - 1) : T.ctl[m] = S.ctl[m]
      BY <1>1
    <3>2. \A t \in 2..(k - 1) : t \in 1..(k - 1) /\ \A m \in (t + 1)..(k - 1) : m \in 1..(k - 1)
      OBVIOUS
    <3> QED BY <3>1, <3>2 DEF NoCleanup
  <2>5. \A i \in 1..Len(T.handlers) : T.handlers[i].ctl < k => i \in 1..Len(S.handlers) /\ T.handlers[i] = S.handlers[i]
    <3>1. \A i \in 1..Len(T.handlers) : T.handlers[i].ctl < e => i \in 1..Len(S.handlers) /\ T.handlers[i] = S.handlers[i]
      BY Depths, KeptEntries DEF Agree
    <3>2. \A i \in 1..Len(T.handlers) : T.handlers[i].ctl \in Nat
      BY DEF Agree, Kept
    <3> QED BY <2>2, <3>1, <3>2
  <2>6. k > 1 => T.ctl[k - 1] = S.ctl[k - 1]
    BY <1>1
  <2> QED BY <2>1, <2>2, <2>3, <2>4, <2>5, <2>6 DEF SignalOK
<1>3. T.ctl[k] = S.ctl[k] /\ \A m \in 1..(k - 1) : T.ctl[m] = S.ctl[m]
  BY <1>1
<1>4. ASSUME S.ctl[k].kind = "hbind" PROVE ClauseOK(T, k)
  <2>1. PICK f : f = S.ctl[k].of
    OBVIOUS
  <2>2. /\ f \in 2..k /\ \A m \in f..k : S.ctl[m].kind = "hbind"
        /\ \A i \in 1..Len(S.handlers) : S.handlers[i].ctl = k => At(S.handlers, f, i - (k - f + 1))
    BY <1>4, <2>1 DEF ConstructOK, ClauseOK
  <2>3. \A m \in f..k : m \in 1..k
    BY <2>2
  <2>4. T.ctl[k].of = f /\ \A m \in f..k : T.ctl[m].kind = "hbind"
    BY <1>1, <1>3, <2>1, <2>2, <2>3
  <2>5. ASSUME NEW i \in 1..Len(T.handlers), T.handlers[i].ctl = k PROVE At(T.handlers, f, i - (k - f + 1))
    <3>1. T.handlers[i].ctl < e /\ f \in Nat /\ f <= e
      BY <2>2, <2>5
    <3>2. i \in 1..Len(S.handlers) /\ T.handlers[i] = S.handlers[i]
      BY <3>1, Depths, KeptEntries DEF Agree
    <3>3. PICK n : n = i - (k - f + 1)
      OBVIOUS
    <3>4. At(S.handlers, f, n)
      BY <2>2, <2>5, <3>2, <3>3
    <3>5. At(T.handlers, f, n)
      BY <3>1, <3>4, AllAtKept
    <3> QED BY <3>3, <3>5
  <2> QED BY <2>2, <2>4, <2>5 DEF ClauseOK
<1> QED BY <1>2, <1>3, <1>4 DEF ConstructOK-----------------------------------------------------------------------------
(***************************************************************************)
(* The two shapes of a step: the program goes back to below depth e, or it *)
(* does and enters a construct there.                                      *)
(***************************************************************************)
\* The entries at depth e and above are right.
NewEntriesOK(S, e) ==
  /\ \A i \in 1..Len(S.nlx) : S.nlx[i].ctl >= e => FrameOK(S, S.nlx[i])
  /\ \A i \in 1..Len(S.errs) : S.errs[i].ctl >= e => ErrorFrameOK(S, S.errs[i])
  /\ \A i \in 1..Len(S.handlers) : S.handlers[i].ctl >= e => HandlerOK(S, S.handlers[i])
  /\ \A i \in 1..Len(S.restarts) : S.restarts[i].ctl >= e => S.restarts[i].tag = S.ctl[S.restarts[i].ctl].tag
  /\ \A i \in 1..Len(S.saved) : S.saved[i].ctl >= e => RecordOK(S, S.saved[i])

\* Old and new entries together.
LEMMA EntriesStep ==
  ASSUME NEW S, Sound(S), NEW T, NEW e \in Nat, Agree(S, T, e), StacksMatch(T), IsStack(T.ctl), NewEntriesOK(T, e)
  PROVE  EntriesOK(T)
<1>0. StacksMatch(S) /\ IsStack(S.ctl) /\ EntriesOK(S)
  BY DEF Sound, ProgramOK
<1>1. ASSUME NEW i \in 1..Len(T.nlx) PROVE FrameOK(T, T.nlx[i])
  <2>1. T.nlx[i].ctl \in 1..Len(T.ctl) /\ Len(T.ctl) \in Nat
    BY DEF StacksMatch, Matches, IsStack
  <2>2. CASE T.nlx[i].ctl < e
    <3>1. i \in 1..Len(S.nlx) /\ T.nlx[i] = S.nlx[i]
      BY <1>0, <2>2, Depths, KeptEntries DEF Agree
    <3>2. FrameOK(S, T.nlx[i])
      BY <1>0, <3>1 DEF EntriesOK
    <3> QED BY <1>0, <2>1, <2>2, <3>2, FrameKept
  <2> QED BY <2>1, <2>2 DEF NewEntriesOK
<1>2. ASSUME NEW i \in 1..Len(T.errs) PROVE ErrorFrameOK(T, T.errs[i])
  <2>1. T.errs[i].ctl \in 1..Len(T.ctl) /\ Len(T.ctl) \in Nat
    BY DEF StacksMatch, Matches, IsStack
  <2>2. CASE T.errs[i].ctl < e
    <3>1. i \in 1..Len(S.errs) /\ T.errs[i] = S.errs[i]
      BY <1>0, <2>2, Depths, KeptEntries DEF Agree
    <3>2. ErrorFrameOK(S, T.errs[i])
      BY <1>0, <3>1 DEF EntriesOK
    <3> QED BY <1>0, <2>1, <2>2, <3>2, ErrorFrameKept
  <2> QED BY <2>1, <2>2 DEF NewEntriesOK
<1>3. ASSUME NEW i \in 1..Len(T.handlers) PROVE HandlerOK(T, T.handlers[i])
  <2>1. T.handlers[i].ctl \in 1..Len(T.ctl) /\ Len(T.ctl) \in Nat
    BY DEF StacksMatch, Matches, IsStack
  <2>2. CASE T.handlers[i].ctl < e
    <3>1. i \in 1..Len(S.handlers) /\ T.handlers[i] = S.handlers[i]
      BY <1>0, <2>2, Depths, KeptEntries DEF Agree
    <3>2. HandlerOK(S, T.handlers[i])
      BY <1>0, <3>1 DEF EntriesOK
    <3> QED BY <1>0, <2>1, <2>2, <3>2, HandlerKept
  <2> QED BY <2>1, <2>2 DEF NewEntriesOK
<1>4. ASSUME NEW i \in 1..Len(T.restarts) PROVE T.restarts[i].tag = T.ctl[T.restarts[i].ctl].tag
  <2>1. T.restarts[i].ctl \in 1..Len(T.ctl) /\ Len(T.ctl) \in Nat
    BY DEF StacksMatch, Matches, IsStack
  <2>2. CASE T.restarts[i].ctl < e
    <3>1. i \in 1..Len(S.restarts) /\ T.restarts[i] = S.restarts[i]
      BY <1>0, <2>2, Depths, KeptEntries DEF Agree
    <3>2. S.restarts[i].tag = S.ctl[S.restarts[i].ctl].tag
      BY <1>0, <3>1 DEF EntriesOK
    <3>3. T.ctl[T.restarts[i].ctl] = S.ctl[T.restarts[i].ctl]
      BY <2>1, <2>2 DEF Agree, SameBelow
    <3> QED BY <3>1, <3>2, <3>3
  <2> QED BY <2>1, <2>2 DEF NewEntriesOK
<1>5. ASSUME NEW i \in 1..Len(T.saved) PROVE RecordOK(T, T.saved[i])
  <2>1. T.saved[i].ctl \in 1..Len(T.ctl) /\ Len(T.ctl) \in Nat
    BY DEF StacksMatch, Matches, IsStack
  <2>2. CASE T.saved[i].ctl < e
    <3>1. i \in 1..Len(S.saved) /\ T.saved[i] = S.saved[i]
      BY <1>0, <2>2, Depths, KeptEntries DEF Agree
    <3>2. RecordOK(S, T.saved[i])
      BY <1>0, <3>1 DEF EntriesOK
    <3> QED BY <1>0, <2>1, <2>2, <3>2, RecordKept
  <2> QED BY <2>1, <2>2 DEF NewEntriesOK
<1> QED BY <1>1, <1>2, <1>3, <1>4, <1>5 DEF EntriesOK

\* The constructs of the next state are right when those that are new are.
LEMMA ProgramStep ==
  ASSUME NEW S, Sound(S), NEW T, NEW e \in 2..(Len(S.ctl) + 1), Agree(S, T, e), Len(T.ctl) <= MaxDepth,
         \A k \in e..Len(T.ctl) : ConstructOK(T, k),
         \A k \in (e - 1)..(Len(T.ctl) - 1) : T.ctl[k].kind = "signal" => T.ctl[k].running
  PROVE  ProgramOK(T)
<1>0. StacksMatch(S) /\ IsStack(S.ctl) /\ ProgramOK(S) /\ Len(S.ctl) \in Nat /\ e \in Nat
  BY DEF Sound, ProgramOK, IsStack
<1>1. IsStack(T.ctl) /\ Len(T.ctl) \in Nat /\ Len(T.ctl) >= e - 1 /\ \A k \in 1..(e - 1) : T.ctl[k] = S.ctl[k]
  BY DEF Agree, SameBelow, IsStack
<1>2. T.ctl[1].kind = "load" /\ Len(T.ctl) \in 1..MaxDepth
  BY <1>0, <1>1, ExitConstants DEF ProgramOK
<1>3. ASSUME NEW k \in 1..Len(T.ctl) PROVE ConstructOK(T, k)
  <2>1. CASE k < e
    <3>1. k \in 1..(e - 1) /\ k \in 1..Len(S.ctl)
      BY <1>0, <2>1
    <3>2. ConstructOK(S, k)
      BY <1>0, <3>1 DEF ProgramOK
    <3> QED BY <1>0, <3>1, <3>2, ConstructKept
  <2> QED BY <1>0, <1>1, <2>1
<1>4. ASSUME NEW k \in 1..(Len(T.ctl) - 1), T.ctl[k].kind = "signal" PROVE T.ctl[k].running
  <2>1. CASE k < e - 1
    <3>1. k \in 1..(e - 1) /\ k \in 1..(Len(S.ctl) - 1)
      BY <1>0, <2>1
    <3> QED BY <1>0, <1>1, <1>4, <3>1 DEF ProgramOK
  <2> QED BY <1>0, <1>1, <1>4, <2>1
<1> QED BY <1>1, <1>2, <1>3, <1>4 DEF ProgramOK

\* Everything at depth e and above is left.
Cut(S, T, e) ==
  /\ SameBelow(S.ctl, T.ctl, e) /\ Len(T.ctl) = e - 1
  /\ Rest(S.nlx, T.nlx, e) /\ Rest(S.handlers, T.handlers, e) /\ Rest(S.restarts, T.restarts, e)
  /\ Rest(S.errs, T.errs, e) /\ Rest(S.mvs, T.mvs, e) /\ Rest(S.saved, T.saved, e)

\* A state cut back to depth e agrees with the state before below e.
LEMMA CutAgrees ==
  ASSUME NEW S, Sound(S), NEW T, NEW e \in 2..(Len(S.ctl) + 1), Cut(S, T, e)
  PROVE  Agree(S, T, e) /\ StacksMatch(T) /\ NewEntriesOK(T, e)
<1>0. StacksMatch(S) /\ IsStack(S.ctl) /\ Len(S.ctl) \in Nat /\ e \in Nat /\ e \in 1..(Len(S.ctl) + 1)
  BY DEF Sound, ProgramOK, IsStack
<1>1. ASSUME NEW K, NEW s, Matches(s, S.ctl, K), NEW t, Rest(s, t, e)
      PROVE  Kept(s, t, e) /\ Matches(t, T.ctl, K) /\ \A i \in 1..Len(t) : t[i].ctl \in Nat /\ t[i].ctl < e
  <2>1. Kept(s, t, e) /\ \A i \in 1..Len(t) : t[i].ctl < e
    BY <1>0, <1>1, RestKept
  <2>2. SameBelow(S.ctl, T.ctl, e) /\ \A k \in e..Len(T.ctl) : T.ctl[k].kind \notin K
    BY <1>0 DEF Cut
  <2>3. Matches(t, T.ctl, K)
    BY <1>0, <1>1, <2>2, RestMatches
  <2> QED BY <2>1, <2>3 DEF Kept
<1>2. Agree(S, T, e)
  BY <1>0, <1>1 DEF StacksMatch, Agree, Cut
<1>3. StacksMatch(T)
  BY <1>0, <1>1 DEF StacksMatch, Cut
<1>4. /\ \A i \in 1..Len(T.nlx) : ~(T.nlx[i].ctl >= e)
      /\ \A i \in 1..Len(T.errs) : ~(T.errs[i].ctl >= e)
      /\ \A i \in 1..Len(T.handlers) : ~(T.handlers[i].ctl >= e)
      /\ \A i \in 1..Len(T.restarts) : ~(T.restarts[i].ctl >= e)
      /\ \A i \in 1..Len(T.saved) : ~(T.saved[i].ctl >= e)
  <2>1. ASSUME NEW t, \A i \in 1..Len(t) : t[i].ctl \in Nat /\ t[i].ctl < e PROVE \A i \in 1..Len(t) : ~(t[i].ctl >= e)
    BY <1>0, <2>1
  <2> QED BY <1>0, <1>1, <2>1 DEF StacksMatch, Cut
<1> QED BY <1>2, <1>3, <1>4 DEF NewEntriesOK

\* A step that leaves constructs and enters none.
LEMMA CutSound ==
  ASSUME NEW S, Sound(S), NEW T, NEW e \in 2..(Len(S.ctl) + 1), Cut(S, T, e),
         MaskOK(S, T.active, e), Parked(S, T.pending, e)
  PROVE  Sound(T)
<1>0. StacksMatch(S) /\ IsStack(S.ctl) /\ Len(S.ctl) \in 1..MaxDepth /\ e \in Nat /\ e <= e
  BY DEF Sound, ProgramOK, IsStack
<1>1. Agree(S, T, e) /\ StacksMatch(T) /\ NewEntriesOK(T, e)
  BY CutAgrees
<1>2. IsStack(T.ctl) /\ Len(T.ctl) = e - 1
  BY DEF Cut, SameBelow
<1>3. EntriesOK(T)
  BY <1>0, <1>1, <1>2, EntriesStep
<1>4. \A k \in e..Len(T.ctl) : FALSE
  BY <1>0, <1>2
<1>5. \A k \in (e - 1)..(Len(T.ctl) - 1) : FALSE
  BY <1>0, <1>2
<1>6. Len(T.ctl) <= MaxDepth
  BY <1>0, <1>2, ExitConstants
<1>7. ProgramOK(T)
  BY <1>1, <1>4, <1>5, <1>6, ProgramStep
<1>8. MaskOK(T, T.active, e) /\ Parked(T, T.pending, e)
  BY <1>0, <1>1, MaskKept, ParkedKept
<1> QED BY <1>0, <1>1, <1>2, <1>3, <1>7, <1>8 DEF Sound

\* Of stack s, the entries below depth e are left, and one of the construct
\* entered there if it is of these kinds.
Grown(s, t, e, kind, K) ==
  IF kind \in K THEN Plus(s, t, e, t[Len(t)]) /\ t[Len(t)].ctl = e ELSE Rest(s, t, e)

\* The program is back below depth e and enters a construct there.
Entered(S, T, e) ==
  /\ SameBelow(S.ctl, T.ctl, e) /\ Len(T.ctl) = e
  /\ Grown(S.nlx, T.nlx, e, T.ctl[e].kind, FrameKinds)
  /\ Grown(S.handlers, T.handlers, e, T.ctl[e].kind, {"hbind", "hcase"})
  /\ Grown(S.restarts, T.restarts, e, T.ctl[e].kind, {"rcase", "warn"})
  /\ Grown(S.errs, T.errs, e, T.ctl[e].kind, {"load"})
  /\ Grown(S.mvs, T.mvs, e, T.ctl[e].kind, {"cleanup"})
  /\ Grown(S.saved, T.saved, e, T.ctl[e].kind, {"protected", "cleanup"})

\* A stack that grew by the entry of the new construct keeps the others.
LEMMA GrownKept ==
  ASSUME NEW c, IsStack(c), NEW K, NEW s, Matches(s, c, K), NEW e \in 1..(Len(c) + 1), NEW b, SameBelow(c, b, e),
         Len(b) = e, NEW t, Grown(s, t, e, b[e].kind, K)
  PROVE  /\ Kept(s, t, e) /\ Matches(t, b, K)
         /\ \A i \in 1..Len(t) : t[i].ctl >= e => b[e].kind \in K /\ i = Len(t)
<1>0. Len(c) \in Nat /\ e \in Nat
  BY DEF IsStack
<1>1. CASE b[e].kind \in K
  <2>1. Plus(s, t, e, t[Len(t)]) /\ t[Len(t)].ctl = e
    BY <1>1 DEF Grown
  <2>2. Kept(s, t, e) /\ \A i \in 1..(Len(t) - 1) : t[i].ctl < e
    BY <1>0, <2>1, PlusKept
  <2>3. \A k \in (e + 1)..Len(b) : b[k].kind \notin K
    BY <1>0
  <2>4. Matches(t, b, K)
    BY <1>0, <1>1, <2>1, <2>3, PlusMatches
  <2>5. Len(t) \in Nat /\ \A i \in 1..Len(t) : t[i].ctl \in Nat
    BY <2>2 DEF Kept, IsStack
  <2> QED BY <1>0, <1>1, <2>2, <2>4, <2>5
<1>2. CASE b[e].kind \notin K
  <2>1. Rest(s, t, e)
    BY <1>2 DEF Grown
  <2>2. Kept(s, t, e) /\ \A i \in 1..Len(t) : t[i].ctl < e
    BY <1>0, <2>1, RestKept
  <2>3. \A k \in e..Len(b) : b[k].kind \notin K
    BY <1>0, <1>2
  <2>4. Matches(t, b, K)
    BY <2>1, <2>3, RestMatches
  <2>5. \A i \in 1..Len(t) : t[i].ctl \in Nat
    BY <2>2 DEF Kept
  <2> QED BY <1>0, <2>2, <2>4, <2>5
<1> QED BY <1>1, <1>2

\* The entries of the construct on top are right.
TopEntriesOK(T, kind) ==
  /\ kind \in FrameKinds => FrameOK(T, T.nlx[Len(T.nlx)])
  /\ kind = "load" => ErrorFrameOK(T, T.errs[Len(T.errs)])
  /\ kind \in {"hbind", "hcase"} => HandlerOK(T, T.handlers[Len(T.handlers)])
  /\ kind \in {"rcase", "warn"} =>
       T.restarts[Len(T.restarts)].tag = T.ctl[T.restarts[Len(T.restarts)].ctl].tag
  /\ kind \in {"protected", "cleanup"} => RecordOK(T, T.saved[Len(T.saved)])

\* A state with one construct more agrees with the state before below it.
LEMMA EnteredAgrees ==
  ASSUME NEW S, Sound(S), NEW T, NEW e \in 2..(Len(S.ctl) + 1), Entered(S, T, e)
  PROVE  /\ Agree(S, T, e) /\ StacksMatch(T)
         /\ TopEntriesOK(T, T.ctl[e].kind) => NewEntriesOK(T, e)
<1>0. StacksMatch(S) /\ IsStack(S.ctl) /\ e \in 1..(Len(S.ctl) + 1)
  BY DEF Sound, ProgramOK, IsStack
<1>1. ASSUME NEW K, NEW s, Matches(s, S.ctl, K), NEW t, Grown(s, t, e, T.ctl[e].kind, K)
      PROVE  /\ Kept(s, t, e) /\ Matches(t, T.ctl, K)
             /\ \A i \in 1..Len(t) : t[i].ctl >= e => T.ctl[e].kind \in K /\ i = Len(t)
  BY <1>0, <1>1, GrownKept DEF Entered
<1>2. Agree(S, T, e)
  BY <1>0, <1>1 DEF StacksMatch, Agree, Entered
<1>3. StacksMatch(T)
  BY <1>0, <1>1 DEF StacksMatch, Entered
<1>4. /\ \A i \in 1..Len(T.nlx) : T.nlx[i].ctl >= e => T.ctl[e].kind \in FrameKinds /\ i = Len(T.nlx)
      /\ \A i \in 1..Len(T.errs) : T.errs[i].ctl >= e => T.ctl[e].kind \in {"load"} /\ i = Len(T.errs)
      /\ \A i \in 1..Len(T.handlers) :
           T.handlers[i].ctl >= e => T.ctl[e].kind \in {"hbind", "hcase"} /\ i = Len(T.handlers)
      /\ \A i \in 1..Len(T.restarts) :
           T.restarts[i].ctl >= e => T.ctl[e].kind \in {"rcase", "warn"} /\ i = Len(T.restarts)
      /\ \A i \in 1..Len(T.saved) :
           T.saved[i].ctl >= e => T.ctl[e].kind \in {"protected", "cleanup"} /\ i = Len(T.saved)
  BY <1>0, <1>1 DEF StacksMatch, Entered
<1>5. TopEntriesOK(T, T.ctl[e].kind) => NewEntriesOK(T, e)
  BY <1>4 DEF TopEntriesOK, NewEntriesOK
<1> QED BY <1>2, <1>3, <1>5

\* A step that enters a construct.
LEMMA EnteredSound ==
  ASSUME NEW S, Sound(S), NEW T, NEW e \in 2..(Len(S.ctl) + 1), Entered(S, T, e), e <= MaxDepth,
         S.ctl[e - 1].kind = "signal" => S.ctl[e - 1].running,
         TopEntriesOK(T, T.ctl[e].kind), ConstructOK(T, e),
         MaskOK(T, T.active, e + 1), Parked(T, T.pending, e + 1)
  PROVE  Sound(T)
<1>0. StacksMatch(S) /\ IsStack(S.ctl) /\ Len(S.ctl) \in 1..MaxDepth /\ e \in Nat /\ e <= e
  BY DEF Sound, ProgramOK, IsStack
<1>1. Agree(S, T, e) /\ StacksMatch(T) /\ NewEntriesOK(T, e)
  BY EnteredAgrees
<1>2. IsStack(T.ctl) /\ Len(T.ctl) = e /\ T.ctl[e - 1] = S.ctl[e - 1]
  BY <1>0 DEF Entered, SameBelow
<1>3. EntriesOK(T)
  BY <1>0, <1>1, <1>2, EntriesStep
<1>4. \A k \in e..Len(T.ctl) : ConstructOK(T, k)
  <2>1. \A k \in e..Len(T.ctl) : k = e
    BY <1>0, <1>2
  <2> QED BY <2>1
<1>5. \A k \in (e - 1)..(Len(T.ctl) - 1) : T.ctl[k].kind = "signal" => T.ctl[k].running
  <2>1. \A k \in (e - 1)..(Len(T.ctl) - 1) : k = e - 1
    BY <1>0, <1>2
  <2> QED BY <1>2, <2>1
<1>7. ProgramOK(T)
  BY <1>0, <1>1, <1>2, <1>4, <1>5, ProgramStep
<1> QED BY <1>0, <1>1, <1>2, <1>3, <1>7 DEF Sound-----------------------------------------------------------------------------
(***************************************************************************)
(* One construct more or less.                                             *)
(***************************************************************************)
\* The entry of the construct on top, if it has one.
LEMMA TopEntry ==
  ASSUME NEW c, Len(c) \in Nat \ {0}, NEW K, NEW s, Matches(s, c, K), c[Len(c)].kind \in K
  PROVE  /\ Len(s) >= 1 /\ s[Len(s)].ctl = Len(c) /\ Plus(s, s, Len(c), s[Len(s)])
         /\ Rest(s, SubSeq(s, 1, Len(s) - 1), Len(c))
<1>1. Len(s) \in Nat /\ IsStack(s)
  BY DEF Matches, IsStack
<1>2. PICK i \in 1..Len(s) : s[i].ctl = Len(c)
  BY DEF Matches
<1>3. i = Len(s)
  <2>1. SUFFICES ASSUME i < Len(s) PROVE FALSE
    BY <1>1
  <2>2. s[i].ctl < s[Len(s)].ctl /\ s[Len(s)].ctl \in 1..Len(c)
    BY <1>1, <2>1 DEF Matches
  <2> QED BY <1>2, <2>2
<1>4. \A j \in 1..Len(s) : j <= Len(s) - 1 <=> s[j].ctl < Len(c)
  BY <1>1, <1>2, <1>3 DEF Matches
<1>5. At(s, Len(c), Len(s) - 1)
  BY <1>1, <1>2, <1>4 DEF At
<1> QED BY <1>1, <1>2, <1>3, <1>5, RestCut DEF Plus

\* A construct that owns no entry of a stack is above all of them.
LEMMA NoTopEntry ==
  ASSUME NEW c, Len(c) \in Nat \ {0}, NEW K, NEW s, Matches(s, c, K), c[Len(c)].kind \notin K
  PROVE  Rest(s, s, Len(c))
<1>1. Len(s) \in Nat /\ IsStack(s)
  BY DEF Matches, IsStack
<1>2. \A j \in 1..Len(s) : s[j].ctl < Len(c)
  BY DEF Matches
<1> QED BY <1>1, <1>2 DEF Rest, At

\* The marks of an entry's own depth.
LEMMA AtEntry ==
  ASSUME NEW c, Len(c) \in Nat, NEW K, NEW s, Matches(s, c, K), NEW j \in 1..Len(s)
  PROVE  At(s, s[j].ctl, j - 1) /\ At(s, s[j].ctl + 1, j)
<1>1. Len(s) \in Nat /\ s[j].ctl \in Nat
  BY DEF Matches, IsStack
<1>2. ASSUME NEW i \in 1..Len(s)
      PROVE  s[i].ctl \in Nat /\ (i < j => s[i].ctl < s[j].ctl) /\ (j < i => s[j].ctl < s[i].ctl)
  BY DEF Matches
<1>3. ASSUME NEW i \in 1..Len(s)
      PROVE  (i <= j - 1 <=> s[i].ctl < s[j].ctl) /\ (i <= j <=> s[i].ctl < s[j].ctl + 1)
  BY <1>1, <1>2
<1> QED BY <1>1, <1>3 DEF At

\* A construct without an entry does not move the mark.
LEMMA AtSkip ==
  ASSUME NEW c, Len(c) \in Nat, NEW K, NEW s, Matches(s, c, K), NEW d \in Nat, NEW n, At(s, d, n),
         d \in 1..Len(c) => c[d].kind \notin K
  PROVE  At(s, d + 1, n)
<1>1. \A i \in 1..Len(s) : s[i].ctl \in Nat /\ s[i].ctl # d
  BY DEF Matches
<1> QED BY <1>1 DEF At

\* Marks of stack s at two depths with no entry between them.
LEMMA AtSame ==
  ASSUME NEW c, Len(c) \in Nat, NEW K, NEW s, Matches(s, c, K), NEW d \in Nat, NEW e \in Nat, d <= e, NEW n, At(s, d, n),
         \A k \in d..(e - 1) : k \in 1..Len(c) => c[k].kind \notin K
  PROVE  At(s, e, n)
<1>1. \A i \in 1..Len(s) : s[i].ctl \in 1..Len(c) /\ ~(s[i].ctl \in d..(e - 1))
  BY DEF Matches
<1> QED BY <1>1 DEF At

\* A construct that runs no handler changes no binding's being enabled.
LEMMA MaskUp ==
  ASSUME NEW S, StacksMatch(S), IsStack(S.ctl), NEW d \in 1..Len(S.ctl), NEW mask, MaskOK(S, mask, d),
         S.ctl[d].kind \notin {"hbind", "hcase"}, ~(S.ctl[d].kind = "signal" /\ S.ctl[d].running)
  PROVE  MaskOK(S, mask, d + 1)
<1>0. d \in Nat
  BY DEF IsStack
<1>1. \A i \in 1..Len(S.handlers) : S.handlers[i].ctl \in Nat /\ S.handlers[i].ctl # d
  BY Depths DEF StacksMatch, Matches
<1>2. \A k \in Nat : Enabled(S, k, d) <=> Enabled(S, k, d + 1)
  BY <1>0 DEF Enabled
<1> QED BY <1>0, <1>1, <1>2 DEF MaskOK

\* The same, read downwards.
LEMMA MaskDown ==
  ASSUME NEW S, StacksMatch(S), IsStack(S.ctl), NEW d \in 1..Len(S.ctl), NEW mask, MaskOK(S, mask, d + 1),
         ~(S.ctl[d].kind = "signal" /\ S.ctl[d].running)
  PROVE  MaskOK(S, mask, d)
<1>0. d \in Nat
  BY DEF IsStack
<1>1. \A i \in 1..Len(S.handlers) : S.handlers[i].ctl \in Nat
  BY Depths
<1>2. \A k \in Nat : Enabled(S, k, d) <=> Enabled(S, k, d + 1)
  BY <1>0 DEF Enabled
<1> QED BY <1>0, <1>1, <1>2 DEF MaskOK

\* A construct that is no part of an UNWIND-PROTECT hides no parked transfer.
LEMMA ParkedUp ==
  ASSUME NEW S, NEW d \in Nat, NEW p, Parked(S, p, d), S.ctl[d].kind \notin {"protected", "cleanup"}
  PROVE  Parked(S, p, d + 1)
<1>1. SUFFICES ASSUME p.kind # 0 PROVE Parked(S, p, d + 1)
  BY DEF Parked
<1>2. PICK m \in 1..(d - 1) :
        /\ S.ctl[m].kind = "cleanup" /\ S.ctl[m].exit # 0 /\ Resolves(S, p, m, S.ctl[m].exit)
        /\ \A x \in (m + 1)..(d - 1) : S.ctl[x].kind \notin {"protected", "cleanup"}
  BY <1>1 DEF Parked
<1>3. m \in 1..((d + 1) - 1) /\ \A x \in (m + 1)..((d + 1) - 1) : x \in (m + 1)..(d - 1) \/ x = d
  OBVIOUS
<1> QED BY <1>2, <1>3 DEF Parked

\* A transfer parked below a stretch without a cleanup is parked at its start.
LEMMA ParkedDown ==
  ASSUME NEW S, NEW d \in Nat, NEW e \in Nat, d <= e, NEW p, Parked(S, p, e),
         \A k \in d..(e - 1) : S.ctl[k].kind # "cleanup"
  PROVE  Parked(S, p, d)
<1>1. SUFFICES ASSUME p.kind # 0 PROVE Parked(S, p, d)
  BY DEF Parked
<1>2. PICK m \in 1..(e - 1) :
        /\ S.ctl[m].kind = "cleanup" /\ S.ctl[m].exit # 0 /\ Resolves(S, p, m, S.ctl[m].exit)
        /\ \A x \in (m + 1)..(e - 1) : S.ctl[x].kind \notin {"protected", "cleanup"}
  BY <1>1 DEF Parked
<1>3. m \in 1..(d - 1)
  BY <1>2
<1>4. \A x \in (m + 1)..(d - 1) : x \in (m + 1)..(e - 1)
  OBVIOUS
<1> QED BY <1>2, <1>3, <1>4 DEF Parked

\* What is known of the top when it is not the outermost LOAD.
LEMMA TopOf ==
  ASSUME NEW S, Sound(S), NEW d, d = Len(S.ctl)
  PROVE  /\ d \in Nat /\ d \in 1..MaxDepth /\ StacksMatch(S) /\ IsStack(S.ctl) /\ ConstructOK(S, d) /\ EntriesOK(S)
         /\ MaskOK(S, S.active, d + 1) /\ Parked(S, S.pending, d + 1)
         /\ S.ctl[d].kind # "load" => d \in 2..(Len(S.ctl) + 1)
         /\ ~(S.ctl[d].kind = "signal" /\ S.ctl[d].running) => MaskOK(S, S.active, d)
         /\ S.ctl[d].kind # "cleanup" => Parked(S, S.pending, d)
<1>1. /\ d \in Nat /\ d \in 1..MaxDepth /\ StacksMatch(S) /\ IsStack(S.ctl) /\ ConstructOK(S, d) /\ EntriesOK(S)
      /\ MaskOK(S, S.active, d + 1) /\ Parked(S, S.pending, d + 1) /\ S.ctl[1].kind = "load"
  BY DEF Sound, ProgramOK, IsStack
<1>2. ~(S.ctl[d].kind = "signal" /\ S.ctl[d].running) => MaskOK(S, S.active, d)
  BY <1>1, MaskDown
<1>3. ASSUME S.ctl[d].kind # "cleanup" PROVE Parked(S, S.pending, d)
  <2>1. \A k \in d..((d + 1) - 1) : S.ctl[k].kind # "cleanup"
    BY <1>1, <1>3
  <2>2. d + 1 \in Nat /\ d <= d + 1
    BY <1>1
  <2> QED BY <1>1, <2>1, <2>2, ParkedDown
<1>4. S.ctl[d].kind # "load" => d \in 2..(Len(S.ctl) + 1)
  BY <1>1
<1> QED BY <1>1, <1>2, <1>3, <1>4

\* The stacks of a sound machine end below its top.
LEMMA TopMarks ==
  ASSUME NEW S, Sound(S), NEW e, e = Len(S.ctl) + 1
  PROVE  /\ e \in Nat /\ e \in 2..(Len(S.ctl) + 1) /\ StacksMatch(S) /\ IsStack(S.ctl) /\ Len(S.ctl) \in 1..MaxDepth
         /\ At(S.nlx, e, Len(S.nlx)) /\ At(S.handlers, e, Len(S.handlers)) /\ At(S.restarts, e, Len(S.restarts))
         /\ At(S.errs, e, Len(S.errs)) /\ At(S.mvs, e, Len(S.mvs)) /\ At(S.saved, e, Len(S.saved))
         /\ MaskOK(S, S.active, e) /\ Parked(S, S.pending, e)
<1>1. StacksMatch(S) /\ IsStack(S.ctl) /\ Len(S.ctl) \in 1..MaxDepth /\ MaskOK(S, S.active, e) /\ Parked(S, S.pending, e)
  BY DEF Sound, ProgramOK
<1>2. Len(S.ctl) \in Nat \ {0} /\ e \in Nat
  BY <1>1 DEF IsStack
<1>3. ASSUME NEW s, NEW K, Matches(s, S.ctl, K) PROVE At(s, e, Len(s))
  BY <1>2, <1>3, RestSame DEF Rest
<1> QED BY <1>1, <1>2, <1>3 DEF StacksMatch

\* A stack that a new construct leaves alone, or pushes on.
LEMMA GrownSame ==
  ASSUME NEW c, Len(c) \in Nat, NEW K, NEW s, Matches(s, c, K), NEW kind, kind \notin K
  PROVE  Grown(s, s, Len(c) + 1, kind, K)
  BY RestSame DEF Grown

\* A stack with a new entry has grown.
LEMMA GrownPush ==
  ASSUME NEW c, Len(c) \in Nat, NEW K, NEW s, Matches(s, c, K), NEW kind, kind \in K, NEW x, x.ctl = Len(c) + 1
  PROVE  Grown(s, Append(s, x), Len(c) + 1, kind, K) /\ Append(s, x)[Len(Append(s, x))] = x
<1>1. Plus(s, Append(s, x), Len(c) + 1, x)
  BY RestSame, PlusPush
<1> QED BY <1>1 DEF Grown, Plus

\* A new construct on top.
LEMMA CtlPush ==
  ASSUME NEW c, IsStack(c), NEW x
  PROVE  /\ SameBelow(c, Append(c, x), Len(c) + 1) /\ Len(Append(c, x)) = Len(c) + 1
         /\ Append(c, x)[Len(c) + 1] = x
<1>1. Len(c) \in Nat
  BY DEF IsStack
<1> QED BY <1>1, StackPush DEF SameBelow

\* The constructs below depth e.
LEMMA CtlCut ==
  ASSUME NEW c, IsStack(c), NEW e \in 1..(Len(c) + 1)
  PROVE  SameBelow(c, SubSeq(c, 1, e - 1), e) /\ Len(SubSeq(c, 1, e - 1)) = e - 1
<1>1. Len(c) \in Nat /\ e - 1 \in 0..Len(c)
  BY DEF IsStack
<1> QED BY <1>1, StackCut DEF SameBelow-----------------------------------------------------------------------------
(***************************************************************************)
(* Entering a construct.                                                   *)
(***************************************************************************)
\* S and T are the machine before and after a step.
Views(S, T) ==
  /\ S.ctl = ctl /\ S.nlx = nlx /\ S.pending = pending /\ S.saved = saved /\ S.handlers = handlers
  /\ S.active = active /\ S.restarts = restarts /\ S.errs = errs /\ S.mvs = mvs
  /\ T.ctl = ctl' /\ T.nlx = nlx' /\ T.pending = pending' /\ T.saved = saved' /\ T.handlers = handlers'
  /\ T.active = active' /\ T.restarts = restarts' /\ T.errs = errs' /\ T.mvs = mvs'

\* Nothing but the program itself has control.
Runs(S) == ~(S.ctl[Len(S.ctl)].kind = "signal" /\ ~S.ctl[Len(S.ctl)].running)

\* A catch, block, tagbody or restart-case is entered.
LEMMA PushFrameSound ==
  ASSUME NEW S, Sound(S), Runs(S), NEW T, NEW e, e = Len(S.ctl) + 1, e <= MaxDepth, NEW kind, NEW tag, NEW f,
         kind \in {"catch", "block", "tagbody", "rcase", "warn"}, T.ctl = Append(S.ctl, Context(kind, tag)),
         ConstructOK(T, e),
         LabelOK(f, Context(kind, tag)), f.ctl = e, MarksOK(S, f, e), T.nlx = Append(S.nlx, f),
         T.restarts = IF kind \in {"rcase", "warn"} THEN Append(S.restarts, [tag |-> tag, ctl |-> e]) ELSE S.restarts,
         T.pending = S.pending, T.saved = S.saved, T.handlers = S.handlers, T.active = S.active,
         T.errs = S.errs, T.mvs = S.mvs
  PROVE  Sound(T)
<1>0. /\ e \in Nat /\ e \in 2..(Len(S.ctl) + 1) /\ StacksMatch(S) /\ IsStack(S.ctl) /\ Len(S.ctl) \in 1..MaxDepth
      /\ MaskOK(S, S.active, e) /\ Parked(S, S.pending, e)
  BY TopMarks
<1>1. Len(S.ctl) \in Nat /\ Len(S.ctl) = e - 1
  BY <1>0 DEF IsStack
<1>2. SameBelow(S.ctl, T.ctl, e) /\ Len(T.ctl) = e /\ T.ctl[e] = Context(kind, tag)
  BY <1>0, CtlPush
<1>3. T.ctl[e].kind = kind /\ T.ctl[e].tag = tag
  BY <1>2 DEF Context
<1>4. Grown(S.nlx, T.nlx, e, kind, FrameKinds) /\ T.nlx[Len(T.nlx)] = f
  <2>1. kind \in FrameKinds /\ Matches(S.nlx, S.ctl, FrameKinds)
    BY <1>0 DEF StacksMatch, FrameKinds
  <2> QED BY <1>1, <2>1, GrownPush
<1>5. /\ Grown(S.handlers, T.handlers, e, kind, {"hbind", "hcase"}) /\ Grown(S.errs, T.errs, e, kind, {"load"})
      /\ Grown(S.mvs, T.mvs, e, kind, {"cleanup"}) /\ Grown(S.saved, T.saved, e, kind, {"protected", "cleanup"})
  BY <1>0, <1>1, GrownSame DEF StacksMatch
<1>7. /\ Grown(S.restarts, T.restarts, e, kind, {"rcase", "warn"})
      /\ kind \in {"rcase", "warn"} => T.restarts[Len(T.restarts)] = [tag |-> tag, ctl |-> e]
  <2>1. CASE kind \in {"rcase", "warn"}
    <3> DEFINE x == [tag |-> tag, ctl |-> e]
               K == {"rcase", "warn"}
    <3>1. x.ctl = Len(S.ctl) + 1
      OBVIOUS
    <3> HIDE DEF x, K
    <3>2. T.restarts = Append(S.restarts, x)
      BY <2>1 DEF x
    <3>3. kind \in K /\ Matches(S.restarts, S.ctl, K)
      BY <1>0, <2>1 DEF StacksMatch, K
    <3>4. Grown(S.restarts, Append(S.restarts, x), e, kind, K)
          /\ Append(S.restarts, x)[Len(Append(S.restarts, x))] = x
      BY <1>1, <3>1, <3>3, GrownPush
    <3> QED BY <3>2, <3>4 DEF x, K
  <2>2. CASE kind \notin {"rcase", "warn"}
    BY <1>0, <1>1, <2>2, GrownSame DEF StacksMatch
  <2> QED BY <2>1, <2>2
<1>8. Entered(S, T, e)
  BY <1>2, <1>3, <1>4, <1>5, <1>7 DEF Entered
<1>9. Agree(S, T, e) /\ StacksMatch(T) /\ IsStack(T.ctl)
  BY <1>0, <1>2, <1>8, EnteredAgrees DEF SameBelow
<1>10. TopEntriesOK(T, kind)
  <2>1. FrameOK(T, f)
    BY <1>0, <1>2, <1>9, MarksKept DEF FrameOK
  <2>2. kind \in {"rcase", "warn"} => T.restarts[Len(T.restarts)].tag = T.ctl[T.restarts[Len(T.restarts)].ctl].tag
    BY <1>3, <1>7
  <2> QED BY <1>4, <2>1, <2>2 DEF TopEntriesOK
<1>11. MaskOK(T, T.active, e + 1)
  <2>1. MaskOK(T, T.active, e)
    BY <1>0, <1>9, MaskKept
  <2>2. e \in 1..Len(T.ctl) /\ T.ctl[e].kind \notin {"hbind", "hcase", "signal"}
    BY <1>0, <1>2, <1>3
  <2> QED BY <1>9, <2>1, <2>2, MaskUp
<1>12. Parked(T, T.pending, e + 1)
  <2>1. Parked(T, T.pending, e)
    BY <1>0, <1>9, ParkedKept
  <2> QED BY <1>0, <1>3, <2>1, ParkedUp
<1>13. S.ctl[e - 1].kind = "signal" => S.ctl[e - 1].running
  BY <1>1 DEF Runs
<1> QED BY <1>0, <1>3, <1>8, <1>10, <1>11, <1>12, <1>13, EnteredSound

\* The marks of a new frame are those of the present tops.
LEMMA NewMarks ==
  ASSUME NEW S, Sound(S), NEW e, e = Len(S.ctl) + 1, NEW f,
         f.handler = Len(S.handlers), f.mask = S.active, f.restart = Len(S.restarts), f.err = Len(S.errs),
         f.mv = Len(S.mvs), f.pend = IF f.type = "UWPROT" THEN Len(S.saved) + 1 ELSE Len(S.saved)
  PROVE  MarksOK(S, f, e)
<1>1. Len(S.saved) \in Nat
  BY TopMarks, Depths DEF IsStack
<1> QED BY <1>1, TopMarks DEF MarksOK

\* Entering a CATCH, BLOCK, TAGBODY or RESTART-CASE.
LEMMA FramesSound ==
  ASSUME NEW S, NEW T, Views(S, T), Sound(S), NEW tag,
         \/ tag \in CatchTags /\ Catch(tag)
         \/ tag \in BlockNames /\ Block(tag)
         \/ tag \in TagbodyIds /\ Tagbody(tag)
         \/ tag \in RestartTags /\ RestartCase(tag)
  PROVE  Sound(T)
<1> DEFINE e == Len(S.ctl) + 1
<1>0. e \in Nat /\ e = Depth + 1 /\ Runs(S) /\ e <= MaxDepth
  <2>1. Len(S.ctl) \in Nat
    BY TopMarks DEF IsStack
  <2> QED BY <2>1, ExitConstants DEF Views, Catch, Block, Tagbody, RestartCase, Room, Depth, Executing, Top, Runs
<1> HIDE DEF e
<1>1. ASSUME NEW kind \in {"catch", "block", "tagbody", "rcase"}, NEW type, Push(kind, type, tag),
             kind = "catch" => type = "CATCH" /\ tag \in CatchTags,
             kind = "block" => type = "BLOCK" /\ tag \in BlockNames,
             kind = "tagbody" => type = "TAGBODY" /\ tag \in TagbodyIds,
             kind = "rcase" => type = "CATCH" /\ tag \in RestartTags,
             restarts' = IF kind = "rcase" THEN Append(restarts, [tag |-> tag, ctl |-> e]) ELSE restarts,
             UNCHANGED <<pending, saved, handlers, active, errs, mvs>>
      PROVE  Sound(T)
  <2> DEFINE f == Frame(type, tag, e, "VM")
  <2>1. T.nlx = Append(S.nlx, f) /\ T.ctl = Append(S.ctl, Context(kind, tag))
    BY <1>0, <1>1 DEF Push, Views
  <2>2. /\ f.type = type /\ f.tag = tag /\ f.ctl = e /\ f.owner = "VM" /\ f.handler = Len(S.handlers)
        /\ f.mask = S.active /\ f.restart = Len(S.restarts) /\ f.err = Len(S.errs) /\ f.pend = Len(S.saved)
        /\ f.mv = Len(S.mvs)
    BY DEF Frame, Views
  <2> HIDE DEF f
  <2>3. f.type # "UWPROT"
    BY <1>1, <2>2
  <2>4. MarksOK(S, f, e)
    BY <2>2, <2>3, NewMarks DEF e
  <2>5. LabelOK(f, Context(kind, tag))
    BY <1>1, <2>2 DEF LabelOK, Context
  <2>6. ConstructOK(T, e)
    <3>1. T.ctl[e] = Context(kind, tag)
      BY <2>1, TopMarks, CtlPush DEF e
    <3> QED BY <1>0, <1>1, <3>1 DEF ConstructOK, Context, FrameKinds
  <2>7. /\ T.restarts = IF kind = "rcase" THEN Append(S.restarts, [tag |-> tag, ctl |-> e]) ELSE S.restarts
        /\ T.pending = S.pending /\ T.saved = S.saved /\ T.handlers = S.handlers /\ T.active = S.active
        /\ T.errs = S.errs /\ T.mvs = S.mvs
    BY <1>1 DEF Views
  <2>8. T.restarts = IF kind \in {"rcase", "warn"} THEN Append(S.restarts, [tag |-> tag, ctl |-> e]) ELSE S.restarts
    BY <1>1, <2>7
  <2> QED BY <1>0, <2>1, <2>2, <2>4, <2>5, <2>6, <2>7, <2>8, PushFrameSound DEF e
<1>2. CASE tag \in CatchTags /\ Catch(tag)
  <2>1. restarts' = IF "catch" = "rcase" THEN Append(restarts, [tag |-> tag, ctl |-> e]) ELSE restarts
    BY <1>2 DEF Catch
  <2> QED BY <1>1, <1>2, <2>1 DEF Catch
<1>3. CASE tag \in BlockNames /\ Block(tag)
  <2>1. restarts' = IF "block" = "rcase" THEN Append(restarts, [tag |-> tag, ctl |-> e]) ELSE restarts
    BY <1>3 DEF Block
  <2> QED BY <1>1, <1>3, <2>1 DEF Block
<1>4. CASE tag \in TagbodyIds /\ Tagbody(tag)
  <2>1. restarts' = IF "tagbody" = "rcase" THEN Append(restarts, [tag |-> tag, ctl |-> e]) ELSE restarts
    BY <1>4 DEF Tagbody
  <2> QED BY <1>1, <1>4, <2>1 DEF Tagbody
<1>5. CASE tag \in RestartTags /\ RestartCase(tag)
  <2>1. restarts' = IF "rcase" = "rcase" THEN Append(restarts, [tag |-> tag, ctl |-> e]) ELSE restarts
    BY <1>0, <1>5 DEF RestartCase
  <2> QED BY <1>1, <1>5, <2>1 DEF RestartCase
<1> QED BY <1>2, <1>3, <1>4, <1>5

\* What a new construct of this kind does to the stacks.
LEMMA TopGrown ==
  ASSUME NEW S, Sound(S), NEW e, e = Len(S.ctl) + 1, NEW kind
  PROVE  /\ kind \notin FrameKinds => Grown(S.nlx, S.nlx, e, kind, FrameKinds)
         /\ kind \notin {"hbind", "hcase"} => Grown(S.handlers, S.handlers, e, kind, {"hbind", "hcase"})
         /\ kind \notin {"rcase", "warn"} => Grown(S.restarts, S.restarts, e, kind, {"rcase", "warn"})
         /\ kind # "load" => Grown(S.errs, S.errs, e, kind, {"load"})
         /\ kind # "cleanup" => Grown(S.mvs, S.mvs, e, kind, {"cleanup"})
         /\ kind \notin {"protected", "cleanup"} => Grown(S.saved, S.saved, e, kind, {"protected", "cleanup"})
         /\ \A x : x.ctl = e =>
              /\ kind \in FrameKinds =>
                   Grown(S.nlx, Append(S.nlx, x), e, kind, FrameKinds)
                   /\ Append(S.nlx, x)[Len(Append(S.nlx, x))] = x
              /\ kind \in {"hbind", "hcase"} =>
                   Grown(S.handlers, Append(S.handlers, x), e, kind, {"hbind", "hcase"})
                   /\ Append(S.handlers, x)[Len(Append(S.handlers, x))] = x
              /\ kind = "load" =>
                   Grown(S.errs, Append(S.errs, x), e, kind, {"load"})
                   /\ Append(S.errs, x)[Len(Append(S.errs, x))] = x
              /\ kind \in {"protected", "cleanup"} =>
                   Grown(S.saved, Append(S.saved, x), e, kind, {"protected", "cleanup"})
                   /\ Append(S.saved, x)[Len(Append(S.saved, x))] = x
<1>0. StacksMatch(S) /\ Len(S.ctl) \in Nat
  BY TopMarks DEF IsStack
<1>1. ASSUME NEW K, NEW s, Matches(s, S.ctl, K)
      PROVE  /\ kind \notin K => Grown(s, s, e, kind, K)
             /\ \A x : x.ctl = e /\ kind \in K =>
                  Grown(s, Append(s, x), e, kind, K) /\ Append(s, x)[Len(Append(s, x))] = x
  BY <1>0, <1>1, GrownSame, GrownPush
<1>2. /\ Matches(S.nlx, S.ctl, FrameKinds) /\ Matches(S.handlers, S.ctl, {"hbind", "hcase"})
      /\ Matches(S.restarts, S.ctl, {"rcase", "warn"}) /\ Matches(S.errs, S.ctl, {"load"})
      /\ Matches(S.mvs, S.ctl, {"cleanup"}) /\ Matches(S.saved, S.ctl, {"protected", "cleanup"})
  BY <1>0 DEF StacksMatch
<1>3. kind = "load" <=> kind \in {"load"}
  OBVIOUS
<1>4. kind = "cleanup" <=> kind \in {"cleanup"}
  OBVIOUS
<1> QED BY <1>1, <1>2, <1>3, <1>4

\* The program is executing, with room for one construct more.
LEMMA RoomAt ==
  ASSUME NEW S, NEW T, Views(S, T), Sound(S), Room
  PROVE  /\ Runs(S) /\ Depth + 1 = Len(S.ctl) + 1 /\ Len(S.ctl) + 1 <= MaxDepth
         /\ S.ctl[(Len(S.ctl) + 1) - 1].kind = "signal" => S.ctl[(Len(S.ctl) + 1) - 1].running
<1>1. Len(S.ctl) \in Nat
  BY TopMarks DEF IsStack
<1> QED BY <1>1, ExitConstants DEF Views, Room, Depth, Executing, Top, Runs

\* A new binding is enabled, and nothing else about the bindings changes.
LEMMA NewMask ==
  ASSUME NEW S, Sound(S), NEW T, NEW e, e = Len(S.ctl) + 1, Agree(S, T, e), StacksMatch(T), Len(T.ctl) = e,
         NEW h, h.ctl = e, T.handlers = Append(S.handlers, h), T.ctl[e].kind # "signal",
         T.active = S.active \union {Len(S.handlers) + 1}
  PROVE  MaskOK(T, T.active, e + 1)
<1>0. e \in Nat /\ StacksMatch(S) /\ IsStack(S.ctl) /\ IsStack(S.handlers) /\ Len(S.handlers) \in Nat /\ MaskOK(S, S.active, e)
  BY TopMarks, Depths DEF IsStack
<1>1. /\ Len(T.handlers) = Len(S.handlers) + 1 /\ T.handlers[Len(S.handlers) + 1] = h
      /\ \A i \in 1..Len(S.handlers) : T.handlers[i] = S.handlers[i]
  BY <1>0, StackPush
<1>2. MaskOK(T, S.active, e)
  BY <1>0, MaskKept
<1>3. SUFFICES ASSUME NEW i \in 1..Len(T.handlers)
               PROVE  i \in T.active <=> Enabled(T, T.handlers[i].ctl, e + 1)
  BY DEF MaskOK
<1>4. CASE i = Len(S.handlers) + 1
  <2>1. \A m \in (e + 1)..((e + 1) - 1) : FALSE
    BY <1>0
  <2>2. Enabled(T, e, e + 1)
    BY <2>1 DEF Enabled
  <2> QED BY <1>1, <1>4, <2>2
<1>5. CASE i \in 1..Len(S.handlers)
  <2>1. S.handlers[i].ctl \in Nat /\ S.handlers[i].ctl < e /\ T.handlers[i] = S.handlers[i]
    BY <1>0, <1>1, <1>5, TopMarks, Depths DEF At
  <2>2. Enabled(T, T.handlers[i].ctl, e) <=> Enabled(T, T.handlers[i].ctl, e + 1)
    BY <1>0, <2>1 DEF Enabled
  <2>3. i \in S.active <=> Enabled(T, T.handlers[i].ctl, e)
    BY <1>2, <2>1 DEF MaskOK
  <2>4. i # Len(S.handlers) + 1
    BY <1>0, <1>5
  <2> QED BY <2>2, <2>3, <2>4
<1> QED BY <1>0, <1>1, <1>4, <1>5

\* The clause that HANDLER-BIND pushes belongs to a form that starts with it, or
\* to the form of the clause on top.
StartsOrGoesOn(S, f) ==
  f = Len(S.ctl) + 1 \/ (S.ctl[Len(S.ctl)].kind = "hbind" /\ f = S.ctl[Len(S.ctl)].of)

\* Pushing a clause of HANDLER-BIND: its binding is enabled.
LEMMA PushClauseSound ==
  ASSUME NEW S, NEW T, Views(S, T), Sound(S), NEW f, PushClause(f), StartsOrGoesOn(S, f)
  PROVE  Sound(T)
<1> DEFINE e == Len(S.ctl) + 1
           h == [frame |-> 0, ctl |-> e]
<1>1. /\ Runs(S) /\ Depth + 1 = e /\ e <= MaxDepth
      /\ S.ctl[e - 1].kind = "signal" => S.ctl[e - 1].running
  BY RoomAt DEF PushClause
<1>2. /\ e \in Nat /\ e \in 2..(Len(S.ctl) + 1) /\ StacksMatch(S) /\ IsStack(S.ctl) /\ Parked(S, S.pending, e)
  BY TopMarks
<1>3. /\ T.handlers = Append(S.handlers, h) /\ T.active = S.active \union {Len(S.handlers) + 1}
      /\ T.ctl = Append(S.ctl, Binding(f))
      /\ T.nlx = S.nlx /\ T.pending = S.pending /\ T.saved = S.saved /\ T.restarts = S.restarts
      /\ T.errs = S.errs /\ T.mvs = S.mvs
  BY <1>1 DEF PushClause, PushHandler, Views
<1>4. h.ctl = e /\ h.frame = 0 /\ e = Len(S.ctl) + 1
  OBVIOUS
<1> HIDE DEF e, h
<1>5. SameBelow(S.ctl, T.ctl, e) /\ Len(T.ctl) = e /\ T.ctl[e] = Binding(f)
  BY <1>2, <1>3, <1>4, CtlPush
<1>6. T.ctl[e].kind = "hbind"
  BY <1>5 DEF Binding, Context
<1>7. T.handlers[Len(T.handlers)] = h /\ Entered(S, T, e)
  <2>1. "hbind" \notin FrameKinds /\ "hbind" \in {"hbind", "hcase"} /\ "hbind" \notin {"rcase", "warn"}
        /\ "hbind" \notin {"protected", "cleanup"}
    BY DEF FrameKinds
  <2>2. Grown(S.handlers, T.handlers, e, "hbind", {"hbind", "hcase"}) /\ T.handlers[Len(T.handlers)] = h
    BY <1>3, <1>4, <2>1, TopGrown
  <2>3. /\ Grown(S.nlx, T.nlx, e, "hbind", FrameKinds) /\ Grown(S.restarts, T.restarts, e, "hbind", {"rcase", "warn"})
        /\ Grown(S.errs, T.errs, e, "hbind", {"load"}) /\ Grown(S.mvs, T.mvs, e, "hbind", {"cleanup"})
        /\ Grown(S.saved, T.saved, e, "hbind", {"protected", "cleanup"})
    BY <1>3, <1>4, <2>1, TopGrown
  <2> QED BY <1>5, <1>6, <2>2, <2>3 DEF Entered
<1>8. Agree(S, T, e) /\ StacksMatch(T) /\ IsStack(T.ctl)
  BY <1>2, <1>5, <1>7, EnteredAgrees DEF SameBelow
<1>9. TopEntriesOK(T, "hbind")
  BY <1>4, <1>6, <1>7 DEF TopEntriesOK, HandlerOK, FrameKinds
<1>10. ConstructOK(T, e)
  <2>1. T.ctl[e] = [kind |-> "hbind", tag |-> 0, exit |-> 0, of |-> f, running |-> FALSE,
                    what |-> "none", at |-> 0, mask |-> {}]
    BY <1>5 DEF Binding, Context
  <2>2. /\ IsStack(S.handlers) /\ Len(S.handlers) \in Nat /\ Len(T.handlers) = Len(S.handlers) + 1
        /\ IsStack(T.handlers)
    <3>1. IsStack(S.handlers)
      BY <1>2, Depths
    <3>2. IsStack(T.handlers) /\ Len(T.handlers) = Len(S.handlers) + 1
      BY <1>3, <3>1, StackPush
    <3> QED BY <3>1, <3>2 DEF IsStack
  <2>3. /\ Matches(T.handlers, T.ctl, {"hbind", "hcase"}) /\ Matches(S.handlers, S.ctl, {"hbind", "hcase"})
        /\ Len(T.ctl) \in Nat
    BY <1>2, <1>5, <1>8 DEF StacksMatch
  <2>4. \A i \in 1..Len(T.handlers) : T.handlers[i].ctl = e => i = Len(T.handlers)
    <3>1. Len(T.handlers) \in 1..Len(T.handlers) /\ T.handlers[Len(T.handlers)].ctl = e
      BY <1>4, <1>7, <2>2
    <3>2. ASSUME NEW i \in 1..Len(T.handlers), T.handlers[i].ctl = e, i # Len(T.handlers) PROVE FALSE
      <4>1. i < Len(T.handlers)
        BY <2>2, <3>2
      <4>2. T.handlers[i].ctl < T.handlers[Len(T.handlers)].ctl
        BY <2>3, <3>1, <4>1 DEF Matches
      <4> QED BY <1>2, <3>1, <3>2, <4>2
    <3> QED BY <3>2
  <2>5. f \in 2..e /\ (\A m \in f..e : T.ctl[m].kind = "hbind") /\ At(T.handlers, f, Len(T.handlers) - (e - f + 1))
    <3>1. CASE f = e
      <4>1. Len(T.handlers) \in 1..Len(T.handlers) /\ T.handlers[Len(T.handlers)].ctl = e
        BY <1>4, <1>7, <2>2
      <4>2. At(T.handlers, e, Len(T.handlers) - 1)
        BY <2>3, <4>1, AtEntry
      <4>3. \A m \in f..e : m = e
        BY <1>2, <3>1
      <4>4. Len(T.handlers) - (e - f + 1) = Len(T.handlers) - 1 /\ f \in 2..e
        BY <1>2, <2>2, <3>1
      <4> QED BY <1>6, <3>1, <4>2, <4>3, <4>4
    <3>2. CASE f # e
      <4>1. PICK d : d = Len(S.ctl)
        OBVIOUS
      <4>2. S.ctl[d].kind = "hbind" /\ f = S.ctl[d].of /\ d \in Nat \ {0} /\ e = d + 1
        BY <1>2, <1>4, <3>2, <4>1 DEF StartsOrGoesOn, IsStack
      <4>3. ClauseOK(S, d)
        BY <4>1, <4>2, TopOf DEF ConstructOK
      <4>4. /\ f \in 2..d /\ \A m \in f..d : S.ctl[m].kind = "hbind"
            /\ \A i \in 1..Len(S.handlers) : S.handlers[i].ctl = d => At(S.handlers, f, i - (d - f + 1))
        BY <4>2, <4>3 DEF ClauseOK
      <4>5. Len(S.handlers) >= 1 /\ S.handlers[Len(S.handlers)].ctl = d
        BY <2>3, <4>1, <4>2, TopEntry
      <4>6. PICK n : n = Len(S.handlers) - (d - f + 1)
        OBVIOUS
      <4>7. At(S.handlers, f, n)
        BY <2>2, <4>4, <4>5, <4>6
      <4>8. f \in Nat /\ f <= e
        BY <4>2, <4>4
      <4>9. At(T.handlers, f, n)
        BY <1>2, <1>8, <4>7, <4>8, AllAtKept
      <4>10. Len(T.handlers) - (e - f + 1) = n /\ f \in 2..e
        <5>1. PICK l : l = Len(S.handlers)
          OBVIOUS
        <5>2. l \in Nat /\ Len(T.handlers) = l + 1 /\ n = l - (d - f + 1) /\ f \in Nat
          BY <2>2, <4>6, <4>8, <5>1
        <5>3. PICK y : y = Len(T.handlers)
          OBVIOUS
        <5>4. PICK z : z = e
          OBVIOUS
        <5>5. l \in Int /\ d \in Int /\ f \in Int /\ y = l + 1 /\ z = d + 1 /\ n = l - (d - f + 1)
          BY <4>2, <5>2, <5>3, <5>4
        <5>6. y - (z - f + 1) = n
          BY ONLY <5>5
        <5>7. Len(T.handlers) - (e - f + 1) = n
          BY <5>3, <5>4, <5>6
        <5>8. f \in 2..e
          BY <4>2, <4>4
        <5> QED BY <5>7, <5>8
      <4>11. ASSUME NEW m \in f..e PROVE T.ctl[m].kind = "hbind"
        <5>1. CASE m = e
          BY <1>6, <5>1
        <5>2. CASE m # e
          <6>1. m \in f..d /\ m \in 1..(e - 1)
            BY <4>2, <4>4, <5>2
          <6> QED BY <1>5, <4>4, <6>1 DEF SameBelow
        <5> QED BY <5>1, <5>2
      <4> QED BY <4>9, <4>10, <4>11
    <3> QED BY <3>1, <3>2
  <2>6. ClauseOK(T, e)
    BY <2>1, <2>4, <2>5 DEF ClauseOK
  <2>7. e \in Nat
    BY <1>2
  <2> QED BY <2>1, <2>6, <2>7 DEF ConstructOK, FrameKinds

<1>11. MaskOK(T, T.active, e + 1)
  BY <1>3, <1>4, <1>5, <1>6, <1>8, NewMask
<1>12. Parked(T, T.pending, e + 1)
  <2>1. Parked(T, T.pending, e)
    BY <1>2, <1>3, <1>8, ParkedKept
  <2> QED BY <1>2, <1>6, <2>1, ParkedUp
<1> QED BY <1>1, <1>2, <1>6, <1>7, <1>9, <1>10, <1>11, <1>12, EnteredSound

\* Entering a HANDLER-BIND, or going on with its next clause.
LEMMA HandlerBindSound ==
  ASSUME NEW S, NEW T, Views(S, T), Sound(S), HandlerBind \/ HandlerClause
  PROVE  Sound(T)
<1>1. PICK f : PushClause(f) /\ StartsOrGoesOn(S, f)
  BY DEF HandlerBind, HandlerClause, StartsOrGoesOn, Top, Depth, Views
<1> QED BY <1>1, PushClauseSound

\* Entering a HANDLER-CASE: its binding names the frame pushed with it.
LEMMA HandlerCaseSound ==
  ASSUME NEW S, NEW T, Views(S, T), Sound(S), HandlerCase
  PROVE  Sound(T)
<1> DEFINE e == Len(S.ctl) + 1
           h == [frame |-> Len(nlx) + 1, ctl |-> e]
           f == Frame("HANDLER_CASE", 0, e, "VM")
<1>1. /\ Runs(S) /\ Depth + 1 = e /\ e <= MaxDepth
      /\ S.ctl[e - 1].kind = "signal" => S.ctl[e - 1].running
  BY RoomAt DEF HandlerCase
<1>2. /\ e \in Nat /\ e \in 2..(Len(S.ctl) + 1) /\ StacksMatch(S) /\ IsStack(S.ctl) /\ Parked(S, S.pending, e)
  BY TopMarks
<1>3. /\ T.handlers = Append(S.handlers, h) /\ T.active = S.active \union {Len(S.handlers) + 1}
      /\ T.ctl = Append(S.ctl, Context("hcase", 0)) /\ T.nlx = Append(S.nlx, f)
      /\ T.pending = S.pending /\ T.saved = S.saved /\ T.restarts = S.restarts
      /\ T.errs = S.errs /\ T.mvs = S.mvs
  BY <1>1 DEF HandlerCase, PushHandler, Push, Views
<1>4. h.ctl = e /\ h.frame = Len(S.nlx) + 1 /\ e = Len(S.ctl) + 1
  BY DEF Views
<1>5. /\ f.type = "HANDLER_CASE" /\ f.tag = 0 /\ f.ctl = e /\ f.owner = "VM" /\ f.handler = Len(S.handlers)
      /\ f.mask = S.active /\ f.restart = Len(S.restarts) /\ f.err = Len(S.errs) /\ f.pend = Len(S.saved)
      /\ f.mv = Len(S.mvs)
  BY DEF Frame, Views
<1> HIDE DEF e, h, f
<1>6. SameBelow(S.ctl, T.ctl, e) /\ Len(T.ctl) = e /\ T.ctl[e] = Context("hcase", 0)
  BY <1>2, <1>3, <1>4, CtlPush
<1>7. T.ctl[e].kind = "hcase" /\ T.ctl[e].tag = 0
  BY <1>6 DEF Context
<1>8. T.handlers[Len(T.handlers)] = h /\ T.nlx[Len(T.nlx)] = f /\ Entered(S, T, e)
  <2>1. "hcase" \in FrameKinds /\ "hcase" \in {"hbind", "hcase"} /\ "hcase" \notin {"rcase", "warn"}
        /\ "hcase" \notin {"protected", "cleanup"}
    BY DEF FrameKinds
  <2>2. Grown(S.handlers, T.handlers, e, "hcase", {"hbind", "hcase"}) /\ T.handlers[Len(T.handlers)] = h
    BY <1>3, <1>4, <2>1, TopGrown
  <2>3. Grown(S.nlx, T.nlx, e, "hcase", FrameKinds) /\ T.nlx[Len(T.nlx)] = f
    BY <1>3, <1>4, <1>5, <2>1, TopGrown
  <2>4. /\ Grown(S.restarts, T.restarts, e, "hcase", {"rcase", "warn"})
        /\ Grown(S.errs, T.errs, e, "hcase", {"load"}) /\ Grown(S.mvs, T.mvs, e, "hcase", {"cleanup"})
        /\ Grown(S.saved, T.saved, e, "hcase", {"protected", "cleanup"})
    BY <1>3, <1>4, <2>1, TopGrown
  <2> QED BY <1>6, <1>7, <2>2, <2>3, <2>4 DEF Entered
<1>9. Agree(S, T, e) /\ StacksMatch(T) /\ IsStack(T.ctl)
  BY <1>2, <1>6, <1>8, EnteredAgrees DEF SameBelow
<1>10. TopEntriesOK(T, "hcase")
  <2>1. MarksOK(T, f, e)
    <3>1. MarksOK(S, f, e)
      BY <1>4, <1>5, NewMarks
    <3> QED BY <1>2, <1>9, <3>1, MarksKept
  <2>2. FrameOK(T, f)
    BY <1>5, <1>7, <2>1 DEF FrameOK, LabelOK
  <2>3. HandlerOK(T, h)
    <3>1. Len(T.nlx) = Len(S.nlx) + 1 /\ Len(S.nlx) \in Nat
      BY <1>2, <1>3, Depths, StackPush DEF IsStack
    <3> QED BY <1>4, <1>5, <1>7, <1>8, <3>1 DEF HandlerOK
  <2> QED BY <1>8, <2>2, <2>3 DEF TopEntriesOK
<1>11. ConstructOK(T, e)
  BY <1>6 DEF ConstructOK, Context, FrameKinds
<1>12. MaskOK(T, T.active, e + 1)
  BY <1>3, <1>4, <1>6, <1>7, <1>9, NewMask
<1>13. Parked(T, T.pending, e + 1)
  <2>1. Parked(T, T.pending, e)
    BY <1>2, <1>3, <1>9, ParkedKept
  <2> QED BY <1>2, <1>7, <2>1, ParkedUp
<1> QED BY <1>1, <1>2, <1>7, <1>8, <1>10, <1>11, <1>12, <1>13, EnteredSound

\* Entering an UNWIND-PROTECT parks the pending transfer in a new record.
LEMMA UnwindProtectSound ==
  ASSUME NEW S, NEW T, Views(S, T), Sound(S), UnwindProtect
  PROVE  Sound(T)
<1> DEFINE e == Len(S.ctl) + 1
           r == [pend |-> pending, entered |-> FALSE, ctl |-> e]
           f == [Frame("UWPROT", 0, e, "VM") EXCEPT !.pend = @ + 1]
<1>1. /\ Runs(S) /\ Depth + 1 = e /\ e <= MaxDepth
      /\ S.ctl[e - 1].kind = "signal" => S.ctl[e - 1].running
  BY RoomAt DEF UnwindProtect
<1>2. /\ e \in Nat /\ e \in 2..(Len(S.ctl) + 1) /\ StacksMatch(S) /\ IsStack(S.ctl) /\ Parked(S, S.pending, e)
      /\ MaskOK(S, S.active, e)
  BY TopMarks
<1>3. /\ T.ctl = Append(S.ctl, Context("protected", 0)) /\ T.nlx = Append(S.nlx, f)
      /\ T.saved = Append(S.saved, r) /\ T.pending = NoThrow
      /\ T.handlers = S.handlers /\ T.active = S.active /\ T.restarts = S.restarts
      /\ T.errs = S.errs /\ T.mvs = S.mvs
  BY <1>1 DEF UnwindProtect, Views
<1>4. /\ r.ctl = e /\ r.pend = S.pending /\ r.entered = FALSE /\ e = Len(S.ctl) + 1
      /\ r = [pend |-> r.pend, entered |-> r.entered, ctl |-> r.ctl]
  BY DEF Views
<1>5. /\ f.type = "UWPROT" /\ f.tag = 0 /\ f.ctl = e /\ f.owner = "VM" /\ f.handler = Len(S.handlers)
      /\ f.mask = S.active /\ f.restart = Len(S.restarts) /\ f.err = Len(S.errs) /\ f.pend = Len(S.saved) + 1
      /\ f.mv = Len(S.mvs)
  BY DEF Frame, Views
<1> HIDE DEF e, r, f
<1>6. SameBelow(S.ctl, T.ctl, e) /\ Len(T.ctl) = e /\ T.ctl[e] = Context("protected", 0)
  BY <1>2, <1>3, <1>4, CtlPush
<1>7. T.ctl[e].kind = "protected" /\ T.ctl[e].tag = 0 /\ T.ctl[e].exit = 0
  BY <1>6 DEF Context
<1>8. T.saved[Len(T.saved)] = r /\ T.nlx[Len(T.nlx)] = f /\ Entered(S, T, e)
  <2>1. "protected" \in FrameKinds /\ "protected" \notin {"hbind", "hcase"} /\ "protected" \notin {"rcase", "warn"}
        /\ "protected" \in {"protected", "cleanup"}
    BY DEF FrameKinds
  <2>2. Grown(S.saved, T.saved, e, "protected", {"protected", "cleanup"}) /\ T.saved[Len(T.saved)] = r
    BY <1>3, <1>4, <2>1, TopGrown
  <2>3. Grown(S.nlx, T.nlx, e, "protected", FrameKinds) /\ T.nlx[Len(T.nlx)] = f
    BY <1>3, <1>4, <1>5, <2>1, TopGrown
  <2>4. /\ Grown(S.restarts, T.restarts, e, "protected", {"rcase", "warn"})
        /\ Grown(S.errs, T.errs, e, "protected", {"load"}) /\ Grown(S.mvs, T.mvs, e, "protected", {"cleanup"})
        /\ Grown(S.handlers, T.handlers, e, "protected", {"hbind", "hcase"})
    BY <1>3, <1>4, <2>1, TopGrown
  <2> QED BY <1>6, <1>7, <2>2, <2>3, <2>4 DEF Entered
<1>9. Agree(S, T, e) /\ StacksMatch(T) /\ IsStack(T.ctl)
  BY <1>2, <1>6, <1>8, EnteredAgrees DEF SameBelow
<1>10. TopEntriesOK(T, "protected")
  <2>1. MarksOK(T, f, e)
    <3>1. MarksOK(S, f, e)
      BY <1>4, <1>5, NewMarks
    <3> QED BY <1>2, <1>9, <3>1, MarksKept
  <2>2. FrameOK(T, f)
    BY <1>5, <1>7, <2>1 DEF FrameOK, LabelOK
  <2>3. RecordOK(T, r)
    <3>1. Parked(T, r.pend, e)
      BY <1>2, <1>4, <1>9, ParkedKept
    <3> QED BY <1>4, <1>7, <3>1 DEF RecordOK
  <2> QED BY <1>8, <2>2, <2>3 DEF TopEntriesOK
<1>11. ConstructOK(T, e)
  BY <1>6 DEF ConstructOK, Context, FrameKinds
<1>12. MaskOK(T, T.active, e + 1)
  <2>1. MaskOK(T, T.active, e)
    BY <1>2, <1>3, <1>9, MaskKept
  <2>2. e \in 1..Len(T.ctl) /\ T.ctl[e].kind \notin {"hbind", "hcase", "signal"}
    BY <1>2, <1>6, <1>7
  <2> QED BY <1>9, <2>1, <2>2, MaskUp
<1>13. Parked(T, T.pending, e + 1)
  BY <1>3 DEF Parked, NoThrow
<1> QED BY <1>1, <1>2, <1>7, <1>8, <1>10, <1>11, <1>12, <1>13, EnteredSound

\* LOAD pushes an error frame: no protected form is around it.
LEMMA LoadSound ==
  ASSUME NEW S, NEW T, Views(S, T), Sound(S), Served, Load
  PROVE  Sound(T)
<1> DEFINE e == Len(S.ctl) + 1
           f == ErrorFrame(e)
<1>1. /\ Runs(S) /\ Depth + 1 = e /\ e <= MaxDepth
      /\ S.ctl[e - 1].kind = "signal" => S.ctl[e - 1].running
  BY RoomAt DEF Load
<1>2. /\ e \in Nat /\ e \in 2..(Len(S.ctl) + 1) /\ StacksMatch(S) /\ IsStack(S.ctl) /\ Parked(S, S.pending, e)
      /\ MaskOK(S, S.active, e)
  BY TopMarks
<1>3. /\ T.ctl = Append(S.ctl, Context("load", 0)) /\ T.errs = Append(S.errs, f)
      /\ T.saved = S.saved /\ T.pending = S.pending
      /\ T.handlers = S.handlers /\ T.active = S.active /\ T.restarts = S.restarts
      /\ T.nlx = S.nlx /\ T.mvs = S.mvs
  BY <1>1 DEF Load, Views
<1>4. \A k \in 1..(e - 1) : S.ctl[k].kind # "protected"
  <2>1. "protect" \notin Shapes
    BY DEF Served
  <2>2. DOMAIN ctl = 1..(e - 1)
    BY <1>2, StackSeq DEF Views
  <2> QED BY <2>1, <2>2 DEF Load, Protected, Views
<1>5. /\ f.ctl = e /\ f.handler = Len(S.handlers) /\ f.mask = S.active /\ f.restart = Len(S.restarts)
      /\ f.nlx = Len(S.nlx) /\ f.mv = Len(S.mvs) /\ e = Len(S.ctl) + 1
  BY DEF ErrorFrame, Views
<1> HIDE DEF e, f
<1>6. SameBelow(S.ctl, T.ctl, e) /\ Len(T.ctl) = e /\ T.ctl[e] = Context("load", 0)
  BY <1>2, <1>3, <1>5, CtlPush
<1>7. T.ctl[e].kind = "load"
  BY <1>6 DEF Context
<1>8. T.errs[Len(T.errs)] = f /\ Entered(S, T, e)
  <2>1. "load" \notin FrameKinds /\ "load" \notin {"hbind", "hcase"} /\ "load" \notin {"rcase", "warn"}
        /\ "load" \notin {"protected", "cleanup"}
    BY DEF FrameKinds
  <2>2. Grown(S.errs, T.errs, e, "load", {"load"}) /\ T.errs[Len(T.errs)] = f
    BY <1>3, <1>5, <2>1, TopGrown
  <2>3. /\ Grown(S.restarts, T.restarts, e, "load", {"rcase", "warn"})
        /\ Grown(S.nlx, T.nlx, e, "load", FrameKinds) /\ Grown(S.mvs, T.mvs, e, "load", {"cleanup"})
        /\ Grown(S.handlers, T.handlers, e, "load", {"hbind", "hcase"})
        /\ Grown(S.saved, T.saved, e, "load", {"protected", "cleanup"})
    BY <1>3, <1>5, <2>1, TopGrown
  <2> QED BY <1>6, <1>7, <2>2, <2>3 DEF Entered
<1>9. Agree(S, T, e) /\ StacksMatch(T) /\ IsStack(T.ctl)
  BY <1>2, <1>6, <1>8, EnteredAgrees DEF SameBelow
<1>10. TopEntriesOK(T, "load")
  <2>1. ErrorFrameOK(T, f)
    <3>1. MaskOK(T, f.mask, e)
      BY <1>2, <1>5, <1>9, MaskKept
    <3>2. /\ At(T.nlx, e, f.nlx) /\ At(T.handlers, e, f.handler) /\ At(T.restarts, e, f.restart)
          /\ At(T.mvs, e, f.mv)
      BY <1>3, <1>5, TopMarks
    <3> QED BY <1>5, <3>1, <3>2 DEF ErrorFrameOK
  <2> QED BY <1>8, <2>1 DEF TopEntriesOK, FrameKinds
<1>11. ConstructOK(T, e)
  <2>1. \A m \in 1..(e - 1) : T.ctl[m].kind # "protected"
    BY <1>4, <1>6 DEF SameBelow
  <2> QED BY <1>6, <2>1 DEF ConstructOK, Context, FrameKinds
<1>12. MaskOK(T, T.active, e + 1)
  <2>1. MaskOK(T, T.active, e)
    BY <1>2, <1>3, <1>9, MaskKept
  <2>2. e \in 1..Len(T.ctl) /\ T.ctl[e].kind \notin {"hbind", "hcase", "signal"}
    BY <1>2, <1>6, <1>7
  <2> QED BY <1>9, <2>1, <2>2, MaskUp
<1>13. Parked(T, T.pending, e + 1)
  <2>1. Parked(T, T.pending, e)
    BY <1>2, <1>3, <1>9, ParkedKept
  <2> QED BY <1>2, <1>7, <2>1, ParkedUp
<1> QED BY <1>1, <1>2, <1>7, <1>8, <1>10, <1>11, <1>12, <1>13, EnteredSound

\* The innermost LOAD owns the error frame on top.
LEMMA LastLoad ==
  ASSUME NEW S, Sound(S)
  PROVE  /\ Len(S.errs) \in Nat /\ Len(S.errs) >= 1
         /\ S.errs[Len(S.errs)].ctl \in 1..Len(S.ctl) /\ S.ctl[S.errs[Len(S.errs)].ctl].kind = "load"
         /\ \A k \in (S.errs[Len(S.errs)].ctl + 1)..Len(S.ctl) : S.ctl[k].kind # "load"
         /\ Len(S.errs) > 1 <=> S.errs[Len(S.errs)].ctl > 1
<1>1. Matches(S.errs, S.ctl, {"load"}) /\ Len(S.ctl) \in Nat \ {0} /\ S.ctl[1].kind = "load"
  BY DEF Sound, StacksMatch, ProgramOK, IsStack
<1>2. Len(S.errs) \in Nat
  BY <1>1 DEF Matches, IsStack
<1>3. PICK j \in 1..Len(S.errs) : S.errs[j].ctl = 1
  BY <1>1 DEF Matches
<1>4. ASSUME NEW k \in 1..Len(S.ctl), S.ctl[k].kind = "load" PROVE k <= S.errs[Len(S.errs)].ctl
  <2>1. PICK i \in 1..Len(S.errs) : S.errs[i].ctl = k
    BY <1>1, <1>4 DEF Matches
  <2>2. S.errs[Len(S.errs)].ctl \in Nat
    BY <1>1, <1>2, <1>3 DEF Matches
  <2> QED BY <1>1, <1>2, <2>1, <2>2 DEF Matches
<1>5. S.errs[Len(S.errs)].ctl \in 1..Len(S.ctl) /\ S.ctl[S.errs[Len(S.errs)].ctl].kind = "load"
  BY <1>1, <1>2, <1>3 DEF Matches
<1>6. ASSUME Len(S.errs) > 1 PROVE S.errs[Len(S.errs)].ctl > 1
  <2>1. S.errs[1].ctl \in 1..Len(S.ctl) /\ S.errs[1].ctl < S.errs[Len(S.errs)].ctl
    BY <1>1, <1>2, <1>6 DEF Matches
  <2> QED BY <1>5, <2>1
<1>7. ASSUME ~(Len(S.errs) > 1) PROVE ~(S.errs[Len(S.errs)].ctl > 1)
  BY <1>2, <1>3, <1>7
<1>8. \A k \in (S.errs[Len(S.errs)].ctl + 1)..Len(S.ctl) : S.ctl[k].kind # "load"
  BY <1>1, <1>4, <1>5
<1> QED BY <1>2, <1>3, <1>5, <1>6, <1>7, <1>8

\* A condition is signalled.
LEMMA SearchSound ==
  ASSUME NEW S, Sound(S), Runs(S), NEW T, NEW e, e = Len(S.ctl) + 1, e <= MaxDepth, NEW what \in {"signal", "warn", "error"},
         T.ctl = Append(S.ctl, Searching(what, Len(S.handlers))),
         what = "warn" => S.ctl[Len(S.ctl)].kind = "warn",
         what = "error" => NoCleanup(S, e),
         T.nlx = S.nlx, T.pending = S.pending, T.saved = S.saved, T.handlers = S.handlers, T.active = S.active,
         T.restarts = S.restarts, T.errs = S.errs, T.mvs = S.mvs
  PROVE  Sound(T)
<1>0. /\ e \in Nat /\ e \in 2..(Len(S.ctl) + 1) /\ StacksMatch(S) /\ IsStack(S.ctl) /\ Len(S.ctl) \in Nat
      /\ MaskOK(S, S.active, e) /\ Parked(S, S.pending, e)
  BY TopMarks DEF IsStack
<1>1. SameBelow(S.ctl, T.ctl, e) /\ Len(T.ctl) = e /\ T.ctl[e] = Searching(what, Len(S.handlers))
  BY <1>0, CtlPush
<1>2. /\ T.ctl[e].kind = "signal" /\ T.ctl[e].what = what /\ T.ctl[e].running = FALSE /\ T.ctl[e].exit = 0
      /\ T.ctl[e].at = Len(S.handlers) + 1 /\ T.ctl[e].of = MaxDepth + 1
  BY <1>1 DEF Searching, Context
<1>3. Entered(S, T, e)
  <2>1. "signal" \notin FrameKinds /\ "signal" \notin {"hbind", "hcase"} /\ "signal" \notin {"rcase", "warn"}
        /\ "signal" \notin {"protected", "cleanup"}
    BY DEF FrameKinds
  <2>3. /\ Grown(S.nlx, T.nlx, e, "signal", FrameKinds) /\ Grown(S.restarts, T.restarts, e, "signal", {"rcase", "warn"})
        /\ Grown(S.errs, T.errs, e, "signal", {"load"}) /\ Grown(S.mvs, T.mvs, e, "signal", {"cleanup"})
        /\ Grown(S.handlers, T.handlers, e, "signal", {"hbind", "hcase"})
        /\ Grown(S.saved, T.saved, e, "signal", {"protected", "cleanup"})
    BY <2>1, TopGrown
  <2> QED BY <1>1, <1>2, <2>3 DEF Entered
<1>4. Agree(S, T, e) /\ StacksMatch(T) /\ IsStack(T.ctl)
  BY <1>0, <1>1, <1>3, EnteredAgrees DEF SameBelow
<1>5. TopEntriesOK(T, "signal")
  BY DEF TopEntriesOK, FrameKinds
<1>6. \A m \in 1..(e - 1) : T.ctl[m] = S.ctl[m]
  BY <1>1 DEF SameBelow
<1>7. what = "error" => NoCleanup(T, e)
  <2>1. \A t \in 2..(e - 1) : t \in 1..(e - 1) /\ \A m \in (t + 1)..(e - 1) : m \in 1..(e - 1)
    BY <1>0
  <2> QED BY <1>6, <2>1 DEF NoCleanup
<1>8. SignalOK(T, e)
  <2>1. ASSUME NEW i \in 1..Len(T.handlers) PROVE i < T.ctl[e].at /\ T.handlers[i].ctl < T.ctl[e].of
    <3>1. At(S.handlers, e, Len(S.handlers)) /\ IsStack(S.handlers) /\ S.handlers[i].ctl \in Nat
      BY <1>0, TopMarks, Depths
    <3>2. T.handlers[i].ctl < e /\ Len(S.handlers) \in Nat
      BY <3>1 DEF At, IsStack
    <3> QED BY <1>0, <1>2, <3>1, <3>2, ExitConstants
  <2>2. what = "warn" => e > 1 /\ T.ctl[e - 1].kind = "warn"
    BY <1>0, <1>6
  <2> QED BY <1>2, <1>7, <2>1, <2>2 DEF SignalOK
<1>9. ConstructOK(T, e)
  <2>1. T.ctl[e] = [kind |-> T.ctl[e].kind, tag |-> T.ctl[e].tag, exit |-> T.ctl[e].exit, of |-> T.ctl[e].of,
                    running |-> T.ctl[e].running, what |-> T.ctl[e].what, at |-> T.ctl[e].at, mask |-> T.ctl[e].mask]
    BY <1>1 DEF Searching, Context
  <2> QED BY <1>2, <1>8, <2>1 DEF ConstructOK, FrameKinds
<1>10. MaskOK(T, T.active, e + 1)
  <2>1. MaskOK(T, T.active, e)
    BY <1>0, <1>4, MaskKept
  <2>2. e \in 1..Len(T.ctl) /\ T.ctl[e].kind \notin {"hbind", "hcase"}
    BY <1>0, <1>1, <1>2
  <2> QED BY <1>2, <1>4, <2>1, <2>2, MaskUp
<1>11. Parked(T, T.pending, e + 1)
  <2>1. Parked(T, T.pending, e)
    BY <1>0, <1>4, ParkedKept
  <2> QED BY <1>0, <1>2, <2>1, ParkedUp
<1>12. S.ctl[e - 1].kind = "signal" => S.ctl[e - 1].running
  <2>1. e - 1 = Len(S.ctl)
    BY <1>0
  <2> QED BY <2>1 DEF Runs
<1> QED BY <1>0, <1>2, <1>3, <1>5, <1>9, <1>10, <1>11, <1>12, EnteredSound

\* ERROR is not called by a cleanup form inside the innermost LOAD.
LEMMA RaiseSound ==
  ASSUME NEW S, NEW T, Views(S, T), Sound(S), Served, NEW what \in {"signal", "error"}, Raise(what)
  PROVE  Sound(T)
<1> DEFINE e == Len(S.ctl) + 1
<1>1. Runs(S) /\ e <= MaxDepth
  BY RoomAt DEF Raise
<1>2. e \in Nat /\ Len(S.ctl) \in Nat /\ Len(S.ctl) = e - 1
  BY TopMarks DEF IsStack
<1>3. /\ T.ctl = Append(S.ctl, Searching(what, Len(S.handlers)))
      /\ T.nlx = S.nlx /\ T.pending = S.pending /\ T.saved = S.saved /\ T.handlers = S.handlers
      /\ T.active = S.active /\ T.restarts = S.restarts /\ T.errs = S.errs /\ T.mvs = S.mvs
  BY DEF Raise, Views
<1>4. ASSUME what = "error" PROVE NoCleanup(S, e)
  <2>1. SUFFICES ASSUME NEW t \in 2..(e - 1), S.ctl[t].kind = "load",
                        \A m \in (t + 1)..(e - 1) : S.ctl[m].kind # "load"
                 PROVE  \A m \in (t + 1)..(e - 1) : S.ctl[m].kind # "cleanup"
    BY DEF NoCleanup
  <2> DEFINE last == S.errs[Len(S.errs)].ctl
  <2>2. /\ Len(S.errs) > 1 <=> last > 1
        /\ last \in 1..Len(S.ctl)
        /\ S.ctl[last].kind = "load" /\ \A k \in (last + 1)..Len(S.ctl) : S.ctl[k].kind # "load"
    BY LastLoad
  <2> HIDE DEF last
  <2>3. last = t
    BY <1>2, <2>1, <2>2
  <2>4. Len(S.errs) > 1
    BY <1>2, <2>2, <2>3
  <2>5. "escape" \notin Shapes
    BY DEF Served
  <2>6. ~CleaningUp
    BY <1>4, <2>4, <2>5 DEF Raise, Views
  <2>7. \A k \in last..Len(S.ctl) : S.ctl[k].kind # "cleanup"
    BY <2>6 DEF CleaningUp, Depth, Views, last
  <2> QED BY <1>2, <2>3, <2>7
<1>5. what \in {"signal", "warn", "error"} /\ what # "warn"
  OBVIOUS
<1> QED BY <1>1, <1>3, <1>4, <1>5, SearchSound

\* Two entries appended at once are two pushes.
LEMMA TwoPushes ==
  ASSUME NEW s, IsStack(s), NEW x, NEW y
  PROVE  s \o <<x, y>> = Append(Append(s, x), y)
<1> DEFINE S == {s[i] : i \in 1..Len(s)} \union {x, y}
<1>1. s \in Seq({s[i] : i \in 1..Len(s)})
  BY StackSeq
<1>2. s \in Seq(S)
  BY <1>1
<1>3. x \in S /\ y \in S
  OBVIOUS
<1> HIDE DEF S
<1> QED BY <1>2, <1>3

\* WARN enters its catch and the search for a handler in one step.
LEMMA WarnSound ==
  ASSUME NEW S, NEW T, Views(S, T), Sound(S), Warn
  PROVE  Sound(T)
<1> DEFINE e == Len(S.ctl) + 1
           f == Frame("CATCH", -e, e, "C")
           M == [ctl |-> Append(S.ctl, Context("warn", -e)), nlx |-> Append(S.nlx, f), pending |-> S.pending,
                 saved |-> S.saved, handlers |-> S.handlers, active |-> S.active,
                 restarts |-> Append(S.restarts, [tag |-> -e, ctl |-> e]), errs |-> S.errs, mvs |-> S.mvs]
<1>1. e \in Nat /\ IsStack(S.ctl) /\ Len(S.ctl) \in Nat /\ e \in 2..(Len(S.ctl) + 1)
  BY TopMarks DEF IsStack
<1>2. Runs(S) /\ Depth + 1 = e /\ e < MaxDepth
  BY <1>1, ExitConstants DEF Warn, Views, Depth, Executing, Top, Runs
<1>3. /\ f.type = "CATCH" /\ f.tag = -e /\ f.ctl = e /\ f.owner = "C" /\ f.handler = Len(S.handlers)
      /\ f.mask = S.active /\ f.restart = Len(S.restarts) /\ f.err = Len(S.errs) /\ f.pend = Len(S.saved)
      /\ f.mv = Len(S.mvs)
  BY DEF Frame, Views
<1>4. /\ T.nlx = Append(S.nlx, f) /\ T.restarts = Append(S.restarts, [tag |-> -e, ctl |-> e])
      /\ T.ctl = S.ctl \o <<Context("warn", -e), Searching("warn", Len(S.handlers))>>
      /\ T.pending = S.pending /\ T.saved = S.saved /\ T.handlers = S.handlers
      /\ T.active = S.active /\ T.errs = S.errs /\ T.mvs = S.mvs
  BY <1>2 DEF Warn, Views
<1>5. /\ M.ctl = Append(S.ctl, Context("warn", -e)) /\ M.nlx = Append(S.nlx, f) /\ M.pending = S.pending
      /\ M.saved = S.saved /\ M.handlers = S.handlers /\ M.active = S.active
      /\ M.restarts = Append(S.restarts, [tag |-> -e, ctl |-> e]) /\ M.errs = S.errs /\ M.mvs = S.mvs
  OBVIOUS
<1>6. e = Len(S.ctl) + 1
  OBVIOUS
<1> HIDE DEF e, f, M
<1>7. Len(M.ctl) = e /\ M.ctl[e] = Context("warn", -e)
  BY <1>1, <1>5, <1>6, CtlPush
<1>8. Sound(M)
  <2>1. MarksOK(S, f, e)
    BY <1>3, <1>6, NewMarks
  <2>2. LabelOK(f, Context("warn", -e))
    BY <1>3 DEF LabelOK, Context
  <2>3. ConstructOK(M, e)
    BY <1>7 DEF ConstructOK, Context, FrameKinds
  <2>4. M.restarts = IF "warn" \in {"rcase", "warn"} THEN Append(S.restarts, [tag |-> -e, ctl |-> e]) ELSE S.restarts
    BY <1>5
  <2>5. e <= MaxDepth /\ "warn" \in {"catch", "block", "tagbody", "rcase", "warn"}
    BY <1>1, <1>2, ExitConstants
  <2>6. ASSUME NEW kind, kind = "warn", NEW tag, tag = -e PROVE Sound(M)
    <3>1. /\ M.ctl = Append(S.ctl, Context(kind, tag)) /\ LabelOK(f, Context(kind, tag))
          /\ M.restarts = IF kind \in {"rcase", "warn"} THEN Append(S.restarts, [tag |-> tag, ctl |-> e]) ELSE S.restarts
          /\ kind \in {"catch", "block", "tagbody", "rcase", "warn"}
      BY <1>5, <2>2, <2>4, <2>5, <2>6
    <3>2. Runs(S) /\ e <= MaxDepth /\ f.ctl = e
      BY <1>2, <1>3, <2>5
    <3>3. /\ M.nlx = Append(S.nlx, f) /\ M.pending = S.pending /\ M.saved = S.saved /\ M.handlers = S.handlers
          /\ M.active = S.active /\ M.errs = S.errs /\ M.mvs = S.mvs
      BY <1>5
    <3> QED BY <1>6, <2>1, <2>3, <3>1, <3>2, <3>3, PushFrameSound
  <2> QED BY <2>6
<1>9. M.ctl[Len(M.ctl)].kind = "warn" /\ Runs(M)
  BY <1>7 DEF Runs, Context
<1>10. T.ctl = Append(M.ctl, Searching("warn", Len(M.handlers)))
  <2> DEFINE x == Context("warn", -e)
             y == Searching("warn", Len(S.handlers))
  <2>1. T.ctl = S.ctl \o <<x, y>> /\ M.ctl = Append(S.ctl, x) /\ y = Searching("warn", Len(M.handlers))
    BY <1>4, <1>5
  <2> HIDE DEF x, y
  <2>2. S.ctl \o <<x, y>> = Append(Append(S.ctl, x), y)
    BY <1>1, TwoPushes
  <2> QED BY <2>1, <2>2
<1>11. Len(M.ctl) + 1 <= MaxDepth
  BY <1>1, <1>2, <1>7, ExitConstants
<1>12. /\ T.nlx = M.nlx /\ T.pending = M.pending /\ T.saved = M.saved /\ T.handlers = M.handlers
       /\ T.active = M.active /\ T.restarts = M.restarts /\ T.errs = M.errs /\ T.mvs = M.mvs
  BY <1>4, <1>5
<1>13. "warn" \in {"signal", "warn", "error"} /\ "warn" # "error"
  OBVIOUS
<1> QED BY <1>8, <1>9, <1>10, <1>11, <1>12, <1>13, SearchSound-----------------------------------------------------------------------------
(***************************************************************************)
(* Returning from the innermost construct.                                 *)
(***************************************************************************)
\* The stacks below the construct on top.
LEMMA TopRest ==
  ASSUME NEW S, Sound(S), NEW d, d = Len(S.ctl), NEW kind, kind = S.ctl[d].kind
  PROVE  /\ IF kind \in FrameKinds
              THEN /\ Len(S.nlx) >= 1 /\ S.nlx[Len(S.nlx)].ctl = d
                   /\ Rest(S.nlx, SubSeq(S.nlx, 1, Len(S.nlx) - 1), d)
              ELSE Rest(S.nlx, S.nlx, d)
         /\ IF kind \in {"hbind", "hcase"}
              THEN Len(S.handlers) >= 1 /\ Rest(S.handlers, SubSeq(S.handlers, 1, Len(S.handlers) - 1), d)
              ELSE Rest(S.handlers, S.handlers, d)
         /\ IF kind \in {"rcase", "warn"}
              THEN Rest(S.restarts, SubSeq(S.restarts, 1, Len(S.restarts) - 1), d)
              ELSE Rest(S.restarts, S.restarts, d)
         /\ IF kind \in {"load"}
              THEN Rest(S.errs, SubSeq(S.errs, 1, Len(S.errs) - 1), d)
              ELSE Rest(S.errs, S.errs, d)
         /\ IF kind \in {"cleanup"}
              THEN Rest(S.mvs, SubSeq(S.mvs, 1, Len(S.mvs) - 1), d)
              ELSE Rest(S.mvs, S.mvs, d)
         /\ IF kind \in {"protected", "cleanup"}
              THEN /\ Len(S.saved) >= 1 /\ S.saved[Len(S.saved)].ctl = d
                   /\ Plus(S.saved, S.saved, d, S.saved[Len(S.saved)])
                   /\ Rest(S.saved, SubSeq(S.saved, 1, Len(S.saved) - 1), d)
              ELSE Rest(S.saved, S.saved, d)
<1>1. d \in Nat \ {0} /\ StacksMatch(S)
  BY DEF Sound, ProgramOK, IsStack
<1>2. ASSUME NEW K, NEW s, Matches(s, S.ctl, K)
      PROVE  IF kind \in K
               THEN /\ Len(s) >= 1 /\ s[Len(s)].ctl = d /\ Plus(s, s, d, s[Len(s)])
                    /\ Rest(s, SubSeq(s, 1, Len(s) - 1), d)
               ELSE Rest(s, s, d)
  BY <1>1, <1>2, TopEntry, NoTopEntry
<1>3. /\ Matches(S.nlx, S.ctl, FrameKinds) /\ Matches(S.handlers, S.ctl, {"hbind", "hcase"})
      /\ Matches(S.restarts, S.ctl, {"rcase", "warn"}) /\ Matches(S.errs, S.ctl, {"load"})
      /\ Matches(S.mvs, S.ctl, {"cleanup"}) /\ Matches(S.saved, S.ctl, {"protected", "cleanup"})
  BY <1>1 DEF StacksMatch
<1> QED BY <1>2, <1>3

\* The program is below its top construct.
Left(S, T) == SameBelow(S.ctl, T.ctl, Len(S.ctl)) /\ Len(T.ctl) = Len(S.ctl) - 1

\* A catch, block, tagbody, restart-case or WARN is left.
LEMMA LeaveFrameSound ==
  ASSUME NEW S, Sound(S), NEW T, Left(S, T),
         S.ctl[Len(S.ctl)].kind \in {"catch", "block", "tagbody", "rcase", "warn"},
         T.nlx = SubSeq(S.nlx, 1, Len(S.nlx) - 1),
         T.restarts = IF S.ctl[Len(S.ctl)].kind \in {"rcase", "warn"}
                        THEN SubSeq(S.restarts, 1, Len(S.restarts) - 1) ELSE S.restarts,
         T.pending = S.pending, T.saved = S.saved, T.handlers = S.handlers, T.active = S.active,
         T.errs = S.errs, T.mvs = S.mvs
  PROVE  Sound(T)
<1> DEFINE d == Len(S.ctl)
           kind == S.ctl[d].kind
<1>1. kind \in FrameKinds /\ kind \notin {"hbind", "hcase", "load", "cleanup", "protected", "signal"}
  BY DEF FrameKinds
<1>2. d \in 2..(Len(S.ctl) + 1) /\ MaskOK(S, S.active, d) /\ Parked(S, S.pending, d)
  BY <1>1, TopOf
<1>3. d = Len(S.ctl) /\ kind = S.ctl[d].kind
  OBVIOUS
<1>4. T.restarts = IF kind \in {"rcase", "warn"} THEN SubSeq(S.restarts, 1, Len(S.restarts) - 1) ELSE S.restarts
  OBVIOUS
<1> HIDE DEF d, kind
<1>5. Rest(S.nlx, T.nlx, d) /\ Rest(S.restarts, T.restarts, d)
  BY <1>1, <1>3, <1>4, TopRest
<1>6. Rest(S.handlers, T.handlers, d) /\ Rest(S.errs, T.errs, d) /\ Rest(S.mvs, T.mvs, d) /\ Rest(S.saved, T.saved, d)
  BY <1>1, <1>3, TopRest
<1>7. Cut(S, T, d)
  BY <1>3, <1>5, <1>6 DEF Cut, Left
<1> QED BY <1>2, <1>7, CutSound

\* The search for a handler ends.
LEMMA SearchEndsSound ==
  ASSUME NEW S, Sound(S), NEW T, Left(S, T),
         S.ctl[Len(S.ctl)].kind = "signal", ~S.ctl[Len(S.ctl)].running,
         T.nlx = S.nlx, T.restarts = S.restarts, T.pending = S.pending, T.saved = S.saved, T.handlers = S.handlers,
         T.active = S.active, T.errs = S.errs, T.mvs = S.mvs
  PROVE  Sound(T)
<1> DEFINE d == Len(S.ctl)
<1>1. "signal" \notin FrameKinds /\ S.ctl[d].kind = "signal" /\ d = Len(S.ctl)
  BY DEF FrameKinds
<1>2. d \in 2..(Len(S.ctl) + 1) /\ MaskOK(S, S.active, d) /\ Parked(S, S.pending, d)
  BY <1>1, TopOf
<1> HIDE DEF d
<1>3. /\ Rest(S.nlx, T.nlx, d) /\ Rest(S.restarts, T.restarts, d)
      /\ Rest(S.handlers, T.handlers, d) /\ Rest(S.errs, T.errs, d) /\ Rest(S.mvs, T.mvs, d) /\ Rest(S.saved, T.saved, d)
  BY <1>1, TopRest
<1>4. Cut(S, T, d)
  BY <1>1, <1>3 DEF Cut, Left
<1> QED BY <1>2, <1>4, CutSound

\* Leaving the innermost construct keeps the others.
LEMMA LeaveCtlIs ==
  ASSUME NEW S, NEW T, Views(S, T), Sound(S), LeaveCtl
  PROVE  Left(S, T)
<1>0. IsStack(S.ctl) /\ Len(S.ctl) \in Nat /\ Len(S.ctl) \in 1..MaxDepth
  BY TopOf
<1>1. IsStack(S.ctl) /\ Len(S.ctl) \in 1..(Len(S.ctl) + 1)
  BY <1>0, ExitConstants
<1>2. T.ctl = SubSeq(S.ctl, 1, Len(S.ctl) - 1)
  BY DEF LeaveCtl, Views, Depth
<1> QED BY <1>1, <1>2, CtlCut DEF Left

\* The innermost frame is the one of the construct on top.
LEMMA PopFrameIs ==
  ASSUME NEW S, NEW T, Views(S, T), Sound(S), NEW type, PopFrame(type),
         S.ctl[Len(S.ctl)].kind \in FrameKinds, S.nlx[Len(S.nlx)].type = type
  PROVE  /\ T.nlx = SubSeq(S.nlx, 1, Len(S.nlx) - 1) /\ Max(FramesOf({type})) = Len(S.nlx)
         /\ Len(S.nlx) \in 1..Len(S.nlx)
<1>1. Len(S.nlx) \in Nat /\ IsStack(S.nlx)
  BY TopOf, Depths DEF IsStack
<1>2. Len(S.nlx) >= 1
  BY TopRest
<1>3. DOMAIN nlx = 1..Len(S.nlx)
  BY <1>1, StackSeq DEF Views
<1>4. FramesOf({type}) \in SUBSET Nat /\ Len(S.nlx) \in FramesOf({type}) /\ \A k \in FramesOf({type}) : k <= Len(S.nlx)
  BY <1>1, <1>2, <1>3 DEF FramesOf, Views
<1>5. Max(FramesOf({type})) \in FramesOf({type}) /\ \A k \in FramesOf({type}) : k <= Max(FramesOf({type}))
  BY <1>1, <1>4, MaxProperties
<1>6. Max(FramesOf({type})) = Len(S.nlx)
  <2>1. PICK m : m = Max(FramesOf({type}))
    OBVIOUS
  <2>2. m \in Nat /\ m <= Len(S.nlx) /\ Len(S.nlx) <= m
    BY <1>4, <1>5, <2>1
  <2> QED BY <1>1, <2>1, <2>2
<1>7. FramesOf({type}) # {}
  BY <1>4
<1>8. T.nlx = SubSeq(S.nlx, 1, Len(S.nlx) - 1)
  BY <1>6, <1>7 DEF PopFrame, Views
<1> QED BY <1>1, <1>2, <1>6, <1>8

\* The frame of the construct on top.
LEMMA TopFrame ==
  ASSUME NEW S, Sound(S), NEW d, d = Len(S.ctl), S.ctl[d].kind \in FrameKinds, NEW f, f = S.nlx[Len(S.nlx)]
  PROVE  f.ctl = d /\ LabelOK(f, S.ctl[d]) /\ MarksOK(S, f, d) /\ Len(S.nlx) >= 1 /\ Len(S.nlx) \in Nat
<1>1. Len(S.nlx) >= 1 /\ S.nlx[Len(S.nlx)].ctl = d /\ Len(S.nlx) \in Nat
  BY TopRest, TopOf, Depths DEF IsStack
<1>2. FrameOK(S, f)
  BY <1>1, TopOf DEF EntriesOK
<1> QED BY <1>1, <1>2 DEF FrameOK

\* Returning from a CATCH, BLOCK, TAGBODY or RESTART-CASE.
LEMMA ReturnSound ==
  ASSUME NEW S, NEW T, Views(S, T), Sound(S),
         \/ Return("catch", "CATCH") \/ Return("block", "BLOCK") \/ Return("tagbody", "TAGBODY")
         \/ ReturnRestartCase
  PROVE  Sound(T)
<1> DEFINE kind == S.ctl[Len(S.ctl)].kind
<1>1. kind \in {"catch", "block", "tagbody", "rcase"} /\ kind \in FrameKinds
  BY DEF Return, ReturnRestartCase, Top, Depth, Views, FrameKinds
<1>2. LabelOK(S.nlx[Len(S.nlx)], S.ctl[Len(S.ctl)])
  BY <1>1, TopFrame
<1>3. Left(S, T)
  BY LeaveCtlIs DEF Return, ReturnRestartCase
<1>4. PICK type : PopFrame(type) /\ S.nlx[Len(S.nlx)].type = type
  BY <1>2 DEF Return, ReturnRestartCase, LabelOK, Top, Depth, Views
<1>5. T.nlx = SubSeq(S.nlx, 1, Len(S.nlx) - 1)
  BY <1>1, <1>4, PopFrameIs
<1>6. /\ T.restarts = IF kind \in {"rcase", "warn"} THEN SubSeq(S.restarts, 1, Len(S.restarts) - 1) ELSE S.restarts
      /\ T.pending = S.pending /\ T.saved = S.saved /\ T.handlers = S.handlers /\ T.active = S.active
      /\ T.errs = S.errs /\ T.mvs = S.mvs
  BY DEF Return, ReturnRestartCase, Top, Depth, Views
<1> QED BY <1>1, <1>3, <1>5, <1>6, LeaveFrameSound

\* Bits of bindings that are dropped do not matter.
LEMMA MaskPop ==
  ASSUME NEW S, NEW d, NEW mask, MaskOK(S, mask, d), NEW n, At(S.handlers, d, n), Len(S.handlers) \in Nat
  PROVE  MaskOK(S, mask \ ((n + 1)..Len(S.handlers)), d)
<1>1. SUFFICES ASSUME NEW i \in 1..Len(S.handlers), S.handlers[i].ctl < d
               PROVE  i \in mask \ ((n + 1)..Len(S.handlers)) <=> Enabled(S, S.handlers[i].ctl, d)
  BY DEF MaskOK
<1>2. i <= n /\ n \in Int
  BY <1>1 DEF At
<1>3. i \notin (n + 1)..Len(S.handlers)
  BY <1>2
<1> QED BY <1>1, <1>3 DEF MaskOK

\* The stacks below a stretch of clauses of HANDLER-BIND that ends at the top.
LEMMA ClausesRest ==
  ASSUME NEW S, Sound(S), NEW d, d = Len(S.ctl), NEW f \in 2..d, \A m \in f..d : S.ctl[m].kind = "hbind"
  PROVE  /\ Rest(S.nlx, S.nlx, f) /\ Rest(S.restarts, S.restarts, f) /\ Rest(S.errs, S.errs, f)
         /\ Rest(S.mvs, S.mvs, f) /\ Rest(S.saved, S.saved, f)
         /\ MaskOK(S, S.active, f) /\ Parked(S, S.pending, f)
<1>1. d \in Nat /\ StacksMatch(S) /\ IsStack(S.ctl) /\ MaskOK(S, S.active, d + 1) /\ Parked(S, S.pending, d + 1)
  BY TopOf
<1>2. ASSUME NEW K, NEW s, Matches(s, S.ctl, K), "hbind" \notin K PROVE Rest(s, s, f)
  <2>1. Len(s) \in Nat /\ IsStack(s)
    BY <1>2 DEF Matches, IsStack
  <2>2. \A i \in 1..Len(s) : s[i].ctl \in 1..d /\ s[i].ctl \notin f..d
    BY <1>2 DEF Matches
  <2>3. \A i \in 1..Len(s) : s[i].ctl < f
    BY <1>1, <2>2
  <2> QED BY <2>1, <2>3 DEF Rest, At
<1>3. /\ "hbind" \notin FrameKinds /\ "hbind" \notin {"rcase", "warn"} /\ "hbind" \notin {"load"}
      /\ "hbind" \notin {"cleanup"} /\ "hbind" \notin {"protected", "cleanup"}
  BY DEF FrameKinds
<1>4. /\ Rest(S.nlx, S.nlx, f) /\ Rest(S.restarts, S.restarts, f) /\ Rest(S.errs, S.errs, f)
      /\ Rest(S.mvs, S.mvs, f) /\ Rest(S.saved, S.saved, f)
  BY <1>1, <1>2, <1>3 DEF StacksMatch
<1>5. MaskOK(S, S.active, f)
  <2>1. \A i \in 1..Len(S.handlers) : S.handlers[i].ctl \in Nat
    BY <1>1, Depths
  <2>2. ASSUME NEW k \in Nat, k < f PROVE Enabled(S, k, f) <=> Enabled(S, k, d + 1)
    <3>1. \A m \in (k + 1)..((d + 1) - 1) : m \in (k + 1)..(f - 1) \/ m \in f..d
      BY <1>1
    <3>2. \A m \in (k + 1)..(f - 1) : m \in (k + 1)..((d + 1) - 1)
      BY <1>1
    <3> QED BY <3>1, <3>2 DEF Enabled
  <2>3. ASSUME NEW i \in 1..Len(S.handlers), S.handlers[i].ctl < f
        PROVE  i \in S.active <=> Enabled(S, S.handlers[i].ctl, f)
    <3>1. S.handlers[i].ctl \in Nat /\ S.handlers[i].ctl < d + 1
      BY <1>1, <2>1, <2>3
    <3>2. i \in S.active <=> Enabled(S, S.handlers[i].ctl, d + 1)
      BY <1>1, <3>1 DEF MaskOK
    <3> QED BY <2>2, <2>3, <3>1, <3>2
  <2> QED BY <2>3 DEF MaskOK
<1>6. Parked(S, S.pending, f)
  <2>1. \A k \in f..((d + 1) - 1) : S.ctl[k].kind # "cleanup"
    BY <1>1
  <2>2. f \in Nat /\ d + 1 \in Nat /\ f <= d + 1
    BY <1>1
  <2> QED BY <1>1, <2>1, <2>2, ParkedDown
<1> QED BY <1>4, <1>5, <1>6

\* Returning from a HANDLER-BIND: all the bindings of the form are dropped, and
\* no other.
LEMMA ReturnHandlerBindSound ==
  ASSUME NEW S, NEW T, Views(S, T), Sound(S), ReturnHandlerBind
  PROVE  Sound(T)
<1>1. PICK d : d = Len(S.ctl)
  OBVIOUS
<1>2. PICK f : f = S.ctl[d].of
  OBVIOUS
<1>3. PICK n : n = Len(S.handlers) - (d - f + 1)
  OBVIOUS
<1>4. /\ S.ctl[d].kind = "hbind" /\ T.ctl = SubSeq(S.ctl, 1, f - 1)
      /\ T.handlers = SubSeq(S.handlers, 1, n) /\ T.active = S.active \ ((n + 1)..Len(S.handlers))
      /\ T.nlx = S.nlx /\ T.pending = S.pending /\ T.saved = S.saved /\ T.restarts = S.restarts
      /\ T.errs = S.errs /\ T.mvs = S.mvs
  BY <1>1, <1>2, <1>3 DEF ReturnHandlerBind, PopHandlers, Top, Depth, Views
<1>5. d \in Nat \ {0} /\ IsStack(S.ctl) /\ StacksMatch(S) /\ ClauseOK(S, d) /\ IsStack(S.handlers) /\ Len(S.handlers) \in Nat
  <2>1. d \in Nat /\ d \in 1..MaxDepth /\ IsStack(S.ctl) /\ StacksMatch(S) /\ ConstructOK(S, d)
    BY <1>1, TopOf
  <2>2. ClauseOK(S, d)
    BY <1>4, <2>1 DEF ConstructOK
  <2>3. IsStack(S.handlers) /\ Len(S.handlers) \in Nat
    BY <2>1, Depths DEF IsStack
  <2> QED BY <2>1, <2>2, <2>3
<1>6. /\ f \in 2..d /\ \A m \in f..d : S.ctl[m].kind = "hbind"
      /\ \A i \in 1..Len(S.handlers) : S.handlers[i].ctl = d => At(S.handlers, f, i - (d - f + 1))
  BY <1>2, <1>5 DEF ClauseOK
<1>7. At(S.handlers, f, n)
  <2>1. Matches(S.handlers, S.ctl, {"hbind", "hcase"})
    BY <1>5 DEF StacksMatch
  <2>2. Len(S.handlers) >= 1 /\ S.handlers[Len(S.handlers)].ctl = d
    BY <1>1, <1>4, <1>5, <2>1, TopEntry
  <2> QED BY <1>3, <1>5, <1>6, <2>2
<1>8. f \in 2..(Len(S.ctl) + 1) /\ f \in 1..(Len(S.ctl) + 1)
  BY <1>1, <1>5, <1>6
<1>9. SameBelow(S.ctl, T.ctl, f) /\ Len(T.ctl) = f - 1
  BY <1>4, <1>5, <1>8, CtlCut
<1>10. Rest(S.handlers, T.handlers, f)
  BY <1>4, <1>5, <1>7, RestCut
<1>11. /\ Rest(S.nlx, T.nlx, f) /\ Rest(S.restarts, T.restarts, f) /\ Rest(S.errs, T.errs, f)
       /\ Rest(S.mvs, T.mvs, f) /\ Rest(S.saved, T.saved, f)
       /\ MaskOK(S, S.active, f) /\ Parked(S, T.pending, f)
  BY <1>1, <1>4, <1>6, ClausesRest
<1>12. MaskOK(S, T.active, f)
  <2>1. MaskOK(S, S.active \ ((n + 1)..Len(S.handlers)), f)
    BY <1>5, <1>7, <1>11, MaskPop
  <2> QED BY <1>4, <2>1
<1>13. Cut(S, T, f)
  BY <1>9, <1>10, <1>11 DEF Cut
<1> QED BY <1>8, <1>11, <1>12, <1>13, CutSound

\* Returning from a HANDLER-CASE.
LEMMA ReturnHandlerCaseSound ==
  ASSUME NEW S, NEW T, Views(S, T), Sound(S), ReturnHandlerCase
  PROVE  Sound(T)
<1> DEFINE d == Len(S.ctl)
           f == S.nlx[Len(S.nlx)]
<1>1. "hcase" \in FrameKinds /\ S.ctl[d].kind = "hcase" /\ d = Len(S.ctl)
  BY DEF FrameKinds, ReturnHandlerCase, Top, Depth, Views
<1>2. d \in 2..(Len(S.ctl) + 1) /\ MaskOK(S, S.active, d) /\ Parked(S, S.pending, d)
      /\ IsStack(S.handlers) /\ Len(S.handlers) \in Nat
  BY <1>1, TopOf, Depths DEF IsStack
<1>3. Left(S, T)
  BY LeaveCtlIs DEF ReturnHandlerCase
<1>4. LabelOK(f, S.ctl[d]) /\ MarksOK(S, f, d)
  BY <1>1, TopFrame
<1>5. f.type = "HANDLER_CASE" /\ At(S.handlers, d, f.handler)
  BY <1>1, <1>4 DEF LabelOK, MarksOK
<1>6. T.nlx = SubSeq(S.nlx, 1, Len(S.nlx) - 1) /\ Max(FramesOf({"HANDLER_CASE"})) = Len(S.nlx)
  BY <1>1, <1>5, PopFrameIs DEF ReturnHandlerCase
<1>7. /\ T.handlers = SubSeq(S.handlers, 1, f.handler)
      /\ T.active = S.active \ ((f.handler + 1)..Len(S.handlers))
      /\ T.pending = S.pending /\ T.saved = S.saved /\ T.restarts = S.restarts
      /\ T.errs = S.errs /\ T.mvs = S.mvs
  BY <1>6 DEF ReturnHandlerCase, PopHandlers, Views
<1> HIDE DEF d, f
<1>8. /\ Rest(S.nlx, T.nlx, d) /\ Rest(S.restarts, T.restarts, d)
      /\ Rest(S.errs, T.errs, d) /\ Rest(S.mvs, T.mvs, d) /\ Rest(S.saved, T.saved, d)
  BY <1>1, <1>6, <1>7, TopRest
<1>9. Rest(S.handlers, T.handlers, d)
  BY <1>2, <1>5, <1>7, RestCut
<1>10. MaskOK(S, T.active, d)
  BY <1>2, <1>5, <1>7, MaskPop
<1>11. Cut(S, T, d)
  BY <1>1, <1>3, <1>8, <1>9 DEF Cut, Left
<1> QED BY <1>2, <1>7, <1>10, <1>11, CutSound

\* A LOAD has evaluated its last form.
LEMMA ReturnLoadSound ==
  ASSUME NEW S, NEW T, Views(S, T), Sound(S), ReturnLoad
  PROVE  Sound(T)
<1> DEFINE d == Len(S.ctl)
<1>1. "load" \notin FrameKinds /\ S.ctl[d].kind = "load" /\ d = Len(S.ctl) /\ d > 1
  BY DEF FrameKinds, ReturnLoad, Top, Depth, Views
<1>2. d \in Nat /\ MaskOK(S, S.active, d) /\ Parked(S, S.pending, d)
  BY <1>1, TopOf
<1>3. Left(S, T)
  BY LeaveCtlIs DEF ReturnLoad
<1>4. /\ T.errs = SubSeq(S.errs, 1, Len(S.errs) - 1)
      /\ T.nlx = S.nlx /\ T.pending = S.pending /\ T.saved = S.saved /\ T.restarts = S.restarts
      /\ T.handlers = S.handlers /\ T.active = S.active /\ T.mvs = S.mvs
  BY DEF ReturnLoad, Views
<1>5. d \in 2..(Len(S.ctl) + 1)
  BY <1>1, <1>2
<1> HIDE DEF d
<1>6. /\ Rest(S.nlx, T.nlx, d) /\ Rest(S.restarts, T.restarts, d)
      /\ Rest(S.handlers, T.handlers, d) /\ Rest(S.errs, T.errs, d) /\ Rest(S.mvs, T.mvs, d) /\ Rest(S.saved, T.saved, d)
  BY <1>1, <1>4, TopRest
<1>7. Cut(S, T, d)
  BY <1>1, <1>3, <1>6 DEF Cut, Left
<1> QED BY <1>2, <1>4, <1>5, <1>7, CutSound

\* The construct on top is replaced.
LEMMA CtlSet ==
  ASSUME NEW c, IsStack(c), Len(c) >= 1, NEW x, NEW b, b = [c EXCEPT ![Len(c)] = x]
  PROVE  SameBelow(c, b, Len(c)) /\ Len(b) = Len(c) /\ b[Len(c)] = x
<1> DEFINE C == {c[i] : i \in 1..Len(c)} \union {x}
<1>1. c \in Seq({c[i] : i \in 1..Len(c)}) /\ Len(c) \in Nat
  BY StackSeq DEF IsStack
<1>2. c \in Seq(C) /\ x \in C
  BY <1>1
<1> HIDE DEF C
<1>3. b \in Seq(C) /\ Len(b) = Len(c) /\ b[Len(c)] = x /\ \A k \in 1..(Len(c) - 1) : b[k] = c[k]
  BY <1>1, <1>2
<1>4. IsStack(b)
  BY <1>3, SeqStack
<1> QED BY <1>1, <1>3, <1>4 DEF SameBelow

\* The entries of a cleanup that begins at depth e.
LEMMA CleanupSound ==
  ASSUME NEW S, Sound(S), NEW T, NEW e \in 2..Len(S.ctl), NEW t, SameBelow(S.ctl, T.ctl, e), Len(T.ctl) = e,
         T.ctl[e] = Cleanup(t), t \in 0..(e - 1),
         Rest(S.nlx, T.nlx, e), Rest(S.handlers, T.handlers, e), Rest(S.restarts, T.restarts, e),
         Rest(S.errs, T.errs, e), Plus(S.mvs, T.mvs, e, [ctl |-> e]),
         NEW r, Plus(S.saved, T.saved, e, r), r.ctl = e, r = [pend |-> r.pend, entered |-> r.entered, ctl |-> r.ctl],
         r.entered = (t # 0), IF r.entered THEN Resolves(S, r.pend, e, t) ELSE Parked(S, r.pend, e),
         MaskOK(S, T.active, e),
         T.pending.kind # 0 => t # 0 /\ Resolves(S, T.pending, e, t)
  PROVE  Sound(T)
<1>0. /\ StacksMatch(S) /\ IsStack(S.ctl) /\ Len(S.ctl) \in 1..MaxDepth /\ Len(S.ctl) \in Nat
      /\ \A k \in 1..(Len(S.ctl) - 1) : S.ctl[k].kind = "signal" => S.ctl[k].running
  BY DEF Sound, ProgramOK, IsStack
<1>1. e \in Nat /\ e \in 2..(Len(S.ctl) + 1) /\ e <= MaxDepth /\ e - 1 \in 1..(Len(S.ctl) - 1) /\ e <= e /\ e \in 1..Len(T.ctl)
  BY <1>0, ExitConstants
<1>2. /\ T.ctl[e].kind = "cleanup" /\ T.ctl[e].exit = t /\ T.ctl[e].tag = 0
      /\ T.ctl[e] = [kind |-> "cleanup", tag |-> 0, exit |-> t, of |-> 0, running |-> FALSE, what |-> "none",
                     at |-> 0, mask |-> {}]
  BY DEF Cleanup, Context
<1>3. Entered(S, T, e) /\ T.saved[Len(T.saved)] = r
  <2>1. "cleanup" \notin FrameKinds
    BY DEF FrameKinds
  <2>2. Grown(S.nlx, T.nlx, e, "cleanup", FrameKinds)
    BY <2>1 DEF Grown
  <2>3. /\ Grown(S.handlers, T.handlers, e, "cleanup", {"hbind", "hcase"})
        /\ Grown(S.restarts, T.restarts, e, "cleanup", {"rcase", "warn"}) /\ Grown(S.errs, T.errs, e, "cleanup", {"load"})
    BY DEF Grown
  <2>4. T.mvs[Len(T.mvs)] = [ctl |-> e]
    BY DEF Plus
  <2>5. Grown(S.mvs, T.mvs, e, "cleanup", {"cleanup"})
    BY <2>4 DEF Grown
  <2>6. T.saved[Len(T.saved)] = r
    BY DEF Plus
  <2>7. Grown(S.saved, T.saved, e, "cleanup", {"protected", "cleanup"})
    BY <2>6 DEF Grown
  <2> QED BY <1>2, <2>2, <2>3, <2>5, <2>6, <2>7 DEF Entered
<1>4. Agree(S, T, e) /\ StacksMatch(T) /\ IsStack(T.ctl)
  BY <1>1, <1>3, EnteredAgrees DEF SameBelow
<1>5. TopEntriesOK(T, "cleanup")
  <2>1. RecordOK(T, r)
    <3>1. CASE r.entered
      <4>1. Resolves(T, r.pend, e, t)
        BY <1>0, <1>1, <1>4, <3>1, ResolvesKept
      <4> QED BY <1>2, <3>1, <4>1 DEF RecordOK
    <3>2. CASE ~r.entered
      <4>1. Parked(T, r.pend, e)
        BY <1>0, <1>1, <1>4, <3>2, ParkedKept
      <4> QED BY <1>2, <3>2, <4>1 DEF RecordOK
    <3> QED BY <3>1, <3>2
  <2> QED BY <1>3, <2>1 DEF TopEntriesOK, FrameKinds
<1>6. ConstructOK(T, e)
  BY <1>2 DEF ConstructOK, FrameKinds
<1>7. MaskOK(T, T.active, e + 1)
  <2>1. MaskOK(T, T.active, e)
    BY <1>0, <1>1, <1>4, MaskKept
  <2>2. T.ctl[e].kind \notin {"hbind", "hcase", "signal"}
    BY <1>2
  <2> QED BY <1>1, <1>4, <2>1, <2>2, MaskUp
<1>8. Parked(T, T.pending, e + 1)
  <2>1. SUFFICES ASSUME T.pending.kind # 0 PROVE Parked(T, T.pending, e + 1)
    BY DEF Parked
  <2>2. Resolves(T, T.pending, e, t) /\ t # 0
    BY <1>0, <1>1, <1>4, <2>1, ResolvesKept
  <2>3. e \in 1..((e + 1) - 1) /\ \A x \in (e + 1)..((e + 1) - 1) : FALSE
    BY <1>1
  <2> QED BY <1>2, <2>2, <2>3 DEF Parked
<1> QED BY <1>0, <1>1, <1>2, <1>3, <1>5, <1>6, <1>7, <1>8, EnteredSound

\* A protected form returns and its cleanup begins, interrupting nothing.
LEMMA ReturnProtectedSound ==
  ASSUME NEW S, NEW T, Views(S, T), Sound(S), ReturnProtected
  PROVE  Sound(T)
<1> DEFINE d == Len(S.ctl)
           r == S.saved[Len(S.saved)]
<1>1. "protected" \in FrameKinds /\ S.ctl[d].kind = "protected" /\ d = Len(S.ctl) /\ d = Depth
  BY DEF FrameKinds, ReturnProtected, Top, Depth, Views
<1>2. /\ d \in 2..(Len(S.ctl) + 1) /\ MaskOK(S, S.active, d) /\ d \in Nat /\ IsStack(S.ctl) /\ StacksMatch(S)
      /\ ConstructOK(S, d) /\ EntriesOK(S) /\ Parked(S, S.pending, d + 1)
  BY <1>1, TopOf
<1>3. S.nlx[Len(S.nlx)].type = "UWPROT"
  BY <1>1, TopFrame DEF LabelOK
<1>4. T.nlx = SubSeq(S.nlx, 1, Len(S.nlx) - 1)
  BY <1>1, <1>3, PopFrameIs DEF ReturnProtected
<1>5. /\ T.mvs = Append(S.mvs, [ctl |-> d]) /\ T.ctl = [S.ctl EXCEPT ![d] = Cleanup(0)]
      /\ T.pending = S.pending /\ T.saved = S.saved /\ T.restarts = S.restarts
      /\ T.handlers = S.handlers /\ T.active = S.active /\ T.errs = S.errs
  BY <1>1 DEF ReturnProtected, Views
<1> HIDE DEF d
<1>6. /\ Rest(S.nlx, T.nlx, d) /\ Rest(S.restarts, T.restarts, d)
      /\ Rest(S.handlers, T.handlers, d) /\ Rest(S.errs, T.errs, d) /\ Rest(S.mvs, S.mvs, d)
      /\ Len(S.saved) >= 1 /\ r.ctl = d /\ Plus(S.saved, T.saved, d, r)
  <2>1. PICK kind : kind = S.ctl[d].kind
    OBVIOUS
  <2>2. /\ kind \in FrameKinds /\ kind \notin {"rcase", "warn"} /\ kind \notin {"hbind", "hcase"} /\ kind \notin {"load"}
        /\ kind \notin {"cleanup"} /\ kind \in {"protected", "cleanup"}
    BY <1>1, <2>1
  <2>3. T.saved = S.saved /\ T.restarts = S.restarts /\ T.handlers = S.handlers /\ T.errs = S.errs
    BY <1>5
  <2>4. Rest(S.nlx, SubSeq(S.nlx, 1, Len(S.nlx) - 1), d)
    BY <1>1, <2>1, <2>2, TopRest
  <2>5. Rest(S.restarts, T.restarts, d) /\ Rest(S.handlers, T.handlers, d) /\ Rest(S.errs, T.errs, d)
    BY <1>1, <2>1, <2>2, <2>3, TopRest
  <2>6. Rest(S.mvs, S.mvs, d)
    BY <1>1, <2>1, <2>2, TopRest
  <2>7. Len(S.saved) >= 1 /\ r.ctl = d /\ Plus(S.saved, S.saved, d, r)
    BY <1>1, <2>1, <2>2, TopRest
  <2> QED BY <1>4, <2>3, <2>4, <2>5, <2>6, <2>7
<1>7. Plus(S.mvs, T.mvs, d, [ctl |-> d])
  BY <1>5, <1>6, PlusPush
<1>8. SameBelow(S.ctl, T.ctl, d) /\ Len(T.ctl) = d /\ T.ctl[d] = Cleanup(0)
  <2>1. PICK x : x = Cleanup(0)
    OBVIOUS
  <2>2. T.ctl = [S.ctl EXCEPT ![Len(S.ctl)] = x] /\ Len(S.ctl) >= 1
    BY <1>1, <1>2, <1>5, <2>1
  <2>3. SameBelow(S.ctl, T.ctl, Len(S.ctl)) /\ Len(T.ctl) = Len(S.ctl) /\ T.ctl[Len(S.ctl)] = x
    BY <1>2, <2>2, CtlSet, Zenon
  <2> QED BY <1>1, <2>1, <2>3
<1>9. RecordOK(S, r)
  <2>1. Len(S.saved) \in 1..Len(S.saved)
    BY <1>2, <1>6, Depths DEF IsStack
  <2> QED BY <1>2, <2>1 DEF EntriesOK
<1> HIDE DEF r
<1>10. ~r.entered /\ r.entered = (0 # 0) /\ Parked(S, r.pend, d) /\ r = [pend |-> r.pend, entered |-> r.entered, ctl |-> r.ctl]
  <2>1. S.ctl[d].exit = 0
    BY <1>1, <1>2 DEF ConstructOK
  <2> QED BY <1>6, <1>9, <2>1 DEF RecordOK
<1>11. T.pending.kind = 0
  <2>1. SUFFICES ASSUME S.pending.kind # 0 PROVE FALSE
    BY <1>5
  <2>2. PICK m \in 1..((d + 1) - 1) :
          /\ S.ctl[m].kind = "cleanup"
          /\ \A x \in (m + 1)..((d + 1) - 1) : S.ctl[x].kind \notin {"protected", "cleanup"}
    BY <1>2, <2>1 DEF Parked
  <2>3. m # d
    BY <1>1, <2>2
  <2>4. d \in (m + 1)..((d + 1) - 1)
    BY <1>2, <2>3
  <2> QED BY <1>1, <2>2, <2>4
<1>12. 0 \in 0..(d - 1) /\ d \in 2..Len(S.ctl)
  BY <1>1, <1>2
<1> QED BY <1>2, <1>5, <1>6, <1>7, <1>8, <1>10, <1>11, <1>12, CleanupSound-----------------------------------------------------------------------------
(***************************************************************************)
(* A condition on its way down the handler stack.                          *)
(***************************************************************************)

\* A step that changes the condition being offered and the mask only.
LEMMA SignalStepSound ==
  ASSUME NEW S, Sound(S), NEW T, NEW d, d = Len(S.ctl), S.ctl[d].kind = "signal",
         SameBelow(S.ctl, T.ctl, d), Len(T.ctl) = d, NEW c, T.ctl[d] = c,
         c = [kind |-> c.kind, tag |-> c.tag, exit |-> c.exit, of |-> c.of, running |-> c.running,
              what |-> c.what, at |-> c.at, mask |-> c.mask],
         c.kind = "signal", c.exit = S.ctl[d].exit, c.what = S.ctl[d].what, c.running \in BOOLEAN,
         c.running => MaskOK(S, c.mask, d),
         \A i \in 1..Len(S.handlers) : i < c.at <=> S.handlers[i].ctl < c.of,
         MaskOK(T, T.active, d + 1),
         T.nlx = S.nlx, T.restarts = S.restarts, T.pending = S.pending, T.saved = S.saved, T.handlers = S.handlers,
         T.errs = S.errs, T.mvs = S.mvs
  PROVE  Sound(T)
<1>0. /\ d \in Nat /\ d \in 1..MaxDepth /\ StacksMatch(S) /\ IsStack(S.ctl) /\ ConstructOK(S, d) /\ EntriesOK(S)
      /\ d \in 2..(Len(S.ctl) + 1) /\ Parked(S, S.pending, d)
  BY TopOf
<1>1. "signal" \notin FrameKinds
  BY DEF FrameKinds
<1>2. Entered(S, T, d)
  <2>1. /\ Rest(S.nlx, T.nlx, d) /\ Rest(S.handlers, T.handlers, d) /\ Rest(S.restarts, T.restarts, d)
        /\ Rest(S.errs, T.errs, d) /\ Rest(S.mvs, T.mvs, d) /\ Rest(S.saved, T.saved, d)
    <3>1. PICK kind : kind = S.ctl[d].kind
      OBVIOUS
    <3>2. /\ kind \notin FrameKinds /\ kind \notin {"rcase", "warn"} /\ kind \notin {"hbind", "hcase"} /\ kind \notin {"load"}
          /\ kind \notin {"cleanup"} /\ kind \notin {"protected", "cleanup"}
      BY <1>1, <3>1
    <3> QED BY <3>1, <3>2, TopRest
  <2> QED BY <1>1, <2>1 DEF Entered, Grown
<1>3. Agree(S, T, d) /\ StacksMatch(T) /\ IsStack(T.ctl)
  BY <1>0, <1>2, EnteredAgrees DEF SameBelow
<1>4. TopEntriesOK(T, "signal")
  BY <1>1 DEF TopEntriesOK
<1>5. SignalOK(S, d) /\ S.ctl[d].exit = 0
  BY <1>0 DEF ConstructOK
<1>6. \A m \in 1..(d - 1) : T.ctl[m] = S.ctl[m]
  BY DEF SameBelow
<1>7. SignalOK(T, d)
  <2>1. NoCleanup(S, d) => NoCleanup(T, d)
    <3>1. \A t \in 2..(d - 1) : t \in 1..(d - 1) /\ \A m \in (t + 1)..(d - 1) : m \in 1..(d - 1)
      BY <1>0
    <3> QED BY <1>6, <3>1 DEF NoCleanup
  <2>2. c.running => MaskOK(T, c.mask, d)
    BY <1>0, <1>3, MaskKept
  <2>3. d > 1 => T.ctl[d - 1] = S.ctl[d - 1]
    <3>1. d > 1 => d - 1 \in 1..(d - 1)
      BY <1>0
    <3> QED BY <1>6, <3>1
  <2> QED BY <1>5, <2>1, <2>2, <2>3 DEF SignalOK
<1>8. ConstructOK(T, d)
  BY <1>5, <1>7 DEF ConstructOK
<1>9. Parked(T, T.pending, d + 1)
  <2>1. Parked(T, T.pending, d)
    BY <1>0, <1>3, ParkedKept
  <2> QED BY <1>0, <2>1, ParkedUp
<1>10. S.ctl[d - 1].kind = "signal" => S.ctl[d - 1].running
  <2>1. d - 1 \in 1..(Len(S.ctl) - 1)
    BY <1>0
  <2> QED BY <2>1 DEF Sound, ProgramOK
<1>11. d <= MaxDepth
  BY <1>0, ExitConstants
<1> QED BY <1>0, <1>2, <1>4, <1>8, <1>9, <1>10, <1>11, EnteredSound

\* A handler declines: the mask saved before it ran is right again.
LEMMA ReturnHandlerSound ==
  ASSUME NEW S, NEW T, Views(S, T), Sound(S), Executing, ReturnHandler
  PROVE  Sound(T)
<1> DEFINE d == Len(S.ctl)
           c == [S.ctl[d] EXCEPT !.running = FALSE]
<1>0. d = Len(S.ctl) /\ d = Depth
  BY DEF Depth, Views
<1>1. S.ctl[d].kind = "signal" /\ S.ctl[d].running
  BY DEF ReturnHandler, Executing, Top, Depth, Views
<1>2. /\ d \in Nat /\ d \in 1..MaxDepth /\ StacksMatch(S) /\ IsStack(S.ctl) /\ ConstructOK(S, d)
  BY <1>0, TopOf
<1>3. /\ T.active = S.ctl[d].mask /\ T.ctl = [S.ctl EXCEPT ![d] = c]
      /\ T.nlx = S.nlx /\ T.restarts = S.restarts /\ T.pending = S.pending /\ T.saved = S.saved
      /\ T.handlers = S.handlers /\ T.errs = S.errs /\ T.mvs = S.mvs
  BY <1>0 DEF ReturnHandler, Top, Views
<1>4. SignalOK(S, d)
  BY <1>1, <1>2 DEF ConstructOK
<1>5. /\ c = [kind |-> c.kind, tag |-> c.tag, exit |-> c.exit, of |-> c.of, running |-> c.running,
              what |-> c.what, at |-> c.at, mask |-> c.mask]
      /\ c.kind = "signal" /\ c.exit = S.ctl[d].exit /\ c.what = S.ctl[d].what /\ c.running = FALSE
      /\ c.at = S.ctl[d].at /\ c.of = S.ctl[d].of
  <2>1. PICK o : o = S.ctl[d]
    OBVIOUS
  <2>2. /\ o = [kind |-> o.kind, tag |-> o.tag, exit |-> o.exit, of |-> o.of, running |-> o.running,
                what |-> o.what, at |-> o.at, mask |-> o.mask]
        /\ o.kind = "signal"
    BY <1>1, <1>2, <2>1 DEF ConstructOK
  <2>3. c = [o EXCEPT !.running = FALSE]
    BY <2>1
  <2> HIDE DEF c
  <2>4. /\ c = [kind |-> c.kind, tag |-> c.tag, exit |-> c.exit, of |-> c.of, running |-> c.running,
                what |-> c.what, at |-> c.at, mask |-> c.mask]
        /\ c.kind = "signal" /\ c.exit = o.exit /\ c.what = o.what /\ c.running = FALSE
        /\ c.at = o.at /\ c.of = o.of
    BY <2>2, <2>3
  <2> QED BY <2>1, <2>4
<1> HIDE DEF c
<1>6. SameBelow(S.ctl, T.ctl, d) /\ Len(T.ctl) = d /\ T.ctl[d] = c
  <2>1. Len(S.ctl) >= 1 /\ T.ctl = [S.ctl EXCEPT ![Len(S.ctl)] = c]
    BY <1>2, <1>3
  <2>2. SameBelow(S.ctl, T.ctl, Len(S.ctl)) /\ Len(T.ctl) = Len(S.ctl) /\ T.ctl[Len(S.ctl)] = c
    BY <1>2, <2>1, CtlSet, Zenon
  <2> QED BY <2>2
<1> HIDE DEF d
<1>7. \A i \in 1..Len(S.handlers) : i < c.at <=> S.handlers[i].ctl < c.of
  <2>1. \A i \in 1..Len(S.handlers) : S.handlers[i].ctl < d
    <3>1. \A i \in 1..Len(S.handlers) : S.handlers[i].ctl \in 1..d /\ S.ctl[S.handlers[i].ctl].kind \in {"hbind", "hcase"}
      BY <1>0, <1>2 DEF StacksMatch, Matches
    <3> QED BY <1>1, <1>2, <3>1
  <2> QED BY <1>4, <1>5, <2>1 DEF SignalOK
<1>8. MaskOK(T, T.active, d + 1)
  <2>1. MaskOK(S, T.active, d)
    BY <1>1, <1>3, <1>4 DEF SignalOK
  <2>2. \A m \in 1..(d - 1) : T.ctl[m] = S.ctl[m]
    BY <1>6 DEF SameBelow
  <2>3. ASSUME NEW i \in 1..Len(T.handlers), T.handlers[i].ctl < d + 1
        PROVE  i \in T.active <=> Enabled(T, T.handlers[i].ctl, d + 1)
    <3>1. S.handlers[i].ctl \in 1..d /\ S.ctl[S.handlers[i].ctl].kind \in {"hbind", "hcase"} /\ T.handlers[i] = S.handlers[i]
      BY <1>0, <1>2, <1>3 DEF StacksMatch, Matches
    <3>2. S.handlers[i].ctl \in 1..(d - 1)
      BY <1>1, <1>2, <3>1
    <3>3. i \in T.active <=> Enabled(S, S.handlers[i].ctl, d)
      BY <1>2, <1>3, <2>1, <3>2 DEF MaskOK
    <3>4. PICK k \in 1..(d - 1) : k = S.handlers[i].ctl
      BY <3>2
    <3>5. Enabled(S, k, d) <=> Enabled(T, k, d + 1)
      <4>1. \A m \in (k + 1)..((d + 1) - 1) : m \in (k + 1)..(d - 1) \/ m = d
        BY <1>2
      <4>2. \A m \in (k + 1)..(d - 1) : m \in 1..(d - 1) /\ m \in (k + 1)..((d + 1) - 1)
        BY <1>2
      <4> QED BY <1>5, <1>6, <2>2, <4>1, <4>2 DEF Enabled
    <3> QED BY <3>1, <3>3, <3>4, <3>5
  <2> QED BY <2>3 DEF MaskOK
<1> QED BY <1>0, <1>1, <1>3, <1>5, <1>6, <1>7, <1>8, SignalStepSound

\* A handler is called: its binding and those established since are disabled.
LEMMA CallHandlerSound ==
  ASSUME NEW S, NEW T, Views(S, T), Sound(S), ~Executing, NEW i \in Candidates, CallHandler(i)
  PROVE  Sound(T)
<1> DEFINE d == Len(S.ctl)
           c == [S.ctl[d] EXCEPT !.at = i, !.of = S.handlers[i].ctl, !.running = TRUE, !.mask = S.active]
<1>0. d = Len(S.ctl) /\ d = Depth
  BY DEF Depth, Views
<1>1. S.ctl[d].kind = "signal" /\ ~S.ctl[d].running
  BY DEF Executing, Top, Depth, Views
<1>2. /\ d \in Nat /\ d \in 1..MaxDepth /\ StacksMatch(S) /\ IsStack(S.ctl) /\ ConstructOK(S, d)
      /\ MaskOK(S, S.active, d) /\ IsStack(S.handlers)
  BY <1>0, <1>1, TopOf, Depths
<1>3. /\ T.active = S.active \ (i..Len(S.handlers)) /\ T.ctl = [S.ctl EXCEPT ![d] = c]
      /\ T.nlx = S.nlx /\ T.restarts = S.restarts /\ T.pending = S.pending /\ T.saved = S.saved
      /\ T.handlers = S.handlers /\ T.errs = S.errs /\ T.mvs = S.mvs
  BY <1>0 DEF CallHandler, Band, Views
<1>4. i \in 1..Len(S.handlers) /\ Len(S.handlers) \in Nat
  BY <1>2, StackSeq DEF Candidates, Views, IsStack
<1>5. /\ c = [kind |-> c.kind, tag |-> c.tag, exit |-> c.exit, of |-> c.of, running |-> c.running,
              what |-> c.what, at |-> c.at, mask |-> c.mask]
      /\ c.kind = "signal" /\ c.exit = S.ctl[d].exit /\ c.what = S.ctl[d].what /\ c.running = TRUE
      /\ c.at = i /\ c.of = S.handlers[i].ctl /\ c.mask = S.active
  <2>1. PICK o : o = S.ctl[d]
    OBVIOUS
  <2>2. /\ o = [kind |-> o.kind, tag |-> o.tag, exit |-> o.exit, of |-> o.of, running |-> o.running,
                what |-> o.what, at |-> o.at, mask |-> o.mask]
        /\ o.kind = "signal"
    BY <1>1, <1>2, <2>1 DEF ConstructOK
  <2>3. PICK h, a : h = S.handlers[i].ctl /\ a = S.active
    OBVIOUS
  <2>4. c = [o EXCEPT !.at = i, !.of = h, !.running = TRUE, !.mask = a]
    BY <2>1, <2>3
  <2> HIDE DEF c
  <2>5. /\ c = [kind |-> c.kind, tag |-> c.tag, exit |-> c.exit, of |-> c.of, running |-> c.running,
                what |-> c.what, at |-> c.at, mask |-> c.mask]
        /\ c.kind = "signal" /\ c.exit = o.exit /\ c.what = o.what /\ c.running = TRUE
        /\ c.at = i /\ c.of = h /\ c.mask = a
    BY <2>2, <2>4
  <2> QED BY <2>1, <2>3, <2>5
<1> HIDE DEF c
<1>6. SameBelow(S.ctl, T.ctl, d) /\ Len(T.ctl) = d /\ T.ctl[d] = c
  <2>1. Len(S.ctl) >= 1 /\ T.ctl = [S.ctl EXCEPT ![Len(S.ctl)] = c]
    BY <1>2, <1>3
  <2>2. SameBelow(S.ctl, T.ctl, Len(S.ctl)) /\ Len(T.ctl) = Len(S.ctl) /\ T.ctl[Len(S.ctl)] = c
    BY <1>2, <2>1, CtlSet, Zenon
  <2> QED BY <2>2
<1> HIDE DEF d
<1>7. \A j \in 1..Len(S.handlers) :
        /\ S.handlers[j].ctl \in 1..(d - 1)
        /\ j < i => S.handlers[j].ctl < S.handlers[i].ctl
        /\ i < j => S.handlers[i].ctl < S.handlers[j].ctl
  <2>1. \A j \in 1..Len(S.handlers) : S.handlers[j].ctl \in 1..d /\ S.ctl[S.handlers[j].ctl].kind \in {"hbind", "hcase"}
    BY <1>0, <1>2 DEF StacksMatch, Matches
  <2>2. ASSUME NEW j \in 1..Len(S.handlers) PROVE S.handlers[j].ctl \in 1..(d - 1)
    <3>1. S.handlers[j].ctl # d
      BY <1>1, <2>1
    <3> QED BY <1>2, <2>1, <3>1
  <2> QED BY <1>2, <1>4, <2>2 DEF StacksMatch, Matches
<1>8. \A j \in 1..Len(S.handlers) : j < i <=> S.handlers[j].ctl < S.handlers[i].ctl
  BY <1>4, <1>7
<1>9. MaskOK(T, T.active, d + 1)
  <2>2. \A m \in 1..(d - 1) : T.ctl[m] = S.ctl[m]
    BY <1>6 DEF SameBelow
  <2>3. ASSUME NEW j \in 1..Len(T.handlers), T.handlers[j].ctl < d + 1
        PROVE  j \in T.active <=> Enabled(T, T.handlers[j].ctl, d + 1)
    <3>1. T.handlers[j] = S.handlers[j] /\ j \in 1..Len(S.handlers)
      BY <1>3
    <3>2. PICK k \in 1..(d - 1) : k = S.handlers[j].ctl
      BY <1>7, <3>1
    <3>3. j \in S.active <=> Enabled(S, k, d)
      BY <1>2, <3>1, <3>2 DEF MaskOK
    <3>4. (Enabled(S, k, d) /\ S.handlers[i].ctl > k) <=> Enabled(T, k, d + 1)
      <4>1. \A m \in (k + 1)..((d + 1) - 1) : m \in (k + 1)..(d - 1) \/ m = d
        BY <1>2
      <4>2. d \in (k + 1)..((d + 1) - 1) /\ \A m \in (k + 1)..(d - 1) : m \in 1..(d - 1) /\ m \in (k + 1)..((d + 1) - 1)
        BY <1>2
      <4> QED BY <1>5, <1>6, <2>2, <4>1, <4>2 DEF Enabled
    <3>5. S.handlers[i].ctl > k <=> j < i
      BY <1>4, <1>7, <1>8, <3>1, <3>2
    <3>6. j \in T.active <=> j \in S.active /\ j < i
      BY <1>3, <1>4, <3>1
    <3> QED BY <3>1, <3>2, <3>3, <3>4, <3>5, <3>6
  <2> QED BY <2>3 DEF MaskOK
<1>10. \A j \in 1..Len(S.handlers) : j < c.at <=> S.handlers[j].ctl < c.of
  BY <1>5, <1>8
<1> QED BY <1>0, <1>1, <1>2, <1>3, <1>5, <1>6, <1>9, <1>10, SignalStepSound

\* SIGNAL returns.
LEMMA SignalReturnsSound ==
  ASSUME NEW S, NEW T, Views(S, T), Sound(S), SignalReturns
  PROVE  Sound(T)
<1>1. Left(S, T)
  BY LeaveCtlIs DEF SignalReturns
<1>2. S.ctl[Len(S.ctl)].kind = "signal" /\ ~S.ctl[Len(S.ctl)].running
  BY DEF SignalReturns, Executing, Top, Depth, Views
<1>3. /\ T.nlx = S.nlx /\ T.restarts = S.restarts /\ T.pending = S.pending /\ T.saved = S.saved
      /\ T.handlers = S.handlers /\ T.errs = S.errs /\ T.mvs = S.mvs /\ T.active = S.active
  BY DEF SignalReturns, Views
<1> QED BY <1>1, <1>2, <1>3, SearchEndsSound

\* WARN returns: its catch and its restart go with it.
LEMMA WarnReturnsSound ==
  ASSUME NEW S, NEW T, Views(S, T), Sound(S), WarnReturns
  PROVE  Sound(T)
<1> DEFINE d == Len(S.ctl)
           M == [ctl |-> SubSeq(S.ctl, 1, d - 1), nlx |-> S.nlx, pending |-> S.pending,
                 saved |-> S.saved, handlers |-> S.handlers, active |-> S.active,
                 restarts |-> S.restarts, errs |-> S.errs, mvs |-> S.mvs]
<1>0. d = Len(S.ctl) /\ d = Depth
  BY DEF Depth, Views
<1>1. S.ctl[d].kind = "signal" /\ ~S.ctl[d].running /\ S.ctl[d].what = "warn"
  BY DEF WarnReturns, Executing, Top, Depth, Views
<1>2. d \in Nat /\ IsStack(S.ctl) /\ ConstructOK(S, d) /\ d \in 2..(Len(S.ctl) + 1)
  BY <1>0, <1>1, TopOf
<1>3. S.ctl[d - 1].kind = "warn"
  BY <1>1, <1>2 DEF ConstructOK, SignalOK
<1>4. /\ M.ctl = SubSeq(S.ctl, 1, d - 1) /\ M.nlx = S.nlx /\ M.pending = S.pending
      /\ M.saved = S.saved /\ M.handlers = S.handlers /\ M.active = S.active
      /\ M.restarts = S.restarts /\ M.errs = S.errs /\ M.mvs = S.mvs
  OBVIOUS
<1> HIDE DEF M
<1>5. Left(S, M)
  <2>1. d \in 1..(Len(S.ctl) + 1)
    BY <1>2
  <2> QED BY <1>2, <1>4, <2>1, CtlCut DEF Left
<1>6. Sound(M)
  BY <1>1, <1>4, <1>5, SearchEndsSound
<1>7. Len(M.ctl) = d - 1 /\ \A k \in 1..(d - 1) : M.ctl[k] = S.ctl[k]
  BY <1>5 DEF Left, SameBelow
<1>8. M.ctl[Len(M.ctl)].kind = "warn" /\ M.ctl[Len(M.ctl)] = S.ctl[d - 1]
  BY <1>2, <1>3, <1>7
<1>9. S.nlx[Len(S.nlx)].tag = S.ctl[d - 1].tag
  <2>1. "warn" \in FrameKinds
    BY DEF FrameKinds
  <2>2. LabelOK(M.nlx[Len(M.nlx)], M.ctl[Len(M.ctl)])
    BY <1>6, <1>8, <2>1, TopFrame
  <2> QED BY <1>4, <1>8, <2>2 DEF LabelOK
<1>10. /\ T.nlx = SubSeq(M.nlx, 1, Len(M.nlx) - 1) /\ T.restarts = SubSeq(M.restarts, 1, Len(M.restarts) - 1)
       /\ T.ctl = SubSeq(S.ctl, 1, (d - 1) - 1)
       /\ T.pending = M.pending /\ T.saved = M.saved /\ T.handlers = M.handlers /\ T.active = M.active
       /\ T.errs = M.errs /\ T.mvs = M.mvs
  BY <1>0, <1>4, <1>9 DEF WarnReturns, Views
<1>11. Left(M, T)
  <2>1. d - 1 \in 1..(Len(S.ctl) + 1)
    BY <1>2
  <2>2. SameBelow(S.ctl, T.ctl, d - 1) /\ Len(T.ctl) = (d - 1) - 1
    BY <1>2, <1>10, <2>1, CtlCut
  <2> QED BY <1>2, <1>7, <2>2 DEF Left, SameBelow
<1> QED BY <1>6, <1>8, <1>10, <1>11, LeaveFrameSound-----------------------------------------------------------------------------
(***************************************************************************)
(* Landing.                                                                *)
(***************************************************************************)

\* A tuple of one entry appended is a push.
LEMMA OnePush ==
  ASSUME NEW s, IsStack(s), NEW x
  PROVE  s \o <<x>> = Append(s, x)
<1> DEFINE S == {s[i] : i \in 1..Len(s)} \union {x}
<1>1. s \in Seq({s[i] : i \in 1..Len(s)})
  BY StackSeq
<1>2. s \in Seq(S) /\ x \in S
  BY <1>1
<1> HIDE DEF S
<1> QED BY <1>2

\* The program goes back to below depth e and enters x.
LEMMA CtlCutPush ==
  ASSUME NEW c, IsStack(c), NEW e \in 1..(Len(c) + 1), NEW x
  PROVE  /\ SameBelow(c, Append(SubSeq(c, 1, e - 1), x), e) /\ Len(Append(SubSeq(c, 1, e - 1), x)) = e
         /\ Append(SubSeq(c, 1, e - 1), x)[e] = x
<1>1. Len(c) \in Nat /\ e - 1 \in 0..Len(c)
  BY DEF IsStack
<1>2. PICK b : b = SubSeq(c, 1, e - 1)
  OBVIOUS
<1>3. IsStack(b) /\ Len(b) = e - 1 /\ \A k \in 1..(e - 1) : b[k] = c[k]
  BY <1>1, <1>2, StackCut
<1>4. /\ IsStack(Append(b, x)) /\ Len(Append(b, x)) = Len(b) + 1
      /\ \A i \in 1..Len(b) : Append(b, x)[i] = b[i]
      /\ Append(b, x)[Len(b) + 1] = x
  BY <1>3, StackPush
<1> QED BY <1>1, <1>2, <1>3, <1>4 DEF SameBelow

\* A record that notes a transfer, written out.
LEMMA RecordMarked ==
  ASSUME NEW r, r = [pend |-> r.pend, entered |-> r.entered, ctl |-> r.ctl], NEW p
  PROVE  [[r EXCEPT !.pend = p] EXCEPT !.entered = TRUE] = [pend |-> p, entered |-> TRUE, ctl |-> r.ctl]
<1>1. PICK q : q = [r EXCEPT !.pend = p]
  OBVIOUS
<1>2. q = [pend |-> p, entered |-> r.entered, ctl |-> r.ctl]
  BY <1>1
<1>3. PICK z : z = [q EXCEPT !.entered = TRUE]
  OBVIOUS
<1>4. z = [pend |-> p, entered |-> TRUE, ctl |-> r.ctl]
  BY <1>2, <1>3
<1> QED BY <1>1, <1>3, <1>4

Marked(s, b, p, d) ==
  /\ IsStack(b) /\ Len(b) = Len(s) /\ \A k \in 1..(Len(s) - 1) : b[k] = s[k]
  /\ b[Len(b)] = [pend |-> p, entered |-> TRUE, ctl |-> d]

\* The record on top is marked with the transfer that its cleanup interrupts.
LEMMA RecordSet ==
  ASSUME NEW s, IsStack(s), Len(s) >= 1, NEW r, r = s[Len(s)],
         r = [pend |-> r.pend, entered |-> r.entered, ctl |-> r.ctl],
         NEW p, NEW b, b = [s EXCEPT ![Len(s)].pend = p, ![Len(s)].entered = TRUE]
  PROVE  Marked(s, b, p, r.ctl)
<1> DEFINE x == [pend |-> p, entered |-> TRUE, ctl |-> r.ctl]
           C == {s[i] : i \in 1..Len(s)} \union {x}
<1>1. s \in Seq({s[i] : i \in 1..Len(s)}) /\ Len(s) \in Nat /\ Len(s) \in 1..Len(s) /\ DOMAIN s = 1..Len(s)
  BY StackSeq DEF IsStack
<1>2. s \in Seq(C) /\ x \in C
  BY <1>1
<1>3. [[r EXCEPT !.pend = p] EXCEPT !.entered = TRUE] = x
  BY RecordMarked, Zenon
<1>4. b = [s EXCEPT ![Len(s)] = x]
  <2>1. DOMAIN b = DOMAIN s /\ b = [k \in DOMAIN s |-> b[k]]
    OBVIOUS
  <2>2. \A k \in 1..Len(s) : k # Len(s) => b[k] = s[k]
    BY <1>1
  <2>3. b[Len(s)] = [[r EXCEPT !.pend = p] EXCEPT !.entered = TRUE]
    BY <1>1
  <2> HIDE DEF x
  <2> QED BY <1>1, <1>3, <2>1, <2>2, <2>3
<1> HIDE DEF C, x
<1>5. SameBelow(s, b, Len(s)) /\ Len(b) = Len(s) /\ b[Len(s)] = x
  BY ONLY IsStack(s), Len(s) >= 1, <1>4, CtlSet, Zenon
<1> QED BY <1>5 DEF SameBelow, Marked, x

\* The record that a protected form's frame points to.
LEMMA FrameRecord ==
  ASSUME NEW S, Sound(S), NEW j \in 1..Len(S.nlx), NEW f, f = S.nlx[j], f.type = "UWPROT"
  PROVE  /\ f.pend \in 1..Len(S.saved) /\ S.saved[f.pend].ctl = f.ctl /\ RecordOK(S, S.saved[f.pend])
         /\ At(S.saved, f.ctl, f.pend - 1)
<1>0. EntriesOK(S) /\ Matches(S.saved, S.ctl, {"protected", "cleanup"}) /\ Matches(S.nlx, S.ctl, FrameKinds)
  BY DEF Sound, StacksMatch
<1>1. FrameOK(S, f) /\ f.ctl \in 1..Len(S.ctl)
  BY <1>0 DEF EntriesOK, Matches
<1>2. S.ctl[f.ctl].kind = "protected" /\ f.pend \in Nat \ {0} /\ At(S.saved, f.ctl, f.pend - 1)
  BY <1>1 DEF FrameOK, LabelOK, MarksOK
<1>3. PICK i \in 1..Len(S.saved) : S.saved[i].ctl = f.ctl
  BY <1>0, <1>1, <1>2 DEF Matches
<1>4. Len(S.saved) \in Nat /\ f.ctl \in Nat /\ \A k \in 1..Len(S.saved) : S.saved[k].ctl \in Nat
  BY <1>0, <1>1 DEF Matches, IsStack
<1>5. ~(i <= f.pend - 1)
  BY <1>2, <1>3, <1>4 DEF At
<1>6. f.pend \in 1..Len(S.saved)
  BY <1>2, <1>3, <1>4, <1>5
<1>7. ~(S.saved[f.pend].ctl < f.ctl)
  BY <1>2, <1>4, <1>6 DEF At
<1>8. f.pend < i => S.saved[f.pend].ctl < S.saved[i].ctl
  BY <1>0, <1>6 DEF Matches
<1>9. f.pend = i
  BY <1>2, <1>3, <1>4, <1>5, <1>6, <1>7, <1>8
<1> QED BY <1>0, <1>2, <1>3, <1>6, <1>9 DEF EntriesOK

\* What a frame restores, at its depth.
LEMMA FrameMarks ==
  ASSUME NEW S, Sound(S), NEW j \in 1..Len(S.nlx), NEW f, f = S.nlx[j]
  PROVE  /\ f.ctl \in Nat /\ f.ctl \in 2..Len(S.ctl) /\ LabelOK(f, S.ctl[f.ctl]) /\ MarksOK(S, f, f.ctl)
         /\ At(S.nlx, f.ctl, j - 1) /\ At(S.nlx, f.ctl + 1, j)
         /\ S.ctl[f.ctl].kind \in FrameKinds
         /\ Rest(S.handlers, SubSeq(S.handlers, 1, f.handler), f.ctl)
         /\ Rest(S.restarts, SubSeq(S.restarts, 1, f.restart), f.ctl)
         /\ Rest(S.errs, SubSeq(S.errs, 1, f.err), f.ctl) /\ Rest(S.mvs, SubSeq(S.mvs, 1, f.mv), f.ctl)
         /\ Rest(S.nlx, SubSeq(S.nlx, 1, j - 1), f.ctl)
         /\ f.type # "UWPROT" => Rest(S.saved, SubSeq(S.saved, 1, f.pend), f.ctl)
<1>0. EntriesOK(S) /\ StacksMatch(S) /\ IsStack(S.ctl) /\ Len(S.ctl) \in Nat /\ S.ctl[1].kind = "load"
  BY DEF Sound, ProgramOK, IsStack
<1>1. /\ IsStack(S.nlx) /\ IsStack(S.handlers) /\ IsStack(S.restarts) /\ IsStack(S.errs) /\ IsStack(S.mvs)
      /\ IsStack(S.saved) /\ f.ctl \in Nat
  BY <1>0, Depths
<1>2. f.ctl \in 1..Len(S.ctl) /\ S.ctl[f.ctl].kind \in FrameKinds
  BY <1>0 DEF StacksMatch, Matches
<1>3. f.ctl # 1
  BY <1>0, <1>2 DEF FrameKinds
<1>4. At(S.nlx, f.ctl, j - 1) /\ At(S.nlx, f.ctl + 1, j)
  BY <1>0, AtEntry DEF StacksMatch
<1>5. LabelOK(f, S.ctl[f.ctl]) /\ MarksOK(S, f, f.ctl)
  BY <1>0 DEF EntriesOK, FrameOK
<1>6. /\ At(S.handlers, f.ctl, f.handler) /\ At(S.restarts, f.ctl, f.restart) /\ At(S.errs, f.ctl, f.err)
      /\ At(S.mvs, f.ctl, f.mv) /\ (f.type # "UWPROT" => At(S.saved, f.ctl, f.pend))
  BY <1>5 DEF MarksOK
<1>7. /\ Rest(S.handlers, SubSeq(S.handlers, 1, f.handler), f.ctl)
      /\ Rest(S.restarts, SubSeq(S.restarts, 1, f.restart), f.ctl)
      /\ Rest(S.errs, SubSeq(S.errs, 1, f.err), f.ctl) /\ Rest(S.mvs, SubSeq(S.mvs, 1, f.mv), f.ctl)
      /\ f.type # "UWPROT" => Rest(S.saved, SubSeq(S.saved, 1, f.pend), f.ctl)
  BY <1>1, <1>6, RestCut
<1>8. Rest(S.nlx, SubSeq(S.nlx, 1, j - 1), f.ctl)
  BY <1>1, <1>4, RestCut
<1> QED BY <1>0, <1>1, <1>2, <1>3, <1>4, <1>5, <1>7, <1>8

\* An exit stops at a protected form: its cleanup begins.
LEMMA LandCleanup ==
  ASSUME NEW S, NEW T, Views(S, T), Sound(S), NEW j \in 1..Len(S.nlx), NEW f, f = S.nlx[j], f.type = "UWPROT",
         NEW p, NEW t, Land(j, p, t), Resolves(S, p, f.ctl, t)
  PROVE  Sound(T)
<1> DEFINE e == f.ctl
<1>1. /\ e \in Nat /\ e \in 2..Len(S.ctl) /\ MarksOK(S, f, e)
      /\ Rest(S.handlers, SubSeq(S.handlers, 1, f.handler), e) /\ Rest(S.restarts, SubSeq(S.restarts, 1, f.restart), e)
      /\ Rest(S.errs, SubSeq(S.errs, 1, f.err), e) /\ Rest(S.mvs, SubSeq(S.mvs, 1, f.mv), e)
      /\ Rest(S.nlx, SubSeq(S.nlx, 1, j - 1), e)
  BY FrameMarks
<1>2. f.pend \in 1..Len(S.saved) /\ S.saved[f.pend].ctl = e /\ RecordOK(S, S.saved[f.pend]) /\ At(S.saved, e, f.pend - 1)
  BY FrameRecord
<1>3. IsStack(S.ctl) /\ IsStack(S.saved) /\ IsStack(S.mvs) /\ Len(S.saved) \in Nat /\ DOMAIN saved = 1..Len(S.saved)
      /\ Len(S.ctl) \in Nat
  BY TopOf, Depths, StackSeq DEF IsStack, Views
<1>4. /\ T.nlx = SubSeq(S.nlx, 1, j - 1) /\ T.handlers = SubSeq(S.handlers, 1, f.handler) /\ T.active = f.mask
      /\ T.restarts = SubSeq(S.restarts, 1, f.restart) /\ T.errs = SubSeq(S.errs, 1, f.err) /\ T.pending = p
  BY DEF Land, FramesAfter, PendingAfter, Views
<1>5. T.ctl = Append(SubSeq(S.ctl, 1, e - 1), Cleanup(t))
  BY DEF Land, Views
<1>6. T.mvs = SubSeq(S.mvs, 1, f.mv) \o <<[ctl |-> e]>>
  BY DEF Land, Views
<1>7. T.saved = [SubSeq(S.saved, 1, f.pend) EXCEPT ![f.pend].pend = p, ![f.pend].entered = TRUE]
  BY <1>2, <1>3 DEF Land, RecordsAfter, Views
<1> HIDE DEF e
<1>8. SameBelow(S.ctl, T.ctl, e) /\ Len(T.ctl) = e /\ T.ctl[e] = Cleanup(t)
  <2>1. e \in 1..(Len(S.ctl) + 1)
    BY <1>1, <1>3
  <2>2. PICK x : x = Cleanup(t)
    OBVIOUS
  <2>3. PICK b : b = Append(SubSeq(S.ctl, 1, e - 1), x)
    OBVIOUS
  <2>4. SameBelow(S.ctl, b, e) /\ Len(b) = e /\ b[e] = x
    <3>1. PICK c : c = S.ctl
      OBVIOUS
    <3>2. PICK n : n = e
      OBVIOUS
    <3>3. IsStack(c)
      BY <1>3, <3>1
    <3>4. n \in 1..(Len(c) + 1)
      BY <2>1, <3>1, <3>2
    <3>5. b = Append(SubSeq(c, 1, n - 1), x)
      BY ONLY <2>3, <3>1, <3>2
    <3>6. SameBelow(c, b, n) /\ Len(b) = n /\ b[n] = x
      BY ONLY <3>3, <3>4, <3>5, CtlCutPush, Zenon
    <3> QED BY ONLY <3>1, <3>2, <3>6
  <2>5. T.ctl = b
    BY <1>5, <2>2, <2>3
  <2> QED BY <2>2, <2>4, <2>5
<1>9. Plus(S.mvs, T.mvs, e, [ctl |-> e])
  <2>1. PICK x : x = [ctl |-> e]
    OBVIOUS
  <2>2. PICK s : s = SubSeq(S.mvs, 1, f.mv)
    OBVIOUS
  <2>3. IsStack(s) /\ Rest(S.mvs, s, e)
    BY <1>1, <2>2 DEF Rest
  <2>4. T.mvs = Append(s, x)
    BY <1>6, <2>1, <2>2, <2>3, OnePush
  <2> QED BY <2>1, <2>3, <2>4, PlusPush
<1> DEFINE r == [pend |-> p, entered |-> TRUE, ctl |-> e]
<1>10. Plus(S.saved, T.saved, e, r)
  <2>1. PICK s : s = SubSeq(S.saved, 1, f.pend)
    OBVIOUS
  <2>2. f.pend \in 0..Len(S.saved) /\ f.pend >= 1
    BY <1>2, <1>3
  <2>3. IsStack(s) /\ Len(s) = f.pend /\ \A i \in 1..f.pend : s[i] = S.saved[i]
    BY <1>3, <2>1, <2>2, StackCut
  <2>4. PICK o : o = s[Len(s)]
    OBVIOUS
  <2>5. o = S.saved[f.pend] /\ o.ctl = e
    BY <1>2, <2>3, <2>4
  <2>6. o = [pend |-> o.pend, entered |-> o.entered, ctl |-> o.ctl]
    BY <1>2, <2>5 DEF RecordOK
  <2>7. T.saved = [s EXCEPT ![Len(s)].pend = p, ![Len(s)].entered = TRUE] /\ Len(s) >= 1
    BY <1>7, <2>1, <2>2, <2>3
  <2>8. /\ IsStack(T.saved) /\ Len(T.saved) = Len(s) /\ \A k \in 1..(Len(s) - 1) : T.saved[k] = s[k]
        /\ T.saved[Len(T.saved)] = [pend |-> p, entered |-> TRUE, ctl |-> o.ctl]
    <3>1. PICK b : b = T.saved
      OBVIOUS
    <3>2. b = [s EXCEPT ![Len(s)].pend = p, ![Len(s)].entered = TRUE] /\ Len(s) >= 1 /\ IsStack(s)
      BY <2>3, <2>7, <3>1
    <3>3. Marked(s, b, p, o.ctl)
      BY ONLY <2>4, <2>6, <3>2, RecordSet, Zenon
    <3> QED BY <3>1, <3>3 DEF Marked
  <2> HIDE DEF r
  <2>9. T.saved[Len(T.saved)] = r
    BY <2>5, <2>8 DEF r
  <2> QED BY <1>2, <1>3, <2>2, <2>3, <2>8, <2>9 DEF Plus
<1>11. r.ctl = e /\ r.entered = TRUE /\ r.pend = p /\ r = [pend |-> r.pend, entered |-> r.entered, ctl |-> r.ctl]
  OBVIOUS
<1> HIDE DEF r
<1>12. t \in 0..(e - 1) /\ t # 0 /\ r.entered = (t # 0) /\ Resolves(S, p, e, t)
  <2>1. Resolves(S, p, e, t)
    BY DEF e
  <2>2. t \in 1..(e - 1)
    BY <2>1 DEF Resolves
  <2>3. t \in 0..(e - 1) /\ t # 0
    BY <1>1, <2>2
  <2> QED BY <1>11, <2>1, <2>3
<1>13. MaskOK(S, T.active, e)
  BY <1>1, <1>4 DEF MarksOK
<1>14. /\ Rest(S.nlx, T.nlx, e) /\ Rest(S.handlers, T.handlers, e) /\ Rest(S.restarts, T.restarts, e) /\ Rest(S.errs, T.errs, e)
  BY <1>1, <1>4
<1> QED BY <1>1, <1>4, <1>8, <1>9, <1>10, <1>11, <1>12, <1>13, <1>14, CleanupSound

\* An exit arrives at its target.
LEMMA LandTarget ==
  ASSUME NEW S, NEW T, Views(S, T), Sound(S), NEW j \in 1..Len(S.nlx), NEW f, f = S.nlx[j], f.type # "UWPROT",
         NEW p, NEW t, Land(j, p, t), f.owner = "C" => Parked(S, p, f.ctl)
  PROVE  Sound(T)
<1> DEFINE d == f.ctl
<1>1. /\ d \in Nat /\ d \in 2..Len(S.ctl) /\ LabelOK(f, S.ctl[d]) /\ MarksOK(S, f, d) /\ S.ctl[d].kind \in FrameKinds
      /\ Rest(S.handlers, SubSeq(S.handlers, 1, f.handler), d) /\ Rest(S.restarts, SubSeq(S.restarts, 1, f.restart), d)
      /\ Rest(S.errs, SubSeq(S.errs, 1, f.err), d) /\ Rest(S.mvs, SubSeq(S.mvs, 1, f.mv), d)
      /\ Rest(S.nlx, SubSeq(S.nlx, 1, j - 1), d) /\ Rest(S.saved, SubSeq(S.saved, 1, f.pend), d)
      /\ At(S.nlx, d + 1, j)
  BY FrameMarks
<1>2. StacksMatch(S) /\ IsStack(S.ctl) /\ Len(S.ctl) \in Nat /\ IsStack(S.nlx) /\ IsStack(S.mvs)
  BY TopOf, Depths DEF IsStack
<1>3. /\ T.handlers = SubSeq(S.handlers, 1, f.handler) /\ T.active = f.mask
      /\ T.restarts = SubSeq(S.restarts, 1, f.restart) /\ T.errs = SubSeq(S.errs, 1, f.err)
      /\ T.pending = IF f.owner = "C" THEN p ELSE NoThrow
      /\ T.saved = SubSeq(S.saved, 1, f.pend)
  BY DEF Land, PendingAfter, RecordsAfter, Views
<1>4. T.mvs = SubSeq(S.mvs, 1, f.mv)
  <2>1. T.mvs = SubSeq(S.mvs, 1, f.mv) \o << >>
    BY DEF Land, Views
  <2>2. PICK s : s = SubSeq(S.mvs, 1, f.mv)
    OBVIOUS
  <2>3. s \in Seq({s[i] : i \in 1..Len(s)})
    <3>1. Rest(S.mvs, s, d)
      BY <1>1, <2>2
    <3>2. IsStack(s)
      BY <3>1 DEF Rest
    <3> QED BY <3>2, StackSeq
  <2>4. s \o << >> = s
    BY <2>3
  <2> QED BY <2>1, <2>2, <2>4
<1>5. MaskOK(S, T.active, d) /\ Parked(S, T.pending, d)
  <2>1. Parked(S, NoThrow, d)
    BY DEF Parked, NoThrow
  <2> QED BY <1>1, <1>3, <2>1 DEF MarksOK
<1>6. CASE f.type # "TAGBODY"
  <2>1. T.nlx = SubSeq(S.nlx, 1, j - 1) /\ T.ctl = SubSeq(S.ctl, 1, d - 1)
    BY <1>6 DEF Land, FramesAfter, Views
  <2> HIDE DEF d
  <2>2. d \in 2..(Len(S.ctl) + 1) /\ d \in 1..(Len(S.ctl) + 1)
    BY <1>1, <1>2
  <2>3. SameBelow(S.ctl, T.ctl, d) /\ Len(T.ctl) = d - 1
    BY <1>2, <2>1, <2>2, CtlCut
  <2>4. Cut(S, T, d)
    BY <1>1, <1>3, <1>4, <2>1, <2>3 DEF Cut
  <2> QED BY <1>5, <2>2, <2>4, CutSound
<1>7. CASE f.type = "TAGBODY"
  <2>1. T.nlx = SubSeq(S.nlx, 1, j) /\ T.ctl = SubSeq(S.ctl, 1, d)
    BY <1>7 DEF Land, FramesAfter, Views
  <2>2. S.ctl[d].kind = "tagbody"
    BY <1>1, <1>7 DEF LabelOK
  <2> HIDE DEF d
  <2>3. d + 1 \in 2..(Len(S.ctl) + 1) /\ d + 1 \in 1..(Len(S.ctl) + 1) /\ d = (d + 1) - 1 /\ d \in 1..Len(S.ctl)
    BY <1>1, <1>2
  <2>4. SameBelow(S.ctl, T.ctl, d + 1) /\ Len(T.ctl) = (d + 1) - 1
    BY <1>2, <2>1, <2>3, CtlCut
  <2>5. ASSUME NEW s, NEW K, Matches(s, S.ctl, K), "tagbody" \notin K, NEW b, Rest(s, b, d) PROVE Rest(s, b, d + 1)
    <3>1. At(s, d + 1, Len(b))
      BY <1>1, <1>2, <2>2, <2>5, AtSkip DEF Rest
    <3> QED BY <2>5, <3>1 DEF Rest
  <2>6. /\ Rest(S.handlers, T.handlers, d + 1) /\ Rest(S.restarts, T.restarts, d + 1)
        /\ Rest(S.errs, T.errs, d + 1) /\ Rest(S.mvs, T.mvs, d + 1) /\ Rest(S.saved, T.saved, d + 1)
    <3>1. /\ Matches(S.handlers, S.ctl, {"hbind", "hcase"})
          /\ Matches(S.restarts, S.ctl, {"rcase", "warn"}) /\ Matches(S.errs, S.ctl, {"load"})
          /\ Matches(S.mvs, S.ctl, {"cleanup"}) /\ Matches(S.saved, S.ctl, {"protected", "cleanup"})
      BY <1>2 DEF StacksMatch
    <3> QED BY <1>1, <1>3, <1>4, <2>5, <3>1
  <2>7. Rest(S.nlx, T.nlx, d + 1)
    BY <1>1, <1>2, <2>1, RestCut
  <2>8. Cut(S, T, d + 1)
    BY <2>4, <2>6, <2>7 DEF Cut
  <2>9. MaskOK(S, T.active, d + 1)
    BY <1>2, <1>5, <2>2, <2>3, MaskUp
  <2>10. Parked(S, T.pending, d + 1)
    BY <1>1, <1>5, <2>2, ParkedUp
  <2> QED BY <2>3, <2>8, <2>9, <2>10, CutSound
<1> QED BY <1>6, <1>7-----------------------------------------------------------------------------
(***************************************************************************)
(* Exits.                                                                  *)
(***************************************************************************)
\* The innermost frame of a set of frames.
LEMMA Innermost ==
  ASSUME NEW S, NEW T, Views(S, T), Sound(S), NEW F, F \subseteq DOMAIN nlx, F # {}
  PROVE  Max(F) \in F /\ Max(F) \in 1..Len(S.nlx) /\ \A k \in F : k <= Max(F)
<1>1. DOMAIN nlx = 1..Len(S.nlx) /\ Len(S.nlx) \in Nat
  BY TopOf, Depths, StackSeq DEF Views, IsStack
<1>2. F \in SUBSET Nat /\ \A k \in F : k <= Len(S.nlx)
  BY <1>1
<1>3. Max(F) \in F /\ \A k \in F : k <= Max(F)
  BY <1>1, <1>2, MaxProperties
<1> QED BY <1>1, <1>3

\* A transfer leaves the machine sound when its target is right for every
\* cleanup that may stop it on the way.
LEMMA TransferSound ==
  ASSUME NEW S, NEW T, Views(S, T), Sound(S), NEW i \in 1..Len(S.nlx), S.nlx[i].type # "UWPROT",
         NEW p, NEW rest, Transfer(i, p, rest),
         \A j \in 1..Len(S.nlx) : i < j /\ S.nlx[j].type = "UWPROT" => Resolves(S, p, S.nlx[j].ctl, S.nlx[i].ctl),
         S.nlx[i].owner = "C" => Parked(S, rest, S.nlx[i].ctl)
  PROVE  Sound(T)
<1> DEFINE stops == {j \in FramesOf({"UWPROT"}) : j > i}
<1>1. IF stops # {} THEN Land(Max(stops), p, nlx[i].ctl) ELSE Land(i, rest, nlx[i].ctl)
  BY DEF Transfer
<1>2. stops \subseteq DOMAIN nlx /\ \A j \in stops : nlx[j].type = "UWPROT" /\ i < j
  BY TopOf, Depths, StackSeq DEF FramesOf, Views, IsStack
<1> HIDE DEF stops
<1>3. CASE stops # {}
  <2>1. PICK j : j = Max(stops)
    OBVIOUS
  <2>2. j \in stops /\ j \in 1..Len(S.nlx)
    BY <1>2, <1>3, <2>1, Innermost
  <2>3. S.nlx[j].type = "UWPROT" /\ i < j
    BY <1>2, <2>2 DEF Views
  <2>4. Resolves(S, p, S.nlx[j].ctl, S.nlx[i].ctl)
    BY <2>2, <2>3
  <2>5. Land(j, p, S.nlx[i].ctl)
    BY <1>1, <1>3, <2>1 DEF Views
  <2> QED BY <2>2, <2>3, <2>4, <2>5, LandCleanup
<1>4. CASE stops = {}
  <2>1. Land(i, rest, S.nlx[i].ctl)
    BY <1>1, <1>4 DEF Views
  <2> QED BY <2>1, LandTarget
<1> QED BY <1>3, <1>4

\* Where a tag may come from.
LEMMA TagOf ==
  ASSUME NEW S, Sound(S), NEW j \in 1..Len(S.nlx), NEW f, f = S.nlx[j]
  PROVE  /\ f.type = "CATCH" => f.tag \in CatchTags \union RestartTags \/ (f.owner = "C" /\ f.tag = -f.ctl /\ f.ctl \in Nat /\ f.ctl > 0)
         /\ f.type = "BLOCK" => f.tag \in BlockNames
         /\ f.type = "TAGBODY" => f.tag \in TagbodyIds
         /\ f.owner = "C" => f.type = "CATCH" /\ f.tag = -f.ctl /\ f.ctl \in Nat /\ f.ctl > 0
<1>1. f.ctl \in Nat /\ f.ctl \in 2..Len(S.ctl) /\ LabelOK(f, S.ctl[f.ctl])
  BY FrameMarks
<1>2. f.ctl \in 1..Len(S.ctl) /\ f.ctl > 0
  BY <1>1
<1>3. ConstructOK(S, f.ctl)
  BY <1>2 DEF Sound, ProgramOK
<1> QED BY <1>1, <1>2, <1>3 DEF LabelOK, ConstructOK

\* With distinct tags, frames that share a tag share their type.
LEMMA TagType ==
  ASSUME NEW S, Sound(S), DistinctTags, NEW i \in 1..Len(S.nlx), NEW j \in 1..Len(S.nlx),
         S.nlx[i].type \in TaggedTypes, S.nlx[j].type \in TaggedTypes, S.nlx[i].tag = S.nlx[j].tag
  PROVE  S.nlx[i].type = S.nlx[j].type
<1>1. PICK f, g : f = S.nlx[i] /\ g = S.nlx[j]
  OBVIOUS
<1>2. /\ f.type = "CATCH" => f.tag \in CatchTags \union RestartTags \/ (f.tag = -f.ctl /\ f.ctl \in Nat /\ f.ctl > 0)
      /\ f.type = "BLOCK" => f.tag \in BlockNames
      /\ f.type = "TAGBODY" => f.tag \in TagbodyIds
  BY <1>1, TagOf
<1>3. /\ g.type = "CATCH" => g.tag \in CatchTags \union RestartTags \/ (g.tag = -g.ctl /\ g.ctl \in Nat /\ g.ctl > 0)
      /\ g.type = "BLOCK" => g.tag \in BlockNames
      /\ g.type = "TAGBODY" => g.tag \in TagbodyIds
  BY <1>1, TagOf
<1>4. \A x \in Nat : x > 0 => -x \notin BlockNames \union TagbodyIds
  BY ExitConstants
<1> QED BY <1>1, <1>2, <1>3, <1>4 DEF DistinctTags, TaggedTypes

\* A THROW, RETURN-FROM or GO.
LEMMA ExitByTagSound ==
  ASSUME NEW S, NEW T, Views(S, T), Sound(S), NEW type \in TaggedTypes, NEW tag, ExitByTag(type, tag),
         \A i \in 1..Len(S.nlx) : S.nlx[i].owner = "C" /\ S.nlx[i].tag = tag => Parked(S, S.pending, S.nlx[i].ctl)
  PROVE  Sound(T)
<1> DEFINE F == InnermostFrame(type, tag)
<1>1. F # {} /\ F \subseteq DOMAIN nlx /\ \A i \in DOMAIN nlx : i \in F <=> nlx[i].type = type /\ nlx[i].tag = tag
  BY DEF ExitByTag, InnermostFrame, FramesOf
<1>2. Transfer(Max(F), Throw1(tag), pending)
  BY DEF ExitByTag
<1> HIDE DEF F
<1>3. PICK i : i = Max(F)
  OBVIOUS
<1>4. i \in F /\ i \in 1..Len(S.nlx) /\ \A k \in F : k <= i
  BY <1>1, <1>3, Innermost
<1>5. DOMAIN nlx = 1..Len(S.nlx) /\ Len(S.nlx) \in Nat /\ Matches(S.nlx, S.ctl, FrameKinds)
  BY TopOf, Depths, StackSeq DEF Views, IsStack, StacksMatch
<1>6. S.nlx[i].type = type /\ S.nlx[i].tag = tag /\ type # "UWPROT"
  BY <1>1, <1>4, <1>5 DEF Views, TaggedTypes
<1>7. ASSUME NEW j \in 1..Len(S.nlx), i < j PROVE Resolves(S, Throw1(tag), S.nlx[j].ctl, S.nlx[i].ctl)
  <2>1. PICK p : p = Throw1(tag)
    OBVIOUS
  <2>2. p.kind = 1 /\ p.tag = tag
    BY <2>1 DEF Throw1
  <2>3. S.nlx[i].ctl \in 1..(S.nlx[j].ctl - 1)
    <3>1. S.nlx[i].ctl < S.nlx[j].ctl /\ S.nlx[i].ctl \in 1..Len(S.ctl) /\ S.nlx[j].ctl \in 1..Len(S.ctl)
      BY <1>4, <1>5, <1>7 DEF Matches
    <3> QED BY <3>1
  <2>4. ASSUME DistinctTags, NEW m \in 1..Len(S.nlx), i < m, S.nlx[m].type \in TaggedTypes PROVE S.nlx[m].tag # p.tag
    <3>1. SUFFICES ASSUME S.nlx[m].tag = tag PROVE FALSE
      BY <2>2
    <3>2. S.nlx[m].type = type
      BY <1>4, <1>6, <2>4, <3>1, TagType
    <3>3. m \in F
      BY <1>1, <1>5, <3>1, <3>2 DEF Views
    <3> QED BY <1>4, <1>5, <2>4, <3>3
  <2>5. ByTag(S, p, S.nlx[j].ctl, S.nlx[i].ctl)
    BY <1>4, <1>6, <2>2, <2>4 DEF ByTag
  <2> QED BY <2>1, <2>2, <2>3, <2>5 DEF Resolves
<1>8. Transfer(i, Throw1(tag), S.pending)
  BY <1>2, <1>3 DEF Views
<1>9. S.nlx[i].type # "UWPROT" /\ (S.nlx[i].owner = "C" => Parked(S, S.pending, S.nlx[i].ctl))
  BY <1>4, <1>6
<1> QED BY <1>4, <1>7, <1>8, <1>9, TransferSound

\* THROW, RETURN-FROM and GO never aim at the catch of WARN.
LEMMA ThrowsSound ==
  ASSUME NEW S, NEW T, Views(S, T), Sound(S), NEW tag,
         \/ tag \in CatchTags /\ Throw(tag)
         \/ tag \in BlockNames /\ ReturnFrom(tag)
         \/ tag \in TagbodyIds /\ Go(tag)
  PROVE  Sound(T)
<1>1. PICK type \in TaggedTypes : ExitByTag(type, tag)
  BY DEF Throw, ReturnFrom, Go, TaggedTypes
<1>2. tag \in Nat \ {0}
  BY ExitConstants
<1>3. ASSUME NEW i \in 1..Len(S.nlx), S.nlx[i].owner = "C", S.nlx[i].tag = tag PROVE FALSE
  <2>1. tag = -S.nlx[i].ctl /\ S.nlx[i].ctl \in Nat /\ S.nlx[i].ctl > 0
    BY <1>3, TagOf
  <2> QED BY <1>2, <2>1
<1> QED BY <1>1, <1>3, ExitByTagSound

\* MUFFLE-WARNING does not leave a cleanup that interrupts an exit.
LEMMA InvokeRestartSound ==
  ASSUME NEW S, NEW T, Views(S, T), Sound(S), Served, NEW r \in DOMAIN restarts, InvokeRestart(r)
  PROVE  Sound(T)
<1> DEFINE tag == S.restarts[r].tag
           k == S.restarts[r].ctl
<1>1. ExitByTag("CATCH", tag) /\ "CATCH" \in TaggedTypes
  BY DEF InvokeRestart, Views, TaggedTypes
<1>2. /\ DOMAIN restarts = 1..Len(S.restarts) /\ StacksMatch(S) /\ Len(S.ctl) \in Nat /\ EntriesOK(S)
      /\ Parked(S, S.pending, Len(S.ctl) + 1)
  BY TopOf, Depths, StackSeq DEF Views, IsStack
<1>3. k \in 1..Len(S.ctl) /\ S.ctl[k].kind \in {"rcase", "warn"} /\ tag = S.ctl[k].tag
  BY <1>2 DEF StacksMatch, Matches, EntriesOK
<1>4. ConstructOK(S, k)
  BY <1>3 DEF Sound, ProgramOK
<1>5. tag > 0 \/ \A m \in k..Len(S.ctl) : ~(S.ctl[m].kind = "cleanup" /\ S.ctl[m].exit # 0)
  <2>1. "muffle" \notin Shapes
    BY DEF Served
  <2> QED BY <2>1 DEF InvokeRestart, Interrupting, Depth, Views
<1>6. ASSUME NEW i \in 1..Len(S.nlx), S.nlx[i].owner = "C", S.nlx[i].tag = tag
      PROVE  Parked(S, S.pending, S.nlx[i].ctl)
  <2>1. tag = -S.nlx[i].ctl /\ S.nlx[i].ctl \in Nat /\ S.nlx[i].ctl > 0
    BY <1>6, TagOf
  <2>2. ~(tag > 0) /\ tag \notin RestartTags
    BY <2>1, ExitConstants
  <2>3. tag = -k
    BY <1>3, <1>4, <2>2 DEF ConstructOK
  <2>4. S.nlx[i].ctl = k
    <3>1. PICK x \in Nat : x = S.nlx[i].ctl
      BY <2>1
    <3>2. PICK y \in Nat : y = k
      BY <1>2, <1>3
    <3> HIDE DEF k, tag
    <3>3. -x = -y
      BY <2>1, <2>3, <3>1, <3>2
    <3>4. x = y
      BY <3>3
    <3> QED BY <3>1, <3>2, <3>4
  <2> HIDE DEF k
  <2>5. SUFFICES ASSUME S.pending.kind # 0 PROVE Parked(S, S.pending, k)
    BY <2>4 DEF Parked
  <2>6. PICK m \in 1..((Len(S.ctl) + 1) - 1) :
        /\ S.ctl[m].kind = "cleanup" /\ S.ctl[m].exit # 0 /\ Resolves(S, S.pending, m, S.ctl[m].exit)
        /\ \A x \in (m + 1)..((Len(S.ctl) + 1) - 1) : S.ctl[x].kind \notin {"protected", "cleanup"}
    BY <1>2, <2>5 DEF Parked
  <2>7. m \in 1..(k - 1)
    BY <1>2, <1>3, <1>5, <2>2, <2>6
  <2>8. \A x \in (m + 1)..(k - 1) : x \in (m + 1)..((Len(S.ctl) + 1) - 1)
    BY <1>2, <1>3
  <2> QED BY <2>6, <2>7, <2>8 DEF Parked
<1> QED BY <1>1, <1>6, ExitByTagSound

\* A HANDLER-CASE takes the condition.
LEMMA TakeClauseSound ==
  ASSUME NEW S, NEW T, Views(S, T), Sound(S), NEW h \in DOMAIN handlers, TakeClause(h)
  PROVE  Sound(T)
<1> DEFINE i == S.handlers[h].frame
<1>1. /\ DOMAIN handlers = 1..Len(S.handlers) /\ StacksMatch(S) /\ EntriesOK(S) /\ Len(S.nlx) \in Nat
  BY TopOf, Depths, StackSeq DEF Views, IsStack
<1>2. HandlerOK(S, S.handlers[h])
  BY <1>1 DEF EntriesOK
<1>3. i # 0 /\ Transfer(i, ClauseThrow(i), S.pending)
  BY DEF TakeClause, Views
<1>4. i \in 1..Len(S.nlx) /\ S.nlx[i].ctl = S.handlers[h].ctl /\ S.ctl[S.handlers[h].ctl].kind = "hcase"
  BY <1>2, <1>3 DEF HandlerOK
<1> HIDE DEF i
<1>5. S.nlx[i].type = "HANDLER_CASE" /\ S.nlx[i].owner # "C"
  <2>1. LabelOK(S.nlx[i], S.ctl[S.nlx[i].ctl])
    BY <1>1, <1>4 DEF EntriesOK, FrameOK
  <2>2. S.ctl[S.nlx[i].ctl].kind = "hcase"
    BY <1>4
  <2> QED BY <2>1, <2>2 DEF LabelOK
<1>6. ASSUME NEW j \in 1..Len(S.nlx), i < j PROVE Resolves(S, ClauseThrow(i), S.nlx[j].ctl, S.nlx[i].ctl)
  <2>1. PICK p : p = ClauseThrow(i)
    OBVIOUS
  <2>2. p.kind = 3 /\ p.tag = i
    BY <2>1 DEF ClauseThrow
  <2>3. S.nlx[i].ctl \in 1..(S.nlx[j].ctl - 1)
    <3>1. S.nlx[i].ctl < S.nlx[j].ctl /\ S.nlx[i].ctl \in 1..Len(S.ctl) /\ S.nlx[j].ctl \in 1..Len(S.ctl)
      BY <1>1, <1>4, <1>6 DEF StacksMatch, Matches
    <3> QED BY <3>1
  <2> QED BY <1>4, <1>5, <2>1, <2>2, <2>3 DEF Resolves, ByClause
<1> QED BY <1>3, <1>4, <1>5, <1>6, TransferSound

\* An index that is one of a stack's bounds it.
LEMMA MinMark ==
  ASSUME NEW n \in Nat, NEW m \in 0..n
  PROVE  Min({n, m}) = m
<1>1. m \in {n, m} /\ \A y \in {n, m} : m <= y
  OBVIOUS
<1>2. \E x \in {n, m} : \A y \in {n, m} : x <= y
  BY <1>1
<1>3. Min({n, m}) \in {n, m} /\ \A y \in {n, m} : Min({n, m}) <= y
  BY <1>2 DEF Min
<1>4. PICK z : z = Min({n, m})
  OBVIOUS
<1>5. z \in {n, m} /\ z <= m /\ z <= n
  BY <1>3, <1>4
<1> QED BY <1>4, <1>5

\* Nothing of a stack belongs to the toplevel.
LEMMA RestNone ==
  ASSUME NEW c, Len(c) \in Nat, NEW K, NEW s, Matches(s, c, K), c[1].kind \notin K
  PROVE  Rest(s, <<>>, 2)
<1>1. IsStack(<<>>) /\ Len(<<>>) = 0
  BY DEF IsStack
<1>2. \A i \in 1..Len(s) : ~(s[i].ctl < 2)
  BY DEF Matches
<1>3. At(s, 2, 0)
  BY <1>2 DEF At, Matches, IsStack
<1> QED BY <1>1, <1>3 DEF Rest

\* The jump to the error frame of a nested LOAD.
LEMMA NestedJumpSound ==
  ASSUME NEW S, NEW T, Views(S, T), Sound(S), NEW L, L = S.errs[Len(S.errs)].ctl, Len(S.errs) > 1,
         NEW records, Rest(S.saved, records, L + 1), Parked(S, T.pending, L + 1), ErrorFrameJump(records)
  PROVE  Sound(T)
<1> DEFINE e == S.errs[Len(S.errs)]
<1>1. /\ Len(S.errs) \in Nat /\ Len(S.errs) >= 1 /\ L \in 1..Len(S.ctl) /\ S.ctl[L].kind = "load"
      /\ IsStack(S.ctl) /\ Len(S.ctl) \in Nat /\ StacksMatch(S) /\ EntriesOK(S)
  BY LastLoad, TopOf DEF IsStack
<1>2. ErrorFrameOK(S, e) /\ e.ctl = L
  BY <1>1 DEF EntriesOK
<1>3. /\ At(S.handlers, L, e.handler) /\ At(S.restarts, L, e.restart) /\ At(S.nlx, L, e.nlx)
      /\ At(S.mvs, L, e.mv) /\ MaskOK(S, e.mask, L)
  BY <1>2 DEF ErrorFrameOK
<1>4. /\ T.nlx = SubSeq(S.nlx, 1, e.nlx)
      /\ T.handlers = SubSeq(S.handlers, 1, Min({Len(S.handlers), e.handler}))
      /\ T.active = e.mask
      /\ T.restarts = SubSeq(S.restarts, 1, Min({Len(S.restarts), e.restart}))
      /\ T.mvs = SubSeq(S.mvs, 1, e.mv)
      /\ T.saved = records
      /\ T.ctl = SubSeq(S.ctl, 1, L) /\ T.errs = S.errs
  BY <1>2 DEF ErrorFrameJump, Views
<1> HIDE DEF e
<1>5. /\ Matches(S.nlx, S.ctl, FrameKinds) /\ Matches(S.handlers, S.ctl, {"hbind", "hcase"})
      /\ Matches(S.restarts, S.ctl, {"rcase", "warn"}) /\ Matches(S.errs, S.ctl, {"load"})
      /\ Matches(S.mvs, S.ctl, {"cleanup"})
  BY <1>1 DEF StacksMatch
<1>6. PICK x : x = L + 1
  OBVIOUS
<1>7. x \in 2..(Len(S.ctl) + 1) /\ x \in Nat /\ L \in Nat /\ x - 1 = L /\ x \in 1..(Len(S.ctl) + 1)
  BY <1>1, <1>6
<1>8. /\ S.ctl[L].kind \notin FrameKinds /\ S.ctl[L].kind \notin {"hbind", "hcase"}
      /\ S.ctl[L].kind \notin {"rcase", "warn"} /\ S.ctl[L].kind \notin {"cleanup"}
      /\ S.ctl[L].kind # "signal"
  BY <1>1 DEF FrameKinds
<1>9. At(S.handlers, x, e.handler)
  BY <1>1, <1>3, <1>5, <1>6, <1>7, <1>8, AtSkip
<1>10. At(S.restarts, x, e.restart)
  BY <1>1, <1>3, <1>5, <1>6, <1>7, <1>8, AtSkip
<1>11. At(S.nlx, x, e.nlx)
  BY <1>1, <1>3, <1>5, <1>6, <1>7, <1>8, AtSkip
<1>12. At(S.mvs, x, e.mv)
  BY <1>1, <1>3, <1>5, <1>6, <1>7, <1>8, AtSkip
<1>13. /\ IsStack(S.nlx) /\ IsStack(S.handlers) /\ IsStack(S.restarts) /\ IsStack(S.errs) /\ IsStack(S.mvs)
       /\ Len(S.handlers) \in Nat /\ Len(S.restarts) \in Nat
  BY <1>5 DEF Matches, IsStack
<1>14. Rest(S.nlx, T.nlx, x)
  BY <1>4, <1>11, <1>13, RestCut
<1>15. Rest(S.mvs, T.mvs, x)
  BY <1>4, <1>12, <1>13, RestCut
<1>16. Rest(S.handlers, T.handlers, x)
  <2>1. e.handler \in 0..Len(S.handlers)
    BY <1>9 DEF At
  <2>2. T.handlers = SubSeq(S.handlers, 1, e.handler)
    BY <1>4, <1>13, <2>1, MinMark
  <2> QED BY <1>9, <1>13, <2>2, RestCut
<1>17. Rest(S.restarts, T.restarts, x)
  <2>1. e.restart \in 0..Len(S.restarts)
    BY <1>10 DEF At
  <2>2. T.restarts = SubSeq(S.restarts, 1, e.restart)
    BY <1>4, <1>13, <2>1, MinMark
  <2> QED BY <1>10, <1>13, <2>2, RestCut
<1>18. Rest(S.errs, T.errs, x)
  <2>1. Len(S.errs) \in 1..Len(S.errs)
    BY <1>1
  <2>2. At(S.errs, S.errs[Len(S.errs)].ctl + 1, Len(S.errs))
    BY <1>1, <1>5, <2>1, AtEntry
  <2>3. At(S.errs, x, Len(S.errs))
    BY <1>6, <2>2
  <2> QED BY <1>4, <1>13, <2>3 DEF Rest
<1>19. Rest(S.saved, T.saved, x)
  BY <1>4, <1>6
<1>20. SameBelow(S.ctl, T.ctl, x) /\ Len(T.ctl) = x - 1
  BY <1>1, <1>4, <1>7, CtlCut
<1>21. MaskOK(S, T.active, x)
  <2>1. MaskOK(S, e.mask, L + 1)
    BY <1>1, <1>3, <1>8, MaskUp
  <2> QED BY <1>4, <1>6, <2>1
<1>22. Cut(S, T, x)
  BY <1>14, <1>15, <1>16, <1>17, <1>18, <1>19, <1>20 DEF Cut
<1>23. Parked(S, T.pending, x)
  BY <1>6
<1> QED BY <1>7, <1>21, <1>22, <1>23, CutSound

\* The jump to the toplevel.
LEMMA OuterJumpSound ==
  ASSUME NEW S, NEW T, Views(S, T), Sound(S), ~(Len(S.errs) > 1), T.pending = NoThrow,
         NEW records, ErrorFrameJump(records)
  PROVE  Sound(T)
<1>1. /\ Len(S.errs) = 1 /\ S.errs[Len(S.errs)].ctl = 1 /\ S.ctl[1].kind = "load"
      /\ IsStack(S.ctl) /\ Len(S.ctl) \in Nat /\ StacksMatch(S) /\ Len(S.ctl) >= 1
  <2>1. /\ Len(S.errs) \in Nat /\ Len(S.errs) >= 1
        /\ S.errs[Len(S.errs)].ctl \in 1..Len(S.ctl) /\ S.ctl[S.errs[Len(S.errs)].ctl].kind = "load"
        /\ Len(S.errs) > 1 <=> S.errs[Len(S.errs)].ctl > 1
    BY LastLoad
  <2>2. Len(S.ctl) \in Nat /\ Len(S.ctl) \in 1..MaxDepth /\ StacksMatch(S) /\ IsStack(S.ctl)
    BY TopOf
  <2>3. Len(S.errs) = 1 /\ S.errs[Len(S.errs)].ctl = 1
    <3>1. PICK n : n = Len(S.errs)
      OBVIOUS
    <3>2. PICK x : x = S.errs[Len(S.errs)].ctl
      OBVIOUS
    <3>3. n \in Nat /\ n >= 1 /\ ~(n > 1)
      BY <2>1, <3>1
    <3>4. x \in 1..Len(S.ctl) /\ ~(x > 1)
      BY <2>1, <3>2
    <3>5. n = 1 /\ x = 1
      BY <2>2, <3>3, <3>4
    <3> QED BY <3>1, <3>2, <3>5
  <2> QED BY <2>1, <2>2, <2>3
<1>2. /\ T.nlx = <<>> /\ T.handlers = <<>> /\ T.restarts = <<>> /\ T.mvs = <<>> /\ T.saved = <<>>
      /\ T.active = S.active /\ T.ctl = SubSeq(S.ctl, 1, 1) /\ T.errs = S.errs
  BY <1>1 DEF ErrorFrameJump, Views
<1>3. /\ Matches(S.nlx, S.ctl, FrameKinds) /\ Matches(S.handlers, S.ctl, {"hbind", "hcase"})
      /\ Matches(S.restarts, S.ctl, {"rcase", "warn"}) /\ Matches(S.errs, S.ctl, {"load"})
      /\ Matches(S.mvs, S.ctl, {"cleanup"}) /\ Matches(S.saved, S.ctl, {"protected", "cleanup"})
  BY <1>1 DEF StacksMatch
<1>4. /\ S.ctl[1].kind \notin FrameKinds /\ S.ctl[1].kind \notin {"hbind", "hcase"}
      /\ S.ctl[1].kind \notin {"rcase", "warn"} /\ S.ctl[1].kind \notin {"cleanup"}
      /\ S.ctl[1].kind \notin {"protected", "cleanup"}
  BY <1>1 DEF FrameKinds
<1>5. Rest(S.nlx, T.nlx, 2)
  BY <1>1, <1>2, <1>3, <1>4, RestNone
<1>6. Rest(S.handlers, T.handlers, 2)
  BY <1>1, <1>2, <1>3, <1>4, RestNone
<1>7. Rest(S.restarts, T.restarts, 2)
  BY <1>1, <1>2, <1>3, <1>4, RestNone
<1>8. Rest(S.mvs, T.mvs, 2)
  BY <1>1, <1>2, <1>3, <1>4, RestNone
<1>9. Rest(S.saved, T.saved, 2)
  BY <1>1, <1>2, <1>3, <1>4, RestNone
<1>10. Rest(S.errs, T.errs, 2)
  <2>1. 1 \in 1..Len(S.errs) /\ IsStack(S.errs)
    BY <1>1, <1>3 DEF Matches
  <2>2. At(S.errs, S.errs[1].ctl + 1, 1)
    BY <1>1, <1>3, <2>1, AtEntry
  <2>3. At(S.errs, 2, Len(S.errs))
    BY <1>1, <2>2
  <2> QED BY <1>2, <2>1, <2>3 DEF Rest
<1>11. SameBelow(S.ctl, T.ctl, 2) /\ Len(T.ctl) = 2 - 1
  <2>1. 2 \in 1..(Len(S.ctl) + 1) /\ 2 - 1 = 1
    BY <1>1
  <2>2. SameBelow(S.ctl, SubSeq(S.ctl, 1, 2 - 1), 2) /\ Len(SubSeq(S.ctl, 1, 2 - 1)) = 2 - 1
    BY <1>1, <2>1, CtlCut
  <2> QED BY <1>2, <2>1, <2>2
<1>12. MaskOK(S, T.active, 2)
  <2>1. \A i \in 1..Len(S.handlers) : ~(S.handlers[i].ctl < 2)
    BY <1>3, <1>4 DEF Matches
  <2> QED BY <2>1 DEF MaskOK
<1>13. Parked(S, T.pending, 2)
  BY DEF Parked, NoThrow
<1>14. Cut(S, T, 2)
  BY <1>5, <1>6, <1>7, <1>8, <1>9, <1>10, <1>11 DEF Cut
<1>15. 2 \in 2..(Len(S.ctl) + 1)
  BY <1>1
<1> QED BY <1>12, <1>13, <1>14, <1>15, CutSound

\* A protected form has its frame.
LEMMA ProtectedFrame ==
  ASSUME NEW S, Sound(S), NEW k \in 1..Len(S.ctl), S.ctl[k].kind = "protected"
  PROVE  \E j \in 1..Len(S.nlx) : S.nlx[j].ctl = k /\ S.nlx[j].type = "UWPROT"
<1>1. Matches(S.nlx, S.ctl, FrameKinds) /\ "protected" \in FrameKinds
  BY DEF Sound, StacksMatch, FrameKinds
<1>2. PICK j \in 1..Len(S.nlx) : S.nlx[j].ctl = k
  BY <1>1 DEF Matches
<1>3. LabelOK(S.nlx[j], S.ctl[k])
  BY <1>2, FrameMarks
<1> QED BY <1>2, <1>3 DEF LabelOK

\* An error that no handler took.
LEMMA ErrorUnhandledSound ==
  ASSUME NEW S, NEW T, Views(S, T), Sound(S), ErrorUnhandled
  PROVE  Sound(T)
<1> DEFINE e == S.errs[Len(S.errs)]
           d == Len(S.ctl)
           F == {j \in FramesOf({"UWPROT"}) : Inside(errs[Len(errs)], j)}
<1>1. /\ S.ctl[d].kind = "signal" /\ S.ctl[d].what = "error" /\ ErrorUnwind
  BY DEF ErrorUnhandled, Executing, Top, Depth, Views
<1>2. /\ Len(S.errs) \in Nat /\ Len(S.errs) >= 1 /\ e.ctl \in 1..d /\ S.ctl[e.ctl].kind = "load"
      /\ \A k \in (e.ctl + 1)..d : S.ctl[k].kind # "load"
      /\ Len(S.errs) > 1 <=> e.ctl > 1
  BY LastLoad
<1>3. /\ d \in Nat /\ StacksMatch(S) /\ IsStack(S.ctl) /\ ConstructOK(S, d) /\ EntriesOK(S)
      /\ Parked(S, S.pending, d + 1)
  BY TopOf
<1>4. NoCleanup(S, d)
  BY <1>1, <1>3 DEF ConstructOK, SignalOK
<1>5. e.ctl > 1 => \A m \in (e.ctl + 1)..d : S.ctl[m].kind # "cleanup"
  <2>1. SUFFICES ASSUME e.ctl > 1, NEW m \in (e.ctl + 1)..d PROVE S.ctl[m].kind # "cleanup"
    OBVIOUS
  <2>2. CASE m = d
    BY <1>1, <2>2
  <2>3. CASE m # d
    <3>1. e.ctl \in 2..(d - 1) /\ m \in (e.ctl + 1)..(d - 1)
      BY <1>2, <1>3, <2>1, <2>3
    <3>2. \A x \in (e.ctl + 1)..(d - 1) : S.ctl[x].kind # "load"
      BY <1>2, <1>3
    <3> HIDE DEF e, d
    <3> QED BY <1>2, <1>4, <3>1, <3>2 DEF NoCleanup
  <2> QED BY <2>2, <2>3
<1>6. At(S.nlx, e.ctl, e.nlx)
  BY <1>2, <1>3 DEF EntriesOK, ErrorFrameOK
<1>7. F = {j \in 1..Len(S.nlx) : S.nlx[j].type = "UWPROT" /\ j > e.nlx} /\ F \subseteq DOMAIN nlx
  <2>1. DOMAIN nlx = 1..Len(S.nlx)
    BY <1>3, Depths, StackSeq DEF Views
  <2> QED BY <2>1 DEF FramesOf, Inside, Views
<1> HIDE DEF e, F, d
<1>8. CASE F # {}
  <2>1. Land(Max(F), ErrorThrow, e.ctl)
    BY <1>1, <1>8 DEF ErrorUnwind, F, Views, e
  <2>2. PICK j : j = Max(F)
    OBVIOUS
  <2>3. j \in F
    BY <1>7, <1>8, <2>2, Innermost
  <2>4. j \in 1..Len(S.nlx) /\ S.nlx[j].type = "UWPROT" /\ j > e.nlx
    BY <1>7, <2>3
  <2>5. /\ S.nlx[j].ctl \in Nat /\ S.nlx[j].ctl \in 1..d /\ S.ctl[S.nlx[j].ctl].kind = "protected"
    <3>1. S.nlx[j].ctl \in Nat /\ S.nlx[j].ctl \in 2..Len(S.ctl) /\ LabelOK(S.nlx[j], S.ctl[S.nlx[j].ctl])
      BY <2>4, FrameMarks
    <3> QED BY <2>4, <3>1 DEF LabelOK, d
  <2>6. ~(S.nlx[j].ctl < e.ctl)
    BY <1>6, <2>4 DEF At
  <2>7. S.nlx[j].ctl # e.ctl
    BY <1>2, <2>5
  <2>8. PICK x : x = S.nlx[j].ctl
    OBVIOUS
  <2>9. e.ctl \in 1..(x - 1) /\ x <= d
    BY <1>2, <1>3, <2>5, <2>6, <2>7, <2>8
  <2>10. \A m \in (e.ctl + 1)..(x - 1) : m \in (e.ctl + 1)..d
    BY <1>2, <1>3, <2>5, <2>8, <2>9
  <2>11. ByError(S, x, e.ctl)
    BY <1>2, <1>5, <2>10 DEF ByError
  <2>12. Resolves(S, ErrorThrow, x, e.ctl)
    BY <2>9, <2>11 DEF Resolves, ErrorThrow
  <2> QED BY <2>1, <2>2, <2>4, <2>8, <2>12, LandCleanup
<1>9. CASE F = {} /\ ~(Len(S.errs) > 1)
  <2>1. ErrorFrameJump(saved) /\ T.pending = NoThrow
    BY <1>1, <1>9 DEF ErrorUnwind, F, Views
  <2> QED BY <1>9, <2>1, OuterJumpSound
<1>10. CASE F = {} /\ Len(S.errs) > 1
  <2>1. ErrorFrameJump(S.saved) /\ T.pending = S.pending
    BY <1>1, <1>10 DEF ErrorUnwind, F, Views
  <2>2. PICK L \in Nat : L = e.ctl
    BY <1>2, <1>3
  <2>3. L > 1 /\ L \in 1..d /\ S.ctl[L].kind = "load"
    BY <1>2, <1>10, <2>2
  <2>4. \A k \in (L + 1)..d : S.ctl[k].kind \notin {"protected", "cleanup"}
    <3>1. SUFFICES ASSUME NEW k \in (L + 1)..d, S.ctl[k].kind = "protected" PROVE FALSE
      BY <1>5, <2>2, <2>3
    <3>2. k \in 1..Len(S.ctl)
      BY <1>3, <2>2 DEF d
    <3>3. PICK j \in 1..Len(S.nlx) : S.nlx[j].ctl = k /\ S.nlx[j].type = "UWPROT"
      BY <3>1, <3>2, ProtectedFrame
    <3>4. j > e.nlx
      <4>1. ~(S.nlx[j].ctl < e.ctl)
        BY <1>3, <2>2, <3>3
      <4>2. e.nlx \in 0..Len(S.nlx) /\ Len(S.nlx) \in Nat
        BY <1>3, <1>6, Depths DEF At, IsStack
      <4>3. ~(j <= e.nlx)
        BY <1>6, <4>1 DEF At
      <4> QED BY <4>2, <4>3
    <3> QED BY <1>7, <1>10, <3>3, <3>4
  <2>5. At(S.saved, L + 1, Len(S.saved))
    <3>1. At(S.saved, d + 1, Len(S.saved))
      BY TopMarks DEF d
    <3>2. Matches(S.saved, S.ctl, {"protected", "cleanup"})
      BY <1>3 DEF StacksMatch
    <3>3. \A i \in 1..Len(S.saved) : S.saved[i].ctl < L + 1
      <4>1. SUFFICES ASSUME NEW i \in 1..Len(S.saved) PROVE S.saved[i].ctl < L + 1
        OBVIOUS
      <4>2. S.saved[i].ctl \in 1..d /\ S.ctl[S.saved[i].ctl].kind \in {"protected", "cleanup"}
        BY <3>2 DEF Matches, d
      <4>3. S.saved[i].ctl \notin (L + 1)..d
        BY <2>4, <4>2
      <4> QED BY <1>3, <2>2, <4>2, <4>3
    <3> QED BY <3>2, <3>3 DEF At, Matches, IsStack
  <2>6. Rest(S.saved, S.saved, L + 1)
    BY <1>3, <2>5, Depths DEF Rest
  <2>7. Parked(S, S.pending, L + 1)
    <3>1. \A k \in (L + 1)..((d + 1) - 1) : S.ctl[k].kind # "cleanup"
      BY <1>3, <2>4
    <3>2. L + 1 \in Nat /\ d + 1 \in Nat /\ L + 1 <= d + 1
      BY <1>3, <2>2, <2>3
    <3> QED BY <1>3, <3>1, <3>2, ParkedDown
  <2>8. L = S.errs[Len(S.errs)].ctl /\ Parked(S, T.pending, L + 1)
    BY <2>1, <2>2, <2>7 DEF e
  <2> QED BY <1>10, <2>1, <2>6, <2>8, NestedJumpSound
<1> QED BY <1>8, <1>9, <1>10

\* What OP_UWRETHROW finds at the end of a cleanup.
LEMMA CleanupRecord ==
  ASSUME NEW S, NEW T, Views(S, T), Sound(S), NEW d, d = Len(S.ctl), S.ctl[d].kind = "cleanup",
         NEW record, record = S.saved[Len(S.saved)],
         NEW p, p = IF S.pending.kind # 0 THEN S.pending ELSE record.pend
  PROVE  /\ IsStack(S.saved) /\ Len(S.saved) >= 1
         /\ Resumes(record) => Resolves(S, p, d, S.ctl[d].exit)
         /\ ~Resumes(record) => Parked(S, p, d)
<1>1. /\ d \in Nat /\ d \in 1..MaxDepth /\ StacksMatch(S) /\ IsStack(S.ctl) /\ EntriesOK(S) /\ Parked(S, S.pending, d + 1)
  BY TopOf
<1>2. IsStack(S.saved) /\ Len(S.saved) >= 1 /\ record.ctl = d
  <2>1. PICK kind : kind = S.ctl[d].kind
    OBVIOUS
  <2>2. kind \in {"protected", "cleanup"}
    BY <2>1
  <2> QED BY <1>1, <2>1, <2>2, TopRest, Depths
<1>3. RecordOK(S, record)
  <2>1. Len(S.saved) \in 1..Len(S.saved)
    BY <1>2 DEF IsStack
  <2> QED BY <1>1, <2>1 DEF EntriesOK
<1>4. Resumes(record) <=> S.pending.kind # 0 \/ (record.entered /\ record.pend.kind # 0)
  BY DEF Resumes, Views
<1>5. CASE S.pending.kind # 0
  <2>1. PICK m \in 1..((d + 1) - 1) :
        /\ S.ctl[m].kind = "cleanup" /\ S.ctl[m].exit # 0 /\ Resolves(S, S.pending, m, S.ctl[m].exit)
        /\ \A x \in (m + 1)..((d + 1) - 1) : S.ctl[x].kind \notin {"protected", "cleanup"}
    BY <1>1, <1>5 DEF Parked
  <2>2. d \notin (m + 1)..((d + 1) - 1)
    BY <2>1
  <2>3. m = d
    BY <1>1, <2>1, <2>2
  <2> QED BY <1>2, <1>4, <1>5, <2>1, <2>3
<1>6. CASE ~(S.pending.kind # 0) /\ record.entered
  <2>1. Resolves(S, record.pend, d, S.ctl[d].exit)
    BY <1>2, <1>3, <1>6 DEF RecordOK
  <2>2. record.pend.kind # 0
    BY <2>1 DEF Resolves
  <2> QED BY <1>2, <1>4, <1>6, <2>1, <2>2
<1>7. CASE ~(S.pending.kind # 0) /\ ~record.entered
  <2>1. Parked(S, record.pend, d)
    BY <1>2, <1>3, <1>7 DEF RecordOK
  <2> QED BY <1>2, <1>4, <1>7, <2>1
<1> QED BY <1>5, <1>6, <1>7

\* The branches of OP_UWRETHROW.
Rethrows(S, T, record, p, F) ==
  /\ ~Resumes(record) =>
       /\ T.pending = p /\ T.saved = SubSeq(S.saved, 1, Len(S.saved) - 1)
       /\ T.mvs = SubSeq(S.mvs, 1, Len(S.mvs) - 1) /\ LeaveCtl
       /\ T.nlx = S.nlx /\ T.handlers = S.handlers /\ T.active = S.active /\ T.restarts = S.restarts
       /\ T.errs = S.errs
  /\ Resumes(record) /\ p.kind = 1 /\ F # {} => Transfer(Max(F), p, NoThrow)
  /\ Resumes(record) /\ p.kind = 3 /\ p.tag \in FramesOf({"HANDLER_CASE"}) => Transfer(p.tag, p, NoThrow)
  /\ Resumes(record) /\ p.kind = 2 =>
       IF FramesOf({"UWPROT"}) # {}
         THEN Land(Max(FramesOf({"UWPROT"})), p, errs[nlx[Max(FramesOf({"UWPROT"}))].err].ctl)
         ELSE ErrorFrameJump(SubSeq(S.saved, 1, Len(S.saved) - 1)) /\ T.pending = NoThrow

\* OP_UWRETHROW in terms of the record it finds.
LEMMA RethrowCases ==
  ASSUME NEW S, NEW T, Views(S, T), IsStack(S.saved), Len(S.saved) >= 1,
         NEW record, record = S.saved[Len(S.saved)],
         NEW p, p = IF S.pending.kind # 0 THEN S.pending ELSE record.pend,
         NEW F, F = {i \in FramesOf({"CATCH", "BLOCK", "TAGBODY"}) : nlx[i].tag = p.tag}, Rethrow
  PROVE  Rethrows(S, T, record, p, F)
<1>1. saved = S.saved /\ saved # <<>> /\ pending = S.pending
  BY DEF Views, IsStack
<1>2. Record = record /\ RecordsBelow = SubSeq(S.saved, 1, Len(S.saved) - 1) /\ InFlight = p
  BY <1>1 DEF Record, RecordsBelow, InFlight
<1>3. CASE ~Resumes(record)
  <2>1. EndCleanup
    BY <1>2, <1>3 DEF Rethrow
  <2> QED BY <1>2, <1>3, <2>1 DEF EndCleanup, Views, Rethrows
<1>4. CASE Resumes(record)
  <2>1. ~EndCleanup
    BY <1>2, <1>4 DEF EndCleanup
  <2>2. CASE InFlight.kind = 1 /\ ResumeTag(InFlight)
    <3>1. ResumeTag(p) /\ p.kind = 1
      BY <1>2, <2>2
    <3>2. F # {} => Transfer(Max(F), p, NoThrow)
      BY <3>1 DEF ResumeTag
    <3> QED BY <1>4, <3>1, <3>2 DEF Rethrows
  <2>3. CASE InFlight.kind = 3 /\ ResumeClause(InFlight)
    <3>1. ResumeClause(p) /\ p.kind = 3
      BY <1>2, <2>3
    <3>2. p.tag \in FramesOf({"HANDLER_CASE"}) => Transfer(p.tag, p, NoThrow)
      BY <3>1 DEF ResumeClause
    <3> QED BY <1>4, <3>1, <3>2 DEF Rethrows
  <2>4. CASE InFlight.kind = 2 /\ ResumeError(InFlight)
    <3>1. ResumeError(p) /\ p.kind = 2
      BY <1>2, <2>4
    <3>2. IF FramesOf({"UWPROT"}) # {}
            THEN Land(Max(FramesOf({"UWPROT"})), p, errs[nlx[Max(FramesOf({"UWPROT"}))].err].ctl)
            ELSE ErrorFrameJump(RecordsBelow) /\ pending' = NoThrow
      BY <3>1 DEF ResumeError
    <3>3. IF FramesOf({"UWPROT"}) # {}
            THEN Land(Max(FramesOf({"UWPROT"})), p, errs[nlx[Max(FramesOf({"UWPROT"}))].err].ctl)
            ELSE ErrorFrameJump(SubSeq(S.saved, 1, Len(S.saved) - 1)) /\ T.pending = NoThrow
      BY <1>2, <3>2 DEF Views
    <3> QED BY <1>4, <3>1, <3>3 DEF Rethrows
  <2> QED BY <1>2, <1>4, <2>1, <2>2, <2>3, <2>4 DEF Rethrow
<1> QED BY <1>3, <1>4

\* The cleanup goes on with an exit by tag.
LEMMA ResumeTagSound ==
  ASSUME NEW S, NEW T, Views(S, T), Sound(S), NEW p, p.kind = 1,
         NEW F, F = {i \in FramesOf({"CATCH", "BLOCK", "TAGBODY"}) : nlx[i].tag = p.tag},
         F # {}, Transfer(Max(F), p, NoThrow)
  PROVE  Sound(T)
<1>1. /\ DOMAIN nlx = 1..Len(S.nlx) /\ StacksMatch(S) /\ Len(S.nlx) \in Nat /\ Len(S.ctl) \in Nat
  BY TopOf, Depths, StackSeq DEF Views, IsStack
<1>2. F = {i \in 1..Len(S.nlx) : S.nlx[i].type \in TaggedTypes /\ S.nlx[i].tag = p.tag} /\ F \subseteq DOMAIN nlx
  BY <1>1 DEF FramesOf, TaggedTypes, Views
<1>3. PICK i : i = Max(F)
  OBVIOUS
<1>4. i \in F /\ \A k \in F : k <= i
  BY <1>2, <1>3, Innermost
<1>5. i \in 1..Len(S.nlx) /\ S.nlx[i].type \in TaggedTypes /\ S.nlx[i].tag = p.tag
  BY <1>2, <1>4
<1>6. S.nlx[i].type # "UWPROT"
  BY <1>5 DEF TaggedTypes
<1>7. ASSUME NEW j \in 1..Len(S.nlx), i < j PROVE Resolves(S, p, S.nlx[j].ctl, S.nlx[i].ctl)
  <2>1. S.nlx[i].ctl \in 1..(S.nlx[j].ctl - 1)
    <3>1. S.nlx[i].ctl < S.nlx[j].ctl /\ S.nlx[i].ctl \in 1..Len(S.ctl) /\ S.nlx[j].ctl \in 1..Len(S.ctl)
      BY <1>1, <1>5, <1>7 DEF StacksMatch, Matches
    <3> QED BY <3>1
  <2>2. ASSUME NEW m \in 1..Len(S.nlx), i < m, S.nlx[m].type \in TaggedTypes PROVE S.nlx[m].tag # p.tag
    BY <1>1, <1>2, <1>4, <1>5, <2>2
  <2>3. ByTag(S, p, S.nlx[j].ctl, S.nlx[i].ctl)
    BY <1>5, <2>2 DEF ByTag
  <2> QED BY <2>1, <2>3 DEF Resolves
<1>8. Parked(S, NoThrow, S.nlx[i].ctl)
  BY DEF Parked, NoThrow
<1> QED BY <1>3, <1>5, <1>6, <1>7, <1>8, TransferSound

\* The cleanup goes on with an exit to a HANDLER-CASE.
LEMMA ResumeClauseSound ==
  ASSUME NEW S, NEW T, Views(S, T), Sound(S), NEW p, p.kind = 3, NEW i \in 1..Len(S.nlx), i = p.tag,
         S.nlx[i].type = "HANDLER_CASE", Transfer(i, p, NoThrow)
  PROVE  Sound(T)
<1>1. StacksMatch(S) /\ Len(S.nlx) \in Nat /\ Len(S.ctl) \in Nat
  BY TopOf, Depths DEF IsStack
<1>2. ASSUME NEW j \in 1..Len(S.nlx), i < j PROVE Resolves(S, p, S.nlx[j].ctl, S.nlx[i].ctl)
  <2>1. S.nlx[i].ctl \in 1..(S.nlx[j].ctl - 1)
    <3>1. S.nlx[i].ctl < S.nlx[j].ctl /\ S.nlx[i].ctl \in 1..Len(S.ctl) /\ S.nlx[j].ctl \in 1..Len(S.ctl)
      BY <1>1, <1>2 DEF StacksMatch, Matches
    <3> QED BY <3>1
  <2> QED BY <2>1 DEF Resolves, ByClause
<1>3. Parked(S, NoThrow, S.nlx[i].ctl)
  BY DEF Parked, NoThrow
<1>4. S.nlx[i].type # "UWPROT"
  OBVIOUS
<1> QED BY <1>2, <1>3, <1>4, TransferSound

\* The end of a cleanup that interrupts nothing, or an exit that is to go on
\* after the protected form around it.
LEMMA EndCleanupSound ==
  ASSUME NEW S, NEW T, Views(S, T), Sound(S), NEW d, d = Len(S.ctl), S.ctl[d].kind = "cleanup",
         LeaveCtl, Parked(S, T.pending, d), T.saved = SubSeq(S.saved, 1, Len(S.saved) - 1),
         T.mvs = SubSeq(S.mvs, 1, Len(S.mvs) - 1),
         T.nlx = S.nlx, T.handlers = S.handlers, T.active = S.active, T.restarts = S.restarts, T.errs = S.errs
  PROVE  Sound(T)
<1>1. d \in 2..(Len(S.ctl) + 1) /\ MaskOK(S, S.active, d)
  BY TopOf
<1>2. SameBelow(S.ctl, T.ctl, d) /\ Len(T.ctl) = d - 1
  BY LeaveCtlIs DEF Left
<1>3. PICK kind : kind = S.ctl[d].kind
  OBVIOUS
<1>4. /\ kind \notin FrameKinds /\ kind \notin {"hbind", "hcase"} /\ kind \notin {"rcase", "warn"}
      /\ kind \notin {"load"} /\ kind \in {"cleanup"} /\ kind \in {"protected", "cleanup"}
  BY <1>3 DEF FrameKinds
<1>5. /\ Rest(S.nlx, S.nlx, d) /\ Rest(S.handlers, S.handlers, d) /\ Rest(S.restarts, S.restarts, d)
      /\ Rest(S.errs, S.errs, d) /\ Rest(S.mvs, SubSeq(S.mvs, 1, Len(S.mvs) - 1), d)
      /\ Rest(S.saved, SubSeq(S.saved, 1, Len(S.saved) - 1), d)
  BY <1>3, <1>4, TopRest
<1>6. Cut(S, T, d)
  BY <1>2, <1>5 DEF Cut
<1> QED BY <1>1, <1>6, CutSound

\* An error that a cleanup interrupts goes to the innermost LOAD.
LEMMA ErrorGoesTo ==
  ASSUME NEW S, Sound(S), NEW d, d = Len(S.ctl), S.ctl[d].kind = "cleanup", NEW p, p.kind = 2,
         Resolves(S, p, d, S.ctl[d].exit), NEW L, L = S.errs[Len(S.errs)].ctl
  PROVE  /\ S.ctl[d].exit = L /\ L \in 1..(d - 1)
         /\ \A m \in (L + 1)..(d - 1) : L > 1 => S.ctl[m].kind # "cleanup"
<1>1. d \in Nat
  BY TopOf
<1>2. /\ L \in 1..d /\ S.ctl[L].kind = "load" /\ \A k \in (L + 1)..d : S.ctl[k].kind # "load"
  BY LastLoad
<1>3. L # d
  BY <1>2
<1>4. L \in 1..(d - 1)
  BY <1>1, <1>2, <1>3
<1>5. /\ S.ctl[d].exit \in 1..(d - 1) /\ ByError(S, d, S.ctl[d].exit)
  BY DEF Resolves
<1>6. S.ctl[d].exit = L
  <2>1. PICK t : t = S.ctl[d].exit
    OBVIOUS
  <2>2. /\ t \in 1..(d - 1) /\ S.ctl[t].kind = "load"
        /\ \A m \in (t + 1)..(d - 1) : S.ctl[m].kind # "load"
    BY <1>5, <2>1 DEF ByError
  <2>3. t \notin (L + 1)..d /\ L \notin (t + 1)..(d - 1)
    BY <1>2, <2>2
  <2>4. t = L
    BY <1>1, <1>4, <2>2, <2>3
  <2> QED BY <2>1, <2>4
<1>7. \A m \in (L + 1)..(d - 1) : L > 1 => S.ctl[m].kind # "cleanup"
  BY <1>5, <1>6 DEF ByError
<1> QED BY <1>4, <1>6, <1>7

\* No LOAD is inside a protected form: the error mark of its frame is the top.
LEMMA ProtectedMark ==
  ASSUME NEW S, Sound(S), NEW j \in 1..Len(S.nlx), NEW f, f = S.nlx[j], f.type = "UWPROT",
         NEW L, L = S.errs[Len(S.errs)].ctl
  PROVE  f.err = Len(S.errs) /\ L \in 1..(f.ctl - 1) /\ f.ctl \in Nat /\ f.ctl \in 2..Len(S.ctl)
<1>1. /\ Len(S.errs) \in Nat /\ Len(S.errs) >= 1 /\ L \in 1..Len(S.ctl) /\ S.ctl[L].kind = "load"
  BY LastLoad
<1>2. Len(S.ctl) \in Nat
  BY TopOf
<1>3. f.ctl \in Nat /\ f.ctl \in 2..Len(S.ctl) /\ LabelOK(f, S.ctl[f.ctl]) /\ MarksOK(S, f, f.ctl)
  BY FrameMarks
<1>4. S.ctl[f.ctl].kind = "protected" /\ At(S.errs, f.ctl, f.err)
  BY <1>3 DEF LabelOK, MarksOK
<1>5. PICK x : x = f.ctl
  OBVIOUS
<1>6. L < x
  <2>1. ConstructOK(S, L)
    BY <1>1 DEF Sound, ProgramOK
  <2>2. x \notin 1..(L - 1)
    BY <1>1, <1>4, <1>5, <2>1 DEF ConstructOK
  <2>3. x # L
    BY <1>1, <1>4, <1>5
  <2> QED BY <1>1, <1>2, <1>3, <1>5, <2>2, <2>3
<1>7. f.err = Len(S.errs)
  <2>1. Len(S.errs) \in 1..Len(S.errs)
    BY <1>1
  <2>2. Len(S.errs) <= f.err /\ f.err \in 0..Len(S.errs)
    BY <1>4, <1>5, <1>6, <2>1 DEF At
  <2> QED BY <1>1, <2>2
<1>8. L \in 1..(f.ctl - 1)
  BY <1>1, <1>2, <1>3, <1>5, <1>6
<1> QED BY <1>3, <1>7, <1>8

\* The cleanup goes on with an exit to a LOAD: no LOAD is inside a protected
\* form, so the next cleanup on the way, if any, is one of this LOAD's form.
LEMMA ResumeErrorSound ==
  ASSUME NEW S, NEW T, Views(S, T), Sound(S), NEW d, d = Len(S.ctl), S.ctl[d].kind = "cleanup",
         NEW p, p.kind = 2, Resolves(S, p, d, S.ctl[d].exit),
         IF FramesOf({"UWPROT"}) # {}
           THEN Land(Max(FramesOf({"UWPROT"})), p, errs[nlx[Max(FramesOf({"UWPROT"}))].err].ctl)
           ELSE ErrorFrameJump(SubSeq(S.saved, 1, Len(S.saved) - 1)) /\ T.pending = NoThrow
  PROVE  Sound(T)
<1> DEFINE F == FramesOf({"UWPROT"})
<1>1. /\ d \in Nat /\ StacksMatch(S) /\ IsStack(S.ctl) /\ EntriesOK(S) /\ Len(S.nlx) \in Nat
  BY TopOf, Depths DEF IsStack
<1>2. PICK L : L = S.errs[Len(S.errs)].ctl
  OBVIOUS
<1>3. /\ Len(S.errs) \in Nat /\ Len(S.errs) >= 1 /\ L \in 1..d /\ S.ctl[L].kind = "load"
      /\ \A k \in (L + 1)..d : S.ctl[k].kind # "load"
      /\ Len(S.errs) > 1 <=> L > 1
  BY <1>2, LastLoad
<1>4. /\ L \in 1..(d - 1) /\ \A m \in (L + 1)..(d - 1) : L > 1 => S.ctl[m].kind # "cleanup"
  BY <1>2, ErrorGoesTo
<1>9. F = {j \in 1..Len(S.nlx) : S.nlx[j].type = "UWPROT"} /\ F \subseteq DOMAIN nlx
  <2>1. DOMAIN nlx = 1..Len(S.nlx)
    BY <1>1, Depths, StackSeq DEF Views
  <2> QED BY <2>1 DEF FramesOf, Views
<1>10. CASE F # {}
  <2>1. PICK j : j = Max(F)
    OBVIOUS
  <2>2. j \in F
    BY <1>9, <1>10, <2>1, Innermost
  <2>3. j \in 1..Len(S.nlx) /\ S.nlx[j].type = "UWPROT"
    BY <1>9, <2>2
  <2>4. PICK f : f = S.nlx[j]
    OBVIOUS
  <2>5. Land(j, p, S.errs[f.err].ctl)
    BY <1>10, <2>1, <2>4 DEF Views
  <2>6. PICK x : x = f.ctl
    OBVIOUS
  <2>7. f.err = Len(S.errs) /\ L \in 1..(x - 1) /\ x \in Nat /\ x \in 2..d
    BY <1>2, <2>3, <2>4, <2>6, ProtectedMark
  <2>8. \A m \in (L + 1)..(x - 1) : m \in (L + 1)..(d - 1) /\ m \in (L + 1)..d
    BY <1>1, <1>4, <2>7
  <2>9. ByError(S, x, L)
    BY <1>3, <1>4, <2>8 DEF ByError
  <2>10. Resolves(S, p, x, L)
    BY <2>7, <2>9 DEF Resolves
  <2>11. Land(j, p, L)
    BY <1>2, <2>5, <2>7
  <2>12. f.type = "UWPROT" /\ Resolves(S, p, f.ctl, L)
    BY <2>3, <2>4, <2>6, <2>10
  <2> QED BY <2>3, <2>4, <2>11, <2>12, LandCleanup
<1>11. CASE F = {} /\ ~(Len(S.errs) > 1)
  <2>1. ErrorFrameJump(SubSeq(S.saved, 1, Len(S.saved) - 1)) /\ T.pending = NoThrow
    BY <1>11
  <2> QED BY <1>11, <2>1, OuterJumpSound
<1>12. CASE F = {} /\ Len(S.errs) > 1
  <2> DEFINE records == SubSeq(S.saved, 1, Len(S.saved) - 1)
  <2>1. ErrorFrameJump(records) /\ T.pending = NoThrow
    BY <1>12
  <2>2. L > 1
    BY <1>3, <1>12
  <2>3. \A k \in (L + 1)..(d - 1) : S.ctl[k].kind \notin {"protected", "cleanup"}
    <3>1. SUFFICES ASSUME NEW k \in (L + 1)..(d - 1), S.ctl[k].kind = "protected" PROVE FALSE
      BY <1>4, <2>2
    <3>2. k \in 1..Len(S.ctl)
      BY <1>1, <1>3
    <3>3. PICK j \in 1..Len(S.nlx) : S.nlx[j].ctl = k /\ S.nlx[j].type = "UWPROT"
      BY <3>1, <3>2, ProtectedFrame
    <3> QED BY <1>9, <1>12, <3>3
  <2>4. Rest(S.saved, records, d)
    <3>1. PICK kind : kind = S.ctl[d].kind
      OBVIOUS
    <3>2. kind \in {"protected", "cleanup"}
      BY <3>1
    <3> QED BY <3>1, <3>2, TopRest
  <2> HIDE DEF records
  <2>5. Matches(S.saved, S.ctl, {"protected", "cleanup"})
    BY <1>1 DEF StacksMatch
  <2>6. ASSUME NEW i \in 1..Len(S.saved) PROVE S.saved[i].ctl < d <=> S.saved[i].ctl < L + 1
    <3>1. S.saved[i].ctl \in 1..d /\ S.ctl[S.saved[i].ctl].kind \in {"protected", "cleanup"}
      BY <2>5 DEF Matches
    <3>2. S.saved[i].ctl \notin (L + 1)..(d - 1)
      BY <2>3, <3>1
    <3> QED BY <1>1, <1>4, <3>1, <3>2
  <2>7. Rest(S.saved, records, L + 1)
    BY <2>4, <2>6 DEF Rest, At
  <2>8. Parked(S, T.pending, L + 1)
    BY <2>1 DEF Parked, NoThrow
  <2> QED BY <1>2, <1>12, <2>1, <2>7, <2>8, NestedJumpSound
<1> QED BY <1>10, <1>11, <1>12

\* OP_UWRETHROW.
LEMMA ReturnCleanupSound ==
  ASSUME NEW S, NEW T, Views(S, T), Sound(S), ReturnCleanup
  PROVE  Sound(T)
<1>1. PICK d : d = Len(S.ctl)
  OBVIOUS
<1>2. S.ctl[d].kind = "cleanup" /\ Rethrow
  BY <1>1 DEF ReturnCleanup, Top, Depth, Views
<1>3. PICK record : record = S.saved[Len(S.saved)]
  OBVIOUS
<1>4. PICK p : p = IF S.pending.kind # 0 THEN S.pending ELSE record.pend
  OBVIOUS
<1>5. PICK F : F = {i \in FramesOf({"CATCH", "BLOCK", "TAGBODY"}) : nlx[i].tag = p.tag}
  OBVIOUS
<1>6. /\ IsStack(S.saved) /\ Len(S.saved) >= 1
      /\ Resumes(record) => Resolves(S, p, d, S.ctl[d].exit)
      /\ ~Resumes(record) => Parked(S, p, d)
  BY <1>1, <1>2, <1>3, <1>4, CleanupRecord
<1>14. Rethrows(S, T, record, p, F)
  BY <1>2, <1>3, <1>4, <1>5, <1>6, RethrowCases
<1>7. /\ ~Resumes(record) =>
              /\ T.pending = p /\ T.saved = SubSeq(S.saved, 1, Len(S.saved) - 1)
              /\ T.mvs = SubSeq(S.mvs, 1, Len(S.mvs) - 1) /\ LeaveCtl
              /\ T.nlx = S.nlx /\ T.handlers = S.handlers /\ T.active = S.active /\ T.restarts = S.restarts
              /\ T.errs = S.errs
      /\ Resumes(record) /\ p.kind = 1 /\ F # {} => Transfer(Max(F), p, NoThrow)
      /\ Resumes(record) /\ p.kind = 3 /\ p.tag \in FramesOf({"HANDLER_CASE"}) => Transfer(p.tag, p, NoThrow)
      /\ Resumes(record) /\ p.kind = 2 =>
              IF FramesOf({"UWPROT"}) # {}
                THEN Land(Max(FramesOf({"UWPROT"})), p, errs[nlx[Max(FramesOf({"UWPROT"}))].err].ctl)
                ELSE ErrorFrameJump(SubSeq(S.saved, 1, Len(S.saved) - 1)) /\ T.pending = NoThrow
  BY <1>14 DEF Rethrows
<1>8. DOMAIN nlx = 1..Len(S.nlx)
  BY TopOf, Depths, StackSeq DEF Views
<1>9. CASE ~Resumes(record)
  <2>1. Parked(S, T.pending, d)
    BY <1>6, <1>7, <1>9
  <2> QED BY <1>1, <1>2, <1>7, <1>9, <2>1, EndCleanupSound
<1>10. CASE Resumes(record) /\ p.kind = 1
  <2>1. ByTag(S, p, d, S.ctl[d].exit)
    BY <1>6, <1>10 DEF Resolves
  <2>2. F # {}
    BY <1>5, <1>8, <2>1 DEF ByTag, TaggedTypes, FramesOf, Views
  <2> QED BY <1>5, <1>7, <1>10, <2>2, ResumeTagSound
<1>11. CASE Resumes(record) /\ p.kind = 3
  <2>1. p.tag \in 1..Len(S.nlx) /\ S.nlx[p.tag].type = "HANDLER_CASE"
    BY <1>6, <1>11 DEF Resolves, ByClause
  <2>2. p.tag \in FramesOf({"HANDLER_CASE"})
    BY <1>8, <2>1 DEF FramesOf, Views
  <2>3. Transfer(p.tag, p, NoThrow)
    BY <1>7, <1>11, <2>2
  <2> QED BY <1>11, <2>1, <2>3, ResumeClauseSound
<1>12. CASE Resumes(record) /\ p.kind = 2
  <2>1. Resolves(S, p, d, S.ctl[d].exit)
    BY <1>6, <1>12
  <2> QED BY <1>1, <1>2, <1>7, <1>12, <2>1, ResumeErrorSound
<1>13. Resumes(record) => p.kind \in {1, 2, 3}
  BY <1>6 DEF Resolves
<1> QED BY <1>9, <1>10, <1>11, <1>12, <1>13

\* Offering a condition to a binding.
LEMMA OfferSound ==
  ASSUME NEW S, NEW T, Views(S, T), Sound(S), NEW i \in DOMAIN handlers, Offer(i)
  PROVE  Sound(T)
<1>1. ~Executing /\ i \in Candidates
  BY DEF Offer
<1>2. CASE CallHandler(i)
  BY <1>1, <1>2, CallHandlerSound
<1>3. CASE TakeClause(i)
  BY <1>3, TakeClauseSound
<1> QED BY <1>2, <1>3 DEF Offer
-----------------------------------------------------------------------------
(***************************************************************************)
(* The specification.                                                      *)
(***************************************************************************)
\* Every step of the machine leaves it sound.
LEMMA NextSound ==
  ASSUME NEW S, NEW T, Views(S, T), Sound(S), Served, Next
  PROVE  Sound(T)
<1>1. CASE Enter
  <2>1. CASE \E tag \in CatchTags : Catch(tag)
    BY <2>1, FramesSound
  <2>2. CASE \E name \in BlockNames : Block(name)
    BY <2>2, FramesSound
  <2>3. CASE \E id \in TagbodyIds : Tagbody(id)
    BY <2>3, FramesSound
  <2>4. CASE \E tag \in RestartTags : RestartCase(tag)
    BY <2>4, FramesSound
  <2>5. CASE UnwindProtect
    BY <2>5, UnwindProtectSound
  <2>6. CASE HandlerBind \/ HandlerClause
    BY <2>6, HandlerBindSound
  <2>7. CASE HandlerCase
    BY <2>7, HandlerCaseSound
  <2>8. CASE Load
    BY <2>8, LoadSound
  <2>9. CASE Warn
    BY <2>9, WarnSound
  <2> QED BY <1>1, <2>1, <2>2, <2>3, <2>4, <2>5, <2>6, <2>7, <2>8, <2>9 DEF Enter
<1>2. CASE Leave
  <2>1. CASE \/ Return("catch", "CATCH") \/ Return("block", "BLOCK") \/ Return("tagbody", "TAGBODY")
             \/ ReturnRestartCase
    BY <2>1, ReturnSound
  <2>2. CASE ReturnHandlerBind
    BY <2>2, ReturnHandlerBindSound
  <2>3. CASE ReturnHandlerCase
    BY <2>3, ReturnHandlerCaseSound
  <2>4. CASE ReturnLoad
    BY <2>4, ReturnLoadSound
  <2>5. CASE ReturnProtected
    BY <2>5, ReturnProtectedSound
  <2>6. CASE ReturnCleanup
    BY <2>6, ReturnCleanupSound
  <2>7. CASE ReturnHandler
    <3>1. Executing
      BY <1>2 DEF Leave
    <3> QED BY <2>7, <3>1, ReturnHandlerSound
  <2> QED BY <1>2, <2>1, <2>2, <2>3, <2>4, <2>5, <2>6, <2>7 DEF Leave
<1>3. CASE \E tag \in CatchTags : Throw(tag)
  BY <1>3, ThrowsSound
<1>4. CASE \E name \in BlockNames : ReturnFrom(name)
  BY <1>4, ThrowsSound
<1>5. CASE \E id \in TagbodyIds : Go(id)
  BY <1>5, ThrowsSound
<1>6. CASE \E r \in DOMAIN restarts : InvokeRestart(r)
  BY <1>6, InvokeRestartSound
<1>7. CASE \E what \in {"signal", "error"} : Raise(what)
  BY <1>7, RaiseSound
<1>8. CASE \E i \in DOMAIN handlers : Offer(i)
  BY <1>8, OfferSound
<1>9. CASE SignalReturns
  BY <1>9, SignalReturnsSound
<1>10. CASE WarnReturns
  BY <1>10, WarnReturnsSound
<1>11. CASE ErrorUnhandled
  BY <1>11, ErrorUnhandledSound
<1> QED BY <1>1, <1>2, <1>3, <1>4, <1>5, <1>6, <1>7, <1>8, <1>9, <1>10, <1>11 DEF Next

\* The toplevel, before it has evaluated anything.
LEMMA InitSound ==
  ASSUME Init
  PROVE  IInv
<1>1. PICK S : S = Machine
  OBVIOUS
<1>2. PICK c : c = Context("load", 0)
  OBVIOUS
<1>3. /\ S.ctl = <<c>> /\ S.nlx = <<>> /\ S.pending = NoThrow /\ S.saved = <<>> /\ S.handlers = <<>>
      /\ S.active = {} /\ S.restarts = <<>> /\ S.mvs = <<>>
      /\ S.errs = <<[ctl |-> 1, handler |-> 0, mask |-> {}, restart |-> 0, nlx |-> 0, mv |-> 0]>>
  BY <1>1, <1>2 DEF Init, Machine
<1>4. /\ Len(S.ctl) = 1 /\ IsStack(S.ctl) /\ S.ctl[1] = c
  BY <1>3 DEF IsStack
<1>5. IsStack(<<>>) /\ Len(<<>>) = 0
  BY DEF IsStack
<1>6. c = [kind |-> "load", tag |-> 0, exit |-> 0, of |-> 0, running |-> FALSE,
           what |-> "none", at |-> 0, mask |-> {}]
  BY <1>2 DEF Context
<1>7. /\ c.kind = "load" /\ c.exit = 0
      /\ c = [kind |-> c.kind, tag |-> c.tag, exit |-> c.exit, of |-> c.of, running |-> c.running,
              what |-> c.what, at |-> c.at, mask |-> c.mask]
  BY <1>6
<1>8. ConstructOK(S, 1)
  BY <1>4, <1>7 DEF ConstructOK, FrameKinds
<1>9. ProgramOK(S)
  <2>1. 1 \in 1..MaxDepth
    BY ExitConstants
  <2> QED BY <1>4, <1>7, <1>8, <2>1 DEF ProgramOK
<1>10. /\ Matches(<<>>, S.ctl, FrameKinds) /\ Matches(<<>>, S.ctl, {"hbind", "hcase"})
       /\ Matches(<<>>, S.ctl, {"rcase", "warn"}) /\ Matches(<<>>, S.ctl, {"cleanup"})
       /\ Matches(<<>>, S.ctl, {"protected", "cleanup"})
  BY <1>4, <1>5, <1>7 DEF Matches, FrameKinds
<1>11. PICK e : e = [ctl |-> 1, handler |-> 0, mask |-> {}, restart |-> 0, nlx |-> 0, mv |-> 0]
  OBVIOUS
<1>12. e.ctl = 1 /\ e.handler = 0 /\ e.restart = 0 /\ e.nlx = 0 /\ e.mv = 0
  BY <1>11
<1>13. S.errs = <<e>> /\ IsStack(<<e>>) /\ Len(<<e>>) = 1 /\ <<e>>[1] = e
  BY <1>3, <1>11 DEF IsStack
<1>14. Matches(S.errs, S.ctl, {"load"})
  BY <1>4, <1>7, <1>12, <1>13 DEF Matches
<1>15. StacksMatch(S)
  BY <1>3, <1>10, <1>14 DEF StacksMatch
<1>16. \A d, n : n = 0 => At(<<>>, d, n)
  BY <1>5 DEF At
<1>17. \A mask, d : MaskOK(S, mask, d)
  BY <1>3, <1>5 DEF MaskOK
<1>18. ErrorFrameOK(S, e)
  BY <1>3, <1>12, <1>16, <1>17 DEF ErrorFrameOK
<1>19. EntriesOK(S)
  <2>1. Len(S.nlx) = 0 /\ Len(S.handlers) = 0 /\ Len(S.restarts) = 0 /\ Len(S.saved) = 0
    BY <1>3, <1>5
  <2>2. \A i \in 1..Len(S.errs) : ErrorFrameOK(S, S.errs[i])
    <3>1. Len(S.errs) = 1 /\ S.errs[1] = e
      BY <1>13
    <3> QED BY <1>18, <3>1
  <2> QED BY <2>1, <2>2 DEF EntriesOK
<1>20. Parked(S, S.pending, Len(S.ctl) + 1)
  BY <1>3 DEF Parked, NoThrow
<1>21. Sound(S)
  BY <1>9, <1>15, <1>17, <1>19, <1>20 DEF Sound
<1> QED BY <1>1, <1>21 DEF IInv

\* The machine is sound in every reachable state.
THEOREM SoundAlways == Served => (Spec => []IInv)
<1> SUFFICES ASSUME Served PROVE Spec => []IInv
  OBVIOUS
<1>1. Init => IInv
  BY InitSound
<1>2. IInv /\ [Next]_vars => IInv'
  <2>1. SUFFICES ASSUME IInv, [Next]_vars PROVE IInv'
    OBVIOUS
  <2>2. PICK S : S = Machine
    OBVIOUS
  <2>3. PICK T : T = Machine'
    OBVIOUS
  <2>4. Views(S, T)
    BY <2>2, <2>3 DEF Machine, Views
  <2>5. Sound(S)
    BY <2>1, <2>2 DEF IInv
  <2>6. CASE Next
    <3>1. Sound(T)
      BY <2>4, <2>5, <2>6, NextSound
    <3> QED BY <2>3, <3>1 DEF IInv
  <2>7. CASE UNCHANGED vars
    <3>1. Machine' = Machine
      BY <2>7 DEF vars, Machine
    <3> QED BY <2>2, <2>3, <2>5, <3>1 DEF IInv
  <2> QED BY <2>1, <2>6, <2>7
<1> QED BY <1>1, <1>2, PTL DEF Spec

\* A stack that matches the program has the owners InOrder asks for.
LEMMA MatchesInOrder ==
  ASSUME NEW K, NEW s, NEW c, c = ctl, IsStack(c), Matches(s, c, K)
  PROVE  InOrder(Owners(s), K)
<1>1. DOMAIN s = 1..Len(s) /\ DOMAIN c = 1..Len(c)
  BY StackSeq DEF Matches
<1>2. PICK w : w = Owners(s)
  OBVIOUS
<1>3. DOMAIN w = 1..Len(s) /\ \A i \in 1..Len(s) : w[i] = s[i].ctl
  BY <1>1, <1>2 DEF Owners
<1>4. Constructs(K) = {k \in 1..Len(c) : c[k].kind \in K}
  BY <1>1 DEF Constructs
<1>5. {w[i] : i \in DOMAIN w} = Constructs(K)
  <2>1. ASSUME NEW i \in DOMAIN w PROVE w[i] \in Constructs(K)
    BY <1>3, <1>4 DEF Matches
  <2>2. ASSUME NEW k \in Constructs(K) PROVE \E i \in DOMAIN w : w[i] = k
    <3>1. k \in 1..Len(c) /\ c[k].kind \in K
      BY <1>4
    <3>2. PICK i \in 1..Len(s) : s[i].ctl = k
      BY <3>1 DEF Matches
    <3> QED BY <1>3, <3>2
  <2> QED BY <2>1, <2>2
<1>6. \A i, j \in DOMAIN w : i < j => w[i] < w[j]
  BY <1>3 DEF Matches
<1> QED BY <1>2, <1>5, <1>6 DEF InOrder

\* What IInv says of the state, in the words of the properties.
LEMMA SoundStacks ==
  ASSUME IInv
  PROVE  StacksMatchProgram
<1>1. PICK S : S = Machine
  OBVIOUS
<1>2. /\ S.ctl = ctl /\ S.nlx = nlx /\ S.handlers = handlers /\ S.restarts = restarts /\ S.errs = errs
      /\ S.mvs = mvs /\ Sound(S)
  BY <1>1 DEF Machine, IInv
<1>3. /\ Matches(S.nlx, S.ctl, FrameKinds) /\ Matches(S.handlers, S.ctl, {"hbind", "hcase"})
      /\ Matches(S.restarts, S.ctl, {"rcase", "warn"}) /\ Matches(S.errs, S.ctl, {"load"})
      /\ Matches(S.mvs, S.ctl, {"cleanup"}) /\ IsStack(S.ctl)
  BY <1>2 DEF Sound, StacksMatch, ProgramOK
<1>4. InOrder(Owners(nlx), FrameKinds)
  BY <1>2, <1>3, MatchesInOrder
<1>5. InOrder(Owners(handlers), {"hbind", "hcase"})
  BY <1>2, <1>3, MatchesInOrder
<1>6. InOrder(Owners(restarts), {"rcase", "warn"})
  BY <1>2, <1>3, MatchesInOrder
<1>7. InOrder(Owners(errs), {"load"})
  BY <1>2, <1>3, MatchesInOrder
<1>8. InOrder(Owners(mvs), {"cleanup"})
  BY <1>2, <1>3, MatchesInOrder
<1> QED BY <1>4, <1>5, <1>6, <1>7, <1>8 DEF StacksMatchProgram, FrameKinds

\* A sound machine's mask enables exactly the visible bindings.
LEMMA SoundHandlers ==
  ASSUME IInv
  PROVE  EnabledHandlers
<1>1. PICK S : S = Machine
  OBVIOUS
<1>2. S.ctl = ctl /\ S.handlers = handlers /\ S.active = active /\ Sound(S)
  BY <1>1 DEF Machine, IInv
<1>3. /\ Matches(S.handlers, S.ctl, {"hbind", "hcase"}) /\ IsStack(S.ctl) /\ Len(S.ctl) \in Nat
      /\ MaskOK(S, S.active, Len(S.ctl) + 1)
  BY <1>2 DEF Sound, StacksMatch, ProgramOK, IsStack
<1>4. /\ DOMAIN S.handlers = 1..Len(S.handlers) /\ DOMAIN S.ctl = 1..Len(S.ctl)
  BY <1>3, StackSeq DEF Matches
<1>5. Constructs({"hbind", "hcase"}) = {k \in 1..Len(S.ctl) : S.ctl[k].kind \in {"hbind", "hcase"}}
  BY <1>2, <1>4 DEF Constructs
<1> DEFINE Open(k) == \A m \in (k + 1)..Len(S.ctl) : S.ctl[m].kind = "signal" /\ S.ctl[m].running => S.ctl[m].of > k
<1>6. ASSUME NEW i \in 1..Len(S.handlers)
      PROVE  /\ S.handlers[i].ctl \in 1..Len(S.ctl) /\ S.ctl[S.handlers[i].ctl].kind \in {"hbind", "hcase"}
             /\ i \in S.active <=> Open(S.handlers[i].ctl)
  <2>1. S.handlers[i].ctl \in 1..Len(S.ctl) /\ S.ctl[S.handlers[i].ctl].kind \in {"hbind", "hcase"}
    BY <1>3 DEF Matches
  <2>2. S.handlers[i].ctl < Len(S.ctl) + 1
    BY <1>3, <2>1
  <2>3. i \in S.active <=> Enabled(S, S.handlers[i].ctl, Len(S.ctl) + 1)
    BY <1>3, <2>2 DEF MaskOK
  <2>4. Enabled(S, S.handlers[i].ctl, Len(S.ctl) + 1) <=> Open(S.handlers[i].ctl)
    <3>1. (Len(S.ctl) + 1) - 1 = Len(S.ctl)
      BY <1>3
    <3> QED BY <3>1 DEF Enabled
  <2> QED BY <2>1, <2>3, <2>4
<1>7. \A k \in 1..Len(S.ctl) : S.ctl[k].kind \in {"hbind", "hcase"} => \E i \in 1..Len(S.handlers) : S.handlers[i].ctl = k
  BY <1>3 DEF Matches
<1>8. {S.handlers[i].ctl : i \in 1..Len(S.handlers) \intersect S.active} =
        {k \in {x \in 1..Len(S.ctl) : S.ctl[x].kind \in {"hbind", "hcase"}} : Open(k)}
  <2> HIDE DEF Open
  <2>1. ASSUME NEW i \in 1..Len(S.handlers) \intersect S.active
        PROVE  S.handlers[i].ctl \in {k \in {x \in 1..Len(S.ctl) : S.ctl[x].kind \in {"hbind", "hcase"}} : Open(k)}
    BY <1>6
  <2>2. ASSUME NEW k \in 1..Len(S.ctl), S.ctl[k].kind \in {"hbind", "hcase"}, Open(k)
        PROVE  \E i \in 1..Len(S.handlers) \intersect S.active : S.handlers[i].ctl = k
    <3>1. PICK i \in 1..Len(S.handlers) : S.handlers[i].ctl = k
      BY <1>7, <2>2
    <3>2. i \in S.active
      BY <1>6, <2>2, <3>1
    <3> QED BY <3>1, <3>2
  <2> QED BY <2>1, <2>2
<1> QED BY <1>2, <1>4, <1>5, <1>8 DEF EnabledHandlers, Depth

\* A sound machine has no stray transfer.
LEMMA SoundPending ==
  ASSUME IInv
  PROVE  NoStrayTransfer
<1>1. PICK S : S = Machine
  OBVIOUS
<1>2. S.ctl = ctl /\ S.pending = pending /\ Sound(S)
  BY <1>1 DEF Machine, IInv
<1>3. IsStack(S.ctl) /\ Len(S.ctl) \in Nat /\ Parked(S, S.pending, Len(S.ctl) + 1)
  BY <1>2 DEF Sound, ProgramOK, IsStack
<1>4. DOMAIN S.ctl = 1..Len(S.ctl)
  BY <1>3, StackSeq
<1>5. SUFFICES ASSUME S.pending.kind # 0
               PROVE  /\ Protections # {} /\ S.ctl[Max(Protections)].kind = "cleanup"
                      /\ S.ctl[Max(Protections)].exit # 0
  BY <1>2 DEF NoStrayTransfer
<1>6. PICK m \in 1..((Len(S.ctl) + 1) - 1) :
        /\ S.ctl[m].kind = "cleanup" /\ S.ctl[m].exit # 0 /\ Resolves(S, S.pending, m, S.ctl[m].exit)
        /\ \A x \in (m + 1)..((Len(S.ctl) + 1) - 1) : S.ctl[x].kind \notin {"protected", "cleanup"}
  BY <1>3, <1>5 DEF Parked
<1>7. Protections = {k \in 1..Len(S.ctl) : S.ctl[k].kind \in {"protected", "cleanup"}}
  BY <1>2, <1>4 DEF Protections, Constructs
<1>8. m \in Protections /\ m \in Nat
  BY <1>3, <1>6, <1>7
<1>9. \A k \in Protections : k \in Nat /\ k <= m
  BY <1>3, <1>6, <1>7
<1>10. Max(Protections) = m
  <2>1. Max(Protections) \in Protections /\ \A k \in Protections : Max(Protections) >= k
    BY <1>8, <1>9 DEF Max
  <2>2. PICK z : z = Max(Protections)
    OBVIOUS
  <2>3. z \in Nat /\ z <= m /\ z >= m
    BY <1>8, <1>9, <2>1, <2>2
  <2>4. z = m
    BY <1>8, <2>3
  <2> QED BY <2>2, <2>4
<1> QED BY <1>6, <1>8, <1>10

\* A sound machine has the record of each UNWIND-PROTECT.
LEMMA SoundRecords ==
  ASSUME IInv
  PROVE  RecordsMatchCleanups
<1>1. PICK S : S = Machine
  OBVIOUS
<1>2. S.ctl = ctl /\ S.saved = saved /\ Sound(S)
  BY <1>1 DEF Machine, IInv
<1>3. /\ Matches(S.saved, S.ctl, {"protected", "cleanup"}) /\ IsStack(S.ctl)
      /\ \A i \in 1..Len(S.saved) : RecordOK(S, S.saved[i])
  BY <1>2 DEF Sound, StacksMatch, ProgramOK, EntriesOK
<1>4. InOrder(Owners(saved), {"protected", "cleanup"})
  BY <1>2, <1>3, MatchesInOrder
<1>5. DOMAIN S.saved = 1..Len(S.saved)
  BY <1>3, StackSeq DEF Matches
<1>6. ASSUME NEW i \in DOMAIN S.saved, NEW record, record = S.saved[i]
      PROVE  record.entered = (S.ctl[record.ctl].exit # 0) /\ (record.entered => record.pend.kind # 0)
  <2>1. RecordOK(S, record)
    BY <1>3, <1>5, <1>6
  <2>2. record.entered = (S.ctl[record.ctl].exit # 0)
    BY <2>1 DEF RecordOK
  <2>3. ASSUME record.entered PROVE record.pend.kind # 0
    <3>1. Resolves(S, record.pend, record.ctl, S.ctl[record.ctl].exit)
      BY <2>1, <2>3 DEF RecordOK
    <3> QED BY <3>1 DEF Resolves
  <2> QED BY <2>2, <2>3
<1> QED BY <1>2, <1>4, <1>6 DEF RecordsMatchCleanups

\* After any exit, error or return each stack holds exactly the entries of the
\* constructs the program is inside of (VM_NLX_FRAME_INIT, cl_error_frame_push).
THEOREM StacksMatchAlways == Served => (Spec => []StacksMatchProgram)
  BY SoundAlways, SoundStacks, PTL

\* The enabled bindings are those pushed before that of every handler that runs
\* (cl_handler_active_mask), however the handlers before were left: the bindings
\* of outer forms and the later-written clauses of the running one's own form.
THEOREM EnabledHandlersAlways == Served => (Spec => []EnabledHandlers)
  BY SoundAlways, SoundHandlers, PTL

\* A transfer is pending only while the cleanup that interrupts it is the
\* innermost one (cl_pending_throw).
THEOREM NoStrayTransferAlways == Served => (Spec => []NoStrayTransfer)
  BY SoundAlways, SoundPending, PTL

\* Every UNWIND-PROTECT being evaluated has its saved record, which says
\* whether its cleanup interrupts an exit (cl_saved_pending_stack).
THEOREM RecordsMatchAlways == Served => (Spec => []RecordsMatchCleanups)
  BY SoundAlways, SoundRecords, PTL
-----------------------------------------------------------------------------
(***************************************************************************)
(* The machine implements ExitDiscipline.                                  *)
(***************************************************************************)
\* A construct, and the program, as ExitDiscipline sees them.
Brief(c) == [kind |-> c.kind, tag |-> c.tag, exit |-> c.exit, of |-> c.of, running |-> c.running, what |-> c.what]
Seen(c) == [k \in DOMAIN c |-> Brief(c[k])]

\* Stacks with the same entries are the same.
LEMMA StackEq ==
  ASSUME NEW s, IsStack(s), NEW t, IsStack(t), Len(s) = Len(t), \A i \in 1..Len(s) : s[i] = t[i]
  PROVE  s = t
<1>1. s = [i \in 1..Len(s) |-> s[i]] /\ t = [i \in 1..Len(s) |-> t[i]]
  BY DEF IsStack
<1>2. [i \in 1..Len(s) |-> s[i]] = [i \in 1..Len(s) |-> t[i]]
  OBVIOUS
<1> QED BY <1>1, <1>2

\* The abstract program is a stack as deep as the concrete one.
LEMMA SeenIs ==
  ASSUME NEW c, IsStack(c)
  PROVE  IsStack(Seen(c)) /\ Len(Seen(c)) = Len(c) /\ \A k \in 1..Len(c) : Seen(c)[k] = Brief(c[k])
<1>1. DOMAIN c = 1..Len(c) /\ Len(c) \in Nat
  BY StackSeq DEF IsStack
<1>2. Seen(c) = [k \in 1..Len(c) |-> Brief(c[k])]
  BY <1>1 DEF Seen
<1>3. PICK s : s = Seen(c)
  OBVIOUS
<1>4. s \in Seq({Brief(c[k]) : k \in 1..Len(c)}) /\ Len(s) = Len(c) /\ \A k \in 1..Len(c) : s[k] = Brief(c[k])
  BY <1>1, <1>2, <1>3
<1>5. IsStack(s)
  BY <1>4, SeqStack
<1> QED BY <1>3, <1>4, <1>5

\* A construct entered.
LEMMA SeenPush ==
  ASSUME NEW c, IsStack(c), NEW x
  PROVE  Seen(Append(c, x)) = Append(Seen(c), Brief(x))
<1>1. PICK b : b = Append(c, x)
  OBVIOUS
<1>2. IsStack(b) /\ Len(b) = Len(c) + 1 /\ (\A i \in 1..Len(c) : b[i] = c[i]) /\ b[Len(c) + 1] = x
  BY <1>1, StackPush
<1>3. IsStack(Seen(c)) /\ Len(Seen(c)) = Len(c) /\ (\A k \in 1..Len(c) : Seen(c)[k] = Brief(c[k])) /\ Len(c) \in Nat
  BY SeenIs DEF IsStack
<1>4. IsStack(Seen(b)) /\ Len(Seen(b)) = Len(b) /\ \A k \in 1..Len(b) : Seen(b)[k] = Brief(b[k])
  BY <1>2, SeenIs
<1>5. PICK s : s = Append(Seen(c), Brief(x))
  OBVIOUS
<1>6. IsStack(s) /\ Len(s) = Len(c) + 1 /\ (\A i \in 1..Len(c) : s[i] = Brief(c[i])) /\ s[Len(c) + 1] = Brief(x)
  BY <1>3, <1>5, StackPush
<1>7. \A i \in 1..(Len(c) + 1) : i \in 1..Len(c) \/ i = Len(c) + 1
  BY <1>3
<1>8. \A i \in 1..(Len(c) + 1) : Seen(b)[i] = s[i]
  BY <1>2, <1>4, <1>6, <1>7
<1>9. Seen(b) = s
  BY <1>2, <1>4, <1>6, <1>8, StackEq
<1> QED BY <1>1, <1>5, <1>9

\* Constructs left.
LEMMA SeenCut ==
  ASSUME NEW c, IsStack(c), NEW n \in 0..Len(c)
  PROVE  Seen(SubSeq(c, 1, n)) = SubSeq(Seen(c), 1, n)
<1>1. PICK b : b = SubSeq(c, 1, n)
  OBVIOUS
<1>2. IsStack(b) /\ Len(b) = n /\ \A i \in 1..n : b[i] = c[i]
  BY <1>1, StackCut
<1>3. IsStack(Seen(c)) /\ Len(Seen(c)) = Len(c) /\ (\A k \in 1..Len(c) : Seen(c)[k] = Brief(c[k])) /\ Len(c) \in Nat
  BY SeenIs DEF IsStack
<1>4. IsStack(Seen(b)) /\ Len(Seen(b)) = n /\ \A k \in 1..n : Seen(b)[k] = Brief(b[k])
  BY <1>2, SeenIs
<1>5. PICK s : s = SubSeq(Seen(c), 1, n)
  OBVIOUS
<1>6. IsStack(s) /\ Len(s) = n /\ \A i \in 1..n : s[i] = Seen(c)[i]
  BY <1>3, <1>5, StackCut
<1>7. \A i \in 1..n : Seen(b)[i] = s[i]
  BY <1>2, <1>3, <1>4, <1>6
<1>8. Seen(b) = s
  BY <1>4, <1>6, <1>7, StackEq
<1> QED BY <1>1, <1>5, <1>8

\* The innermost construct becomes another.
LEMMA SeenSet ==
  ASSUME NEW c, IsStack(c), Len(c) >= 1, NEW x
  PROVE  Seen([c EXCEPT ![Len(c)] = x]) = [Seen(c) EXCEPT ![Len(c)] = Brief(x)]
<1>1. PICK b : b = [c EXCEPT ![Len(c)] = x]
  OBVIOUS
<1>2. SameBelow(c, b, Len(c)) /\ Len(b) = Len(c) /\ b[Len(c)] = x
  BY <1>1, CtlSet
<1>3. IsStack(b) /\ \A k \in 1..(Len(c) - 1) : b[k] = c[k]
  BY <1>2 DEF SameBelow
<1>4. IsStack(Seen(c)) /\ Len(Seen(c)) = Len(c) /\ (\A k \in 1..Len(c) : Seen(c)[k] = Brief(c[k])) /\ Len(c) \in Nat
  BY SeenIs DEF IsStack
<1>5. IsStack(Seen(b)) /\ Len(Seen(b)) = Len(c) /\ \A k \in 1..Len(c) : Seen(b)[k] = Brief(b[k])
  BY <1>2, <1>3, SeenIs
<1>6. PICK a : a = Seen(c)
  OBVIOUS
<1>7. PICK s : s = [a EXCEPT ![Len(a)] = Brief(x)]
  OBVIOUS
<1>8. IsStack(a) /\ Len(a) >= 1 /\ Len(a) = Len(c)
  BY <1>4, <1>6
<1>9. SameBelow(a, s, Len(a)) /\ Len(s) = Len(a) /\ s[Len(a)] = Brief(x)
  BY <1>7, <1>8, CtlSet
<1>10. IsStack(s) /\ \A k \in 1..(Len(c) - 1) : s[k] = a[k]
  BY <1>8, <1>9 DEF SameBelow
<1>11. \A i \in 1..Len(c) : i \in 1..(Len(c) - 1) \/ i = Len(c)
  BY <1>4
<1>12. \A i \in 1..Len(c) : Seen(b)[i] = s[i]
  BY <1>2, <1>3, <1>4, <1>5, <1>6, <1>8, <1>9, <1>10, <1>11
<1>13. Seen(b) = s
  BY <1>5, <1>8, <1>9, <1>10, <1>12, StackEq
<1> QED BY <1>1, <1>6, <1>7, <1>8, <1>13

\* What ExitDiscipline sees of a construct is the construct's.
LEMMA BriefFields ==
  ASSUME NEW c
  PROVE  /\ Brief(c).kind = c.kind /\ Brief(c).tag = c.tag /\ Brief(c).exit = c.exit /\ Brief(c).of = c.of
         /\ Brief(c).running = c.running /\ Brief(c).what = c.what
  BY DEF Brief

\* The state of ExitDiscipline, in terms of the machine's.
LEMMA ProgramIs ==
  ASSUME NEW S, NEW T, Views(S, T), IsStack(S.ctl)
  PROVE  /\ Program = Seen(S.ctl) /\ Program' = Seen(T.ctl)
         /\ IsStack(Program) /\ ED!Depth = Len(S.ctl)
         /\ \A k \in 1..Len(S.ctl) :
              /\ Program[k] = Brief(S.ctl[k])
              /\ Program[k].kind = S.ctl[k].kind /\ Program[k].tag = S.ctl[k].tag /\ Program[k].exit = S.ctl[k].exit
              /\ Program[k].of = S.ctl[k].of /\ Program[k].running = S.ctl[k].running
              /\ Program[k].what = S.ctl[k].what
<1>1. Program = Seen(S.ctl) /\ Program' = Seen(T.ctl)
  BY DEF Program, Seen, Brief, Views
<1>2. IsStack(Program) /\ Len(Program) = Len(S.ctl) /\ \A k \in 1..Len(S.ctl) : Program[k] = Brief(S.ctl[k])
  BY <1>1, SeenIs
<1>3. ED!Depth = Len(S.ctl)
  BY <1>2 DEF ED!Depth
<1>4. ASSUME NEW k \in 1..Len(S.ctl)
      PROVE  /\ Program[k].kind = S.ctl[k].kind /\ Program[k].tag = S.ctl[k].tag /\ Program[k].exit = S.ctl[k].exit
             /\ Program[k].of = S.ctl[k].of /\ Program[k].running = S.ctl[k].running
             /\ Program[k].what = S.ctl[k].what
  BY <1>2, BriefFields
<1> QED BY <1>1, <1>2, <1>3, <1>4

\* The new constructs as ExitDiscipline sees them.
LEMMA BriefContexts ==
  /\ \A kind, tag : Brief(Context(kind, tag)) = ED!Context(kind, tag)
  /\ \A t : Brief(Cleanup(t)) = ED!Cleanup(t)
  /\ \A f : Brief(Binding(f)) = ED!Binding(f)
  /\ \A what, n : Brief(Searching(what, n)) = ED!Signal(what)
<1>1. ASSUME NEW kind, NEW tag PROVE Brief(Context(kind, tag)) = ED!Context(kind, tag)
  BY DEF Brief, Context, ED!Context
<1>2. ASSUME NEW t PROVE Brief(Cleanup(t)) = ED!Cleanup(t)
  <2>1. PICK x : x = Cleanup(t)
    OBVIOUS
  <2>2. x = [kind |-> "cleanup", tag |-> 0, exit |-> t, of |-> 0, running |-> FALSE,
             what |-> "none", at |-> 0, mask |-> {}]
    BY <2>1 DEF Cleanup, Context
  <2>3. Brief(x) = [kind |-> "cleanup", tag |-> 0, exit |-> t, of |-> 0, running |-> FALSE, what |-> "none"]
    BY <2>2 DEF Brief
  <2>4. ED!Cleanup(t) = [kind |-> "cleanup", tag |-> 0, exit |-> t, of |-> 0, running |-> FALSE, what |-> "none"]
    <3>1. PICK y : y = ED!Cleanup(t)
      OBVIOUS
    <3>2. y = [kind |-> "cleanup", tag |-> 0, exit |-> t, of |-> 0, running |-> FALSE, what |-> "none"]
      BY <3>1 DEF ED!Cleanup, ED!Context
    <3> QED BY <3>1, <3>2
  <2> QED BY <2>1, <2>3, <2>4
<1>3. ASSUME NEW what, NEW n PROVE Brief(Searching(what, n)) = ED!Signal(what)
  <2>1. PICK x : x = Searching(what, n)
    OBVIOUS
  <2>2. x = [kind |-> "signal", tag |-> 0, exit |-> 0, of |-> MaxDepth + 1, running |-> FALSE,
             what |-> what, at |-> n + 1, mask |-> {}]
    BY <2>1 DEF Searching, Context
  <2>3. Brief(x) = [kind |-> "signal", tag |-> 0, exit |-> 0, of |-> MaxDepth + 1, running |-> FALSE, what |-> what]
    BY <2>2 DEF Brief
  <2>4. ED!Signal(what) = [kind |-> "signal", tag |-> 0, exit |-> 0, of |-> MaxDepth + 1, running |-> FALSE, what |-> what]
    <3>1. PICK y : y = ED!Signal(what)
      OBVIOUS
    <3>2. y = [kind |-> "signal", tag |-> 0, exit |-> 0, of |-> MaxDepth + 1, running |-> FALSE, what |-> what]
      BY <3>1 DEF ED!Signal, ED!Context
    <3> QED BY <3>1, <3>2
  <2> QED BY <2>1, <2>3, <2>4
<1>4. ASSUME NEW f PROVE Brief(Binding(f)) = ED!Binding(f)
  <2>1. PICK x : x = Binding(f)
    OBVIOUS
  <2>2. x = [kind |-> "hbind", tag |-> 0, exit |-> 0, of |-> f, running |-> FALSE,
             what |-> "none", at |-> 0, mask |-> {}]
    BY <2>1 DEF Binding, Context
  <2>3. Brief(x) = [kind |-> "hbind", tag |-> 0, exit |-> 0, of |-> f, running |-> FALSE, what |-> "none"]
    BY <2>2 DEF Brief
  <2>4. ED!Binding(f) = [kind |-> "hbind", tag |-> 0, exit |-> 0, of |-> f, running |-> FALSE, what |-> "none"]
    <3>1. PICK y : y = ED!Binding(f)
      OBVIOUS
    <3>2. y = [kind |-> "hbind", tag |-> 0, exit |-> 0, of |-> f, running |-> FALSE, what |-> "none"]
      BY <3>1 DEF ED!Binding, ED!Context
    <3> QED BY <3>1, <3>2
  <2> QED BY <2>1, <2>3, <2>4
<1> QED BY <1>1, <1>2, <1>3, <1>4

\* The program has control in both or in neither.
LEMMA ExecutingIs ==
  ASSUME NEW S, NEW T, Views(S, T), Sound(S)
  PROVE  /\ Executing <=> ED!Executing
         /\ Executing <=> ~(S.ctl[Len(S.ctl)].kind = "signal" /\ ~S.ctl[Len(S.ctl)].running)
         /\ Depth = Len(S.ctl)
<1>1. Len(S.ctl) \in 1..Len(S.ctl) /\ IsStack(S.ctl)
  <2>1. Len(S.ctl) \in Nat /\ Len(S.ctl) \in 1..MaxDepth /\ IsStack(S.ctl)
    BY TopOf
  <2> QED BY <2>1
<1>2. ED!Depth = Len(S.ctl) /\ Program[Len(S.ctl)].kind = S.ctl[Len(S.ctl)].kind
      /\ Program[Len(S.ctl)].running = S.ctl[Len(S.ctl)].running
  BY <1>1, ProgramIs
<1>3. ED!Executing <=> ~(S.ctl[Len(S.ctl)].kind = "signal" /\ ~S.ctl[Len(S.ctl)].running)
  BY <1>2 DEF ED!Executing, ED!Top
<1>4. Depth = Len(S.ctl) /\ (Executing <=> ~(S.ctl[Len(S.ctl)].kind = "signal" /\ ~S.ctl[Len(S.ctl)].running))
  BY DEF Executing, Top, Depth, Views
<1> QED BY <1>3, <1>4

\* Entering a construct.
LEMMA EnterStep ==
  ASSUME NEW S, NEW T, Views(S, T), Sound(S), Room,
         NEW kind \in {"catch", "block", "tagbody", "hcase", "rcase", "protected", "load"}, NEW tag \in Tags,
         T.ctl = Append(S.ctl, Context(kind, tag))
  PROVE  ED!Enter
<1>1. IsStack(S.ctl)
  BY TopOf
<1>2. Program' = Append(Program, ED!Context(kind, tag))
  <2>1. Seen(T.ctl) = Append(Seen(S.ctl), Brief(Context(kind, tag)))
    BY <1>1, SeenPush
  <2> QED BY <1>1, <2>1, ProgramIs, BriefContexts
<1>3. ED!Executing /\ ED!Depth < MaxDepth
  <2>1. Executing /\ Depth < MaxDepth
    BY DEF Room
  <2> QED BY <1>1, <2>1, ExecutingIs, ProgramIs
<1> QED BY <1>2, <1>3 DEF ED!Enter

\* Pushing a clause of HANDLER-BIND.
LEMMA EstablishStep ==
  ASSUME NEW S, NEW T, Views(S, T), Sound(S), NEW f, PushClause(f), StartsOrGoesOn(S, f)
  PROVE  ED!Establish
<1>1. IsStack(S.ctl) /\ Len(S.ctl) \in 1..Len(S.ctl)
  <2>1. IsStack(S.ctl) /\ Len(S.ctl) \in Nat /\ Len(S.ctl) \in 1..MaxDepth
    BY TopOf
  <2> QED BY <2>1
<1>2. T.ctl = Append(S.ctl, Binding(f)) /\ Room
  BY DEF PushClause, Views
<1>3. Program' = Append(Program, ED!Binding(f))
  <2>1. Seen(T.ctl) = Append(Seen(S.ctl), Brief(Binding(f)))
    BY <1>1, <1>2, SeenPush
  <2> QED BY <1>1, <2>1, ProgramIs, BriefContexts
<1>4. ED!Executing /\ ED!Depth < MaxDepth
  <2>1. Executing /\ Depth < MaxDepth
    BY <1>2 DEF Room
  <2> QED BY <1>1, <2>1, ExecutingIs, ProgramIs
<1>5. f \in {ED!Depth + 1} \union (IF ED!Top.kind = "hbind" THEN {ED!Top.of} ELSE {})
  <2>1. /\ ED!Depth = Len(S.ctl) /\ Program[Len(S.ctl)].kind = S.ctl[Len(S.ctl)].kind
        /\ Program[Len(S.ctl)].of = S.ctl[Len(S.ctl)].of
    BY <1>1, ProgramIs
  <2>2. ED!Top.kind = S.ctl[Len(S.ctl)].kind /\ ED!Top.of = S.ctl[Len(S.ctl)].of
    BY <2>1 DEF ED!Top
  <2> QED BY <2>1, <2>2 DEF StartsOrGoesOn
<1> QED BY <1>3, <1>4, <1>5 DEF ED!Establish

\* Entering any construct is a step of ExitDiscipline.
LEMMA EntersStep ==
  ASSUME NEW S, NEW T, Views(S, T), Sound(S), Enter
  PROVE  ED!Next
<1>1. 0 \in Tags /\ CatchTags \subseteq Tags /\ BlockNames \subseteq Tags /\ TagbodyIds \subseteq Tags /\ RestartTags \subseteq Tags
  BY DEF Tags
<1>2. ASSUME Room,
             \E kind \in {"catch", "block", "tagbody", "hcase", "rcase", "protected", "load"}, tag \in Tags :
               ctl' = Append(ctl, Context(kind, tag))
      PROVE  ED!Next
  <2>1. PICK kind \in {"catch", "block", "tagbody", "hcase", "rcase", "protected", "load"}, tag \in Tags :
               T.ctl = Append(S.ctl, Context(kind, tag))
    BY <1>2 DEF Views
  <2> QED BY <1>2, <2>1, EnterStep DEF ED!Next
<1>3. CASE \E tag \in CatchTags : Catch(tag)
  BY <1>1, <1>2, <1>3 DEF Catch, Push
<1>4. CASE \E name \in BlockNames : Block(name)
  BY <1>1, <1>2, <1>4 DEF Block, Push
<1>5. CASE \E id \in TagbodyIds : Tagbody(id)
  BY <1>1, <1>2, <1>5 DEF Tagbody, Push
<1>6. CASE \E tag \in RestartTags : RestartCase(tag)
  BY <1>1, <1>2, <1>6 DEF RestartCase, Push
<1>7. CASE UnwindProtect
  BY <1>1, <1>2, <1>7 DEF UnwindProtect
<1>8. CASE HandlerBind \/ HandlerClause
  <2>1. PICK f : PushClause(f) /\ StartsOrGoesOn(S, f)
    BY <1>8 DEF HandlerBind, HandlerClause, StartsOrGoesOn, Top, Depth, Views
  <2> QED BY <2>1, EstablishStep DEF ED!Next
<1>9. CASE HandlerCase
  BY <1>1, <1>2, <1>9 DEF HandlerCase, Push
<1>10. CASE Load
  BY <1>1, <1>2, <1>10 DEF Load
<1>11. CASE Warn
  <2>1. IsStack(S.ctl) /\ Len(S.ctl) \in Nat
    BY TopOf
  <2>2. Executing /\ Depth + 1 < MaxDepth /\ Depth = Len(S.ctl)
    BY <1>11, ExecutingIs DEF Warn
  <2>3. PICK tag : tag = -(Len(S.ctl) + 1)
    OBVIOUS
  <2>4. tag \in Tags
    <3>1. Len(S.ctl) + 1 \in 1..MaxDepth
      BY <2>1, <2>2, ExitConstants
    <3> QED BY <2>3, <3>1 DEF Tags
  <2>5. T.ctl = S.ctl \o <<Context("warn", tag), Searching("warn", Len(handlers))>>
    BY <1>11, <2>2, <2>3 DEF Warn, Views
  <2>6. PICK x : x = Context("warn", tag)
    OBVIOUS
  <2>7. PICK y : y = Searching("warn", Len(handlers))
    OBVIOUS
  <2>8. T.ctl = Append(Append(S.ctl, x), y)
    BY <2>1, <2>5, <2>6, <2>7, TwoPushes
  <2>9. Seen(T.ctl) = Append(Append(Seen(S.ctl), Brief(x)), Brief(y))
    <3>1. PICK b : b = Append(S.ctl, x)
      OBVIOUS
    <3>2. IsStack(b) /\ Seen(b) = Append(Seen(S.ctl), Brief(x))
      BY <2>1, <3>1, SeenPush, StackPush
    <3>3. Seen(Append(b, y)) = Append(Seen(b), Brief(y))
      BY <3>2, SeenPush
    <3> QED BY <2>8, <3>1, <3>2, <3>3
  <2>10. Program = Seen(S.ctl) /\ Program' = Seen(T.ctl) /\ IsStack(Program) /\ ED!Depth = Len(S.ctl)
    BY <2>1, ProgramIs
  <2>11. Program' = Program \o <<Brief(x), Brief(y)>>
    <3>1. PICK a : a = Program
      OBVIOUS
    <3>2. PICK v : v = Brief(x)
      OBVIOUS
    <3>3. PICK w : w = Brief(y)
      OBVIOUS
    <3>4. a \o <<v, w>> = Append(Append(a, v), w)
      BY <2>10, <3>1, TwoPushes
    <3> QED BY <2>9, <2>10, <3>1, <3>2, <3>3, <3>4
  <2>12. Brief(x) = ED!Context("warn", tag) /\ Brief(y) = ED!Signal("warn")
    BY <2>6, <2>7, BriefContexts
  <2>13. ED!Executing /\ ED!Depth + 1 < MaxDepth
    BY <2>2, <2>10, ExecutingIs
  <2> QED BY <2>4, <2>11, <2>12, <2>13 DEF ED!Next, ED!Warn
<1> QED BY <1>3, <1>4, <1>5, <1>6, <1>7, <1>8, <1>9, <1>10, <1>11 DEF Enter

\* So is signalling a condition.
LEMMA RaiseStep ==
  ASSUME NEW S, NEW T, Views(S, T), Sound(S), NEW what \in {"signal", "error"}, Raise(what)
  PROVE  ED!Next
<1>1. IsStack(S.ctl)
  BY TopOf
<1>2. PICK x : x = Searching(what, Len(handlers))
  OBVIOUS
<1>3. T.ctl = Append(S.ctl, x) /\ Executing /\ Depth < MaxDepth
  BY <1>2 DEF Raise, Room, Views
<1>4. Seen(T.ctl) = Append(Seen(S.ctl), Brief(x))
  BY <1>1, <1>3, SeenPush
<1>5. Program' = Append(Program, ED!Signal(what))
  BY <1>1, <1>2, <1>4, ProgramIs, BriefContexts
<1>6. ED!Executing /\ ED!Depth < MaxDepth
  BY <1>1, <1>3, ExecutingIs, ProgramIs
<1> QED BY <1>5, <1>6 DEF ED!Next, ED!Raise

\* The step leaves for the construct at depth t: it arrives there, or at the
\* innermost cleanup on the way.
Arrives(S, T, t) ==
  /\ \A k \in (t + 1)..Len(S.ctl) : S.ctl[k].kind # "protected"
  /\ T.ctl = SubSeq(S.ctl, 1, IF S.ctl[t].kind \in {"tagbody", "load"} THEN t ELSE t - 1)
Stops(S, T, t, x) ==
  /\ S.ctl[x].kind = "protected"
  /\ \A k \in (x + 1)..Len(S.ctl) : S.ctl[k].kind # "protected"
  /\ T.ctl = Append(SubSeq(S.ctl, 1, x - 1), Cleanup(t))
Goes(S, T, t) ==
  /\ t \in 1..Len(S.ctl)
  /\ Arrives(S, T, t) \/ \E x \in (t + 1)..Len(S.ctl) : Stops(S, T, t, x)

\* That is ExitTo of ExitDiscipline.
LEMMA GoesExit ==
  ASSUME NEW S, NEW T, Views(S, T), IsStack(S.ctl), NEW t, Goes(S, T, t)
  PROVE  ED!ExitTo(t)
<1> DEFINE F == {k \in (t + 1)..ED!Depth : Program[k].kind = "protected"}
<1>1. /\ Program = Seen(S.ctl) /\ Program' = Seen(T.ctl) /\ ED!Depth = Len(S.ctl)
      /\ \A k \in 1..Len(S.ctl) : Program[k].kind = S.ctl[k].kind
  BY ProgramIs
<1>2. Len(S.ctl) \in Nat /\ t \in 1..Len(S.ctl)
  BY DEF IsStack, Goes
<1>3. \A k : k \in F <=> k \in (t + 1)..Len(S.ctl) /\ S.ctl[k].kind = "protected"
  BY <1>1, <1>2
<1>4. ED!Remaining(t) = IF S.ctl[t].kind \in {"tagbody", "load"} THEN t ELSE t - 1
  BY <1>1, <1>2 DEF ED!Remaining
<1>5. ED!ExitTo(t) <=>
        Program' = IF F = {} THEN SubSeq(Program, 1, ED!Remaining(t))
                   ELSE Append(SubSeq(Program, 1, ED!Max(F) - 1), ED!Cleanup(t))
  BY DEF ED!ExitTo
<1> HIDE DEF F
<1>6. CASE Arrives(S, T, t)
  <2>1. PICK n : n = IF S.ctl[t].kind \in {"tagbody", "load"} THEN t ELSE t - 1
    OBVIOUS
  <2>2. n \in 0..Len(S.ctl)
    BY <1>2, <2>1
  <2>3. F = {}
    BY <1>3, <1>6 DEF Arrives
  <2>4. Seen(T.ctl) = SubSeq(Seen(S.ctl), 1, n)
    BY <1>6, <2>1, <2>2, SeenCut DEF Arrives
  <2> QED BY <1>1, <1>4, <1>5, <2>1, <2>3, <2>4
<1>7. ASSUME NEW x \in (t + 1)..Len(S.ctl), Stops(S, T, t, x) PROVE ED!ExitTo(t)
  <2>1. x \in F /\ x \in Nat
    BY <1>2, <1>3, <1>7 DEF Stops
  <2>2. ASSUME NEW k \in F PROVE k \in Nat /\ k <= x
    <3>1. k \in (t + 1)..Len(S.ctl) /\ k \notin (x + 1)..Len(S.ctl)
      BY <1>3, <1>7 DEF Stops
    <3> QED BY <1>2, <2>1, <3>1
  <2>3. ED!Max(F) = x
    <3>1. ED!Max(F) \in F /\ \A k \in F : ED!Max(F) >= k
      BY <2>1, <2>2 DEF ED!Max
    <3>2. PICK z : z = ED!Max(F)
      OBVIOUS
    <3>3. z \in Nat /\ z <= x /\ z >= x
      BY <2>1, <2>2, <3>1, <3>2
    <3> QED BY <2>1, <3>2, <3>3
  <2>4. x - 1 \in 0..Len(S.ctl)
    BY <1>2
  <2>5. PICK b : b = SubSeq(S.ctl, 1, x - 1)
    OBVIOUS
  <2>6. IsStack(b) /\ Seen(b) = SubSeq(Seen(S.ctl), 1, x - 1)
    BY <2>4, <2>5, SeenCut, StackCut
  <2>7. Seen(T.ctl) = Append(Seen(b), Brief(Cleanup(t)))
    BY <1>7, <2>5, <2>6, SeenPush DEF Stops
  <2>8. Brief(Cleanup(t)) = ED!Cleanup(t)
    BY BriefContexts
  <2> QED BY <1>1, <1>5, <2>1, <2>3, <2>6, <2>7, <2>8
<1> QED BY <1>6, <1>7 DEF Goes

\* Landing on the frame of a protected form with no other above it.
LEMMA LandStops ==
  ASSUME NEW S, NEW T, Views(S, T), Sound(S), NEW j \in 1..Len(S.nlx), NEW f, f = S.nlx[j], f.type = "UWPROT",
         NEW p, NEW t, Land(j, p, t), t \in 1..(f.ctl - 1),
         \A k \in (f.ctl + 1)..Len(S.ctl) : S.ctl[k].kind # "protected"
  PROVE  Goes(S, T, t)
<1>1. f.ctl \in Nat /\ f.ctl \in 2..Len(S.ctl) /\ LabelOK(f, S.ctl[f.ctl])
  BY FrameMarks
<1>2. Len(S.ctl) \in Nat
  BY TopOf
<1>3. T.ctl = Append(SubSeq(S.ctl, 1, f.ctl - 1), Cleanup(t))
  BY DEF Land, Views
<1>4. Stops(S, T, t, f.ctl)
  BY <1>1, <1>3 DEF Stops, LabelOK
<1>5. t \in 1..Len(S.ctl) /\ f.ctl \in (t + 1)..Len(S.ctl)
  BY <1>1, <1>2
<1> QED BY <1>4, <1>5 DEF Goes

\* Later frames belong to deeper constructs, and the other way round.
LEMMA FrameOrder ==
  ASSUME NEW S, Sound(S), NEW i \in 1..Len(S.nlx), NEW j \in 1..Len(S.nlx)
  PROVE  /\ i < j <=> S.nlx[i].ctl < S.nlx[j].ctl
         /\ S.nlx[i].ctl \in 1..Len(S.ctl) /\ S.nlx[i].ctl \in Nat /\ Len(S.nlx) \in Nat /\ Len(S.ctl) \in Nat
<1>1. Matches(S.nlx, S.ctl, FrameKinds) /\ Len(S.ctl) \in Nat /\ Len(S.nlx) \in Nat
  BY TopOf, Depths DEF StacksMatch, IsStack
<1>2. S.nlx[i].ctl \in 1..Len(S.ctl) /\ S.nlx[j].ctl \in 1..Len(S.ctl)
  BY <1>1 DEF Matches
<1>3. /\ i < j => S.nlx[i].ctl < S.nlx[j].ctl
      /\ j < i => S.nlx[j].ctl < S.nlx[i].ctl
  BY <1>1 DEF Matches
<1>4. i < j \/ j < i \/ i = j
  BY <1>1
<1> QED BY <1>1, <1>2, <1>3, <1>4

\* A transfer to frame i goes to its construct.
LEMMA TransferGoes ==
  ASSUME NEW S, NEW T, Views(S, T), Sound(S), NEW i \in 1..Len(S.nlx), S.nlx[i].type # "UWPROT",
         NEW p, NEW rest, Transfer(i, p, rest)
  PROVE  Goes(S, T, S.nlx[i].ctl)
<1> DEFINE F == {j \in FramesOf({"UWPROT"}) : j > i}
<1>1. PICK t : t = S.nlx[i].ctl
  OBVIOUS
<1>2. t \in Nat /\ t \in 2..Len(S.ctl) /\ LabelOK(S.nlx[i], S.ctl[t]) /\ S.ctl[t].kind \in FrameKinds
  BY <1>1, FrameMarks
<1>3. DOMAIN nlx = 1..Len(S.nlx) /\ Len(S.ctl) \in Nat /\ Len(S.nlx) \in Nat
  BY TopOf, Depths, StackSeq DEF Views, IsStack
<1>4. F = {j \in 1..Len(S.nlx) : S.nlx[j].type = "UWPROT" /\ j > i} /\ F \subseteq DOMAIN nlx
  BY <1>3 DEF FramesOf, Views
<1>5. IF F # {} THEN Land(Max(F), p, t) ELSE Land(i, rest, t)
  BY <1>1 DEF Transfer, Views
<1> HIDE DEF F
<1>6. ASSUME NEW k \in (t + 1)..Len(S.ctl), S.ctl[k].kind = "protected"
      PROVE  \E j \in F : S.nlx[j].ctl = k
  <2>1. k \in 1..Len(S.ctl) /\ k > t
    BY <1>2, <1>3
  <2>2. PICK j \in 1..Len(S.nlx) : S.nlx[j].ctl = k /\ S.nlx[j].type = "UWPROT"
    BY <1>6, <2>1, ProtectedFrame
  <2>3. i < j
    BY <1>1, <1>2, <2>1, <2>2, FrameOrder
  <2> QED BY <1>3, <1>4, <2>2, <2>3
<1>7. CASE F # {}
  <2>1. PICK j : j = Max(F)
    OBVIOUS
  <2>2. j \in F /\ \A k \in F : k <= j
    BY <1>4, <1>7, <2>1, Innermost
  <2>3. j \in 1..Len(S.nlx) /\ S.nlx[j].type = "UWPROT" /\ i < j
    BY <1>3, <1>4, <2>2
  <2>4. PICK f : f = S.nlx[j]
    OBVIOUS
  <2>5. t < f.ctl /\ f.ctl \in Nat
    BY <1>1, <2>3, <2>4, FrameOrder
  <2>6. ASSUME NEW k \in (f.ctl + 1)..Len(S.ctl) PROVE S.ctl[k].kind # "protected"
    <3>1. SUFFICES ASSUME S.ctl[k].kind = "protected" PROVE FALSE
      OBVIOUS
    <3>2. k \in (t + 1)..Len(S.ctl) /\ f.ctl < k
      BY <1>2, <1>3, <2>5
    <3>3. PICK m \in F : S.nlx[m].ctl = k
      BY <1>6, <3>1, <3>2
    <3>4. m \in 1..Len(S.nlx) /\ m <= j
      BY <1>4, <2>2, <3>3
    <3>5. j < m
      BY <2>3, <2>4, <3>2, <3>3, <3>4, FrameOrder
    <3> QED BY <1>3, <2>3, <3>4, <3>5
  <2>7. t \in 1..(f.ctl - 1)
    BY <1>2, <2>5
  <2>8. Land(j, p, t) /\ f.type = "UWPROT"
    BY <1>5, <1>7, <2>1, <2>3, <2>4
  <2> QED BY <1>1, <2>3, <2>4, <2>6, <2>7, <2>8, LandStops
<1>8. CASE F = {}
  <2>1. \A k \in (t + 1)..Len(S.ctl) : S.ctl[k].kind # "protected"
    BY <1>6, <1>8
  <2>2. /\ S.nlx[i].type = "TAGBODY" <=> S.ctl[t].kind = "tagbody"
        /\ S.ctl[t].kind # "load"
    BY <1>2 DEF LabelOK, FrameKinds
  <2>3. Land(i, rest, t)
    BY <1>5, <1>8
  <2>4. T.ctl = IF S.nlx[i].type = "TAGBODY" THEN SubSeq(S.ctl, 1, t) ELSE SubSeq(S.ctl, 1, t - 1)
    BY <1>1, <2>3 DEF Land, Views
  <2>5. Arrives(S, T, t)
    BY <2>1, <2>2, <2>4 DEF Arrives
  <2>6. t \in 1..Len(S.ctl)
    BY <1>2, <1>3
  <2> QED BY <1>1, <2>5, <2>6 DEF Goes
<1> QED BY <1>7, <1>8

\* A jump to an error frame goes to its LOAD.
LEMMA JumpGoes ==
  ASSUME NEW S, NEW T, Views(S, T), Sound(S), NEW L, L = S.errs[Len(S.errs)].ctl,
         \A k \in (L + 1)..Len(S.ctl) : S.ctl[k].kind # "protected", NEW records, ErrorFrameJump(records)
  PROVE  Goes(S, T, L)
<1>1. L \in 1..Len(S.ctl) /\ S.ctl[L].kind = "load"
  BY LastLoad
<1>2. T.ctl = SubSeq(S.ctl, 1, L)
  BY DEF ErrorFrameJump, Views
<1>3. Arrives(S, T, L)
  BY <1>1, <1>2 DEF Arrives
<1> QED BY <1>1, <1>3 DEF Goes

\* The condition being offered, before and after a handler runs.
Offered(o) == o = [kind |-> o.kind, tag |-> o.tag, exit |-> o.exit, of |-> o.of, running |-> o.running,
                   what |-> o.what, at |-> o.at, mask |-> o.mask]
Declined(o, c) == c = [o EXCEPT !.running = FALSE]
Called(o, c, i, k, a) == c = [o EXCEPT !.at = i, !.of = k, !.running = TRUE, !.mask = a]

\* ExitDiscipline sees the handler start and end.
LEMMA BriefSignal ==
  ASSUME NEW o, NEW c, NEW i, NEW k, NEW a, Offered(o)
  PROVE  /\ Declined(o, c) => Brief(c) = [Brief(o) EXCEPT !.running = FALSE]
         /\ Called(o, c, i, k, a) => Brief(c) = [Brief(o) EXCEPT !.of = k, !.running = TRUE]
<1>1. ASSUME Declined(o, c) PROVE Brief(c) = [Brief(o) EXCEPT !.running = FALSE]
  <2>1. c.kind = o.kind /\ c.tag = o.tag /\ c.exit = o.exit /\ c.of = o.of /\ c.running = FALSE /\ c.what = o.what
    BY <1>1 DEF Offered, Declined
  <2>2. Brief(c) = [kind |-> o.kind, tag |-> o.tag, exit |-> o.exit, of |-> o.of, running |-> FALSE, what |-> o.what]
    BY ONLY <2>1 DEF Brief
  <2>3. PICK z : z = [Brief(o) EXCEPT !.running = FALSE]
    OBVIOUS
  <2>4. z = [kind |-> o.kind, tag |-> o.tag, exit |-> o.exit, of |-> o.of, running |-> FALSE, what |-> o.what]
    BY ONLY <2>3 DEF Brief
  <2> QED BY <2>2, <2>3, <2>4
<1>2. ASSUME Called(o, c, i, k, a)
      PROVE  Brief(c) = [Brief(o) EXCEPT !.of = k, !.running = TRUE]
  <2>1. c.kind = o.kind /\ c.tag = o.tag /\ c.exit = o.exit /\ c.of = k /\ c.running = TRUE /\ c.what = o.what
    BY <1>2 DEF Offered, Called
  <2>2. Brief(c) = [kind |-> o.kind, tag |-> o.tag, exit |-> o.exit, of |-> k, running |-> TRUE, what |-> o.what]
    BY ONLY <2>1 DEF Brief
  <2>3. PICK z : z = [Brief(o) EXCEPT !.of = k, !.running = TRUE]
    OBVIOUS
  <2>4. z = [kind |-> o.kind, tag |-> o.tag, exit |-> o.exit, of |-> k, running |-> TRUE, what |-> o.what]
    BY ONLY <2>3 DEF Brief
  <2> QED BY <2>2, <2>3, <2>4
<1> QED BY <1>1, <1>2

\* The innermost construct, and the constructs without it.
LEMMA LeftIs ==
  ASSUME NEW S, NEW T, Views(S, T), Sound(S), NEW d, d = Len(S.ctl)
  PROVE  /\ d \in Nat /\ d >= 1 /\ d \in 1..d /\ IsStack(S.ctl)
         /\ ED!Depth = d /\ ED!Top = Brief(S.ctl[d]) /\ ED!Top.kind = S.ctl[d].kind /\ ED!Top.exit = S.ctl[d].exit
         /\ ED!Top.what = S.ctl[d].what
         /\ S.ctl[d].kind # "load" => d > 1
         /\ T.ctl = SubSeq(S.ctl, 1, d - 1) => Program' = SubSeq(Program, 1, d - 1)
<1>1. d \in Nat /\ d \in 1..MaxDepth /\ IsStack(S.ctl) /\ (S.ctl[d].kind # "load" => d \in 2..(Len(S.ctl) + 1))
  BY TopOf
<1>2. d >= 1 /\ d \in 1..d /\ d - 1 \in 0..d
  BY <1>1
<1>3. ED!Depth = d /\ Program[d] = Brief(S.ctl[d]) /\ Program = Seen(S.ctl) /\ Program' = Seen(T.ctl)
  BY <1>1, <1>2, ProgramIs
<1>4. ED!Top = Brief(S.ctl[d])
  BY <1>3 DEF ED!Top
<1>5. T.ctl = SubSeq(S.ctl, 1, d - 1) => Seen(T.ctl) = SubSeq(Seen(S.ctl), 1, d - 1)
  BY <1>1, <1>2, SeenCut
<1>6. /\ Brief(S.ctl[d]).kind = S.ctl[d].kind /\ Brief(S.ctl[d]).exit = S.ctl[d].exit
      /\ Brief(S.ctl[d]).what = S.ctl[d].what
  BY BriefFields
<1>7. S.ctl[d].kind # "load" => d > 1
  BY <1>1
<1> QED BY <1>1, <1>2, <1>3, <1>4, <1>5, <1>6, <1>7

\* A construct returns.
LEMMA ReturnStep ==
  ASSUME NEW S, NEW T, Views(S, T), Sound(S), Executing, NEW d, d = Len(S.ctl), d > 1,
         S.ctl[d].kind \notin {"protected", "signal", "hbind"}, S.ctl[d].kind = "cleanup" => S.ctl[d].exit = 0,
         LeaveCtl
  PROVE  ED!Return
<1>1. T.ctl = SubSeq(S.ctl, 1, d - 1)
  BY DEF LeaveCtl, Depth, Views
<1>2. ED!Executing
  BY ExecutingIs
<1>3. /\ ED!Depth = d /\ ED!Top.kind = S.ctl[d].kind /\ ED!Top.exit = S.ctl[d].exit
      /\ Program' = SubSeq(Program, 1, d - 1)
  BY <1>1, LeftIs
<1>4. /\ ED!Top.kind # "protected" /\ ED!Top.kind # "signal" /\ ~(ED!Top.kind = "cleanup" /\ ED!Top.exit # 0)
      /\ ED!Top.kind # "hbind" /\ ED!Depth > 1 /\ Program' = SubSeq(Program, 1, ED!Depth - 1)
  BY <1>3
<1> QED BY ONLY <1>2, <1>4 DEF ED!Return

\* A HANDLER-BIND returns, with all its clauses.
LEMMA ReturnHandlerBindStep ==
  ASSUME NEW S, NEW T, Views(S, T), Sound(S), Executing, ReturnHandlerBind
  PROVE  ED!Return
<1>1. PICK d : d = Len(S.ctl)
  OBVIOUS
<1>2. PICK f : f = S.ctl[d].of
  OBVIOUS
<1>3. S.ctl[d].kind = "hbind" /\ T.ctl = SubSeq(S.ctl, 1, f - 1)
  BY <1>1, <1>2 DEF ReturnHandlerBind, Top, Depth, Views
<1>4. d \in Nat /\ IsStack(S.ctl) /\ ClauseOK(S, d)
  BY <1>1, <1>3, TopOf DEF ConstructOK
<1>5. f \in 2..d
  BY <1>2, <1>4 DEF ClauseOK
<1>6. f - 1 \in 0..Len(S.ctl)
  BY <1>1, <1>4, <1>5
<1>7. Seen(T.ctl) = SubSeq(Seen(S.ctl), 1, f - 1)
  BY <1>3, <1>4, <1>6, SeenCut
<1>8. ED!Depth = d /\ ED!Depth > 1 /\ ED!Top.kind = "hbind" /\ ED!Top.of = f /\ ED!Executing
  <2>1. ED!Depth = d /\ d > 1 /\ ED!Top = Brief(S.ctl[d])
    BY <1>1, <1>3, LeftIs
  <2> QED BY <1>2, <1>3, <2>1, BriefFields, ExecutingIs
<1>9. Program' = SubSeq(Program, 1, ED!Top.of - 1)
  BY <1>4, <1>7, <1>8, ProgramIs
<1>10. ED!Top.kind # "protected" /\ ED!Top.kind # "signal" /\ ED!Top.kind # "cleanup"
  BY <1>8
<1> QED BY ONLY <1>8, <1>9, <1>10 DEF ED!Return

\* A protected form returns.
LEMMA ReturnProtectedStep ==
  ASSUME NEW S, NEW T, Views(S, T), Sound(S), Executing, ReturnProtected
  PROVE  ED!Return
<1>1. PICK d : d = Len(S.ctl)
  OBVIOUS
<1>2. S.ctl[d].kind = "protected" /\ T.ctl = [S.ctl EXCEPT ![d] = Cleanup(0)]
  BY <1>1 DEF ReturnProtected, Top, Depth, Views
<1>3. /\ d \in Nat /\ d >= 1 /\ IsStack(S.ctl) /\ ED!Depth = d /\ ED!Top.kind = "protected" /\ d > 1
  BY <1>1, <1>2, LeftIs
<1>4. PICK x : x = Cleanup(0)
  OBVIOUS
<1>5. Seen(T.ctl) = [Seen(S.ctl) EXCEPT ![d] = Brief(x)]
  BY <1>1, <1>2, <1>3, <1>4, SeenSet
<1>6. Brief(x) = ED!Cleanup(0)
  BY <1>4, BriefContexts
<1>7. Program' = [Program EXCEPT ![ED!Depth] = ED!Cleanup(0)]
  BY <1>3, <1>5, <1>6, ProgramIs
<1>8. ED!Executing
  BY ExecutingIs
<1>9. ED!Depth > 1
  BY <1>3
<1> QED BY ONLY <1>3, <1>7, <1>8, <1>9 DEF ED!Return

\* A handler declines.
LEMMA ReturnHandlerStep ==
  ASSUME NEW S, NEW T, Views(S, T), Sound(S), Executing, ReturnHandler
  PROVE  ED!Return
<1>1. PICK d : d = Len(S.ctl)
  OBVIOUS
<1>2. PICK o : o = S.ctl[d]
  OBVIOUS
<1>3. PICK c : c = [o EXCEPT !.running = FALSE]
  OBVIOUS
<1>4. o.kind = "signal" /\ T.ctl = [S.ctl EXCEPT ![d] = c]
  BY <1>1, <1>2, <1>3 DEF ReturnHandler, Top, Depth, Views
<1>5. /\ d \in Nat /\ d >= 1 /\ IsStack(S.ctl) /\ ED!Depth = d /\ ED!Top.kind = "signal" /\ d > 1
      /\ ED!Top = Brief(o)
  BY <1>1, <1>2, <1>4, LeftIs
<1>6. ConstructOK(S, d)
  BY <1>1, TopOf
<1>7. Brief(c) = [Brief(o) EXCEPT !.running = FALSE]
  <2>1. Offered(o)
    BY <1>2, <1>6 DEF ConstructOK, Offered
  <2>2. Declined(o, c)
    BY ONLY <1>3 DEF Declined
  <2> QED BY ONLY <2>1, <2>2, BriefSignal, Zenon
<1>8. Seen(T.ctl) = [Seen(S.ctl) EXCEPT ![d] = Brief(c)]
  BY <1>1, <1>4, <1>5, SeenSet
<1>9. Program = Seen(S.ctl) /\ Program' = Seen(T.ctl) /\ Program[d] = Brief(o)
  BY <1>1, <1>2, <1>5, ProgramIs DEF ED!Top
<1>10. Program' = [Program EXCEPT ![d] = [Program[d] EXCEPT !.running = FALSE]]
  BY <1>7, <1>8, <1>9
<1>11. ED!Executing
  BY ExecutingIs
<1>12. Program' = [Program EXCEPT ![ED!Depth].running = FALSE] /\ ED!Depth > 1
  BY <1>5, <1>10
<1> QED BY ONLY <1>5, <1>11, <1>12 DEF ED!Return

\* OP_UWRETHROW finds an exit to go on with exactly when the cleanup
\* interrupts one.
LEMMA ResumesExit ==
  ASSUME NEW S, NEW T, Views(S, T), Sound(S), NEW d, d = Len(S.ctl), S.ctl[d].kind = "cleanup",
         NEW record, record = S.saved[Len(S.saved)]
  PROVE  Resumes(record) <=> S.ctl[d].exit # 0
<1>1. PICK p : p = IF S.pending.kind # 0 THEN S.pending ELSE record.pend
  OBVIOUS
<1>2. /\ IsStack(S.saved) /\ Len(S.saved) >= 1
      /\ Resumes(record) => Resolves(S, p, d, S.ctl[d].exit)
  BY <1>1, CleanupRecord
<1>3. Resumes(record) => S.ctl[d].exit # 0
  BY <1>2 DEF Resolves
<1>4. ASSUME S.ctl[d].exit # 0 PROVE Resumes(record)
  <2>0. EntriesOK(S)
    BY TopOf
  <2>1. Len(S.saved) \in 1..Len(S.saved) /\ EntriesOK(S)
    BY <1>2, <2>0 DEF IsStack
  <2>2. RecordOK(S, record)
    BY <2>1 DEF EntriesOK
  <2>3. record.ctl = d
    <3>1. PICK kind : kind = S.ctl[d].kind
      OBVIOUS
    <3>2. kind \in {"protected", "cleanup"}
      BY <3>1
    <3> QED BY <3>1, <3>2, TopRest
  <2>4. record.entered
    BY <1>4, <2>2, <2>3 DEF RecordOK
  <2>5. Resolves(S, record.pend, record.ctl, S.ctl[record.ctl].exit)
    BY <2>2, <2>4 DEF RecordOK
  <2>6. record.pend.kind # 0
    BY <2>5 DEF Resolves
  <2> QED BY <2>4, <2>6 DEF Resumes
<1> QED BY <1>3, <1>4

\* A cleanup that interrupts an error goes on with it.
LEMMA ResumeErrorGoes ==
  ASSUME NEW S, NEW T, Views(S, T), Sound(S), NEW d, d = Len(S.ctl), S.ctl[d].kind = "cleanup",
         NEW p, p.kind = 2, Resolves(S, p, d, S.ctl[d].exit),
         IF FramesOf({"UWPROT"}) # {}
           THEN Land(Max(FramesOf({"UWPROT"})), p, errs[nlx[Max(FramesOf({"UWPROT"}))].err].ctl)
           ELSE ErrorFrameJump(SubSeq(S.saved, 1, Len(S.saved) - 1)) /\ T.pending = NoThrow
  PROVE  Goes(S, T, S.ctl[d].exit)
<1> DEFINE F == FramesOf({"UWPROT"})
<1>1. PICK L : L = S.errs[Len(S.errs)].ctl
  OBVIOUS
<1>2. S.ctl[d].exit = L /\ L \in 1..(d - 1)
  BY <1>1, ErrorGoesTo
<1>3. d \in Nat /\ DOMAIN nlx = 1..Len(S.nlx) /\ Len(S.nlx) \in Nat
  BY TopOf, Depths, StackSeq DEF Views, IsStack
<1>4. F = {j \in 1..Len(S.nlx) : S.nlx[j].type = "UWPROT"} /\ F \subseteq DOMAIN nlx
  BY <1>3 DEF FramesOf, Views
<1>5. ASSUME NEW k \in 1..Len(S.ctl), S.ctl[k].kind = "protected" PROVE \E j \in F : S.nlx[j].ctl = k
  BY <1>4, <1>5, ProtectedFrame
<1>6. CASE F # {}
  <2>1. PICK j : j = Max(F)
    OBVIOUS
  <2>2. j \in F /\ \A k \in F : k <= j
    BY <1>4, <1>6, <2>1, Innermost
  <2>3. j \in 1..Len(S.nlx) /\ S.nlx[j].type = "UWPROT"
    BY <1>4, <2>2
  <2>4. PICK f : f = S.nlx[j]
    OBVIOUS
  <2>5. Land(j, p, S.errs[f.err].ctl)
    BY <1>6, <2>1, <2>4 DEF Views
  <2>6. f.err = Len(S.errs) /\ L \in 1..(f.ctl - 1) /\ f.ctl \in Nat /\ f.ctl \in 2..d
    BY <1>1, <2>3, <2>4, ProtectedMark
  <2>7. Land(j, p, L) /\ f.type = "UWPROT"
    BY <1>1, <2>3, <2>4, <2>5, <2>6
  <2>8. ASSUME NEW k \in (f.ctl + 1)..Len(S.ctl) PROVE S.ctl[k].kind # "protected"
    <3> HIDE DEF F
    <3>1. SUFFICES ASSUME S.ctl[k].kind = "protected" PROVE FALSE
      OBVIOUS
    <3>2. k \in 1..Len(S.ctl) /\ f.ctl < k
      BY <1>3, <2>6
    <3>3. PICK m \in F : S.nlx[m].ctl = k
      BY <1>5, <3>1, <3>2
    <3>4. m \in 1..Len(S.nlx) /\ m <= j
      BY <1>4, <2>2, <3>3
    <3>5. j < m
      BY <2>3, <2>4, <3>2, <3>3, <3>4, FrameOrder
    <3> QED BY <1>3, <2>3, <3>4, <3>5
  <2> QED BY <1>2, <2>3, <2>4, <2>6, <2>7, <2>8, LandStops
<1>7. CASE F = {}
  <2>1. ErrorFrameJump(SubSeq(S.saved, 1, Len(S.saved) - 1))
    BY <1>7
  <2>2. \A k \in (L + 1)..Len(S.ctl) : S.ctl[k].kind # "protected"
    BY <1>2, <1>3, <1>5, <1>7
  <2> QED BY <1>1, <1>2, <2>1, <2>2, JumpGoes
<1> QED BY <1>6, <1>7

\* A cleanup that interrupts an exit by tag goes on with it: no frame on the
\* way has the tag.
LEMMA ResumeTagGoes ==
  ASSUME NEW S, NEW T, Views(S, T), Sound(S), DistinctTags, NEW d, d = Len(S.ctl), S.ctl[d].kind = "cleanup",
         NEW p, p.kind = 1, Resolves(S, p, d, S.ctl[d].exit),
         NEW F, F = {i \in FramesOf({"CATCH", "BLOCK", "TAGBODY"}) : nlx[i].tag = p.tag},
         F # {} => Transfer(Max(F), p, NoThrow)
  PROVE  Goes(S, T, S.ctl[d].exit)
<1>1. d \in Nat /\ DOMAIN nlx = 1..Len(S.nlx) /\ Len(S.nlx) \in Nat
  BY TopOf, Depths, StackSeq DEF Views, IsStack
<1>2. F = {i \in 1..Len(S.nlx) : S.nlx[i].type \in TaggedTypes /\ S.nlx[i].tag = p.tag} /\ F \subseteq DOMAIN nlx
  BY <1>1 DEF FramesOf, TaggedTypes, Views
<1>3. PICK i \in 1..Len(S.nlx) :
        /\ S.nlx[i].ctl = S.ctl[d].exit /\ S.nlx[i].type \in TaggedTypes /\ S.nlx[i].tag = p.tag
        /\ \A j \in 1..Len(S.nlx) :
             i < j /\ S.nlx[j].ctl < d /\ S.nlx[j].type \in TaggedTypes => S.nlx[j].tag # p.tag
  BY DEF Resolves, ByTag
<1>4. i \in F
  BY <1>2, <1>3
<1>5. PICK j : j = Max(F)
  OBVIOUS
<1>6. j \in F /\ \A k \in F : k <= j
  BY <1>2, <1>4, <1>5, Innermost
<1>7. j \in 1..Len(S.nlx) /\ S.nlx[j].type \in TaggedTypes /\ S.nlx[j].tag = p.tag
  BY <1>2, <1>6
<1>8. S.nlx[j].ctl < d
  <2>1. S.nlx[j].ctl \in 1..d /\ S.ctl[S.nlx[j].ctl].kind \in FrameKinds
    BY <1>7 DEF Sound, StacksMatch, Matches
  <2>2. S.nlx[j].ctl # d
    BY <2>1 DEF FrameKinds
  <2> QED BY <1>1, <2>1, <2>2
<1>9. ~(i < j)
  BY <1>3, <1>7, <1>8
<1>10. i = j
  BY <1>1, <1>3, <1>4, <1>6, <1>7, <1>9
<1>11. Transfer(i, p, NoThrow) /\ S.nlx[i].type # "UWPROT"
  BY <1>3, <1>4, <1>5, <1>10 DEF TaggedTypes
<1>12. Goes(S, T, S.nlx[i].ctl)
  BY <1>3, <1>11, TransferGoes
<1> QED BY <1>3, <1>12

\* The end of a cleanup: it returns, or goes on with the exit it interrupts.
LEMMA CleanupGoes ==
  ASSUME NEW S, NEW T, Views(S, T), Sound(S), DistinctTags, NEW d, d = Len(S.ctl), ReturnCleanup
  PROVE  IF S.ctl[d].exit = 0 THEN LeaveCtl ELSE Goes(S, T, S.ctl[d].exit)
<1>1. S.ctl[d].kind = "cleanup" /\ Rethrow
  BY DEF ReturnCleanup, Top, Depth, Views
<1>2. PICK record : record = S.saved[Len(S.saved)]
  OBVIOUS
<1>3. PICK p : p = IF S.pending.kind # 0 THEN S.pending ELSE record.pend
  OBVIOUS
<1>4. PICK F : F = {i \in FramesOf({"CATCH", "BLOCK", "TAGBODY"}) : nlx[i].tag = p.tag}
  OBVIOUS
<1>5. /\ IsStack(S.saved) /\ Len(S.saved) >= 1
      /\ Resumes(record) => Resolves(S, p, d, S.ctl[d].exit)
  BY <1>1, <1>2, <1>3, CleanupRecord
<1>6. Rethrows(S, T, record, p, F)
  BY <1>1, <1>2, <1>3, <1>4, <1>5, RethrowCases
<1>7. Resumes(record) <=> S.ctl[d].exit # 0
  BY <1>1, <1>2, ResumesExit
<1>8. CASE ~Resumes(record)
  <2>1. LeaveCtl
    BY <1>6, <1>8 DEF Rethrows
  <2> QED BY <1>7, <1>8, <2>1
<1>9. CASE Resumes(record)
  <2>1. Resolves(S, p, d, S.ctl[d].exit) /\ p.kind \in 1..3
    BY <1>5, <1>9 DEF Resolves
  <2>2. CASE p.kind = 1
    <3>1. F # {} => Transfer(Max(F), p, NoThrow)
      BY <1>6, <1>9, <2>2 DEF Rethrows
    <3>2. Goes(S, T, S.ctl[d].exit)
      BY <1>1, <1>4, <2>1, <2>2, <3>1, ResumeTagGoes
    <3> QED BY <1>7, <1>9, <3>2
  <2>3. CASE p.kind = 3
    <3>1. p.tag \in 1..Len(S.nlx) /\ S.nlx[p.tag].ctl = S.ctl[d].exit /\ S.nlx[p.tag].type = "HANDLER_CASE"
      BY <2>1, <2>3 DEF Resolves, ByClause
    <3>2. p.tag \in FramesOf({"HANDLER_CASE"})
      <4>1. DOMAIN nlx = 1..Len(S.nlx)
        BY TopOf, Depths, StackSeq DEF Views
      <4> QED BY <3>1, <4>1 DEF FramesOf, Views
    <3>3. Transfer(p.tag, p, NoThrow)
      BY <1>6, <1>9, <2>3, <3>2 DEF Rethrows
    <3>4. Goes(S, T, S.nlx[p.tag].ctl)
      BY <3>1, <3>3, TransferGoes
    <3> QED BY <1>7, <1>9, <3>1, <3>4
  <2>4. CASE p.kind = 2
    <3>1. IF FramesOf({"UWPROT"}) # {}
            THEN Land(Max(FramesOf({"UWPROT"})), p, errs[nlx[Max(FramesOf({"UWPROT"}))].err].ctl)
            ELSE ErrorFrameJump(SubSeq(S.saved, 1, Len(S.saved) - 1)) /\ T.pending = NoThrow
      BY <1>6, <1>9, <2>4 DEF Rethrows
    <3>2. Goes(S, T, S.ctl[d].exit)
      BY <1>1, <2>1, <2>4, <3>1, ResumeErrorGoes
    <3> QED BY <1>7, <1>9, <3>2
  <2> QED BY <2>1, <2>2, <2>3, <2>4
<1> QED BY <1>8, <1>9

\* Leaving a construct.
LEMMA LeaveStep ==
  ASSUME NEW S, NEW T, Views(S, T), Sound(S), DistinctTags, Leave
  PROVE  ED!Next
<1>1. PICK d : d = Len(S.ctl)
  OBVIOUS
<1>2. Top = S.ctl[d] /\ Depth = d /\ Executing
  BY <1>1 DEF Top, Depth, Views, Leave
<1>3. ASSUME S.ctl[d].kind \in {"catch", "block", "tagbody", "rcase", "hcase"} \/ (S.ctl[d].kind = "load" /\ d > 1),
             LeaveCtl
      PROVE  ED!Next
  <2>1. d > 1 /\ S.ctl[d].kind \notin {"protected", "signal", "hbind"} /\ S.ctl[d].kind # "cleanup"
    BY <1>1, <1>3, LeftIs
  <2> QED BY <1>1, <1>2, <1>3, <2>1, ReturnStep DEF ED!Next
<1>4. CASE \/ Return("catch", "CATCH") \/ Return("block", "BLOCK") \/ Return("tagbody", "TAGBODY")
           \/ ReturnRestartCase \/ ReturnHandlerCase \/ ReturnLoad
  BY <1>2, <1>3, <1>4 DEF Return, ReturnRestartCase, ReturnHandlerCase, ReturnLoad
<1>5. CASE ReturnProtected
  BY <1>2, <1>5, ReturnProtectedStep DEF ED!Next
<1>6. CASE ReturnHandler
  BY <1>2, <1>6, ReturnHandlerStep DEF ED!Next
<1>7. CASE ReturnCleanup
  <2>1. IF S.ctl[d].exit = 0 THEN LeaveCtl ELSE Goes(S, T, S.ctl[d].exit)
    BY <1>1, <1>7, CleanupGoes
  <2>2. S.ctl[d].kind = "cleanup"
    BY <1>2, <1>7 DEF ReturnCleanup
  <2>3. d > 1 /\ IsStack(S.ctl) /\ ED!Depth = d /\ ED!Top.kind = "cleanup" /\ ED!Top.exit = S.ctl[d].exit
    BY <1>1, <2>2, LeftIs
  <2>4. CASE S.ctl[d].exit = 0
    BY <1>1, <1>2, <2>1, <2>2, <2>3, <2>4, ReturnStep DEF ED!Next
  <2>5. CASE S.ctl[d].exit # 0
    <3>1. ED!ExitTo(ED!Top.exit)
      BY <2>1, <2>3, <2>5, GoesExit
    <3>2. ED!Executing /\ ED!Depth > 1 /\ ED!Top.kind = "cleanup" /\ ED!Top.exit # 0
      BY <1>2, <2>3, <2>5, ExecutingIs
    <3>3. ED!Return
      BY ONLY <3>1, <3>2 DEF ED!Return
    <3> QED BY <3>3 DEF ED!Next
  <2> QED BY <2>4, <2>5
<1>8. CASE ReturnHandlerBind
  BY <1>2, <1>8, ReturnHandlerBindStep DEF ED!Next
<1> QED BY <1>4, <1>5, <1>6, <1>7, <1>8 DEF Leave

\* THROW, RETURN-FROM, GO and INVOKE-RESTART go to the construct they look for.
LEMMA ExitStep ==
  ASSUME NEW S, NEW T, Views(S, T), Sound(S), NEW type \in TaggedTypes, NEW tag, ExitByTag(type, tag)
  PROVE  ED!Next
<1> DEFINE F == InnermostFrame(type, tag)
<1>1. F # {} /\ F \subseteq DOMAIN nlx /\ \A i \in DOMAIN nlx : i \in F <=> nlx[i].type = type /\ nlx[i].tag = tag
  BY DEF ExitByTag, InnermostFrame, FramesOf
<1>2. Transfer(Max(F), Throw1(tag), pending) /\ Executing
  BY DEF ExitByTag
<1> HIDE DEF F
<1>3. PICK i : i = Max(F)
  OBVIOUS
<1>4. i \in F /\ i \in 1..Len(S.nlx) /\ \A k \in F : k <= i
  BY <1>1, <1>3, Innermost
<1>5. DOMAIN nlx = 1..Len(S.nlx) /\ Len(S.nlx) \in Nat /\ Len(S.ctl) \in Nat
  BY TopOf, Depths, StackSeq DEF Views, IsStack
<1>6. IsStack(S.ctl)
  BY TopOf
<1>7. S.nlx[i].type = type /\ S.nlx[i].tag = tag /\ type # "UWPROT" /\ type # "HANDLER_CASE"
  BY <1>1, <1>4, <1>5 DEF Views, TaggedTypes
<1>8. PICK t : t = S.nlx[i].ctl
  OBVIOUS
<1>9. t \in Nat /\ t \in 2..Len(S.ctl) /\ LabelOK(S.nlx[i], S.ctl[t]) /\ S.ctl[t].kind \in FrameKinds
  BY <1>4, <1>8, FrameMarks
<1>10. S.ctl[t].kind \in {"catch", "block", "tagbody", "rcase", "warn"} /\ S.ctl[t].tag = tag
  BY <1>7, <1>9 DEF LabelOK, FrameKinds
<1>11. ASSUME S.ctl[t].kind = "catch", NEW k \in (t + 1)..Len(S.ctl), S.ctl[k].kind = "catch", S.ctl[k].tag = tag
       PROVE  FALSE
  <2>1. k \in 1..Len(S.ctl) /\ t < k /\ S.ctl[k].kind \in FrameKinds
    BY <1>5, <1>9, <1>11 DEF FrameKinds
  <2>2. PICK j \in 1..Len(S.nlx) : S.nlx[j].ctl = k
    BY <2>1 DEF Sound, StacksMatch, Matches
  <2>3. LabelOK(S.nlx[j], S.ctl[k])
    BY <2>2, FrameMarks
  <2>4. S.nlx[j].type = "CATCH" /\ S.nlx[j].tag = tag /\ type = "CATCH"
    BY <1>7, <1>9, <1>11, <2>3 DEF LabelOK
  <2>5. j \in F
    BY <1>1, <1>5, <2>4 DEF Views
  <2>6. i < j
    BY <1>4, <1>8, <2>1, <2>2, FrameOrder
  <2> QED BY <1>4, <1>5, <2>5, <2>6
<1>12. Transfer(i, Throw1(tag), pending)
  BY <1>2, <1>3
<1>13. Goes(S, T, t)
  BY <1>4, <1>7, <1>8, <1>12, TransferGoes
<1>14. ED!ExitTo(t)
  BY <1>6, <1>13, GoesExit
<1>15. ED!Executing
  BY <1>2, ExecutingIs
<1>16. /\ ED!Depth = Len(S.ctl)
       /\ \A k \in 1..Len(S.ctl) : Program[k].kind = S.ctl[k].kind /\ Program[k].tag = S.ctl[k].tag
  BY <1>6, ProgramIs
<1>17. t \in 1..Len(S.ctl) /\ \A k \in (t + 1)..Len(S.ctl) : k \in 1..Len(S.ctl)
  BY <1>5, <1>9
<1>18. /\ t \in 2..ED!Depth
       /\ Program[t].kind \in {"catch", "block", "tagbody", "rcase", "warn"}
       /\ Program[t].kind = "catch" =>
            ~\E k \in (t + 1)..ED!Depth : Program[k].kind = "catch" /\ Program[k].tag = Program[t].tag
  BY <1>9, <1>10, <1>11, <1>16, <1>17
<1>19. ED!Exit
  BY ONLY <1>14, <1>15, <1>18 DEF ED!Exit
<1> QED BY <1>19 DEF ED!Next

\* A condition is offered to a binding that is visible to it.
LEMMA CandidateVisible ==
  ASSUME NEW S, NEW T, Views(S, T), Sound(S), ~Executing, NEW i \in Candidates, NEW d, d = Len(S.ctl),
         NEW k, k = S.handlers[i].ctl
  PROVE  /\ i \in 1..Len(S.handlers) /\ HandlerOK(S, S.handlers[i])
         /\ k \in 1..(d - 1) /\ k \in ED!Visible(d)
         /\ Program[k].kind = S.ctl[k].kind /\ S.ctl[k].kind \in {"hbind", "hcase"}
<1>1. S.ctl[d].kind = "signal" /\ ~S.ctl[d].running
  BY DEF Executing, Top, Depth, Views
<1>2. d \in Nat /\ d \in 1..MaxDepth /\ StacksMatch(S) /\ IsStack(S.ctl)
  BY TopOf
<1>3. ConstructOK(S, d)
  BY TopOf
<1>4. MaskOK(S, S.active, d)
  BY <1>1, TopOf
<1>5. EntriesOK(S)
  BY TopOf
<1>6. IsStack(S.handlers) /\ Matches(S.handlers, S.ctl, {"hbind", "hcase"})
  BY <1>2 DEF StacksMatch, Matches
<1>7. i \in 1..Len(S.handlers) /\ i < S.ctl[d].at /\ i \in S.active
  BY <1>6, StackSeq DEF Candidates, Views, Top, Depth
<1>8. k \in 1..d /\ S.ctl[k].kind \in {"hbind", "hcase"}
  BY <1>6, <1>7 DEF Matches
<1>9. k \in Nat /\ k < d /\ k \in 1..(d - 1)
  <2>1. k # d
    BY <1>1, <1>8
  <2> QED BY <1>2, <1>8, <2>1
<1>10. HandlerOK(S, S.handlers[i])
  BY <1>5, <1>7 DEF EntriesOK
<1>11. Enabled(S, k, d)
  BY <1>4, <1>7, <1>9 DEF MaskOK
<1>12. k < S.ctl[d].of
  <2>1. SignalOK(S, d)
    BY <1>1, <1>3 DEF ConstructOK
  <2> QED BY <1>7, <1>9, <2>1 DEF SignalOK
<1>13. d \in 1..Len(S.ctl) /\ \A m \in 1..(d - 1) : m \in 1..Len(S.ctl)
  BY <1>2
<1>14. /\ Program[d].of = S.ctl[d].of /\ Program[k].kind = S.ctl[k].kind
  BY <1>2, <1>9, <1>13, ProgramIs
<1>15. ASSUME NEW m \in (k + 1)..(d - 1)
       PROVE  Program[m].kind = "signal" /\ Program[m].running => Program[m].of > k
  <2>1. m \in 1..Len(S.ctl)
    BY <1>2, <1>9
  <2>2. Program[m].kind = S.ctl[m].kind /\ Program[m].running = S.ctl[m].running /\ Program[m].of = S.ctl[m].of
    BY <1>2, <2>1, ProgramIs
  <2>3. S.ctl[m].kind = "signal" /\ S.ctl[m].running => S.ctl[m].of > k
    BY <1>11 DEF Enabled
  <2> QED BY <2>2, <2>3
<1>16. k \in ED!Visible(d)
  BY <1>8, <1>9, <1>12, <1>14, <1>15 DEF ED!Visible
<1> QED BY <1>7, <1>8, <1>9, <1>10, <1>14, <1>16

\* Offering a condition to a binding.
LEMMA OfferStep ==
  ASSUME NEW S, NEW T, Views(S, T), Sound(S), NEW i \in DOMAIN handlers, Offer(i)
  PROVE  ED!Next
<1>1. ~Executing /\ i \in Candidates
  BY DEF Offer
<1>2. PICK d : d = Len(S.ctl)
  OBVIOUS
<1>3. PICK k : k = S.handlers[i].ctl
  OBVIOUS
<1>4. /\ i \in 1..Len(S.handlers) /\ HandlerOK(S, S.handlers[i])
      /\ k \in 1..(d - 1) /\ k \in ED!Visible(d)
      /\ Program[k].kind = S.ctl[k].kind /\ S.ctl[k].kind \in {"hbind", "hcase"}
  BY <1>1, <1>2, <1>3, CandidateVisible
<1>5. d \in Nat /\ d >= 1 /\ d \in 1..d /\ IsStack(S.ctl) /\ ED!Depth = d
  BY <1>2, LeftIs
<1>6. ~ED!Executing
  BY <1>1, ExecutingIs
<1>7. ASSUME CallHandler(i) PROVE ED!Offer
  <2>1. S.handlers[i].frame = 0
    BY <1>7 DEF CallHandler, Views
  <2>2. S.ctl[k].kind # "hcase"
    <3>1. S.ctl[k].kind = "hcase" => S.handlers[i].frame \in 1..Len(S.nlx)
      BY <1>3, <1>4 DEF HandlerOK
    <3> QED BY <2>1, <3>1
  <2>3. PICK o : o = S.ctl[d]
    OBVIOUS
  <2>4. PICK a : a = S.active
    OBVIOUS
  <2>5. PICK c : c = [o EXCEPT !.at = i, !.of = k, !.running = TRUE, !.mask = a]
    OBVIOUS
  <2>6. T.ctl = [S.ctl EXCEPT ![d] = c]
    BY <1>2, <1>3, <1>7, <2>3, <2>4, <2>5 DEF CallHandler, Depth, Views
  <2>7. Brief(c) = [Brief(o) EXCEPT !.of = k, !.running = TRUE]
    <3>1. ConstructOK(S, d)
      BY <1>2, TopOf
    <3>2. Offered(o)
      BY <2>3, <3>1 DEF ConstructOK, Offered
    <3>3. Called(o, c, i, k, a)
      BY ONLY <2>5 DEF Called
    <3> QED BY ONLY <3>2, <3>3, BriefSignal, Zenon
  <2>8. Seen(T.ctl) = [Seen(S.ctl) EXCEPT ![d] = Brief(c)]
    BY <1>2, <1>5, <2>6, SeenSet
  <2>9. Program = Seen(S.ctl) /\ Program' = Seen(T.ctl) /\ Program[d] = Brief(o)
    BY <1>2, <1>5, <2>3, ProgramIs
  <2>10. Program' = [Program EXCEPT ![d] = [Program[d] EXCEPT !.of = k, !.running = TRUE]]
    BY <2>7, <2>8, <2>9
  <2>11. /\ k \in ED!Visible(ED!Depth) /\ Program[k].kind # "hcase"
         /\ Program' = [Program EXCEPT ![ED!Depth] = [@ EXCEPT !.of = k, !.running = TRUE]]
    BY <1>4, <1>5, <2>2, <2>10
  <2> QED BY ONLY <1>6, <2>11 DEF ED!Offer
<1>8. ASSUME TakeClause(i) PROVE ED!Offer
  <2>1. PICK j : j = S.handlers[i].frame
    OBVIOUS
  <2>2. j # 0 /\ Transfer(j, ClauseThrow(j), pending)
    BY <1>8, <2>1 DEF TakeClause, Views
  <2>3. S.ctl[k].kind = "hcase" /\ j \in 1..Len(S.nlx) /\ S.nlx[j].ctl = k
    BY <1>3, <1>4, <2>1, <2>2 DEF HandlerOK
  <2>4. LabelOK(S.nlx[j], S.ctl[k])
    BY <2>3, FrameMarks
  <2>5. S.nlx[j].type # "UWPROT"
    BY <2>3, <2>4 DEF LabelOK
  <2>6. Goes(S, T, S.nlx[j].ctl)
    BY <2>2, <2>3, <2>5, TransferGoes
  <2>7. ED!ExitTo(k)
    BY <1>5, <2>3, <2>6, GoesExit
  <2>8. k \in ED!Visible(ED!Depth) /\ Program[k].kind = "hcase"
    BY <1>4, <1>5, <2>3
  <2> QED BY ONLY <1>6, <2>7, <2>8 DEF ED!Offer
<1> QED BY <1>7, <1>8 DEF Offer, ED!Next

\* An error that no handler took leaves for the innermost LOAD.
LEMMA ErrorGoes ==
  ASSUME NEW S, NEW T, Views(S, T), Sound(S), ErrorUnwind
  PROVE  Goes(S, T, S.errs[Len(S.errs)].ctl)
<1>1. PICK e : e = S.errs[Len(S.errs)]
  OBVIOUS
<1>2. PICK L : L = e.ctl
  OBVIOUS
<1>3. PICK F : F = {j \in FramesOf({"UWPROT"}) : Inside(errs[Len(errs)], j)}
  OBVIOUS
<1>4. Len(S.errs) \in Nat /\ Len(S.errs) >= 1
  BY LastLoad
<1>5. L \in 1..Len(S.ctl) /\ S.ctl[L].kind = "load"
  BY <1>1, <1>2, LastLoad
<1>6. EntriesOK(S)
  BY TopOf
<1>7. At(S.nlx, L, e.nlx)
  <2>1. Len(S.errs) \in 1..Len(S.errs)
    BY <1>4
  <2> QED BY <1>1, <1>2, <1>6, <2>1 DEF EntriesOK, ErrorFrameOK
<1>8. DOMAIN nlx = 1..Len(S.nlx) /\ Len(S.nlx) \in Nat /\ Len(S.ctl) \in Nat
  BY TopOf, Depths, StackSeq DEF Views, IsStack
<1>9. F = {j \in 1..Len(S.nlx) : S.nlx[j].type = "UWPROT" /\ j > e.nlx} /\ F \subseteq DOMAIN nlx
  BY <1>1, <1>3, <1>8 DEF FramesOf, Inside, Views
<1>10. /\ F # {} => Land(Max(F), ErrorThrow, L)
       /\ F = {} => ErrorFrameJump(saved)
  BY <1>1, <1>2, <1>3 DEF ErrorUnwind, Views
<1>11. e.nlx \in Nat
  BY <1>7, <1>8 DEF At
<1>12. ASSUME NEW k \in (L + 1)..Len(S.ctl), S.ctl[k].kind = "protected" PROVE \E j \in F : S.nlx[j].ctl = k
  <2>1. k \in 1..Len(S.ctl) /\ ~(k < L)
    BY <1>5, <1>8
  <2>2. PICK j \in 1..Len(S.nlx) : S.nlx[j].ctl = k /\ S.nlx[j].type = "UWPROT"
    BY <1>12, <2>1, ProtectedFrame
  <2>3. ~(j <= e.nlx)
    BY <1>7, <2>1, <2>2 DEF At
  <2>4. j > e.nlx
    BY <1>8, <1>11, <2>3
  <2> QED BY <1>9, <2>2, <2>4
<1>13. CASE F # {}
  <2>1. PICK j : j = Max(F)
    OBVIOUS
  <2>2. j \in F /\ \A k \in F : k <= j
    BY <1>9, <1>13, <2>1, Innermost
  <2>3. j \in 1..Len(S.nlx) /\ S.nlx[j].type = "UWPROT" /\ j > e.nlx
    BY <1>9, <2>2
  <2>4. PICK f : f = S.nlx[j]
    OBVIOUS
  <2>5. f.ctl \in Nat /\ f.ctl \in 2..Len(S.ctl) /\ LabelOK(f, S.ctl[f.ctl])
    BY <2>3, <2>4, FrameMarks
  <2>6. f.ctl # L
    BY <1>5, <2>3, <2>4, <2>5 DEF LabelOK
  <2>7. ~(f.ctl < L)
    <3>1. ~(j <= e.nlx)
      BY <1>8, <1>11, <2>3
    <3> QED BY <1>7, <2>3, <2>4, <3>1 DEF At
  <2>8. L \in 1..(f.ctl - 1)
    BY <1>5, <1>8, <2>5, <2>6, <2>7
  <2>9. ASSUME NEW k \in (f.ctl + 1)..Len(S.ctl) PROVE S.ctl[k].kind # "protected"
    <3>1. SUFFICES ASSUME S.ctl[k].kind = "protected" PROVE FALSE
      OBVIOUS
    <3>2. k \in (L + 1)..Len(S.ctl) /\ f.ctl < k
      BY <1>8, <2>5, <2>8
    <3>3. PICK m \in F : S.nlx[m].ctl = k
      BY <1>12, <3>1, <3>2
    <3>4. m \in 1..Len(S.nlx) /\ m <= j
      BY <1>9, <2>2, <3>3
    <3>5. j < m
      BY <2>3, <2>4, <3>2, <3>3, <3>4, FrameOrder
    <3> QED BY <1>8, <2>3, <3>4, <3>5
  <2>10. Land(j, ErrorThrow, L) /\ f.type = "UWPROT"
    BY <1>10, <1>13, <2>1, <2>3, <2>4
  <2>11. PICK p : p = ErrorThrow
    OBVIOUS
  <2>12. Land(j, p, L)
    BY <2>10, <2>11
  <2> QED BY <1>1, <1>2, <2>3, <2>4, <2>8, <2>9, <2>10, <2>12, LandStops
<1>14. CASE F = {}
  <2>1. ErrorFrameJump(saved)
    BY <1>10, <1>14
  <2>2. \A k \in (L + 1)..Len(S.ctl) : S.ctl[k].kind # "protected"
    BY <1>12, <1>14
  <2>3. L = S.errs[Len(S.errs)].ctl
    BY <1>1, <1>2
  <2> QED BY <2>1, <2>2, <2>3, JumpGoes
<1> QED BY <1>13, <1>14

\* A condition that no handler took.
LEMMA UntakenStep ==
  ASSUME NEW S, NEW T, Views(S, T), Sound(S), SignalReturns \/ WarnReturns \/ ErrorUnhandled
  PROVE  ED!Next
<1>1. PICK d : d = Len(S.ctl)
  OBVIOUS
<1>2. /\ d \in Nat /\ d >= 1 /\ d \in 1..d /\ IsStack(S.ctl)
      /\ ED!Depth = d /\ ED!Top.what = S.ctl[d].what
      /\ S.ctl[d].kind # "load" => d > 1
      /\ T.ctl = SubSeq(S.ctl, 1, d - 1) => Program' = SubSeq(Program, 1, d - 1)
  BY <1>1, LeftIs
<1>3. ~Executing /\ Depth = d /\ Top = S.ctl[d]
  BY <1>1 DEF SignalReturns, WarnReturns, ErrorUnhandled, Depth, Top, Views
<1>4. ~ED!Executing
  BY <1>3, ExecutingIs
<1>5. S.ctl[d].kind = "signal"
  BY <1>3 DEF Executing
<1>6. ASSUME SignalReturns PROVE ED!Untaken
  <2>1. T.ctl = SubSeq(S.ctl, 1, d - 1) /\ S.ctl[d].what = "signal"
    BY <1>3, <1>6 DEF SignalReturns, LeaveCtl, Views
  <2>2. Program' = SubSeq(Program, 1, ED!Depth - 1) /\ ED!Top.what = "signal"
    BY <1>2, <2>1
  <2> QED BY ONLY <1>4, <2>2 DEF ED!Untaken
<1>7. ASSUME WarnReturns PROVE ED!Untaken
  <2>1. T.ctl = SubSeq(S.ctl, 1, (d - 1) - 1) /\ S.ctl[d].what = "warn"
    BY <1>3, <1>7 DEF WarnReturns, Views
  <2>2. (d - 1) - 1 = d - 2 /\ d - 2 \in 0..Len(S.ctl)
    BY <1>1, <1>2, <1>5
  <2>3. Seen(T.ctl) = SubSeq(Seen(S.ctl), 1, d - 2)
    BY <1>2, <2>1, <2>2, SeenCut
  <2>4. Program' = SubSeq(Program, 1, ED!Depth - 2) /\ ED!Top.what = "warn"
    BY <1>2, <2>1, <2>3, ProgramIs
  <2> QED BY ONLY <1>4, <2>4 DEF ED!Untaken
<1>8. ASSUME ErrorUnhandled PROVE ED!Untaken
  <2>1. S.ctl[d].what = "error" /\ ErrorUnwind
    BY <1>3, <1>8 DEF ErrorUnhandled
  <2>2. Goes(S, T, S.errs[Len(S.errs)].ctl)
    BY <2>1, ErrorGoes
  <2>3. PICK L : L = S.errs[Len(S.errs)].ctl
    OBVIOUS
  <2>4. L \in 1..d /\ S.ctl[L].kind = "load"
    BY <1>1, <2>3, LastLoad
  <2>5. \A k \in (L + 1)..d : S.ctl[k].kind # "load"
    BY <1>1, <2>3, LastLoad
  <2>6. ED!ErrorTarget = L
    <3> DEFINE F == {k \in 1..ED!Depth : Program[k].kind = "load"}
    <3>1. \A k : k \in F <=> k \in 1..d /\ S.ctl[k].kind = "load"
      BY <1>1, <1>2, ProgramIs
    <3>2. ED!ErrorTarget = ED!Max(F)
      BY DEF ED!ErrorTarget
    <3> HIDE DEF F
    <3>3. L \in F /\ L \in Nat
      BY <1>2, <2>4, <3>1
    <3>4. ASSUME NEW k \in F PROVE k \in Nat /\ k <= L
      <4>1. k \in 1..d /\ k \notin (L + 1)..d
        BY <2>5, <3>1
      <4> QED BY <1>2, <3>3, <4>1
    <3>5. ED!Max(F) \in F /\ \A k \in F : ED!Max(F) >= k
      BY <3>3, <3>4 DEF ED!Max
    <3>6. PICK z : z = ED!Max(F)
      OBVIOUS
    <3>7. z \in Nat /\ z <= L /\ z >= L
      BY <3>3, <3>4, <3>5, <3>6
    <3> QED BY <3>2, <3>3, <3>6, <3>7
  <2>7. ED!ExitTo(ED!ErrorTarget) /\ ED!Top.what = "error"
    BY <1>2, <2>1, <2>2, <2>3, <2>6, GoesExit
  <2> QED BY ONLY <1>4, <2>7 DEF ED!Untaken
<1> QED BY <1>6, <1>7, <1>8 DEF ED!Next

\* Every step of the machine is one of ExitDiscipline.
LEMMA NextStep ==
  ASSUME NEW S, NEW T, Views(S, T), Sound(S), DistinctTags, Next
  PROVE  ED!Next
<1>1. {"CATCH", "BLOCK", "TAGBODY"} \subseteq TaggedTypes
  BY DEF TaggedTypes
<1>2. CASE Enter
  BY <1>2, EntersStep
<1>3. CASE Leave
  BY <1>3, LeaveStep
<1>4. CASE \E tag \in CatchTags : Throw(tag)
  BY <1>1, <1>4, ExitStep DEF Throw
<1>5. CASE \E name \in BlockNames : ReturnFrom(name)
  BY <1>1, <1>5, ExitStep DEF ReturnFrom
<1>6. CASE \E id \in TagbodyIds : Go(id)
  BY <1>1, <1>6, ExitStep DEF Go
<1>7. CASE \E r \in DOMAIN restarts : InvokeRestart(r)
  BY <1>1, <1>7, ExitStep DEF InvokeRestart
<1>8. CASE \E what \in {"signal", "error"} : Raise(what)
  BY <1>8, RaiseStep
<1>9. CASE \E i \in DOMAIN handlers : Offer(i)
  BY <1>9, OfferStep
<1>10. CASE SignalReturns \/ WarnReturns \/ ErrorUnhandled
  BY <1>10, UntakenStep
<1> QED BY <1>2, <1>3, <1>4, <1>5, <1>6, <1>7, <1>8, <1>9, <1>10 DEF Next

\* The toplevel of the machine is the toplevel of ExitDiscipline.
LEMMA InitStep ==
  ASSUME Init
  PROVE  ED!Init
<1>1. PICK c : c = Context("load", 0)
  OBVIOUS
<1>2. ctl = <<c>>
  BY <1>1 DEF Init
<1>3. PICK b : b = Brief(c)
  OBVIOUS
<1>4. b = ED!Toplevel
  BY <1>1, <1>3, BriefContexts DEF ED!Toplevel
<1>5. Program = Seen(ctl)
  BY DEF Program, Seen, Brief
<1>6. IsStack(<<c>>) /\ Len(<<c>>) = 1 /\ <<c>>[1] = c
  BY DEF IsStack
<1>7. IsStack(Seen(<<c>>)) /\ Len(Seen(<<c>>)) = 1 /\ \A k \in 1..1 : Seen(<<c>>)[k] = Brief(<<c>>[k])
  BY <1>6, SeenIs
<1>8. IsStack(<<b>>) /\ Len(<<b>>) = 1 /\ <<b>>[1] = b
  BY DEF IsStack
<1>9. Seen(<<c>>) = <<b>>
  <2>1. \A k \in 1..1 : k = 1
    OBVIOUS
  <2>2. \A k \in 1..1 : Seen(<<c>>)[k] = <<b>>[k]
    BY <1>3, <1>6, <1>7, <1>8, <2>1
  <2> QED BY <1>7, <1>8, <2>2, StackEq
<1> QED BY <1>2, <1>4, <1>5, <1>9 DEF ED!Init

\* Refinement, for programs of any depth: a program of the served shapes whose
\* tags tell catches, blocks and tagbodies apart sees the exits that
\* ExitDiscipline promises, in spite of marks, masks, records and pending
\* transfers (vm.c, error.c, builtins_condition.c).
THEOREM Implements == Served /\ DistinctTags => (Spec => ExitDisciplineSpec)
<1> SUFFICES ASSUME Served, DistinctTags PROVE Spec => ED!Spec
  BY DEF ExitDisciplineSpec
<1>1. Init => ED!Init
  BY InitStep
<1>2. IInv /\ [Next]_vars => [ED!Next]_Program
  <2>1. SUFFICES ASSUME IInv, [Next]_vars PROVE [ED!Next]_Program
    OBVIOUS
  <2>2. PICK S : S = Machine
    OBVIOUS
  <2>3. PICK T : T = Machine'
    OBVIOUS
  <2>4. Views(S, T)
    BY <2>2, <2>3 DEF Machine, Views
  <2>5. Sound(S)
    BY <2>1, <2>2 DEF IInv
  <2>6. CASE Next
    BY <2>4, <2>5, <2>6, NextStep
  <2>7. CASE UNCHANGED vars
    BY <2>7 DEF vars, Program
  <2> QED BY <2>1, <2>6, <2>7
<1>3. Spec => []IInv
  BY SoundAlways
<1> QED BY <1>1, <1>2, <1>3, PTL DEF Spec, ED!Spec

\* A cleanup that ends while it interrupts an exit resumes it: the step arrives
\* at the target, or at the next cleanup on the way (OP_UWRETHROW).
THEOREM ExitResumedAlways == Served /\ DistinctTags => (Spec => ExitResumed)
<1> SUFFICES ASSUME Served, DistinctTags PROVE Spec => ExitResumed
  OBVIOUS
<1> DEFINE Resumed == (Executing /\ ReturnCleanup /\ Top.exit # 0) =>
                        \/ Len(ctl') = ED!Remaining(Top.exit)
                        \/ /\ Len(ctl') > Top.exit
                           /\ ctl'[Len(ctl')] = Cleanup(Top.exit)
<1>1. IInv /\ [Next]_vars => [Resumed]_vars
  <2>1. SUFFICES ASSUME IInv, ReturnCleanup, Top.exit # 0
                 PROVE  \/ Len(ctl') = ED!Remaining(Top.exit)
                        \/ /\ Len(ctl') > Top.exit
                           /\ ctl'[Len(ctl')] = Cleanup(Top.exit)
    OBVIOUS
  <2>2. PICK S : S = Machine
    OBVIOUS
  <2>3. PICK T : T = Machine'
    OBVIOUS
  <2>4. Views(S, T)
    BY <2>2, <2>3 DEF Machine, Views
  <2>5. Sound(S)
    BY <2>1, <2>2 DEF IInv
  <2>6. PICK d : d = Len(S.ctl)
    OBVIOUS
  <2>7. PICK t : t = S.ctl[d].exit
    OBVIOUS
  <2>8. Top.exit = t /\ t # 0 /\ ctl' = T.ctl
    BY <2>1, <2>4, <2>6, <2>7 DEF Top, Depth, Views
  <2>9. Goes(S, T, t)
    BY <2>1, <2>4, <2>5, <2>6, <2>7, <2>8, CleanupGoes
  <2>10. IsStack(S.ctl) /\ Len(S.ctl) \in Nat
    BY <2>5, TopOf
  <2>11. t \in 1..Len(S.ctl)
    BY <2>9 DEF Goes
  <2>12. CASE Arrives(S, T, t)
    <3>1. PICK n : n = IF S.ctl[t].kind \in {"tagbody", "load"} THEN t ELSE t - 1
      OBVIOUS
    <3>2. n \in 0..Len(S.ctl)
      BY <2>10, <2>11, <3>1
    <3>3. Len(T.ctl) = n
      BY <2>10, <2>12, <3>1, <3>2, StackCut DEF Arrives
    <3>4. ED!Remaining(t) = n
      BY <2>4, <2>10, <2>11, <3>1, ProgramIs DEF ED!Remaining
    <3> QED BY <2>8, <3>3, <3>4
  <2>13. ASSUME NEW x \in (t + 1)..Len(S.ctl), Stops(S, T, t, x)
         PROVE  Len(T.ctl) > t /\ T.ctl[Len(T.ctl)] = Cleanup(t)
    <3>1. PICK b : b = SubSeq(S.ctl, 1, x - 1)
      OBVIOUS
    <3>2. x - 1 \in 0..Len(S.ctl)
      BY <2>10, <2>11
    <3>3. IsStack(b) /\ Len(b) = x - 1
      BY <2>10, <3>1, <3>2, StackCut
    <3>4. PICK y : y = Cleanup(t)
      OBVIOUS
    <3>5. T.ctl = Append(b, y)
      BY <2>13, <3>1, <3>4 DEF Stops
    <3>6. Len(T.ctl) = Len(b) + 1 /\ T.ctl[Len(b) + 1] = y
      BY <3>3, <3>5, StackPush
    <3>7. Len(T.ctl) > t
      BY <2>10, <2>11, <3>3, <3>6
    <3> QED BY <3>4, <3>6, <3>7
  <2> QED BY <2>8, <2>9, <2>12, <2>13 DEF Goes
<1>2. Spec => []IInv
  BY SoundAlways
<1> QED BY <1>1, <1>2, PTL DEF Spec, ExitResumed
=============================================================================
