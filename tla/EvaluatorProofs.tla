-------------------------- MODULE EvaluatorProofs --------------------------
(***************************************************************************)
(* What the evaluator remembers is what the formulas define, unless it     *)
(* reports an unsupported formula; and it evaluates no cell within itself. *)
(*                                                                         *)
(* The argument is about the evaluation stack: as long as nothing of the   *)
(* part is reported, each formula of the part that is under way has read   *)
(* exact values, reads the next formula on the stack, and that has a lower *)
(* rank.  So no formula of the part meets itself, whose stored value would *)
(* then have been taken for its value.                                     *)
(*                                                                         *)
(* The lemmas take a solution s, which is one for the workbook and the     *)
(* overrides, so that they also hold of each of WhatIf's two evaluators.   *)
(***************************************************************************)
EXTENDS Evaluator, SequenceTheorems, TLAPS

CONSTANT Values    \* of cells

Frame == [cell : Cells, values : Seq(Values)]
IsFormula(c) ==
    c \in DOMAIN workbook /\ workbook[c].computed /\ c \notin DOMAIN overrides

\* Values are values, formulas read cells, and Python's stack holds an evaluation.
WellTyped(book, given) ==
    /\ DepthLimit \in Nat \ {0}
    /\ None \in Values
    /\ \A c \in DOMAIN given : given[c] \in Values
    /\ \A c \in DOMAIN book : book[c].value \in Values
    /\ \A frame \in Frame : frame.cell \in DOMAIN book =>
        LET doing == Formula(book[frame.cell].formula, frame.values)
        IN /\ doing.kind = "value" => doing.value \in Values
           /\ doing.kind = "read" => doing.cell \in Cells
Typed == WellTyped(workbook, overrides)

----------------------------------------------------------------------------
(* The invariant, of an evaluator e. *)

Shape(e) ==
    /\ e = [memo |-> e.memo, unsupported |-> e.unsupported, stack |-> e.stack,
            want |-> e.want, answer |-> e.answer]
    /\ e.stack \in Seq(Frame)
    /\ e.want \in {<<>>} \cup {<<c>> : c \in Cells}
    /\ \A c \in DOMAIN e.memo : e.memo[c] \in Values
    /\ \A i \in DOMAIN e.stack : IsFormula(e.stack[i].cell)

\* NoRepeats, of e.
Bounded(e) ==
    /\ Len(e.stack) <= DepthLimit
    /\ \A i, k \in DOMAIN e.stack : e.stack[i].cell = e.stack[k].cell => i = k

Right(s, e) == \A c \in s.part \cap DOMAIN e.memo : e.memo[c] = s.exact[c]
Runs(s, e) == \A i \in DOMAIN e.stack : e.stack[i].cell \in s.part => e.stack[i] \in s.runs
Falls(s, e) ==
    \A i, k \in DOMAIN e.stack : i < k /\ e.stack[i].cell \in s.part =>
        e.stack[k].cell \in s.part /\ s.rank[e.stack[k].cell] < s.rank[e.stack[i].cell]
ReadsFrom(s, frame, c) ==
    frame.cell \in s.part => DoingOf(frame).kind = "read" /\ DoingOf(frame).cell = c
Waits(s, e) ==
    \A i \in DOMAIN e.stack : i + 1 \in DOMAIN e.stack =>
        ReadsFrom(s, e.stack[i], e.stack[i + 1].cell)
\* The formula on top waits for c.
TopWaits(s, e, c) == e.stack # <<>> => ReadsFrom(s, e.stack[Len(e.stack)], c)

Exactly(s, e) == Right(s, e) /\ Runs(s, e) /\ Falls(s, e) /\ Waits(s, e)
Faithful(s, e) ==
    e.unsupported \cap s.part = {} =>
        Exactly(s, e) /\ \A c \in Cells : e.want = <<c>> => TopWaits(s, e, c)

\* The cell that is asked for from outside: that of the formula at the bottom of
\* the stack, or one that has no formula on the stack, or the one that has been
\* answered, and then with the exact value.
AskedFor(s, e, c) ==
    \/ e.stack # <<>> /\ e.stack[1].cell = c
    \/ e.stack = <<>> /\ e.want = <<c>>
    \/ /\ e.stack = <<>> /\ e.want = <<>>
       /\ e.answer # <<>> /\ (c \in s.part => e.answer[1] = s.exact[c])

\* The same of an evaluator that is about to be given the value of c.
Root(e, c, asked) == IF e.stack = <<>> THEN asked = c ELSE e.stack[1].cell = asked

\* Two evaluators evaluate the same cells.
SameStack(e, f) ==
    /\ DOMAIN f.stack = DOMAIN e.stack /\ Len(f.stack) = Len(e.stack)
    /\ \A i \in DOMAIN e.stack : f.stack[i].cell = e.stack[i].cell

Sound == Typed /\ Shape(ev) /\ Bounded(ev)
Given(s) == Typed /\ Solves(workbook, overrides, s)
IInv(s) == Given(s) /\ Sound /\ Faithful(s, ev)

----------------------------------------------------------------------------
(* What the operations on evaluators do. *)

\* An evaluator with another stack, or other cells noted.
LEMMA Fields ==
    ASSUME NEW e, Shape(e), NEW field
    PROVE  /\ [e EXCEPT !.stack = field] =
                [memo |-> e.memo, unsupported |-> e.unsupported, stack |-> field,
                 want |-> e.want, answer |-> e.answer]
           /\ [e EXCEPT !.unsupported = field] =
                [memo |-> e.memo, unsupported |-> field, stack |-> e.stack,
                 want |-> e.want, answer |-> e.answer]
<1>1. e = [memo |-> e.memo, unsupported |-> e.unsupported, stack |-> e.stack,
           want |-> e.want, answer |-> e.answer]
  BY DEF Shape
<1>2. QED
  BY <1>1

\* A formula that has read other values.
LEMMA FrameFields ==
    ASSUME NEW frame \in Frame, NEW values
    PROVE  [frame EXCEPT !.values = values] = [cell |-> frame.cell, values |-> values]
BY DEF Frame

\* Give keeps the shape, and changes the formula on top and nothing below.
LEMMA GiveEffect ==
    ASSUME NEW e, Shape(e), NEW value \in Values
    PROVE  /\ Shape(Give(e, value))
           /\ Give(e, value).memo = e.memo
           /\ Give(e, value).unsupported = e.unsupported
           /\ Give(e, value).want = <<>>
           /\ SameStack(e, Give(e, value))
           /\ \A i \in DOMAIN e.stack : i # Len(e.stack) =>
                Give(e, value).stack[i] = e.stack[i]
           /\ e.stack # <<>> => Give(e, value).stack[Len(e.stack)] =
                [cell |-> e.stack[Len(e.stack)].cell,
                 values |-> Append(e.stack[Len(e.stack)].values, value)]
<1> DEFINE n == Len(e.stack)
           g == Give(e, value)
<1>1. CASE e.stack = <<>>
  <2>1. g = [memo |-> e.memo, unsupported |-> e.unsupported, stack |-> e.stack,
             want |-> <<>>, answer |-> <<value>>]
    BY <1>1 DEF Give, Shape
  <2>2. QED
    BY <1>1, <2>1 DEF Shape, SameStack
<1>2. CASE e.stack # <<>>
  <2> DEFINE top == [cell |-> e.stack[n].cell, values |-> Append(e.stack[n].values, value)]
             stack == [e.stack EXCEPT ![n] = top]
  <2>1. n \in DOMAIN e.stack /\ n \in Nat /\ e.stack[n] \in Frame /\ DOMAIN e.stack = 1 .. n
    BY <1>2 DEF Shape
  <2>2. top \in Frame
    BY <2>1 DEF Frame
  <2>4. [e.stack[n] EXCEPT !.values = Append(@, value)] = top
    BY <2>1, FrameFields
  <2>5. stack \in Seq(Frame) /\ Len(stack) = n /\ DOMAIN stack = DOMAIN e.stack
    BY <2>1, <2>2 DEF Shape
  <2>6. g = [memo |-> e.memo, unsupported |-> e.unsupported, stack |-> stack,
             want |-> <<>>, answer |-> e.answer]
    BY <1>2, <2>4 DEF Give, Shape
  <2>7. \A i \in DOMAIN e.stack : stack[i].cell = e.stack[i].cell /\ (i # n => stack[i] = e.stack[i])
    BY <2>1
  <2>8. Shape(g)
    BY <2>5, <2>6, <2>7 DEF Shape
  <2>9. SameStack(e, g)
    BY <2>5, <2>6, <2>7 DEF SameStack
  <2>10. QED
    BY <2>1, <2>5, <2>6, <2>7, <2>8, <2>9
<1>3. QED
  BY <1>1, <1>2

\* Pop takes the formula on top away.
LEMMA PopEffect ==
    ASSUME NEW e, Shape(e), e.stack # <<>>
    PROVE  /\ Shape(Pop(e))
           /\ Pop(e).memo = e.memo /\ Pop(e).unsupported = e.unsupported
           /\ Len(Pop(e).stack) = Len(e.stack) - 1
           /\ DOMAIN Pop(e).stack = 1 .. Len(e.stack) - 1
           /\ \A i \in DOMAIN Pop(e).stack :
                i \in DOMAIN e.stack /\ Pop(e).stack[i] = e.stack[i]
<1> DEFINE n == Len(e.stack)
           stack == SubSeq(e.stack, 1, n - 1)
<1>0. e.stack \in Seq(Frame)
  BY DEF Shape
<1>1. n \in Nat /\ n > 0 /\ DOMAIN e.stack = 1 .. n
  BY <1>0, EmptySeq, LenProperties
<1>2. \A i \in 1 .. n - 1 : e.stack[i] \in Frame
  BY <1>0, <1>1, ElementOfSeq
<1>3. /\ stack \in Seq(Frame) /\ Len(stack) = n - 1
      /\ \A i \in 1 .. n - 1 : stack[i] = e.stack[i]
  BY <1>1, <1>2, SubSeqProperties
<1>4. DOMAIN stack = 1 .. n - 1
  BY <1>3, LenProperties
<1>5. Pop(e) = [memo |-> e.memo, unsupported |-> e.unsupported, stack |-> stack,
                want |-> e.want, answer |-> e.answer]
  BY Fields DEF Pop
<1>6. QED
  BY <1>1, <1>3, <1>4, <1>5 DEF Shape

\* Memoize changes the memo at one cell.
LEMMA MemoizeEffect ==
    ASSUME NEW e, Shape(e), NEW c, NEW value \in Values
    PROVE  /\ Shape(Memoize(e, c, value))
           /\ Memoize(e, c, value).memo = Put(e.memo, c, value)
           /\ Memoize(e, c, value).unsupported = e.unsupported
           /\ Memoize(e, c, value).stack = e.stack
           /\ Memoize(e, c, value).want = e.want
<1>1. Memoize(e, c, value) =
        [memo |-> Put(e.memo, c, value), unsupported |-> e.unsupported,
         stack |-> e.stack, want |-> e.want, answer |-> e.answer]
  BY DEF Memoize, Shape
<1>2. \A d \in DOMAIN Put(e.memo, c, value) : Put(e.memo, c, value)[d] \in Values
  BY DEF Put, Shape
<1>3. QED
  BY <1>1, <1>2 DEF Shape

\* FailedAs keeps the stack but for the value it gives, and notes the cell.
LEMMA FailedEffect ==
    ASSUME NEW e, Shape(e), NEW c, Stored(c) \in Values
    PROVE  /\ Shape(FailedAs(e, c))
           /\ SameStack(e, FailedAs(e, c))
           /\ FailedAs(e, c).unsupported = e.unsupported \cup {c}
           /\ FailedAs(e, c).want = <<>>
<1> DEFINE m == Memoize(e, c, Stored(c))
           f == [m EXCEPT !.unsupported = @ \cup {c}]
<1>1. /\ Shape(m) /\ m.unsupported = e.unsupported /\ m.stack = e.stack
  BY MemoizeEffect
<1> HIDE DEF m
<1>2. f = [memo |-> m.memo, unsupported |-> m.unsupported \cup {c},
           stack |-> m.stack, want |-> m.want, answer |-> m.answer]
  BY <1>1, Fields
<1>3. Shape(f) /\ f.unsupported = e.unsupported \cup {c} /\ f.stack = e.stack
  BY <1>1, <1>2 DEF Shape
<1>4. FailedAs(e, c) = Give(f, Stored(c))
  BY DEF FailedAs, m
<1> HIDE DEF f
<1>5. QED
  <2>1. Shape(Give(f, Stored(c))) /\ SameStack(f, Give(f, Stored(c)))
    BY <1>3, GiveEffect
  <2>2. Give(f, Stored(c)).unsupported = f.unsupported /\ Give(f, Stored(c)).want = <<>>
    BY <1>3, GiveEffect
  <2>3. QED
    BY <1>3, <1>4, <2>1, <2>2 DEF SameStack

----------------------------------------------------------------------------
(* The stack: no cell is evaluated within itself. *)

LEMMA SameIsBounded ==
    ASSUME NEW e, NEW f, SameStack(e, f), Bounded(e)
    PROVE  Bounded(f)
BY DEF SameStack, Bounded

LEMMA PopIsBounded ==
    ASSUME NEW e, Shape(e), e.stack # <<>>, Bounded(e), Typed
    PROVE  Bounded(Pop(e))
<1>1. Len(e.stack) \in Nat
  BY LenProperties DEF Shape
<1>2. QED
  BY <1>1, PopEffect DEF Bounded, Typed, WellTyped

\* A value given leaves a sound evaluator.
LEMMA GiveIsSound ==
    ASSUME NEW e, Shape(e), Bounded(e), NEW value \in Values
    PROVE  Shape(Give(e, value)) /\ Bounded(Give(e, value))
BY GiveEffect, SameIsBounded

\* What is on top of the stack.
LEMMA TopEffect ==
    ASSUME Sound, ev.stack # <<>>
    PROVE  /\ Top \in Frame /\ IsFormula(Top.cell) /\ Stored(Top.cell) \in Values
           /\ Len(ev.stack) \in DOMAIN ev.stack
<1>1. ev.stack \in Seq(Frame)
  BY DEF Sound, Shape
<1>2. Len(ev.stack) \in 1 .. Len(ev.stack) /\ DOMAIN ev.stack = 1 .. Len(ev.stack)
  BY <1>1, EmptySeq, LenProperties
<1>3. QED
  BY <1>1, <1>2, ElementOfSeq DEF Sound, Shape, Typed, WellTyped, Top, IsFormula, Stored

\* A cell that is entered is the only one of its name on the stack.
LEMMA EnterIsSound ==
    ASSUME Sound, NEW c \in Cells, Enter(c)
    PROVE  Shape(ev') /\ Bounded(ev')
<1> DEFINE n == Len(ev.stack)
           frame == [cell |-> c, values |-> <<>>]
           stack == Append(ev.stack, frame)
<1>1. ev.stack \in Seq(Frame) /\ n \in Nat /\ DOMAIN ev.stack = 1 .. n
  BY LenProperties DEF Sound, Shape
<1>2. frame \in Frame
  BY EmptySeq DEF Frame
<1>3. /\ stack \in Seq(Frame) /\ Len(stack) = n + 1 /\ DOMAIN stack = 1 .. n + 1
      /\ stack[n + 1] = frame /\ \A i \in 1 .. n : stack[i] = ev.stack[i]
  BY <1>1, <1>2
<1>4. ev' = [memo |-> ev.memo, unsupported |-> ev.unsupported, stack |-> stack,
             want |-> <<>>, answer |-> ev.answer]
  BY DEF Enter, Sound, Shape
<1>5. IsFormula(c) /\ \A i \in 1 .. n : ev.stack[i].cell # c
  BY <1>1 DEF Enter, FreshFormula, Fresh, IsFormula, OnStack
<1>6. Shape(ev')
  BY <1>1, <1>3, <1>4, <1>5 DEF Sound, Shape
<1>7. n + 1 <= DepthLimit
  BY <1>1 DEF Enter, Sound, Typed, WellTyped
<1>8. QED
  BY <1>1, <1>3, <1>4, <1>5, <1>6, <1>7 DEF Sound, Bounded

\* A formula that ends, with a value or without, leaves a sound evaluator.
LEMMA EndIsSound ==
    ASSUME Sound, ev.stack # <<>>
    PROVE  /\ Shape(FailedAs(Pop(ev), Top.cell)) /\ Bounded(FailedAs(Pop(ev), Top.cell))
           /\ \A value \in Values :
                LET e == Give(Memoize(Pop(ev), Top.cell, value), value)
                IN Shape(e) /\ Bounded(e)
<1>1. Shape(Pop(ev)) /\ Bounded(Pop(ev))
  BY PopEffect, PopIsBounded DEF Sound
<1>2. Stored(Top.cell) \in Values
  BY TopEffect
<1>3. ASSUME NEW value \in Values
      PROVE  LET e == Give(Memoize(Pop(ev), Top.cell, value), value)
             IN Shape(e) /\ Bounded(e)
  <2> DEFINE m == Memoize(Pop(ev), Top.cell, value)
  <2>1. Shape(m) /\ Bounded(m)
    BY <1>1, MemoizeEffect DEF Bounded
  <2>2. QED
    BY <2>1, GiveIsSound
<1>4. QED
  BY <1>1, <1>2, <1>3, FailedEffect, SameIsBounded

LEMMA StepIsSound ==
    ASSUME Sound, Step \/ \E c \in Cells : Ask(c)
    PROVE  Shape(ev') /\ Bounded(ev')
<1>1. Shape(ev) /\ Bounded(ev) /\ Typed
  BY DEF Sound
<1>2. ASSUME NEW c \in Cells, Ask(c) PROVE Shape(ev') /\ Bounded(ev')
  BY <1>1, <1>2 DEF Ask, Shape, Bounded
<1>3. ASSUME NEW c \in Cells, Overridden(c) PROVE Shape(ev') /\ Bounded(ev')
  BY <1>1, <1>3, GiveIsSound DEF Overridden, Typed, WellTyped
<1>4. ASSUME NEW c \in Cells, Memoized(c) PROVE Shape(ev') /\ Bounded(ev')
  <2>1. ev.memo[c] \in Values
    BY <1>1, <1>4 DEF Memoized, Shape
  <2>2. QED
    BY <1>1, <1>4, <2>1, GiveIsSound DEF Memoized
<1>5. ASSUME NEW c \in Cells, Missing(c) PROVE Shape(ev') /\ Bounded(ev')
  BY <1>1, <1>5, GiveIsSound DEF Missing, Typed, WellTyped
<1>6. ASSUME NEW c \in Cells, Constant(c) PROVE Shape(ev') /\ Bounded(ev')
  <2>1. Stored(c) \in Values
    BY <1>1, <1>6 DEF Constant, Typed, WellTyped, Stored
  <2>2. Shape(Memoize(ev, c, Stored(c))) /\ Bounded(Memoize(ev, c, Stored(c)))
    BY <1>1, <2>1, MemoizeEffect DEF Bounded
  <2>3. QED
    BY <1>6, <2>1, <2>2, GiveIsSound DEF Constant
<1>7. ASSUME NEW c \in Cells, FreshFormula(c) PROVE Stored(c) \in Values
  BY <1>1, <1>7 DEF FreshFormula, Typed, WellTyped, Stored
<1>8. ASSUME NEW c \in Cells, Circular(c) PROVE Shape(ev') /\ Bounded(ev')
  BY <1>1, <1>7, <1>8, GiveIsSound DEF Circular
<1>9. ASSUME NEW c \in Cells, Enter(c) PROVE Shape(ev') /\ Bounded(ev')
  BY <1>9, EnterIsSound
<1>10. ASSUME NEW c \in Cells, TooDeep(c) PROVE Shape(ev') /\ Bounded(ev')
  <2>1. CASE FreshFormula(c) /\ ev' = FailedAs(ev, c)
    BY <1>1, <1>7, <2>1, FailedEffect, SameIsBounded
  <2>2. CASE ev' = FailedAs(Pop(ev), Top.cell)
    <3>1. ev.stack # <<>>
      BY <1>1, <1>10 DEF TooDeep, Typed, WellTyped
    <3>2. QED
      BY <2>2, <3>1, EndIsSound
  <2>3. QED
    BY <1>10, <2>1, <2>2 DEF TooDeep
<1>11. CASE Read
  <2>1. Top \in Frame /\ IsFormula(Top.cell)
    BY <1>11, TopEffect DEF Read, Reading
  <2>2. Doing.cell \in Cells
    BY <1>1, <1>11, <2>1 DEF Read, Doing, Typed, WellTyped, DoingOf, IsFormula
  <2>3. QED
    BY <1>1, <1>11, <2>2 DEF Read, Shape, Bounded
<1>12. CASE Finish
  <2>1. Top \in Frame /\ IsFormula(Top.cell)
    BY <1>12, TopEffect DEF Finish, Reading
  <2>2. Doing.value \in Values
    BY <1>1, <1>12, <2>1 DEF Finish, Doing, Typed, WellTyped, DoingOf, IsFormula
  <2>3. QED
    BY <1>12, <2>2, EndIsSound DEF Finish, Reading
<1>13. CASE Fail
  BY <1>13, EndIsSound DEF Fail, Reading
<1>14. QED
  BY <1>2, <1>3, <1>4, <1>5, <1>6, <1>8, <1>9, <1>10, <1>11, <1>12, <1>13 DEF Step

\* The guard on the evaluation stack keeps every cell out of its own
\* evaluation, for all workbooks, cyclic ones included, and all formulas.
THEOREM NothingWithinItself ==
    Spec /\ Typed => []NoRepeats
<1>1. Init /\ Typed => Sound
  BY EmptySeq DEF Init, NewEvaluator, Sound, Shape, Bounded, Typed, WellTyped
<1>2. Sound /\ [Next]_vars => Sound'
  <2>1. ASSUME Sound, Next PROVE Sound'
    <3>1. Shape(ev') /\ Bounded(ev') /\ UNCHANGED <<workbook, overrides>>
      BY <2>1, StepIsSound DEF Next
    <3>2. QED
      BY <2>1, <3>1 DEF Sound, Shape, Bounded, Typed, WellTyped, IsFormula, Stored, DoingOf
  <2>2. CASE UNCHANGED vars
    BY <2>2 DEF vars, Sound, Shape, Bounded, Typed, WellTyped, IsFormula, Stored, DoingOf
  <2>3. QED
    BY <2>1, <2>2
<1>3. Sound => NoRepeats
  BY DEF Sound, Bounded, NoRepeats
<1>4. QED
  BY <1>1, <1>2, <1>3, PTL DEF Spec

----------------------------------------------------------------------------
(* The values: what is remembered is exact. *)

\* What the top of the stack tells, when it waits for c.
LEMMA TopReads ==
    ASSUME NEW s, NEW e, Shape(e), e.stack # <<>>, Given(s), Runs(s, e), NEW c, TopWaits(s, e, c),
           e.stack[Len(e.stack)].cell \in s.part
    PROVE  LET frame == e.stack[Len(e.stack)]
           IN /\ c \in s.part /\ s.rank[c] < s.rank[frame.cell]
              /\ [cell |-> frame.cell, values |-> Append(frame.values, s.exact[c])] \in s.runs
<1>1. Len(e.stack) \in DOMAIN e.stack
  BY EmptySeq, LenProperties DEF Shape
<1>2. e.stack[Len(e.stack)] \in s.runs
  BY <1>1 DEF Runs
<1>3. QED
  BY <1>2 DEF TopWaits, ReadsFrom, Given, Solves, DoingOf

\* An exact value that is given to who waits for it keeps the runs exact.
LEMMA GiveIsExact ==
    ASSUME NEW s, NEW e, Shape(e), Given(s), Exactly(s, e), NEW c, TopWaits(s, e, c),
           NEW value \in Values, c \in s.part => value = s.exact[c]
    PROVE  Exactly(s, Give(e, value))
<1> DEFINE n == Len(e.stack)
           g == Give(e, value)
<1>1. /\ g.memo = e.memo /\ SameStack(e, g)
      /\ \A i \in DOMAIN e.stack : i # n => g.stack[i] = e.stack[i]
  BY GiveEffect
<1>2. n \in Nat /\ DOMAIN e.stack = 1 .. n
  BY LenProperties DEF Shape
<1>3. Right(s, g)
  BY <1>1 DEF Exactly, Right
<1>4. ASSUME NEW i \in DOMAIN g.stack, g.stack[i].cell \in s.part
      PROVE  g.stack[i] \in s.runs
  <2>1. i \in DOMAIN e.stack /\ e.stack[i].cell \in s.part
    BY <1>1, <1>4 DEF SameStack
  <2>2. CASE i # n
    BY <1>1, <2>1, <2>2 DEF Exactly, Runs
  <2>3. CASE i = n
    <3>1. e.stack # <<>>
      BY <1>2, <2>1
    <3>2. /\ c \in s.part
          /\ [cell |-> e.stack[n].cell,
              values |-> Append(e.stack[n].values, s.exact[c])] \in s.runs
      BY <2>1, <2>3, <3>1, TopReads DEF Exactly
    <3>3. g.stack[n] = [cell |-> e.stack[n].cell,
                        values |-> Append(e.stack[n].values, value)]
      BY <3>1, GiveEffect
    <3>4. QED
      BY <2>3, <3>2, <3>3
  <2>4. QED
    BY <2>2, <2>3
<1>5. Falls(s, g)
  BY <1>1 DEF Exactly, Falls, SameStack
<1>6. ASSUME NEW i \in DOMAIN g.stack, i + 1 \in DOMAIN g.stack
      PROVE  ReadsFrom(s, g.stack[i], g.stack[i + 1].cell)
  <2>1. i \in DOMAIN e.stack /\ i + 1 \in DOMAIN e.stack /\ i # n
    BY <1>1, <1>2, <1>6 DEF SameStack
  <2>2. g.stack[i] = e.stack[i] /\ g.stack[i + 1].cell = e.stack[i + 1].cell
    BY <1>1, <2>1 DEF SameStack
  <2>3. QED
    BY <2>1, <2>2 DEF Exactly, Waits
<1>7. QED
  BY <1>3, <1>4, <1>5, <1>6 DEF Exactly, Runs, Waits

\* So does an exact value that is remembered.
LEMMA MemoizeIsExact ==
    ASSUME NEW s, NEW e, Shape(e), Exactly(s, e), NEW c, NEW value \in Values,
           c \in s.part => value = s.exact[c]
    PROVE  /\ Exactly(s, Memoize(e, c, value))
           /\ \A d : TopWaits(s, e, d) => TopWaits(s, Memoize(e, c, value), d)
<1> DEFINE m == Memoize(e, c, value)
<1>1. m.memo = Put(e.memo, c, value) /\ m.stack = e.stack
  BY MemoizeEffect
<1>2. Right(s, m)
  BY <1>1 DEF Exactly, Right, Put
<1>3. QED
  BY <1>1, <1>2 DEF Exactly, Runs, Falls, Waits, TopWaits

\* Under the formula on top is the one that waits for it.
LEMMA PopIsExact ==
    ASSUME NEW s, NEW e, Shape(e), e.stack # <<>>, Exactly(s, e)
    PROVE  Exactly(s, Pop(e)) /\ TopWaits(s, Pop(e), e.stack[Len(e.stack)].cell)
<1> DEFINE n == Len(e.stack)
           p == Pop(e)
<1>1. n \in Nat /\ n > 0 /\ DOMAIN e.stack = 1 .. n
  BY EmptySeq, LenProperties DEF Shape
<1>2. /\ p.memo = e.memo /\ Len(p.stack) = n - 1 /\ DOMAIN p.stack = 1 .. n - 1
      /\ \A i \in 1 .. n - 1 : p.stack[i] = e.stack[i]
  BY PopEffect
<1>3. Right(s, p) /\ Runs(s, p)
  BY <1>1, <1>2 DEF Exactly, Right, Runs
<1>4. ASSUME NEW i \in DOMAIN p.stack, NEW k \in DOMAIN p.stack,
             i < k, p.stack[i].cell \in s.part
      PROVE  p.stack[k].cell \in s.part /\ s.rank[p.stack[k].cell] < s.rank[p.stack[i].cell]
  <2>1. /\ i \in DOMAIN e.stack /\ k \in DOMAIN e.stack
        /\ p.stack[i] = e.stack[i] /\ p.stack[k] = e.stack[k]
    BY <1>1, <1>2
  <2>2. QED
    BY <1>4, <2>1 DEF Exactly, Falls
<1>5. Waits(s, p)
  BY <1>1, <1>2 DEF Exactly, Waits
<1>6. ASSUME p.stack # <<>> PROVE ReadsFrom(s, p.stack[n - 1], e.stack[n].cell)
  <2>1. p.stack \in Seq(Frame)
    BY PopEffect DEF Shape
  <2>2. n - 1 \in 1 .. n - 1
    BY <1>1, <1>2, <1>6, <2>1, EmptySeq
  <2>3. n - 1 \in DOMAIN e.stack /\ (n - 1) + 1 \in DOMAIN e.stack /\ (n - 1) + 1 = n
    BY <1>1, <2>2
  <2>4. ReadsFrom(s, e.stack[n - 1], e.stack[n].cell)
    BY <2>3 DEF Exactly, Waits
  <2>5. QED
    BY <1>2, <2>2, <2>4
<1>7. QED
  BY <1>2, <1>3, <1>4, <1>5, <1>6 DEF Exactly, Falls, TopWaits

\* A formula of the part is not on the stack when a formula of the part, or
\* one that is in its evaluation, asks for it.
LEMMA NotCircular ==
    ASSUME NEW s, IInv(s), ev.unsupported \cap s.part = {}, NEW c \in Cells, Wants(c), OnStack(c)
    PROVE  c \notin s.part
<1> DEFINE n == Len(ev.stack)
<1>1. Exactly(s, ev) /\ TopWaits(s, ev, c) /\ Shape(ev) /\ Given(s)
  BY DEF IInv, Sound, Faithful, Wants
<1>2. PICK i \in DOMAIN ev.stack : ev.stack[i].cell = c
  BY DEF OnStack
<1>3. n \in Nat /\ DOMAIN ev.stack = 1 .. n /\ ev.stack # <<>>
  BY <1>1, <1>2, LenProperties DEF Shape
<1>4. SUFFICES ASSUME c \in s.part PROVE FALSE
  OBVIOUS
<1>5. /\ ev.stack[n].cell \in s.part
      /\ i # n => s.rank[ev.stack[n].cell] < s.rank[c]
  BY <1>1, <1>2, <1>3, <1>4 DEF Exactly, Falls
<1>6. s.rank[c] < s.rank[ev.stack[n].cell]
  BY <1>1, <1>3, <1>5, TopReads DEF Exactly
<1>7. s.rank[c] \in Nat /\ s.rank[ev.stack[n].cell] \in Nat
  BY <1>1, <1>4, <1>5 DEF Given, Solves
<1>8. QED
  BY <1>2, <1>5, <1>6, <1>7

\* A formula that is entered has read nothing, and what asked for it has a
\* higher rank.
LEMMA EnterIsExact ==
    ASSUME NEW s, IInv(s), ev.unsupported \cap s.part = {}, NEW c \in Cells, Enter(c)
    PROVE  Exactly(s, ev') /\ ev'.want = <<>>
<1> DEFINE n == Len(ev.stack)
           frame == [cell |-> c, values |-> <<>>]
           stack == Append(ev.stack, frame)
<1>1. Exactly(s, ev) /\ TopWaits(s, ev, c) /\ Shape(ev) /\ Given(s)
  BY DEF IInv, Sound, Faithful, Enter, FreshFormula, Fresh, Wants
<1>2. ev.stack \in Seq(Frame) /\ n \in Nat /\ DOMAIN ev.stack = 1 .. n
  BY <1>1, LenProperties DEF Shape
<1>3. frame \in Frame
  BY EmptySeq DEF Frame
<1>4. /\ Len(stack) = n + 1 /\ DOMAIN stack = 1 .. n + 1
      /\ stack[n + 1] = frame /\ \A i \in 1 .. n : stack[i] = ev.stack[i]
  BY <1>2, <1>3
<1>5. ev' = [memo |-> ev.memo, unsupported |-> ev.unsupported, stack |-> stack,
             want |-> <<>>, answer |-> ev.answer]
  BY <1>1 DEF Enter, Shape
<1>6. ev'.memo = ev.memo /\ ev'.stack = stack /\ ev'.want = <<>>
  BY <1>5
<1>7. Right(s, ev')
  BY <1>1, <1>6 DEF Exactly, Right
<1>8. c \in s.part => frame \in s.runs
  BY <1>1 DEF Given, Solves, Enter, FreshFormula, Fresh
<1>9. Runs(s, ev')
  BY <1>1, <1>2, <1>4, <1>6, <1>8 DEF Exactly, Runs
<1>10. ASSUME NEW i \in 1 .. n, ev.stack[i].cell \in s.part
       PROVE  c \in s.part /\ s.rank[c] < s.rank[ev.stack[i].cell]
  <2>1. n \in DOMAIN ev.stack /\ i \in DOMAIN ev.stack /\ ev.stack # <<>>
    BY <1>2
  <2>2. /\ ev.stack[n].cell \in s.part
        /\ i # n => s.rank[ev.stack[n].cell] < s.rank[ev.stack[i].cell]
    BY <1>1, <1>2, <1>10, <2>1 DEF Exactly, Falls
  <2>3. c \in s.part /\ s.rank[c] < s.rank[ev.stack[n].cell]
    BY <1>1, <2>1, <2>2, TopReads DEF Exactly
  <2>4. s.rank[c] \in Nat /\ s.rank[ev.stack[n].cell] \in Nat /\ s.rank[ev.stack[i].cell] \in Nat
    BY <1>1, <1>10, <2>2, <2>3 DEF Given, Solves
  <2>5. QED
    BY <2>2, <2>3, <2>4
<1>11. ASSUME NEW i \in 1 .. n + 1, NEW k \in 1 .. n + 1, i < k, stack[i].cell \in s.part
       PROVE  stack[k].cell \in s.part /\ s.rank[stack[k].cell] < s.rank[stack[i].cell]
  <2>1. i \in 1 .. n /\ stack[i] = ev.stack[i]
    BY <1>2, <1>4, <1>11
  <2>2. CASE k = n + 1
    BY <1>4, <1>10, <1>11, <2>1, <2>2
  <2>3. CASE k \in 1 .. n
    BY <1>1, <1>2, <1>4, <1>11, <2>1, <2>3 DEF Exactly, Falls
  <2>4. QED
    BY <1>2, <1>11, <2>2, <2>3
<1>12. ASSUME NEW i \in 1 .. n + 1, i + 1 \in 1 .. n + 1
       PROVE  ReadsFrom(s, stack[i], stack[i + 1].cell)
  <2>1. i \in 1 .. n /\ stack[i] = ev.stack[i]
    BY <1>2, <1>4, <1>12
  <2>2. CASE i = n
    <3>1. ev.stack # <<>> /\ stack[i + 1].cell = c
      BY <1>2, <1>4, <2>1, <2>2
    <3>2. QED
      BY <1>1, <2>1, <2>2, <3>1 DEF TopWaits
  <2>3. CASE i # n
    <3>1. i \in DOMAIN ev.stack /\ i + 1 \in DOMAIN ev.stack
      BY <1>2, <2>1, <2>3
    <3>2. QED
      BY <1>1, <1>2, <1>4, <2>1, <3>1 DEF Exactly, Waits
  <2>4. QED
    BY <2>2, <2>3
<1>13. Falls(s, ev') /\ Waits(s, ev')
  BY <1>4, <1>6, <1>11, <1>12 DEF Falls, Waits
<1>14. QED
  BY <1>6, <1>7, <1>9, <1>13 DEF Exactly

\* A value that is given is the answer to who asked from outside, or is read by a
\* formula on the stack, which keeps its bottom.
LEMMA GiveAnswers ==
    ASSUME NEW s, NEW e, Shape(e), NEW c, NEW value \in Values,
           c \in s.part => value = s.exact[c], NEW asked, Root(e, c, asked)
    PROVE  AskedFor(s, Give(e, value), asked)
<1>1. CASE e.stack = <<>>
  <2>1. Give(e, value) = [memo |-> e.memo, unsupported |-> e.unsupported,
                          stack |-> <<>>, want |-> <<>>, answer |-> <<value>>]
    BY <1>1 DEF Give, Shape
  <2>2. QED
    BY <1>1, <2>1 DEF AskedFor, Root
<1>2. CASE e.stack # <<>>
  <2>1. 1 \in DOMAIN e.stack
    BY <1>2, EmptySeq, LenProperties DEF Shape
  <2>2. /\ Give(e, value).stack[1].cell = e.stack[1].cell
        /\ DOMAIN Give(e, value).stack = DOMAIN e.stack
    BY <2>1, GiveEffect DEF SameStack
  <2>3. Give(e, value).stack # <<>>
    BY <2>1, <2>2
  <2>4. QED
    BY <1>2, <2>2, <2>3 DEF AskedFor, Root
<1>3. QED
  BY <1>1, <1>2

\* What an evaluator is about to be given when it wants c.
LEMMA WantRoots ==
    ASSUME NEW s, NEW c, Wants(c), NEW asked, AskedFor(s, ev, asked)
    PROVE  Root(ev, c, asked)
BY DEF Wants, AskedFor, Root

\* And when the formula on top of its stack ends.
LEMMA PopRoots ==
    ASSUME NEW s, Shape(ev), ev.stack # <<>>, NEW asked, AskedFor(s, ev, asked)
    PROVE  Root(Pop(ev), Top.cell, asked)
<1>1. ev.stack \in Seq(Frame) /\ Pop(ev).stack \in Seq(Frame)
  BY PopEffect DEF Shape
<1>2. Len(ev.stack) \in Nat /\ Len(ev.stack) > 0
  BY <1>1, EmptySeq, LenProperties
<1>3. ev.stack[1].cell = asked
  BY DEF AskedFor
<1>4. CASE Len(ev.stack) = 1
  <2>1. Pop(ev).stack = <<>>
    BY <1>1, <1>4, PopEffect, EmptySeq
  <2>2. QED
    BY <1>3, <1>4, <2>1 DEF Root, Top
<1>5. CASE Len(ev.stack) # 1
  <2>1. 1 \in DOMAIN Pop(ev).stack
    <3>1. DOMAIN Pop(ev).stack = 1 .. Len(ev.stack) - 1
      BY PopEffect
    <3>2. ASSUME NEW n \in Nat, n > 0, n # 1 PROVE 1 \in 1 .. n - 1
      BY <3>2
    <3>3. 1 \in 1 .. Len(ev.stack) - 1
      BY <1>2, <1>5, <3>2
    <3>4. QED
      BY <3>1, <3>3
  <2>2. Pop(ev).stack[1] = ev.stack[1] /\ Pop(ev).stack # <<>>
    BY <2>1, PopEffect
  <2>3. QED
    BY <1>3, <2>2 DEF Root
<1>6. QED
  BY <1>4, <1>5

\* A formula that is entered answers who asked, or is read by one that does.
LEMMA EnterAnswers ==
    ASSUME NEW s, Shape(ev), NEW c \in Cells, Enter(c), NEW asked, AskedFor(s, ev, asked)
    PROVE  AskedFor(s, ev', asked)
<1> DEFINE n == Len(ev.stack)
           frame == [cell |-> c, values |-> <<>>]
           stack == Append(ev.stack, frame)
<1>1. ev.stack \in Seq(Frame) /\ n \in Nat /\ ev.want = <<c>>
  BY LenProperties DEF Shape, Enter, FreshFormula, Fresh, Wants
<1>2. ev' = [memo |-> ev.memo, unsupported |-> ev.unsupported, stack |-> stack,
             want |-> <<>>, answer |-> ev.answer]
  BY DEF Enter, Shape
<1>0. frame \in Frame
  BY EmptySeq DEF Frame
<1>3. stack # <<>> /\ stack[1] = IF n = 0 THEN frame ELSE ev.stack[1]
  <2>1. /\ stack \in Seq(Frame) /\ Len(stack) = n + 1
        /\ stack[n + 1] = frame /\ \A i \in 1 .. n : stack[i] = ev.stack[i]
    BY <1>0, <1>1
  <2>2. n + 1 # 0
    BY <1>1
  <2>3. stack # <<>>
    BY <2>1, <2>2
  <2>4. CASE n = 0
    BY <2>1, <2>3, <2>4
  <2>5. CASE n # 0
    BY <1>1, <2>1, <2>3, <2>5
  <2>6. QED
    BY <2>4, <2>5
<1>4. n = 0 <=> ev.stack = <<>>
  BY <1>1, EmptySeq
<1>5. QED
  BY <1>1, <1>2, <1>3, <1>4 DEF AskedFor

\* Nothing of the part is reported before the step, if nothing is after it.
LEMMA StepIsExact ==
    ASSUME NEW s, IInv(s), Step
    PROVE  /\ Faithful(s, ev')
           /\ ev'.unsupported \cap s.part = {} =>
                /\ ev.unsupported \cap s.part = {}
                /\ \A asked : AskedFor(s, ev, asked) => AskedFor(s, ev', asked)
<1>1. Shape(ev) /\ Typed /\ Given(s) /\ Sound
  BY DEF IInv, Sound
<1> DEFINE Kept == ev.unsupported \cap s.part = {}
           Roots(e, c) == \A asked : AskedFor(s, ev, asked) => Root(e, c, asked)
           Goal == /\ Kept /\ Exactly(s, ev')
                   /\ \A c \in Cells : ev'.want = <<c>> => TopWaits(s, ev', c)
                   /\ \A asked : AskedFor(s, ev, asked) => AskedFor(s, ev', asked)
<1>2. SUFFICES ASSUME ev'.unsupported \cap s.part = {}
               PROVE  Goal
  BY DEF Faithful
<1>3. ASSUME Kept, NEW c \in Cells, Wants(c) PROVE Exactly(s, ev) /\ TopWaits(s, ev, c)
  BY <1>3 DEF IInv, Faithful, Wants
\* A value is given to who waits for c.
<1>0. ASSUME Kept, NEW e, Shape(e), Exactly(s, e), NEW c, TopWaits(s, e, c), Roots(e, c),
             NEW value \in Values, ev' = Give(e, value), c \in s.part => value = s.exact[c]
      PROVE  Goal
  <2>1. Exactly(s, ev')
    BY <1>0, <1>1, GiveIsExact
  <2>2. ev'.want = <<>>
    BY <1>0, GiveEffect
  <2>3. \A asked : AskedFor(s, ev, asked) => AskedFor(s, ev', asked)
    BY <1>0, GiveAnswers
  <2>4. QED
    BY <1>0, <2>1, <2>2, <2>3
<1>4. ASSUME Kept, NEW c \in Cells, Wants(c), NEW value \in Values,
             ev' = Give(ev, value), c \in s.part => value = s.exact[c]
      PROVE  Goal
  <2>1. Exactly(s, ev) /\ TopWaits(s, ev, c)
    BY <1>3, <1>4
  <2>2. Roots(ev, c)
    BY <1>4, WantRoots
  <2>3. QED
    BY <1>0, <1>1, <1>4, <2>1, <2>2
<1>5. ASSUME NEW e, Shape(e), NEW value \in Values, ev' = Give(e, value),
             e.unsupported = ev.unsupported
      PROVE  Kept
  BY <1>2, <1>5, GiveEffect
\* A formula raises, and is noted.
<1>6. ASSUME NEW e, Shape(e), NEW c, Stored(c) \in Values, ev' = FailedAs(e, c),
             e.unsupported = ev.unsupported, Roots(e, c),
             Kept => Exactly(s, e) /\ TopWaits(s, e, c)
      PROVE  Goal
  <2> DEFINE m == Memoize(e, c, Stored(c))
             f == [m EXCEPT !.unsupported = @ \cup {c}]
  <2>1. ev'.unsupported = ev.unsupported \cup {c}
    BY <1>6, FailedEffect
  <2>2. c \notin s.part /\ Kept
    BY <1>2, <2>1
  <2>3. Shape(m) /\ Exactly(s, m) /\ TopWaits(s, m, c) /\ m.stack = e.stack
    BY <1>6, <2>2, MemoizeEffect, MemoizeIsExact
  <2> HIDE DEF m
  <2>4. f = [memo |-> m.memo, unsupported |-> m.unsupported \cup {c},
             stack |-> m.stack, want |-> m.want, answer |-> m.answer]
    BY <2>3, Fields
  <2>5. f.memo = m.memo /\ f.stack = m.stack /\ Shape(f)
    BY <2>3, <2>4 DEF Shape
  <2>6. ev' = Give(f, Stored(c))
    BY <1>6 DEF FailedAs, m
  <2> HIDE DEF f
  <2>7. Exactly(s, f) /\ TopWaits(s, f, c)
    BY <2>3, <2>5 DEF Exactly, Right, Runs, Falls, Waits, TopWaits
  <2>8. Roots(f, c)
    BY <1>6, <2>3, <2>5 DEF Root
  <2>9. QED
    BY <1>0, <1>6, <2>2, <2>5, <2>6, <2>7, <2>8
\* What is left when the formula on top has ended.
<1>7. ASSUME ev.stack # <<>>
      PROVE  /\ Shape(Pop(ev)) /\ Pop(ev).unsupported = ev.unsupported
             /\ Stored(Top.cell) \in Values /\ Roots(Pop(ev), Top.cell)
             /\ Kept => Exactly(s, Pop(ev)) /\ TopWaits(s, Pop(ev), Top.cell)
  <2>1. Kept => Exactly(s, ev)
    BY DEF IInv, Faithful
  <2>2. Roots(Pop(ev), Top.cell)
    BY <1>1, <1>7, PopRoots
  <2>3. QED
    BY <1>1, <1>7, <2>1, <2>2, PopEffect, PopIsExact, TopEffect DEF Top
<1>9. ASSUME NEW c \in Cells, Overridden(c) PROVE Goal
  <2>1. overrides[c] \in Values /\ (c \in s.part => overrides[c] = s.exact[c])
    BY <1>1, <1>9 DEF Overridden, Given, Typed, WellTyped, Solves
  <2>2. Kept
    BY <1>1, <1>5, <1>9, <2>1 DEF Overridden
  <2>3. QED
    BY <1>4, <1>9, <2>1, <2>2 DEF Overridden
<1>10. ASSUME NEW c \in Cells, Memoized(c) PROVE Goal
  <2>1. ev.memo[c] \in Values
    BY <1>1, <1>10 DEF Memoized, Shape
  <2>2. Kept
    BY <1>1, <1>5, <1>10, <2>1 DEF Memoized
  <2>3. c \in s.part => ev.memo[c] = s.exact[c]
    BY <1>3, <1>10, <2>2 DEF Memoized, Exactly, Right
  <2>4. QED
    BY <1>4, <1>10, <2>1, <2>2, <2>3 DEF Memoized
<1>11. ASSUME NEW c \in Cells, Missing(c) PROVE Goal
  <2>1. None \in Values /\ (c \in s.part => None = s.exact[c])
    BY <1>1, <1>11 DEF Missing, Fresh, Given, Typed, WellTyped, Solves
  <2>2. Kept
    BY <1>1, <1>5, <1>11, <2>1 DEF Missing
  <2>3. QED
    BY <1>4, <1>11, <2>1, <2>2 DEF Missing, Fresh
<1>12. ASSUME NEW c \in Cells, Constant(c) PROVE Goal
  <2> DEFINE m == Memoize(ev, c, Stored(c))
  <2>1. Stored(c) \in Values /\ (c \in s.part => Stored(c) = s.exact[c])
    BY <1>1, <1>12 DEF Constant, Fresh, Given, Typed, WellTyped, Solves, Stored
  <2>2. Shape(m) /\ m.unsupported = ev.unsupported /\ ev' = Give(m, Stored(c))
    BY <1>1, <1>12, <2>1, MemoizeEffect DEF Constant
  <2>3. Kept
    BY <1>5, <2>1, <2>2
  <2>4. Exactly(s, m) /\ TopWaits(s, m, c)
    BY <1>1, <1>3, <1>12, <2>1, <2>3, MemoizeIsExact DEF Constant, Fresh
  <2>5. Roots(m, c)
    BY <1>1, <1>12, <2>1, WantRoots, MemoizeEffect DEF Constant, Fresh, Root
  <2>6. QED
    BY <1>0, <2>1, <2>2, <2>3, <2>4, <2>5
<1>13. ASSUME NEW c \in Cells, FreshFormula(c) PROVE Stored(c) \in Values /\ Wants(c)
  BY <1>1, <1>13 DEF FreshFormula, Fresh, Typed, WellTyped, Stored
<1>14. ASSUME NEW c \in Cells, Circular(c) PROVE Goal
  <2>1. Kept
    BY <1>1, <1>5, <1>13, <1>14 DEF Circular
  <2>2. c \notin s.part
    BY <1>13, <1>14, <2>1, NotCircular DEF Circular
  <2>3. QED
    BY <1>4, <1>13, <1>14, <2>1, <2>2 DEF Circular
<1>15. ASSUME NEW c \in Cells, Enter(c) PROVE Goal
  <2>1. Kept
    BY <1>1, <1>2, <1>15 DEF Enter, Shape
  <2>2. ASSUME NEW asked, AskedFor(s, ev, asked) PROVE AskedFor(s, ev', asked)
    BY <1>1, <1>15, <2>2, EnterAnswers
  <2>3. QED
    BY <1>15, <2>1, <2>2, EnterIsExact
<1>16. ASSUME NEW c \in Cells, TooDeep(c) PROVE Goal
  <2>1. CASE FreshFormula(c) /\ ev' = FailedAs(ev, c)
    BY <1>1, <1>3, <1>6, <1>13, <2>1, WantRoots
  <2>2. CASE ev' = FailedAs(Pop(ev), Top.cell)
    <3>1. ev.stack # <<>>
      BY <1>1, <1>16 DEF TooDeep, Typed, WellTyped
    <3>2. QED
      BY <1>6, <1>7, <2>2, <3>1
  <2>3. QED
    BY <1>16, <2>1, <2>2 DEF TooDeep
<1>17. CASE Read
  <2>1. ev'.memo = ev.memo /\ ev'.stack = ev.stack /\ ev'.unsupported = ev.unsupported
    BY <1>1, <1>17 DEF Read, Shape
  <2>2. ev'.want = <<Doing.cell>> /\ Doing.kind = "read"
    BY <1>1, <1>17 DEF Read, Shape
  <2>3. Exactly(s, ev)
    BY <1>2, <2>1 DEF IInv, Faithful
  <2>4. Exactly(s, ev')
    BY <2>1, <2>3 DEF Exactly, Right, Runs, Falls, Waits
  <2>5. TopWaits(s, ev', Doing.cell)
    BY <2>1, <2>2 DEF TopWaits, ReadsFrom, Doing, Top
  <2>6. \A asked : AskedFor(s, ev, asked) => AskedFor(s, ev', asked)
    BY <1>17, <2>1 DEF Read, Reading, AskedFor
  <2>7. Kept
    BY <1>2, <2>1
  <2>8. QED
    BY <2>2, <2>4, <2>5, <2>6, <2>7
<1>18. CASE Finish
  <2> DEFINE value == Doing.value
             m == Memoize(Pop(ev), Top.cell, value)
  <2>1. ev.stack # <<>> /\ Doing.kind = "value" /\ ev' = Give(m, value)
    BY <1>18 DEF Finish, Reading
  <2>2. Top \in Frame /\ value \in Values
    BY <1>1, <2>1, TopEffect DEF Doing, Typed, WellTyped, DoingOf, IsFormula
  <2>3. Shape(m) /\ m.unsupported = ev.unsupported
    BY <1>7, <2>1, <2>2, MemoizeEffect
  <2>4. Kept
    BY <1>5, <2>1, <2>2, <2>3
  <2>5. Top.cell \in s.part => Top \in s.runs
    <3>1. Len(ev.stack) \in DOMAIN ev.stack
      BY <1>1, <2>1, TopEffect
    <3>2. QED
      BY <2>4, <3>1 DEF IInv, Faithful, Exactly, Runs, Top
  <2>6. Top.cell \in s.part => value = s.exact[Top.cell]
    BY <1>1, <2>1, <2>5 DEF Given, Solves, Doing, DoingOf
  <2>7. Exactly(s, m) /\ TopWaits(s, m, Top.cell)
    BY <1>7, <2>1, <2>2, <2>4, <2>6, MemoizeIsExact
  <2>8. Roots(m, Top.cell)
    BY <1>7, <2>1, <2>2, MemoizeEffect DEF Root
  <2>9. QED
    BY <1>0, <2>1, <2>2, <2>3, <2>4, <2>6, <2>7, <2>8
<1>19. CASE Fail
  BY <1>6, <1>7, <1>19 DEF Fail, Reading
<1>20. QED
  BY <1>9, <1>10, <1>11, <1>12, <1>14, <1>15, <1>16, <1>17, <1>18, <1>19 DEF Step

\* A cell that is asked for is asked for, and the rest is as it was.
LEMMA AskIsExact ==
    ASSUME NEW s, IInv(s), NEW c \in Cells, Ask(c)
    PROVE  /\ Faithful(s, ev') /\ AskedFor(s, ev', c)
           /\ ev'.unsupported = ev.unsupported
<1>1. /\ ev'.memo = ev.memo /\ ev'.stack = <<>> /\ ev'.unsupported = ev.unsupported
      /\ ev'.want = <<c>> /\ ev.stack = <<>>
  BY DEF IInv, Sound, Shape, Ask, Idle
<1>2. QED
  BY <1>1 DEF IInv, Faithful, Exactly, Right, Runs, Falls, Waits, TopWaits, AskedFor

\* What is reported stays reported.
LEMMA StepReports ==
    ASSUME Sound, Step
    PROVE  ev.unsupported \subseteq ev'.unsupported
<1>1. Shape(ev) /\ Typed
  BY DEF Sound
<1>2. ASSUME NEW e, Shape(e), NEW value \in Values, ev' = Give(e, value),
             e.unsupported = ev.unsupported
      PROVE  ev.unsupported \subseteq ev'.unsupported
  BY <1>2, GiveEffect
<1>3. ASSUME NEW e, Shape(e), NEW c, Stored(c) \in Values, ev' = FailedAs(e, c),
             e.unsupported = ev.unsupported
      PROVE  ev.unsupported \subseteq ev'.unsupported
  BY <1>3, FailedEffect
<1>4. ASSUME ev.stack # <<>>
      PROVE  /\ Shape(Pop(ev)) /\ Pop(ev).unsupported = ev.unsupported
             /\ Top \in Frame /\ IsFormula(Top.cell) /\ Stored(Top.cell) \in Values
  BY <1>1, <1>4, PopEffect, TopEffect
<1>5. ASSUME NEW c \in DOMAIN workbook PROVE Stored(c) \in Values
  BY <1>1 DEF Typed, WellTyped, Stored
<1>6. ASSUME NEW c \in Cells,
             Overridden(c) \/ Memoized(c) \/ Missing(c) \/ Constant(c) \/ Circular(c)
      PROVE  ev.unsupported \subseteq ev'.unsupported
  <2>1. CASE Overridden(c)
    BY <1>1, <1>2, <2>1 DEF Overridden, Typed, WellTyped
  <2>2. CASE Memoized(c)
    BY <1>1, <1>2, <2>2 DEF Memoized, Shape
  <2>3. CASE Missing(c)
    BY <1>1, <1>2, <2>3 DEF Missing, Typed, WellTyped
  <2>4. CASE Constant(c)
    <3>1. Stored(c) \in Values /\ ev' = Give(Memoize(ev, c, Stored(c)), Stored(c))
      BY <1>5, <2>4 DEF Constant
    <3>2. /\ Shape(Memoize(ev, c, Stored(c)))
          /\ Memoize(ev, c, Stored(c)).unsupported = ev.unsupported
      BY <1>1, <3>1, MemoizeEffect
    <3>3. QED
      BY <1>2, <3>1, <3>2
  <2>5. CASE Circular(c)
    BY <1>1, <1>2, <1>5, <2>5 DEF Circular, FreshFormula
  <2>6. QED
    BY <1>6, <2>1, <2>2, <2>3, <2>4, <2>5
<1>7. ASSUME NEW c \in Cells, Enter(c) PROVE ev.unsupported \subseteq ev'.unsupported
  BY <1>1, <1>7 DEF Enter, Shape
<1>8. ASSUME NEW c \in Cells, TooDeep(c) PROVE ev.unsupported \subseteq ev'.unsupported
  <2>1. CASE FreshFormula(c) /\ ev' = FailedAs(ev, c)
    BY <1>1, <1>3, <1>5, <2>1 DEF FreshFormula
  <2>2. CASE ev' = FailedAs(Pop(ev), Top.cell)
    <3>1. ev.stack # <<>>
      BY <1>1, <1>8 DEF TooDeep, Typed, WellTyped
    <3>2. QED
      BY <1>3, <1>4, <2>2, <3>1
  <2>3. QED
    BY <1>8, <2>1, <2>2 DEF TooDeep
<1>9. CASE Read
  BY <1>1, <1>9 DEF Read, Shape
<1>10. CASE Finish
  <2> DEFINE m == Memoize(Pop(ev), Top.cell, Doing.value)
  <2>1. ev.stack # <<>> /\ ev' = Give(m, Doing.value)
    BY <1>10 DEF Finish, Reading
  <2>2. Doing.value \in Values
    BY <1>1, <1>4, <1>10, <2>1 DEF Finish, Doing, DoingOf, Typed, WellTyped, IsFormula
  <2>3. Shape(m) /\ m.unsupported = ev.unsupported
    BY <1>4, <2>1, <2>2, MemoizeEffect
  <2>4. QED
    BY <1>2, <2>1, <2>2, <2>3
<1>11. CASE Fail
  BY <1>3, <1>4, <1>11 DEF Fail, Reading
<1>12. QED
  BY <1>6, <1>7, <1>8, <1>9, <1>10, <1>11 DEF Step

\* An evaluator that is idle does nothing.
LEMMA IdleRests == Idle /\ Typed => ~Step
BY EmptySeq DEF Idle, Step, Overridden, Memoized, Missing, Constant, Circular, Enter, TooDeep,
   FreshFormula, Fresh, Wants, Read, Finish, Fail, Reading

\* A new evaluator has nothing that could be wrong.
LEMMA NewIsExact ==
    ASSUME NEW s, Given(s), ev = NewEvaluator
    PROVE  IInv(s) /\ Idle /\ ev.answer = <<>>
BY EmptySeq DEF NewEvaluator, IInv, Given, Sound, Shape, Bounded, Typed, WellTyped,
   Faithful, Exactly, Right, Runs, Falls, Waits, Idle

\* The invariant does not depend on what was answered last.
LEMMA AnswersAreFree ==
    ASSUME NEW s, IInv(s), UNCHANGED <<workbook, overrides>>,
           NEW answer, ev' = [ev EXCEPT !.answer = answer]
    PROVE  /\ IInv(s)' /\ ev'.unsupported = ev.unsupported
           /\ ev'.answer = answer /\ (Idle => Idle')
<1>1. ev' = [memo |-> ev.memo, unsupported |-> ev.unsupported, stack |-> ev.stack,
             want |-> ev.want, answer |-> answer]
  BY DEF IInv, Sound, Shape
<1>2. Shape(ev)' /\ Bounded(ev)'
  BY <1>1 DEF IInv, Sound, Shape, Bounded, IsFormula
<1>3. Faithful(s, ev)'
  BY <1>1 DEF IInv, Faithful, Exactly, Right, Runs, Falls, Waits, TopWaits, ReadsFrom, DoingOf
<1>4. Given(s)' /\ Typed'
  BY DEF IInv, Given, Sound, Typed
<1>5. QED
  BY <1>1, <1>2, <1>3, <1>4 DEF IInv, Sound, Idle

\* Every step and every question keeps the invariant.
LEMMA StepKeeps ==
    ASSUME NEW s, IInv(s), Step \/ \E c \in Cells : Ask(c), UNCHANGED <<workbook, overrides>>
    PROVE  IInv(s)'
<1>1. Shape(ev') /\ Bounded(ev') /\ Faithful(s, ev')
  BY StepIsSound, StepIsExact, AskIsExact DEF IInv
<1>2. Given(s)' /\ Typed'
  BY DEF IInv, Given, Sound, Typed
<1>3. Shape(ev)' /\ Bounded(ev)'
  BY <1>1 DEF Shape, Bounded, IsFormula
<1>4. Faithful(s, ev)'
  BY <1>1 DEF Faithful, Exactly, Right, Runs, Falls, Waits, TopWaits, ReadsFrom, DoingOf
<1>5. QED
  BY <1>2, <1>3, <1>4 DEF IInv, Sound

LEMMA RestKeeps ==
    ASSUME NEW s, IInv(s), UNCHANGED vars
    PROVE  IInv(s)'
<1>1. ev' = [ev EXCEPT !.answer = ev.answer]
  BY DEF vars, IInv, Sound, Shape
<1>2. QED
  BY <1>1, AnswersAreFree DEF vars

\* What the invariant is for.
LEMMA InvariantSays ==
    ASSUME NEW s, IInv(s)
    PROVE  RightUnlessReported(s) /\ NoRepeats /\ (Idle => ~Step)
BY IdleRests DEF IInv, Sound, Bounded, NoRepeats, Faithful, Exactly, Right, RightUnlessReported

\* What the evaluator remembers of an acyclic part of a workbook is what its
\* formulas define, whatever is evaluated around it, as long as no formula of
\* the part is reported as unsupported.
THEOREM RememberedValuesAreRight ==
    ASSUME NEW s
    PROVE  Spec /\ Given(s) => []RightUnlessReported(s)
<1>1. Init /\ Given(s) => IInv(s)
  BY NewIsExact DEF Init
<1>2. IInv(s) /\ [Next]_vars => IInv(s)'
  <2>1. ASSUME IInv(s), Next PROVE IInv(s)'
    BY <2>1, StepKeeps DEF Next
  <2>2. QED
    BY <2>1, RestKeeps
<1>3. IInv(s) => RightUnlessReported(s)
  BY InvariantSays
<1>4. QED
  BY <1>1, <1>2, <1>3, PTL DEF Spec
=============================================================================
